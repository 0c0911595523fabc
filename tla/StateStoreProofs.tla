-------------------------- MODULE StateStoreProofs --------------------------
(***************************************************************************)
(* The state service keeps its promises for any number of threads, calls   *)
(* and I/O errors: its type invariant, its safety invariants, and the      *)
(* implementation of the atomic counter.                                   *)
(***************************************************************************)
EXTENDS StateStore, TLAPS

USE NoThreadAssumption, InitialValueAssumption, MaxCallsAssumption,
    IOErrorsAssumption

(* The files the service makes are files.                                  *)
LEMMA FileType ==
  /\ NoFile \in File
  /\ \A n \in Nat : Valid(n) \in File
  /\ Broken("torn") \in File /\ Broken("malformed") \in File
  /\ Broken("undecodable") \in File
  /\ \A f \in File : f.value \in Nat
  BY DEF File, NoFile, Valid, Broken

(* The initial state is well typed.                                        *)
LEMMA TypeInit == Init => TypeOK
<1> SUFFICES ASSUME Init PROVE TypeOK
  OBVIOUS
<1>1. target \in File /\ tmp \in File /\ target.value \in Nat
  BY FileType DEF Init
<1>2. disk \in SUBSET File /\ acked \in SUBSET Nat /\ calls \in 0..MaxCalls
  BY <1>1 DEF Init
<1>3. /\ up \in BOOLEAN /\ tmpSynced \in BOOLEAN /\ dirWorks \in BOOLEAN
      /\ lock \in Threads \cup {NoThread}
      /\ pc \in [Threads -> {"idle", "acquire", "reply"} \cup Locked]
      /\ op \in [Threads -> Ops]
      /\ record \in [Threads -> Nat]
      /\ status \in [Threads -> {0, 200, 500, 503}]
  BY DEF Init, Ops
<1> QED
  BY <1>1, <1>2, <1>3 DEF TypeOK

Places == {"idle", "acquire", "reply"} \cup Locked

(* A thread that moves to a place leaves pc well typed.                    *)
LEMMA GotoType ==
  ASSUME TypeOK, NEW t \in Threads, NEW from, NEW to \in Places,
         Goto(t, from, to)
  PROVE  pc' \in [Threads -> Places]
  BY DEF TypeOK, Goto, Places

(* So does one that finishes its locked block, for the lock and statuses too.*)
LEMMA FinishType ==
  ASSUME TypeOK, NEW t \in Threads, NEW from, NEW outcome,
         Finish(t, from, outcome)
  PROVE  /\ pc' \in [Threads -> Places]
         /\ lock' \in Threads \cup {NoThread}
         /\ status' \in [Threads -> {0, 200, 500, 503}]
<1>1. pc' \in [Threads -> Places] /\ lock' \in Threads \cup {NoThread}
  BY DEF TypeOK, Finish, Goto, Places
<1>2. StatusOf(op[t], outcome) \in {0, 200, 500, 503}
  BY DEF StatusOf
<1>3. status' \in [Threads -> {0, 200, 500, 503}]
  BY <1>2 DEF TypeOK, Finish
<1> QED
  BY <1>1, <1>3

(* Every step keeps the types, one action at a time.                       *)
LEMMA TypeStep == TypeOK /\ [Next]_vars => TypeOK'
<1> SUFFICES ASSUME TypeOK, [Next]_vars PROVE TypeOK'
  OBVIOUS
<1>t. {"idle", "acquire", "reply"} \cup Locked = Places
  BY DEF Places
<1>v. target.value \in Nat /\ target.value + 1 \in Nat
  BY FileType DEF TypeOK
<1>1. ASSUME NEW t \in Threads, NEW o \in Ops, Call(t, o) PROVE TypeOK'
  BY <1>1 DEF TypeOK, Call, Goto, files
<1>2. ASSUME NEW t \in Threads, Acquire(t) PROVE TypeOK'
  BY <1>2 DEF TypeOK, Acquire, Goto, Locked, files
<1>3. ASSUME NEW t \in Threads, Load(t) PROVE TypeOK'
  <2>1. record' \in [Threads -> Nat]
    BY <1>3, <1>v DEF Load, TypeOK
  <2>2. CASE Goto(t, "load", "open") /\ UNCHANGED <<lock, status>>
    <3>1. pc' \in [Threads -> Places]
      BY <2>2, GotoType DEF Places, Locked
    <3> QED
      BY <1>3, <2>1, <2>2, <3>1, <1>t DEF Load, TypeOK, files
  <2>3. CASE Finish(t, "load", ReadOutcome(target))
    BY <1>3, <2>1, <2>3, FinishType, <1>t DEF Load, TypeOK, files
  <2> QED
    BY <1>3, <2>2, <2>3 DEF Load
<1>4. ASSUME NEW t \in Threads, LoadFails(t) \/ OpenTmpFails(t) PROVE TypeOK'
  <2>1. \E from, outcome : Finish(t, from, outcome)
    <3>1. CASE LoadFails(t)
      BY <3>1, Zenon DEF LoadFails
    <3>2. CASE OpenTmpFails(t)
      BY <3>2, Zenon DEF OpenTmpFails
    <3> QED
      BY <1>4, <3>1, <3>2
  <2>2. UNCHANGED <<up, op, record, files, dirWorks, calls, acked>>
    BY <1>4, Zenon DEF LoadFails, OpenTmpFails
  <2> QED
    BY <2>1, <2>2, FinishType, <1>t DEF TypeOK, files
<1>5. ASSUME NEW t \in Threads, OpenTmp(t) \/ WriteTmp(t) \/ FsyncTmp(t)
      PROVE  TypeOK'
  <2>1. pc' \in [Threads -> Places]
    BY <1>5, GotoType DEF OpenTmp, WriteTmp, FsyncTmp, Places, Locked
  <2>2. CASE OpenTmp(t)
    BY <2>1, <2>2, FileType, <1>t DEF OpenTmp, TypeOK
  <2>3. CASE WriteTmp(t)
    <3>1. tmp' \in File
      BY <2>3, FileType DEF WriteTmp, TypeOK
    <3> QED
      BY <2>1, <2>3, <3>1, <1>t DEF WriteTmp, TypeOK
  <2>4. CASE FsyncTmp(t)
    BY <2>1, <2>4, <1>t DEF FsyncTmp, TypeOK
  <2> QED
    BY <1>5, <2>2, <2>3, <2>4
<1>6. ASSUME NEW t \in Threads, Replace(t) PROVE TypeOK'
  <2>1. pc' \in [Threads -> Places]
    BY <1>6, GotoType DEF Replace, Places, Locked
  <2>2. target' \in File /\ tmp' \in File /\ disk' \in SUBSET File
    BY <1>6, FileType DEF Replace, Renamed, TypeOK
  <2> QED
    BY <1>6, <2>1, <2>2, <1>t DEF Replace, TypeOK
<1>7. ASSUME NEW t \in Threads, WriteFails(t) PROVE TypeOK'
  <2>1. pc' \in [Threads -> Places]
    BY <1>7, GotoType DEF WriteFails, Places, Locked
  <2> QED
    BY <1>7, <2>1, <1>t DEF WriteFails, TypeOK, files
<1>8. ASSUME NEW t \in Threads, Unlink(t) PROVE TypeOK'
  <2>1. tmp' \in File
    BY <1>8, FileType DEF Unlink, TypeOK
  <2> QED
    BY <1>8, <2>1, FinishType, <1>t DEF Unlink, TypeOK
<1>9. ASSUME NEW t \in Threads, FsyncDir(t) PROVE TypeOK'
  <2>1. disk' \in SUBSET File
    BY <1>9 DEF FsyncDir, TypeOK
  <2> QED
    BY <1>9, <2>1, FinishType, <1>t DEF FsyncDir, TypeOK
<1>10. ASSUME NEW t \in Threads, Reply(t) PROVE TypeOK'
  BY <1>10 DEF Reply, Goto, TypeOK, files
<1>11. CASE ProcessDies
  BY <1>11 DEF ProcessDies, ThreadsGone, TypeOK, files
<1>12. CASE PowerLoss
  <2>1. target' \in File /\ tmp' \in File /\ disk' \in SUBSET File
    BY <1>12, FileType DEF PowerLoss, TypeOK
  <2> QED
    BY <1>12, <2>1 DEF PowerLoss, ThreadsGone, TypeOK
<1>13. CASE Start
  BY <1>13 DEF Start, TypeOK, files
<1>14. CASE UNCHANGED vars
  BY <1>14 DEF vars, TypeOK, files
<1> QED
  BY <1>1, <1>2, <1>3, <1>4, <1>5, <1>6, <1>7, <1>8, <1>9, <1>10, <1>11,
     <1>12, <1>13, <1>14 DEF Next, ThreadStep

(* Every variable keeps its type in every behaviour.                       *)
THEOREM TypeCorrect == Spec => []TypeOK
  BY TypeInit, TypeStep, PTL DEF Spec
-----------------------------------------------------------------------------
(* A volume as it was found satisfies the invariant.                       *)
LEMMA InvInit == Init => Inv
<1> SUFFICES ASSUME Init PROVE Inv
  OBVIOUS
<1>1. TypeOK
  BY TypeInit
<1>2. \A t \in Threads : pc[t] = "idle"
  BY DEF Init
<1>3. LockOwner /\ WriterInv /\ AnswerInv /\ UniqueResults /\ CorruptNeverServed
  BY <1>2 DEF Init, LockOwner, Locked, WriterInv, AnswerInv, UniqueResults,
              CorruptNeverServed, Incremented, Done
<1>4. target.form # "torn"
  BY DEF Init, NoFile, Valid, Broken
<1>5. target.value \in Nat
  BY <1>1, FileType DEF TypeOK
<1>6. DiskInv /\ NeverTorn /\ AckedDurable
  BY <1>4, <1>5 DEF Init, DiskInv, NeverTorn, AckedDurable
<1> QED
  BY <1>1, <1>3, <1>6 DEF Inv

(* The lock's holder is the only thread in its locked block.               *)
LEMMA OnlyHolder ==
  ASSUME Inv, NEW t \in Threads, pc[t] \in Locked
  PROVE  lock = t /\ \A u \in Threads : u # t => pc[u] \notin Locked
  BY DEF Inv, LockOwner

(* Moving within the locked block, or outside it, leaves the lock alone.   *)
LEMMA LockGoto ==
  ASSUME Inv, NEW t \in Threads, NEW from, NEW to, Goto(t, from, to),
         from \in Locked <=> to \in Locked, UNCHANGED lock
  PROVE  LockOwner'
  BY DEF Inv, TypeOK, LockOwner, Goto, Locked

(* Finishing the locked block frees the lock.                              *)
LEMMA LockFinish ==
  ASSUME Inv, NEW t \in Threads, NEW from \in Locked, NEW outcome,
         Finish(t, from, outcome)
  PROVE  LockOwner'
<1>1. pc[t] \in Locked /\ pc' = [pc EXCEPT ![t] = "reply"] /\ lock' = NoThread
  BY DEF Finish, Goto
<1>2. \A u \in Threads : pc'[u] \notin Locked
  BY <1>1, OnlyHolder DEF Inv, TypeOK, Locked
<1> QED
  BY <1>1, <1>2, NoThreadAssumption DEF LockOwner

(* A thread that leaves its locked block leaves nothing to rely on.        *)
LEMMA WriterFinish ==
  ASSUME Inv, NEW t \in Threads, NEW from \in Locked, NEW outcome,
         Finish(t, from, outcome)
  PROVE  WriterInv'
<1>1. pc[t] \in Locked /\ pc' = [pc EXCEPT ![t] = "reply"]
  BY DEF Finish, Goto
<1>2. \A u \in Threads : pc'[u] \notin Locked
  BY <1>1, OnlyHolder DEF Inv, TypeOK, Locked
<1> QED
  BY <1>2 DEF WriterInv, Locked

(* A step that leaves the file alone and answers no increment keeps what   *)
(* the file and the answers promise.                                       *)
LEMMA Quiet ==
  ASSUME Inv, UNCHANGED <<target, disk, dirWorks, acked>>,
         \A u \in Threads : Incremented(u)' =>
           Incremented(u) /\ record'[u] = record[u] /\ pc'[u] = pc[u],
         \A u \in Threads : pc'[u] = "reply" /\ status'[u] = 200 =>
           Loadable(target)
  PROVE  /\ DiskInv' /\ AnswerInv' /\ NeverTorn'
         /\ UniqueResults' /\ AckedDurable' /\ CorruptNeverServed'
<1>1. DiskInv' /\ NeverTorn' /\ AckedDurable'
  BY DEF Inv, DiskInv, NeverTorn, AckedDurable
<1>2. AnswerInv'
  BY DEF Inv, AnswerInv
<1>3. UniqueResults'
  BY DEF Inv, UniqueResults
<1>4. CorruptNeverServed'
  BY DEF CorruptNeverServed
<1> QED
  BY <1>1, <1>2, <1>3, <1>4

(* The steps that leave file and answers alone.                            *)
LEMMA QuietSteps ==
  ASSUME Inv, TypeOK', NEW t \in Threads, NEW o \in Ops,
         \/ Call(t, o) \/ Acquire(t) \/ Load(t) \/ LoadFails(t)
         \/ OpenTmp(t) \/ OpenTmpFails(t) \/ WriteTmp(t) \/ FsyncTmp(t)
         \/ WriteFails(t) \/ Unlink(t)
  PROVE  Inv'
<1> USE DEF Inv
<1>v. target.value \in Nat
  BY FileType DEF TypeOK
<1>q. ASSUME UNCHANGED <<target, disk, dirWorks, acked>>, LockOwner', WriterInv',
             \A u \in Threads : Incremented(u)' =>
               Incremented(u) /\ record'[u] = record[u] /\ pc'[u] = pc[u],
             \A u \in Threads : pc'[u] = "reply" /\ status'[u] = 200 =>
               Loadable(target)
      PROVE  Inv'
  BY <1>q, Quiet
<1>1. CASE Call(t, o)
  <2>1. LockOwner'
    BY <1>1, LockGoto DEF Call, Locked
  <2>2. WriterInv'
    BY <1>1 DEF Call, Goto, files, TypeOK, WriterInv
  <2> QED
    BY <1>1, <1>q, <2>1, <2>2 DEF Call, Goto, files, TypeOK, Incremented, Done,
       CorruptNeverServed
<1>2. CASE Acquire(t)
  <2>1. LockOwner'
    BY <1>2, NoThreadAssumption DEF Acquire, Goto, TypeOK, LockOwner, Locked
  <2>2. WriterInv'
    BY <1>2 DEF Acquire, Goto, files, TypeOK, WriterInv
  <2> QED
    BY <1>2, <1>q, <2>1, <2>2 DEF Acquire, Goto, files, TypeOK, Incremented,
       Done, CorruptNeverServed
<1>3. CASE Load(t)
  <2>1. CASE Finish(t, "load", ReadOutcome(target))
    <3>1. LockOwner' /\ WriterInv'
      BY <2>1, LockFinish, WriterFinish DEF Locked
    <3>2. ReadOutcome(target) = "ok" => Loadable(target) /\ op[t] # "increment"
      BY <1>3, <2>1 DEF Load, ReadOutcome, Finish, Goto, TypeOK
    <3>3. StatusOf(op[t], ReadOutcome(target)) = 200 => ReadOutcome(target) = "ok"
      BY DEF StatusOf
    <3> QED
      BY <1>3, <1>q, <2>1, <3>1, <3>2, <3>3 DEF Load, Finish, Goto, files,
         TypeOK, Incremented, Done, CorruptNeverServed
  <2>2. CASE /\ ReadOutcome(target) = "ok" /\ op[t] = "increment"
             /\ Goto(t, "load", "open") /\ UNCHANGED <<lock, status>>
    <3>1. LockOwner'
      BY <2>2, LockGoto DEF Locked
    <3>2. pc[t] \in Locked
      BY <2>2 DEF Goto, Locked
    <3>3. \A u \in Threads : u # t => pc'[u] = pc[u] /\ pc[u] \notin Locked
      BY <2>2, <3>2, OnlyHolder DEF Goto, TypeOK
    <3>4. Loadable(target)
      BY <2>2 DEF ReadOutcome
    <3>5. WriterInv'
      BY <1>3, <1>v, <2>2, <3>3, <3>4 DEF Load, Goto, files, TypeOK, WriterInv,
         Locked
    <3> QED
      BY <1>3, <1>q, <2>2, <3>1, <3>5 DEF Load, Goto, files, TypeOK,
         Incremented, Done, CorruptNeverServed
  <2> QED
    BY <1>3, <2>1, <2>2 DEF Load
<1>4. CASE LoadFails(t) \/ OpenTmpFails(t)
  <2>1. \E from \in Locked, outcome \in {"corrupt", "error"} :
          Finish(t, from, outcome)
    <3>1. CASE LoadFails(t)
      BY <3>1 DEF LoadFails, Locked
    <3>2. CASE OpenTmpFails(t)
      BY <3>2 DEF OpenTmpFails, Locked
    <3> QED
      BY <1>4, <3>1, <3>2
  <2>2. UNCHANGED <<up, op, record, files, dirWorks, calls, acked>>
    BY <1>4, Zenon DEF LoadFails, OpenTmpFails
  <2>3. PICK from \in Locked, outcome \in {"corrupt", "error"} :
          Finish(t, from, outcome)
    BY <2>1
  <2>4. LockOwner' /\ WriterInv'
    BY <2>3, LockFinish, WriterFinish
  <2>5. status'[t] # 200 /\ pc'[t] = "reply"
    BY <2>3 DEF Finish, StatusOf, TypeOK, Goto
  <2> QED
    BY <1>q, <2>2, <2>3, <2>4, <2>5 DEF Finish, Goto, files, TypeOK,
       Incremented, Done, CorruptNeverServed
<1>5. CASE OpenTmp(t) \/ WriteTmp(t) \/ FsyncTmp(t)
  <2>1. pc[t] \in Locked
    BY <1>5 DEF OpenTmp, WriteTmp, FsyncTmp, Goto, Locked
  <2>2. LockOwner'
    BY <1>5, LockGoto DEF OpenTmp, WriteTmp, FsyncTmp, Locked
  <2>3. \A u \in Threads : u # t => pc'[u] = pc[u] /\ pc[u] \notin Locked
    BY <1>5, <2>1, OnlyHolder DEF OpenTmp, WriteTmp, FsyncTmp, Goto, TypeOK
  <2>4. WriterInv'
    BY <1>5, <2>3 DEF OpenTmp, WriteTmp, FsyncTmp, Goto, TypeOK, WriterInv,
       Locked
  <2>5. UNCHANGED <<op, record, status, target, disk, dirWorks, acked>>
    BY <1>5 DEF OpenTmp, WriteTmp, FsyncTmp
  <2>6. pc'[t] \notin {"dirsync", "reply"}
    BY <1>5 DEF OpenTmp, WriteTmp, FsyncTmp, Goto, TypeOK
  <2> QED
    BY <1>q, <2>2, <2>3, <2>4, <2>5, <2>6 DEF Incremented, Done,
       CorruptNeverServed
<1>6. CASE WriteFails(t)
  <2>1. pc[t] \in Locked /\ pc' = [pc EXCEPT ![t] = "unlink"]
    BY <1>6 DEF WriteFails, Goto, Locked
  <2>2. LockOwner'
    BY <1>6, LockGoto DEF WriteFails, Locked
  <2>3. \A u \in Threads : u # t => pc'[u] = pc[u] /\ pc[u] \notin Locked
    BY <2>1, OnlyHolder DEF TypeOK
  <2>4. WriterInv'
    BY <1>6, <2>1, <2>3 DEF WriteFails, TypeOK, WriterInv, Locked
  <2> QED
    BY <1>6, <1>q, <2>1, <2>2, <2>4 DEF WriteFails, files, TypeOK,
       Incremented, Done, CorruptNeverServed
<1>7. CASE Unlink(t)
  <2>1. LockOwner' /\ WriterInv'
    BY <1>7, LockFinish, WriterFinish DEF Unlink, Locked
  <2>2. status'[t] # 200
    BY <1>7 DEF Unlink, Finish, StatusOf, TypeOK
  <2> QED
    BY <1>7, <1>q, <2>1, <2>2 DEF Unlink, Finish, Goto, TypeOK,
       Incremented, Done, CorruptNeverServed
<1> QED
  BY <1>1, <1>2, <1>3, <1>4, <1>5, <1>6, <1>7

(* The rename: the new value is above everything promised so far.          *)
LEMMA ReplaceStep ==
  ASSUME Inv, TypeOK', NEW t \in Threads, Replace(t)
  PROVE  Inv'
<1> USE DEF Inv
<1>1. /\ pc[t] = "replace" /\ pc' = [pc EXCEPT ![t] = "dirsync"]
      /\ target' = Valid(record[t]) /\ disk' = disk \cup {target'}
      /\ UNCHANGED <<up, lock, op, record, status, dirWorks, calls, acked>>
  BY DEF Replace, Goto, WriterInv, Renamed
<1>2. /\ op[t] = "increment" /\ Loadable(target)
      /\ record[t] = target.value + 1 /\ target.value \in Nat
  BY <1>1, FileType DEF WriterInv, TypeOK
<1>3. \A u \in Threads : u # t => pc'[u] = pc[u] /\ pc[u] \notin Locked
  BY <1>1, OnlyHolder DEF TypeOK, Locked
<1>4. /\ target'.form = "valid" /\ target'.value = record[t]
      /\ Loadable(target') /\ pc'[t] = "dirsync"
  BY <1>1 DEF Valid, Loadable, TypeOK
<1>5. LockOwner'
  BY LockGoto DEF Replace, Locked
<1>6. WriterInv'
  BY <1>1, <1>2, <1>3, <1>4 DEF WriterInv, Locked
<1>7. \A f \in disk : f.value \in Nat /\ f.value <= target.value /\ Loadable(f)
  BY <1>2, FileType DEF DiskInv, TypeOK
<1>8. \A f \in disk' : f.value \in Nat /\ f.value <= record[t] /\ Loadable(f)
  BY <1>1, <1>2, <1>4, <1>7
<1>9. DiskInv' /\ NeverTorn'
  BY <1>1, <1>4, <1>8 DEF DiskInv, NeverTorn, Loadable
<1>10. ASSUME dirWorks, NEW a \in acked PROVE a \in Nat /\ a <= target.value
  BY <1>10 DEF AckedDurable, DiskInv, TypeOK
<1>11. AckedDurable'
  BY <1>1, <1>2, <1>4, <1>10 DEF AckedDurable, TypeOK
<1>12. ASSUME dirWorks, NEW u \in Threads, u # t, Incremented(u)
       PROVE  pc[u] = "reply" /\ record[u] \in Nat /\ record[u] <= target.value
  BY <1>3, <1>12 DEF AnswerInv, DiskInv, Incremented, Done, Locked, TypeOK
<1>13. \A u \in Threads : u # t => (Incremented(u)' <=> Incremented(u))
  BY <1>1, <1>3 DEF Incremented, Done
<1>14. AnswerInv'
  BY <1>1, <1>2, <1>3, <1>4, <1>12, <1>13 DEF AnswerInv
<1>15. UniqueResults'
  BY <1>1, <1>2, <1>10, <1>12, <1>13 DEF UniqueResults
<1>16. CorruptNeverServed'
  BY <1>4 DEF CorruptNeverServed
<1> QED
  BY <1>5, <1>6, <1>9, <1>11, <1>14, <1>15, <1>16

(* The directory is synced: the new value cannot be undone any more.       *)
LEMMA FsyncDirStep ==
  ASSUME Inv, TypeOK', NEW t \in Threads, FsyncDir(t)
  PROVE  Inv'
<1> USE DEF Inv
<1>1. /\ pc[t] = "dirsync" /\ pc' = [pc EXCEPT ![t] = "reply"]
      /\ status' = [status EXCEPT ![t] = 200]
      /\ UNCHANGED <<up, op, record, target, tmp, tmpSynced, dirWorks, calls, acked>>
  BY DEF FsyncDir, Finish, Goto, StatusOf
<1>2. /\ disk' \in {disk, {target}}
      /\ dirWorks => disk' = {target}
  BY DEF FsyncDir
<1>3. Loadable(target) /\ op[t] = "increment" /\ record[t] = target.value
  BY <1>1 DEF WriterInv
<1>4. LockOwner' /\ WriterInv'
  BY LockFinish, WriterFinish DEF FsyncDir, Locked
<1>5. target.value \in Nat /\ target \in disk
  BY FileType DEF TypeOK, DiskInv
<1>6. DiskInv' /\ NeverTorn'
  BY <1>1, <1>2, <1>3, <1>5 DEF DiskInv, NeverTorn
<1>7. \A u \in Threads : Incremented(u)' <=> Incremented(u)
  BY <1>1 DEF Incremented, Done, TypeOK
<1>8. AnswerInv'
  BY <1>1, <1>2, <1>3, <1>5, <1>7 DEF AnswerInv, TypeOK
<1>9. UniqueResults'
  BY <1>1, <1>7 DEF UniqueResults
<1>10. AckedDurable'
  BY <1>1, <1>2, <1>5 DEF AckedDurable
<1>11. CorruptNeverServed'
  BY <1>1, <1>3 DEF CorruptNeverServed
<1> QED
  BY <1>4, <1>6, <1>8, <1>9, <1>10, <1>11

(* The answer: what it promises is on the disk and nobody else was given it. *)
LEMMA ReplyStep ==
  ASSUME Inv, TypeOK', NEW t \in Threads, Reply(t)
  PROVE  Inv'
<1> USE DEF Inv
<1>1. /\ pc[t] = "reply" /\ pc' = [pc EXCEPT ![t] = "idle"]
      /\ status' = [status EXCEPT ![t] = 0]
      /\ record' = [record EXCEPT ![t] = 0]
      /\ UNCHANGED <<up, lock, op, target, tmp, tmpSynced, disk, dirWorks, calls>>
  BY DEF Reply, Goto, files
<1>2. LockOwner'
  BY LockGoto DEF Reply, Locked
<1>3. WriterInv'
  BY <1>1 DEF WriterInv, TypeOK
<1>4. DiskInv' /\ NeverTorn'
  BY <1>1 DEF DiskInv, NeverTorn
<1>5. ~Incremented(t)' /\ \A u \in Threads : u # t =>
        (Incremented(u)' <=> Incremented(u)) /\ record'[u] = record[u]
  BY <1>1 DEF Incremented, Done, TypeOK
<1>6. AnswerInv'
  BY <1>1, <1>5 DEF AnswerInv, TypeOK
<1>7. acked' = acked \/ (Incremented(t) /\ acked' = acked \cup {record[t]})
  BY <1>1 DEF Reply, Incremented, Done
<1>8. UniqueResults'
  BY <1>1, <1>5, <1>7 DEF UniqueResults
<1>9. AckedDurable'
  BY <1>1, <1>7 DEF AckedDurable, AnswerInv
<1>10. CorruptNeverServed'
  BY <1>1 DEF CorruptNeverServed, TypeOK
<1> QED
  BY <1>2, <1>3, <1>4, <1>6, <1>8, <1>9, <1>10

(* The end of a process, with or without a power loss.                     *)
LEMMA EndStep ==
  ASSUME Inv, TypeOK', ProcessDies \/ PowerLoss
  PROVE  Inv'
<1> USE DEF Inv
<1>1. /\ lock' = NoThread /\ pc' = [t \in Threads |-> "idle"]
      /\ UNCHANGED <<op, dirWorks, calls, acked>>
  BY DEF ProcessDies, PowerLoss, ThreadsGone
<1>2. \A t \in Threads : pc'[t] = "idle" /\ ~Incremented(t)'
  BY <1>1 DEF Incremented, Done
<1>3. LockOwner' /\ WriterInv' /\ AnswerInv' /\ UniqueResults' /\ CorruptNeverServed'
  BY <1>1, <1>2, NoThreadAssumption DEF LockOwner, Locked, WriterInv, AnswerInv,
     UniqueResults, CorruptNeverServed
<1>4. \/ UNCHANGED <<target, disk>>
      \/ target' \in disk /\ disk' = {target'}
  BY DEF ProcessDies, PowerLoss, files
<1>5. target'.value \in Nat
  BY FileType DEF TypeOK
<1>6. DiskInv' /\ NeverTorn'
  BY <1>4, <1>5 DEF DiskInv, NeverTorn
<1>7. AckedDurable'
  BY <1>1, <1>4 DEF AckedDurable
<1> QED
  BY <1>3, <1>6, <1>7

(* A step in which no thread moves: a start, or a stutter.                 *)
LEMMA StillStep ==
  ASSUME Inv, TypeOK', Start \/ UNCHANGED vars
  PROVE  Inv'
<1>1. UNCHANGED <<lock, pc, op, record, status, target, tmp, tmpSynced, disk,
                  dirWorks, calls, acked>>
  BY DEF Start, vars, files
<1> QED
  BY <1>1 DEF Inv, LockOwner, WriterInv, DiskInv, AnswerInv, NeverTorn,
     UniqueResults, AckedDurable, CorruptNeverServed, Incremented, Done

(* Every step keeps the inductive invariant.                               *)
LEMMA InvStep == Inv /\ [Next]_vars => Inv'
<1> SUFFICES ASSUME Inv, [Next]_vars PROVE Inv'
  OBVIOUS
<1>1. TypeOK'
  BY TypeStep DEF Inv
<1>2. ASSUME NEW t \in Threads, NEW o \in Ops, Call(t, o) PROVE Inv'
  BY <1>1, <1>2, QuietSteps
<1>3. ASSUME NEW t \in Threads, Acquire(t) \/ ThreadStep(t) PROVE Inv'
  BY <1>1, <1>3, QuietSteps, ReplaceStep, FsyncDirStep, ReplyStep
     DEF ThreadStep, Ops
<1>4. CASE ProcessDies \/ PowerLoss
  BY <1>1, <1>4, EndStep
<1>5. CASE Start \/ UNCHANGED vars
  BY <1>1, <1>5, StillStep
<1> QED
  BY <1>2, <1>3, <1>4, <1>5 DEF Next
-----------------------------------------------------------------------------
(* The inductive invariant holds in every reachable state.                 *)
THEOREM Invariance == Spec => []Inv
  BY InvInit, InvStep, PTL DEF Spec

(* For any number of threads and calls: no torn file, no answer given      *)
(* twice, no answered increment lost, no corrupted store served.           *)
THEOREM Safety ==
  Spec => [](NeverTorn /\ UniqueResults /\ AckedDurable /\ CorruptNeverServed)
<1>1. Inv => NeverTorn /\ UniqueResults /\ AckedDurable /\ CorruptNeverServed
  BY DEF Inv
<1> QED
  BY <1>1, Invariance, PTL

(* No step rewrites a file that cannot be loaded: only Replace and a power *)
(* loss change the file, and neither can happen to such a one.             *)
LEMMA KeepCorrupt ==
  ASSUME Inv, [Next]_vars, ~Loadable(target)
  PROVE  target' = target
<1> USE DEF Inv
<1>1. ASSUME NEW t \in Threads, Replace(t) PROVE FALSE
  BY <1>1 DEF Replace, Goto, WriterInv
<1>2. CASE PowerLoss
  BY <1>2 DEF PowerLoss, DiskInv
<1>3. ASSUME NEW t \in Threads, NEW o \in Ops, Call(t, o) PROVE target' = target
  BY <1>3 DEF Call, files
<1>4. ASSUME NEW t \in Threads, Acquire(t) \/ ThreadStep(t) PROVE target' = target
  <2>1. CASE Acquire(t) \/ Load(t) \/ LoadFails(t) \/ OpenTmpFails(t)
    BY <2>1, Zenon DEF Acquire, Load, LoadFails, OpenTmpFails, files
  <2>2. CASE OpenTmp(t) \/ WriteTmp(t) \/ FsyncTmp(t) \/ Unlink(t) \/ FsyncDir(t)
    BY <2>2, Zenon DEF OpenTmp, WriteTmp, FsyncTmp, Unlink, FsyncDir
  <2>3. CASE WriteFails(t) \/ Reply(t)
    BY <2>3, Zenon DEF WriteFails, Reply, files
  <2> QED
    BY <1>1, <1>4, <2>1, <2>2, <2>3 DEF ThreadStep
<1>5. CASE ProcessDies \/ Start \/ UNCHANGED vars
  BY <1>5 DEF ProcessDies, Start, vars, files
<1> QED
  BY <1>2, <1>3, <1>4, <1>5 DEF Next

(* A corrupted store stays as it was found, whatever the service does.     *)
THEOREM CorruptStays == Spec => CorruptPreserved
<1>1. Inv /\ [Next]_vars => [~Loadable(target) => target' = target]_vars
  BY KeepCorrupt
<1> QED
  BY <1>1, Invariance, PTL DEF Spec, CorruptPreserved
-----------------------------------------------------------------------------
(* The refinement: each step of the threads is one step of the counter, or *)
(* none.                                                                   *)

\* The counter's state does not move.
AbsSame == UNCHANGED <<target, acked, dirWorks, AbsPhase, AbsKind, AbsResult>>

(* The service starts as a counter starts.                                 *)
LEMMA AbsInit == Init => Abstract!Init
<1> SUFFICES ASSUME Init PROVE Abstract!Init
  OBVIOUS
<1>1. target.value \in Nat
  BY TypeInit, FileType DEF TypeOK
<1>2. \A t \in Threads : pc[t] = "idle" /\ ~Done(t) /\ op[t] = "ready"
  BY DEF Init, Done
<1> QED
  BY <1>1, <1>2 DEF Init, Abstract!Init, Abstract!AllIdle, Abstract!NoResult,
     AbsPhase, AbsKind, AbsResult

(* What a step of one thread is to the counter: only its record moves.     *)
LEMMA AbsFrame ==
  ASSUME TypeOK, NEW t \in Threads, NEW p,
         \A u \in Threads : u # t =>
           pc'[u] = pc[u] /\ op'[u] = op[u] /\ status'[u] = status[u] /\ record'[u] = record[u],
         AbsPhase'[t] = p
  PROVE  /\ AbsPhase' = [AbsPhase EXCEPT ![t] = p]
         /\ op'[t] = op[t] => AbsKind' = AbsKind
         /\ AbsKind' = [AbsKind EXCEPT ![t] = AbsKind'[t]]
         /\ AbsResult' = [AbsResult EXCEPT ![t] = AbsResult'[t]]
         /\ AbsResult'[t] = AbsResult[t] => AbsResult' = AbsResult
         /\ AbsPhase[t] = p => AbsPhase' = AbsPhase
<1>1. \A u \in Threads : u # t => (Done(u)' <=> Done(u))
  BY DEF Done
<1>2. AbsPhase' = [AbsPhase EXCEPT ![t] = p]
  BY <1>1 DEF AbsPhase
<1>3. AbsKind' = [AbsKind EXCEPT ![t] = AbsKind'[t]]
  BY DEF AbsKind
<1>4. AbsResult' = [AbsResult EXCEPT ![t] = AbsResult'[t]]
  BY <1>1 DEF AbsResult
<1>5. op'[t] = op[t] => AbsKind' = AbsKind
  BY DEF AbsKind
<1>6. AbsResult'[t] = AbsResult[t] => AbsResult' = AbsResult
  BY <1>1 DEF AbsResult
<1>7. AbsPhase[t] = p => AbsPhase' = AbsPhase
  BY <1>1 DEF AbsPhase
<1> QED
  BY <1>2, <1>3, <1>4, <1>5, <1>6, <1>7

\* A step of thread t that touches nothing else.
Alone(t) ==
  \A u \in Threads : u # t =>
    pc'[u] = pc[u] /\ op'[u] = op[u] /\ status'[u] = status[u] /\ record'[u] = record[u]

\* Thread t is between its arrival and the instant its call happens.
Called(t) == pc[t] \notin {"idle", "reply", "dirsync"}

(* A step inside the locked block is no step of the counter.               *)
LEMMA AbsStays ==
  ASSUME TypeOK, NEW t \in Threads, Alone(t), UNCHANGED <<target, acked, dirWorks>>,
         op'[t] = op[t], AbsPhase'[t] = AbsPhase[t], AbsResult'[t] = AbsResult[t]
  PROVE  AbsSame
  BY AbsFrame DEF Alone, AbsSame

(* A call that ends without a 200 fails.                                   *)
LEMMA AbsFails ==
  ASSUME TypeOK, NEW t \in Threads, Alone(t), UNCHANGED <<target, acked, dirWorks>>,
         op'[t] = op[t], Called(t), pc'[t] = "reply", status'[t] # 200
  PROVE  Abstract!Fail(t)
<1>1. AbsPhase[t] = "called" /\ AbsPhase'[t] = "failed"
  BY DEF AbsPhase, Done, Called
<1>2. AbsResult'[t] = AbsResult[t]
  BY DEF AbsResult, Done, Called
<1> QED
  BY <1>1, <1>2, AbsFrame DEF Alone, Abstract!Fail, Abstract!Step

(* The load of a read, or the rename of an increment, is its effect.       *)
LEMMA AbsTakesEffect ==
  ASSUME TypeOK, NEW t \in Threads, Alone(t), UNCHANGED <<acked, dirWorks>>,
         op'[t] = op[t], Called(t), Done(t)',
         target'.value = IF op[t] = "increment" THEN target.value + 1
                         ELSE target.value,
         record'[t] = target'.value
  PROVE  Abstract!TakeEffect(t)
<1>1. AbsPhase[t] = "called" /\ AbsPhase'[t] = "done"
  BY DEF AbsPhase, Done, Called
<1>2. AbsResult'[t] = target'.value
  BY DEF AbsResult
<1>3. AbsKind[t] = "increment" <=> op[t] = "increment"
  BY DEF AbsKind
<1> QED
  BY <1>1, <1>2, <1>3, AbsFrame DEF Alone, Abstract!TakeEffect, Abstract!Step

(* A request's arrival is the counter's invocation.                        *)
LEMMA AbsCall ==
  ASSUME TypeOK, NEW t \in Threads, NEW o \in Ops, Call(t, o)
  PROVE  Abstract!Invoke(t)
<1>1. /\ pc[t] = "idle" /\ pc' = [pc EXCEPT ![t] = "acquire"]
      /\ op' = [op EXCEPT ![t] = o]
      /\ UNCHANGED <<record, status, target, acked, dirWorks>>
  BY DEF Call, Goto, files
<1>2. AbsPhase[t] = "idle" /\ AbsPhase'[t] = "called"
  BY <1>1 DEF AbsPhase, Done, TypeOK
<1>3. AbsResult'[t] = AbsResult[t]
  BY <1>1 DEF AbsResult, Done, TypeOK
<1>4. AbsKind'[t] \in {"read", "increment"}
  BY DEF AbsKind
<1>5. Alone(t)
  BY <1>1 DEF Alone, TypeOK
<1>6. /\ AbsPhase' = [AbsPhase EXCEPT ![t] = "called"]
      /\ AbsKind' = [AbsKind EXCEPT ![t] = AbsKind'[t]]
      /\ AbsResult' = AbsResult
  BY <1>2, <1>3, <1>5, AbsFrame DEF Alone
<1> QED
  BY <1>1, <1>2, <1>4, <1>6 DEF Abstract!Invoke, Abstract!Step, Abstract!Kinds

(* The reply is the counter's answer.                                      *)
LEMMA AbsReply ==
  ASSUME TypeOK, NEW t \in Threads, Reply(t)
  PROVE  Abstract!Answer(t)
<1>1. /\ pc[t] = "reply" /\ pc' = [pc EXCEPT ![t] = "idle"]
      /\ status' = [status EXCEPT ![t] = 0]
      /\ record' = [record EXCEPT ![t] = 0]
      /\ UNCHANGED <<op, target, dirWorks>>
  BY DEF Reply, Goto, files
<1>2. AbsPhase[t] = (IF status[t] = 200 THEN "done" ELSE "failed")
  BY <1>1 DEF AbsPhase, Done
<1>3. AbsPhase'[t] = "idle" /\ AbsResult'[t] = 0
  BY <1>1 DEF AbsPhase, AbsResult, Done, TypeOK
<1>4. Alone(t)
  BY <1>1 DEF Alone, TypeOK
<1>5. /\ AbsPhase' = [AbsPhase EXCEPT ![t] = "idle"]
      /\ AbsKind' = AbsKind
      /\ AbsResult' = [AbsResult EXCEPT ![t] = 0]
  BY <1>1, <1>3, <1>4, AbsFrame DEF Alone
<1>6. acked' \in {acked} \cup
        (IF AbsPhase[t] = "done" /\ AbsKind[t] = "increment"
         THEN {acked \cup {AbsResult[t]}} ELSE {})
  BY <1>1, <1>2 DEF Reply, AbsKind, AbsResult, Done
<1> QED
  BY <1>1, <1>2, <1>5, <1>6 DEF Abstract!Answer

(* The locked block's steps, the rename apart, fail the call or are hidden.*)
LEMMA AbsThread ==
  ASSUME Inv, TypeOK', NEW t \in Threads, Acquire(t) \/ ThreadStep(t)
  PROVE  (\E u \in Threads : Abstract!Invoke(u) \/ Abstract!TakeEffect(u)
                              \/ Abstract!Fail(u) \/ Abstract!Answer(u)) \/ AbsSame
<1> USE DEF Inv
<1>1. CASE Acquire(t) \/ OpenTmp(t) \/ WriteTmp(t) \/ FsyncTmp(t) \/ WriteFails(t)
  <2>1. /\ pc[t] \in {"acquire", "open", "write", "fsync", "replace"}
        /\ pc'[t] \in {"load", "write", "fsync", "replace", "unlink"}
        /\ Alone(t)
        /\ UNCHANGED <<op, record, status, target, acked, dirWorks>>
    BY <1>1 DEF Acquire, OpenTmp, WriteTmp, FsyncTmp, WriteFails, Goto, files,
       Alone, TypeOK
  <2>2. AbsPhase'[t] = AbsPhase[t] /\ AbsResult'[t] = AbsResult[t]
    BY <2>1 DEF AbsPhase, AbsResult, Done
  <2> QED
    BY <2>1, <2>2, AbsStays
<1>2. CASE Load(t)
  <2>1. pc[t] = "load" /\ Called(t) /\ UNCHANGED <<op, target, acked, dirWorks>>
    BY <1>2 DEF Load, files, Called
  <2>2. CASE Goto(t, "load", "open") /\ UNCHANGED <<lock, status>>
    <3>1. Alone(t) /\ pc'[t] = "open"
      BY <1>2, <2>2 DEF Load, Goto, Alone, TypeOK
    <3>2. AbsPhase'[t] = AbsPhase[t] /\ AbsResult'[t] = AbsResult[t]
      BY <2>1, <3>1 DEF AbsPhase, AbsResult, Done
    <3> QED
      BY <2>1, <3>1, <3>2, AbsStays
  <2>3. CASE Finish(t, "load", ReadOutcome(target)) /\ ReadOutcome(target) = "ok"
    <3>1. op[t] # "increment"
      BY <1>2, <2>3 DEF Load, Finish, Goto, TypeOK
    <3>2. record'[t] = target.value /\ Alone(t)
      BY <1>2, <2>3, <3>1 DEF Load, Finish, Goto, Alone, TypeOK
    <3>3. Done(t)'
      BY <2>3 DEF Finish, Goto, StatusOf, Done, TypeOK
    <3> QED
      BY <2>1, <3>1, <3>2, <3>3, AbsTakesEffect
  <2>4. CASE Finish(t, "load", ReadOutcome(target)) /\ ReadOutcome(target) # "ok"
    <3>1. Alone(t) /\ pc'[t] = "reply" /\ status'[t] # 200
      BY <1>2, <2>4 DEF Load, Finish, Goto, StatusOf, Alone, TypeOK
    <3> QED
      BY <2>1, <3>1, AbsFails
  <2> QED
    BY <1>2, <2>2, <2>3, <2>4 DEF Load
<1>3. CASE LoadFails(t) \/ OpenTmpFails(t) \/ Unlink(t)
  <2>1. \E from \in {"load", "open", "unlink"}, outcome \in {"corrupt", "error"} :
          Finish(t, from, outcome)
    <3>1. CASE LoadFails(t)
      BY <3>1 DEF LoadFails
    <3>2. CASE OpenTmpFails(t)
      BY <3>2 DEF OpenTmpFails
    <3>3. CASE Unlink(t)
      BY <3>3 DEF Unlink
    <3> QED
      BY <1>3, <3>1, <3>2, <3>3
  <2>2. PICK from \in {"load", "open", "unlink"}, outcome \in {"corrupt", "error"} :
          Finish(t, from, outcome)
    BY <2>1
  <2>3. UNCHANGED <<op, record, target, acked, dirWorks>>
    BY <1>3, Zenon DEF LoadFails, OpenTmpFails, Unlink, files
  <2>4. Called(t) /\ Alone(t) /\ pc'[t] = "reply" /\ status'[t] # 200
    BY <2>2, <2>3 DEF Finish, Goto, StatusOf, Alone, Called, TypeOK
  <2> QED
    BY <2>3, <2>4, AbsFails
<1>4. CASE Replace(t)
  <2>1. /\ pc[t] = "replace" /\ pc' = [pc EXCEPT ![t] = "dirsync"]
        /\ target' = Valid(record[t])
        /\ UNCHANGED <<op, record, status, acked, dirWorks>>
    BY <1>4 DEF Replace, Goto, WriterInv
  <2>2. /\ op[t] = "increment" /\ record[t] = target.value + 1
        /\ target'.value = record[t]
    BY <2>1 DEF WriterInv, Valid
  <2>3. Called(t) /\ Alone(t) /\ Done(t)'
    BY <2>1 DEF Called, Alone, Done, TypeOK
  <2> QED
    BY <2>1, <2>2, <2>3, AbsTakesEffect
<1>5. CASE FsyncDir(t)
  <2>1. /\ pc[t] = "dirsync" /\ pc' = [pc EXCEPT ![t] = "reply"]
        /\ status' = [status EXCEPT ![t] = 200]
        /\ UNCHANGED <<op, record, target, acked, dirWorks>>
    BY <1>5 DEF FsyncDir, Finish, Goto, StatusOf
  <2>2. Alone(t)
    BY <2>1 DEF Alone, TypeOK
  <2>3. AbsPhase'[t] = AbsPhase[t] /\ AbsResult'[t] = AbsResult[t]
    BY <2>1 DEF AbsPhase, AbsResult, Done, TypeOK
  <2> QED
    BY <2>1, <2>2, <2>3, AbsStays
<1>6. CASE Reply(t)
  BY <1>6, AbsReply
<1> QED
  BY <1>1, <1>2, <1>3, <1>4, <1>5, <1>6 DEF ThreadStep

(* The end of a process is a crash; a power loss undoes no promise.        *)
LEMMA AbsEnd ==
  ASSUME Inv, TypeOK', ProcessDies \/ PowerLoss
  PROVE  Abstract!Crash \/ Abstract!PowerLoss
<1> USE DEF Inv
<1>1. /\ \A t \in Threads : pc'[t] = "idle" /\ ~Done(t)'
      /\ UNCHANGED <<op, acked, dirWorks>>
  BY DEF ProcessDies, PowerLoss, ThreadsGone, Done
<1>2. /\ AbsPhase' = Abstract!AllIdle /\ AbsResult' = Abstract!NoResult
      /\ AbsKind' = AbsKind
  BY <1>1 DEF AbsPhase, AbsResult, AbsKind, Abstract!AllIdle, Abstract!NoResult
<1>3. CASE ProcessDies
  BY <1>1, <1>2, <1>3 DEF ProcessDies, files, Abstract!Crash
<1>4. CASE PowerLoss
  <2>1. target' \in disk
    BY <1>4 DEF PowerLoss
  <2>2. target'.value \in Nat /\ target'.value <= target.value
    BY <2>1, FileType DEF DiskInv, TypeOK
  <2>3. target'.value \in 0..target.value
    BY <2>2, FileType DEF TypeOK
  <2>4. dirWorks => \A a \in acked : a <= target'.value
    BY <2>1 DEF AckedDurable
  <2> QED
    BY <1>1, <1>2, <2>3, <2>4 DEF Abstract!PowerLoss
<1> QED
  BY <1>3, <1>4

(* Each step of the service is a step of the counter, or none.             *)
LEMMA AbsStep == Inv /\ TypeOK' /\ [Next]_vars => [Abstract!Next]_(Abstract!vars)
<1> SUFFICES ASSUME Inv, TypeOK', [Next]_vars
             PROVE  Abstract!Next \/ AbsSame
  BY Zenon DEF AbsSame, Abstract!vars
<1>1. ASSUME NEW t \in Threads, NEW o \in Ops, Call(t, o) PROVE Abstract!Next
  BY <1>1, AbsCall DEF Inv, Abstract!Next
<1>2. ASSUME NEW t \in Threads, Acquire(t) \/ ThreadStep(t)
      PROVE  Abstract!Next \/ AbsSame
  BY <1>2, AbsThread DEF Abstract!Next
<1>3. CASE ProcessDies \/ PowerLoss
  BY <1>3, AbsEnd DEF Abstract!Next
<1>4. CASE Start \/ UNCHANGED vars
  <2>1. UNCHANGED <<pc, op, record, status, target, acked, dirWorks>>
    BY <1>4 DEF Start, vars, files
  <2> QED
    BY <2>1 DEF AbsSame, AbsPhase, AbsKind, AbsResult, Done
<1> QED
  BY <1>1, <1>2, <1>3, <1>4 DEF Next

(* Every behaviour of the service, crashes and power losses included, is   *)
(* one of the atomic counter.                                              *)
THEOREM Implements == Spec => Linearizable
<1>1. Inv /\ Inv' /\ [Next]_vars => [Abstract!Next]_(Abstract!vars)
  BY AbsStep DEF Inv
<1> QED
  BY <1>1, AbsInit, Invariance, PTL DEF Spec, Linearizable, Abstract!Spec
=============================================================================
