----------------------------- MODULE StateStore -----------------------------
(***************************************************************************)
(* The state service: request handler threads of one process (ThreadingHTTP*)
(* Server) over one StateStore, its lock, the counter file and the         *)
(* temporary file it is replaced from (state/storage.py, state/server.py). *)
(*                                                                         *)
(* `target' and `tmp' are what a process sees (the page cache); `disk' is  *)
(* the set of contents the target may have after a power loss.  A process  *)
(* that dies (SIGTERM: handler threads are daemons and are not joined; or  *)
(* an OOM kill) leaves the page cache as it is; a power loss does not.     *)
(***************************************************************************)
EXTENDS Naturals, FiniteSets

CONSTANTS
  Threads,       \* handler threads that may serve requests at once
  NoThread,      \* the lock's owner when it is free
  InitialValue,  \* the value found on a volume that was used before
  MaxCalls,      \* bound: increments requested in a behaviour
  IOErrors       \* whether a system call may fail with an OSError

ASSUME NoThreadAssumption == NoThread \notin Threads
ASSUME InitialValueAssumption == InitialValue \in Nat
ASSUME MaxCallsAssumption == MaxCalls \in Nat
ASSUME IOErrorsAssumption == IOErrors \in BOOLEAN

VARIABLES
  up,         \* the process is running
  lock,       \* StateStore._lock
  pc,         \* where each thread is
  op,         \* the route each thread serves
  record,     \* the value of the StateRecord each thread holds
  status,     \* the HTTP status each thread will answer, 0 before it knows
  target,     \* the state file, as a process reads it
  tmp,        \* the temporary file, as a process reads it
  tmpSynced,  \* the temporary file's content is on disk
  disk,       \* what the state file may hold after a power loss
  dirWorks,   \* the volume's file system honours fsync of a directory
  calls,      \* increments requested so far
  acked       \* history: the initial value, every increment answered 200

vars == <<up, lock, pc, op, record, status, target, tmp, tmpSynced, disk,
          dirWorks, calls, acked>>
files == <<target, tmp, tmpSynced, disk>>
-----------------------------------------------------------------------------
(* Files.  A "malformed" file fails one of the checks of _read_locked; an  *)
(* "undecodable" one is not UTF-8; a "torn" one was cut short.             *)

File == [form: {"absent", "valid", "malformed", "undecodable", "torn"},
         value: Nat]
NoFile == [form |-> "absent", value |-> 0]
Valid(n) == [form |-> "valid", value |-> n]
Broken(f) == [form |-> f, value |-> 0]

Loadable(f) == f.form \in {"absent", "valid"}

\* Mutant: a file without a valid record counts as a fresh store.
ReadOutcomeFresh(f) == IF f.form = "undecodable" THEN "error" ELSE "ok"

\* What reading f comes to: a record, CorruptedStateError, or an exception
\* that read_text lets through (UnicodeDecodeError is not an OSError).
ReadOutcome(f) ==
  IF Loadable(f) THEN "ok"
  ELSE IF f.form = "undecodable" THEN "error" ELSE "corrupt"

\* What reaches the disk when the temporary file takes the target's name.
Renamed(f, synced) == IF synced THEN {f} ELSE {f, Broken("torn")}
-----------------------------------------------------------------------------
Ops == {"ready", "read", "increment"}
Locked == {"load", "open", "write", "fsync", "replace", "unlink", "dirsync"}

\* The status the routes and _dispatch turn an outcome into.
StatusOf(o, outcome) ==
  IF outcome = "ok" THEN 200
  ELSE IF outcome = "corrupt" /\ o = "ready" THEN 503 ELSE 500

Idle(t) == pc[t] = "idle"
Goto(t, from, to) == pc[t] = from /\ pc' = [pc EXCEPT ![t] = to]

\* The `with self._lock' block ends and the handler has its answer.
Finish(t, from, outcome) ==
  /\ Goto(t, from, "reply")
  /\ lock' = NoThread
  /\ status' = [status EXCEPT ![t] = StatusOf(op[t], outcome)]

Init ==
  /\ up = TRUE
  /\ lock = NoThread
  /\ pc = [t \in Threads |-> "idle"]
  /\ op = [t \in Threads |-> "ready"]
  /\ record = [t \in Threads |-> 0]
  /\ status = [t \in Threads |-> 0]
  /\ target \in {NoFile, Valid(InitialValue), Broken("malformed"),
                 Broken("undecodable")}
  /\ tmp = NoFile
  /\ tmpSynced = FALSE
  /\ disk = {target}
  /\ dirWorks \in BOOLEAN
  /\ calls = 0
  /\ acked = {target.value}

\* A request arrives and ThreadingHTTPServer gives it a thread.
Call(t, o) ==
  /\ up
  /\ Goto(t, "idle", "acquire")
  /\ op' = [op EXCEPT ![t] = o]
  /\ o = "increment" => calls < MaxCalls
  /\ calls' = IF o = "increment" THEN calls + 1 ELSE calls
  /\ UNCHANGED <<up, lock, record, status, files, dirWorks, acked>>

\* Mutant: no lock around the read-modify-write.
AcquireUnlocked(t) ==
  /\ Goto(t, "acquire", "load")
  /\ lock' = t
  /\ UNCHANGED <<up, op, record, status, files, dirWorks, calls, acked>>

Acquire(t) ==
  /\ lock = NoThread
  /\ Goto(t, "acquire", "load")
  /\ lock' = t
  /\ UNCHANGED <<up, op, record, status, files, dirWorks, calls, acked>>

\* Mutant: increment calls read() and takes the lock again to write.
LoadThenUnlock(t) ==
  /\ pc[t] = "load"
  /\ Loadable(target)
  /\ lock' = NoThread
  /\ IF op[t] = "increment"
     THEN /\ record' = [record EXCEPT ![t] = target.value + 1]
          /\ Goto(t, "load", "open")
          /\ UNCHANGED status
     ELSE record' = [record EXCEPT ![t] = target.value] /\ Finish(t, "load", "ok")
  /\ UNCHANGED <<up, op, files, dirWorks, calls, acked>>

\* Mutant: increment starts again from 0 when it cannot load.
LoadOrReset(t) ==
  LET n == IF op[t] = "increment" THEN target.value + 1 ELSE target.value
  IN /\ pc[t] = "load"
     /\ record' = [record EXCEPT ![t] = n]
     /\ IF op[t] = "increment"
        THEN Goto(t, "load", "open") /\ UNCHANGED <<lock, status>>
        ELSE Finish(t, "load", ReadOutcome(target))
     /\ UNCHANGED <<up, op, files, dirWorks, calls, acked>>

\* _read_locked.  read and /readyz end here; increment goes on with value + 1.
Load(t) ==
  LET outcome == ReadOutcome(target)
      n == IF op[t] = "increment" THEN target.value + 1 ELSE target.value
  IN /\ pc[t] = "load"
     /\ record' = IF outcome = "ok" THEN [record EXCEPT ![t] = n] ELSE record
     /\ IF outcome = "ok" /\ op[t] = "increment"
        THEN Goto(t, "load", "open") /\ UNCHANGED <<lock, status>>
        ELSE Finish(t, "load", outcome)
     /\ UNCHANGED <<up, op, files, dirWorks, calls, acked>>

\* read_text raises an OSError (reported as corruption) or exists() raises one.
LoadFails(t) ==
  /\ IOErrors
  /\ \E outcome \in {"corrupt", "error"} : Finish(t, "load", outcome)
  /\ UNCHANGED <<up, op, record, files, dirWorks, calls, acked>>

\* os.open(..., O_CREAT | O_TRUNC): an empty temporary file, whatever was there.
OpenTmp(t) ==
  /\ Goto(t, "open", "write")
  /\ tmp' = Broken("torn")
  /\ tmpSynced' = FALSE
  /\ UNCHANGED <<up, lock, op, record, status, target, disk, dirWorks, calls,
                 acked>>

\* Mutant: acquire and release by hand, no release when os.open raises.
OpenTmpFailsLocked(t) ==
  /\ IOErrors
  /\ Goto(t, "open", "reply")
  /\ status' = [status EXCEPT ![t] = 500]
  /\ UNCHANGED <<up, lock, op, record, files, dirWorks, calls, acked>>

\* os.open is outside the try: there is nothing to unlink.
OpenTmpFails(t) ==
  /\ IOErrors
  /\ Finish(t, "open", "error")
  /\ UNCHANGED <<up, op, record, files, dirWorks, calls, acked>>

WriteTmp(t) ==
  /\ Goto(t, "write", "fsync")
  /\ tmp' = Valid(record[t])
  /\ UNCHANGED <<up, lock, op, record, status, target, tmpSynced, disk,
                 dirWorks, calls, acked>>

\* Mutant: flush without fsync.
FlushOnly(t) ==
  /\ Goto(t, "fsync", "replace")
  /\ UNCHANGED <<up, lock, op, record, status, files, dirWorks, calls, acked>>

FsyncTmp(t) ==
  /\ Goto(t, "fsync", "replace")
  /\ tmpSynced' = TRUE
  /\ UNCHANGED <<up, lock, op, record, status, target, tmp, disk, dirWorks,
                 calls, acked>>

\* os.replace: atomic for processes; the disk has the old name or the new one.
Replace(t) ==
  /\ Goto(t, "replace", "dirsync")
  /\ target' = tmp
  /\ disk' = disk \cup Renamed(tmp, tmpSynced)
  /\ tmp' = NoFile
  /\ tmpSynced' = FALSE
  /\ UNCHANGED <<up, lock, op, record, status, dirWorks, calls, acked>>

\* A write, fsync or replace that raises ends in the except clause.
WriteFails(t) ==
  /\ IOErrors
  /\ \E at \in {"write", "fsync", "replace"} : Goto(t, at, "unlink")
  /\ UNCHANGED <<up, lock, op, record, status, files, dirWorks, calls, acked>>

\* tmp_path.unlink and raise; unlink may itself raise and leave the file.
Unlink(t) ==
  /\ Finish(t, "unlink", "error")
  /\ tmp' \in {NoFile} \cup (IF IOErrors THEN {tmp} ELSE {})
  /\ tmpSynced' = FALSE
  /\ UNCHANGED <<up, op, record, target, disk, dirWorks, calls, acked>>

\* Mutant: the directory is not synced before the answer.
NoFsyncDir(t) ==
  /\ Finish(t, "dirsync", "ok")
  /\ UNCHANGED <<up, op, record, files, dirWorks, calls, acked>>

\* _fsync_dir: an OSError is swallowed, the increment succeeds all the same.
FsyncDir(t) ==
  /\ Finish(t, "dirsync", "ok")
  /\ disk' \in {{target}} \cup (IF dirWorks THEN {} ELSE {disk})
  /\ UNCHANGED <<up, op, record, target, tmp, tmpSynced, dirWorks, calls, acked>>

\* _send_json.  A caller that is still there holds the store to its answer; one
\* that gave up (its timeout expired) never sees it.
Reply(t) ==
  /\ Goto(t, "reply", "idle")
  /\ acked' \in {acked} \cup
                (IF op[t] = "increment" /\ status[t] = 200
                 THEN {acked \cup {record[t]}} ELSE {})
  /\ record' = [record EXCEPT ![t] = 0]
  /\ status' = [status EXCEPT ![t] = 0]
  /\ UNCHANGED <<up, lock, op, files, dirWorks, calls>>
-----------------------------------------------------------------------------
\* What a dead process leaves of its threads and its lock.
ThreadsGone ==
  /\ up' = FALSE
  /\ lock' = NoThread
  /\ pc' = [t \in Threads |-> "idle"]
  /\ record' = [t \in Threads |-> 0]
  /\ status' = [t \in Threads |-> 0]
  /\ UNCHANGED <<op, dirWorks, calls, acked>>

\* SIGTERM ends serve_forever without joining the daemon handler threads; an
\* OOM kill ends the process anywhere.  Both leave the files as they are.
ProcessDies ==
  /\ up
  /\ ThreadsGone
  /\ UNCHANGED files

PowerLoss ==
  /\ ThreadsGone
  /\ target' \in disk
  /\ disk' = {target'}
  /\ tmp' \in {NoFile, Broken("torn"), tmp}
  /\ tmpSynced' = FALSE

\* A new process on the same volume: build_server makes a new StateStore.
Start ==
  /\ ~up
  /\ up' = TRUE
  /\ UNCHANGED <<lock, pc, op, record, status, files, dirWorks, calls, acked>>

ThreadStep(t) ==
  \/ Load(t) \/ LoadFails(t)
  \/ OpenTmp(t) \/ OpenTmpFails(t)
  \/ WriteTmp(t) \/ FsyncTmp(t) \/ Replace(t)
  \/ WriteFails(t) \/ Unlink(t)
  \/ FsyncDir(t)
  \/ Reply(t)

Next ==
  \/ \E t \in Threads, o \in Ops : Call(t, o)
  \/ \E t \in Threads : Acquire(t) \/ ThreadStep(t)
  \/ ProcessDies
  \/ PowerLoss
  \/ Start

Spec == Init /\ [][Next]_vars

\* A thread that holds the lock is scheduled and its system calls return.
Fairness == \A t \in Threads : WF_vars(ThreadStep(t))

FairSpec == Spec /\ Fairness
-----------------------------------------------------------------------------
TypeOK ==
  /\ up \in BOOLEAN
  /\ lock \in Threads \cup {NoThread}
  /\ pc \in [Threads -> {"idle", "acquire", "reply"} \cup Locked]
  /\ op \in [Threads -> Ops]
  /\ record \in [Threads -> Nat]
  /\ status \in [Threads -> {0, 200, 500, 503}]
  /\ target \in File
  /\ tmp \in File
  /\ tmpSynced \in BOOLEAN
  /\ disk \in SUBSET File
  /\ dirWorks \in BOOLEAN
  /\ calls \in 0..MaxCalls
  /\ acked \in SUBSET Nat

\* The call of thread t has happened and its caller has, or will have, a 200.
Done(t) == pc[t] = "dirsync" \/ (pc[t] = "reply" /\ status[t] = 200)

Incremented(t) == op[t] = "increment" /\ Done(t)

(* No crash, I/O error or power loss leaves a half-written state file, in  *)
(* memory or on disk: what _write_locked's fsync-then-rename is for.       *)
NeverTorn == \A f \in disk \cup {target} : f.form # "torn"

(* No two increments are answered with one value, on a volume that keeps   *)
(* what it syncs: the lock covers the whole read-modify-write.             *)
UniqueResults ==
  dirWorks =>
    /\ \A t \in Threads : Incremented(t) => record[t] \notin acked
    /\ \A t, u \in Threads :
         Incremented(t) /\ Incremented(u) /\ record[t] = record[u] => t = u

(* Whatever a power loss leaves of the file, it holds every increment that *)
(* was answered with 200: write, fsync, replace, fsync of the directory,   *)
(* and only then the answer.                                               *)
AckedDurable ==
  dirWorks => \A a \in acked, f \in disk : a <= f.value

(* A store that cannot be loaded yields no value and no readiness, from    *)
(* any route: corruption is reported, never guessed over (storage.py's     *)
(* CorruptedStateError).                                                   *)
CorruptNeverServed ==
  \A t \in Threads : pc[t] = "reply" /\ status[t] = 200 => Loadable(target)

(* Nothing the service does, failing or dying, rewrites a file it could    *)
(* not load: an increment does not turn a corrupted store into a new one.  *)
CorruptPreserved == [][~Loadable(target) => target' = target]_vars

(* Every way out of the critical section, error paths included, releases   *)
(* the lock, so that one failed write never wedges the service.            *)
LockReleased == lock # NoThread ~> lock = NoThread

(* docs/persistence.md: any violation of the file's shape raises           *)
(* CorruptedStateError and GET /readyz reports 503 not-ready.              *)
UnusableMeansNotReady ==
  \A t \in Threads :
    pc[t] = "reply" /\ op[t] = "ready" /\ ~Loadable(target) => status[t] = 503
-----------------------------------------------------------------------------
(* The inductive invariant: what the lock's holder may rely on.             *)

LockOwner == \A t \in Threads : pc[t] \in Locked <=> lock = t

\* From its load to its rename the writer holds the successor of a record
\* nobody has changed meanwhile; from its write on the temporary file is it.
WriterInv ==
  \A t \in Threads :
    /\ pc[t] \in {"open", "write", "fsync", "replace"} =>
         /\ op[t] = "increment"
         /\ Loadable(target)
         /\ record[t] = target.value + 1
    /\ pc[t] \in {"fsync", "replace"} => tmp = Valid(record[t])
    /\ pc[t] = "replace" => tmpSynced
    /\ pc[t] = "dirsync" =>
         /\ op[t] = "increment"
         /\ Loadable(target)
         /\ record[t] = target.value

\* What a power loss may bring back is an older good file, or the one bad one.
DiskInv ==
  /\ target \in disk
  /\ Loadable(target) => \A f \in disk : Loadable(f) /\ f.value <= target.value
  /\ ~Loadable(target) => disk = {target}

\* An increment whose directory was synced can no longer be undone.
AnswerInv ==
  dirWorks =>
    \A t \in Threads :
      pc[t] = "reply" /\ Incremented(t) => \A f \in disk : record[t] <= f.value

Inv ==
  /\ TypeOK
  /\ LockOwner
  /\ WriterInv
  /\ DiskInv
  /\ AnswerInv
  /\ NeverTorn
  /\ UniqueResults
  /\ AckedDurable
  /\ CorruptNeverServed
-----------------------------------------------------------------------------
(* The refinement mapping: a call happens when the file takes the new name,*)
(* a read when it loads.                                                   *)

AbsPhase ==
  [t \in Threads |->
    IF pc[t] = "idle" THEN "idle"
    ELSE IF Done(t) THEN "done"
    ELSE IF pc[t] = "reply" THEN "failed" ELSE "called"]

AbsKind == [t \in Threads |-> IF op[t] = "increment" THEN op[t] ELSE "read"]

AbsResult == [t \in Threads |-> IF Done(t) THEN record[t] ELSE 0]

Abstract == INSTANCE AtomicCounter WITH
  Callers <- Threads,
  value <- target.value,
  durable <- dirWorks,
  phase <- AbsPhase,
  kind <- AbsKind,
  result <- AbsResult

(* The threads, the lock and the files implement the atomic counter: each  *)
(* call takes effect once, between its arrival and its answer.             *)
Linearizable == Abstract!Spec
=============================================================================
