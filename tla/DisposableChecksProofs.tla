------------------------ MODULE DisposableChecksProofs ------------------------
(***************************************************************************)
(* What the checks leave behind, for any of the scripts: what a finally    *)
(* clause does not remove can be accounted for, and make clean takes the   *)
(* rest.  The scripts enter by one fact only, that they are tidy.          *)
(***************************************************************************)
EXTENDS DisposableChecks, TLAPS

InFinally(b) == {b.finally[i] : i \in DOMAIN b.finally}

\* What makes the finally clause of a block b of script c enough: it knows what
\* the block creates by its name or keeps it next (reproducibility_check alone
\* does), and it removes the users of a resource before the resource.
Tidy(c, b) ==
  /\ \A i \in DOMAIN b.try :
       /\ b.try[i].op \in {"run", "make"} =>
            \/ b.try[i].on \in b.named
            \/ /\ c = "repro" /\ i + 1 \in DOMAIN b.try
               /\ b.try[i + 1] = Keep(b.try[i].on)
       /\ b.try[i].op = "keep" => c = "repro" /\ b.try[i].on \in InFinally(b)
  /\ b.named \subseteq InFinally(b)
  /\ \A i \in DOMAIN b.finally, j \in DOMAIN b.finally :
       i < j => b.finally[j] \notin Users[b.finally[i]]

\* What may be left although its removal was tried or came too early.
Excused == unremoved \cup (IF failed THEN unanswered \cup Unkept ELSE {})

\* Created and not kept yet.
InHand == IF AtStep("keep") THEN {It} ELSE {}

KeptInv ==
  /\ at # "done" => Plan[check][block].named \subseteq kept
  /\ kept \subseteq InFinally(Plan[check][block])
  /\ at = "try" => Leftover \subseteq AndWhatTheyUse(unremoved) \cup kept \cup InHand
  /\ at = "finally" => Leftover \subseteq AndWhatTheyUse(Excused) \cup broom
  /\ exit \in {"success", "failure"} => Leftover \subseteq AndWhatTheyUse(Excused)

ExitInv ==
  /\ at = "done" <=> exit # "none"
  /\ exit = "success" => ~failed
  /\ exit = "failure" => failed
  /\ unanswered # {} => failed
  /\ exit # "killed" => late \subseteq unanswered

CleanInv ==
  quiet =>
    /\ at = "done" /\ late = {} /\ sweep # 0
    /\ \A k \in DOMAIN Sweeps : k < sweep => exists \cap Sweeps[k] = {}

Inv == TypeOK /\ KeptInv /\ ExitInv /\ CleanInv
-----------------------------------------------------------------------------
(* The scripts, the resources and make clean's lines.                      *)

\* What uses a resource is a resource that nothing uses.
LEMMA Dependencies ==
  /\ \A r \in Resources : Users[r] \subseteq Resources
  /\ \A r \in Resources : \A u \in Users[r] : Users[u] = {}
  BY DEF Users, Resources

\* make clean has four lines; only patch_lifecycle_check's container is in none.
LEMMA SweepLines ==
  /\ Len(Sweeps) = 4 /\ DOMAIN Sweeps = 1..4
  /\ \A k \in 1..4 : Sweeps[k] \subseteq Resources
  /\ \A r \in Resources \ {"patch"} : \E k \in 1..4 : r \in Sweeps[k]
  BY DEF Sweeps, Resources

AnyStep == [op : {"run", "make", "keep", "demand", "check"}, on : Resources]
AnyBlock == [try : Seq(AnyStep), finally : Seq(Resources), named : SUBSET Resources]

\* Every try and finally of the five checks removes what it may create.
LEMMA BlockTidy ==
  /\ AuditPlan[1] \in AnyBlock /\ Tidy("audit", AuditPlan[1])
  /\ SecurityPlan[1] \in AnyBlock /\ Tidy("security", SecurityPlan[1])
  /\ SingleRole \in AnyBlock /\ Tidy("smoke", SingleRole)
  /\ MultiRole \in AnyBlock /\ Tidy("smoke", MultiRole)
  /\ ReproPlan[1] \in AnyBlock /\ Tidy("repro", ReproPlan[1])
  /\ PatchPlan[1] \in AnyBlock /\ Tidy("patch", PatchPlan[1])
<1> USE DEF Own, Block, Run, Make, Keep, Demand, Check, AnyStep, AnyBlock, Resources
<1> USE DEF Tidy, InFinally, Users
<1>1. AuditPlan[1] \in AnyBlock /\ Tidy("audit", AuditPlan[1])
  <2> DEFINE b == Own(<< Run("audit"), Demand("audit"), Check("audit") >>, << "audit" >>)
  <2>1. AuditPlan[1] = b
    BY DEF AuditPlan
  <2>2. b \in AnyBlock /\ Tidy("audit", b)
    OBVIOUS
  <2> QED
    BY <2>1, <2>2
<1>2. SecurityPlan[1] \in AnyBlock /\ Tidy("security", SecurityPlan[1])
  <2> DEFINE b == Own(<< Run("security"), Demand("security"), Check("security") >>,
                            << "security" >>)
  <2>1. SecurityPlan[1] = b
    BY DEF SecurityPlan
  <2>2. b \in AnyBlock /\ Tidy("security", b)
    OBVIOUS
  <2> QED
    BY <2>1, <2>2
<1>3. SingleRole \in AnyBlock /\ Tidy("smoke", SingleRole)
  BY DEF SingleRole
<1>4. MultiRole \in AnyBlock /\ Tidy("smoke", MultiRole)
  BY DEF MultiRole
<1>5. ReproPlan[1] \in AnyBlock /\ Tidy("repro", ReproPlan[1])
  BY DEF ReproPlan
<1>6. PatchPlan[1] \in AnyBlock /\ Tidy("patch", PatchPlan[1])
  <2> DEFINE b == Own(<< Make("patch"), Demand("patch"), Check("patch") >>, << "patch" >>)
  <2>1. PatchPlan[1] = b
    BY DEF PatchPlan
  <2>2. b \in AnyBlock /\ Tidy("patch", b)
    OBVIOUS
  <2> QED
    BY <2>1, <2>2
<1> QED
  BY <1>1, <1>2, <1>3, <1>4, <1>5, <1>6

\* So does every block of every script, and the next block is one of them.
LEMMA PlanTidy ==
  ASSUME NEW c \in DOMAIN Plan, NEW i \in DOMAIN Plan[c]
  PROVE  /\ Plan[c][i] \in AnyBlock /\ Tidy(c, Plan[c][i])
         /\ i \in Nat /\ (i < Len(Plan[c]) => i + 1 \in DOMAIN Plan[c])
         /\ 1 \in DOMAIN Plan[c]
  BY BlockTidy DEF Plan, AuditPlan, SecurityPlan, SmokePlan, ReproPlan, PatchPlan

(* The script under way and its step are among these.                      *)
LEMMA ScriptTidy ==
  ASSUME TypeOK
  PROVE  /\ Plan[check][block] \in AnyBlock /\ Tidy(check, Plan[check][block])
         /\ block \in Nat
         /\ block < Len(Plan[check]) => block + 1 \in DOMAIN Plan[check]
         /\ Try \in Seq(AnyStep) /\ pc \in Nat \ {0}
         /\ pc \in DOMAIN Try =>
              pc + 1 \in 1..(Len(Try) + 1) /\ Try[pc] \in AnyStep /\ It \in Resources
<1>1. check \in DOMAIN Plan /\ block \in DOMAIN Plan[check]
  BY ChecksAssumption DEF TypeOK
<1>2. /\ Plan[check][block] \in AnyBlock /\ Tidy(check, Plan[check][block])
      /\ block \in Nat
      /\ block < Len(Plan[check]) => block + 1 \in DOMAIN Plan[check]
  BY <1>1, PlanTidy
<1>3. Try \in Seq(AnyStep)
  BY <1>2 DEF Try, AnyBlock
<1>4. pc \in Nat \ {0} /\ Len(Try) \in Nat /\ DOMAIN Try = 1..Len(Try)
  BY <1>3 DEF TypeOK
<1>5. ASSUME pc \in DOMAIN Try
      PROVE  pc + 1 \in 1..(Len(Try) + 1) /\ Try[pc] \in AnyStep /\ It \in Resources
  <2>1. Try[pc] \in AnyStep
    BY <1>3, <1>5
  <2>2. It \in Resources
    BY <2>1 DEF AnyStep, It
  <2>3. pc + 1 \in 1..(Len(Try) + 1)
    BY <1>4, <1>5
  <2> QED
    BY <2>1, <2>2, <2>3
<1> QED
  BY <1>2, <1>3, <1>4, <1>5

(* A step that creates is of a known resource, or the next one keeps it.   *)
LEMMA CreatedIsHeld ==
  ASSUME TypeOK, KeptInv, Creating
  PROVE  /\ at = "try" /\ pc \in DOMAIN Try /\ It \in Resources
         /\ InHand = {}
         /\ It \in kept \/ (check = "repro" /\ pc + 1 \in DOMAIN Try
                            /\ Try[pc + 1] = Keep(It))
<1>1. at = "try" /\ pc \in DOMAIN Try /\ Try[pc].op \in {"run", "make"}
  BY DEF Creating, AtStep
<1>2. InHand = {}
  BY <1>1 DEF InHand, AtStep
<1>3. Plan[check][block].named \subseteq kept
  BY <1>1 DEF KeptInv
<1>4. It \in Plan[check][block].named
      \/ (check = "repro" /\ pc + 1 \in DOMAIN Try /\ Try[pc + 1] = Keep(It))
  BY <1>1, ScriptTidy DEF Tidy, Try, It
<1> QED
  BY <1>1, <1>2, <1>3, <1>4, ScriptTidy

\* More left-overs excuse more resources, themselves included.
LEMMA UseGrows ==
  ASSUME NEW S, NEW T, S \subseteq T
  PROVE  S \subseteq AndWhatTheyUse(S) /\ AndWhatTheyUse(S) \subseteq AndWhatTheyUse(T)
  BY DEF AndWhatTheyUse

(* What raises out of the try leaves nothing that finally does not remove  *)
(* but what was being created or kept.                                     *)
LEMMA RaiseKeeps ==
  ASSUME Inv, at = "try", Raise,
         check' = check, unremoved' = unremoved, unanswered \subseteq unanswered',
         Leftover' \subseteq AndWhatTheyUse(unremoved) \cup kept \cup InHand
                             \cup (IF Creating THEN {It} ELSE {}),
         Leftover' \subseteq Resources
  PROVE  KeptInv'
<1>1. /\ at' = "finally" /\ failed' /\ broom' = kept /\ kept' = kept
      /\ block' = block /\ exit' = exit /\ exit = "none"
  BY DEF Raise, ToFinally, Inv, ExitInv, TypeOK
<1>2. Excused' = unremoved \cup unanswered' \cup Unkept
  BY <1>1 DEF Excused, Unkept
<1>3. AndWhatTheyUse(unremoved) \subseteq AndWhatTheyUse(Excused')
      /\ Unkept \subseteq AndWhatTheyUse(Excused')
  BY <1>2, UseGrows
<1>4. InHand \subseteq kept \cup Unkept
  <2>1. CASE AtStep("keep")
    <3>1. check = "repro" /\ It \in Resources
      BY <2>1, ScriptTidy DEF AtStep, Tidy, Try, It, Inv
    <3> QED
      BY <2>1, <3>1 DEF InHand, Unkept
  <2>2. CASE ~AtStep("keep")
    BY <2>2 DEF InHand
  <2> QED
    BY <2>1, <2>2
<1>5. Creating => It \in kept \cup Unkept
  BY CreatedIsHeld DEF Inv, Unkept
<1>6. Leftover' \subseteq AndWhatTheyUse(Excused') \cup kept
  BY <1>3, <1>4, <1>5
<1>7. Plan[check][block].named \subseteq kept /\ kept \subseteq InFinally(Plan[check][block])
  BY DEF Inv, KeptInv
<1>8. AndWhatTheyUse(Excused)' = AndWhatTheyUse(Excused')
  BY DEF AndWhatTheyUse
<1> QED
  BY <1>1, <1>6, <1>7, <1>8 DEF KeptInv
-----------------------------------------------------------------------------
(* Types.                                                                  *)

\* Before any script runs every variable has its type.
LEMMA TypeInit == Init => TypeOK
<1> SUFFICES ASSUME Init PROVE TypeOK
  OBVIOUS
<1>1. check \in Checks /\ check \in DOMAIN Plan /\ block = 1 /\ pc = 1
  BY ChecksAssumption DEF Init
<1>2. PICK k \in DOMAIN Plan[check] : TRUE
  BY <1>1 DEF Plan, AuditPlan, SecurityPlan, SmokePlan, ReproPlan, PatchPlan
<1>3. 1 \in DOMAIN Plan[check]
  BY <1>1, <1>2, PlanTidy
<1>4. Plan[check][1] \in AnyBlock /\ Tidy(check, Plan[check][1])
  BY <1>1, <1>3, PlanTidy
<1>5. Plan[check][1].named \subseteq Resources /\ Try \in Seq(AnyStep)
  BY <1>1, <1>4 DEF AnyBlock, Try
<1>6. pc \in 1..(Len(Try) + 1)
  BY <1>1, <1>5
<1>7. sweep \in -1..(Len(Sweeps) + 1)
  BY SweepLines DEF Init
<1> QED
  BY <1>1, <1>3, <1>5, <1>6, <1>7 DEF Init, TypeOK

\* What the script says is going on, of the right type.
ScriptType ==
  /\ check \in Checks /\ block \in DOMAIN Plan[check]
  /\ at \in {"try", "finally", "done"}
  /\ pc \in 1..(Len(Try) + 1)
  /\ kept \subseteq Resources /\ broom \subseteq kept
  /\ failed \in BOOLEAN /\ exit \in {"none", "success", "failure", "killed"}

\* The next call of a try is one of its script.
LEMMA AdvanceType ==
  ASSUME TypeOK, pc \in DOMAIN Try, Advance
  PROVE  ScriptType'
  BY ScriptTidy DEF TypeOK, ScriptType, Advance, Try

\* So is the finally clause a try goes to.
LEMMA ToFinallyType ==
  ASSUME TypeOK, ToFinally, failed' \in BOOLEAN
  PROVE  ScriptType'
  BY DEF TypeOK, ScriptType, ToFinally, Try

\* Every call, removal and line of make clean keeps the types.
LEMMA StepType == TypeOK /\ [Next]_vars => TypeOK'
<1> SUFFICES ASSUME TypeOK, [Next]_vars PROVE TypeOK'
  OBVIOUS
<1>0. pc \in DOMAIN Try => It \in Resources
  BY ScriptTidy
<1>1. CASE Created
  BY <1>0, <1>1, AdvanceType DEF Created, Creating, AtStep, TypeOK, ScriptType
<1>2. CASE CreateRefused
  BY <1>0, <1>2, ToFinallyType DEF CreateRefused, Creating, AtStep, Raise, TypeOK, ScriptType
<1>3. CASE CreateTimesOut
  BY <1>0, <1>3, ToFinallyType DEF CreateTimesOut, Creating, AtStep, Raise, TypeOK, ScriptType
<1>4. CASE KeepIt
  BY <1>0, <1>4, ScriptTidy DEF KeepIt, AtStep, TypeOK, daemon, Try
<1>5. CASE Succeeds
  BY <1>5, AdvanceType DEF Succeeds, AtStep, TypeOK, ScriptType, daemon
<1>6. CASE NotesFailure
  BY <1>6, ScriptTidy DEF NotesFailure, AtStep, TypeOK, daemon, Try
<1>7. CASE Raises
  BY <1>7, ToFinallyType DEF Raises, Raise, TypeOK, ScriptType, daemon
<1>8. CASE EndOfTry
  BY <1>8, ToFinallyType DEF EndOfTry, TypeOK, ScriptType, daemon
<1>9. ASSUME NEW r \in Resources, Removed(r) PROVE TypeOK'
  BY <1>9 DEF Removed, NextRemoval, TypeOK, Try
<1>10. ASSUME NEW r \in Resources, RemovalRefused(r) PROVE TypeOK'
  BY <1>10 DEF RemovalRefused, NextRemoval, TypeOK, Try, daemon
<1>11. ASSUME NEW r \in Resources, RemovalTimesOut(r) PROVE TypeOK'
  BY <1>11 DEF RemovalTimesOut, TypeOK, Try
<1>12. CASE EndOfFinally
  <2>1. CASE ~failed /\ block < Len(Plan[check])
    <3>1. /\ block' = block + 1 /\ pc' = 1 /\ at' = "try"
          /\ kept' = Plan[check][block + 1].named
          /\ UNCHANGED <<check, broom, failed, exit, daemon, sweep, unanswered,
                         unremoved, quiet>>
          /\ broom = {}
      BY <1>12, <2>1 DEF EndOfFinally
    <3>2. block + 1 \in DOMAIN Plan[check] /\ check \in DOMAIN Plan
      BY <2>1, ScriptTidy, ChecksAssumption DEF TypeOK
    <3>3. Plan[check][block + 1] \in AnyBlock
      BY <3>2, PlanTidy
    <3>4. kept' \subseteq Resources /\ Try' \in Seq(AnyStep)
      BY <3>1, <3>3 DEF AnyBlock, Try
    <3>5. pc' \in 1..(Len(Try') + 1)
      BY <3>1, <3>4
    <3> QED
      BY <3>1, <3>2, <3>4, <3>5 DEF TypeOK, daemon
  <2>2. CASE ~(~failed /\ block < Len(Plan[check]))
    BY <1>12, <2>2 DEF EndOfFinally, TypeOK, Try, daemon
  <2> QED
    BY <2>1, <2>2
<1>13. CASE Killed
  BY <1>0, <1>13 DEF Killed, Creating, AtStep, TypeOK, Try
<1>14. ASSUME NEW r \in Resources, LateCreate(r) \/ LateRemove(r) \/ Forget(r)
       PROVE TypeOK'
  BY <1>14 DEF LateCreate, LateRemove, Forget, TypeOK, Try, script
<1>15. CASE StartClean
  BY <1>15, SweepLines DEF StartClean, TypeOK, Try, script, daemon
<1>16. CASE SweepLine
  BY <1>16, SweepLines DEF SweepLine, TypeOK, Try, script
<1>17. CASE SweepFails
  BY <1>17, SweepLines DEF SweepFails, TypeOK, Try, script
<1>18. CASE UNCHANGED vars
  BY <1>18 DEF vars, script, daemon, TypeOK, Try
<1> QED
  BY <1>1, <1>2, <1>3, <1>4, <1>5, <1>6, <1>7, <1>8, <1>9, <1>10, <1>11, <1>12,
     <1>13, <1>14, <1>15, <1>16, <1>17, <1>18 DEF Next

(* Scripts, daemon and make clean stay within their values.                *)
THEOREM TypeCorrect == Spec => []TypeOK
  BY TypeInit, StepType, PTL DEF Spec
-----------------------------------------------------------------------------
(* How a script ends, and make clean.                                      *)

\* Exit 0 means that no check failed and no creation went unanswered.
LEMMA ExitStep == TypeOK /\ ExitInv /\ [Next]_vars => ExitInv'
<1> SUFFICES ASSUME TypeOK, ExitInv, [Next]_vars PROVE ExitInv'
  OBVIOUS
<1> USE DEF ExitInv
<1>1. CASE Created
  BY <1>1 DEF Created, Advance
<1>2. CASE CreateRefused
  BY <1>2 DEF CreateRefused, Creating, AtStep, Raise, ToFinally
<1>3. CASE CreateTimesOut
  BY <1>3 DEF CreateTimesOut, Creating, AtStep, Raise, ToFinally
<1>4. CASE KeepIt
  BY <1>4 DEF KeepIt, daemon
<1>5. CASE Succeeds
  BY <1>5 DEF Succeeds, Advance, daemon
<1>6. CASE NotesFailure
  BY <1>6 DEF NotesFailure, AtStep, daemon
<1>7. CASE Raises
  BY <1>7 DEF Raises, AtStep, Raise, ToFinally, daemon
<1>8. CASE EndOfTry
  BY <1>8 DEF EndOfTry, ToFinally, daemon
<1>9. ASSUME NEW r \in Resources, Removed(r) PROVE ExitInv'
  BY <1>9 DEF Removed, NextRemoval
<1>10. ASSUME NEW r \in Resources, RemovalRefused(r) PROVE ExitInv'
  BY <1>10 DEF RemovalRefused, NextRemoval, daemon
<1>11. ASSUME NEW r \in Resources, RemovalTimesOut(r) PROVE ExitInv'
  BY <1>11 DEF RemovalTimesOut, Removing
<1>12. CASE EndOfFinally
  BY <1>12 DEF EndOfFinally, daemon
<1>13. CASE Killed
  BY <1>13 DEF Killed
<1>14. ASSUME NEW r \in Resources, LateCreate(r) \/ LateRemove(r) \/ Forget(r)
       PROVE ExitInv'
  BY <1>14 DEF LateCreate, LateRemove, Forget, script
<1>15. CASE StartClean \/ SweepLine \/ SweepFails
  BY <1>15 DEF StartClean, SweepLine, SweepFails, script, daemon
<1>16. CASE UNCHANGED vars
  BY <1>16 DEF vars, script, daemon
<1> QED
  BY <1>1, <1>2, <1>3, <1>4, <1>5, <1>6, <1>7, <1>8, <1>9, <1>10, <1>11, <1>12,
     <1>13, <1>14, <1>15, <1>16 DEF Next

(* While nothing is under way, nothing comes back behind make clean.       *)
LEMMA CleanStep == TypeOK /\ CleanInv /\ [Next]_vars => CleanInv'
<1> SUFFICES ASSUME TypeOK, CleanInv, [Next]_vars, quiet' PROVE CleanInv'
  BY DEF CleanInv
<1>1. ASSUME quiet, at' = at, late' \subseteq late, exists' \subseteq exists, sweep' = sweep
      PROVE  CleanInv'
  BY <1>1 DEF CleanInv
<1>2. CASE \/ Created \/ CreateRefused \/ CreateTimesOut \/ KeepIt \/ Succeeds
           \/ NotesFailure \/ Raises \/ EndOfTry \/ EndOfFinally \/ Killed
           \/ \E r \in Resources : Removed(r) \/ RemovalRefused(r) \/ RemovalTimesOut(r)
  <2>1. at # "done" /\ quiet' = quiet
    BY <1>2 DEF Created, CreateRefused, CreateTimesOut, KeepIt, Succeeds, NotesFailure,
       Raises, EndOfTry, EndOfFinally, Killed, Removed, RemovalRefused, RemovalTimesOut,
       Creating, AtStep, Removing
  <2> QED
    BY <2>1 DEF CleanInv
<1>3. ASSUME NEW r \in Resources, LateCreate(r) \/ LateRemove(r) \/ Forget(r)
      PROVE  CleanInv'
  BY <1>1, <1>3 DEF LateCreate, LateRemove, Forget, script, CleanInv
<1>4. CASE StartClean
  <2>1. at' = at /\ late' = late /\ exists' = exists
    BY <1>4 DEF StartClean, script, daemon
  <2>2. at = "done" /\ late = {} /\ sweep' = 1
    BY <1>4 DEF StartClean
  <2>3. \A k \in DOMAIN Sweeps : ~(k < 1)
    BY SweepLines
  <2> QED
    BY <2>1, <2>2, <2>3 DEF CleanInv
<1>5. CASE SweepLine
  <2>1. /\ at' = at /\ late' = late /\ quiet' = quiet /\ sweep \in 1..4
        /\ exists' = exists \ Sweeps[sweep] /\ sweep' = sweep + 1
    BY <1>5, SweepLines DEF SweepLine, script
  <2>2. ASSUME NEW k \in DOMAIN Sweeps, k < sweep' PROVE exists' \cap Sweeps[k] = {}
    <3>1. k \in 1..4 /\ (k < sweep \/ k = sweep)
      BY <2>1, <2>2, SweepLines
    <3> QED
      BY <2>1, <3>1 DEF CleanInv
  <2>3. sweep' # 0
    BY <2>1
  <2> QED
    BY <2>1, <2>2, <2>3 DEF CleanInv
<1>6. CASE SweepFails
  <2>1. /\ at' = at /\ late' = late /\ quiet' = quiet
        /\ exists' \subseteq exists /\ sweep' = -1
    BY <1>6 DEF SweepFails, script
  <2>2. \A k \in DOMAIN Sweeps : ~(k < -1)
    BY SweepLines
  <2>3. -1 # 0
    OBVIOUS
  <2> QED
    BY <2>1, <2>2, <2>3 DEF CleanInv
<1>7. CASE UNCHANGED vars
  BY <1>1, <1>7 DEF vars, script, daemon
<1> QED
  BY <1>2, <1>3, <1>4, <1>5, <1>6, <1>7 DEF Next
-----------------------------------------------------------------------------
(* What is left can be accounted for.                                      *)

(* What a try has created is kept, or the next step keeps it.              *)
LEMMA CreatedKept == Inv /\ Created => KeptInv'
<1> SUFFICES ASSUME Inv, Created PROVE KeptInv'
  OBVIOUS
<1>1. /\ at = "try" /\ pc \in DOMAIN Try /\ It \in Resources /\ InHand = {}
      /\ It \in kept \/ (pc + 1 \in DOMAIN Try /\ Try[pc + 1] = Keep(It))
  BY CreatedIsHeld DEF Created, Inv
<1>2. /\ Leftover' = Leftover \cup {It}
      /\ pc' = pc + 1
      /\ UNCHANGED <<check, block, at, kept, broom, failed, exit, unremoved, late>>
  BY DEF Created, Advance, Leftover
<1>3. It \in kept \cup InHand'
  BY <1>1, <1>2 DEF InHand, AtStep, Keep, It, Try
<1>4. Leftover \subseteq AndWhatTheyUse(unremoved) \cup kept
  BY <1>1 DEF Inv, KeptInv
<1>5. AndWhatTheyUse(unremoved)' = AndWhatTheyUse(unremoved)
  BY <1>2 DEF AndWhatTheyUse
<1>6. exit = "none"
  BY <1>1 DEF Inv, ExitInv, TypeOK
<1> QED
  BY <1>1, <1>2, <1>3, <1>4, <1>5, <1>6 DEF Inv, KeptInv

(* What finally has removed need not be excused.                           *)
LEMMA RemovedKept == ASSUME Inv, NEW r \in Resources, Removed(r) PROVE KeptInv'
<1>1. /\ at = "finally" /\ exists' = exists \ {r} /\ broom' = broom \ {r}
      /\ UNCHANGED <<check, block, pc, at, kept, failed, exit, late, unanswered, unremoved>>
  BY DEF Removed, NextRemoval, Removing
<1>2. late \subseteq unanswered /\ (unanswered # {} => failed) /\ exit = "none"
  BY <1>1 DEF Inv, ExitInv, TypeOK
<1>3. late \subseteq AndWhatTheyUse(Excused)
  BY <1>2, UseGrows DEF Excused
<1>4. Leftover' \subseteq AndWhatTheyUse(Excused) \cup broom'
  BY <1>1, <1>3 DEF Inv, KeptInv, Leftover
<1>5. AndWhatTheyUse(Excused)' = AndWhatTheyUse(Excused)
  BY <1>1 DEF AndWhatTheyUse, Excused, Unkept
<1> QED
  BY <1>1, <1>2, <1>4, <1>5 DEF Inv, KeptInv

(* What cannot be removed because it is in use is in use by something that *)
(* is excused itself: its users come first in finally.                     *)
LEMMA RefusedKept == ASSUME Inv, NEW r \in Resources, RemovalRefused(r) PROVE KeptInv'
<1>1. /\ at = "finally" /\ r \in broom /\ broom' = broom \ {r} /\ r \in exists
      /\ UNCHANGED <<check, block, pc, at, kept, failed, exit, exists, late, unanswered>>
      /\ unremoved' = IF InUse(r) THEN unremoved ELSE unremoved \cup {r}
  BY DEF RemovalRefused, NextRemoval, Removing, daemon
<1>2. Excused \subseteq Excused' /\ (~InUse(r) => r \in Excused')
  BY <1>1 DEF Excused, Unkept
<1>3. AndWhatTheyUse(Excused) \subseteq AndWhatTheyUse(Excused')
  BY <1>2, UseGrows
<1>4. r \in AndWhatTheyUse(Excused')
  <2>1. CASE InUse(r)
    <3>1. PICK u \in Users[r] : u \in exists
      BY <2>1 DEF InUse
    <3>2. u \notin broom
      <4> SUFFICES ASSUME u \in broom PROVE FALSE
        OBVIOUS
      <4>1. u \in InFinally(Plan[check][block])
        BY DEF Inv, KeptInv, TypeOK
      <4>2. PICK j \in DOMAIN Finally : u = Finally[j]
        BY <4>1 DEF InFinally, Finally
      <4>3. PICK i \in DOMAIN Finally :
              r = Finally[i] /\ \A k \in 1..(i - 1) : Finally[k] \notin broom
        BY DEF RemovalRefused, Removing
      <4>4. Finally \in Seq(Resources)
        BY ScriptTidy DEF Inv, AnyBlock, Finally
      <4>5. i \in Nat /\ j \in Nat /\ 1 <= j
        BY <4>4
      <4>6. ~(j < i)
        BY <4>2, <4>3, <4>5
      <4>7. ~(i < j)
        BY <3>1, <4>2, <4>3, ScriptTidy DEF Inv, Tidy, Finally
      <4>8. i = j
        BY <4>5, <4>6, <4>7
      <4>9. r \notin Users[r]
        BY Dependencies
      <4> QED
        BY <3>1, <4>2, <4>3, <4>8, <4>9
    <3>3. u \in AndWhatTheyUse(Excused)
      BY <1>1, <3>1, <3>2 DEF Inv, KeptInv, Leftover
    <3>4. u \in Excused
      BY <3>1, <3>3, Dependencies DEF AndWhatTheyUse
    <3> QED
      BY <1>2, <3>1, <3>4 DEF AndWhatTheyUse
  <2>2. CASE ~InUse(r)
    BY <1>2, <2>2, UseGrows
  <2> QED
    BY <2>1, <2>2
<1>5. Leftover' \subseteq AndWhatTheyUse(Excused') \cup broom'
  BY <1>1, <1>3, <1>4 DEF Inv, KeptInv, Leftover
<1>6. AndWhatTheyUse(Excused)' = AndWhatTheyUse(Excused')
  BY DEF AndWhatTheyUse
<1>7. exit = "none"
  BY <1>1 DEF Inv, ExitInv, TypeOK
<1> QED
  BY <1>1, <1>5, <1>6, <1>7 DEF Inv, KeptInv

(* A timeout in finally leaves what it did not come to, and says so.       *)
LEMMA TimeoutKept == ASSUME Inv, NEW r \in Resources, RemovalTimesOut(r) PROVE KeptInv'
<1>1. /\ at = "finally" /\ at' = "done" /\ failed' /\ unremoved' = unremoved \cup broom
      /\ UNCHANGED <<check, block, pc, kept, exists, late, unanswered>>
  BY DEF RemovalTimesOut, Removing
<1>2. Excused' = unremoved \cup broom \cup unanswered \cup Unkept
  BY <1>1 DEF Excused, Unkept
<1>3. Excused \subseteq Excused' /\ broom \subseteq Excused'
  BY <1>2 DEF Excused
<1>4. AndWhatTheyUse(Excused) \subseteq AndWhatTheyUse(Excused')
      /\ broom \subseteq AndWhatTheyUse(Excused')
  BY <1>3, UseGrows
<1>5. Leftover' \subseteq AndWhatTheyUse(Excused')
  BY <1>1, <1>4 DEF Inv, KeptInv, Leftover
<1>6. AndWhatTheyUse(Excused)' = AndWhatTheyUse(Excused')
  BY DEF AndWhatTheyUse
<1> QED
  BY <1>1, <1>5, <1>6 DEF Inv, KeptInv

(* A block that ends well leaves nothing that the next one has to excuse.  *)
LEMMA EndKept == Inv /\ EndOfFinally => KeptInv'
<1> SUFFICES ASSUME Inv, EndOfFinally PROVE KeptInv'
  OBVIOUS
<1>1. /\ at = "finally" /\ broom = {} /\ check' = check /\ failed' = failed
      /\ UNCHANGED <<exists, late, unanswered, unremoved>>
  BY DEF EndOfFinally, daemon
<1>2. Leftover' \subseteq AndWhatTheyUse(Excused) /\ exit = "none"
  BY <1>1 DEF Inv, KeptInv, ExitInv, TypeOK, Leftover
<1>3. CASE ~failed /\ block < Len(Plan[check])
  <2>1. /\ block' = block + 1 /\ at' = "try" /\ exit' = exit
        /\ kept' = Plan[check][block + 1].named
    BY <1>3 DEF EndOfFinally
  <2>2. block + 1 \in DOMAIN Plan[check] /\ check \in DOMAIN Plan
    BY <1>3, ScriptTidy, ChecksAssumption DEF Inv, TypeOK
  <2>3. Plan[check][block + 1].named \subseteq InFinally(Plan[check][block + 1])
    BY <2>2, PlanTidy DEF Tidy
  <2>4. Excused = unremoved
    BY <1>3 DEF Excused
  <2>5. AndWhatTheyUse(unremoved)' = AndWhatTheyUse(unremoved)
    BY <1>1 DEF AndWhatTheyUse
  <2> QED
    BY <1>1, <1>2, <2>1, <2>3, <2>4, <2>5 DEF KeptInv
<1>4. CASE ~(~failed /\ block < Len(Plan[check]))
  <2>1. at' = "done" /\ UNCHANGED <<block, pc, kept, broom>>
    BY <1>4 DEF EndOfFinally
  <2>2. AndWhatTheyUse(Excused)' = AndWhatTheyUse(Excused)
    BY <1>1, <2>1 DEF AndWhatTheyUse, Excused, Unkept
  <2> QED
    BY <1>1, <1>2, <2>1, <2>2 DEF Inv, KeptInv
<1> QED
  BY <1>3, <1>4

(* A step that leaves the script alone and adds nothing.                   *)
LEMMA NothingAdded ==
  ASSUME Inv, UNCHANGED <<script, unanswered, unremoved>>, Leftover' \subseteq Leftover
  PROVE  KeptInv'
<1>1. UNCHANGED <<check, block, pc, at, kept, broom, failed, exit, unanswered, unremoved>>
  BY DEF script
<1>2. /\ AndWhatTheyUse(Excused)' = AndWhatTheyUse(Excused)
      /\ AndWhatTheyUse(unremoved)' = AndWhatTheyUse(unremoved)
      /\ InHand' = InHand
  BY <1>1 DEF AndWhatTheyUse, Excused, Unkept, InHand, AtStep, It, Try
<1> QED
  BY <1>1, <1>2 DEF Inv, KeptInv

(* Calls within a try that create nothing.                                 *)
LEMMA CallKept ==
  ASSUME Inv, at = "try", at' = "try", InHand \subseteq kept',
         kept \subseteq kept', kept' \subseteq InFinally(Plan[check][block]),
         UNCHANGED <<check, block, exit, exists, late, unremoved>>
  PROVE  KeptInv'
<1>1. Leftover' = Leftover /\ exit = "none"
  BY DEF Leftover, Inv, ExitInv, TypeOK
<1>2. AndWhatTheyUse(unremoved)' = AndWhatTheyUse(unremoved)
  BY DEF AndWhatTheyUse
<1> QED
  BY <1>1, <1>2 DEF Inv, KeptInv

\* Whatever exists is kept for finally, or has its excuse, after each step.
LEMMA KeptStep == Inv /\ [Next]_vars /\ TypeOK' => KeptInv'
<1> SUFFICES ASSUME Inv, [Next]_vars, TypeOK' PROVE KeptInv'
  OBVIOUS
<1>0. at = "try" => /\ Leftover \subseteq AndWhatTheyUse(unremoved) \cup kept \cup InHand
                    /\ kept \subseteq InFinally(Plan[check][block])
  BY DEF Inv, KeptInv
<1>a. Leftover' \subseteq Resources
  BY DEF Leftover, TypeOK
<1>1. CASE Created
  BY <1>1, CreatedKept
<1>2. CASE CreateRefused
  <2>1. /\ at = "try" /\ Creating /\ Raise /\ Leftover' \subseteq Leftover \cup {It}
        /\ unremoved' = unremoved /\ unanswered' = unanswered /\ check' = check
    BY <1>2 DEF CreateRefused, Creating, AtStep, Raise, ToFinally, Leftover
  <2> QED
    BY <1>0, <1>a, <2>1, RaiseKeeps
<1>3. CASE CreateTimesOut
  <2>1. /\ at = "try" /\ Creating /\ Raise /\ Leftover' = Leftover \cup {It}
        /\ unremoved' = unremoved /\ unanswered \subseteq unanswered' /\ check' = check
    BY <1>3 DEF CreateTimesOut, Creating, AtStep, Raise, ToFinally, Leftover
  <2> QED
    BY <1>0, <1>a, <2>1, RaiseKeeps
<1>4. CASE KeepIt
  <2>1. /\ at = "try" /\ at' = "try" /\ pc \in DOMAIN Try /\ Try[pc].op = "keep"
        /\ kept' = kept \cup {It}
        /\ UNCHANGED <<check, block, exit, exists, late, unremoved>>
    BY <1>4 DEF KeepIt, AtStep, daemon
  <2>2. It \in InFinally(Plan[check][block])
    BY <2>1, ScriptTidy DEF Inv, Tidy, Try, It
  <2>3. InHand \subseteq kept'
    BY <2>1 DEF InHand
  <2> QED
    BY <1>0, <2>1, <2>2, <2>3, CallKept
<1>5. CASE Succeeds \/ NotesFailure
  <2>1. /\ at = "try" /\ at' = "try" /\ kept' = kept /\ ~AtStep("keep")
        /\ UNCHANGED <<check, block, exit, exists, late, unremoved>>
    BY <1>5 DEF Succeeds, NotesFailure, Advance, AtStep, daemon
  <2> QED
    BY <1>0, <2>1, CallKept DEF InHand
<1>6. CASE Raises
  <2>1. /\ at = "try" /\ Raise /\ Leftover' = Leftover
        /\ unremoved' = unremoved /\ unanswered' = unanswered /\ check' = check
    BY <1>6 DEF Raises, AtStep, Raise, ToFinally, Leftover, daemon
  <2> QED
    BY <1>0, <1>a, <2>1, RaiseKeeps
<1>7. CASE EndOfTry
  <2>1. /\ at = "try" /\ at' = "finally" /\ broom' = kept /\ pc = Len(Try) + 1
        /\ Leftover' = Leftover
        /\ UNCHANGED <<check, block, kept, failed, exit, unremoved, unanswered>>
    BY <1>7 DEF EndOfTry, ToFinally, Leftover, daemon
  <2>2. InHand = {}
    <3>1. DOMAIN Try = 1..Len(Try) /\ Len(Try) \in Nat
      BY ScriptTidy DEF Inv
    <3> QED
      BY <2>1, <3>1 DEF InHand, AtStep
  <2>3. unremoved \subseteq Excused
    BY DEF Excused
  <2>4. AndWhatTheyUse(unremoved) \subseteq AndWhatTheyUse(Excused)
    BY <2>3, UseGrows
  <2>5. AndWhatTheyUse(Excused)' = AndWhatTheyUse(Excused)
    BY <2>1 DEF AndWhatTheyUse, Excused, Unkept
  <2>6. exit = "none"
    BY <2>1 DEF Inv, ExitInv, TypeOK
  <2> QED
    BY <1>0, <2>1, <2>2, <2>4, <2>5, <2>6 DEF Inv, KeptInv
<1>8. ASSUME NEW r \in Resources, Removed(r) \/ RemovalRefused(r) \/ RemovalTimesOut(r)
      PROVE  KeptInv'
  BY <1>8, RemovedKept, RefusedKept, TimeoutKept
<1>9. CASE EndOfFinally
  BY <1>9, EndKept
<1>10. CASE Killed
  <2>1. at' = "done" /\ exit' = "killed" /\ UNCHANGED <<check, block, kept>>
    BY <1>10 DEF Killed
  <2> QED
    BY <2>1 DEF Inv, KeptInv
<1>11. CASE \/ \E r \in Resources : LateCreate(r) \/ LateRemove(r) \/ Forget(r)
            \/ StartClean \/ SweepLine \/ SweepFails
  <2>1. UNCHANGED <<script, unanswered, unremoved>>
    BY <1>11 DEF LateCreate, LateRemove, Forget, StartClean, SweepLine, SweepFails
  <2>2. Leftover' \subseteq Leftover
    BY <1>11 DEF LateCreate, LateRemove, Forget, StartClean, SweepLine, SweepFails,
       Leftover, daemon
  <2> QED
    BY <2>1, <2>2, NothingAdded
<1>12. CASE UNCHANGED vars
  BY <1>12, NothingAdded DEF vars, daemon, Leftover
<1> QED
  BY <1>1, <1>2, <1>3, <1>4, <1>5, <1>6, <1>7, <1>8, <1>9, <1>10, <1>11, <1>12 DEF Next

\* Before any script runs nothing exists, so nothing needs an excuse.
LEMMA InvInit == Init => Inv
<1> SUFFICES ASSUME Init PROVE Inv
  OBVIOUS
<1>1. TypeOK
  BY TypeInit
<1>2. Tidy(check, Plan[check][1])
  BY <1>1, ScriptTidy DEF Init
<1>3. KeptInv
  BY <1>2 DEF Init, KeptInv, Leftover, Tidy
<1>4. ExitInv /\ CleanInv
  BY DEF Init, ExitInv, CleanInv
<1> QED
  BY <1>1, <1>3, <1>4 DEF Inv

(* Whatever fails, times out or is killed, what is there is kept, excused  *)
(* or still to be removed.                                                 *)
THEOREM Invariance == Spec => []Inv
<1>1. Inv /\ [Next]_vars => Inv'
  BY StepType, ExitStep, CleanStep, KeptStep DEF Inv
<1> QED
  BY <1>1, InvInit, PTL DEF Spec

(* Whichever scripts are run: one that passes has left nothing whose       *)
(* removal, or that of what uses it, Docker did not refuse.                *)
THEOREM GreenLeavesNothing == Spec => []GreenIsClean
<1>1. Inv => GreenIsClean
  BY DEF Inv, KeptInv, ExitInv, Excused, GreenIsClean
<1> QED
  BY <1>1, Invariance, PTL

(* Whichever scripts are run: one that fails leaves nothing that cannot be *)
(* accounted for.                                                          *)
THEOREM FailureLeavesExcused == Spec => []FailureIsClean
<1>1. Inv => FailureIsClean
  BY DEF Inv, KeptInv, ExitInv, Excused, FailureIsClean
<1> QED
  BY <1>1, Invariance, PTL

(* Whichever scripts are run, and however they end: a make clean that goes *)
(* through with nothing under way leaves nothing but the container whose   *)
(* name it does not know.                                                  *)
THEOREM CleanTakes == Spec => []CleanTakesTheRest
<1>1. ASSUME Inv PROVE CleanTakesTheRest
  <2> SUFFICES ASSUME quiet, sweep > Len(Sweeps) PROVE exists \subseteq {"patch"}
    BY DEF CleanTakesTheRest
  <2>1. sweep \in Int /\ \A k \in 1..4 : k < sweep
    BY <1>1, SweepLines DEF Inv, TypeOK
  <2>2. \A k \in 1..4 : exists \cap Sweeps[k] = {}
    BY <1>1, <2>1, SweepLines DEF Inv, CleanInv
  <2>3. exists \subseteq Resources
    BY <1>1 DEF Inv, TypeOK
  <2> QED
    BY <2>2, <2>3, SweepLines
<1> QED
  BY <1>1, Invariance, PTL
=============================================================================
