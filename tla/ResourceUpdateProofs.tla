------------------------ MODULE ResourceUpdateProofs ------------------------
(***************************************************************************)
(* Proofs about ResourceUpdate, for every deadline, interval and duration: *)
(* IInv is inductive, and the retry bounds and the restore guarantees      *)
(* follow from it.                                                         *)
(***************************************************************************)
EXTENDS ResourceUpdate, TLAPS

USE DeadlineAssumption, IntervalAssumption, CallTimeAssumption,
    OversleepAssumption

(* Sleeps add up.                                                          *)
LEMMA SleptAdds ==
  /\ Slept(0) = 0
  /\ \A n \in Nat : Slept(n) \in Nat
  /\ \A n \in Nat : Slept(n + 1) = Slept(n) + Interval
BY DEF Slept

(* A match of both values is the whole HostConfig of the loop's goal.      *)
LEMMA VerifiedIsGoal ==
  ASSUME TypeOK, Verified
  PROVE  limit = Goal
BY DEF TypeOK, Verified, Goal, Limit, Limits

(* A loop of the shrink or of the restore that raises ends the function    *)
(* with a failure that names the loop, the restore's with its cause.       *)
LEMMA RaisesEnds ==
  ASSUME Raises
  PROVE  /\ phase' = "end" /\ at' = "none" /\ exc' = exc
         /\ outcome' \in {[kind |-> "restoreFailed", cause |-> exc],
                          [kind |-> "shrinkFailed", cause |-> "none"]}
<1>1. CASE phase = "restore"
  BY <1>1 DEF Raises, End
<1>2. CASE phase # "restore"
  BY <1>2 DEF Raises, End
<1> QED
  BY <1>1, <1>2

(* What TimeoutExpired or SIGTERM leave.                                   *)
LEMMA EscapesEnds ==
  ASSUME Escapes
  PROVE  /\ phase' = "end" /\ at' = "none" /\ exc' = exc
         /\ outcome' = [kind |-> "escaped", cause |-> "none"]
BY DEF Escapes, End

(* The parts of the invariant about the end of the function hold when it   *)
(* ends in a failure of its own.                                           *)
LEMMA FailedEnd ==
  ASSUME IInv,
         limit' \in Limits, elapsed' \in Nat, attempt' \in Nat,
         elapsed' <= Deadline + Oversleep + 2 * CallTime,
         attempt' >= 2 => Slept(attempt' - 2) < Deadline,
         phase' = "end", at' = "none", exc' = exc,
         outcome' \in {[kind |-> "restoreFailed", cause |-> exc],
                      [kind |-> "shrinkFailed", cause |-> "none"],
                      [kind |-> "escaped", cause |-> "none"]}
  PROVE  IInv'
<1>1. exc \in {"none", "raised"}
  BY DEF IInv, TypeOK
<1>2. TypeOK'
  BY <1>1 DEF TypeOK
<1>3. PhaseInv'
  BY DEF PhaseInv
<1>4. TimeInv'
  BY DEF TimeInv
<1>5. NeverQuietlyStarved' /\ FailuresReported'
  BY DEF NeverQuietlyStarved, FailuresReported
<1>6. AttemptsBounded' /\ DoneInTime'
  BY DEF AttemptsBounded, DoneInTime
<1> QED
  BY <1>2, <1>3, <1>4, <1>5, <1>6 DEF IInv

(* The state right after a verified update: the action is next, or the     *)
(* function returns or re-raises, with the limit it started from.          *)
LEMMA SucceedsStep ==
  ASSUME IInv, phase \in {"shrink", "restore"}, Verified, Succeeds,
         limit' = limit, attempt' = attempt, elapsed' \in Nat,
         elapsed' <= Deadline + Oversleep + 2 * CallTime
  PROVE  IInv'
<1> USE DEF IInv
<1>1. limit = Goal
  BY VerifiedIsGoal
<1>2. CASE phase = "shrink"
  <2>1. /\ phase' = "shrunk" /\ at' = "none" /\ exc' = exc
        /\ outcome' = outcome /\ limit' = Limit("shrunk")
    BY <1>1, <1>2 DEF Succeeds, Goal
  <2> QED
    BY <2>1, <1>2 DEF TypeOK, PhaseInv, TimeInv, NeverQuietlyStarved,
       FailuresReported, AttemptsBounded, DoneInTime
<1>3. CASE phase = "restore"
  <2>1. /\ phase' = "end" /\ at' = "none" /\ exc' = exc
        /\ outcome' = [kind |-> IF exc = "none" THEN "returned" ELSE "reraised",
                       cause |-> "none"]
        /\ limit' = Limit("original")
    BY <1>1, <1>3 DEF Succeeds, Goal, End
  <2> QED
    BY <2>1, <1>3 DEF TypeOK, PhaseInv, TimeInv, NeverQuietlyStarved,
       FailuresReported, AttemptsBounded, DoneInTime
<1> QED
  BY <1>2, <1>3

(* A new loop starts with nothing spent.                                   *)
LEMMA BeginStep ==
  ASSUME IInv, NEW p \in {"shrink", "restore"}, Begin(p), phase # "end",
         limit' = limit, exc' \in {"none", "raised"},
         p = "shrink" => exc' = "none"
  PROVE  IInv'
<1>1. /\ phase' = p /\ at' = "update" /\ attempt' = 0 /\ elapsed' = 0
      /\ outcome' = outcome /\ outcome = [kind |-> "running", cause |-> "none"]
  BY DEF Begin, IInv, PhaseInv
<1>2. TypeOK'
  BY <1>1 DEF IInv, TypeOK
<1>3. PhaseInv'
  BY <1>1 DEF PhaseInv
<1>4. TimeInv'
  BY <1>1, SleptAdds DEF TimeInv
<1>5. NeverQuietlyStarved' /\ FailuresReported'
  BY <1>1 DEF NeverQuietlyStarved, FailuresReported
<1>6. AttemptsBounded' /\ DoneInTime'
  BY <1>1 DEF AttemptsBounded, DoneInTime
<1> QED
  BY <1>2, <1>3, <1>4, <1>5, <1>6 DEF IInv

(* An update that is not the end of the loop, or that is.                  *)
LEMMA UpdateStep ==
  ASSUME IInv, Update
  PROVE  IInv'
<1> USE DEF IInv
<1>1. /\ at = "update" /\ phase \in {"shrink", "restore"}
      /\ limit' \in Limits /\ elapsed' \in Nat /\ attempt' \in Nat
      /\ attempt' = attempt + 1
      /\ elapsed <= elapsed' /\ elapsed' <= Deadline + Oversleep + CallTime
  BY DEF Update, PhaseInv, TimeInv, TypeOK, Takes, Applied
<1>2. attempt' >= 2 => Slept(attempt' - 2) < Deadline
  <2>1. attempt' - 2 = attempt - 1
    BY <1>1 DEF TypeOK
  <2> QED
    BY <1>1, <2>1 DEF TimeInv, TypeOK
<1>3. \/ elapsed' >= Deadline
      \/ Slept(attempt') <= elapsed' + Interval
  <2>1. Slept(attempt') = Slept(attempt) + Interval /\ Slept(attempt) \in Nat
    BY <1>1, SleptAdds DEF TypeOK
  <2>2. elapsed \in Nat /\ (elapsed >= Deadline \/ Slept(attempt) <= elapsed)
    BY <1>1 DEF TimeInv, TypeOK
  <2> QED
    BY <1>1, <2>1, <2>2
<1>4. CASE at' \in {"verify", "recheck"} /\ UNCHANGED <<phase, exc, outcome>>
  <2>1. TypeOK'
    BY <1>1, <1>4 DEF TypeOK
  <2>2. PhaseInv'
    BY <1>1, <1>4 DEF PhaseInv
  <2>3. TimeInv'
    <3>1. attempt' >= 1 /\ Slept(attempt') \in Nat
      BY <1>1, SleptAdds DEF TypeOK
    <3> QED
      BY <1>1, <1>3, <1>4, <3>1 DEF TimeInv
  <2>4. NeverQuietlyStarved' /\ FailuresReported'
    BY <1>1, <1>4 DEF NeverQuietlyStarved, FailuresReported, PhaseInv
  <2>5. AttemptsBounded' /\ DoneInTime'
    BY <1>1, <1>2 DEF AttemptsBounded, DoneInTime
  <2> QED
    BY <2>1, <2>2, <2>3, <2>4, <2>5
<1>5. CASE Raises
  BY <1>1, <1>2, <1>5, RaisesEnds, FailedEnd
<1>6. CASE Escapes
  BY <1>1, <1>2, <1>6, EscapesEnds, FailedEnd
<1> QED
  BY <1>4, <1>5, <1>6 DEF Update

(* The inspection after an update.                                         *)
LEMMA InspectStep ==
  ASSUME IInv, Inspect
  PROVE  IInv'
<1> USE DEF IInv
<1>1. /\ at \in {"verify", "recheck"} /\ phase \in {"shrink", "restore"}
      /\ limit' = limit /\ attempt' = attempt /\ elapsed' \in Nat
      /\ elapsed <= elapsed' /\ elapsed' <= Deadline + Oversleep + 2 * CallTime
  BY DEF Inspect, PhaseInv, TimeInv, TypeOK, Takes
<1>2. limit' \in Limits /\ attempt' \in Nat
      /\ (attempt' >= 2 => Slept(attempt' - 2) < Deadline)
  BY <1>1 DEF TypeOK, AttemptsBounded
<1>3. CASE Verified /\ Succeeds
  BY <1>1, <1>3, SucceedsStep
<1>4. CASE at' = "wait" /\ UNCHANGED <<phase, exc, outcome>>
  <2>1. TypeOK'
    BY <1>1, <1>4 DEF TypeOK
  <2>2. PhaseInv'
    BY <1>1, <1>4 DEF PhaseInv
  <2>3. TimeInv'
    <3>1. /\ attempt' >= 1 /\ Slept(attempt') \in Nat
          /\ elapsed' >= Deadline \/ Slept(attempt') <= elapsed' + Interval
      BY <1>1, SleptAdds DEF TimeInv, TypeOK
    <3> QED
      BY <1>4, <3>1 DEF TimeInv
  <2>4. NeverQuietlyStarved' /\ FailuresReported'
    BY <1>1, <1>4 DEF NeverQuietlyStarved, FailuresReported, PhaseInv
  <2>5. AttemptsBounded' /\ DoneInTime'
    BY <1>1, <1>2 DEF AttemptsBounded, DoneInTime
  <2> QED
    BY <2>1, <2>2, <2>3, <2>4, <2>5
<1>5. CASE Raises
  BY <1>1, <1>2, <1>5, RaisesEnds, FailedEnd
<1>6. CASE Escapes
  BY <1>1, <1>2, <1>6, EscapesEnds, FailedEnd
<1> QED
  BY <1>3, <1>4, <1>5, <1>6 DEF Inspect

(* The deadline check and the sleep.                                       *)
LEMMA WaitStep ==
  ASSUME IInv, Wait
  PROVE  IInv'
<1> USE DEF IInv
<1>1. /\ at = "wait" /\ phase \in {"shrink", "restore"}
      /\ limit' = limit /\ attempt' = attempt
  BY DEF Wait, PhaseInv
<1>2. limit' \in Limits /\ attempt' \in Nat
      /\ (attempt' >= 2 => Slept(attempt' - 2) < Deadline)
  BY <1>1 DEF TypeOK, AttemptsBounded
<1>3. CASE elapsed >= Deadline
  <2>1. Raises /\ elapsed' = elapsed
    BY <1>3 DEF Wait
  <2> QED
    BY <1>1, <1>2, <2>1, RaisesEnds, FailedEnd DEF TypeOK, DoneInTime
<1>4. CASE elapsed < Deadline
  <2> DEFINE slept == IF Interval <= Deadline - elapsed THEN elapsed + Interval
                      ELSE Deadline
  <2>1. /\ elapsed' \in slept..(slept + Oversleep)
        /\ at' = "update" /\ UNCHANGED <<phase, exc, outcome>>
    BY <1>4 DEF Wait, TypeOK
  <2>2. slept \in Nat /\ slept <= Deadline
        /\ (slept = Deadline \/ slept = elapsed + Interval)
    BY <1>4 DEF TypeOK
  <2>3. elapsed' \in Nat /\ slept <= elapsed' /\ elapsed' <= Deadline + Oversleep
    <3> HIDE DEF slept
    <3> QED
      BY <2>1, <2>2
  <2> HIDE DEF slept
  <2>4. /\ attempt >= 1 /\ Slept(attempt) \in Nat
        /\ Slept(attempt) <= elapsed + Interval
    BY <1>1, <1>4, SleptAdds DEF TypeOK, TimeInv
  <2>5. Slept(attempt - 1) < Deadline
    <3>1. attempt - 1 \in Nat /\ attempt = (attempt - 1) + 1
      BY <2>4 DEF TypeOK
    <3>2. Slept(attempt) = Slept(attempt - 1) + Interval
          /\ Slept(attempt - 1) \in Nat
      BY <3>1, SleptAdds
    <3> QED
      BY <2>4, <3>2, <1>4 DEF TypeOK
  <2>6. TypeOK'
    BY <1>1, <1>2, <2>1, <2>3 DEF TypeOK
  <2>7. PhaseInv'
    BY <1>1, <2>1 DEF PhaseInv
  <2>8. TimeInv'
    <3>1. elapsed' >= Deadline \/ Slept(attempt) <= elapsed'
      BY <2>2, <2>3, <2>4 DEF TypeOK
    <3> QED
      BY <1>1, <2>1, <2>3, <2>4, <2>5, <3>1 DEF TimeInv, TypeOK
  <2>9. NeverQuietlyStarved' /\ FailuresReported'
    BY <1>1, <2>1 DEF NeverQuietlyStarved, FailuresReported, PhaseInv
  <2>10. AttemptsBounded' /\ DoneInTime'
    BY <1>2, <2>3 DEF AttemptsBounded, DoneInTime
  <2> QED
    BY <2>6, <2>7, <2>8, <2>9, <2>10
<1> QED
  BY <1>3, <1>4 DEF TypeOK

(* Every step keeps the invariant.                                         *)
LEMMA StepInv == IInv /\ [Next]_vars => IInv'
<1> SUFFICES ASSUME IInv, [Next]_vars
             PROVE  IInv'
  OBVIOUS
<1> USE DEF IInv
<1>1. CASE Capture
  <2>1. CASE Begin("shrink") /\ UNCHANGED exc
    BY <1>1, <2>1, BeginStep DEF Capture, PhaseInv, TypeOK
  <2>2. CASE Escapes /\ UNCHANGED <<attempt, elapsed>>
    BY <1>1, <2>2, EscapesEnds, FailedEnd DEF Capture, TypeOK, DoneInTime,
       AttemptsBounded
  <2> QED
    BY <1>1, <2>1, <2>2 DEF Capture
<1>2. CASE Update
  BY <1>2, UpdateStep
<1>3. CASE Inspect
  BY <1>3, InspectStep
<1>4. CASE Wait
  BY <1>4, WaitStep
<1>5. CASE RunAction
  BY <1>5 DEF RunAction, TypeOK, PhaseInv, TimeInv, NeverQuietlyStarved,
     FailuresReported, AttemptsBounded, DoneInTime
<1>6. CASE ActionEnds
  BY <1>6, BeginStep DEF ActionEnds
<1>7. CASE Terminate
  <2>1. CASE phase = "action"
    <3>1. at # "update" /\ Begin("restore") /\ exc' = "raised"
      BY <1>7, <2>1 DEF Terminate, PhaseInv
    <3>2. limit' = limit
      BY <1>7, <3>1 DEF Terminate
    <3> QED
      BY <2>1, <3>1, <3>2, BeginStep
  <2>2. CASE phase # "action"
    <3>1. Escapes /\ attempt' = attempt /\ elapsed' = elapsed
      BY <1>7, <2>2 DEF Terminate
    <3>2. limit' \in Limits
      BY <1>7 DEF Terminate, Applied, TypeOK
    <3> QED
      BY <3>1, <3>2, EscapesEnds, FailedEnd DEF TypeOK, DoneInTime,
         AttemptsBounded
  <2> QED
    BY <2>1, <2>2
<1>8. CASE UNCHANGED vars
  BY <1>8 DEF vars, TypeOK, PhaseInv, TimeInv, NeverQuietlyStarved,
     FailuresReported, AttemptsBounded, DoneInTime
<1> QED
  BY <1>1, <1>2, <1>3, <1>4, <1>5, <1>6, <1>7, <1>8 DEF Next

(* The harness starts with the container's own limit and no loop under way.*)
LEMMA InitInv == Init => IInv
BY DEF Init, IInv, TypeOK, PhaseInv, TimeInv, NeverQuietlyStarved,
   FailuresReported, AttemptsBounded, DoneInTime, Limit, Limits, Values

(* The inductive invariant, of every behaviour.                            *)
THEOREM UpdateInvariance == Spec => []IInv
BY InitInv, StepInv, PTL DEF Spec

(* Whatever docker answers and whenever SIGTERM comes, the function ends   *)
(* cleanly only with the original limit, runs its action only under the    *)
(* shrunk one, and loses no ReliabilityError.                              *)
THEOREM RestoreGuarantees ==
  Spec => [](NeverQuietlyStarved /\ ActionRunsShrunk /\ FailuresReported)
<1>1. IInv => NeverQuietlyStarved /\ ActionRunsShrunk /\ FailuresReported
  BY DEF IInv, PhaseInv, ActionRunsShrunk
<1> QED
  BY <1>1, UpdateInvariance, PTL

(* For every deadline and interval, the number of docker updates and the   *)
(* duration of a loop are bounded.                                         *)
THEOREM RetryBounds == Spec => [](AttemptsBounded /\ DoneInTime)
<1>1. IInv => AttemptsBounded /\ DoneInTime
  BY DEF IInv
<1> QED
  BY <1>1, UpdateInvariance, PTL
-----------------------------------------------------------------------------
(* The promise to the harness.                                             *)

\* What does not concern it: a step within a stage.
Within == UNCHANGED <<Stage, Starved, exc, outcome>>

(* A loop that raises, and whatever leaves the function, ends it in its    *)
(* stage, with any limit.                                                  *)
LEMMA EndsBroken ==
  ASSUME IInv, phase \in {"capture", "shrink", "shrunk", "restore"}, Raises \/ Escapes,
         Raises => phase \in {"shrink", "restore"}
  PROVE  Promise!Unverified \/ Promise!Escaped
<1>1. /\ phase' = "end" /\ exc' = exc
      /\ \/ outcome' = [kind |-> "escaped", cause |-> "none"]
         \/ phase = "restore" /\ outcome' = [kind |-> "restoreFailed", cause |-> exc]
         \/ phase = "shrink" /\ outcome' = [kind |-> "shrinkFailed", cause |-> "none"]
  BY DEF Raises, Escapes, End
<1>2. phase = "shrink" => exc = "none"
  BY DEF IInv, PhaseInv
<1>3. Stage \in {"before", "restoring"} /\ Stage' = "over" /\ Starved' \in BOOLEAN
      /\ (phase = "shrink" => Stage = "before") /\ (phase = "restore" => Stage = "restoring")
  BY <1>1 DEF Stage, Starved
<1> QED
  BY <1>1, <1>2, <1>3 DEF Promise!Unverified, Promise!Escaped

(* A verified shrink is a step within a stage, a verified restore the end. *)
LEMMA EndsWell ==
  ASSUME IInv, phase \in {"shrink", "restore"}, Verified, Succeeds, limit' = limit
  PROVE  Within \/ Promise!Restored
<1>1. limit = Goal
  BY VerifiedIsGoal DEF IInv
<1>2. CASE phase = "shrink"
  <2>1. phase' = "shrunk" /\ exc' = exc /\ outcome' = outcome
    BY <1>2 DEF Succeeds
  <2> QED
    BY <1>2, <2>1 DEF Within, Stage, Starved
<1>3. CASE phase = "restore"
  <2>1. /\ phase' = "end" /\ exc' = exc
        /\ outcome' = [kind |-> IF exc = "none" THEN "returned" ELSE "reraised",
                       cause |-> "none"]
        /\ limit' = Limit("original")
    BY <1>1, <1>3 DEF Succeeds, Goal, End
  <2>2. Stage = "restoring" /\ Stage' = "over" /\ Starved' = FALSE
    BY <1>3, <2>1 DEF Stage, Starved
  <2> QED
    BY <2>1, <2>2 DEF Promise!Restored
<1> QED
  BY <1>2, <1>3

(* Every step is one of the promise, or none of its business.              *)
LEMMA StepKeeps ==
  ASSUME IInv, [Next]_vars
  PROVE  Promise!Next \/ Within
<1> USE DEF Promise!Next
<1>1. at # "none" => phase \in {"shrink", "restore"}
  BY DEF IInv, PhaseInv
<1>2. CASE Capture
  <2>1. CASE Begin("shrink") /\ UNCHANGED exc
    BY <1>2, <2>1 DEF Capture, Begin, Within, Stage, Starved
  <2>2. CASE Escapes
    <3>1. ~Raises
      BY <1>2, <2>2 DEF Capture, Escapes, Raises, End
    <3> QED
      BY <1>2, <2>2, <3>1, EndsBroken DEF Capture
  <2> QED
    BY <1>2, <2>1, <2>2 DEF Capture
<1>3. CASE UNCHANGED <<phase, exc, outcome>> /\ at # "none"
  BY <1>1, <1>3 DEF Within, Stage, Starved
<1>4. CASE (Raises \/ Escapes) /\ at # "none"
  BY <1>1, <1>4, EndsBroken
<1>5. CASE Update
  BY <1>3, <1>4, <1>5 DEF Update
<1>6. CASE Inspect
  <2>1. ASSUME Verified, Succeeds PROVE Promise!Next \/ Within
    BY <1>1, <1>6, <2>1, EndsWell DEF Inspect
  <2> QED
    BY <1>3, <1>4, <1>6, <2>1 DEF Inspect
<1>7. CASE Wait
  BY <1>3, <1>4, <1>7 DEF Wait
<1>8. CASE RunAction
  BY <1>8 DEF RunAction, Promise!EnterAction, Stage, Starved
<1>9. CASE ActionEnds
  BY <1>9 DEF ActionEnds, Begin, Promise!LeaveAction, Stage, Starved
<1>10. CASE Terminate
  <2>1. CASE phase = "action"
    BY <1>10, <2>1 DEF Terminate, Begin, Promise!LeaveAction, Stage, Starved
  <2>2. CASE phase # "action"
    <3>1. Escapes /\ phase \in {"capture", "shrink", "shrunk", "restore"}
      BY <1>10, <2>2 DEF Terminate, IInv, TypeOK
    <3>2. ~Raises
      BY <3>1 DEF Escapes, Raises, End
    <3> QED
      BY <3>1, <3>2, EndsBroken
  <2> QED
    BY <2>1, <2>2
<1>11. CASE UNCHANGED vars
  BY <1>11 DEF vars, Within, Stage, Starved
<1> QED
  BY <1>2, <1>5, <1>6, <1>7, <1>8, <1>9, <1>10, <1>11 DEF Next

(* The function implements its promise: for every deadline and whatever    *)
(* docker answers, the loops of the shrink and of the restore are one step *)
(* each, and nothing the function does is outside of them.                 *)
THEOREM ShrinkKept == Spec => RestoresAsPromised
<1>1. Init => Promise!Init
  BY DEF Init, Promise!Init, Stage, Starved
<1>2. IInv /\ [Next]_vars => [Promise!Next]_(Promise!vars)
  BY StepKeeps DEF Within, Promise!vars
<1> QED
  BY <1>1, <1>2, UpdateInvariance, PTL DEF Spec, RestoresAsPromised, Promise!Spec
=============================================================================
