---------------------------- MODULE ShrinkPromise ----------------------------
(***************************************************************************)
(* What with_memory_shrink_restored promises its caller, the harness       *)
(* (scripts/reliability/reliability_check.py): the action runs under a     *)
(* shrunk limit or not at all; the limit is back, or an exception of the   *)
(* function's own says that it may not be, and carries the action's.       *)
(*                                                                         *)
(* Each stage is one step here, however many docker commands it takes.     *)
(***************************************************************************)

VARIABLES
  stage,    \* "before" the action, "action", "restoring" or "over"
  starved,  \* whether the container has another limit than its own
  exc,      \* whether the action raised
  outcome   \* how the function ended, and the __cause__ of what it raised

vars == <<stage, starved, exc, outcome>>

Init ==
  /\ stage = "before"
  /\ starved = FALSE
  /\ exc = "none"
  /\ outcome = [kind |-> "running", cause |-> "none"]

EnterAction ==
  /\ stage = "before"
  /\ stage' = "action"
  /\ starved' = TRUE
  /\ UNCHANGED <<exc, outcome>>

\* The action returns or raises: the restore is next either way.
LeaveAction ==
  /\ stage = "action"
  /\ stage' = "restoring"
  /\ exc' \in {"none", "raised"}
  /\ UNCHANGED <<starved, outcome>>

Restored ==
  /\ stage = "restoring"
  /\ stage' = "over"
  /\ starved' = FALSE
  /\ outcome' = [kind |-> IF exc = "none" THEN "returned" ELSE "reraised",
                 cause |-> "none"]
  /\ UNCHANGED exc

\* The shrink or the restore was not verified: the container may be starved.
Unverified ==
  /\ stage \in {"before", "restoring"}
  /\ stage' = "over"
  /\ starved' \in BOOLEAN
  /\ outcome' = [kind |-> IF stage = "before" THEN "shrinkFailed" ELSE "restoreFailed",
                 cause |-> exc]
  /\ UNCHANGED exc

\* A docker command timed out, or SIGTERM hit the shrink or the restore.
Escaped ==
  /\ stage \in {"before", "restoring"}
  /\ stage' = "over"
  /\ starved' \in BOOLEAN
  /\ outcome' = [kind |-> "escaped", cause |-> "none"]
  /\ UNCHANGED exc

Next == EnterAction \/ LeaveAction \/ Restored \/ Unverified \/ Escaped

Spec == Init /\ [][Next]_vars
=============================================================================
