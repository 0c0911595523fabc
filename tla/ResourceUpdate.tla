---------------------------- MODULE ResourceUpdate ----------------------------
(***************************************************************************)
(* with_memory_shrink_restored of the reliability harness, and the two     *)
(* verified `docker update' retry loops it runs (update_container_         *)
(* resources_verified): shrink a container's memory limit, run an action,  *)
(* restore the limit, in scripts/reliability/reliability_check.py.         *)
(*                                                                         *)
(* The Docker daemon is the environment: what an update changes and what   *)
(* it reports are independent of each other, a call may hit the timeout of *)
(* run_docker, and SIGTERM raises _TerminatedError wherever the script is. *)
(***************************************************************************)
EXTENDS Integers

CONSTANTS
  Deadline,  \* RESOURCE_UPDATE_RETRY_DEADLINE_SECONDS, in ticks
  Interval,  \* RESOURCE_UPDATE_RETRY_INTERVAL_SECONDS
  CallTime,  \* bound: the longest a docker command takes
  Oversleep  \* bound: how late time.sleep returns

ASSUME DeadlineAssumption == Deadline \in Nat
ASSUME IntervalAssumption == Interval \in Nat \ {0}
ASSUME CallTimeAssumption == CallTime \in Nat
ASSUME OversleepAssumption == Oversleep \in Nat

VARIABLES
  phase,    \* where with_memory_shrink_restored is
  at,       \* where the update loop under way is, "none" outside of one
  attempt,  \* docker updates this loop has issued
  elapsed,  \* time since this loop began
  limit,    \* the container's HostConfig: Memory and MemorySwap
  exc,      \* whether the action raised
  outcome   \* how the function ended, and the __cause__ of what it raised

vars == <<phase, at, attempt, elapsed, limit, exc, outcome>>

Values == {"original", "shrunk"}
Limits == [memory: Values, swap: Values]
Limit(v) == [memory |-> v, swap |-> v]

\* What the loop under way is to bring about.
Goal == Limit(IF phase = "restore" THEN "original" ELSE "shrunk")

\* What an update may leave behind: each of the two values changed or not.
Applied == {l \in Limits : /\ l.memory \in {limit.memory, Goal.memory}
                           /\ l.swap \in {limit.swap, Goal.swap}}

\* Mutant: the swap limit is not compared.
VerifiedMemoryOnly == limit.memory = Goal.memory

\* _verified: both values, exactly.
Verified == limit.memory = Goal.memory /\ limit.swap = Goal.swap

(* What the classifier looks at in the stderr of a failed update.          *)
Errors == [runc: BOOLEAN, enoent: BOOLEAN, cgroup: BOOLEAN,
           file: {"cgroup.controllers", "memory.max", "pids.max"}]

\* _is_transient_cgroup_update_race: all four, and two file names only.
IsTransientRace(e) ==
  e.runc /\ e.enoent /\ e.cgroup /\ e.file \in {"cgroup.controllers", "memory.max"}

Init ==
  /\ phase = "capture"
  /\ at = "none"
  /\ attempt = 0
  /\ elapsed = 0
  /\ limit = Limit("original")
  /\ exc = "none"
  /\ outcome = [kind |-> "running", cause |-> "none"]

End(kind, cause) ==
  /\ phase' = "end"
  /\ at' = "none"
  /\ outcome' = [kind |-> kind, cause |-> cause]
  /\ UNCHANGED exc

\* An update loop begins.
Begin(p) ==
  /\ phase' = p
  /\ at' = "update"
  /\ attempt' = 0
  /\ elapsed' = 0
  /\ UNCHANGED outcome

\* Mutant: the restore failure is raised without `from action_exc'.
RaisesUnchained ==
  End(IF phase = "restore" THEN "restoreFailed" ELSE "shrinkFailed", "none")

\* The loop raises a ReliabilityError: from the shrink it leaves the function,
\* from the restore it takes precedence over the action's exception.
Raises ==
  IF phase = "restore" THEN End("restoreFailed", exc)
  ELSE End("shrinkFailed", "none")

\* subprocess.TimeoutExpired or _TerminatedError: no except clause takes it.
Escapes == End("escaped", "none")

\* The loop returns: the action is next, or the function's own end.
Succeeds ==
  IF phase = "restore" THEN End(IF exc = "none" THEN "returned" ELSE "reraised", "none")
  ELSE phase' = "shrunk" /\ at' = "none" /\ UNCHANGED <<exc, outcome>>

\* A docker command has run.
Takes == elapsed' \in elapsed..(elapsed + CallTime)

\* docker inspect for the original values, and into the shrink.
Capture ==
  /\ phase = "capture"
  /\ \/ Begin("shrink") /\ UNCHANGED exc
     \/ Escapes /\ UNCHANGED <<attempt, elapsed>>
  /\ UNCHANGED limit

\* docker update: it may do any part of its work, whatever it then reports.
Update ==
  /\ at = "update"
  /\ attempt' = attempt + 1
  /\ Takes
  /\ limit' \in Applied
  /\ \/ at' = "verify" /\ UNCHANGED <<phase, exc, outcome>>
     \/ \E e \in Errors :
          IF IsTransientRace(e)
          THEN at' = "recheck" /\ UNCHANGED <<phase, exc, outcome>>
          ELSE Raises
     \/ Escapes

\* The inspection after an update: a match ends the loop, and a mismatch is
\* fatal after exit code 0, to be retried after the race.
Inspect ==
  /\ at \in {"verify", "recheck"}
  /\ Takes
  /\ \/ IF Verified THEN Succeeds
        ELSE IF at = "verify" THEN Raises
        ELSE at' = "wait" /\ UNCHANGED <<phase, exc, outcome>>
     \/ Raises
     \/ Escapes
  /\ UNCHANGED <<attempt, limit>>

\* Mutant: the remaining time is computed and not looked at.
RetryForever ==
  /\ at = "wait"
  /\ elapsed' = elapsed + Interval
  /\ at' = "update"
  /\ UNCHANGED <<phase, exc, outcome, attempt, limit>>

\* Mutant: no sleep between two attempts.
RetryAtOnce ==
  /\ at = "wait"
  /\ IF elapsed >= Deadline THEN Raises
     ELSE at' = "update" /\ UNCHANGED <<phase, exc, outcome>>
  /\ UNCHANGED <<elapsed, attempt, limit>>

\* Past the deadline the loop raises; before it, it sleeps and tries again.
Wait ==
  LET slept == IF Interval <= Deadline - elapsed THEN elapsed + Interval
               ELSE Deadline
  IN /\ at = "wait"
     /\ IF elapsed >= Deadline THEN Raises /\ UNCHANGED elapsed
        ELSE /\ elapsed' \in slept..(slept + Oversleep)
             /\ at' = "update"
             /\ UNCHANGED <<phase, exc, outcome>>
     /\ UNCHANGED <<attempt, limit>>

\* The try block is entered ...
RunAction ==
  /\ phase = "shrunk"
  /\ phase' = "action"
  /\ UNCHANGED <<at, attempt, elapsed, limit, exc, outcome>>

\* ... and left, by whatever the action raised or by its result.
ActionEnds ==
  /\ phase = "action"
  /\ Begin("restore")
  /\ exc' \in {"none", "raised"}
  /\ UNCHANGED limit

\* SIGTERM: its handler raises into whatever runs; only the action is inside
\* an except clause that takes it.  A docker update under way may land.
Terminate ==
  /\ phase # "end"
  /\ IF phase = "action"
     THEN Begin("restore") /\ exc' = "raised"
     ELSE Escapes /\ UNCHANGED <<attempt, elapsed>>
  /\ limit' \in IF at = "update" THEN Applied ELSE {limit}

Next ==
  \/ Capture
  \/ Update \/ Inspect \/ Wait
  \/ RunAction \/ ActionEnds
  \/ Terminate

Spec == Init /\ [][Next]_vars
-----------------------------------------------------------------------------
TypeOK ==
  /\ phase \in {"capture", "shrink", "shrunk", "action", "restore", "end"}
  /\ at \in {"none", "update", "verify", "recheck", "wait"}
  /\ attempt \in Nat
  /\ elapsed \in Nat
  /\ limit \in Limits
  /\ exc \in {"none", "raised"}
  /\ outcome \in [kind: {"running", "returned", "reraised",
                         "shrinkFailed", "restoreFailed", "escaped"},
                  cause: {"none", "raised"}]

(* The function never ends as if all were well, with the action's result or*)
(* with nothing but the action's own failure, while the container keeps a  *)
(* limit that is not its original one, in either value.                    *)
NeverQuietlyStarved ==
  outcome.kind \in {"returned", "reraised"} => limit = Limit("original")

(* The action only ever runs under the limit it is about: neither an exit  *)
(* code nor a half-applied update lets it start.                           *)
ActionRunsShrunk == phase = "action" => limit = Limit("shrunk")

(* A normal return means the action returned; a failed restore carries the *)
(* action's exception, if there was one, as its cause.                     *)
FailuresReported ==
  /\ outcome.kind = "returned" => exc = "none"
  /\ outcome.kind = "reraised" => exc = "raised"
  /\ outcome.kind = "restoreFailed" => outcome.cause = exc

\* The stage that a phase belongs to.  While a loop is under way the promise
\* speaks of the limit that the stage began with.
Stage ==
  CASE phase \in {"capture", "shrink", "shrunk"} -> "before"
    [] phase = "action"  -> "action"
    [] phase = "restore" -> "restoring"
    [] phase = "end"     -> "over"

Starved ==
  CASE phase \in {"capture", "shrink", "shrunk"} -> FALSE
    [] phase \in {"action", "restore"} -> TRUE
    [] phase = "end" -> limit # Limit("original")

Promise == INSTANCE ShrinkPromise WITH stage <- Stage, starved <- Starved

(* Whatever docker does with each single update, and wherever a command    *)
(* times out or SIGTERM hits: the retry loops together are the one step    *)
(* that the harness counts on (with_memory_shrink_restored, its docstring  *)
(* on restoring and on the precedence of the two failures).                *)
RestoresAsPromised == Promise!Spec

\* What n whole sleeps take.
Slept(n) == n * Interval

(* No retry storm: a loop issues at most Deadline / Interval updates, and  *)
(* one more when the deadline is reached asleep.                           *)
AttemptsBounded == attempt >= 2 => Slept(attempt - 2) < Deadline

(* A loop is over, whatever docker does, once the deadline and one last    *)
(* update with its inspection have gone by.                                *)
DoneInTime == elapsed <= Deadline + Oversleep + 2 * CallTime
-----------------------------------------------------------------------------
(* The inductive invariant.                                                 *)

\* A loop runs in the two phases that have one, and a clean end came from a
\* match of both values.
PhaseInv ==
  /\ at # "none" <=> phase \in {"shrink", "restore"}
  /\ phase \in {"shrunk", "action"} => limit = Limit("shrunk")
  /\ phase \in {"capture", "shrink", "shrunk", "action"} => exc = "none"
  /\ phase # "end" => outcome = [kind |-> "running", cause |-> "none"]

\* Every wait but the last cost an Interval, and the last reached the deadline.
TimeInv ==
  /\ at = "update" =>
       /\ elapsed <= Deadline + Oversleep
       /\ attempt = 0 => elapsed = 0
       /\ attempt >= 1 => Slept(attempt - 1) < Deadline
  /\ at \in {"verify", "recheck"} => elapsed <= Deadline + Oversleep + CallTime
  /\ at \in {"verify", "recheck", "wait"} => attempt >= 1
  /\ at # "none" =>
       \/ elapsed >= Deadline
       \/ Slept(attempt) <= elapsed + (IF at = "update" THEN 0 ELSE Interval)

IInv ==
  /\ TypeOK
  /\ PhaseInv
  /\ TimeInv
  /\ NeverQuietlyStarved
  /\ FailuresReported
  /\ AttemptsBounded
  /\ DoneInTime
=============================================================================
