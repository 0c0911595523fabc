---------------------------- MODULE TimeoutBudget ----------------------------
(***************************************************************************)
(* The two-hop timeout budget: one request that gateway forwards to app    *)
(* (the outer call, gateway/server.py _call_upstream) and app to state (the*)
(* inner call, app/server.py _call_state), with a clock, under the timeouts*)
(* of a mounted platform config that the services check when they start    *)
(* (gateway/platform_config.py, app/platform_config.py).                   *)
(*                                                                         *)
(* http.client arms its timeout anew for every socket operation: connect,  *)
(* the wait for the head of the response, the wait for its body.           *)
(***************************************************************************)
EXTENDS Naturals

CONSTANTS
  MaxInner, MaxOuter, MaxMargin  \* bounds: the values a config file may hold

ASSUME BoundsAssumption == MaxInner \in Nat /\ MaxOuter \in Nat /\ MaxMargin \in Nat

VARIABLES
  conf,    \* the mounted config: the timeouts and the margin, in ticks
  boot,    \* the services have not started, refused to, or are running
  stage,   \* per call: idle, the operation under way, ok or expired
  wait,    \* per call: how long the operation under way has taken
  total,   \* per call: how long the call has taken
  stalls,  \* operations of the inner call that state made app wait for
  work     \* time of the outer call in which app was not waiting for state

budgetVars == <<conf, boot, stage, wait, total, stalls, work>>

Calls == {"outer", "inner"}
Operations == {"connect", "head", "body"}

AfterOp == [connect |-> "head", head |-> "body", body |-> "ok"]

InProgress(c) == stage[c] \in Operations

\* _validate_timeout_hierarchy: outer must be strictly above inner + margin.
Hierarchy(f) == f.outer > f.inner + f.margin

\* _validate_timeout: a timeout is positive (its maximum is the constant).
Timeouts(f) == f.inner > 0 /\ f.outer > 0 /\ f.margin > 0

BudgetInit ==
  /\ conf \in [inner: 0..MaxInner, outer: 0..MaxOuter, margin: 0..MaxMargin]
  /\ boot = "no"
  /\ stage = [c \in Calls |-> "idle"]
  /\ wait = [c \in Calls |-> 0]
  /\ total = [c \in Calls |-> 0]
  /\ stalls = 0
  /\ work = 0

\* load_platform_config raises a ValueError, or the service comes up.
Boot ==
  /\ boot = "no"
  /\ boot' = IF Timeouts(conf) /\ Hierarchy(conf) THEN "up" ELSE "refused"
  /\ UNCHANGED <<conf, stage, wait, total, stalls, work>>

\* Call c goes on to its next operation, whose timeout is armed anew.
Enter(c, from, to) ==
  /\ stage[c] = from
  /\ stage' = [stage EXCEPT ![c] = to]
  /\ wait' = [wait EXCEPT ![c] = 0]
  /\ UNCHANGED <<conf, boot, total, stalls, work>>

GatewayCalls == boot = "up" /\ Enter("outer", "idle", "connect")

\* app's socket accepts, and app's handler thread reads the request.
AppAccepts == Enter("outer", "connect", "head")

AppCalls == stage["outer"] = "head" /\ Enter("inner", "idle", "connect")

\* state accepts, answers, or sends the rest of its answer.
StateResponds == \E op \in Operations : Enter("inner", op, AfterOp[op])

\* app has state's answer or its own 503, and sends it: head, then body.
AppResponds ==
  /\ stage["inner"] \in {"ok", "expired"}
  /\ \E op \in {"head", "body"} : Enter("outer", op, AfterOp[op])

\* Mutant: one timeout for both hops, as before the hierarchy.
LimitShared(c) == conf.outer

\* Mutant: gateway waits for both budgets, one after another.
LimitStacked(c) == IF c = "outer" THEN conf.outer + conf.inner ELSE conf.inner

\* upstream_timeout_seconds and state_timeout_seconds.
Limit(c) == IF c = "outer" THEN conf.outer ELSE conf.inner

\* UpstreamError or StateError: the caller's answer is a 503 of its own.
Expire(c) ==
  /\ InProgress(c)
  /\ wait[c] = Limit(c)
  /\ stage' = [stage EXCEPT ![c] = "expired"]
  /\ UNCHANGED <<conf, boot, wait, total, stalls, work>>

\* Time passes, past no operation's timeout.
Tick ==
  LET waiting == {c \in Calls : InProgress(c)}
  IN /\ InProgress("outer")
     /\ \A c \in waiting : wait[c] < Limit(c)
     /\ wait' = [c \in Calls |-> IF c \in waiting THEN wait[c] + 1 ELSE wait[c]]
     /\ total' = [c \in Calls |-> IF c \in waiting THEN total[c] + 1 ELSE total[c]]
     /\ stalls' = IF InProgress("inner") /\ wait["inner"] = 0 THEN stalls + 1
                  ELSE stalls
     /\ work' = IF InProgress("inner") THEN work ELSE work + 1
     /\ UNCHANGED <<conf, boot, stage>>

BudgetNext ==
  \/ Boot
  \/ GatewayCalls \/ AppAccepts \/ AppCalls \/ StateResponds \/ AppResponds
  \/ \E c \in Calls : Expire(c)
  \/ Tick

BudgetSpec == BudgetInit /\ [][BudgetNext]_budgetVars
-----------------------------------------------------------------------------
BudgetTypeOK ==
  /\ conf \in [inner: Nat, outer: Nat, margin: Nat]
  /\ boot \in {"no", "refused", "up"}
  /\ stage \in [Calls -> Operations \cup {"idle", "ok", "expired"}]
  /\ wait \in [Calls -> Nat]
  /\ total \in [Calls -> Nat]
  /\ stalls \in Nat
  /\ work \in Nat

(* When state stalls once and app itself takes no longer than the margin,  *)
(* app's timeout fires first: gateway forwards app's controlled 503 and its*)
(* own timeout never has to fire (docs/reliability.md, "Effect under a real*)
(* stalled dependency").                                                   *)
InnerFiresFirst ==
  stalls <= 1 /\ work <= conf.margin => stage["outer"] # "expired"

(* However often state stalls, it cannot make gateway's call, and so the   *)
(* external caller, wait longer than the outer budget.                     *)
CallerWaitBounded == work = 0 => total["outer"] <= conf.outer
-----------------------------------------------------------------------------
(* The inductive invariant: where the outer call's time went.              *)

TimeInv ==
  /\ total["outer"] = work + total["inner"]
  /\ wait["outer"] <= total["outer"]
  /\ boot = "up" => Timeouts(conf) /\ Hierarchy(conf)
  /\ stage["outer"] # "idle" => boot = "up"
  /\ stage["outer"] = "expired" => wait["outer"] >= conf.outer

\* Each stalled operation lasted for at most the inner timeout.
StallInv ==
  /\ wait["inner"] <= conf.inner
  /\ stalls = 0 => total["inner"] = 0 /\ wait["inner"] = 0
  /\ stalls = 1 =>
       /\ total["inner"] <= conf.inner
       /\ wait["inner"] > 0 => total["inner"] = wait["inner"]

\* Without work of app's own, all the waiting is for the head of its response.
HeadInv ==
  /\ wait["outer"] <= conf.outer
  /\ InProgress("inner") => stage["outer"] \in {"head", "expired"}
  /\ work = 0 =>
       /\ stage["outer"] \in {"idle", "connect"} => total["outer"] = 0
       /\ stage["outer"] = "head" => total["outer"] = wait["outer"]
       /\ total["outer"] <= conf.outer
  /\ stage["outer"] \in {"idle", "connect"} => stage["inner"] = "idle"
=============================================================================
