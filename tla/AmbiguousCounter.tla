-------------------------- MODULE AmbiguousCounter --------------------------
(***************************************************************************)
(* What a client of the gateway may rely on, with no hops, no timeouts and *)
(* no containers: a request happens at most once; a 200 means it happened, *)
(* after it was sent; a failure means it has happened, or will, or never   *)
(* will, unless its connection was refused: then it never will.            *)
(* RequestChain implements it (RequestChain!KeepsPromise).                 *)
(***************************************************************************)
EXTENDS Naturals

CONSTANT Requests

VARIABLES
  value,     \* the counter
  durable,   \* whether the storage keeps what it is told to keep
  promised,  \* the initial value and every increment result a client was given
  want,      \* per request: what it asks for
  phase,     \* per request: idle, waiting, answered, failed or refused
  happened,  \* per request: it took effect
  seen       \* per request: the value it obtained when it did

vars == <<value, durable, promised, want, phase, happened, seen>>

Ops == {"read", "increment"}

Init ==
  /\ value \in Nat
  /\ durable \in BOOLEAN
  /\ promised = {value}
  /\ want \in [Requests -> Ops]
  /\ phase = [r \in Requests |-> "idle"]
  /\ happened = [r \in Requests |-> FALSE]
  /\ seen = [r \in Requests |-> 0]

Step(r, from, to) == phase[r] = from /\ phase' = [phase EXCEPT ![r] = to]

Send(r) ==
  /\ Step(r, "idle", "waiting")
  /\ UNCHANGED <<value, durable, promised, want, happened, seen>>

\* At most once, and perhaps only after the client was told of a failure.
Happen(r) ==
  /\ phase[r] \notin {"idle", "refused"}
  /\ ~happened[r]
  /\ happened' = [happened EXCEPT ![r] = TRUE]
  /\ value' = IF want[r] = "increment" THEN value + 1 ELSE value
  /\ seen' = [seen EXCEPT ![r] = value']
  /\ UNCHANGED <<durable, promised, want, phase>>

Succeed(r) ==
  /\ Step(r, "waiting", "answered")
  /\ happened[r]
  /\ promised' = IF want[r] = "increment" THEN promised \cup {seen[r]}
                 ELSE promised
  /\ UNCHANGED <<value, durable, want, happened, seen>>

Fail(r) ==
  /\ Step(r, "waiting", "failed")
  /\ UNCHANGED <<value, durable, promised, want, happened, seen>>

Refuse(r) ==
  /\ Step(r, "idle", "refused")
  /\ UNCHANGED <<value, durable, promised, want, happened, seen>>

PowerLoss ==
  /\ value' \in 0..value
  /\ durable => \A n \in promised : n <= value'
  /\ UNCHANGED <<durable, promised, want, phase, happened, seen>>

Next ==
  \/ \E r \in Requests : Send(r) \/ Refuse(r) \/ Happen(r) \/ Succeed(r) \/ Fail(r)
  \/ PowerLoss

Spec == Init /\ [][Next]_vars
=============================================================================
