---------------------------- MODULE AtomicCounter ----------------------------
(***************************************************************************)
(* What the state service promises its callers, with no lock and no file:  *)
(* one counter, calls that take effect at one instant between invocation   *)
(* and answer, and promised values that outlive a power loss.  A call that *)
(* fails, or whose process dies, may or may not have taken effect, once.   *)
(* StateStore implements it (StateStore!Linearizable).                     *)
(***************************************************************************)
EXTENDS Naturals

CONSTANT Callers

VARIABLES
  value,    \* the counter
  acked,    \* the initial value and every increment result answered with 200
  durable,  \* whether the storage keeps what it is told to keep
  phase,    \* per caller: idle, called, done (took effect) or failed
  kind,     \* per caller: what the call does
  result    \* per caller: the value the call obtained, while it is done

vars == <<value, acked, durable, phase, kind, result>>

Kinds == {"read", "increment"}

AllIdle == [c \in Callers |-> "idle"]
NoResult == [c \in Callers |-> 0]

Init ==
  /\ value \in Nat
  /\ acked = {value}
  /\ durable \in BOOLEAN
  /\ phase = AllIdle
  /\ kind = [c \in Callers |-> "read"]
  /\ result = NoResult

\* Only the caller's own record moves.
Step(c, from, to) == phase[c] = from /\ phase' = [phase EXCEPT ![c] = to]

Invoke(c) ==
  /\ Step(c, "idle", "called")
  /\ \E k \in Kinds : kind' = [kind EXCEPT ![c] = k]
  /\ UNCHANGED <<value, acked, durable, result>>

\* The instant at which the call happens.
TakeEffect(c) ==
  /\ Step(c, "called", "done")
  /\ value' = IF kind[c] = "increment" THEN value + 1 ELSE value
  /\ result' = [result EXCEPT ![c] = value']
  /\ UNCHANGED <<acked, durable, kind>>

Fail(c) ==
  /\ Step(c, "called", "failed")
  /\ UNCHANGED <<value, acked, durable, kind, result>>

\* The answer may be lost on its way: then nobody was promised anything.
Answer(c) ==
  /\ phase[c] \in {"done", "failed"}
  /\ phase' = [phase EXCEPT ![c] = "idle"]
  /\ acked' \in {acked} \cup
                (IF phase[c] = "done" /\ kind[c] = "increment"
                 THEN {acked \cup {result[c]}} ELSE {})
  /\ result' = [result EXCEPT ![c] = 0]
  /\ UNCHANGED <<value, durable, kind>>

Crash ==
  /\ phase' = AllIdle
  /\ result' = NoResult
  /\ UNCHANGED <<value, acked, durable, kind>>

\* A power loss may undo what nobody was promised, never what somebody was.
PowerLoss ==
  /\ phase' = AllIdle
  /\ result' = NoResult
  /\ value' \in 0..value
  /\ durable => \A a \in acked : a <= value'
  /\ UNCHANGED <<acked, durable, kind>>

Next ==
  \/ \E c \in Callers : Invoke(c) \/ TakeEffect(c) \/ Fail(c) \/ Answer(c)
  \/ Crash
  \/ PowerLoss

Spec == Init /\ [][Next]_vars
=============================================================================
