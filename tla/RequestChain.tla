---------------------------- MODULE RequestChain ----------------------------
(***************************************************************************)
(* A request's way through the platform: client -> gateway -> app -> state *)
(* and back (gateway/server.py, app/server.py, state/server.py), each hop  *)
(* a process of its own that may be killed, restarted or paused, each call *)
(* one HTTP request with a socket timeout and no retry.  The state service *)
(* is the AtomicCounter that StateStore implements.                        *)
(*                                                                         *)
(* Time is abstract here: a timeout may expire at any moment of a call     *)
(* (TimeoutBudget has the clocks).                                         *)
(***************************************************************************)
EXTENDS Naturals, FiniteSets

CONSTANTS
  Requests,      \* what clients send, each at most once
  Pausable,      \* roles `docker pause' may freeze
  InitialValue,  \* the counter before the first request
  MaxFaults      \* bound: kills, pauses and power losses in a behaviour

Roles == {"gateway", "app", "state"}
Hops == {"client"} \cup Roles
Callee == [client |-> "gateway", gateway |-> "app", app |-> "state"]
Callers == DOMAIN Callee

ASSUME PausableAssumption == Pausable \subseteq Roles
ASSUME InitialValueAssumption == InitialValue \in Nat
ASSUME MaxFaultsAssumption == MaxFaults \in Nat

VARIABLES
  up,      \* per role: running, paused or down
  at,      \* per hop and request: where its handler, or the client, is
  answer,  \* per hop and request: the answer it sent, or the client got
  want,    \* per request: what it asks for
  taken,   \* history: the values a request obtained from the counter
  floor,   \* history: the highest increment answered when it was sent
  faults,  \* kills, pauses and power losses so far
  value, acked, durable, phase, kind, result  \* the AtomicCounter

counter == <<value, acked, durable, phase, kind, result>>
vars == <<up, at, answer, want, taken, floor, faults, counter>>

Store == INSTANCE AtomicCounter WITH Callers <- Requests

Places == {"none", "arrived", "calling", "sent", "reset"}
Ops == {"read", "increment"}

\* What a client is left with when its connection fails.
Lost == [status |-> 0, value |-> 0]
Unavailable == [status |-> 503, value |-> 0]
InternalError == [status |-> 500, value |-> 0]
Ok(n) == [status |-> 200, value |-> n]

Running(h) == h \in Roles => up[h] = "running"

Answered(r) == at["client"][r] = "sent" /\ answer["client"][r].status = 200

\* The increment results clients were given.
Given == {answer["client"][r].value :
            r \in {q \in Requests : Answered(q) /\ want[q] = "increment"}}

Init ==
  /\ up = [h \in Roles |-> "running"]
  /\ at = [h \in Hops |-> [r \in Requests |-> "none"]]
  /\ answer = [h \in Hops |-> [r \in Requests |-> Lost]]
  /\ want \in [Requests -> Ops]
  /\ taken = [r \in Requests |-> {}]
  /\ floor = [r \in Requests |-> InitialValue]
  /\ faults = 0
  /\ value = InitialValue
  /\ acked = {InitialValue}
  /\ durable \in BOOLEAN
  /\ phase = Store!AllIdle
  /\ kind = [r \in Requests |-> "read"]
  /\ result = Store!NoResult
-----------------------------------------------------------------------------
(* The calling side: _call_upstream and _call_state, or the client.        *)

\* Hop h is done with request r and its answer is a.
Send(h, r, a) ==
  /\ at' = [at EXCEPT ![h][r] = "sent"]
  /\ answer' = [answer EXCEPT ![h][r] = a]

\* UpstreamError and StateError become 503.
Failed(h) == IF h = "client" THEN Lost ELSE Unavailable

\* Hop h, its request r at hand, opens the connection to the next hop.
Ask(h, r) ==
  /\ Running(h)
  /\ at[h][r] = IF h = "client" THEN "none" ELSE "arrived"
  /\ IF up[Callee[h]] = "down"
     THEN Send(h, r, Failed(h))
     ELSE /\ at' = [at EXCEPT ![h][r] = "calling", ![Callee[h]][r] = "arrived"]
          /\ UNCHANGED answer
  /\ floor' = IF h = "client"
              THEN [floor EXCEPT ![r] =
                      CHOOSE n \in Given \cup {InitialValue} :
                        \A m \in Given : m <= n]
              ELSE floor
  /\ UNCHANGED <<up, want, taken, faults, counter>>

\* Mutant: the status of the answer is not looked at.
ReceiveAnyStatus(h, r) ==
  /\ Running(h)
  /\ at[h][r] = "calling"
  /\ at[Callee[h]][r] = "sent"
  /\ Send(h, r, Ok(answer[Callee[h]][r].value))
  /\ UNCHANGED <<up, want, taken, floor, faults, counter>>

\* An answer arrives; anything but a 200 is a failure of this hop's own.
Receive(h, r) ==
  LET a == answer[Callee[h]][r]
  IN /\ Running(h)
     /\ at[h][r] = "calling"
     /\ at[Callee[h]][r] = "sent"
     /\ Send(h, r, IF a.status = 200 \/ h = "client" THEN a ELSE Failed(h))
     /\ UNCHANGED <<up, want, taken, floor, faults, counter>>

\* The connection breaks under the call: its other end died.
Broken(h, r) ==
  /\ Running(h)
  /\ at[h][r] = "calling"
  /\ at[Callee[h]][r] = "reset"
  /\ Send(h, r, Failed(h))
  /\ UNCHANGED <<up, want, taken, floor, faults, counter>>

\* Mutant: HTTPConnection without a timeout.
NoTimeout(h, r) == Broken(h, r)

\* Mutant: a call that timed out is made again.
GiveUpAndRetry(h, r) ==
  /\ h # "client"
  /\ Running(h)
  /\ at[h][r] = "calling"
  /\ at' = [at EXCEPT ![h][r] = "arrived"]
  /\ UNCHANGED <<up, answer, want, taken, floor, faults, counter>>

\* The socket timeout expires.  Nothing tells the other end: its handler goes
\* on, and so does a request that a paused process has yet to read.  (What a
\* client that gives up sees is what it sees when gateway dies.)
GiveUp(h, r) ==
  /\ h # "client"
  /\ Running(h)
  /\ at[h][r] = "calling"
  /\ Send(h, r, Failed(h))
  /\ UNCHANGED <<up, want, taken, floor, faults, counter>>
-----------------------------------------------------------------------------
(* The state service's side.                                               *)

Serve(r) ==
  /\ Running("state")
  /\ at["state"][r] = "arrived"
  /\ Store!Invoke(r)
  /\ kind'[r] = want[r]
  /\ UNCHANGED <<up, at, answer, want, taken, floor, faults>>

\* The store carries the request out, or fails.
Execute(r) ==
  /\ Running("state")
  /\ \/ Store!TakeEffect(r) /\ taken' = [taken EXCEPT ![r] = @ \cup {value'}]
     \/ Store!Fail(r) /\ UNCHANGED taken
  /\ UNCHANGED <<up, at, answer, want, floor, faults>>

\* Mutant: the answer leaves before the directory is synced.
StateRepliesEarly(r) ==
  /\ Running("state")
  /\ Store!Answer(r)
  /\ acked' = acked
  /\ Send("state", r, IF phase[r] = "done" THEN Ok(result[r]) ELSE InternalError)
  /\ UNCHANGED <<up, want, taken, floor, faults>>

\* The answer is on its way; app may have given up waiting for it.
StateReplies(r) ==
  /\ Running("state")
  /\ Store!Answer(r)
  /\ acked' = IF at["app"][r] = "calling" /\ phase[r] = "done"
                 /\ kind[r] = "increment"
              THEN acked \cup {result[r]} ELSE acked
  /\ Send("state", r, IF phase[r] = "done" THEN Ok(result[r]) ELSE InternalError)
  /\ UNCHANGED <<up, want, taken, floor, faults>>
-----------------------------------------------------------------------------
(* Processes: killed, restarted, paused; and the host.                     *)

\* The connections of the roles in S break, where they are in one of places.
Reset(S, places) ==
  at' = [h \in Hops |-> [r \in Requests |->
          IF h \in S /\ at[h][r] \in places THEN "reset" ELSE at[h][r]]]

Fault == faults < MaxFaults /\ faults' = faults + 1

\* What a dead process has sent still reaches the other end.
Kill(h) ==
  /\ Fault
  /\ up[h] # "down"
  /\ up' = [up EXCEPT ![h] = "down"]
  /\ Reset({h}, {"arrived", "calling"})
  /\ IF h = "state" THEN Store!Crash ELSE UNCHANGED counter
  /\ UNCHANGED <<answer, want, taken, floor>>

PowerLoss ==
  /\ Fault
  /\ up' = [h \in Roles |-> "down"]
  /\ Reset(Roles, {"arrived", "calling", "sent"})
  /\ Store!PowerLoss
  /\ UNCHANGED <<answer, want, taken, floor>>

\* Mutant: state starts on a fresh file system, with no volume.
StartFresh(h) ==
  /\ up[h] = "down"
  /\ up' = [up EXCEPT ![h] = "running"]
  /\ value' = IF h = "state" THEN 0 ELSE value
  /\ UNCHANGED <<at, answer, want, taken, floor, faults, acked, durable, phase,
                 kind, result>>

Start(h) ==
  /\ up[h] = "down"
  /\ up' = [up EXCEPT ![h] = "running"]
  /\ UNCHANGED <<at, answer, want, taken, floor, faults, counter>>

\* docker pause freezes every thread; the kernel still accepts connections.
Pause(h) ==
  /\ Fault
  /\ h \in Pausable
  /\ up[h] = "running"
  /\ up' = [up EXCEPT ![h] = "paused"]
  /\ UNCHANGED <<at, answer, want, taken, floor, counter>>

Unpause(h) ==
  /\ up[h] = "paused"
  /\ up' = [up EXCEPT ![h] = "running"]
  /\ UNCHANGED <<at, answer, want, taken, floor, faults, counter>>

Next ==
  \/ \E h \in Callers, r \in Requests :
       Ask(h, r) \/ Receive(h, r) \/ Broken(h, r) \/ GiveUp(h, r)
  \/ \E r \in Requests : Serve(r) \/ Execute(r) \/ StateReplies(r)
  \/ \E h \in Roles : Kill(h) \/ Start(h) \/ Pause(h) \/ Unpause(h)
  \/ PowerLoss

Spec == Init /\ [][Next]_vars

\* Threads of a running process run, its sockets' timeouts expire, and a
\* client sees its connection answered or broken.  Nothing is assumed of the
\* state service, of restarts or of unpausing.
Fairness ==
  \A r \in Requests :
    /\ \A h \in {"gateway", "app"} :
         WF_vars(Ask(h, r)) /\ WF_vars(GiveUp(h, r))
    /\ WF_vars(Receive("client", r))
    /\ WF_vars(Broken("client", r))

FairSpec == Spec /\ Fairness
-----------------------------------------------------------------------------
Answers == [status: {0, 200, 500, 503}, value: Nat]

TypeOK ==
  /\ up \in [Roles -> {"running", "paused", "down"}]
  /\ at \in [Hops -> [Requests -> Places]]
  /\ answer \in [Hops -> [Requests -> Answers]]
  /\ want \in [Requests -> Ops]
  /\ taken \in [Requests -> SUBSET Nat]
  /\ floor \in [Requests -> Nat]
  /\ faults \in 0..MaxFaults
  /\ value \in Nat
  /\ acked \in SUBSET Nat
  /\ durable \in BOOLEAN
  /\ phase \in [Requests -> {"idle", "called", "done", "failed"}]
  /\ kind \in [Requests -> Ops]
  /\ result \in [Requests -> Nat]

(* A request reaches the counter at most once, whatever timed out, died or *)
(* came back: no hop retries, not even a POST whose fate it does not know. *)
AtMostOnce == \A r \in Requests : Cardinality(taken[r]) <= 1

(* A 200 that reaches a client is the counter's own: the request happened, *)
(* with that value, and no two increments were given the same.             *)
AnswersAreTrue ==
  /\ \A r \in Requests : Answered(r) => answer["client"][r].value \in taken[r]
  /\ durable =>
       \A r, q \in Requests :
         /\ Answered(r) /\ want[r] = "increment"
         /\ Answered(q) /\ want[q] = "increment"
         /\ answer["client"][r].value = answer["client"][q].value
         => r = q

(* A request sent after an increment was answered sees that increment,     *)
(* through any crash, restart or power loss in between.                    *)
RealTimeOrder ==
  durable =>
    \A r \in Requests :
      Answered(r) =>
        IF want[r] = "increment" THEN answer["client"][r].value > floor[r]
        ELSE answer["client"][r].value >= floor[r]

(* No client hangs: while gateway is not paused, a request ends in a 200,  *)
(* a 503 or a broken connection, however long state or app stay paused,    *)
(* dead or silent.                                                         *)
EveryCallEnds ==
  \A r \in Requests : at["client"][r] = "calling" ~> at["client"][r] = "sent"
-----------------------------------------------------------------------------
(* What a client is left with, for AmbiguousCounter.                       *)
Outcome(r) ==
  IF at["client"][r] = "none" THEN "idle"
  ELSE IF at["client"][r] = "calling" THEN "waiting"
  ELSE IF at["gateway"][r] = "none" THEN "refused"
  ELSE IF Answered(r) THEN "answered" ELSE "failed"

Promised == Given \cup {InitialValue}
Outcomes == [r \in Requests |-> Outcome(r)]
Happened == [r \in Requests |-> taken[r] # {}]
Element(S) == IF S = {} THEN 0 ELSE CHOOSE n \in S : TRUE
Obtained == [r \in Requests |-> Element(taken[r])]

Promise == INSTANCE AmbiguousCounter WITH
  promised <- Promised, phase <- Outcomes, happened <- Happened, seen <- Obtained

(* The chain implements the ambiguous counter.                             *)
KeepsPromise == Promise!Spec
-----------------------------------------------------------------------------
(* The inductive invariant.                                                *)

\* A hop is asked once its caller has it at hand, and the client only calls.
ReachInv ==
  \A r \in Requests :
    /\ at["client"][r] \in {"none", "calling", "sent"}
    /\ at["client"][r] = "none" => at["gateway"][r] = "none"
    /\ at["gateway"][r] \in {"none", "arrived"} => at["app"][r] = "none"
    /\ at["app"][r] \in {"none", "arrived"} => at["state"][r] = "none"

\* The store's call belongs to the handler in state, which is there once.
StoreInv ==
  \A r \in Requests :
    /\ at["state"][r] = "none" => taken[r] = {}
    /\ phase[r] # "idle" => at["state"][r] = "arrived" /\ kind[r] = want[r]
    /\ at["state"][r] = "arrived" =>
         taken[r] = IF phase[r] = "done" THEN {result[r]} ELSE {}
    /\ \A m, n \in taken[r] : m = n

\* A 200 carries what its request obtained, at every hop.
TruthInv ==
  \A h \in Hops, r \in Requests :
    at[h][r] = "sent" /\ answer[h][r].status = 200 => answer[h][r].value \in taken[r]

\* An increment's 200 that still finds its caller.
Held(h, r) ==
  /\ want[r] = "increment"
  /\ at[h][r] = "sent" /\ answer[h][r].status = 200
  /\ h = "state" => at["app"][r] = "calling"

\* It is held to its answer; and there have been finitely many.
AckedInv ==
  /\ InitialValue \in acked
  /\ \A h \in Hops, r \in Requests : Held(h, r) => answer[h][r].value \in acked
  /\ \A r \in Requests : floor[r] \in acked
  /\ \E n \in Nat : \A a \in acked : a <= n

\* With a storage that keeps its word the counter never falls behind an answer,
CounterAhead == durable => \A a \in acked : a <= value

\* the store is about to call an increment done
Pending(r) == phase[r] = "done" /\ want[r] = "increment"

\* with a number that is new,
PendingIsNew ==
  durable =>
    \A r \in Requests : Pending(r) =>
      /\ result[r] <= value /\ result[r] \notin acked
      /\ \A q \in Requests : Pending(q) /\ result[q] = result[r] => q = r

\* no two requests are under way with the same one,
HeldOnce ==
  durable =>
    \A g, h \in Hops, r, q \in Requests :
      Held(g, r) /\ Held(h, q) /\ answer[g][r].value = answer[h][q].value => r = q

\* and what a request obtains is beyond what was answered before it was sent.
AboveFloor ==
  durable =>
    \A r \in Requests : \A n \in taken[r] :
      IF want[r] = "increment" THEN n > floor[r] ELSE n >= floor[r]

ChainInv ==
  /\ ReachInv /\ StoreInv /\ TruthInv /\ AckedInv
  /\ CounterAhead /\ PendingIsNew /\ HeldOnce /\ AboveFloor
=============================================================================
