-------------------------- MODULE RequestChainProofs --------------------------
(***************************************************************************)
(* What holds of the chain for any requests, any roles that may be paused  *)
(* and any number of kills, pauses and power losses: it is type-correct,   *)
(* a request is counted at most once, a 200 is true, later requests see    *)
(* earlier answers, and the chain implements AmbiguousCounter.  And of its *)
(* clocks, for every configuration: one stall of state never reaches       *)
(* gateway's timeout.                                                      *)
(***************************************************************************)
EXTENDS RequestChain, TimeoutBudget, FiniteSetTheorems, WellFoundedInduction, TLAPS

USE DEF Hops, Roles, Callers, Callee

(***************************************************************************)
(* Helpers.                                                                *)
(***************************************************************************)
\* A set of numbers that has an upper bound has a greatest element.
LEMMA MaxExists ==
  ASSUME NEW S \in SUBSET Nat, S # {}, NEW b \in Nat, \A m \in S : m <= b
  PROVE  \E n \in S : \A m \in S : m <= n
<1> DEFINE T == {n \in Nat : \A m \in S : m <= n}
<1>1. T \subseteq Nat /\ T # {}
  OBVIOUS
<1> DEFINE R == {p \in Nat \X Nat : p[1] < p[2]}
<1>2. IsWellFoundedOn(R, Nat)
  BY NatLessThanWellFounded DEF OpToRel
<1>3. PICK x \in T : \A y \in T : ~(y < x)
  <2>1. \E x \in T : \A y \in T : ~(<<y, x>> \in R)
    <3> HIDE DEF T, R
    <3> QED
      BY <1>1, <1>2, WFMin
  <2>2. \A x, y \in T : y < x => <<y, x>> \in R
    BY <1>1
  <2> QED
    BY <2>1, <2>2
<1>4. x \in S
  <2> SUFFICES ASSUME x \notin S PROVE FALSE
    OBVIOUS
  <2>1. \A m \in S : m < x
    OBVIOUS
  <2>2. PICK m \in S : m < x
    BY <2>1
  <2>3. x - 1 \in T
    BY <1>1, <2>1, <2>2
  <2> QED
    BY <1>1, <1>3, <2>3
<1> QED
  BY <1>4

\* _send_json of one hop, for one request, changes the answer on its way only.
LEMMA SendAt ==
  ASSUME TypeOK, NEW h \in Hops, NEW r \in Requests, NEW a \in Answers, Send(h, r, a)
  PROVE  /\ at' \in [Hops -> [Requests -> Places]]
         /\ answer' \in [Hops -> [Requests -> Answers]]
         /\ \A g \in Hops, q \in Requests :
              /\ at'[g][q] = IF g = h /\ q = r THEN "sent" ELSE at[g][q]
              /\ answer'[g][q] = IF g = h /\ q = r THEN a ELSE answer[g][q]
  BY DEF Send, TypeOK, Places

\* A process that dies resets its connections, and no other hop's.
LEMMA ResetAt ==
  ASSUME TypeOK, NEW S, NEW places, Reset(S, places)
  PROVE  /\ at' \in [Hops -> [Requests -> Places]]
         /\ \A g \in Hops, q \in Requests :
              at'[g][q] = IF g \in S /\ at[g][q] \in places THEN "reset" ELSE at[g][q]
  BY DEF Reset, TypeOK, Places

\* What each hop may answer; only Ok has the status 200.
LEMMA AnswersTyped ==
  /\ Lost \in Answers /\ Unavailable \in Answers /\ InternalError \in Answers
  /\ \A h \in Hops : Failed(h) \in Answers /\ Failed(h).status # 200
  /\ \A n \in Nat : Ok(n) \in Answers /\ Ok(n).status = 200 /\ Ok(n).value = n
  /\ InternalError.status # 200 /\ Lost.status # 200
  BY DEF Lost, Unavailable, InternalError, Failed, Ok, Answers

\* What a call that is opened leaves.
LEMMA AskAt ==
  ASSUME TypeOK, NEW h \in Callers, NEW r \in Requests, Ask(h, r)
  PROVE  /\ at' \in [Hops -> [Requests -> Places]]
         /\ answer' \in [Hops -> [Requests -> Answers]]
         /\ at[h][r] = IF h = "client" THEN "none" ELSE "arrived"
         /\ \/ /\ \A g \in Hops, q \in Requests :
                    /\ at'[g][q] = IF g = h /\ q = r THEN "sent" ELSE at[g][q]
                    /\ answer'[g][q] = IF g = h /\ q = r THEN Failed(h) ELSE answer[g][q]
               /\ up[Callee[h]] = "down"
            \/ /\ \A g \in Hops, q \in Requests :
                    at'[g][q] = IF q = r /\ g = h THEN "calling"
                                ELSE IF q = r /\ g = Callee[h] THEN "arrived"
                                ELSE at[g][q]
               /\ UNCHANGED answer
               /\ up[Callee[h]] # "down"
<1>1. h \in Hops /\ Callee[h] \in Hops /\ Callee[h] # h
  OBVIOUS
<1>2. CASE up[Callee[h]] = "down"
  BY <1>1, <1>2, SendAt, AnswersTyped DEF Ask
<1>3. CASE up[Callee[h]] # "down"
  <2>1. at' = [at EXCEPT ![h][r] = "calling", ![Callee[h]][r] = "arrived"]
        /\ UNCHANGED answer
    BY <1>3 DEF Ask
  <2>2. at \in [Hops -> [Requests -> Places]] /\ answer \in [Hops -> [Requests -> Answers]]
    BY DEF TypeOK
  <2> QED
    BY <1>1, <1>3, <2>1, <2>2 DEF Ask, Places
<1> QED
  BY <1>2, <1>3

\* An increment that a client was told of was answered by the state service.
LEMMA GivenIsAcked ==
  ASSUME TypeOK, AckedInv
  PROVE  Given \cup {InitialValue} \subseteq acked
  BY DEF Given, Answered, AckedInv, Held, TypeOK

\* The highest of the increments answered so far.
LEMMA FloorExists ==
  ASSUME TypeOK, AckedInv, NEW r \in Requests, Ask("client", r)
  PROVE  \E n \in acked : floor' = [floor EXCEPT ![r] = n]
<1> DEFINE S == Given \cup {InitialValue}
<1>1. S \in SUBSET Nat /\ S # {} /\ S \subseteq acked
  BY GivenIsAcked DEF TypeOK
<1>2. PICK b \in Nat : \A a \in acked : a <= b
  BY DEF AckedInv
<1>3. \E n \in S : \A m \in S : m <= n
  <2> HIDE DEF S
  <2> QED
    BY <1>1, <1>2, MaxExists
<1>4. \E n \in S : \A m \in Given : m <= n
  BY <1>3
<1>5. (CHOOSE n \in S : \A m \in Given : m <= n) \in S
  BY <1>4
<1> QED
  BY <1>1, <1>5 DEF Ask

(***************************************************************************)
(* Type correctness.  The types of floor need AckedInv: a highest answer   *)
(* exists because there is a bound on them.                                *)
(***************************************************************************)
LEMMA TypeInit == Init => TypeOK
  BY InitialValueAssumption, MaxFaultsAssumption
     DEF Init, TypeOK, Places, Answers, Lost, Ops, Store!AllIdle, Store!NoResult

\* Every step of a hop, the client or a failure keeps the types.
LEMMA TypeStep ==
  ASSUME TypeOK, AckedInv, [Next]_vars
  PROVE  TypeOK'
<1>1. ASSUME NEW h \in Callers, NEW r \in Requests, Ask(h, r) PROVE TypeOK'
  <2>1. floor' \in [Requests -> Nat]
    <3>1. CASE h = "client"
      BY <1>1, <3>1, FloorExists DEF TypeOK
    <3>2. CASE h # "client"
      BY <1>1, <3>2 DEF Ask, TypeOK
    <3> QED
      BY <3>1, <3>2
  <2> QED
    BY <1>1, <2>1, AskAt DEF Ask, TypeOK, counter
<1>2. ASSUME NEW h \in Callers, NEW r \in Requests, Receive(h, r) PROVE TypeOK'
  <2>1. answer[Callee[h]][r] \in Answers
    BY DEF TypeOK
  <2>2. \E a \in Answers : Send(h, r, a)
    BY <1>2, <2>1, AnswersTyped DEF Receive
  <2> QED
    BY <1>2, <2>2, SendAt DEF Receive, TypeOK, counter
<1>3. ASSUME NEW h \in Callers, NEW r \in Requests, Broken(h, r) \/ GiveUp(h, r)
      PROVE TypeOK'
  <2>1. Send(h, r, Failed(h)) /\ h \in Hops
    BY <1>3 DEF Broken, GiveUp
  <2>2. UNCHANGED <<up, want, taken, floor, faults, counter>>
    BY <1>3 DEF Broken, GiveUp
  <2> QED
    BY <2>1, <2>2, SendAt, AnswersTyped DEF TypeOK, counter
<1>4. ASSUME NEW r \in Requests, Serve(r) PROVE TypeOK'
  BY <1>4 DEF Serve, Store!Invoke, Store!Step, Store!Kinds, TypeOK, Ops
<1>5. ASSUME NEW r \in Requests, Execute(r) PROVE TypeOK'
  <2>1. value' \in Nat
    BY <1>5 DEF Execute, Store!TakeEffect, Store!Fail, TypeOK
  <2>2. CASE Store!TakeEffect(r)
    BY <1>5, <2>1, <2>2 DEF Execute, Store!TakeEffect, Store!Step, TypeOK
  <2>3. CASE Store!Fail(r)
    BY <1>5, <2>3 DEF Execute, Store!Fail, Store!Step, TypeOK
  <2> QED
    BY <1>5, <2>2, <2>3 DEF Execute
<1>6. ASSUME NEW r \in Requests, StateReplies(r) PROVE TypeOK'
  <2>1. \E a \in Answers : Send("state", r, a)
    BY <1>6, AnswersTyped DEF StateReplies, TypeOK
  <2>2. phase' \in [Requests -> {"idle", "called", "done", "failed"}]
        /\ acked' \in SUBSET Nat /\ result' \in [Requests -> Nat]
    <3>1. acked' \in {acked, acked \cup {result[r]}}
      BY <1>6 DEF StateReplies
    <3>2. result[r] \in Nat
      BY DEF TypeOK
    <3>3. acked' \in SUBSET Nat
      BY <3>1, <3>2 DEF TypeOK
    <3>4. /\ phase' = [phase EXCEPT ![r] = "idle"]
          /\ result' = [result EXCEPT ![r] = 0]
      BY <1>6 DEF StateReplies, Store!Answer
    <3> QED
      BY <3>3, <3>4 DEF TypeOK
  <2> QED
    BY <1>6, <2>1, <2>2, SendAt DEF StateReplies, Store!Answer, TypeOK
<1>7. ASSUME NEW h \in Roles, Kill(h) PROVE TypeOK'
  <2>1. faults' \in 0..MaxFaults
    BY <1>7, MaxFaultsAssumption DEF Kill, Fault, TypeOK
  <2>2. /\ phase' \in [Requests -> {"idle", "called", "done", "failed"}]
        /\ result' \in [Requests -> Nat]
        /\ UNCHANGED <<value, acked, durable, kind>>
    BY <1>7 DEF Kill, Store!Crash, Store!AllIdle, Store!NoResult, counter, TypeOK
  <2> QED
    BY <1>7, <2>1, <2>2, ResetAt DEF Kill, TypeOK
<1>8. CASE PowerLoss
  <2>1. faults' \in 0..MaxFaults
    BY <1>8, MaxFaultsAssumption DEF PowerLoss, Fault, TypeOK
  <2>2. value' \in Nat
    BY <1>8 DEF PowerLoss, Store!PowerLoss, TypeOK
  <2> QED
    BY <1>8, <2>1, <2>2, ResetAt
       DEF PowerLoss, Store!PowerLoss, Store!AllIdle, Store!NoResult, TypeOK
<1>9. ASSUME NEW h \in Roles, Start(h) \/ Pause(h) \/ Unpause(h) PROVE TypeOK'
  <2>1. /\ up' \in [Roles -> {"running", "paused", "down"}]
        /\ faults' \in 0..MaxFaults
    BY <1>9, MaxFaultsAssumption DEF Start, Pause, Unpause, Fault, TypeOK
  <2>2. UNCHANGED <<at, answer, want, taken, floor, counter>>
    BY <1>9 DEF Start, Pause, Unpause
  <2> QED
    BY <2>1, <2>2 DEF TypeOK, counter
<1>10. CASE UNCHANGED vars
  BY <1>10 DEF vars, counter, TypeOK
<1> QED
  BY <1>1, <1>2, <1>3, <1>4, <1>5, <1>6, <1>7, <1>8, <1>9, <1>10 DEF Next

(***************************************************************************)
(* The steps of the hops, as the invariants see them.                      *)
(***************************************************************************)
\* A caller's answer: a 200 only if the callee sent it.
LEMMA CallerSends ==
  ASSUME TypeOK, NEW h \in Callers, NEW r \in Requests,
         Receive(h, r) \/ Broken(h, r) \/ GiveUp(h, r)
  PROVE  /\ at[h][r] = "calling"
         /\ \E a \in Answers :
              /\ Send(h, r, a)
              /\ a.status = 200 =>
                   at[Callee[h]][r] = "sent" /\ a = answer[Callee[h]][r]
         /\ UNCHANGED <<want, taken, floor, counter>>
<1>1. CASE Receive(h, r)
  <2>1. answer[Callee[h]][r] \in Answers
    BY DEF TypeOK
  <2> QED
    BY <1>1, <2>1, AnswersTyped DEF Receive
<1>2. CASE Broken(h, r) \/ GiveUp(h, r)
  <2>1. Send(h, r, Failed(h)) /\ at[h][r] = "calling"
        /\ UNCHANGED <<want, taken, floor, counter>>
    BY <1>2 DEF Broken, GiveUp
  <2> QED
    BY <2>1, AnswersTyped
<1> QED
  BY <1>1, <1>2

\* State's answer: a 200 is what the store has just done.
LEMMA StateSends ==
  ASSUME TypeOK, StoreInv, NEW r \in Requests, StateReplies(r)
  PROVE  /\ at["state"][r] = "arrived"
         /\ \E a \in Answers :
              /\ Send("state", r, a)
              /\ a.status = 200 => phase[r] = "done" /\ a.value = result[r]
         /\ UNCHANGED <<want, taken, floor, value, durable, kind>>
<1>1. Store!Answer(r)
  BY DEF StateReplies
<1>2. phase[r] # "idle"
  BY <1>1 DEF Store!Answer
<1> QED
  BY <1>1, <1>2, AnswersTyped DEF StateReplies, Store!Answer, StoreInv, TypeOK

\* Processes that end.
LEMMA ProcessesEnd ==
  ASSUME TypeOK, NEW S \in SUBSET Roles,
         Reset(S, {"arrived", "calling"}) \/ Reset(S, {"arrived", "calling", "sent"})
  PROVE  /\ at' \in [Hops -> [Requests -> Places]]
         /\ \A g \in Hops, q \in Requests :
              \/ at'[g][q] = at[g][q] /\ (g \in S => at[g][q] \notin {"arrived", "calling"})
              \/ g \in S /\ at[g][q] # "none" /\ at'[g][q] = "reset"
  BY ResetAt

\* A kill or a power loss: connections break, the store keeps or loses, no more.
LEMMA Ends ==
  ASSUME TypeOK, (\E h \in Roles : Kill(h)) \/ PowerLoss
  PROVE  /\ at' \in [Hops -> [Requests -> Places]]
         /\ \A g \in Hops, q \in Requests :
              \/ at'[g][q] = at[g][q]
              \/ g \in Roles /\ at[g][q] # "none" /\ at'[g][q] = "reset"
         /\ UNCHANGED <<answer, want, taken, floor, acked, durable, kind>>
         /\ \/ /\ UNCHANGED <<value, phase, result>>
               /\ \A q \in Requests : at'["state"][q] = at["state"][q]
            \/ /\ \A q \in Requests : at'["state"][q] # "arrived" /\ phase'[q] = "idle"
               /\ value' = value \/ Store!PowerLoss
<1>1. ASSUME NEW h \in Roles, Kill(h), h # "state" PROVE UNCHANGED counter
  BY <1>1 DEF Kill
<1>2. CASE Kill("state")
  <2>1. Store!Crash /\ Reset({"state"}, {"arrived", "calling"})
        /\ UNCHANGED <<answer, want, taken, floor>>
    BY <1>2 DEF Kill
  <2>2. /\ at' \in [Hops -> [Requests -> Places]]
        /\ \A g \in Hops, q \in Requests :
             \/ at'[g][q] = at[g][q]
             \/ g \in Roles /\ at[g][q] # "none" /\ at'[g][q] = "reset"
        /\ \A q \in Requests : at'["state"][q] # "arrived"
    BY <2>1, ProcessesEnd
  <2>3. /\ UNCHANGED <<value, acked, durable, kind>>
        /\ \A q \in Requests : phase'[q] = "idle"
    BY <2>1 DEF Store!Crash, Store!AllIdle
  <2> QED
    BY <2>1, <2>2, <2>3
<1>3. ASSUME NEW h \in Roles, Kill(h), h # "state" PROVE Reset({h}, {"arrived", "calling"})
        /\ UNCHANGED <<answer, want, taken, floor>>
  BY <1>3 DEF Kill
<1>4. CASE PowerLoss
  BY <1>4, ProcessesEnd DEF PowerLoss, Store!PowerLoss, Store!AllIdle
<1> QED
  BY <1>1, <1>2, <1>3, <1>4, ProcessesEnd DEF counter

\* What moves only roles, or nothing.
LEMMA Quiet ==
  ASSUME (\E h \in Roles : Start(h) \/ Pause(h) \/ Unpause(h)) \/ UNCHANGED vars
  PROVE  UNCHANGED <<at, answer, want, taken, floor, value, acked, durable, phase,
                     kind, result>>
  BY DEF Start, Pause, Unpause, vars, counter

(***************************************************************************)
(* The invariant.                                                          *)
(***************************************************************************)
LEMMA ReachStep ==
  ASSUME TypeOK, ReachInv, StoreInv, [Next]_vars
  PROVE  ReachInv'
<1>1. ASSUME NEW h \in Callers, NEW r \in Requests, Ask(h, r) PROVE ReachInv'
  BY <1>1, AskAt DEF ReachInv
<1>2. ASSUME NEW h \in Callers, NEW r \in Requests,
             Receive(h, r) \/ Broken(h, r) \/ GiveUp(h, r)
      PROVE  ReachInv'
  <2>1. at[h][r] = "calling" /\ \E a \in Answers : Send(h, r, a)
    BY <1>2, CallerSends
  <2>2. \A g \in Hops, q \in Requests :
          at'[g][q] = IF g = h /\ q = r THEN "sent" ELSE at[g][q]
    BY <2>1, SendAt
  <2> QED
    BY <2>1, <2>2 DEF ReachInv
<1>3. ASSUME NEW r \in Requests, Serve(r) \/ Execute(r) PROVE ReachInv'
  BY <1>3 DEF Serve, Execute, ReachInv
<1>4. ASSUME NEW r \in Requests, StateReplies(r) PROVE ReachInv'
  <2>1. at["state"][r] = "arrived" /\ \E a \in Answers : Send("state", r, a)
    BY <1>4, StateSends
  <2>2. \A g \in Hops, q \in Requests :
          at'[g][q] = IF g = "state" /\ q = r THEN "sent" ELSE at[g][q]
    BY <2>1, SendAt
  <2> QED
    BY <2>1, <2>2 DEF ReachInv
<1>5. CASE (\E h \in Roles : Kill(h)) \/ PowerLoss
  BY <1>5, Ends DEF ReachInv
<1>6. CASE (\E h \in Roles : Start(h) \/ Pause(h) \/ Unpause(h)) \/ UNCHANGED vars
  BY <1>6, Quiet DEF ReachInv
<1> QED
  BY <1>1, <1>2, <1>3, <1>4, <1>5, <1>6 DEF Next

\* A request has one call in the store, made by its handler in state.
LEMMA StoreStep ==
  ASSUME TypeOK, TypeOK', ReachInv, StoreInv, [Next]_vars
  PROVE  StoreInv'
<1>1. ASSUME NEW h \in Callers, NEW r \in Requests, Ask(h, r) PROVE StoreInv'
  <2>1. UNCHANGED <<want, taken, phase, kind, result>>
    BY <1>1 DEF Ask, counter
  <2>2. \A q \in Requests :
          \/ at'["state"][q] = at["state"][q]
          \/ at["state"][q] = "none" /\ at'["state"][q] = "arrived"
    BY <1>1, AskAt DEF ReachInv
  <2> SUFFICES ASSUME NEW q \in Requests PROVE StoreInv!(q)'
    BY DEF StoreInv
  <2>3. CASE at'["state"][q] = at["state"][q]
    BY <2>1, <2>3 DEF StoreInv
  <2>4. CASE at["state"][q] = "none" /\ at'["state"][q] = "arrived"
    BY <2>1, <2>4 DEF StoreInv
  <2> QED
    BY <2>2, <2>3, <2>4
<1>2. ASSUME NEW h \in Callers, NEW r \in Requests,
             Receive(h, r) \/ Broken(h, r) \/ GiveUp(h, r)
      PROVE  StoreInv'
  <2>1. UNCHANGED <<want, taken, phase, kind, result>>
    BY <1>2, CallerSends DEF counter
  <2>2. \A q \in Requests : at'["state"][q] = at["state"][q]
    BY <1>2, CallerSends, SendAt
  <2> QED
    BY <2>1, <2>2 DEF StoreInv
<1>3. ASSUME NEW r \in Requests, Serve(r) PROVE StoreInv'
  BY <1>3 DEF Serve, Store!Invoke, Store!Step, StoreInv, TypeOK
<1>4. ASSUME NEW r \in Requests, Execute(r) PROVE StoreInv'
  <2>1. CASE Store!TakeEffect(r)
    <3>1. UNCHANGED <<at, want, kind>>
      BY <1>4, <2>1 DEF Execute, Store!TakeEffect
    <3>2. phase[r] = "called" /\ taken[r] = {}
      BY <2>1 DEF Store!TakeEffect, Store!Step, StoreInv
    <3>3. taken' = [taken EXCEPT ![r] = @ \cup {value'}]
      BY <1>4, <2>1, <3>2 DEF Execute, Store!TakeEffect, Store!Fail, Store!Step, TypeOK
    <3>4. taken'[r] = {value'} /\ \A q \in Requests \ {r} : taken'[q] = taken[q]
      BY <3>2, <3>3 DEF TypeOK
    <3>5. /\ phase'[r] = "done" /\ result'[r] = value'
          /\ \A q \in Requests \ {r} : phase'[q] = phase[q] /\ result'[q] = result[q]
      BY <2>1 DEF Store!TakeEffect, Store!Step, TypeOK
    <3>6. at["state"][r] = "arrived" /\ kind[r] = want[r]
      BY <3>2 DEF StoreInv
    <3> SUFFICES ASSUME NEW q \in Requests PROVE StoreInv!(q)'
      BY DEF StoreInv
    <3>7. CASE q = r
      BY <3>1, <3>4, <3>5, <3>6, <3>7
    <3>8. CASE q # r
      BY <3>1, <3>4, <3>5, <3>8 DEF StoreInv
    <3> QED
      BY <3>7, <3>8
  <2>2. CASE Store!Fail(r)
    <3>1. UNCHANGED <<taken, at, want, kind, result>>
      BY <1>4, <2>2 DEF Execute, Store!TakeEffect, Store!Fail, Store!Step, TypeOK
    <3> QED
      BY <2>2, <3>1 DEF Store!Fail, Store!Step, StoreInv, TypeOK
  <2> QED
    BY <1>4, <2>1, <2>2 DEF Execute
<1>5. ASSUME NEW r \in Requests, StateReplies(r) PROVE StoreInv'
  <2>1. /\ phase' = [phase EXCEPT ![r] = "idle"]
        /\ result' = [result EXCEPT ![r] = 0]
    BY <1>5 DEF StateReplies, Store!Answer
  <2> QED
    BY <1>5, <2>1, StateSends, SendAt DEF StoreInv, TypeOK
<1>6. CASE (\E h \in Roles : Kill(h)) \/ PowerLoss
  <2>1. /\ UNCHANGED <<want, taken, kind>>
        /\ \A q \in Requests :
             \/ at'["state"][q] = at["state"][q]
             \/ at["state"][q] # "none" /\ at'["state"][q] = "reset"
    BY <1>6, Ends
  <2>2. CASE \A q \in Requests : at'["state"][q] # "arrived" /\ phase'[q] = "idle"
    BY <2>1, <2>2 DEF StoreInv
  <2>3. CASE UNCHANGED <<phase, result>>
            /\ \A q \in Requests : at'["state"][q] = at["state"][q]
    BY <2>1, <2>3 DEF StoreInv
  <2> QED
    BY <1>6, <2>2, <2>3, Ends
<1>7. CASE (\E h \in Roles : Start(h) \/ Pause(h) \/ Unpause(h)) \/ UNCHANGED vars
  BY <1>7, Quiet DEF StoreInv
<1> QED
  BY <1>1, <1>2, <1>3, <1>4, <1>5, <1>6, <1>7 DEF Next

\* An answer 200 on its way carries what the store returned.
LEMMA TruthStep ==
  ASSUME TypeOK, TypeOK', StoreInv, TruthInv, [Next]_vars
  PROVE  TruthInv'
<1>1. ASSUME NEW h \in Callers, NEW r \in Requests, Ask(h, r) PROVE TruthInv'
  <2>1. UNCHANGED taken
    BY <1>1 DEF Ask
  <2>2. \A g \in Hops, q \in Requests :
          at'[g][q] = "sent" /\ answer'[g][q].status = 200 =>
            at[g][q] = "sent" /\ answer'[g][q] = answer[g][q]
    BY <1>1, AskAt, AnswersTyped
  <2> QED
    BY <2>1, <2>2 DEF TruthInv
<1>2. ASSUME NEW h \in Callers, NEW r \in Requests,
             Receive(h, r) \/ Broken(h, r) \/ GiveUp(h, r)
      PROVE  TruthInv'
  <2>1. PICK a \in Answers :
          Send(h, r, a)
          /\ (a.status = 200 => at[Callee[h]][r] = "sent" /\ a = answer[Callee[h]][r])
    BY <1>2, CallerSends
  <2>2. UNCHANGED taken /\ Callee[h] \in Hops /\ h \in Hops
    BY <1>2, CallerSends
  <2>3. a.status = 200 => a.value \in taken[r]
    BY <2>1, <2>2 DEF TruthInv
  <2>4. \A g \in Hops, q \in Requests :
          /\ at'[g][q] = IF g = h /\ q = r THEN "sent" ELSE at[g][q]
          /\ answer'[g][q] = IF g = h /\ q = r THEN a ELSE answer[g][q]
    BY <2>1, <2>2, SendAt
  <2> QED
    BY <2>2, <2>3, <2>4 DEF TruthInv
<1>3. ASSUME NEW r \in Requests, Serve(r) \/ Execute(r) PROVE TruthInv'
  <2>1. UNCHANGED <<at, answer>> /\ \A q \in Requests : taken[q] \subseteq taken'[q]
    BY <1>3 DEF Serve, Execute, TypeOK
  <2> QED
    BY <2>1 DEF TruthInv
<1>4. ASSUME NEW r \in Requests, StateReplies(r) PROVE TruthInv'
  <2>1. PICK a \in Answers :
          Send("state", r, a) /\ (a.status = 200 => phase[r] = "done" /\ a.value = result[r])
    BY <1>4, StateSends
  <2>2. UNCHANGED taken /\ at["state"][r] = "arrived"
    BY <1>4, StateSends
  <2>3. phase[r] = "done" => taken[r] = {result[r]}
    BY <2>2 DEF StoreInv
  <2>4. \A g \in Hops, q \in Requests :
          /\ at'[g][q] = IF g = "state" /\ q = r THEN "sent" ELSE at[g][q]
          /\ answer'[g][q] = IF g = "state" /\ q = r THEN a ELSE answer[g][q]
    BY <2>1, SendAt
  <2>5. a.status = 200 => a.value \in taken[r]
    BY <2>1, <2>3
  <2> QED
    BY <2>2, <2>4, <2>5 DEF TruthInv
<1>5. CASE (\E h \in Roles : Kill(h)) \/ PowerLoss
  BY <1>5, Ends DEF TruthInv
<1>6. CASE (\E h \in Roles : Start(h) \/ Pause(h) \/ Unpause(h)) \/ UNCHANGED vars
  BY <1>6, Quiet DEF TruthInv
<1> QED
  BY <1>1, <1>2, <1>3, <1>4, <1>5, <1>6 DEF Next

\* Where the answers that are still awaited come from.
LEMMA HeldMoves ==
  ASSUME TypeOK, TypeOK', StoreInv, [Next]_vars,
         NEW g \in Hops, NEW q \in Requests, Held(g, q)'
  PROVE  \/ \E f \in Hops : Held(f, q) /\ answer'[g][q].value = answer[f][q].value
         \/ /\ StateReplies(q) /\ Pending(q) /\ at["app"][q] = "calling"
            /\ answer'[g][q].value = result[q]
<1>1. ASSUME NEW h \in Callers, NEW r \in Requests, Ask(h, r)
      PROVE  Held(g, q) /\ answer'[g][q] = answer[g][q]
  <2>1. UNCHANGED want
    BY <1>1 DEF Ask
  <2> QED
    BY <1>1, <2>1, AskAt, AnswersTyped DEF Held
<1>2. ASSUME NEW h \in Callers, NEW r \in Requests,
             Receive(h, r) \/ Broken(h, r) \/ GiveUp(h, r)
      PROVE  \E f \in Hops : Held(f, q) /\ answer'[g][q].value = answer[f][q].value
  <2>1. PICK a \in Answers :
          Send(h, r, a)
          /\ (a.status = 200 => at[Callee[h]][r] = "sent" /\ a = answer[Callee[h]][r])
    BY <1>2, CallerSends
  <2>2. /\ UNCHANGED want /\ Callee[h] \in Hops /\ h \in Hops /\ at[h][r] = "calling"
        /\ Callee[h] = "state" => h = "app"
    BY <1>2, CallerSends
  <2>3. \A e \in Hops, p \in Requests :
          /\ at'[e][p] = IF e = h /\ p = r THEN "sent" ELSE at[e][p]
          /\ answer'[e][p] = IF e = h /\ p = r THEN a ELSE answer[e][p]
    BY <2>1, <2>2, SendAt
  <2>4. CASE g = h /\ q = r
    <3>1. Held(Callee[h], q) /\ answer'[g][q] = answer[Callee[h]][q]
      BY <2>1, <2>2, <2>3, <2>4 DEF Held
    <3> QED
      BY <2>2, <3>1
  <2>5. CASE ~(g = h /\ q = r)
    <3>1. Held(g, q) /\ answer'[g][q] = answer[g][q]
      BY <2>2, <2>3, <2>5 DEF Held
    <3> QED
      BY <3>1
  <2> QED
    BY <2>4, <2>5
<1>3. ASSUME NEW r \in Requests, Serve(r) \/ Execute(r) PROVE Held(g, q) /\ UNCHANGED answer
  BY <1>3 DEF Serve, Execute, Held
<1>4. ASSUME NEW r \in Requests, StateReplies(r)
      PROVE  \/ Held(g, q) /\ answer'[g][q] = answer[g][q]
             \/ /\ StateReplies(q) /\ Pending(q) /\ at["app"][q] = "calling"
                /\ answer'[g][q].value = result[q]
  <2>1. PICK a \in Answers :
          Send("state", r, a) /\ (a.status = 200 => phase[r] = "done" /\ a.value = result[r])
    BY <1>4, StateSends
  <2>2. UNCHANGED want
    BY <1>4, StateSends
  <2>3. \A e \in Hops, p \in Requests :
          /\ at'[e][p] = IF e = "state" /\ p = r THEN "sent" ELSE at[e][p]
          /\ answer'[e][p] = IF e = "state" /\ p = r THEN a ELSE answer[e][p]
    BY <2>1, SendAt
  <2>4. CASE g = "state" /\ q = r
    BY <1>4, <2>1, <2>2, <2>3, <2>4 DEF Held, Pending
  <2>5. CASE ~(g = "state" /\ q = r)
    BY <2>2, <2>3, <2>5 DEF Held
  <2> QED
    BY <2>4, <2>5
<1>5. CASE (\E h \in Roles : Kill(h)) \/ PowerLoss
  <2>1. Held(g, q) /\ UNCHANGED answer
    BY <1>5, Ends DEF Held
  <2> QED
    BY <2>1
<1>6. CASE (\E h \in Roles : Start(h) \/ Pause(h) \/ Unpause(h)) \/ UNCHANGED vars
  <2>1. Held(g, q) /\ UNCHANGED answer
    BY <1>6, Quiet DEF Held
  <2> QED
    BY <2>1
<1> QED
  BY <1>1, <1>2, <1>3, <1>4, <1>5, <1>6 DEF Next

\* A promise is made by the answer to an increment that is still awaited.
LEMMA AckedMoves ==
  ASSUME TypeOK, StoreInv, [Next]_vars
  PROVE  /\ UNCHANGED <<durable, want>>
         /\ \/ acked' = acked
            \/ \E r \in Requests : /\ StateReplies(r) /\ Pending(r)
                                   /\ acked' = acked \cup {result[r]}
<1>1. ASSUME NEW r \in Requests, StateReplies(r)
      PROVE  acked' = acked \/ (Pending(r) /\ acked' = acked \cup {result[r]})
  <2>1. CASE at["app"][r] = "calling" /\ phase[r] = "done" /\ kind[r] = "increment"
    BY <1>1, <2>1 DEF StateReplies, StoreInv, Pending
  <2>2. CASE ~(at["app"][r] = "calling" /\ phase[r] = "done" /\ kind[r] = "increment")
    BY <1>1, <2>2 DEF StateReplies
  <2> QED
    BY <2>1, <2>2
<1>2. ASSUME NEW r \in Requests, StateReplies(r)
      PROVE  UNCHANGED <<durable, want>>
  BY <1>2, StateSends
<1>3. ASSUME NEW h \in Callers, NEW r \in Requests,
             Ask(h, r) \/ Receive(h, r) \/ Broken(h, r) \/ GiveUp(h, r)
      PROVE  UNCHANGED <<durable, want, acked>>
  BY <1>3 DEF Ask, Receive, Broken, GiveUp, counter
<1>4. ASSUME NEW r \in Requests, Serve(r) \/ Execute(r)
      PROVE  UNCHANGED <<durable, want, acked>>
  BY <1>4 DEF Serve, Execute, Store!Invoke, Store!TakeEffect, Store!Fail
<1>5. CASE (\E h \in Roles : Kill(h)) \/ PowerLoss
  BY <1>5, Ends
<1>6. CASE (\E h \in Roles : Start(h) \/ Pause(h) \/ Unpause(h)) \/ UNCHANGED vars
  BY <1>6 DEF Start, Pause, Unpause, vars, counter
<1> QED
  BY <1>1, <1>2, <1>3, <1>4, <1>5, <1>6 DEF Next

\* The histories move when the client asks, and when the store executes.
LEMMA HistoryMoves ==
  ASSUME [Next]_vars
  PROVE  \/ taken' = taken /\ floor' = floor
         \/ \E r \in Requests : Ask("client", r)
         \/ floor' = floor /\ \E r \in Requests : Execute(r)
<1>1. ASSUME NEW h \in Callers, NEW r \in Requests, Ask(h, r), h # "client"
      PROVE  taken' = taken /\ floor' = floor
  BY <1>1 DEF Ask
<1>2. ASSUME NEW h \in Callers, NEW r \in Requests,
             Receive(h, r) \/ Broken(h, r) \/ GiveUp(h, r)
      PROVE  taken' = taken /\ floor' = floor
  BY <1>2 DEF Receive, Broken, GiveUp
<1>3. ASSUME NEW r \in Requests, Serve(r) \/ StateReplies(r)
      PROVE  taken' = taken /\ floor' = floor
  BY <1>3 DEF Serve, StateReplies
<1>4. ASSUME NEW r \in Requests, Execute(r) PROVE floor' = floor
  BY <1>4 DEF Execute
<1>5. ASSUME NEW h \in Roles, Kill(h) PROVE taken' = taken /\ floor' = floor
  BY <1>5 DEF Kill
<1>6. CASE PowerLoss
  BY <1>6 DEF PowerLoss
<1>7. CASE (\E h \in Roles : Start(h) \/ Pause(h) \/ Unpause(h)) \/ UNCHANGED vars
  BY <1>7, Quiet
<1> QED
  BY <1>1, <1>2, <1>3, <1>4, <1>5, <1>6, <1>7 DEF Next

\* An increment's 200 that can still reach its caller counts as answered.
LEMMA AckedStep ==
  ASSUME TypeOK, TypeOK', StoreInv, AckedInv, [Next]_vars
  PROVE  AckedInv'
<1>1. acked \subseteq acked'
  BY AckedMoves
<1>2. ASSUME NEW h \in Hops, NEW r \in Requests, Held(h, r)'
      PROVE  answer'[h][r].value \in acked'
  <2>1. CASE \E f \in Hops : Held(f, r) /\ answer'[h][r].value = answer[f][r].value
    BY <1>1, <2>1 DEF AckedInv
  <2>2. CASE /\ StateReplies(r) /\ Pending(r) /\ at["app"][r] = "calling"
             /\ answer'[h][r].value = result[r]
    BY <2>2 DEF StateReplies, Pending, StoreInv
  <2> QED
    BY <1>2, <2>1, <2>2, HeldMoves
<1>3. ASSUME NEW r \in Requests PROVE floor'[r] \in acked'
  <2>1. CASE floor' = floor
    BY <1>1, <2>1 DEF AckedInv
  <2>2. ASSUME NEW q \in Requests, Ask("client", q) PROVE floor'[r] \in acked
    BY <2>2, FloorExists DEF AckedInv, TypeOK
  <2> QED
    BY <1>1, <2>1, <2>2, HistoryMoves
<1>4. \E n \in Nat : \A a \in acked' : a <= n
  <2>1. PICK n \in Nat : \A a \in acked : a <= n
    BY DEF AckedInv
  <2>2. ASSUME NEW r \in Requests, acked' = acked \cup {result[r]}
        PROVE  \A a \in acked' : a <= n + result[r]
    BY <2>1, <2>2 DEF TypeOK
  <2>3. \A r \in Requests : n + result[r] \in Nat
    BY DEF TypeOK
  <2> QED
    BY <2>1, <2>2, <2>3, AckedMoves
<1> QED
  BY <1>1, <1>2, <1>3, <1>4 DEF AckedInv

\* How counter and store move: by a new effect, or back over what was promised
\* to nobody, with all calls forgotten.
LEMMA CounterMoves ==
  ASSUME TypeOK, TypeOK', StoreInv, [Next]_vars
  PROVE  \/ /\ UNCHANGED value
            /\ \A r \in Requests :
                 phase'[r] = "done" => phase[r] = "done" /\ result'[r] = result[r]
         \/ \E r \in Requests :
              /\ phase[r] = "called" /\ kind[r] = want[r] /\ acked' = acked
              /\ value' = IF want[r] = "increment" THEN value + 1 ELSE value
              /\ result'[r] = value'
              /\ \A q \in Requests \ {r} :
                   phase'[q] = phase[q] /\ result'[q] = result[q]
         \/ /\ acked' = acked /\ value' \in Nat
            /\ durable => \A a \in acked : a <= value'
            /\ \A r \in Requests : phase'[r] = "idle"
<1>1. ASSUME NEW h \in Callers, NEW r \in Requests,
             Ask(h, r) \/ Receive(h, r) \/ Broken(h, r) \/ GiveUp(h, r)
      PROVE  UNCHANGED <<value, phase, result>>
  BY <1>1 DEF Ask, Receive, Broken, GiveUp, counter
<1>2. ASSUME NEW r \in Requests, Serve(r) \/ StateReplies(r)
      PROVE  /\ UNCHANGED value
             /\ \A q \in Requests :
                  phase'[q] = "done" => phase[q] = "done" /\ result'[q] = result[q]
  BY <1>2 DEF Serve, StateReplies, Store!Invoke, Store!Step, Store!Answer, TypeOK
<1>3. ASSUME NEW r \in Requests, Execute(r), Store!Fail(r)
      PROVE  /\ UNCHANGED value
             /\ \A q \in Requests :
                  phase'[q] = "done" => phase[q] = "done" /\ result'[q] = result[q]
  BY <1>3 DEF Store!Fail, Store!Step, TypeOK
<1>4. ASSUME NEW r \in Requests, Execute(r), Store!TakeEffect(r)
      PROVE  /\ phase[r] = "called" /\ kind[r] = want[r] /\ acked' = acked
             /\ value' = IF want[r] = "increment" THEN value + 1 ELSE value
             /\ result'[r] = value'
             /\ \A q \in Requests \ {r} :
                  phase'[q] = phase[q] /\ result'[q] = result[q]
  <2>1. phase[r] = "called" /\ kind[r] = want[r]
    BY <1>4 DEF Store!TakeEffect, Store!Step, StoreInv
  <2> QED
    BY <1>4, <2>1 DEF Store!TakeEffect, Store!Step, TypeOK
<1>5. CASE (\E h \in Roles : Kill(h)) \/ PowerLoss
  <2>1. CASE UNCHANGED <<value, phase, result>>
    BY <2>1
  <2>2. CASE /\ \A q \in Requests : phase'[q] = "idle"
             /\ value' = value \/ Store!PowerLoss
    <3>1. CASE value' = value
      BY <2>2, <3>1
    <3>2. CASE Store!PowerLoss
      BY <2>2, <3>2 DEF Store!PowerLoss, TypeOK
    <3> QED
      BY <2>2, <3>1, <3>2
  <2> QED
    BY <1>5, <2>1, <2>2, Ends
<1>6. CASE (\E h \in Roles : Start(h) \/ Pause(h) \/ Unpause(h)) \/ UNCHANGED vars
  BY <1>6, Quiet
<1>7. ASSUME NEW r \in Requests, Execute(r) PROVE Store!TakeEffect(r) \/ Store!Fail(r)
  BY <1>7 DEF Execute
<1> QED
  BY <1>1, <1>2, <1>3, <1>4, <1>5, <1>6, <1>7 DEF Next

\* With a storage that keeps its word no answer is ahead of the counter.
LEMMA AheadStep ==
  ASSUME TypeOK, TypeOK', StoreInv, CounterAhead, PendingIsNew, [Next]_vars
  PROVE  CounterAhead'
<1> SUFFICES ASSUME durable, NEW a \in acked' PROVE a <= value'
  BY AckedMoves DEF CounterAhead
<1>1. CASE a \notin acked
  <2>1. PICK r \in Requests : /\ StateReplies(r) /\ Pending(r)
                              /\ acked' = acked \cup {result[r]}
    BY <1>1, AckedMoves
  <2>2. a = result[r] /\ value' = value
    BY <1>1, <2>1, StateSends
  <2> QED
    BY <2>1, <2>2 DEF PendingIsNew
<1>2. CASE a \in acked
  <2>1. a <= value /\ a \in Nat /\ value \in Nat
    BY <1>2 DEF CounterAhead, TypeOK
  <2> QED
    BY <1>2, <2>1, CounterMoves
<1> QED
  BY <1>1, <1>2

\* An increment under way gets a value that nobody was given.
LEMMA PendingStep ==
  ASSUME TypeOK, TypeOK', StoreInv, CounterAhead, PendingIsNew, [Next]_vars
  PROVE  PendingIsNew'
<1>1. UNCHANGED <<durable, want>>
  BY AckedMoves
<1> SUFFICES ASSUME durable, NEW r \in Requests, Pending(r)'
             PROVE  /\ result'[r] <= value' /\ result'[r] \notin acked'
                    /\ \A q \in Requests : Pending(q)' /\ result'[q] = result'[r] => q = r
  BY <1>1 DEF PendingIsNew
<1>2. CASE /\ UNCHANGED value
           /\ \A p \in Requests :
                phase'[p] = "done" => phase[p] = "done" /\ result'[p] = result[p]
  <2>1. Pending(r) /\ result'[r] = result[r]
    BY <1>1, <1>2 DEF Pending
  <2>2. \A q \in Requests : Pending(q)' => Pending(q) /\ result'[q] = result[q]
    BY <1>1, <1>2 DEF Pending
  <2>3. result[r] \notin acked'
    <3>1. ASSUME NEW q \in Requests, StateReplies(q), Pending(q),
                 acked' = acked \cup {result[q]}
          PROVE  result[r] # result[q]
      <4>1. phase'[q] = "idle"
        BY <3>1 DEF StateReplies, Store!Answer, TypeOK
      <4>2. q # r
        BY <4>1 DEF Pending
      <4> QED
        BY <2>1, <3>1, <4>2 DEF PendingIsNew
    <3> QED
      BY <2>1, <3>1, AckedMoves DEF PendingIsNew
  <2> QED
    BY <1>2, <2>1, <2>2, <2>3 DEF PendingIsNew
<1>3. ASSUME NEW p \in Requests,
             phase[p] = "called", kind[p] = want[p], acked' = acked,
             value' = IF want[p] = "increment" THEN value + 1 ELSE value,
             result'[p] = value',
             \A q \in Requests \ {p} : phase'[q] = phase[q] /\ result'[q] = result[q]
      PROVE  /\ result'[r] <= value' /\ result'[r] \notin acked'
             /\ \A q \in Requests : Pending(q)' /\ result'[q] = result'[r] => q = r
  <2>1. \A q \in Requests \ {p} :
          Pending(q)' => Pending(q) /\ result'[q] = result[q] /\ result[q] <= value
    BY <1>1, <1>3 DEF Pending, PendingIsNew
  <2>2. /\ value \in Nat /\ value' \in Nat /\ value <= value'
        /\ \A q \in Requests : result[q] \in Nat
        /\ \A a \in acked : a \in Nat /\ a <= value
    BY <1>3 DEF TypeOK, CounterAhead
  <2>3. CASE want[p] = "increment"
    <3>1. value' = value + 1
      BY <1>3, <2>3
    <3>2. result'[r] <= value' /\ result'[r] \notin acked
      <4>1. CASE r = p
        BY <1>3, <2>2, <3>1, <4>1
      <4>2. CASE r # p
        BY <2>1, <2>2, <3>1, <4>2 DEF PendingIsNew
      <4> QED
        BY <4>1, <4>2
    <3>3. ASSUME NEW q \in Requests, Pending(q)', result'[q] = result'[r] PROVE q = r
      <4>1. CASE q # p /\ r # p
        BY <2>1, <3>3, <4>1 DEF PendingIsNew
      <4>2. CASE q = p /\ r # p
        BY <1>3, <2>1, <2>2, <3>1, <3>3, <4>2
      <4>3. CASE q # p /\ r = p
        BY <1>3, <2>1, <2>2, <3>1, <3>3, <4>3
      <4> QED
        BY <4>1, <4>2, <4>3
    <3> QED
      BY <1>3, <3>2, <3>3
  <2>4. CASE want[p] # "increment"
    <3>1. ~Pending(p)' /\ value' = value
      BY <1>1, <1>3, <2>4 DEF Pending
    <3> QED
      BY <1>3, <2>1, <3>1 DEF PendingIsNew
  <2> QED
    BY <2>3, <2>4
<1>4. ~(\A p \in Requests : phase'[p] = "idle")
  BY DEF Pending
<1> QED
  BY <1>2, <1>3, <1>4, CounterMoves

\* No two increments are answered with the same number.
LEMMA HeldStep ==
  ASSUME TypeOK, TypeOK', StoreInv, AckedInv, PendingIsNew, HeldOnce, [Next]_vars
  PROVE  HeldOnce'
<1> SUFFICES ASSUME durable, NEW g \in Hops, NEW h \in Hops,
                    NEW r \in Requests, NEW q \in Requests, Held(g, r)', Held(h, q)',
                    answer'[g][r].value = answer'[h][q].value
             PROVE  r = q
  BY AckedMoves DEF HeldOnce
<1>1. ASSUME NEW e \in Hops, NEW p \in Requests, NEW o \in Requests, Held(e, p),
             Pending(o), answer[e][p].value = result[o]
      PROVE  FALSE
  BY <1>1 DEF AckedInv, PendingIsNew
<1>2. CASE /\ \E f \in Hops : Held(f, r) /\ answer'[g][r].value = answer[f][r].value
           /\ \E f \in Hops : Held(f, q) /\ answer'[h][q].value = answer[f][q].value
  BY <1>2 DEF HeldOnce
<1>3. CASE Pending(r) /\ answer'[g][r].value = result[r]
  <2>1. CASE \E f \in Hops : Held(f, q) /\ answer'[h][q].value = answer[f][q].value
    BY <1>1, <1>3, <2>1
  <2>2. CASE Pending(q) /\ answer'[h][q].value = result[q]
    BY <1>3, <2>2 DEF PendingIsNew
  <2> QED
    BY <2>1, <2>2, HeldMoves
<1>4. CASE Pending(q) /\ answer'[h][q].value = result[q]
  <2>1. CASE \E f \in Hops : Held(f, r) /\ answer'[g][r].value = answer[f][r].value
    BY <1>1, <1>4, <2>1
  <2>2. CASE Pending(r) /\ answer'[g][r].value = result[r]
    BY <1>4, <2>2 DEF PendingIsNew
  <2> QED
    BY <2>1, <2>2, HeldMoves
<1> QED
  BY <1>2, <1>3, <1>4, HeldMoves

\* A request's value is not below what was answered before it was sent.
LEMMA FloorStep ==
  ASSUME TypeOK, TypeOK', ReachInv, StoreInv, AckedInv, CounterAhead, AboveFloor,
         [Next]_vars
  PROVE  AboveFloor'
<1>1. UNCHANGED want
  BY AckedMoves
<1> SUFFICES ASSUME durable, NEW r \in Requests, NEW n \in taken'[r]
             PROVE  IF want[r] = "increment" THEN n > floor'[r] ELSE n >= floor'[r]
  BY <1>1, AckedMoves DEF AboveFloor
<1>2. CASE taken' = taken /\ floor' = floor
  BY <1>2 DEF AboveFloor
<1>3. ASSUME NEW q \in Requests, Ask("client", q)
      PROVE  IF want[r] = "increment" THEN n > floor'[r] ELSE n >= floor'[r]
  <2>1. taken' = taken /\ taken[q] = {}
    BY <1>3, AskAt DEF Ask, ReachInv, StoreInv
  <2>2. r # q
    BY <2>1
  <2>3. floor'[r] = floor[r]
    BY <1>3, <2>2, FloorExists DEF TypeOK
  <2> QED
    BY <2>1, <2>3 DEF AboveFloor
<1>4. ASSUME NEW q \in Requests, Execute(q)
      PROVE  IF want[r] = "increment" THEN n > floor'[r] ELSE n >= floor'[r]
  <2>1. floor' = floor
    BY <1>4 DEF Execute
  <2>2. CASE n \in taken[r]
    BY <2>1, <2>2 DEF AboveFloor
  <2>3. CASE n \notin taken[r]
    <3>1. /\ Store!TakeEffect(q) /\ taken' = [taken EXCEPT ![q] = @ \cup {value'}]
      BY <1>4, <2>3 DEF Execute
    <3>2. r = q /\ n = value'
      BY <2>3, <3>1 DEF TypeOK
    <3>3. value' = IF want[r] = "increment" THEN value + 1 ELSE value
      BY <3>1, <3>2 DEF Store!TakeEffect, Store!Step, StoreInv
    <3>4. floor[r] <= value /\ floor[r] \in Nat /\ value \in Nat
      BY DEF AckedInv, CounterAhead, TypeOK
    <3> QED
      BY <2>1, <3>2, <3>3, <3>4
  <2> QED
    BY <2>2, <2>3
<1> QED
  BY <1>2, <1>3, <1>4, HistoryMoves

\* Before the first request the invariant holds.
LEMMA ChainInit == Init => TypeOK /\ ChainInv
<1> SUFFICES ASSUME Init PROVE ChainInv
  BY TypeInit
<1>1. ReachInv /\ StoreInv /\ TruthInv
  BY DEF Init, ReachInv, StoreInv, TruthInv, Store!AllIdle
<1>2. \A h \in Hops, r \in Requests : ~Held(h, r)
  BY DEF Init, Held
<1>3. AckedInv
  BY <1>2, InitialValueAssumption DEF Init, AckedInv
<1>4. CounterAhead /\ PendingIsNew /\ HeldOnce /\ AboveFloor
  BY <1>2, InitialValueAssumption
     DEF Init, CounterAhead, PendingIsNew, Pending, HeldOnce, AboveFloor, Store!AllIdle
<1> QED
  BY <1>1, <1>3, <1>4 DEF ChainInv

(* TypeOK and the inductive invariant hold throughout.                     *)
THEOREM ChainInvariance == Spec => [](TypeOK /\ ChainInv)
<1>1. TypeOK /\ ChainInv /\ [Next]_vars => (TypeOK /\ ChainInv)'
  <2> SUFFICES ASSUME TypeOK, ChainInv, [Next]_vars PROVE TypeOK' /\ ChainInv'
    OBVIOUS
  <2>1. TypeOK'
    BY TypeStep DEF ChainInv
  <2>2. ReachInv' /\ StoreInv' /\ TruthInv' /\ AckedInv'
    BY <2>1, ReachStep, StoreStep, TruthStep, AckedStep DEF ChainInv
  <2>3. CounterAhead' /\ PendingIsNew' /\ HeldOnce' /\ AboveFloor'
    BY <2>1, AheadStep, PendingStep, HeldStep, FloorStep DEF ChainInv
  <2> QED
    BY <2>1, <2>2, <2>3 DEF ChainInv
<1> QED
  BY <1>1, ChainInit, PTL DEF Spec

(* No request reaches the counter twice, whatever timed out, died or came  *)
(* back on its way.                                                        *)
THEOREM CountedOnce == Spec => []AtMostOnce
<1>1. TypeOK /\ ChainInv => AtMostOnce
  <2> SUFFICES ASSUME TypeOK, ChainInv, NEW r \in Requests
               PROVE  Cardinality(taken[r]) <= 1
    BY DEF AtMostOnce
  <2>1. CASE taken[r] = {}
    BY <2>1, FS_EmptySet
  <2>2. ASSUME NEW n \in taken[r] PROVE Cardinality(taken[r]) <= 1
    <3>1. taken[r] = {n}
      BY <2>2 DEF ChainInv, StoreInv
    <3>2. Cardinality({n}) = 1
      BY FS_Singleton
    <3> QED
      BY <3>1, <3>2
  <2> QED
    BY <2>1, <2>2
<1> QED
  BY <1>1, ChainInvariance, PTL

(* A 200 tells the truth, and no two clients get the same number.          *)
THEOREM TrueAnswers == Spec => []AnswersAreTrue
<1>1. TypeOK /\ ChainInv => AnswersAreTrue
  <2> SUFFICES ASSUME TypeOK, ChainInv PROVE AnswersAreTrue
    OBVIOUS
  <2>1. \A r \in Requests : Answered(r) => answer["client"][r].value \in taken[r]
    BY DEF ChainInv, TruthInv, Answered
  <2>2. \A r \in Requests : Answered(r) /\ want[r] = "increment" => Held("client", r)
    BY DEF Answered, Held
  <2> QED
    BY <2>1, <2>2 DEF AnswersAreTrue, ChainInv, HeldOnce
<1> QED
  BY <1>1, ChainInvariance, PTL

(* Who asks after an increment was answered sees it.                       *)
THEOREM LaterSeesEarlier == Spec => []RealTimeOrder
<1>1. TypeOK /\ ChainInv => RealTimeOrder
  BY DEF ChainInv, TruthInv, AboveFloor, RealTimeOrder, Answered
<1> QED
  BY <1>1, ChainInvariance, PTL

(***************************************************************************)
(* The chain implements AmbiguousCounter: a request happens at its Execute *)
(* and is answered, failed or refused when the client learns of it; every  *)
(* other step of the hops is a stutter.                                    *)
(***************************************************************************)
LEMMA PromiseInit == Init => Promise!Init
<1> SUFFICES ASSUME Init PROVE Promise!Init
  OBVIOUS
<1>1. Given = {}
  BY DEF Init, Given, Answered
<1>2. Outcomes = [r \in Requests |-> "idle"]
  BY DEF Init, Outcomes, Outcome
<1>3. Happened = [r \in Requests |-> FALSE] /\ Obtained = [r \in Requests |-> 0]
  BY DEF Init, Happened, Obtained, Element
<1> QED
  BY <1>1, <1>2, <1>3, InitialValueAssumption DEF Init, Promise!Init, Promised,
     Promise!Ops, Ops

\* The client's side stands still.
ClientSame ==
  /\ UNCHANGED want
  /\ \A r \in Requests :
       /\ at'["client"][r] = at["client"][r]
       /\ answer'["client"][r] = answer["client"][r]
       /\ at'["gateway"][r] = "none" <=> at["gateway"][r] = "none"

\* A step that the client does not see changes nothing promised to it.
LEMMA ClientFrame ==
  ASSUME ClientSame
  PROVE  UNCHANGED <<Promised, Outcomes>>
<1>1. \A r \in Requests : Answered(r)' <=> Answered(r)
  BY DEF ClientSame, Answered
<1>2. \A r \in Requests : Outcome(r)' = Outcome(r)
  BY <1>1 DEF ClientSame, Outcome
<1>3. Given' = Given
  BY <1>1 DEF ClientSame, Given
<1> QED
  BY <1>2, <1>3 DEF Promised, Outcomes

\* Without an effect in the store nothing has happened to a request.
LEMMA TakenFrame ==
  ASSUME UNCHANGED taken
  PROVE  UNCHANGED <<Happened, Obtained>>
  BY DEF Happened, Obtained

\* What gateway, app and state do among themselves is no business of the client.
LEMMA HopsAreUnseen ==
  ASSUME TypeOK, StoreInv,
         \/ \E h \in Callers \ {"client"}, r \in Requests :
              Ask(h, r) \/ Receive(h, r) \/ Broken(h, r) \/ GiveUp(h, r)
         \/ \E r \in Requests : Serve(r) \/ StateReplies(r)
         \/ \E h \in Roles : Start(h) \/ Pause(h) \/ Unpause(h)
         \/ UNCHANGED vars
  PROVE  ClientSame /\ UNCHANGED <<value, durable, taken>>
<1>1. ASSUME NEW h \in Callers \ {"client"}, NEW r \in Requests, Ask(h, r)
      PROVE  ClientSame /\ UNCHANGED <<value, durable, taken>>
  <2>1. UNCHANGED <<want, value, durable, taken>>
    BY <1>1 DEF Ask, counter
  <2> QED
    BY <1>1, <2>1, AskAt DEF ClientSame
<1>2. ASSUME NEW h \in Callers \ {"client"}, NEW r \in Requests,
             Receive(h, r) \/ Broken(h, r) \/ GiveUp(h, r)
      PROVE  ClientSame /\ UNCHANGED <<value, durable, taken>>
  <2>1. UNCHANGED <<want, value, durable, taken>>
    BY <1>2, CallerSends DEF counter
  <2>2. at[h][r] = "calling" /\ h \in Hops /\ \E a \in Answers : Send(h, r, a)
    BY <1>2, CallerSends
  <2>3. \A g \in Hops, q \in Requests :
          g # h \/ q # r => at'[g][q] = at[g][q] /\ answer'[g][q] = answer[g][q]
    BY <2>2, SendAt
  <2>4. at'[h][r] = "sent"
    BY <2>2, SendAt
  <2> QED
    BY <2>1, <2>2, <2>3, <2>4 DEF ClientSame
<1>3. ASSUME NEW r \in Requests, Serve(r)
      PROVE  ClientSame /\ UNCHANGED <<value, durable, taken>>
  BY <1>3 DEF Serve, Store!Invoke, ClientSame
<1>4. ASSUME NEW r \in Requests, StateReplies(r)
      PROVE  ClientSame /\ UNCHANGED <<value, durable, taken>>
  BY <1>4, StateSends, SendAt DEF ClientSame
<1>5. CASE (\E h \in Roles : Start(h) \/ Pause(h) \/ Unpause(h)) \/ UNCHANGED vars
  BY <1>5, Quiet DEF ClientSame
<1> QED
  BY <1>1, <1>2, <1>3, <1>4, <1>5

\* Such a step is a stutter of the promise.
LEMMA HopStutters ==
  ASSUME ClientSame, UNCHANGED <<value, durable, taken>>
  PROVE  UNCHANGED Promise!vars
  BY ClientFrame, TakenFrame DEF ClientSame, Promise!vars

\* The client opens its connection, or cannot.
LEMMA ClientAsks ==
  ASSUME TypeOK, ReachInv, NEW r \in Requests, Ask("client", r)
  PROVE  Promise!Send(r) \/ Promise!Refuse(r)
<1>1. UNCHANGED <<want, value, durable, taken>>
  BY DEF Ask, counter
<1>2. at["client"][r] = "none" /\ at["gateway"][r] = "none"
  BY AskAt DEF ReachInv
<1>3. \A q \in Requests \ {r} :
        /\ at'["client"][q] = at["client"][q]
        /\ answer'["client"][q] = answer["client"][q]
        /\ at'["gateway"][q] = at["gateway"][q]
  BY AskAt
<1>4. ~Answered(r) /\ ~Answered(r)'
  BY <1>2, AskAt, AnswersTyped DEF Answered
<1>5. \A q \in Requests : Answered(q)' <=> Answered(q)
  BY <1>3, <1>4 DEF Answered
<1>6. UNCHANGED <<Promised, Happened, Obtained>>
  <2>1. Given' = Given
    BY <1>1, <1>3, <1>4, <1>5 DEF Given
  <2> QED
    BY <1>1, <2>1, TakenFrame DEF Promised
<1>7. \A q \in Requests \ {r} : Outcome(q)' = Outcome(q)
  BY <1>3, <1>5 DEF Outcome
<1>8. Outcome(r) = "idle"
  BY <1>2 DEF Outcome
<1>9. Outcome(r)' = "waiting" \/ Outcome(r)' = "refused"
  BY <1>2, AskAt DEF Outcome
<1>10. /\ Outcomes[r] = "idle"
       /\ Outcomes' = [Outcomes EXCEPT ![r] = Outcome(r)']
  BY <1>7, <1>8 DEF Outcomes
<1> QED
  BY <1>1, <1>6, <1>9, <1>10 DEF Promise!Send, Promise!Refuse, Promise!Step

\* The client learns what became of its request.
LEMMA ClientLearns ==
  ASSUME TypeOK, ReachInv, StoreInv, TruthInv, NEW r \in Requests,
         Receive("client", r) \/ Broken("client", r)
  PROVE  Promise!Succeed(r) \/ Promise!Fail(r)
<1>1. PICK a \in Answers :
        Send("client", r, a)
        /\ (a.status = 200 => at["gateway"][r] = "sent" /\ a = answer["gateway"][r])
  BY CallerSends
<1>2. at["client"][r] = "calling" /\ UNCHANGED <<want, value, durable, taken>>
  BY CallerSends DEF counter
<1>3. \A g \in Hops, q \in Requests :
        /\ at'[g][q] = IF g = "client" /\ q = r THEN "sent" ELSE at[g][q]
        /\ answer'[g][q] = IF g = "client" /\ q = r THEN a ELSE answer[g][q]
  BY <1>1, SendAt
<1>4. at["gateway"][r] # "none"
  BY DEF Receive, Broken
<1>5. /\ ~Answered(r) /\ (Answered(r)' <=> a.status = 200)
      /\ \A q \in Requests \ {r} : Answered(q)' <=> Answered(q)
  BY <1>2, <1>3 DEF Answered
<1>6. /\ \A q \in Requests \ {r} : Outcome(q)' = Outcome(q)
      /\ Outcome(r) = "waiting"
      /\ Outcome(r)' = IF a.status = 200 THEN "answered" ELSE "failed"
  BY <1>2, <1>3, <1>4, <1>5 DEF Outcome
<1>7. /\ Outcomes[r] = "waiting"
      /\ Outcomes' = [Outcomes EXCEPT ![r] = Outcome(r)']
  BY <1>6 DEF Outcomes
<1>8. UNCHANGED <<Happened, Obtained>>
  BY <1>2, TakenFrame
<1>9. CASE a.status = 200
  <2>1. a.value \in taken[r]
    BY <1>1, <1>9 DEF TruthInv
  <2>2. Happened[r] /\ Obtained[r] = a.value
    BY <2>1 DEF Happened, Obtained, Element, StoreInv
  <2>3. Given' = IF want[r] = "increment" THEN Given \cup {a.value} ELSE Given
    BY <1>2, <1>3, <1>5, <1>9 DEF Given
  <2>4. Promised' = IF want[r] = "increment" THEN Promised \cup {Obtained[r]} ELSE Promised
    BY <2>2, <2>3 DEF Promised
  <2> QED
    BY <1>2, <1>6, <1>7, <1>8, <1>9, <2>2, <2>4 DEF Promise!Succeed, Promise!Step
<1>10. CASE a.status # 200
  <2>1. Given' = Given
    BY <1>2, <1>3, <1>5, <1>10 DEF Given
  <2> QED
    BY <1>2, <1>6, <1>7, <1>8, <1>10, <2>1 DEF Promised, Promise!Fail, Promise!Step
<1> QED
  BY <1>9, <1>10

\* The store carries the request out, or fails.
LEMMA StoreExecutes ==
  ASSUME TypeOK, TypeOK', ReachInv, StoreInv, NEW r \in Requests, Execute(r)
  PROVE  Promise!Happen(r) \/ UNCHANGED Promise!vars
<1>1. ClientSame
  BY DEF Execute, ClientSame
<1>2. CASE Store!Fail(r) /\ UNCHANGED taken
  BY <1>1, <1>2, HopStutters DEF Store!Fail
<1>3. CASE Store!TakeEffect(r) /\ taken' = [taken EXCEPT ![r] = @ \cup {value'}]
  <2>1. at["state"][r] = "arrived" /\ taken[r] = {} /\ kind[r] = want[r]
    BY <1>3 DEF Store!TakeEffect, Store!Step, StoreInv
  <2>2. /\ taken'[r] = {value'}
        /\ \A q \in Requests \ {r} : taken'[q] = taken[q]
    BY <1>3, <2>1 DEF TypeOK
  <2>3. Outcomes[r] \notin {"idle", "refused"}
    BY <2>1 DEF ReachInv, Outcomes, Outcome
  <2>4. ~Happened[r] /\ Happened' = [Happened EXCEPT ![r] = TRUE]
    BY <2>1, <2>2 DEF Happened
  <2>5. Element({value'}) = value'
    BY DEF Element
  <2>6. Obtained' = [Obtained EXCEPT ![r] = value']
    BY <2>2, <2>5 DEF Obtained
  <2>7. /\ value' = IF want[r] = "increment" THEN value + 1 ELSE value
        /\ UNCHANGED <<durable, want>>
    BY <1>3, <2>1 DEF Store!TakeEffect, Execute
  <2> QED
    BY <1>1, <2>3, <2>4, <2>6, <2>7, ClientFrame DEF Promise!Happen
<1> QED
  BY <1>2, <1>3 DEF Execute

\* Processes and hosts that go down.
LEMMA HostsEnd ==
  ASSUME TypeOK, AckedInv, (\E h \in Roles : Kill(h)) \/ PowerLoss
  PROVE  Promise!PowerLoss \/ UNCHANGED Promise!vars
<1>1. ClientSame /\ UNCHANGED <<durable, taken>>
  BY Ends DEF ClientSame
<1>2. CASE value' = value
  BY <1>1, <1>2, HopStutters
<1>3. CASE Store!PowerLoss
  <2>1. Promised \subseteq acked
    BY GivenIsAcked DEF Promised
  <2> QED
    BY <1>1, <1>3, <2>1, ClientFrame, TakenFrame
       DEF Store!PowerLoss, Promise!PowerLoss, ClientSame
<1> QED
  BY <1>2, <1>3, Ends

(* Whatever happens to gateway, app and state, a client is told what        *)
(* AmbiguousCounter allows and nothing else.                               *)
THEOREM PromiseKept == Spec => KeepsPromise
<1>1. TypeOK /\ ChainInv /\ TypeOK' /\ [Next]_vars => [Promise!Next]_(Promise!vars)
  <2> SUFFICES ASSUME TypeOK, ChainInv, TypeOK', [Next]_vars
               PROVE  Promise!Next \/ UNCHANGED Promise!vars
    OBVIOUS
  <2>1. ASSUME NEW r \in Requests, Ask("client", r) PROVE Promise!Next
    BY <2>1, ClientAsks DEF ChainInv, Promise!Next
  <2>2. ASSUME NEW r \in Requests, Receive("client", r) \/ Broken("client", r)
        PROVE  Promise!Next
    BY <2>2, ClientLearns DEF ChainInv, Promise!Next
  <2>3. ASSUME NEW r \in Requests, Execute(r)
        PROVE  Promise!Next \/ UNCHANGED Promise!vars
    BY <2>3, StoreExecutes DEF ChainInv, Promise!Next
  <2>4. CASE (\E h \in Roles : Kill(h)) \/ PowerLoss
    BY <2>4, HostsEnd DEF ChainInv, Promise!Next
  <2>5. CASE \/ \E h \in Callers \ {"client"}, r \in Requests :
                  Ask(h, r) \/ Receive(h, r) \/ Broken(h, r) \/ GiveUp(h, r)
             \/ \E r \in Requests : Serve(r) \/ StateReplies(r)
             \/ \E h \in Roles : Start(h) \/ Pause(h) \/ Unpause(h)
             \/ UNCHANGED vars
    BY <2>5, HopsAreUnseen, HopStutters DEF ChainInv
  <2>6. \A r \in Requests : ~GiveUp("client", r)
    BY DEF GiveUp
  <2> QED
    BY <2>1, <2>2, <2>3, <2>4, <2>5, <2>6 DEF Next
<1> QED
  BY <1>1, ChainInvariance, PromiseInit, PTL DEF Spec, KeepsPromise, Promise!Spec

(***************************************************************************)
(* The timeout budget: if the loaded config passes the hierarchy check.    *)
(***************************************************************************)
\* Types, and where the time went.
TimeIInv == BudgetTypeOK /\ TimeInv /\ StallInv /\ HeadInv

(* The two calls.                                                          *)
LEMMA CallNames == Calls = {"outer", "inner"} /\ "outer" \in Calls /\ "inner" \in Calls
  BY DEF Calls

(* Before the request, no time has gone anywhere.                          *)
LEMMA TimeInit == BudgetInit => TimeIInv
  BY CallNames, BoundsAssumption
     DEF BudgetInit, TimeIInv, BudgetTypeOK, TimeInv, StallInv, HeadInv, InProgress, Operations

(* What follows an operation of a call that does not time out.             *)
LEMMA AfterOpType ==
  \A op \in Operations :
    /\ AfterOp[op] \in {"head", "body", "ok"}
    /\ op = "connect" => AfterOp[op] = "head"
    /\ op = "head" => AfterOp[op] = "body"
    /\ op = "body" => AfterOp[op] = "ok"
  BY DEF AfterOp, Operations

(* Each step accounts for the time it lets pass.                           *)
LEMMA TimeStep == TimeIInv /\ [BudgetNext]_budgetVars => TimeIInv'
<1> SUFFICES ASSUME TimeIInv, [BudgetNext]_budgetVars PROVE TimeIInv'
  OBVIOUS
<1> USE CallNames DEF TimeIInv
<1>1. CASE Boot
  BY <1>1 DEF Boot, BudgetTypeOK, TimeInv, StallInv, HeadInv, InProgress
<1>2. CASE GatewayCalls
  <2>1. /\ stage["outer"] = "idle" /\ boot = "up"
        /\ stage' = [stage EXCEPT !["outer"] = "connect"]
        /\ wait' = [wait EXCEPT !["outer"] = 0]
        /\ UNCHANGED <<conf, boot, total, stalls, work>>
    BY <1>2 DEF GatewayCalls, Enter
  <2> QED
    BY <2>1 DEF BudgetTypeOK, TimeInv, StallInv, HeadInv, InProgress, Operations
<1>3. CASE AppAccepts
  <2>1. /\ stage["outer"] = "connect"
        /\ stage' = [stage EXCEPT !["outer"] = "head"]
        /\ wait' = [wait EXCEPT !["outer"] = 0]
        /\ UNCHANGED <<conf, boot, total, stalls, work>>
    BY <1>3 DEF AppAccepts, Enter
  <2> QED
    BY <2>1 DEF BudgetTypeOK, TimeInv, StallInv, HeadInv, InProgress, Operations
<1>4. CASE AppCalls
  <2>1. /\ stage["outer"] = "head" /\ stage["inner"] = "idle"
        /\ stage' = [stage EXCEPT !["inner"] = "connect"]
        /\ wait' = [wait EXCEPT !["inner"] = 0]
        /\ UNCHANGED <<conf, boot, total, stalls, work>>
    BY <1>4 DEF AppCalls, Enter
  <2> QED
    BY <2>1 DEF BudgetTypeOK, TimeInv, StallInv, HeadInv, InProgress, Operations
<1>5. CASE StateResponds
  <2>1. PICK op \in Operations : Enter("inner", op, AfterOp[op])
    BY <1>5 DEF StateResponds
  <2>2. /\ stage["inner"] \in Operations
        /\ stage' = [stage EXCEPT !["inner"] = AfterOp[op]]
        /\ AfterOp[op] \in {"head", "body", "ok"}
        /\ wait' = [wait EXCEPT !["inner"] = 0]
        /\ UNCHANGED <<conf, boot, total, stalls, work>>
    BY <2>1, AfterOpType DEF Enter
  <2> QED
    BY <2>2 DEF BudgetTypeOK, TimeInv, StallInv, HeadInv, InProgress, Operations
<1>6. CASE AppResponds
  <2>1. PICK op \in {"head", "body"} : Enter("outer", op, AfterOp[op])
    BY <1>6 DEF AppResponds
  <2>2. /\ stage["outer"] \in {"head", "body"}
        /\ stage["inner"] \in {"ok", "expired"}
        /\ stage' = [stage EXCEPT !["outer"] = AfterOp[op]]
        /\ AfterOp[op] \in {"body", "ok"}
        /\ wait' = [wait EXCEPT !["outer"] = 0]
        /\ UNCHANGED <<conf, boot, total, stalls, work>>
    BY <1>6, <2>1, AfterOpType DEF AppResponds, Enter, Operations
  <2> QED
    BY <2>2 DEF BudgetTypeOK, TimeInv, StallInv, HeadInv, InProgress, Operations
<1>7. ASSUME NEW c \in Calls, Expire(c) PROVE TimeIInv'
  <2>1. /\ stage[c] \in Operations /\ wait[c] = Limit(c)
        /\ stage' = [stage EXCEPT ![c] = "expired"]
        /\ UNCHANGED <<conf, boot, wait, total, stalls, work>>
    BY <1>7 DEF Expire, InProgress
  <2> QED
    BY <2>1 DEF BudgetTypeOK, TimeInv, StallInv, HeadInv, InProgress, Operations, Limit
<1>8. CASE Tick
  <2>1. /\ stage["outer"] \in Operations /\ wait["outer"] < conf.outer
        /\ wait'["outer"] = wait["outer"] + 1 /\ total'["outer"] = total["outer"] + 1
        /\ UNCHANGED <<conf, boot, stage>>
    BY <1>8 DEF Tick, InProgress, Limit
  <2>2. wait' \in [Calls -> Nat] /\ total' \in [Calls -> Nat]
    BY <1>8 DEF Tick, BudgetTypeOK
  <2>3. stalls' \in Nat /\ work' \in Nat
    BY <1>8 DEF Tick, BudgetTypeOK
  <2>4. BudgetTypeOK'
    BY <2>1, <2>2, <2>3 DEF BudgetTypeOK
  <2>5. CASE InProgress("inner")
    <3>1. /\ wait["inner"] < conf.inner /\ wait'["inner"] = wait["inner"] + 1
          /\ total'["inner"] = total["inner"] + 1 /\ work' = work
          /\ stalls' = IF wait["inner"] = 0 THEN stalls + 1 ELSE stalls
      BY <1>8, <2>5 DEF Tick, Limit, InProgress
    <3>2. TimeInv' /\ StallInv'
      BY <2>1, <3>1 DEF BudgetTypeOK, TimeInv, StallInv, Operations
    <3>3. HeadInv'
      BY <2>1, <2>5, <3>1 DEF BudgetTypeOK, HeadInv, InProgress, Operations
    <3> QED
      BY <2>4, <3>2, <3>3
  <2>6. CASE ~InProgress("inner")
    <3>1. /\ wait'["inner"] = wait["inner"] /\ total'["inner"] = total["inner"]
          /\ work' = work + 1 /\ stalls' = stalls
      BY <1>8, <2>6 DEF Tick
    <3>2. TimeInv' /\ StallInv'
      BY <2>1, <3>1 DEF BudgetTypeOK, TimeInv, StallInv, Operations
    <3>3. HeadInv'
      BY <2>1, <2>6, <3>1 DEF BudgetTypeOK, HeadInv, InProgress, Operations
    <3> QED
      BY <2>4, <3>2, <3>3
  <2> QED
    BY <2>5, <2>6
<1>9. CASE UNCHANGED budgetVars
  BY <1>9 DEF budgetVars, BudgetTypeOK, TimeInv, StallInv, HeadInv, InProgress
<1> QED
  BY <1>1, <1>2, <1>3, <1>4, <1>5, <1>6, <1>7, <1>8, <1>9 DEF BudgetNext

(* The account of the outer call's time is right in every reachable state. *)
THEOREM TimeInvariance == BudgetSpec => []TimeIInv
  BY TimeInit, TimeStep, PTL DEF BudgetSpec

(* For every inner, outer and margin: one stall of state and no more than  *)
(* the margin of app's own work leave gateway's timeout unfired.           *)
THEOREM InnerFirst == BudgetSpec => []InnerFiresFirst
<1>1. TimeIInv => InnerFiresFirst
  BY CallNames DEF TimeIInv, BudgetTypeOK, TimeInv, StallInv, InnerFiresFirst,
     Hierarchy, Timeouts
<1> QED
  BY <1>1, TimeInvariance, PTL

(* For every configuration and any number of stalls of state, the caller   *)
(* waits no longer than the outer timeout.                                 *)
THEOREM WaitBounded == BudgetSpec => []CallerWaitBounded
<1>1. TimeIInv => CallerWaitBounded
  BY DEF TimeIInv, HeadInv, CallerWaitBounded
<1> QED
  BY <1>1, TimeInvariance, PTL
=============================================================================
