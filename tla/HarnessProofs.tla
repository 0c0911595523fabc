---------------------------- MODULE HarnessProofs ----------------------------
(***************************************************************************)
(* What the scripts' ends mean, for every restart limit and any number of  *)
(* crashes and signals.                                                    *)
(*                                                                         *)
(* What is said of the control of the try block and its finally clauses    *)
(* (ControlInv) holds whatever the steps are.  The rest needs their types, *)
(* and the order of some of them: Shape, which both scripts are shown to   *)
(* have by way of their parts.                                             *)
(***************************************************************************)
EXTENDS Harness, SequenceTheorems, TLAPS

(* Where an exception is, a signal is not forgotten, and an end by other   *)
(* means than an interrupted teardown comes after compose down.            *)
ControlInv ==
  /\ mode = "try" => exc = "none"
  /\ mode # "end" => verdict = "none"
  /\ signals \in Nat
  /\ signals > 0 /\ mode # "end" => exc # "none" \/ bad
  /\ bad \in BOOLEAN
  /\ SignalNeverPasses
  /\ TornDown

\* Where the finally clauses around a step lead.
LEMMA AfterModes == After \in {"try", "unpause", "restore"}
  BY DEF After

\* Both mains begin in the try block without an exception.
LEMMA ControlInit == Init => ControlInv
<1> SUFFICES ASSUME Init PROVE ControlInv
  OBVIOUS
<1>1. mode = "try" /\ exc = "none" /\ verdict = "none" /\ bad = FALSE
  BY DEF Init
<1>2. signals = 0
  BY DEF Init
<1>3. signals \in Nat /\ ~(signals > 0)
  BY <1>2
<1> QED
  BY <1>1, <1>3, Zenon DEF ControlInv, SignalNeverPasses, TornDown

\* An exception in the try block leaves it, and is not lost.
LEMMA CutStep ==
  ASSUME ControlInv, NEW e \in {"failed", "other", "terminated"}, Cut(e),
         signals' \in Nat
  PROVE  ControlInv'
<1>1. /\ mode = "try" /\ bad' = bad /\ downTried' = downTried
      /\ exc' = e /\ mode' # "try" /\ mode' # "end" /\ verdict' = verdict
  BY AfterModes DEF Cut, InTry, Raises
<1>2. verdict' = "none"
  BY <1>1 DEF ControlInv
<1> QED
  BY <1>1, <1>2 DEF ControlInv, SignalNeverPasses, TornDown

\* A step that succeeds goes on in the try block or to its own finally.
LEMMA ProceedStep == ASSUME ControlInv, Proceed PROVE ControlInv'
<1>1. /\ mode = "try" /\ exc' = exc /\ verdict' = verdict
      /\ downTried' = downTried /\ signals' = signals
  BY DEF Proceed, InTry
<1>2. mode' \in {"try", "unpause", "restore"}
  BY AfterModes DEF Proceed
<1>3. bad' \in {bad, TRUE}
  BY DEF Proceed, Records
<1> QED
  BY <1>1, <1>2, <1>3 DEF ControlInv, SignalNeverPasses, TornDown

\* The nested finally clauses keep the exception or put theirs in its place.
LEMMA FinallyStep ==
  ASSUME ControlInv, Unpause \/ Restore PROVE ControlInv'
<1>1. /\ mode # "end" /\ bad' = bad /\ verdict' = verdict
      /\ downTried' = downTried /\ signals' = signals
      /\ exc' \in {exc, "failed", "other"}
      /\ mode' = IF exc' = "none" THEN "try" ELSE "teardown"
  BY DEF Unpause, Restore, Resume
<1> QED
  BY <1>1 DEF ControlInv, SignalNeverPasses, TornDown

\* The teardown ends in a verdict about the exception under way.
LEMMA TeardownStep ==
  ASSUME ControlInv, Teardown \/ Down PROVE ControlInv'
<1>1. signals' = signals /\ bad' = bad /\ mode # "end"
  BY DEF Teardown, Down
<1>2. CASE Teardown
  <2>1. downTried' = downTried
    BY <1>2 DEF Teardown
  <2>2. \/ mode' = "down" /\ exc' = exc /\ verdict' = verdict
        \/ mode' = "end" /\ verdict' = "cut" /\ exc' = "other"
    BY <1>2 DEF Teardown, CutShort
  <2> QED
    BY <1>1, <2>1, <2>2 DEF ControlInv, SignalNeverPasses, TornDown
<1>3. CASE Down
  <2>1. downTried' = TRUE /\ mode' = "end"
    BY <1>3 DEF Down, CutShort
  <2>2. verdict' \in {Verdict, "cut"}
    BY <1>3 DEF Down, CutShort
  <2>3. verdict' = "pass" => signals' = 0
    <3>1. Verdict = "pass" => exc = "none" /\ ~bad
      BY DEF Verdict
    <3> QED
      BY <1>1, <2>2, <3>1 DEF ControlInv
  <2> QED
    BY <1>1, <2>1, <2>3 DEF ControlInv, SignalNeverPasses, TornDown
<1> QED
  BY <1>2, <1>3

\* A SIGTERM is remembered.
LEMMA SignalCounts ==
  ASSUME ControlInv, Signal PROVE signals' \in Nat /\ signals' > 0
  BY DEF ControlInv, Signal

\* It leaves an exception or a failed result, wherever it comes.
LEMMA TerminateStep ==
  ASSUME ControlInv,
         TerminateTry \/ TerminateFinally \/ TerminateHandler
           \/ TerminateTeardown \/ Swallow
  PROVE  ControlInv'
<1>1. Signal
  BY DEF TerminateTry, TerminateFinally, TerminateHandler, TerminateTeardown,
         Swallow
<1>2. signals' \in Nat
  BY <1>1, SignalCounts
<1>3. CASE TerminateTry
  BY <1>2, <1>3, CutStep DEF TerminateTry
<1>4. CASE TerminateFinally \/ TerminateHandler
  <2>1. /\ mode # "end" /\ mode' = "teardown" /\ exc' # "none" /\ bad' = bad
        /\ verdict' = verdict /\ downTried' = downTried
    BY <1>4 DEF TerminateFinally, TerminateHandler
  <2> QED
    BY <1>2, <2>1 DEF ControlInv, SignalNeverPasses, TornDown
<1>5. CASE TerminateTeardown
  <2>1. mode' = "end" /\ verdict' = "cut" /\ exc' = "other" /\ bad' = bad
    BY <1>5 DEF TerminateTeardown, CutShort
  <2> QED
    BY <1>2, <2>1 DEF ControlInv, SignalNeverPasses, TornDown
<1>6. CASE Swallow
  <2>1. /\ mode = "try" /\ mode' = mode /\ exc' = exc /\ verdict' = verdict
        /\ bad' = TRUE /\ downTried' = downTried
    BY <1>6 DEF Swallow, Now, InTry
  <2> QED
    BY <1>2, <2>1 DEF ControlInv, SignalNeverPasses, TornDown
<1> QED
  BY <1>3, <1>4, <1>5, <1>6

\* What Docker does by itself changes nothing of the script.
LEMMA StillStep == ASSUME ControlInv, UNCHANGED control PROVE ControlInv'
  BY DEF control, ControlInv, SignalNeverPasses, TornDown

\* Every step of a script or of docker keeps the control invariant.
LEMMA ControlStep == ControlInv /\ [Next]_vars => ControlInv'
<1> SUFFICES ASSUME ControlInv, [Next]_vars PROVE ControlInv'
  OBVIOUS
<1>1. CASE Proceed
  BY <1>1, ProceedStep
<1>2. CASE GiveUp
  <2>1. PICK e \in {"failed", "other"} : Cut(e)
    BY <1>2 DEF GiveUp
  <2>2. signals' \in Nat
    BY <1>2 DEF GiveUp, ControlInv
  <2> QED
    BY <2>1, <2>2, CutStep
<1>3. CASE Finish
  BY <1>3 DEF Finish, ControlInv, SignalNeverPasses, TornDown
<1>4. CASE Unpause \/ Restore
  BY <1>4, FinallyStep
<1>5. CASE Teardown \/ Down
  BY <1>5, TeardownStep
<1>6. CASE TerminateTry \/ TerminateFinally \/ TerminateHandler
             \/ TerminateTeardown \/ Swallow
  BY <1>6, TerminateStep
<1>7. ASSUME NEW s \in Services, Crash(s) \/ Restart(s) \/ Revive(s)
      PROVE  ControlInv'
  BY <1>7, StillStep DEF Crash, Restart, Revive
<1>8. CASE UNCHANGED vars
  BY <1>8, StillStep DEF vars
<1> QED
  BY <1>1, <1>2, <1>3, <1>4, <1>5, <1>6, <1>7, <1>8 DEF Next, Progress

(* The control of both scripts, along every exit path.                     *)
THEOREM ControlInvariance == Spec => []ControlInv
<1> QED
  BY ControlInit, ControlStep, PTL DEF Spec

(* A script that was sent SIGTERM before its end never reports a pass,     *)
(* wherever the signal hit, swallowed or not.                              *)
THEOREM SignalsAreFelt == Spec => []SignalNeverPasses
<1>1. ControlInv => SignalNeverPasses
  BY DEF ControlInv
<1> QED
  BY <1>1, ControlInvariance, PTL

(* Every exit path runs compose down -v, unless the teardown itself is cut *)
(* short.                                                                  *)
THEOREM AlwaysTornDown == Spec => []TornDown
<1>1. ControlInv => TornDown
  BY DEF ControlInv
<1> QED
  BY <1>1, ControlInvariance, PTL
-----------------------------------------------------------------------------
(* The steps of the scripts, and all that the next proofs need of their    *)
(* order (Shape).                                                          *)

Dos ==
  {"up", "down", "healthy", "ready", "unready", "refused", "read", "check",
   "pause", "probe", "count", "oom", "restarted", "once", "add", "shrink",
   "exhaust", "halt", "settle", "stop", "start", "note", "alive", "recreate",
   "expect", "inspect"}
AnyStep == [do : Dos, on : Services]

Does(word) == {step \in AnyStep : step.do = word}
Foreign == {step \in AnyStep : step.do \in {"stop", "halt"} /\ step.on # "state"}

NeverBefore(s, A, B) ==
  \A i, j \in 1..Len(s) : i < j /\ s[i] \in A => s[j] \notin B
RightAfter(s, A, B) ==
  \A j \in 1..Len(s) : s[j] \in B => j > 1 /\ s[j - 1] \in A

\* No script pauses twice, reads after it added, or stops another service before
\* it watches state stopped; it counts, halts and watches without a break.
Shape(s) ==
  /\ s \in Seq(AnyStep)
  /\ NeverBefore(s, Does("pause"), Does("pause"))
  /\ NeverBefore(s, Does("add"), Does("read"))
  /\ NeverBefore(s, Foreign, Does("settle"))
  /\ RightAfter(s, Does("count"), Does("halt"))
  /\ RightAfter(s, Does("halt"), Does("settle"))

Lacks(s, A) == \A i \in 1..Len(s) : s[i] \notin A

\* A sequence over S has no element outside of S.
LEMMA LacksBySet ==
  ASSUME NEW S, NEW s \in Seq(S), NEW A, S \cap A = {} PROVE Lacks(s, A)
<1> SUFFICES ASSUME NEW i \in 1..Len(s) PROVE s[i] \notin A
  BY DEF Lacks
<1>1. s[i] \in S
  BY ElementOfSeq
<1> QED
  BY <1>1

\* Where one of two words is missing, their order is no question.
LEMMA Lacking ==
  ASSUME NEW s, NEW A, NEW B
  PROVE  /\ Lacks(s, A) \/ Lacks(s, B) => NeverBefore(s, A, B)
         /\ Lacks(s, B) => RightAfter(s, A, B)
  BY DEF Lacks, NeverBefore, RightAfter

\* An element of s \o t is one of s or, further on, one of t.
LEMMA Elements ==
  ASSUME NEW S, NEW s \in Seq(S), NEW t \in Seq(S), NEW i \in 1..Len(s \o t)
  PROVE  \/ i \in 1..Len(s) /\ (s \o t)[i] = s[i]
         \/ i - Len(s) \in 1..Len(t) /\ (s \o t)[i] = t[i - Len(s)]
<1>1. /\ Len(s \o t) = Len(s) + Len(t)
      /\ (s \o t)[i] = IF i <= Len(s) THEN s[i] ELSE t[i - Len(s)]
  BY ConcatProperties
<1>2. Len(s) \in Nat /\ Len(t) \in Nat
  OBVIOUS
<1> QED
  BY <1>1, <1>2

\* What two sequences lack, their concatenation lacks.
LEMMA JoinLacks ==
  ASSUME NEW S, NEW s \in Seq(S), NEW t \in Seq(S), NEW A,
         Lacks(s, A), Lacks(t, A)
  PROVE  Lacks(s \o t, A)
  BY Elements DEF Lacks

\* NeverBefore of a concatenation, from its parts.
LEMMA JoinNever ==
  ASSUME NEW S, NEW s \in Seq(S), NEW t \in Seq(S), NEW A, NEW B,
         NeverBefore(s, A, B), NeverBefore(t, A, B), Lacks(s, A) \/ Lacks(t, B)
  PROVE  NeverBefore(s \o t, A, B)
<1> SUFFICES ASSUME NEW i \in 1..Len(s \o t), NEW j \in 1..Len(s \o t), i < j,
                    (s \o t)[i] \in A
             PROVE  (s \o t)[j] \notin B
  BY DEF NeverBefore
<1>1. Len(s) \in Nat /\ Len(t) \in Nat /\ Len(s \o t) \in Nat
  BY ConcatProperties
<1>2. CASE i \in 1..Len(s) /\ (s \o t)[i] = s[i]
  <2>1. Lacks(t, B)
    BY <1>2 DEF Lacks
  <2>2. CASE j \in 1..Len(s) /\ (s \o t)[j] = s[j]
    BY <1>2, <2>2 DEF NeverBefore
  <2>3. CASE j - Len(s) \in 1..Len(t) /\ (s \o t)[j] = t[j - Len(s)]
    BY <2>1, <2>3 DEF Lacks
  <2> QED
    BY <2>2, <2>3, Elements
<1>3. CASE i - Len(s) \in 1..Len(t) /\ (s \o t)[i] = t[i - Len(s)]
  <2>1. ~(j \in 1..Len(s))
    BY <1>1, <1>3
  <2>2. j - Len(s) \in 1..Len(t) /\ (s \o t)[j] = t[j - Len(s)]
    BY <2>1, Elements
  <2>3. i - Len(s) < j - Len(s)
    BY <1>1
  <2> QED
    BY <1>3, <2>2, <2>3 DEF NeverBefore
<1> QED
  BY <1>2, <1>3, Elements

\* RightAfter of a concatenation, from its parts.
LEMMA JoinAfter ==
  ASSUME NEW S, NEW s \in Seq(S), NEW t \in Seq(S), NEW A, NEW B,
         RightAfter(s, A, B), RightAfter(t, A, B)
  PROVE  RightAfter(s \o t, A, B)
<1> SUFFICES ASSUME NEW j \in 1..Len(s \o t), (s \o t)[j] \in B
             PROVE  j > 1 /\ (s \o t)[j - 1] \in A
  BY DEF RightAfter
<1>1. /\ Len(s) \in Nat /\ Len(t) \in Nat /\ Len(s \o t) = Len(s) + Len(t)
      /\ \A k \in 1..(Len(s) + Len(t)) :
            (s \o t)[k] = IF k <= Len(s) THEN s[k] ELSE t[k - Len(s)]
  BY ConcatProperties
<1>2. CASE j \in 1..Len(s) /\ (s \o t)[j] = s[j]
  <2>1. j > 1 /\ s[j - 1] \in A
    BY <1>2 DEF RightAfter
  <2>2. (s \o t)[j - 1] = s[j - 1]
    BY <1>1, <1>2, <2>1
  <2> QED
    BY <2>1, <2>2
<1>3. CASE j - Len(s) \in 1..Len(t) /\ (s \o t)[j] = t[j - Len(s)]
  <2>1. j - Len(s) > 1 /\ t[(j - Len(s)) - 1] \in A
    BY <1>3 DEF RightAfter
  <2>2. (s \o t)[j - 1] = t[(j - 1) - Len(s)]
    BY <1>1, <1>3, <2>1
  <2>3. (j - 1) - Len(s) = (j - Len(s)) - 1 /\ j > 1
    BY <1>1, <2>1
  <2> QED
    BY <2>1, <2>2, <2>3
<1> QED
  BY <1>2, <1>3, Elements

\* Two parts of a script of the right shape make one.
LEMMA JoinShape ==
  ASSUME NEW s, NEW t, Shape(s), Shape(t),
         Lacks(s, Does("pause")) \/ Lacks(t, Does("pause")),
         Lacks(s, Does("add")) \/ Lacks(t, Does("read")),
         Lacks(s, Foreign) \/ Lacks(t, Does("settle"))
  PROVE  Shape(s \o t)
<1>1. s \in Seq(AnyStep) /\ t \in Seq(AnyStep)
  BY DEF Shape
<1>2. s \o t \in Seq(AnyStep)
  BY <1>1, ConcatProperties
<1>3. NeverBefore(s \o t, Does("pause"), Does("pause"))
  BY <1>1, JoinNever DEF Shape
<1>4. NeverBefore(s \o t, Does("add"), Does("read"))
  BY <1>1, JoinNever DEF Shape
<1>5. NeverBefore(s \o t, Foreign, Does("settle"))
  BY <1>1, JoinNever DEF Shape
<1>6. /\ RightAfter(s \o t, Does("count"), Does("halt"))
      /\ RightAfter(s \o t, Does("halt"), Does("settle"))
  BY <1>1, JoinAfter DEF Shape
<1> QED
  BY <1>2, <1>3, <1>4, <1>5, <1>6 DEF Shape
-----------------------------------------------------------------------------
(* The parts of the scripts.                                               *)

\* How a script starts; and what restricts nothing of what comes before it.
FirstDos == {"up", "healthy", "note", "expect"}
FirstStep == [do : FirstDos, on : Services]
PlainDos == Dos \ {"pause", "read", "settle", "halt"}
PlainStep == [do : PlainDos, on : Services]
NativeStep == AnyStep \ Foreign

\* A part without a pause, a read, a docker stop or its window has the shape.
LEMMA PlainShape ==
  ASSUME NEW s \in Seq(PlainStep)
  PROVE  /\ Shape(s)
         /\ Lacks(s, Does("pause")) /\ Lacks(s, Does("read"))
         /\ Lacks(s, Does("settle")) /\ Lacks(s, Does("halt"))
<1>1. /\ PlainStep \cap Does("pause") = {} /\ PlainStep \cap Does("read") = {}
      /\ PlainStep \cap Does("settle") = {} /\ PlainStep \cap Does("halt") = {}
  BY DEF PlainStep, PlainDos, Does
<1>2. /\ Lacks(s, Does("pause")) /\ Lacks(s, Does("read"))
      /\ Lacks(s, Does("settle")) /\ Lacks(s, Does("halt"))
  BY <1>1, LacksBySet
<1>3. s \in Seq(AnyStep)
  <2>1. PlainStep \subseteq AnyStep
    BY DEF PlainStep, PlainDos, AnyStep
  <2> QED
    BY <2>1, SeqMonotonic
<1>4. /\ NeverBefore(s, Does("pause"), Does("pause"))
      /\ NeverBefore(s, Does("add"), Does("read"))
      /\ NeverBefore(s, Foreign, Does("settle"))
  BY <1>2, Lacking
<1>5. /\ RightAfter(s, Does("count"), Does("halt"))
      /\ RightAfter(s, Does("halt"), Does("settle"))
  BY <1>2, Lacking
<1> QED
  BY <1>2, <1>3, <1>4, <1>5 DEF Shape

\* A part that only brings the platform up may come before any other.
LEMMA FirstJoins ==
  ASSUME NEW s \in Seq(FirstStep), NEW t, Shape(t)
  PROVE  Shape(s \o t)
<1>1. s \in Seq(PlainStep)
  BY SeqMonotonic DEF FirstStep, FirstDos, PlainStep, PlainDos, Dos
<1>2. FirstStep \cap Does("add") = {} /\ FirstStep \cap Foreign = {}
  BY DEF FirstStep, FirstDos, Does, Foreign
<1>3. Lacks(s, Does("add")) /\ Lacks(s, Foreign)
  BY <1>2, LacksBySet
<1>4. Shape(s) /\ Lacks(s, Does("pause"))
  BY <1>1, PlainShape
<1> QED
  BY <1>3, <1>4, JoinShape

\* A plain part may come last.
LEMMA PlainJoins ==
  ASSUME NEW s, Shape(s), NEW t \in Seq(PlainStep)
  PROVE  Shape(s \o t)
  BY PlainShape, JoinShape

\* On makes a sequence of steps of a sequence of words.
LEMMA OnTyped ==
  ASSUME NEW D, NEW dos \in Seq(D), NEW P, NEW on \in P
  PROVE  On(on, dos) \in Seq([do : D, on : P])
<1>1. DOMAIN dos = 1..Len(dos) /\ Len(dos) \in Nat
  OBVIOUS
<1>2. \A i \in 1..Len(dos) : Step(dos[i], on) \in [do : D, on : P]
  BY DEF Step
<1>3. On(on, dos) \in [1..Len(dos) -> [do : D, on : P]]
  BY <1>1, <1>2 DEF On
<1> DEFINE S == [do : D, on : P]
<1> HIDE DEF S
<1>4. On(on, dos) \in [1..Len(dos) -> S] /\ Len(dos) \in Nat
  BY <1>1, <1>3 DEF S
<1>5. On(on, dos) \in Seq(S)
  BY <1>4
<1> QED
  BY <1>5 DEF S

\* ... a plain one of plain words.
LEMMA PlainOn ==
  ASSUME NEW dos \in Seq(PlainDos), NEW on \in Services
  PROVE  On(on, dos) \in Seq(PlainStep)
  BY OnTyped DEF PlainStep

\* Plain parts, one behind the other, are plain.
LEMMA PlainConcat ==
  ASSUME NEW s \in Seq(PlainStep), NEW t \in Seq(PlainStep)
  PROVE  s \o t \in Seq(PlainStep)
  BY ConcatProperties

\* On of the state service makes steps on the state service.
LEMMA NativeOn ==
  ASSUME NEW dos \in Seq(Dos) PROVE On("state", dos) \in Seq(NativeStep)
<1>1. On("state", dos) \in Seq([do : Dos, on : {"state"}])
  BY OnTyped
<1>2. [do : Dos, on : {"state"}] \subseteq NativeStep
  BY DEF NativeStep, AnyStep, Foreign, Services
<1> QED
  BY <1>1, <1>2, SeqMonotonic

\* And so does one such part behind another.
LEMMA NativeConcat ==
  ASSUME NEW s \in Seq(NativeStep), NEW t \in Seq(NativeStep)
  PROVE  s \o t \in Seq(NativeStep)
  BY ConcatProperties

\* The word lists of the plain parts.
LEMMA PlainWords ==
  /\ <<"start", "healthy", "ready", "check">> \in Seq(PlainDos)
  /\ <<"count", "oom", "restarted", "healthy", "once", "ready",
       "check", "add">> \in Seq(PlainDos)
  /\ <<"count", "shrink", "exhaust">> \in Seq(PlainDos)
  /\ <<"add">> \in Seq(PlainDos)
  /\ <<"stop", "note", "unready", "start", "healthy", "ready">> \in Seq(PlainDos)
  /\ <<"stop", "note", "start", "healthy", "ready">> \in Seq(PlainDos)
  /\ <<"recreate", "healthy", "check", "add">> \in Seq(PlainDos)
  /\ <<"check">> \in Seq(PlainDos)
  /\ <<"inspect", "note">> \in Seq(PlainDos)
  BY DEF PlainDos, Dos

\* Plain words are words.
LEMMA PlainIsAny == ASSUME NEW dos \in Seq(PlainDos) PROVE dos \in Seq(Dos)
  BY SeqMonotonic DEF PlainDos

\* How the scripts start.
LEMMA Starts ==
  /\ Startup \in Seq(FirstStep)
  /\ Startup \o On("state", <<"note">>) \in Seq(FirstStep)
  /\ Startup \o On("state", <<"expect">>) \in Seq(FirstStep)
<1>1. Startup \in Seq(FirstStep)
  <2>1. /\ Step("up", "state") \in FirstStep /\ Step("healthy", "state") \in FirstStep
        /\ Step("healthy", "app") \in FirstStep
        /\ Step("healthy", "gateway") \in FirstStep
    BY DEF Step, FirstStep, FirstDos, Services
  <2> QED
    BY <2>1 DEF Startup
<1>2. <<"note">> \in Seq(FirstDos) /\ <<"expect">> \in Seq(FirstDos)
  BY DEF FirstDos
<1>3. /\ On("state", <<"note">>) \in Seq(FirstStep)
      /\ On("state", <<"expect">>) \in Seq(FirstStep)
  BY <1>2, OnTyped DEF FirstStep, Services
<1> QED
  BY <1>1, <1>3, ConcatProperties

\* The parts of both mains that are plain.
LEMMA PlainParts ==
  /\ Startup \in Seq(PlainStep) /\ Recovered \in Seq(PlainStep)
  /\ TransientCrash \in Seq(PlainStep) /\ PersistentFailure \in Seq(PlainStep)
  /\ AppDown \in Seq(PlainStep) /\ GatewayDown \in Seq(PlainStep)
  /\ Recreate \in Seq(PlainStep) /\ DownUp \in Seq(PlainStep)
<1>0. "state" \in Services /\ "app" \in Services /\ "gateway" \in Services
  BY DEF Services
<1>1. Startup \in Seq(PlainStep)
  BY Starts, SeqMonotonic DEF FirstStep, FirstDos, PlainStep, PlainDos, Dos
<1>2. Recovered \in Seq(PlainStep)
  BY <1>0, PlainWords, PlainOn DEF Recovered
<1>3. TransientCrash \in Seq(PlainStep)
  BY <1>0, PlainWords, PlainOn DEF TransientCrash
<1>4. PersistentFailure \in Seq(PlainStep)
  <2>1. /\ On("state", <<"count", "shrink", "exhaust">>) \in Seq(PlainStep)
        /\ On("state", <<"add">>) \in Seq(PlainStep)
    BY <1>0, PlainWords, PlainOn
  <2> QED
    BY <1>2, <2>1, PlainConcat DEF PersistentFailure
<1>5. AppDown \in Seq(PlainStep) /\ GatewayDown \in Seq(PlainStep)
  BY <1>0, PlainWords, PlainOn DEF AppDown, GatewayDown
<1>6. Recreate \in Seq(PlainStep)
  BY <1>0, PlainWords, PlainOn DEF Recreate
<1>7. DownUp \in Seq(PlainStep)
  <2>1. <<Step("down", "state")>> \in Seq(PlainStep)
    BY <1>0 DEF Step, PlainStep, PlainDos, Dos
  <2>2. On("state", <<"check">>) \in Seq(PlainStep)
    BY <1>0, PlainWords, PlainOn
  <2> QED
    BY <1>1, <2>1, <2>2, PlainConcat DEF DownUp
<1> QED
  BY <1>1, <1>2, <1>3, <1>4, <1>5, <1>6, <1>7

\* The parts before the intentional stop touch no service but state.
LEMMA NativeParts ==
  /\ Startup \o On("state", <<"note">>) \in Seq(NativeStep)
  /\ PauseScenario \in Seq(NativeStep) /\ TransientCrash \in Seq(NativeStep)
  /\ PersistentFailure \in Seq(NativeStep)
<1>1. FirstStep \subseteq NativeStep
  BY DEF FirstStep, FirstDos, NativeStep, AnyStep, Dos, Foreign
<1>2. Startup \o On("state", <<"note">>) \in Seq(NativeStep)
  BY <1>1, Starts, SeqMonotonic
<1>3. <<"read", "pause", "probe", "healthy", "ready", "check">> \in Seq(Dos)
  BY DEF Dos
<1>4. PauseScenario \in Seq(NativeStep)
  BY <1>3, NativeOn DEF PauseScenario
<1>5. TransientCrash \in Seq(NativeStep)
  BY PlainWords, PlainIsAny, NativeOn DEF TransientCrash
<1>6. PersistentFailure \in Seq(NativeStep)
  <2>1. /\ On("state", <<"count", "shrink", "exhaust">>) \in Seq(NativeStep)
        /\ Recovered \in Seq(NativeStep)
        /\ On("state", <<"add">>) \in Seq(NativeStep)
    BY PlainWords, PlainIsAny, NativeOn DEF Recovered
  <2> QED
    BY <2>1, NativeConcat DEF PersistentFailure
<1> QED
  BY <1>2, <1>4, <1>5, <1>6

\* What On makes of the words it is given.
LEMMA OnElements ==
  ASSUME NEW dos \in Seq(Dos), NEW on \in Services
  PROVE  /\ On(on, dos) \in Seq(AnyStep) /\ Len(On(on, dos)) = Len(dos)
         /\ \A i \in 1..Len(dos) : /\ On(on, dos)[i].do = dos[i]
                                   /\ On(on, dos)[i].on = on
<1>1. On(on, dos) \in Seq(AnyStep)
  BY OnTyped DEF AnyStep
<1>2. DOMAIN dos = 1..Len(dos) /\ Len(dos) \in Nat
  OBVIOUS
<1>3. /\ DOMAIN On(on, dos) = 1..Len(dos)
      /\ \A i \in 1..Len(dos) : /\ On(on, dos)[i].do = dos[i]
                                /\ On(on, dos)[i].on = on
  BY <1>2 DEF On, Step
<1>4. Len(On(on, dos)) = Len(dos)
  BY <1>1, <1>2, <1>3
<1> QED
  BY <1>1, <1>3, <1>4

\* main's pause scenario: one pause, no increment, no other service stopped.
LEMMA PauseScenarioShape ==
  /\ Shape(PauseScenario)
  /\ Lacks(PauseScenario, Does("add")) /\ Lacks(PauseScenario, Foreign)
<1> DEFINE dos == <<"read", "pause", "probe", "healthy", "ready", "check">>
           s == On("state", dos)
<1>1. /\ dos \in Seq(Dos) /\ Len(dos) = 6
      /\ \A i \in 1..6 : /\ dos[i] = "pause" => i = 2
                         /\ dos[i] \notin {"add", "settle", "halt"}
  BY DEF Dos
<1> HIDE DEF dos
<1>2. /\ s \in Seq(AnyStep) /\ Len(s) = 6
      /\ \A i \in 1..6 : s[i].do = dos[i] /\ s[i].on = "state"
  BY <1>1, OnElements DEF Services
<1> HIDE DEF s
<1>3. /\ Lacks(s, Does("add")) /\ Lacks(s, Foreign)
      /\ Lacks(s, Does("settle")) /\ Lacks(s, Does("halt"))
  BY <1>1, <1>2 DEF Lacks, Does, Foreign
<1>4. NeverBefore(s, Does("pause"), Does("pause"))
  BY <1>1, <1>2 DEF NeverBefore, Does
<1>5. Shape(s)
  BY <1>2, <1>3, <1>4, Lacking DEF Shape
<1> QED
  BY <1>3, <1>5 DEF PauseScenario, s, dos

\* The compose check's part with state stopped.
LEMMA DegradeShape == Shape(Degrade)
<1> DEFINE dos == <<"read", "add", "stop", "alive", "unready", "refused">>
           s == On("state", dos)
<1>1. /\ dos \in Seq(Dos) /\ Len(dos) = 6
      /\ \A i \in 1..6 : /\ dos[i] = "read" => i = 1
                         /\ dos[i] \notin {"pause", "settle", "halt"}
  BY DEF Dos
<1> HIDE DEF dos
<1>2. /\ s \in Seq(AnyStep) /\ Len(s) = 6
      /\ \A i \in 1..6 : s[i].do = dos[i] /\ s[i].on = "state"
  BY <1>1, OnElements DEF Services
<1> HIDE DEF s
<1>3. /\ Lacks(s, Does("pause")) /\ Lacks(s, Foreign)
      /\ Lacks(s, Does("settle")) /\ Lacks(s, Does("halt"))
  BY <1>1, <1>2 DEF Lacks, Does, Foreign
<1>4. NeverBefore(s, Does("add"), Does("read"))
  BY <1>1, <1>2 DEF NeverBefore, Does
<1>5. Shape(s)
  BY <1>2, <1>3, <1>4, Lacking DEF Shape
<1> QED
  BY <1>5 DEF Degrade, s, dos

\* main's intentional stop: the window comes right behind the docker stop.
LEMMA IntentionalStopShape ==
  /\ Shape(IntentionalStop)
  /\ Lacks(IntentionalStop, Does("pause")) /\ Lacks(IntentionalStop, Does("read"))
<1> DEFINE dos == <<"count", "halt", "settle">>
           s == On("state", dos)
<1>1. /\ dos \in Seq(Dos) /\ Len(dos) = 3
      /\ dos[1] = "count" /\ dos[2] = "halt" /\ dos[3] = "settle"
  BY DEF Dos
<1>2. \A i \in 1..3 : i = 1 \/ i = 2 \/ i = 3
  OBVIOUS
<1> HIDE DEF dos
<1>3. /\ s \in Seq(AnyStep) /\ Len(s) = 3
      /\ \A i \in 1..3 : s[i].do = dos[i] /\ s[i].on = "state" /\ s[i] \in AnyStep
  <2>1. /\ s \in Seq(AnyStep) /\ Len(s) = 3
        /\ \A i \in 1..3 : s[i].do = dos[i] /\ s[i].on = "state"
    BY <1>1, OnElements DEF Services
  <2> QED
    BY <2>1, ElementOfSeq
<1> HIDE DEF s
<1>4. /\ Lacks(s, Does("pause")) /\ Lacks(s, Foreign) /\ Lacks(s, Does("read"))
  BY <1>1, <1>2, <1>3 DEF Lacks, Does, Foreign
<1>5. RightAfter(s, Does("count"), Does("halt"))
  BY <1>1, <1>2, <1>3 DEF RightAfter, Does
<1>6. RightAfter(s, Does("halt"), Does("settle"))
  BY <1>1, <1>2, <1>3 DEF RightAfter, Does
<1>7. Shape(s)
  BY <1>3, <1>4, <1>5, <1>6, Lacking DEF Shape
<1>8. Shape(s \o Recovered)
  BY <1>7, PlainParts, PlainJoins
<1>9. /\ Lacks(s \o Recovered, Does("pause"))
      /\ Lacks(s \o Recovered, Does("read"))
  <2>1. s \in Seq(AnyStep) /\ Recovered \in Seq(AnyStep)
    BY <1>3, PlainParts, PlainShape DEF Shape
  <2>2. Lacks(Recovered, Does("pause")) /\ Lacks(Recovered, Does("read"))
    BY PlainParts, PlainShape
  <2> QED
    BY <1>4, <2>1, <2>2, JoinLacks
<1> QED
  BY <1>8, <1>9 DEF IntentionalStop, s, dos

\* The reliability check as a whole.
LEMMA ReliabilityShape == Shape(Scripts["reliability"])
<1> DEFINE start == Startup \o On("state", <<"note">>)
           s1 == start \o PauseScenario
           s2 == s1 \o TransientCrash
           s3 == s2 \o PersistentFailure
           s4 == s3 \o IntentionalStop
           s5 == s4 \o AppDown
           s6 == s5 \o GatewayDown
<1>1. start \in Seq(FirstStep) /\ start \in Seq(NativeStep)
  BY Starts, NativeParts
<1> HIDE DEF start
<1>2. Shape(s1) /\ s1 \in Seq(NativeStep)
  BY <1>1, FirstJoins, PauseScenarioShape, NativeConcat, NativeParts
<1> HIDE DEF s1
<1>3. Shape(s2) /\ s2 \in Seq(NativeStep)
  BY <1>2, PlainJoins, PlainParts, NativeConcat, NativeParts
<1> HIDE DEF s2
<1>4. Shape(s3) /\ s3 \in Seq(NativeStep)
  BY <1>3, PlainJoins, PlainParts, NativeConcat, NativeParts
<1> HIDE DEF s3
<1>5. Shape(s4)
  <2>1. Lacks(s3, Foreign)
    BY <1>4, LacksBySet DEF NativeStep
  <2> QED
    BY <1>4, <2>1, IntentionalStopShape, JoinShape
<1> HIDE DEF s4
<1>6. Shape(s5)
  BY <1>5, PlainJoins, PlainParts
<1> HIDE DEF s5
<1>7. Shape(s6)
  BY <1>6, PlainJoins, PlainParts
<1> QED
  BY <1>7 DEF Scripts, s1, s2, s3, s4, s5, start

\* The Compose integration check as a whole.
LEMMA ComposeShape == Shape(Scripts["compose"])
<1> DEFINE start == Startup \o On("state", <<"expect">>)
           s1 == start \o Degrade
           s2 == s1 \o Recovered
           s3 == s2 \o Recreate
           s4 == s3 \o DownUp
           s5 == s4 \o On("state", <<"inspect", "note">>)
<1>1. start \in Seq(FirstStep)
  BY Starts
<1>2. On("state", <<"inspect", "note">>) \in Seq(PlainStep)
  BY PlainWords, PlainOn DEF Services
<1> HIDE DEF start
<1>3. Shape(s1)
  BY <1>1, FirstJoins, DegradeShape
<1> HIDE DEF s1
<1>4. Shape(s2)
  BY <1>3, PlainJoins, PlainParts
<1> HIDE DEF s2
<1>5. Shape(s3)
  BY <1>4, PlainJoins, PlainParts
<1> HIDE DEF s3
<1>6. Shape(s4)
  BY <1>5, PlainJoins, PlainParts
<1> HIDE DEF s4
<1>7. Shape(s5)
  BY <1>2, <1>6, PlainJoins
<1> QED
  BY <1>7 DEF Scripts, s1, s2, s3, s4, start

\* Whichever script runs has the shape.
LEMMA ScriptsShape ==
  ASSUME script \in {"reliability", "compose"}
  PROVE  Shape(Steps) /\ Steps \in Seq(AnyStep)
<1>1. Shape(Steps)
  BY ReliabilityShape, ComposeShape DEF Steps
<1> QED
  BY <1>1 DEF Shape
-----------------------------------------------------------------------------
(* Types.                                                                  *)

States == {"absent", "running", "restarting", "paused", "exited"}

ContainersOK ==
  /\ run \in [Services -> States]
  /\ stopped \in [Services -> BOOLEAN]
  /\ restarts \in [Services -> Nat]
  /\ starved \in BOOLEAN
  /\ value \in Nat

\* The position in the script is one of its steps, or behind the last.
LEMMA StepsLen ==
  ASSUME TypeOK
  PROVE  Len(Steps) \in Nat /\ DOMAIN Steps = 1..Len(Steps)
<1>1. Steps \in Seq(AnyStep)
  BY ScriptsShape DEF TypeOK
<1> QED
  BY <1>1

\* At the start of main every variable has its type.
LEMMA TypeInit == Init => TypeOK
<1> SUFFICES ASSUME Init PROVE TypeOK
  OBVIOUS
<1>1. script \in {"reliability", "compose"} /\ pos = 1
  BY DEF Init
<1>2. Steps \in Seq(AnyStep)
  BY <1>1, ScriptsShape
<1>3. pos \in 1..(Len(Steps) + 1)
  BY <1>1, <1>2
<1>4. 0 \in 0..MaxSignals /\ 0 \in 0..MaxCrashes
  BY MaxCrashesAssumption, MaxSignalsAssumption
<1> QED
  BY <1>3, <1>4 DEF Init, TypeOK

\* A restarted state service finds a number on the volume.
LEMMA ReopenTyped ==
  ASSUME ContainersOK, NEW s, Reopen(s) PROVE value' \in Nat
  BY DEF ContainersOK, Reopen

\* Containers that are brought up are in a known state.
LEMMA BringTyped ==
  ASSUME ContainersOK, NEW S, Bring(S)
  PROVE  run' \in [Services -> States] /\ stopped' \in [Services -> BOOLEAN]
  BY DEF ContainersOK, Bring, States

\* So is one that crashes, restarted or not.
LEMMA FailsTyped ==
  ASSUME ContainersOK, NEW s \in Services, Fails(s)
  PROVE  run' \in [Services -> States] /\ restarts' \in [Services -> Nat]
  BY DEF ContainersOK, Fails, States

\* So is one that is started by hand.
LEMMA StartedTyped ==
  ASSUME ContainersOK, NEW s \in Services, Started(s) PROVE ContainersOK'
<1>1. PICK n \in {restarts[s], 0} : restarts' = [restarts EXCEPT ![s] = n]
  BY DEF Started
<1>2. restarts' \in [Services -> Nat]
  BY <1>1 DEF ContainersOK
<1>3. run' \in [Services -> States] /\ stopped' \in [Services -> BOOLEAN]
  BY BringTyped DEF Started
<1>4. value' \in Nat /\ starved' = starved
  BY ReopenTyped DEF Started
<1> QED
  BY <1>2, <1>3, <1>4 DEF ContainersOK

\* A step of the try block names a service and a known command.
LEMMA TargetTyped ==
  ASSUME TypeOK, InTry
  PROVE  Target \in Services /\ Steps[pos].do \in Dos
<1>1. Steps \in Seq(AnyStep)
  BY ScriptsShape DEF TypeOK
<1>2. Steps[pos] \in AnyStep
  BY <1>1, ElementOfSeq DEF InTry
<1> QED
  BY <1>2 DEF AnyStep, Target

\* What a step asks of docker keeps the types.
LEMMA EffectTyped ==
  ASSUME ContainersOK, TypeOK, Effect PROVE ContainersOK'
<1>0. "state" \in Services
  BY DEF Services
<1>1. InTry => Target \in Services
  BY TargetTyped
<1>2. CASE Now("up") /\ Bring(Services) /\ Reopen("state")
             /\ restarts' = [s \in Services |-> 0] /\ starved' = starved
  BY <1>2, BringTyped, ReopenTyped DEF ContainersOK
<1>3. CASE Now("down") /\ run' = [s \in Services |-> "absent"]
             /\ UNCHANGED <<stopped, restarts, starved, value>>
  BY <1>3 DEF ContainersOK, States
<1>4. CASE Now("pause") /\ run' = [run EXCEPT !["state"] = "paused"]
             /\ UNCHANGED <<stopped, restarts, starved, value>>
  BY <1>4 DEF ContainersOK, States
<1>5. CASE (Now("stop") \/ Now("halt")) /\ run' = [run EXCEPT ![Target] = "exited"]
             /\ stopped' = [stopped EXCEPT ![Target] = TRUE]
             /\ UNCHANGED <<restarts, starved, value>>
  BY <1>5 DEF ContainersOK, States
<1>6. CASE Now("start") /\ (Started(Target) \/ UNCHANGED containers)
  <2>1. Target \in Services
    BY <1>1, <1>6 DEF Now
  <2>2. CASE Started(Target)
    BY <2>1, <2>2, StartedTyped
  <2>3. CASE UNCHANGED containers
    BY <2>3 DEF containers, ContainersOK
  <2> QED
    BY <1>6, <2>2, <2>3
<1>7. CASE Now("recreate") /\ Bring({"state"}) /\ Reopen("state")
             /\ restarts' = [restarts EXCEPT !["state"] = 0] /\ starved' = starved
  BY <1>7, BringTyped, ReopenTyped DEF ContainersOK
<1>8. CASE Now("oom") /\ Fails("state") /\ UNCHANGED <<stopped, starved, value>>
  BY <1>0, <1>8, FailsTyped DEF ContainersOK
<1>9. CASE Now("shrink") /\ starved' = TRUE
             /\ UNCHANGED <<run, stopped, restarts, value>>
  BY <1>9 DEF ContainersOK
<1>10. CASE Now("add") /\ value' = value + 1
             /\ UNCHANGED <<run, stopped, restarts, starved>>
  BY <1>10 DEF ContainersOK
<1> QED
  BY <1>2, <1>3, <1>4, <1>5, <1>6, <1>7, <1>8, <1>9, <1>10 DEF Effect

\* The types of what a step of the script leaves to Docker, and of the rest.
ScriptOK ==
  /\ script \in {"reliability", "compose"}
  /\ pos \in 1..(Len(Steps) + 1)
  /\ mode \in {"try", "unpause", "restore", "teardown", "down", "end"}
  /\ exc \in {"none", "failed", "terminated", "other"}
  /\ paused \in BOOLEAN
  /\ expected \in Nat
  /\ count0 \in Nat
  /\ bad \in BOOLEAN
  /\ verdict \in {"none", "pass", "fail", "terminated", "traceback", "cut"}
  /\ retried \in BOOLEAN
  /\ downTried \in BOOLEAN
  /\ signals \in 0..MaxSignals

WorldOK ==
  /\ keeps \in BOOLEAN
  /\ obeys \in BOOLEAN
  /\ crashes \in 0..MaxCrashes
  /\ lost \in BOOLEAN
  /\ revived \in BOOLEAN

\* The types in three parts: the script, the containers and the rest.
LEMMA TypeSplit == TypeOK <=> ScriptOK /\ ContainersOK /\ WorldOK
  BY DEF TypeOK, ScriptOK, ContainersOK, WorldOK, States

\* ... and joined again behind a step.
LEMMA TypeJoin == ScriptOK' /\ ContainersOK' /\ WorldOK' => TypeOK'
  BY DEF TypeOK, ScriptOK, ContainersOK, WorldOK, States

\* The SIGTERMs stay within their bound.
LEMMA SignalTyped ==
  ASSUME TypeOK, Signal PROVE signals' \in 0..MaxSignals
<1>1. MaxSignals \in Nat /\ signals \in 0..MaxSignals /\ signals < MaxSignals
      /\ signals' = signals + 1
  BY MaxSignalsAssumption DEF TypeOK, Signal
<1> QED
  BY <1>1

\* The history of a loss is a Boolean.
LEMMA LoseTyped == ASSUME WorldOK, Lose PROVE lost' \in BOOLEAN
  BY DEF WorldOK, Lose

\* A step that succeeds keeps the types.
LEMMA ProceedTyped == ASSUME TypeOK, Proceed PROVE TypeOK'
<1>1. ScriptOK /\ ContainersOK /\ WorldOK
  BY TypeSplit
<1>2. ContainersOK'
  <2>1. CASE Effect
    BY <1>1, <2>1, EffectTyped
  <2>2. CASE Look
    BY <1>1, <2>2 DEF Look, containers, ContainersOK
  <2> QED
    BY <2>1, <2>2 DEF Proceed
<1>3. WorldOK'
  BY <1>1, LoseTyped DEF Proceed, WorldOK
<1>4. /\ script' = script /\ exc' = exc /\ verdict' = verdict
      /\ retried' = retried /\ downTried' = downTried /\ signals' = signals
  BY DEF Proceed
<1>5. pos' \in 1..(Len(Steps') + 1)
  <2>1. pos \in 1..Len(Steps) /\ Len(Steps) \in Nat
    BY StepsLen DEF Proceed, InTry
  <2>2. Steps' = Steps
    BY <1>4 DEF Steps
  <2>3. pos' = pos + 1
    BY DEF Proceed
  <2> QED
    BY <2>1, <2>2, <2>3
<1>6. mode' \in {"try", "unpause", "restore"}
  BY AfterModes DEF Proceed
<1>7. paused' \in BOOLEAN /\ bad' \in BOOLEAN
  BY <1>1 DEF Proceed, Records, ScriptOK
<1>8. expected' \in Nat
  BY <1>1, <1>2 DEF Proceed, ScriptOK, ContainersOK
<1>9. count0' \in Nat
  <2>1. restarts["state"] \in Nat
    BY <1>1 DEF ContainersOK, Services
  <2> QED
    BY <1>1, <2>1 DEF Proceed, ScriptOK
<1>10. ScriptOK'
  BY <1>1, <1>4, <1>5, <1>6, <1>7, <1>8, <1>9 DEF ScriptOK
<1> QED
  BY <1>2, <1>3, <1>10, TypeJoin

\* So does one that raises.
LEMMA CutTyped ==
  ASSUME TypeOK, NEW e \in {"failed", "other", "terminated"}, Cut(e),
         signals' \in 0..MaxSignals
  PROVE  TypeOK'
<1>1. ScriptOK /\ ContainersOK /\ WorldOK
  BY TypeSplit
<1>2. ContainersOK'
  <2>1. CASE Effect
    BY <1>1, <2>1, EffectTyped
  <2>2. CASE Look
    BY <1>1, <2>2 DEF Look, containers, ContainersOK
  <2> QED
    BY <2>1, <2>2 DEF Cut
<1>3. WorldOK'
  BY <1>1, LoseTyped DEF Cut, WorldOK
<1>4. /\ exc' = e /\ mode' \in {"teardown", "unpause", "restore"}
      /\ verdict' = verdict
  BY AfterModes DEF Cut, Raises
<1>5. ScriptOK'
  BY <1>1, <1>4 DEF Cut, ScriptOK, Steps
<1> QED
  BY <1>2, <1>3, <1>5, TypeJoin

\* So does docker unpause.
LEMMA UnpausesTyped ==
  ASSUME ContainersOK, Unpauses \/ Look PROVE ContainersOK'
  BY DEF ContainersOK, Unpauses, Look, containers, States

\* So does every finally clause.
LEMMA FinallyTyped ==
  ASSUME TypeOK,
         Finish \/ Unpause \/ Restore \/ Teardown \/ Down
  PROVE  TypeOK'
<1>1. ScriptOK /\ ContainersOK /\ WorldOK
  BY TypeSplit
<1>2. CASE Finish
  <2>1. UNCHANGED platform /\ mode' = "teardown"
        /\ UNCHANGED <<script, pos, exc, paused, expected, count0, bad, verdict,
                       retried, downTried, signals>>
    BY <1>2 DEF Finish
  <2>2. ScriptOK'
    BY <1>1, <2>1 DEF ScriptOK, Steps
  <2>3. ContainersOK' /\ WorldOK'
    BY <1>1, <2>1 DEF platform, containers, ContainersOK, WorldOK
  <2> QED
    BY <2>2, <2>3, TypeJoin
<1>3. CASE Unpause
  <2>1. ContainersOK'
    BY <1>1, <1>3, UnpausesTyped DEF Unpause
  <2>2. /\ paused' \in {paused, FALSE} /\ exc' \in {exc, "other"}
        /\ mode' \in {"try", "teardown"}
    BY <1>3 DEF Unpause, Resume
  <2>3. WorldOK'
    BY <1>1, <1>3 DEF Unpause, WorldOK
  <2>4. paused' \in BOOLEAN
    BY <1>1, <2>2 DEF ScriptOK
  <2>5. ScriptOK'
    <3>1. UNCHANGED <<script, pos, expected, count0, bad, verdict, retried,
                      downTried, signals>>
      BY <1>3 DEF Unpause
    <3> QED
      BY <1>1, <2>2, <2>4, <3>1 DEF ScriptOK, Steps
  <2> QED
    BY <2>1, <2>3, <2>5, TypeJoin
<1>4. CASE Restore
  <2>1. /\ starved' \in BOOLEAN /\ exc' \in {exc, "failed", "other"}
        /\ mode' \in {"try", "teardown"}
    BY <1>4 DEF Restore, Resume
  <2>2. ScriptOK' /\ WorldOK' /\ ContainersOK'
    BY <1>1, <1>4, <2>1 DEF Restore, ScriptOK, WorldOK, ContainersOK, Steps
  <2> QED
    BY <2>2, TypeJoin
<1>5. CASE Teardown
  <2>1. ContainersOK'
    BY <1>1, <1>5, UnpausesTyped DEF Teardown
  <2>2. /\ retried' = paused /\ mode' \in {"down", "end"}
        /\ exc' \in {exc, "other"} /\ verdict' \in {verdict, "cut"}
    BY <1>5 DEF Teardown, CutShort
  <2>3. ScriptOK' /\ WorldOK'
    BY <1>1, <1>5, <2>2 DEF Teardown, ScriptOK, WorldOK, Steps
  <2> QED
    BY <2>1, <2>3, TypeJoin
<1>6. CASE Down
  <2>1. ContainersOK'
    BY <1>1, <1>6 DEF Down, ContainersOK, States
  <2>2. Verdict \in {"pass", "fail", "terminated", "traceback"}
    BY DEF Verdict
  <2>3. /\ mode' = "end" /\ exc' \in {exc, "other"} /\ verdict' \in {Verdict, "cut"}
        /\ downTried' = TRUE
    BY <1>6 DEF Down, CutShort
  <2>4. ScriptOK' /\ WorldOK'
    BY <1>1, <1>6, <2>2, <2>3 DEF Down, ScriptOK, WorldOK, Steps
  <2> QED
    BY <2>1, <2>4, TypeJoin
<1> QED
  BY <1>2, <1>3, <1>4, <1>5, <1>6

\* So does SIGTERM, wherever it comes.
LEMMA TerminateTyped ==
  ASSUME TypeOK,
         TerminateTry \/ TerminateFinally \/ TerminateHandler
           \/ TerminateTeardown \/ Swallow
  PROVE  TypeOK'
<1>1. ScriptOK /\ ContainersOK /\ WorldOK
  BY TypeSplit
<1>2. signals' \in 0..MaxSignals
  BY SignalTyped DEF TerminateTry, TerminateFinally, TerminateHandler,
                     TerminateTeardown, Swallow
<1>3. CASE TerminateTry
  BY <1>2, <1>3, CutTyped DEF TerminateTry
<1>4. CASE TerminateFinally
  <2>1. ContainersOK'
    <3>1. CASE Unpauses \/ Look
      BY <1>1, <3>1, UnpausesTyped
    <3>2. CASE starved' \in BOOLEAN /\ UNCHANGED <<run, stopped, restarts, value>>
      BY <1>1, <3>2 DEF ContainersOK
    <3> QED
      BY <1>4, <3>1, <3>2 DEF TerminateFinally
  <2>2. ScriptOK' /\ WorldOK'
    BY <1>1, <1>2, <1>4 DEF TerminateFinally, ScriptOK, WorldOK, Steps
  <2> QED
    BY <2>1, <2>2, TypeJoin
<1>5. CASE TerminateHandler
  <2>1. ContainersOK' /\ WorldOK'
    BY <1>1, <1>5 DEF TerminateHandler, platform, containers, ContainersOK, WorldOK
  <2>2. ScriptOK'
    BY <1>1, <1>2, <1>5 DEF TerminateHandler, ScriptOK, Steps
  <2> QED
    BY <2>1, <2>2, TypeJoin
<1>6. CASE TerminateTeardown
  <2>1. ContainersOK' /\ WorldOK'
    BY <1>1, <1>6 DEF TerminateTeardown, platform, containers, ContainersOK, WorldOK
  <2>2. ScriptOK'
    BY <1>1, <1>2, <1>6 DEF TerminateTeardown, CutShort, ScriptOK, Steps
  <2> QED
    BY <2>1, <2>2, TypeJoin
<1>7. CASE Swallow
  <2>1. ContainersOK' /\ WorldOK'
    BY <1>1, <1>7 DEF Swallow, platform, containers, ContainersOK, WorldOK
  <2>2. ScriptOK'
    BY <1>1, <1>2, <1>7 DEF Swallow, ScriptOK, Steps
  <2> QED
    BY <2>1, <2>2, TypeJoin
<1> QED
  BY <1>3, <1>4, <1>5, <1>6, <1>7

\* So does what docker does by itself.
LEMMA DockerTyped ==
  ASSUME TypeOK, NEW s \in Services, Crash(s) \/ Restart(s) \/ Revive(s)
  PROVE  TypeOK'
<1>1. ScriptOK /\ ContainersOK /\ WorldOK
  BY TypeSplit
<1>2. ScriptOK'
  <2>1. UNCHANGED control
    BY DEF Crash, Restart, Revive
  <2> QED
    BY <1>1, <2>1 DEF control, ScriptOK, Steps
<1>3. CASE Crash(s)
  <2>1. run' \in [Services -> States] /\ restarts' \in [Services -> Nat]
    BY <1>1, <1>3, FailsTyped DEF Crash
  <2>2. crashes' \in 0..MaxCrashes
    <3>1. crashes' = crashes \/ (crashes < MaxCrashes /\ crashes' = crashes + 1)
      BY <1>3 DEF Crash
    <3>2. crashes \in 0..MaxCrashes /\ MaxCrashes \in Nat
      BY <1>1, MaxCrashesAssumption DEF WorldOK
    <3> QED
      BY <3>1, <3>2
  <2>3. ContainersOK' /\ WorldOK'
    BY <1>1, <1>3, <2>1, <2>2 DEF Crash, ContainersOK, WorldOK
  <2> QED
    BY <1>2, <2>3, TypeJoin
<1>4. CASE Restart(s)
  <2>1. run' \in [Services -> States] /\ value' \in Nat /\ lost' \in BOOLEAN
    BY <1>1, <1>4, ReopenTyped, LoseTyped DEF Restart, ContainersOK, States
  <2>2. ContainersOK' /\ WorldOK'
    BY <1>1, <1>4, <2>1 DEF Restart, ContainersOK, WorldOK
  <2> QED
    BY <1>2, <2>2, TypeJoin
<1>5. CASE Revive(s)
  <2>1. /\ run' \in [Services -> States] /\ stopped' \in [Services -> BOOLEAN]
        /\ value' \in Nat /\ lost' \in BOOLEAN
    BY <1>1, <1>5, BringTyped, ReopenTyped, LoseTyped DEF Revive
  <2>2. restarts' \in [Services -> Nat]
    BY <1>1, <1>5 DEF Revive, ContainersOK
  <2>3. revived' \in BOOLEAN
    BY <1>1, <1>5 DEF Revive, WorldOK
  <2>4. ContainersOK' /\ WorldOK'
    BY <1>1, <1>5, <2>1, <2>2, <2>3 DEF Revive, ContainersOK, WorldOK
  <2> QED
    BY <1>2, <2>4, TypeJoin
<1> QED
  BY <1>3, <1>4, <1>5

\* Every step of a script or of docker keeps the types.
LEMMA TypeStep == TypeOK /\ [Next]_vars => TypeOK'
<1> SUFFICES ASSUME TypeOK, [Next]_vars PROVE TypeOK'
  OBVIOUS
<1>1. CASE Proceed
  BY <1>1, ProceedTyped
<1>2. CASE GiveUp
  <2>1. PICK e \in {"failed", "other"} : Cut(e)
    BY <1>2 DEF GiveUp
  <2>2. signals' \in 0..MaxSignals
    BY <1>2 DEF GiveUp, TypeOK
  <2> QED
    BY <2>1, <2>2, CutTyped
<1>3. CASE Finish \/ Unpause \/ Restore \/ Teardown \/ Down
  BY <1>3, FinallyTyped
<1>4. CASE TerminateTry \/ TerminateFinally \/ TerminateHandler
             \/ TerminateTeardown \/ Swallow
  BY <1>4, TerminateTyped
<1>5. ASSUME NEW s \in Services, Crash(s) \/ Restart(s) \/ Revive(s)
      PROVE  TypeOK'
  BY <1>5, DockerTyped
<1>6. CASE UNCHANGED vars
  BY <1>6 DEF vars, control, platform, containers, TypeOK, Steps
<1> QED
  BY <1>1, <1>2, <1>3, <1>4, <1>5, <1>6 DEF Next, Progress

(* Both scripts and their containers are well typed.                       *)
THEOREM TypeCorrect == Spec => []TypeOK
<1> QED
  BY TypeInit, TypeStep, PTL DEF Spec
-----------------------------------------------------------------------------
(* The paused container.                                                   *)

PausePassed == \E i \in 1..(pos - 1) : Steps[i].do = "pause"

\* Behind the pause step a paused container is one the script knows of.
PauseInv ==
  /\ run["state"] = "paused" /\ PausePassed => paused
  /\ UnpauseRetried

\* Only the script's own pause does it.
NotPaused == run["state"] # "paused" => run'["state"] # "paused"

\* No command but docker pause pauses a container.
LEMMA EffectPauses ==
  ASSUME TypeOK, Effect, ~Now("pause") PROVE NotPaused
<1>0. run \in [Services -> States] /\ "state" \in Services
  BY DEF TypeOK, States, Services
<1> USE <1>0 DEF NotPaused
<1>1. CASE \E S : Bring(S)
  BY <1>1 DEF Bring
<1>2. CASE run' = [s \in Services |-> "absent"]
  BY <1>2
<1>3. CASE run' = [run EXCEPT ![Target] = "exited"]
  BY <1>3
<1>4. CASE Fails("state")
  BY <1>4 DEF Fails
<1>5. CASE run' = run
  BY <1>5
<1> QED
  BY <1>1, <1>2, <1>3, <1>4, <1>5 DEF Effect, Started, containers

\* Docker by itself pauses none.
LEMMA DockerPauses ==
  ASSUME TypeOK, NEW s \in Services, Crash(s) \/ Restart(s) \/ Revive(s)
  PROVE  NotPaused
<1>0. run \in [Services -> States] /\ "state" \in Services
  BY DEF TypeOK, States, Services
<1>1. CASE Bring({s})
  BY <1>0, <1>1 DEF Bring, NotPaused
<1>2. CASE Fails(s)
  BY <1>0, <1>2 DEF Fails, NotPaused
<1>3. CASE run' = [run EXCEPT ![s] = "running"]
  BY <1>0, <1>3 DEF NotPaused
<1> QED
  BY <1>1, <1>2, <1>3 DEF Crash, Restart, Revive

\* Nor does docker unpause.
LEMMA UnpausesPauses ==
  ASSUME Unpauses \/ Look PROVE NotPaused
  BY DEF Unpauses, Look, containers, NotPaused

\* The step that pauses is not behind itself.
LEMMA PauseIsAhead ==
  ASSUME TypeOK, Now("pause") PROVE ~PausePassed
<1>1. Steps \in Seq(AnyStep) /\ NeverBefore(Steps, Does("pause"), Does("pause"))
  BY ScriptsShape DEF TypeOK, Shape
<1>2. pos \in 1..Len(Steps) /\ Steps[pos].do = "pause"
  BY <1>1 DEF Now, InTry
<1>3. ASSUME NEW i \in 1..(pos - 1) PROVE Steps[i].do # "pause"
  <2>1. i \in 1..Len(Steps) /\ i < pos
    BY <1>1, <1>2
  <2>2. Steps[i] \in AnyStep /\ Steps[pos] \in AnyStep
    BY <1>1, <1>2, <2>1, ElementOfSeq
  <2> QED
    BY <1>2, <2>1, <2>2, <1>1 DEF NeverBefore, Does
<1> QED
  BY <1>3 DEF PausePassed

\* A step that knows of the container what it knew before.
LEMMA PauseKept ==
  ASSUME PauseInv, NotPaused, UNCHANGED <<script, pos, paused>>,
         mode' = "down" => mode = "down" /\ retried' = retried
  PROVE  PauseInv'
  BY DEF PauseInv, NotPaused, UnpauseRetried, PausePassed, Steps

\* After docker pause the flag state_is_paused is set.
LEMMA ProceedPauses ==
  ASSUME TypeOK, PauseInv, Proceed PROVE PauseInv'
<1>1. /\ script' = script /\ pos' = pos + 1 /\ InTry
      /\ paused' = (paused \/ Now("pause"))
  BY DEF Proceed
<1>2. mode' # "down"
  BY AfterModes DEF Proceed
<1>3. ASSUME run'["state"] = "paused", PausePassed' PROVE paused'
  <2>1. CASE Now("pause")
    BY <1>1, <2>1
  <2>2. CASE ~Now("pause")
    <3>1. NotPaused
      <4>1. CASE Effect
        BY <2>2, <4>1, EffectPauses
      <4>2. CASE Look
        BY <4>2, UnpausesPauses
      <4> QED
        BY <4>1, <4>2 DEF Proceed
    <3>2. PICK i \in 1..(pos' - 1) : Steps[i].do = "pause"
      BY <1>1, <1>3 DEF PausePassed, Steps
    <3>3. pos \in 1..Len(Steps) /\ Len(Steps) \in Nat
      BY <1>1, StepsLen DEF InTry
    <3>4. i # pos
      BY <1>1, <2>2, <3>2 DEF Now
    <3>5. i \in 1..(pos - 1)
      BY <1>1, <3>2, <3>3, <3>4
    <3>6. PausePassed
      BY <3>2, <3>5 DEF PausePassed
    <3> QED
      BY <1>1, <1>3, <3>1, <3>6 DEF PauseInv, NotPaused
  <2> QED
    BY <2>1, <2>2
<1> QED
  BY <1>2, <1>3 DEF PauseInv, UnpauseRetried

\* A step that raises may leave a pause unknown, at the pause step only.
LEMMA CutPauses ==
  ASSUME TypeOK, PauseInv, NEW e, Cut(e) PROVE PauseInv'
<1>1. UNCHANGED <<script, pos, paused>> /\ mode' # "down"
  BY AfterModes DEF Cut, Raises
<1>2. CASE Now("pause")
  <2>1. ~PausePassed
    BY <1>2, PauseIsAhead
  <2> QED
    BY <1>1, <2>1 DEF PauseInv, UnpauseRetried, PausePassed, Steps
<1>3. CASE ~Now("pause")
  <2>1. NotPaused
    <3>1. CASE Effect
      BY <1>3, <3>1, EffectPauses
    <3>2. CASE Look
      BY <3>2, UnpausesPauses
    <3> QED
      BY <3>1, <3>2 DEF Cut
  <2> QED
    BY <1>1, <2>1, PauseKept
<1> QED
  BY <1>2, <1>3

\* The finally of the pause scenario clears the flag only with the pause.
LEMMA UnpausePauses ==
  ASSUME TypeOK, PauseInv, Unpause PROVE PauseInv'
<1>1. UNCHANGED <<script, pos>> /\ mode' # "down"
  BY DEF Unpause, Resume
<1>2. CASE UNCHANGED paused /\ (Unpauses \/ Look)
  BY <1>1, <1>2, UnpausesPauses, PauseKept
<1>3. CASE Unpauses /\ paused' = FALSE
  <2>1. run'["state"] # "paused"
    BY <1>3 DEF Unpauses, TypeOK, Services
  <2> QED
    BY <1>1, <2>1 DEF PauseInv, UnpauseRetried
<1> QED
  BY <1>2, <1>3 DEF Unpause

\* The teardown leaves the flag as it is.
LEMMA TeardownPauses ==
  ASSUME TypeOK, PauseInv, Teardown PROVE PauseInv'
<1>1. UNCHANGED <<script, pos, paused>> /\ retried' = paused
  BY DEF Teardown
<1>2. NotPaused
  BY UnpausesPauses DEF Teardown
<1> QED
  BY <1>1, <1>2 DEF PauseInv, NotPaused, UnpauseRetried, PausePassed, Steps

\* Every step keeps it: behind the pause step a paused container is known.
LEMMA PauseStep == TypeOK /\ PauseInv /\ [Next]_vars => PauseInv'
<1> SUFFICES ASSUME TypeOK, PauseInv, [Next]_vars PROVE PauseInv'
  OBVIOUS
<1>0. "state" \in Services
  BY DEF Services
<1>1. CASE Proceed
  BY <1>1, ProceedPauses
<1>2. CASE GiveUp \/ TerminateTry
  BY <1>2, CutPauses DEF GiveUp, TerminateTry
<1>3. CASE Unpause
  BY <1>3, UnpausePauses
<1>4. CASE Teardown
  BY <1>4, TeardownPauses
<1>5. CASE Finish \/ Restore
  BY <1>5, PauseKept DEF Finish, Restore, Resume, platform, containers, NotPaused
<1>6. CASE Down
  <2>1. NotPaused
    BY <1>0, <1>6 DEF Down, NotPaused
  <2> QED
    BY <1>6, <2>1, PauseKept DEF Down
<1>7. CASE TerminateFinally
  <2>1. NotPaused
    BY <1>7, UnpausesPauses DEF TerminateFinally, NotPaused
  <2> QED
    BY <1>7, <2>1, PauseKept DEF TerminateFinally
<1>8. CASE TerminateHandler \/ TerminateTeardown \/ Swallow
  BY <1>8, PauseKept
     DEF TerminateHandler, TerminateTeardown, CutShort, Swallow, platform,
         containers, NotPaused
<1>9. ASSUME NEW s \in Services, Crash(s) \/ Restart(s) \/ Revive(s)
      PROVE  PauseInv'
  <2>1. UNCHANGED control
    BY <1>9 DEF Crash, Restart, Revive
  <2> QED
    BY <1>9, <2>1, DockerPauses, PauseKept DEF control
<1>10. CASE UNCHANGED vars
  BY <1>10, PauseKept DEF vars, control, platform, containers, NotPaused
<1> QED
  BY <1>1, <1>2, <1>3, <1>4, <1>5, <1>6, <1>7, <1>8, <1>9, <1>10
     DEF Next, Progress

\* At the start of main nothing is paused.
LEMMA PauseInit == Init => PauseInv
<1> SUFFICES ASSUME Init PROVE PauseInv
  OBVIOUS
<1>1. run["state"] = "absent"
  BY DEF Init, Services
<1> QED
  BY <1>1 DEF PauseInv, UnpauseRetried

(* Wherever a failure, a timeout or a signal hits, the stack is not taken   *)
(* down over a container known to be paused without another unpause.       *)
THEOREM NeverLeftPaused == Spec => []UnpauseRetried
<1>1. PauseInv => UnpauseRetried
  BY DEF PauseInv
<1> QED
  BY <1>1, TypeInit, TypeStep, PauseInit, PauseStep, PTL DEF Spec
-----------------------------------------------------------------------------
(* What is still ahead of a script.                                        *)

Ahead(word) == \E i \in DOMAIN Steps : i >= pos /\ Steps[i].do = word

\* A word that is ahead behind a step was ahead before it.
LEMMA AheadKept ==
  ASSUME TypeOK, script' = script, pos' \in {pos, pos + 1}, NEW word,
         Ahead(word)'
  PROVE  Ahead(word)
<1>1. PICK i \in DOMAIN Steps : i >= pos' /\ Steps[i].do = word
  BY DEF Ahead, Steps
<1>2. i \in Nat /\ pos \in Nat
  BY <1>1, StepsLen DEF TypeOK
<1> QED
  BY <1>1, <1>2 DEF Ahead

\* A word that is never behind A is not ahead at a step of A.
LEMMA NotAhead ==
  ASSUME TypeOK, InTry, NEW A, NEW word, NeverBefore(Steps, A, Does(word)),
         Steps[pos] \in A, Steps[pos].do # word
  PROVE  ~Ahead(word)
<1> SUFFICES ASSUME NEW i \in DOMAIN Steps, i >= pos, Steps[i].do = word
             PROVE  FALSE
  BY DEF Ahead
<1>1. Steps \in Seq(AnyStep) /\ i \in 1..Len(Steps) /\ pos \in 1..Len(Steps)
  BY StepsLen, ScriptsShape DEF TypeOK, InTry
<1>2. i # pos /\ Steps[i] \in AnyStep
  BY <1>1, ElementOfSeq
<1>3. pos < i
  BY <1>1, <1>2, StepsLen
<1> QED
  BY <1>1, <1>2, <1>3 DEF NeverBefore, Does
-----------------------------------------------------------------------------
(* The counter.                                                            *)

\* Until it is read the counter was not added to, nor lost.
ReadFresh == Ahead("read") => value = 0 /\ ~lost

\* As long as a check is due it will tell a lost counter from one that is kept.
Tally ==
  /\ CheckDue => IF lost THEN value < expected ELSE value = expected
  /\ lost => CheckDue

\* A script that raised nothing leaves its try block after the last step.
RanToEnd ==
  mode \in {"teardown", "down"} /\ exc = "none" => pos \notin DOMAIN Steps

HonestInv ==
  /\ ReadFresh
  /\ exc = "none" /\ mode # "end" => Tally
  /\ RanToEnd
  /\ PassMeansKept

\* Only a step that adds makes the counter grow.
LEMMA ValueMoves ==
  ASSUME Effect \/ Look, ~Now("add") PROVE value' \in {value, 0}
  BY DEF Effect, Look, containers, Started, Reopen

\* A check is due exactly when one is ahead.
LEMMA CheckAhead == CheckDue <=> Ahead("check")
  BY DEF CheckDue, Ahead

\* What the history of a loss records.
LEMMA LoseMeans ==
  ASSUME Lose PROVE lost' <=> lost \/ (value' < value /\ CheckDue)
  BY Zenon DEF Lose

\* The counter stays untouched until `read` has taken it.
LEMMA FreshStep ==
  ASSUME TypeOK, ReadFresh, script' = script, pos' \in {pos, pos + 1},
         value' \in {value, 0}, Lose \/ lost' = lost
  PROVE  ReadFresh'
<1> SUFFICES ASSUME Ahead("read")' PROVE value' = 0 /\ ~lost'
  BY DEF ReadFresh
<1>1. value = 0 /\ ~lost
  BY AheadKept DEF ReadFresh
<1>2. value' = 0 /\ ~(value' < value)
  BY <1>1
<1> QED
  BY <1>1, <1>2, LoseMeans

\* What the volume loses is in the tally.
LEMMA TallyStep ==
  ASSUME TypeOK, Tally, UNCHANGED <<script, pos, expected>>,
         value' \in {value, 0}, Lose
  PROVE  Tally'
<1>1. CheckDue' <=> CheckDue
  BY DEF CheckDue, Steps
<1>2. value \in Nat /\ expected \in Nat /\ lost \in BOOLEAN
  BY DEF TypeOK
<1>3. CASE value' < value
  <2>1. CheckDue => value <= expected
    BY <1>2 DEF Tally
  <2>2. CheckDue => lost' /\ value' < expected
    BY <1>2, <1>3, <2>1, LoseMeans
  <2>3. lost' => CheckDue
    BY DEF Lose, Tally
  <2> QED
    BY <1>1, <2>2, <2>3 DEF Tally
<1>4. CASE ~(value' < value)
  <2>1. value' = value /\ (lost' <=> lost)
    BY <1>2, <1>4 DEF Lose
  <2> QED
    BY <1>1, <2>1 DEF Tally
<1> QED
  BY <1>3, <1>4

\* A step of Docker, or of a finally clause.
LEMMA HonestKept ==
  ASSUME TypeOK, HonestInv, mode # "end", UNCHANGED <<script, pos, expected>>,
         value' \in {value, 0}, Lose \/ (mode' = "end" /\ lost' = lost),
         mode' # "end" /\ exc' = "none" => exc = "none",
         RanToEnd', PassMeansKept'
  PROVE  HonestInv'
<1>1. ReadFresh'
  BY FreshStep DEF HonestInv
<1>2. exc' = "none" /\ mode' # "end" => Tally'
  BY TallyStep DEF HonestInv
<1> QED
  BY <1>1, <1>2 DEF HonestInv

\* What is not written is not lost.
LEMMA NothingLost ==
  ASSUME TypeOK, UNCHANGED <<value, lost>> PROVE Lose /\ value' \in {value, 0}
<1>1. value \in Nat /\ ~(value' < value)
  BY DEF TypeOK
<1>2. (lost \/ (value' < value /\ CheckDue)) <=> lost
  BY <1>1
<1>3. lost = (lost \/ (value' < value /\ CheckDue))
  BY <1>2, Zenon DEF TypeOK
<1> QED
  BY <1>3 DEF Lose

\* A step that succeeds keeps it: `read` and `add` take the new value.
LEMMA ProceedCounts ==
  ASSUME TypeOK, Tally, ReadFresh, Proceed PROVE Tally'
<1>0. /\ value \in Nat /\ expected \in Nat /\ lost \in BOOLEAN
      /\ script' = script /\ pos' = pos + 1 /\ InTry /\ Lose
  BY DEF TypeOK, Proceed
<1>1. CheckDue' => CheckDue
  BY <1>0, AheadKept, CheckAhead DEF CheckDue, Ahead
<1>2. CheckDue => CheckDue' \/ Now("check")
  <2> SUFFICES ASSUME NEW i \in DOMAIN Steps, i >= pos, Steps[i].do = "check",
                      i # pos
               PROVE  CheckDue'
    BY <1>0 DEF CheckDue, Now
  <2>1. i \in Nat /\ pos \in Nat
    BY StepsLen DEF TypeOK
  <2>2. i >= pos'
    BY <1>0, <2>1
  <2> QED
    BY <1>0, <2>2 DEF CheckDue, Steps
<1>3. CASE Now("add")
  <2>1. value' = value + 1 /\ value' = expected + 1 /\ expected' = value'
    BY <1>3 DEF Proceed, Effect, Look, Sees, Now, Commands
  <2>2. value = expected /\ ~(value' < value)
    BY <1>0, <2>1
  <2>3. lost' <=> lost
    BY <1>0, <2>2 DEF Lose
  <2>4. ~lost
    BY <1>0, <2>2 DEF Tally
  <2> QED
    BY <2>1, <2>3, <2>4 DEF Tally
<1>4. CASE Now("read")
  <2>1. UNCHANGED value /\ expected' = value
    BY <1>4 DEF Proceed, Effect, Look, containers, Now
  <2>2. ~lost
    <3>1. Ahead("read")
      BY <1>0, <1>4, StepsLen DEF Ahead, Now, InTry, TypeOK
    <3> QED
      BY <3>1 DEF ReadFresh
  <2>3. ~lost'
    BY <1>0, <2>1, <2>2 DEF Lose
  <2> QED
    BY <2>1, <2>3 DEF Tally
<1>5. CASE Now("check")
  <2>1. UNCHANGED <<value, expected>> /\ value = expected
    BY <1>5 DEF Proceed, Effect, Look, containers, Now, Sees, ValueKept
  <2>2. CheckDue
    BY <1>0, <1>5, StepsLen DEF CheckDue, Now, InTry, TypeOK
  <2>3. ~lost
    BY <1>0, <2>1, <2>2 DEF Tally
  <2>4. ~lost'
    BY <1>0, <2>1, <2>3 DEF Lose
  <2> QED
    BY <2>1, <2>4 DEF Tally
<1>6. CASE ~Now("add") /\ ~Now("read") /\ ~Now("check")
  <2>1. expected' = expected /\ value' \in {value, 0}
    BY <1>6, ValueMoves DEF Proceed
  <2>2. CheckDue' <=> CheckDue
    BY <1>1, <1>2, <1>6
  <2>3. CASE value' < value
    <3>1. CheckDue => value <= expected
      BY <1>0 DEF Tally
    <3>2. CheckDue => lost' /\ value' < expected
      BY <1>0, <2>1, <2>3, <3>1, LoseMeans
    <3>3. lost' => CheckDue
      BY <1>0 DEF Lose, Tally
    <3> QED
      BY <2>1, <2>2, <3>2, <3>3 DEF Tally
  <2>4. CASE ~(value' < value)
    <3>1. value' = value /\ (lost' <=> lost)
      BY <1>0, <2>1, <2>4 DEF Lose
    <3> QED
      BY <2>1, <2>2, <3>1 DEF Tally
  <2> QED
    BY <2>3, <2>4
<1> QED
  BY <1>3, <1>4, <1>5, <1>6

\* In the try block, whether the step passes or raises.
LEMMA TryFresh ==
  ASSUME TypeOK, ReadFresh, InTry, Effect \/ Look, Lose, script' = script,
         pos' \in {pos, pos + 1}
  PROVE  ReadFresh'
<1>1. CASE Now("add")
  <2>1. Steps \in Seq(AnyStep) /\ NeverBefore(Steps, Does("add"), Does("read"))
    BY ScriptsShape DEF TypeOK, Shape
  <2>2. Steps[pos] \in Does("add") /\ Steps[pos].do # "read"
    BY <1>1, <2>1, ElementOfSeq, StepsLen DEF Now, InTry, Does
  <2>3. ~Ahead("read")
    BY <2>1, <2>2, NotAhead
  <2>4. ~Ahead("read")'
    BY <2>3, AheadKept
  <2> QED
    BY <2>4 DEF ReadFresh
<1>2. CASE ~Now("add")
  BY <1>2, ValueMoves, FreshStep
<1> QED
  BY <1>1, <1>2

\* A step that succeeds passes over no loss.
LEMMA ProceedHonest ==
  ASSUME TypeOK, ControlInv, HonestInv, Proceed PROVE HonestInv'
<1>1. mode = "try" /\ exc = "none" /\ verdict = "none"
  BY DEF Proceed, InTry, ControlInv
<1>2. Tally'
  BY <1>1, ProceedCounts DEF HonestInv
<1>3. ReadFresh'
  BY TryFresh DEF Proceed, HonestInv
<1>4. mode' \in {"try", "unpause", "restore"} /\ verdict' = "none"
  BY <1>1, AfterModes DEF Proceed
<1> QED
  BY <1>2, <1>3, <1>4 DEF HonestInv, RanToEnd, PassMeansKept

\* One that raises has no pass to report.
LEMMA CutHonest ==
  ASSUME TypeOK, ControlInv, HonestInv,
         NEW e \in {"failed", "other", "terminated"}, Cut(e)
  PROVE  HonestInv'
<1>1. ReadFresh'
  BY TryFresh DEF Cut, HonestInv
<1>2. exc' # "none" /\ verdict' = "none"
  BY DEF Cut, Raises, InTry, ControlInv
<1> QED
  BY <1>1, <1>2 DEF HonestInv, RanToEnd, PassMeansKept

\* The verdict of the teardown passes over no loss.
LEMMA DownHonest ==
  ASSUME TypeOK, ControlInv, HonestInv, Down PROVE HonestInv'
<1>1. /\ mode = "down" /\ mode' = "end" /\ lost' = lost
      /\ verdict' \in {Verdict, "cut"} /\ UNCHANGED <<script, pos, expected>>
      /\ value' \in {value, 0}
  BY DEF Down, CutShort
<1>2. exc = "none" => ~lost
  <2> SUFFICES ASSUME exc = "none" PROVE ~lost
    OBVIOUS
  <2>1. pos \in 1..(Len(Steps) + 1) /\ pos \notin DOMAIN Steps
    BY <1>1 DEF TypeOK, HonestInv, RanToEnd
  <2>2. \A i \in DOMAIN Steps : ~(i >= pos)
    BY <2>1, StepsLen
  <2>3. ~CheckDue
    BY <2>2 DEF CheckDue
  <2> QED
    BY <1>1, <2>3 DEF HonestInv, Tally
<1>3. Verdict = "pass" => exc = "none"
  BY DEF Verdict
<1>4. PassMeansKept' /\ RanToEnd'
  BY <1>1, <1>2, <1>3 DEF PassMeansKept, RanToEnd
<1> QED
  BY <1>1, <1>4, HonestKept

\* Nor does any other finally clause.
LEMMA FinallyHonest ==
  ASSUME TypeOK, ControlInv, HonestInv, Finish \/ Unpause \/ Restore \/ Teardown
  PROVE  HonestInv'
<1>1. /\ mode # "end" /\ UNCHANGED <<script, pos, expected, value, lost>>
      /\ verdict' \in {verdict, "cut"}
  BY DEF Finish, Unpause, Restore, Teardown, CutShort, Unpauses, Look, platform,
         containers
<1>2. Lose /\ value' \in {value, 0}
  BY <1>1, NothingLost
<1>3. PassMeansKept'
  BY <1>1 DEF ControlInv, PassMeansKept
<1>4. RanToEnd' /\ (mode' # "end" /\ exc' = "none" => exc = "none")
  <2>1. CASE Finish
    BY <2>1 DEF Finish, RanToEnd, Steps
  <2>2. CASE Unpause \/ Restore
    BY <2>2 DEF Unpause, Restore, Resume, RanToEnd
  <2>3. CASE Teardown
    BY <2>3 DEF Teardown, CutShort, RanToEnd, HonestInv, Steps
  <2> QED
    BY <2>1, <2>2, <2>3
<1> QED
  BY <1>1, <1>2, <1>3, <1>4, HonestKept

\* Nor does a run that was signalled.
LEMMA TerminateHonest ==
  ASSUME TypeOK, ControlInv, HonestInv,
         TerminateFinally \/ TerminateHandler \/ TerminateTeardown \/ Swallow
  PROVE  HonestInv'
<1>1. /\ mode # "end" /\ UNCHANGED <<script, pos, expected, value, lost>>
      /\ verdict' \in {verdict, "cut"}
  BY DEF TerminateFinally, TerminateHandler, TerminateTeardown, Swallow,
         CutShort, Unpauses, Look, platform, containers, Now, InTry
<1>2. Lose /\ value' \in {value, 0}
  BY <1>1, NothingLost
<1>3. PassMeansKept'
  BY <1>1 DEF ControlInv, PassMeansKept
<1>4. exc' # "none" \/ (mode' = "try" /\ exc' = exc)
  BY DEF TerminateFinally, TerminateHandler, TerminateTeardown, Swallow,
         CutShort, Now, InTry
<1>5. RanToEnd'
  BY <1>4 DEF RanToEnd
<1> QED
  BY <1>1, <1>2, <1>3, <1>4, <1>5, HonestKept

\* What docker does by itself is in the tally, or is a loss.
LEMMA DockerHonest ==
  ASSUME TypeOK, ControlInv, HonestInv, NEW s \in Services,
         Crash(s) \/ Restart(s) \/ Revive(s)
  PROVE  HonestInv'
<1>1. mode # "end" /\ UNCHANGED control
  BY DEF Crash, Restart, Revive
<1>2. Lose /\ value' \in {value, 0}
  <2>1. CASE Crash(s)
    BY <2>1, NothingLost DEF Crash
  <2>2. CASE Restart(s) \/ Revive(s)
    BY <2>2 DEF Restart, Revive, Reopen
  <2> QED
    BY <2>1, <2>2
<1>3. RanToEnd' /\ PassMeansKept'
  BY <1>1 DEF control, ControlInv, HonestInv, RanToEnd, PassMeansKept, Steps
<1> QED
  BY <1>1, <1>2, <1>3, HonestKept DEF control

\* Every step of a script or of docker passes over no loss.
LEMMA HonestStep ==
  TypeOK /\ ControlInv /\ HonestInv /\ [Next]_vars => HonestInv'
<1> SUFFICES ASSUME TypeOK, ControlInv, HonestInv, [Next]_vars
             PROVE  HonestInv'
  OBVIOUS
<1>1. CASE Proceed
  BY <1>1, ProceedHonest
<1>2. CASE GiveUp \/ TerminateTry
  BY <1>2, CutHonest DEF GiveUp, TerminateTry
<1>3. CASE Finish \/ Unpause \/ Restore \/ Teardown
  BY <1>3, FinallyHonest
<1>4. CASE Down
  BY <1>4, DownHonest
<1>5. CASE TerminateFinally \/ TerminateHandler \/ TerminateTeardown \/ Swallow
  BY <1>5, TerminateHonest
<1>6. ASSUME NEW s \in Services, Crash(s) \/ Restart(s) \/ Revive(s)
      PROVE  HonestInv'
  BY <1>6, DockerHonest
<1>7. CASE UNCHANGED vars
  BY <1>7 DEF vars, control, platform, containers, HonestInv, ReadFresh, Tally,
              RanToEnd, PassMeansKept, CheckDue, Ahead, Steps
<1> QED
  BY <1>1, <1>2, <1>3, <1>4, <1>5, <1>6, <1>7 DEF Next, Progress

\* At the start of main nothing is lost.
LEMMA HonestInit == Init => HonestInv
<1> SUFFICES ASSUME Init PROVE HonestInv
  OBVIOUS
<1>1. value = 0 /\ expected = 0 /\ ~lost /\ mode = "try" /\ verdict = "none"
  BY DEF Init
<1> QED
  BY <1>1 DEF HonestInv, ReadFresh, Tally, RanToEnd, PassMeansKept

(* A script that passes looked at the counter after everything that could   *)
(* have lost it: at a volume that keeps nothing no script passes.           *)
THEOREM NoPassOverLoss == Spec => []PassMeansKept
<1>1. HonestInv => PassMeansKept
  BY DEF HonestInv
<1> QED
  BY <1>1, TypeInit, TypeStep, ControlInit, ControlStep, HonestInit, HonestStep,
     PTL DEF Spec
-----------------------------------------------------------------------------
(* The stopped container.                                                  *)

\* Nothing but state is stopped before the script watches it stay stopped.
OthersUp ==
  Ahead("settle") => \A s \in Services \ {"state"} : ~stopped[s]

\* From its count to the end of the window the RestartCount only grows.
Counting ==
  exc = "none" /\ pos \in DOMAIN Steps /\ Steps[pos].do \in {"halt", "settle"}
    => restarts["state"] >= count0

\* A revival the script watched shows in the RestartCount, in time.
Watched ==
  exc = "none" /\ mode # "end" /\ revived =>
    Now("settle") /\ restarts["state"] > count0

StayedInv ==
  /\ OthersUp
  /\ Counting
  /\ Watched
  /\ PassMeansStayedStopped

\* A container is stopped on purpose by the step that stops it.
LEMMA EffectStops ==
  ASSUME TypeOK, InTry, Effect \/ Look, NEW s \in Services, stopped'[s]
  PROVE  stopped[s] \/ ((Now("stop") \/ Now("halt")) /\ s = Target)
<1>0. stopped \in [Services -> BOOLEAN]
  BY DEF TypeOK
<1>1. CASE \E S : Bring(S)
  BY <1>1 DEF Bring
<1>2. CASE stopped' = stopped
  BY <1>2
<1>3. CASE /\ Now("stop") \/ Now("halt")
           /\ stopped' = [stopped EXCEPT ![Target] = TRUE]
  BY <1>0, <1>3
<1> QED
  BY <1>1, <1>2, <1>3 DEF Effect, Look, Started, containers

\* Until the window of the intentional stop only state was stopped.
LEMMA TryOthersUp ==
  ASSUME TypeOK, OthersUp, InTry, Effect \/ Look, script' = script,
         pos' \in {pos, pos + 1}
  PROVE  OthersUp'
<1> SUFFICES ASSUME Ahead("settle")', NEW s \in Services \ {"state"}, stopped'[s]
             PROVE  FALSE
  BY DEF OthersUp
<1>1. Ahead("settle")
  BY AheadKept
<1>2. (Now("stop") \/ Now("halt")) /\ s = Target
  BY <1>1, EffectStops DEF OthersUp
<1>3. Steps \in Seq(AnyStep) /\ NeverBefore(Steps, Foreign, Does("settle"))
  BY ScriptsShape DEF TypeOK, Shape
<1>4. Steps[pos] \in AnyStep
  BY <1>3, ElementOfSeq, StepsLen DEF InTry
<1>5. Steps[pos] \in Foreign /\ Steps[pos].do # "settle"
  BY <1>2, <1>4 DEF Foreign, Target, Now
<1> QED
  BY <1>1, <1>3, <1>5, NotAhead

\* A step of Docker, or of a finally clause.
LEMMA StayedKept ==
  ASSUME TypeOK, StayedInv, UNCHANGED <<script, pos, count0, revived>>,
         \A s \in Services \ {"state"} : stopped'[s] => stopped[s],
         restarts'["state"] >= restarts["state"],
         restarts'["state"] \in Nat,
         exc' = "none" /\ mode' # "end" => mode # "end",
         exc' = "none" => exc = "none",
         exc' = "none" /\ mode' # "end" /\ revived => mode' = mode,
         PassMeansStayedStopped'
  PROVE  StayedInv'
<1>0. restarts["state"] \in Nat /\ count0 \in Nat
  BY DEF TypeOK, Services
<1>1. OthersUp'
  BY DEF StayedInv, OthersUp, Ahead, Steps
<1>2. Counting'
  BY <1>0 DEF StayedInv, Counting, Steps
<1>3. Watched'
  BY <1>0 DEF StayedInv, Watched, Now, InTry, Steps
<1> QED
  BY <1>1, <1>2, <1>3 DEF StayedInv

\* A step that succeeds passes over no revived container.
LEMMA ProceedStayed ==
  ASSUME TypeOK, ControlInv, StayedInv, Proceed PROVE StayedInv'
<1>0. /\ mode = "try" /\ exc = "none" /\ verdict = "none" /\ InTry
      /\ script' = script /\ pos' = pos + 1 /\ Steps' = Steps
      /\ verdict' = verdict /\ revived' = revived
  BY DEF Proceed, InTry, ControlInv, Steps
<1>1. OthersUp'
  BY <1>0, TryOthersUp DEF Proceed, StayedInv
<1>2. ~revived
  <2> SUFFICES ASSUME revived PROVE FALSE
    OBVIOUS
  <2>1. Now("settle") /\ restarts["state"] > count0
    BY <1>0 DEF StayedInv, Watched
  <2>2. restarts["state"] = count0
    BY <2>1 DEF Proceed, Sees, Now, StayedStopped, Commands
  <2>3. restarts["state"] \in Nat /\ count0 \in Nat
    BY DEF TypeOK, Services
  <2> QED
    BY <2>1, <2>2, <2>3
<1>3. Counting'
  <2> SUFFICES ASSUME pos' \in DOMAIN Steps,
                      Steps[pos'].do \in {"halt", "settle"}
               PROVE  restarts'["state"] >= count0'
    BY <1>0 DEF Counting
  <2>1. /\ Steps \in Seq(AnyStep)
        /\ RightAfter(Steps, Does("count"), Does("halt"))
        /\ RightAfter(Steps, Does("halt"), Does("settle"))
    BY ScriptsShape DEF TypeOK, Shape
  <2>2. pos' \in 1..Len(Steps) /\ pos' - 1 = pos
    BY <1>0, StepsLen DEF TypeOK
  <2>3. Steps[pos'] \in Does("halt") \/ Steps[pos'] \in Does("settle")
    BY <2>1, <2>2, ElementOfSeq DEF Does
  <2>4. Steps[pos] \in Does("count") \/ Steps[pos] \in Does("halt")
    BY <2>1, <2>2, <2>3 DEF RightAfter
  <2>5. restarts["state"] \in Nat /\ count0 \in Nat
    BY DEF TypeOK, Services
  <2>6. CASE Steps[pos].do = "count"
    <3>1. restarts' = restarts /\ count0' = restarts["state"]
      BY <1>0, <2>6 DEF Proceed, Effect, Look, containers, Now
    <3> QED
      BY <2>5, <3>1
  <2>7. CASE Steps[pos].do = "halt"
    <3>1. restarts' = restarts /\ count0' = count0
      BY <1>0, <2>7 DEF Proceed, Effect, Look, containers, Now
    <3>2. restarts["state"] >= count0
      BY <1>0, <2>7 DEF StayedInv, Counting, InTry
    <3> QED
      BY <3>1, <3>2
  <2> QED
    BY <2>4, <2>6, <2>7 DEF Does
<1> QED
  BY <1>0, <1>1, <1>2, <1>3 DEF StayedInv, Watched, PassMeansStayedStopped

\* One that raises has no pass to report.
LEMMA CutStayed ==
  ASSUME TypeOK, ControlInv, StayedInv,
         NEW e \in {"failed", "other", "terminated"}, Cut(e)
  PROVE  StayedInv'
<1>1. OthersUp'
  BY TryOthersUp DEF Cut, StayedInv
<1>2. exc' # "none" /\ verdict' = "none"
  BY DEF Cut, Raises, InTry, ControlInv
<1> QED
  BY <1>1, <1>2 DEF StayedInv, Counting, Watched, PassMeansStayedStopped

\* Outside the try block, with nothing raised, there was no revival to see.
LEMMA FinallyStayed ==
  ASSUME TypeOK, ControlInv, StayedInv,
         Finish \/ Unpause \/ Restore \/ Teardown \/ Down
  PROVE  StayedInv'
<1>1. /\ mode # "end" /\ exc = "none" => ~revived
  <2>1. ~Now("settle") /\ mode # "end"
    BY DEF Finish, Unpause, Restore, Teardown, Down, Now, InTry
  <2> QED
    BY <2>1 DEF StayedInv, Watched
<1>2. UNCHANGED <<script, pos, count0, revived, stopped, restarts>>
  BY DEF Finish, Unpause, Restore, Teardown, Down, Unpauses, Look, platform,
         containers
<1>3. /\ mode # "end"
      /\ verdict' = "pass" => exc = "none"
      /\ exc' = "none" => exc = "none"
  <2>1. CASE Down
    BY <2>1 DEF Down, CutShort, Verdict
  <2>2. CASE Finish \/ Unpause \/ Restore \/ Teardown
    BY <2>2 DEF Finish, Unpause, Restore, Teardown, CutShort, Resume, ControlInv
  <2> QED
    BY <2>1, <2>2
<1>4. PassMeansStayedStopped'
  BY <1>1, <1>2, <1>3 DEF PassMeansStayedStopped
<1>5. restarts["state"] \in Nat
  BY DEF TypeOK, Services
<1>6. restarts'["state"] >= restarts["state"] /\ restarts'["state"] \in Nat
  BY <1>2, <1>5
<1> QED
  BY <1>1, <1>2, <1>3, <1>4, <1>6, StayedKept

\* Nor does a run that was signalled.
LEMMA TerminateStayed ==
  ASSUME TypeOK, ControlInv, StayedInv,
         TerminateFinally \/ TerminateHandler \/ TerminateTeardown \/ Swallow
  PROVE  StayedInv'
<1>1. UNCHANGED <<script, pos, count0, revived, stopped, restarts>>
  BY DEF TerminateFinally, TerminateHandler, TerminateTeardown, Swallow,
         CutShort, Unpauses, Look, platform, containers
<1>2. mode # "end" /\ verdict' \in {verdict, "cut"}
  BY DEF TerminateFinally, TerminateHandler, TerminateTeardown, Swallow,
         CutShort, Now, InTry
<1>3. exc' = "none" => mode' = mode /\ exc = "none"
  BY DEF TerminateFinally, TerminateHandler, TerminateTeardown, Swallow, CutShort
<1>4. PassMeansStayedStopped'
  BY <1>2 DEF ControlInv, PassMeansStayedStopped
<1>5. restarts["state"] \in Nat
  BY DEF TypeOK, Services
<1>6. restarts'["state"] >= restarts["state"] /\ restarts'["state"] \in Nat
  BY <1>1, <1>5
<1> QED
  BY <1>1, <1>2, <1>3, <1>4, <1>6, StayedKept

\* A crash, or a restart by policy, revives nothing that was stopped.
LEMMA CrashStayed ==
  ASSUME TypeOK, ControlInv, StayedInv, NEW s \in Services, Crash(s) \/ Restart(s)
  PROVE  StayedInv'
<1>1. /\ UNCHANGED control /\ UNCHANGED <<stopped, revived>> /\ mode # "end"
  BY DEF Crash, Restart
<1>2. /\ restarts \in [Services -> Nat] /\ "state" \in Services
  BY DEF TypeOK, Services
<1>3. restarts' = restarts \/ restarts' = [restarts EXCEPT ![s] = @ + 1]
  BY DEF Crash, Restart, Fails
<1>4. restarts'["state"] >= restarts["state"] /\ restarts'["state"] \in Nat
  BY <1>2, <1>3
<1>5. PassMeansStayedStopped'
  BY <1>1 DEF control, StayedInv, PassMeansStayedStopped
<1> QED
  BY <1>1, <1>4, <1>5, StayedKept DEF control

\* A revived container shows in the RestartCount.
LEMMA ReviveStayed ==
  ASSUME TypeOK, ControlInv, StayedInv, NEW s \in Services, Revive(s)
  PROVE  StayedInv'
<1>1. /\ UNCHANGED control /\ mode # "end" /\ Bring({s}) /\ stopped[s]
      /\ restarts' = [restarts EXCEPT ![s] = @ + 1]
      /\ revived' => revived \/ Now("settle")
  BY DEF Revive
<1>2. /\ restarts \in [Services -> Nat] /\ "state" \in Services /\ count0 \in Nat
  BY DEF TypeOK, Services
<1>3. restarts'["state"] >= restarts["state"] /\ restarts'["state"] \in Nat
  BY <1>1, <1>2
<1>4. OthersUp'
  BY <1>1 DEF StayedInv, OthersUp, Ahead, control, Steps, Bring
<1>5. Counting'
  BY <1>1, <1>2, <1>3 DEF StayedInv, Counting, control, Steps
<1>6. Watched'
  <2> SUFFICES ASSUME exc = "none", revived'
               PROVE  Now("settle") /\ restarts'["state"] > count0
    BY <1>1 DEF Watched, control, Now, InTry, Steps
  <2>1. CASE revived
    BY <1>1, <1>2, <1>3, <2>1 DEF StayedInv, Watched
  <2>2. CASE Now("settle")
    <3>1. pos \in DOMAIN Steps /\ Steps[pos].do = "settle"
      BY <2>2 DEF Now, InTry
    <3>2. Ahead("settle")
      BY <3>1, StepsLen DEF Ahead, TypeOK
    <3>3. s = "state"
      BY <1>1, <3>2 DEF StayedInv, OthersUp
    <3>4. restarts["state"] >= count0
      BY <3>1 DEF StayedInv, Counting
    <3>5. restarts'["state"] = restarts["state"] + 1
      BY <1>1, <1>2, <3>3
    <3>6. restarts["state"] \in Nat
      BY <1>2
    <3>7. restarts'["state"] > count0
      BY <1>2, <3>4, <3>5, <3>6
    <3> QED
      BY <2>2, <3>7
  <2> QED
    BY <1>1, <2>1, <2>2
<1>7. PassMeansStayedStopped'
  BY <1>1 DEF control, ControlInv, PassMeansStayedStopped
<1> QED
  BY <1>4, <1>5, <1>6, <1>7 DEF StayedInv

\* Every step of a script or of docker passes over no revived container.
LEMMA StayedStep ==
  TypeOK /\ ControlInv /\ StayedInv /\ [Next]_vars => StayedInv'
<1> SUFFICES ASSUME TypeOK, ControlInv, StayedInv, [Next]_vars
             PROVE  StayedInv'
  OBVIOUS
<1>1. CASE Proceed
  BY <1>1, ProceedStayed
<1>2. CASE GiveUp \/ TerminateTry
  BY <1>2, CutStayed DEF GiveUp, TerminateTry
<1>3. CASE Finish \/ Unpause \/ Restore \/ Teardown \/ Down
  BY <1>3, FinallyStayed
<1>4. CASE TerminateFinally \/ TerminateHandler \/ TerminateTeardown \/ Swallow
  BY <1>4, TerminateStayed
<1>5. ASSUME NEW s \in Services, Crash(s) \/ Restart(s) \/ Revive(s)
      PROVE  StayedInv'
  BY <1>5, CrashStayed, ReviveStayed
<1>6. CASE UNCHANGED vars
  BY <1>6 DEF vars, control, platform, containers, StayedInv, OthersUp, Counting,
              Watched, PassMeansStayedStopped, Ahead, Now, InTry, Steps
<1> QED
  BY <1>1, <1>2, <1>3, <1>4, <1>5, <1>6 DEF Next, Progress

\* At the start of main nothing was stopped or revived.
LEMMA StayedInit == Init => StayedInv
<1> SUFFICES ASSUME Init PROVE StayedInv
  OBVIOUS
<1>1. /\ \A s \in Services : ~stopped[s]
      /\ restarts["state"] = 0 /\ count0 = 0 /\ ~revived /\ verdict = "none"
  BY DEF Init, Services
<1> QED
  BY <1>1 DEF StayedInv, OthersUp, Counting, Watched, PassMeansStayedStopped

(* The reliability check does not pass over a stopped container that was    *)
(* restarted while it watched: the RestartCount tells, between samples too. *)
THEOREM NoPassOverRevival == Spec => []PassMeansStayedStopped
<1>1. StayedInv => PassMeansStayedStopped
  BY DEF StayedInv
<1> QED
  BY <1>1, TypeInit, TypeStep, ControlInit, ControlStep, StayedInit, StayedStep,
     PTL DEF Spec
=============================================================================
