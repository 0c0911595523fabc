-------------------------- MODULE SupplyChainProofs --------------------------
(***************************************************************************)
(* Two things, for any pins and disclosures, any number of makes, images   *)
(* and events: that compare_debian_versions orders any two versions as     *)
(* Debian Policy does, and what a green release-check says.                *)
(*                                                                         *)
(* The comparison is a recursive function.  That it is defined, and what   *)
(* it computes, follows from two lemmas about recursions that descend      *)
(* (Recursion and Descent): induction over sets of numbers, which needs no *)
(* operator for a parameter.                                               *)
(***************************************************************************)
EXTENDS SupplyChain, SequenceTheorems, WellFoundedInduction, TLAPS

(***************************************************************************)
(* Induction over sets of numbers, and the recursive functions.            *)
(***************************************************************************)

(* A set of natural numbers with 0 and every successor is all of them.     *)
LEMMA NatSets ==
  ASSUME NEW T \in SUBSET Nat, 0 \in T, \A n \in T : n + 1 \in T
  PROVE  T = Nat
<1> SUFFICES ASSUME T # Nat PROVE FALSE
  OBVIOUS
<1> DEFINE R == {p \in Nat \X Nat : p[1] < p[2]}
<1> DEFINE U == Nat \ T
<1>1. U \subseteq Nat /\ U # {}
  OBVIOUS
<1>2. IsWellFoundedOn(R, Nat)
  BY NatLessThanWellFounded DEF OpToRel
<1>3. PICK x \in U : \A y \in U : ~(<<y, x>> \in R)
  <2> HIDE DEF U, R
  <2> QED
    BY <1>1, <1>2, WFMin
<1>4. \A y \in U : ~(y < x)
  BY <1>3
<1>5. x - 1 \in T
  BY <1>4
<1>6. (x - 1) + 1 \in T
  BY <1>5
<1> QED
  BY <1>6

\* What a recursive function g is at p: a value, or a step from what it is next.
Step(g, stop, value, step, next, p) ==
  IF p \in stop THEN value[p] ELSE step[p][g[next[p]]]

Solves(g, P, stop, value, step, next) ==
  \A p \in P : g[p] = Step(g, stop, value, step, next, p)

\* It is defined: from any point in P the next ones lead to where it stops.
Descends(P, N, measure, stop, next) ==
  /\ N \in Nat /\ measure \in [P -> 0..N]
  /\ stop \subseteq P /\ next \in [P -> P]
  /\ \A p \in P \ stop : measure[next[p]] < measure[p]

(* Such a recursion is solved by a function.                               *)
LEMMA Recursion ==
  ASSUME NEW P, NEW S, NEW N, NEW measure, NEW stop, NEW next,
         Descends(P, N, measure, stop, next),
         NEW value \in [P -> S], NEW step \in [P -> [S -> S]]
  PROVE  \E g \in [P -> S] : Solves(g, P, stop, value, step, next)
<1> USE DEF Descends, Solves
<1> DEFINE Upto(g, k) ==
      \A p \in P : measure[p] < k => g[p] = Step(g, stop, value, step, next, p)
<1> DEFINE T == {k \in Nat : \E g \in [P -> S] : Upto(g, k)}
<1>1. 0 \in T
  BY value \in [P -> S]
<1>2. ASSUME NEW k \in T PROVE k + 1 \in T
  <2>1. PICK g \in [P -> S] : Upto(g, k)
    OBVIOUS
  <2> DEFINE h == [p \in P |-> Step(g, stop, value, step, next, p)]
  <2>2. h \in [P -> S]
    BY DEF Step
  <2>3. ASSUME NEW p \in P, measure[p] < k + 1
        PROVE  h[p] = Step(h, stop, value, step, next, p)
    <3>1. CASE p \in stop
      BY <3>1 DEF Step
    <3>2. CASE p \notin stop
      <4>1. next[p] \in P /\ measure[next[p]] < k
        BY <2>3, <3>2
      <4>2. g[next[p]] = h[next[p]]
        BY <2>1, <4>1
      <4> QED
        BY <3>2, <4>2 DEF Step
    <3> QED
      BY <3>1, <3>2
  <2>4. Upto(h, k + 1)
    BY <2>3
  <2>5. k + 1 \in Nat
    OBVIOUS
  <2> HIDE DEF h, Upto
  <2> QED
    BY <2>2, <2>4, <2>5
<1>3. N + 1 \in T
  <2>1. T \subseteq Nat
    OBVIOUS
  <2> HIDE DEF T
  <2>2. T = Nat
    BY <1>1, <1>2, <2>1, NatSets
  <2> QED
    BY <2>2
<1>4. PICK g \in [P -> S] : Upto(g, N + 1)
  BY <1>3
<1>5. \A p \in P : measure[p] < N + 1
  OBVIOUS
<1> QED
  BY <1>4, <1>5

\* A property holds where the recursion stops, and at p if it holds at next[p].
HandsOn(good, P, stop, next) ==
  /\ stop \subseteq good
  /\ \A p \in P \ stop : next[p] \in good => p \in good

(* What holds where a recursion stops and is handed on against its steps   *)
(* holds everywhere.                                                       *)
LEMMA Descent ==
  ASSUME NEW P, NEW N, NEW measure, NEW stop, NEW next,
         Descends(P, N, measure, stop, next),
         NEW good \in SUBSET P, HandsOn(good, P, stop, next)
  PROVE  good = P
<1> USE DEF Descends, HandsOn
<1> DEFINE T == {k \in Nat : \A p \in P : measure[p] < k => p \in good}
<1>1. 0 \in T
  OBVIOUS
<1>2. ASSUME NEW k \in T PROVE k + 1 \in T
  <2>1. ASSUME NEW p \in P, measure[p] < k + 1, p \notin stop PROVE p \in good
    <3>1. measure[next[p]] < k /\ next[p] \in P
      BY <2>1
    <3> QED
      BY <2>1, <3>1
  <2> QED
    BY <2>1
<1>3. N + 1 \in T
  <2>1. T \subseteq Nat
    OBVIOUS
  <2> HIDE DEF T
  <2>2. T = Nat
    BY <1>1, <1>2, <2>1, NatSets
  <2> QED
    BY <2>2
<1>4. \A p \in P : measure[p] < N + 1
  OBVIOUS
<1> QED
  BY <1>3, <1>4
-----------------------------------------------------------------------------
(* Numbers in a version.                                                   *)

(* Characters are their codes, and none is the end of a string.            *)
LEMMA CharactersAre == \A c \in Characters : c \in Nat /\ c # Nothing /\ c < 128
  BY DEF Characters, Nothing

(* What is found at the positions of a string and behind them.             *)
LEMMA SeqAt ==
  ASSUME NEW s \in Seq(Characters), NEW i \in 1..(Len(s) + 1)
  PROVE  /\ Len(s) \in Nat /\ i \in Nat
         /\ i <= Len(s) => At(s, i) = s[i] /\ s[i] \in Characters
         /\ i > Len(s) => At(s, i) = Nothing /\ i = Len(s) + 1
         /\ At(s, i) \in Characters \cup {Nothing}
  BY DEF At

(* A run of digits ends, behind its first digit if there is one.           *)
LEMMA RunEnds ==
  ASSUME NEW s \in Seq(Characters), NEW i \in 1..(Len(s) + 1)
  PROVE  /\ RunEnd(s, i) \in i..(Len(s) + 1)
         /\ \A m \in i..(RunEnd(s, i) - 1) : m <= Len(s) /\ s[m] \in Digits
         /\ At(s, i) \in Digits => RunEnd(s, i) > i
         /\ At(s, i) \notin Digits => RunEnd(s, i) = i
<1> DEFINE Ends(k) == /\ At(s, k) \notin Digits
                      /\ \A m \in i..(k - 1) : At(s, m) \in Digits
<1>1. \E k \in i..(Len(s) + 1) : Ends(k)
  <2> SUFFICES ASSUME \A k \in i..(Len(s) + 1) : ~Ends(k) PROVE FALSE
    OBVIOUS
  <2> DEFINE T == {n \in Nat : \A m \in i..(i + n) : m <= Len(s) + 1 => At(s, m) \in Digits}
  <2>1. 0 \in T
    <3>1. ~Ends(i)
      BY SeqAt
    <3>2. \A m \in i..(i - 1) : FALSE
      BY SeqAt
    <3> QED
      BY <3>1, <3>2, SeqAt
  <2>2. ASSUME NEW n \in T PROVE n + 1 \in T
    <3>1. i + (n + 1) <= Len(s) + 1 => ~Ends(i + (n + 1))
      BY SeqAt
    <3>2. \A m \in i..(i + (n + 1) - 1) : m <= Len(s) + 1 => At(s, m) \in Digits
      BY SeqAt
    <3>3. i + (n + 1) <= Len(s) + 1 => At(s, i + (n + 1)) \in Digits
      BY <3>1, <3>2, SeqAt
    <3> QED
      BY <3>2, <3>3, SeqAt
  <2>3. T = Nat
    <3>1. T \subseteq Nat
      OBVIOUS
    <3> HIDE DEF T
    <3> QED
      BY <2>1, <2>2, <3>1, NatSets
  <2>4. At(s, Len(s) + 1) \in Digits
    BY <2>3, SeqAt
  <2> QED
    BY <2>4, SeqAt DEF At, Nothing, Digits
<1>2. RunEnd(s, i) = CHOOSE k \in i..(Len(s) + 1) : Ends(k)
  BY DEF RunEnd
<1>3. RunEnd(s, i) \in i..(Len(s) + 1) /\ Ends(RunEnd(s, i))
  <2> HIDE DEF Ends
  <2> QED
    BY <1>1, <1>2
<1>4. ASSUME NEW m \in i..(RunEnd(s, i) - 1) PROVE m <= Len(s) /\ s[m] \in Digits
  <2>1. m \in Nat /\ m <= Len(s)
    BY <1>3, SeqAt
  <2> QED
    BY <1>3, <2>1 DEF At
<1>5. At(s, i) \in Digits => RunEnd(s, i) > i
  BY <1>3, SeqAt
<1>6. At(s, i) \notin Digits => RunEnd(s, i) = i
  BY <1>3, SeqAt
<1> QED
  BY <1>3, <1>4, <1>5, <1>6

(* A run of digits is a number, and 0 if there is none.                    *)
LEMMA NumberIsNat ==
  ASSUME NEW s \in Seq(Characters), NEW i \in 1..(Len(s) + 1)
  PROVE  /\ Number(s, i) \in Nat
         /\ At(s, i) \notin Digits => Number(s, i) = 0
<1> DEFINE P == (i - 1)..(RunEnd(s, i) - 1)
<1> DEFINE N == Len(s) + 1
<1> DEFINE first == {i - 1}
<1> DEFINE body(v, k) == IF k = i - 1 THEN 0 ELSE 10 * v[k - 1] + (s[k] - Zero)
<1> DEFINE measure == [k \in P |-> k]
<1> DEFINE value == [k \in P |-> 0]
<1> DEFINE digit == [k \in P |-> IF k = i - 1 THEN 0 ELSE s[k] - Zero]
<1> DEFINE step == [k \in P |-> [n \in Nat |-> 10 * n + digit[k]]]
<1> DEFINE next == [k \in P |-> IF k = i - 1 THEN k ELSE k - 1]
<1>1. /\ i \in Nat /\ Len(s) \in Nat /\ RunEnd(s, i) \in Nat /\ i >= 1
      /\ i <= RunEnd(s, i)
  BY SeqAt, RunEnds
<1>2. digit \in [P -> Nat]
  <2>1. ASSUME NEW k \in P, k # i - 1 PROVE s[k] - Zero \in Nat
    <3>1. k \in i..(RunEnd(s, i) - 1)
      BY <1>1, <2>1
    <3>2. s[k] \in Digits
      BY <3>1, RunEnds
    <3>3. \A d \in Digits : d - Zero \in Nat
      BY DEF Digits, Zero
    <3> QED
      BY <3>2, <3>3
  <2> QED
    BY <2>1
<1>3. Descends(P, N, measure, first, next)
  <2>1. measure \in [P -> 0..N] /\ N \in Nat
    BY <1>1, RunEnds
  <2>2. first \subseteq P /\ next \in [P -> P]
    BY <1>1
  <2>3. \A k \in P \ first : measure[next[k]] < measure[k]
    BY <1>1
  <2> QED
    BY <2>1, <2>2, <2>3 DEF Descends
<1>4. PICK g \in [P -> Nat] : Solves(g, P, first, value, step, next)
  <2>1. value \in [P -> Nat]
    OBVIOUS
  <2>2. step \in [P -> [Nat -> Nat]]
    <3> HIDE DEF digit
    <3> QED
      BY <1>2
  <2> HIDE DEF P, N, first, body, digit, measure, value, step, next
  <2> QED
    BY <1>3, <2>1, <2>2, Recursion
<1>5. ASSUME NEW k \in P PROVE g[k] = body(g, k)
  <2>1. CASE k = i - 1
    BY <1>4, <2>1 DEF Solves, Step
  <2>2. CASE k # i - 1
    <3>1. k - 1 \in P
      BY <1>1, <2>2
    <3> QED
      BY <1>4, <2>2, <3>1 DEF Solves, Step
  <2> QED
    BY <2>1, <2>2
<1>6. g = [k \in P |-> body(g, k)]
  BY <1>4, <1>5
<1>7. Values(s, i) = CHOOSE v : v = [k \in P |-> body(v, k)]
  BY DEF Values
<1>8. Values(s, i) = [k \in P |-> body(Values(s, i), k)]
  <2> HIDE DEF P, body
  <2> QED
    BY <1>6, <1>7
<1>9. \A k \in P : Values(s, i)[k] = g[k]
  <2> DEFINE good == {k \in P : Values(s, i)[k] = g[k]}
  <2>1. first \subseteq good
    BY <1>1, <1>5, <1>8
  <2>2. ASSUME NEW k \in P \ first, next[k] \in good PROVE k \in good
    <3>1. k - 1 \in P /\ Values(s, i)[k - 1] = g[k - 1]
      BY <1>1, <2>2
    <3> QED
      BY <1>5, <1>8, <2>2, <3>1
  <2>3. good \in SUBSET P /\ HandsOn(good, P, first, next)
    BY <2>1, <2>2 DEF HandsOn
  <2>4. good = P
    <3> HIDE DEF P, N, first, body, digit, measure, value, step, next, good
    <3> QED
      BY <1>3, <2>3, Descent
  <2> QED
    BY <2>4
<1>10. RunEnd(s, i) - 1 \in P
  BY <1>1
<1>11. Number(s, i) = g[RunEnd(s, i) - 1]
  BY <1>9, <1>10 DEF Number
<1>12. ASSUME At(s, i) \notin Digits PROVE Number(s, i) = 0
  <2>1. RunEnd(s, i) - 1 = i - 1
    BY <1>12, RunEnds
  <2> QED
    BY <1>5, <1>10, <1>11, <2>1
<1> QED
  BY <1>10, <1>11, <1>12
-----------------------------------------------------------------------------
(* The ranks of Debian Policy.                                             *)

\* The token of s at position i, and where the next one begins.
Token(s, i) ==
  IF At(s, i) \in Digits \cup {Nothing} THEN <<0, Number(s, i)>>
  ELSE <<Class(At(s, i)), At(s, i)>>

TokenEnd(s, i) == IF At(s, i) \in Digits THEN RunEnd(s, i) ELSE i + 1

(* A token is two numbers, and the next one begins behind it.              *)
LEMMA TokenType ==
  ASSUME NEW s \in Seq(Characters), NEW i \in 1..(Len(s) + 1)
  PROVE  /\ Token(s, i) \in Seq(Int) /\ Len(Token(s, i)) = 2
         /\ Token(s, i)[1] \in Int /\ Token(s, i)[2] \in Int
         /\ i <= Len(s) => TokenEnd(s, i) \in (i + 1)..(Len(s) + 1)
<1>1. Number(s, i) \in Int /\ At(s, i) \in Int /\ Class(At(s, i)) \in Int
  <2>1. Number(s, i) \in Nat /\ At(s, i) \in Characters \cup {Nothing}
    BY NumberIsNat, SeqAt
  <2>2. At(s, i) \in Int
    BY <2>1, CharactersAre DEF Nothing
  <2> QED
    BY <2>1, <2>2 DEF Class
<1>2. /\ Token(s, i) \in Seq(Int) /\ Len(Token(s, i)) = 2
      /\ Token(s, i)[1] \in Int /\ Token(s, i)[2] \in Int
  <2>1. \A x, y \in Int : /\ <<x, y>> \in Seq(Int) /\ Len(<<x, y>>) = 2
                          /\ <<x, y>>[1] \in Int /\ <<x, y>>[2] \in Int
    OBVIOUS
  <2>2. Token(s, i) = <<0, Number(s, i)>> \/ Token(s, i) = <<Class(At(s, i)), At(s, i)>>
    BY DEF Token
  <2>3. 0 \in Int
    OBVIOUS
  <2> QED
    BY <1>1, <2>1, <2>2, <2>3
<1>3. ASSUME i <= Len(s) PROVE TokenEnd(s, i) \in (i + 1)..(Len(s) + 1)
  BY <1>3, SeqAt, RunEnds DEF TokenEnd
<1> QED
  BY <1>2, <1>3

(* The ranks of a string are its tokens, one after the other.              *)
LEMMA RanksUnfold ==
  ASSUME NEW s \in Seq(Characters)
  PROVE  /\ RanksFrom(s) \in [1..(Len(s) + 1) -> Seq(Int)]
         /\ RanksFrom(s)[Len(s) + 1] = <<>>
         /\ \A i \in 1..Len(s) :
              RanksFrom(s)[i] = Token(s, i) \o RanksFrom(s)[TokenEnd(s, i)]
<1> DEFINE P == 1..(Len(s) + 1)
<1> DEFINE N == Len(s) + 1
<1> DEFINE body(f, i) ==
      IF i > Len(s) THEN <<>>
      ELSE IF s[i] \in Digits THEN <<0, Number(s, i)>> \o f[RunEnd(s, i)]
      ELSE <<Class(s[i]), s[i]>> \o f[i + 1]
<1> DEFINE measure == [i \in P |-> N - i]
<1> DEFINE end == {N}
<1> DEFINE value == [i \in P |-> <<>>]
<1> DEFINE step == [i \in P |-> [t \in Seq(Int) |-> Token(s, i) \o t]]
<1> DEFINE next == [i \in P |-> IF i > Len(s) THEN i ELSE TokenEnd(s, i)]
<1>1. Len(s) \in Nat
  OBVIOUS
<1>2. \A i \in P \ end : i \in 1..Len(s) /\ TokenEnd(s, i) \in (i + 1)..(Len(s) + 1)
  BY <1>1, TokenType
<1>3. Descends(P, N, measure, end, next)
  <2>1. measure \in [P -> 0..N] /\ N \in Nat /\ end \subseteq P
    BY <1>1
  <2>2. next \in [P -> P]
    BY <1>1, <1>2
  <2>3. \A i \in P \ end : measure[next[i]] < measure[i]
    BY <1>1, <1>2
  <2> QED
    BY <2>1, <2>2, <2>3 DEF Descends
<1>4. PICK g \in [P -> Seq(Int)] : Solves(g, P, end, value, step, next)
  <2>1. value \in [P -> Seq(Int)]
    OBVIOUS
  <2>2. step \in [P -> [Seq(Int) -> Seq(Int)]]
    BY TokenType
  <2> HIDE DEF P, N, body, measure, end, value, step, next
  <2> QED
    BY <1>3, <2>1, <2>2, Recursion
<1>5. ASSUME NEW i \in P \ end, NEW f
      PROVE  body(f, i) = Token(s, i) \o f[TokenEnd(s, i)]
  <2>1. i \in 1..Len(s) /\ At(s, i) = s[i] /\ s[i] \in Characters
    BY <1>2, <1>5, SeqAt
  <2>2. s[i] # Nothing
    BY <2>1, CharactersAre
  <2> QED
    BY <2>1, <2>2 DEF Token, TokenEnd
<1>6. \A f : body(f, N) = <<>>
  BY <1>1
<1>7. ASSUME NEW i \in P PROVE g[i] = body(g, i)
  <2>1. CASE i \in end
    BY <1>4, <1>6, <2>1 DEF Solves, Step
  <2>2. CASE i \notin end
    <3>1. g[TokenEnd(s, i)] \in Seq(Int)
      BY <1>2, <2>2
    <3>2. next[i] = TokenEnd(s, i) /\ step[i] = [t \in Seq(Int) |-> Token(s, i) \o t]
      BY <1>2, <2>2
    <3>3. g[i] = step[i][g[next[i]]]
      <4> HIDE DEF P, end, value, step, next
      <4> QED
        BY <1>4, <2>2 DEF Solves, Step
    <3>4. g[i] = Token(s, i) \o g[TokenEnd(s, i)]
      <4> HIDE DEF P, end, value, step, next
      <4> QED
        BY <3>1, <3>2, <3>3
    <3> QED
      BY <1>5, <2>2, <3>4
  <2> QED
    BY <2>1, <2>2
<1>8. RanksFrom(s) = [i \in P |-> body(RanksFrom(s), i)]
  <2>1. g = [i \in P |-> body(g, i)]
    BY <1>4, <1>7
  <2>2. RanksFrom(s) = CHOOSE f : f = [i \in P |-> body(f, i)]
    BY DEF RanksFrom
  <2> HIDE DEF P, body
  <2> QED
    BY <2>1, <2>2
<1>9. \A i \in P \ end : RanksFrom(s)[i] = Token(s, i) \o RanksFrom(s)[TokenEnd(s, i)]
  BY <1>5, <1>8
<1>10. RanksFrom(s)[N] = <<>>
  BY <1>1, <1>6, <1>8
<1>11. RanksFrom(s) \in [P -> Seq(Int)]
  <2> DEFINE good == {i \in P : RanksFrom(s)[i] \in Seq(Int)}
  <2>1. end \subseteq good
    <3>1. <<>> \in Seq(Int)
      OBVIOUS
    <3>2. N \in P
      BY <1>1
    <3>3. RanksFrom(s)[N] \in Seq(Int)
      <4> HIDE DEF N
      <4> QED
        BY <1>10, <3>1
    <3> QED
      BY <3>2, <3>3
  <2>2. ASSUME NEW i \in P \ end, next[i] \in good PROVE i \in good
    <3>1. RanksFrom(s)[TokenEnd(s, i)] \in Seq(Int)
      BY <1>2, <2>2
    <3>2. Token(s, i) \in Seq(Int)
      BY TokenType
    <3>3. Token(s, i) \o RanksFrom(s)[TokenEnd(s, i)] \in Seq(Int)
      BY <3>1, <3>2
    <3> QED
      BY <1>9, <3>3
  <2>3. good \in SUBSET P /\ HandsOn(good, P, end, next)
    BY <2>1, <2>2 DEF HandsOn
  <2>4. good = P
    <3> HIDE DEF P, N, body, measure, end, value, step, next, good
    <3> QED
      BY <1>3, <2>3, Descent
  <2>5. \A i \in P : RanksFrom(s)[i] \in Seq(Int)
    BY <2>4
  <2> QED
    BY <1>8, <2>5
<1> QED
  BY <1>1, <1>9, <1>10, <1>11

(* Ranks are numbers, and zeros behind the last one.                       *)
LEMMA PlaceInt == ASSUME NEW r \in Seq(Int), NEW i \in Nat \ {0} PROVE Place(r, i) \in Int
  BY DEF Place

(* Two ranks in front of others move them by two places.                   *)
LEMMA PlaceBehind ==
  ASSUME NEW t \in Seq(Int), Len(t) = 2, NEW r \in Seq(Int)
  PROVE  /\ Place(t \o r, 1) = t[1] /\ Place(t \o r, 2) = t[2]
         /\ \A k \in Nat \ {0} : Place(t \o r, k + 2) = Place(r, k)
<1> DEFINE tr == t \o r
<1>1. /\ Len(tr) = 2 + Len(r) /\ Len(r) \in Nat
      /\ \A i \in 1..(2 + Len(r)) : tr[i] = IF i <= 2 THEN t[i] ELSE r[i - 2]
  <2>1. /\ Len(t \o r) = Len(t) + Len(r)
        /\ \A i \in 1..(Len(t) + Len(r)) :
             (t \o r)[i] = IF i <= Len(t) THEN t[i] ELSE r[i - Len(t)]
    BY ConcatProperties, Zenon
  <2>2. Len(r) \in Nat
    OBVIOUS
  <2> HIDE DEF tr
  <2> QED
    BY <2>1, <2>2 DEF tr
<1> HIDE DEF tr
<1>2. Place(tr, 1) = t[1] /\ Place(tr, 2) = t[2]
  BY <1>1 DEF Place
<1>3. ASSUME NEW k \in Nat \ {0} PROVE Place(tr, k + 2) = Place(r, k)
  <2>1. CASE k <= Len(r)
    <3>1. k + 2 \in 1..(2 + Len(r)) /\ ~(k + 2 <= 2) /\ (k + 2) - 2 = k
      BY <1>1, <2>1
    <3> QED
      BY <1>1, <2>1, <3>1 DEF Place
  <2>2. CASE ~(k <= Len(r))
    BY <1>1, <2>2 DEF Place
  <2> QED
    BY <2>1, <2>2
<1> QED
  BY <1>2, <1>3 DEF tr

(* The first difference lies within the longer of the two.                 *)
LEMMA PrecedesSomewhere ==
  ASSUME NEW r \in Seq(Int), NEW q \in Seq(Int)
  PROVE  Precedes(r, q) <=> \E i \in Nat \ {0} :
           /\ Place(r, i) < Place(q, i)
           /\ \A k \in 1..(i - 1) : Place(r, k) = Place(q, k)
<1>1. Len(r) \in Nat /\ Len(q) \in Nat
  OBVIOUS
<1>2. ASSUME NEW i \in Nat \ {0}, Place(r, i) < Place(q, i)
      PROVE  i \in 1..(Len(r) + Len(q))
  <2>1. CASE i > Len(r) + Len(q)
    <3>1. Place(r, i) = 0 /\ Place(q, i) = 0
      BY <1>1, <2>1 DEF Place
    <3> QED
      BY <1>2, <3>1
  <2> QED
    BY <1>1, <2>1
<1> QED
  BY <1>1, <1>2 DEF Precedes

GoesOn(r, rr) == \A k \in Nat \ {0} : Place(r, k + 2) = Place(rr, k)

(* The first token decides, and if it does not then what follows.          *)
LEMMA PrecedesBehind ==
  ASSUME NEW r \in Seq(Int), NEW q \in Seq(Int), NEW rr \in Seq(Int), NEW qq \in Seq(Int),
         GoesOn(r, rr), GoesOn(q, qq)
  PROVE  Precedes(r, q) <=>
           \/ Place(r, 1) < Place(q, 1)
           \/ Place(r, 1) = Place(q, 1) /\ Place(r, 2) < Place(q, 2)
           \/ Place(r, 1) = Place(q, 1) /\ Place(r, 2) = Place(q, 2) /\ Precedes(rr, qq)
<1> USE DEF GoesOn
<1> DEFINE Differ(x, y, i) == /\ Place(x, i) < Place(y, i)
                              /\ \A k \in 1..(i - 1) : Place(x, k) = Place(y, k)
<1>1. /\ Precedes(r, q) <=> \E i \in Nat \ {0} : Differ(r, q, i)
      /\ Precedes(rr, qq) <=> \E i \in Nat \ {0} : Differ(rr, qq, i)
  BY PrecedesSomewhere
<1>2. Differ(r, q, 1) <=> Place(r, 1) < Place(q, 1)
  OBVIOUS
<1>3. Differ(r, q, 2) <=> Place(r, 1) = Place(q, 1) /\ Place(r, 2) < Place(q, 2)
  OBVIOUS
<1>4. ASSUME NEW i \in Nat \ {0}
      PROVE  Differ(r, q, i + 2) <=>
               Place(r, 1) = Place(q, 1) /\ Place(r, 2) = Place(q, 2) /\ Differ(rr, qq, i)
  <2>1. ASSUME Differ(r, q, i + 2)
        PROVE  Place(r, 1) = Place(q, 1) /\ Place(r, 2) = Place(q, 2) /\ Differ(rr, qq, i)
    <3>1. \A k \in 1..(i + 1) : Place(r, k) = Place(q, k)
      BY <2>1
    <3>2. \A k \in 1..(i - 1) : Place(r, k + 2) = Place(q, k + 2)
      BY <3>1
    <3>3. ASSUME NEW k \in 1..(i - 1) PROVE Place(rr, k) = Place(qq, k)
      <4>1. Place(r, k + 2) = Place(q, k + 2)
        BY <3>2
      <4> QED
        BY <4>1
    <3>4. Place(rr, i) < Place(qq, i)
      BY <2>1
    <3>5. Place(r, 1) = Place(q, 1) /\ Place(r, 2) = Place(q, 2)
      BY <3>1
    <3> QED
      BY <3>3, <3>4, <3>5
  <2>2. ASSUME Place(r, 1) = Place(q, 1), Place(r, 2) = Place(q, 2), Differ(rr, qq, i)
        PROVE  Differ(r, q, i + 2)
    <3>1. ASSUME NEW k \in 1..(i + 1) PROVE Place(r, k) = Place(q, k)
      <4>1. CASE k \in {1, 2}
        BY <2>2, <4>1
      <4>2. CASE k \notin {1, 2}
        <5>1. k - 2 \in Nat \ {0} /\ k - 2 \in 1..(i - 1) /\ k = (k - 2) + 2
          BY <4>2
        <5>2. Place(r, (k - 2) + 2) = Place(rr, k - 2) /\ Place(q, (k - 2) + 2) = Place(qq, k - 2)
          BY <5>1
        <5> QED
          BY <2>2, <5>1, <5>2
      <4> QED
        BY <4>1, <4>2
    <3> QED
      BY <2>2, <3>1
  <2> QED
    BY <2>1, <2>2
<1>5. \A i \in Nat \ {0} : i = 1 \/ i = 2 \/ \E k \in Nat \ {0} : i = k + 2
  <2> SUFFICES ASSUME NEW i \in Nat \ {0}, i # 1, i # 2 PROVE i - 2 \in Nat \ {0} /\ i = (i - 2) + 2
    OBVIOUS
  <2> QED
    OBVIOUS
<1>6. \A k \in Nat \ {0} : k + 2 \in Nat \ {0}
  OBVIOUS
<1> HIDE DEF Differ
<1>7. 1 \in Nat \ {0} /\ 2 \in Nat \ {0}
  OBVIOUS
<1>8. (\E i \in Nat \ {0} : Differ(r, q, i)) <=>
        Differ(r, q, 1) \/ Differ(r, q, 2) \/ \E k \in Nat \ {0} : Differ(r, q, k + 2)
  BY <1>5, <1>6, <1>7
<1> QED
  BY <1>1, <1>2, <1>3, <1>4, <1>8

After(s, i) == IF i <= Len(s) THEN TokenEnd(s, i) ELSE i

TokenLess(t, u) == t[1] < u[1] \/ (t[1] = u[1] /\ t[2] < u[2])

(* Behind the last character the ranks go on with zeros, like the tokens.  *)
LEMMA RanksAt ==
  ASSUME NEW s \in Seq(Characters), NEW i \in 1..(Len(s) + 1)
  PROVE  /\ RanksFrom(s)[i] \in Seq(Int)
         /\ After(s, i) \in 1..(Len(s) + 1)
         /\ i <= After(s, i) /\ (i <= Len(s) => i < After(s, i))
         /\ Token(s, i)[1] \in Int /\ Token(s, i)[2] \in Int
         /\ Place(RanksFrom(s)[i], 1) = Token(s, i)[1]
         /\ Place(RanksFrom(s)[i], 2) = Token(s, i)[2]
         /\ \A k \in Nat \ {0} :
              Place(RanksFrom(s)[i], k + 2) = Place(RanksFrom(s)[After(s, i)], k)
<1>1. Len(s) \in Nat /\ i \in Nat
  BY SeqAt
<1>2. Token(s, i)[1] \in Int /\ Token(s, i)[2] \in Int
  BY TokenType
<1>3. \A k \in 1..(Len(s) + 1) : RanksFrom(s)[k] \in Seq(Int)
  BY RanksUnfold
<1>4. CASE i <= Len(s)
  <2>1. After(s, i) = TokenEnd(s, i) /\ TokenEnd(s, i) \in (i + 1)..(Len(s) + 1)
    BY <1>4, TokenType DEF After
  <2>2. RanksFrom(s)[i] = Token(s, i) \o RanksFrom(s)[TokenEnd(s, i)]
    BY <1>1, <1>4, RanksUnfold
  <2>3. TokenEnd(s, i) \in 1..(Len(s) + 1) /\ i < TokenEnd(s, i)
    BY <1>1, <2>1
  <2>4. Token(s, i) \in Seq(Int) /\ Len(Token(s, i)) = 2 /\ RanksFrom(s)[TokenEnd(s, i)] \in Seq(Int)
    BY <1>3, <2>3, TokenType
  <2>5. /\ Place(RanksFrom(s)[i], 1) = Token(s, i)[1] /\ Place(RanksFrom(s)[i], 2) = Token(s, i)[2]
        /\ \A k \in Nat \ {0} : Place(RanksFrom(s)[i], k + 2) = Place(RanksFrom(s)[TokenEnd(s, i)], k)
    <3> DEFINE t == Token(s, i)
    <3> DEFINE r == RanksFrom(s)[TokenEnd(s, i)]
    <3>1. t \in Seq(Int) /\ Len(t) = 2 /\ r \in Seq(Int) /\ RanksFrom(s)[i] = t \o r
      BY <2>2, <2>4
    <3> HIDE DEF t, r
    <3>2. /\ Place(RanksFrom(s)[i], 1) = t[1] /\ Place(RanksFrom(s)[i], 2) = t[2]
          /\ \A k \in Nat \ {0} : Place(RanksFrom(s)[i], k + 2) = Place(r, k)
      BY <3>1, PlaceBehind
    <3> QED
      BY <3>2 DEF t, r
  <2>6. i <= After(s, i) /\ i < After(s, i) /\ After(s, i) \in 1..(Len(s) + 1)
    BY <1>1, <2>1, <2>3
  <2> QED
    BY <1>2, <1>3, <2>1, <2>5, <2>6
<1>5. CASE i > Len(s)
  <2>1. i = Len(s) + 1 /\ After(s, i) = i /\ At(s, i) = Nothing
    BY <1>1, <1>5, SeqAt DEF After
  <2>2. RanksFrom(s)[i] = <<>>
    BY <2>1, RanksUnfold
  <2>3. \A k \in Nat \ {0} : Place(RanksFrom(s)[i], k) = 0
    BY <2>2 DEF Place
  <2>4. Nothing \notin Digits
    BY DEF Nothing, Digits
  <2>5. Token(s, i) = <<0, 0>>
    BY <2>1, <2>4, NumberIsNat DEF Token
  <2>6. \A k \in Nat \ {0} : k + 2 \in Nat \ {0}
    OBVIOUS
  <2>7. 1 \in Nat \ {0} /\ 2 \in Nat \ {0}
    OBVIOUS
  <2>8. /\ Place(RanksFrom(s)[i], 1) = Token(s, i)[1] /\ Place(RanksFrom(s)[i], 2) = Token(s, i)[2]
        /\ \A k \in Nat \ {0} : Place(RanksFrom(s)[i], k + 2) = Place(RanksFrom(s)[i], k)
    BY <2>3, <2>5, <2>6, <2>7
  <2>9. i <= After(s, i) /\ After(s, i) \in 1..(Len(s) + 1)
    BY <1>1, <2>1
  <2>10. \A k \in Nat \ {0} :
           Place(RanksFrom(s)[i], k + 2) = Place(RanksFrom(s)[After(s, i)], k)
    BY <2>1, <2>8
  <2>11. ~(i <= Len(s))
    BY <1>1, <1>5
  <2> QED
    BY <1>2, <1>3, <2>8, <2>9, <2>10, <2>11
<1> QED
  BY <1>1, <1>4, <1>5

(* The order of two strings, from any two positions on: their tokens', or  *)
(* that of what follows them.                                              *)
LEMMA RanksCompare ==
  ASSUME NEW a \in Seq(Characters), NEW b \in Seq(Characters),
         NEW i \in 1..(Len(a) + 1), NEW j \in 1..(Len(b) + 1)
  PROVE  Precedes(RanksFrom(a)[i], RanksFrom(b)[j]) <=>
           \/ TokenLess(Token(a, i), Token(b, j))
           \/ /\ Token(a, i)[1] = Token(b, j)[1] /\ Token(a, i)[2] = Token(b, j)[2]
              /\ Precedes(RanksFrom(a)[After(a, i)], RanksFrom(b)[After(b, j)])
<1> DEFINE r == RanksFrom(a)[i]
<1> DEFINE q == RanksFrom(b)[j]
<1> DEFINE rr == RanksFrom(a)[After(a, i)]
<1> DEFINE qq == RanksFrom(b)[After(b, j)]
<1>1. r \in Seq(Int) /\ q \in Seq(Int)
  BY RanksAt
<1>2. After(a, i) \in 1..(Len(a) + 1) /\ After(b, j) \in 1..(Len(b) + 1)
  BY RanksAt
<1>3. rr \in Seq(Int) /\ qq \in Seq(Int)
  BY <1>2, RanksAt
<1>4. /\ Place(r, 1) = Token(a, i)[1] /\ Place(r, 2) = Token(a, i)[2]
      /\ Place(q, 1) = Token(b, j)[1] /\ Place(q, 2) = Token(b, j)[2]
  BY RanksAt
<1>5. GoesOn(r, rr) /\ GoesOn(q, qq)
  BY RanksAt DEF GoesOn
<1> HIDE DEF r, q, rr, qq
<1>6. Precedes(r, q) <=>
           \/ Place(r, 1) < Place(q, 1)
           \/ Place(r, 1) = Place(q, 1) /\ Place(r, 2) < Place(q, 2)
           \/ Place(r, 1) = Place(q, 1) /\ Place(r, 2) = Place(q, 2) /\ Precedes(rr, qq)
  BY <1>1, <1>3, <1>5, PrecedesBehind
<1>7. Precedes(r, q) <=>
           \/ TokenLess(Token(a, i), Token(b, j))
           \/ /\ Token(a, i)[1] = Token(b, j)[1] /\ Token(a, i)[2] = Token(b, j)[2]
              /\ Precedes(rr, qq)
  BY <1>4, <1>6 DEF TokenLess
<1> QED
  BY <1>7 DEF r, q, rr, qq
-----------------------------------------------------------------------------
(* _verrevcmp, against the ranks.                                          *)

\* What the loop looks at, in positions i and j of a and b, and what it says.
Over(a, i, b, j) == i > Len(a) /\ j > Len(b)
KeyOf(a, i, b, j) == Key(a, i, InText(a, i, b, j))
KeyOn(a, i, b, j) == Key(b, j, InText(a, i, b, j))

(* The order of two characters of which one at least is text.              *)
LEMMA OrderIsClass ==
  ASSUME NEW c \in Characters \cup {Nothing}, NEW d \in Characters \cup {Nothing},
         c \notin Digits \cup {Nothing}
  PROVE  /\ Order(c) \in Int /\ Order(d) \in Int
         /\ d \in Digits \cup {Nothing} =>
              /\ Order(c) < Order(d) <=> Class(c) < 0
              /\ Order(d) < Order(c) <=> 0 < Class(c)
              /\ Order(c) # Order(d)
         /\ d \notin Digits \cup {Nothing} =>
              /\ Order(c) < Order(d) <=> TokenLess(<<Class(c), c>>, <<Class(d), d>>)
              /\ Order(d) < Order(c) <=> TokenLess(<<Class(d), d>>, <<Class(c), c>>)
              /\ Order(c) = Order(d) => c = d
<1> USE DEF Order, Class, Characters, Nothing, Digits, Letters, Tilde
<1>1. Order(c) \in Int /\ Order(d) \in Int
  OBVIOUS
<1>2. ASSUME d \in Digits \cup {Nothing}
      PROVE  /\ Order(c) < Order(d) <=> Class(c) < 0
             /\ Order(d) < Order(c) <=> 0 < Class(c)
             /\ Order(c) # Order(d)
  BY <1>2
<1>3. ASSUME d \notin Digits \cup {Nothing}
      PROVE  /\ Order(c) < Order(d) <=> TokenLess(<<Class(c), c>>, <<Class(d), d>>)
             /\ Order(d) < Order(c) <=> TokenLess(<<Class(d), d>>, <<Class(c), c>>)
             /\ Order(c) = Order(d) => c = d
  BY <1>3 DEF TokenLess
<1> QED
  BY <1>1, <1>2, <1>3

(* There is text where one of the two has a character that is no digit.    *)
LEMMA TextAt ==
  ASSUME NEW a \in Seq(Characters), NEW b \in Seq(Characters),
         NEW i \in 1..(Len(a) + 1), NEW j \in 1..(Len(b) + 1)
  PROVE  InText(a, i, b, j) <=>
           At(a, i) \notin Digits \cup {Nothing} \/ At(b, j) \notin Digits \cup {Nothing}
<1>1. /\ i <= Len(a) /\ a[i] \notin Digits <=> At(a, i) \notin Digits \cup {Nothing}
      /\ j <= Len(b) /\ b[j] \notin Digits <=> At(b, j) \notin Digits \cup {Nothing}
  BY SeqAt, CharactersAre DEF At
<1> QED
  BY <1>1 DEF InText

(* A character other than the end of a string is one of its characters.    *)
LEMMA AtWithin ==
  ASSUME NEW s \in Seq(Characters), NEW i \in 1..(Len(s) + 1)
  PROVE  /\ i \in Nat /\ Len(s) \in Nat
         /\ At(s, i) \notin Digits \cup {Nothing} => i <= Len(s)
         /\ At(s, i) = Nothing => i = Len(s) + 1
         /\ At(s, i) \in Digits => i <= Len(s)
<1>1. /\ Len(s) \in Nat /\ i \in Nat
      /\ i <= Len(s) => At(s, i) \in Characters
      /\ i > Len(s) => At(s, i) = Nothing /\ i = Len(s) + 1
  BY SeqAt
<1>2. Nothing \notin Digits /\ Nothing \notin Characters
  BY DEF Nothing, Digits, Characters
<1>3. CASE i <= Len(s)
  BY <1>1, <1>2, <1>3
<1>4. CASE i > Len(s)
  BY <1>1, <1>2, <1>4
<1> QED
  BY <1>1, <1>3, <1>4

(* Keys that differ are in the order of the tokens; keys that do not are   *)
(* equal tokens, and both go on with the next ones.                        *)
LEMMA KeysAreTokens ==
  ASSUME NEW a \in Seq(Characters), NEW b \in Seq(Characters),
         NEW i \in 1..(Len(a) + 1), NEW j \in 1..(Len(b) + 1)
  PROVE  LET x == KeyOf(a, i, b, j)
             y == KeyOn(a, i, b, j)
             t == Token(a, i)
             u == Token(b, j)
             text == InText(a, i, b, j)
         IN  /\ x \in Int /\ y \in Int
             /\ x < y <=> TokenLess(t, u)
             /\ y < x <=> TokenLess(u, t)
             /\ x = y => /\ t[1] = u[1] /\ t[2] = u[2]
                         /\ ~Over(a, i, b, j) =>
                              /\ Behind(a, i, text) = After(a, i)
                              /\ Behind(b, j, text) = After(b, j)
<1> DEFINE c == At(a, i)
<1> DEFINE d == At(b, j)
<1> DEFINE Blank == Digits \cup {Nothing}
<1>0. /\ c \in Characters \cup {Nothing} /\ d \in Characters \cup {Nothing}
      /\ Number(a, i) \in Nat /\ Number(b, j) \in Nat
  BY SeqAt, NumberIsNat
<1>1. /\ i \in Nat /\ j \in Nat /\ Len(a) \in Nat /\ Len(b) \in Nat
      /\ c \notin Blank => i <= Len(a)
      /\ d \notin Blank => j <= Len(b)
      /\ c = Nothing => i = Len(a) + 1
      /\ d = Nothing => j = Len(b) + 1
      /\ c \in Digits => i <= Len(a)
      /\ d \in Digits => j <= Len(b)
  BY AtWithin
<1>2. CASE c \notin Blank /\ d \notin Blank
  <2>1. InText(a, i, b, j)
    BY <1>2, TextAt
  <2>2. /\ KeyOf(a, i, b, j) = Order(c) /\ KeyOn(a, i, b, j) = Order(d)
        /\ Token(a, i) = <<Class(c), c>> /\ Token(b, j) = <<Class(d), d>>
    BY <1>2, <2>1 DEF KeyOf, KeyOn, Key, Token
  <2>3. /\ Behind(a, i, TRUE) = After(a, i) /\ Behind(b, j, TRUE) = After(b, j)
    BY <1>1, <1>2 DEF Behind, After, TokenEnd
  <2> HIDE DEF c, d, Blank
  <2>4. /\ Order(c) \in Int /\ Order(d) \in Int
        /\ Order(c) < Order(d) <=> TokenLess(<<Class(c), c>>, <<Class(d), d>>)
        /\ Order(d) < Order(c) <=> TokenLess(<<Class(d), d>>, <<Class(c), c>>)
        /\ Order(c) = Order(d) => c = d
    BY <1>0, <1>2, OrderIsClass DEF Blank
  <2> QED
    BY <2>1, <2>2, <2>3, <2>4
<1>3. CASE c \notin Blank /\ d \in Blank
  <2>1. InText(a, i, b, j)
    BY <1>3, TextAt
  <2>2. /\ KeyOf(a, i, b, j) = Order(c) /\ KeyOn(a, i, b, j) = Order(d)
        /\ Token(a, i) = <<Class(c), c>> /\ Token(b, j) = <<0, Number(b, j)>>
    BY <1>3, <2>1 DEF KeyOf, KeyOn, Key, Token
  <2> HIDE DEF c, d, Blank
  <2>4. /\ Order(c) \in Int /\ Order(d) \in Int /\ Order(c) # Order(d)
        /\ Order(c) < Order(d) <=> Class(c) < 0
        /\ Order(d) < Order(c) <=> 0 < Class(c)
    BY <1>0, <1>3, OrderIsClass DEF Blank
  <2>5. Class(c) \in Int /\ Class(c) # 0
    BY DEF Class
  <2>6. /\ TokenLess(<<Class(c), c>>, <<0, Number(b, j)>>) <=> Class(c) < 0
        /\ TokenLess(<<0, Number(b, j)>>, <<Class(c), c>>) <=> 0 < Class(c)
    BY <2>5 DEF TokenLess
  <2> QED
    BY <2>2, <2>4, <2>6
<1>4. CASE c \in Blank /\ d \notin Blank
  <2>1. InText(a, i, b, j)
    BY <1>4, TextAt
  <2>2. /\ KeyOf(a, i, b, j) = Order(c) /\ KeyOn(a, i, b, j) = Order(d)
        /\ Token(a, i) = <<0, Number(a, i)>> /\ Token(b, j) = <<Class(d), d>>
    BY <1>4, <2>1 DEF KeyOf, KeyOn, Key, Token
  <2> HIDE DEF c, d, Blank
  <2>4. /\ Order(c) \in Int /\ Order(d) \in Int /\ Order(c) # Order(d)
        /\ Order(d) < Order(c) <=> Class(d) < 0
        /\ Order(c) < Order(d) <=> 0 < Class(d)
    BY <1>0, <1>4, OrderIsClass DEF Blank
  <2>5. Class(d) \in Int /\ Class(d) # 0
    BY DEF Class
  <2>6. /\ TokenLess(<<Class(d), d>>, <<0, Number(a, i)>>) <=> Class(d) < 0
        /\ TokenLess(<<0, Number(a, i)>>, <<Class(d), d>>) <=> 0 < Class(d)
    BY <2>5 DEF TokenLess
  <2> QED
    BY <2>2, <2>4, <2>6
<1>5. CASE c \in Blank /\ d \in Blank
  <2>1. ~InText(a, i, b, j)
    BY <1>5, TextAt
  <2>2. /\ KeyOf(a, i, b, j) = Number(a, i) /\ KeyOn(a, i, b, j) = Number(b, j)
        /\ Token(a, i) = <<0, Number(a, i)>> /\ Token(b, j) = <<0, Number(b, j)>>
    BY <1>5, <2>1 DEF KeyOf, KeyOn, Key, Token
  <2>3. /\ c \notin Digits => RunEnd(a, i) = i
        /\ d \notin Digits => RunEnd(b, j) = j
    BY RunEnds
  <2>4. /\ Behind(a, i, FALSE) = After(a, i) /\ Behind(b, j, FALSE) = After(b, j)
    BY <1>1, <1>5, <2>3 DEF Behind, After, TokenEnd
  <2>5. \A m, n \in Nat : TokenLess(<<0, m>>, <<0, n>>) <=> m < n
    BY DEF TokenLess
  <2>6. InText(a, i, b, j) = FALSE
    BY <2>1 DEF InText
  <2> HIDE DEF c, d, Blank
  <2>7. /\ Behind(a, i, InText(a, i, b, j)) = After(a, i)
        /\ Behind(b, j, InText(a, i, b, j)) = After(b, j)
    BY <2>4, <2>6, Zenon
  <2> QED
    BY <1>0, <2>2, <2>5, <2>7
<1> QED
  BY <1>2, <1>3, <1>4, <1>5

\* Where the loop ends, where it goes on from two positions, what is left then.
Ends(a, b) ==
  {p \in Positions(a, b) : Over(a, p[1], b, p[2]) \/ KeyOf(a, p[1], b, p[2]) # KeyOn(a, p[1], b, p[2])}
OnFrom(a, b) ==
  [p \in Positions(a, b) |-> IF p \in Ends(a, b) THEN p ELSE <<After(a, p[1]), After(b, p[2])>>]
Left(a, b) == [p \in Positions(a, b) |-> (Len(a) + 1 - p[1]) + (Len(b) + 1 - p[2])]

(* The loop terminates.                                                    *)
LEMMA LoopDescends ==
  ASSUME NEW a \in Seq(Characters), NEW b \in Seq(Characters)
  PROVE  Descends(Positions(a, b), Len(a) + Len(b), Left(a, b), Ends(a, b), OnFrom(a, b))
<1> DEFINE P == Positions(a, b)
<1>1. /\ Len(a) \in Nat /\ Len(b) \in Nat
      /\ \A p \in P : /\ p[1] \in 1..(Len(a) + 1) /\ p[2] \in 1..(Len(b) + 1)
                      /\ p = <<p[1], p[2]>>
      /\ \A i \in 1..(Len(a) + 1), j \in 1..(Len(b) + 1) : <<i, j>> \in P
  BY DEF Positions
<1>2. \A p \in P : /\ After(a, p[1]) \in 1..(Len(a) + 1) /\ After(b, p[2]) \in 1..(Len(b) + 1)
                   /\ p[1] <= After(a, p[1]) /\ p[2] <= After(b, p[2])
                   /\ p[1] <= Len(a) => p[1] < After(a, p[1])
                   /\ p[2] <= Len(b) => p[2] < After(b, p[2])
  BY <1>1, RanksAt
<1> HIDE DEF P
<1>3. Left(a, b) \in [P -> 0..(Len(a) + Len(b))] /\ Len(a) + Len(b) \in Nat
  BY <1>1 DEF Left, P
<1>4. Ends(a, b) \subseteq P
  BY DEF Ends, P
<1>5. OnFrom(a, b) \in [P -> P]
  BY <1>1, <1>2 DEF OnFrom, P
<1>6. ASSUME NEW p \in P \ Ends(a, b)
      PROVE  Left(a, b)[OnFrom(a, b)[p]] < Left(a, b)[p]
  <2>1. p[1] <= Len(a) \/ p[2] <= Len(b)
    BY <1>1, <1>6 DEF Ends, Over, P
  <2>2. OnFrom(a, b)[p] = <<After(a, p[1]), After(b, p[2])>>
    BY <1>6 DEF OnFrom, P
  <2>3. <<After(a, p[1]), After(b, p[2])>> \in P
    BY <1>1, <1>2, <1>6
  <2>4. /\ Left(a, b)[OnFrom(a, b)[p]]
             = (Len(a) + 1 - After(a, p[1])) + (Len(b) + 1 - After(b, p[2]))
        /\ Left(a, b)[p] = (Len(a) + 1 - p[1]) + (Len(b) + 1 - p[2])
    BY <1>6, <2>2, <2>3 DEF Left, P
  <2> DEFINE i == p[1]
  <2> DEFINE j == p[2]
  <2> DEFINE ii == After(a, p[1])
  <2> DEFINE jj == After(b, p[2])
  <2>5. /\ i \in Int /\ j \in Int /\ ii \in Int /\ jj \in Int
        /\ i <= ii /\ j <= jj /\ (i < ii \/ j < jj)
    BY <1>1, <1>2, <1>6, <2>1
  <2> DEFINE m == Len(a)
  <2> DEFINE n == Len(b)
  <2>6. /\ Left(a, b)[OnFrom(a, b)[p]] = (m + 1 - ii) + (n + 1 - jj)
        /\ Left(a, b)[p] = (m + 1 - i) + (n + 1 - j)
    BY <2>4
  <2>7. m \in Int /\ n \in Int
    BY <1>1
  <2> HIDE DEF i, j, ii, jj, m, n
  <2>8. (m + 1 - ii) + (n + 1 - jj) < (m + 1 - i) + (n + 1 - j)
    BY <2>5, <2>7
  <2> QED
    BY <2>6, <2>8
<1> QED
  BY <1>3, <1>4, <1>5, <1>6 DEF P, Descends

(* The comparison from any two positions on, one step unfolded.            *)
LEMMA ComparisonUnfold ==
  ASSUME NEW a \in Seq(Characters), NEW b \in Seq(Characters),
         NEW p \in Positions(a, b)
  PROVE  /\ Over(a, p[1], b, p[2]) => Comparison(a, b)[p] = 0
         /\ ~Over(a, p[1], b, p[2]) /\ p \in Ends(a, b) =>
              Comparison(a, b)[p] = Sign(KeyOf(a, p[1], b, p[2]), KeyOn(a, p[1], b, p[2]))
         /\ p \notin Ends(a, b) =>
              Comparison(a, b)[p] = Comparison(a, b)[OnFrom(a, b)[p]]
<1> DEFINE P == Positions(a, b)
<1> DEFINE Signs == {-1, 0, 1}
<1> DEFINE body(f, q) ==
      LET text == InText(a, q[1], b, q[2])
          x == Key(a, q[1], text)
          y == Key(b, q[2], text)
      IN  IF q[1] > Len(a) /\ q[2] > Len(b) THEN 0
          ELSE IF x # y THEN Sign(x, y)
          ELSE f[<<Behind(a, q[1], text), Behind(b, q[2], text)>>]
<1> DEFINE value == [q \in P |-> IF Over(a, q[1], b, q[2]) THEN 0
                                 ELSE Sign(KeyOf(a, q[1], b, q[2]), KeyOn(a, q[1], b, q[2]))]
<1> DEFINE step == [q \in P |-> [n \in Signs |-> n]]
<1>1. ASSUME NEW q \in P, NEW f
      PROVE  /\ Over(a, q[1], b, q[2]) => body(f, q) = 0
             /\ ~Over(a, q[1], b, q[2]) /\ q \in Ends(a, b) =>
                  body(f, q) = Sign(KeyOf(a, q[1], b, q[2]), KeyOn(a, q[1], b, q[2]))
             /\ q \notin Ends(a, b) => body(f, q) = f[OnFrom(a, b)[q]]
  <2>1. q[1] \in 1..(Len(a) + 1) /\ q[2] \in 1..(Len(b) + 1)
    BY DEF Positions
  <2>2. Over(a, q[1], b, q[2]) => body(f, q) = 0
    BY DEF Over
  <2>3. ASSUME ~Over(a, q[1], b, q[2]), q \in Ends(a, b)
        PROVE  body(f, q) = Sign(KeyOf(a, q[1], b, q[2]), KeyOn(a, q[1], b, q[2]))
    BY <2>3 DEF Over, KeyOf, KeyOn, Ends
  <2>4. ASSUME q \notin Ends(a, b) PROVE body(f, q) = f[OnFrom(a, b)[q]]
    <3>1. /\ KeyOf(a, q[1], b, q[2]) = KeyOn(a, q[1], b, q[2])
          /\ ~Over(a, q[1], b, q[2])
      BY <2>4 DEF Ends
    <3>2. /\ Behind(a, q[1], InText(a, q[1], b, q[2])) = After(a, q[1])
          /\ Behind(b, q[2], InText(a, q[1], b, q[2])) = After(b, q[2])
      BY <2>1, <3>1, KeysAreTokens
    <3>3. body(f, q) = f[<<Behind(a, q[1], InText(a, q[1], b, q[2])),
                           Behind(b, q[2], InText(a, q[1], b, q[2]))>>]
      BY <3>1 DEF Over, KeyOf, KeyOn
    <3>4. OnFrom(a, b)[q] = <<After(a, q[1]), After(b, q[2])>>
      BY <2>4 DEF OnFrom
    <3> QED
      BY <3>2, <3>3, <3>4, Zenon
  <2> QED
    BY <2>2, <2>3, <2>4
<1>2. PICK g \in [P -> Signs] : Solves(g, P, Ends(a, b), value, step, OnFrom(a, b))
  <2>1. value \in [P -> Signs]
    BY DEF Sign
  <2>2. step \in [P -> [Signs -> Signs]]
    OBVIOUS
  <2> HIDE DEF P, Signs, value, step
  <2> QED
    BY <2>1, <2>2, LoopDescends, Recursion DEF P
<1>3. ASSUME NEW q \in P PROVE g[q] = body(g, q)
  <2>1. CASE q \in Ends(a, b)
    <3>1. g[q] = value[q]
      BY <1>2, <2>1 DEF Solves, Step
    <3> HIDE DEF body
    <3> QED
      BY <1>1, <2>1, <3>1
  <2>2. CASE q \notin Ends(a, b)
    <3>1. OnFrom(a, b)[q] \in P
      BY LoopDescends DEF Descends
    <3>2. g[OnFrom(a, b)[q]] \in Signs
      BY <3>1
    <3>3. g[q] = step[q][g[OnFrom(a, b)[q]]]
      BY <1>2, <2>2 DEF Solves, Step
    <3>4. g[q] = g[OnFrom(a, b)[q]]
      BY <3>2, <3>3
    <3> HIDE DEF body
    <3> QED
      BY <1>1, <2>2, <3>4
  <2> QED
    BY <2>1, <2>2
<1>4. Comparison(a, b) = [q \in P |-> body(Comparison(a, b), q)]
  <2>1. g = [q \in P |-> body(g, q)]
    <3> HIDE DEF body
    <3> QED
      BY <1>2, <1>3
  <2>2. Comparison(a, b) = CHOOSE f : f = [q \in P |-> body(f, q)]
    BY DEF Comparison
  <2> HIDE DEF P, body
  <2> QED
    BY <2>1, <2>2
<1>5. Comparison(a, b)[p] = body(Comparison(a, b), p)
  <2> HIDE DEF body
  <2> QED
    BY <1>4
<1> HIDE DEF body
<1> QED
  BY <1>1, <1>5

\* What _verrevcmp says from positions p on is the order of the ranks.
Agree(a, b, p) ==
  LET n == Comparison(a, b)[p]
      r == RanksFrom(a)[p[1]]
      q == RanksFrom(b)[p[2]]
  IN  n \in Int /\ (n < 0 <=> Precedes(r, q)) /\ (n > 0 <=> Precedes(q, r))

(* The loop agrees with the ranks wherever it starts.                      *)
LEMMA ComparisonIsPolicy ==
  ASSUME NEW a \in Seq(Characters), NEW b \in Seq(Characters)
  PROVE  \A p \in Positions(a, b) : Agree(a, b, p)
<1> DEFINE P == Positions(a, b)
<1> DEFINE good == {p \in P : Agree(a, b, p)}
<1>1. ASSUME NEW p \in P
      PROVE  p[1] \in 1..(Len(a) + 1) /\ p[2] \in 1..(Len(b) + 1)
  BY DEF Positions
<1>2. ASSUME NEW p \in Ends(a, b) PROVE Agree(a, b, p)
  <2>0. p \in P
    BY DEF Ends
  <2>1. CASE Over(a, p[1], b, p[2])
    <3>1. p[1] = Len(a) + 1 /\ p[2] = Len(b) + 1
      BY <1>1, <2>0, <2>1 DEF Over
    <3>2. RanksFrom(a)[p[1]] = <<>> /\ RanksFrom(b)[p[2]] = <<>>
      BY <3>1, RanksUnfold
    <3>3. ~Precedes(<<>>, <<>>)
      BY DEF Precedes
    <3>4. Comparison(a, b)[p] = 0
      BY <2>0, <2>1, ComparisonUnfold
    <3> QED
      BY <3>2, <3>3, <3>4 DEF Agree
  <2>2. CASE ~Over(a, p[1], b, p[2])
    <3> DEFINE x == KeyOf(a, p[1], b, p[2])
    <3> DEFINE y == KeyOn(a, p[1], b, p[2])
    <3> DEFINE t == Token(a, p[1])
    <3> DEFINE u == Token(b, p[2])
    <3>1. Comparison(a, b)[p] = Sign(x, y)
      BY <2>0, <2>2, ComparisonUnfold
    <3>2. x # y
      BY <2>2 DEF Ends
    <3>3. /\ x \in Int /\ y \in Int
          /\ x < y <=> TokenLess(t, u)
          /\ y < x <=> TokenLess(u, t)
      BY <1>1, <2>0, KeysAreTokens
    <3>4. t[1] \in Int /\ t[2] \in Int /\ u[1] \in Int /\ u[2] \in Int
      BY <1>1, <2>0, RanksAt
    <3>5. /\ Precedes(RanksFrom(a)[p[1]], RanksFrom(b)[p[2]]) <=>
               TokenLess(t, u) \/ (t[1] = u[1] /\ t[2] = u[2]
                 /\ Precedes(RanksFrom(a)[After(a, p[1])], RanksFrom(b)[After(b, p[2])]))
          /\ Precedes(RanksFrom(b)[p[2]], RanksFrom(a)[p[1]]) <=>
               TokenLess(u, t) \/ (u[1] = t[1] /\ u[2] = t[2]
                 /\ Precedes(RanksFrom(b)[After(b, p[2])], RanksFrom(a)[After(a, p[1])]))
      BY <1>1, <2>0, RanksCompare
    <3> HIDE DEF x, y, t, u
    <3>6. TokenLess(t, u) \/ TokenLess(u, t)
      BY <3>2, <3>3
    <3>7. ~(t[1] = u[1] /\ t[2] = u[2])
      BY <3>4, <3>6 DEF TokenLess
    <3>8. /\ Precedes(RanksFrom(a)[p[1]], RanksFrom(b)[p[2]]) <=> x < y
          /\ Precedes(RanksFrom(b)[p[2]], RanksFrom(a)[p[1]]) <=> y < x
      BY <3>3, <3>5, <3>7
    <3>9. Sign(x, y) \in Int /\ (Sign(x, y) < 0 <=> x < y) /\ (Sign(x, y) > 0 <=> y < x)
      BY <3>3 DEF Sign
    <3> QED
      BY <3>1, <3>8, <3>9 DEF Agree
  <2> QED
    BY <2>1, <2>2
<1>3. ASSUME NEW p \in P \ Ends(a, b), Agree(a, b, OnFrom(a, b)[p]) PROVE Agree(a, b, p)
  <2>1. OnFrom(a, b)[p] = <<After(a, p[1]), After(b, p[2])>>
    BY <1>3 DEF OnFrom
  <2>2. Comparison(a, b)[p] = Comparison(a, b)[OnFrom(a, b)[p]]
    BY <1>3, ComparisonUnfold
  <2> DEFINE t == Token(a, p[1])
  <2> DEFINE u == Token(b, p[2])
  <2>3. KeyOf(a, p[1], b, p[2]) = KeyOn(a, p[1], b, p[2])
    BY <1>3 DEF Ends
  <2>4. /\ t[1] = u[1] /\ t[2] = u[2]
    BY <1>1, <2>3, KeysAreTokens
  <2>5. t[1] \in Int /\ t[2] \in Int /\ u[1] \in Int /\ u[2] \in Int
    BY <1>1, RanksAt
  <2>6. /\ Precedes(RanksFrom(a)[p[1]], RanksFrom(b)[p[2]]) <=>
             TokenLess(t, u) \/ (t[1] = u[1] /\ t[2] = u[2]
               /\ Precedes(RanksFrom(a)[After(a, p[1])], RanksFrom(b)[After(b, p[2])]))
        /\ Precedes(RanksFrom(b)[p[2]], RanksFrom(a)[p[1]]) <=>
             TokenLess(u, t) \/ (u[1] = t[1] /\ u[2] = t[2]
               /\ Precedes(RanksFrom(b)[After(b, p[2])], RanksFrom(a)[After(a, p[1])]))
    BY <1>1, RanksCompare
  <2> HIDE DEF t, u
  <2>7. ~TokenLess(t, u) /\ ~TokenLess(u, t)
    BY <2>4, <2>5 DEF TokenLess
  <2>8. /\ Precedes(RanksFrom(a)[p[1]], RanksFrom(b)[p[2]]) <=>
             Precedes(RanksFrom(a)[After(a, p[1])], RanksFrom(b)[After(b, p[2])])
        /\ Precedes(RanksFrom(b)[p[2]], RanksFrom(a)[p[1]]) <=>
             Precedes(RanksFrom(b)[After(b, p[2])], RanksFrom(a)[After(a, p[1])])
    BY <2>4, <2>6, <2>7
  <2>9. <<After(a, p[1]), After(b, p[2])>>[1] = After(a, p[1])
        /\ <<After(a, p[1]), After(b, p[2])>>[2] = After(b, p[2])
    OBVIOUS
  <2> QED
    BY <1>3, <2>1, <2>2, <2>8, <2>9 DEF Agree
<1>4. good \in SUBSET P /\ HandsOn(good, P, Ends(a, b), OnFrom(a, b))
  <2>1. Ends(a, b) \subseteq P
    BY DEF Ends
  <2> QED
    BY <1>2, <1>3, <2>1 DEF HandsOn
<1>5. good = P
  <2> HIDE DEF good, P
  <2> QED
    BY <1>4, LoopDescends, Descent DEF P
<1> QED
  BY <1>5

(* _verrevcmp is negative, zero or positive as Policy orders its strings.  *)
LEMMA VerRevCmpIsPolicy ==
  ASSUME NEW a \in Seq(Characters), NEW b \in Seq(Characters)
  PROVE  /\ VerRevCmp(a, b) \in Int
         /\ VerRevCmp(a, b) < 0 <=> Precedes(Ranks(a), Ranks(b))
         /\ VerRevCmp(a, b) > 0 <=> Precedes(Ranks(b), Ranks(a))
<1>1. <<1, 1>> \in Positions(a, b)
  BY DEF Positions
<1>2. Agree(a, b, <<1, 1>>)
  BY <1>1, ComparisonIsPolicy
<1> QED
  BY <1>2 DEF Agree, VerRevCmp, Ranks
-----------------------------------------------------------------------------
(* Versions.                                                               *)

(* Positions of a sequence have a first one and a last one.                *)
LEMMA FirstAndLast ==
  ASSUME NEW n \in Nat, NEW I \in SUBSET (1..n), I # {}
  PROVE  Min(I) \in I /\ Max(I) \in I
<1> DEFINE R == {p \in Nat \X Nat : p[1] < p[2]}
<1> DEFINE J == {n - i : i \in I}
<1>1. IsWellFoundedOn(R, Nat)
  BY NatLessThanWellFounded DEF OpToRel
<1>2. I \subseteq Nat /\ J \subseteq Nat /\ J # {}
  OBVIOUS
<1>3. \E x \in I : \A y \in I : ~(y < x)
  <2>1. PICK x \in I : \A y \in I : ~(<<y, x>> \in R)
    <3> HIDE DEF R
    <3> QED
      BY <1>1, <1>2, WFMin
  <2> QED
    BY <1>2, <2>1
<1>4. \E x \in I : \A y \in I : ~(y > x)
  <2>1. PICK m \in J : \A k \in J : ~(<<k, m>> \in R)
    <3> HIDE DEF R, J
    <3> QED
      BY <1>1, <1>2, WFMin
  <2>2. PICK x \in I : m = n - x
    OBVIOUS
  <2>3. ASSUME NEW y \in I PROVE ~(y > x)
    <3>1. n - y \in J /\ n - y \in Nat /\ m \in Nat
      BY <1>2
    <3>2. ~(n - y < m)
      BY <2>1, <3>1
    <3> QED
      BY <2>2, <3>2
  <2> QED
    BY <2>3
<1>5. \E x \in I : \A y \in I : x =< y
  BY <1>2, <1>3
<1>6. \E x \in I : \A y \in I : x >= y
  BY <1>2, <1>4
<1> QED
  BY <1>5, <1>6 DEF Min, Max

(* The part of a text between two of its positions.                        *)
LEMMA Parts ==
  ASSUME NEW S, NEW s \in Seq(S), NEW m \in Nat \ {0}, NEW n \in 0..Len(s)
  PROVE  SubSeq(s, m, n) \in Seq(S)
<1>1. \A i \in m..n : s[i] \in S
  OBVIOUS
<1> QED
  BY <1>1, SubSeqProperties

(* What _split_version makes of a text.                                    *)
LEMMA SplitType ==
  ASSUME NEW v \in Seq(Characters)
  PROVE  /\ Split(v).epoch \in Int
         /\ Split(v).upstream \in Seq(Characters)
         /\ Split(v).revision \in Seq(Characters)
<1> DEFINE Colons == {i \in 1..Len(v) : v[i] = Colon}
<1> DEFINE colon == IF Colons # {} THEN Min(Colons) ELSE 0
<1> DEFINE epoch == SubSeq(v, 1, colon - 1)
<1> DEFINE rest == SubSeq(v, colon + 1, Len(v))
<1> DEFINE Hyphens == {i \in 1..Len(rest) : rest[i] = Hyphen}
<1> DEFINE hyphen == IF Hyphens # {} THEN Max(Hyphens) ELSE 0
<1> DEFINE upstream == IF hyphen = 0 THEN rest ELSE SubSeq(rest, 1, hyphen - 1)
<1> DEFINE revision == IF hyphen = 0 THEN <<Zero>> ELSE SubSeq(rest, hyphen + 1, Len(rest))
<1> DEFINE bad == \/ colon # 0 /\ (epoch = <<>> \/ \E i \in DOMAIN epoch : epoch[i] \notin Digits)
                  \/ upstream = <<>> \/ At(upstream, 1) \notin Digits
<1>1. Split(v) = IF bad THEN Malformed
                 ELSE [epoch |-> Number(epoch, 1), upstream |-> upstream, revision |-> revision]
  BY DEF Split, SelectInSeq, SelectLastInSeq
<1>2. Len(v) \in Nat
  OBVIOUS
<1>3. colon \in 0..Len(v)
  <2>1. Colons \in SUBSET (1..Len(v))
    OBVIOUS
  <2> HIDE DEF Colons
  <2>2. Colons # {} => Min(Colons) \in 1..Len(v)
    BY <1>2, <2>1, FirstAndLast
  <2> QED
    BY <1>2, <2>2
<1> HIDE DEF colon
<1>4. rest \in Seq(Characters)
  <2>1. colon + 1 \in Nat \ {0} /\ Len(v) \in 0..Len(v)
    BY <1>2, <1>3
  <2> QED
    BY <2>1, Parts
<1>5. epoch \in Seq(Characters)
  <2>1. CASE colon = 0
    <3>1. \A x : SubSeq(x, 1, 0 - 1) = <<>>
      BY SubSeqEmpty
    <3>2. epoch = <<>>
      BY <2>1, <3>1
    <3>3. <<>> \in Seq(Characters)
      OBVIOUS
    <3> HIDE DEF epoch
    <3> QED
      BY <3>2, <3>3
  <2>2. CASE colon # 0
    <3>1. colon - 1 \in 0..Len(v) /\ 1 \in Nat \ {0}
      BY <1>2, <1>3, <2>2
    <3> QED
      BY <3>1, Parts
  <2> QED
    BY <2>1, <2>2
<1> HIDE DEF rest, epoch
<1>6. hyphen \in 0..Len(rest) /\ Len(rest) \in Nat
  <2>1. Hyphens \in SUBSET (1..Len(rest)) /\ Len(rest) \in Nat
    BY <1>4
  <2> HIDE DEF Hyphens
  <2>2. Hyphens # {} => Max(Hyphens) \in 1..Len(rest)
    BY <2>1, FirstAndLast
  <2> QED
    BY <2>1, <2>2
<1> HIDE DEF hyphen
<1>7. upstream \in Seq(Characters)
  <2>1. ASSUME hyphen # 0 PROVE SubSeq(rest, 1, hyphen - 1) \in Seq(Characters)
    <3>1. hyphen - 1 \in 0..Len(rest) /\ 1 \in Nat \ {0}
      BY <1>6, <2>1
    <3> QED
      BY <1>4, <3>1, Parts
  <2> QED
    BY <1>4, <2>1
<1>8. revision \in Seq(Characters)
  <2>1. SubSeq(rest, hyphen + 1, Len(rest)) \in Seq(Characters)
    <3>1. hyphen + 1 \in Nat \ {0} /\ Len(rest) \in 0..Len(rest)
      BY <1>6
    <3> QED
      BY <1>4, <3>1, Parts
  <2>2. Zero \in Characters
    BY DEF Zero, Characters
  <2>3. <<Zero>> \in Seq(Characters)
    BY <2>2
  <2> QED
    BY <2>1, <2>3
<1>9. Number(epoch, 1) \in Int
  BY <1>5, NumberIsNat
<1> HIDE DEF upstream, revision, bad
<1>10. /\ Malformed.epoch \in Int /\ Malformed.upstream \in Seq(Characters)
       /\ Malformed.revision \in Seq(Characters)
  BY DEF Malformed
<1>11. CASE bad
  BY <1>1, <1>10, <1>11
<1>12. CASE ~bad
  BY <1>1, <1>7, <1>8, <1>9, <1>12
<1> QED
  BY <1>11, <1>12

(* compare_debian_versions is the order of Debian Policy, of any two texts *)
(* that _split_version takes apart.                                        *)
THEOREM CompareOrders ==
  ASSUME NEW a \in Seq(Characters), NEW b \in Seq(Characters)
  PROVE  /\ Compare(a, b) < 0 <=> OlderByPolicy(a, b)
         /\ Compare(a, b) > 0 <=> OlderByPolicy(b, a)
<1> DEFINE va == Split(a)
<1> DEFINE vb == Split(b)
<1> DEFINE up == VerRevCmp(va.upstream, vb.upstream)
<1> DEFINE rev == VerRevCmp(va.revision, vb.revision)
<1> DEFINE UpA == Precedes(Ranks(va.upstream), Ranks(vb.upstream))
<1> DEFINE UpB == Precedes(Ranks(vb.upstream), Ranks(va.upstream))
<1> DEFINE RevA == Precedes(Ranks(va.revision), Ranks(vb.revision))
<1> DEFINE RevB == Precedes(Ranks(vb.revision), Ranks(va.revision))
<1>1. /\ va.upstream \in Seq(Characters) /\ vb.upstream \in Seq(Characters)
      /\ va.revision \in Seq(Characters) /\ vb.revision \in Seq(Characters)
      /\ va.epoch \in Int /\ vb.epoch \in Int
  BY SplitType
<1>2. /\ up \in Int /\ rev \in Int
      /\ (up < 0 <=> UpA) /\ (up > 0 <=> UpB)
      /\ (rev < 0 <=> RevA) /\ (rev > 0 <=> RevB)
  BY <1>1, VerRevCmpIsPolicy
<1>3. Compare(a, b) = IF va.epoch # vb.epoch THEN Sign(va.epoch, vb.epoch)
                      ELSE IF up # 0 THEN up ELSE rev
  BY DEF Compare
<1>4. /\ OlderByPolicy(a, b) <=>
           \/ va.epoch < vb.epoch
           \/ va.epoch = vb.epoch /\ UpA
           \/ va.epoch = vb.epoch /\ ~UpA /\ ~UpB /\ RevA
      /\ OlderByPolicy(b, a) <=>
           \/ vb.epoch < va.epoch
           \/ vb.epoch = va.epoch /\ UpB
           \/ vb.epoch = va.epoch /\ ~UpB /\ ~UpA /\ RevB
  BY DEF OlderByPolicy
<1> DEFINE m == va.epoch
<1> DEFINE n == vb.epoch
<1>5. m \in Int /\ n \in Int
  BY <1>1
<1> HIDE DEF va, vb, up, rev, UpA, UpB, RevA, RevB
<1>6. /\ UpA <=> up < 0
      /\ UpB <=> up > 0
      /\ RevA <=> rev < 0
      /\ RevB <=> rev > 0
  BY <1>2
<1>7. CASE m # n
  <2>1. Compare(a, b) = Sign(m, n)
    BY <1>3, <1>7
  <2>2. (OlderByPolicy(a, b) <=> m < n) /\ (OlderByPolicy(b, a) <=> n < m)
    BY <1>4, <1>5, <1>7
  <2>3. (Sign(m, n) < 0 <=> m < n) /\ (Sign(m, n) > 0 <=> n < m)
    BY <1>5 DEF Sign
  <2> QED
    BY <2>1, <2>2, <2>3
<1>8. CASE m = n
  <2>1. Compare(a, b) = IF up # 0 THEN up ELSE rev
    BY <1>3, <1>8
  <2>2. /\ OlderByPolicy(a, b) <=> UpA \/ (~UpA /\ ~UpB /\ RevA)
        /\ OlderByPolicy(b, a) <=> UpB \/ (~UpB /\ ~UpA /\ RevB)
    BY <1>4, <1>5, <1>8
  <2>3. /\ OlderByPolicy(a, b) <=> up < 0 \/ (up = 0 /\ rev < 0)
        /\ OlderByPolicy(b, a) <=> up > 0 \/ (up = 0 /\ rev > 0)
    BY <1>2, <1>6, <2>2
  <2> QED
    BY <1>2, <2>1, <2>3
<1> QED
  BY <1>7, <1>8

-----------------------------------------------------------------------------
(***************************************************************************)
(* What a green release-check says.  The order of versions stays closed    *)
(* until NoDowngrade: the invariant sees WellFormed and Compare as any     *)
(* operators.                                                              *)
(***************************************************************************)
AnyImage ==
  [n : Nat, base : {p.base : p \in Pins}, libssl : {p.overlay : p \in Pins}]

TypeInv ==
  /\ TypeOK
  /\ images \in Seq(AnyImage)

\* The release-check under way, or green, has passed its gate n.
Went(n) ==
  /\ goal = "release-check"
  /\ status = "green" \/ (status = "running" /\ gate > n)

Without(whats) == whats \cap disturbed = {}

\* One image, from gate to gate.
ImageInv ==
  Without({"retag", "late", "silent"}) =>
    /\ Went(2) => tag = images[Len(images)]
    /\ Went(0) /\ ~Went(4) => audited = {}
    /\ Went(4) => audited = {tag} /\ tag # NoImage
    /\ Went(10) => archive = tag
    /\ Went(11) => sbom.of = tag
    /\ Went(14) => report.of = tag

\* The files that the checks have seen are the files that are there.
CheckedInv ==
  Without({"late", "edit"}) =>
    /\ Went(12) => CheckSbom
    /\ Went(15) => report.is = "report" /\ EvaluatePolicy(report.found)

BundleInv == Without({"late"}) /\ Went(17) => bundle = BundleOf(sbom, report)

\* If all looks were at one image, it has the base and the library of the pins;
\* the overlay is newer than the base.
OverlayInv ==
  Without({"edit"}) =>
    /\ Went(3) => pinned = pins
    /\ Went(4) => /\ audited # {}
                  /\ \A image : audited = {image} => image.base = pins.base
    /\ Went(5) => \A image : audited = {image} => image.libssl = pins.patched
    /\ Went(16) => /\ WellFormed(pins.base) /\ WellFormed(pins.patched)
                   /\ IsOlder(pins.base, pins.patched)

Inv == TypeInv /\ ImageInv /\ CheckedInv /\ BundleInv /\ OverlayInv
-----------------------------------------------------------------------------
(* The gates.                                                              *)

\* Each goal of the Makefile has a first gate and a last.
LEMMA GatesTyped ==
  ASSUME NEW g \in DOMAIN Gates
  PROVE  /\ Len(Gates[g]) \in Nat \ {0}
         /\ DOMAIN Gates[g] = 1..Len(Gates[g])
<1>1. g \in {"build", "supply-chain-check", "release-bundle", "release-check"}
  BY DEF Gates
<1>2. CASE g = "build"
  BY <1>2 DEF Gates
<1>3. CASE g = "supply-chain-check"
  BY <1>3 DEF Gates
<1>4. CASE g = "release-bundle"
  BY <1>4 DEF Gates
<1>5. CASE g = "release-check"
  BY <1>5 DEF Gates
<1> QED
  BY <1>1, <1>2, <1>3, <1>4, <1>5

\* The numbers of the gates of release-check.
LEMMA GateNumber ==
  ASSUME TypeInv, goal = "release-check"
  PROVE  /\ gate \in 1..17 /\ Len(Gates[goal]) = 17
         /\ AtGate("quality") => gate = 1
         /\ AtGate("build") => gate = 2
         /\ AtGate("audit-pins") => gate = 3
         /\ AtGate("audit-base") => gate = 4
         /\ AtGate("audit-libssl") => gate = 5
         /\ AtGate("smoke") => gate = 6
         /\ AtGate("security") => gate = 7
         /\ AtGate("compose") => gate = 8
         /\ AtGate("reproducibility") => gate = 9
         /\ AtGate("sbom-save") => gate = 10
         /\ AtGate("sbom-scan") => gate = 11
         /\ AtGate("sbom-check") => gate = 12
         /\ AtGate("vuln-save") => gate = 13
         /\ AtGate("vuln-scan") => gate = 14
         /\ AtGate("vuln-policy") => gate = 15
         /\ AtGate("patch") => gate = 16
         /\ AtGate("bundle") => gate = 17
<1>1. Gates["release-check"] =
        << "quality", "build", "audit-pins", "audit-base", "audit-libssl",
           "smoke", "security", "compose", "reproducibility",
           "sbom-save", "sbom-scan", "sbom-check",
           "vuln-save", "vuln-scan", "vuln-policy", "patch", "bundle" >>
  BY DEF Gates
<1>2. gate \in 1..17
  BY <1>1 DEF TypeInv, TypeOK
<1> QED
  BY <1>1, <1>2 DEF AtGate

\* A scan is never a goal's last gate.
LEMMA ScanIsFollowed ==
  ASSUME TypeInv, AtGate("sbom-scan") \/ AtGate("vuln-scan")
  PROVE  gate + 1 \in DOMAIN Gates[goal]
<1>1. goal \in {"build", "supply-chain-check", "release-bundle", "release-check"}
  BY DEF TypeInv, TypeOK, Gates
<1>2. gate \in DOMAIN Gates[goal]
  BY DEF TypeInv, TypeOK
<1>3. CASE goal = "build" \/ goal = "release-bundle"
  BY <1>2, <1>3 DEF AtGate, Gates
<1>4. CASE goal = "supply-chain-check"
  BY <1>2, <1>4 DEF AtGate, Gates
<1>5. CASE goal = "release-check"
  <2>1. gate = 11 \/ gate = 14
    BY <1>5, GateNumber
  <2>2. DOMAIN Gates[goal] = 1..17
    BY <1>5, GateNumber, GatesTyped DEF TypeInv, TypeOK
  <2> QED
    BY <2>1, <2>2
<1> QED
  BY <1>1, <1>3, <1>4, <1>5
-----------------------------------------------------------------------------
(* Types.                                                                  *)

\* docker build adds an image and moves the tag to it.
LEMMA BuildsTyped ==
  ASSUME TypeInv, Builds
  PROVE  /\ images' \in Seq(AnyImage)
         /\ tag' = images'[Len(images')]
         /\ tag' \in ToSet(images')
<1> DEFINE image ==
      [n |-> Len(images) + 1, base |-> pins.base, libssl |-> pins.overlay]
<1>1. images \in Seq(AnyImage) /\ pins \in Pins
  BY DEF TypeInv, TypeOK
<1>2. image \in AnyImage
  <2>1. Len(images) + 1 \in Nat
    BY <1>1
  <2> QED
    BY <1>1, <2>1 DEF AnyImage
<1>3. images' = Append(images, image) /\ tag' = image
  BY DEF Builds
<1> HIDE DEF image
<1>4. /\ images' \in Seq(AnyImage) /\ Len(images') = Len(images) + 1
      /\ images'[Len(images) + 1] = image
  BY <1>1, <1>2, <1>3
<1>5. Len(images') \in DOMAIN images'
  BY <1>1, <1>4
<1> QED
  BY <1>3, <1>4, <1>5 DEF ToSet

\* Before the first make every variable has its type.
LEMMA TypeInit == Init => TypeInv
<1> SUFFICES ASSUME Init PROVE TypeInv
  OBVIOUS
<1>1. images = <<>> /\ tag = NoImage /\ goal = "build" /\ gate = 1
  BY DEF Init
<1>2. goal \in DOMAIN Gates
  BY <1>1 DEF Gates
<1>3. gate \in DOMAIN Gates[goal]
  BY <1>1, <1>2, GatesTyped
<1>4. sbom.is = "nothing" /\ report.is = "nothing" /\ bundle.is = "nothing"
  BY DEF Init, NoFile
<1>5. {pins, pinned} \subseteq Pins /\ database \subseteq Disclosures /\ status = "idle"
  BY DEF Init
<1> QED
  BY <1>1, <1>2, <1>3, <1>4, <1>5 DEF TypeInv, TypeOK

\* A gate's exit code leads to the next gate, or ends the make.
LEMMA MovesTyped ==
  ASSUME TypeInv, Passed \/ Failed
  PROVE  /\ pins' \in Pins /\ database' \subseteq Disclosures
         /\ goal' \in DOMAIN Gates /\ gate' \in DOMAIN Gates[goal']
         /\ status' \in {"idle", "running", "green", "red"}
<1>1. /\ goal \in DOMAIN Gates /\ gate \in 1..Len(Gates[goal])
      /\ Len(Gates[goal]) \in Nat
      /\ DOMAIN Gates[goal] = 1..Len(Gates[goal])
  BY GatesTyped DEF TypeInv, TypeOK
<1>2. /\ pins' = pins /\ database' = database /\ goal' = goal
      /\ gate' \in {gate, gate + 1} /\ (gate' = gate + 1 => gate # Len(Gates[goal]))
      /\ status' \in {status, "green", "red"}
  BY DEF Passed, Failed
<1>3. gate' \in 1..Len(Gates[goal])
  <2> DEFINE last == Len(Gates[goal])
  <2>1. last \in Nat /\ gate \in 1..last
    BY <1>1
  <2>2. gate' \in {gate, gate + 1} /\ (gate' = gate + 1 => gate # last)
    BY <1>2
  <2> HIDE DEF last
  <2>3. gate' \in 1..last
    BY <2>1, <2>2
  <2> QED
    BY <2>3 DEF last
<1> QED
  BY <1>1, <1>2, <1>3 DEF TypeInv, TypeOK

\* Every gate keeps the types.
LEMMA GateTyped == ASSUME TypeInv, Gate PROVE TypeInv'
<1>1. Passed \/ Failed
  BY DEF Gate, Quality, Build, AuditPins, AuditBase, AuditLibssl, Containers, Looks,
         ComposeUp, Reproducibility, Save, SbomScan, SbomCheck, VulnScan, VulnPolicy,
         PatchLifecycle, ReleaseBundle
<1>2. \/ Builds
      \/ images' = images /\ tag' = tag
  BY DEF Gate, Quality, Build, AuditPins, AuditBase, AuditLibssl, Containers, Looks,
         ComposeUp, Reproducibility, Save, SbomScan, SbomCheck, VulnScan, VulnPolicy,
         PatchLifecycle, ReleaseBundle
<1>3. images' \in Seq(AnyImage) /\ tag' \in {NoImage} \cup ToSet(images')
  BY <1>2, BuildsTyped DEF TypeInv, TypeOK
<1>4. sbom' = sbom \/ sbom' = Broken \/ sbom' = SbomOf(archive)
  BY DEF Gate, Quality, Build, AuditPins, AuditBase, AuditLibssl, Containers, Looks,
         ComposeUp, Reproducibility, Save, SbomScan, SbomCheck, VulnScan, VulnPolicy,
         PatchLifecycle, ReleaseBundle
<1>5. report' = report \/ report' = Broken \/ report' = ReportOf(archive, database)
  BY DEF Gate, Quality, Build, AuditPins, AuditBase, AuditLibssl, Containers, Looks,
         ComposeUp, Reproducibility, Save, SbomScan, SbomCheck, VulnScan, VulnPolicy,
         PatchLifecycle, ReleaseBundle
<1>6. \/ bundle' = bundle \/ bundle' = NoFile \/ bundle' = Broken
      \/ bundle' = BundleOf(sbom, report)
  BY DEF Gate, Quality, Build, AuditPins, AuditBase, AuditLibssl, Containers, Looks,
         ComposeUp, Reproducibility, Save, SbomScan, SbomCheck, VulnScan, VulnPolicy,
         PatchLifecycle, ReleaseBundle
<1>7. sbom'.is \in {"nothing", "broken", "sbom"}
  BY <1>4 DEF TypeInv, TypeOK, Broken, SbomOf
<1>8. report'.is \in {"nothing", "broken", "report"}
  BY <1>5 DEF TypeInv, TypeOK, Broken, ReportOf
<1>9. bundle'.is \in {"nothing", "broken", "bundle"}
  BY <1>6 DEF TypeInv, TypeOK, NoFile, Broken, BundleOf
<1>10. pinned' \in {pins, pinned}
  BY DEF Gate, Quality, Build, AuditPins, AuditBase, AuditLibssl, Containers, Looks,
         ComposeUp, Reproducibility, Save, SbomScan, SbomCheck, VulnScan, VulnPolicy,
         PatchLifecycle, ReleaseBundle
<1> QED
  BY <1>1, <1>3, <1>7, <1>8, <1>9, <1>10, MovesTyped DEF TypeInv, TypeOK

\* So does every step, of make or of somebody else.
LEMMA TypeStep == TypeInv /\ [Next]_vars => TypeInv'
<1> SUFFICES ASSUME TypeInv, [Next]_vars PROVE TypeInv'
  OBVIOUS
<1>1. ASSUME NEW g \in DOMAIN Gates, Make(g) PROVE TypeInv'
  <2>1. 1 \in DOMAIN Gates[g]
    BY GatesTyped
  <2> QED
    BY <1>1, <2>1 DEF Make, TypeInv, TypeOK
<1>2. CASE Gate
  BY <1>2, GateTyped
<1>3. CASE SilentScan
  <2>1. gate + 1 \in DOMAIN Gates[goal]
    BY <1>3, ScanIsFollowed DEF SilentScan
  <2> QED
    BY <1>3, <2>1 DEF SilentScan, TypeInv, TypeOK
<1>4. CASE ScanTimesOut
  BY <1>4 DEF ScanTimesOut, TypeInv, TypeOK
<1>5. CASE Retag
  <2>1. \/ Builds
        \/ tag' \in ToSet(images) \cup {NoImage} /\ images' = images
    BY <1>5 DEF Retag
  <2>2. images' \in Seq(AnyImage) /\ tag' \in {NoImage} \cup ToSet(images')
    BY <2>1, BuildsTyped DEF TypeInv
  <2> QED
    BY <1>5, <2>2 DEF Retag, Outside, TypeInv, TypeOK
<1>6. CASE Edit \/ Disclose
  BY <1>6 DEF Edit, Disclose, Outside, TypeInv, TypeOK
<1>7. CASE LateWrite
  <2>1. PICK scanner \in late :
          \/ sbom' = SbomOf(scanner.image) /\ UNCHANGED report
          \/ report' = ReportOf(scanner.image, database) /\ UNCHANGED sbom
    BY <1>7 DEF LateWrite
  <2>2. /\ sbom'.is \in {"nothing", "broken", "sbom"}
        /\ report'.is \in {"nothing", "broken", "report"}
    BY <2>1 DEF SbomOf, ReportOf, TypeInv, TypeOK
  <2> QED
    BY <1>7, <2>2 DEF LateWrite, TypeInv, TypeOK
<1>8. CASE UNCHANGED vars
  BY <1>8 DEF vars, TypeInv, TypeOK
<1> QED
  BY <1>1, <1>2, <1>3, <1>4, <1>5, <1>6, <1>7, <1>8 DEF Next
-----------------------------------------------------------------------------
(* One gate of release-check after the other.                              *)

Kept == ImageInv' /\ CheckedInv' /\ BundleInv' /\ OverlayInv'

\* A make of another goal, and one that fails, have nothing to show.
LEMMA Vacuous ==
  ASSUME goal' # "release-check" \/ status' \notin {"green", "running"}
  PROVE  Kept
  BY DEF Kept, Went, ImageInv, CheckedInv, BundleInv, OverlayInv

\* What passing gate n means.
Passes(n) ==
  /\ goal = "release-check" /\ goal' = goal
  /\ status = "running" /\ gate = n
  /\ \/ status' = "running" /\ gate' = n + 1
     \/ status' = "green" /\ gate' = n /\ n = 17
  /\ UNCHANGED <<pins, database, disturbed>>

\* The last gate is reached only by passing each one before it.
LEMMA Moves ==
  ASSUME TypeInv, status = "running"
  PROVE  /\ Failed => status' = "red"
         /\ Passed /\ goal # "release-check" => goal' # "release-check"
         /\ Passed /\ goal = "release-check" => Passes(gate)
<1>1. Failed => status' = "red"
  BY DEF Failed
<1>2. Passed => goal' = goal
  BY DEF Passed
<1>3. ASSUME Passed, goal = "release-check" PROVE Passes(gate)
  <2>1. gate \in 1..17 /\ Len(Gates[goal]) = 17
    BY <1>3, GateNumber
  <2> QED
    BY <1>3, <2>1 DEF Passed, Passes
<1> QED
  BY <1>1, <1>2, <1>3

\* A gate that only looks.
LEMMA OnlyLooks ==
  ASSUME Inv, NEW n \in {1, 9}, Passes(n),
         UNCHANGED <<images, tag, archive, sbom, report, bundle, pinned, audited>>
  PROVE  Kept
<1> USE DEF Passes, Went, Without
<1>1. ImageInv'
  BY DEF Inv, ImageInv
<1>2. CheckedInv'
  BY DEF Inv, CheckedInv, CheckSbom
<1>3. BundleInv'
  BY DEF Inv, BundleInv
<1>4. OverlayInv'
  BY DEF Inv, OverlayInv
<1> QED
  BY <1>1, <1>2, <1>3, <1>4 DEF Kept

\* Build: the tag names the newest image.
LEMMA BuildPasses ==
  ASSUME Inv, Passes(2), Builds,
         UNCHANGED <<archive, sbom, report, bundle, pinned, audited>>
  PROVE  Kept
<1>1. tag' = images'[Len(images')]
  BY BuildsTyped DEF Inv
<1> USE DEF Passes, Went, Without
<1>2. ImageInv'
  BY <1>1 DEF Inv, ImageInv
<1>3. CheckedInv'
  BY DEF Inv, CheckedInv, CheckSbom
<1>4. BundleInv' /\ OverlayInv'
  BY DEF Inv, BundleInv, OverlayInv
<1> QED
  BY <1>2, <1>3, <1>4 DEF Kept

\* The audit reads the pins that the other gates read.
LEMMA PinsPasses ==
  ASSUME Inv, Passes(3), pinned' = pins,
         UNCHANGED <<images, tag, archive, sbom, report, bundle, audited>>
  PROVE  Kept
<1> USE DEF Passes, Went, Without
<1>1. ImageInv'
  BY DEF Inv, ImageInv
<1>2. CheckedInv'
  BY DEF Inv, CheckedInv, CheckSbom
<1>3. BundleInv' /\ OverlayInv'
  BY DEF Inv, BundleInv, OverlayInv
<1> QED
  BY <1>1, <1>2, <1>3 DEF Kept

\* Each look is at the image that the tag names then: if all of them were at one,
\* it is this one.
LEMMA LookPasses ==
  ASSUME Inv, NEW n \in {4, 5, 6, 7}, Passes(n), Looks,
         n = 4 => tag.base = pinned.base,
         n = 5 => tag.libssl = pinned.patched,
         UNCHANGED <<images, tag, archive, sbom, report, bundle, pinned>>
  PROVE  Kept
<1> USE DEF Passes, Went, Without
<1>1. tag # NoImage /\ audited' = audited \cup {tag}
  BY DEF Looks
<1>2. ImageInv'
  BY <1>1 DEF Inv, ImageInv
<1>3. CheckedInv'
  BY DEF Inv, CheckedInv, CheckSbom
<1>4. BundleInv'
  BY DEF Inv, BundleInv
<1>5. ASSUME NEW image, audited' = {image}
      PROVE  image = tag /\ (audited # {} => audited = {image})
  BY <1>1, <1>5
<1>6. audited' # {}
  BY <1>1
<1>7. OverlayInv'
  BY <1>5, <1>6 DEF Inv, OverlayInv
<1> QED
  BY <1>2, <1>3, <1>4, <1>7 DEF Kept

\* The image that was audited is there: `up' builds none in its place.
LEMMA ComposePasses ==
  ASSUME Inv, Passes(8), tag # NoImage => UNCHANGED <<images, tag>>,
         UNCHANGED <<archive, sbom, report, bundle, pinned, audited>>
  PROVE  Kept
<1> USE DEF Passes, Went, Without
<1>1. ImageInv'
  BY DEF Inv, ImageInv
<1>2. CheckedInv'
  BY DEF Inv, CheckedInv, CheckSbom
<1>3. BundleInv' /\ OverlayInv'
  BY DEF Inv, BundleInv, OverlayInv
<1> QED
  BY <1>1, <1>2, <1>3 DEF Kept

\* A saved archive holds the image that the tag has then.
LEMMA SavePasses ==
  ASSUME Inv, NEW n \in {10, 13}, Passes(n), archive' = tag,
         UNCHANGED <<images, tag, sbom, report, bundle, pinned, audited>>
  PROVE  Kept
<1> USE DEF Passes, Went, Without
<1>1. ImageInv'
  BY DEF Inv, ImageInv
<1>2. CheckedInv'
  BY DEF Inv, CheckedInv, CheckSbom
<1>3. BundleInv' /\ OverlayInv'
  BY DEF Inv, BundleInv, OverlayInv
<1> QED
  BY <1>1, <1>2, <1>3 DEF Kept

\* Syft describes the archive it was given.
LEMMA SbomScanPasses ==
  ASSUME Inv, Passes(11), sbom' = SbomOf(archive),
         UNCHANGED <<images, tag, archive, report, bundle, pinned, audited>>
  PROVE  Kept
<1> USE DEF Passes, Went, Without
<1>1. ImageInv'
  BY DEF Inv, ImageInv, SbomOf
<1>2. CheckedInv'
  BY DEF Inv, CheckedInv, CheckSbom
<1>3. BundleInv' /\ OverlayInv'
  BY DEF Inv, BundleInv, OverlayInv
<1> QED
  BY <1>1, <1>2, <1>3 DEF Kept

\* A passed SBOM check is about the SBOM in place.
LEMMA SbomCheckPasses ==
  ASSUME Inv, Passes(12), CheckSbom,
         UNCHANGED <<images, tag, archive, sbom, report, bundle, pinned, audited>>
  PROVE  Kept
<1> USE DEF Passes, Went, Without
<1>1. ImageInv'
  BY DEF Inv, ImageInv
<1>2. CheckedInv'
  BY DEF Inv, CheckedInv, CheckSbom
<1>3. BundleInv' /\ OverlayInv'
  BY DEF Inv, BundleInv, OverlayInv
<1> QED
  BY <1>1, <1>2, <1>3 DEF Kept

\* Trivy reports on the archive it was given.
LEMMA VulnScanPasses ==
  ASSUME Inv, Passes(14), report' = ReportOf(archive, database),
         UNCHANGED <<images, tag, archive, sbom, bundle, pinned, audited>>
  PROVE  Kept
<1> USE DEF Passes, Went, Without
<1>1. ImageInv'
  BY DEF Inv, ImageInv, ReportOf
<1>2. CheckedInv'
  BY DEF Inv, CheckedInv, CheckSbom
<1>3. BundleInv' /\ OverlayInv'
  BY DEF Inv, BundleInv, OverlayInv
<1> QED
  BY <1>1, <1>2, <1>3 DEF Kept

\* A passed policy is about the report in place.
LEMMA VulnPolicyPasses ==
  ASSUME Inv, Passes(15), report.is = "report", EvaluatePolicy(report.found),
         UNCHANGED <<images, tag, archive, sbom, report, bundle, pinned, audited>>
  PROVE  Kept
<1> USE DEF Passes, Went, Without
<1>1. ImageInv'
  BY DEF Inv, ImageInv
<1>2. CheckedInv'
  BY DEF Inv, CheckedInv, CheckSbom, EvaluatePolicy
<1>3. BundleInv' /\ OverlayInv'
  BY DEF Inv, BundleInv, OverlayInv
<1> QED
  BY <1>1, <1>2, <1>3 DEF Kept

\* A passed lifecycle gate compared the pins with the Dockerfile's base.
LEMMA PatchPasses ==
  ASSUME Inv, Passes(16), NEW base \in {pins.base, <<>>},
         Classify(base, pins.patched, pins.recorded) = "A-REQUIRED",
         UNCHANGED <<images, tag, archive, sbom, report, bundle, pinned, audited>>
  PROVE  Kept
<1>1. /\ base # <<>> /\ WellFormed(base) /\ WellFormed(pins.patched)
      /\ IsOlder(base, pins.patched)
  BY DEF Classify
<1>2. base = pins.base
  BY <1>1
<1> USE DEF Passes, Went, Without
<1>3. ImageInv'
  BY DEF Inv, ImageInv
<1>4. CheckedInv'
  BY DEF Inv, CheckedInv, CheckSbom
<1>5. BundleInv'
  BY DEF Inv, BundleInv
<1>6. OverlayInv'
  BY <1>1, <1>2 DEF Inv, OverlayInv
<1> QED
  BY <1>3, <1>4, <1>5, <1>6 DEF Kept

\* The bundle takes the SBOM and the report that are in place.
LEMMA BundlePasses ==
  ASSUME Inv, Passes(17), bundle' = BundleOf(sbom, report),
         UNCHANGED <<images, tag, archive, sbom, report, pinned, audited>>
  PROVE  Kept
<1> USE DEF Passes, Went, Without
<1>1. ImageInv'
  BY DEF Inv, ImageInv
<1>2. CheckedInv'
  BY DEF Inv, CheckedInv, CheckSbom
<1>3. BundleInv'
  BY DEF Inv, BundleInv, BundleOf
<1>4. OverlayInv'
  BY DEF Inv, OverlayInv
<1> QED
  BY <1>1, <1>2, <1>3, <1>4 DEF Kept

\* Every gate of release-check, passed or failed, keeps the evidence's chain.
LEMMA GateStep == ASSUME Inv, Gate PROVE Kept
<1>0. TypeInv
  BY DEF Inv
<1>1. status = "running" /\ (Passed \/ Failed)
  BY DEF Gate, AtGate, Quality, Build, AuditPins, AuditBase, AuditLibssl, Containers,
         Looks, ComposeUp, Reproducibility, Save, SbomScan, SbomCheck, VulnScan, VulnPolicy, PatchLifecycle, ReleaseBundle
<1>2. CASE Failed
  BY <1>0, <1>1, <1>2, Moves, Vacuous DEF Kept
<1>3. CASE goal # "release-check"
  BY <1>0, <1>1, <1>2, <1>3, Moves, Vacuous DEF Kept
<1>4. CASE ~Failed /\ goal = "release-check"
  <2>1. Passes(gate)
    BY <1>0, <1>1, <1>4, Moves
  <2>2. CASE Quality
    BY <1>0, <1>4, <2>1, <2>2, GateNumber, OnlyLooks DEF Quality
  <2>3. CASE Build
    BY <1>0, <1>4, <2>1, <2>3, GateNumber, BuildPasses DEF Build
  <2>4. CASE AuditPins
    BY <1>0, <1>4, <2>1, <2>4, GateNumber, PinsPasses DEF AuditPins
  <2>14. CASE AuditBase
    BY <1>0, <1>4, <2>1, <2>14, GateNumber, LookPasses DEF AuditBase
  <2>15. CASE AuditLibssl
    BY <1>0, <1>4, <2>1, <2>15, GateNumber, LookPasses DEF AuditLibssl
  <2>16. CASE Containers
    BY <1>0, <1>4, <2>1, <2>16, GateNumber, LookPasses DEF Containers
  <2>5. CASE ComposeUp
    <3>1. tag # NoImage => UNCHANGED <<images, tag>>
      BY <1>4, <2>5 DEF ComposeUp
    <3> QED
      BY <1>0, <1>4, <2>1, <2>5, <3>1, GateNumber, ComposePasses DEF ComposeUp
  <2>6. CASE Reproducibility
    BY <1>0, <1>4, <2>1, <2>6, GateNumber, OnlyLooks DEF Reproducibility
  <2>7. CASE Save
    BY <1>0, <1>4, <2>1, <2>7, GateNumber, SavePasses DEF Save
  <2>8. CASE SbomScan
    BY <1>0, <1>4, <2>1, <2>8, GateNumber, SbomScanPasses DEF SbomScan
  <2>9. CASE SbomCheck
    BY <1>0, <1>4, <2>1, <2>9, GateNumber, SbomCheckPasses DEF SbomCheck
  <2>10. CASE VulnScan
    BY <1>0, <1>4, <2>1, <2>10, GateNumber, VulnScanPasses DEF VulnScan
  <2>11. CASE VulnPolicy
    BY <1>0, <1>4, <2>1, <2>11, GateNumber, VulnPolicyPasses DEF VulnPolicy
  <2>12. CASE PatchLifecycle
    <3>1. PICK base \in {pins.base, <<>>} :
            Classify(base, pins.patched, pins.recorded) = "A-REQUIRED"
      BY <1>4, <2>12 DEF PatchLifecycle
    <3> QED
      BY <1>0, <1>4, <2>1, <2>12, <3>1, GateNumber, PatchPasses
         DEF PatchLifecycle
  <2>13. CASE ReleaseBundle
    BY <1>0, <1>4, <2>1, <2>13, GateNumber, BundlePasses DEF ReleaseBundle
  <2> QED
    BY <2>2, <2>3, <2>4, <2>5, <2>6, <2>7, <2>8, <2>9, <2>10, <2>11, <2>12, <2>13,
       <2>14, <2>15, <2>16 DEF Gate
<1> QED
  BY <1>2, <1>3, <1>4
-----------------------------------------------------------------------------
(* Everybody else.                                                         *)

\* Nothing that a green make answers for is touched.
LEMMA StillStep ==
  ASSUME Inv, disturbed \subseteq disturbed',
         UNCHANGED <<pins, images, tag, archive, sbom, report, bundle, goal, gate,
                     status, pinned, audited>>
  PROVE  Kept
<1> USE DEF Went, Without
<1>1. ImageInv'
  BY DEF Inv, ImageInv
<1>2. CheckedInv'
  BY DEF Inv, CheckedInv, CheckSbom
<1>3. BundleInv' /\ OverlayInv'
  BY DEF Inv, BundleInv, OverlayInv
<1> QED
  BY <1>1, <1>2, <1>3 DEF Kept

\* A new make has nothing to show yet.
LEMMA MakeStep == ASSUME Inv, NEW g \in DOMAIN Gates, Make(g) PROVE Kept
<1>1. status' = "running" /\ gate' = 1 /\ audited' = {}
  BY DEF Make
<1> QED
  BY <1>1 DEF Kept, Went, ImageInv, CheckedInv, BundleInv, OverlayInv

\* A scanner that writes nothing leaves the file that was there.
LEMMA SilentStep == ASSUME Inv, SilentScan PROVE Kept
<1>1. /\ status = "running" /\ status' = status /\ goal' = goal
      /\ gate' = gate + 1 /\ disturbed' = disturbed \cup {"silent"}
      /\ UNCHANGED <<pins, sbom, report, bundle, pinned, audited>>
  BY DEF SilentScan, AtGate
<1>2. CASE goal # "release-check"
  BY <1>1, <1>2, Vacuous
<1>3. CASE goal = "release-check"
  <2>1. gate = 11 \/ gate = 14
    BY <1>3, GateNumber DEF SilentScan, Inv
  <2>2. ImageInv'
    BY <1>1 DEF ImageInv, Without
  <2>3. CheckedInv'
    BY <1>1, <1>3, <2>1 DEF Inv, CheckedInv, CheckSbom, Went, Without
  <2>4. BundleInv' /\ OverlayInv'
    BY <1>1, <1>3, <2>1 DEF Inv, BundleInv, OverlayInv, Went, Without
  <2> QED
    BY <2>2, <2>3, <2>4 DEF Kept
<1> QED
  BY <1>2, <1>3

\* A build in another terminal may break the chain only where it is excused.
LEMMA RetagStep == ASSUME Inv, Retag PROVE Kept
<1>1. /\ disturbed' = disturbed \cup {"retag"}
      /\ UNCHANGED <<pins, sbom, report, bundle, goal, gate, status, pinned,
                     audited>>
  BY DEF Retag, Outside
<1>2. ImageInv'
  BY <1>1 DEF ImageInv, Without
<1>3. CheckedInv'
  BY <1>1 DEF Inv, CheckedInv, CheckSbom, Went, Without
<1>4. BundleInv' /\ OverlayInv'
  BY <1>1 DEF Inv, BundleInv, OverlayInv, Went, Without
<1> QED
  BY <1>2, <1>3, <1>4 DEF Kept

\* So may an edit of the Dockerfile or the lock file.
LEMMA EditStep == ASSUME Inv, Edit PROVE Kept
<1>1. /\ disturbed' = disturbed \cup {"edit"}
      /\ UNCHANGED <<images, tag, archive, sbom, report, bundle, goal, gate,
                     status, pinned, audited>>
  BY DEF Edit, Outside
<1>2. ImageInv'
  BY <1>1 DEF Inv, ImageInv, Went, Without
<1>3. CheckedInv' /\ OverlayInv'
  BY <1>1 DEF CheckedInv, OverlayInv, Without
<1>4. BundleInv'
  BY <1>1 DEF Inv, BundleInv, Went, Without
<1> QED
  BY <1>2, <1>3, <1>4 DEF Kept

\* And a scanner that outlived its client.
LEMMA LateStep == ASSUME Inv, LateWrite PROVE Kept
<1>1. /\ disturbed' = disturbed \cup {"late"}
      /\ UNCHANGED <<pins, goal, gate, status, pinned,
                     audited>>
  BY DEF LateWrite
<1>2. ImageInv' /\ CheckedInv' /\ BundleInv'
  BY <1>1 DEF ImageInv, CheckedInv, BundleInv, Without
<1>3. OverlayInv'
  BY <1>1 DEF Inv, OverlayInv, Went, Without
<1> QED
  BY <1>2, <1>3 DEF Kept

\* Before the first make the invariant holds.
LEMMA InvInit == Init => Inv
<1> SUFFICES ASSUME Init PROVE Inv
  OBVIOUS
<1>1. status = "idle"
  BY DEF Init
<1> QED
  BY <1>1, TypeInit DEF Inv, Went, ImageInv, CheckedInv, BundleInv, OverlayInv

\* Every step of make, of a person or of a left-over scanner keeps it.
LEMMA InvStep == Inv /\ [Next]_vars => Inv'
<1> SUFFICES ASSUME Inv, [Next]_vars PROVE Kept
  BY TypeStep DEF Inv, Kept
<1>1. CASE \E g \in DOMAIN Gates : Make(g)
  BY <1>1, MakeStep
<1>2. CASE Gate
  BY <1>2, GateStep
<1>3. CASE SilentScan
  BY <1>3, SilentStep
<1>4. CASE ScanTimesOut
  BY <1>4, Vacuous DEF ScanTimesOut
<1>5. CASE Retag
  BY <1>5, RetagStep
<1>6. CASE Edit
  BY <1>6, EditStep
<1>7. CASE Disclose \/ UNCHANGED vars
  BY <1>7, StillStep DEF Disclose, Outside, vars
<1>8. CASE LateWrite
  BY <1>8, LateStep
<1> QED
  BY <1>1, <1>2, <1>3, <1>4, <1>5, <1>6, <1>7, <1>8 DEF Next

(* The evidence, gate by gate, with everything that may come in between.   *)
THEOREM SupplyInvariance == Spec => []Inv
<1> QED
  BY InvInit, InvStep, PTL DEF Spec
-----------------------------------------------------------------------------
(* A green release-check is about one image, unless something of the three *)
(* that the code cannot see brought in another.                            *)
THEOREM OneImage == Spec => []GreenIsOneImage
<1>1. Inv => GreenIsOneImage
  BY DEF Inv, ImageInv, BundleInv, Went, Without, Green, GreenIsOneImage
<1> QED
  BY <1>1, SupplyInvariance, PTL

(* The bundle of a green release-check holds evidence that was checked, on  *)
(* whatever image, and although scans may be silent and tags may move.     *)
THEOREM EvidenceChecked == Spec => []BundleIsChecked
<1>1. Inv => BundleIsChecked
  <2> SUFFICES ASSUME Inv, Green("release-check"),
                      {"late", "edit"} \cap disturbed = {}
               PROVE  /\ bundle.sbom.is = "sbom"
                      /\ bundle.sbom.of.libssl = pins.patched
                      /\ bundle.report.is = "report"
                      /\ ~(\E v \in bundle.report.found :
                             \/ v.severity = "CRITICAL"
                             \/ v.severity = "HIGH" /\ v.fixed)
    BY DEF BundleIsChecked
  <2>1. Went(12) /\ Went(15) /\ Went(17)
    BY DEF Green, Went
  <2>2. bundle.sbom = sbom /\ bundle.report = report
    BY <2>1 DEF Inv, BundleInv, BundleOf, Without
  <2>3. CheckSbom /\ report.is = "report" /\ EvaluatePolicy(report.found)
    BY <2>1 DEF Inv, CheckedInv, Without
  <2> QED
    BY <2>2, <2>3 DEF CheckSbom, EvaluatePolicy
<1> QED
  BY <1>1, SupplyInvariance, PTL

(* However often the tag was moved: the library in the bundled SBOM of a    *)
(* green release-check is newer, in the order of Debian Policy, than what  *)
(* the pinned base has; and an image that all looks were at, if the bundle *)
(* describes it, has a library newer than its own base's.  Excused are an  *)
(* edit of the pins meanwhile, and a left-over scanner.                    *)
THEOREM NoDowngrade == Spec => []NeverDowngrades
<1>1. Inv => NeverDowngrades
  <2> SUFFICES ASSUME Inv, Green("release-check"),
                      {"late", "edit"} \cap disturbed = {}
               PROVE  /\ OlderByPolicy(pins.base, bundle.sbom.of.libssl)
                      /\ \A image : audited = {image} =>
                           OlderByPolicy(image.base, image.libssl)
    BY DEF NeverDowngrades
  <2>1. Went(4) /\ Went(5) /\ Went(12) /\ Went(16) /\ Went(17)
    BY DEF Green, Went
  <2>2. Without({"edit"}) /\ Without({"late"}) /\ Without({"late", "edit"})
    BY DEF Without
  <2>3. IsOlder(pins.base, pins.patched)
    BY <2>1, <2>2 DEF Inv, OverlayInv
  <2>4. pins.base \in Seq(Characters) /\ pins.patched \in Seq(Characters)
    BY PinsAssumption DEF Inv, TypeInv, TypeOK
  <2>5. OlderByPolicy(pins.base, pins.patched)
    BY <2>3, <2>4, CompareOrders DEF IsOlder
  <2>6. bundle.sbom.of.libssl = pins.patched
    BY <2>1, <2>2 DEF Inv, BundleInv, BundleOf, CheckedInv, CheckSbom
  <2>7. ASSUME NEW image, audited = {image}
        PROVE  image.base = pins.base /\ image.libssl = pins.patched
    BY <2>1, <2>2, <2>7 DEF Inv, OverlayInv
  <2> QED
    BY <2>5, <2>6, <2>7
<1> QED
  BY <1>1, SupplyInvariance, PTL

(* The versions that a run compares are no exceptions: OrderIsDebians holds *)
(* of any set of strings.                                                  *)
THEOREM OrderIsPolicy == Spec => []OrderIsDebians
<1>1. ASSUME NEW a \in Compared, NEW b \in Compared
      PROVE  /\ (Compare(a, b) < 0) = OlderByPolicy(a, b)
             /\ (Compare(a, b) > 0) = OlderByPolicy(b, a)
  <2>1. a \in Seq(Characters) /\ b \in Seq(Characters)
    BY ComparedAssumption
  <2>2. /\ Compare(a, b) < 0 <=> OlderByPolicy(a, b)
        /\ Compare(a, b) > 0 <=> OlderByPolicy(b, a)
    BY <2>1, CompareOrders
  <2>3. OlderByPolicy(a, b) \in BOOLEAN /\ OlderByPolicy(b, a) \in BOOLEAN
    BY DEF OlderByPolicy
  <2> QED
    BY <2>2, <2>3
<1>2. OrderIsDebians
  BY <1>1 DEF OrderIsDebians
<1> QED
  BY <1>2, PTL
=============================================================================
