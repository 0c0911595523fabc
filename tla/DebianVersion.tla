---------------------------- MODULE DebianVersion ----------------------------
(***************************************************************************)
(* The order of Debian version strings (scripts/security/debian_version.py) *)
(* and, for reference, the order that Debian Policy asks for.              *)
(*                                                                         *)
(* A version string is the sequence of the ASCII codes of its characters:  *)
(* here the property is about the characters.                              *)
(***************************************************************************)
EXTENDS Integers, Sequences, SequencesExt

Characters == 33..126  \* strip() takes white space away
Tilde  == 126
Colon  == 58
Hyphen == 45
Zero   == 48

Digits  == 48..57
Letters == 65..90 \cup 97..122

\* Behind the last character.
Nothing == 0

At(s, i) == IF i <= Len(s) THEN s[i] ELSE Nothing

\* Mutant: `~' sorts like any other character that is no letter.
OrderTildeLast(c) ==
  IF c = Nothing \/ c \in Digits THEN 0
  ELSE IF c \in Letters THEN c
  ELSE c + 256

\* _order
Order(c) ==
  IF c = Nothing \/ c \in Digits THEN 0
  ELSE IF c \in Letters THEN c
  ELSE IF c = Tilde THEN -1
  ELSE c + 256

Sign(m, n) == IF m < n THEN -1 ELSE IF m > n THEN 1 ELSE 0

\* Behind the run of digits that begins at position i (or does not).
RunEnd(s, i) ==
  CHOOSE k \in i..(Len(s) + 1) :
    /\ At(s, k) \notin Digits
    /\ \A m \in i..(k - 1) : At(s, m) \in Digits

\* int(run or "0"), digit by digit
Values(s, i) ==
  LET value[k \in (i - 1)..(RunEnd(s, i) - 1)] ==
        IF k = i - 1 THEN 0 ELSE 10 * value[k - 1] + (s[k] - Zero)
  IN  value

Number(s, i) == Values(s, i)[RunEnd(s, i) - 1]

Positions(a, b) == (1..(Len(a) + 1)) \X (1..(Len(b) + 1))

\* a at position i or b at position j goes on with text.
InText(a, i, b, j) ==
  \/ i <= Len(a) /\ a[i] \notin Digits
  \/ j <= Len(b) /\ b[j] \notin Digits

\* What is compared, and where it ends: a character of text, or a number.
Key(s, i, text) == IF text THEN Order(At(s, i)) ELSE Number(s, i)

Behind(s, i, text) ==
  IF ~text THEN RunEnd(s, i) ELSE IF i <= Len(s) THEN i + 1 ELSE i

\* Mutant: the comparison ends with the shorter string.
ComparisonShort(a, b) ==
  LET cmp[p \in Positions(a, b)] ==
        LET text == InText(a, p[1], b, p[2])
            x == Key(a, p[1], text)
            y == Key(b, p[2], text)
        IN  IF p[1] > Len(a) \/ p[2] > Len(b) THEN Sign(Len(a) - p[1], Len(b) - p[2])
            ELSE IF x # y THEN Sign(x, y)
            ELSE cmp[<<Behind(a, p[1], text), Behind(b, p[2], text)>>]
  IN  cmp

\* The loop of _verrevcmp, from any two positions on.
Comparison(a, b) ==
  LET cmp[p \in Positions(a, b)] ==
        LET text == InText(a, p[1], b, p[2])
            x == Key(a, p[1], text)
            y == Key(b, p[2], text)
        IN  IF p[1] > Len(a) /\ p[2] > Len(b) THEN 0
            ELSE IF x # y THEN Sign(x, y)
            ELSE cmp[<<Behind(a, p[1], text), Behind(b, p[2], text)>>]
  IN  cmp

\* _verrevcmp
VerRevCmp(a, b) == Comparison(a, b)[<<1, 1>>]

Malformed == [epoch |-> -1, upstream |-> <<>>, revision |-> <<>>]

\* _split_version
Split(v) ==
  LET colon    == SelectInSeq(v, LAMBDA c : c = Colon)
      epoch    == SubSeq(v, 1, colon - 1)
      rest     == SubSeq(v, colon + 1, Len(v))
      hyphen   == SelectLastInSeq(rest, LAMBDA c : c = Hyphen)
      upstream == IF hyphen = 0 THEN rest ELSE SubSeq(rest, 1, hyphen - 1)
  IN  IF \/ colon # 0 /\ (epoch = <<>> \/ \E i \in DOMAIN epoch : epoch[i] \notin Digits)
         \/ upstream = <<>> \/ At(upstream, 1) \notin Digits
      THEN Malformed
      ELSE [ epoch    |-> Number(epoch, 1),
             upstream |-> upstream,
             revision |-> IF hyphen = 0 THEN <<Zero>>
                          ELSE SubSeq(rest, hyphen + 1, Len(rest)) ]

WellFormed(v) == Split(v) # Malformed

\* compare_debian_versions, of two well-formed versions
Compare(a, b) ==
  LET va == Split(a)
      vb == Split(b)
      up == VerRevCmp(va.upstream, vb.upstream)
  IN  IF va.epoch # vb.epoch THEN Sign(va.epoch, vb.epoch)
      ELSE IF up # 0 THEN up
      ELSE VerRevCmp(va.revision, vb.revision)

IsOlder(a, b) == Compare(a, b) < 0

(***************************************************************************)
(* Debian Policy 5.6.12 for reference: the ranks of a part, two for each   *)
(* character of text and two for each number with the end of the text that *)
(* it follows, compared as sequences of integers that go on with zeros.    *)
(***************************************************************************)
\* A tilde sorts before anything, even the end of a text (0), letters before
\* all the rest.
Class(c) == IF c = Tilde THEN -1 ELSE IF c \in Letters THEN 1 ELSE 2

RanksFrom(s) ==
  LET from[i \in 1..(Len(s) + 1)] ==
        IF i > Len(s) THEN <<>>
        ELSE IF s[i] \in Digits THEN <<0, Number(s, i)>> \o from[RunEnd(s, i)]
        ELSE <<Class(s[i]), s[i]>> \o from[i + 1]
  IN  from

Ranks(s) == RanksFrom(s)[1]

Place(r, i) == IF i <= Len(r) THEN r[i] ELSE 0

\* The first difference decides.
Precedes(r, q) ==
  \E i \in 1..(Len(r) + Len(q)) :
    /\ Place(r, i) < Place(q, i)
    /\ \A k \in 1..(i - 1) : Place(r, k) = Place(q, k)

OlderByPolicy(a, b) ==
  LET va == Split(a)
      vb == Split(b)
      SameEpoch == va.epoch = vb.epoch
      SameUpstream == ~Precedes(Ranks(va.upstream), Ranks(vb.upstream))
                      /\ ~Precedes(Ranks(vb.upstream), Ranks(va.upstream))
  IN  \/ va.epoch < vb.epoch
      \/ SameEpoch /\ Precedes(Ranks(va.upstream), Ranks(vb.upstream))
      \/ SameEpoch /\ SameUpstream /\ Precedes(Ranks(va.revision), Ranks(vb.revision))
=============================================================================
