---------------------------- MODULE MCSupplyChain ----------------------------
(* SupplyChain on a small instance: see MCSupplyChain.cfg.                 *)
EXTENDS SupplyChain

Chars == <<"0", "1", "2", "3", "5", "6", "7", "~", "a", "b", "d", "u", ".", "-", ":">>
Codes == << 48,  49,  50,  51,  53,  54,  55, 126,  97,  98, 100, 117,  46,  45,  58>>

Text(s) == [i \in DOMAIN s |-> Codes[CHOOSE n \in DOMAIN Chars : Chars[n] = s[i]]]

\* Versions of the library, by age: 1~d1, 1~d2, 1.
V1 == Text(<<"1", "~", "d", "1">>)
V2 == Text(<<"1", "~", "d", "2">>)
V3 == Text(<<"1">>)

Pin(base, overlay, patched, recorded) ==
  [base |-> base, overlay |-> overlay, patched |-> patched, recorded |-> recorded]

\* The overlay is needed; the base has overtaken it (but `~' only), drifted or
\* lost its version; Dockerfile and lock differ.
MCPins ==
  { Pin(V1, V2, V2, V1), Pin(V3, V2, V2, V3), Pin(V1, V2, V2, V2),
    Pin(Text(<<"d">>), V2, V2, Text(<<"d">>)), Pin(V1, V1, V2, V1) }

Vulnerability(severity, fixed) == [severity |-> severity, fixed |-> fixed]
MCDisclosures == { Vulnerability("CRITICAL", FALSE), Vulnerability("HIGH", TRUE),
                   Vulnerability("HIGH", FALSE) }

\* Every string of up to three of the characters that the order tells apart, the
\* pinned versions, and the two of runtime-patches.lock with a neighbour.
MCCompared ==
  {Text(s) : s \in UNION {[1..n -> {"0", "1", "~", "a", ".", "-", ":"}] : n \in 0..3}}
  \cup {p.base : p \in MCPins} \cup {p.patched : p \in MCPins}
  \cup { Text(<<"3", ".", "5", ".">> \o minor \o <<"-", "1", "~", "d", "b", "1", "3", "u", "2">>) :
           minor \in {<<"6">>, <<"7">>, <<"1", "0">>} }
=============================================================================
