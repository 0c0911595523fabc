--------------------------- MODULE MCReleasePipeline ---------------------------
(* Two commits of one version, a third of another without its notes, and the  *)
(* tags of both: what two runs, re-runs and moved tags can mix up.            *)
EXTENDS ReleasePipeline, TLC

CONSTANTS c1, c2, c3, t1, t2, r1, r2

MCVersionTag == [c \in Commits |-> IF c = c3 THEN t2 ELSE t1]
MCWithNotes == {c1, c2}
Symmetry == Permutations({r1, r2}) \cup Permutations({c1, c2})
=============================================================================
