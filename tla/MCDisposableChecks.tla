------------------------- MODULE MCDisposableChecks -------------------------
(* All five scripts, each from its start to its end with a make clean at any *)
(* time: nothing is left out, and the state space is finite as it is.        *)
EXTENDS DisposableChecks
=============================================================================
