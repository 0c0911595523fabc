--------------------------- MODULE MCRequestChain ---------------------------
(* RequestChain on a small instance: see MCRequestChain*.cfg.              *)
EXTENDS RequestChain, TLC

Symmetry == Permutations(Requests)
=============================================================================
