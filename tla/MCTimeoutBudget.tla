--------------------------- MODULE MCTimeoutBudget ---------------------------
(* TimeoutBudget on a small instance: see MCTimeoutBudget*.cfg.            *)
EXTENDS TimeoutBudget
=============================================================================
