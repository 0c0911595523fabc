-------------------------- MODULE MCResourceUpdate --------------------------
(* ResourceUpdate on a small instance: see MCResourceUpdate*.cfg.           *)
EXTENDS ResourceUpdate
=============================================================================
