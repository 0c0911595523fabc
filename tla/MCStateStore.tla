---------------------------- MODULE MCStateStore ----------------------------
(* StateStore on a small instance: see MCStateStore.cfg.                   *)
EXTENDS StateStore
=============================================================================
