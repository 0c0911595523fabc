------------------------------ MODULE MCHarness ------------------------------
(* One crash nobody asked for and one SIGTERM: each may hit any step of      *)
(* either script, on a good platform and on each of the bad ones.            *)
EXTENDS Harness
=============================================================================
