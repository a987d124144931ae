------------------------------- MODULE MCBench -------------------------------
(* Two calls of two attempts over a cycle of two domains, one failure.      *)
EXTENDS Bench
=============================================================================
