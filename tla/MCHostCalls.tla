---------------------------- MODULE MCHostCalls -----------------------------
(* HostCalls on small instances; pages are interchangeable. *)
EXTENDS HostCalls, TLC

Symmetry == Permutations(Page)
=============================================================================
