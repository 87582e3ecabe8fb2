---------------------------- MODULE MCDecanting -----------------------------
(* Decanting on small packings; pages are interchangeable. *)
EXTENDS Decanting, TLC

Symmetry == Permutations(Page)
=============================================================================
