---------------------------- MODULE MCMaximisers ----------------------------
(* Maximisers for TLC: pages are model values and can be renamed.          *)
EXTENDS Maximisers, TLC

Symmetry == Permutations(Page)
=============================================================================
