---------------------------- MODULE MCTreeSolver ----------------------------
(* TreeSolver for TLC: pages are model values and can be renamed.          *)
EXTENDS TreeSolver

Symmetry == Permutations(Page)
=============================================================================
