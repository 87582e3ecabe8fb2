------------------------ MODULE MCSequentialPackers -------------------------
(* The sequential packers on small instances; pages are interchangeable. *)
EXTENDS SequentialPackers, TLC

Symmetry == Permutations(Page)
=============================================================================
