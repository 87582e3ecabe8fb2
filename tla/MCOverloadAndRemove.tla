------------------------ MODULE MCOverloadAndRemove -------------------------
(* OverloadAndRemove on small instances; no symmetry, for Terminates. *)
EXTENDS OverloadAndRemove

=============================================================================
