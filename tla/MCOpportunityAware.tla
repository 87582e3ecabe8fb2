------------------------- MODULE MCOpportunityAware -------------------------
(* OpportunityAware on small instances; pages are interchangeable. *)
EXTENDS OpportunityAware, TLC

Symmetry == Permutations(Page)
=============================================================================
