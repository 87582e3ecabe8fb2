----------------------------- MODULE Components -----------------------------
(***************************************************************************)
(* Guests connected by shared pages, stated without an algorithm: a set of *)
(* guests is closed when no guest outside shares a page with one inside,   *)
(* and the components are the smallest non-empty closed sets.              *)
(***************************************************************************)
EXTENDS Host

GuestsHaveSharedPage(g, h) == g.pages \cap h.pages # {}

IsClosed(C, S) == \A g \in C, h \in S \ C : ~GuestsHaveSharedPage(g, h)

ComponentsOf(S) ==
    {C \in (SUBSET S) \ {{}} :
        /\ IsClosed(C, S)
        /\ \A D \in (SUBSET C) \ {{}} : IsClosed(D, S) => D = C}
=============================================================================
