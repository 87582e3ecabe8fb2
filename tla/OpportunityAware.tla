-------------------------- MODULE OpportunityAware --------------------------
(***************************************************************************)
(* The solver by opportunity-aware efficiency                              *)
(* (solveByOpportunityAwareEfficiency): each turn places, of all unplaced  *)
(* guests and all hosts that accommodate them, the pair of greatest score, *)
(* or else the largest guest on a new host.  Unplaced guests are in a hash *)
(* set, so a tie between guests goes either way.                           *)
(***************************************************************************)
EXTENDS Scores

VARIABLES
    instance,  \* the guests to pack, never changed
    unplaced,  \* the set of guests to place
    hosts      \* the hosts opened so far

vars == <<instance, unplaced, hosts>>

Init ==
    /\ \E n \in 0 .. MaxGuests : \E pages \in [1 .. n -> PageSet] : instance = InstanceOf(pages)
    /\ unplaced = GuestsOf(instance)
    /\ hosts = <<>>

Done == unplaced = {}

(* Mutants: whether the guest fits is not asked; or a placement must score *)
(* more than nothing (an initial bestScore of 0).                          *)
CandidatesUnasked ==
    {c \in unplaced \X DOMAIN hosts : ~IsNaN(Score(c[1], hosts, c[2]))}

CandidatesAboveZero ==
    {c \in unplaced \X DOMAIN hosts :
        /\ AccommodatesGuest(hosts[c[2]], c[1])
        /\ Score(c[1], hosts, c[2]).num > 0}

(* The placements with a score, as pairs <<guest, host>>.  One that is not *)
(* a number is greater than nothing and is never taken.                    *)
Candidates ==
    {c \in unplaced \X DOMAIN hosts :
        /\ AccommodatesGuest(hosts[c[2]], c[1])
        /\ ~IsNaN(Score(c[1], hosts, c[2]))}

(* The greatest scores, and for each guest the first host that gives it.   *)
BestCandidates ==
    LET greatest == {c \in Candidates : \A d \in Candidates :
                        ~ScoreGreater(Score(d[1], hosts, d[2]), Score(c[1], hosts, c[2]))}
    IN  {c \in greatest : \A d \in greatest : d[1] = c[1] => c[2] <= d[2]}

LargestGuests == {g \in unplaced : \A h \in unplaced : Cardinality(g.pages) >= Cardinality(h.pages)}

(* Mutant: the guest is not erased from the set. *)
PlaceBestAgain ==
    /\ \E c \in BestCandidates : hosts' = PlaceOn(hosts, c[2], c[1])
    /\ UNCHANGED <<instance, unplaced>>

PlaceBest ==
    /\ \E c \in BestCandidates :
          /\ hosts' = PlaceOn(hosts, c[2], c[1])
          /\ unplaced' = unplaced \ {c[1]}
    /\ UNCHANGED instance

OpenForLargest ==
    /\ Candidates = {}
    /\ \E g \in LargestGuests :
          /\ hosts' = OpenHostFor(hosts, g)
          /\ unplaced' = unplaced \ {g}
    /\ UNCHANGED instance

Next == PlaceBest \/ OpenForLargest

Spec == Init /\ [][Next]_vars

-----------------------------------------------------------------------------
(* Types; and the unplaced guests are those on no host.                    *)
TypeOK ==
    /\ IsInstance(instance)
    /\ \A i \in DOMAIN hosts : IsHost(hosts[i])
    /\ PlacedGuests(hosts) \subseteq GuestsOf(instance)
    /\ unplaced = GuestsOf(instance) \ PlacedGuests(hosts)

(* The packing returned is valid (vmp_solvers.h:261, vmp_packing.h:61-86), *)
(* if each guest fits a host; otherwise it has an overfull host, and such  *)
(* a host has one guest only, for which it was opened                      *)
(* (vmp_solvers.h:299-304).  In either case no guest is on two hosts.      *)
ResultValid ==
    Done => /\ ValidateForInstance(hosts, instance) =
                  IF AllGuestsFit(instance) THEN "PACKING_OKAY" ELSE "PACKING_HOST_OVERFULL"
            /\ OverfullHostsHaveOne(hosts)
            /\ NoGuestTwice(hosts)

(* The solver packs bins: a guest goes only where it fits; and when all    *)
(* guests have pages, one that opens a host fits none of the others,       *)
(* though it is chosen by size alone (vmp_solvers.h:280-303).  The score   *)
(* of a guest without pages can be no number, and such a guest gets a host *)
(* it does not need.                                                       *)
Packs == INSTANCE BinPacking WITH
            anyFit <- \A i \in DOMAIN instance : HasRatio(instance[i]),
            Feasible <- {S \in SUBSET Guest : FitTogether(S)},
            bins <- [i \in DOMAIN hosts |-> hosts[i].guests]

PacksBins == Packs!Spec
=============================================================================
