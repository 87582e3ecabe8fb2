------------------------- MODULE SequentialPackers --------------------------
(***************************************************************************)
(* The solvers that take the guests of an instance one after the other, in *)
(* the order of the vector, and never move one again (vmp_solvers.h): Next *)
(* Fit, First Fit and "Best Fusion" by efficiency.  A step is one turn of  *)
(* the solver's loop, for the guest at guestsBegin; the solvers differ     *)
(* only in the host they choose.                                           *)
(***************************************************************************)
EXTENDS Scores

VARIABLES
    solver,    \* the solver that runs
    instance,  \* the guests to pack, never changed
    next,      \* the position of the guest to place (guestsBegin)
    hosts      \* the hosts opened so far

vars == <<solver, instance, next, hosts>>

Solver == {"next_fit", "first_fit", "efficiency"}

Init ==
    /\ solver \in Solver
    /\ \E n \in 0 .. MaxGuests : \E pages \in [1 .. n -> PageSet] : instance = InstanceOf(pages)
    /\ next = 1
    /\ hosts = <<>>

(* The solver has returned its packing. *)
Done == next > Len(instance)

Runs(s) == solver = s /\ ~Done

(* The end of a turn: the guest has gone to hosts[i], or to a new host. *)
PlaceNextOn(i) ==
    /\ hosts' = PlaceOn(hosts, i, instance[next])
    /\ next' = next + 1
    /\ UNCHANGED <<solver, instance>>

(* Mutant: guestsBegin moves twice. *)
PlaceNextOnNewHostSkipping ==
    /\ hosts' = OpenHostFor(hosts, instance[next])
    /\ next' = next + 2
    /\ UNCHANGED <<solver, instance>>

PlaceNextOnNewHost ==
    /\ hosts' = OpenHostFor(hosts, instance[next])
    /\ next' = next + 1
    /\ UNCHANGED <<solver, instance>>

-----------------------------------------------------------------------------
(* Next Fit: the last host or a new one. *)

LastAccommodates(g) == hosts # <<>> /\ AccommodatesGuest(hosts[Len(hosts)], g)

NextFitPlace ==
    /\ Runs("next_fit")
    /\ LastAccommodates(instance[next])
    /\ PlaceNextOn(Len(hosts))

NextFitOpen ==
    /\ Runs("next_fit")
    /\ ~LastAccommodates(instance[next])
    /\ PlaceNextOnNewHost

-----------------------------------------------------------------------------
(* First Fit: the first host that accommodates the guest, or a new one. *)

(* Mutant: the last host instead of the first. *)
LastOf(S) == {i \in S : \A j \in S : i >= j}

First(S) == {i \in S : \A j \in S : i <= j}

FirstFitPlace ==
    /\ Runs("first_fit")
    /\ \E i \in First(Accommodating(hosts, instance[next])) : PlaceNextOn(i)

(* Mutant: only the last host is asked before one is opened. *)
FirstFitOpenWhenLastRefuses ==
    /\ Runs("first_fit")
    /\ Len(hosts) \notin Accommodating(hosts, instance[next])
    /\ PlaceNextOnNewHost

FirstFitOpen ==
    /\ Runs("first_fit")
    /\ Accommodating(hosts, instance[next]) = {}
    /\ PlaceNextOnNewHost

-----------------------------------------------------------------------------
(* Efficiency: the host where the guest costs least, or a new one when no  *)
(* host qualifies.                                                         *)

EfficiencyPlace ==
    /\ Runs("efficiency")
    /\ \E i \in MostEfficient(hosts, instance[next]) : PlaceNextOn(i)

EfficiencyOpen ==
    /\ Runs("efficiency")
    /\ Qualifying(hosts, instance[next]) = {}
    /\ PlaceNextOnNewHost

Next ==
    \/ NextFitPlace \/ NextFitOpen
    \/ FirstFitPlace \/ FirstFitOpen
    \/ EfficiencyPlace \/ EfficiencyOpen

Spec == Init /\ [][Next]_vars

-----------------------------------------------------------------------------
(* Types. *)
TypeOK ==
    /\ solver \in Solver
    /\ IsInstance(instance)
    /\ next \in 1 .. Len(instance) + 1
    /\ DOMAIN hosts = 1 .. Len(hosts)
    /\ \A i \in DOMAIN hosts : IsHost(hosts[i])

(* Every host's page counts stay true to its guests while guests are       *)
(* added, so a guest is never added to a host twice (vmp_host.cpp:11-19).  *)
CountsTrue == AllFrequenciesMatch(hosts)

(* The result is "a valid packing", as the solvers' comments promise       *)
(* (vmp_solvers.h:53, 99, 156) and validateForInstance decides             *)
(* (vmp_packing.h:61-86), if each guest fits a host.  Otherwise the        *)
(* verdict is that a host is overfull, and an overfull host has one guest  *)
(* only, for which it was opened (vmp_solvers.h:42-45, 86-91, 144-148).    *)
(* In either case, which the verdict does not look at, no guest is on two  *)
(* hosts, and the guest count the packing caches is that of the instance   *)
(* (vmp_packing.cpp:8-14).                                                 *)
ResultValid ==
    Done => /\ ValidateForInstance(hosts, instance) =
                  IF AllGuestsFit(instance) THEN "PACKING_OKAY" ELSE "PACKING_HOST_OVERFULL"
            /\ OverfullHostsHaveOne(hosts)
            /\ NoGuestTwice(hosts)
            /\ MakePacking(hosts).guestCount = Len(instance)

(* No solver ever leaves two neighbouring hosts that could be one, not     *)
(* even Next Fit, which asks only the last host: the guest that opened the *)
(* later one did not fit the earlier one, which got none after it          *)
(* (vmp_solvers.h:42-43).                                                  *)
NeighboursDoNotMerge ==
    \A i \in 1 .. Len(hosts) - 1 : ~AccommodatesGuests(hosts[i], hosts[i + 1].guests)

(* A First Fit packing needs no decanting, as the benchmark's comment has  *)
(* it (benchmarks/benchmark.cpp:210): at every moment no guest fits a host *)
(* before its own (vmp_solvers.h:83-84), though hosts keep changing after  *)
(* the guest was placed.                                                   *)
NeedsNoDecanting == solver = "first_fit" => FirstFitStable(hosts)

(* Nor do the any-fit solvers leave two hosts that could be one, although  *)
(* Efficiency may leave a guest that fits an earlier host                  *)
(* (vmp_solvers.h:132-147).                                                *)
HostsDoNotMerge == solver # "next_fit" => NoTwoHostsMerge(hosts)

(* The solvers pack bins: a guest goes only where it fits, and First Fit   *)
(* and Efficiency open a host only for a guest that fits none there is,    *)
(* while Next Fit does what any packer may do (vmp_solvers.h:36-167).      *)
Packs == INSTANCE BinPacking WITH
            anyFit <- solver # "next_fit",
            Feasible <- {S \in SUBSET Guest : FitTogether(S)},
            unplaced <- {instance[k] : k \in next .. Len(instance)},
            bins <- [i \in DOMAIN hosts |-> hosts[i].guests]

PacksBins == Packs!Spec
=============================================================================
