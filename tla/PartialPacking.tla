--------------------------- MODULE PartialPacking ---------------------------
(***************************************************************************)
(* The packers as functions of a sequence of guests and of hosts that may  *)
(* hold guests already (proceedByFirstFit, proceedByEfficiency), as other  *)
(* solvers call them.  SequentialPackers has the same turns one by one.    *)
(***************************************************************************)
EXTENDS Scores, SequencesExt

(* "first_fit" goes by the hosts that accommodate a guest, "efficiency" by *)
(* the most efficient of them.                                             *)
HostsFor(packer, hosts, g) ==
    IF packer = "first_fit" THEN Accommodating(hosts, g) ELSE MostEfficient(hosts, g)

(* The guest goes to the first of these hosts, or to a new one. *)
Placed(packer, hosts, g) ==
    IF HostsFor(packer, hosts, g) = {}
    THEN OpenHostFor(hosts, g)
    ELSE PlaceOn(hosts, Min(HostsFor(packer, hosts, g)), g)

ProceedBy(packer, hosts, guests) ==
    FoldLeft(LAMBDA hs, g : Placed(packer, hs, g), hosts, guests)
=============================================================================
