------------------------------- MODULE Packing ------------------------------
(***************************************************************************)
(* A packing (vmp_packing): a vector of hosts that own what the solver put *)
(* on them, and the number of guests, which the constructor caches.        *)
(***************************************************************************)
EXTENDS Host, FiniteSetsExt

(* The hosts a range search finds for a guest. *)
Accommodating(hosts, g) == {i \in DOMAIN hosts : AccommodatesGuest(hosts[i], g)}

PlaceOn(hosts, i, g) == [hosts EXCEPT ![i] = AddGuest(@, g)]

TakeOff(hosts, i, g) == [hosts EXCEPT ![i] = RemoveGuest(@, g)]

(* make_unique<Host>(capacity), pushed back, and the guest added to it. *)
OpenHostFor(hosts, g) == Append(hosts, AddGuest(EmptyHost, g))

PlacedGuests(hosts) == UNION {hosts[i].guests : i \in DOMAIN hosts}

(* Mutant: the guests are counted in the vector that was moved from. *)
MakePackingMovedFrom(hosts) == [hosts |-> hosts, guestCount |-> 0]

(* The packing the constructor makes of a vector of hosts: it sums up the  *)
(* numbers of their guests.                                                *)
MakePacking(hosts) ==
    [hosts      |-> hosts,
     guestCount |-> Cardinality(UNION {{i} \X hosts[i].guests : i \in DOMAIN hosts})]

(* The verdict on a packing: that of its first bad host, if it has one;    *)
(* then whether a guest of the instance is missing.  A guest that is on    *)
(* two hosts is not noticed.                                               *)
BadHosts(hosts) == {i \in DOMAIN hosts : hosts[i].guests = {} \/ IsOverfull(hosts[i])}

ValidateForInstance(hosts, instance) ==
    IF BadHosts(hosts) # {}
    THEN IF hosts[Min(BadHosts(hosts))].guests = {}
         THEN "PACKING_HOST_EMPTY"
         ELSE "PACKING_HOST_OVERFULL"
    ELSE IF GuestsOf(instance) \subseteq PlacedGuests(hosts)
         THEN "PACKING_OKAY"
         ELSE "PACKING_PARTIAL"

-----------------------------------------------------------------------------
(* What packings are to satisfy, for the properties of the solvers. *)

AllFrequenciesMatch(hosts) == \A i \in DOMAIN hosts : FrequenciesMatch(hosts[i])

(* No guest is on two hosts. *)
NoGuestTwice(hosts) ==
    \A i, j \in DOMAIN hosts : i # j => hosts[i].guests \cap hosts[j].guests = {}

(* No guest fits an earlier host than its own: moving guests one by one to *)
(* earlier hosts, as decanting does, changes nothing.                      *)
FirstFitStable(hosts) ==
    \A i, j \in DOMAIN hosts : i < j =>
        \A g \in hosts[j].guests : ~AccommodatesGuest(hosts[i], g)

(* A host of its own would hold these guests. *)
FitTogether(S) == Cardinality(PagesOf(S)) <= Capacity

(* A guest may be larger than a host, which nothing rejects.  It makes a   *)
(* host overfull, and is to be the only reason for one.                    *)
AllGuestsFit(instance) == \A g \in GuestsOf(instance) : FitTogether({g})

OverfullHostsHaveOne(hosts) ==
    \A i \in DOMAIN hosts : IsOverfull(hosts[i]) => \E g \in hosts[i].guests : hosts[i].guests = {g}

(* No two hosts could be one. *)
NoTwoHostsMerge(hosts) ==
    \A i, j \in DOMAIN hosts : i < j => ~AccommodatesGuests(hosts[i], hosts[j].guests)
=============================================================================
