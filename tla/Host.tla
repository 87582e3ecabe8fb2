-------------------------------- MODULE Host --------------------------------
(***************************************************************************)
(* Guests and hosts (vmp_guest, vmp_host) and the instances they come from *)
(* (vmp_instance), as values.  A Host of the code keeps two containers     *)
(* that describe the same thing: the set of guests it holds, and a map     *)
(* from each page it holds to the number of its guests that have the page. *)
(* Everything the code asks of a host is answered from the map, so the     *)
(* map must say at every moment what the set says.                         *)
(***************************************************************************)
EXTENDS Integers, Sequences, FiniteSets

CONSTANTS
    Page,          \* the pages guests are made of
    Capacity,      \* the number of different pages a host can hold
    MaxGuests,     \* bound on the length of an instance
    MinGuestSize,  \* bounds on the number of pages of a guest ...
    MaxGuestSize   \* ... at most Capacity, when every guest fits a host

ASSUME HostAssumption ==
    /\ IsFiniteSet(Page)
    /\ Capacity \in Nat
    /\ MaxGuests \in Nat
    /\ MinGuestSize \in Nat
    /\ MaxGuestSize \in Nat

(***************************************************************************)
(* A guest is known by its address, here its index in the instance; its    *)
(* pages never change.                                                     *)
(***************************************************************************)
GuestId == 1 .. MaxGuests

Guest == [id : GuestId, pages : SUBSET Page]

PageSet == {P \in SUBSET Page : Cardinality(P) \in MinGuestSize .. MaxGuestSize}

(***************************************************************************)
(* An instance is a vector of at most MaxGuests guests.  Two guests may    *)
(* have the same pages, and are still two guests.                          *)
(***************************************************************************)
InstanceOf(pages) == [i \in DOMAIN pages |-> [id |-> i, pages |-> pages[i]]]

IsInstance(instance) ==
    /\ instance \in Seq(Guest)
    /\ Len(instance) <= MaxGuests
    /\ \A i \in 1 .. Len(instance) : instance[i].id = i /\ instance[i].pages \in PageSet

GuestsOf(instance) == {instance[i] : i \in 1 .. Len(instance)}

-----------------------------------------------------------------------------
(* The state of a host.  The map has an entry for the pages in its domain. *)

IsHost(host) ==
    /\ host = [guests |-> host.guests, pageFrequencies |-> host.pageFrequencies]
    /\ host.guests \subseteq Guest
    /\ DOMAIN host.pageFrequencies \subseteq Page
    /\ host.pageFrequencies \in [DOMAIN host.pageFrequencies -> Int]

EmptyHost == [guests |-> {}, pageFrequencies |-> [p \in {} |-> 0]]

PageFrequency(host, p) ==
    IF p \in DOMAIN host.pageFrequencies THEN host.pageFrequencies[p] ELSE 0

UniquePageCount(host) == Cardinality(DOMAIN host.pageFrequencies)

IsOverfull(host) == UniquePageCount(host) > Capacity

-----------------------------------------------------------------------------
(* What a host is asked. *)

(* The pages of the guest whose frequency on the host is not zero. *)
CountUniquePagesOn(g, host) == Cardinality({p \in g.pages : PageFrequency(host, p) # 0})

CountPagesWithGuest(host, g) ==
    UniquePageCount(host) + Cardinality(g.pages) - CountUniquePagesOn(g, host)

CountPagesNotOn(host, g) == UniquePageCount(host) - CountUniquePagesOn(g, host)

(* Mutants: a host takes one page too many, or stays one page short. *)
AccommodatesGuestBeyond(host, g) == CountPagesWithGuest(host, g) <= Capacity + 1

AccommodatesGuestShort(host, g) == CountPagesWithGuest(host, g) < Capacity

AccommodatesGuest(host, g) == CountPagesWithGuest(host, g) <= Capacity

(* Mutant: the pages the host has already are counted as new. *)
CountPagesWithGuestsAllNew(host, S) == Cardinality(UNION {g.pages : g \in S}) + UniquePageCount(host)

(* The same for a range of guests, each page they bring counted once. *)
CountPagesWithGuests(host, S) ==
    LET newPages == (UNION {g.pages : g \in S}) \ DOMAIN host.pageFrequencies
    IN  Cardinality(newPages) + UniquePageCount(host)

(* Mutant: a host takes one page too many. *)
AccommodatesGuestsBeyond(host, S) == CountPagesWithGuests(host, S) <= Capacity + 1

AccommodatesGuests(host, S) == CountPagesWithGuests(host, S) <= Capacity

-----------------------------------------------------------------------------
(* What changes a host.  None of these looks whether the guest is on the   *)
(* host already: adding a guest twice counts its pages twice.              *)

(* Mutant: the count of a page is set to one instead of raised. *)
AddGuestOverwriting(host, g) ==
    [guests |-> host.guests \cup {g},
     pageFrequencies |->
        [p \in DOMAIN host.pageFrequencies \cup g.pages |->
            IF p \in g.pages THEN 1 ELSE PageFrequency(host, p)]]

AddGuest(host, g) ==
    [guests |-> host.guests \cup {g},
     pageFrequencies |->
        [p \in DOMAIN host.pageFrequencies \cup g.pages |->
            PageFrequency(host, p) + (IF p \in g.pages THEN 1 ELSE 0)]]

(* Mutants: all pages of the guest go, also those another guest has; or an *)
(* entry stays when its count drops to zero.                               *)
RemoveGuestErasing(host, g) ==
    [guests |-> host.guests \ {g},
     pageFrequencies |->
        [p \in DOMAIN host.pageFrequencies \ g.pages |-> PageFrequency(host, p)]]

RemoveGuestKeeping(host, g) ==
    [guests |-> host.guests \ {g},
     pageFrequencies |->
        [p \in DOMAIN host.pageFrequencies |->
            PageFrequency(host, p) - (IF p \in g.pages THEN 1 ELSE 0)]]

(* An entry that drops to zero is erased. *)
RemoveGuest(host, g) ==
    LET left == {p \in DOMAIN host.pageFrequencies \cup g.pages :
                    p \in g.pages => PageFrequency(host, p) # 1}
    IN  [guests |-> host.guests \ {g},
         pageFrequencies |->
            [p \in left |-> PageFrequency(host, p) - (IF p \in g.pages THEN 1 ELSE 0)]]

ClearGuests(host) == EmptyHost

PagesOf(S) == UNION {g.pages : g \in S}

(* What addGuests makes of an empty host. *)
HostOf(S) ==
    [guests |-> S,
     pageFrequencies |-> [p \in PagesOf(S) |-> Cardinality({g \in S : p \in g.pages})]]

-----------------------------------------------------------------------------
(* What the two containers must agree on. *)

Holders(host, p) == {g \in host.guests : p \in g.pages}

(* The map counts, for exactly the pages the guests have, the guests that  *)
(* have them.                                                              *)
FrequenciesMatch(host) ==
    /\ DOMAIN host.pageFrequencies = PagesOf(host.guests)
    /\ \A p \in PagesOf(host.guests) : host.pageFrequencies[p] = Cardinality(Holders(host, p))
=============================================================================
