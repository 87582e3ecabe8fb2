----------------------------- MODULE HostCalls ------------------------------
(***************************************************************************)
(* One Host object under the calls the solvers make on it, in any order: a *)
(* guest is added when it is not on the host and removed when it is (the   *)
(* discipline every caller keeps; the modules of the solvers check that    *)
(* they do, by checking FrequenciesMatch for every host they build).       *)
(***************************************************************************)
EXTENDS Host

VARIABLES
    instance,  \* the guests there are
    host       \* the object

hostVars == <<instance, host>>

HostInit ==
    /\ \E n \in 0 .. MaxGuests : \E pages \in [1 .. n -> PageSet] : instance = InstanceOf(pages)
    /\ host = EmptyHost

AddCall(g) ==
    /\ g \notin host.guests
    /\ host' = AddGuest(host, g)
    /\ UNCHANGED instance

RemoveCall(g) ==
    /\ g \in host.guests
    /\ host' = RemoveGuest(host, g)
    /\ UNCHANGED instance

ClearCall ==
    /\ host' = ClearGuests(host)
    /\ UNCHANGED instance

HostNext ==
    \/ \E g \in GuestsOf(instance) : AddCall(g) \/ RemoveCall(g)
    \/ ClearCall

HostSpec == HostInit /\ [][HostNext]_hostVars

-----------------------------------------------------------------------------
(* Types: a host holds guests of the instance, and no count stays in the   *)
(* map at zero, as uniquePageCount takes the number of entries for that of *)
(* pages.                                                                  *)
HostTypeOK ==
    /\ IsInstance(instance)
    /\ IsHost(host)
    /\ host.guests \subseteq GuestsOf(instance)
    /\ \A p \in DOMAIN host.pageFrequencies : host.pageFrequencies[p] > 0

(* After any sequence of addGuest, removeGuest and clearGuests the page    *)
(* map says exactly what the guest set says (vmp_host.cpp:11-38): a page   *)
(* two guests share survives the removal of one of them and goes with the  *)
(* last.                                                                   *)
FrequenciesCount == FrequenciesMatch(host)

(* What the code computes from the map alone is right: the number that     *)
(* accommodatesGuest compares with the capacity, sizes added and the       *)
(* overlap taken away (vmp_host.cpp:70-73), is the number of different     *)
(* pages host and guest have together, whether the guest is on the host or *)
(* not; likewise for a range of guests that share pages with each other    *)
(* and with the host (vmp_host.h:67-79); and countPagesNotOn               *)
(* (vmp_host.cpp:75-78) counts the host's pages that the guest lacks.      *)
AnswersRight ==
    /\ \A g \in GuestsOf(instance) :
          /\ CountPagesWithGuest(host, g) = Cardinality(PagesOf(host.guests \cup {g}))
          /\ CountPagesNotOn(host, g) = Cardinality(PagesOf(host.guests) \ g.pages)
    /\ \A S \in SUBSET GuestsOf(instance) :
          CountPagesWithGuests(host, S) = Cardinality(PagesOf(host.guests \cup S))

(* The comment on countPagesWithGuest (vmp_host.h:50-52) says of the same  *)
(* number that it counts the pages host and guest share.  It does not      *)
(* (vmp_host.cpp:70-73).                                                   *)
CountsSharedPages ==
    \A g \in GuestsOf(instance) :
        CountPagesWithGuest(host, g) = Cardinality(PagesOf(host.guests) \cap g.pages)
=============================================================================
