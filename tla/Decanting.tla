----------------------------- MODULE Decanting ------------------------------
(***************************************************************************)
(* Packing::decantGuests, move by move.  A pass takes every pair of an     *)
(* earlier (left) and a later (right) host, parts the guests of the right  *)
(* one, and moves each part that fits to the left one, guest by guest; at  *)
(* the end of a pass, hosts without guests are erased.  The second pass    *)
(* finds its parts by searching for connected guests (ConnectedGuests).    *)
(* The parts of a host are made before any is moved, and come in the order *)
(* of a hash set: any order.                                               *)
(***************************************************************************)
EXTENDS DecantGuests

VARIABLES
    original,    \* the hosts of the packing when it was handed over
    hosts,       \* its hosts now
    guestCount,  \* its cached number of guests
    pass,        \* 1, 2, 3: the pass under way; 4: decantGuests has returned
    left,        \* the positions of the two hosts of the pair ...
    right,       \* ... under consideration
    parts,       \* the parts of the right host still to be tried
    moving,      \* the guests of the part being moved that are still to move
    stage        \* "parting", "searching" or "moving" the guests of the right host

VARIABLES range, begin, frontier, component, discovered, result

Search == INSTANCE ConnectedGuests

search == <<range, begin, frontier, component, discovered, result>>

vars == <<original, hosts, guestCount, pass, left, right, parts, moving, stage, search>>

(* A packing as a solver returns it: every guest on one host, no host      *)
(* empty or overfull.                                                      *)
Init ==
    /\ \E n \in 0 .. MaxGuests, count \in 0 .. MaxGuests :
          \E pages \in [1 .. n -> PageSet], host \in [1 .. n -> 1 .. count] :
             /\ {host[k] : k \in 1 .. n} = 1 .. count
             /\ hosts = [i \in 1 .. count |->
                            HostOf({InstanceOf(pages)[k] : k \in {l \in 1 .. n : host[l] = i}})]
    /\ \A i \in DOMAIN hosts : ~IsOverfull(hosts[i])
    /\ original = hosts
    /\ guestCount = MakePacking(hosts).guestCount
    /\ pass = 1
    /\ left = 1
    /\ right = 2
    /\ parts = {}
    /\ moving = {}
    /\ stage = "parting"
    /\ Search!Init

Done == pass = 4

(* The parts of the first and of the third pass need no search. *)
PartRightHost ==
    /\ stage = "parting" /\ pass \in {1, 3}
    /\ right <= Len(hosts)
    /\ parts' = Partition(pass, hosts[right].guests)
    /\ stage' = "moving"
    /\ UNCHANGED <<original, hosts, guestCount, pass, left, right, moving, search>>

BeginSearches ==
    /\ stage = "parting" /\ pass = 2
    /\ right <= Len(hosts)
    /\ \E guests \in SetToSeqs(hosts[right].guests) : Search!Begin(guests)
    /\ stage' = "searching"
    /\ UNCHANGED <<original, hosts, guestCount, pass, left, right, parts, moving>>

ContinueSearches ==
    /\ stage = "searching"
    /\ Search!Next
    /\ UNCHANGED <<original, hosts, guestCount, pass, left, right, parts, moving, stage>>

(* The components found are the parts; nothing else is left of the search. *)
EndSearches ==
    /\ stage = "searching" /\ Search!Done
    /\ parts' = {ToSet(result[i]) : i \in DOMAIN result}
    /\ stage' = "moving"
    /\ Search!Begin(<<>>)
    /\ UNCHANGED <<original, hosts, guestCount, pass, left, right, moving>>

(* Mutant: whether the part fits is not asked. *)
TryPartUnasked ==
    /\ moving = {}
    /\ \E part \in parts :
          /\ parts' = parts \ {part}
          /\ moving' = part
    /\ UNCHANGED <<original, hosts, guestCount, pass, left, right, stage, search>>

(* The next part, if it fits the left host, will move there as a whole; if *)
(* it does not, it stays.                                                  *)
TryPart ==
    /\ moving = {}
    /\ \E part \in parts :
          /\ parts' = parts \ {part}
          /\ moving' = IF AccommodatesGuests(hosts[left], part) THEN part ELSE {}
    /\ UNCHANGED <<original, hosts, guestCount, pass, left, right, stage, search>>

MoveGuest ==
    /\ \E g \in moving :
          /\ hosts' = Moved(hosts, left, right, g)
          /\ moving' = moving \ {g}
    /\ UNCHANGED <<original, guestCount, pass, left, right, parts, stage, search>>

NextRight ==
    /\ stage = "moving" /\ parts = {} /\ moving = {}
    /\ stage' = "parting"
    /\ right' = right + 1
    /\ UNCHANGED <<original, hosts, guestCount, pass, left, parts, moving, search>>

(* Mutant: the right host is two after the left one. *)
NextLeftSkipping ==
    /\ ~Done /\ left <= Len(hosts)
    /\ right > Len(hosts)
    /\ left' = left + 1
    /\ right' = left + 3
    /\ UNCHANGED <<original, hosts, guestCount, pass, parts, moving, stage, search>>

NextLeft ==
    /\ ~Done /\ left <= Len(hosts)
    /\ right > Len(hosts)
    /\ left' = left + 1
    /\ right' = left + 2
    /\ UNCHANGED <<original, hosts, guestCount, pass, parts, moving, stage, search>>

EraseEmptyHosts ==
    /\ ~Done /\ left > Len(hosts)
    /\ hosts' = EraseEmpty(hosts)
    /\ pass' = pass + 1
    /\ left' = 1
    /\ right' = 2
    /\ UNCHANGED <<original, guestCount, parts, moving, stage, search>>

Next ==
    \/ PartRightHost
    \/ BeginSearches
    \/ ContinueSearches
    \/ EndSearches
    \/ TryPart
    \/ MoveGuest
    \/ NextRight
    \/ NextLeft
    \/ EraseEmptyHosts

Spec == Init /\ [][Next]_vars

-----------------------------------------------------------------------------
(* Types. *)
TypeOK ==
    /\ \A i \in DOMAIN hosts : IsHost(hosts[i])
    /\ guestCount \in 0 .. MaxGuests
    /\ pass \in 1 .. 4
    /\ left \in 1 .. Len(hosts) + 1
    /\ right \in 2 .. Len(hosts) + 2
    /\ parts \subseteq SUBSET Guest
    /\ moving \subseteq Guest
    /\ stage \in {"parting", "searching", "moving"}
    /\ range \in Seq(Guest)
    /\ begin \in 1 .. Len(range) + 1
    /\ frontier \in Seq(GuestsOf(range))
    /\ component \in Seq(GuestsOf(range))
    /\ discovered \subseteq GuestsOf(range)
    /\ result \in Seq(Seq(GuestsOf(range)))

(* Decanting keeps the packing a packing, at every step: no guest is lost  *)
(* or doubled, no host takes a part that makes it overfull, and the page   *)
(* counts of both hosts follow the move (vmp_solverutils.h:39-47).         *)
KeepsPacking ==
    /\ PlacedGuests(hosts) = PlacedGuests(original)
    /\ NoGuestTwice(hosts)
    /\ \A i \in DOMAIN hosts : ~IsOverfull(hosts[i])
    /\ AllFrequenciesMatch(hosts)

(* The parts still to be tried are on the right host, though parts made    *)
(* with them have left it since they were made (vmp_solverutils.h:37-48).  *)
PartsOnRightHost ==
    \A part \in parts \cup {moving} : part # {} => part \subseteq hosts[right].guests

(* What decanting reaches: no host is empty, there are no more hosts than  *)
(* before, the cached guest count still holds, and no guest fits a host    *)
(* before its own, so that decanting again would change nothing            *)
(* (vmp_packing.cpp:16-20).                                                *)
DecantedIsStable ==
    Done => /\ FirstFitStable(hosts)
            /\ \A i \in DOMAIN hosts : hosts[i].guests # {}
            /\ Len(hosts) <= Len(original)
            /\ MakePacking(hosts).guestCount = guestCount

(* A packing in which no guest fits an earlier host is left as it is by    *)
(* all three passes: the claim that First Fit "never needs decanting"      *)
(* (benchmarks/benchmark.cpp:210) is this and the stability of what First  *)
(* Fit returns.                                                            *)
StableIsLeftAlone == FirstFitStable(original) => hosts = original

(* The searches of the second pass find the connected components of the    *)
(* right host's guests, each guest once, whatever their order, though the  *)
(* guest a search starts from is not marked; and none of them runs into    *)
(* what an earlier one has found (vmp_solverutils.h:120-147).              *)
FindsComponents == Search!FindsComponents /\ Search!FinishedAreClosed

(* The function by which the solvers that decant are modelled has what the *)
(* moves lead to among its results (vmp_packing.cpp:16-20).                *)
ReachesAResult == Done => hosts \in DecantResults(original)
=============================================================================
