-------------------------- MODULE ConnectedGuests ---------------------------
(***************************************************************************)
(* partitionConnectedGuestsTogether: a breadth-first search from each      *)
(* guest of a range that no earlier search has reached.  The guest a       *)
(* search starts from is not marked as discovered; searches look only at   *)
(* guests after it in the range, so it is not met again, neither by its    *)
(* own search nor by a later one.                                          *)
(***************************************************************************)
EXTENDS Components, Subsequences, SequencesExt

VARIABLES
    range,       \* the guests of the host, in the order the set gives them
    begin,       \* the position of guestsBegin
    frontier,    \* the queue of the search
    component,   \* the guests the search has dequeued
    discovered,  \* the guests that have been queued by finding them
    result       \* the components found

vars == <<range, begin, frontier, component, discovered, result>>

(* No search under way. *)
Init ==
    /\ range = <<>>
    /\ begin = 1
    /\ frontier = <<>>
    /\ component = <<>>
    /\ discovered = {}
    /\ result = <<>>

(* The call, for the guests of a host in the order their set has them.     *)
Begin(guests) ==
    /\ range' = guests
    /\ begin' = 1
    /\ frontier' = <<>>
    /\ component' = <<>>
    /\ discovered' = {}
    /\ result' = <<>>

Done == begin > Len(range)

Searching == frontier # <<>> \/ component # <<>>

SkipDiscovered ==
    /\ ~Done /\ ~Searching
    /\ range[begin] \in discovered
    /\ begin' = begin + 1
    /\ UNCHANGED <<range, frontier, component, discovered, result>>

(* Mutant: what earlier searches have discovered is forgotten. *)
StartSearchForgetting ==
    /\ ~Done /\ ~Searching
    /\ range[begin] \notin discovered
    /\ frontier' = <<range[begin]>>
    /\ discovered' = {}
    /\ UNCHANGED <<range, begin, component, result>>

StartSearch ==
    /\ ~Done /\ ~Searching
    /\ range[begin] \notin discovered
    /\ frontier' = <<range[begin]>>
    /\ UNCHANGED <<range, begin, component, discovered, result>>

(* Mutant: the guest the search starts from is looked at too. *)
CandidatesFromBegin == begin .. Len(range)

(* The positions of the guests the search can still reach. *)
Candidates == begin + 1 .. Len(range)

(* The guests it finds from a guest, in the order of the range. *)
FoundFrom(g) ==
    Subsequence(range, {k \in Candidates : range[k] \notin discovered /\ GuestsHaveSharedPage(g, range[k])})

(* Mutant: the search goes on with the first guest found only. *)
VisitFrontFirstFound ==
    /\ frontier # <<>>
    /\ LET g == Head(frontier)
           found == FoundFrom(g)
           first == SubSeq(found, 1, Min({1, Len(found)}))
       IN  /\ component' = Append(component, g)
           /\ frontier' = Tail(frontier) \o first
           /\ discovered' = discovered \cup ToSet(first)
    /\ UNCHANGED <<range, begin, result>>

VisitFront ==
    /\ frontier # <<>>
    /\ LET g == Head(frontier)
           found == FoundFrom(g)
       IN  /\ component' = Append(component, g)
           /\ frontier' = Tail(frontier) \o found
           /\ discovered' = discovered \cup ToSet(found)
    /\ UNCHANGED <<range, begin, result>>

(* Mutant: guestsBegin moves twice. *)
EndSearchSkipping ==
    /\ frontier = <<>> /\ component # <<>>
    /\ result' = Append(result, component)
    /\ component' = <<>>
    /\ begin' = begin + 2
    /\ UNCHANGED <<range, frontier, discovered>>

EndSearch ==
    /\ frontier = <<>> /\ component # <<>>
    /\ result' = Append(result, component)
    /\ component' = <<>>
    /\ begin' = begin + 1
    /\ UNCHANGED <<range, frontier, discovered>>

Next == SkipDiscovered \/ StartSearch \/ VisitFront \/ EndSearch

-----------------------------------------------------------------------------
Finished == UNION {ToSet(result[i]) : i \in DOMAIN result}

(* The searches find the connected components of the guests, each of them  *)
(* once and each guest in one of them once (vmp_solverutils.h:120-147), so *)
(* decanting moves no guest twice.                                         *)
FindsComponents ==
    Done => /\ {ToSet(result[i]) : i \in DOMAIN result} = ComponentsOf(GuestsOf(range))
            /\ \A i, j \in DOMAIN result : \A k \in DOMAIN result[i], l \in DOMAIN result[j] :
                  result[i][k] = result[j][l] => i = j /\ k = l

(* While a search runs, the guests it has not reached are not connected to *)
(* those of finished components, and every guest before guestsBegin is in  *)
(* one: a later search never runs into an earlier one                      *)
(* (vmp_solverutils.h:135-143).                                            *)
FinishedAreClosed ==
    /\ IsClosed(Finished, GuestsOf(range))
    /\ {range[k] : k \in 1 .. begin - 1} \subseteq Finished
=============================================================================
