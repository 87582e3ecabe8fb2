---------------------------- MODULE DecantGuests ----------------------------
(***************************************************************************)
(* Packing::decantGuests as a function, for the solvers that decant: the   *)
(* vectors of hosts that three passes can leave.  Each pass takes every    *)
(* pair of an earlier (left) and a later (right) host, parts the guests of *)
(* the right one, and moves each part to the left host when all of it fits *)
(* there; at its end, hosts without guests are erased.  The parts come in  *)
(* the order of a hash set: any order.  Decanting has the moves one by     *)
(* one.                                                                    *)
(***************************************************************************)
EXTENDS Packing, Components, Subsequences, SequencesExt

(* Mutant: the third pass parts as the second does. *)
PartitionNoSingles(pass, S) == IF pass = 1 THEN {S} ELSE ComponentsOf(S)

(* The parts a pass makes of the guests of a host: all of them, those that *)
(* are connected, single ones.                                             *)
Partition(pass, S) ==
    CASE pass = 1 -> {S}
      [] pass = 2 -> ComponentsOf(S)
      [] pass = 3 -> {{g} : g \in S}

(* A guest is added to the left host, then removed from the right one. *)
Moved(hosts, left, right, g) == TakeOff(PlaceOn(hosts, left, g), right, g)

(* A part that fits moves guest by guest, in an order that does not matter. *)
MovePart(hosts, left, right, part) ==
    IF AccommodatesGuests(hosts[left], part)
    THEN FoldSet(LAMBDA g, hs : Moved(hs, left, right, g), hosts, part)
    ELSE hosts

MoveParts(hosts, left, right, order) ==
    FoldLeft(LAMBDA hs, part : MovePart(hs, left, right, part), hosts, order)

(* What one pair can become.  The order of the parts matters only when     *)
(* there is more than one.                                                 *)
PairDecanted(pass, hosts, left, right) ==
    {MoveParts(hosts, left, right, order) :
        order \in SetToSeqs(Partition(pass, hosts[right].guests))}

PairsDecanted(pass, vectors, left, right) ==
    UNION {PairDecanted(pass, hosts, left, right) : hosts \in vectors}

PositionsAfter(left, n) == [k \in 1 .. n - left |-> left + k]

(* A left host with all that come after it. *)
LeftDecanted(pass, vectors, left, n) ==
    FoldLeft(LAMBDA vs, right : PairsDecanted(pass, vs, left, right),
             vectors, PositionsAfter(left, n))

AllDecanted(pass, hosts, n) ==
    FoldLeft(LAMBDA vs, left : LeftDecanted(pass, vs, left, n), {hosts}, PositionsAfter(0, n))

EraseEmpty(hosts) == Subsequence(hosts, {i \in DOMAIN hosts : hosts[i].guests # {}})

PassResults(pass, hosts) == {EraseEmpty(hs) : hs \in AllDecanted(pass, hosts, Len(hosts))}

DecantResults(hosts) ==
    UNION {PassResults(3, second) : second \in
        UNION {PassResults(2, first) : first \in PassResults(1, hosts)}}
=============================================================================
