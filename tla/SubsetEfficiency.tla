-------------------------- MODULE SubsetEfficiency --------------------------
(***************************************************************************)
(* findMostEfficientSubset (vmp_maximisers) and the enumeration of         *)
(* combinations it uses (nextComb, vmp_solverutils).                       *)
(***************************************************************************)
EXTENDS Packing, SequencesExt

(* Mutant: the last position is taken to be at its end one too early. *)
MovableShort(indices, n) ==
    {i \in DOMAIN indices : indices[i] < n - Len(indices) + i - 1}

(* The positions of a combination of 1 .. n that are not at their end. *)
Movable(indices, n) == {i \in DOMAIN indices : indices[i] < n - Len(indices) + i}

(* The last of them goes up, those after it follow. *)
NextComb(indices, n) ==
    LET i == Max(Movable(indices, n))
    IN  [j \in DOMAIN indices |-> IF j < i THEN indices[j] ELSE indices[i] + 1 + (j - i)]

(* The combinations of k of 1 .. n, in the order they are made from the    *)
(* first one.                                                              *)
Combinations(k, n) ==
    LET comb[i \in 1 .. Cardinality(kSubset(k, 1 .. n))] ==
            IF i = 1 THEN [j \in 1 .. k |-> j]
            ELSE IF Movable(comb[i - 1], n) = {} THEN comb[i - 1] ELSE NextComb(comb[i - 1], n)
    IN  comb

(* The reward of a set of guests, one for each that is still worth         *)
(* anything, over one more than the pages the host would have with them.   *)
MoreEfficient(S, T, profitable, host) ==
    Cardinality(S \cap profitable) * (1 + CountPagesWithGuests(host, T))
        > Cardinality(T \cap profitable) * (1 + CountPagesWithGuests(host, S))

(* The first of the most efficient combinations the host accommodates, of  *)
(* those with any reward; none, if there is none.                          *)
FindMostEfficientSubset(guests, profitable, host, subsetSize) ==
    LET combs == Combinations(Min({subsetSize, Len(guests)}), Len(guests))
        subset(i) == {guests[combs[i][j]] : j \in DOMAIN combs[i]}
        rewarding == {i \in DOMAIN combs : /\ AccommodatesGuests(host, subset(i))
                                           /\ subset(i) \cap profitable # {}}
        best == {i \in rewarding :
                    \A j \in rewarding : ~MoreEfficient(subset(j), subset(i), profitable, host)}
    IN  IF best = {} THEN {} ELSE subset(Min(best))
=============================================================================
