---------------------------- MODULE Subsequences ----------------------------
(* What copying or erasing by a condition leaves of a vector. *)
EXTENDS Integers, Sequences, FiniteSets

(* The elements of a sequence at some of its positions, in their order:    *)
(* the k-th of them is at the position that is the k-th of these.          *)
Subsequence(s, positions) ==
    [k \in 1 .. Cardinality(positions) |->
        s[CHOOSE i \in positions : Cardinality({j \in positions : j <= i}) = k]]
=============================================================================
