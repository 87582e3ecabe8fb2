----------------------------- MODULE BinPacking -----------------------------
(***************************************************************************)
(* What an online packer does, without hosts, pages and counts: bins are   *)
(* sets of guests, and some sets of guests can share a bin.  Guests are    *)
(* taken in any order; a guest, once placed, stays.  An any-fit packer     *)
(* opens a bin only for a guest that fits no open bin, another one may     *)
(* open it at any time.                                                    *)
(***************************************************************************)
EXTENDS Sequences

CONSTANTS
    Guest,
    Feasible   \* the sets of guests a bin can hold

VARIABLES
    anyFit,    \* whether the packer is an any-fit packer, never changed
    unplaced,  \* the guests still to be packed
    bins       \* the sequence of bins

vars == <<anyFit, unplaced, bins>>

Fits(bin, g) == bin \cup {g} \in Feasible

Init ==
    /\ anyFit \in BOOLEAN
    /\ unplaced \in SUBSET Guest
    /\ bins = <<>>

Place(g, i) ==
    /\ Fits(bins[i], g)
    /\ unplaced' = unplaced \ {g}
    /\ bins' = [bins EXCEPT ![i] = @ \cup {g}]
    /\ UNCHANGED anyFit

MayOpen(g) == anyFit => \A i \in DOMAIN bins : ~Fits(bins[i], g)

Open(g) ==
    /\ MayOpen(g)
    /\ unplaced' = unplaced \ {g}
    /\ bins' = Append(bins, {g})
    /\ UNCHANGED anyFit

Next ==
    \E g \in unplaced :
        \/ \E i \in DOMAIN bins : Place(g, i)
        \/ Open(g)

Spec == Init /\ [][Next]_vars
=============================================================================
