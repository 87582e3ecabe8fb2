------------------------- MODULE OverloadAndRemove --------------------------
(***************************************************************************)
(* The "Overload-and-Remove" solver (proceedByOverloadAndRemove): a guest  *)
(* is put on the host where its relative size is least even when it does   *)
(* not fit, and guests are then evicted, the worst first, until the host   *)
(* is no longer overfull.  Evicted guests go to the back of the queue and  *)
(* are placed again, on a host they have not been on before.  Nothing in   *)
(* the loop bounds the number of turns; that it ends follows from what is  *)
(* attempted and from the number of hosts.                                 *)
(***************************************************************************)
EXTENDS PartialPacking

VARIABLES
    instance,   \* the guests to pack, never changed
    unplaced,   \* the deque of guests to place
    hosts,      \* the hosts opened so far
    attempted,  \* for each guest, the hosts it has been put on
    best,       \* the host of the current turn (bestHost), 0 before the first
    done        \* the solver has returned

vars == <<instance, unplaced, hosts, attempted, best, done>>

Init ==
    /\ \E n \in 0 .. MaxGuests : \E pages \in [1 .. n -> PageSet] : instance = InstanceOf(pages)
    /\ unplaced = instance
    /\ hosts = <<>>
    /\ attempted = [id \in DOMAIN instance |-> {}]
    /\ best = 0
    /\ done = FALSE

(* Mutants: guests are evicted also from a host that is just full; or      *)
(* never.                                                                  *)
OverloadedOrFull == best # 0 /\ UniquePageCount(hosts[best]) >= Capacity

OverloadedNever == FALSE

(* The turn's guest does not fit: its eviction loop has not ended. *)
Overloaded == best # 0 /\ IsOverfull(hosts[best])

Untried(g) == DOMAIN hosts \ attempted[g.id]

(* The first of the hosts where the guest's relative size is least. *)
LeastRelSize(g, S) ==
    Min({i \in S : \A j \in S : RelSize(g, hosts[i]) <= RelSize(g, hosts[j])})

(* Mutant: the placement is not recorded. *)
AttemptForgotten(g, i) ==
    /\ unplaced' = Tail(unplaced)
    /\ best' = i
    /\ UNCHANGED <<instance, attempted, done>>

Attempt(g, i) ==
    /\ unplaced' = Tail(unplaced)
    /\ attempted' = [attempted EXCEPT ![g.id] = @ \cup {i}]
    /\ best' = i
    /\ UNCHANGED <<instance, done>>

(* A turn: the front of the queue goes to a host, fitting or not, ... *)
PlaceOnUntried ==
    /\ ~done /\ ~Overloaded /\ unplaced # <<>>
    /\ LET g == Head(unplaced)
           i == LeastRelSize(g, Untried(g))
       IN  /\ Untried(g) # {}
           /\ hosts' = PlaceOn(hosts, i, g)
           /\ Attempt(g, i)

(* Mutant: the host is recorded before it is in the vector. *)
PlaceOnNewHostEarly ==
    /\ ~done /\ ~Overloaded /\ unplaced # <<>>
    /\ LET g == Head(unplaced)
       IN  /\ Untried(g) = {}
           /\ hosts' = OpenHostFor(hosts, g)
           /\ Attempt(g, Len(hosts))

(* ... or to a new host when it has been on all of them. *)
PlaceOnNewHost ==
    /\ ~done /\ ~Overloaded /\ unplaced # <<>>
    /\ LET g == Head(unplaced)
       IN  /\ Untried(g) = {}
           /\ hosts' = OpenHostFor(hosts, g)
           /\ Attempt(g, Len(hosts) + 1)

(***************************************************************************)
(* The guests min_element can return, scanning the host's guests in the    *)
(* order of the hash set: a guest of least ratio, the first it meets; and, *)
(* as a ratio that is not a number is neither less nor greater than any,   *)
(* a guest without pages when it is scanned first.                         *)
(***************************************************************************)
WorstGuests(host) ==
    {g \in host.guests : \A h \in host.guests : ~RatioLess(h, g, host)}

(* Mutant: the guest evicted is not queued. *)
EvictWorstForgetting ==
    /\ ~done /\ Overloaded
    /\ \E g \in WorstGuests(hosts[best]) : hosts' = TakeOff(hosts, best, g)
    /\ UNCHANGED <<instance, unplaced, attempted, best, done>>

EvictWorst ==
    /\ ~done /\ Overloaded
    /\ \E g \in WorstGuests(hosts[best]) :
          /\ hosts' = TakeOff(hosts, best, g)
          /\ unplaced' = Append(unplaced, g)
    /\ UNCHANGED <<instance, attempted, best, done>>

-----------------------------------------------------------------------------
(* After the loop: hosts that are overfull are cleared, and the guests     *)
(* they had, in whatever order the hash sets give them, packed by First    *)
(* Fit.                                                                    *)

ClearOverfull(hs) == [i \in DOMAIN hs |-> IF IsOverfull(hs[i]) THEN ClearGuests(hs[i]) ELSE hs[i]]

OverfullGuests(hs) == UNION {hs[i].guests : i \in {j \in DOMAIN hs : IsOverfull(hs[j])}}

Finish ==
    /\ ~done /\ ~Overloaded /\ unplaced = <<>>
    /\ \E guests \in SetToSeqs(OverfullGuests(hosts)) :
          hosts' = ProceedBy("first_fit", ClearOverfull(hosts), guests)
    /\ done' = TRUE
    /\ UNCHANGED <<instance, unplaced, attempted, best>>

Next == PlaceOnUntried \/ PlaceOnNewHost \/ EvictWorst \/ Finish

(* The solver is a loop of one thread that nothing blocks. *)
Spec == Init /\ [][Next]_vars /\ WF_vars(Next)

-----------------------------------------------------------------------------
(* Types. *)
TypeOK ==
    /\ IsInstance(instance)
    /\ unplaced \in Seq(GuestsOf(instance))
    /\ \A i \in DOMAIN hosts : IsHost(hosts[i])
    /\ attempted \in [DOMAIN instance -> SUBSET DOMAIN hosts]
    /\ best \in {0} \cup DOMAIN hosts
    /\ done \in BOOLEAN

(* No guest is lost or doubled by being evicted and placed again: each is  *)
(* on one host, once, or in the queue, once (vmp_solvers.h:210-222); and   *)
(* the page counts of the hosts are true to the guests they have left.     *)
EveryGuestSomewhere ==
    /\ NoGuestTwice(hosts)
    /\ AllFrequenciesMatch(hosts)
    /\ ToSet(unplaced) = GuestsOf(instance) \ PlacedGuests(hosts)
    /\ Len(unplaced) = Cardinality(ToSet(unplaced))

(* Evictions only ever shrink the host of the current turn, and stop       *)
(* before it is empty: no host is left empty, and no other host is         *)
(* overfull (vmp_solvers.h:214-222).  With EveryGuestSomewhere this bounds *)
(* the number of hosts by that of guests.                                  *)
HostsStayUsed ==
    \A i \in DOMAIN hosts :
        /\ hosts[i].guests # {}
        /\ IsOverfull(hosts[i]) => i = best

(* The measure that ends the loop: no attempt is ever forgotten, and each  *)
(* placement is an attempt not made before (vmp_solvers.h:195-197, 211).   *)
(* As hosts, none of them empty, never outnumber guests, there are only so *)
(* many attempts to make.                                                  *)
EveryTurnIsNew ==
    [][/\ \A id \in DOMAIN instance : attempted[id] \subseteq attempted'[id]
       /\ Len(unplaced') < Len(unplaced) => attempted' # attempted]_vars

(* The clean-up after the loop (vmp_solvers.h:225-236) finds no overfull   *)
(* host, so the final First Fit has no guest to place.                     *)
CleanUpChangesNothing == [][done' => hosts' = hosts]_vars

(* The packing returned is valid, with no guest on two hosts               *)
(* (vmp_solvers.h:244, vmp_packing.h:61-86).                               *)
ResultValid ==
    done => /\ ValidateForInstance(hosts, instance) = "PACKING_OKAY"
            /\ NoGuestTwice(hosts)

(* The solver returns, whatever the ties and hash orders.                  *)
Terminates == <>done
=============================================================================
