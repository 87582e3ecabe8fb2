--------------------------- MODULE OverloadProofs ---------------------------
(***************************************************************************)
(* Theorems about Overload-and-Remove, for every set of pages, every       *)
(* capacity and every length of instance.  The inductive invariant says    *)
(* that each guest is on one host or, once, in the queue; that page maps   *)
(* are true; that only the host of the turn can be overfull; and that no   *)
(* host is left empty when every guest fits an empty host: a guest is      *)
(* evicted from an overfull host only, which then has another one.         *)
(***************************************************************************)
EXTENDS OverloadAndRemove, PackingLemmas

(* The invariant. *)

IInv ==
    /\ IsInstance(instance)
    /\ TrueHosts(hosts)
    /\ NoGuestTwice(hosts)
    /\ unplaced \in Seq(GuestsOf(instance))
    /\ NoneTwice(unplaced)
    /\ PlacedGuests(hosts) \subseteq GuestsOf(instance)
    /\ ToSet(unplaced) = GuestsOf(instance) \ PlacedGuests(hosts)
    /\ attempted \in [DOMAIN instance -> SUBSET DOMAIN hosts]
    /\ best \in {0} \cup DOMAIN hosts
    /\ \A i \in DOMAIN hosts : IsOverfull(hosts[i]) => i = best
    /\ MaxGuestSize <= Capacity => \A i \in DOMAIN hosts : hosts[i].guests # {}
    /\ done \in BOOLEAN
    /\ done => unplaced = <<>> /\ ~Overloaded

LEMMA InitIInv == Init => IInv
<1> SUFFICES ASSUME Init PROVE IInv
  OBVIOUS
<1>1. IsInstance(instance)
  BY InstanceOfIsInstance DEF Init
<1>2. /\ hosts = <<>> /\ unplaced = instance /\ best = 0 /\ done = FALSE
      /\ attempted = [id \in DOMAIN instance |-> {}]
  BY DEF Init
<1>3. /\ instance \in [1 .. Len(instance) -> GuestsOf(instance)] /\ Len(instance) \in Nat
      /\ DOMAIN instance = 1 .. Len(instance)
  BY <1>1, LenProperties DEF IsInstance, GuestsOf
<1>4. unplaced \in Seq(GuestsOf(instance)) /\ ToSet(unplaced) = GuestsOf(instance)
  BY <1>2, <1>3 DEF ToSet, GuestsOf
<1>5. NoneTwice(unplaced)
  BY <1>1, <1>2, InstanceGuests DEF NoneTwice
<1>6. TrueHosts(hosts) /\ NoGuestTwice(hosts) /\ PlacedGuests(hosts) = {} /\ DOMAIN hosts = {}
  BY <1>2, EmptyHosts DEF GoodHosts
<1> QED BY <1>1, <1>2, <1>4, <1>5, <1>6 DEF IInv

(* The guest of a turn: it is on no host, and leaves the queue.            *)
LEMMA HeadIsUnplaced ==
  ASSUME IInv, unplaced # <<>>, NEW g, g = Head(unplaced)
  PROVE  /\ g \in GuestsOf(instance) /\ g \in Guest /\ g \notin PlacedGuests(hosts)
         /\ g.id \in DOMAIN instance
         /\ Cardinality(g.pages) \in Nat /\ Cardinality(g.pages) <= MaxGuestSize
         /\ Tail(unplaced) \in Seq(GuestsOf(instance))
         /\ NoneTwice(Tail(unplaced))
         /\ ToSet(Tail(unplaced)) = ToSet(unplaced) \ {g}
         /\ Len(Tail(unplaced)) = Len(unplaced) - 1
<1>1. unplaced \in Seq(GuestsOf(instance)) /\ NoneTwice(unplaced) /\ IsInstance(instance)
  BY DEF IInv
<1>2. /\ g \in ToSet(unplaced) /\ g \in GuestsOf(instance)
      /\ Tail(unplaced) \in Seq(GuestsOf(instance))
      /\ NoneTwice(Tail(unplaced))
      /\ ToSet(Tail(unplaced)) = ToSet(unplaced) \ {g}
      /\ Len(Tail(unplaced)) = Len(unplaced) - 1
  BY <1>1, TailNoneTwice
<1>3. PICK k \in 1 .. Len(instance) : g = instance[k]
  BY <1>2 DEF GuestsOf
<1>4. g.id = k /\ Cardinality(g.pages) \in MinGuestSize .. MaxGuestSize
  BY <1>1, <1>3, InstanceGuests DEF IsInstance
<1>5. DOMAIN instance = 1 .. Len(instance)
  BY <1>1, LenProperties DEF IsInstance
<1>6. g \in Guest /\ g \notin PlacedGuests(hosts)
  BY <1>1, <1>2, InstanceGuests DEF IInv
<1> QED BY <1>2, <1>3, <1>4, <1>5, <1>6, HostAssumption

(* The host it goes to is one it has not been put on.                      *)
LEMMA LeastIsUntried ==
  ASSUME IInv, NEW g \in Guest, Untried(g) # {}
  PROVE  LeastRelSize(g, Untried(g)) \in DOMAIN hosts \ attempted[g.id]
<1> DEFINE S == Untried(g)
           sizes == {RelSize(g, hosts[i]) : i \in S}
           least == {i \in S : \A j \in S : RelSize(g, hosts[i]) <= RelSize(g, hosts[j])}
<1>1. S \subseteq DOMAIN hosts /\ DOMAIN hosts \subseteq Nat
  BY LenProperties DEF Untried, IInv, TrueHosts
<1>2. \A i \in S : RelSize(g, hosts[i]) \in Nat
  BY <1>1, RelSizeBounded DEF IInv, TrueHosts
<1>3. sizes \in SUBSET Nat /\ sizes # {}
  BY <1>2
<1>4. Min(sizes) \in sizes /\ \A x \in sizes : Min(sizes) <= x
  <2> HIDE DEF sizes
  <2> QED BY <1>3, MinOfNaturals
<1>5. PICK i \in S : Min(sizes) = RelSize(g, hosts[i])
  BY <1>4
<1>6. i \in least
  BY <1>4, <1>5
<1>7. least \in SUBSET Nat /\ least # {}
  BY <1>1, <1>6
<1>8. Min(least) \in least
  <2> HIDE DEF least
  <2> QED BY <1>7, MinOfNaturals
<1> QED BY <1>8 DEF LeastRelSize, Untried

-----------------------------------------------------------------------------
(* When the loop ends no host is overfull, and the clean-up has nothing to *)
(* clear and nothing to pack.                                              *)
LEMMA FirstFitOfNothing ==
  ASSUME NEW hs PROVE ProceedBy("first_fit", hs, <<>>) = hs
<1> DEFINE Def(f) == [s \in SUBSET DOMAIN <<>> |->
                         IF s = {} THEN hs
                         ELSE Placed("first_fit", f[s \ {Max(s)}], <<>>[Max(s)])]
           iter == CHOOSE f : f = Def(f)
<1>1. ProceedBy("first_fit", hs, <<>>) = iter[DOMAIN <<>>]
  BY DEF ProceedBy, FoldLeft, MapThenFoldSet
<1>2. DOMAIN <<>> = {}
  OBVIOUS
<1>3. \A f, h : Def(f) = Def(h)
  BY <1>2
<1>4. \E f : f = Def(f)
  BY <1>3
<1>5. iter = Def(iter)
  BY <1>4
<1> QED BY <1>1, <1>2, <1>5

LEMMA FinishChangesNothing == IInv /\ Finish => hosts' = hosts
<1> SUFFICES ASSUME IInv, Finish PROVE hosts' = hosts
  OBVIOUS
<1>1. \A i \in DOMAIN hosts : ~IsOverfull(hosts[i])
  <2>1. ~(0 \in DOMAIN hosts)
    BY LenProperties DEF IInv, TrueHosts
  <2> QED BY <2>1 DEF IInv, Finish, Overloaded
<1>2. OverfullGuests(hosts) = {}
  BY <1>1 DEF OverfullGuests
<1>3. ClearOverfull(hosts) = hosts
  BY <1>1, LenProperties DEF ClearOverfull, IInv, TrueHosts
<1>4. ASSUME NEW guests \in SetToSeqs({}) PROVE guests = <<>>
  <2>1. Cardinality({}) = 0
    BY FS_EmptySet
  <2>2. guests \in [1 .. 0 -> {}]
    BY <2>1 DEF SetToSeqs
  <2> QED BY <2>2
<1> QED BY <1>2, <1>3, <1>4, FirstFitOfNothing DEF Finish

-----------------------------------------------------------------------------
(* The invariant is inductive. *)

LEMMA PlaceOnUntriedIInv == IInv /\ PlaceOnUntried => IInv'
<1> SUFFICES ASSUME IInv, PlaceOnUntried PROVE IInv'
  OBVIOUS
<1>1. PICK g : g = Head(unplaced)
  OBVIOUS
<1>2. PICK i : i = LeastRelSize(g, Untried(g))
  OBVIOUS
<1>3. /\ ~done /\ ~Overloaded /\ unplaced # <<>> /\ Untried(g) # {}
      /\ hosts' = PlaceOn(hosts, i, g)
      /\ unplaced' = Tail(unplaced)
      /\ attempted' = [attempted EXCEPT ![g.id] = @ \cup {i}]
      /\ best' = i /\ instance' = instance /\ done' = done
  BY <1>1, <1>2 DEF PlaceOnUntried, Attempt
<1>4. /\ g \in GuestsOf(instance) /\ g \in Guest /\ g \notin PlacedGuests(hosts)
      /\ g.id \in DOMAIN instance
      /\ unplaced' \in Seq(GuestsOf(instance))
      /\ NoneTwice(unplaced')
      /\ ToSet(unplaced') = ToSet(unplaced) \ {g}
  BY <1>1, <1>3, HeadIsUnplaced
<1>5. i \in DOMAIN hosts
  BY <1>2, <1>3, <1>4, LeastIsUntried
<1>6. TrueHosts(hosts) /\ NoGuestTwice(hosts)
  BY DEF IInv
<1>7. /\ TrueHosts(hosts') /\ NoGuestTwice(hosts')
      /\ DOMAIN hosts' = DOMAIN hosts
      /\ hosts'[i].guests = hosts[i].guests \cup {g}
      /\ \A j \in DOMAIN hosts : j # i => hosts'[j] = hosts[j]
      /\ PlacedGuests(hosts') = PlacedGuests(hosts) \cup {g}
  BY <1>3, <1>4, <1>5, <1>6, PlaceOnTrue
<1>8. attempted' \in [DOMAIN instance' -> SUBSET DOMAIN hosts']
  BY <1>3, <1>4, <1>5, <1>7 DEF IInv
<1>9. \A j \in DOMAIN hosts' : IsOverfull(hosts'[j]) => j = best'
  <2>1. ~(0 \in DOMAIN hosts)
    BY LenProperties DEF IInv, TrueHosts
  <2>2. \A j \in DOMAIN hosts : ~IsOverfull(hosts[j])
    BY <1>3, <2>1 DEF IInv, Overloaded
  <2> QED BY <1>3, <1>7, <2>2
<1>10. MaxGuestSize <= Capacity => \A j \in DOMAIN hosts' : hosts'[j].guests # {}
  BY <1>7 DEF IInv
<1>11. IsInstance(instance') /\ PlacedGuests(hosts') \subseteq GuestsOf(instance')
       /\ ToSet(unplaced') = GuestsOf(instance') \ PlacedGuests(hosts')
  BY <1>3, <1>4, <1>7 DEF IInv
<1> QED BY <1>3, <1>4, <1>5, <1>7, <1>8, <1>9, <1>10, <1>11 DEF IInv

LEMMA PlaceOnNewHostIInv == IInv /\ PlaceOnNewHost => IInv'
<1> SUFFICES ASSUME IInv, PlaceOnNewHost PROVE IInv'
  OBVIOUS
<1>1. PICK g : g = Head(unplaced)
  OBVIOUS
<1>2. PICK n : n = Len(hosts)
  OBVIOUS
<1>3. /\ ~done /\ ~Overloaded /\ unplaced # <<>>
      /\ hosts' = OpenHostFor(hosts, g)
      /\ unplaced' = Tail(unplaced)
      /\ attempted' = [attempted EXCEPT ![g.id] = @ \cup {n + 1}]
      /\ best' = n + 1 /\ instance' = instance /\ done' = done
  BY <1>1, <1>2 DEF PlaceOnNewHost, Attempt
<1>4. /\ g \in GuestsOf(instance) /\ g \in Guest /\ g \notin PlacedGuests(hosts)
      /\ g.id \in DOMAIN instance
      /\ unplaced' \in Seq(GuestsOf(instance))
      /\ NoneTwice(unplaced')
      /\ ToSet(unplaced') = ToSet(unplaced) \ {g}
  BY <1>1, <1>3, HeadIsUnplaced
<1>5. TrueHosts(hosts) /\ NoGuestTwice(hosts)
  BY DEF IInv
<1>6. DOMAIN hosts = 1 .. n /\ n \in Nat
  BY <1>2, <1>5, LenProperties DEF TrueHosts
<1>7. /\ TrueHosts(hosts') /\ NoGuestTwice(hosts')
      /\ DOMAIN hosts' = 1 .. n + 1
      /\ \A j \in 1 .. n : hosts'[j] = hosts[j]
      /\ hosts'[n + 1].guests = {g}
      /\ PlacedGuests(hosts') = PlacedGuests(hosts) \cup {g}
  BY <1>2, <1>3, <1>4, <1>5, OpenHostForTrue
<1>8. DOMAIN hosts \subseteq DOMAIN hosts' /\ n + 1 \in DOMAIN hosts'
      /\ \A j \in DOMAIN hosts' : j \in DOMAIN hosts \/ j = n + 1
  BY <1>6, <1>7
<1>9. attempted' \in [DOMAIN instance' -> SUBSET DOMAIN hosts']
  BY <1>3, <1>4, <1>8 DEF IInv
<1>10. \A j \in DOMAIN hosts' : IsOverfull(hosts'[j]) => j = best'
  <2>1. \A j \in DOMAIN hosts : ~IsOverfull(hosts[j])
    BY <1>3, <1>6 DEF IInv, Overloaded
  <2> QED BY <1>3, <1>6, <1>7, <1>8, <2>1
<1>11. MaxGuestSize <= Capacity => \A j \in DOMAIN hosts' : hosts'[j].guests # {}
  BY <1>6, <1>7, <1>8 DEF IInv
<1>12. IsInstance(instance') /\ PlacedGuests(hosts') \subseteq GuestsOf(instance')
       /\ ToSet(unplaced') = GuestsOf(instance') \ PlacedGuests(hosts')
  BY <1>3, <1>4, <1>7 DEF IInv
<1> QED BY <1>3, <1>4, <1>7, <1>8, <1>9, <1>10, <1>11, <1>12 DEF IInv

(* An overfull host has two guests, when each of them fits alone.          *)
LEMMA OverfullHasTwo ==
  ASSUME MaxGuestSize <= Capacity, IInv,
         NEW i \in DOMAIN hosts, IsOverfull(hosts[i]), NEW g \in hosts[i].guests
  PROVE  hosts[i].guests \ {g} # {}
<1>1. g \in GuestsOf(instance) /\ FrequenciesMatch(hosts[i])
  BY DEF IInv, TrueHosts, PlacedGuests
<1>2. g \in Guest /\ Cardinality(g.pages) \in Nat /\ Cardinality(g.pages) <= MaxGuestSize
  BY <1>1, InstanceGuests, HostAssumption DEF IInv, GuestsOf
<1>3. Cardinality(PagesOf(hosts[i].guests)) > Capacity
  BY <1>1, OverfullMeans
<1>4. PagesOf({g}) = g.pages
  BY DEF PagesOf
<1>5. hosts[i].guests # {g}
  BY <1>2, <1>3, <1>4, HostAssumption
<1> QED BY <1>5

LEMMA EvictWorstIInv == IInv /\ EvictWorst => IInv'
<1> SUFFICES ASSUME IInv, EvictWorst PROVE IInv'
  OBVIOUS
<1>1. PICK g \in WorstGuests(hosts[best]) :
          /\ hosts' = TakeOff(hosts, best, g)
          /\ unplaced' = Append(unplaced, g)
  BY DEF EvictWorst
<1>2. /\ ~done /\ best # 0 /\ IsOverfull(hosts[best])
      /\ instance' = instance /\ attempted' = attempted /\ best' = best /\ done' = done
  BY DEF EvictWorst, Overloaded
<1>3. best \in DOMAIN hosts /\ g \in hosts[best].guests
  BY <1>1, <1>2 DEF IInv, WorstGuests
<1>4. TrueHosts(hosts) /\ NoGuestTwice(hosts)
  BY DEF IInv
<1>5. /\ TrueHosts(hosts') /\ NoGuestTwice(hosts')
      /\ DOMAIN hosts' = DOMAIN hosts
      /\ hosts'[best].guests = hosts[best].guests \ {g}
      /\ \A j \in DOMAIN hosts : j # best => hosts'[j] = hosts[j]
      /\ PlacedGuests(hosts') = PlacedGuests(hosts) \ {g}
  BY <1>1, <1>3, <1>4, TakeOffTrue
<1>6. g \in PlacedGuests(hosts) /\ g \in GuestsOf(instance) /\ g \notin ToSet(unplaced)
  BY <1>3 DEF IInv, PlacedGuests
<1>7. /\ unplaced' \in Seq(GuestsOf(instance)) /\ NoneTwice(unplaced')
      /\ ToSet(unplaced') = ToSet(unplaced) \cup {g}
  <2>1. unplaced \in Seq(GuestsOf(instance)) /\ NoneTwice(unplaced)
    BY DEF IInv
  <2> QED BY <1>1, <1>6, <2>1, AppendNoneTwice
<1>8. \A j \in DOMAIN hosts' : IsOverfull(hosts'[j]) => j = best'
  BY <1>2, <1>5 DEF IInv
<1>9. MaxGuestSize <= Capacity => \A j \in DOMAIN hosts' : hosts'[j].guests # {}
  <2> SUFFICES ASSUME MaxGuestSize <= Capacity, NEW j \in DOMAIN hosts'
               PROVE  hosts'[j].guests # {}
    OBVIOUS
  <2>1. CASE j # best
    BY <1>5, <2>1 DEF IInv
  <2>2. CASE j = best
    BY <1>2, <1>3, <1>5, <2>2, OverfullHasTwo
  <2> QED BY <2>1, <2>2
<1>10. IsInstance(instance') /\ PlacedGuests(hosts') \subseteq GuestsOf(instance')
       /\ ToSet(unplaced') = GuestsOf(instance') \ PlacedGuests(hosts')
  BY <1>2, <1>5, <1>6, <1>7 DEF IInv
<1>11. attempted' \in [DOMAIN instance' -> SUBSET DOMAIN hosts']
       /\ best' \in {0} \cup DOMAIN hosts' /\ done' \in BOOLEAN /\ ~done'
  BY <1>2, <1>5 DEF IInv
<1> QED BY <1>2, <1>5, <1>7, <1>8, <1>9, <1>10, <1>11 DEF IInv

LEMMA FinishIInv == IInv /\ Finish => IInv'
<1> SUFFICES ASSUME IInv, Finish PROVE IInv'
  OBVIOUS
<1>1. hosts' = hosts
  BY FinishChangesNothing
<1>2. /\ ~Overloaded /\ unplaced = <<>> /\ done' = TRUE
      /\ instance' = instance /\ unplaced' = unplaced /\ attempted' = attempted /\ best' = best
  BY DEF Finish
<1>3. ~Overloaded'
  BY <1>1, <1>2 DEF Overloaded
<1> QED BY <1>1, <1>2, <1>3 DEF IInv

LEMMA Invariance == Spec => []IInv
<1>1. IInv /\ UNCHANGED vars => IInv'
  BY DEF IInv, vars, Overloaded
<1>2. IInv /\ [Next]_vars => IInv'
  BY <1>1, PlaceOnUntriedIInv, PlaceOnNewHostIInv, EvictWorstIInv, FinishIInv DEF Next
<1> QED BY InitIInv, <1>2, PTL DEF Spec

-----------------------------------------------------------------------------
(* What the runs check. *)

(* The state of the solver keeps its types.                                *)
THEOREM OverloadTypeCorrect == Spec => []TypeOK
<1>1. IInv => TypeOK
  BY DEF IInv, TrueHosts, TypeOK
<1> QED BY <1>1, Invariance, PTL

(* No guest is lost or doubled by being evicted and placed again, and the  *)
(* page maps stay true (vmp_solvers.h:210-222).                            *)
THEOREM OverloadEveryGuestSomewhere == Spec => []EveryGuestSomewhere
<1>1. IInv => EveryGuestSomewhere
  <2> SUFFICES ASSUME IInv PROVE EveryGuestSomewhere
    OBVIOUS
  <2>1. Len(unplaced) = Cardinality(ToSet(unplaced))
    BY NoneTwiceCounts DEF IInv
  <2> QED BY <2>1 DEF IInv, TrueHosts, EveryGuestSomewhere, AllFrequenciesMatch
<1> QED BY <1>1, Invariance, PTL

(* No host is left empty and none but that of the turn is overfull, when   *)
(* every guest fits an empty host (vmp_solvers.h:214-222).                 *)
THEOREM OverloadHostsStayUsed ==
  ASSUME MaxGuestSize <= Capacity PROVE Spec => []HostsStayUsed
<1>1. IInv => HostsStayUsed
  BY DEF IInv, HostsStayUsed
<1> QED BY <1>1, Invariance, PTL

(* The packing returned is valid, when every guest fits an empty host      *)
(* (vmp_solvers.h:244, vmp_packing.h:61-86).                               *)
THEOREM OverloadResultValid ==
  ASSUME MaxGuestSize <= Capacity PROVE Spec => []ResultValid
<1>1. IInv => ResultValid
  <2> SUFFICES ASSUME IInv, done
               PROVE  /\ ValidateForInstance(hosts, instance) = "PACKING_OKAY"
                      /\ NoGuestTwice(hosts)
    BY DEF ResultValid
  <2>1. BadHosts(hosts) = {}
    <3>1. ~(0 \in DOMAIN hosts)
      BY LenProperties DEF IInv, TrueHosts
    <3> QED BY <3>1 DEF IInv, Overloaded, BadHosts
  <2>2. ToSet(unplaced) = {}
    BY DEF IInv, ToSet
  <2>3. GuestsOf(instance) \subseteq PlacedGuests(hosts)
    BY <2>2 DEF IInv
  <2> QED BY <2>1, <2>3 DEF ValidateForInstance, IInv
<1> QED BY <1>1, Invariance, PTL

(* No attempt is forgotten, and a turn that shortens the queue makes one   *)
(* not made before: the measure that ends the loop (vmp_solvers.h:195-197, *)
(* 211).                                                                   *)
THEOREM OverloadEveryTurnIsNew == Spec => EveryTurnIsNew
<1> DEFINE New == /\ \A id \in DOMAIN instance : attempted[id] \subseteq attempted'[id]
                  /\ Len(unplaced') < Len(unplaced) => attempted' # attempted
<1>1. ASSUME IInv, NEW g, g = Head(unplaced), unplaced # <<>>,
             NEW i, i \notin attempted[g.id],
             attempted' = [attempted EXCEPT ![g.id] = @ \cup {i}]
      PROVE  New
  <2>1. g.id \in DOMAIN instance
    BY <1>1, HeadIsUnplaced
  <2>2. attempted'[g.id] = attempted[g.id] \cup {i}
    BY <1>1, <2>1 DEF IInv
  <2>3. attempted' # attempted
    BY <1>1, <2>2
  <2>4. \A id \in DOMAIN instance : attempted[id] \subseteq attempted'[id]
    BY <1>1 DEF IInv
  <2> QED BY <2>3, <2>4
<1>2. ASSUME IInv, PlaceOnUntried PROVE New
  <2>1. PICK g, i : g = Head(unplaced) /\ i = LeastRelSize(g, Untried(g))
    OBVIOUS
  <2>2. /\ unplaced # <<>> /\ Untried(g) # {}
        /\ attempted' = [attempted EXCEPT ![g.id] = @ \cup {i}]
    BY <1>2, <2>1 DEF PlaceOnUntried, Attempt
  <2>3. i \notin attempted[g.id]
    BY <1>2, <2>1, <2>2, HeadIsUnplaced, LeastIsUntried
  <2> QED BY <1>1, <1>2, <2>1, <2>2, <2>3
<1>3. ASSUME IInv, PlaceOnNewHost PROVE New
  <2>1. PICK g, i : g = Head(unplaced) /\ i = Len(hosts) + 1
    OBVIOUS
  <2>2. /\ unplaced # <<>>
        /\ attempted' = [attempted EXCEPT ![g.id] = @ \cup {i}]
    BY <1>3, <2>1 DEF PlaceOnNewHost, Attempt
  <2>3. i \notin DOMAIN hosts
    BY <1>3, <2>1, LenProperties DEF IInv, TrueHosts
  <2>4. attempted[g.id] \subseteq DOMAIN hosts
    BY <1>3, <2>1, <2>2, HeadIsUnplaced DEF IInv
  <2> QED BY <1>1, <1>3, <2>1, <2>2, <2>3, <2>4
<1>4. ASSUME IInv, EvictWorst PROVE New
  <2>1. PICK g \in WorstGuests(hosts[best]) : unplaced' = Append(unplaced, g)
    BY <1>4 DEF EvictWorst
  <2>2. g \in GuestsOf(instance)
    BY <1>4, <2>1 DEF EvictWorst, Overloaded, WorstGuests, IInv, PlacedGuests
  <2>3. Len(unplaced') = Len(unplaced) + 1 /\ Len(unplaced) \in Nat
    BY <1>4, <2>1, <2>2, AppendProperties, LenProperties DEF IInv
  <2> QED BY <1>4, <2>3 DEF EvictWorst
<1>5. ASSUME IInv, Finish \/ UNCHANGED vars PROVE New
  <2>1. attempted' = attempted /\ unplaced' = unplaced
    BY <1>5 DEF Finish, vars
  <2>2. Len(unplaced) \in Nat
    BY <1>5, LenProperties DEF IInv
  <2> QED BY <2>1, <2>2
<1>6. IInv /\ [Next]_vars => [New]_vars
  BY <1>2, <1>3, <1>4, <1>5 DEF Next
<1> QED BY <1>6, Invariance, PTL DEF Spec, EveryTurnIsNew

(* The clean-up after the loop finds no overfull host, so the final First  *)
(* Fit has nothing to place (vmp_solvers.h:225-236).                       *)
THEOREM OverloadCleanUpChangesNothing == Spec => CleanUpChangesNothing
<1>1. IInv /\ [Next]_vars => [done' => hosts' = hosts]_vars
  BY FinishChangesNothing DEF Next, PlaceOnUntried, PlaceOnNewHost, Attempt, EvictWorst
<1> QED BY <1>1, Invariance, PTL DEF Spec, CleanUpChangesNothing
=============================================================================
