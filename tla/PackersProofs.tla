--------------------------- MODULE PackersProofs ----------------------------
(***************************************************************************)
(* Theorems about the sequential packers, for every set of pages, every    *)
(* capacity and every length of instance.  They rest on one inductive      *)
(* invariant: the guests before guestsBegin, and no others, are on hosts,  *)
(* each on one; every host has a guest and a true page map, and an         *)
(* overfull host has one guest only.                                       *)
(***************************************************************************)
EXTENDS SequentialPackers, PackingLemmas

(* Every host that accommodates a guest qualifies for it.                  *)
LEMMA QualifyingIsAccommodating ==
  ASSUME NEW hs, GoodHosts(hs), NEW g \in Guest
  PROVE  Qualifying(hs, g) = Accommodating(hs, g)
BY RelSizeBounded DEF Qualifying, Accommodating, GoodHosts, TrueHosts

-----------------------------------------------------------------------------
(* The invariant of all three solvers. *)

PlacedSoFar == {instance[k] : k \in 1 .. next - 1}

IInv ==
    /\ solver \in Solver
    /\ IsInstance(instance)
    /\ next \in 1 .. Len(instance) + 1
    /\ GoodHosts(hosts)
    /\ NoGuestTwice(hosts)
    /\ PlacedGuests(hosts) = PlacedSoFar
    /\ OverfullHostsHaveOne(hosts)

(* What the three choices have in common: the guest goes to a host that    *)
(* accommodates it; or to a new one, when every host that the solver asks, *)
(* which for Next Fit is the last one, refuses it.                         *)
Asked == {i \in DOMAIN hosts : solver = "next_fit" => i = Len(hosts)}

AskedRefuse == \A i \in Asked : ~AccommodatesGuest(hosts[i], instance[next])

PackingStep ==
    /\ ~Done
    /\ \/ \E i \in Accommodating(hosts, instance[next]) : PlaceNextOn(i)
       \/ AskedRefuse /\ PlaceNextOnNewHost

(* The guest of the turn is on no host yet. *)
LEMMA NextIsUnplaced ==
  ASSUME IInv, ~Done
  PROVE  /\ next \in 1 .. Len(instance) /\ Len(instance) \in Nat
         /\ instance[next] \in Guest
         /\ instance[next] \notin PlacedGuests(hosts)
<1>1. next \in 1 .. Len(instance) /\ Len(instance) \in Nat
  BY LenProperties DEF IInv, Done, IsInstance
<1>2. instance[next] \in Guest
  BY <1>1, InstanceGuests, ElementOfSeq DEF IInv
<1>3. instance[next] \notin PlacedSoFar
  BY <1>1, InstanceGuests DEF IInv, PlacedSoFar
<1> QED BY <1>1, <1>2, <1>3 DEF IInv

LEMMA InitIInv == Init => IInv
<1> SUFFICES ASSUME Init PROVE IInv
  OBVIOUS
<1>1. IsInstance(instance)
  BY InstanceOfIsInstance DEF Init
<1>2. hosts = <<>> /\ next = 1 /\ solver \in Solver
  BY DEF Init
<1>3. next \in 1 .. Len(instance) + 1 /\ PlacedSoFar = {}
  BY <1>1, <1>2, LenProperties DEF IsInstance, PlacedSoFar
<1>4. DOMAIN hosts = {}
  BY <1>2
<1> QED BY <1>1, <1>2, <1>3, <1>4, EmptyHosts DEF IInv, OverfullHostsHaveOne

LEMMA NextIsPacking == IInv /\ Next => PackingStep
<1> SUFFICES ASSUME IInv, Next PROVE PackingStep
  OBVIOUS
<1> DEFINE g == instance[next]
<1>1. GoodHosts(hosts) /\ ~Done
  BY DEF IInv, Next, Runs, NextFitPlace, NextFitOpen, FirstFitPlace, FirstFitOpen,
         EfficiencyPlace, EfficiencyOpen
<1>2. Qualifying(hosts, g) = Accommodating(hosts, g)
  BY <1>1, NextIsUnplaced, QualifyingIsAccommodating
<1>3. CASE NextFitPlace
  <2>1. Len(hosts) \in DOMAIN hosts
    BY <1>1, <1>3, EmptySeq, LenProperties DEF NextFitPlace, LastAccommodates, GoodHosts, TrueHosts
  <2>2. Len(hosts) \in Accommodating(hosts, g)
    BY <1>3, <2>1 DEF NextFitPlace, LastAccommodates, Accommodating
  <2> QED BY <1>1, <1>3, <2>2 DEF NextFitPlace, PackingStep
<1>4. CASE NextFitOpen
  <2>1. \A i \in Asked : i = Len(hosts) /\ hosts # <<>>
    BY <1>4, EmptySeq DEF NextFitOpen, Runs, Asked
  <2>2. AskedRefuse
    BY <1>4, <2>1 DEF NextFitOpen, LastAccommodates, AskedRefuse
  <2> QED BY <1>1, <1>4, <2>2 DEF NextFitOpen, PackingStep
<1>5. CASE FirstFitPlace
  BY <1>1, <1>5 DEF FirstFitPlace, First, PackingStep
<1>6. CASE FirstFitOpen
  <2>1. AskedRefuse
    BY <1>6 DEF FirstFitOpen, Accommodating, Asked, AskedRefuse
  <2> QED BY <1>1, <1>6, <2>1 DEF FirstFitOpen, PackingStep
<1>7. CASE EfficiencyPlace
  BY <1>1, <1>2, <1>7 DEF EfficiencyPlace, MostEfficient, PackingStep
<1>8. CASE EfficiencyOpen
  <2>1. AskedRefuse
    BY <1>2, <1>8 DEF EfficiencyOpen, Accommodating, Asked, AskedRefuse
  <2> QED BY <1>1, <1>8, <2>1 DEF EfficiencyOpen, PackingStep
<1> QED BY <1>3, <1>4, <1>5, <1>6, <1>7, <1>8 DEF Next

LEMMA StepIInv == IInv /\ PackingStep => IInv'
<1> SUFFICES ASSUME IInv, PackingStep PROVE IInv'
  OBVIOUS
<1> DEFINE g == instance[next]
<1>1. ~Done
  BY DEF PackingStep
<1>2. /\ next \in 1 .. Len(instance) /\ Len(instance) \in Nat
      /\ g \in Guest /\ g \notin PlacedGuests(hosts)
  BY <1>1, NextIsUnplaced
<1>3. instance' = instance /\ next' = next + 1 /\ solver' = solver
  BY DEF PackingStep, PlaceNextOn, PlaceNextOnNewHost
<1>4. PlacedSoFar' = PlacedSoFar \cup {g}
  <2>1. 1 .. next' - 1 = (1 .. next - 1) \cup {next}
    BY <1>2, <1>3
  <2> QED BY <1>3, <2>1 DEF PlacedSoFar
<1>5. IsInstance(instance)' /\ (next \in 1 .. Len(instance) + 1)' /\ (solver \in Solver)'
  BY <1>2, <1>3 DEF IInv
<1>6. ASSUME NEW i \in Accommodating(hosts, g), PlaceNextOn(i) PROVE IInv'
  <2>1. i \in DOMAIN hosts /\ AccommodatesGuest(hosts[i], g)
    BY <1>6 DEF Accommodating
  <2>2. hosts' = PlaceOn(hosts, i, g)
    BY <1>6 DEF PlaceNextOn
  <2>3. /\ GoodHosts(hosts') /\ NoGuestTwice(hosts') /\ DOMAIN hosts' = DOMAIN hosts
        /\ hosts'[i].guests = hosts[i].guests \cup {g}
        /\ \A j \in DOMAIN hosts : j # i => hosts'[j] = hosts[j]
        /\ PlacedGuests(hosts') = PlacedGuests(hosts) \cup {g}
    <3>1. GoodHosts(hosts) /\ NoGuestTwice(hosts)
      BY DEF IInv
    <3> HIDE DEF g
    <3> QED BY <1>2, <2>1, <2>2, <3>1, PlaceOnGood
  <2>4. OverfullHostsHaveOne(hosts')
    <3>1. TrueHosts(hosts) /\ NoGuestTwice(hosts) /\ OverfullHostsHaveOne(hosts)
      BY DEF IInv, GoodHosts
    <3> HIDE DEF g
    <3> QED BY <1>2, <2>2, <3>1, PlaceOnOverfull
  <2> QED BY <1>4, <1>5, <2>3, <2>4 DEF IInv
<1>7. CASE PlaceNextOnNewHost
  <2>1. hosts' = OpenHostFor(hosts, g)
    BY <1>7 DEF PlaceNextOnNewHost
  <2>2. /\ GoodHosts(hosts') /\ NoGuestTwice(hosts')
        /\ DOMAIN hosts' = 1 .. Len(hosts) + 1
        /\ \A j \in 1 .. Len(hosts) : hosts'[j] = hosts[j]
        /\ hosts'[Len(hosts) + 1].guests = {g}
        /\ PlacedGuests(hosts') = PlacedGuests(hosts) \cup {g}
    BY <1>2, <2>1, OpenHostForGood DEF IInv
  <2>3. OverfullHostsHaveOne(hosts')
    <3>1. TrueHosts(hosts) /\ NoGuestTwice(hosts) /\ OverfullHostsHaveOne(hosts)
      BY DEF IInv, GoodHosts
    <3> HIDE DEF g
    <3> QED BY <1>2, <2>1, <3>1, OpenHostForOverfull
  <2> QED BY <1>4, <1>5, <2>2, <2>3 DEF IInv
<1> QED BY <1>6, <1>7 DEF PackingStep

LEMMA StutterIInv == IInv /\ UNCHANGED vars => IInv'
BY DEF IInv, vars, PlacedSoFar

LEMMA Invariance == Spec => []IInv
<1>1. IInv /\ [Next]_vars => IInv'
  BY NextIsPacking, StepIInv, StutterIInv
<1> QED BY InitIInv, <1>1, PTL DEF Spec

-----------------------------------------------------------------------------
(* The packing counts as many guests as the instance has                   *)
(* (vmp_packing.cpp:8-14).                                                 *)
LEMMA IInvCountsGuests == IInv /\ Done => MakePacking(hosts).guestCount = Len(instance)
<1> SUFFICES ASSUME IInv, Done PROVE MakePacking(hosts).guestCount = Len(instance)
  OBVIOUS
<1>1. next - 1 = Len(instance)
  BY LenProperties DEF IInv, Done, IsInstance
<1>2. PlacedGuests(hosts) = GuestsOf(instance)
  BY <1>1 DEF IInv, PlacedSoFar, GuestsOf
<1>3. MakePacking(hosts).guestCount = Cardinality(PlacedGuests(hosts))
  BY PackingCounts DEF IInv, GoodHosts
<1> QED BY <1>2, <1>3, InstanceCounts DEF IInv

(* When a solver has placed all guests, its packing is valid, if each of   *)
(* them fits a host.                                                       *)
LEMMA IInvGivesValid == IInv => ResultValid
<1> SUFFICES ASSUME IInv, Done
             PROVE  /\ ValidateForInstance(hosts, instance) =
                          IF AllGuestsFit(instance) THEN "PACKING_OKAY" ELSE "PACKING_HOST_OVERFULL"
                    /\ OverfullHostsHaveOne(hosts)
                    /\ NoGuestTwice(hosts)
                    /\ MakePacking(hosts).guestCount = Len(instance)
  BY DEF ResultValid
<1>1. PlacedGuests(hosts) = GuestsOf(instance)
  <2>1. next - 1 = Len(instance) /\ Len(instance) \in Nat
    BY LenProperties DEF IInv, Done, IsInstance
  <2>2. PlacedSoFar = GuestsOf(instance)
    BY <2>1 DEF PlacedSoFar, GuestsOf
  <2> QED BY <2>2 DEF IInv
<1>2. GoodHosts(hosts) /\ OverfullHostsHaveOne(hosts) /\ NoGuestTwice(hosts)
  BY DEF IInv
<1> QED BY <1>1, <1>2, IInvCountsGuests, VerdictOnPacking

(* The solvers return valid packings of every instance whose guests each   *)
(* fit a host; of any other instance they return packings with an overfull *)
(* host, but no host is overfull for more than one guest.  All guests are  *)
(* counted (vmp_solvers.h:55-64, 101-110, 158-167, vmp_packing.cpp:8-14).  *)
THEOREM PackersResultValid == Spec => []ResultValid
<1>1. IInv => ResultValid
  BY IInvGivesValid
<1> QED BY <1>1, Invariance, PTL

(* The state of the solvers keeps its types.                               *)
THEOREM PackersTypeCorrect == Spec => []TypeOK
<1>1. IInv => TypeOK
  BY LenProperties DEF IInv, GoodHosts, TrueHosts, TypeOK
<1> QED BY <1>1, Invariance, PTL

(* Hosts are asked, and ranked, by page counts that are true to their      *)
(* guests (vmp_solvers.h:42, 84, 137).                                     *)
THEOREM PackersCountsTrue == Spec => []CountsTrue
<1>1. IInv => CountsTrue
  BY DEF IInv, GoodHosts, TrueHosts, CountsTrue, AllFrequenciesMatch
<1> QED BY <1>1, Invariance, PTL

-----------------------------------------------------------------------------
(* First Fit needs no decanting.  That no guest fits a host before its own *)
(* is kept by a step: the guest of the turn goes to the first host that    *)
(* accommodates it, and a host that has refused a guest refuses it         *)
(* forever, since it only gains pages.                                     *)

LEMMA FirstFitStepStable ==
  IInv /\ IInv' /\ FirstFitStable(hosts) /\ (FirstFitPlace \/ FirstFitOpen)
    => FirstFitStable(hosts')
<1> SUFFICES ASSUME IInv, IInv', FirstFitStable(hosts), FirstFitPlace \/ FirstFitOpen
             PROVE  FirstFitStable(hosts')
  OBVIOUS
<1> DEFINE g == instance[next]
<1>1. ~Done
  BY DEF FirstFitPlace, FirstFitOpen, Runs
<1>2. g \in Guest /\ g \notin PlacedGuests(hosts)
  BY <1>1, NextIsUnplaced
<1>3. DOMAIN hosts = 1 .. Len(hosts) /\ Len(hosts) \in Nat
  BY LenProperties DEF IInv, GoodHosts, TrueHosts
<1>4. GoodHosts(hosts) /\ GoodHosts(hosts') /\ NoGuestTwice(hosts)
  BY DEF IInv
<1>5. \A i, j \in DOMAIN hosts : i < j => \A h \in hosts[j].guests : ~AccommodatesGuest(hosts[i], h)
  BY DEF FirstFitStable
<1> SUFFICES ASSUME NEW i \in DOMAIN hosts', NEW j \in DOMAIN hosts', i < j,
                    NEW h \in hosts'[j].guests
             PROVE  ~AccommodatesGuest(hosts'[i], h)
  BY DEF FirstFitStable
<1>6. h \in Guest
  BY <1>4 DEF GoodHosts, TrueHosts, IsHost
<1>7. CASE FirstFitPlace
  <2>1. PICK k \in First(Accommodating(hosts, g)) : PlaceNextOn(k)
    BY <1>7 DEF FirstFitPlace
  <2>2. k \in DOMAIN hosts /\ hosts' = PlaceOn(hosts, k, g)
    BY <2>1 DEF First, Accommodating, PlaceNextOn
  <2>3. /\ DOMAIN hosts' = DOMAIN hosts
        /\ hosts'[k].guests = hosts[k].guests \cup {g}
        /\ \A l \in DOMAIN hosts : l # k => hosts'[l] = hosts[l]
    <3> HIDE DEF g
    <3> QED BY <1>2, <1>4, <2>2, PlaceOnGood
  <2>4. ~AccommodatesGuest(hosts[i], h)
    <3>1. CASE h \in hosts[j].guests
      BY <1>5, <2>3, <3>1
    <3>2. CASE h \notin hosts[j].guests
      <4>1. h = g /\ j = k
        BY <2>3, <3>2
      <4>2. i \notin Accommodating(hosts, g)
        BY <1>3, <2>1, <2>3, <4>1 DEF First
      <4> QED BY <2>3, <4>1, <4>2 DEF Accommodating
    <3> QED BY <3>1, <3>2
  <2>5. hosts[i].guests \subseteq hosts'[i].guests
    BY <2>3
  <2> QED BY <1>4, <1>6, <2>3, <2>4, <2>5, RefusalLasts DEF GoodHosts, TrueHosts
<1>8. CASE FirstFitOpen
  <2>1. hosts' = OpenHostFor(hosts, g) /\ Accommodating(hosts, g) = {}
    BY <1>8 DEF FirstFitOpen, PlaceNextOnNewHost
  <2>2. /\ DOMAIN hosts' = 1 .. Len(hosts) + 1
        /\ \A l \in 1 .. Len(hosts) : hosts'[l] = hosts[l]
        /\ hosts'[Len(hosts) + 1].guests = {g}
    <3> HIDE DEF g
    <3> QED BY <1>2, <1>4, <2>1, OpenHostForGood
  <2>3. i \in DOMAIN hosts /\ hosts'[i] = hosts[i]
    BY <1>3, <2>2
  <2>4. CASE j \in DOMAIN hosts
    BY <1>3, <1>5, <2>2, <2>3, <2>4
  <2>5. CASE j \notin DOMAIN hosts
    <3>1. h = g
      BY <1>3, <2>2, <2>5
    <3> QED BY <2>1, <2>3, <3>1 DEF Accommodating
  <2> QED BY <2>4, <2>5
<1> QED BY <1>7, <1>8

(* At every moment no guest of a First Fit packing fits an earlier host    *)
(* (vmp_solvers.h:76-93, benchmarks/benchmark.cpp:210).                    *)
THEOREM FirstFitNeedsNoDecanting == Spec => []NeedsNoDecanting
<1>1. Init => NeedsNoDecanting
  BY DEF Init, NeedsNoDecanting, FirstFitStable
<1>2. IInv /\ IInv' /\ NeedsNoDecanting /\ [Next]_vars => NeedsNoDecanting'
  <2> SUFFICES ASSUME IInv, IInv', FirstFitStable(hosts), [Next]_vars, solver' = "first_fit",
                      solver = "first_fit"
               PROVE  FirstFitStable(hosts')
    <3>1. [Next]_vars => solver' = solver
      BY DEF Next, vars, NextFitPlace, NextFitOpen, FirstFitPlace, FirstFitOpen,
             EfficiencyPlace, EfficiencyOpen, PlaceNextOn, PlaceNextOnNewHost
    <3> QED BY <3>1 DEF NeedsNoDecanting
  <2>1. CASE UNCHANGED vars
    BY <2>1 DEF vars
  <2>2. CASE Next
    <3>1. FirstFitPlace \/ FirstFitOpen
      BY <2>2 DEF Next, Runs, NextFitPlace, NextFitOpen, EfficiencyPlace, EfficiencyOpen
    <3> QED BY <3>1, FirstFitStepStable
  <2> QED BY <2>1, <2>2
<1> QED BY <1>1, <1>2, Invariance, PTL DEF Spec

-----------------------------------------------------------------------------
(* Hosts that could be one.  Each host has a guest that was refused when   *)
(* it was opened for it, by the host before it, or, unless the solver is   *)
(* Next Fit, by all hosts before it; and they refuse it still.             *)

Refused ==
    \A i, j \in DOMAIN hosts : i < j /\ (solver = "next_fit" => j = i + 1) =>
        \E g \in hosts[j].guests : ~AccommodatesGuest(hosts[i], g)

LEMMA StepRefused == IInv /\ IInv' /\ Refused /\ PackingStep => Refused'
<1> SUFFICES ASSUME IInv, IInv', Refused, PackingStep PROVE Refused'
  OBVIOUS
<1> DEFINE g == instance[next]
           n == Len(hosts)
<1>1. ~Done /\ solver' = solver
  BY DEF PackingStep, PlaceNextOn, PlaceNextOnNewHost
<1>2. g \in Guest /\ g \notin PlacedGuests(hosts)
  BY <1>1, NextIsUnplaced
<1>3. DOMAIN hosts = 1 .. n /\ n \in Nat
  BY LenProperties DEF IInv, GoodHosts, TrueHosts
<1>4. GoodHosts(hosts) /\ GoodHosts(hosts') /\ NoGuestTwice(hosts)
  BY DEF IInv
<1> SUFFICES ASSUME NEW i \in DOMAIN hosts', NEW j \in DOMAIN hosts', i < j,
                    solver = "next_fit" => j = i + 1
             PROVE  \E h \in hosts'[j].guests : ~AccommodatesGuest(hosts'[i], h)
  BY <1>1 DEF Refused
<1>5. ASSUME i \in DOMAIN hosts, hosts[i].guests \subseteq hosts'[i].guests,
             NEW h \in hosts'[j].guests, ~AccommodatesGuest(hosts[i], h)
      PROVE  ~AccommodatesGuest(hosts'[i], h)
  <2>1. h \in Guest
    BY <1>4 DEF GoodHosts, TrueHosts, IsHost
  <2> QED BY <1>4, <1>5, <2>1, RefusalLasts DEF GoodHosts, TrueHosts
<1>6. ASSUME i \in DOMAIN hosts, j \in DOMAIN hosts
      PROVE  \E h \in hosts[j].guests : ~AccommodatesGuest(hosts[i], h)
  BY <1>6 DEF Refused
<1>7. ASSUME NEW k \in Accommodating(hosts, g), PlaceNextOn(k)
      PROVE  \E h \in hosts'[j].guests : ~AccommodatesGuest(hosts'[i], h)
  <2>1. k \in DOMAIN hosts /\ hosts' = PlaceOn(hosts, k, g)
    BY <1>7 DEF Accommodating, PlaceNextOn
  <2>2. /\ DOMAIN hosts' = DOMAIN hosts
        /\ hosts'[k].guests = hosts[k].guests \cup {g}
        /\ \A l \in DOMAIN hosts : l # k => hosts'[l] = hosts[l]
    <3> HIDE DEF g
    <3> QED BY <1>2, <1>4, <2>1, PlaceOnGood
  <2>3. \A l \in DOMAIN hosts : hosts[l].guests \subseteq hosts'[l].guests
    BY <2>2
  <2>4. PICK h \in hosts[j].guests : ~AccommodatesGuest(hosts[i], h)
    BY <1>6, <2>2
  <2> QED BY <1>5, <2>2, <2>3, <2>4
<1>8. CASE AskedRefuse /\ PlaceNextOnNewHost
  <2>1. hosts' = OpenHostFor(hosts, g)
    BY <1>8 DEF PlaceNextOnNewHost
  <2>2. /\ DOMAIN hosts' = 1 .. n + 1
        /\ \A l \in 1 .. n : hosts'[l] = hosts[l]
        /\ hosts'[n + 1].guests = {g}
    <3> HIDE DEF g
    <3> QED BY <1>2, <1>4, <2>1, OpenHostForGood
  <2>3. i \in 1 .. n /\ hosts'[i] = hosts[i]
    <3> HIDE DEF n
    <3> QED BY <1>3, <2>2
  <2>4. CASE j \in 1 .. n
    BY <1>3, <1>6, <2>2, <2>3, <2>4
  <2>5. CASE j = n + 1
    <3>1. i \in Asked
      <4>1. solver = "next_fit" => i = n
        <5> HIDE DEF n
        <5> QED BY <1>3, <2>3, <2>5
      <4> QED BY <1>3, <2>3, <4>1 DEF Asked
    <3>2. ~AccommodatesGuest(hosts[i], g)
      BY <1>8, <3>1 DEF AskedRefuse
    <3> QED BY <2>2, <2>3, <2>5, <3>2
  <2>6. j \in 1 .. n \/ j = n + 1
    <3> HIDE DEF n
    <3> QED BY <1>3, <2>2
  <2> QED BY <2>4, <2>5, <2>6
<1> QED BY <1>7, <1>8 DEF PackingStep

LEMMA RefusedAlways == Spec => []Refused
<1>1. Init => Refused
  BY DEF Init, Refused
<1>2. IInv /\ IInv' /\ Refused /\ [Next]_vars => Refused'
  <2>1. Refused /\ UNCHANGED vars => Refused'
    BY DEF Refused, vars
  <2> QED BY <2>1, NextIsPacking, StepRefused
<1> QED BY <1>1, <1>2, Invariance, PTL DEF Spec

LEMMA RefusedDoNotMerge ==
  ASSUME IInv, Refused, NEW i \in DOMAIN hosts, NEW j \in DOMAIN hosts,
         i < j, solver = "next_fit" => j = i + 1
  PROVE  ~AccommodatesGuests(hosts[i], hosts[j].guests)
<1>1. PICK g \in hosts[j].guests : ~AccommodatesGuest(hosts[i], g)
  BY DEF Refused
<1>2. IsHost(hosts[i]) /\ FrequenciesMatch(hosts[i]) /\ hosts[j].guests \in SUBSET Guest
  BY DEF IInv, GoodHosts, TrueHosts, IsHost
<1> QED BY <1>1, <1>2, RefusalOfMany

(* No solver leaves two neighbours that could be one host                  *)
(* (vmp_solvers.h:36-47).                                                  *)
THEOREM PackersNeighboursDoNotMerge == Spec => []NeighboursDoNotMerge
<1>1. IInv /\ Refused => NeighboursDoNotMerge
  <2> SUFFICES ASSUME IInv, Refused, NEW i \in 1 .. Len(hosts) - 1
               PROVE  ~AccommodatesGuests(hosts[i], hosts[i + 1].guests)
    BY DEF NeighboursDoNotMerge
  <2>1. i \in DOMAIN hosts /\ i + 1 \in DOMAIN hosts /\ i < i + 1
    BY LenProperties DEF IInv, GoodHosts, TrueHosts
  <2> QED BY <2>1, RefusedDoNotMerge
<1> QED BY <1>1, Invariance, RefusedAlways, PTL

(* First Fit and Best Fusion leave no two hosts that could be one          *)
(* (vmp_solvers.h:76-93, 122-150).                                         *)
THEOREM AnyFitHostsDoNotMerge == Spec => []HostsDoNotMerge
<1>1. IInv /\ Refused => HostsDoNotMerge
  BY RefusedDoNotMerge DEF HostsDoNotMerge, NoTwoHostsMerge
<1> QED BY <1>1, Invariance, RefusedAlways, PTL

-----------------------------------------------------------------------------
(* The solvers implement the packer of bins.                               *)

Bins == BinsOf(hosts)

Unplaced == {instance[k] : k \in next .. Len(instance)}

LEMMA InitRefines == Init => Packs!Init
<1> SUFFICES ASSUME Init PROVE Packs!Init
  OBVIOUS
<1>1. IsInstance(instance) /\ hosts = <<>> /\ next = 1
  BY InstanceOfIsInstance DEF Init
<1>2. Unplaced \subseteq GuestsOf(instance)
  BY <1>1 DEF Unplaced, GuestsOf
<1>3. \A g, h \in GuestsOf(instance) : g.id = h.id => g = h
  BY <1>1 DEF IsInstance, GuestsOf
<1>4. Bins = <<>>
  BY <1>1 DEF Bins, BinsOf
<1> QED BY <1>1, <1>2, <1>3, <1>4, InstanceGuests DEF Packs!Init, Unplaced, Bins, BinsOf

LEMMA UnplacedShrinks ==
  ASSUME IInv, ~Done, next' = next + 1, instance' = instance
  PROVE  Unplaced' = Unplaced \ {instance[next]}
<1>1. next \in 1 .. Len(instance) /\ Len(instance) \in Nat
  BY NextIsUnplaced
<1>2. \A k, l \in 1 .. Len(instance) : instance[k] = instance[l] => k = l
  BY InstanceGuests DEF IInv
<1>3. next .. Len(instance) = {next} \cup (next + 1) .. Len(instance)
  BY <1>1
<1>4. \A k \in (next + 1) .. Len(instance) : k \in 1 .. Len(instance) /\ k # next
  BY <1>1
<1>5. Unplaced' = {instance[k] : k \in (next + 1) .. Len(instance)}
  BY DEF Unplaced
<1> QED BY <1>1, <1>2, <1>3, <1>4, <1>5 DEF Unplaced

(* A turn that puts the guest on an accommodating host places it in a bin, *)
(* and one that opens a host opens a bin.                                  *)
LEMMA PlaceRefines ==
  ASSUME IInv, ~Done, NEW g, g = instance[next],
         NEW i \in Accommodating(hosts, g), PlaceNextOn(i)
  PROVE  g \in Unplaced /\ i \in DOMAIN Bins /\ Packs!Place(g, i)
<1>1. /\ next \in 1 .. Len(instance) /\ Len(instance) \in Nat
      /\ g \in Guest /\ g \notin PlacedGuests(hosts)
  BY NextIsUnplaced
<1>2. i \in DOMAIN hosts /\ AccommodatesGuest(hosts[i], g)
  BY DEF Accommodating
<1>3. hosts' = PlaceOn(hosts, i, g) /\ next' = next + 1 /\ instance' = instance /\ solver' = solver
  BY DEF PlaceNextOn
<1>4. GoodHosts(hosts) /\ NoGuestTwice(hosts)
  BY DEF IInv
<1>5. Cardinality(PagesOf(hosts[i].guests \cup {g})) <= Capacity
  BY <1>1, <1>2, <1>4, AccommodatesIsFits DEF GoodHosts, TrueHosts
<1>6. Packs!Fits(Bins[i], g)
  BY <1>1, <1>2, <1>4, <1>5 DEF Packs!Fits, Bins, BinsOf, FitTogether, GoodHosts, TrueHosts, IsHost
<1>7. Unplaced' = Unplaced \ {g}
  BY <1>3, UnplacedShrinks
<1>8. Bins' = [Bins EXCEPT ![i] = @ \cup {g}]
  <2>1. TrueHosts(hosts) /\ NoGuestTwice(hosts)
    BY <1>4 DEF GoodHosts
  <2>2. i \in DOMAIN hosts /\ g \in Guest /\ g \notin PlacedGuests(hosts)
    BY <1>1, <1>2
  <2>3. hosts' = PlaceOn(hosts, i, g)
    BY <1>3
  <2>4. /\ DOMAIN hosts' = DOMAIN hosts
        /\ hosts'[i].guests = hosts[i].guests \cup {g}
        /\ \A l \in DOMAIN hosts : l # i => hosts'[l] = hosts[l]
    BY <2>1, <2>2, <2>3, PlaceOnTrue
  <2> QED BY <2>2, <2>4 DEF Bins, BinsOf
<1>9. g \in Unplaced
  BY <1>1 DEF Unplaced
<1>10. UNCHANGED (solver # "next_fit")
  BY <1>3
<1> QED BY <1>2, <1>6, <1>7, <1>8, <1>9, <1>10 DEF Packs!Place, Unplaced, Bins, BinsOf

LEMMA OpenRefines ==
  ASSUME IInv, ~Done, AskedRefuse, PlaceNextOnNewHost, NEW g, g = instance[next]
  PROVE  g \in Unplaced /\ Packs!Open(g)
<1>1. /\ next \in 1 .. Len(instance) /\ Len(instance) \in Nat
      /\ g \in Guest /\ g \notin PlacedGuests(hosts)
  BY NextIsUnplaced
<1>2. hosts' = OpenHostFor(hosts, g) /\ next' = next + 1 /\ instance' = instance /\ solver' = solver
  BY DEF PlaceNextOnNewHost
<1>3. GoodHosts(hosts) /\ NoGuestTwice(hosts)
  BY DEF IInv
<1>4. Unplaced' = Unplaced \ {g}
  BY <1>2, UnplacedShrinks
<1>5. Bins' = Append(Bins, {g})
  BY <1>1, <1>2, <1>3, BinsOfOpenHostFor DEF Bins, GoodHosts
<1>6. g \in Unplaced
  BY <1>1 DEF Unplaced
<1>7. ASSUME solver # "next_fit", NEW i \in DOMAIN Bins PROVE ~Packs!Fits(Bins[i], g)
  <2>1. i \in DOMAIN hosts /\ Bins[i] = hosts[i].guests
    BY DEF Bins, BinsOf
  <2>2. ~AccommodatesGuest(hosts[i], g)
    BY <1>7, <2>1 DEF AskedRefuse, Asked
  <2>3. ~(Cardinality(PagesOf(hosts[i].guests \cup {g})) <= Capacity)
    BY <1>1, <1>3, <2>1, <2>2, AccommodatesIsFits DEF GoodHosts, TrueHosts
  <2> QED BY <2>1, <2>3 DEF Packs!Fits, FitTogether
<1>8. Packs!MayOpen(g)
  BY <1>7 DEF Packs!MayOpen, Bins, BinsOf
<1>9. UNCHANGED (solver # "next_fit")
  BY <1>2
<1> QED BY <1>4, <1>5, <1>6, <1>8, <1>9 DEF Packs!Open, Unplaced, Bins, BinsOf

LEMMA PacksNext ==
  (\E g \in Unplaced : (\E i \in DOMAIN Bins : Packs!Place(g, i)) \/ Packs!Open(g)) => Packs!Next
BY DEF Packs!Next, Unplaced, Bins, BinsOf

LEMMA StepRefines == IInv /\ PackingStep => Packs!Next
<1> SUFFICES ASSUME IInv, PackingStep PROVE Packs!Next
  OBVIOUS
<1>1. ~Done
  BY DEF PackingStep
<1>2. PICK g : g = instance[next]
  OBVIOUS
<1>3. ASSUME NEW i \in Accommodating(hosts, g), PlaceNextOn(i) PROVE Packs!Next
  <2>1. g \in Unplaced /\ i \in DOMAIN Bins /\ Packs!Place(g, i)
    BY <1>1, <1>2, <1>3, PlaceRefines
  <2> QED BY <2>1, PacksNext
<1>4. CASE AskedRefuse /\ PlaceNextOnNewHost
  <2>1. g \in Unplaced /\ Packs!Open(g)
    BY <1>1, <1>2, <1>4, OpenRefines
  <2> QED BY <2>1, PacksNext
<1> QED BY <1>2, <1>3, <1>4 DEF PackingStep

(* The solvers pack bins, First Fit and Best Fusion as any-fit packers     *)
(* (vmp_solvers.h:36-167).                                                 *)
THEOREM PackersPackBins == Spec => PacksBins
<1>1. UNCHANGED vars => UNCHANGED Packs!vars
  BY DEF vars, Packs!vars
<1>2. IInv /\ [Next]_vars => [Packs!Next]_(Packs!vars)
  BY <1>1, NextIsPacking, StepRefines
<1> QED BY InitRefines, <1>2, Invariance, PTL DEF Spec, PacksBins, Packs!Spec
=============================================================================
