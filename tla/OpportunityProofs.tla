------------------------- MODULE OpportunityProofs --------------------------
(***************************************************************************)
(* Theorems about the solver by opportunity-aware efficiency, for every    *)
(* set of pages, every capacity and every length of instance.  The         *)
(* inductive invariant says that the guests that are not in the set of     *)
(* unplaced ones, and no others, are on hosts, each on one; that every     *)
(* host has a guest and a true page map; and that an overfull host has one *)
(* guest only.  Scores only choose among what fits.                        *)
(***************************************************************************)
EXTENDS OpportunityAware, PackingLemmas

IInv ==
    /\ IsInstance(instance)
    /\ GoodHosts(hosts)
    /\ NoGuestTwice(hosts)
    /\ PlacedGuests(hosts) \subseteq GuestsOf(instance)
    /\ unplaced = GuestsOf(instance) \ PlacedGuests(hosts)
    /\ OverfullHostsHaveOne(hosts)

(* What a turn does, whatever the scores. *)
PlaceSome(g, i) ==
    /\ hosts' = PlaceOn(hosts, i, g)
    /\ unplaced' = unplaced \ {g}
    /\ UNCHANGED instance

OpenFor(g) ==
    /\ hosts' = OpenHostFor(hosts, g)
    /\ unplaced' = unplaced \ {g}
    /\ UNCHANGED instance

LEMMA PlaceBestPlaces ==
  PlaceBest => \E g \in unplaced : \E i \in Accommodating(hosts, g) : PlaceSome(g, i)
<1> SUFFICES ASSUME PlaceBest
             PROVE  \E g \in unplaced : \E i \in Accommodating(hosts, g) : PlaceSome(g, i)
  OBVIOUS
<1>1. PICK c \in BestCandidates : PlaceSome(c[1], c[2])
  BY DEF PlaceBest, PlaceSome
<1>2. c \in Candidates
  BY <1>1 DEF BestCandidates
<1>3. c[1] \in unplaced /\ c[2] \in Accommodating(hosts, c[1])
  BY <1>2 DEF Candidates, Accommodating
<1> QED BY <1>1, <1>3

LEMMA OpenForLargestOpens ==
  OpenForLargest => \E g \in unplaced : OpenFor(g)
BY DEF OpenForLargest, LargestGuests, OpenFor

LEMMA UnplacedGuest ==
  ASSUME IInv, NEW g \in unplaced
  PROVE  g \in Guest /\ g \in GuestsOf(instance) /\ g \notin PlacedGuests(hosts)
<1>1. g \in GuestsOf(instance) /\ g \notin PlacedGuests(hosts) /\ IsInstance(instance)
  BY DEF IInv
<1>2. g \in Guest
  BY <1>1, InstanceGuests
<1> QED BY <1>1, <1>2

-----------------------------------------------------------------------------
(* The invariant is inductive. *)

LEMMA InitIInv == Init => IInv
<1> SUFFICES ASSUME Init PROVE IInv
  OBVIOUS
<1>1. IsInstance(instance)
  BY InstanceOfIsInstance DEF Init
<1>2. hosts = <<>> /\ unplaced = GuestsOf(instance) /\ DOMAIN hosts = {}
  BY DEF Init
<1> QED BY <1>1, <1>2, EmptyHosts DEF IInv, OverfullHostsHaveOne

LEMMA PlaceIInv ==
  ASSUME IInv, NEW g \in unplaced, NEW i \in Accommodating(hosts, g), PlaceSome(g, i)
  PROVE  IInv'
<1>1. /\ hosts' = PlaceOn(hosts, i, g) /\ unplaced' = unplaced \ {g} /\ instance' = instance
      /\ i \in DOMAIN hosts
  BY DEF PlaceSome, Accommodating
<1>2. g \in Guest /\ g \in GuestsOf(instance) /\ g \notin PlacedGuests(hosts)
  BY UnplacedGuest
<1>3. /\ GoodHosts(hosts) /\ TrueHosts(hosts) /\ NoGuestTwice(hosts)
      /\ OverfullHostsHaveOne(hosts)
  BY DEF IInv, GoodHosts
<1>4. /\ GoodHosts(hosts') /\ NoGuestTwice(hosts')
      /\ DOMAIN hosts' = DOMAIN hosts
      /\ \A j \in DOMAIN hosts : j # i => hosts'[j] = hosts[j]
      /\ PlacedGuests(hosts') = PlacedGuests(hosts) \cup {g}
  BY <1>1, <1>2, <1>3, PlaceOnGood
<1>5. OverfullHostsHaveOne(hosts')
  BY <1>1, <1>2, <1>3, PlaceOnOverfull
<1> QED BY <1>1, <1>2, <1>4, <1>5 DEF IInv

LEMMA OpenIInv ==
  ASSUME IInv, NEW g \in unplaced, OpenFor(g)
  PROVE  IInv'
<1>1. hosts' = OpenHostFor(hosts, g) /\ unplaced' = unplaced \ {g} /\ instance' = instance
  BY DEF OpenFor
<1>2. g \in Guest /\ g \in GuestsOf(instance) /\ g \notin PlacedGuests(hosts)
  BY UnplacedGuest
<1>3. /\ GoodHosts(hosts) /\ TrueHosts(hosts) /\ NoGuestTwice(hosts)
      /\ OverfullHostsHaveOne(hosts)
  BY DEF IInv, GoodHosts
<1>4. /\ GoodHosts(hosts') /\ NoGuestTwice(hosts')
      /\ PlacedGuests(hosts') = PlacedGuests(hosts) \cup {g}
  BY <1>1, <1>2, <1>3, OpenHostForGood
<1>5. OverfullHostsHaveOne(hosts')
  BY <1>1, <1>2, <1>3, OpenHostForOverfull
<1> QED BY <1>1, <1>2, <1>4, <1>5 DEF IInv

LEMMA Invariance == Spec => []IInv
<1>1. IInv /\ UNCHANGED vars => IInv'
  BY DEF IInv, vars
<1>2. IInv /\ Next => IInv'
  BY PlaceBestPlaces, OpenForLargestOpens, PlaceIInv, OpenIInv DEF Next
<1> QED BY InitIInv, <1>1, <1>2, PTL DEF Spec

-----------------------------------------------------------------------------
(* What the runs check. *)

(* The state of the solver keeps its types, and the unplaced guests are    *)
(* those on no host.                                                       *)
THEOREM OpportunityTypeCorrect == Spec => []TypeOK
<1>1. IInv => TypeOK
  BY DEF IInv, GoodHosts, TrueHosts, TypeOK
<1> QED BY <1>1, Invariance, PTL

(* The packing returned is valid, when every guest fits an empty host;     *)
(* otherwise it has overfull hosts, each for one guest                     *)
(* (vmp_solvers.h:261, vmp_packing.h:61-86).                               *)
THEOREM OpportunityResultValid == Spec => []ResultValid
<1>1. IInv => ResultValid
  <2> SUFFICES ASSUME IInv, Done
               PROVE  /\ ValidateForInstance(hosts, instance) =
                            IF AllGuestsFit(instance) THEN "PACKING_OKAY" ELSE "PACKING_HOST_OVERFULL"
                      /\ OverfullHostsHaveOne(hosts)
                      /\ NoGuestTwice(hosts)
    BY DEF ResultValid
  <2>1. PlacedGuests(hosts) = GuestsOf(instance)
    BY DEF IInv, Done
  <2> QED BY <2>1, VerdictOnPacking DEF IInv
<1> QED BY <1>1, Invariance, PTL

-----------------------------------------------------------------------------
(* The solver implements the packer of bins. *)

AllHaveRatio == \A i \in DOMAIN instance : HasRatio(instance[i])

(* When all guests have pages every score is a number, so that without a   *)
(* candidate no host accommodates any of the unplaced guests.              *)
LEMMA NoCandidateNoHost ==
  ASSUME IInv, AllHaveRatio, Candidates = {}, NEW g \in unplaced
  PROVE  \A i \in DOMAIN hosts : ~AccommodatesGuest(hosts[i], g)
<1>1. g \in Guest /\ g \in GuestsOf(instance)
  BY UnplacedGuest
<1>2. HasRatio(g)
  <2>1. DOMAIN instance = 1 .. Len(instance)
    BY LenProperties DEF IInv, IsInstance
  <2> QED BY <1>1, <2>1 DEF AllHaveRatio, GuestsOf
<1>3. Cardinality(g.pages) # 0
  BY <1>1, <1>2, GuestFinite, FS_EmptySet DEF HasRatio
<1>4. ASSUME NEW i \in DOMAIN hosts, AccommodatesGuest(hosts[i], g) PROVE <<g, i>> \in Candidates
  <2>1. ~IsNaN(Score(g, hosts, i))
    BY <1>3 DEF IsNaN, Score
  <2> QED BY <1>4, <2>1 DEF Candidates
<1> QED BY <1>4

LEMMA InitRefines == Init => Packs!Init
<1> SUFFICES ASSUME Init PROVE Packs!Init
  OBVIOUS
<1>1. hosts = <<>> /\ unplaced = GuestsOf(instance)
  BY DEF Init
<1>2. [i \in DOMAIN hosts |-> hosts[i].guests] = <<>>
  BY <1>1
<1>3. unplaced \in SUBSET Guest
  BY <1>1, InitIInv, InstanceGuests DEF IInv
<1> QED BY <1>2, <1>3 DEF Packs!Init

LEMMA PlaceRefines ==
  ASSUME IInv, NEW g \in unplaced, NEW i \in Accommodating(hosts, g), PlaceSome(g, i)
  PROVE  Packs!Next
<1>1. /\ hosts' = PlaceOn(hosts, i, g) /\ unplaced' = unplaced \ {g} /\ instance' = instance
      /\ i \in DOMAIN hosts /\ AccommodatesGuest(hosts[i], g)
  BY DEF PlaceSome, Accommodating
<1>2. g \in Guest /\ g \notin PlacedGuests(hosts)
  BY UnplacedGuest
<1>3. TrueHosts(hosts) /\ NoGuestTwice(hosts)
  BY DEF IInv, GoodHosts
<1>4. /\ DOMAIN hosts' = DOMAIN hosts
      /\ hosts'[i].guests = hosts[i].guests \cup {g}
      /\ \A j \in DOMAIN hosts : j # i => hosts'[j] = hosts[j]
  BY <1>1, <1>2, <1>3, PlaceOnTrue
<1>5. Packs!Fits(hosts[i].guests, g)
  BY <1>1, <1>2, <1>3, AccommodatesIsFits DEF Packs!Fits, FitTogether, TrueHosts, IsHost
<1> QED BY <1>1, <1>4, <1>5 DEF Packs!Next, Packs!Place

LEMMA OpenRefines ==
  ASSUME IInv, Candidates = {}, NEW g \in unplaced, OpenFor(g)
  PROVE  Packs!Next
<1>1. hosts' = OpenHostFor(hosts, g) /\ unplaced' = unplaced \ {g} /\ instance' = instance
  BY DEF OpenFor
<1>2. g \in Guest /\ g \notin PlacedGuests(hosts)
  BY UnplacedGuest
<1>3. TrueHosts(hosts) /\ NoGuestTwice(hosts)
  BY DEF IInv, GoodHosts
<1>4. BinsOf(hosts') = Append(BinsOf(hosts), {g})
  BY <1>1, <1>2, <1>3, BinsOfOpenHostFor
<1>5. ASSUME AllHaveRatio, NEW i \in DOMAIN hosts PROVE ~Packs!Fits(hosts[i].guests, g)
  <2>1. ~AccommodatesGuest(hosts[i], g)
    BY <1>5, NoCandidateNoHost
  <2>2. ~(Cardinality(PagesOf(hosts[i].guests \cup {g})) <= Capacity)
    BY <1>2, <1>3, <2>1, AccommodatesIsFits DEF TrueHosts
  <2> QED BY <2>2 DEF Packs!Fits, FitTogether
<1>6. Packs!MayOpen(g)
  BY <1>5 DEF Packs!MayOpen, AllHaveRatio
<1>7. Packs!Open(g)
  BY <1>1, <1>4, <1>6 DEF Packs!Open, BinsOf
<1> QED BY <1>7 DEF Packs!Next

(* The solver packs bins: a guest goes only where it fits, and, when all   *)
(* guests have pages, opens a host only when it fits none                  *)
(* (vmp_solvers.h:280-303).                                                *)
THEOREM OpportunityPacksBins == Spec => PacksBins
<1>1. UNCHANGED vars => UNCHANGED Packs!vars
  BY DEF vars, Packs!vars
<1>2. IInv /\ Next => Packs!Next
  <2>1. IInv /\ PlaceBest => Packs!Next
    BY PlaceBestPlaces, PlaceRefines
  <2>2. IInv /\ OpenForLargest => Packs!Next
    BY OpenForLargestOpens, OpenRefines DEF OpenForLargest
  <2> QED BY <2>1, <2>2 DEF Next
<1> QED BY InitRefines, <1>1, <1>2, Invariance, PTL DEF Spec, PacksBins, Packs!Spec
=============================================================================
