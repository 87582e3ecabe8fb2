--------------------------- MODULE PackingLemmas ---------------------------
(***************************************************************************)
(* Facts about hosts and vectors of hosts, for every value of the          *)
(* constants.  First about one host: what addGuest, removeGuest and        *)
(* clearGuests preserve, and what the counting operators return when its   *)
(* page map is true to its guests.  Then about vectors: what it does to    *)
(* them when a guest goes to a host, to a new host, or off a host; that a  *)
(* host, once it refuses a guest, refuses it as long as it keeps its       *)
(* guests; how many guests a packing counts; and what the vectors are to   *)
(* one who sees bins only.  Last, about decanting as a function: what its  *)
(* folds come to, turn by turn.                                            *)
(***************************************************************************)
EXTENDS Scores, DecantGuests, TLAPS, FiniteSetTheorems, SequenceTheorems, WellFoundedInduction

(* Guests are finitely many, and so are the pages of any of them. *)
LEMMA GuestFinite ==
    /\ IsFiniteSet(Guest)
    /\ \A S \in SUBSET Guest : IsFiniteSet(S) /\ IsFiniteSet(PagesOf(S)) /\ PagesOf(S) \subseteq Page
    /\ \A g \in Guest : IsFiniteSet(g.pages)
<1> DEFINE f == [x \in GuestId \X SUBSET Page |-> [id |-> x[1], pages |-> x[2]]]
<1>1. IsFiniteSet(GuestId)
  BY FS_Interval, HostAssumption DEF GuestId
<1>2. IsFiniteSet(GuestId \X SUBSET Page)
  BY <1>1, FS_SUBSET, FS_Product, HostAssumption
<1>3. f \in Surjection(GuestId \X SUBSET Page, Guest)
  <2>1. f \in [GuestId \X SUBSET Page -> Guest]
    BY DEF Guest
  <2>2. ASSUME NEW g \in Guest PROVE \E x \in GuestId \X SUBSET Page : f[x] = g
    <3>1. <<g.id, g.pages>> \in GuestId \X SUBSET Page
      BY <2>2 DEF Guest
    <3>2. f[<<g.id, g.pages>>] = g
      BY <3>1 DEF Guest
    <3> QED BY <3>1, <3>2
  <2> QED BY <2>1, <2>2 DEF Surjection
<1>4. IsFiniteSet(Guest)
  BY <1>2, <1>3, FS_Surjection
<1>5. \A S \in SUBSET Guest : PagesOf(S) \subseteq Page
  BY DEF PagesOf, Guest
<1> QED BY <1>4, <1>5, FS_Subset, HostAssumption DEF Guest

(* A new host is empty and its map true to that. *)
LEMMA EmptyHostMatches == IsHost(EmptyHost) /\ FrequenciesMatch(EmptyHost)
<1>1. DOMAIN EmptyHost.pageFrequencies = {} /\ EmptyHost.guests = {}
  BY DEF EmptyHost
<1>2. EmptyHost.pageFrequencies \in [{} -> Int]
  BY DEF EmptyHost
<1>3. IsHost(EmptyHost)
  BY <1>1, <1>2 DEF IsHost, EmptyHost
<1> QED BY <1>1, <1>3 DEF FrequenciesMatch, PagesOf

(* Looking up a page gives the number of guests that have it, which is     *)
(* zero exactly for the pages no guest has.                                *)
LEMMA PageFrequencyCounts ==
  ASSUME NEW host, IsHost(host), FrequenciesMatch(host), NEW p
  PROVE  /\ PageFrequency(host, p) = Cardinality(Holders(host, p))
         /\ PageFrequency(host, p) \in Nat
         /\ PageFrequency(host, p) # 0 <=> p \in PagesOf(host.guests)
<1>1. IsFiniteSet(Holders(host, p))
  BY GuestFinite DEF Holders, IsHost
<1>2. Holders(host, p) = {} <=> p \notin PagesOf(host.guests)
  BY DEF Holders, PagesOf
<1>3. Cardinality(Holders(host, p)) \in Nat /\ (Cardinality(Holders(host, p)) = 0 <=> Holders(host, p) = {})
  BY <1>1, FS_CardinalityType, FS_EmptySet
<1>4. PageFrequency(host, p) = Cardinality(Holders(host, p))
  BY <1>2, <1>3 DEF PageFrequency, FrequenciesMatch
<1> QED BY <1>2, <1>3, <1>4

(* A page that is in the map has a count above zero. *)
LEMMA CountsArePositive ==
  ASSUME NEW host, IsHost(host), FrequenciesMatch(host)
  PROVE  \A p \in DOMAIN host.pageFrequencies : host.pageFrequencies[p] > 0
<1> SUFFICES ASSUME NEW p \in DOMAIN host.pageFrequencies PROVE host.pageFrequencies[p] > 0
  OBVIOUS
<1>1. p \in PagesOf(host.guests)
  BY DEF FrequenciesMatch
<1>2. PageFrequency(host, p) \in Nat /\ PageFrequency(host, p) # 0
  BY <1>1, PageFrequencyCounts
<1> QED BY <1>2 DEF PageFrequency

(* addGuest keeps the map true when the guest is not on the host yet. *)
LEMMA AddGuestMatches ==
  ASSUME NEW host, IsHost(host), FrequenciesMatch(host),
         NEW g \in Guest, g \notin host.guests
  PROVE  LET new == AddGuest(host, g)
         IN  /\ IsHost(new)
             /\ FrequenciesMatch(new)
             /\ new.guests = host.guests \cup {g}
<1> DEFINE new == AddGuest(host, g)
           D == DOMAIN host.pageFrequencies \cup g.pages
<1>1. /\ new.guests = host.guests \cup {g}
      /\ DOMAIN new.pageFrequencies = D
      /\ \A p \in D : new.pageFrequencies[p] =
            PageFrequency(host, p) + (IF p \in g.pages THEN 1 ELSE 0)
      /\ new = [guests |-> new.guests, pageFrequencies |-> new.pageFrequencies]
  BY DEF AddGuest
<1>2. \A p \in D : PageFrequency(host, p) + (IF p \in g.pages THEN 1 ELSE 0) \in Int
  BY PageFrequencyCounts
<1>3. new.pageFrequencies \in [D -> Int]
  <2>1. new.pageFrequencies = [p \in D |-> PageFrequency(host, p) + (IF p \in g.pages THEN 1 ELSE 0)]
    BY DEF AddGuest
  <2> QED BY <1>2, <2>1
<1>4. IsHost(new)
  BY <1>1, <1>3 DEF IsHost, Guest
<1>5. D = PagesOf(new.guests)
  BY <1>1 DEF FrequenciesMatch, PagesOf
<1>6. ASSUME NEW p \in D
      PROVE  new.pageFrequencies[p] = Cardinality(Holders(new, p))
  <2>1. IsFiniteSet(Holders(host, p)) /\ g \notin Holders(host, p)
    BY GuestFinite DEF Holders, IsHost
  <2>2. CASE p \in g.pages
    <3>1. Holders(new, p) = Holders(host, p) \cup {g}
      BY <1>1, <2>2 DEF Holders
    <3>2. Cardinality(Holders(new, p)) = Cardinality(Holders(host, p)) + 1
      BY <2>1, <3>1, FS_AddElement
    <3> QED BY <1>1, <2>2, <3>2, PageFrequencyCounts
  <2>3. CASE p \notin g.pages
    <3>1. Holders(new, p) = Holders(host, p)
      BY <1>1, <2>3 DEF Holders
    <3> QED BY <1>1, <2>3, <3>1, PageFrequencyCounts
  <2> QED BY <2>2, <2>3
<1> QED BY <1>1, <1>4, <1>5, <1>6 DEF FrequenciesMatch

(* removeGuest keeps the map true when the guest is on the host. *)
LEMMA RemoveGuestMatches ==
  ASSUME NEW host, IsHost(host), FrequenciesMatch(host),
         NEW g \in host.guests
  PROVE  LET new == RemoveGuest(host, g)
         IN  /\ IsHost(new)
             /\ FrequenciesMatch(new)
             /\ new.guests = host.guests \ {g}
<1> DEFINE new == RemoveGuest(host, g)
           E == DOMAIN host.pageFrequencies \cup g.pages
           D == {p \in E : p \in g.pages => PageFrequency(host, p) # 1}
<1>1. /\ new.guests = host.guests \ {g}
      /\ DOMAIN new.pageFrequencies = D
      /\ \A p \in D : new.pageFrequencies[p] =
            PageFrequency(host, p) - (IF p \in g.pages THEN 1 ELSE 0)
      /\ new = [guests |-> new.guests, pageFrequencies |-> new.pageFrequencies]
  BY DEF RemoveGuest
<1>2. E = PagesOf(host.guests)
  BY DEF FrequenciesMatch, PagesOf
<1>3. new.pageFrequencies \in [D -> Int]
  <2>1. new.pageFrequencies = [p \in D |-> PageFrequency(host, p) - (IF p \in g.pages THEN 1 ELSE 0)]
    BY DEF RemoveGuest
  <2>2. \A p \in D : PageFrequency(host, p) - (IF p \in g.pages THEN 1 ELSE 0) \in Int
    BY PageFrequencyCounts
  <2> QED BY <2>1, <2>2
<1>4. IsHost(new)
  <2>1. D \subseteq Page
    BY GuestFinite, <1>2 DEF IsHost
  <2> QED BY <1>1, <1>3, <2>1 DEF IsHost
<1>5. ASSUME NEW p \in E
      PROVE  /\ IsFiniteSet(Holders(host, p))
             /\ Cardinality(Holders(new, p)) =
                   PageFrequency(host, p) - (IF p \in g.pages THEN 1 ELSE 0)
             /\ Cardinality(Holders(new, p)) = 0 <=> p \notin PagesOf(new.guests)
  <2>1. IsFiniteSet(Holders(host, p)) /\ IsFiniteSet(Holders(new, p))
    BY <1>4, GuestFinite DEF Holders, IsHost
  <2>2. Cardinality(Holders(new, p)) = 0 <=> p \notin PagesOf(new.guests)
    <3>1. Holders(new, p) = {} <=> p \notin PagesOf(new.guests)
      BY DEF Holders, PagesOf
    <3> QED BY <2>1, <3>1, FS_EmptySet
  <2>3. CASE p \in g.pages
    <3>1. Holders(new, p) = Holders(host, p) \ {g} /\ g \in Holders(host, p)
      BY <1>1, <2>3 DEF Holders
    <3>2. Cardinality(Holders(new, p)) = Cardinality(Holders(host, p)) - 1
      BY <2>1, <3>1, FS_RemoveElement
    <3> QED BY <2>1, <2>2, <2>3, <3>2, PageFrequencyCounts
  <2>4. CASE p \notin g.pages
    <3>1. Holders(new, p) = Holders(host, p)
      BY <1>1, <2>4 DEF Holders
    <3> QED BY <2>1, <2>2, <2>4, <3>1, PageFrequencyCounts
  <2> QED BY <2>3, <2>4
<1>6. D = PagesOf(new.guests)
  <2>1. ASSUME NEW p \in E PROVE p \in D <=> p \in PagesOf(new.guests)
    BY <1>5, <1>2, PageFrequencyCounts
  <2>2. PagesOf(new.guests) \subseteq E
    BY <1>1, <1>2 DEF PagesOf
  <2> QED BY <2>1, <2>2
<1>7. \A p \in D : new.pageFrequencies[p] = Cardinality(Holders(new, p))
  BY <1>1, <1>5
<1> QED BY <1>1, <1>4, <1>6, <1>7 DEF FrequenciesMatch

(* The pages of a host and a guest are counted by adding the sizes of both *)
(* and taking away the overlap.                                            *)
LEMMA CountsOfGuest ==
  ASSUME NEW host, IsHost(host), FrequenciesMatch(host), NEW g \in Guest
  PROVE  /\ CountPagesWithGuest(host, g) = Cardinality(PagesOf(host.guests \cup {g}))
         /\ CountPagesNotOn(host, g) = Cardinality(PagesOf(host.guests) \ g.pages)
<1> DEFINE A == PagesOf(host.guests)
           B == g.pages
<1>1. IsFiniteSet(A) /\ IsFiniteSet(B)
  BY GuestFinite DEF IsHost
<1>2. UniquePageCount(host) = Cardinality(A)
  BY DEF UniquePageCount, FrequenciesMatch
<1>3. CountUniquePagesOn(g, host) = Cardinality(A \cap B)
  <2>1. {p \in g.pages : PageFrequency(host, p) # 0} = A \cap B
    BY PageFrequencyCounts
  <2> QED BY <2>1 DEF CountUniquePagesOn
<1>4. PagesOf(host.guests \cup {g}) = A \cup B
  BY DEF PagesOf
<1>5. Cardinality(A \cup B) = Cardinality(A) + Cardinality(B) - Cardinality(A \cap B)
  BY <1>1, FS_Union
<1>6. Cardinality(A \ B) = Cardinality(A) - Cardinality(A \cap B)
  BY <1>1, FS_Difference
<1>7. CountPagesWithGuest(host, g) = Cardinality(A) + Cardinality(B) - Cardinality(A \cap B)
  BY <1>2, <1>3 DEF CountPagesWithGuest
<1>8. CountPagesNotOn(host, g) = Cardinality(A) - Cardinality(A \cap B)
  BY <1>2, <1>3 DEF CountPagesNotOn
<1> QED BY <1>4, <1>5, <1>6, <1>7, <1>8

(* The pages of a host and several guests: those of the host, and those    *)
(* any of the guests brings.                                               *)
LEMMA CountsOfGuests ==
  ASSUME NEW host, IsHost(host), FrequenciesMatch(host), NEW S \in SUBSET Guest
  PROVE  CountPagesWithGuests(host, S) = Cardinality(PagesOf(host.guests \cup S))
<1> DEFINE A == PagesOf(host.guests)
           N == PagesOf(S) \ A
<1>1. IsFiniteSet(A) /\ IsFiniteSet(N)
  BY GuestFinite, FS_Difference DEF IsHost
<1>2. A \cup N = PagesOf(host.guests \cup S) /\ A \cap N = {}
  BY DEF PagesOf
<1>3. Cardinality(A \cup N) = Cardinality(A) + Cardinality(N)
  <2>1. Cardinality(A \cup N) = Cardinality(A) + Cardinality(N) - Cardinality(A \cap N)
    BY <1>1, FS_Union
  <2>2. Cardinality(A) \in Nat /\ Cardinality(N) \in Nat
    BY <1>1, FS_CardinalityType
  <2>3. Cardinality(A \cap N) = 0
    BY <1>2, FS_EmptySet
  <2> HIDE DEF A, N
  <2> QED BY <2>1, <2>2, <2>3
<1>4. CountPagesWithGuests(host, S) = Cardinality(N) + Cardinality(A)
  BY DEF CountPagesWithGuests, UniquePageCount, FrequenciesMatch, PagesOf
<1> QED
  <2>1. Cardinality(A) \in Nat /\ Cardinality(N) \in Nat
    BY <1>1, FS_CardinalityType
  <2>2. Cardinality(PagesOf(host.guests \cup S)) = Cardinality(A) + Cardinality(N)
    BY <1>2, <1>3
  <2> HIDE DEF A, N
  <2> QED BY <1>4, <2>1, <2>2

(* A host is overfull when its guests have more than Capacity pages. *)
LEMMA OverfullMeans ==
  ASSUME NEW host, FrequenciesMatch(host)
  PROVE  IsOverfull(host) <=> Cardinality(PagesOf(host.guests)) > Capacity
BY DEF IsOverfull, UniquePageCount, FrequenciesMatch

(* The relative size is not more than the size: a page costs a guest no    *)
(* more than itself.                                                       *)
LEMMA RelSizeBounded ==
  ASSUME NEW g \in Guest, NEW host, IsHost(host), FrequenciesMatch(host)
  PROVE  /\ RelSize(g, host) \in Nat
         /\ RelSize(g, host) <= Cardinality(g.pages) * Unit
<1> DEFINE shares == UNION {{p} \X (1 .. Share(p, host)) : p \in g.pages}
<1>1. ASSUME NEW p \in g.pages PROVE 1 .. Share(p, host) \subseteq 1 .. Unit
  <2>1. PageFrequency(host, p) \in Nat /\ Unit \in Nat
    BY PageFrequencyCounts, ScoresAssumption
  <2>2. \A f \in Nat : f > 0 => Unit \div f \in Nat /\ Unit \div f <= Unit
    BY <2>1
  <2>3. Share(p, host) \in Nat /\ Share(p, host) <= Unit
    BY <2>1, <2>2 DEF Share
  <2> QED BY <2>1, <2>3
<1>2. shares \in SUBSET (g.pages \X (1 .. Unit))
  BY <1>1
<1>3. IsFiniteSet(g.pages) /\ IsFiniteSet(1 .. Unit) /\ Cardinality(1 .. Unit) = Unit
  BY GuestFinite, FS_Interval, ScoresAssumption
<1>4. /\ IsFiniteSet(g.pages \X (1 .. Unit))
      /\ Cardinality(g.pages \X (1 .. Unit)) = Cardinality(g.pages) * Unit
  BY <1>3, FS_Product
<1>5. IsFiniteSet(shares) /\ Cardinality(shares) <= Cardinality(g.pages \X (1 .. Unit))
  BY <1>2, <1>4, FS_Subset
<1>6. Cardinality(shares) \in Nat
  BY <1>5, FS_CardinalityType
<1> QED BY <1>4, <1>5, <1>6 DEF RelSize

(* Some naturals have a least one. *)
LEMMA MinOfNaturals ==
  ASSUME NEW S \in SUBSET Nat, S # {}
  PROVE  Min(S) \in S /\ \A i \in S : Min(S) <= i
<1> DEFINE Less == {x \in Nat \X Nat : x[1] < x[2]}
<1>1. IsWellFoundedOn(Less, Nat)
  BY NatLessThanWellFounded DEF OpToRel
<1>2. \E i \in S : \A j \in S : ~(<<j, i>> \in Less)
  BY <1>1, WFMin
<1>3. PICK i \in S : \A j \in S : ~(<<j, i>> \in Less)
  BY <1>2
<1>4. ASSUME NEW j \in S PROVE i <= j
  <2>1. <<j, i>> \in Nat \X Nat /\ ~(<<j, i>> \in Less)
    BY <1>3
  <2>2. ~(j < i)
    BY <2>1
  <2> QED BY <2>2
<1> QED BY <1>3, <1>4 DEF Min

(* Counting up: what is so for 0, and for each number whose predecessor it *)
(* is so for, is so for all.                                               *)
LEMMA CountingUp ==
  ASSUME NEW n \in Nat, NEW S, 0 \in S, \A k \in 1 .. n : k - 1 \in S => k \in S
  PROVE  \A k \in 0 .. n : k \in S
<1> DEFINE missing == (0 .. n) \ S
<1> SUFFICES ASSUME missing # {} PROVE FALSE
  OBVIOUS
<1>1. missing \in SUBSET Nat
  OBVIOUS
<1>2. PICK k \in missing : \A i \in missing : k <= i
  <2> HIDE DEF missing
  <2> QED BY <1>1, MinOfNaturals
<1>3. k \in 1 .. n /\ k - 1 \notin missing
  BY <1>2
<1> QED BY <1>2, <1>3

(* What is so for a number whenever it is so for all smaller ones, is so   *)
(* for all.                                                                *)
LEMMA SmallerFirst ==
  ASSUME NEW S, \A n \in Nat : (\A m \in Nat : m < n => m \in S) => n \in S
  PROVE  Nat \subseteq S
<1> DEFINE missing == Nat \ S
<1> SUFFICES ASSUME missing # {} PROVE FALSE
  OBVIOUS
<1>1. missing \in SUBSET Nat
  OBVIOUS
<1>2. PICK k \in missing : \A i \in missing : k <= i
  <2> HIDE DEF missing
  <2> QED BY <1>1, MinOfNaturals
<1>3. \A m \in Nat : m < k => m \in S
  BY <1>2
<1> QED BY <1>3

(* The guests of an instance are guests, with different identities. *)
LEMMA InstanceGuests ==
  ASSUME NEW instance, IsInstance(instance)
  PROVE  /\ instance \in Seq(Guest)
         /\ GuestsOf(instance) \subseteq Guest
         /\ \A i, j \in 1 .. Len(instance) : instance[i] = instance[j] => i = j
         /\ \A i \in 1 .. Len(instance) :
               Cardinality(instance[i].pages) \in MinGuestSize .. MaxGuestSize
BY DEF IsInstance, GuestsOf, PageSet

(* An instance made of page sets is one. *)
LEMMA InstanceOfIsInstance ==
  ASSUME NEW n \in 0 .. MaxGuests, NEW pages \in [1 .. n -> PageSet]
  PROVE  IsInstance(InstanceOf(pages))
<1>1. InstanceOf(pages) = [i \in 1 .. n |-> [id |-> i, pages |-> pages[i]]]
  BY DEF InstanceOf
<1>2. \A i \in 1 .. n : [id |-> i, pages |-> pages[i]] \in Guest
  BY HostAssumption DEF Guest, GuestId, PageSet
<1>3. InstanceOf(pages) \in [1 .. n -> Guest]
  BY <1>1, <1>2
<1>4. InstanceOf(pages) \in Seq(Guest) /\ Len(InstanceOf(pages)) = n
  BY <1>1, <1>3, HostAssumption
<1> QED BY <1>1, <1>4, HostAssumption DEF IsInstance

-----------------------------------------------------------------------------
(* The values IsHost describes, as a set. *)
HostSet ==
    [guests : SUBSET Guest, pageFrequencies : UNION {[P -> Int] : P \in SUBSET Page}]

LEMMA IsHostSet == ASSUME NEW host, IsHost(host) PROVE host \in HostSet
<1>1. host.pageFrequencies \in UNION {[P -> Int] : P \in SUBSET Page}
  <2>1. DOMAIN host.pageFrequencies \in SUBSET Page
    BY DEF IsHost
  <2>2. host.pageFrequencies \in [DOMAIN host.pageFrequencies -> Int]
    BY DEF IsHost
  <2> QED BY <2>1, <2>2
<1> QED BY <1>1 DEF IsHost, HostSet

(* A host that addGuests has filled. *)
LEMMA HostOfMatches ==
  ASSUME NEW S \in SUBSET Guest, NEW new, new = HostOf(S)
  PROVE  IsHost(new) /\ FrequenciesMatch(new) /\ new.guests = S
<1>1. /\ new.guests = S
      /\ new.pageFrequencies = [p \in PagesOf(S) |-> Cardinality({g \in S : p \in g.pages})]
      /\ new = [guests |-> new.guests, pageFrequencies |-> new.pageFrequencies]
  BY DEF HostOf
<1>2. PagesOf(S) \subseteq Page
  BY GuestFinite
<1>3. \A p : IsFiniteSet({g \in S : p \in g.pages})
  <2> TAKE p
  <2>1. {g \in S : p \in g.pages} \in SUBSET Guest
    OBVIOUS
  <2> QED BY <2>1, GuestFinite
<1>4. \A p : Cardinality({g \in S : p \in g.pages}) \in Int
  <2> TAKE p
  <2>1. IsFiniteSet({g \in S : p \in g.pages})
    BY <1>3
  <2> QED BY <2>1, FS_CardinalityType
<1>5. IsHost(new)
  BY <1>1, <1>2, <1>4 DEF IsHost
<1> QED BY <1>1, <1>5 DEF FrequenciesMatch, Holders

(* Hosts with true page maps; and such hosts none of which is empty, as    *)
(* most solvers keep them.                                                 *)
TrueHosts(hs) ==
    /\ hs \in Seq(HostSet)
    /\ \A i \in DOMAIN hs : IsHost(hs[i]) /\ FrequenciesMatch(hs[i])

GoodHosts(hs) == TrueHosts(hs) /\ \A i \in DOMAIN hs : hs[i].guests # {}

LEMMA EmptyHosts == GoodHosts(<<>>) /\ PlacedGuests(<<>>) = {} /\ NoGuestTwice(<<>>)
<1>1. <<>> \in Seq(HostSet) /\ DOMAIN <<>> = {}
  BY EmptySeq
<1> QED BY <1>1 DEF GoodHosts, TrueHosts, PlacedGuests, NoGuestTwice

(* A guest that is nowhere goes to a host: the others stay as they are. *)
LEMMA PlaceOnTrue ==
  ASSUME NEW hs, TrueHosts(hs), NoGuestTwice(hs),
         NEW i \in DOMAIN hs, NEW g \in Guest, g \notin PlacedGuests(hs),
         NEW new, new = PlaceOn(hs, i, g)
  PROVE  /\ TrueHosts(new) /\ NoGuestTwice(new)
         /\ DOMAIN new = DOMAIN hs /\ Len(new) = Len(hs)
         /\ new[i].guests = hs[i].guests \cup {g}
         /\ \A j \in DOMAIN hs : j # i => new[j] = hs[j]
         /\ PlacedGuests(new) = PlacedGuests(hs) \cup {g}
<1> DEFINE h == AddGuest(hs[i], g)
<1>1. g \notin hs[i].guests
  BY DEF PlacedGuests
<1>2. IsHost(h) /\ FrequenciesMatch(h) /\ h.guests = hs[i].guests \cup {g}
  BY <1>1, AddGuestMatches DEF TrueHosts
<1>3. h \in HostSet
  BY <1>2, IsHostSet
<1>4. new = [hs EXCEPT ![i] = h]
  BY DEF PlaceOn
<1>5. DOMAIN hs = 1 .. Len(hs)
  BY LenProperties DEF TrueHosts
<1> HIDE DEF h
<1>6. new \in Seq(HostSet) /\ Len(new) = Len(hs)
  BY <1>3, <1>4, <1>5, ExceptSeq DEF TrueHosts
<1>7. DOMAIN new = DOMAIN hs
  BY <1>4
<1>8. \A j \in DOMAIN hs : new[j] = IF j = i THEN h ELSE hs[j]
  BY <1>4, <1>5, <1>3, ExceptSeq DEF TrueHosts
<1>9. TrueHosts(new)
  BY <1>2, <1>6, <1>7, <1>8 DEF TrueHosts
<1>10. \A j \in DOMAIN hs : new[j].guests = IF j = i THEN hs[j].guests \cup {g} ELSE hs[j].guests
  BY <1>2, <1>8
<1>11. NoGuestTwice(new)
  <2>1. \A j \in DOMAIN hs : g \notin hs[j].guests
    BY DEF PlacedGuests
  <2>2. ASSUME NEW j \in DOMAIN hs, NEW k \in DOMAIN hs, j # k
        PROVE  new[j].guests \cap new[k].guests = {}
    <3>1. hs[j].guests \cap hs[k].guests = {}
      BY <2>2 DEF NoGuestTwice
    <3> QED BY <1>10, <2>1, <2>2, <3>1
  <2> QED BY <1>7, <2>2 DEF NoGuestTwice
<1>12. PlacedGuests(new) = PlacedGuests(hs) \cup {g}
  <2>1. PlacedGuests(new) \subseteq PlacedGuests(hs) \cup {g}
    <3>1. \A j \in DOMAIN new : new[j].guests \subseteq hs[j].guests \cup {g}
      BY <1>7, <1>10
    <3>2. ASSUME NEW j \in DOMAIN new PROVE new[j].guests \subseteq PlacedGuests(hs) \cup {g}
      BY <1>7, <3>1 DEF PlacedGuests
    <3> QED BY <3>2 DEF PlacedGuests
  <2>2. g \in new[i].guests /\ \A j \in DOMAIN hs : hs[j].guests \subseteq new[j].guests
    BY <1>10
  <2>3. PlacedGuests(hs) \cup {g} \subseteq PlacedGuests(new)
    BY <1>7, <2>2 DEF PlacedGuests
  <2> QED BY <2>1, <2>3
<1> QED BY <1>2, <1>6, <1>7, <1>8, <1>9, <1>11, <1>12

(* Guests that are nowhere come on a host of their own, the last. *)
AppendHost(hs, h) == Append(hs, h)

LEMMA AppendHostTrue ==
  ASSUME NEW hs, TrueHosts(hs), NoGuestTwice(hs),
         NEW h, IsHost(h), FrequenciesMatch(h), \A g \in h.guests : g \notin PlacedGuests(hs),
         NEW new, new = AppendHost(hs, h)
  PROVE  /\ TrueHosts(new) /\ NoGuestTwice(new)
         /\ DOMAIN new = 1 .. Len(hs) + 1 /\ Len(new) = Len(hs) + 1
         /\ \A j \in 1 .. Len(hs) : new[j] = hs[j]
         /\ new[Len(hs) + 1] = h
         /\ PlacedGuests(new) = PlacedGuests(hs) \cup h.guests
<1> DEFINE n == Len(hs)
<1>1. h \in HostSet
  BY IsHostSet
<1>2. DOMAIN hs = 1 .. n /\ n \in Nat
  BY LenProperties DEF TrueHosts
<1>3. new \in Seq(HostSet) /\ Len(new) = n + 1
  BY <1>1, AppendProperties DEF TrueHosts, AppendHost
<1>4. DOMAIN new = 1 .. n + 1
  BY <1>3, LenProperties
<1>5. (\A j \in 1 .. n : new[j] = hs[j]) /\ new[n + 1] = h
  BY <1>1, AppendProperties DEF TrueHosts, AppendHost
<1>6. \A j \in DOMAIN new : j \in 1 .. n \/ j = n + 1
  BY <1>2, <1>4
<1>7. TrueHosts(new)
  BY <1>2, <1>3, <1>5, <1>6 DEF TrueHosts
<1>8. NoGuestTwice(new)
  <2>1. \A j \in 1 .. n : h.guests \cap hs[j].guests = {}
    BY <1>2 DEF PlacedGuests
  <2> QED BY <1>2, <1>5, <1>6, <2>1 DEF NoGuestTwice
<1>9. PlacedGuests(new) = PlacedGuests(hs) \cup h.guests
  BY <1>2, <1>4, <1>5, <1>6 DEF PlacedGuests
<1> QED BY <1>3, <1>4, <1>5, <1>7, <1>8, <1>9 DEF n

(* So does a guest that opens a host. *)
LEMMA OpenHostForTrue ==
  ASSUME NEW hs, TrueHosts(hs), NoGuestTwice(hs),
         NEW g \in Guest, g \notin PlacedGuests(hs),
         NEW new, new = OpenHostFor(hs, g)
  PROVE  /\ TrueHosts(new) /\ NoGuestTwice(new)
         /\ DOMAIN new = 1 .. Len(hs) + 1 /\ Len(new) = Len(hs) + 1
         /\ \A j \in 1 .. Len(hs) : new[j] = hs[j]
         /\ new[Len(hs) + 1].guests = {g}
         /\ PlacedGuests(new) = PlacedGuests(hs) \cup {g}
<1>1. EmptyHost.guests = {}
  BY DEF EmptyHost
<1>2. PICK h : h = AddGuest(EmptyHost, g)
  OBVIOUS
<1>3. IsHost(h) /\ FrequenciesMatch(h) /\ h.guests = {g}
  BY <1>1, <1>2, EmptyHostMatches, AddGuestMatches
<1>4. new = AppendHost(hs, h) /\ \A x \in h.guests : x \notin PlacedGuests(hs)
  BY <1>2, <1>3 DEF OpenHostFor, AppendHost
<1>5. /\ TrueHosts(new) /\ NoGuestTwice(new)
      /\ DOMAIN new = 1 .. Len(hs) + 1 /\ Len(new) = Len(hs) + 1
      /\ \A j \in 1 .. Len(hs) : new[j] = hs[j]
      /\ new[Len(hs) + 1] = h
      /\ PlacedGuests(new) = PlacedGuests(hs) \cup h.guests
  BY <1>3, <1>4, AppendHostTrue
<1> QED BY <1>3, <1>5

(* When no host was empty, none is then. *)
LEMMA PlaceOnGood ==
  ASSUME NEW hs, GoodHosts(hs), NoGuestTwice(hs),
         NEW i \in DOMAIN hs, NEW g \in Guest, g \notin PlacedGuests(hs),
         NEW new, new = PlaceOn(hs, i, g)
  PROVE  /\ GoodHosts(new) /\ NoGuestTwice(new)
         /\ DOMAIN new = DOMAIN hs /\ Len(new) = Len(hs)
         /\ new[i].guests = hs[i].guests \cup {g}
         /\ \A j \in DOMAIN hs : j # i => new[j] = hs[j]
         /\ PlacedGuests(new) = PlacedGuests(hs) \cup {g}
<1>1. /\ TrueHosts(new) /\ NoGuestTwice(new)
      /\ DOMAIN new = DOMAIN hs /\ Len(new) = Len(hs)
      /\ new[i].guests = hs[i].guests \cup {g}
      /\ \A j \in DOMAIN hs : j # i => new[j] = hs[j]
      /\ PlacedGuests(new) = PlacedGuests(hs) \cup {g}
  BY PlaceOnTrue DEF GoodHosts
<1>2. \A j \in DOMAIN new : new[j].guests # {}
  BY <1>1 DEF GoodHosts
<1> QED BY <1>1, <1>2 DEF GoodHosts

LEMMA OpenHostForGood ==
  ASSUME NEW hs, GoodHosts(hs), NoGuestTwice(hs),
         NEW g \in Guest, g \notin PlacedGuests(hs),
         NEW new, new = OpenHostFor(hs, g)
  PROVE  /\ GoodHosts(new) /\ NoGuestTwice(new)
         /\ DOMAIN new = 1 .. Len(hs) + 1 /\ Len(new) = Len(hs) + 1
         /\ \A j \in 1 .. Len(hs) : new[j] = hs[j]
         /\ new[Len(hs) + 1].guests = {g}
         /\ PlacedGuests(new) = PlacedGuests(hs) \cup {g}
<1>1. /\ TrueHosts(new) /\ NoGuestTwice(new)
      /\ DOMAIN new = 1 .. Len(hs) + 1 /\ Len(new) = Len(hs) + 1
      /\ \A j \in 1 .. Len(hs) : new[j] = hs[j]
      /\ new[Len(hs) + 1].guests = {g}
      /\ PlacedGuests(new) = PlacedGuests(hs) \cup {g}
  BY OpenHostForTrue DEF GoodHosts
<1>2. DOMAIN hs = 1 .. Len(hs) /\ Len(hs) \in Nat
  BY LenProperties DEF GoodHosts, TrueHosts
<1>3. \A j \in DOMAIN new : new[j].guests # {}
  BY <1>1, <1>2 DEF GoodHosts
<1> QED BY <1>1, <1>3 DEF GoodHosts

(* A guest is taken off a host. *)
LEMMA TakeOffTrue ==
  ASSUME NEW hs, TrueHosts(hs), NoGuestTwice(hs),
         NEW i \in DOMAIN hs, NEW g \in hs[i].guests,
         NEW new, new = TakeOff(hs, i, g)
  PROVE  /\ TrueHosts(new) /\ NoGuestTwice(new)
         /\ DOMAIN new = DOMAIN hs /\ Len(new) = Len(hs)
         /\ new[i].guests = hs[i].guests \ {g}
         /\ \A j \in DOMAIN hs : j # i => new[j] = hs[j]
         /\ PlacedGuests(new) = PlacedGuests(hs) \ {g}
<1> DEFINE h == RemoveGuest(hs[i], g)
<1>1. IsHost(h) /\ FrequenciesMatch(h) /\ h.guests = hs[i].guests \ {g}
  BY RemoveGuestMatches DEF TrueHosts
<1>2. h \in HostSet
  BY <1>1, IsHostSet
<1>3. new = [hs EXCEPT ![i] = h]
  BY DEF TakeOff
<1>4. DOMAIN hs = 1 .. Len(hs)
  BY LenProperties DEF TrueHosts
<1> HIDE DEF h
<1>5. new \in Seq(HostSet) /\ Len(new) = Len(hs)
  BY <1>2, <1>3, <1>4, ExceptSeq DEF TrueHosts
<1>6. DOMAIN new = DOMAIN hs
  BY <1>3
<1>7. \A j \in DOMAIN hs : new[j] = IF j = i THEN h ELSE hs[j]
  BY <1>3
<1>8. TrueHosts(new)
  BY <1>1, <1>5, <1>6, <1>7 DEF TrueHosts
<1>9. NoGuestTwice(new)
  BY <1>1, <1>6, <1>7 DEF NoGuestTwice
<1>10. \A j \in DOMAIN hs : g \in hs[j].guests => j = i
  BY DEF NoGuestTwice
<1>11. PlacedGuests(new) = PlacedGuests(hs) \ {g}
  BY <1>1, <1>6, <1>7, <1>10 DEF PlacedGuests
<1> QED BY <1>1, <1>5, <1>6, <1>7, <1>8, <1>9, <1>11

(* The question a solver asks is the question of the bins. *)
LEMMA AccommodatesIsFits ==
  ASSUME NEW host, IsHost(host), FrequenciesMatch(host), NEW g \in Guest
  PROVE  AccommodatesGuest(host, g) <=> Cardinality(PagesOf(host.guests \cup {g})) <= Capacity
BY CountsOfGuest DEF AccommodatesGuest

(* More guests have no fewer pages. *)
LEMMA PagesGrow ==
  ASSUME NEW S \in SUBSET Guest, NEW T \in SUBSET S
  PROVE  /\ Cardinality(PagesOf(T)) \in Nat /\ Cardinality(PagesOf(S)) \in Nat
         /\ Cardinality(PagesOf(T)) <= Cardinality(PagesOf(S))
<1>1. IsFiniteSet(PagesOf(S)) /\ IsFiniteSet(PagesOf(T))
  BY GuestFinite
<1>2. PagesOf(T) \in SUBSET PagesOf(S)
  BY DEF PagesOf
<1> QED BY <1>1, <1>2, FS_Subset, FS_CardinalityType

(* What a host once did not accommodate, it never will.                    *)
LEMMA RefusalLasts ==
  ASSUME NEW old, IsHost(old), FrequenciesMatch(old),
         NEW new, IsHost(new), FrequenciesMatch(new),
         old.guests \subseteq new.guests,
         NEW g \in Guest, ~AccommodatesGuest(old, g)
  PROVE  ~AccommodatesGuest(new, g)
<1>1. /\ new.guests \cup {g} \in SUBSET Guest
      /\ old.guests \cup {g} \in SUBSET (new.guests \cup {g})
  BY DEF IsHost
<1>2. Cardinality(PagesOf(old.guests \cup {g})) <= Cardinality(PagesOf(new.guests \cup {g}))
      /\ Cardinality(PagesOf(old.guests \cup {g})) \in Nat
      /\ Cardinality(PagesOf(new.guests \cup {g})) \in Nat
  BY <1>1, PagesGrow
<1> QED BY <1>2, AccommodatesIsFits, HostAssumption

(* And it accommodates no range with such a guest. *)
LEMMA RefusalOfMany ==
  ASSUME NEW host, IsHost(host), FrequenciesMatch(host),
         NEW S \in SUBSET Guest, NEW g \in S, ~AccommodatesGuest(host, g)
  PROVE  ~AccommodatesGuests(host, S)
<1>1. /\ host.guests \cup S \in SUBSET Guest
      /\ host.guests \cup {g} \in SUBSET (host.guests \cup S)
  BY DEF IsHost
<1>2. /\ Cardinality(PagesOf(host.guests \cup {g})) <= Cardinality(PagesOf(host.guests \cup S))
      /\ Cardinality(PagesOf(host.guests \cup {g})) \in Nat
      /\ Cardinality(PagesOf(host.guests \cup S)) \in Nat
  BY <1>1, PagesGrow
<1> QED BY <1>2, AccommodatesIsFits, CountsOfGuests, HostAssumption DEF AccommodatesGuests

-----------------------------------------------------------------------------
(* A guest that a host accommodates does not make it overfull, and neither *)
(* does one of at most Capacity pages make a new host.                     *)
LEMMA PlaceOnNotOverfull ==
  ASSUME NEW hs, TrueHosts(hs), NoGuestTwice(hs),
         NEW g \in Guest, g \notin PlacedGuests(hs), NEW i \in Accommodating(hs, g),
         NEW new, new = PlaceOn(hs, i, g)
  PROVE  ~IsOverfull(new[i])
<1>1. i \in DOMAIN hs /\ AccommodatesGuest(hs[i], g)
  BY DEF Accommodating
<1>2. /\ TrueHosts(new) /\ DOMAIN new = DOMAIN hs
      /\ new[i].guests = hs[i].guests \cup {g}
  BY <1>1, PlaceOnTrue
<1>3. Cardinality(PagesOf(new[i].guests)) <= Capacity
  BY <1>1, <1>2, AccommodatesIsFits DEF TrueHosts
<1>4. Cardinality(PagesOf(new[i].guests)) \in Nat
  BY <1>1, <1>2, PagesGrow DEF TrueHosts, IsHost
<1>5. FrequenciesMatch(new[i])
  BY <1>1, <1>2 DEF TrueHosts
<1>6. IsOverfull(new[i]) <=> Cardinality(PagesOf(new[i].guests)) > Capacity
  BY <1>5, OverfullMeans
<1> QED BY <1>3, <1>4, <1>6, HostAssumption

LEMMA OpenHostForNotOverfull ==
  ASSUME NEW hs, TrueHosts(hs), NoGuestTwice(hs),
         NEW g \in Guest, g \notin PlacedGuests(hs), Cardinality(g.pages) <= Capacity,
         NEW new, new = OpenHostFor(hs, g)
  PROVE  ~IsOverfull(new[Len(hs) + 1])
<1>1. /\ TrueHosts(new) /\ DOMAIN new = 1 .. Len(hs) + 1
      /\ new[Len(hs) + 1].guests = {g}
  BY OpenHostForTrue
<1>2. Len(hs) + 1 \in DOMAIN new
  BY <1>1, LenProperties DEF TrueHosts
<1>3. PagesOf({g}) = g.pages /\ Cardinality(g.pages) \in Nat
  BY GuestFinite, FS_CardinalityType DEF PagesOf
<1>4. FrequenciesMatch(new[Len(hs) + 1])
  BY <1>1, <1>2 DEF TrueHosts
<1>5. IsOverfull(new[Len(hs) + 1]) <=> Cardinality(PagesOf({g})) > Capacity
  BY <1>1, <1>4, OverfullMeans
<1> QED BY <1>3, <1>5, HostAssumption

-----------------------------------------------------------------------------
(* A guest that a host accommodates makes it overfull in no case, and one  *)
(* that gets a new host is alone there.                                    *)
LEMMA PlaceOnOverfull ==
  ASSUME NEW hs, TrueHosts(hs), NoGuestTwice(hs), OverfullHostsHaveOne(hs),
         NEW g \in Guest, g \notin PlacedGuests(hs), NEW i \in Accommodating(hs, g),
         NEW new, new = PlaceOn(hs, i, g)
  PROVE  OverfullHostsHaveOne(new)
<1>1. ~IsOverfull(new[i])
  BY PlaceOnNotOverfull
<1>2. i \in DOMAIN hs
  BY DEF Accommodating
<1>3. DOMAIN new = DOMAIN hs /\ \A j \in DOMAIN hs : j # i => new[j] = hs[j]
  BY <1>2, PlaceOnTrue
<1> QED BY <1>1, <1>3 DEF OverfullHostsHaveOne

LEMMA OpenHostForOverfull ==
  ASSUME NEW hs, TrueHosts(hs), NoGuestTwice(hs), OverfullHostsHaveOne(hs),
         NEW g \in Guest, g \notin PlacedGuests(hs),
         NEW new, new = OpenHostFor(hs, g)
  PROVE  OverfullHostsHaveOne(new)
<1>1. PICK n : n = Len(hs)
  OBVIOUS
<1>2. /\ DOMAIN new = 1 .. n + 1
      /\ \A j \in 1 .. n : new[j] = hs[j]
      /\ new[n + 1].guests = {g}
  BY <1>1, OpenHostForTrue
<1>3. DOMAIN hs = 1 .. n /\ n \in Nat
  BY <1>1, LenProperties DEF TrueHosts
<1>4. ASSUME NEW j \in DOMAIN new PROVE j \in DOMAIN hs \/ j = n + 1
  BY <1>2, <1>3
<1> QED BY <1>2, <1>3, <1>4 DEF OverfullHostsHaveOne

(* A packing of all guests on hosts with guests, of which only lone guests *)
(* overfill one, is fine just when each guest fits a host.                 *)
LEMMA VerdictOnPacking ==
  ASSUME NEW hs, GoodHosts(hs), OverfullHostsHaveOne(hs),
         NEW instance, PlacedGuests(hs) = GuestsOf(instance)
  PROVE  ValidateForInstance(hs, instance) =
            IF AllGuestsFit(instance) THEN "PACKING_OKAY" ELSE "PACKING_HOST_OVERFULL"
<1>1. BadHosts(hs) = {i \in DOMAIN hs : IsOverfull(hs[i])}
  BY DEF BadHosts, GoodHosts
<1>2. ASSUME NEW i \in DOMAIN hs
      PROVE  /\ hs[i].guests \in SUBSET Guest /\ hs[i].guests \subseteq GuestsOf(instance)
             /\ Cardinality(PagesOf(hs[i].guests)) \in Nat
             /\ IsOverfull(hs[i]) <=> Cardinality(PagesOf(hs[i].guests)) > Capacity
  <2>1. IsHost(hs[i]) /\ FrequenciesMatch(hs[i])
    BY DEF GoodHosts, TrueHosts
  <2>2. hs[i].guests \in SUBSET Guest /\ hs[i].guests \subseteq PlacedGuests(hs)
    BY <2>1 DEF IsHost, PlacedGuests
  <2> QED BY <2>1, <2>2, OverfullMeans, PagesGrow
<1>3. CASE AllGuestsFit(instance)
  <2>1. ASSUME NEW i \in DOMAIN hs, IsOverfull(hs[i]) PROVE FALSE
    <3>1. PICK g \in hs[i].guests : hs[i].guests = {g}
      BY <2>1 DEF OverfullHostsHaveOne
    <3>2. Cardinality(PagesOf(hs[i].guests)) <= Capacity
      BY <1>2, <1>3, <3>1 DEF AllGuestsFit, FitTogether
    <3> QED BY <1>2, <2>1, <3>2, HostAssumption
  <2>2. BadHosts(hs) = {}
    BY <1>1, <2>1
  <2> QED BY <1>3, <2>2 DEF ValidateForInstance
<1>4. CASE ~AllGuestsFit(instance)
  <2>1. PICK g \in GuestsOf(instance) : ~FitTogether({g})
    BY <1>4 DEF AllGuestsFit
  <2>2. PICK i \in DOMAIN hs : g \in hs[i].guests
    BY <2>1 DEF PlacedGuests
  <2>3. /\ Cardinality(PagesOf({g})) \in Nat
        /\ Cardinality(PagesOf({g})) <= Cardinality(PagesOf(hs[i].guests))
    BY <1>2, <2>2, PagesGrow
  <2>4. i \in BadHosts(hs)
    BY <1>1, <1>2, <2>1, <2>2, <2>3, HostAssumption DEF FitTogether
  <2>5. BadHosts(hs) \in SUBSET Nat
    BY LenProperties DEF BadHosts, GoodHosts, TrueHosts
  <2>6. Min(BadHosts(hs)) \in BadHosts(hs)
    BY <2>4, <2>5, MinOfNaturals
  <2>7. hs[Min(BadHosts(hs))].guests # {}
    BY <2>6 DEF BadHosts, GoodHosts
  <2> QED BY <1>4, <2>4, <2>7 DEF ValidateForInstance
<1> QED BY <1>3, <1>4

(* A packing in which no guest is on two hosts counts each of its guests   *)
(* once: guests correspond to their places.                                *)
LEMMA PackingCounts ==
  ASSUME NEW hs, TrueHosts(hs), NoGuestTwice(hs)
  PROVE  MakePacking(hs).guestCount = Cardinality(PlacedGuests(hs))
<1> DEFINE placed == PlacedGuests(hs)
           places == UNION {{i} \X hs[i].guests : i \in DOMAIN hs}
           HostAt(g) == CHOOSE i \in DOMAIN hs : g \in hs[i].guests
           place == [g \in placed |-> <<HostAt(g), g>>]
<1>1. \A g \in placed : HostAt(g) \in DOMAIN hs /\ g \in hs[HostAt(g)].guests
  BY DEF PlacedGuests
<1>2. place \in [placed -> places]
  <2>1. ASSUME NEW g \in placed PROVE <<HostAt(g), g>> \in places
    <3>1. HostAt(g) \in DOMAIN hs /\ g \in hs[HostAt(g)].guests
      BY <1>1
    <3> HIDE DEF HostAt
    <3> QED BY <3>1
  <2> HIDE DEF placed, places, HostAt
  <2> QED BY <2>1
<1>3. \A g, h \in placed : place[g] = place[h] => g = h
  OBVIOUS
<1>4. ASSUME NEW x \in places PROVE \E g \in placed : place[g] = x
  <2>1. PICK i \in DOMAIN hs : x \in {i} \X hs[i].guests
    OBVIOUS
  <2>2. x = <<i, x[2]>> /\ x[2] \in hs[i].guests
    BY <2>1
  <2>3. x[2] \in placed
    BY <2>2 DEF PlacedGuests
  <2>4. HostAt(x[2]) = i
    BY <1>1, <2>2, <2>3 DEF NoGuestTwice
  <2> QED BY <2>2, <2>3, <2>4
<1>5. placed \subseteq Guest
  BY DEF PlacedGuests, TrueHosts, IsHost
<1>6. IsFiniteSet(placed)
  BY <1>5, GuestFinite, FS_Subset
<1>7. Cardinality(places) = Cardinality(placed)
  <2> HIDE DEF placed, places, place
  <2>1. place \in Bijection(placed, places)
    BY <1>2, <1>3, <1>4 DEF Bijection, Injection, IsInjective, Surjection
  <2> QED BY <1>6, <2>1, FS_Bijection DEF ExistsBijection
<1> QED BY <1>7 DEF MakePacking

(* An instance has as many guests as its vector is long.                   *)
LEMMA InstanceCounts ==
  ASSUME NEW instance, IsInstance(instance)
  PROVE  Cardinality(GuestsOf(instance)) = Len(instance)
<1>1. instance \in Seq(Guest) /\ Len(instance) \in Nat /\ DOMAIN instance = 1 .. Len(instance)
  BY LenProperties DEF IsInstance
<1>2. instance \in [1 .. Len(instance) -> GuestsOf(instance)]
  BY <1>1, LenProperties DEF GuestsOf
<1>3. instance \in Bijection(1 .. Len(instance), GuestsOf(instance))
  BY <1>2, InstanceGuests DEF Bijection, Injection, IsInjective, Surjection, GuestsOf
<1> QED BY <1>1, <1>3, FS_CountingElements DEF ExistsBijection

-----------------------------------------------------------------------------
(* To one who sees only which guests share a host, opening a host appends  *)
(* a bin.                                                                  *)
BinsOf(hs) == [i \in DOMAIN hs |-> hs[i].guests]

LEMMA BinsOfOpenHostFor ==
  ASSUME NEW hs, TrueHosts(hs), NoGuestTwice(hs),
         NEW g \in Guest, g \notin PlacedGuests(hs),
         NEW new, new = OpenHostFor(hs, g)
  PROVE  BinsOf(new) = Append(BinsOf(hs), {g})
<1> DEFINE n == Len(hs)
           bins == BinsOf(hs)
<1>1. DOMAIN hs = 1 .. n /\ n \in Nat
  BY LenProperties DEF TrueHosts
<1>2. /\ DOMAIN new = 1 .. n + 1
      /\ \A l \in 1 .. n : new[l] = hs[l]
      /\ new[n + 1].guests = {g}
  BY OpenHostForTrue
<1>3. bins \in [1 .. n -> SUBSET Guest]
  BY <1>1 DEF BinsOf, TrueHosts, IsHost
<1>4. bins \in Seq(SUBSET Guest) /\ Len(bins) = n
  BY <1>1, <1>3
<1>5. /\ Append(bins, {g}) \in Seq(SUBSET Guest)
      /\ Len(Append(bins, {g})) = n + 1
      /\ \A l \in 1 .. n : Append(bins, {g})[l] = bins[l]
      /\ Append(bins, {g})[n + 1] = {g}
  <2> HIDE DEF bins
  <2> QED BY <1>4, AppendProperties
<1>6. DOMAIN Append(bins, {g}) = 1 .. n + 1
  BY <1>5, LenProperties
<1>7. \A l \in 1 .. n + 1 : new[l].guests = Append(bins, {g})[l]
  <2>1. \A l \in 1 .. n : bins[l] = hs[l].guests
    BY <1>1 DEF BinsOf
  <2>2. \A l \in 1 .. n + 1 : l \in 1 .. n \/ l = n + 1
    <3> HIDE DEF n
    <3> QED BY <1>1
  <2> HIDE DEF n, bins
  <2> QED BY <1>2, <1>5, <2>1, <2>2
<1>8. Append(bins, {g}) = [l \in 1 .. n + 1 |-> Append(bins, {g})[l]]
  BY <1>5, <1>6, LenProperties
<1>9. BinsOf(new) = [l \in 1 .. n + 1 |-> new[l].guests]
  BY <1>2 DEF BinsOf
<1> HIDE DEF bins
<1> QED BY <1>7, <1>8, <1>9 DEF bins

-----------------------------------------------------------------------------
LEMMA UpTo == ASSUME NEW n \in Nat PROVE IsFiniteSet(1 .. n) /\ Cardinality(1 .. n) = n
<1>1. /\ IsFiniteSet(1 .. n)
      /\ Cardinality(1 .. n) = IF 1 > n THEN 0 ELSE n - 1 + 1
  BY FS_Interval
<1> QED BY <1>1

(* t has the elements of s at these positions, each once, in their order. *)
Picks(t, s, I, pos) ==
    /\ pos \in [1 .. Len(t) -> I]
    /\ \A k \in 1 .. Len(t) : t[k] = s[pos[k]]
    /\ \A k, l \in 1 .. Len(t) : k < l => pos[k] < pos[l]
    /\ \A i \in I : \E k \in 1 .. Len(t) : pos[k] = i

(* A subsequence has the elements at the positions it was made of, each    *)
(* position once, in their order.                                          *)
LEMMA SubsequenceHas ==
  ASSUME NEW S, NEW s \in Seq(S), NEW I \in SUBSET (1 .. Len(s)),
         NEW t, t = Subsequence(s, I)
  PROVE  /\ t \in Seq(S)
         /\ Len(t) = Cardinality(I) /\ Len(t) \in Nat /\ Len(t) <= Len(s)
         /\ \E pos : Picks(t, s, I, pos)
<1> DEFINE c == Cardinality(I)
           Below(i) == {j \in I : j <= i}
           rank == [i \in I |-> Cardinality(Below(i))]
           pos == [k \in 1 .. c |-> CHOOSE i \in I : Cardinality(Below(i)) = k]
<1>1. Len(s) \in Nat /\ I \subseteq Nat /\ \A i \in 1 .. Len(s) : s[i] \in S
  BY LenProperties
<1>2. /\ IsFiniteSet(I) /\ c \in Nat /\ c <= Len(s)
      /\ IsFiniteSet(1 .. c) /\ Cardinality(1 .. c) = c
  <2>1. IsFiniteSet(1 .. Len(s)) /\ Cardinality(1 .. Len(s)) = Len(s)
    BY <1>1, UpTo
  <2>2. IsFiniteSet(I) /\ c <= Len(s)
    <3>1. IsFiniteSet(I) /\ Cardinality(I) <= Cardinality(1 .. Len(s))
      BY <2>1, FS_Subset
    <3> QED BY <2>1, <3>1
  <2>3. c \in Nat
    BY <2>2, FS_CardinalityType
  <2> HIDE DEF c
  <2> QED BY <2>2, <2>3, UpTo
<1>3. \A i \in I : /\ IsFiniteSet(Below(i)) /\ Below(i) \in SUBSET I /\ i \in Below(i)
  BY <1>1, <1>2, FS_Subset
<1>4. \A i \in I : rank[i] \in 1 .. c
  <2> SUFFICES ASSUME NEW i \in I PROVE rank[i] \in 1 .. c
    OBVIOUS
  <2>1. Cardinality(Below(i)) \in Nat /\ Cardinality(Below(i)) # 0 /\ Cardinality(Below(i)) <= c
    BY <1>2, <1>3, FS_Subset, FS_CardinalityType, FS_EmptySet
  <2> HIDE DEF c, Below
  <2> QED BY <1>2, <2>1
<1>5. ASSUME NEW i \in I, NEW j \in I, i < j PROVE rank[i] < rank[j]
  <2>1. Below(i) \in SUBSET Below(j) /\ Below(i) # Below(j)
    <3>1. i \in Int /\ j \in Int /\ i < j /\ \A k \in I : k \in Int
      BY <1>1, <1>5
    <3>2. j \in Below(j) /\ j \notin Below(i)
      BY <3>1
    <3>3. \A k \in I : k <= i => k <= j
      BY <3>1
    <3> QED BY <3>2, <3>3
  <2>2. Cardinality(Below(i)) <= Cardinality(Below(j)) /\ Cardinality(Below(i)) # Cardinality(Below(j))
    BY <1>3, <2>1, FS_Subset
  <2>3. Cardinality(Below(i)) \in Nat /\ Cardinality(Below(j)) \in Nat
    BY <1>3, FS_CardinalityType
  <2> HIDE DEF Below
  <2> QED BY <2>2, <2>3
<1> HIDE DEF c
<1>6. \A i, j \in I : rank[i] = rank[j] => i = j
  <2> SUFFICES ASSUME NEW i \in I, NEW j \in I, rank[i] = rank[j] PROVE i = j
    OBVIOUS
  <2>1. rank[i] \in Nat /\ rank[j] \in Nat /\ i \in Nat /\ j \in Nat
    BY <1>1, <1>2, <1>4
  <2>2. ~(rank[i] < rank[j]) /\ ~(rank[j] < rank[i])
    BY <2>1
  <2>3. ~(i < j) /\ ~(j < i)
    <3> HIDE DEF rank
    <3> QED BY <1>5, <2>2
  <2> QED BY <2>1, <2>3
<1>7. \A k \in 1 .. c : \E i \in I : rank[i] = k
  <2> DEFINE R == {rank[i] : i \in I}
  <2>1. R \in SUBSET (1 .. c)
    BY <1>4
  <2>2. rank \in Bijection(I, R)
    <3> HIDE DEF rank
    <3>1. rank \in [I -> R]
      BY DEF rank
    <3> QED BY <1>6, <3>1 DEF Bijection, Injection, IsInjective, Surjection
  <2>3. Cardinality(R) = c
    <3> HIDE DEF rank, R
    <3> QED BY <1>2, <2>2, FS_Bijection DEF ExistsBijection, c
  <2>4. R = 1 .. c
    <3> HIDE DEF rank, R
    <3> QED BY <1>2, <2>1, <2>3, FS_Subset
  <2> QED BY <2>4
<1>8. \A k \in 1 .. c : pos[k] \in I /\ rank[pos[k]] = k
  <2> SUFFICES ASSUME NEW k \in 1 .. c PROVE pos[k] \in I /\ rank[pos[k]] = k
    OBVIOUS
  <2>1. \E i \in I : Cardinality(Below(i)) = k
    BY <1>7
  <2> HIDE DEF Below
  <2> QED BY <2>1
<1>9. t = [k \in 1 .. c |-> s[pos[k]]]
  BY DEF Subsequence, c
<1> HIDE DEF pos
<1>10. t \in [1 .. c -> S]
  BY <1>1, <1>8, <1>9
<1>11. t \in Seq(S) /\ Len(t) = c
  BY <1>2, <1>10
<1>12. \A k, l \in 1 .. c : k < l => pos[k] < pos[l]
  <2> SUFFICES ASSUME NEW k \in 1 .. c, NEW l \in 1 .. c, k < l PROVE pos[k] < pos[l]
    OBVIOUS
  <2> HIDE DEF rank
  <2>1. k # l /\ ~(l < k)
    BY <1>2
  <2>2. /\ pos[k] \in Nat /\ pos[l] \in Nat /\ pos[k] # pos[l]
        /\ ~(pos[l] < pos[k])
    BY <1>1, <1>5, <1>8, <2>1
  <2> QED BY <2>2
<1>13. \A i \in I : \E k \in 1 .. c : pos[k] = i
  <2> HIDE DEF rank
  <2> QED BY <1>4, <1>6, <1>8
<1>14. pos \in [1 .. c -> I]
  BY <1>8 DEF pos
<1>15. Picks(t, s, I, pos)
  BY <1>2, <1>9, <1>11, <1>12, <1>13, <1>14 DEF c, Picks
<1> QED BY <1>2, <1>11, <1>15 DEF c

(* All of a sequence is a subsequence of it. *)
LEMMA SubsequenceOfAll ==
  ASSUME NEW S, NEW s \in Seq(S)
  PROVE  Subsequence(s, 1 .. Len(s)) = s
<1> DEFINE n == Len(s)
           Below(i) == {j \in 1 .. n : j <= i}
<1>1. n \in Nat /\ s = [k \in 1 .. n |-> s[k]]
  BY LenProperties
<1> HIDE DEF n
<1>5. Cardinality(1 .. n) = n
  BY <1>1, UpTo
<1>2. ASSUME NEW i \in 1 .. n PROVE Cardinality(Below(i)) = i
  <2>1. i \in Nat /\ i <= n
    BY <1>1, <1>2
  <2>2. Below(i) = 1 .. i
    BY <1>1, <2>1
  <2>3. Cardinality(1 .. i) = i
    BY <2>1, UpTo
  <2> HIDE DEF Below
  <2> QED BY <2>2, <2>3
<1>3. ASSUME NEW k \in 1 .. n PROVE (CHOOSE i \in 1 .. n : Cardinality(Below(i)) = k) = k
  <2> HIDE DEF Below
  <2> QED BY <1>2, <1>3
<1>4. Subsequence(s, 1 .. n) = [k \in 1 .. n |-> s[CHOOSE i \in 1 .. n : Cardinality(Below(i)) = k]]
  BY <1>5 DEF Subsequence
<1> HIDE DEF Below
<1> QED BY <1>1, <1>3, <1>4 DEF n

-----------------------------------------------------------------------------
(* Sequences of elements none of which comes twice. *)
NoneTwice(s) == \A k, l \in 1 .. Len(s) : s[k] = s[l] => k = l

LEMMA TailNoneTwice ==
  ASSUME NEW S, NEW s \in Seq(S), s # <<>>, NoneTwice(s)
  PROVE  /\ Head(s) \in ToSet(s) /\ Head(s) \in S
         /\ Tail(s) \in Seq(S)
         /\ NoneTwice(Tail(s))
         /\ ToSet(Tail(s)) = ToSet(s) \ {Head(s)}
         /\ Len(Tail(s)) = Len(s) - 1
<1>1. Len(s) \in Nat \ {0} /\ DOMAIN s = 1 .. Len(s) /\ Head(s) = s[1]
  BY EmptySeq, LenProperties
<1>2. /\ Tail(s) \in Seq(S) /\ Len(Tail(s)) = Len(s) - 1 /\ Head(s) \in S
      /\ \A i \in 1 .. Len(Tail(s)) : Tail(s)[i] = s[i + 1]
  BY HeadTailProperties
<1>3. DOMAIN Tail(s) = 1 .. Len(s) - 1
  BY <1>2, LenProperties
<1> DEFINE t == Tail(s)
           n == Len(s)
<1>4. NoneTwice(t)
  <2> SUFFICES ASSUME NEW k \in 1 .. n - 1, NEW l \in 1 .. n - 1, t[k] = t[l] PROVE k = l
    BY <1>2 DEF NoneTwice
  <2>1. k + 1 \in 1 .. n /\ l + 1 \in 1 .. n /\ s[k + 1] = s[l + 1]
    BY <1>1, <1>2
  <2> QED BY <2>1 DEF NoneTwice
<1>5. ToSet(t) = ToSet(s) \ {Head(s)}
  <2>1. ASSUME NEW x \in ToSet(t) PROVE x \in ToSet(s) /\ x # Head(s)
    <3>1. PICK k \in 1 .. n - 1 : x = t[k]
      BY <1>3 DEF ToSet
    <3>2. k + 1 \in 1 .. n /\ 1 \in 1 .. n /\ k + 1 # 1 /\ x = s[k + 1]
      BY <1>1, <1>2, <3>1
    <3> QED BY <1>1, <3>2 DEF ToSet, NoneTwice
  <2>2. ASSUME NEW x \in ToSet(s), x # Head(s) PROVE x \in ToSet(t)
    <3>1. PICK k \in 1 .. n : x = s[k]
      BY <1>1 DEF ToSet
    <3>2. k - 1 \in 1 .. n - 1 /\ t[k - 1] = s[k]
      <4>1. k # 1 /\ k \in Nat
        BY <1>1, <2>2, <3>1
      <4>2. k - 1 \in 1 .. n - 1 /\ (k - 1) + 1 = k
        BY <1>1, <3>1, <4>1
      <4> QED BY <1>2, <4>2
    <3> QED BY <1>3, <3>1, <3>2 DEF ToSet
  <2> QED BY <2>1, <2>2
<1>6. Head(s) \in ToSet(s)
  BY <1>1 DEF ToSet
<1> QED BY <1>2, <1>4, <1>5, <1>6

LEMMA AppendNoneTwice ==
  ASSUME NEW S, NEW s \in Seq(S), NoneTwice(s), NEW x \in S, x \notin ToSet(s)
  PROVE  /\ Append(s, x) \in Seq(S)
         /\ NoneTwice(Append(s, x))
         /\ ToSet(Append(s, x)) = ToSet(s) \cup {x}
         /\ Len(Append(s, x)) = Len(s) + 1
<1> DEFINE t == Append(s, x)
           n == Len(s)
<1>1. n \in Nat /\ DOMAIN s = 1 .. n
  BY LenProperties
<1>2. /\ t \in Seq(S) /\ Len(t) = n + 1
      /\ \A i \in 1 .. n : t[i] = s[i]
      /\ t[n + 1] = x
  BY AppendProperties
<1>3. DOMAIN t = 1 .. n + 1
  BY <1>2, LenProperties
<1>4. \A i \in 1 .. n + 1 : i \in 1 .. n \/ i = n + 1
  <2> HIDE DEF n
  <2> QED BY <1>1
<1>5. \A i \in 1 .. n : s[i] # x
  BY <1>1 DEF ToSet
<1>6. NoneTwice(t)
  <2> HIDE DEF n, t
  <2> SUFFICES ASSUME NEW k \in 1 .. n + 1, NEW l \in 1 .. n + 1, t[k] = t[l] PROVE k = l
    BY <1>2 DEF NoneTwice
  <2> QED BY <1>2, <1>4, <1>5 DEF NoneTwice, n
<1>7. ToSet(t) = ToSet(s) \cup {x}
  <2>1. 1 .. n + 1 = (1 .. n) \cup {n + 1}
    <3> HIDE DEF n
    <3> QED BY <1>1
  <2>2. ToSet(t) = {t[i] : i \in 1 .. n + 1}
    BY <1>3 DEF ToSet
  <2> HIDE DEF n, t
  <2> QED BY <1>1, <1>2, <2>1, <2>2 DEF ToSet
<1> QED BY <1>2, <1>6, <1>7

LEMMA NoneTwiceCounts ==
  ASSUME NEW S, NEW s \in Seq(S), NoneTwice(s)
  PROVE  Len(s) = Cardinality(ToSet(s))
<1>1. Len(s) \in Nat /\ DOMAIN s = 1 .. Len(s) /\ s \in [1 .. Len(s) -> ToSet(s)]
  BY LenProperties DEF ToSet
<1>2. s \in Bijection(1 .. Len(s), ToSet(s))
  BY <1>1 DEF Bijection, Injection, IsInjective, Surjection, ToSet, NoneTwice
<1> QED BY <1>1, <1>2, FS_CountingElements DEF ExistsBijection

LEMMA ConcatNoneTwice ==
  ASSUME NEW S, NEW s \in Seq(S), NEW t \in Seq(S),
         NoneTwice(s), NoneTwice(t), ToSet(s) \cap ToSet(t) = {}
  PROVE  /\ s \o t \in Seq(S)
         /\ NoneTwice(s \o t)
         /\ ToSet(s \o t) = ToSet(s) \cup ToSet(t)
<1> DEFINE m == Len(s)
           n == Len(t)
           u == s \o t
<1>1. m \in Nat /\ n \in Nat /\ DOMAIN s = 1 .. m /\ DOMAIN t = 1 .. n
  BY LenProperties
<1>2. /\ u \in Seq(S) /\ Len(u) = m + n
      /\ \A i \in 1 .. m + n : u[i] = IF i <= m THEN s[i] ELSE t[i - m]
  BY ConcatProperties
<1>3. DOMAIN u = 1 .. m + n
  BY <1>2, LenProperties
<1>4. \A i \in 1 .. m, j \in 1 .. n : s[i] # t[j]
  BY <1>1 DEF ToSet
<1>5. /\ \A i, j \in 1 .. m : s[i] = s[j] => i = j
      /\ \A i, j \in 1 .. n : t[i] = t[j] => i = j
  BY DEF NoneTwice
<1> HIDE DEF m, n, u
<1>6. NoneTwice(u)
  <2> SUFFICES ASSUME NEW i \in 1 .. m + n, NEW j \in 1 .. m + n, u[i] = u[j] PROVE i = j
    BY <1>2 DEF NoneTwice
  <2>1. CASE i <= m /\ j <= m
    BY <1>1, <1>2, <1>5, <2>1
  <2>2. CASE i <= m /\ ~(j <= m)
    <3>1. i \in 1 .. m /\ j - m \in 1 .. n
      BY <1>1, <2>2
    <3> QED BY <1>2, <1>4, <2>2, <3>1
  <2>3. CASE ~(i <= m) /\ j <= m
    <3>1. j \in 1 .. m /\ i - m \in 1 .. n
      BY <1>1, <2>3
    <3> QED BY <1>2, <1>4, <2>3, <3>1
  <2>4. CASE ~(i <= m) /\ ~(j <= m)
    <3>1. j - m \in 1 .. n /\ i - m \in 1 .. n
      BY <1>1, <2>4
    <3>2. i - m = j - m
      BY <1>2, <1>5, <2>4, <3>1
    <3> QED BY <1>1, <3>2
  <2> QED BY <2>1, <2>2, <2>3, <2>4
<1>7. ToSet(u) = ToSet(s) \cup ToSet(t)
  <2>1. ASSUME NEW x \in ToSet(u) PROVE x \in ToSet(s) \cup ToSet(t)
    <3>1. PICK i \in 1 .. m + n : x = u[i]
      BY <1>3 DEF ToSet
    <3>2. CASE i <= m
      <4>1. i \in 1 .. m
        BY <1>1, <3>2
      <4> QED BY <1>1, <1>2, <3>1, <3>2, <4>1 DEF ToSet
    <3>3. CASE ~(i <= m)
      <4>1. i - m \in 1 .. n
        BY <1>1, <3>3
      <4> QED BY <1>1, <1>2, <3>1, <3>3, <4>1 DEF ToSet
    <3> QED BY <3>2, <3>3
  <2>2. ASSUME NEW x \in ToSet(s) PROVE x \in ToSet(u)
    <3>1. PICK i \in 1 .. m : x = s[i]
      BY <1>1 DEF ToSet
    <3>2. i \in 1 .. m + n /\ i <= m
      BY <1>1
    <3> QED BY <1>2, <1>3, <3>1, <3>2 DEF ToSet
  <2>3. ASSUME NEW x \in ToSet(t) PROVE x \in ToSet(u)
    <3>1. PICK i \in 1 .. n : x = t[i]
      BY <1>1 DEF ToSet
    <3>2. i + m \in 1 .. m + n /\ ~(i + m <= m) /\ (i + m) - m = i
      BY <1>1
    <3> QED BY <1>2, <1>3, <3>1, <3>2 DEF ToSet
  <2> QED BY <2>1, <2>2, <2>3
<1> QED BY <1>2, <1>6, <1>7 DEF u

(* A subsequence of such a sequence is one. *)
LEMMA SubsequenceNoneTwice ==
  ASSUME NEW S, NEW s \in Seq(S), NoneTwice(s), NEW I \in SUBSET (1 .. Len(s)),
         NEW t, t = Subsequence(s, I)
  PROVE  /\ t \in Seq(S) /\ NoneTwice(t)
         /\ ToSet(t) = {s[i] : i \in I}
<1>1. t \in Seq(S) /\ Len(t) \in Nat /\ DOMAIN t = 1 .. Len(t)
  BY SubsequenceHas, LenProperties
<1>2. PICK pos : Picks(t, s, I, pos)
  BY SubsequenceHas
<1> USE DEF Picks
<1>3. ASSUME NEW k \in 1 .. Len(t), NEW l \in 1 .. Len(t), t[k] = t[l] PROVE k = l
  <2>0. /\ pos[k] \in 1 .. Len(s) /\ pos[l] \in 1 .. Len(s)
        /\ s[pos[k]] = s[pos[l]]
    BY <1>2, <1>3
  <2>1. pos[k] = pos[l] /\ pos[k] \in Nat
    BY <2>0, LenProperties DEF NoneTwice
  <2>2. ~(k < l) /\ ~(l < k)
    BY <1>2, <2>1
  <2> QED BY <1>1, <2>2
<1>4. ToSet(t) = {s[i] : i \in I}
  <2>1. ASSUME NEW x \in ToSet(t) PROVE x \in {s[i] : i \in I}
    <3>1. PICK k \in 1 .. Len(t) : x = t[k]
      BY <1>1, <2>1 DEF ToSet
    <3> QED BY <1>2, <3>1
  <2>2. ASSUME NEW i \in I PROVE s[i] \in ToSet(t)
    <3>1. PICK k \in 1 .. Len(t) : pos[k] = i
      BY <1>2
    <3> QED BY <1>1, <1>2, <3>1 DEF ToSet
  <2> QED BY <2>1, <2>2
<1> QED BY <1>1, <1>3, <1>4 DEF NoneTwice

(* The orders a set can give its elements in. *)
LEMMA OrdersOfSet ==
  ASSUME NEW S, IsFiniteSet(S), NEW s \in SetToSeqs(S)
  PROVE  s \in Seq(S) /\ NoneTwice(s) /\ GuestsOf(s) = S
<1>1. PICK n \in Nat : n = Cardinality(S)
  BY FS_CardinalityType
<1>2. s \in [1 .. n -> S] /\ \A i, j \in 1 .. n : i # j => s[i] # s[j]
  BY <1>1 DEF SetToSeqs
<1>3. s \in Seq(S) /\ Len(s) = n
  BY <1>1, <1>2
<1>4. s \in Injection(1 .. n, S)
  BY <1>2 DEF Injection, IsInjective
<1>5. s \in Surjection(1 .. n, S)
  BY <1>1, <1>4, UpTo, FS_Injection
<1> QED BY <1>2, <1>3, <1>5 DEF NoneTwice, GuestsOf, Surjection

-----------------------------------------------------------------------------
(* Guests that move from host to host, and hosts that are erased.         *)

LEMMA TrueHostsHave ==
  ASSUME NEW hs, TrueHosts(hs)
  PROVE  /\ Len(hs) \in Nat /\ DOMAIN hs = 1 .. Len(hs)
         /\ \A i \in DOMAIN hs : /\ IsHost(hs[i]) /\ FrequenciesMatch(hs[i])
                                 /\ hs[i].guests \subseteq Guest
BY LenProperties DEF TrueHosts, IsHost

(* A guest moves from one host to another. *)
LEMMA MoveTrue ==
  ASSUME NEW hs, TrueHosts(hs), NoGuestTwice(hs),
         NEW i \in DOMAIN hs, NEW j \in DOMAIN hs, i # j, NEW g \in hs[j].guests,
         NEW new, new = TakeOff(PlaceOn(hs, i, g), j, g)
  PROVE  /\ TrueHosts(new) /\ NoGuestTwice(new)
         /\ DOMAIN new = DOMAIN hs /\ Len(new) = Len(hs)
         /\ new[i].guests = hs[i].guests \cup {g}
         /\ new[j].guests = hs[j].guests \ {g}
         /\ \A k \in DOMAIN hs : k # i /\ k # j => new[k] = hs[k]
         /\ PlacedGuests(new) = PlacedGuests(hs)
<1>1. PICK off : off = TakeOff(hs, j, g)
  OBVIOUS
<1>2. /\ TrueHosts(off) /\ NoGuestTwice(off)
      /\ DOMAIN off = DOMAIN hs /\ Len(off) = Len(hs)
      /\ off[j].guests = hs[j].guests \ {g}
      /\ \A k \in DOMAIN hs : k # j => off[k] = hs[k]
      /\ PlacedGuests(off) = PlacedGuests(hs) \ {g}
  BY <1>1, TakeOffTrue
<1>3. new = PlaceOn(off, i, g)
  <2>1. off = [hs EXCEPT ![j] = RemoveGuest(hs[j], g)]
    BY <1>1 DEF TakeOff
  <2>2. PlaceOn(hs, i, g) = [hs EXCEPT ![i] = AddGuest(hs[i], g)]
    BY DEF PlaceOn
  <2>3. new = [PlaceOn(hs, i, g) EXCEPT ![j] = RemoveGuest(hs[j], g)]
    BY <2>2 DEF TakeOff
  <2>4. PlaceOn(off, i, g) = [off EXCEPT ![i] = AddGuest(hs[i], g)]
    BY <1>2 DEF PlaceOn
  <2> QED BY <2>1, <2>2, <2>3, <2>4
<1>4. g \in Guest /\ g \notin PlacedGuests(off) /\ g \in PlacedGuests(hs)
  BY <1>2, TrueHostsHave DEF PlacedGuests
<1>5. i \in DOMAIN off
  BY <1>2
<1>6. /\ TrueHosts(new) /\ NoGuestTwice(new)
      /\ DOMAIN new = DOMAIN off /\ Len(new) = Len(off)
      /\ new[i].guests = off[i].guests \cup {g}
      /\ \A k \in DOMAIN off : k # i => new[k] = off[k]
      /\ PlacedGuests(new) = PlacedGuests(off) \cup {g}
  BY <1>2, <1>3, <1>4, <1>5, PlaceOnTrue
<1> QED BY <1>2, <1>4, <1>6

(* The hosts with guests remain, in their order. *)
LEMMA EraseEmptyTrue ==
  ASSUME NEW hs, TrueHosts(hs), NoGuestTwice(hs), NEW new, new = EraseEmpty(hs)
  PROVE  /\ GoodHosts(new) /\ NoGuestTwice(new)
         /\ Len(new) <= Len(hs)
         /\ PlacedGuests(new) = PlacedGuests(hs)
         /\ \A k \in DOMAIN new : \E i \in DOMAIN hs : new[k] = hs[i]
         /\ FirstFitStable(hs) => FirstFitStable(new)
         /\ (\A i \in DOMAIN hs : hs[i].guests # {}) => new = hs
<1> DEFINE I == {i \in DOMAIN hs : hs[i].guests # {}}
<1>1. new = Subsequence(hs, I)
  BY DEF EraseEmpty
<1>2. hs \in Seq(HostSet) /\ DOMAIN hs = 1 .. Len(hs) /\ Len(hs) \in Nat
  BY TrueHostsHave DEF TrueHosts
<1>3. I \in SUBSET (1 .. Len(hs))
  BY <1>2
<1> HIDE DEF I
<1>4. /\ new \in Seq(HostSet)
      /\ Len(new) \in Nat /\ Len(new) <= Len(hs)
      /\ DOMAIN new = 1 .. Len(new)
  BY <1>1, <1>2, <1>3, SubsequenceHas, LenProperties
<1>5. PICK pos : Picks(new, hs, I, pos)
  BY <1>1, <1>2, <1>3, SubsequenceHas
<1> USE DEF Picks
<1>6. \A k \in DOMAIN new : /\ pos[k] \in DOMAIN hs /\ new[k] = hs[pos[k]]
                            /\ hs[pos[k]].guests # {}
  BY <1>4, <1>5 DEF I
<1>7. GoodHosts(new)
  BY <1>4, <1>6 DEF GoodHosts, TrueHosts
<1>8. NoGuestTwice(new)
  <2> SUFFICES ASSUME NEW k \in DOMAIN new, NEW l \in DOMAIN new, k # l
               PROVE  new[k].guests \cap new[l].guests = {}
    BY DEF NoGuestTwice
  <2>1. pos[k] # pos[l]
    <3>1. pos[k] \in Nat /\ pos[l] \in Nat /\ k \in Nat /\ l \in Nat
      BY <1>2, <1>4, <1>6
    <3> QED BY <1>4, <1>5, <3>1
  <2> QED BY <1>6, <2>1 DEF NoGuestTwice
<1>9. PlacedGuests(new) = PlacedGuests(hs)
  <2>1. ASSUME NEW i \in DOMAIN hs, NEW g \in hs[i].guests
        PROVE  \E k \in DOMAIN new : g \in new[k].guests
    <3>1. i \in I
      BY DEF I
    <3> QED BY <1>4, <1>5, <3>1
  <2> QED BY <1>6, <2>1 DEF PlacedGuests
<1>10. FirstFitStable(hs) => FirstFitStable(new)
  <2> SUFFICES ASSUME FirstFitStable(hs),
                      NEW k \in DOMAIN new, NEW l \in DOMAIN new, k < l,
                      NEW g \in new[l].guests
               PROVE  ~AccommodatesGuest(new[k], g)
    BY DEF FirstFitStable
  <2>1. pos[k] < pos[l]
    BY <1>4, <1>5
  <2>2. /\ pos[k] \in DOMAIN hs /\ pos[l] \in DOMAIN hs
        /\ new[k] = hs[pos[k]] /\ g \in hs[pos[l]].guests
    BY <1>6
  <2> QED BY <2>1, <2>2 DEF FirstFitStable
<1>11. (\A i \in DOMAIN hs : hs[i].guests # {}) => new = hs
  <2>1. (\A i \in DOMAIN hs : hs[i].guests # {}) => I = 1 .. Len(hs)
    BY <1>2 DEF I
  <2> QED BY <1>1, <1>2, <2>1, SubsequenceOfAll
<1> QED BY <1>4, <1>6, <1>7, <1>8, <1>9, <1>10, <1>11

-----------------------------------------------------------------------------
(* What decanting as a function comes to, turn by turn. *)

(* The positions up to m, with and without the last one. *)
LEMMA LastPosition ==
  ASSUME NEW m \in Nat \ {0}, NEW s \in SUBSET (1 .. m)
  PROVE  /\ m \in s => Max(s) = m
         /\ m \notin s => s \in SUBSET (1 .. m - 1)
         /\ \A x : s \ {x} \in SUBSET (1 .. m)
<1>1. ASSUME m \in s PROVE Max(s) = m
  <2>1. \A y \in s : m >= y
    OBVIOUS
  <2>2. \A x \in s : (\A y \in s : x >= y) => x = m
    BY <1>1, <2>1
  <2> QED BY <1>1, <2>1, <2>2 DEF Max
<1>2. ASSUME m \notin s PROVE s \in SUBSET (1 .. m - 1)
  <2>1. \A y \in s : y \in 1 .. m - 1
    BY <1>2
  <2> QED BY <2>1
<1> QED BY <1>1, <1>2

LEMMA UpToLast ==
  ASSUME NEW k \in Nat \ {0}
  PROVE  1 .. k # {} /\ Max(1 .. k) = k /\ (1 .. k) \ {k} = 1 .. k - 1
<1>1. k \in 1 .. k
  OBVIOUS
<1>2. ASSUME NEW x PROVE x \in (1 .. k) \ {k} <=> x \in 1 .. k - 1
  OBVIOUS
<1> QED BY <1>1, <1>2, LastPosition

(* The parts of a host, one after the other. *)
PartsInTurn(turn, hs, i, j, order, n) ==
    /\ turn[0] = hs
    /\ \A k \in 1 .. n : turn[k] = MovePart(turn[k - 1], i, j, order[k])

LEMMA PartsTurns ==
  ASSUME NEW hs, NEW i, NEW j, NEW n \in Nat, NEW order, DOMAIN order = 1 .. n
  PROVE  \E turn : PartsInTurn(turn, hs, i, j, order, n) /\ MoveParts(hs, i, j, order) = turn[n]
<1> DEFINE Next1(f, s) == IF s = {} THEN hs ELSE MovePart(f[s \ {Max(s)}], i, j, order[Max(s)])
           Is(f, m) == f = [s \in SUBSET (1 .. m) |-> Next1(f, s)]
           Good == {m \in 0 .. n : \E f : Is(f, m)}
<1>1. MoveParts(hs, i, j, order) = (CHOOSE f : Is(f, n))[1 .. n]
  BY DEF MoveParts, FoldLeft, MapThenFoldSet
<1>2. 0 \in Good
  <2>1. SUBSET (1 .. 0) = {{}}
    OBVIOUS
  <2>2. [s \in {{}} |-> hs] = [s \in {{}} |-> Next1([r \in {{}} |-> hs], s)]
    OBVIOUS
  <2>3. Is([s \in {{}} |-> hs], 0)
    BY <2>1, <2>2
  <2> HIDE DEF Is
  <2> QED BY <2>3
<1>3. ASSUME NEW m \in 1 .. n, m - 1 \in Good PROVE m \in Good
  <2>1. PICK p : Is(p, m - 1)
    BY <1>3
  <2> DEFINE q == [s \in SUBSET (1 .. m) |->
                      IF m \in s THEN MovePart(p[s \ {m}], i, j, order[m]) ELSE p[s]]
  <2>2. ASSUME NEW s \in SUBSET (1 .. m) PROVE q[s] = Next1(q, s)
    <3>1. CASE m \in s
      <4>1. Max(s) = m /\ s \ {m} \in SUBSET (1 .. m) /\ m \notin s \ {m}
        BY <3>1, LastPosition
      <4>2. q[s \ {m}] = p[s \ {m}]
        BY <4>1
      <4> QED BY <3>1, <4>1, <4>2
    <3>2. CASE m \notin s
      <4>1. s \in SUBSET (1 .. m - 1)
        BY <3>2, LastPosition
      <4>2. ASSUME NEW x PROVE q[s \ {x}] = p[s \ {x}]
        <5>1. s \ {x} \in SUBSET (1 .. m) /\ m \notin s \ {x}
          BY <3>2
        <5> QED BY <5>1
      <4>3. p[s] = Next1(p, s) /\ q[s] = p[s]
        BY <2>1, <3>2, <4>1
      <4> QED BY <4>2, <4>3
    <3> QED BY <3>1, <3>2
  <2>3. Is(q, m)
    <3>1. q = [s \in SUBSET (1 .. m) |-> q[s]]
      OBVIOUS
    <3> HIDE DEF Next1, q
    <3> QED BY <2>2, <3>1
  <2> HIDE DEF Is, q
  <2> QED BY <2>3
<1>4. n \in Good
  <2> HIDE DEF Good
  <2> QED BY <1>2, <1>3, CountingUp
<1>5. PICK f : Is(f, n) /\ MoveParts(hs, i, j, order) = f[1 .. n]
  <2> HIDE DEF Is
  <2> QED BY <1>1, <1>4
<1>6. f[{}] = hs
  <2>1. f[{}] = Next1(f, {})
    BY <1>5
  <2> QED BY <2>1
<1>7. ASSUME NEW k \in 1 .. n PROVE f[1 .. k] = MovePart(f[1 .. k - 1], i, j, order[k])
  <2>1. 1 .. k \in SUBSET (1 .. n)
    OBVIOUS
  <2>2. f[1 .. k] = Next1(f, 1 .. k)
    BY <1>5, <2>1
  <2>3. 1 .. k # {} /\ Max(1 .. k) = k /\ (1 .. k) \ {k} = 1 .. k - 1
    <3>1. k \in Nat \ {0}
      OBVIOUS
    <3> QED BY <3>1, UpToLast, Zenon
  <2>4. (1 .. k) \ {Max(1 .. k)} = 1 .. k - 1
    BY <2>3
  <2>5. f[1 .. k] = MovePart(f[(1 .. k) \ {Max(1 .. k)}], i, j, order[Max(1 .. k)])
    BY <2>2, <2>3
  <2> HIDE DEF Next1, Is
  <2> QED BY <2>3, <2>4, <2>5
<1> DEFINE turn == [k \in 0 .. n |-> f[1 .. k]]
<1>8. turn[0] = hs /\ MoveParts(hs, i, j, order) = turn[n]
  <2>1. turn[0] = f[{}] /\ turn[n] = f[1 .. n]
    <3>1. 1 .. 0 = {}
      OBVIOUS
    <3>2. turn[0] = f[1 .. 0] /\ turn[n] = f[1 .. n]
      OBVIOUS
    <3> HIDE DEF turn
    <3> QED BY <3>1, <3>2
  <2> QED BY <1>5, <1>6, <2>1
<1>9. \A k \in 1 .. n : turn[k] = MovePart(turn[k - 1], i, j, order[k])
  BY <1>7
<1> HIDE DEF turn
<1> QED BY <1>8, <1>9 DEF PartsInTurn

(* The right hosts of a left one, one after the other. *)
RightInTurn(turn, which, vectors, i, last, n) ==
    /\ turn[0] = vectors
    /\ \A k \in 1 .. n : turn[k] = PairsDecanted(which, turn[k - 1], i, PositionsAfter(i, last)[k])

LEMMA RowTurns ==
  ASSUME NEW which, NEW vectors, NEW i, NEW last, NEW n \in Nat,
         DOMAIN PositionsAfter(i, last) = 1 .. n
  PROVE  \E turn : RightInTurn(turn, which, vectors, i, last, n) /\ LeftDecanted(which, vectors, i, last) = turn[n]
<1> DEFINE Next1(f, s) == IF s = {} THEN vectors ELSE PairsDecanted(which, f[s \ {Max(s)}], i, PositionsAfter(i, last)[Max(s)])
           Is(f, m) == f = [s \in SUBSET (1 .. m) |-> Next1(f, s)]
           Good == {m \in 0 .. n : \E f : Is(f, m)}
<1>1. LeftDecanted(which, vectors, i, last) = (CHOOSE f : Is(f, n))[1 .. n]
  BY DEF LeftDecanted, FoldLeft, MapThenFoldSet
<1>2. 0 \in Good
  <2>1. SUBSET (1 .. 0) = {{}}
    OBVIOUS
  <2>2. [s \in {{}} |-> vectors] = [s \in {{}} |-> Next1([r \in {{}} |-> vectors], s)]
    OBVIOUS
  <2>3. Is([s \in {{}} |-> vectors], 0)
    BY <2>1, <2>2
  <2> HIDE DEF Is
  <2> QED BY <2>3
<1>3. ASSUME NEW m \in 1 .. n, m - 1 \in Good PROVE m \in Good
  <2>1. PICK p : Is(p, m - 1)
    BY <1>3
  <2> DEFINE q == [s \in SUBSET (1 .. m) |->
                      IF m \in s THEN PairsDecanted(which, p[s \ {m}], i, PositionsAfter(i, last)[m]) ELSE p[s]]
  <2>2. ASSUME NEW s \in SUBSET (1 .. m) PROVE q[s] = Next1(q, s)
    <3>1. CASE m \in s
      <4>1. Max(s) = m /\ s \ {m} \in SUBSET (1 .. m) /\ m \notin s \ {m}
        BY <3>1, LastPosition
      <4>2. q[s \ {m}] = p[s \ {m}]
        BY <4>1
      <4> QED BY <3>1, <4>1, <4>2
    <3>2. CASE m \notin s
      <4>1. s \in SUBSET (1 .. m - 1)
        BY <3>2, LastPosition
      <4>2. ASSUME NEW x PROVE q[s \ {x}] = p[s \ {x}]
        <5>1. s \ {x} \in SUBSET (1 .. m) /\ m \notin s \ {x}
          BY <3>2
        <5> QED BY <5>1
      <4>3. p[s] = Next1(p, s) /\ q[s] = p[s]
        BY <2>1, <3>2, <4>1
      <4> QED BY <4>2, <4>3
    <3> QED BY <3>1, <3>2
  <2>3. Is(q, m)
    <3>1. q = [s \in SUBSET (1 .. m) |-> q[s]]
      OBVIOUS
    <3> HIDE DEF Next1, q
    <3> QED BY <2>2, <3>1
  <2> HIDE DEF Is, q
  <2> QED BY <2>3
<1>4. n \in Good
  <2> HIDE DEF Good
  <2> QED BY <1>2, <1>3, CountingUp
<1>5. PICK f : Is(f, n) /\ LeftDecanted(which, vectors, i, last) = f[1 .. n]
  <2> HIDE DEF Is
  <2> QED BY <1>1, <1>4
<1>6. f[{}] = vectors
  <2>1. f[{}] = Next1(f, {})
    BY <1>5
  <2> QED BY <2>1
<1>7. ASSUME NEW k \in 1 .. n PROVE f[1 .. k] = PairsDecanted(which, f[1 .. k - 1], i, PositionsAfter(i, last)[k])
  <2>1. 1 .. k \in SUBSET (1 .. n)
    OBVIOUS
  <2>2. f[1 .. k] = Next1(f, 1 .. k)
    BY <1>5, <2>1
  <2>3. 1 .. k # {} /\ Max(1 .. k) = k /\ (1 .. k) \ {k} = 1 .. k - 1
    <3>1. k \in Nat \ {0}
      OBVIOUS
    <3> QED BY <3>1, UpToLast, Zenon
  <2>4. (1 .. k) \ {Max(1 .. k)} = 1 .. k - 1
    BY <2>3
  <2>5. f[1 .. k] = PairsDecanted(which, f[(1 .. k) \ {Max(1 .. k)}], i, PositionsAfter(i, last)[Max(1 .. k)])
    BY <2>2, <2>3
  <2> HIDE DEF Next1, Is
  <2> QED BY <2>3, <2>4, <2>5
<1> DEFINE turn == [k \in 0 .. n |-> f[1 .. k]]
<1>8. turn[0] = vectors /\ LeftDecanted(which, vectors, i, last) = turn[n]
  <2>1. turn[0] = f[{}] /\ turn[n] = f[1 .. n]
    <3>1. 1 .. 0 = {}
      OBVIOUS
    <3>2. turn[0] = f[1 .. 0] /\ turn[n] = f[1 .. n]
      OBVIOUS
    <3> HIDE DEF turn
    <3> QED BY <3>1, <3>2
  <2> QED BY <1>5, <1>6, <2>1
<1>9. \A k \in 1 .. n : turn[k] = PairsDecanted(which, turn[k - 1], i, PositionsAfter(i, last)[k])
  BY <1>7
<1> HIDE DEF turn
<1> QED BY <1>8, <1>9 DEF RightInTurn

(* The left hosts, one after the other. *)
LeftInTurn(turn, which, hs, last, n) ==
    /\ turn[0] = {hs}
    /\ \A k \in 1 .. n : turn[k] = LeftDecanted(which, turn[k - 1], PositionsAfter(0, last)[k], last)

LEMMA RowsTurns ==
  ASSUME NEW which, NEW hs, NEW last, NEW n \in Nat, DOMAIN PositionsAfter(0, last) = 1 .. n
  PROVE  \E turn : LeftInTurn(turn, which, hs, last, n) /\ AllDecanted(which, hs, last) = turn[n]
<1> DEFINE Next1(f, s) == IF s = {} THEN {hs} ELSE LeftDecanted(which, f[s \ {Max(s)}], PositionsAfter(0, last)[Max(s)], last)
           Is(f, m) == f = [s \in SUBSET (1 .. m) |-> Next1(f, s)]
           Good == {m \in 0 .. n : \E f : Is(f, m)}
<1>1. AllDecanted(which, hs, last) = (CHOOSE f : Is(f, n))[1 .. n]
  BY DEF AllDecanted, FoldLeft, MapThenFoldSet
<1>2. 0 \in Good
  <2>1. SUBSET (1 .. 0) = {{}}
    OBVIOUS
  <2>2. [s \in {{}} |-> {hs}] = [s \in {{}} |-> Next1([r \in {{}} |-> {hs}], s)]
    OBVIOUS
  <2>3. Is([s \in {{}} |-> {hs}], 0)
    BY <2>1, <2>2
  <2> HIDE DEF Is
  <2> QED BY <2>3
<1>3. ASSUME NEW m \in 1 .. n, m - 1 \in Good PROVE m \in Good
  <2>1. PICK p : Is(p, m - 1)
    BY <1>3
  <2> DEFINE q == [s \in SUBSET (1 .. m) |->
                      IF m \in s THEN LeftDecanted(which, p[s \ {m}], PositionsAfter(0, last)[m], last) ELSE p[s]]
  <2>2. ASSUME NEW s \in SUBSET (1 .. m) PROVE q[s] = Next1(q, s)
    <3>1. CASE m \in s
      <4>1. Max(s) = m /\ s \ {m} \in SUBSET (1 .. m) /\ m \notin s \ {m}
        BY <3>1, LastPosition
      <4>2. q[s \ {m}] = p[s \ {m}]
        BY <4>1
      <4> QED BY <3>1, <4>1, <4>2
    <3>2. CASE m \notin s
      <4>1. s \in SUBSET (1 .. m - 1)
        BY <3>2, LastPosition
      <4>2. ASSUME NEW x PROVE q[s \ {x}] = p[s \ {x}]
        <5>1. s \ {x} \in SUBSET (1 .. m) /\ m \notin s \ {x}
          BY <3>2
        <5> QED BY <5>1
      <4>3. p[s] = Next1(p, s) /\ q[s] = p[s]
        BY <2>1, <3>2, <4>1
      <4> QED BY <4>2, <4>3
    <3> QED BY <3>1, <3>2
  <2>3. Is(q, m)
    <3>1. q = [s \in SUBSET (1 .. m) |-> q[s]]
      OBVIOUS
    <3> HIDE DEF Next1, q
    <3> QED BY <2>2, <3>1
  <2> HIDE DEF Is, q
  <2> QED BY <2>3
<1>4. n \in Good
  <2> HIDE DEF Good
  <2> QED BY <1>2, <1>3, CountingUp
<1>5. PICK f : Is(f, n) /\ AllDecanted(which, hs, last) = f[1 .. n]
  <2> HIDE DEF Is
  <2> QED BY <1>1, <1>4
<1>6. f[{}] = {hs}
  <2>1. f[{}] = Next1(f, {})
    BY <1>5
  <2> QED BY <2>1
<1>7. ASSUME NEW k \in 1 .. n PROVE f[1 .. k] = LeftDecanted(which, f[1 .. k - 1], PositionsAfter(0, last)[k], last)
  <2>1. 1 .. k \in SUBSET (1 .. n)
    OBVIOUS
  <2>2. f[1 .. k] = Next1(f, 1 .. k)
    BY <1>5, <2>1
  <2>3. 1 .. k # {} /\ Max(1 .. k) = k /\ (1 .. k) \ {k} = 1 .. k - 1
    <3>1. k \in Nat \ {0}
      OBVIOUS
    <3> QED BY <3>1, UpToLast, Zenon
  <2>4. (1 .. k) \ {Max(1 .. k)} = 1 .. k - 1
    BY <2>3
  <2>5. f[1 .. k] = LeftDecanted(which, f[(1 .. k) \ {Max(1 .. k)}], PositionsAfter(0, last)[Max(1 .. k)], last)
    BY <2>2, <2>3
  <2> HIDE DEF Next1, Is
  <2> QED BY <2>3, <2>4, <2>5
<1> DEFINE turn == [k \in 0 .. n |-> f[1 .. k]]
<1>8. turn[0] = {hs} /\ AllDecanted(which, hs, last) = turn[n]
  <2>1. turn[0] = f[{}] /\ turn[n] = f[1 .. n]
    <3>1. 1 .. 0 = {}
      OBVIOUS
    <3>2. turn[0] = f[1 .. 0] /\ turn[n] = f[1 .. n]
      OBVIOUS
    <3> HIDE DEF turn
    <3> QED BY <3>1, <3>2
  <2> QED BY <1>5, <1>6, <2>1
<1>9. \A k \in 1 .. n : turn[k] = LeftDecanted(which, turn[k - 1], PositionsAfter(0, last)[k], last)
  BY <1>7
<1> HIDE DEF turn
<1> QED BY <1>8, <1>9 DEF LeftInTurn

(* The guests of a part that fits, one after the other.                    *)
OneByOne(turn, hs, i, j, part) ==
    /\ turn[{}] = hs
    /\ \A s \in SUBSET part : s # {} => \E g \in s : turn[s] = Moved(turn[s \ {g}], i, j, g)

LEMMA GuestsTurns ==
  ASSUME NEW hs, NEW i, NEW j, NEW part, IsFiniteSet(part), AccommodatesGuests(hs[i], part)
  PROVE  \E turn : OneByOne(turn, hs, i, j, part) /\ MovePart(hs, i, j, part) = turn[part]
<1> DEFINE Taken(s) == CHOOSE x \in s : TRUE
           Next1(f, s) == IF s = {} THEN hs ELSE Moved(f[s \ {Taken(s)}], i, j, Taken(s))
           Level(k) == {s \in SUBSET part : Cardinality(s) <= k}
           Is(f, D) == f = [s \in D |-> Next1(f, s)]
<1>1. MovePart(hs, i, j, part) = (CHOOSE f : Is(f, SUBSET part))[part]
  BY DEF MovePart, FoldSet, MapThenFoldSet
<1>2. PICK n \in Nat : n = Cardinality(part)
  BY FS_CardinalityType
<1> DEFINE Good == {k \in 0 .. n : \E f : Is(f, Level(k))}
<1>3. ASSUME NEW s \in SUBSET part
      PROVE  /\ IsFiniteSet(s) /\ Cardinality(s) \in Nat /\ Cardinality(s) <= n
             /\ Cardinality(s) = 0 => s = {}
  BY <1>2, FS_Subset, FS_CardinalityType, FS_EmptySet
<1>4. ASSUME NEW s \in SUBSET part, s # {}
      PROVE  /\ Taken(s) \in s /\ s \ {Taken(s)} \in SUBSET part
             /\ Cardinality(s \ {Taken(s)}) = Cardinality(s) - 1
  <2>1. Taken(s) \in s
    BY <1>4
  <2> HIDE DEF Taken
  <2> QED BY <1>3, <1>4, <2>1, FS_RemoveElement
<1> HIDE DEF Taken
<1>5. 0 \in Good
  <2>1. ASSUME NEW s \in Level(0) PROVE s = {}
    <3>1. s \in SUBSET part /\ Cardinality(s) <= 0
      OBVIOUS
    <3>2. Cardinality(s) \in Nat /\ (Cardinality(s) = 0 => s = {})
      BY <1>3, <3>1
    <3> QED BY <3>1, <3>2
  <2>2. Is([s \in Level(0) |-> hs], Level(0))
    <3>1. [s \in Level(0) |-> hs] = [s \in Level(0) |-> Next1([r \in Level(0) |-> hs], s)]
      BY <2>1
    <3> QED BY <3>1
  <2> HIDE DEF Is, Level
  <2> QED BY <2>2
<1>6. ASSUME NEW k \in 1 .. n, k - 1 \in Good PROVE k \in Good
  <2>1. PICK p : Is(p, Level(k - 1))
    BY <1>6
  <2> DEFINE q == [s \in Level(k) |-> IF Cardinality(s) = k THEN Next1(p, s) ELSE p[s]]
  <2>2. ASSUME NEW s \in Level(k) PROVE q[s] = Next1(q, s)
    <3>1. s \in SUBSET part /\ Cardinality(s) \in Nat /\ Cardinality(s) <= k
      BY <1>3
    <3>2. s # {} => /\ s \ {Taken(s)} \in Level(k - 1) /\ s \ {Taken(s)} \in Level(k)
                    /\ Cardinality(s \ {Taken(s)}) # k
      <4>1. s # {} => /\ s \ {Taken(s)} \in SUBSET part
                      /\ Cardinality(s \ {Taken(s)}) = Cardinality(s) - 1
        BY <1>4, <3>1
      <4>2. s # {} => /\ Cardinality(s \ {Taken(s)}) <= k - 1
                      /\ Cardinality(s \ {Taken(s)}) <= k
                      /\ Cardinality(s \ {Taken(s)}) # k
        BY <3>1, <4>1
      <4> QED BY <4>1, <4>2
    <3>3. s # {} => q[s \ {Taken(s)}] = p[s \ {Taken(s)}]
      BY <3>2
    <3>4. Cardinality(s) # k => p[s] = Next1(p, s)
      <4>1. Cardinality(s) # k => s \in Level(k - 1)
        BY <3>1
      <4> QED BY <2>1, <4>1
    <3>5. q[s] = Next1(p, s)
      BY <3>4
    <3> HIDE DEF q
    <3> QED BY <3>3, <3>5
  <2>3. Is(q, Level(k))
    <3>1. q = [s \in Level(k) |-> q[s]]
      OBVIOUS
    <3> HIDE DEF Next1, q, Level
    <3> QED BY <2>2, <3>1
  <2> HIDE DEF Is, q, Level
  <2> QED BY <2>3
<1>7. n \in Good
  <2> HIDE DEF Good
  <2> QED BY <1>5, <1>6, CountingUp
<1>8. PICK f : Is(f, SUBSET part) /\ MovePart(hs, i, j, part) = f[part]
  <2>1. Level(n) = SUBSET part
    <3>1. \A s \in SUBSET part : Cardinality(s) <= n
      BY <1>3
    <3> QED BY <3>1
  <2>2. \E f : Is(f, SUBSET part)
    BY <1>7, <2>1
  <2> HIDE DEF Is
  <2> QED BY <1>1, <2>2
<1>9. \A s \in SUBSET part : f[s] = Next1(f, s)
  BY <1>8
<1>10. f[{}] = hs
  BY <1>9
<1>11. \A s \in SUBSET part : s # {} => \E g \in s : f[s] = Moved(f[s \ {g}], i, j, g)
  BY <1>4, <1>9
<1> QED BY <1>8, <1>10, <1>11 DEF OneByOne

(* Hosts that are true to their maps are known by their guests.            *)
LEMMA KnownByGuests ==
  ASSUME NEW hs, TrueHosts(hs), NEW new, TrueHosts(new), DOMAIN hs = DOMAIN new,
         \A k \in DOMAIN hs : hs[k].guests = new[k].guests
  PROVE  hs = new
<1>1. ASSUME NEW k \in DOMAIN hs PROVE hs[k] = new[k]
  <2>1. /\ IsHost(hs[k]) /\ FrequenciesMatch(hs[k])
        /\ IsHost(new[k]) /\ FrequenciesMatch(new[k])
        /\ hs[k].guests = new[k].guests
    BY <1>1 DEF TrueHosts
  <2>2. PICK f : f = hs[k].pageFrequencies
    OBVIOUS
  <2>3. PICK h : h = new[k].pageFrequencies
    OBVIOUS
  <2>4. /\ DOMAIN f = PagesOf(hs[k].guests) /\ DOMAIN h = PagesOf(hs[k].guests)
        /\ f \in [DOMAIN f -> Int] /\ h \in [DOMAIN h -> Int]
    BY <2>1, <2>2, <2>3 DEF IsHost, FrequenciesMatch
  <2>5. \A p \in PagesOf(hs[k].guests) : f[p] = h[p]
    BY <2>1, <2>2, <2>3 DEF FrequenciesMatch, Holders
  <2>6. f = h
    BY <2>4, <2>5
  <2> QED BY <2>1, <2>2, <2>3, <2>6 DEF IsHost
<1>2. hs = [k \in DOMAIN hs |-> hs[k]] /\ new = [k \in DOMAIN hs |-> new[k]]
  <2>1. hs \in Seq(HostSet) /\ new \in Seq(HostSet)
    BY DEF TrueHosts
  <2> QED BY <2>1
<1> QED BY <1>1, <1>2

(* A part that fits goes to the left host as a whole, whatever the order   *)
(* of its guests.                                                          *)
GuestsMoved(hs, new, i, j, S) ==
    /\ DOMAIN new = DOMAIN hs
    /\ \A k \in DOMAIN hs :
          new[k].guests = IF k = i THEN hs[k].guests \cup S
                          ELSE IF k = j THEN hs[k].guests \ S ELSE hs[k].guests

LEMMA MovePartTrue ==
  ASSUME NEW hs, TrueHosts(hs), NoGuestTwice(hs),
         NEW i \in DOMAIN hs, NEW j \in DOMAIN hs, i # j,
         NEW part \in SUBSET hs[j].guests, AccommodatesGuests(hs[i], part),
         NEW new, new = MovePart(hs, i, j, part)
  PROVE  TrueHosts(new) /\ GuestsMoved(hs, new, i, j, part)
<1>1. IsFiniteSet(part)
  <2>1. part \in SUBSET Guest
    BY TrueHostsHave
  <2> QED BY <2>1, GuestFinite
<1>2. PICK turn : OneByOne(turn, hs, i, j, part) /\ new = turn[part]
  BY <1>1, GuestsTurns
<1> DEFINE Right(s) == /\ TrueHosts(turn[s]) /\ NoGuestTwice(turn[s])
                       /\ GuestsMoved(hs, turn[s], i, j, s)
<1>3. PICK n \in Nat : n = Cardinality(part)
  BY <1>1, FS_CardinalityType
<1> DEFINE Good == {k \in 0 .. n : \A s \in SUBSET part : Cardinality(s) = k => Right(s)}
<1>4. ASSUME NEW s \in SUBSET part PROVE IsFiniteSet(s)
  BY <1>1, FS_Subset
<1>5. 0 \in Good
  <2>1. ASSUME NEW s \in SUBSET part, Cardinality(s) = 0 PROVE s = {}
    BY <1>4, <2>1, FS_EmptySet
  <2>2. GuestsMoved(hs, hs, i, j, {})
    BY DEF GuestsMoved
  <2>3. Right({})
    BY <1>2, <2>2 DEF OneByOne
  <2> HIDE DEF Right
  <2> QED BY <2>1, <2>3
<1>6. ASSUME NEW k \in 1 .. n, k - 1 \in Good PROVE k \in Good
  <2> SUFFICES ASSUME NEW s \in SUBSET part, Cardinality(s) = k PROVE Right(s)
    OBVIOUS
  <2>1. s # {}
    BY FS_EmptySet
  <2>2. PICK g \in s : turn[s] = Moved(turn[s \ {g}], i, j, g)
    BY <1>2, <2>1 DEF OneByOne
  <2>3. Cardinality(s \ {g}) = k - 1 /\ s \ {g} \in SUBSET part
    BY <1>4, FS_RemoveElement
  <2>4. PICK before : before = turn[s \ {g}]
    OBVIOUS
  <2>5. Right(s \ {g})
    <3> HIDE DEF Right
    <3> QED BY <1>6, <2>3
  <2>6. /\ TrueHosts(before) /\ NoGuestTwice(before)
        /\ GuestsMoved(hs, before, i, j, s \ {g})
    BY <2>4, <2>5
  <2>7. /\ i \in DOMAIN before /\ j \in DOMAIN before /\ g \in before[j].guests
        /\ DOMAIN before = DOMAIN hs
    BY <2>6 DEF GuestsMoved
  <2>8. PICK after : after = turn[s] /\ after = TakeOff(PlaceOn(before, i, g), j, g)
    BY <2>2, <2>4 DEF Moved
  <2>9. /\ TrueHosts(after) /\ NoGuestTwice(after) /\ DOMAIN after = DOMAIN before
        /\ after[i].guests = before[i].guests \cup {g}
        /\ after[j].guests = before[j].guests \ {g}
        /\ \A l \in DOMAIN before : l # i /\ l # j => after[l] = before[l]
    BY <2>6, <2>7, <2>8, MoveTrue
  <2>10. GuestsMoved(hs, after, i, j, s)
    BY <2>6, <2>7, <2>9 DEF GuestsMoved
  <2> QED BY <2>8, <2>9, <2>10
<1>7. n \in Good
  <2> HIDE DEF Good
  <2> QED BY <1>5, <1>6, CountingUp
<1>8. Right(part)
  <2> HIDE DEF Right
  <2> QED BY <1>3, <1>7
<1> QED BY <1>2, <1>8

(* The vectors a pass over s may have when the left host of the pair is at *)
(* l and all right hosts up to r have been tried (or none, if r = l).      *)
IsWalk(at, p, s) ==
    /\ at[<<1, 1>>] = {s}
    /\ \A l, r \in 1 .. Len(s) : l < r => at[<<l, r>>] = PairsDecanted(p, at[<<l, r - 1>>], l, r)
    /\ \A l \in 1 .. Len(s) : at[<<l + 1, l + 1>>] = at[<<l, Len(s)>>]

LEMMA WalkExists ==
  ASSUME NEW p, NEW s, Len(s) \in Nat
  PROVE  \E at : IsWalk(at, p, s) /\ AllDecanted(p, s, Len(s)) = at[<<Len(s) + 1, Len(s) + 1>>]
<1>1. PICK n \in Nat : n = Len(s)
  OBVIOUS
<1>2. ASSUME NEW l \in 0 .. n
      PROVE  /\ n - l \in Nat /\ DOMAIN PositionsAfter(l, n) = 1 .. n - l
             /\ \A k \in 1 .. n - l : PositionsAfter(l, n)[k] = l + k
  BY DEF PositionsAfter
<1>3. PICK rows : /\ rows[0] = {s} /\ AllDecanted(p, s, n) = rows[n]
                  /\ \A l \in 1 .. n : rows[l] = LeftDecanted(p, rows[l - 1], l, n)
  <2>1. DOMAIN PositionsAfter(0, n) = 1 .. n /\ \A l \in 1 .. n : PositionsAfter(0, n)[l] = l
    BY <1>2
  <2>2. PICK rows : LeftInTurn(rows, p, s, n, n) /\ AllDecanted(p, s, n) = rows[n]
    BY <2>1, RowsTurns
  <2>3. ASSUME NEW l \in 1 .. n PROVE rows[l] = LeftDecanted(p, rows[l - 1], l, n)
    <3>1. PositionsAfter(0, n)[l] = l
      BY <2>1
    <3>2. rows[l] = LeftDecanted(p, rows[l - 1], PositionsAfter(0, n)[l], n)
      BY <2>2 DEF LeftInTurn
    <3> QED BY <3>1, <3>2
  <2> QED BY <2>2, <2>3 DEF LeftInTurn
<1> DEFINE IsRow(row, l) == /\ row[0] = rows[l - 1] /\ row[n - l] = rows[l]
                            /\ \A k \in 1 .. n - l : row[k] = PairsDecanted(p, row[k - 1], l, l + k)
           Row(l) == CHOOSE row : IsRow(row, l)
<1>4. ASSUME NEW l \in 1 .. n PROVE IsRow(Row(l), l)
  <2>1. /\ n - l \in Nat /\ DOMAIN PositionsAfter(l, n) = 1 .. n - l
        /\ \A k \in 1 .. n - l : PositionsAfter(l, n)[k] = l + k
    BY <1>2
  <2>2. PICK vectors : vectors = rows[l - 1]
    OBVIOUS
  <2>3. PICK row : /\ RightInTurn(row, p, vectors, l, n, n - l)
                   /\ LeftDecanted(p, vectors, l, n) = row[n - l]
    BY <2>1, RowTurns
  <2>4. IsRow(row, l)
    <3>1. row[0] = rows[l - 1] /\ row[n - l] = rows[l]
      BY <1>3, <2>2, <2>3 DEF RightInTurn
    <3>2. ASSUME NEW k \in 1 .. n - l PROVE row[k] = PairsDecanted(p, row[k - 1], l, l + k)
      <4>1. PositionsAfter(l, n)[k] = l + k
        BY <2>1
      <4>2. row[k] = PairsDecanted(p, row[k - 1], l, PositionsAfter(l, n)[k])
        BY <2>3 DEF RightInTurn
      <4> QED BY <4>1, <4>2
    <3> QED BY <3>1, <3>2
  <2>5. \E row_1 : IsRow(row_1, l)
    BY <2>4
  <2> HIDE DEF IsRow
  <2> QED BY <2>5
<1> HIDE DEF Row
<1> DEFINE at == [x \in (1 .. n + 1) \X (1 .. n + 1) |->
                     IF x[1] = n + 1 THEN rows[n] ELSE Row(x[1])[x[2] - x[1]]]
<1>5. ASSUME NEW l \in 1 .. n, NEW r \in l .. n PROVE at[<<l, r>>] = Row(l)[r - l]
  OBVIOUS
<1>6. at[<<n + 1, n + 1>>] = rows[n]
  OBVIOUS
<1>7. ASSUME NEW l \in 1 .. n + 1 PROVE at[<<l, l>>] = rows[l - 1]
  <2>1. CASE l = n + 1
    BY <1>6, <2>1
  <2>2. CASE l \in 1 .. n
    <3>1. at[<<l, l>>] = Row(l)[l - l] /\ l - l = 0
      BY <1>5, <2>2
    <3> QED BY <1>4, <2>2, <3>1
  <2> QED BY <2>1, <2>2
<1> HIDE DEF at
<1>8. at[<<1, 1>>] = {s}
  <2>1. at[<<1, 1>>] = rows[1 - 1]
    BY <1>7
  <2> QED BY <1>3, <2>1
<1>9. ASSUME NEW l \in 1 .. n, NEW r \in 1 .. n, l < r
      PROVE  at[<<l, r>>] = PairsDecanted(p, at[<<l, r - 1>>], l, r)
  <2>1. PICK k : k = r - l
    OBVIOUS
  <2>2. k \in 1 .. n - l /\ l + k = r /\ k - 1 = (r - 1) - l
    BY <1>9, <2>1
  <2>3. at[<<l, r>>] = Row(l)[k] /\ at[<<l, r - 1>>] = Row(l)[k - 1]
    <3>1. r \in l .. n /\ r - 1 \in l .. n
      BY <1>9
    <3> QED BY <1>5, <2>1, <2>2, <3>1
  <2> QED BY <1>4, <2>2, <2>3
<1>10. ASSUME NEW l \in 1 .. n PROVE at[<<l + 1, l + 1>>] = at[<<l, n>>]
  <2>1. at[<<l + 1, l + 1>>] = rows[l]
    <3>1. l + 1 \in 1 .. n + 1 /\ (l + 1) - 1 = l
      OBVIOUS
    <3> QED BY <1>7, <3>1
  <2>2. at[<<l, n>>] = Row(l)[n - l]
    <3>1. n \in l .. n
      OBVIOUS
    <3> QED BY <1>5, <3>1
  <2> QED BY <1>4, <2>1, <2>2
<1>11. IsWalk(at, p, s)
  BY <1>1, <1>8, <1>9, <1>10 DEF IsWalk
<1> QED BY <1>1, <1>3, <1>6, <1>11
=============================================================================
