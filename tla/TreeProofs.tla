----------------------------- MODULE TreeProofs ------------------------------
(***************************************************************************)
(* Theorems about the tree solver, for every set of pages, every capacity  *)
(* and trees of any size.                                                  *)
(***************************************************************************)
EXTENDS TreeSolver, PackingLemmas

(* Guests given to hosts that exist already. *)

LEMMA PlacedIsPlaced ==
  ASSUME NEW hs, TrueHosts(hs), NoGuestTwice(hs), NEW packer,
         NEW g \in Guest, g \notin PlacedGuests(hs), NEW new, new = Placed(packer, hs, g)
  PROVE  /\ TrueHosts(new) /\ NoGuestTwice(new)
         /\ PlacedGuests(new) = PlacedGuests(hs) \cup {g}
         /\ BadHosts(hs) = {} /\ Cardinality(g.pages) <= Capacity => BadHosts(new) = {}
<1>1. HostsFor(packer, hs, g) \subseteq Accommodating(hs, g)
  BY DEF HostsFor, MostEfficient, Qualifying
<1>2. DOMAIN hs = 1 .. Len(hs) /\ Len(hs) \in Nat
  BY LenProperties DEF TrueHosts
<1>3. CASE HostsFor(packer, hs, g) = {}
  <2>1. new = OpenHostFor(hs, g)
    BY <1>3 DEF Placed
  <2>2. /\ TrueHosts(new) /\ NoGuestTwice(new)
        /\ PlacedGuests(new) = PlacedGuests(hs) \cup {g}
        /\ DOMAIN new = 1 .. Len(hs) + 1
        /\ \A j \in 1 .. Len(hs) : new[j] = hs[j]
        /\ new[Len(hs) + 1].guests = {g}
    BY <2>1, OpenHostForTrue
  <2>3. Cardinality(g.pages) <= Capacity => ~IsOverfull(new[Len(hs) + 1])
    BY <2>1, OpenHostForNotOverfull
  <2>4. ASSUME BadHosts(hs) = {}, Cardinality(g.pages) <= Capacity, NEW j \in DOMAIN new
        PROVE  new[j].guests # {} /\ ~IsOverfull(new[j])
    <3>1. CASE j = Len(hs) + 1
      BY <2>2, <2>3, <2>4, <3>1
    <3>2. CASE j # Len(hs) + 1
      <4>1. j \in DOMAIN hs /\ new[j] = hs[j]
        BY <1>2, <2>2, <3>2
      <4> QED BY <2>4, <4>1 DEF BadHosts
    <3> QED BY <3>1, <3>2
  <2> QED BY <2>2, <2>4 DEF BadHosts
<1>4. CASE HostsFor(packer, hs, g) # {}
  <2>1. PICK i : i = Min(HostsFor(packer, hs, g))
    OBVIOUS
  <2>2. HostsFor(packer, hs, g) \in SUBSET Nat
    BY <1>1, <1>2 DEF Accommodating
  <2>3. i \in Accommodating(hs, g)
    BY <1>1, <1>4, <2>1, <2>2, MinOfNaturals
  <2>4. new = PlaceOn(hs, i, g) /\ i \in DOMAIN hs
    BY <1>4, <2>1, <2>3 DEF Placed, Accommodating
  <2>5. /\ TrueHosts(new) /\ NoGuestTwice(new)
        /\ PlacedGuests(new) = PlacedGuests(hs) \cup {g}
        /\ DOMAIN new = DOMAIN hs
        /\ \A j \in DOMAIN hs : j # i => new[j] = hs[j]
        /\ new[i].guests = hs[i].guests \cup {g}
    BY <2>4, PlaceOnTrue
  <2>6. ~IsOverfull(new[i])
    BY <2>3, <2>4, PlaceOnNotOverfull
  <2>7. BadHosts(hs) = {} => BadHosts(new) = {}
    BY <2>5, <2>6 DEF BadHosts
  <2> QED BY <2>5, <2>7
<1> QED BY <1>3, <1>4

(* The turns of a packer: what it has after the first k guests.            *)
LEMMA PackerTurns ==
  ASSUME NEW n \in Nat, NEW gs, DOMAIN gs = 1 .. n, NEW packer, NEW hs
  PROVE  \E turn : /\ turn[0] = hs /\ ProceedBy(packer, hs, gs) = turn[n]
                   /\ \A k \in 1 .. n : turn[k] = Placed(packer, turn[k - 1], gs[k])
<1> DEFINE Next1(f, s) == IF s = {} THEN hs ELSE Placed(packer, f[s \ {Max(s)}], gs[Max(s)])
           Is(f, m) == f = [s \in SUBSET (1 .. m) |-> Next1(f, s)]
           Good == {m \in 0 .. n : \E f : Is(f, m)}
<1>1. ProceedBy(packer, hs, gs) = (CHOOSE f : Is(f, n))[1 .. n]
  BY DEF ProceedBy, FoldLeft, MapThenFoldSet
<1>2. \A m \in 1 .. n : \A s \in SUBSET (1 .. m) : m \in s => Max(s) = m
  <2> SUFFICES ASSUME NEW m \in 1 .. n, NEW s \in SUBSET (1 .. m), m \in s PROVE Max(s) = m
    OBVIOUS
  <2>1. \A y \in s : m >= y
    OBVIOUS
  <2>2. \A x \in s : (\A y \in s : x >= y) => x = m
    BY <2>1
  <2> QED BY <2>1, <2>2 DEF Max
<1>3. 0 \in Good
  <2>1. SUBSET (1 .. 0) = {{}}
    OBVIOUS
  <2>2. [s \in {{}} |-> hs] = [s \in {{}} |-> Next1([r \in {{}} |-> hs], s)]
    OBVIOUS
  <2>3. Is([s \in {{}} |-> hs], 0)
    BY <2>1, <2>2
  <2>4. \E f : Is(f, 0)
    BY <2>3
  <2> HIDE DEF Is
  <2> QED BY <2>4
<1>4. ASSUME NEW m \in 1 .. n, m - 1 \in Good PROVE m \in Good
  <2>1. PICK p : Is(p, m - 1)
    BY <1>4
  <2> DEFINE q == [s \in SUBSET (1 .. m) |->
                      IF m \in s THEN Placed(packer, p[s \ {m}], gs[m]) ELSE p[s]]
  <2>2. ASSUME NEW s \in SUBSET (1 .. m) PROVE q[s] = Next1(q, s)
    <3>1. CASE m \in s
      <4>1. s \ {m} \in SUBSET (1 .. m - 1) /\ s \ {m} \in SUBSET (1 .. m)
        OBVIOUS
      <4>2. q[s \ {m}] = p[s \ {m}]
        BY <4>1
      <4> QED BY <1>2, <3>1, <4>2
    <3>2. CASE m \notin s
      <4>0. \A y \in s : y \in 1 .. m - 1
        BY <3>2
      <4>1. s \in SUBSET (1 .. m - 1) /\ \A x : s \ {x} \in SUBSET (1 .. m) /\ m \notin s \ {x}
        BY <3>2, <4>0
      <4>2. \A x : q[s \ {x}] = p[s \ {x}]
        BY <4>1
      <4>3. p[s] = Next1(p, s) /\ q[s] = p[s]
        BY <2>1, <3>2, <4>1
      <4> QED BY <4>2, <4>3
    <3> QED BY <3>1, <3>2
  <2>3. Is(q, m)
    <3>1. q = [s \in SUBSET (1 .. m) |-> q[s]]
      OBVIOUS
    <3> HIDE DEF Next1, q
    <3> QED BY <2>2, <3>1
  <2> HIDE DEF Is, q
  <2> QED BY <2>3
<1>5. n \in Good
  <2> HIDE DEF Good
  <2> QED BY <1>3, <1>4, CountingUp
<1>6. PICK f : Is(f, n) /\ ProceedBy(packer, hs, gs) = f[1 .. n]
  <2> HIDE DEF Is
  <2> QED BY <1>1, <1>5
<1> DEFINE turn == [k \in 0 .. n |-> f[1 .. k]]
<1>7. turn[0] = hs /\ ProceedBy(packer, hs, gs) = turn[n]
  <2>1. 1 .. 0 = {} /\ {} \in SUBSET (1 .. n)
    OBVIOUS
  <2>2. f[{}] = Next1(f, {})
    BY <1>6, <2>1
  <2>3. turn[0] = f[{}] /\ turn[n] = f[1 .. n]
    BY <2>1
  <2> QED BY <1>6, <2>2, <2>3
<1>8. ASSUME NEW k \in 1 .. n PROVE turn[k] = Placed(packer, turn[k - 1], gs[k])
  <2>1. 1 .. k \in SUBSET (1 .. n) /\ 1 .. k # {} /\ (1 .. k) \ {k} = 1 .. k - 1
    OBVIOUS
  <2>2. Max(1 .. k) = k
    BY <1>2
  <2>3. f[1 .. k] = Next1(f, 1 .. k)
    BY <1>6, <2>1
  <2>4. turn[k] = f[1 .. k] /\ turn[k - 1] = f[1 .. k - 1]
    OBVIOUS
  <2> QED BY <2>1, <2>2, <2>3, <2>4
<1> QED BY <1>7, <1>8

(* All guests of a set, in some order, go to hosts.                        *)
LEMMA ProceedByPlaces ==
  ASSUME NEW hs, TrueHosts(hs), NoGuestTwice(hs), NEW packer,
         NEW S \in SUBSET Guest, S \cap PlacedGuests(hs) = {}, NEW gs \in SetToSeqs(S),
         NEW new, new = ProceedBy(packer, hs, gs)
  PROVE  /\ TrueHosts(new) /\ NoGuestTwice(new)
         /\ PlacedGuests(new) = PlacedGuests(hs) \cup S
         /\ BadHosts(hs) = {} /\ (\A g \in S : Cardinality(g.pages) <= Capacity)
               => BadHosts(new) = {}
<1>1. gs \in Seq(S) /\ NoneTwice(gs) /\ GuestsOf(gs) = S
  BY GuestFinite, OrdersOfSet
<1>2. PICK n \in Nat : n = Len(gs) /\ DOMAIN gs = 1 .. n
  BY <1>1, LenProperties
<1>3. PICK turn : /\ turn[0] = hs /\ new = turn[n]
                  /\ \A k \in 1 .. n : turn[k] = Placed(packer, turn[k - 1], gs[k])
  BY <1>2, PackerTurns
<1> DEFINE Fitting == BadHosts(hs) = {} /\ \A g \in S : Cardinality(g.pages) <= Capacity
           Right(k) == /\ TrueHosts(turn[k]) /\ NoGuestTwice(turn[k])
                       /\ PlacedGuests(turn[k]) = PlacedGuests(hs) \cup {gs[i] : i \in 1 .. k}
                       /\ Fitting => BadHosts(turn[k]) = {}
           Good == {k \in 0 .. n : Right(k)}
<1>4. 0 \in Good
  BY <1>3
<1>5. ASSUME NEW k \in 1 .. n, k - 1 \in Good PROVE k \in Good
  <2>1. gs[k] \in S /\ gs[k] \in Guest
    BY <1>1, <1>2
  <2>2. gs[k] \notin PlacedGuests(turn[k - 1])
    <3>1. \A i \in 1 .. k - 1 : gs[i] # gs[k]
      BY <1>1, <1>2 DEF NoneTwice
    <3> QED BY <1>5, <2>1, <3>1
  <2>3. /\ TrueHosts(turn[k]) /\ NoGuestTwice(turn[k])
        /\ PlacedGuests(turn[k]) = PlacedGuests(turn[k - 1]) \cup {gs[k]}
        /\ BadHosts(turn[k - 1]) = {} /\ Cardinality(gs[k].pages) <= Capacity => BadHosts(turn[k]) = {}
    BY <1>3, <1>5, <2>1, <2>2, PlacedIsPlaced
  <2>4. {gs[i] : i \in 1 .. k} = {gs[i] : i \in 1 .. k - 1} \cup {gs[k]}
    <3>1. 1 .. k = (1 .. k - 1) \cup {k}
      OBVIOUS
    <3> QED BY <3>1
  <2>5. PlacedGuests(turn[k]) = PlacedGuests(hs) \cup {gs[i] : i \in 1 .. k}
    BY <1>5, <2>3, <2>4
  <2> QED BY <1>5, <2>1, <2>3, <2>5
<1>6. n \in Good
  <2> HIDE DEF Good
  <2> QED BY <1>4, <1>5, CountingUp
<1>7. {gs[i] : i \in 1 .. n} = S
  BY <1>1, <1>2 DEF GuestsOf
<1> QED BY <1>3, <1>6, <1>7

-----------------------------------------------------------------------------
(* Sums over the elements of a set.                                        *)

(* A sum is made by taking one element after the other.                    *)
Sums(sum, f, S) ==
    /\ sum[{}] = 0 /\ SumFunctionOnSet(f, S) = sum[S]
    /\ \A s \in SUBSET S : s # {} => \E x \in s : sum[s] = f[x] + sum[s \ {x}]

LEMMA SumTurns ==
  ASSUME NEW S, IsFiniteSet(S), NEW f
  PROVE  \E sum : Sums(sum, f, S)
<1> DEFINE Taken(s) == CHOOSE x \in s : TRUE
           Next1(g, s) == IF s = {} THEN 0 ELSE f[Taken(s)] + g[s \ {Taken(s)}]
           Level(k) == {s \in SUBSET S : Cardinality(s) <= k}
           Is(g, D) == g = [s \in D |-> Next1(g, s)]
<1>1. SumFunctionOnSet(f, S) = (CHOOSE g : Is(g, SUBSET S))[S]
  BY DEF SumFunctionOnSet, FoldFunctionOnSet, MapThenFoldSet
<1>2. PICK n \in Nat : n = Cardinality(S)
  BY FS_CardinalityType
<1> DEFINE Good == {k \in 0 .. n : \E g : Is(g, Level(k))}
<1>3. ASSUME NEW s \in SUBSET S
      PROVE  /\ IsFiniteSet(s) /\ Cardinality(s) \in Nat /\ Cardinality(s) <= n
             /\ Cardinality(s) = 0 => s = {}
  BY <1>2, FS_Subset, FS_CardinalityType, FS_EmptySet
<1>4. ASSUME NEW s \in SUBSET S, s # {}
      PROVE  /\ Taken(s) \in s /\ s \ {Taken(s)} \in SUBSET S
             /\ Cardinality(s \ {Taken(s)}) = Cardinality(s) - 1
  <2>1. Taken(s) \in s
    BY <1>4
  <2> HIDE DEF Taken
  <2> QED BY <1>3, <1>4, <2>1, FS_RemoveElement
<1> HIDE DEF Taken
<1>5. 0 \in Good
  <2>1. ASSUME NEW s \in Level(0) PROVE s = {}
    <3>1. s \in SUBSET S /\ Cardinality(s) <= 0
      OBVIOUS
    <3>2. Cardinality(s) \in Nat /\ (Cardinality(s) = 0 => s = {})
      BY <1>3, <3>1
    <3> QED BY <3>1, <3>2
  <2>2. Is([s \in Level(0) |-> 0], Level(0))
    <3>1. [s \in Level(0) |-> 0] = [s \in Level(0) |-> Next1([r \in Level(0) |-> 0], s)]
      BY <2>1
    <3> QED BY <3>1
  <2> HIDE DEF Is, Level
  <2> QED BY <2>2
<1>6. ASSUME NEW k \in 1 .. n, k - 1 \in Good PROVE k \in Good
  <2>1. PICK p : Is(p, Level(k - 1))
    BY <1>6
  <2> DEFINE q == [s \in Level(k) |-> IF Cardinality(s) = k THEN Next1(p, s) ELSE p[s]]
  <2>2. ASSUME NEW s \in Level(k) PROVE q[s] = Next1(q, s)
    <3>1. s \in SUBSET S /\ Cardinality(s) \in Nat /\ Cardinality(s) <= k
      BY <1>3
    <3>2. s # {} => /\ s \ {Taken(s)} \in Level(k - 1) /\ s \ {Taken(s)} \in Level(k)
                    /\ Cardinality(s \ {Taken(s)}) # k
      <4>1. s # {} => /\ s \ {Taken(s)} \in SUBSET S
                      /\ Cardinality(s \ {Taken(s)}) = Cardinality(s) - 1
        BY <1>4, <3>1
      <4>2. s # {} => /\ Cardinality(s \ {Taken(s)}) <= k - 1
                      /\ Cardinality(s \ {Taken(s)}) <= k
                      /\ Cardinality(s \ {Taken(s)}) # k
        BY <3>1, <4>1
      <4> QED BY <4>1, <4>2
    <3>3. s # {} => q[s \ {Taken(s)}] = p[s \ {Taken(s)}]
      BY <3>2
    <3>4. Cardinality(s) # k => p[s] = Next1(p, s)
      <4>1. Cardinality(s) # k => s \in Level(k - 1)
        BY <3>1
      <4> QED BY <2>1, <4>1
    <3>5. q[s] = Next1(p, s)
      BY <3>4
    <3> HIDE DEF q
    <3> QED BY <3>3, <3>5
  <2>3. Is(q, Level(k))
    <3>1. q = [s \in Level(k) |-> q[s]]
      OBVIOUS
    <3> HIDE DEF Next1, q, Level
    <3> QED BY <2>2, <3>1
  <2> HIDE DEF Is, q, Level
  <2> QED BY <2>3
<1>7. n \in Good
  <2> HIDE DEF Good
  <2> QED BY <1>5, <1>6, CountingUp
<1>8. PICK g : Is(g, SUBSET S) /\ SumFunctionOnSet(f, S) = g[S]
  <2>1. Level(n) = SUBSET S
    <3>1. \A s \in SUBSET S : Cardinality(s) <= n
      BY <1>3
    <3> QED BY <3>1
  <2>2. \E g : Is(g, SUBSET S)
    BY <1>7, <2>1
  <2> HIDE DEF Is
  <2> QED BY <1>1, <2>2
<1>9. \A s \in SUBSET S : g[s] = Next1(g, s)
  BY <1>8
<1>10. g[{}] = 0
  BY <1>9
<1>11. \A s \in SUBSET S : s # {} => \E x \in s : g[s] = f[x] + g[s \ {x}]
  BY <1>4, <1>9
<1> QED BY <1>8, <1>10, <1>11 DEF Sums


(* A sum of natural numbers is one, and none of them is greater.           *)
LEMMA SumOfNaturals ==
  ASSUME NEW S, IsFiniteSet(S), NEW f, \A x \in S : f[x] \in Nat
  PROVE  /\ SumFunctionOnSet(f, S) \in Nat
         /\ \A x \in S : f[x] <= SumFunctionOnSet(f, S)
<1>0. PICK sum : Sums(sum, f, S)
  BY SumTurns
<1>1. /\ sum[{}] = 0 /\ SumFunctionOnSet(f, S) = sum[S]
      /\ \A s \in SUBSET S : s # {} => \E x \in s : sum[s] = f[x] + sum[s \ {x}]
  BY <1>0 DEF Sums
<1>2. PICK n \in Nat : n = Cardinality(S)
  BY FS_CardinalityType
<1> DEFINE Right(s) == sum[s] \in Nat /\ \A x \in s : f[x] <= sum[s]
           Good == {k \in 0 .. n : \A s \in SUBSET S : Cardinality(s) = k => Right(s)}
<1>3. 0 \in Good
  <2>1. ASSUME NEW s \in SUBSET S, Cardinality(s) = 0 PROVE Right(s)
    <3>1. s = {}
      BY <2>1, FS_Subset, FS_EmptySet
    <3> QED BY <1>1, <3>1
  <2> QED BY <2>1
<1>4. ASSUME NEW k \in 1 .. n, k - 1 \in Good PROVE k \in Good
  <2> SUFFICES ASSUME NEW s \in SUBSET S, Cardinality(s) = k PROVE Right(s)
    OBVIOUS
  <2>1. IsFiniteSet(s) /\ s # {}
    BY FS_Subset, FS_EmptySet
  <2>2. PICK y \in s : sum[s] = f[y] + sum[s \ {y}]
    BY <1>1, <2>1
  <2>3. s \ {y} \in SUBSET S /\ Cardinality(s \ {y}) = k - 1
    BY <2>1, FS_RemoveElement
  <2>4. Right(s \ {y})
    BY <1>4, <2>3
  <2>5. f[y] \in Nat /\ \A x \in s : x = y \/ x \in s \ {y}
    OBVIOUS
  <2>6. \A x \in s : f[x] \in Nat
    OBVIOUS
  <2> QED BY <2>2, <2>4, <2>5, <2>6
<1>5. n \in Good
  <2> HIDE DEF Good
  <2> QED BY <1>3, <1>4, CountingUp
<1> QED BY <1>1, <1>2, <1>5

(* A sum of equal numbers is a product.                                    *)
LEMMA SumOfEqual ==
  ASSUME NEW S, IsFiniteSet(S), NEW k \in Nat, NEW f, \A x \in S : f[x] = k
  PROVE  SumFunctionOnSet(f, S) = k * Cardinality(S)
<1>0. PICK sum : Sums(sum, f, S)
  BY SumTurns
<1>1. /\ sum[{}] = 0 /\ SumFunctionOnSet(f, S) = sum[S]
      /\ \A s \in SUBSET S : s # {} => \E x \in s : sum[s] = f[x] + sum[s \ {x}]
  BY <1>0 DEF Sums
<1>2. PICK n \in Nat : n = Cardinality(S)
  BY FS_CardinalityType
<1> DEFINE Good == {j \in 0 .. n : \A s \in SUBSET S : Cardinality(s) = j => sum[s] = k * j}
<1>3. 0 \in Good
  <2>1. ASSUME NEW s \in SUBSET S, Cardinality(s) = 0 PROVE sum[s] = k * 0
    <3>1. s = {}
      BY <2>1, FS_Subset, FS_EmptySet
    <3> QED BY <1>1, <3>1
  <2> QED BY <2>1
<1>4. ASSUME NEW j \in 1 .. n, j - 1 \in Good PROVE j \in Good
  <2> SUFFICES ASSUME NEW s \in SUBSET S, Cardinality(s) = j PROVE sum[s] = k * j
    OBVIOUS
  <2>1. IsFiniteSet(s) /\ s # {}
    BY FS_Subset, FS_EmptySet
  <2>2. PICK y \in s : sum[s] = f[y] + sum[s \ {y}]
    BY <1>1, <2>1
  <2>3. s \ {y} \in SUBSET S /\ Cardinality(s \ {y}) = j - 1
    BY <2>1, FS_RemoveElement
  <2>4. sum[s \ {y}] = k * (j - 1)
    BY <1>4, <2>3
  <2>5. k * j = k + k * (j - 1)
    OBVIOUS
  <2> QED BY <2>2, <2>4, <2>5
<1>5. n \in Good
  <2> HIDE DEF Good
  <2> QED BY <1>3, <1>4, CountingUp
<1> QED BY <1>1, <1>2, <1>5

(* The union of sets has no more elements than the numbers given for each  *)
(* of them add up to, if none has more; and no fewer, if none has fewer    *)
(* and no two have an element in common.                                   *)
AllOf(A, S) == UNION {A[x] : x \in S}

LEMMA SumOfSizes ==
  ASSUME NEW S, IsFiniteSet(S), NEW f, \A x \in S : f[x] \in Nat,
         NEW A, \A x \in S : IsFiniteSet(A[x])
  PROVE  /\ IsFiniteSet(AllOf(A, S))
         /\ (\A x \in S : Cardinality(A[x]) <= f[x])
               => Cardinality(AllOf(A, S)) <= SumFunctionOnSet(f, S)
         /\ (\A x \in S : f[x] <= Cardinality(A[x])) /\ (\A x, y \in S : x # y => A[x] \cap A[y] = {})
               => SumFunctionOnSet(f, S) <= Cardinality(AllOf(A, S))
<1>0. PICK sum : Sums(sum, f, S)
  BY SumTurns
<1>1. /\ sum[{}] = 0 /\ SumFunctionOnSet(f, S) = sum[S]
      /\ \A s \in SUBSET S : s # {} => \E x \in s : sum[s] = f[x] + sum[s \ {x}]
  BY <1>0 DEF Sums
<1>2. PICK n \in Nat : n = Cardinality(S)
  BY FS_CardinalityType
<1> DEFINE All(s) == AllOf(A, s)
           AtMost == \A x \in S : Cardinality(A[x]) <= f[x]
           AtLeast == /\ \A x \in S : f[x] <= Cardinality(A[x])
                      /\ \A x, y \in S : x # y => A[x] \cap A[y] = {}
           Right(s) == /\ IsFiniteSet(All(s)) /\ sum[s] \in Nat
                       /\ AtMost => Cardinality(All(s)) <= sum[s]
                       /\ AtLeast => sum[s] <= Cardinality(All(s))
           Good == {k \in 0 .. n : \A s \in SUBSET S : Cardinality(s) = k => Right(s)}
<1>3. 0 \in Good
  <2>1. ASSUME NEW s \in SUBSET S, Cardinality(s) = 0 PROVE Right(s)
    <3>1. s = {}
      BY <2>1, FS_Subset, FS_EmptySet
    <3>2. All(s) = {}
      BY <3>1 DEF AllOf
    <3> HIDE DEF AtMost, AtLeast, All
    <3>3. IsFiniteSet(All(s)) /\ Cardinality(All(s)) = 0 /\ sum[s] = 0
      BY <1>1, <3>1, <3>2, FS_EmptySet
    <3> QED BY <3>3
  <2> HIDE DEF Right
  <2> QED BY <2>1
<1>4. ASSUME NEW k \in 1 .. n, k - 1 \in Good PROVE k \in Good
  <2> SUFFICES ASSUME NEW s \in SUBSET S, Cardinality(s) = k PROVE Right(s)
    <3> HIDE DEF Right
    <3> QED OBVIOUS
  <2>1. IsFiniteSet(s) /\ s # {}
    BY FS_Subset, FS_EmptySet
  <2>2. PICK y \in s : sum[s] = f[y] + sum[s \ {y}]
    BY <1>1, <2>1
  <2>3. s \ {y} \in SUBSET S /\ Cardinality(s \ {y}) = k - 1
    BY <2>1, FS_RemoveElement
  <2>4. Right(s \ {y})
    <3> HIDE DEF Right
    <3> QED BY <1>4, <2>3
  <2>5. All(s) = A[y] \cup All(s \ {y})
    BY DEF AllOf
  <2>6. /\ y \in S /\ IsFiniteSet(A[y]) /\ f[y] \in Nat
        /\ AtMost => Cardinality(A[y]) <= f[y]
    OBVIOUS
  <2>7. AtLeast => f[y] <= Cardinality(A[y]) /\ A[y] \cap All(s \ {y}) = {}
    BY DEF AllOf
  <2> HIDE DEF All, AtMost, AtLeast
  <2>8. PICK B : B = All(s \ {y})
    OBVIOUS
  <2>9. /\ IsFiniteSet(A[y] \cup B) /\ IsFiniteSet(A[y] \cap B) /\ IsFiniteSet(B)
        /\ Cardinality(A[y] \cup B) = Cardinality(A[y]) + Cardinality(B) - Cardinality(A[y] \cap B)
    BY <2>4, <2>6, <2>8, FS_Union, FS_Subset
  <2>10. /\ Cardinality(A[y] \cap B) \in Nat /\ Cardinality(A[y]) \in Nat /\ Cardinality(B) \in Nat
         /\ A[y] \cap B = {} => Cardinality(A[y] \cap B) = 0
    BY <2>6, <2>9, FS_CardinalityType, FS_EmptySet
  <2> QED BY <2>2, <2>4, <2>5, <2>6, <2>7, <2>8, <2>9, <2>10
<1>5. n \in Good
  <2> HIDE DEF Good
  <2> QED BY <1>3, <1>4, CountingUp
<1>6. Right(S)
  BY <1>2, <1>5
<1> QED BY <1>1, <1>6

-----------------------------------------------------------------------------
(* Paths in a tree. *)

NodeSet == [parent : Nat, children : SUBSET Nat, pages : SUBSET Page, guests : SUBSET Guest]

(* A tree with ids below N: parents come before their children, and know   *)
(* them.                                                                   *)
Rooted(t, N) ==
    /\ t \in [DOMAIN t -> NodeSet]
    /\ DOMAIN t \subseteq 0 .. N - 1
    /\ Root \in DOMAIN t /\ t[Root].parent = Root
    /\ \A n \in DOMAIN t :
          /\ t[n].parent \in DOMAIN t
          /\ n # Root => t[n].parent < n
          /\ t[n].children = {c \in DOMAIN t \ {Root} : t[c].parent = n}

(* As parents have smaller ids, paths are defined.                         *)
LEMMA PathUnfolds ==
  ASSUME NEW t, NEW N \in Nat, Rooted(t, N)
  PROVE  \A n \in DOMAIN t : Path(t, n) = {n} \cup (IF n = Root THEN {} ELSE Path(t, t[n].parent))
<1> DEFINE Next1(f, n) == {n} \cup (IF n = Root THEN {} ELSE f[t[n].parent])
           Below(m) == {n \in DOMAIN t : n < m}
           Is(f, D) == f = [n \in D |-> Next1(f, n)]
           Good == {m \in 0 .. N : \E f : Is(f, Below(m))}
<1>1. \A n : Path(t, n) = (CHOOSE f : Is(f, DOMAIN t))[n]
  BY DEF Path
<1>2. DOMAIN t \subseteq Nat /\ \A n \in DOMAIN t : n # Root => t[n].parent \in DOMAIN t /\ t[n].parent < n
  BY DEF Rooted
<1>3. 0 \in Good
  <2>1. Below(0) = {}
    BY <1>2
  <2>2. [n \in {} |-> {}] = [n \in {} |-> Next1([k \in {} |-> {}], n)]
    OBVIOUS
  <2>3. \E f : Is(f, Below(0))
    BY <2>1, <2>2
  <2> HIDE DEF Is, Below
  <2> QED BY <2>3
<1>4. ASSUME NEW m \in 1 .. N, m - 1 \in Good PROVE m \in Good
  <2>1. PICK p : Is(p, Below(m - 1))
    BY <1>4
  <2> DEFINE q == [n \in Below(m) |-> IF n = m - 1 THEN Next1(p, n) ELSE p[n]]
  <2>2. ASSUME NEW n \in Below(m) PROVE q[n] = Next1(q, n)
    <3>1. n \in DOMAIN t /\ n < m /\ n \in Nat
      BY <1>2
    <3>2. n # Root => t[n].parent \in Below(m - 1) /\ t[n].parent \in Below(m) /\ t[n].parent # m - 1
      BY <1>2, <3>1
    <3>3. n # Root => q[t[n].parent] = p[t[n].parent]
      BY <3>2
    <3>4. n # m - 1 => p[n] = Next1(p, n)
      <4>1. n # m - 1 => n \in Below(m - 1)
        BY <3>1
      <4> QED BY <2>1, <4>1
    <3>5. q[n] = Next1(p, n)
      BY <3>4
    <3> HIDE DEF q
    <3> QED BY <3>3, <3>5
  <2>3. Is(q, Below(m))
    <3>1. q = [n \in Below(m) |-> q[n]]
      OBVIOUS
    <3> HIDE DEF Next1, q, Below
    <3> QED BY <2>2, <3>1
  <2> HIDE DEF Is, q, Below
  <2> QED BY <2>3
<1>5. N \in Good
  <2> HIDE DEF Good
  <2> QED BY <1>3, <1>4, CountingUp
<1>6. Below(N) = DOMAIN t
  <2>1. \A n \in DOMAIN t : n < N
    BY DEF Rooted
  <2> QED BY <2>1
<1>7. PICK f : Is(f, DOMAIN t) /\ \A n : Path(t, n) = f[n]
  <2>1. \E f : Is(f, DOMAIN t)
    BY <1>5, <1>6
  <2> HIDE DEF Is
  <2> QED BY <1>1, <2>1
<1>8. \A n \in DOMAIN t : f[n] = Next1(f, n)
  BY <1>7
<1> QED BY <1>7, <1>8

(* The path of a node starts at the root, takes in those of the nodes on   *)
(* it, and goes up in ids.                                                 *)
LEMMA PathFacts ==
  ASSUME NEW t, NEW N \in Nat, Rooted(t, N)
  PROVE  /\ IsFiniteSet(DOMAIN t) /\ Path(t, Root) = {Root}
         /\ \A n \in DOMAIN t :
               /\ n \in Path(t, n) /\ Root \in Path(t, n)
               /\ Path(t, n) \subseteq DOMAIN t /\ IsFiniteSet(Path(t, n))
               /\ \A m \in Path(t, n) : m <= n /\ Path(t, m) \subseteq Path(t, n)
               /\ n # Root => /\ t[n].parent \in DOMAIN t
                              /\ Path(t, n) = {n} \cup Path(t, t[n].parent)
                              /\ n \notin Path(t, t[n].parent)
<1>1. /\ DOMAIN t \subseteq Nat /\ Root \in DOMAIN t
      /\ \A n \in DOMAIN t : n # Root => t[n].parent \in DOMAIN t /\ t[n].parent < n
  BY DEF Rooted
<1>2. /\ Path(t, Root) = {Root}
      /\ \A n \in DOMAIN t : n # Root => Path(t, n) = {n} \cup Path(t, t[n].parent)
  BY <1>1, PathUnfolds
<1> DEFINE Right(n) == /\ n \in Path(t, n) /\ Root \in Path(t, n) /\ Path(t, n) \subseteq DOMAIN t
                       /\ \A m \in Path(t, n) : m <= n /\ Path(t, m) \subseteq Path(t, n)
           S == {n \in Nat : n \in DOMAIN t => Right(n)}
<1>3. ASSUME NEW n \in Nat, \A m \in Nat : m < n => m \in S PROVE n \in S
  <2> SUFFICES ASSUME n \in DOMAIN t PROVE Right(n)
    OBVIOUS
  <2>1. CASE n = Root
    BY <1>1, <1>2, <2>1 DEF Root
  <2>2. CASE n # Root
    <3>1. PICK p : p = t[n].parent
      OBVIOUS
    <3>2. p \in DOMAIN t /\ p \in Nat /\ p < n /\ Path(t, n) = {n} \cup Path(t, p)
      BY <1>1, <1>2, <2>2, <3>1
    <3>3. Right(p)
      BY <1>3, <3>2
    <3>4. \A m \in Path(t, p) : m \in Nat /\ m <= n
      BY <1>1, <3>2, <3>3
    <3> QED BY <3>2, <3>3, <3>4
  <2> QED BY <2>1, <2>2
<1>4. \A n \in DOMAIN t : Right(n)
  <2>1. Nat \subseteq S
    <3> HIDE DEF S
    <3> QED BY <1>3, SmallerFirst
  <2> QED BY <1>1, <2>1
<1>5. IsFiniteSet(DOMAIN t)
  <2>1. IsFiniteSet(0 .. N - 1)
    BY FS_Interval
  <2> QED BY <2>1, FS_Subset DEF Rooted
<1>6. \A n \in DOMAIN t : IsFiniteSet(Path(t, n))
  BY <1>4, <1>5, FS_Subset
<1>7. ASSUME NEW n \in DOMAIN t, n # Root PROVE n \notin Path(t, t[n].parent)
  <2>1. t[n].parent \in DOMAIN t /\ t[n].parent < n /\ t[n].parent \in Nat /\ n \in Nat
    BY <1>1, <1>7
  <2> QED BY <1>4, <2>1
<1> HIDE DEF S
<1> QED BY <1>1, <1>2, <1>4, <1>5, <1>6, <1>7

(* Of two nodes on a path, one is on the path of the other.                *)
LEMMA PathsAreChains ==
  ASSUME NEW t, NEW N \in Nat, Rooted(t, N)
  PROVE  \A n \in DOMAIN t : \A k, m \in Path(t, n) : k \in Path(t, m) \/ m \in Path(t, k)
<1> DEFINE Chain(n) == \A k, m \in Path(t, n) : k \in Path(t, m) \/ m \in Path(t, k)
           S == {n \in Nat : n \in DOMAIN t => Chain(n)}
<1>1. DOMAIN t \subseteq Nat /\ \A n \in DOMAIN t : n # Root => t[n].parent < n
  BY DEF Rooted
<1>2. /\ Path(t, Root) = {Root}
      /\ \A n \in DOMAIN t : n # Root => /\ t[n].parent \in DOMAIN t
                                         /\ Path(t, n) = {n} \cup Path(t, t[n].parent)
  BY PathFacts
<1>3. ASSUME NEW n \in Nat, \A m \in Nat : m < n => m \in S PROVE n \in S
  <2> SUFFICES ASSUME n \in DOMAIN t PROVE Chain(n)
    OBVIOUS
  <2>1. CASE n = Root
    BY <1>2, <2>1
  <2>2. CASE n # Root
    <3>1. PICK p : p = t[n].parent
      OBVIOUS
    <3>2. p \in DOMAIN t /\ p \in Nat /\ p < n /\ Path(t, n) = {n} \cup Path(t, p)
      BY <1>1, <1>2, <2>2, <3>1
    <3>3. Chain(p)
      BY <1>3, <3>2
    <3> QED BY <3>2, <3>3
  <2> QED BY <2>1, <2>2
<1>4. Nat \subseteq S
  <2> HIDE DEF S
  <2> QED BY <1>3, SmallerFirst
<1> QED BY <1>1, <1>4

(* A node below n is n, or below one of its children.                      *)
LEMMA SubtreeOfChildren ==
  ASSUME NEW t, NEW N \in Nat, Rooted(t, N), NEW n \in DOMAIN t
  PROVE  /\ Subtree(t, n) = {n} \cup UNION {Subtree(t, c) : c \in t[n].children}
         /\ \A c \in t[n].children : c \in DOMAIN t /\ c # Root /\ t[c].parent = n /\ n < c
<1>1. \A c \in t[n].children : c \in DOMAIN t /\ c # Root /\ t[c].parent = n /\ n < c
  BY DEF Rooted
<1>2. ASSUME NEW c \in t[n].children PROVE Subtree(t, c) \subseteq Subtree(t, n)
  <2>1. n \in Path(t, c)
    BY <1>1, PathFacts
  <2> QED BY <2>1, PathFacts DEF Subtree
<1>3. n \in Subtree(t, n)
  BY PathFacts DEF Subtree
<1> DEFINE Below(m) == m = n \/ \E c \in t[n].children : m \in Subtree(t, c)
           S == {m \in Nat : m \in Subtree(t, n) => Below(m)}
<1>4. ASSUME NEW m \in Nat, \A k \in Nat : k < m => k \in S PROVE m \in S
  <2> SUFFICES ASSUME m \in DOMAIN t, n \in Path(t, m), m # n PROVE Below(m)
    BY DEF Subtree
  <2>1. m # Root
    BY PathFacts
  <2>2. PICK p : p = t[m].parent
    OBVIOUS
  <2>3. /\ p \in DOMAIN t /\ p \in Nat /\ p < m
        /\ Path(t, m) = {m} \cup Path(t, p)
    BY <2>1, <2>2, PathFacts DEF Rooted
  <2>4. p \in Subtree(t, n)
    BY <2>3 DEF Subtree
  <2>5. Below(p)
    BY <1>4, <2>3, <2>4
  <2>6. CASE p = n
    <3>1. m \in t[n].children
      <4>1. t[n].children = {c \in DOMAIN t \ {Root} : t[c].parent = n}
        BY DEF Rooted
      <4> QED BY <2>1, <2>2, <2>6, <4>1
    <3> QED BY <3>1, PathFacts DEF Subtree
  <2>7. CASE \E c \in t[n].children : p \in Subtree(t, c)
    BY <2>3, <2>7 DEF Subtree
  <2> QED BY <2>5, <2>6, <2>7
<1>5. \A m \in Subtree(t, n) : Below(m)
  <2>1. Nat \subseteq S
    <3> HIDE DEF S
    <3> QED BY <1>4, SmallerFirst
  <2>2. Subtree(t, n) \subseteq Nat
    BY DEF Subtree, Rooted
  <2> QED BY <2>1, <2>2
<1> QED BY <1>1, <1>2, <1>3, <1>5

(* Paths depend on the parents only, and on those above the node.          *)
LEMMA SamePaths ==
  ASSUME NEW t, NEW N \in Nat, Rooted(t, N), NEW u, NEW M \in Nat, Rooted(u, M),
         DOMAIN u \subseteq DOMAIN t, \A n \in DOMAIN u : u[n].parent = t[n].parent
  PROVE  \A n \in DOMAIN u : Path(u, n) = Path(t, n)
<1>1. /\ Path(u, Root) = Path(t, Root)
      /\ \A n \in DOMAIN u : n # Root => /\ u[n].parent \in DOMAIN u
                                         /\ Path(u, n) = {n} \cup Path(u, u[n].parent)
                                         /\ Path(t, n) = {n} \cup Path(t, u[n].parent)
  BY PathFacts
<1> DEFINE S == {n \in Nat : n \in DOMAIN u => Path(u, n) = Path(t, n)}
<1>2. DOMAIN u \subseteq Nat /\ \A n \in DOMAIN u : n # Root => u[n].parent < n
  BY DEF Rooted
<1>3. ASSUME NEW n \in Nat, \A m \in Nat : m < n => m \in S PROVE n \in S
  <2> SUFFICES ASSUME n \in DOMAIN u, n # Root PROVE Path(u, n) = Path(t, n)
    BY <1>1
  <2>1. PICK p : p = u[n].parent
    OBVIOUS
  <2>2. p \in DOMAIN u /\ p \in Nat /\ p < n
    BY <1>1, <1>2, <2>1
  <2>3. Path(u, p) = Path(t, p)
    BY <1>3, <2>2
  <2> QED BY <1>1, <2>1, <2>3
<1>4. Nat \subseteq S
  <2> HIDE DEF S
  <2> QED BY <1>3, SmallerFirst
<1> QED BY <1>2, <1>4

-----------------------------------------------------------------------------
(* What changes a tree. *)

(* The tree has a new node N below p, with these pages. *)
GrownBy(new, t, N, p, pages) ==
    /\ DOMAIN new = DOMAIN t \cup {N} /\ N \notin DOMAIN t /\ p \in DOMAIN t
    /\ new[N].pages = pages /\ Path(new, N) = {N} \cup Path(t, p)
    /\ \A n \in DOMAIN t : new[n].pages = t[n].pages /\ Path(new, n) = Path(t, n)

LEMMA AddNodeRooted ==
  ASSUME NEW N \in Nat \ {0}, NEW t, Rooted(t, N), DOMAIN t = 0 .. N - 1,
         NEW p \in DOMAIN t, NEW pages \in SUBSET Page, NEW new, new = AddNode(t, p, pages)
  PROVE  /\ Cardinality(DOMAIN t) = N /\ Cardinality(DOMAIN new) = N + 1 /\ DOMAIN new = 0 .. N
         /\ Rooted(new, N + 1) /\ GrownBy(new, t, N, p, pages)
<1>1. Cardinality(0 .. N - 1) = N /\ Cardinality(0 .. N) = N + 1
  BY FS_Interval
<1>2. 0 .. N = (0 .. N - 1) \cup {N}
  OBVIOUS
<1>3. /\ DOMAIN new = DOMAIN t \cup {N}
      /\ \A n \in DOMAIN t : /\ new[n].parent = t[n].parent /\ new[n].pages = t[n].pages
                             /\ new[n].guests = t[n].guests
                             /\ new[n].children = IF n = p THEN t[n].children \cup {N} ELSE t[n].children
                             /\ new[n] \in NodeSet
      /\ new[N].parent = p /\ new[N].pages = pages /\ new[N].children = {}
      /\ new[N] \in NodeSet
  <2>1. new = [n \in DOMAIN t \cup {N} |->
                 IF n = N THEN Node(p, pages)
                 ELSE IF n = p THEN [t[n] EXCEPT !.children = @ \cup {N}] ELSE t[n]]
    BY <1>1 DEF AddNode
  <2>2. N \notin DOMAIN t
    OBVIOUS
  <2>3. Node(p, pages) \in NodeSet /\ \A n \in DOMAIN t : t[n] \in NodeSet
    <3>1. p \in Nat
      OBVIOUS
    <3> QED BY <3>1 DEF Node, NodeSet, Rooted
  <2>4. DOMAIN new = DOMAIN t \cup {N} /\ new[N] = Node(p, pages)
    BY <2>1
  <2>6. new[N].parent = p /\ new[N].pages = pages /\ new[N].children = {}
    BY <2>4 DEF Node
  <2>5. ASSUME NEW n \in DOMAIN t
        PROVE  /\ new[n].parent = t[n].parent /\ new[n].pages = t[n].pages
               /\ new[n].guests = t[n].guests
               /\ new[n].children = IF n = p THEN t[n].children \cup {N} ELSE t[n].children
               /\ new[n] \in NodeSet
    <3>1. new[n] = IF n = p THEN [t[n] EXCEPT !.children = @ \cup {N}] ELSE t[n]
      BY <2>1, <2>2
    <3> QED BY <2>3, <3>1 DEF NodeSet
  <2> QED BY <2>3, <2>4, <2>5, <2>6
<1>4. Rooted(new, N + 1)
  <2>1. new \in [DOMAIN new -> NodeSet]
    <3>1. \A n \in DOMAIN new : new[n] \in NodeSet
      BY <1>3
    <3>2. new = [n \in DOMAIN new |-> new[n]]
      BY DEF AddNode
    <3> QED BY <3>1, <3>2
  <2>2. ASSUME NEW n \in DOMAIN new
        PROVE  /\ new[n].parent \in DOMAIN new
               /\ n # Root => new[n].parent < n
               /\ new[n].children = {c \in DOMAIN new \ {Root} : new[c].parent = n}
    <3>1. CASE n = N
      <4>0. N \notin DOMAIN t /\ \A c \in DOMAIN t : t[c].parent \in DOMAIN t
        BY DEF Rooted
      <4>1. ASSUME NEW c \in DOMAIN new PROVE new[c].parent # N
        <5>1. CASE c = N
          <6>1. new[c].parent = p
            BY <1>3, <5>1
          <6> QED BY <4>0, <6>1
        <5>2. CASE c # N
          <6>1. c \in DOMAIN t
            BY <1>3, <5>2
          <6>2. new[c].parent = t[c].parent
            BY <1>3, <6>1
          <6> QED BY <4>0, <6>1, <6>2
        <5> QED BY <5>1, <5>2
      <4>2. {c \in DOMAIN new \ {Root} : new[c].parent = N} = {}
        BY <4>1
      <4> QED BY <1>3, <3>1, <4>2
    <3>2. CASE n # N
      <4>1. n \in DOMAIN t
        BY <1>3, <3>2
      <4>2. t[n].children = {c \in DOMAIN t \ {Root} : t[c].parent = n}
        BY <4>1 DEF Rooted
      <4>3. N # Root
        BY DEF Root
      <4>4. {c \in DOMAIN new \ {Root} : new[c].parent = n} =
              {c \in DOMAIN t \ {Root} : t[c].parent = n} \cup (IF n = p THEN {N} ELSE {})
        <5>1. \A c : c \in DOMAIN new \ {Root} <=> c \in DOMAIN t \ {Root} \/ c = N
          BY <1>3, <4>3
        <5>2. \A c \in DOMAIN t : new[c].parent = t[c].parent
          BY <1>3
        <5>3. new[N].parent = p
          BY <1>3
        <5> QED BY <5>1, <5>2, <5>3
      <4> QED BY <1>3, <4>1, <4>2, <4>4 DEF Rooted
    <3> QED BY <3>1, <3>2
  <2>3. Root \in DOMAIN new /\ new[Root].parent = Root
    <3>1. Root \in DOMAIN t /\ t[Root].parent = Root
      BY DEF Rooted
    <3> QED BY <1>3, <3>1
  <2>4. DOMAIN new \subseteq 0 .. (N + 1) - 1
    BY <1>2, <1>3
  <2> QED BY <2>1, <2>2, <2>3, <2>4 DEF Rooted
<1>5. \A n \in DOMAIN t : Path(new, n) = Path(t, n)
  <2>1. N \in Nat /\ N + 1 \in Nat
    OBVIOUS
  <2>2. DOMAIN t \subseteq DOMAIN new
    BY <1>3
  <2>3. \A n \in DOMAIN t : t[n].parent = new[n].parent
    BY <1>3
  <2> QED BY <1>4, <2>1, <2>2, <2>3, SamePaths
<1>6. Path(new, N) = {N} \cup Path(new, p)
  <2>1. N + 1 \in Nat /\ N \in DOMAIN new /\ N # Root
    BY <1>3 DEF Root
  <2> QED BY <1>3, <1>4, <2>1, PathFacts
<1>7. N \notin DOMAIN t
  OBVIOUS
<1>8. Path(new, N) = {N} \cup Path(t, p)
  BY <1>5, <1>6
<1>9. new[N].pages = pages /\ \A n \in DOMAIN t : new[n].pages = t[n].pages
  BY <1>3
<1>10. DOMAIN new = DOMAIN t \cup {N} /\ DOMAIN new = 0 .. N
  BY <1>2, <1>3
<1>11. GrownBy(new, t, N, p, pages)
  BY <1>5, <1>7, <1>8, <1>9, <1>10 DEF GrownBy
<1> QED BY <1>1, <1>4, <1>10, <1>11

LEMMA BuildRooted ==
  ASSUME NEW N \in Nat, NEW t, Rooted(t, N), NEW leaves, leaves \in [DOMAIN leaves -> Guest],
         NEW new, new = Build(t, leaves)
  PROVE  /\ Rooted(new, N) /\ DOMAIN new = DOMAIN t
         /\ \A n \in DOMAIN t : /\ new[n].parent = t[n].parent /\ new[n].pages = t[n].pages
                                /\ Path(new, n) = Path(t, n) /\ Subtree(new, n) = Subtree(t, n)
                                /\ new[n].guests = {leaves[l] : l \in DOMAIN leaves \cap Subtree(t, n)}
<1>1. \A n \in DOMAIN t : t[n] \in NodeSet
  BY DEF Rooted
<1>2. DOMAIN new = DOMAIN t /\ new = [n \in DOMAIN t |-> new[n]]
  BY DEF Build
<1>3. ASSUME NEW n \in DOMAIN t
      PROVE  /\ new[n].parent = t[n].parent /\ new[n].pages = t[n].pages
             /\ new[n].children = t[n].children /\ new[n] \in NodeSet
             /\ new[n].guests = {leaves[l] : l \in DOMAIN leaves \cap Subtree(t, n)}
  <2>1. new[n] = [t[n] EXCEPT !.guests = {leaves[l] : l \in DOMAIN leaves \cap Subtree(t, n)}]
    BY DEF Build
  <2>2. {leaves[l] : l \in DOMAIN leaves \cap Subtree(t, n)} \in SUBSET Guest
    OBVIOUS
  <2> QED BY <1>1, <2>1, <2>2 DEF NodeSet
<1>4. Rooted(new, N)
  <2>1. new \in [DOMAIN new -> NodeSet]
    BY <1>2, <1>3
  <2>2. ASSUME NEW n \in DOMAIN t
        PROVE  new[n].children = {c \in DOMAIN new \ {Root} : new[c].parent = n}
    <3>1. t[n].children = {c \in DOMAIN t \ {Root} : t[c].parent = n}
      BY DEF Rooted
    <3>2. {c \in DOMAIN new \ {Root} : new[c].parent = n} = {c \in DOMAIN t \ {Root} : t[c].parent = n}
      BY <1>2, <1>3
    <3> QED BY <1>3, <3>1, <3>2
  <2> QED BY <1>2, <1>3, <2>1, <2>2 DEF Rooted
<1>5. \A n \in DOMAIN t : Path(new, n) = Path(t, n)
  BY <1>2, <1>3, <1>4, SamePaths
<1>6. \A n \in DOMAIN t : Subtree(new, n) = Subtree(t, n)
  BY <1>2, <1>5 DEF Subtree
<1> QED BY <1>2, <1>3, <1>4, <1>5, <1>6

LEMMA EraseRooted ==
  ASSUME NEW N \in Nat, NEW t, Rooted(t, N), NEW nid \in DOMAIN t, nid # Root,
         NEW new, new = EraseSubtree(t, nid)
  PROVE  /\ Rooted(new, N) /\ DOMAIN new = DOMAIN t \ Subtree(t, nid)
         /\ \A n \in DOMAIN new : /\ new[n].parent = t[n].parent /\ new[n].pages = t[n].pages
                                  /\ new[n].guests = t[n].guests \ t[nid].guests
                                  /\ Subtree(new, n) = Subtree(t, n) \ Subtree(t, nid)
<1> DEFINE gone == Subtree(t, nid)
<1>1. /\ DOMAIN new = DOMAIN t \ gone /\ new = [n \in DOMAIN t \ gone |-> new[n]]
  BY DEF EraseSubtree
<1>2. nid \in gone /\ Root \notin gone
  BY PathFacts DEF Subtree
<1>3. ASSUME NEW n \in DOMAIN t, n # Root PROVE n \in gone <=> n = nid \/ t[n].parent \in gone
  BY <1>3, PathFacts DEF Subtree
<1>4. ASSUME NEW n \in DOMAIN t \ gone
      PROVE  /\ new[n].parent = t[n].parent /\ new[n].pages = t[n].pages
             /\ new[n].guests = t[n].guests \ t[nid].guests
             /\ new[n].children = t[n].children \ {nid}
             /\ new[n] \in NodeSet
  <2>1. new[n] = [t[n] EXCEPT !.guests = @ \ t[nid].guests, !.children = @ \ {nid}]
    BY DEF EraseSubtree
  <2>2. t[n] \in NodeSet
    BY DEF Rooted
  <2> QED BY <2>1, <2>2 DEF NodeSet
<1> HIDE DEF gone
<1>5. Rooted(new, N)
  <2>1. new \in [DOMAIN new -> NodeSet]
    BY <1>1, <1>4
  <2>2. ASSUME NEW n \in DOMAIN new
        PROVE  /\ new[n].parent \in DOMAIN new
               /\ n # Root => new[n].parent < n
               /\ new[n].children = {c \in DOMAIN new \ {Root} : new[c].parent = n}
    <3>1. n \in DOMAIN t \ gone /\ t[n].parent \in DOMAIN t /\ (n # Root => t[n].parent < n)
      BY <1>1 DEF Rooted
    <3>2. n = Root => t[n].parent = Root
      BY DEF Rooted, Root
    <3>3. new[n].parent \in DOMAIN new
      BY <1>1, <1>2, <1>3, <1>4, <3>1, <3>2
    <3>4. t[n].children = {c \in DOMAIN t \ {Root} : t[c].parent = n}
      BY <3>1 DEF Rooted
    <3>5. \A c \in DOMAIN t \ {Root} : t[c].parent = n => (c \in gone <=> c = nid)
      BY <1>3, <3>1
    <3>6. {c \in DOMAIN new \ {Root} : new[c].parent = n} = t[n].children \ {nid}
      <4>1. \A c \in DOMAIN t \ gone : new[c].parent = t[c].parent
        BY <1>4
      <4> QED BY <1>1, <1>2, <3>4, <3>5, <4>1
    <3> QED BY <1>4, <3>1, <3>3, <3>6
  <2>3. DOMAIN new \subseteq 0 .. N - 1 /\ Root \in DOMAIN new /\ new[Root].parent = Root
    BY <1>1, <1>2, <1>4 DEF Rooted
  <2> QED BY <2>1, <2>2, <2>3 DEF Rooted
<1>6. \A n \in DOMAIN new : Path(new, n) = Path(t, n)
  BY <1>1, <1>4, <1>5, SamePaths
<1>7. \A n \in DOMAIN new : Subtree(new, n) = Subtree(t, n) \ gone
  BY <1>1, <1>6 DEF Subtree
<1> QED BY <1>1, <1>4, <1>5, <1>7 DEF gone

-----------------------------------------------------------------------------
(* The inductive invariant. *)

Count == Cardinality(DOMAIN tree)

(* The same nodes as t has, but for those that are erased, with the same   *)
(* parents and pages.                                                      *)
PartOf(u, t) ==
    /\ DOMAIN u \subseteq DOMAIN t
    /\ \A n \in DOMAIN u : u[n].parent = t[n].parent /\ u[n].pages = t[n].pages

PagesOnPath(t, n) == UNION {t[m].pages : m \in Path(t, n)}

AncestorPages(t, n) == UNION {t[m].pages : m \in Path(t, n) \ {n}}

(* On the way from the root no page comes twice, and all fit a guest.      *)
Spread(t) ==
    \A n \in DOMAIN t :
        /\ \A m \in Path(t, n) \ {n} : t[m].pages \cap t[n].pages = {}
        /\ Cardinality(t[n].pages \cup AncestorPages(t, n)) <= MaxGuestSize

LEMMA PartFacts ==
  ASSUME NEW t, NEW N \in Nat, Rooted(t, N), NEW u, NEW M \in Nat, Rooted(u, M), PartOf(u, t)
  PROVE  /\ \A n \in DOMAIN u : Path(u, n) = Path(t, n) /\ AncestorPages(u, n) = AncestorPages(t, n)
         /\ Spread(t) => Spread(u)
<1>1. \A n \in DOMAIN u : Path(u, n) = Path(t, n) /\ Path(u, n) \subseteq DOMAIN u
  BY SamePaths, PathFacts DEF PartOf
<1>2. ASSUME NEW n \in DOMAIN u PROVE AncestorPages(u, n) = AncestorPages(t, n)
  <2>1. \A m \in Path(t, n) : u[m].pages = t[m].pages
    BY <1>1 DEF PartOf
  <2> QED BY <1>1, <2>1 DEF AncestorPages
<1>3. Spread(t) => Spread(u)
  <2> SUFFICES ASSUME Spread(t), NEW n \in DOMAIN u
               PROVE  /\ \A m \in Path(u, n) \ {n} : u[m].pages \cap u[n].pages = {}
                      /\ Cardinality(u[n].pages \cup AncestorPages(u, n)) <= MaxGuestSize
    BY DEF Spread
  <2>1. n \in DOMAIN t /\ u[n].pages = t[n].pages /\ \A m \in Path(u, n) : u[m].pages = t[m].pages
    BY <1>1 DEF PartOf
  <2> QED BY <1>1, <1>2, <2>1 DEF Spread
<1> QED BY <1>1, <1>2, <1>3

LEMMA GrownSpread ==
  ASSUME NEW N \in Nat, NEW t, Rooted(t, N), Spread(t), NEW p, NEW pages, NEW new,
         GrownBy(new, t, N, p, pages),
         NEW above, above = PagesOnPath(t, p),
         pages \cap above = {}, Cardinality(pages \cup above) <= MaxGuestSize
  PROVE  /\ Spread(new) /\ AncestorPages(new, N) = above
         /\ \A n \in DOMAIN t : AncestorPages(new, n) = AncestorPages(t, n)
<1>1. /\ DOMAIN new = DOMAIN t \cup {N} /\ N \notin DOMAIN t /\ p \in DOMAIN t
      /\ new[N].pages = pages /\ Path(new, N) = {N} \cup Path(t, p)
      /\ \A n \in DOMAIN t : new[n].pages = t[n].pages /\ Path(new, n) = Path(t, n)
  BY DEF GrownBy
<1>2. \A n \in DOMAIN t : Path(t, n) \subseteq DOMAIN t
  BY PathFacts
<1>3. ASSUME NEW n \in DOMAIN t PROVE AncestorPages(new, n) = AncestorPages(t, n)
  <2>1. \A m \in Path(t, n) : new[m].pages = t[m].pages
    BY <1>1, <1>2
  <2> QED BY <1>1, <2>1 DEF AncestorPages
<1>4. Path(new, N) \ {N} = Path(t, p) /\ \A m \in Path(t, p) : new[m].pages = t[m].pages
  BY <1>1, <1>2
<1>5. AncestorPages(new, N) = above
  <2>1. {new[m].pages : m \in Path(t, p)} = {t[m].pages : m \in Path(t, p)}
    BY <1>4
  <2> QED BY <1>4, <2>1 DEF AncestorPages, PagesOnPath
<1>6. ASSUME NEW n \in DOMAIN new
      PROVE  /\ \A m \in Path(new, n) \ {n} : new[m].pages \cap new[n].pages = {}
             /\ Cardinality(new[n].pages \cup AncestorPages(new, n)) <= MaxGuestSize
  <2>1. CASE n = N
    <3>1. \A m \in Path(t, p) : t[m].pages \subseteq above
      BY DEF PagesOnPath
    <3> QED BY <1>1, <1>4, <1>5, <2>1, <3>1
  <2>2. CASE n \in DOMAIN t
    <3>1. new[n].pages = t[n].pages /\ \A m \in Path(t, n) : new[m].pages = t[m].pages
      BY <1>1, <1>2, <2>2
    <3> QED BY <1>1, <1>3, <2>2, <3>1 DEF Spread
  <2> QED BY <1>1, <2>1, <2>2
<1> QED BY <1>3, <1>5, <1>6 DEF Spread

(* The guests of the leaves, which are numbered as they come. *)
LeavesRight ==
    /\ leafGuests \in [DOMAIN leafGuests -> Guest]
    /\ DOMAIN leafGuests \subseteq DOMAIN tree
    /\ \A l \in DOMAIN leafGuests :
          /\ leafGuests[l].id <= Cardinality(DOMAIN leafGuests)
          /\ leafGuests[l].pages = tree[l].pages \cup AncestorPages(tree, l)
    /\ \A k, l \in DOMAIN leafGuests : leafGuests[k] = leafGuests[l] => k = l

HostsRight ==
    /\ TrueHosts(hosts) /\ NoGuestTwice(hosts)
    /\ phase = "building" => hosts = <<>>
    /\ phase = "solving" => PlacedGuests(hosts) \subseteq Guests
    /\ phase = "returned" => PlacedGuests(hosts) = Guests

TreesRight ==
    /\ Count \in Nat \ {0} /\ DOMAIN tree = 0 .. Count - 1
    /\ Rooted(tree, Count) /\ Rooted(workingTree, Count)
    /\ Spread(tree)
    /\ phase # "building" => PartOf(workingTree, tree)

IInv ==
    /\ phase \in Phase
    /\ TreesRight
    /\ LeavesRight
    /\ HostsRight
    /\ CachesMatch

LEMMA TreeInit == Init => IInv
<1> SUFFICES ASSUME Init PROVE IInv
  OBVIOUS
<1>1. PICK rootPages \in SUBSET Page :
         Cardinality(rootPages) <= MaxGuestSize /\ tree = NewTree(rootPages)
  BY DEF Init
<1>2. /\ DOMAIN tree = {Root} /\ tree = [n \in {Root} |-> tree[n]]
      /\ tree[Root].parent = Root /\ tree[Root].children = {} /\ tree[Root].pages = rootPages
      /\ tree[Root] \in NodeSet
  BY <1>1 DEF NewTree, Node, NodeSet, Root
<1>3. Count = 1 /\ DOMAIN tree = 0 .. 0
  BY <1>2, FS_Singleton DEF Count, Root
<1>4. Rooted(tree, 1)
  <2>1. \A n \in DOMAIN tree : n = Root
    BY <1>2
  <2>2. {c \in DOMAIN tree \ {Root} : tree[c].parent = Root} = {}
    BY <1>2
  <2> QED BY <1>2, <1>3, <2>1, <2>2 DEF Rooted
<1>5. Spread(tree)
  <2>1. Path(tree, Root) = {Root}
    BY <1>4, PathFacts
  <2>2. AncestorPages(tree, Root) = {}
    BY <2>1 DEF AncestorPages
  <2> QED BY <1>1, <1>2, <2>1, <2>2 DEF Spread
<1>6. LeavesRight
  <2>1. DOMAIN leafGuests = {} /\ leafGuests = [n \in {} |-> <<>>]
    BY DEF Init
  <2> QED BY <2>1 DEF LeavesRight
<1>7. HostsRight
  BY EmptyHosts DEF Init, HostsRight, GoodHosts
<1> QED BY <1>3, <1>4, <1>5, <1>6, <1>7 DEF Init, IInv, TreesRight, CachesMatch, Phase

(* A node is added, with or without a guest.                               *)
LEMMA AddNodeStep ==
  ASSUME IInv, NEW parent, NEW pages \in SUBSET Page, MayAdd(parent, pages),
         tree' = AddNode(tree, parent, pages),
         UNCHANGED <<workingTree, hosts, phase>>
  PROVE  /\ TreesRight' /\ HostsRight' /\ CachesMatch' /\ phase' \in Phase
         /\ GrownBy(tree', tree, Count, parent, pages)
         /\ AncestorPages(tree', Count) = PathPages(parent)
         /\ \A n \in DOMAIN tree : AncestorPages(tree', n) = AncestorPages(tree, n)
<1>1. /\ Count \in Nat \ {0} /\ DOMAIN tree = 0 .. Count - 1
      /\ Rooted(tree, Count) /\ Rooted(workingTree, Count)
      /\ Spread(tree) /\ phase = "building" /\ phase \in Phase
  BY DEF IInv, TreesRight, MayAdd
<1>2. PICK N \in Nat \ {0} : N = Count
  BY <1>1
<1>3. parent \in DOMAIN tree
  <2>1. N - 1 \in DOMAIN tree /\ N \in Nat
    BY <1>1, <1>2
  <2>2. Path(tree, N - 1) \subseteq DOMAIN tree
    BY <1>1, <1>2, <2>1, PathFacts
  <2> QED BY <1>2, <2>2 DEF MayAdd, Count
<1>4. /\ Cardinality(DOMAIN tree') = N + 1 /\ DOMAIN tree' = 0 .. N
      /\ Rooted(tree', N + 1) /\ GrownBy(tree', tree, N, parent, pages)
  BY <1>1, <1>2, <1>3, AddNodeRooted
<1>5. /\ PathPages(parent) = UNION {tree[m].pages : m \in Path(tree, parent)}
      /\ pages \cap PathPages(parent) = {}
      /\ Cardinality(pages \cup PathPages(parent)) <= MaxGuestSize
  BY DEF PathPages, MayAdd
<1>6. /\ Spread(tree') /\ AncestorPages(tree', N) = PathPages(parent)
      /\ \A n \in DOMAIN tree : AncestorPages(tree', n) = AncestorPages(tree, n)
  <2>1. PICK above : above = PathPages(parent) /\ above = PagesOnPath(tree, parent)
    BY <1>5 DEF PagesOnPath
  <2>2. /\ N \in Nat /\ Rooted(tree, N) /\ Spread(tree) /\ GrownBy(tree', tree, N, parent, pages)
        /\ pages \cap above = {} /\ Cardinality(pages \cup above) <= MaxGuestSize
    BY <1>1, <1>2, <1>4, <1>5, <2>1
  <2>3. Spread(tree') /\ AncestorPages(tree', N) = above
    BY <2>1, <2>2, GrownSpread
  <2>4. \A n \in DOMAIN tree : AncestorPages(tree', n) = AncestorPages(tree, n)
    BY <2>1, <2>2, GrownSpread
  <2> QED BY <2>1, <2>3, <2>4
<1>7. Count' = N + 1
  BY <1>4 DEF Count
<1>8. Rooted(workingTree', N + 1)
  <2>1. DOMAIN workingTree \subseteq 0 .. (N + 1) - 1
    BY <1>1, <1>2 DEF Rooted
  <2> QED BY <1>1, <2>1 DEF Rooted
<1>9. TreesRight'
  <2>1. (N + 1) - 1 = N /\ N + 1 \in Nat \ {0}
    OBVIOUS
  <2>2. phase' = "building"
    BY <1>1
  <2>3. Count' \in Nat \ {0} /\ DOMAIN tree' = 0 .. Count' - 1
    BY <1>4, <1>7, <2>1
  <2>4. Rooted(tree', Count') /\ Rooted(workingTree', Count')
    BY <1>4, <1>7, <1>8
  <2> QED BY <1>6, <2>2, <2>3, <2>4 DEF TreesRight
<1>10. HostsRight'
  <2>1. phase' = "building" /\ hosts' = hosts
    BY <1>1
  <2> QED BY <2>1 DEF IInv, HostsRight
<1>11. CachesMatch'
  BY <1>1 DEF CachesMatch
<1> QED BY <1>1, <1>2, <1>4, <1>6, <1>9, <1>10, <1>11

LEMMA AddInnerStep ==
  ASSUME IInv, NEW parent, NEW pages \in SUBSET Page, AddInnerNode(parent, pages)
  PROVE  IInv'
<1>1. /\ TreesRight' /\ HostsRight' /\ CachesMatch' /\ phase' \in Phase
      /\ GrownBy(tree', tree, Count, parent, pages)
      /\ \A n \in DOMAIN tree : AncestorPages(tree', n) = AncestorPages(tree, n)
  BY AddNodeStep DEF AddInnerNode
<1>2. LeavesRight /\ leafGuests' = leafGuests
  BY DEF IInv, AddInnerNode
<1>3. DOMAIN tree \subseteq DOMAIN tree' /\ \A n \in DOMAIN tree : tree'[n].pages = tree[n].pages
  BY <1>1 DEF GrownBy
<1>4. LeavesRight'
  <2>1. \A l \in DOMAIN leafGuests : leafGuests[l].pages = tree'[l].pages \cup AncestorPages(tree', l)
    BY <1>1, <1>2, <1>3 DEF LeavesRight
  <2> QED BY <1>2, <1>3, <2>1 DEF LeavesRight
<1> QED BY <1>1, <1>4 DEF IInv

LEMMA AddLeafStep ==
  ASSUME IInv, NEW parent, NEW pages \in SUBSET Page, AddLeafNode(parent, pages)
  PROVE  IInv'
<1>1. /\ TreesRight' /\ HostsRight' /\ CachesMatch' /\ phase' \in Phase
      /\ GrownBy(tree', tree, Count, parent, pages)
      /\ AncestorPages(tree', Count) = PathPages(parent)
      /\ \A n \in DOMAIN tree : AncestorPages(tree', n) = AncestorPages(tree, n)
  BY AddNodeStep DEF AddLeafNode
<1>2. PICK N, k, guest :
         /\ N = Count /\ k = Cardinality(DOMAIN leafGuests) + 1
         /\ guest = [id |-> k, pages |-> pages \cup PathPages(parent)]
  OBVIOUS
<1>3. /\ k \in GuestId
      /\ leafGuests' = [n \in DOMAIN leafGuests \cup {N} |-> IF n = N THEN guest ELSE leafGuests[n]]
  BY <1>2 DEF AddLeafNode, Count
<1>4. /\ leafGuests \in [DOMAIN leafGuests -> Guest]
      /\ DOMAIN leafGuests \subseteq DOMAIN tree
      /\ \A l \in DOMAIN leafGuests :
            /\ leafGuests[l].id <= Cardinality(DOMAIN leafGuests)
            /\ leafGuests[l].pages = tree[l].pages \cup AncestorPages(tree, l)
      /\ \A l, m \in DOMAIN leafGuests : leafGuests[l] = leafGuests[m] => l = m
  BY DEF IInv, LeavesRight
<1>5. /\ DOMAIN tree' = DOMAIN tree \cup {N} /\ N \notin DOMAIN tree
      /\ tree'[N].pages = pages
      /\ \A n \in DOMAIN tree : tree'[n].pages = tree[n].pages
  BY <1>1, <1>2 DEF GrownBy
<1>6. IsFiniteSet(DOMAIN leafGuests)
  <2>1. IsFiniteSet(DOMAIN tree)
    BY PathFacts DEF IInv, TreesRight
  <2> QED BY <1>4, <2>1, FS_Subset
<1>7. /\ Cardinality(DOMAIN leafGuests) \in Nat
      /\ Cardinality(DOMAIN leafGuests') = k
  <2>1. DOMAIN leafGuests' = DOMAIN leafGuests \cup {N} /\ N \notin DOMAIN leafGuests
    BY <1>3, <1>4, <1>5
  <2> QED BY <1>2, <1>6, <2>1, FS_AddElement, FS_CardinalityType
<1>8. guest \in Guest
  <2>1. PathPages(parent) \subseteq Page
    <3>1. \A n \in DOMAIN tree : tree[n] \in NodeSet
      BY DEF IInv, TreesRight, Rooted
    <3>2. Path(tree, parent) \subseteq DOMAIN tree
      <4>1. parent \in DOMAIN tree
        BY <1>1 DEF GrownBy
      <4> QED BY <4>1, PathFacts DEF IInv, TreesRight
    <3> QED BY <3>1, <3>2 DEF PathPages, NodeSet
  <2> QED BY <1>2, <1>3, <2>1 DEF Guest
<1>9. ASSUME NEW l \in DOMAIN leafGuests'
      PROVE  /\ leafGuests'[l] \in Guest /\ l \in DOMAIN tree'
             /\ leafGuests'[l].id <= k
             /\ leafGuests'[l].pages = tree'[l].pages \cup AncestorPages(tree', l)
             /\ l = N => leafGuests'[l] = guest /\ guest.id = k
             /\ l # N => /\ l \in DOMAIN leafGuests /\ leafGuests'[l] = leafGuests[l]
                         /\ leafGuests[l].id # k
  <2>1. CASE l = N
    <3>1. leafGuests'[l] = guest /\ guest.id = k /\ guest.pages = pages \cup PathPages(parent)
      BY <1>2, <1>3, <2>1
    <3>2. k \in Nat
      BY <1>2, <1>7
    <3> QED BY <1>1, <1>2, <1>5, <1>8, <2>1, <3>1, <3>2
  <2>2. CASE l # N
    <3>1. l \in DOMAIN leafGuests /\ leafGuests'[l] = leafGuests[l]
      BY <1>3, <2>2
    <3>2. l \in DOMAIN tree /\ leafGuests[l] \in Guest /\ leafGuests[l].id \in Nat
      BY <1>4, <3>1 DEF Guest, GuestId
    <3>3. leafGuests[l].id <= k /\ leafGuests[l].id # k
      BY <1>2, <1>4, <1>7, <3>1, <3>2
    <3> QED BY <1>1, <1>4, <1>5, <2>2, <3>1, <3>2, <3>3
  <2> QED BY <2>1, <2>2
<1>10. LeavesRight'
  <2>1. leafGuests' \in [DOMAIN leafGuests' -> Guest]
    BY <1>3, <1>9
  <2>2. \A l, m \in DOMAIN leafGuests' : leafGuests'[l] = leafGuests'[m] => l = m
    BY <1>4, <1>9
  <2> QED BY <1>7, <1>9, <2>1, <2>2 DEF LeavesRight
<1> QED BY <1>1, <1>10 DEF IInv

LEMMA BuildStep == ASSUME IInv, BuildTree PROVE IInv'
<1>1. /\ Count \in Nat \ {0} /\ DOMAIN tree = 0 .. Count - 1
      /\ Rooted(tree, Count) /\ Spread(tree) /\ LeavesRight
      /\ TrueHosts(hosts) /\ NoGuestTwice(hosts) /\ hosts = <<>>
  BY DEF IInv, TreesRight, HostsRight, BuildTree
<1>2. PICK N \in Nat : N = Count
  BY <1>1
<1>3. /\ tree' = Build(tree, leafGuests) /\ workingTree' = tree' /\ phase' = "solving"
      /\ leafGuests' = leafGuests /\ hosts' = hosts
  BY DEF BuildTree
<1>4. leafGuests \in [DOMAIN leafGuests -> Guest] /\ DOMAIN leafGuests \subseteq DOMAIN tree
  BY <1>1 DEF LeavesRight
<1>5. /\ Rooted(tree', N) /\ DOMAIN tree' = DOMAIN tree
      /\ \A n \in DOMAIN tree : /\ tree'[n].parent = tree[n].parent /\ tree'[n].pages = tree[n].pages
                                /\ Subtree(tree', n) = Subtree(tree, n)
                                /\ tree'[n].guests =
                                     {leafGuests[l] : l \in DOMAIN leafGuests \cap Subtree(tree, n)}
  BY <1>1, <1>2, <1>3, <1>4, BuildRooted
<1>6. Spread(tree') /\ \A n \in DOMAIN tree : AncestorPages(tree', n) = AncestorPages(tree, n)
  <2>1. PartOf(tree', tree)
    BY <1>5 DEF PartOf
  <2> QED BY <1>1, <1>2, <1>5, <2>1, PartFacts
<1>7. TreesRight'
  <2>1. Count' = N
    BY <1>2, <1>5 DEF Count
  <2>2. PartOf(workingTree', tree')
    BY <1>3 DEF PartOf
  <2> QED BY <1>1, <1>2, <1>3, <1>5, <1>6, <2>1, <2>2 DEF TreesRight
<1>8. LeavesRight'
  BY <1>1, <1>3, <1>5, <1>6 DEF LeavesRight
<1>9. HostsRight'
  <2>1. PlacedGuests(hosts) = {}
    BY <1>1, EmptyHosts
  <2> QED BY <1>1, <1>3, <2>1 DEF HostsRight
<1>10. CachesMatch'
  <2>1. \A n \in DOMAIN tree' :
           tree'[n].guests = {leafGuests[l] : l \in DOMAIN leafGuests \cap Subtree(tree', n)}
    BY <1>5
  <2>2. Subtree(tree, Root) = DOMAIN tree /\ Root \in DOMAIN tree
    BY <1>1, <1>2, PathFacts DEF Subtree, Rooted
  <2>3. tree'[Root].guests = {leafGuests[l] : l \in DOMAIN leafGuests}
    BY <1>4, <1>5, <2>2
  <2>4. PlacedGuests(hosts) = {}
    BY <1>1, EmptyHosts
  <2> QED BY <1>3, <2>1, <2>3, <2>4 DEF CachesMatch, Guests
<1> QED BY <1>3, <1>7, <1>8, <1>9, <1>10 DEF IInv, Phase

(* Steps of the solver leave the tree it was given and its leaves alone.   *)
LEMMA SameTree ==
  ASSUME IInv, UNCHANGED <<tree, leafGuests>>,
         Rooted(workingTree', Count), phase' # "building" => PartOf(workingTree', tree)
  PROVE  TreesRight' /\ LeavesRight' /\ Guests' = Guests
<1>1. Count' = Count
  BY DEF Count
<1>2. TreesRight'
  BY <1>1 DEF IInv, TreesRight
<1>3. LeavesRight'
  BY DEF IInv, LeavesRight
<1> QED BY <1>2, <1>3 DEF Guests

LEMMA PackRestStep == ASSUME IInv, PackRest PROVE IInv'
<1> DEFINE rest == workingTree[Root].guests
<1>1. /\ phase = "solving" /\ phase' = "returned" /\ UNCHANGED <<tree, leafGuests, workingTree>>
      /\ hosts' = IF rest = {} THEN hosts ELSE Append(hosts, HostOf(rest))
  BY DEF PackRest
<1>2. /\ Rooted(workingTree, Count) /\ PartOf(workingTree, tree)
      /\ TrueHosts(hosts) /\ NoGuestTwice(hosts) /\ PlacedGuests(hosts) \subseteq Guests
      /\ rest = Guests \ PlacedGuests(hosts)
      /\ \A n \in DOMAIN workingTree :
           workingTree[n].guests = {leafGuests[l] : l \in DOMAIN leafGuests \cap Subtree(workingTree, n)}
  BY <1>1 DEF IInv, TreesRight, HostsRight, CachesMatch
<1>3. TreesRight' /\ LeavesRight' /\ Guests' = Guests
  BY <1>1, <1>2, SameTree
<1>4. rest \in SUBSET Guest
  BY <1>2 DEF Rooted, NodeSet
<1> HIDE DEF rest
<1>5. TrueHosts(hosts') /\ NoGuestTwice(hosts') /\ PlacedGuests(hosts') = Guests
  <2>1. CASE rest = {}
    BY <1>1, <1>2, <2>1
  <2>2. CASE rest # {}
    <3>1. PICK h : h = HostOf(rest)
      OBVIOUS
    <3>2. IsHost(h) /\ FrequenciesMatch(h) /\ h.guests = rest
      BY <1>4, <3>1, HostOfMatches
    <3>3. hosts' = AppendHost(hosts, h) /\ \A g \in h.guests : g \notin PlacedGuests(hosts)
      BY <1>1, <1>2, <2>2, <3>1, <3>2 DEF AppendHost
    <3>4. TrueHosts(hosts') /\ NoGuestTwice(hosts') /\ PlacedGuests(hosts') = PlacedGuests(hosts) \cup h.guests
      BY <1>2, <3>2, <3>3, AppendHostTrue
    <3> QED BY <1>2, <3>2, <3>4
  <2> QED BY <2>1, <2>2
<1>6. HostsRight'
  BY <1>1, <1>3, <1>5 DEF HostsRight
<1>7. CachesMatch'
  BY <1>1, <1>2 DEF CachesMatch
<1> QED BY <1>1, <1>3, <1>6, <1>7 DEF IInv, Phase

LEMMA PackSubtreeStep == ASSUME IInv, PackSubtree PROVE IInv'
<1>1. PICK nid \in Cheapest :
         /\ \E guests \in SetToSeqs(workingTree[nid].guests) : hosts' = ProceedBy(solver, hosts, guests)
         /\ IF nid = Root
            THEN phase' = "returned" /\ UNCHANGED workingTree
            ELSE workingTree' = EraseSubtree(workingTree, nid) /\ UNCHANGED phase
  BY DEF PackSubtree
<1>2. phase = "solving" /\ UNCHANGED <<tree, leafGuests>>
  BY DEF PackSubtree
<1>3. /\ Count \in Nat /\ Rooted(workingTree, Count) /\ PartOf(workingTree, tree)
      /\ TrueHosts(hosts) /\ NoGuestTwice(hosts) /\ PlacedGuests(hosts) \subseteq Guests
      /\ workingTree[Root].guests = Guests \ PlacedGuests(hosts)
      /\ \A n \in DOMAIN workingTree :
           workingTree[n].guests = {leafGuests[l] : l \in DOMAIN leafGuests \cap Subtree(workingTree, n)}
  BY <1>2 DEF IInv, TreesRight, HostsRight, CachesMatch
<1>4. nid \in DOMAIN workingTree /\ Root \in DOMAIN workingTree
  BY <1>3 DEF Cheapest, Candidates, Rooted
<1>5. PICK packed : packed = workingTree[nid].guests
  OBVIOUS
<1>6. packed \in SUBSET Guest /\ packed \subseteq workingTree[Root].guests
  <2>1. Subtree(workingTree, nid) \subseteq Subtree(workingTree, Root)
    BY <1>3, PathFacts DEF Subtree
  <2>2. workingTree[nid] \in NodeSet
    BY <1>3, <1>4 DEF Rooted
  <2> QED BY <1>3, <1>4, <1>5, <2>1, <2>2 DEF NodeSet
<1>7. /\ TrueHosts(hosts') /\ NoGuestTwice(hosts')
      /\ PlacedGuests(hosts') = PlacedGuests(hosts) \cup packed
  <2>1. PICK guests \in SetToSeqs(packed) : hosts' = ProceedBy(solver, hosts, guests)
    BY <1>1, <1>5
  <2>2. packed \cap PlacedGuests(hosts) = {}
    BY <1>3, <1>6
  <2>3. TrueHosts(hosts) /\ NoGuestTwice(hosts) /\ packed \in SUBSET Guest
    BY <1>3, <1>6
  <2> QED BY <2>1, <2>2, <2>3, ProceedByPlaces
<1>8. CASE nid = Root
  <2>1. phase' = "returned" /\ workingTree' = workingTree
    BY <1>1, <1>8
  <2>2. TreesRight' /\ LeavesRight' /\ Guests' = Guests
    BY <1>2, <1>3, <2>1, SameTree
  <2>3. PlacedGuests(hosts') = Guests
    BY <1>3, <1>5, <1>7, <1>8
  <2>4. HostsRight'
    BY <1>7, <2>1, <2>2, <2>3 DEF HostsRight
  <2>5. CachesMatch'
    BY <1>2, <1>3, <2>1 DEF CachesMatch
  <2> QED BY <2>1, <2>2, <2>4, <2>5 DEF IInv, Phase
<1>9. CASE nid # Root
  <2>1. phase' = "solving" /\ workingTree' = EraseSubtree(workingTree, nid)
    BY <1>1, <1>2, <1>9
  <2>2. /\ Rooted(workingTree', Count)
        /\ DOMAIN workingTree' = DOMAIN workingTree \ Subtree(workingTree, nid)
        /\ \A n \in DOMAIN workingTree' :
             /\ workingTree'[n].parent = workingTree[n].parent
             /\ workingTree'[n].pages = workingTree[n].pages
             /\ workingTree'[n].guests = workingTree[n].guests \ packed
             /\ Subtree(workingTree', n) = Subtree(workingTree, n) \ Subtree(workingTree, nid)
    BY <1>3, <1>4, <1>5, <1>9, <2>1, EraseRooted
  <2>3. PartOf(workingTree', tree)
    BY <1>3, <2>2 DEF PartOf
  <2>4. TreesRight' /\ LeavesRight' /\ Guests' = Guests
    BY <1>2, <2>2, <2>3, SameTree
  <2>5. HostsRight'
    <3>1. PlacedGuests(hosts') \subseteq Guests
      BY <1>3, <1>6, <1>7
    <3> QED BY <1>7, <2>1, <2>4, <3>1 DEF HostsRight
  <2>6. ASSUME NEW n \in DOMAIN workingTree'
        PROVE  workingTree'[n].guests =
                 {leafGuests[l] : l \in DOMAIN leafGuests \cap Subtree(workingTree', n)}
    <3>1. \A k, l \in DOMAIN leafGuests : leafGuests[k] = leafGuests[l] => k = l
      BY DEF IInv, LeavesRight
    <3>2. /\ workingTree[n].guests = {leafGuests[l] : l \in DOMAIN leafGuests \cap Subtree(workingTree, n)}
          /\ packed = {leafGuests[l] : l \in DOMAIN leafGuests \cap Subtree(workingTree, nid)}
      BY <1>3, <1>4, <1>5, <2>2
    <3> QED BY <2>2, <3>1, <3>2
  <2>7. workingTree'[Root].guests = Guests \ PlacedGuests(hosts')
    <3>1. Root \in DOMAIN workingTree'
      BY <2>2 DEF Rooted
    <3> QED BY <1>3, <1>7, <2>2, <3>1
  <2>8. CachesMatch'
    BY <1>2, <2>1, <2>4, <2>6, <2>7 DEF CachesMatch
  <2> QED BY <2>1, <2>4, <2>5, <2>8 DEF IInv, Phase
<1> QED BY <1>8, <1>9

LEMMA TreeStep == IInv /\ [Next]_vars => IInv'
<1> SUFFICES ASSUME IInv, [Next]_vars PROVE IInv'
  OBVIOUS
<1>1. CASE \E parent \in DOMAIN tree, pages \in SUBSET Page :
              AddInnerNode(parent, pages) \/ AddLeafNode(parent, pages)
  BY <1>1, AddInnerStep, AddLeafStep
<1>2. CASE BuildTree
  BY <1>2, BuildStep
<1>3. CASE PackRest
  BY <1>3, PackRestStep
<1>4. CASE PackSubtree
  BY <1>4, PackSubtreeStep
<1>5. CASE Throw \/ AskForNoNode
  <2>1. /\ phase = "solving" /\ phase' \in {"thrown", "undefined"}
        /\ UNCHANGED <<tree, workingTree, leafGuests, hosts>>
    BY <1>5 DEF Throw, AskForNoNode
  <2>2. TreesRight' /\ LeavesRight' /\ Guests' = Guests
    <3>1. Rooted(workingTree, Count) /\ PartOf(workingTree, tree)
      BY <2>1 DEF IInv, TreesRight
    <3>2. Rooted(workingTree', Count) /\ PartOf(workingTree', tree)
      BY <2>1, <3>1
    <3> QED BY <2>1, <3>2, SameTree
  <2>3. HostsRight' /\ CachesMatch'
    BY <2>1 DEF IInv, HostsRight, CachesMatch
  <2> QED BY <2>1, <2>2, <2>3 DEF IInv, Phase
<1>6. CASE UNCHANGED vars
  BY <1>6 DEF vars, IInv, TreesRight, LeavesRight, HostsRight, CachesMatch, Count, Guests
<1> QED BY <1>1, <1>2, <1>3, <1>4, <1>5, <1>6 DEF Next

LEMMA TreeInvariant == Spec => []IInv
BY TreeInit, TreeStep, PTL DEF Spec

(* Parents and children agree at every moment, of the tree under           *)
(* construction and of what erasures leave of the copy                     *)
(* (vmp_tree.cpp:100-115).                                                 *)
THEOREM TreeTypeCorrect == Spec => []TypeOK
<1>1. IInv => TypeOK
  <2> SUFFICES ASSUME IInv PROVE TypeOK
    OBVIOUS
  <2>1. Rooted(workingTree, Count) /\ TrueHosts(hosts) /\ phase \in Phase
    BY DEF IInv, TreesRight, HostsRight
  <2>2. \A n \in DOMAIN workingTree : workingTree[n] \in NodeSet
    BY <2>1 DEF Rooted
  <2>3. \A n \in DOMAIN workingTree : workingTree[n].pages \subseteq Page /\ workingTree[n].guests \subseteq Guest
    BY <2>2 DEF NodeSet
  <2> QED BY <2>1, <2>3 DEF TypeOK, Rooted, TrueHosts
<1> QED BY <1>1, TreeInvariant, PTL

(* The cache of every node that is left has the guests of the leaves left  *)
(* below it, and the root's are those on no host, however many subtrees    *)
(* were packed and erased (vmp_tree.cpp:83-98).                            *)
THEOREM TreeCachesMatch == Spec => []CachesMatch
<1>1. IInv => CachesMatch
  BY DEF IInv
<1> QED BY <1>1, TreeInvariant, PTL

-----------------------------------------------------------------------------
(* The bounds. *)

(* What a node may use is what the pages of its ancestors leave.           *)
LEMMA CapacityLeft ==
  ASSUME NEW t, NEW N \in Nat, Rooted(t, N), Spread(t), NEW n \in DOMAIN t
  PROVE  /\ CapacityAt(t, n) = Capacity - Cardinality(AncestorPages(t, n))
         /\ Cardinality(AncestorPages(t, n)) \in Nat /\ Weight(t, n) \in Nat
         /\ IsFiniteSet(t[n].pages)
         /\ Cardinality(t[n].pages \cup AncestorPages(t, n)) =
              Weight(t, n) + Cardinality(AncestorPages(t, n))
<1> DEFINE weight == [m \in DOMAIN t |-> Weight(t, m)]
           pages == [m \in DOMAIN t |-> t[m].pages]
           above == Path(t, n) \ {n}
<1>1. \A m \in DOMAIN t : IsFiniteSet(t[m].pages) /\ Weight(t, m) \in Nat /\ t[m].pages \subseteq Page
  <2> SUFFICES ASSUME NEW m \in DOMAIN t
               PROVE  IsFiniteSet(t[m].pages) /\ Weight(t, m) \in Nat /\ t[m].pages \subseteq Page
    OBVIOUS
  <2>1. t[m].pages \subseteq Page
    BY DEF Rooted, NodeSet
  <2>2. IsFiniteSet(t[m].pages)
    BY <2>1, HostAssumption, FS_Subset
  <2> QED BY <2>1, <2>2, FS_CardinalityType DEF Weight
<1>2. above \subseteq DOMAIN t /\ IsFiniteSet(above)
  BY PathFacts, FS_Subset
<1>3. \A m \in above : /\ weight[m] \in Nat /\ IsFiniteSet(pages[m])
                       /\ Cardinality(pages[m]) <= weight[m] /\ Cardinality(pages[m]) = weight[m]
  BY <1>1, <1>2 DEF Weight
<1>4. \A k, m \in above : k # m => pages[k] \cap pages[m] = {}
  <2> SUFFICES ASSUME NEW k \in above, NEW m \in above, k # m PROVE t[k].pages \cap t[m].pages = {}
    BY <1>2
  <2>1. k \in Path(t, m) \/ m \in Path(t, k)
    BY PathsAreChains
  <2> QED BY <1>2, <2>1 DEF Spread
<1>5. AllOf(pages, above) = AncestorPages(t, n)
  BY <1>2 DEF AncestorPages, AllOf
<1>6. CapacityAt(t, n) = Capacity - SumFunctionOnSet(weight, above)
  BY DEF CapacityAt
<1> HIDE DEF weight, pages, above
<1>7. /\ IsFiniteSet(AncestorPages(t, n))
      /\ Cardinality(AncestorPages(t, n)) = SumFunctionOnSet(weight, above)
  <2>1. \A m \in above : weight[m] \in Nat
    BY <1>3
  <2>2. \A m \in above : IsFiniteSet(pages[m]) /\ Cardinality(pages[m]) <= weight[m]
    BY <1>3
  <2>3. \A m \in above : Cardinality(pages[m]) = weight[m]
    BY <1>3
  <2>4. \A m \in above : weight[m] <= Cardinality(pages[m])
    BY <2>1, <2>3
  <2>5. /\ IsFiniteSet(AncestorPages(t, n))
        /\ Cardinality(AncestorPages(t, n)) <= SumFunctionOnSet(weight, above)
        /\ SumFunctionOnSet(weight, above) <= Cardinality(AncestorPages(t, n))
    BY <1>2, <1>4, <1>5, <2>1, <2>2, <2>4, SumOfSizes
  <2>6. SumFunctionOnSet(weight, above) \in Nat /\ Cardinality(AncestorPages(t, n)) \in Nat
    BY <1>2, <2>1, <2>5, SumOfNaturals, FS_CardinalityType
  <2> QED BY <2>5, <2>6
<1>8. t[n].pages \cap AncestorPages(t, n) = {}
  BY DEF Spread, AncestorPages
<1>9. Cardinality(t[n].pages \cup AncestorPages(t, n)) = Weight(t, n) + Cardinality(AncestorPages(t, n))
  <2>1. Cardinality(t[n].pages \cap AncestorPages(t, n)) = 0
    BY <1>8, FS_EmptySet
  <2>2. /\ Cardinality(t[n].pages \cup AncestorPages(t, n)) =
             Cardinality(t[n].pages) + Cardinality(AncestorPages(t, n))
             - Cardinality(t[n].pages \cap AncestorPages(t, n))
    BY <1>1, <1>7, FS_Union
  <2>3. Cardinality(t[n].pages) \in Nat /\ Cardinality(AncestorPages(t, n)) \in Nat
    BY <1>1, <1>7, FS_CardinalityType
  <2> QED BY <2>1, <2>2, <2>3 DEF Weight
<1> QED BY <1>1, <1>6, <1>7, <1>9, FS_CardinalityType

OnlyRootEmpty(t) == \A n \in DOMAIN t \ {Root} : t[n].pages # {}

(* With guests that fit a host, the computation of the bounds meets no     *)
(* error: a node has room, and room is left for its children.              *)
LEMMA EnoughRoom ==
  ASSUME NEW t, NEW N \in Nat, Rooted(t, N), Spread(t), OnlyRootEmpty(t), MaxGuestSize <= Capacity,
         NEW n \in DOMAIN t
  PROVE  /\ Weight(t, n) \in Nat /\ CapacityAt(t, n) \in Nat
         /\ Weight(t, n) <= CapacityAt(t, n)
         /\ ~IsLeafNode(t, n) => Weight(t, n) < CapacityAt(t, n)
<1>1. \A m \in DOMAIN t : Weight(t, m) + Cardinality(AncestorPages(t, m)) <= Capacity
  <2> SUFFICES ASSUME NEW m \in DOMAIN t
               PROVE  Weight(t, m) + Cardinality(AncestorPages(t, m)) <= Capacity
    OBVIOUS
  <2>1. Cardinality(t[m].pages \cup AncestorPages(t, m)) <= MaxGuestSize
    BY DEF Spread
  <2>2. /\ Cardinality(AncestorPages(t, m)) \in Nat /\ Weight(t, m) \in Nat
        /\ Cardinality(t[m].pages \cup AncestorPages(t, m)) = Weight(t, m) + Cardinality(AncestorPages(t, m))
    BY CapacityLeft
  <2> QED BY <2>1, <2>2, HostAssumption
<1>2. /\ CapacityAt(t, n) = Capacity - Cardinality(AncestorPages(t, n))
      /\ Cardinality(AncestorPages(t, n)) \in Nat /\ Weight(t, n) \in Nat
      /\ Cardinality(t[n].pages \cup AncestorPages(t, n)) = Weight(t, n) + Cardinality(AncestorPages(t, n))
  BY CapacityLeft
<1>3. Weight(t, n) <= CapacityAt(t, n) /\ CapacityAt(t, n) \in Nat
  BY <1>1, <1>2, HostAssumption
<1>4. ASSUME ~IsLeafNode(t, n) PROVE Weight(t, n) < CapacityAt(t, n)
  <2>1. PICK c \in t[n].children : TRUE
    BY <1>4 DEF IsLeafNode
  <2>2. c \in DOMAIN t /\ c # Root /\ t[c].parent = n
    BY SubtreeOfChildren
  <2>3. AncestorPages(t, c) = t[n].pages \cup AncestorPages(t, n)
    <3>1. Path(t, c) \ {c} = Path(t, n) /\ n \in Path(t, n)
      BY <2>2, PathFacts
    <3>2. Path(t, c) \ {c} = {n} \cup (Path(t, n) \ {n})
      BY <3>1
    <3> QED BY <3>2 DEF AncestorPages
  <2>4. Weight(t, c) \in Nat /\ Weight(t, c) # 0
    <3>1. Weight(t, c) \in Nat /\ IsFiniteSet(t[c].pages)
      BY <2>2, CapacityLeft
    <3>2. t[c].pages # {}
      BY <2>2 DEF OnlyRootEmpty
    <3> QED BY <3>1, <3>2, FS_EmptySet DEF Weight
  <2>5. Weight(t, c) + Cardinality(AncestorPages(t, c)) <= Capacity
    BY <1>1, <2>2
  <2>6. Cardinality(AncestorPages(t, c)) = Weight(t, n) + Cardinality(AncestorPages(t, n))
    BY <1>2, <2>3
  <2>7. PICK w, above : w = Weight(t, n) /\ above = Cardinality(AncestorPages(t, n))
    OBVIOUS
  <2>8. w \in Nat /\ above \in Nat /\ CapacityAt(t, n) = Capacity - above
    BY <1>2, <2>7
  <2>9. Weight(t, c) + (w + above) <= Capacity
    BY <2>5, <2>6, <2>7
  <2>10. w < Capacity - above
    BY <2>4, <2>8, <2>9, HostAssumption
  <2> QED BY <2>7, <2>8, <2>10
<1> QED BY <1>2, <1>3, <1>4

LEMMA NotMalformed ==
  ASSUME NEW t, NEW N \in Nat, Rooted(t, N), Spread(t), OnlyRootEmpty(t), MaxGuestSize <= Capacity
  PROVE  ~Malformed(t)
<1> SUFFICES ASSUME NEW n \in DOMAIN t
             PROVE  /\ ~(Weight(t, n) > CapacityAt(t, n))
                    /\ ~(~IsLeafNode(t, n) /\ Weight(t, n) >= CapacityAt(t, n))
  BY DEF Malformed
<1>1. /\ Weight(t, n) \in Nat /\ CapacityAt(t, n) \in Nat
      /\ Weight(t, n) <= CapacityAt(t, n)
      /\ ~IsLeafNode(t, n) => Weight(t, n) < CapacityAt(t, n)
  BY EnoughRoom
<1> QED BY <1>1

(* A quotient rounded up.                                                  *)
LEMMA CeilDivFacts ==
  ASSUME NEW a \in Nat, NEW b \in Nat \ {0}
  PROVE  /\ CeilDiv(a, b) \in Nat
         /\ a # 0 => CeilDiv(a, b) # 0
         /\ CeilDiv(a, b) = 1 => a <= b
<1> DEFINE q == (a + b - 1) \div b
           r == (a + b - 1) % b
<1>1. a + b - 1 \in Nat /\ b > 0
  OBVIOUS
<1>2. q \in Int /\ r \in 0 .. b - 1 /\ a + b - 1 = b * q + r
  BY <1>1
<1>3. CeilDiv(a, b) = q
  BY DEF CeilDiv
<1> HIDE DEF q, r
<1>4. q >= 0
  <2> SUFFICES ASSUME q <= -1 PROVE FALSE
    BY <1>2
  <2>1. b * q <= b * (-1)
    BY <1>1, <1>2
  <2>2. b * (-1) = -b
    OBVIOUS
  <2> QED BY <1>1, <1>2, <2>1, <2>2
<1>5. q = 0 => a = 0
  BY <1>2
<1>6. q = 1 => a <= b
  BY <1>2
<1> QED BY <1>2, <1>3, <1>4, <1>5, <1>6

(* The bound of a node is made of those of its children, which have        *)
(* greater ids.                                                            *)
TotalSize(t, bounds, n) == SumFunction([c \in t[n].children |-> bounds[c].size])

HostsNeeded(t, bounds, n) == CeilDiv(TotalSize(t, bounds, n), CapacityAt(t, n) - Weight(t, n))

BoundOf(t, bounds, n) ==
    IF IsLeafNode(t, n)
    THEN [size |-> Weight(t, n), count |-> 1]
    ELSE [size  |-> TotalSize(t, bounds, n) + HostsNeeded(t, bounds, n) * Weight(t, n),
          count |-> HostsNeeded(t, bounds, n)]

LEMMA BoundsUnfold ==
  ASSUME NEW t, NEW N \in Nat, Rooted(t, N)
  PROVE  \A n \in DOMAIN t : LowerBounds(t)[n] = BoundOf(t, LowerBounds(t), n)
<1> DEFINE From(k) == {n \in DOMAIN t : n >= N - k}
           Is(f, D) == f = [n \in D |-> BoundOf(t, f, n)]
           Good == {k \in 0 .. N : \E f : Is(f, From(k))}
<1>1. LowerBounds(t) = CHOOSE f : Is(f, DOMAIN t)
  BY DEF LowerBounds, BoundOf, TotalSize, HostsNeeded
<1>2. /\ \A n \in DOMAIN t : n \in Nat /\ n < N
      /\ \A n \in DOMAIN t : \A c \in t[n].children : c \in DOMAIN t /\ n < c
  BY SubtreeOfChildren DEF Rooted
<1>3. 0 \in Good
  <2>1. From(0) = {}
    BY <1>2
  <2>2. [n \in {} |-> {}] = [n \in {} |-> BoundOf(t, [k \in {} |-> {}], n)]
    OBVIOUS
  <2>3. \E f : Is(f, From(0))
    BY <2>1, <2>2
  <2> HIDE DEF Is, From
  <2> QED BY <2>3
<1>4. ASSUME NEW k \in 1 .. N, k - 1 \in Good PROVE k \in Good
  <2>1. PICK p : Is(p, From(k - 1))
    BY <1>4
  <2> DEFINE q == [n \in From(k) |-> IF n = N - k THEN BoundOf(t, p, n) ELSE p[n]]
  <2>2. ASSUME NEW n \in From(k) PROVE q[n] = BoundOf(t, q, n)
    <3>1. n \in DOMAIN t /\ n >= N - k /\ n \in Nat
      BY <1>2
    <3>2. ASSUME NEW c \in t[n].children PROVE q[c] = p[c]
      <4>1. c \in DOMAIN t /\ c \in Nat /\ n < c
        BY <1>2, <3>1
      <4>2. c \in From(k) /\ c # N - k
        BY <3>1, <4>1
      <4> QED BY <4>2
    <3>3. BoundOf(t, q, n) = BoundOf(t, p, n)
      <4> HIDE DEF q
      <4>1. [c \in t[n].children |-> q[c].size] = [c \in t[n].children |-> p[c].size]
        BY <3>2
      <4>2. TotalSize(t, q, n) = TotalSize(t, p, n)
        BY <4>1 DEF TotalSize
      <4> QED BY <4>2 DEF BoundOf, HostsNeeded
    <3>4. n # N - k => p[n] = BoundOf(t, p, n)
      <4>1. n # N - k => n \in From(k - 1)
        BY <3>1
      <4> QED BY <2>1, <4>1
    <3>5. q[n] = BoundOf(t, p, n)
      BY <3>4
    <3> HIDE DEF q
    <3> QED BY <3>3, <3>5
  <2>3. Is(q, From(k))
    <3>1. q = [n \in From(k) |-> q[n]]
      OBVIOUS
    <3> HIDE DEF q, From
    <3> QED BY <2>2, <3>1
  <2> HIDE DEF Is, q, From
  <2> QED BY <2>3
<1>5. N \in Good
  <2> HIDE DEF Good
  <2> QED BY <1>3, <1>4, CountingUp
<1>6. From(N) = DOMAIN t
  <2>1. \A n \in DOMAIN t : n >= N - N
    BY <1>2
  <2> QED BY <2>1
<1>7. Is(LowerBounds(t), DOMAIN t)
  <2>1. \E f : Is(f, DOMAIN t)
    BY <1>5, <1>6
  <2> HIDE DEF Is
  <2> QED BY <1>1, <2>1
<1>8. PICK bounds : bounds = LowerBounds(t) /\ Is(bounds, DOMAIN t)
  <2> HIDE DEF Is
  <2> QED BY <1>7
<1>9. \A n \in DOMAIN t : bounds[n] = BoundOf(t, bounds, n)
  BY <1>8
<1> QED BY <1>8, <1>9

PagesBelow(t, n) == UNION {t[m].pages : m \in Subtree(t, n)}

(* A bound b is right for a node: below it there are not more pages than   *)
(* the size says, and, when one host is enough, not more than the          *)
(* ancestors leave room for.                                               *)
RightBound(t, n, b) ==
    /\ b.size \in Nat /\ b.count \in Nat \ {0}
    /\ n # Root => b.size # 0
    /\ IsFiniteSet(PagesBelow(t, n)) /\ Cardinality(PagesBelow(t, n)) <= b.size
    /\ b.count = 1 => Cardinality(PagesBelow(t, n)) <= CapacityAt(t, n)

LEMMA BoundOfLeaf ==
  ASSUME NEW t, NEW N \in Nat, Rooted(t, N), Spread(t), OnlyRootEmpty(t), MaxGuestSize <= Capacity,
         NEW bounds, NEW n \in DOMAIN t, IsLeafNode(t, n)
  PROVE  RightBound(t, n, BoundOf(t, bounds, n))
<1>1. BoundOf(t, bounds, n) = [size |-> Weight(t, n), count |-> 1]
  BY DEF BoundOf
<1>2. Subtree(t, n) = {n}
  BY SubtreeOfChildren DEF IsLeafNode
<1>3. PagesBelow(t, n) = t[n].pages
  BY <1>2 DEF PagesBelow
<1>4. IsFiniteSet(t[n].pages) /\ Weight(t, n) \in Nat /\ Weight(t, n) <= CapacityAt(t, n)
  BY CapacityLeft, EnoughRoom
<1>5. n # Root => Weight(t, n) # 0
  BY <1>4, FS_EmptySet DEF OnlyRootEmpty, Weight
<1>6. Cardinality(t[n].pages) = Weight(t, n)
  BY DEF Weight
<1> QED BY <1>1, <1>3, <1>4, <1>5, <1>6 DEF RightBound

LEMMA BoundOfInner ==
  ASSUME NEW t, NEW N \in Nat, Rooted(t, N), Spread(t), OnlyRootEmpty(t), MaxGuestSize <= Capacity,
         NEW bounds, NEW n \in DOMAIN t, ~IsLeafNode(t, n),
         \A c \in t[n].children : RightBound(t, c, bounds[c])
  PROVE  RightBound(t, n, BoundOf(t, bounds, n))
<1>1. PICK total, count, w, room :
         /\ total = TotalSize(t, bounds, n) /\ count = HostsNeeded(t, bounds, n)
         /\ w = Weight(t, n) /\ room = CapacityAt(t, n) - w
  OBVIOUS
<1>2. BoundOf(t, bounds, n) = [size |-> total + count * w, count |-> count]
  BY <1>1 DEF BoundOf
<1>3. w \in Nat /\ room \in Nat \ {0} /\ CapacityAt(t, n) = room + w
  <2>1. /\ Weight(t, n) \in Nat /\ CapacityAt(t, n) \in Nat
        /\ Weight(t, n) < CapacityAt(t, n)
    BY EnoughRoom
  <2> QED BY <1>1, <2>1
<1>4. PICK C : C = t[n].children
  OBVIOUS
<1>5. C # {} /\ \A c \in C : c \in DOMAIN t /\ c # Root
  BY <1>4, SubtreeOfChildren DEF IsLeafNode
<1>6. IsFiniteSet(C)
  BY <1>5, PathFacts, FS_Subset
<1> DEFINE sizes == [c \in C |-> bounds[c].size]
           below == [c \in C |-> PagesBelow(t, c)]
<1>7. \A c \in C : sizes[c] \in Nat /\ sizes[c] # 0
  BY <1>4, <1>5 DEF RightBound
<1>8. \A c \in C : IsFiniteSet(below[c]) /\ Cardinality(below[c]) <= sizes[c]
  BY <1>4 DEF RightBound
<1>9. total = SumFunctionOnSet(sizes, C)
  BY <1>1, <1>4 DEF TotalSize, SumFunction
<1> HIDE DEF sizes
<1>10. total \in Nat /\ total # 0
  <2>1. \A c \in C : sizes[c] \in Nat
    BY <1>7
  <2>2. total \in Nat /\ \A c \in C : sizes[c] <= total
    BY <1>6, <1>9, <2>1, SumOfNaturals
  <2>3. PICK c \in C : TRUE
    BY <1>5
  <2> QED BY <1>7, <2>2, <2>3
<1>11. IsFiniteSet(AllOf(below, C)) /\ Cardinality(AllOf(below, C)) <= total
  <2> HIDE DEF below
  <2>1. \A c \in C : sizes[c] \in Nat
    BY <1>7
  <2> QED BY <1>6, <1>8, <1>9, <2>1, SumOfSizes
<1>12. PagesBelow(t, n) = t[n].pages \cup AllOf(below, C)
  <2>1. Subtree(t, n) = {n} \cup UNION {Subtree(t, c) : c \in C}
    BY <1>4, SubtreeOfChildren
  <2> QED BY <2>1 DEF PagesBelow, AllOf
<1>13. /\ IsFiniteSet(PagesBelow(t, n)) /\ Cardinality(PagesBelow(t, n)) \in Nat
       /\ Cardinality(PagesBelow(t, n)) <= w + total
  <2> HIDE DEF below
  <2>1. PICK P, B : P = t[n].pages /\ B = AllOf(below, C)
    OBVIOUS
  <2>2. IsFiniteSet(P) /\ Cardinality(P) = w
    BY <1>1, <2>1, CapacityLeft DEF Weight
  <2>3. /\ IsFiniteSet(P \cup B) /\ IsFiniteSet(P \cap B)
        /\ Cardinality(P \cup B) = Cardinality(P) + Cardinality(B) - Cardinality(P \cap B)
    BY <1>11, <2>1, <2>2, FS_Union, FS_Intersection
  <2>4. Cardinality(P \cup B) \in Nat /\ Cardinality(P \cap B) \in Nat /\ Cardinality(B) \in Nat
    BY <1>11, <2>1, <2>3, FS_CardinalityType
  <2>5. Cardinality(P \cup B) <= w + total
    BY <1>3, <1>10, <1>11, <2>1, <2>2, <2>3, <2>4
  <2> QED BY <1>12, <2>1, <2>3, <2>4, <2>5
<1>14. count = CeilDiv(total, room)
  BY <1>1 DEF HostsNeeded
<1>15. count \in Nat \ {0} /\ (count = 1 => total <= room)
  BY <1>3, <1>10, <1>14, CeilDivFacts
<1>16. count * w \in Nat /\ w <= count * w
  <2>1. count - 1 \in Nat /\ count * w = w + (count - 1) * w
    BY <1>3, <1>15
  <2>2. (count - 1) * w \in Nat
    BY <1>3, <2>1
  <2> QED BY <1>3, <2>1, <2>2
<1>17. total + count * w \in Nat /\ total + count * w # 0 /\ w + total <= total + count * w
  BY <1>3, <1>10, <1>16
<1>18. Cardinality(PagesBelow(t, n)) <= total + count * w
  BY <1>3, <1>10, <1>13, <1>17
<1>19. count = 1 => Cardinality(PagesBelow(t, n)) <= CapacityAt(t, n)
  BY <1>3, <1>10, <1>13, <1>15
<1> QED BY <1>2, <1>13, <1>15, <1>17, <1>18, <1>19 DEF RightBound

LEMMA BoundsRight ==
  ASSUME NEW t, NEW N \in Nat, Rooted(t, N), Spread(t), OnlyRootEmpty(t), MaxGuestSize <= Capacity
  PROVE  \A n \in DOMAIN t : RightBound(t, n, LowerBounds(t)[n])
<1> DEFINE Right(n) == RightBound(t, n, LowerBounds(t)[n])
           S == {k \in Nat : \A n \in DOMAIN t : n = N - k => Right(n)}
<1>1. /\ \A n \in DOMAIN t : n \in Nat /\ n < N
      /\ \A n \in DOMAIN t : \A c \in t[n].children : c \in DOMAIN t /\ n < c
  BY SubtreeOfChildren DEF Rooted
<1>2. ASSUME NEW k \in Nat, \A m \in Nat : m < k => m \in S PROVE k \in S
  <2> SUFFICES ASSUME NEW n \in DOMAIN t, n = N - k PROVE Right(n)
    OBVIOUS
  <2>1. LowerBounds(t)[n] = BoundOf(t, LowerBounds(t), n)
    BY BoundsUnfold
  <2>2. ASSUME NEW c \in t[n].children PROVE Right(c)
    <3>1. c \in DOMAIN t /\ c \in Nat /\ n < c /\ c < N /\ n \in Nat
      BY <1>1
    <3>2. N - c \in Nat /\ N - c < k /\ c = N - (N - c)
      BY <3>1
    <3> QED BY <1>2, <3>1, <3>2
  <2>3. RightBound(t, n, BoundOf(t, LowerBounds(t), n))
    BY <2>2, BoundOfLeaf, BoundOfInner
  <2> QED BY <2>1, <2>3
<1>3. Nat \subseteq S
  <2> HIDE DEF S
  <2> QED BY <1>2, SmallerFirst
<1>4. ASSUME NEW n \in DOMAIN t PROVE Right(n)
  <2>1. N - n \in Nat /\ n = N - (N - n)
    BY <1>1
  <2> QED BY <1>3, <2>1
<1> QED BY <1>4

-----------------------------------------------------------------------------
(* What the solver returns. *)

(* What is left of a tree is as well formed as the tree.                   *)
LEMMA WorkingTreeRight ==
  ASSUME IInv, phase # "building", OnlyRootEmpty(tree)
  PROVE  /\ Count \in Nat /\ Rooted(workingTree, Count) /\ Spread(workingTree)
         /\ OnlyRootEmpty(workingTree)
<1>1. /\ Count \in Nat /\ Rooted(tree, Count) /\ Rooted(workingTree, Count)
      /\ Spread(tree) /\ PartOf(workingTree, tree)
  BY DEF IInv, TreesRight
<1>2. Spread(workingTree)
  BY <1>1, PartFacts
<1>3. OnlyRootEmpty(workingTree)
  BY <1>1 DEF PartOf, OnlyRootEmpty
<1> QED BY <1>1, <1>2, <1>3

(* When one host is not enough for what is left, there is a subtree to     *)
(* pack.                                                                   *)
LEMMA CandidateExists ==
  ASSUME NEW N \in Nat, Rooted(workingTree, N), Spread(workingTree), OnlyRootEmpty(workingTree),
         MaxGuestSize <= Capacity, LowerBounds(workingTree)[Root].count # 1
  PROVE  Candidates # {}
<1> DEFINE t == workingTree
           count(n) == LowerBounds(t)[n].count
           S == {k \in Nat : \A n \in DOMAIN t : n = N - k => count(n) <= 1}
<1> SUFFICES ASSUME Candidates = {} PROVE FALSE
  OBVIOUS
<1>1. /\ \A n \in DOMAIN t : n \in Nat /\ n < N
      /\ \A n \in DOMAIN t : \A c \in t[n].children : c \in DOMAIN t /\ n < c
  BY SubtreeOfChildren DEF Rooted
<1>2. \A n \in DOMAIN t : count(n) \in Nat \ {0}
  BY BoundsRight DEF RightBound
<1>3. ASSUME NEW k \in Nat, \A m \in Nat : m < k => m \in S PROVE k \in S
  <2> SUFFICES ASSUME NEW n \in DOMAIN t, n = N - k PROVE count(n) <= 1
    OBVIOUS
  <2>1. ASSUME NEW c \in t[n].children PROVE count(c) <= 1
    <3>1. c \in DOMAIN t /\ c \in Nat /\ n < c /\ c < N /\ n \in Nat
      BY <1>1
    <3>2. N - c \in Nat /\ N - c < k /\ c = N - (N - c)
      BY <3>1
    <3> QED BY <1>3, <3>1, <3>2
  <2>2. ~(count(n) > 1)
    BY <2>1 DEF Candidates
  <2> HIDE DEF count
  <2> QED BY <1>2, <2>2
<1>4. Nat \subseteq S
  <2> HIDE DEF S
  <2> QED BY <1>3, SmallerFirst
<1>5. Root \in DOMAIN t /\ N - Root \in Nat /\ Root = N - (N - Root)
  BY DEF Rooted, Root
<1>6. count(Root) <= 1
  BY <1>4, <1>5
<1> HIDE DEF count
<1>7. count(Root) # 1
  BY DEF count
<1> QED BY <1>2, <1>5, <1>6, <1>7

RInv ==
    OnlyRootEmpty(tree) => phase \notin {"thrown", "undefined"} /\ BadHosts(hosts) = {}

LEMMA PackRestFits ==
  ASSUME IInv, IInv', RInv, PackRest, OnlyRootEmpty(tree), MaxGuestSize <= Capacity
  PROVE  BadHosts(hosts') = {}
<1> DEFINE t == workingTree
           rest == t[Root].guests
<1>1. /\ phase = "solving" /\ LowerBounds(t)[Root].count = 1
      /\ hosts' = IF rest = {} THEN hosts ELSE Append(hosts, HostOf(rest))
  BY DEF PackRest
<1>2. /\ Count \in Nat /\ Rooted(t, Count) /\ Spread(t) /\ OnlyRootEmpty(t)
      /\ Root \in DOMAIN t
  BY <1>1, WorkingTreeRight DEF Rooted
<1>3. BadHosts(hosts) = {}
  BY DEF RInv
<1>4. CASE rest = {}
  BY <1>1, <1>3, <1>4
<1>5. CASE rest # {}
  <2>1. /\ IsFiniteSet(PagesBelow(t, Root))
        /\ Cardinality(PagesBelow(t, Root)) <= CapacityAt(t, Root)
    BY <1>1, <1>2, BoundsRight DEF RightBound
  <2>2. CapacityAt(t, Root) = Capacity
    <3>1. Path(t, Root) \ {Root} = {}
      BY <1>2, PathFacts
    <3>2. AncestorPages(t, Root) = {}
      BY <3>1 DEF AncestorPages
    <3>3. CapacityAt(t, Root) = Capacity - Cardinality({})
      BY <1>2, <3>2, CapacityLeft
    <3> QED BY <3>3, FS_EmptySet, HostAssumption
  <2>3. PagesOf(rest) \subseteq PagesBelow(t, Root)
    <3>1. /\ rest = {leafGuests[l] : l \in DOMAIN leafGuests \cap Subtree(t, Root)}
          /\ PartOf(t, tree) /\ LeavesRight /\ Rooted(tree, Count)
      BY <1>1, <1>2 DEF IInv, TreesRight, CachesMatch
    <3>2. ASSUME NEW l \in DOMAIN leafGuests \cap Subtree(t, Root)
          PROVE  leafGuests[l].pages \subseteq PagesBelow(t, Root)
      <4>1. l \in DOMAIN t /\ Path(t, l) = Path(tree, l) /\ AncestorPages(t, l) = AncestorPages(tree, l)
        BY <1>2, <3>1, PartFacts DEF Subtree
      <4>2. leafGuests[l].pages = t[l].pages \cup AncestorPages(t, l)
        BY <3>1, <4>1 DEF LeavesRight, PartOf
      <4>3. Path(t, l) \subseteq Subtree(t, Root) /\ l \in Path(t, l)
        BY <1>2, <4>1, PathFacts DEF Subtree
      <4> QED BY <4>2, <4>3 DEF AncestorPages, PagesBelow
    <3> QED BY <3>1, <3>2 DEF PagesOf
  <2>4. rest \in SUBSET Guest
    BY <1>2 DEF Rooted, NodeSet
  <2> HIDE DEF rest, t
  <2>5. Cardinality(PagesOf(rest)) <= Capacity
    <3>1. /\ IsFiniteSet(PagesOf(rest)) /\ Cardinality(PagesOf(rest)) <= Cardinality(PagesBelow(t, Root))
      BY <2>1, <2>3, FS_Subset
    <3>2. Cardinality(PagesOf(rest)) \in Nat /\ Cardinality(PagesBelow(t, Root)) \in Nat
      BY <2>1, <3>1, FS_CardinalityType
    <3> QED BY <2>1, <2>2, <3>1, <3>2, HostAssumption
  <2>6. PICK h : h = HostOf(rest)
    OBVIOUS
  <2>7. IsHost(h) /\ FrequenciesMatch(h) /\ h.guests = rest
    BY <2>4, <2>6, HostOfMatches
  <2>8. ~IsOverfull(h)
    <3>1. Cardinality(PagesOf(rest)) \in Nat
      BY <2>4, GuestFinite, FS_CardinalityType
    <3> QED BY <2>5, <2>7, <3>1, OverfullMeans, HostAssumption
  <2>9. TrueHosts(hosts) /\ NoGuestTwice(hosts) /\ rest = Guests \ PlacedGuests(hosts)
    BY <1>1 DEF IInv, HostsRight, CachesMatch, rest, t
  <2>10. hosts' = AppendHost(hosts, h) /\ \A g \in h.guests : g \notin PlacedGuests(hosts)
    BY <1>1, <1>5, <2>6, <2>7, <2>9 DEF AppendHost
  <2>11. /\ DOMAIN hosts' = 1 .. Len(hosts) + 1
         /\ \A j \in 1 .. Len(hosts) : hosts'[j] = hosts[j]
         /\ hosts'[Len(hosts) + 1] = h
    BY <2>7, <2>9, <2>10, AppendHostTrue
  <2>12. DOMAIN hosts = 1 .. Len(hosts) /\ Len(hosts) \in Nat
    BY <2>9, LenProperties DEF TrueHosts
  <2>13. ASSUME NEW j \in DOMAIN hosts' PROVE hosts'[j].guests # {} /\ ~IsOverfull(hosts'[j])
    <3>1. CASE j = Len(hosts) + 1
      BY <1>5, <2>7, <2>8, <2>11, <3>1
    <3>2. CASE j # Len(hosts) + 1
      <4>1. j \in DOMAIN hosts /\ hosts'[j] = hosts[j]
        BY <2>11, <2>12, <3>2
      <4> QED BY <1>3, <4>1 DEF BadHosts
    <3> QED BY <3>1, <3>2
  <2> QED BY <2>13 DEF BadHosts
<1> QED BY <1>4, <1>5

LEMMA PackSubtreeFits ==
  ASSUME IInv, RInv, PackSubtree, OnlyRootEmpty(tree), MaxGuestSize <= Capacity
  PROVE  BadHosts(hosts') = {}
<1>1. PICK nid \in DOMAIN workingTree :
         \E guests \in SetToSeqs(workingTree[nid].guests) : hosts' = ProceedBy(solver, hosts, guests)
  BY DEF PackSubtree, Cheapest, Candidates
<1>2. PICK packed : packed = workingTree[nid].guests
  OBVIOUS
<1>3. PICK guests \in SetToSeqs(packed) : hosts' = ProceedBy(solver, hosts, guests)
  BY <1>1, <1>2
<1>4. /\ phase = "solving" /\ TrueHosts(hosts) /\ NoGuestTwice(hosts) /\ BadHosts(hosts) = {}
      /\ Count \in Nat /\ Rooted(workingTree, Count)
      /\ workingTree[Root].guests = Guests \ PlacedGuests(hosts)
      /\ \A n \in DOMAIN workingTree :
           workingTree[n].guests = {leafGuests[l] : l \in DOMAIN leafGuests \cap Subtree(workingTree, n)}
      /\ Spread(tree) /\ LeavesRight
  BY DEF PackSubtree, RInv, IInv, TreesRight, HostsRight, CachesMatch
<1>5. /\ packed \in SUBSET Guest /\ packed \cap PlacedGuests(hosts) = {}
      /\ \A g \in packed : \E l \in DOMAIN leafGuests : g = leafGuests[l]
  <2>1. /\ Subtree(workingTree, nid) \subseteq Subtree(workingTree, Root)
        /\ Root \in DOMAIN workingTree
    BY <1>4, PathFacts DEF Subtree, Rooted
  <2>2. packed \subseteq workingTree[Root].guests
    BY <1>2, <1>4, <2>1
  <2>3. workingTree[nid] \in NodeSet
    BY <1>4 DEF Rooted
  <2>4. packed = {leafGuests[l] : l \in DOMAIN leafGuests \cap Subtree(workingTree, nid)}
    BY <1>2, <1>4
  <2> QED BY <1>2, <1>4, <2>2, <2>3, <2>4 DEF NodeSet
<1>6. ASSUME NEW g \in packed PROVE Cardinality(g.pages) <= Capacity
  <2>1. PICK l \in DOMAIN leafGuests : g = leafGuests[l]
    BY <1>5
  <2>2. l \in DOMAIN tree /\ g.pages = tree[l].pages \cup AncestorPages(tree, l)
    BY <1>4, <2>1 DEF LeavesRight
  <2>3. Cardinality(g.pages) <= MaxGuestSize
    BY <1>4, <2>2 DEF Spread
  <2>4. Cardinality(g.pages) \in Nat
    <3>1. g \in Guest
      BY <1>5
    <3> QED BY <3>1, GuestFinite, FS_CardinalityType
  <2> QED BY <2>3, <2>4, HostAssumption
<1>7. TrueHosts(hosts) /\ NoGuestTwice(hosts) /\ BadHosts(hosts) = {}
  BY <1>4
<1> QED BY <1>3, <1>5, <1>6, <1>7, ProceedByPlaces

LEMMA ResultStep ==
  ASSUME IInv, IInv', RInv, [Next]_vars, MaxGuestSize <= Capacity
  PROVE  RInv'
<1> SUFFICES ASSUME OnlyRootEmpty(tree')
             PROVE  phase' \notin {"thrown", "undefined"} /\ BadHosts(hosts') = {}
  BY DEF RInv
<1>1. CASE phase = "building" /\ phase' \in {"building", "solving"} /\ hosts' = hosts
  <2>1. hosts = <<>>
    BY <1>1 DEF IInv, HostsRight
  <2>2. BadHosts(hosts) = {}
    BY <2>1, EmptyHosts DEF BadHosts
  <2> QED BY <1>1, <2>2
<1>2. ASSUME tree' = tree PROVE OnlyRootEmpty(tree)
  BY <1>2
<1>3. CASE \E parent \in DOMAIN tree, pages \in SUBSET Page :
              AddInnerNode(parent, pages) \/ AddLeafNode(parent, pages)
  <2>1. phase = "building" /\ phase' = phase /\ hosts' = hosts
    BY <1>3 DEF AddInnerNode, AddLeafNode, MayAdd
  <2> QED BY <1>1, <2>1
<1>4. CASE BuildTree
  <2>1. phase = "building" /\ phase' = "solving" /\ hosts' = hosts
    BY <1>4 DEF BuildTree
  <2> QED BY <1>1, <2>1
<1>5. CASE Throw
  <2>1. phase = "solving" /\ OnlyRootEmpty(tree) /\ Malformed(workingTree)
    BY <1>2, <1>5 DEF Throw
  <2> QED BY <2>1, WorkingTreeRight, NotMalformed
<1>6. CASE AskForNoNode
  <2>1. /\ phase = "solving" /\ OnlyRootEmpty(tree) /\ Candidates = {}
        /\ LowerBounds(workingTree)[Root].count # 1
    BY <1>2, <1>6 DEF AskForNoNode
  <2> QED BY <2>1, WorkingTreeRight, CandidateExists
<1>7. CASE PackRest
  <2>1. phase' = "returned" /\ OnlyRootEmpty(tree)
    BY <1>2, <1>7 DEF PackRest
  <2>2. BadHosts(hosts') = {}
    BY <1>7, <2>1, PackRestFits
  <2> QED BY <2>1, <2>2
<1>8. CASE PackSubtree
  <2>1. phase' \in {"solving", "returned"} /\ OnlyRootEmpty(tree)
    BY <1>2, <1>8 DEF PackSubtree
  <2>2. BadHosts(hosts') = {}
    BY <1>8, <2>1, PackSubtreeFits
  <2> QED BY <2>1, <2>2
<1>9. CASE UNCHANGED vars
  BY <1>9 DEF vars, RInv
<1> QED BY <1>3, <1>4, <1>5, <1>6, <1>7, <1>8, <1>9 DEF Next

(* When every guest fits a host, a tree in which only the root may have no *)
(* pages is solved: the bounds throw no error, there is always a subtree   *)
(* to pack, the rest fits one host, and the packing returned has every     *)
(* guest on one host and no host empty, overfull or with a wrong count     *)
(* (vmp_solvers.h:318-384).                                                *)
THEOREM TreeResultValid ==
  ASSUME MaxGuestSize <= Capacity
  PROVE  Spec => []ResultValid
<1>1. Init => RInv
  <2>1. Init => phase = "building" /\ hosts = <<>>
    BY DEF Init
  <2> QED BY <2>1, EmptyHosts DEF RInv, BadHosts
<1>2. IInv /\ IInv' /\ RInv /\ [Next]_vars => RInv'
  BY ResultStep
<1>3. IInv /\ RInv => ResultValid
  <2> SUFFICES ASSUME IInv, RInv, OnlyRootEmpty(tree) PROVE ReturnsValidPacking
    BY DEF ResultValid, OnlyRootEmpty
  <2> QED BY DEF IInv, HostsRight, RInv, ReturnsValidPacking, AllFrequenciesMatch, TrueHosts
<1> QED BY <1>1, <1>2, <1>3, TreeInvariant, PTL DEF Spec

-----------------------------------------------------------------------------
(* The bounds hold.  Take any assignment of the guests below a node to     *)
(* hosts that all fit: each node below uses at least as many hosts, and    *)
(* copies of pages on them, as its bound says.                             *)

HostsUsed(h, n) == {h[g] : g \in workingTree[n].guests}

(* The pages of the nodes from n on, once for each host they are on. *)
Copies(h, n) ==
    {x \in HostsUsed(h, n) \X PagesBelow(workingTree, n) :
        \E g \in workingTree[n].guests : h[g] = x[1] /\ x[2] \in g.pages}

(* Before anything is erased, from an exact tree.                          *)
Packable ==
    /\ phase = "solving" /\ workingTree = tree
    /\ IsExact /\ ~Malformed(tree)

(* The guests of a node and all nodes below it are assigned to hosts that  *)
(* do not become overfull.                                                 *)
Assigned(h, n, hs) ==
    /\ \A g \in workingTree[n].guests : h[g] \in hs
    /\ \A i \in hs : FitTogether({g \in workingTree[n].guests : h[g] = i})

Reaches(h, n, b) ==
    /\ b.size \in Nat /\ b.count \in Nat
    /\ HostsUsed(h, n) # {}
    /\ b.count <= Cardinality(HostsUsed(h, n))
    /\ b.size <= Cardinality(Copies(h, n))

LEMMA CeilDivLeast ==
  ASSUME NEW a \in Nat, NEW b \in Nat \ {0}, NEW u \in Nat, a <= b * u
  PROVE  CeilDiv(a, b) \in Nat /\ CeilDiv(a, b) <= u
<1>1. CeilDiv(a, b) \in Nat
  BY CeilDivFacts
<1> DEFINE q == (a + b - 1) \div b
           r == (a + b - 1) % b
<1>2. q \in Int /\ r \in 0 .. b - 1 /\ a + b - 1 = b * q + r
  OBVIOUS
<1>3. CeilDiv(a, b) = q
  BY DEF CeilDiv
<1> HIDE DEF q, r
<1>4. q <= u
  <2> SUFFICES ASSUME q >= u + 1 PROVE FALSE
    BY <1>2
  <2>1. PICK d \in Nat : q = u + 1 + d
    <3>1. q - u - 1 \in Nat /\ q = u + 1 + (q - u - 1)
      BY <1>2
    <3> QED BY <3>1
  <2>2. b * q = b * u + b + b * d /\ b * d \in Nat /\ b * u \in Nat
    BY <2>1
  <2> QED BY <1>2, <2>2
<1> QED BY <1>1, <1>3, <1>4

(* The guests of a node have the pages of its path, and those of its       *)
(* children among them.                                                    *)
LEMMA GuestsOfNode ==
  ASSUME IInv, Packable, NEW n \in DOMAIN workingTree
  PROVE  /\ \A c \in workingTree[n].children : workingTree[c].guests \subseteq workingTree[n].guests
         /\ \A g \in workingTree[n].guests :
               g \in Guest /\ workingTree[n].pages \cup AncestorPages(workingTree, n) \subseteq g.pages
         /\ IsLeafNode(workingTree, n) => \E g : workingTree[n].guests = {g}
<1> DEFINE t == workingTree
<1>1. Count \in Nat /\ Rooted(t, Count) /\ t = tree
  BY DEF IInv, TreesRight, Packable
<1>2. \A m \in DOMAIN t : t[m].guests = {leafGuests[l] : l \in DOMAIN leafGuests \cap Subtree(t, m)}
  BY DEF IInv, CachesMatch, Packable
<1>3. ASSUME NEW c \in t[n].children PROVE t[c].guests \subseteq t[n].guests
  <2>1. Subtree(t, c) \subseteq Subtree(t, n) /\ c \in DOMAIN t
    BY <1>1, SubtreeOfChildren
  <2> QED BY <1>2, <2>1
<1>4. ASSUME NEW g \in t[n].guests
      PROVE  g \in Guest /\ t[n].pages \cup AncestorPages(t, n) \subseteq g.pages
  <2>1. PICK l \in DOMAIN leafGuests \cap Subtree(t, n) : g = leafGuests[l]
    BY <1>2
  <2>2. g \in Guest /\ g.pages = t[l].pages \cup AncestorPages(t, l)
    BY <1>1, <2>1 DEF IInv, LeavesRight
  <2>3. Path(t, n) \subseteq Path(t, l) /\ n \in Path(t, n) /\ l \in Path(t, l)
    BY <1>1, <2>1, PathFacts DEF Subtree
  <2>4. g.pages = PagesOnPath(t, l)
    BY <2>2, <2>3 DEF AncestorPages, PagesOnPath
  <2>5. t[n].pages \cup AncestorPages(t, n) \subseteq PagesOnPath(t, l)
    BY <2>3 DEF AncestorPages, PagesOnPath
  <2> QED BY <2>2, <2>4, <2>5
<1>5. ASSUME IsLeafNode(t, n) PROVE \E g : t[n].guests = {g}
  <2>1. n \in DOMAIN leafGuests
    BY <1>1, <1>5 DEF Packable, IsExact
  <2>2. Subtree(t, n) = {n}
    BY <1>1, <1>5, SubtreeOfChildren DEF IsLeafNode
  <2>3. t[n].guests = {leafGuests[n]}
    BY <1>2, <2>1, <2>2
  <2> QED BY <2>3
<1> QED BY <1>3, <1>4, <1>5

(* In an exact tree nothing below a child is below another, or above.      *)
LEMMA ChildrenApart ==
  ASSUME IInv, Packable, NEW n \in DOMAIN workingTree
  PROVE  /\ \A c, d \in workingTree[n].children : c # d =>
               PagesBelow(workingTree, c) \cap PagesBelow(workingTree, d) = {}
         /\ \A c \in workingTree[n].children :
               /\ PagesBelow(workingTree, c) \subseteq PagesBelow(workingTree, n)
               /\ PagesBelow(workingTree, c)
                    \cap (workingTree[n].pages \cup AncestorPages(workingTree, n)) = {}
         /\ workingTree[n].pages \subseteq PagesBelow(workingTree, n)
<1> DEFINE t == workingTree
<1>1. Count \in Nat /\ Rooted(t, Count)
  BY DEF IInv, TreesRight
<1>2. \A k, m \in DOMAIN t : k # m => t[k].pages \cap t[m].pages = {}
  BY DEF Packable, IsExact
<1>3. /\ Subtree(t, n) = {n} \cup UNION {Subtree(t, c) : c \in t[n].children}
      /\ \A c \in t[n].children : c \in DOMAIN t /\ c # Root /\ t[c].parent = n /\ n < c
  BY <1>1, SubtreeOfChildren
<1>4. \A m \in DOMAIN t : m \in Nat /\ Path(t, m) \subseteq DOMAIN t
  BY <1>1, PathFacts DEF Rooted
<1>5. \A c \in t[n].children : Path(t, c) = {c} \cup Path(t, n)
  BY <1>1, <1>3, PathFacts
<1>6. ASSUME NEW c \in t[n].children, NEW k \in Subtree(t, c)
      PROVE  k \in DOMAIN t /\ k \notin Path(t, n)
  <2>1. k \in DOMAIN t /\ c \in Path(t, k)
    BY DEF Subtree
  <2>2. c <= k
    BY <1>1, <2>1, PathFacts
  <2>3. \A m \in Path(t, n) : m <= n
    BY <1>1, PathFacts
  <2> QED BY <1>3, <1>4, <2>1, <2>2, <2>3
<1>7. ASSUME NEW c \in t[n].children, NEW d \in t[n].children, c # d
      PROVE  Subtree(t, c) \cap Subtree(t, d) = {}
  <2> SUFFICES ASSUME NEW k \in DOMAIN t, c \in Path(t, k), d \in Path(t, k) PROVE FALSE
    BY DEF Subtree
  <2>1. c \in Path(t, d) \/ d \in Path(t, c)
    BY <1>1, PathsAreChains
  <2>2. c \in Path(t, n) \/ d \in Path(t, n)
    BY <1>5, <1>7, <2>1
  <2>3. c \in Subtree(t, c) /\ d \in Subtree(t, d)
    BY <1>1, <1>3, PathFacts DEF Subtree
  <2> QED BY <1>6, <2>2, <2>3
<1>8. ASSUME NEW c \in t[n].children, NEW d \in t[n].children, c # d
      PROVE  PagesBelow(t, c) \cap PagesBelow(t, d) = {}
  <2> SUFFICES ASSUME NEW k \in Subtree(t, c), NEW m \in Subtree(t, d)
               PROVE  t[k].pages \cap t[m].pages = {}
    BY DEF PagesBelow
  <2> QED BY <1>2, <1>6, <1>7, <1>8
<1>9. ASSUME NEW c \in t[n].children
      PROVE  PagesBelow(t, c) \cap (t[n].pages \cup AncestorPages(t, n)) = {}
  <2> SUFFICES ASSUME NEW k \in Subtree(t, c), NEW m \in Path(t, n)
               PROVE  t[k].pages \cap t[m].pages = {}
    <3>1. n \in Path(t, n)
      BY <1>1, PathFacts
    <3> QED BY <3>1 DEF PagesBelow, AncestorPages
  <2> QED BY <1>2, <1>4, <1>6
<1>10. /\ \A c \in t[n].children : PagesBelow(t, c) \subseteq PagesBelow(t, n)
       /\ t[n].pages \subseteq PagesBelow(t, n)
  BY <1>3 DEF PagesBelow
<1> QED BY <1>8, <1>9, <1>10

LEMMA CopiesFinite ==
  ASSUME IInv, NEW n \in DOMAIN workingTree, NEW h, NEW hs, IsFiniteSet(hs), Assigned(h, n, hs)
  PROVE  /\ HostsUsed(h, n) \subseteq hs /\ IsFiniteSet(HostsUsed(h, n))
         /\ IsFiniteSet(Copies(h, n))
<1>1. HostsUsed(h, n) \subseteq hs
  BY DEF Assigned, HostsUsed
<1>2. IsFiniteSet(HostsUsed(h, n))
  BY <1>1, FS_Subset
<1>3. PagesBelow(workingTree, n) \subseteq Page
  BY DEF IInv, TreesRight, Rooted, NodeSet, PagesBelow, Subtree
<1>4. IsFiniteSet(PagesBelow(workingTree, n))
  BY <1>3, HostAssumption, FS_Subset
<1>5. IsFiniteSet(HostsUsed(h, n) \X PagesBelow(workingTree, n))
  BY <1>2, <1>4, FS_Product
<1>6. Copies(h, n) \subseteq HostsUsed(h, n) \X PagesBelow(workingTree, n)
  BY DEF Copies
<1> QED BY <1>1, <1>2, <1>5, <1>6, FS_Subset

(* An assignment for a node is one for its children. *)
LEMMA AssignedBelow ==
  ASSUME IInv, Packable, NEW n \in DOMAIN workingTree, NEW h, NEW hs, Assigned(h, n, hs),
         NEW c \in workingTree[n].children
  PROVE  /\ Assigned(h, c, hs) /\ c \in DOMAIN workingTree
         /\ HostsUsed(h, c) \subseteq HostsUsed(h, n) /\ Copies(h, c) \subseteq Copies(h, n)
<1>1. /\ workingTree[c].guests \subseteq workingTree[n].guests
      /\ \A g \in workingTree[n].guests : g \in Guest
  BY GuestsOfNode
<1>2. PagesBelow(workingTree, c) \subseteq PagesBelow(workingTree, n)
  BY ChildrenApart
<1>3. HostsUsed(h, c) \subseteq HostsUsed(h, n)
  BY <1>1 DEF HostsUsed
<1>4. Copies(h, c) \subseteq Copies(h, n)
  BY <1>1, <1>2, <1>3 DEF Copies
<1>5. ASSUME NEW i \in hs PROVE FitTogether({g \in workingTree[c].guests : h[g] = i})
  <2>1. PICK few, many : /\ few = {g \in workingTree[c].guests : h[g] = i}
                         /\ many = {g \in workingTree[n].guests : h[g] = i}
    OBVIOUS
  <2>2. few \subseteq many /\ many \subseteq Guest
    BY <1>1, <2>1
  <2>3. PagesOf(few) \subseteq PagesOf(many)
    BY <2>2 DEF PagesOf
  <2>4. IsFiniteSet(PagesOf(many))
    BY <2>2, GuestFinite
  <2>5. Cardinality(PagesOf(many)) <= Capacity
    BY <2>1 DEF Assigned, FitTogether
  <2>6. /\ Cardinality(PagesOf(few)) <= Cardinality(PagesOf(many))
        /\ Cardinality(PagesOf(few)) \in Nat /\ Cardinality(PagesOf(many)) \in Nat
    BY <2>3, <2>4, FS_Subset, FS_CardinalityType
  <2>7. Cardinality(PagesOf(few)) <= Capacity
    BY <2>5, <2>6, HostAssumption
  <2> QED BY <2>1, <2>7 DEF FitTogether
<1>6. Assigned(h, c, hs)
  BY <1>1, <1>5 DEF Assigned
<1>7. Count \in Nat /\ Rooted(workingTree, Count)
  BY DEF IInv, TreesRight
<1> QED BY <1>3, <1>4, <1>6, <1>7, SubtreeOfChildren

(* The pages of a node come once for each host it uses. *)
LEMMA OwnCopies ==
  ASSUME IInv, Packable, NEW n \in DOMAIN workingTree, NEW h
  PROVE  HostsUsed(h, n) \X workingTree[n].pages \subseteq Copies(h, n)
<1> SUFFICES ASSUME NEW i \in HostsUsed(h, n), NEW p \in workingTree[n].pages
             PROVE  <<i, p>> \in Copies(h, n)
  OBVIOUS
<1>1. PICK g \in workingTree[n].guests : i = h[g]
  BY DEF HostsUsed
<1>2. p \in g.pages /\ p \in PagesBelow(workingTree, n)
  BY GuestsOfNode, ChildrenApart
<1> QED BY <1>1, <1>2 DEF Copies

LEMMA LeafReaches ==
  ASSUME IInv, Packable, NEW n \in DOMAIN workingTree, IsLeafNode(workingTree, n), NEW bounds,
         NEW h, NEW hs, IsFiniteSet(hs), Assigned(h, n, hs)
  PROVE  Reaches(h, n, BoundOf(workingTree, bounds, n))
<1> DEFINE own == workingTree[n].pages
<1>1. BoundOf(workingTree, bounds, n) = [size |-> Weight(workingTree, n), count |-> 1]
  BY DEF BoundOf
<1>2. PICK i : HostsUsed(h, n) = {i}
  <2>1. PICK g : workingTree[n].guests = {g}
    BY GuestsOfNode
  <2> QED BY <2>1 DEF HostsUsed
<1>3. Cardinality(HostsUsed(h, n)) = 1 /\ IsFiniteSet(HostsUsed(h, n))
  BY <1>2, FS_Singleton
<1>4. IsFiniteSet(own) /\ Weight(workingTree, n) \in Nat /\ Cardinality(own) = Weight(workingTree, n)
  <2>1. Rooted(workingTree, Count)
    BY DEF IInv, TreesRight
  <2>2. own \subseteq Page
    BY <2>1 DEF Rooted, NodeSet
  <2>3. IsFiniteSet(own)
    BY <2>2, HostAssumption, FS_Subset
  <2> QED BY <2>3, FS_CardinalityType DEF Weight
<1>5. Cardinality(HostsUsed(h, n) \X own) = 1 * Weight(workingTree, n)
  BY <1>3, <1>4, FS_Product
<1>6. Cardinality(HostsUsed(h, n) \X own) <= Cardinality(Copies(h, n))
  BY OwnCopies, CopiesFinite, FS_Subset
<1>7. Weight(workingTree, n) <= Cardinality(Copies(h, n))
  BY <1>4, <1>5, <1>6
<1> QED BY <1>1, <1>2, <1>3, <1>4, <1>7 DEF Reaches

(* One host holds, of the pages below the children of a node, no more than *)
(* the node leaves room for: a guest there brings all pages of the path.   *)
LEMMA CopiesOnOneHost ==
  ASSUME IInv, Packable, NEW n \in DOMAIN workingTree,
         NEW h, NEW hs, IsFiniteSet(hs), Assigned(h, n, hs), NEW i \in HostsUsed(h, n),
         NEW B, \A x \in B : \E c \in workingTree[n].children : x \in Copies(h, c)
  PROVE  /\ IsFiniteSet({x \in B : x[1] = i})
         /\ Cardinality({x \in B : x[1] = i})
              <= CapacityAt(workingTree, n) - Weight(workingTree, n)
<1> DEFINE t == workingTree
           group == {g \in t[n].guests : h[g] = i}
           path == t[n].pages \cup AncestorPages(t, n)
           below == {x[2] : x \in {y \in B : y[1] = i}}
<1>1. Count \in Nat /\ Rooted(t, Count) /\ Spread(t)
  BY DEF IInv, TreesRight, Packable
<1>2. group \subseteq Guest /\ \A g \in group : path \subseteq g.pages
  BY GuestsOfNode
<1>3. PICK g0 \in group : TRUE
  BY DEF HostsUsed
<1>4. path \subseteq PagesOf(group)
  BY <1>2, <1>3 DEF PagesOf
<1>5. ASSUME NEW x \in B, x[1] = i
      PROVE  x = <<i, x[2]>> /\ x[2] \in PagesOf(group) /\ x[2] \notin path
  <2>1. PICK c \in t[n].children : x \in Copies(h, c)
    OBVIOUS
  <2>2. /\ x \in HostsUsed(h, c) \X PagesBelow(t, c)
        /\ \E g \in t[c].guests : h[g] = x[1] /\ x[2] \in g.pages
    BY <2>1 DEF Copies
  <2>3. x = <<i, x[2]>> /\ x[2] \in PagesBelow(t, c)
    BY <1>5, <2>2
  <2>4. x[2] \notin path
    BY <2>3, ChildrenApart
  <2>5. x[2] \in PagesOf(group)
    BY <1>5, <2>2, GuestsOfNode DEF PagesOf
  <2> QED BY <2>3, <2>4, <2>5
<1>6. below \subseteq PagesOf(group) /\ below \cap path = {}
  BY <1>5
<1>7. {x \in B : x[1] = i} \subseteq {i} \X below
  <2> SUFFICES ASSUME NEW x \in B, x[1] = i PROVE x \in {i} \X below
    OBVIOUS
  <2>1. x[2] \in below
    OBVIOUS
  <2> HIDE DEF below
  <2>2. <<i, x[2]>> \in {i} \X below
    BY <2>1
  <2> QED BY <1>5, <2>2
<1> PICK own, above, G, D :
      /\ own = Weight(t, n) /\ above = Cardinality(AncestorPages(t, n))
      /\ G = PagesOf(group) /\ D = below
  OBVIOUS
<1>8. IsFiniteSet(G) /\ Cardinality(G) <= Capacity
  <2>1. i \in hs
    BY DEF HostsUsed, Assigned
  <2>2. FitTogether(group)
    BY <2>1 DEF Assigned
  <2> QED BY <1>2, <2>2, GuestFinite DEF FitTogether
<1>9. /\ own \in Nat /\ above \in Nat /\ Cardinality(path) = own + above
      /\ CapacityAt(t, n) = Capacity - above
  BY <1>1, CapacityLeft
<1> HIDE DEF below, path, group
<1>10. IsFiniteSet(path) /\ IsFiniteSet(D)
  BY <1>4, <1>6, <1>8, FS_Subset
<1>11. Cardinality(path \cup D) = own + above + Cardinality(D)
  <2>1. path \cap D = {}
    BY <1>6
  <2>2. Cardinality(path \cap D) = 0
    BY <2>1, FS_EmptySet
  <2>3. Cardinality(path \cup D) = Cardinality(path) + Cardinality(D) - Cardinality(path \cap D)
    BY <1>10, FS_Union
  <2> QED BY <1>9, <1>10, <2>2, <2>3, FS_CardinalityType
<1>12. Cardinality(path \cup D) <= Cardinality(G)
  <2>1. path \cup D \in SUBSET G
    BY <1>4, <1>6
  <2> QED BY <1>8, <2>1, FS_Subset
<1>13. Cardinality(D) \in Nat /\ Cardinality(G) \in Nat
  BY <1>8, <1>10, FS_CardinalityType
<1>14. Cardinality(D) <= CapacityAt(t, n) - own
  BY <1>8, <1>9, <1>11, <1>12, <1>13, HostAssumption
<1>15. /\ IsFiniteSet({i} \X D) /\ Cardinality({i} \X D) = Cardinality(D)
  <2>1. IsFiniteSet({i}) /\ Cardinality({i}) = 1
    BY FS_Singleton
  <2>2. IsFiniteSet({i} \X D) /\ Cardinality({i} \X D) = 1 * Cardinality(D)
    BY <1>10, <2>1, FS_Product
  <2> QED BY <1>13, <2>2
<1>16. PICK X : X = {x \in B : x[1] = i}
  OBVIOUS
<1>17. IsFiniteSet(X) /\ Cardinality(X) <= Cardinality({i} \X D)
  BY <1>7, <1>15, <1>16, FS_Subset
<1>18. Cardinality(X) \in Nat
  BY <1>17, FS_CardinalityType
<1>19. Cardinality(X) <= CapacityAt(t, n) - own
  BY <1>9, <1>13, <1>14, <1>15, <1>17, <1>18, HostAssumption
<1> QED BY <1>16, <1>17, <1>19

LEMMA InnerReaches ==
  ASSUME IInv, Packable, NEW n \in DOMAIN workingTree, ~IsLeafNode(workingTree, n), NEW bounds,
         NEW h, NEW hs, IsFiniteSet(hs), Assigned(h, n, hs),
         \A c \in workingTree[n].children : Reaches(h, c, bounds[c])
  PROVE  Reaches(h, n, BoundOf(workingTree, bounds, n))
<1> DEFINE t == workingTree
<1>1. PICK total, count, w, room, C, U :
         /\ total = TotalSize(t, bounds, n) /\ count = HostsNeeded(t, bounds, n)
         /\ w = Weight(t, n) /\ room = CapacityAt(t, n) - w
         /\ C = t[n].children /\ U = HostsUsed(h, n)
  OBVIOUS
<1>2. BoundOf(t, bounds, n) = [size |-> total + count * w, count |-> count]
  BY <1>1 DEF BoundOf
<1>3. Count \in Nat /\ Rooted(t, Count) /\ Spread(t)
  BY DEF IInv, TreesRight, Packable
<1>4. w \in Nat /\ room \in Nat \ {0}
  <2>1. /\ w \in Nat /\ CapacityAt(t, n) = Capacity - Cardinality(AncestorPages(t, n))
        /\ Cardinality(AncestorPages(t, n)) \in Nat
    BY <1>1, <1>3, CapacityLeft
  <2>2. ~(w >= CapacityAt(t, n))
    BY <1>1 DEF Packable, Malformed
  <2> QED BY <1>1, <2>1, <2>2, HostAssumption
<1>5. C # {} /\ IsFiniteSet(C)
  <2>1. C \subseteq DOMAIN t
    BY <1>1, <1>3, SubtreeOfChildren
  <2> QED BY <1>1, <1>3, <2>1, PathFacts, FS_Subset DEF IsLeafNode
<1>6. IsFiniteSet(U) /\ IsFiniteSet(Copies(h, n)) /\ Cardinality(U) \in Nat
  BY <1>1, CopiesFinite, FS_CardinalityType
<1>7. ASSUME NEW c \in C
      PROVE  /\ Copies(h, c) \subseteq Copies(h, n) /\ IsFiniteSet(Copies(h, c))
             /\ HostsUsed(h, c) \subseteq U
  BY <1>1, <1>6, AssignedBelow, FS_Subset
<1>8. U # {}
  <2>1. PICK c \in C : TRUE
    BY <1>5
  <2>2. HostsUsed(h, c) # {}
    BY <1>1 DEF Reaches
  <2> QED BY <1>7, <2>1, <2>2
<1> DEFINE sizes == [c \in C |-> bounds[c].size]
           copies == [c \in C |-> Copies(h, c)]
           B == AllOf(copies, C)
<1>9. \A c \in C : sizes[c] \in Nat /\ IsFiniteSet(copies[c]) /\ sizes[c] <= Cardinality(copies[c])
  BY <1>1, <1>7 DEF Reaches
<1>10. \A c, d \in C : c # d => copies[c] \cap copies[d] = {}
  <2> SUFFICES ASSUME NEW c \in C, NEW d \in C, c # d PROVE Copies(h, c) \cap Copies(h, d) = {}
    OBVIOUS
  <2>1. PagesBelow(t, c) \cap PagesBelow(t, d) = {}
    BY <1>1, ChildrenApart
  <2>2. /\ \A x \in Copies(h, c) : x[2] \in PagesBelow(t, c)
        /\ \A x \in Copies(h, d) : x[2] \in PagesBelow(t, d)
    BY DEF Copies
  <2> QED BY <2>1, <2>2
<1>11. total = SumFunctionOnSet(sizes, C)
  BY <1>1 DEF TotalSize, SumFunction
<1>12. B \subseteq Copies(h, n) /\ \A x \in B : x[1] \in U /\ \E c \in C : x \in Copies(h, c)
  <2> SUFFICES ASSUME NEW c \in C, NEW x \in Copies(h, c) PROVE x \in Copies(h, n) /\ x[1] \in U
    BY DEF AllOf
  <2>1. x[1] \in HostsUsed(h, c)
    BY DEF Copies
  <2> QED BY <1>7, <2>1
<1> HIDE DEF sizes, copies
<1>13. total \in Nat /\ IsFiniteSet(B) /\ total <= Cardinality(B)
  <2>1. /\ \A c \in C : sizes[c] \in Nat
        /\ \A c \in C : IsFiniteSet(copies[c])
        /\ \A c \in C : sizes[c] <= Cardinality(copies[c])
    BY <1>9
  <2>2. total \in Nat
    BY <1>5, <1>11, <2>1, SumOfNaturals
  <2> QED BY <1>5, <1>10, <1>11, <2>1, <2>2, SumOfSizes
<1> HIDE DEF B
<1>14. Cardinality(B) <= room * Cardinality(U)
  <2> DEFINE at == [i \in U |-> {x \in B : x[1] = i}]
             rooms == [i \in U |-> room]
  <2>1. \A i \in U : IsFiniteSet(at[i]) /\ Cardinality(at[i]) <= rooms[i]
    BY <1>1, <1>12, CopiesOnOneHost
  <2>2. \A i \in U : rooms[i] = room /\ rooms[i] \in Nat
    BY <1>4
  <2>3. AllOf(at, U) = B
    BY <1>12 DEF AllOf
  <2> HIDE DEF at, rooms
  <2>4. SumFunctionOnSet(rooms, U) = room * Cardinality(U)
    BY <1>4, <1>6, <2>2, SumOfEqual
  <2>5. /\ \A i \in U : IsFiniteSet(at[i])
        /\ \A i \in U : Cardinality(at[i]) <= rooms[i]
        /\ \A i \in U : rooms[i] \in Nat
    BY <2>1, <2>2
  <2>6. Cardinality(AllOf(at, U)) <= SumFunctionOnSet(rooms, U)
    BY <1>6, <2>5, SumOfSizes
  <2> QED BY <2>3, <2>4, <2>6
<1>15. count \in Nat /\ count <= Cardinality(U)
  <2>1. count = CeilDiv(total, room)
    BY <1>1 DEF HostsNeeded
  <2>2. PICK u \in Nat : u = Cardinality(U)
    BY <1>6
  <2>3. room * u \in Nat /\ Cardinality(B) \in Nat
    BY <1>4, <1>13, FS_CardinalityType
  <2>4. total <= room * u
    BY <1>13, <1>14, <2>2, <2>3
  <2> QED BY <1>4, <1>13, <2>1, <2>2, <2>4, CeilDivLeast
<1>16. PICK O : O = U \X t[n].pages
  OBVIOUS
<1>17. /\ IsFiniteSet(O) /\ Cardinality(O) = Cardinality(U) * w
       /\ O \subseteq Copies(h, n)
  <2>1. IsFiniteSet(t[n].pages) /\ Cardinality(t[n].pages) = w
    BY <1>1, <1>3, CapacityLeft DEF Weight
  <2>2. O \subseteq Copies(h, n)
    BY <1>1, <1>16, OwnCopies
  <2> QED BY <1>6, <1>16, <2>1, <2>2, FS_Product
<1>18. O \cap B = {}
  <2> SUFFICES ASSUME NEW x \in O, x \in B PROVE FALSE
    OBVIOUS
  <2>1. PICK c \in C : x \in Copies(h, c)
    BY <1>12
  <2>2. x[2] \in PagesBelow(t, c) /\ x[2] \in t[n].pages
    BY <1>16, <2>1 DEF Copies
  <2> QED BY <1>1, <2>2, ChildrenApart
<1>19. Cardinality(O) + Cardinality(B) <= Cardinality(Copies(h, n))
  <2>1. O \cup B \in SUBSET Copies(h, n)
    BY <1>12, <1>17
  <2>2. Cardinality(O \cup B) <= Cardinality(Copies(h, n))
    BY <1>6, <2>1, FS_Subset
  <2>3. Cardinality(O \cap B) = 0
    BY <1>18, FS_EmptySet
  <2>4. Cardinality(O \cup B) = Cardinality(O) + Cardinality(B) - Cardinality(O \cap B)
    BY <1>13, <1>17, FS_Union
  <2>5. Cardinality(O) \in Nat /\ Cardinality(B) \in Nat
    BY <1>13, <1>17, FS_CardinalityType
  <2> QED BY <2>2, <2>3, <2>4, <2>5
<1>20. count * w \in Nat /\ count * w <= Cardinality(O)
  <2>1. PICK d \in Nat : Cardinality(U) = count + d
    <3>1. Cardinality(U) - count \in Nat /\ Cardinality(U) = count + (Cardinality(U) - count)
      BY <1>6, <1>15
    <3> QED BY <3>1
  <2>2. (count + d) * w = count * w + d * w /\ count * w \in Nat /\ d * w \in Nat
    BY <1>4, <1>15
  <2> QED BY <1>17, <2>1, <2>2
<1>21. total + count * w \in Nat /\ total + count * w <= Cardinality(Copies(h, n))
  <2>1. Cardinality(O) \in Nat /\ Cardinality(B) \in Nat /\ Cardinality(Copies(h, n)) \in Nat
    BY <1>6, <1>13, <1>17, FS_CardinalityType
  <2> QED BY <1>13, <1>19, <1>20, <2>1
<1> QED BY <1>1, <1>2, <1>8, <1>15, <1>21 DEF Reaches

LEMMA BoundsReached ==
  ASSUME IInv, Packable, NEW h, NEW hs, IsFiniteSet(hs)
  PROVE  \A n \in DOMAIN workingTree :
            Assigned(h, n, hs) => Reaches(h, n, LowerBounds(workingTree)[n])
<1> DEFINE t == workingTree
           Right(n) == Assigned(h, n, hs) => Reaches(h, n, LowerBounds(t)[n])
           S == {k \in Nat : \A n \in DOMAIN t : n = Count - k => Right(n)}
<1>1. Count \in Nat /\ Rooted(t, Count)
  BY DEF IInv, TreesRight
<1>2. /\ \A n \in DOMAIN t : n \in Nat /\ n < Count
      /\ \A n \in DOMAIN t : \A c \in t[n].children : c \in DOMAIN t /\ n < c
  BY <1>1, SubtreeOfChildren DEF Rooted
<1>3. ASSUME NEW k \in Nat, \A m \in Nat : m < k => m \in S PROVE k \in S
  <2> SUFFICES ASSUME NEW n \in DOMAIN t, n = Count - k, Assigned(h, n, hs)
               PROVE  Reaches(h, n, LowerBounds(t)[n])
    OBVIOUS
  <2>1. LowerBounds(t)[n] = BoundOf(t, LowerBounds(t), n)
    BY <1>1, BoundsUnfold
  <2>2. ASSUME NEW c \in t[n].children PROVE Reaches(h, c, LowerBounds(t)[c])
    <3>1. c \in DOMAIN t /\ c \in Nat /\ n < c /\ c < Count /\ n \in Nat
      BY <1>2
    <3>2. Count - c \in Nat /\ Count - c < k /\ c = Count - (Count - c)
      BY <1>1, <3>1
    <3>3. Right(c)
      BY <1>3, <3>1, <3>2
    <3> QED BY <3>3, AssignedBelow
  <2>3. Reaches(h, n, BoundOf(t, LowerBounds(t), n))
    BY <2>2, LeafReaches, InnerReaches
  <2> QED BY <2>1, <2>3
<1>4. Nat \subseteq S
  <2> HIDE DEF S
  <2> QED BY <1>3, SmallerFirst
<1>5. ASSUME NEW n \in DOMAIN t PROVE Right(n)
  <2>1. Count - n \in Nat /\ n = Count - (Count - n)
    BY <1>1, <1>2
  <2> QED BY <1>4, <2>1
<1> QED BY <1>5

(* In an exact tree the guests of a subtree cannot be packed on fewer      *)
(* hosts than its bound says (vmp_solverutils.cpp:124-129).                *)
THEOREM TreeLowerBoundsHold == Spec => []LowerBoundsHold
<1>1. ASSUME IInv PROVE LowerBoundsHold
  <2> SUFFICES ASSUME Packable, NEW n \in DOMAIN tree,
                      NEW host \in [tree[n].guests -> 1 .. LowerBounds(tree)[n].count - 1],
                      \A i \in 1 .. LowerBounds(tree)[n].count - 1 :
                         FitTogether({g \in tree[n].guests : host[g] = i})
               PROVE  FALSE
    BY DEF LowerBoundsHold, Packable
  <2>1. PICK count, used : count = LowerBounds(tree)[n].count /\ used = HostsUsed(host, n)
    OBVIOUS
  <2>2. workingTree = tree
    BY DEF Packable
  <2>3. used = {host[g] : g \in tree[n].guests} /\ used \subseteq 1 .. count - 1
    BY <2>1, <2>2 DEF HostsUsed
  <2>4. IsFiniteSet(used)
    <3>1. tree[n].guests \subseteq Guest
      BY <1>1, <2>2, GuestsOfNode
    <3>2. IsFiniteSet(tree[n].guests)
      BY <3>1, GuestFinite
    <3>3. host \in Surjection(tree[n].guests, used)
      BY <2>3 DEF Surjection
    <3> QED BY <3>2, <3>3, FS_Surjection
  <2>5. Assigned(host, n, used)
    BY <2>1, <2>2, <2>3 DEF Assigned
  <2>6. Reaches(host, n, LowerBounds(tree)[n])
    BY <1>1, <2>2, <2>4, <2>5, BoundsReached
  <2>7. count \in Nat /\ used # {} /\ count <= Cardinality(used)
    BY <2>1, <2>6 DEF Reaches
  <2>8. count - 1 \in Nat
    BY <2>3, <2>7
  <2>9. Cardinality(used) <= count - 1
    <3>1. IsFiniteSet(1 .. count - 1) /\ Cardinality(1 .. count - 1) = count - 1
      BY <2>8, FS_Interval
    <3> QED BY <2>3, <3>1, FS_Subset
  <2>10. Cardinality(used) \in Nat
    BY <2>4, FS_CardinalityType
  <2> QED BY <2>7, <2>8, <2>9, <2>10
<1> QED BY <1>1, TreeInvariant, PTL
=============================================================================
