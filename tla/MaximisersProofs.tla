--------------------------- MODULE MaximisersProofs ---------------------------
(***************************************************************************)
(* Theorems about a Host object under any sequence of calls (HostCalls)    *)
(* and about the solvers that fill one host after another (Maximisers).    *)
(***************************************************************************)
EXTENDS Maximisers, PackingLemmas

-----------------------------------------------------------------------------
(* A Host object: its page map is true to its guests, so that what it      *)
(* answers is right.  The inductive invariant is the type invariant with   *)
(* the agreement of the two containers; the answers follow from it in each *)
(* state.                                                                  *)

HostInv == HostTypeOK /\ FrequenciesCount

LEMMA HostInvInductive == HostSpec => []HostInv
<1>1. HostInit => HostInv
  <2> SUFFICES ASSUME HostInit PROVE HostInv
    OBVIOUS
  <2>1. IsInstance(instance)
    BY InstanceOfIsInstance DEF HostInit
  <2>2. host.guests = {}
    BY DEF HostInit, EmptyHost
  <2>3. IsHost(host) /\ FrequenciesMatch(host)
    BY EmptyHostMatches DEF HostInit
  <2> QED BY <2>1, <2>2, <2>3, CountsArePositive DEF HostInv, HostTypeOK, FrequenciesCount
<1>2. HostInv /\ [HostNext]_hostVars => HostInv'
  <2> SUFFICES ASSUME HostInv, [HostNext]_hostVars PROVE HostInv'
    OBVIOUS
  <2> USE DEF HostInv, HostTypeOK, FrequenciesCount
  <2>1. ASSUME NEW g \in GuestsOf(instance), AddCall(g) PROVE HostInv'
    <3>1. g \in Guest /\ g \notin host.guests
      BY <2>1, InstanceGuests DEF AddCall
    <3>2. IsHost(host') /\ FrequenciesMatch(host') /\ host'.guests = host.guests \cup {g}
      BY <2>1, <3>1, AddGuestMatches DEF AddCall
    <3>3. instance' = instance
      BY <2>1 DEF AddCall
    <3> QED BY <3>2, <3>3, CountsArePositive
  <2>2. ASSUME NEW g \in GuestsOf(instance), RemoveCall(g) PROVE HostInv'
    <3>1. IsHost(host') /\ FrequenciesMatch(host') /\ host'.guests = host.guests \ {g}
      BY <2>2, RemoveGuestMatches DEF RemoveCall
    <3>2. instance' = instance
      BY <2>2 DEF RemoveCall
    <3> QED BY <3>1, <3>2, CountsArePositive
  <2>3. CASE ClearCall
    <3>1. host' = EmptyHost /\ instance' = instance
      BY <2>3 DEF ClearCall, ClearGuests
    <3>2. host'.guests = {}
      BY <3>1 DEF EmptyHost
    <3> QED BY <3>1, <3>2, EmptyHostMatches, CountsArePositive
  <2>4. CASE UNCHANGED hostVars
    BY <2>4 DEF hostVars
  <2> QED BY <2>1, <2>2, <2>3, <2>4 DEF HostNext
<1> QED BY <1>1, <1>2, PTL DEF HostSpec

(* A Host object only ever holds guests of the instance, and no count      *)
(* stays in its map at zero (Host::removeGuest erases it).                 *)
THEOREM HostTypeCorrect == HostSpec => []HostTypeOK
<1>1. HostInv => HostTypeOK
  BY DEF HostInv
<1> QED BY <1>1, HostInvInductive, PTL

(* After any calls, the map counts the guests that have each page          *)
(* (Host::addGuest, removeGuest, clearGuests).                             *)
THEOREM HostFrequenciesCount == HostSpec => []FrequenciesCount
<1>1. HostInv => FrequenciesCount
  BY DEF HostInv
<1> QED BY <1>1, HostInvInductive, PTL

(* What Host::countPagesWithGuest, countPagesWithGuests and                *)
(* countPagesNotOn return is the number of different pages they are named  *)
(* for.                                                                    *)
THEOREM HostAnswersRight == HostSpec => []AnswersRight
<1>1. HostInv => AnswersRight
  <2> SUFFICES ASSUME HostInv PROVE AnswersRight
    OBVIOUS
  <2>1. IsHost(host) /\ FrequenciesMatch(host) /\ GuestsOf(instance) \subseteq Guest
    BY InstanceGuests DEF HostInv, HostTypeOK, FrequenciesCount
  <2>2. ASSUME NEW g \in GuestsOf(instance)
        PROVE  /\ CountPagesWithGuest(host, g) = Cardinality(PagesOf(host.guests \cup {g}))
               /\ CountPagesNotOn(host, g) = Cardinality(PagesOf(host.guests) \ g.pages)
    BY <2>1, CountsOfGuest
  <2>3. ASSUME NEW S \in SUBSET GuestsOf(instance)
        PROVE  CountPagesWithGuests(host, S) = Cardinality(PagesOf(host.guests \cup S))
    BY <2>1, CountsOfGuests
  <2> QED BY <2>2, <2>3 DEF AnswersRight
<1> QED BY <1>1, HostInvInductive, PTL

-----------------------------------------------------------------------------
(* Cluster trees as the builder makes them.                                *)

(* Unions that are collected along smaller numbers are defined.            *)
Collects(f, n, A, P) == f = [k \in 0 .. n - 1 |-> A[k] \cup UNION {f[p] : p \in P[k]}]

LEMMA UnionsDefined ==
  ASSUME NEW n \in Nat, NEW A, NEW P, \A k \in 0 .. n - 1 : P[k] \subseteq 0 .. k - 1
  PROVE  \E f : Collects(f, n, A, P)
<1> DEFINE Next1(f, k) == A[k] \cup UNION {f[p] : p \in P[k]}
           Is(f, D) == f = [k \in D |-> Next1(f, k)]
           Good == {m \in 0 .. n : \E f : Is(f, 0 .. m - 1)}
<1>1. 0 \in Good
  <2>1. 0 .. 0 - 1 = {}
    OBVIOUS
  <2>2. [k \in {} |-> {}] = [k \in {} |-> Next1([l \in {} |-> {}], k)]
    OBVIOUS
  <2>3. \E f : Is(f, 0 .. 0 - 1)
    BY <2>1, <2>2
  <2> HIDE DEF Is
  <2> QED BY <2>3
<1>2. ASSUME NEW m \in 1 .. n, m - 1 \in Good PROVE m \in Good
  <2>1. PICK p : Is(p, 0 .. (m - 1) - 1)
    BY <1>2
  <2> DEFINE q == [k \in 0 .. m - 1 |-> IF k = m - 1 THEN Next1(p, k) ELSE p[k]]
  <2>2. ASSUME NEW k \in 0 .. m - 1 PROVE q[k] = Next1(q, k)
    <3>1. \A i \in P[k] : i \in 0 .. (m - 1) - 1 /\ i \in 0 .. m - 1 /\ i # m - 1
      BY SMTT(30)
    <3>2. \A i \in P[k] : q[i] = p[i]
      BY <3>1
    <3>3. k # m - 1 => p[k] = Next1(p, k)
      <4>1. k # m - 1 => k \in 0 .. (m - 1) - 1
        OBVIOUS
      <4> QED BY <2>1, <4>1
    <3>4. q[k] = Next1(p, k)
      BY <3>3
    <3> HIDE DEF q
    <3> QED BY <3>2, <3>4
  <2>3. Is(q, 0 .. m - 1)
    <3>1. q = [k \in 0 .. m - 1 |-> q[k]]
      OBVIOUS
    <3> HIDE DEF Next1, q
    <3> QED BY <2>2, <3>1
  <2> HIDE DEF Is, q
  <2> QED BY <2>3
<1>3. n \in Good
  <2> HIDE DEF Good
  <2> QED BY <1>1, <1>2, CountingUp
<1> QED BY <1>3 DEF Collects

NodeShape ==
    [parents : SUBSET Nat, children : SUBSET Nat, pages : SUBSET Page, guest : Nat, cluster : Nat]

ClusterShape == [parent : Nat, children : Seq(Nat), nodes : Seq(Nat)]

(* Nodes and clusters are numbered without gaps. *)
Counted(D) == \E n \in Nat : D = 0 .. n - 1

(* A leaf is alone in its cluster, which has no clusters below.            *)
LeafApart(t, l) ==
    /\ t.nodes[l].cluster # RootCluster
    /\ t.clusters[t.nodes[l].cluster].nodes = <<l>>
    /\ t.clusters[t.nodes[l].cluster].children = <<>>

(* The shape of a tree under construction: beyond what IsClusterTree says, *)
(* parents are older than their children, in the graph and in the tree.    *)
NodeMade(t, n) ==
    /\ t.nodes[n] \in NodeShape
    /\ t.nodes[n].parents \subseteq 0 .. n - 1
    /\ t.nodes[n].children \subseteq DOMAIN t.nodes
    /\ t.nodes[n].cluster \in DOMAIN t.clusters
    /\ t.nodes[n].parents = {} <=> t.nodes[n].cluster = RootCluster

ClusterMade(t, c) ==
    /\ t.clusters[c] \in ClusterShape
    /\ IF c = RootCluster THEN t.clusters[c].parent = c ELSE t.clusters[c].parent \in 0 .. c - 1
    /\ NoneTwice(t.clusters[c].children) /\ NoneTwice(t.clusters[c].nodes)

LeavesMade(t) ==
    /\ t.leaves \in Seq(DOMAIN t.nodes) /\ NoneTwice(t.leaves)
    /\ \A l \in ToSet(t.leaves) : LeafApart(t, l)

WellMade(t) ==
    /\ t = [nodes |-> t.nodes, leaves |-> t.leaves, clusters |-> t.clusters]
    /\ Counted(DOMAIN t.nodes) /\ t.nodes = [n \in DOMAIN t.nodes |-> t.nodes[n]]
    /\ Counted(DOMAIN t.clusters) /\ t.clusters = [c \in DOMAIN t.clusters |-> t.clusters[c]]
    /\ RootCluster \in DOMAIN t.clusters
    /\ \A n \in DOMAIN t.nodes : NodeMade(t, n)
    /\ \A c \in DOMAIN t.clusters : ClusterMade(t, c)
    /\ LeavesMade(t)
    /\ IsClusterTree(t)

LEMMA CountedHas ==
  ASSUME NEW D, Counted(D)
  PROVE  /\ IsFiniteSet(D) /\ Cardinality(D) \in Nat
         /\ D = 0 .. Cardinality(D) - 1 /\ Cardinality(D) \notin D
         /\ D \subseteq Nat
<1>1. PICK n \in Nat : D = 0 .. n - 1
  BY DEF Counted
<1>2. IsFiniteSet(0 .. n - 1) /\ Cardinality(0 .. n - 1) = IF 0 > n - 1 THEN 0 ELSE n - 1 - 0 + 1
  BY FS_Interval
<1>3. Cardinality(D) = n
  BY <1>1, <1>2
<1> QED BY <1>1, <1>2, <1>3

LEMMA CountedGrows ==
  ASSUME NEW D, Counted(D)
  PROVE  Counted(D \cup {Cardinality(D)}) /\ Cardinality(D \cup {Cardinality(D)}) = Cardinality(D) + 1
<1>1. /\ IsFiniteSet(D) /\ Cardinality(D) \in Nat
      /\ D = 0 .. Cardinality(D) - 1 /\ Cardinality(D) \notin D
  BY CountedHas
<1>2. PICK n \in Nat : n = Cardinality(D)
  BY <1>1
<1>3. D \cup {n} = 0 .. (n + 1) - 1 /\ n + 1 \in Nat
  BY <1>1, <1>2
<1>4. Cardinality(D \cup {n}) = n + 1
  BY <1>1, <1>2, FS_AddElement
<1> QED BY <1>2, <1>3, <1>4 DEF Counted

LEMMA MadeHas ==
  ASSUME NEW t, WellMade(t)
  PROVE  /\ DOMAIN t.nodes \subseteq Nat /\ DOMAIN t.clusters \subseteq Nat
         /\ \A n \in DOMAIN t.nodes :
               /\ t.nodes[n].parents \subseteq DOMAIN t.nodes
               /\ \A p \in t.nodes[n].parents : p \in Nat /\ p < n
               /\ t.nodes[n].pages \subseteq Page
               /\ t.nodes[n].cluster \in DOMAIN t.clusters
               /\ t.nodes[n].parents = {} <=> t.nodes[n].cluster = RootCluster
         /\ \A c \in DOMAIN t.clusters :
               /\ t.clusters[c].children \in Seq(Nat) /\ t.clusters[c].nodes \in Seq(Nat)
               /\ t.clusters[c].parent \in DOMAIN t.clusters
               /\ c # RootCluster => t.clusters[c].parent < c
               /\ ToSet(t.clusters[c].children) =
                     {d \in DOMAIN t.clusters \ {RootCluster} : t.clusters[d].parent = c}
               /\ NodesOf(t, c) = {n \in DOMAIN t.nodes : t.nodes[n].cluster = c}
         /\ ToSet(t.leaves) \subseteq DOMAIN t.nodes
         /\ \A l \in ToSet(t.leaves) : LeafApart(t, l)
<1>1. /\ DOMAIN t.nodes = 0 .. Cardinality(DOMAIN t.nodes) - 1 /\ Cardinality(DOMAIN t.nodes) \in Nat
      /\ DOMAIN t.clusters = 0 .. Cardinality(DOMAIN t.clusters) - 1
      /\ Cardinality(DOMAIN t.clusters) \in Nat
  BY CountedHas DEF WellMade
<1>2. ASSUME NEW n \in DOMAIN t.nodes
      PROVE  /\ t.nodes[n].parents \subseteq DOMAIN t.nodes
             /\ \A p \in t.nodes[n].parents : p \in Nat /\ p < n
             /\ t.nodes[n].pages \subseteq Page
             /\ t.nodes[n].cluster \in DOMAIN t.clusters
             /\ t.nodes[n].parents = {} <=> t.nodes[n].cluster = RootCluster
  <2>1. NodeMade(t, n)
    BY DEF WellMade
  <2>2. t.nodes[n].parents \subseteq 0 .. n - 1 /\ t.nodes[n].pages \subseteq Page
    BY <2>1 DEF NodeMade, NodeShape
  <2>3. ASSUME NEW p \in t.nodes[n].parents PROVE p \in DOMAIN t.nodes /\ p \in Nat /\ p < n
    BY <1>1, <2>2
  <2> QED BY <2>1, <2>2, <2>3 DEF NodeMade
<1>3. ASSUME NEW c \in DOMAIN t.clusters
      PROVE  /\ t.clusters[c].children \in Seq(Nat) /\ t.clusters[c].nodes \in Seq(Nat)
             /\ t.clusters[c].parent \in DOMAIN t.clusters
             /\ c # RootCluster => t.clusters[c].parent < c
             /\ ToSet(t.clusters[c].children) =
                   {d \in DOMAIN t.clusters \ {RootCluster} : t.clusters[d].parent = c}
             /\ NodesOf(t, c) = {n \in DOMAIN t.nodes : t.nodes[n].cluster = c}
  <2>1. ClusterMade(t, c)
    BY DEF WellMade
  <2>2. t.clusters[c].children \in Seq(Nat) /\ t.clusters[c].nodes \in Seq(Nat)
    BY <2>1 DEF ClusterMade, ClusterShape
  <2>3. t.clusters[c].parent \in DOMAIN t.clusters /\ (c # RootCluster => t.clusters[c].parent < c)
    BY <1>1, <2>1 DEF ClusterMade
  <2>4. /\ ToSet(t.clusters[c].children) =
              {d \in DOMAIN t.clusters \ {RootCluster} : t.clusters[d].parent = c}
        /\ NodesOf(t, c) = {n \in DOMAIN t.nodes : t.nodes[n].cluster = c}
    BY DEF WellMade, IsClusterTree
  <2> QED BY <2>2, <2>3, <2>4
<1>4. ToSet(t.leaves) \subseteq DOMAIN t.nodes /\ \A l \in ToSet(t.leaves) : LeafApart(t, l)
  BY LenProperties DEF WellMade, LeavesMade, ToSet
<1> QED BY <1>1, <1>2, <1>3, <1>4

(* A tree is put together of its nodes, clusters and leaves. *)
TreeOn(t, N, C) ==
    /\ t = [nodes |-> t.nodes, leaves |-> t.leaves, clusters |-> t.clusters]
    /\ t.nodes = [n \in N |-> t.nodes[n]] /\ t.clusters = [c \in C |-> t.clusters[c]]
    /\ Counted(N) /\ Counted(C) /\ RootCluster \in C

NodesLinked(t, N) ==
    \A n, m \in N :
       /\ n \in t.nodes[m].parents <=> m \in t.nodes[n].children
       /\ n \in t.nodes[m].parents =>
             t.nodes[n].cluster = t.clusters[t.nodes[m].cluster].parent

ClusterLinked(t, N, C, c) ==
    /\ ToSet(t.clusters[c].nodes) = {n \in N : t.nodes[n].cluster = c}
    /\ ToSet(t.clusters[c].children) = {d \in C \ {RootCluster} : t.clusters[d].parent = c}

LEMMA MadeOf ==
  ASSUME NEW t, NEW N, NEW C, TreeOn(t, N, C),
         \A n \in N : NodeMade(t, n),
         \A c \in C : ClusterMade(t, c) /\ ClusterLinked(t, N, C, c),
         NodesLinked(t, N), LeavesMade(t)
  PROVE  WellMade(t)
<1>1. DOMAIN t.nodes = N /\ DOMAIN t.clusters = C
  BY DEF TreeOn
<1>2. IsClusterTree(t)
  BY <1>1 DEF IsClusterTree, NodesOf, NodesLinked, ClusterLinked
<1> QED BY <1>1, <1>2 DEF WellMade, TreeOn

LEMMA MadeLinked ==
  ASSUME NEW t, WellMade(t)
  PROVE  /\ TreeOn(t, DOMAIN t.nodes, DOMAIN t.clusters)
         /\ NodesLinked(t, DOMAIN t.nodes)
         /\ \A n \in DOMAIN t.nodes : NodeMade(t, n)
         /\ \A c \in DOMAIN t.clusters : /\ ClusterMade(t, c)
                                         /\ ClusterLinked(t, DOMAIN t.nodes, DOMAIN t.clusters, c)
         /\ LeavesMade(t)
BY DEF WellMade, TreeOn, NodesLinked, ClusterLinked, IsClusterTree, NodesOf

LEMMA EmptyTreeMade == WellMade(EmptyTree)
<1> DEFINE t == EmptyTree
<1>1. /\ DOMAIN t.nodes = {} /\ DOMAIN t.clusters = {RootCluster} /\ t.leaves = <<>>
      /\ t.clusters[RootCluster] = NewCluster(RootCluster)
      /\ t = [nodes |-> t.nodes, leaves |-> t.leaves, clusters |-> t.clusters]
  BY DEF EmptyTree
<1>2. /\ t.nodes = [n \in DOMAIN t.nodes |-> t.nodes[n]]
      /\ t.clusters = [c \in DOMAIN t.clusters |-> t.clusters[c]]
  BY DEF EmptyTree
<1>3. /\ <<>> \in Seq(Nat) /\ NoneTwice(<<>>) /\ ToSet(<<>>) = {}
      /\ <<>> \in Seq(DOMAIN t.nodes)
  BY DEF NoneTwice, ToSet
<1>4. NewCluster(RootCluster) = [parent |-> 0, children |-> <<>>, nodes |-> <<>>]
  BY DEF NewCluster, RootCluster
<1>5. Counted(DOMAIN t.nodes) /\ Counted(DOMAIN t.clusters)
  <2>1. DOMAIN t.nodes = 0 .. 0 - 1 /\ DOMAIN t.clusters = 0 .. 1 - 1
    BY <1>1 DEF RootCluster
  <2> QED BY <2>1 DEF Counted
<1> HIDE DEF t
<1>6. NewCluster(RootCluster) \in ClusterShape
  BY <1>3, <1>4 DEF ClusterShape
<1>7. IsClusterTree(t)
  BY <1>1, <1>3, <1>4 DEF IsClusterTree, NodesOf
<1>8. WellMade(t)
  <2>1. ClusterMade(t, RootCluster)
    BY <1>1, <1>3, <1>4, <1>6 DEF ClusterMade, RootCluster
  <2>2. LeavesMade(t)
    BY <1>1, <1>3 DEF LeavesMade
  <2> QED BY <1>1, <1>2, <1>5, <1>7, <2>1, <2>2 DEF WellMade
<1> QED BY <1>8 DEF t

(* What is called on a cluster that has no leaf.                           *)
Inner(t, c) ==
    /\ c \in DOMAIN t.clusters
    /\ \A l \in ToSet(t.leaves) : t.nodes[l].cluster # c

LEMMA CreateClusterMade ==
  ASSUME NEW t, WellMade(t), NEW parent, Inner(t, parent), NEW new, new = CreateCluster(t, parent),
         NEW cid, cid = ClusterCount(t)
  PROVE  /\ WellMade(new)
         /\ new.nodes = t.nodes /\ new.leaves = t.leaves
         /\ cid \notin DOMAIN t.clusters /\ cid # RootCluster
         /\ DOMAIN new.clusters = DOMAIN t.clusters \cup {cid}
         /\ new.clusters[cid] = NewCluster(parent)
         /\ \A c \in DOMAIN t.clusters :
               /\ new.clusters[c].nodes = t.clusters[c].nodes
               /\ new.clusters[c].parent = t.clusters[c].parent
         /\ ClusterCount(new) = ClusterCount(t) + 1
         /\ Inner(new, cid)
<1> DEFINE D == DOMAIN t.clusters
<1>1. /\ IsFiniteSet(D) /\ cid \in Nat /\ D = 0 .. cid - 1 /\ cid \notin D
      /\ Counted(D \cup {cid}) /\ Cardinality(D \cup {cid}) = cid + 1
      /\ parent \in D /\ RootCluster \in D /\ parent \in Nat
  BY CountedHas, CountedGrows DEF WellMade, Inner, ClusterCount
<1> DEFINE grown == [t.clusters EXCEPT ![parent].children = Append(@, cid)]
           f == [c \in D \cup {cid} |-> IF c = cid THEN NewCluster(parent) ELSE grown[c]]
<1>2. /\ new.nodes = t.nodes /\ new.leaves = t.leaves /\ new.clusters = f
      /\ new = [nodes |-> new.nodes, leaves |-> new.leaves, clusters |-> new.clusters]
      /\ DOMAIN new.clusters = D \cup {cid}
  <2>1. t = [nodes |-> t.nodes, leaves |-> t.leaves, clusters |-> t.clusters]
    BY DEF WellMade
  <2>2. DOMAIN grown = D
    OBVIOUS
  <2>3. new = [t EXCEPT !.clusters = [c \in DOMAIN grown \cup {cid} |->
                                        IF c = cid THEN NewCluster(parent) ELSE grown[c]]]
    BY DEF CreateCluster
  <2>4. new = [t EXCEPT !.clusters = f]
    BY <2>2, <2>3
  <2>5. DOMAIN f = D \cup {cid}
    OBVIOUS
  <2> HIDE DEF f
  <2> QED BY <2>1, <2>4, <2>5
<1>3. new.clusters[cid] = NewCluster(parent)
  BY <1>2
<1>4. ASSUME NEW c \in D
      PROVE  new.clusters[c] = IF c = parent
                               THEN [t.clusters[c] EXCEPT !.children = Append(@, cid)] ELSE t.clusters[c]
  <2>1. new.clusters[c] = grown[c]
    BY <1>1, <1>2
  <2>2. t.clusters = [k \in D |-> t.clusters[k]]
    BY DEF WellMade
  <2> QED BY <2>1, <2>2
<1> HIDE DEF f, grown
<1>5. ASSUME NEW c \in D
      PROVE  /\ t.clusters[c] \in ClusterShape
             /\ t.clusters[c].children \in Seq(Nat) /\ t.clusters[c].nodes \in Seq(Nat)
             /\ NoneTwice(t.clusters[c].children) /\ NoneTwice(t.clusters[c].nodes)
             /\ ToSet(t.clusters[c].children) = {d \in D \ {RootCluster} : t.clusters[d].parent = c}
             /\ ToSet(t.clusters[c].nodes) = {n \in DOMAIN t.nodes : t.nodes[n].cluster = c}
             /\ c # RootCluster => t.clusters[c].parent \in 0 .. c - 1
             /\ t.clusters[c].parent \in Nat /\ c \in Nat
  <2>1. ClusterMade(t, c)
    BY DEF WellMade
  <2>2. /\ t.clusters[c].parent \in Nat /\ c \in Nat
        /\ c # RootCluster => t.clusters[c].parent \in 0 .. c - 1
    BY <1>1, <2>1 DEF ClusterMade, RootCluster
  <2> QED BY <2>1, <2>2, MadeHas DEF ClusterMade, NodesOf
<1>6. ASSUME NEW c \in D
      PROVE  /\ new.clusters[c].parent = t.clusters[c].parent
             /\ new.clusters[c].nodes = t.clusters[c].nodes
             /\ new.clusters[c].children \in Seq(Nat) /\ NoneTwice(new.clusters[c].children)
             /\ ToSet(new.clusters[c].children) =
                   ToSet(t.clusters[c].children) \cup (IF c = parent THEN {cid} ELSE {})
             /\ new.clusters[c] \in ClusterShape
  <2>1. CASE c # parent
    BY <1>4, <1>5, <2>1
  <2>2. CASE c = parent
    <3>1. PICK kids : kids = t.clusters[c].children
      OBVIOUS
    <3>2. new.clusters[c] = [parent |-> t.clusters[c].parent, children |-> Append(kids, cid),
                             nodes |-> t.clusters[c].nodes]
      BY <1>4, <1>5, <2>2, <3>1 DEF ClusterShape
    <3>3. kids \in Seq(Nat) /\ NoneTwice(kids) /\ cid \in Nat /\ cid \notin ToSet(kids)
      BY <1>1, <1>5, <3>1
    <3>4. /\ Append(kids, cid) \in Seq(Nat) /\ NoneTwice(Append(kids, cid))
          /\ ToSet(Append(kids, cid)) = ToSet(kids) \cup {cid}
      BY <3>3, AppendNoneTwice
    <3> QED BY <1>5, <2>2, <3>1, <3>2, <3>4 DEF ClusterShape
  <2> QED BY <2>1, <2>2
<1>7. /\ new.clusters[cid].parent = parent /\ new.clusters[cid].children = <<>>
      /\ new.clusters[cid].nodes = <<>> /\ new.clusters[cid] \in ClusterShape
      /\ <<>> \in Seq(Nat) /\ NoneTwice(<<>>) /\ ToSet(<<>>) = {}
  BY <1>1, <1>3 DEF NewCluster, ClusterShape, NoneTwice, ToSet
<1>8. cid # RootCluster
  BY <1>1
<1>9. /\ \A n \in DOMAIN t.nodes : t.nodes[n].cluster \in D
      /\ ToSet(t.leaves) \subseteq DOMAIN t.nodes
      /\ \A l \in ToSet(t.leaves) : LeafApart(t, l)
  BY MadeHas
<1>10. ASSUME NEW c \in D \cup {cid}
       PROVE  ClusterLinked(new, DOMAIN t.nodes, D \cup {cid}, c)
  <2> SUFFICES /\ ToSet(new.clusters[c].nodes) = {n \in DOMAIN t.nodes : t.nodes[n].cluster = c}
               /\ ToSet(new.clusters[c].children) =
                     {d \in (D \cup {cid}) \ {RootCluster} : new.clusters[d].parent = c}
    BY <1>2 DEF ClusterLinked
  <2>1. CASE c \in D
    <3>1. ToSet(new.clusters[c].nodes) = {n \in DOMAIN t.nodes : t.nodes[n].cluster = c}
      BY <1>5, <1>6, <2>1
    <3>2. ToSet(new.clusters[c].children) =
             {d \in D \ {RootCluster} : t.clusters[d].parent = c} \cup (IF c = parent THEN {cid} ELSE {})
      BY <1>5, <1>6, <2>1
    <3>3. \A d \in D : new.clusters[d].parent = t.clusters[d].parent
      BY <1>6
    <3> QED BY <1>7, <1>8, <3>1, <3>2, <3>3
  <2>2. CASE c = cid
    <3>1. \A n \in DOMAIN t.nodes : t.nodes[n].cluster # c
      BY <1>1, <1>9, <2>2
    <3>2. \A d \in (D \cup {cid}) \ {RootCluster} : new.clusters[d].parent # c
      <4>1. \A d \in D \ {RootCluster} : t.clusters[d].parent \in D
        BY MadeHas
      <4> QED BY <1>1, <1>6, <1>7, <2>2, <4>1
    <3> QED BY <1>7, <2>2, <3>1, <3>2
  <2> QED BY <2>1, <2>2
<1>11. NodesLinked(new, DOMAIN t.nodes)
  <2>1. NodesLinked(t, DOMAIN t.nodes)
    BY MadeLinked
  <2>2. \A m \in DOMAIN t.nodes :
           new.clusters[t.nodes[m].cluster].parent = t.clusters[t.nodes[m].cluster].parent
    BY <1>6, <1>9
  <2> QED BY <1>2, <2>1, <2>2 DEF NodesLinked
<1>12. LeavesMade(new)
  <2> SUFFICES ASSUME NEW l \in ToSet(t.leaves) PROVE LeafApart(new, l)
    BY <1>2 DEF LeavesMade, WellMade
  <2>1. PICK c : c = t.nodes[l].cluster
    OBVIOUS
  <2>2. LeafApart(t, l) /\ c # parent /\ c \in D
    BY <1>9, <2>1 DEF Inner
  <2>3. new.clusters[c] = t.clusters[c]
    BY <1>4, <2>2
  <2> QED BY <1>2, <2>1, <2>2, <2>3 DEF LeafApart
<1>13. ASSUME NEW n \in DOMAIN t.nodes PROVE NodeMade(new, n)
  <2>1. NodeMade(t, n)
    BY DEF WellMade
  <2> QED BY <1>2, <2>1 DEF NodeMade
<1>14. ASSUME NEW c \in D \cup {cid} PROVE ClusterMade(new, c)
  <2>1. CASE c \in D
    <3>1. ClusterMade(t, c)
      BY <2>1 DEF WellMade
    <3> QED BY <1>6, <2>1, <3>1 DEF ClusterMade
  <2>2. CASE c = cid
    BY <1>1, <1>7, <1>8, <2>2 DEF ClusterMade
  <2> QED BY <2>1, <2>2
<1>15. WellMade(new)
  <2>1. TreeOn(new, DOMAIN t.nodes, D \cup {cid})
    <3>1. f = [c \in D \cup {cid} |-> f[c]]
      BY DEF f
    <3>2. /\ Counted(DOMAIN t.nodes) /\ RootCluster \in D \cup {cid}
          /\ new.nodes = [n \in DOMAIN t.nodes |-> new.nodes[n]]
      BY <1>1, <1>2 DEF WellMade
    <3> HIDE DEF f, D
    <3> QED BY <1>1, <1>2, <3>1, <3>2 DEF TreeOn
  <2> HIDE DEF D
  <2> QED BY <1>10, <1>11, <1>12, <1>13, <1>14, <2>1, MadeOf
<1>16. Inner(new, cid)
  BY <1>1, <1>2, <1>9 DEF Inner
<1>17. ClusterCount(new) = ClusterCount(t) + 1
  BY <1>1, <1>2 DEF ClusterCount
<1> QED BY <1>1, <1>2, <1>3, <1>6, <1>8, <1>15, <1>16, <1>17

(* A node of the root cluster has no parents, another has some in the      *)
(* cluster above.                                                          *)
MayParent(t, cid, parents) ==
    IF cid = RootCluster THEN parents = {}
    ELSE parents # {} /\ parents \subseteq NodesOf(t, t.clusters[cid].parent)

(* What AddInnerNode does to a tree. *)
InnerNodeAdded(t, new, cid, nid, parents, pages) ==
    /\ WellMade(new)
    /\ new.leaves = t.leaves
    /\ nid \notin DOMAIN t.nodes /\ DOMAIN new.nodes = DOMAIN t.nodes \cup {nid}
    /\ new.nodes[nid] = [parents |-> parents, children |-> {}, pages |-> pages,
                         guest |-> NoGuest, cluster |-> cid]
    /\ \A n \in DOMAIN t.nodes :
          /\ new.nodes[n].parents = t.nodes[n].parents /\ new.nodes[n].pages = t.nodes[n].pages
          /\ new.nodes[n].guest = t.nodes[n].guest /\ new.nodes[n].cluster = t.nodes[n].cluster
    /\ DOMAIN new.clusters = DOMAIN t.clusters
    /\ \A c \in DOMAIN t.clusters :
          /\ new.clusters[c].parent = t.clusters[c].parent
          /\ new.clusters[c].children = t.clusters[c].children
    /\ new.clusters[cid].nodes = Append(t.clusters[cid].nodes, nid)

LEMMA AddInnerNodeMade ==
  ASSUME NEW t, WellMade(t), NEW cid, Inner(t, cid),
         NEW parents, NEW pages \in SUBSET Page, MayParent(t, cid, parents),
         NEW new, new = AddInnerNode(t, cid, parents, pages),
         NEW nid, nid = NodeCount(t)
  PROVE  InnerNodeAdded(t, new, cid, nid, parents, pages)
<1> DEFINE N == DOMAIN t.nodes
           C == DOMAIN t.clusters
           node == [parents |-> parents, children |-> {}, pages |-> pages,
                    guest |-> NoGuest, cluster |-> cid]
           f == [n \in N \cup {NodeCount(t)} |->
                   IF n = NodeCount(t) THEN node
                   ELSE IF n \in parents THEN [t.nodes[n] EXCEPT !.children = @ \cup {NodeCount(t)}]
                   ELSE t.nodes[n]]
           g == [t.clusters EXCEPT ![cid].nodes = Append(@, NodeCount(t))]
<1>1. /\ nid \in Nat /\ N = 0 .. nid - 1 /\ nid \notin N
      /\ Counted(N) /\ Counted(N \cup {nid}) /\ Counted(C) /\ RootCluster \in C
      /\ cid \in C
  BY CountedHas, CountedGrows DEF WellMade, Inner, NodeCount
<1>2. /\ new.nodes = f /\ new.leaves = t.leaves /\ new.clusters = g
      /\ new = [nodes |-> new.nodes, leaves |-> new.leaves, clusters |-> new.clusters]
      /\ DOMAIN new.nodes = N \cup {nid} /\ DOMAIN new.clusters = C
  <2>1. t = [nodes |-> t.nodes, leaves |-> t.leaves, clusters |-> t.clusters]
    BY DEF WellMade
  <2>2. new = [t EXCEPT !.nodes = f, !.clusters[cid].nodes = Append(@, NodeCount(t))]
    BY Zenon DEF AddInnerNode
  <2>3. new = [t EXCEPT !.nodes = f, !.clusters = g]
    <3> HIDE DEF f
    <3> QED BY <2>1, <2>2
  <2>4. DOMAIN f = N \cup {nid} /\ DOMAIN g = C
    OBVIOUS
  <2> HIDE DEF f, g
  <2> QED BY <2>1, <2>3, <2>4
<1>3. new.nodes[nid] = node
  BY <1>1, <1>2
<1>4. ASSUME NEW n \in N
      PROVE  /\ new.nodes[n] = IF n \in parents THEN [t.nodes[n] EXCEPT !.children = @ \cup {nid}]
                               ELSE t.nodes[n]
             /\ NodeMade(t, n)
             /\ t.nodes[n] = [parents |-> t.nodes[n].parents, children |-> t.nodes[n].children,
                              pages |-> t.nodes[n].pages, guest |-> t.nodes[n].guest,
                              cluster |-> t.nodes[n].cluster]
  <2>1. NodeMade(t, n)
    BY DEF WellMade
  <2>2. t.nodes[n] \in NodeShape
    BY <2>1 DEF NodeMade
  <2> QED BY <1>1, <1>2, <2>1, <2>2 DEF NodeShape
<1>5. ASSUME NEW c \in C
      PROVE  /\ new.clusters[c] = IF c = cid THEN [t.clusters[c] EXCEPT !.nodes = Append(@, nid)]
                                  ELSE t.clusters[c]
             /\ ClusterMade(t, c) /\ ClusterLinked(t, N, C, c)
  <2>1. t.clusters = [k \in C |-> t.clusters[k]]
    BY DEF WellMade
  <2>2. new.clusters[c] = IF c = cid THEN [t.clusters[c] EXCEPT !.nodes = Append(@, nid)]
                          ELSE t.clusters[c]
    BY <1>2, <2>1
  <2> QED BY <2>2, MadeLinked
<1>6. new.nodes = [n \in N \cup {nid} |-> new.nodes[n]] /\ new.clusters = [c \in C |-> new.clusters[c]]
  <2>1. f = [n \in N \cup {nid} |-> f[n]]
    OBVIOUS
  <2>2. g = [c \in C |-> g[c]]
    OBVIOUS
  <2> HIDE DEF f, g
  <2> QED BY <1>2, <2>1, <2>2
<1> HIDE DEF f, g, node
<1>7. ASSUME NEW n \in N
      PROVE  /\ new.nodes[n].parents = t.nodes[n].parents /\ new.nodes[n].pages = t.nodes[n].pages
             /\ new.nodes[n].guest = t.nodes[n].guest /\ new.nodes[n].cluster = t.nodes[n].cluster
             /\ n \in parents => new.nodes[n].children = t.nodes[n].children \cup {nid}
             /\ n \notin parents => new.nodes[n].children = t.nodes[n].children
  BY <1>4
<1>16. ASSUME NEW n \in N
       PROVE  new.nodes[n] = [parents |-> new.nodes[n].parents, children |-> new.nodes[n].children,
                              pages |-> new.nodes[n].pages, guest |-> new.nodes[n].guest,
                              cluster |-> new.nodes[n].cluster]
  BY <1>4
<1>8. ASSUME NEW c \in C
      PROVE  /\ new.clusters[c].parent = t.clusters[c].parent
             /\ new.clusters[c].children = t.clusters[c].children
             /\ c # cid => new.clusters[c] = t.clusters[c]
             /\ c = cid => new.clusters[c].nodes = Append(t.clusters[c].nodes, nid)
  <2>1. t.clusters[c] \in ClusterShape
    BY <1>5 DEF ClusterMade
  <2> QED BY <1>5, <2>1 DEF ClusterShape
<1>17. ASSUME NEW c \in C
       PROVE  new.clusters[c] = [parent |-> new.clusters[c].parent, children |-> new.clusters[c].children,
                                 nodes |-> new.clusters[c].nodes]
  <2>1. t.clusters[c] \in ClusterShape
    BY <1>5 DEF ClusterMade
  <2> QED BY <1>5, <2>1 DEF ClusterShape
<1>9. /\ parents \subseteq N /\ \A p \in parents : t.nodes[p].cluster = t.clusters[cid].parent
      /\ parents = {} <=> cid = RootCluster
  <2>1. t.clusters[cid].parent \in C
    BY <1>1, MadeHas
  <2>2. NodesOf(t, t.clusters[cid].parent) = {n \in N : t.nodes[n].cluster = t.clusters[cid].parent}
    BY <2>1, MadeHas
  <2> QED BY <2>2 DEF MayParent
<1>10. ASSUME NEW n \in N \cup {nid} PROVE NodeMade(new, n)
  <2>1. CASE n = nid
    <3>1. new.nodes[n] = [parents |-> parents, children |-> {}, pages |-> pages,
                          guest |-> NoGuest, cluster |-> cid]
      BY <1>3, <2>1 DEF node
    <3>2. parents \subseteq 0 .. nid - 1 /\ parents \subseteq Nat /\ cid \in Nat /\ NoGuest \in Nat
      BY <1>1, <1>9, MadeHas DEF NoGuest
    <3> QED BY <1>1, <1>2, <1>9, <2>1, <3>1, <3>2 DEF NodeMade, NodeShape
  <2>2. CASE n \in N
    <3>1. NodeMade(t, n)
      BY <1>4, <2>2
    <3>2. t.nodes[n].children \subseteq N /\ N \subseteq Nat
      BY <1>1, <3>1 DEF NodeMade
    <3>3. new.nodes[n].children \subseteq N \cup {nid} /\ new.nodes[n].children \subseteq Nat
      BY <1>1, <1>7, <2>2, <3>2
    <3>4. /\ new.nodes[n].parents = t.nodes[n].parents /\ new.nodes[n].pages = t.nodes[n].pages
          /\ new.nodes[n].guest = t.nodes[n].guest /\ new.nodes[n].cluster = t.nodes[n].cluster
      BY <1>7, <2>2
    <3>5. new.nodes[n] \in NodeShape
      <4>1. /\ t.nodes[n].parents \in SUBSET Nat /\ t.nodes[n].pages \in SUBSET Page
            /\ t.nodes[n].guest \in Nat /\ t.nodes[n].cluster \in Nat
        BY <3>1 DEF NodeMade, NodeShape
      <4>2. [parents |-> new.nodes[n].parents, children |-> new.nodes[n].children,
             pages |-> new.nodes[n].pages, guest |-> new.nodes[n].guest,
             cluster |-> new.nodes[n].cluster] \in NodeShape
        BY <3>3, <3>4, <4>1 DEF NodeShape
      <4> QED BY <1>16, <2>2, <4>2
    <3> QED BY <1>2, <3>1, <3>3, <3>4, <3>5 DEF NodeMade
  <2> QED BY <2>1, <2>2
<1>11. ASSUME NEW c \in C PROVE ClusterMade(new, c) /\ ClusterLinked(new, N \cup {nid}, C, c)
  <2>11. ClusterMade(t, c) /\ ClusterLinked(t, N, C, c)
    BY <1>5
  <2>12. /\ new.nodes[nid].cluster = cid
         /\ \A n \in N : new.nodes[n].cluster = t.nodes[n].cluster
         /\ \A d \in C : new.clusters[d].parent = t.clusters[d].parent
         /\ new.clusters[c].children = t.clusters[c].children
    BY <1>3, <1>7, <1>8 DEF node
  <2>1. ToSet(new.clusters[c].children) = {d \in C \ {RootCluster} : new.clusters[d].parent = c}
    BY <2>11, <2>12 DEF ClusterLinked
  <2>2. CASE c # cid
    <3>1. new.clusters[c] = t.clusters[c]
      BY <1>8, <2>2
    <3>2. ToSet(new.clusters[c].nodes) = {n \in N \cup {nid} : new.nodes[n].cluster = c}
      BY <2>11, <2>12, <2>2, <3>1 DEF ClusterLinked
    <3> QED BY <2>11, <2>1, <3>1, <3>2 DEF ClusterMade, ClusterLinked
  <2>3. CASE c = cid
    <3>1. PICK s : s = t.clusters[c].nodes
      OBVIOUS
    <3>2. s \in Seq(Nat) /\ NoneTwice(s) /\ ToSet(s) = {n \in N : t.nodes[n].cluster = c}
      BY <2>11, <3>1 DEF ClusterMade, ClusterLinked, ClusterShape
    <3>3. nid \in Nat /\ nid \notin ToSet(s)
      BY <1>1, <3>2
    <3>4. /\ Append(s, nid) \in Seq(Nat) /\ NoneTwice(Append(s, nid))
          /\ ToSet(Append(s, nid)) = ToSet(s) \cup {nid}
      BY <3>2, <3>3, AppendNoneTwice
    <3>5. ToSet(new.clusters[c].nodes) = {n \in N \cup {nid} : new.nodes[n].cluster = c}
      <4>1. new.clusters[c].nodes = Append(s, nid)
        BY <1>8, <2>3, <3>1
      <4> QED BY <2>12, <2>3, <3>2, <3>4, <4>1
    <3>6. /\ t.clusters[c].parent \in Nat /\ t.clusters[c].children \in Seq(Nat)
          /\ NoneTwice(t.clusters[c].children)
      BY <2>11 DEF ClusterMade, ClusterShape
    <3>7. new.clusters[c] = [parent |-> t.clusters[c].parent, children |-> t.clusters[c].children,
                             nodes |-> Append(s, nid)]
      BY <1>8, <1>17, <2>3, <3>1
    <3>8. new.clusters[c] \in ClusterShape /\ NoneTwice(new.clusters[c].nodes)
      BY <3>4, <3>6, <3>7 DEF ClusterShape
    <3> QED BY <2>11, <2>12, <2>1, <3>5, <3>6, <3>8 DEF ClusterMade, ClusterLinked
  <2> QED BY <2>2, <2>3
<1>12. NodesLinked(new, N \cup {nid})
  <2>1. \A m \in N : t.nodes[m].cluster \in C
    BY MadeHas
  <2>2. NodesLinked(t, N)
    BY MadeLinked
  <2> SUFFICES ASSUME NEW n \in N \cup {nid}, NEW m \in N \cup {nid}
               PROVE  /\ n \in new.nodes[m].parents <=> m \in new.nodes[n].children
                      /\ n \in new.nodes[m].parents =>
                            new.nodes[n].cluster = new.clusters[new.nodes[m].cluster].parent
    BY DEF NodesLinked
  <2>3. /\ new.nodes[nid].parents = parents /\ new.nodes[nid].children = {}
        /\ new.nodes[nid].cluster = cid
    BY <1>3 DEF node
  <2>4. CASE n \in N /\ m \in N
    <3>1. nid \notin t.nodes[n].children /\ m # nid
      BY <1>1, <1>4, <2>4 DEF NodeMade
    <3>2. /\ new.nodes[m].parents = t.nodes[m].parents /\ new.nodes[m].cluster = t.nodes[m].cluster
          /\ new.nodes[n].cluster = t.nodes[n].cluster
          /\ m \in new.nodes[n].children <=> m \in t.nodes[n].children
      BY <1>7, <2>4, <3>1
    <3>3. new.clusters[t.nodes[m].cluster].parent = t.clusters[t.nodes[m].cluster].parent
      BY <1>8, <2>1, <2>4
    <3> QED BY <2>2, <2>4, <3>2, <3>3 DEF NodesLinked
  <2>5. CASE n \in N /\ m = nid
    <3>1. nid \notin t.nodes[n].children
      BY <1>1, <1>4, <2>5 DEF NodeMade
    <3>2. /\ new.nodes[n].cluster = t.nodes[n].cluster
          /\ nid \in new.nodes[n].children <=> n \in parents
      BY <1>7, <2>5, <3>1
    <3>3. new.clusters[cid].parent = t.clusters[cid].parent
      BY <1>1, <1>8
    <3> QED BY <1>9, <2>3, <2>5, <3>2, <3>3
  <2>6. CASE n = nid
    <3>1. nid \notin parents
      BY <1>1, <1>9
    <3>2. \A k \in N : nid \notin t.nodes[k].parents
      BY <1>1, MadeHas
    <3> QED BY <1>7, <2>3, <2>6, <3>1, <3>2
  <2> QED BY <2>4, <2>5, <2>6
<1>13. LeavesMade(new)
  <2>1. t.leaves \in Seq(N) /\ NoneTwice(t.leaves) /\ ToSet(t.leaves) \subseteq N
    BY MadeHas DEF WellMade, LeavesMade
  <2>2. new.leaves \in Seq(N \cup {nid})
    BY <1>2, <2>1, SeqMonotonic
  <2>3. ASSUME NEW l \in ToSet(t.leaves) PROVE LeafApart(new, l)
    <3>1. LeafApart(t, l) /\ l \in N /\ t.nodes[l].cluster # cid
      BY <2>1, MadeHas DEF Inner
    <3>2. new.clusters[t.nodes[l].cluster] = t.clusters[t.nodes[l].cluster]
      <4>1. t.nodes[l].cluster \in C
        BY <3>1, MadeHas
      <4> QED BY <1>8, <3>1, <4>1
    <3> QED BY <1>7, <3>1, <3>2 DEF LeafApart
  <2> QED BY <1>2, <2>1, <2>2, <2>3 DEF LeavesMade
<1>14. WellMade(new)
  <2>1. TreeOn(new, N \cup {nid}, C)
    <3> HIDE DEF N, C
    <3> QED BY <1>1, <1>2, <1>6 DEF TreeOn
  <2> HIDE DEF N, C
  <2> QED BY <1>10, <1>11, <1>12, <1>13, <2>1, MadeOf
<1>15. new.clusters[cid].nodes = Append(t.clusters[cid].nodes, nid)
  BY <1>1, <1>8
<1> QED BY <1>1, <1>2, <1>3, <1>7, <1>8, <1>14, <1>15 DEF node, InnerNodeAdded

(* What AddLeafNode does to a tree. *)
LeafNodeAdded(t, new, cid, nid, parents, pages) ==
    /\ WellMade(new)
    /\ new.leaves = Append(t.leaves, nid)
    /\ nid \notin DOMAIN t.nodes /\ DOMAIN new.nodes = DOMAIN t.nodes \cup {nid}
    /\ new.nodes[nid] = [parents |-> parents, children |-> {}, pages |-> pages,
                         guest |-> NoGuest, cluster |-> cid]
    /\ \A n \in DOMAIN t.nodes :
          /\ new.nodes[n].parents = t.nodes[n].parents /\ new.nodes[n].pages = t.nodes[n].pages
          /\ new.nodes[n].guest = t.nodes[n].guest /\ new.nodes[n].cluster = t.nodes[n].cluster
    /\ cid \notin DOMAIN t.clusters /\ DOMAIN new.clusters = DOMAIN t.clusters \cup {cid}
    /\ ClusterCount(new) = ClusterCount(t) + 1

LEMMA AddLeafNodeMade ==
  ASSUME NEW t, WellMade(t), NEW c, Inner(t, c),
         NEW parents, parents # {}, parents \subseteq NodesOf(t, c), NEW pages \in SUBSET Page,
         NEW new, new = AddLeafNode(t, parents, pages),
         NEW nid, nid = NodeCount(t), NEW cid, cid = ClusterCount(t)
  PROVE  LeafNodeAdded(t, new, cid, nid, parents, pages)
<1>1. PICK grown : grown = CreateCluster(t, c)
  OBVIOUS
<1>2. /\ WellMade(grown) /\ grown.nodes = t.nodes /\ grown.leaves = t.leaves
      /\ cid \notin DOMAIN t.clusters /\ cid # RootCluster
      /\ DOMAIN grown.clusters = DOMAIN t.clusters \cup {cid}
      /\ grown.clusters[cid] = NewCluster(c)
      /\ \A k \in DOMAIN t.clusters : grown.clusters[k].nodes = t.clusters[k].nodes
      /\ ClusterCount(grown) = ClusterCount(t) + 1
      /\ Inner(grown, cid)
  BY <1>1, CreateClusterMade
<1>3. /\ c \in DOMAIN t.clusters /\ NodeCount(grown) = nid
      /\ grown.clusters[cid].parent = c /\ grown.clusters[cid].nodes = <<>>
      /\ grown.clusters[cid].children = <<>>
  BY <1>2 DEF Inner, NodeCount, NewCluster
<1>4. PICK inner : inner = AddInnerNode(grown, cid, parents, pages)
  OBVIOUS
<1>5. parents \subseteq NodesOf(grown, grown.clusters[cid].parent)
  BY <1>2, <1>3 DEF NodesOf
<1>6. /\ WellMade(inner) /\ inner.leaves = t.leaves
      /\ nid \notin DOMAIN t.nodes /\ DOMAIN inner.nodes = DOMAIN t.nodes \cup {nid}
      /\ inner.nodes[nid] = [parents |-> parents, children |-> {}, pages |-> pages,
                             guest |-> NoGuest, cluster |-> cid]
      /\ \A n \in DOMAIN t.nodes :
            /\ inner.nodes[n].parents = t.nodes[n].parents /\ inner.nodes[n].pages = t.nodes[n].pages
            /\ inner.nodes[n].guest = t.nodes[n].guest /\ inner.nodes[n].cluster = t.nodes[n].cluster
      /\ DOMAIN inner.clusters = DOMAIN grown.clusters
      /\ inner.clusters[cid].children = <<>>
      /\ inner.clusters[cid].nodes = Append(<<>>, nid)
  <2>1. /\ WellMade(inner) /\ inner.leaves = grown.leaves
        /\ nid \notin DOMAIN grown.nodes /\ DOMAIN inner.nodes = DOMAIN grown.nodes \cup {nid}
        /\ inner.nodes[nid] = [parents |-> parents, children |-> {}, pages |-> pages,
                               guest |-> NoGuest, cluster |-> cid]
        /\ \A n \in DOMAIN grown.nodes :
              /\ inner.nodes[n].parents = grown.nodes[n].parents
              /\ inner.nodes[n].pages = grown.nodes[n].pages
              /\ inner.nodes[n].guest = grown.nodes[n].guest
              /\ inner.nodes[n].cluster = grown.nodes[n].cluster
        /\ DOMAIN inner.clusters = DOMAIN grown.clusters
        /\ \A k \in DOMAIN grown.clusters : inner.clusters[k].children = grown.clusters[k].children
        /\ inner.clusters[cid].nodes = Append(grown.clusters[cid].nodes, nid)
    <3>1. MayParent(grown, cid, parents)
      BY <1>2, <1>3, <1>5 DEF MayParent
    <3>2. InnerNodeAdded(grown, inner, cid, nid, parents, pages)
      BY <1>2, <1>3, <1>4, <3>1, AddInnerNodeMade
    <3> QED BY <3>2 DEF InnerNodeAdded
  <2> QED BY <1>2, <1>3, <2>1
<1>7. new = [inner EXCEPT !.leaves = Append(@, nid)]
  <2>1. (CHOOSE p \in parents : TRUE) \in parents
    OBVIOUS
  <2>2. NodesOf(t, c) = {n \in DOMAIN t.nodes : t.nodes[n].cluster = c}
    BY <1>3, MadeHas
  <2>3. t.nodes[CHOOSE p \in parents : TRUE].cluster = c
    BY <2>1, <2>2
  <2> QED BY <1>1, <1>4, <2>3 DEF AddLeafNode
<1>12. /\ new.nodes = inner.nodes /\ new.clusters = inner.clusters /\ new.leaves = Append(t.leaves, nid)
       /\ new = [nodes |-> new.nodes, leaves |-> new.leaves, clusters |-> new.clusters]
  <2>1. inner = [nodes |-> inner.nodes, leaves |-> inner.leaves, clusters |-> inner.clusters]
    BY <1>6 DEF WellMade
  <2> QED BY <1>6, <1>7, <2>1
<1>8. new.nodes = inner.nodes /\ new.clusters = inner.clusters /\ new.leaves = Append(t.leaves, nid)
  BY <1>12
<1>9. LeavesMade(new)
  <2>1. t.leaves \in Seq(DOMAIN inner.nodes) /\ NoneTwice(t.leaves)
    BY <1>6 DEF WellMade, LeavesMade
  <2>2. ToSet(t.leaves) \subseteq DOMAIN t.nodes
    BY MadeHas
  <2>3. nid \in DOMAIN inner.nodes /\ nid \notin ToSet(t.leaves)
    BY <1>6, <2>2
  <2>4. /\ new.leaves \in Seq(DOMAIN new.nodes) /\ NoneTwice(new.leaves)
        /\ ToSet(new.leaves) = ToSet(t.leaves) \cup {nid}
    <3>1. PICK D, s : D = DOMAIN inner.nodes /\ s = t.leaves
      OBVIOUS
    <3>2. s \in Seq(D) /\ NoneTwice(s) /\ nid \in D /\ nid \notin ToSet(s)
      BY <2>1, <2>3, <3>1
    <3>3. /\ Append(s, nid) \in Seq(D) /\ NoneTwice(Append(s, nid))
          /\ ToSet(Append(s, nid)) = ToSet(s) \cup {nid}
      BY <3>2, AppendNoneTwice
    <3> QED BY <1>8, <3>1, <3>3
  <2>5. ASSUME NEW l \in ToSet(t.leaves) PROVE LeafApart(new, l)
    <3>1. LeafApart(inner, l)
      BY <1>6, <2>5 DEF WellMade, LeavesMade
    <3> QED BY <1>8, <3>1 DEF LeafApart
  <2>6. LeafApart(new, nid)
    <3>1. Append(<<>>, nid) = <<nid>>
      OBVIOUS
    <3> QED BY <1>2, <1>6, <1>8, <3>1 DEF LeafApart
  <2> QED BY <2>4, <2>5, <2>6 DEF LeavesMade
<1>10. WellMade(new)
  <2>1. /\ TreeOn(inner, DOMAIN inner.nodes, DOMAIN inner.clusters)
        /\ NodesLinked(inner, DOMAIN inner.nodes)
    BY <1>6, MadeLinked
  <2>2. TreeOn(new, DOMAIN inner.nodes, DOMAIN inner.clusters) /\ NodesLinked(new, DOMAIN inner.nodes)
    BY <1>12, <2>1 DEF TreeOn, NodesLinked
  <2>3. ASSUME NEW n \in DOMAIN inner.nodes PROVE NodeMade(new, n)
    <3>1. NodeMade(inner, n)
      BY <1>6, MadeLinked
    <3> QED BY <1>8, <3>1 DEF NodeMade
  <2>4. ASSUME NEW k \in DOMAIN inner.clusters
        PROVE  ClusterMade(new, k) /\ ClusterLinked(new, DOMAIN inner.nodes, DOMAIN inner.clusters, k)
    <3>1. ClusterMade(inner, k) /\ ClusterLinked(inner, DOMAIN inner.nodes, DOMAIN inner.clusters, k)
      BY <1>6, MadeLinked
    <3> QED BY <1>8, <3>1 DEF ClusterMade, ClusterLinked
  <2> QED BY <1>9, <2>2, <2>3, <2>4, MadeOf
<1>11. ClusterCount(new) = ClusterCount(t) + 1
  BY <1>2, <1>6, <1>8 DEF ClusterCount
<1> QED BY <1>2, <1>6, <1>8, <1>10, <1>11 DEF LeafNodeAdded

(* The leaves have the guests, the i-th of them the i-th.                  *)
GuestsNumbered(t) ==
    /\ \A n \in DOMAIN t.nodes : IsLeafNode(t, n) <=> n \in ToSet(t.leaves)
    /\ \A i \in 1 .. Len(t.leaves) : t.nodes[t.leaves[i]].guest = i

LEMMA BuildMade ==
  ASSUME NEW t, WellMade(t), NEW new, new = Build(t)
  PROVE  /\ WellMade(new) /\ GuestsNumbered(new)
         /\ new.leaves = t.leaves /\ new.clusters = t.clusters /\ DOMAIN new.nodes = DOMAIN t.nodes
         /\ \A n \in DOMAIN t.nodes :
               /\ new.nodes[n].parents = t.nodes[n].parents /\ new.nodes[n].pages = t.nodes[n].pages
<1> DEFINE N == DOMAIN t.nodes
           guestOf(n) == IF n \in ToSet(t.leaves)
                         THEN CHOOSE i \in DOMAIN t.leaves : t.leaves[i] = n ELSE NoGuest
           f == [n \in DOMAIN t.nodes |-> [t.nodes[n] EXCEPT !.guest = guestOf(n)]]
<1>1. new = [t EXCEPT !.nodes = f]
  BY DEF Build
<1>2. ASSUME NEW n \in N
      PROVE  f[n] = [parents |-> t.nodes[n].parents, children |-> t.nodes[n].children,
                     pages |-> t.nodes[n].pages, guest |-> guestOf(n), cluster |-> t.nodes[n].cluster]
  <2>1. t.nodes[n] \in NodeShape
    BY DEF WellMade, NodeMade
  <2> HIDE DEF guestOf
  <2> QED BY <2>1 DEF NodeShape
<1>3. DOMAIN f = N /\ f = [n \in N |-> f[n]]
  OBVIOUS
<1>4. ASSUME NEW n \in N
      PROVE  /\ guestOf(n) \in Nat
             /\ guestOf(n) # NoGuest <=> n \in ToSet(t.leaves)
             /\ n \in ToSet(t.leaves) => guestOf(n) \in DOMAIN t.leaves /\ t.leaves[guestOf(n)] = n
  <2>1. DOMAIN t.leaves = 1 .. Len(t.leaves) /\ Len(t.leaves) \in Nat
    BY LenProperties DEF WellMade, LeavesMade
  <2>2. n \in ToSet(t.leaves) => \E i \in DOMAIN t.leaves : t.leaves[i] = n
    BY DEF ToSet
  <2>3. n \in ToSet(t.leaves) => guestOf(n) \in DOMAIN t.leaves /\ t.leaves[guestOf(n)] = n
    BY <2>2
  <2> HIDE DEF guestOf
  <2>4. n \notin ToSet(t.leaves) => guestOf(n) = 0
    BY DEF guestOf, NoGuest
  <2> QED BY <2>1, <2>3, <2>4 DEF NoGuest
<1> HIDE DEF f, guestOf
<1>14. /\ new.nodes = f /\ new.leaves = t.leaves /\ new.clusters = t.clusters
       /\ new = [nodes |-> new.nodes, leaves |-> new.leaves, clusters |-> new.clusters]
  <2>1. t = [nodes |-> t.nodes, leaves |-> t.leaves, clusters |-> t.clusters]
    BY DEF WellMade
  <2> QED BY <1>1, <2>1
<1>5. new.nodes = f /\ new.leaves = t.leaves /\ new.clusters = t.clusters
  BY <1>14
<1>6. ASSUME NEW n \in N
      PROVE  /\ new.nodes[n].parents = t.nodes[n].parents /\ new.nodes[n].pages = t.nodes[n].pages
             /\ new.nodes[n].children = t.nodes[n].children
             /\ new.nodes[n].cluster = t.nodes[n].cluster
             /\ new.nodes[n].guest = guestOf(n)
  <2>1. new.nodes[n] = [parents |-> t.nodes[n].parents, children |-> t.nodes[n].children,
                        pages |-> t.nodes[n].pages, guest |-> guestOf(n), cluster |-> t.nodes[n].cluster]
    BY <1>2, <1>5
  <2> QED BY <2>1
<1>7. ASSUME NEW n \in N PROVE NodeMade(new, n)
  <2>1. NodeMade(t, n)
    BY DEF WellMade
  <2>2. new.nodes[n] \in NodeShape
    <3>1. new.nodes[n] = [parents |-> t.nodes[n].parents, children |-> t.nodes[n].children,
                          pages |-> t.nodes[n].pages, guest |-> guestOf(n),
                          cluster |-> t.nodes[n].cluster]
      BY <1>2, <1>5
    <3>2. /\ t.nodes[n].parents \in SUBSET Nat /\ t.nodes[n].children \in SUBSET Nat
          /\ t.nodes[n].pages \in SUBSET Page /\ t.nodes[n].cluster \in Nat
          /\ guestOf(n) \in Nat
      BY <1>4, <2>1 DEF NodeMade, NodeShape
    <3> QED BY <3>1, <3>2 DEF NodeShape
  <2> QED BY <1>3, <1>5, <1>6, <2>1, <2>2 DEF NodeMade
<1>8. TreeOn(new, N, DOMAIN t.clusters)
  <2>1. TreeOn(t, N, DOMAIN t.clusters)
    BY MadeLinked
  <2> QED BY <1>3, <1>14, <2>1 DEF TreeOn
<1>9. ASSUME NEW k \in DOMAIN t.clusters
      PROVE  ClusterMade(new, k) /\ ClusterLinked(new, N, DOMAIN t.clusters, k)
  <2>1. ClusterMade(t, k) /\ ClusterLinked(t, N, DOMAIN t.clusters, k)
    BY MadeLinked
  <2>2. {n \in N : t.nodes[n].cluster = k} = {n \in N : new.nodes[n].cluster = k}
    BY <1>6
  <2> QED BY <1>5, <2>1, <2>2 DEF ClusterMade, ClusterLinked
<1>10. NodesLinked(new, N)
  <2>1. NodesLinked(t, N)
    BY MadeLinked
  <2> QED BY <1>5, <1>6, <2>1 DEF NodesLinked
<1>11. LeavesMade(new)
  <2>1. LeavesMade(t) /\ ToSet(t.leaves) \subseteq N
    BY MadeHas DEF WellMade
  <2>2. ASSUME NEW l \in ToSet(t.leaves) PROVE LeafApart(new, l)
    BY <1>5, <1>6, <2>1 DEF LeavesMade, LeafApart
  <2> QED BY <1>3, <1>5, <2>1, <2>2 DEF LeavesMade
<1>12. WellMade(new)
  <2> HIDE DEF N
  <2> QED BY <1>7, <1>8, <1>9, <1>10, <1>11, MadeOf
<1>13. GuestsNumbered(new)
  <2>1. ASSUME NEW n \in N PROVE IsLeafNode(new, n) <=> n \in ToSet(t.leaves)
    BY <1>4, <1>6 DEF IsLeafNode
  <2>2. ASSUME NEW i \in 1 .. Len(t.leaves) PROVE new.nodes[t.leaves[i]].guest = i
    <3>1. DOMAIN t.leaves = 1 .. Len(t.leaves) /\ NoneTwice(t.leaves)
      BY LenProperties DEF WellMade, LeavesMade
    <3>2. PICK l : l = t.leaves[i]
      OBVIOUS
    <3>3. l \in ToSet(t.leaves)
      BY <3>1, <3>2 DEF ToSet
    <3>4. l \in N
      BY <3>3, MadeHas
    <3>5. guestOf(l) \in 1 .. Len(t.leaves) /\ t.leaves[guestOf(l)] = t.leaves[i]
      BY <1>4, <3>1, <3>2, <3>3, <3>4
    <3>6. guestOf(l) = i
      BY <3>1, <3>5 DEF NoneTwice
    <3> QED BY <1>6, <3>2, <3>4, <3>6
  <2> QED BY <1>3, <1>5, <2>1, <2>2 DEF GuestsNumbered
<1> QED BY <1>3, <1>5, <1>6, <1>12, <1>13

(* The pages of a node and of all that reach it.                           *)
Reach(t, n) == ReachingPages(t, {n}, {})

LEMMA ReachUnfolds ==
  ASSUME NEW t, WellMade(t)
  PROVE  /\ \A parents, pages : ReachingPages(t, parents, pages) = pages \cup UNION {Reach(t, p) : p \in parents}
         /\ \A n \in DOMAIN t.nodes :
               Reach(t, n) = t.nodes[n].pages \cup UNION {Reach(t, p) : p \in t.nodes[n].parents}
<1> DEFINE N == DOMAIN t.nodes
           Is(f) == f = [n \in N |-> t.nodes[n].pages \cup UNION {f[p] : p \in t.nodes[n].parents}]
           above == CHOOSE f : Is(f)
<1>1. ASSUME NEW parents, NEW pages
      PROVE  ReachingPages(t, parents, pages) = pages \cup UNION {above[p] : p \in parents}
  BY DEF ReachingPages
<1>2. Is(above)
  <2>1. PICK n \in Nat : N = 0 .. n - 1
    BY CountedHas DEF WellMade
  <2>2. PICK A, P : A = [k \in N |-> t.nodes[k].pages] /\ P = [k \in N |-> t.nodes[k].parents]
    OBVIOUS
  <2>3. \A k \in 0 .. n - 1 : P[k] \subseteq 0 .. k - 1
    BY <2>1, <2>2 DEF WellMade, NodeMade
  <2>4. PICK f : Collects(f, n, A, P)
    BY <2>3, UnionsDefined
  <2>5. ASSUME NEW k \in N PROVE f[k] = t.nodes[k].pages \cup UNION {f[p] : p \in t.nodes[k].parents}
    BY <2>1, <2>2, <2>4 DEF Collects
  <2>6. Is(f)
    <3>1. f = [k \in N |-> f[k]]
      BY <2>1, <2>4 DEF Collects
    <3> QED BY <2>5, <3>1
  <2> HIDE DEF Is
  <2> QED BY <2>6
<1> HIDE DEF above
<1>3. ASSUME NEW n PROVE Reach(t, n) = above[n]
  <2>1. ReachingPages(t, {n}, {}) = {} \cup UNION {above[p] : p \in {n}}
    BY <1>1
  <2> QED BY <2>1 DEF Reach
<1>4. ASSUME NEW parents PROVE {Reach(t, p) : p \in parents} = {above[p] : p \in parents}
  BY <1>3
<1>5. ASSUME NEW n \in N PROVE above[n] = t.nodes[n].pages \cup UNION {above[p] : p \in t.nodes[n].parents}
  BY <1>2
<1> QED BY <1>1, <1>3, <1>4, <1>5

LEMMA ReachSame ==
  ASSUME NEW t, WellMade(t), NEW new, WellMade(new), DOMAIN t.nodes \subseteq DOMAIN new.nodes,
         \A n \in DOMAIN t.nodes : /\ new.nodes[n].parents = t.nodes[n].parents
                                   /\ new.nodes[n].pages = t.nodes[n].pages
  PROVE  \A n \in DOMAIN t.nodes : Reach(new, n) = Reach(t, n)
<1> DEFINE S == {n \in Nat : n \in DOMAIN t.nodes => Reach(new, n) = Reach(t, n)}
<1>1. ASSUME NEW n \in Nat, \A m \in Nat : m < n => m \in S PROVE n \in S
  <2> SUFFICES ASSUME n \in DOMAIN t.nodes PROVE Reach(new, n) = Reach(t, n)
    OBVIOUS
  <2>1. PICK ps, pages : ps = t.nodes[n].parents /\ pages = t.nodes[n].pages
    OBVIOUS
  <2>2. /\ Reach(t, n) = pages \cup UNION {Reach(t, p) : p \in ps}
        /\ Reach(new, n) = pages \cup UNION {Reach(new, p) : p \in ps}
    BY <2>1, ReachUnfolds
  <2>3. \A p \in ps : p \in DOMAIN t.nodes /\ p \in Nat /\ p < n
    BY <2>1, MadeHas
  <2>4. \A p \in ps : Reach(new, p) = Reach(t, p)
    BY <1>1, <2>3
  <2> QED BY <2>2, <2>4
<1>2. Nat \subseteq S
  <2> HIDE DEF S
  <2> QED BY <1>1, SmallerFirst
<1>3. DOMAIN t.nodes \subseteq Nat
  BY MadeHas
<1> QED BY <1>2, <1>3

LEMMA ReachPages == ASSUME NEW t, WellMade(t) PROVE \A n \in DOMAIN t.nodes : Reach(t, n) \subseteq Page
<1> DEFINE S == {n \in Nat : n \in DOMAIN t.nodes => Reach(t, n) \subseteq Page}
<1>1. ASSUME NEW n \in Nat, \A m \in Nat : m < n => m \in S PROVE n \in S
  <2> SUFFICES ASSUME n \in DOMAIN t.nodes PROVE Reach(t, n) \subseteq Page
    OBVIOUS
  <2>1. PICK ps, pages : ps = t.nodes[n].parents /\ pages = t.nodes[n].pages
    OBVIOUS
  <2>2. Reach(t, n) = pages \cup UNION {Reach(t, p) : p \in ps}
    BY <2>1, ReachUnfolds
  <2>3. pages \subseteq Page /\ \A p \in ps : p \in DOMAIN t.nodes /\ p \in Nat /\ p < n
    BY <2>1, MadeHas
  <2>4. \A p \in ps : Reach(t, p) \subseteq Page
    BY <1>1, <2>3
  <2> QED BY <2>2, <2>3, <2>4
<1>2. Nat \subseteq S
  <2> HIDE DEF S
  <2> QED BY <1>1, SmallerFirst
<1>3. DOMAIN t.nodes \subseteq Nat
  BY MadeHas
<1> QED BY <1>2, <1>3

(* The path of a cluster to the root.                                      *)
LEMMA ClusterPathUnfolds ==
  ASSUME NEW t, WellMade(t)
  PROVE  \A c \in DOMAIN t.clusters :
            ClusterPath(t, c) = {c} \cup (IF c = RootCluster THEN {}
                                          ELSE ClusterPath(t, t.clusters[c].parent))
<1> DEFINE C == DOMAIN t.clusters
           Is(f) == f = [c \in C |-> {c} \cup (IF c = RootCluster THEN {} ELSE f[t.clusters[c].parent])]
           path == CHOOSE f : Is(f)
<1>1. \A c : ClusterPath(t, c) = path[c]
  BY DEF ClusterPath
<1>2. Is(path)
  <2>1. PICK n \in Nat : C = 0 .. n - 1
    BY CountedHas DEF WellMade
  <2>2. PICK A, P : /\ A = [k \in C |-> {k}]
                    /\ P = [k \in C |-> IF k = RootCluster THEN {} ELSE {t.clusters[k].parent}]
    OBVIOUS
  <2>3. ASSUME NEW k \in 0 .. n - 1 PROVE P[k] \subseteq 0 .. k - 1
    <3>1. ClusterMade(t, k)
      BY <2>1 DEF WellMade
    <3> QED BY <2>1, <2>2, <3>1 DEF ClusterMade
  <2>4. PICK f : Collects(f, n, A, P)
    BY <2>3, UnionsDefined
  <2>5. ASSUME NEW k \in C PROVE f[k] = {k} \cup (IF k = RootCluster THEN {} ELSE f[t.clusters[k].parent])
    <3>1. f[k] = {k} \cup UNION {f[p] : p \in P[k]}
      BY <2>1, <2>2, <2>4 DEF Collects
    <3> QED BY <2>2, <3>1
  <2>6. Is(f)
    <3>1. f = [k \in C |-> f[k]]
      BY <2>1, <2>4 DEF Collects
    <3> QED BY <2>5, <3>1
  <2> HIDE DEF Is
  <2> QED BY <2>6
<1> HIDE DEF path
<1>3. ASSUME NEW c \in C
      PROVE  path[c] = {c} \cup (IF c = RootCluster THEN {} ELSE path[t.clusters[c].parent])
  BY <1>2
<1> QED BY <1>1, <1>3

(* It goes up in numbers, takes in the paths of those on it, and two       *)
(* clusters on it have different parents.                                  *)
LEMMA ClusterPathFacts ==
  ASSUME NEW t, WellMade(t)
  PROVE  /\ ClusterPath(t, RootCluster) = {RootCluster}
         /\ \A c \in DOMAIN t.clusters :
               /\ c \in ClusterPath(t, c) /\ RootCluster \in ClusterPath(t, c)
               /\ ClusterPath(t, c) \subseteq DOMAIN t.clusters
               /\ \A d \in ClusterPath(t, c) : d <= c /\ ClusterPath(t, d) \subseteq ClusterPath(t, c)
               /\ c # RootCluster =>
                     /\ ClusterPath(t, c) = {c} \cup ClusterPath(t, t.clusters[c].parent)
                     /\ c \notin ClusterPath(t, t.clusters[c].parent)
               /\ \A d, e \in ClusterPath(t, c) \ {RootCluster} :
                     t.clusters[d].parent = t.clusters[e].parent => d = e
<1>1. /\ DOMAIN t.clusters \subseteq Nat /\ RootCluster \in DOMAIN t.clusters
      /\ \A c \in DOMAIN t.clusters : /\ t.clusters[c].parent \in DOMAIN t.clusters
                                      /\ c # RootCluster => t.clusters[c].parent < c
  BY MadeHas DEF WellMade
<1>2. /\ ClusterPath(t, RootCluster) = {RootCluster}
      /\ \A c \in DOMAIN t.clusters :
            c # RootCluster => ClusterPath(t, c) = {c} \cup ClusterPath(t, t.clusters[c].parent)
  BY <1>1, ClusterPathUnfolds
<1> DEFINE Apart(c) == \A d, e \in ClusterPath(t, c) \ {RootCluster} :
                          t.clusters[d].parent = t.clusters[e].parent => d = e
           Right(c) == /\ c \in ClusterPath(t, c) /\ RootCluster \in ClusterPath(t, c)
                       /\ ClusterPath(t, c) \subseteq DOMAIN t.clusters
                       /\ \A d \in ClusterPath(t, c) : d <= c /\ ClusterPath(t, d) \subseteq ClusterPath(t, c)
           S == {c \in Nat : c \in DOMAIN t.clusters => Right(c) /\ Apart(c)}
<1>3. ASSUME NEW c \in Nat, \A d \in Nat : d < c => d \in S PROVE c \in S
  <2> SUFFICES ASSUME c \in DOMAIN t.clusters PROVE Right(c) /\ Apart(c)
    OBVIOUS
  <2>1. CASE c = RootCluster
    BY <1>1, <1>2, <2>1
  <2>2. CASE c # RootCluster
    <3>1. PICK p : p = t.clusters[c].parent
      OBVIOUS
    <3>2. p \in DOMAIN t.clusters /\ p \in Nat /\ p < c /\ ClusterPath(t, c) = {c} \cup ClusterPath(t, p)
      BY <1>1, <1>2, <2>2, <3>1
    <3>3. Right(p) /\ Apart(p)
      BY <1>3, <3>2
    <3>4. \A d \in ClusterPath(t, p) : d \in Nat /\ d <= c /\ d <= p
      BY <1>1, <3>2, <3>3
    <3>5. Right(c)
      BY <3>2, <3>3, <3>4
    <3>6. \A d \in ClusterPath(t, p) \ {RootCluster} : t.clusters[d].parent # p
      BY <1>1, <3>2, <3>3, <3>4
    <3>7. Apart(c)
      BY <3>1, <3>2, <3>3, <3>6
    <3> QED BY <3>5, <3>7
  <2> QED BY <2>1, <2>2
<1>4. Nat \subseteq S
  <2> HIDE DEF S
  <2> QED BY <1>3, SmallerFirst
<1>5. \A c \in DOMAIN t.clusters : Right(c) /\ Apart(c)
  BY <1>1, <1>4
<1>6. ASSUME NEW c \in DOMAIN t.clusters, c # RootCluster
      PROVE  c \notin ClusterPath(t, t.clusters[c].parent)
  <2>1. t.clusters[c].parent \in DOMAIN t.clusters /\ t.clusters[c].parent < c
        /\ t.clusters[c].parent \in Nat /\ c \in Nat
    BY <1>1, <1>6
  <2> QED BY <1>5, <2>1
<1> HIDE DEF S
<1> QED BY <1>1, <1>2, <1>5, <1>6

-----------------------------------------------------------------------------
(* The invariant of the maximisers, part by part.                          *)

(* A guest has the pages that reach its leaf. *)
LeavesHavePages(t, guests) ==
    /\ Len(t.leaves) = Len(guests)
    /\ \A i \in 1 .. Len(guests) : guests[i].pages = Reach(t, t.leaves[i])

(* The call and the tree: clusters are added to one that has no leaf, and  *)
(* the guests are given to the leaves at the end.                          *)
CallMade ==
    /\ solver \in Solver /\ subsetSize \in 1 .. MaxSubsetSize
    /\ unlimited \in BOOLEAN /\ decant \in BOOLEAN
    /\ phase \in Phase
    /\ solver = "subset_efficiency" => phase \notin {"building", "tabulating"}
    /\ solver = "cluster_tree" => unlimited /\ phase # "filling"

TreeBuilt ==
    /\ IsInstance(instance)
    /\ WellMade(tree) /\ ClusterCount(tree) <= MaxClusters
    /\ current \in DOMAIN tree.clusters
    /\ solver = "cluster_tree" => LeavesHavePages(tree, instance)
    /\ phase = "building" => Inner(tree, current)
    /\ solver = "cluster_tree" /\ phase # "building" => GuestsNumbered(tree)

(* The search: an attempt is at a number of hosts within the range. *)
AtAttempt == phase \in {"searching", "filling", "tabulating", "filled", "maximised"}

SearchTyped ==
    /\ minHosts \in 1 .. MaxGuests + 1 /\ maxHosts \in 0 .. MaxGuests
    /\ AtAttempt /\ ~unlimited => minHosts <= allowed /\ allowed <= maxHosts
    /\ best \in SUBSET Seq(HostSet) /\ Cardinality(best) <= 1
    /\ allowed \in 0 .. Unlimited
    /\ hosts \in Seq(HostSet)
    /\ profitable \subseteq Guests
    /\ placed \in Nat

(* The host that is filled has a profitable guest as soon as it has any,   *)
(* and the guests still to be placed are not on it.                        *)
HostFilling ==
    /\ IsHost(host) /\ FrequenciesMatch(host)
    /\ host.guests \subseteq Guests
    /\ unplaced \subseteq Guests
    /\ size \in 0 .. MaxSubsetSize
    /\ phase = "filling" => host.guests \cap unplaced = {}
    /\ phase \in {"filling", "filled"} /\ host.guests # {} => host.guests \cap profitable # {}

(* The queue: a cluster is on it once all its children have been visited,  *)
(* and until it is visited.  A count of children never drops below zero,   *)
(* but for that of the root, which is its own parent.                      *)
ChildrenOf(t, c) == ToSet(t.clusters[c].children)

QueuedAt(t, queue, counts, B, c) ==
    /\ counts[c] = IF c = RootCluster /\ c \in B THEN SizeRange - 1
                   ELSE Cardinality(ChildrenOf(t, c) \ B)
    /\ c \in ToSet(queue) \cup B <=> ChildrenOf(t, c) \subseteq B

Queued(t, queue, counts, B) ==
    /\ queue \in Seq(DOMAIN t.clusters) /\ NoneTwice(queue)
    /\ B \subseteq DOMAIN t.clusters /\ ToSet(queue) \cap B = {}
    /\ counts \in [DOMAIN t.clusters -> Nat]
    /\ \A c \in DOMAIN t.clusters : QueuedAt(t, queue, counts, B, c)

(* The entries of a table: guests of the instance, among them a profitable *)
(* one when a profit is to be made.                                        *)
EntryOver(n) == [pageCount : Nat, guests : SUBSET (1 .. n)]

KeysOf(t, c, bound) == (SUBSET NodesOf(t, c)) \X (0 .. bound)

EntriesOver(t, c, bound, n) == [KeysOf(t, c, bound) -> EntryOver(n)]

Rewarding(entries, profits) ==
    \A key \in DOMAIN entries :
        key[2] > 0 /\ IsFinite(entries[key]) => entries[key].guests \cap profits # {}

TableTyped ==
    /\ frontier \in Seq(DOMAIN tree.clusters) /\ below \in Seq(DOMAIN tree.clusters)
    /\ visited \in DOMAIN tree.clusters
    /\ DOMAIN costs = DOMAIN bounds /\ DOMAIN bounds \subseteq DOMAIN tree.clusters

TableAt(t, made, limits, n, profits, c) ==
    /\ limits[c] \in Nat
    /\ made[c] \in EntriesOver(t, c, limits[c], n)
    /\ Rewarding(made[c], profits)

TableMade ==
    IF phase = "tabulating"
    THEN /\ Queued(tree, frontier, unvisited, DOMAIN bounds)
         /\ below # <<>> => visited \in DOMAIN bounds /\ ToSet(below) \subseteq DOMAIN bounds
         /\ \A c \in DOMAIN bounds : TableAt(tree, costs, bounds, Len(instance), Profits, c)
    ELSE below = <<>>

MaxInv == CallMade /\ TreeBuilt /\ SearchTyped /\ HostFilling /\ TableTyped /\ TableMade

-----------------------------------------------------------------------------
(* The calls of the tree builder.                                          *)

(* A cluster on the path of another has clusters below. *)
LEMMA PathHasChildren ==
  ASSUME NEW t, WellMade(t)
  PROVE  \A c \in DOMAIN t.clusters : \A d \in ClusterPath(t, c) :
            d # c => ChildrenOf(t, d) # {}
<1> DEFINE S == {c \in Nat : c \in DOMAIN t.clusters =>
                    \A d \in ClusterPath(t, c) : d # c => ChildrenOf(t, d) # {}}
<1>1. ASSUME NEW c \in Nat, \A d \in Nat : d < c => d \in S PROVE c \in S
  <2> SUFFICES ASSUME c \in DOMAIN t.clusters, NEW d \in ClusterPath(t, c), d # c
               PROVE  ChildrenOf(t, d) # {}
    OBVIOUS
  <2>1. c # RootCluster
    BY ClusterPathFacts
  <2>2. PICK p : p = t.clusters[c].parent
    OBVIOUS
  <2>3. p \in DOMAIN t.clusters /\ p \in Nat /\ p < c /\ d \in ClusterPath(t, p)
    BY <2>1, <2>2, MadeHas, ClusterPathFacts
  <2>4. c \in ChildrenOf(t, p)
    BY <2>1, <2>2, <2>3, MadeHas DEF ChildrenOf
  <2> QED BY <1>1, <2>3, <2>4
<1>2. Nat \subseteq S
  <2> HIDE DEF S
  <2> QED BY <1>1, SmallerFirst
<1>3. DOMAIN t.clusters \subseteq Nat
  BY MadeHas
<1> QED BY <1>2, <1>3

(* One with clusters below has no leaf. *)
LEMMA ParentsAreInner ==
  ASSUME NEW t, WellMade(t), NEW c \in DOMAIN t.clusters, ChildrenOf(t, c) # {}
  PROVE  Inner(t, c)
<1> SUFFICES ASSUME NEW l \in ToSet(t.leaves), t.nodes[l].cluster = c PROVE FALSE
  BY DEF Inner
<1>1. t.clusters[c].children = <<>>
  BY MadeHas DEF LeafApart
<1> QED BY <1>1 DEF ChildrenOf, ToSet

LEMMA ParseClusterKeeps ==
  ASSUME MaxInv, NEW parent, ParseCluster(parent)
  PROVE  TreeBuilt' /\ DOMAIN tree.clusters \subseteq DOMAIN tree'.clusters
<1>1. /\ WellMade(tree) /\ current \in DOMAIN tree.clusters /\ Inner(tree, current)
      /\ phase = "building" /\ ClusterCount(tree) < MaxClusters
      /\ parent \in ClusterPath(tree, current)
      /\ tree' = CreateCluster(tree, parent) /\ current' = ClusterCount(tree)
      /\ instance' = instance /\ phase' = phase /\ solver' = solver
      /\ IsInstance(instance) /\ (solver = "cluster_tree" => LeavesHavePages(tree, instance))
  BY DEF MaxInv, TreeBuilt, ParseCluster, call
<1>2. Inner(tree, parent)
  <2>1. parent \in DOMAIN tree.clusters
    BY <1>1, ClusterPathFacts
  <2> QED BY <1>1, <2>1, PathHasChildren, ParentsAreInner
<1>3. PICK old, new, cid : old = tree /\ new = tree' /\ cid = ClusterCount(tree)
  OBVIOUS
<1>4. WellMade(old) /\ Inner(old, parent) /\ new = CreateCluster(old, parent) /\ cid = ClusterCount(old)
  BY <1>1, <1>2, <1>3
<1>5. /\ WellMade(new) /\ new.nodes = old.nodes /\ new.leaves = old.leaves
      /\ DOMAIN new.clusters = DOMAIN old.clusters \cup {cid}
      /\ ClusterCount(new) = ClusterCount(old) + 1
      /\ Inner(new, cid)
  BY <1>4, CreateClusterMade
<1>6. cid \in DOMAIN new.clusters
  BY <1>5
<1>7. \A n \in DOMAIN old.nodes : Reach(new, n) = Reach(old, n)
  BY <1>4, <1>5, ReachSame
<1>8. solver = "cluster_tree" => LeavesHavePages(new, instance)
  <2>1. \A l \in ToSet(old.leaves) : l \in DOMAIN old.nodes
    BY <1>4, MadeHas
  <2>2. \A i \in 1 .. Len(old.leaves) : old.leaves[i] \in ToSet(old.leaves)
    BY <1>4, LenProperties DEF ToSet, WellMade, LeavesMade
  <2> QED BY <1>1, <1>3, <1>5, <1>7, <2>1, <2>2 DEF LeavesHavePages
<1>9. ClusterCount(old) + 1 <= MaxClusters
  <2>1. ClusterCount(old) \in Nat
    BY <1>4, CountedHas DEF WellMade, ClusterCount
  <2>2. MaxClusters \in Nat
    BY MaximisersAssumption
  <2> QED BY <1>1, <1>3, <2>1, <2>2
<1> QED BY <1>1, <1>3, <1>5, <1>6, <1>8, <1>9 DEF TreeBuilt

(* The parents offered for a new node are in an inner cluster: the one     *)
(* above the cluster that is being parsed.                                 *)
LEMMA OfferedParents ==
  ASSUME MaxInv, phase = "building", NEW parents \in PossibleParents
  PROVE  /\ MayParent(tree, current, parents)
         /\ parents # {} => Inner(tree, tree.clusters[current].parent)
<1>1. WellMade(tree) /\ current \in DOMAIN tree.clusters
  BY DEF MaxInv, TreeBuilt
<1>2. MayParent(tree, current, parents)
  BY DEF PossibleParents, MayParent
<1>3. ASSUME current # RootCluster PROVE Inner(tree, tree.clusters[current].parent)
  <2>1. PICK p : p = tree.clusters[current].parent
    OBVIOUS
  <2>2. p \in DOMAIN tree.clusters /\ current \in ChildrenOf(tree, p)
    BY <1>1, <1>3, <2>1, MadeHas DEF ChildrenOf
  <2> QED BY <1>1, <2>1, <2>2, ParentsAreInner
<1> QED BY <1>2, <1>3 DEF MayParent

LEMMA ParseInnerNodeKeeps ==
  ASSUME MaxInv, NEW parents \in PossibleParents, NEW pages \in SUBSET Page,
         ParseInnerNode(parents, pages)
  PROVE  TreeBuilt' /\ DOMAIN tree.clusters \subseteq DOMAIN tree'.clusters
<1>1. /\ WellMade(tree) /\ current \in DOMAIN tree.clusters /\ Inner(tree, current)
      /\ phase = "building" /\ ClusterCount(tree) <= MaxClusters
      /\ tree' = AddInnerNode(tree, current, parents, pages) /\ current' = current
      /\ instance' = instance /\ phase' = phase /\ solver' = solver
      /\ IsInstance(instance) /\ (solver = "cluster_tree" => LeavesHavePages(tree, instance))
  BY DEF MaxInv, TreeBuilt, ParseInnerNode, MayAdd, call
<1>2. MayParent(tree, current, parents)
  BY <1>1, OfferedParents
<1>3. PICK old, new, cid, nid : old = tree /\ new = tree' /\ cid = current /\ nid = NodeCount(tree)
  OBVIOUS
<1>4. /\ WellMade(old) /\ Inner(old, cid) /\ new = AddInnerNode(old, cid, parents, pages)
      /\ nid = NodeCount(old) /\ cid \in DOMAIN old.clusters /\ MayParent(old, cid, parents)
  BY <1>1, <1>2, <1>3
<1>5. /\ WellMade(new) /\ new.leaves = old.leaves
      /\ DOMAIN new.nodes = DOMAIN old.nodes \cup {nid}
      /\ \A n \in DOMAIN old.nodes :
            /\ new.nodes[n].parents = old.nodes[n].parents /\ new.nodes[n].pages = old.nodes[n].pages
            /\ new.nodes[n].cluster = old.nodes[n].cluster
      /\ DOMAIN new.clusters = DOMAIN old.clusters
  <2>1. InnerNodeAdded(old, new, cid, nid, parents, pages)
    BY <1>4, AddInnerNodeMade
  <2> QED BY <2>1 DEF InnerNodeAdded
<1>6. \A n \in DOMAIN old.nodes : Reach(new, n) = Reach(old, n)
  <2>1. DOMAIN old.nodes \subseteq DOMAIN new.nodes
    BY <1>5
  <2> QED BY <1>4, <1>5, <2>1, ReachSame
<1>7. ToSet(old.leaves) \subseteq DOMAIN old.nodes
  BY <1>4, MadeHas
<1>8. solver = "cluster_tree" => LeavesHavePages(new, instance)
  <2>1. \A i \in 1 .. Len(old.leaves) : old.leaves[i] \in ToSet(old.leaves)
    BY <1>4, LenProperties DEF ToSet, WellMade, LeavesMade
  <2> QED BY <1>1, <1>3, <1>5, <1>6, <1>7, <2>1 DEF LeavesHavePages
<1>9. Inner(new, cid)
  BY <1>4, <1>5, <1>7 DEF Inner
<1>10. ClusterCount(new) = ClusterCount(old)
  BY <1>5 DEF ClusterCount
<1> QED BY <1>1, <1>3, <1>4, <1>5, <1>8, <1>9, <1>10 DEF TreeBuilt

(* A guest more makes an instance.                                         *)
GuestAdded(inst, new, pages) ==
    /\ IsInstance(new) /\ Len(new) = Len(inst) + 1
    /\ \A i \in 1 .. Len(inst) : new[i] = inst[i]
    /\ new[Len(inst) + 1].pages = pages
    /\ GuestsOf(inst) \subseteq GuestsOf(new)

LEMMA InstanceGrows ==
  ASSUME NEW inst, IsInstance(inst), NEW pages \in PageSet, Len(inst) + 1 \in GuestId,
         NEW new, new = Append(inst, [id |-> Len(inst) + 1, pages |-> pages])
  PROVE  GuestAdded(inst, new, pages)
<1>1. inst \in Seq(Guest) /\ Len(inst) \in Nat
  BY DEF IsInstance
<1>2. PICK g : g = [id |-> Len(inst) + 1, pages |-> pages]
  OBVIOUS
<1>3. g \in Guest /\ g.id = Len(inst) + 1 /\ g.pages = pages
  BY <1>2 DEF Guest, PageSet
<1>4. /\ new \in Seq(Guest) /\ Len(new) = Len(inst) + 1
      /\ \A i \in 1 .. Len(inst) : new[i] = inst[i]
      /\ new[Len(inst) + 1] = g
  BY <1>1, <1>2, <1>3, AppendProperties
<1>5. \A i \in 1 .. Len(inst) : inst[i].id = i /\ inst[i].pages \in PageSet
  BY DEF IsInstance
<1>6. \A i \in 1 .. Len(new) : i \in 1 .. Len(inst) \/ i = Len(inst) + 1
  BY <1>1, <1>4
<1>7. Len(inst) + 1 <= MaxGuests
  BY <1>1, HostAssumption DEF GuestId
<1>8. IsInstance(new)
  BY <1>3, <1>4, <1>5, <1>6, <1>7 DEF IsInstance
<1>9. GuestsOf(inst) \subseteq GuestsOf(new)
  BY <1>1, <1>4 DEF GuestsOf
<1> QED BY <1>3, <1>4, <1>8, <1>9 DEF GuestAdded

LEMMA ParseLeafNodeKeeps ==
  ASSUME MaxInv, NEW parents \in PossibleParents, NEW pages \in SUBSET Page,
         ParseLeafNode(parents, pages)
  PROVE  /\ TreeBuilt' /\ DOMAIN tree.clusters \subseteq DOMAIN tree'.clusters
         /\ Guests \subseteq Guests'
<1>1. /\ WellMade(tree) /\ current \in DOMAIN tree.clusters /\ Inner(tree, current)
      /\ phase = "building" /\ ClusterCount(tree) < MaxClusters /\ parents # {}
      /\ tree' = AddLeafNode(tree, parents, pages) /\ current' = current
      /\ phase' = phase /\ solver' = solver
      /\ IsInstance(instance) /\ (solver = "cluster_tree" => LeavesHavePages(tree, instance))
  BY DEF MaxInv, TreeBuilt, ParseLeafNode, MayAdd, call
<1>2. PICK old, new, cid, nid, c, reach :
         /\ old = tree /\ new = tree' /\ cid = ClusterCount(tree) /\ nid = NodeCount(tree)
         /\ c = tree.clusters[current].parent /\ reach = ReachingPages(tree, parents, pages)
  OBVIOUS
<1>3. /\ Len(instance) + 1 \in GuestId /\ reach \in PageSet
      /\ instance' = Append(instance, [id |-> Len(instance) + 1, pages |-> reach])
  BY <1>2 DEF ParseLeafNode
<1>4. /\ WellMade(old) /\ Inner(old, c) /\ new = AddLeafNode(old, parents, pages)
      /\ nid = NodeCount(old) /\ cid = ClusterCount(old)
      /\ parents # {} /\ parents \subseteq NodesOf(old, c)
  <2>1. MayParent(tree, current, parents) /\ Inner(tree, tree.clusters[current].parent)
    BY <1>1, OfferedParents
  <2> QED BY <1>1, <1>2, <2>1 DEF MayParent
<1>5. /\ WellMade(new) /\ new.leaves = Append(old.leaves, nid)
      /\ nid \notin DOMAIN old.nodes /\ DOMAIN new.nodes = DOMAIN old.nodes \cup {nid}
      /\ new.nodes[nid] = [parents |-> parents, children |-> {}, pages |-> pages,
                           guest |-> NoGuest, cluster |-> cid]
      /\ \A n \in DOMAIN old.nodes :
            /\ new.nodes[n].parents = old.nodes[n].parents /\ new.nodes[n].pages = old.nodes[n].pages
            /\ new.nodes[n].cluster = old.nodes[n].cluster
      /\ cid \notin DOMAIN old.clusters /\ DOMAIN new.clusters = DOMAIN old.clusters \cup {cid}
      /\ ClusterCount(new) = ClusterCount(old) + 1
  <2>1. LeafNodeAdded(old, new, cid, nid, parents, pages)
    BY <1>4, AddLeafNodeMade
  <2> QED BY <2>1 DEF LeafNodeAdded
<1>6. \A n \in DOMAIN old.nodes : Reach(new, n) = Reach(old, n)
  <2>1. DOMAIN old.nodes \subseteq DOMAIN new.nodes
    BY <1>5
  <2> QED BY <1>4, <1>5, <2>1, ReachSame
<1>7. parents \subseteq DOMAIN old.nodes /\ ToSet(old.leaves) \subseteq DOMAIN old.nodes
  BY <1>4, MadeHas DEF Inner
<1>8. Reach(new, nid) = reach
  <2>1. new.nodes[nid].pages = pages /\ new.nodes[nid].parents = parents /\ nid \in DOMAIN new.nodes
    BY <1>5
  <2>2. Reach(new, nid) = pages \cup UNION {Reach(new, p) : p \in parents}
    BY <1>5, <2>1, ReachUnfolds
  <2>3. {Reach(new, p) : p \in parents} = {Reach(old, p) : p \in parents}
    BY <1>6, <1>7
  <2>4. reach = pages \cup UNION {Reach(old, p) : p \in parents}
    BY <1>2, <1>4, ReachUnfolds
  <2> QED BY <2>2, <2>3, <2>4
<1>9. /\ IsInstance(instance') /\ Len(instance') = Len(instance) + 1
      /\ \A i \in 1 .. Len(instance) : instance'[i] = instance[i]
      /\ instance'[Len(instance) + 1].pages = reach
      /\ GuestsOf(instance) \subseteq GuestsOf(instance')
  <2>1. PICK inst, grown : inst = instance /\ grown = instance'
    OBVIOUS
  <2>2. /\ IsInstance(inst) /\ Len(inst) + 1 \in GuestId /\ reach \in PageSet
        /\ grown = Append(inst, [id |-> Len(inst) + 1, pages |-> reach])
    BY <1>1, <1>3, <2>1
  <2>3. GuestAdded(inst, grown, reach)
    BY <2>2, InstanceGrows
  <2> QED BY <2>1, <2>3 DEF GuestAdded
<1>10. ASSUME solver = "cluster_tree" PROVE LeavesHavePages(new, instance')
  <2>1. PICK k : k = Len(instance)
    OBVIOUS
  <2>2. /\ LeavesHavePages(old, instance) /\ Len(old.leaves) = k /\ k \in Nat
        /\ old.leaves \in Seq(DOMAIN old.nodes)
    BY <1>1, <1>2, <1>4, <1>10, <2>1 DEF LeavesHavePages, IsInstance, WellMade, LeavesMade
  <2>3. /\ Len(new.leaves) = k + 1 /\ new.leaves[k + 1] = nid
        /\ \A i \in 1 .. k : new.leaves[i] = old.leaves[i] /\ old.leaves[i] \in DOMAIN old.nodes
    BY <1>5, <2>2
  <2>4. \A i \in 1 .. k + 1 : i \in 1 .. k \/ i = k + 1
    BY <2>2
  <2> QED BY <1>6, <1>8, <1>9, <2>1, <2>2, <2>3, <2>4 DEF LeavesHavePages
<1>11. Inner(new, current)
  <2>1. current \in DOMAIN old.clusters /\ Inner(old, current) /\ current # cid
    BY <1>1, <1>2, <1>5
  <2>2. ToSet(new.leaves) = ToSet(old.leaves) \cup {nid}
    <3>1. PICK D, s : D = DOMAIN new.nodes /\ s = old.leaves
      OBVIOUS
    <3>2. s \in Seq(D) /\ NoneTwice(s) /\ nid \in D /\ nid \notin ToSet(s)
      <4>1. old.leaves \in Seq(DOMAIN old.nodes) /\ DOMAIN old.nodes \subseteq DOMAIN new.nodes
        BY <1>4, <1>5 DEF WellMade, LeavesMade
      <4>2. old.leaves \in Seq(DOMAIN new.nodes)
        BY <4>1, SeqMonotonic
      <4> QED BY <1>4, <1>5, <1>7, <3>1, <4>2 DEF WellMade, LeavesMade
    <3>3. ToSet(Append(s, nid)) = ToSet(s) \cup {nid}
      BY <3>2, AppendNoneTwice
    <3> QED BY <1>5, <3>1, <3>3
  <2> QED BY <1>5, <1>7, <2>1, <2>2 DEF Inner
<1>12. ClusterCount(old) + 1 <= MaxClusters
  <2>1. ClusterCount(old) \in Nat
    BY <1>4, CountedHas DEF WellMade, ClusterCount
  <2>2. MaxClusters \in Nat
    BY MaximisersAssumption
  <2> QED BY <1>1, <1>2, <2>1, <2>2
<1>13. current \in DOMAIN new.clusters
  BY <1>1, <1>2, <1>5
<1>14. TreeBuilt'
  BY <1>1, <1>2, <1>5, <1>9, <1>10, <1>11, <1>12, <1>13 DEF TreeBuilt
<1> QED BY <1>2, <1>5, <1>9, <1>14 DEF Guests

LEMMA BuildTreeKeeps ==
  ASSUME MaxInv, BuildTree
  PROVE  TreeBuilt' /\ tree'.clusters = tree.clusters
<1>1. /\ WellMade(tree) /\ current \in DOMAIN tree.clusters
      /\ ClusterCount(tree) <= MaxClusters
      /\ tree' = Build(tree) /\ current' = current
      /\ instance' = instance /\ phase' = "choosing" /\ solver' = solver
      /\ IsInstance(instance) /\ (solver = "cluster_tree" => LeavesHavePages(tree, instance))
  BY DEF MaxInv, TreeBuilt, BuildTree, call
<1>2. PICK old, new : old = tree /\ new = tree'
  OBVIOUS
<1>3. /\ WellMade(new) /\ GuestsNumbered(new)
      /\ new.leaves = old.leaves /\ new.clusters = old.clusters /\ DOMAIN new.nodes = DOMAIN old.nodes
      /\ \A n \in DOMAIN old.nodes :
            new.nodes[n].parents = old.nodes[n].parents /\ new.nodes[n].pages = old.nodes[n].pages
  BY <1>1, <1>2, BuildMade
<1>4. \A n \in DOMAIN old.nodes : Reach(new, n) = Reach(old, n)
  BY <1>1, <1>2, <1>3, ReachSame
<1>5. solver = "cluster_tree" => LeavesHavePages(new, instance)
  <2>1. ToSet(old.leaves) \subseteq DOMAIN old.nodes
    BY <1>1, <1>2, MadeHas
  <2>2. \A i \in 1 .. Len(old.leaves) : old.leaves[i] \in ToSet(old.leaves)
    BY <1>1, <1>2, LenProperties DEF ToSet, WellMade, LeavesMade
  <2> QED BY <1>1, <1>2, <1>3, <1>4, <2>1, <2>2 DEF LeavesHavePages
<1> QED BY <1>1, <1>2, <1>3, <1>5 DEF TreeBuilt, ClusterCount

-----------------------------------------------------------------------------
(* What decanting leaves of hosts that a solver returns: whatever moving   *)
(* parts and erasing keep, it keeps.                                       *)

MovesWithin(V) ==
    \A hs \in V :
        /\ Len(hs) \in Nat /\ DOMAIN hs = 1 .. Len(hs)
        /\ \A k \in DOMAIN hs : hs[k].guests \subseteq Guest
        /\ \A i, j \in DOMAIN hs : i # j =>
              \A part \in SUBSET hs[j].guests :
                 /\ MovePart(hs, i, j, part) \in V
                 /\ Len(MovePart(hs, i, j, part)) = Len(hs)
                 /\ hs[j].guests \ part \subseteq MovePart(hs, i, j, part)[j].guests

ErasesWithin(V) == \A hs \in V : EraseEmpty(hs) \in V

Passes == {1, 2, 3}

(* The parts of a host's guests have no guest in common. *)
LEMMA PartitionApart ==
  ASSUME NEW p \in Passes, NEW S
  PROVE  /\ Partition(p, S) \subseteq SUBSET S
         /\ \A C, D \in Partition(p, S) : C # D => C \cap D = {}
<1>1. CASE p = 1
  BY <1>1 DEF Partition
<1>2. CASE p = 2
  <2>1. Partition(p, S) = ComponentsOf(S)
    BY <1>2 DEF Partition
  <2>2. ASSUME NEW C \in ComponentsOf(S), NEW D \in ComponentsOf(S), C \cap D # {} PROVE C = D
    <3>1. C \in SUBSET S /\ D \in SUBSET S /\ IsClosed(C, S) /\ IsClosed(D, S)
      BY DEF ComponentsOf
    <3>2. IsClosed(C \cap D, S)
      BY <3>1 DEF IsClosed
    <3>3. /\ C \cap D \in (SUBSET C) \ {{}} => C \cap D = C
          /\ C \cap D \in (SUBSET D) \ {{}} => C \cap D = D
      BY <3>2 DEF ComponentsOf
    <3> QED BY <2>2, <3>3
  <2>3. ComponentsOf(S) \subseteq SUBSET S
    BY DEF ComponentsOf
  <2> QED BY <2>1, <2>2, <2>3
<1>3. CASE p = 3
  BY <1>3 DEF Partition
<1> QED BY <1>1, <1>2, <1>3 DEF Passes

LEMMA PartsWithin ==
  ASSUME NEW V, MovesWithin(V), NEW hs \in V, NEW p \in Passes,
         NEW i \in DOMAIN hs, NEW j \in DOMAIN hs, i # j,
         NEW new \in PairDecanted(p, hs, i, j)
  PROVE  new \in V /\ Len(new) = Len(hs)
<1> PICK order \in SetToSeqs(Partition(p, hs[j].guests)) : new = MoveParts(hs, i, j, order)
  BY DEF PairDecanted
<1>1. /\ Len(hs) \in Nat /\ DOMAIN hs = 1 .. Len(hs) /\ hs[j].guests \subseteq Guest
  BY DEF MovesWithin
<1>2. PICK S, P : S = hs[j].guests /\ P = Partition(p, S)
  OBVIOUS
<1>3. P \subseteq SUBSET S /\ \A C, D \in P : C # D => C \cap D = {}
  BY <1>2, PartitionApart
<1>4. order \in Seq(P) /\ NoneTwice(order) /\ GuestsOf(order) = P
  <2>1. IsFiniteSet(P)
    <3>1. IsFiniteSet(S)
      BY <1>1, <1>2, GuestFinite
    <3> QED BY <1>3, <3>1, FS_SUBSET, FS_Subset
  <2>2. order \in SetToSeqs(P)
    BY <1>2
  <2> QED BY <2>1, <2>2, OrdersOfSet
<1>5. PICK n \in Nat : n = Len(order) /\ DOMAIN order = 1 .. n
  BY <1>4, LenProperties
<1>6. /\ \A k \in 1 .. n : order[k] \in P
      /\ \A k, m \in 1 .. n : k # m => order[k] \cap order[m] = {}
  BY <1>3, <1>4, <1>5 DEF NoneTwice
<1>7. PICK turn : PartsInTurn(turn, hs, i, j, order, n) /\ MoveParts(hs, i, j, order) = turn[n]
  BY <1>5, PartsTurns
<1> DEFINE Right(k) == /\ turn[k] \in V /\ Len(turn[k]) = Len(hs)
                       /\ \A m \in k + 1 .. n : order[m] \subseteq turn[k][j].guests
           Good == {k \in 0 .. n : Right(k)}
<1>8. 0 \in Good
  <2>1. turn[0] = hs
    BY <1>7 DEF PartsInTurn
  <2>2. \A m \in 1 .. n : order[m] \subseteq hs[j].guests
    BY <1>2, <1>3, <1>6
  <2> QED BY <2>1, <2>2
<1>9. ASSUME NEW k \in 1 .. n, k - 1 \in Good PROVE k \in Good
  <2>1. PICK before : before = turn[k - 1]
    OBVIOUS
  <2>2. /\ before \in V /\ Len(before) = Len(hs)
        /\ \A m \in k .. n : order[m] \subseteq before[j].guests
    <3>1. k - 1 + 1 = k
      OBVIOUS
    <3> QED BY <1>9, <2>1, <3>1
  <2>3. turn[k] = MovePart(before, i, j, order[k])
    BY <1>7, <2>1 DEF PartsInTurn
  <2>4. PICK part : part = order[k]
    OBVIOUS
  <2>5. part \in SUBSET before[j].guests /\ i \in DOMAIN before /\ j \in DOMAIN before
    <3>1. DOMAIN before = 1 .. Len(before)
      BY <2>2 DEF MovesWithin
    <3>2. k \in k .. n
      OBVIOUS
    <3> QED BY <1>1, <2>2, <2>4, <3>1, <3>2
  <2>6. PICK after : after = turn[k]
    OBVIOUS
  <2>7. after \in V /\ Len(after) = Len(before) /\ before[j].guests \ part \subseteq after[j].guests
    BY <2>2, <2>3, <2>4, <2>5, <2>6 DEF MovesWithin
  <2>8. ASSUME NEW m \in k + 1 .. n PROVE order[m] \subseteq after[j].guests
    <3>1. m \in k .. n /\ m \in 1 .. n /\ m # k /\ k \in 1 .. n
      OBVIOUS
    <3>2. order[m] \subseteq before[j].guests /\ order[m] \cap part = {}
      BY <1>6, <2>2, <2>4, <3>1
    <3> QED BY <2>7, <3>2
  <2> QED BY <2>2, <2>6, <2>7, <2>8
<1>10. n \in Good
  <2> HIDE DEF Good
  <2> QED BY <1>8, <1>9, CountingUp
<1> QED BY <1>7, <1>10

LEMMA AllWithin ==
  ASSUME NEW V, MovesWithin(V), NEW hs \in V, NEW p \in Passes
  PROVE  AllDecanted(p, hs, Len(hs)) \subseteq V
<1>1. PICK n \in Nat : n = Len(hs)
  BY DEF MovesWithin
<1>2. PICK at : IsWalk(at, p, hs) /\ AllDecanted(p, hs, Len(hs)) = at[<<Len(hs) + 1, Len(hs) + 1>>]
  BY <1>1, WalkExists
<1> DEFINE W == {h \in V : Len(h) = n}
<1>3. /\ at[<<1, 1>>] = {hs}
      /\ \A l, r \in 1 .. n : l < r => at[<<l, r>>] = PairsDecanted(p, at[<<l, r - 1>>], l, r)
      /\ \A l \in 1 .. n : at[<<l + 1, l + 1>>] = at[<<l, n>>]
  BY <1>1, <1>2 DEF IsWalk
<1>4. ASSUME NEW X, X \subseteq W, NEW l \in 1 .. n, NEW r \in 1 .. n, l # r
      PROVE  PairsDecanted(p, X, l, r) \subseteq W
  <2> SUFFICES ASSUME NEW h \in X, NEW new \in PairDecanted(p, h, l, r) PROVE new \in W
    BY DEF PairsDecanted
  <2>1. h \in V /\ Len(h) = n
    BY <1>4
  <2>2. h \in V /\ l \in DOMAIN h /\ r \in DOMAIN h /\ l # r
    BY <1>4, <2>1 DEF MovesWithin
  <2>3. new \in V /\ Len(new) = Len(h)
    BY <2>2, PartsWithin
  <2> QED BY <2>1, <2>3
<1> DEFINE Rows == {l \in 0 .. n : at[<<l + 1, l + 1>>] \subseteq W}
<1>5. 0 \in Rows
  BY <1>1, <1>3
<1> HIDE DEF W
<1>6. ASSUME NEW l \in 1 .. n, l - 1 \in Rows PROVE l \in Rows
  <2> DEFINE Columns == {k \in 0 .. n - l : at[<<l, l + k>>] \subseteq W}
  <2>1. 0 \in Columns
    <3>1. at[<<l, l>>] \subseteq W
      <4>1. l - 1 + 1 = l
        OBVIOUS
      <4> QED BY <1>6, <4>1
    <3> QED BY <3>1
  <2>2. ASSUME NEW k \in 1 .. n - l, k - 1 \in Columns PROVE k \in Columns
    <3>1. PICK r : r = l + k
      OBVIOUS
    <3>2. r \in 1 .. n /\ l < r /\ l # r /\ r - 1 = l + (k - 1) /\ l \in 1 .. n
      BY <3>1
    <3>3. at[<<l, r - 1>>] \subseteq W
      BY <2>2, <3>2
    <3>4. at[<<l, r>>] = PairsDecanted(p, at[<<l, r - 1>>], l, r)
      BY <1>3, <3>2
    <3>5. at[<<l, r>>] \subseteq W
      BY <1>4, <3>2, <3>3, <3>4
    <3> QED BY <3>1, <3>5
  <2>3. n - l \in Nat /\ n - l \in 0 .. n - l
    OBVIOUS
  <2>4. n - l \in Columns
    <3> HIDE DEF Columns
    <3> QED BY <2>1, <2>2, <2>3, CountingUp
  <2>5. at[<<l, n>>] \subseteq W
    <3>1. l + (n - l) = n
      OBVIOUS
    <3> QED BY <2>4, <3>1
  <2> QED BY <1>3, <2>5
<1>7. n \in Rows
  <2> HIDE DEF Rows
  <2> QED BY <1>5, <1>6, CountingUp
<1>8. at[<<n + 1, n + 1>>] \subseteq W
  BY <1>7
<1> QED BY <1>1, <1>2, <1>8 DEF W

LEMMA DecantWithin ==
  ASSUME NEW V, MovesWithin(V), ErasesWithin(V), NEW hs \in V, NEW result \in DecantResults(hs)
  PROVE  result \in V /\ \E w \in V : result = EraseEmpty(w)
<1>1. ASSUME NEW p \in Passes, NEW start \in V, NEW end \in PassResults(p, start)
      PROVE  end \in V /\ \E w \in V : end = EraseEmpty(w)
  <2>1. PICK w \in AllDecanted(p, start, Len(start)) : end = EraseEmpty(w)
    BY DEF PassResults
  <2>2. w \in V
    BY <2>1, AllWithin
  <2> QED BY <2>1, <2>2 DEF ErasesWithin
<1>2. PICK first \in PassResults(1, hs) : \E second \in PassResults(2, first) : result \in PassResults(3, second)
  BY DEF DecantResults
<1>3. PICK second \in PassResults(2, first) : result \in PassResults(3, second)
  BY <1>2
<1>4. 1 \in Passes /\ 2 \in Passes /\ 3 \in Passes
  BY DEF Passes
<1>5. first \in V /\ second \in V
  BY <1>1, <1>2, <1>3, <1>4
<1> QED BY <1>1, <1>3, <1>4, <1>5

(* Hosts stay hosts, true to their maps or not. *)
LEMMA HostSetIsHost == ASSUME NEW h \in HostSet PROVE IsHost(h) /\ h.guests \subseteq Guest
<1>1. /\ h = [guests |-> h.guests, pageFrequencies |-> h.pageFrequencies]
      /\ h.guests \in SUBSET Guest
      /\ h.pageFrequencies \in UNION {[P -> Int] : P \in SUBSET Page}
  BY DEF HostSet
<1>2. PICK P \in SUBSET Page : h.pageFrequencies \in [P -> Int]
  BY <1>1
<1> QED BY <1>1, <1>2 DEF IsHost

LEMMA GuestCallsTyped ==
  ASSUME NEW h \in HostSet, NEW g \in Guest
  PROVE  /\ AddGuest(h, g) \in HostSet /\ RemoveGuest(h, g) \in HostSet
         /\ AddGuest(h, g).guests = h.guests \cup {g}
         /\ RemoveGuest(h, g).guests = h.guests \ {g}
<1>1. IsHost(h) /\ g.pages \subseteq Page
  BY HostSetIsHost DEF Guest
<1>2. \A p : PageFrequency(h, p) \in Int
  BY <1>1 DEF IsHost, PageFrequency
<1>3. DOMAIN h.pageFrequencies \cup g.pages \subseteq Page
  BY <1>1 DEF IsHost
<1>4. AddGuest(h, g) \in HostSet /\ AddGuest(h, g).guests = h.guests \cup {g}
  <2> DEFINE D == DOMAIN h.pageFrequencies \cup g.pages
             f == [p \in D |-> PageFrequency(h, p) + (IF p \in g.pages THEN 1 ELSE 0)]
  <2>1. f \in [D -> Int] /\ D \in SUBSET Page
    BY <1>2, <1>3
  <2>2. AddGuest(h, g) = [guests |-> h.guests \cup {g}, pageFrequencies |-> f]
    BY DEF AddGuest
  <2>3. h.guests \cup {g} \in SUBSET Guest
    BY <1>1 DEF IsHost
  <2> HIDE DEF f, D
  <2>4. f \in UNION {[P -> Int] : P \in SUBSET Page}
    BY <2>1
  <2> QED BY <2>2, <2>3, <2>4 DEF HostSet
<1>5. RemoveGuest(h, g) \in HostSet /\ RemoveGuest(h, g).guests = h.guests \ {g}
  <2> DEFINE D == {p \in DOMAIN h.pageFrequencies \cup g.pages :
                      p \in g.pages => PageFrequency(h, p) # 1}
             f == [p \in D |-> PageFrequency(h, p) - (IF p \in g.pages THEN 1 ELSE 0)]
  <2>1. f \in [D -> Int] /\ D \in SUBSET Page
    BY <1>2, <1>3
  <2>2. RemoveGuest(h, g) = [guests |-> h.guests \ {g}, pageFrequencies |-> f]
    BY DEF RemoveGuest
  <2>3. h.guests \ {g} \in SUBSET Guest
    BY <1>1 DEF IsHost
  <2> HIDE DEF f, D
  <2>4. f \in UNION {[P -> Int] : P \in SUBSET Page}
    BY <2>1
  <2> QED BY <2>2, <2>3, <2>4 DEF HostSet
<1> QED BY <1>4, <1>5

LEMMA MovedTyped ==
  ASSUME NEW hs \in Seq(HostSet), NEW i \in DOMAIN hs, NEW j \in DOMAIN hs, i # j, NEW g \in Guest,
         NEW new, new = Moved(hs, i, j, g)
  PROVE  /\ new \in Seq(HostSet) /\ Len(new) = Len(hs) /\ DOMAIN new = DOMAIN hs
         /\ new[j].guests = hs[j].guests \ {g}
<1>1. DOMAIN hs = 1 .. Len(hs) /\ \A k \in DOMAIN hs : hs[k] \in HostSet
  BY LenProperties
<1>2. PICK placing : placing = PlaceOn(hs, i, g)
  OBVIOUS
<1>3. placing = [hs EXCEPT ![i] = AddGuest(hs[i], g)]
  BY <1>2 DEF PlaceOn
<1>4. AddGuest(hs[i], g) \in HostSet
  BY <1>1, GuestCallsTyped
<1>5. /\ placing \in Seq(HostSet) /\ Len(placing) = Len(hs) /\ DOMAIN placing = DOMAIN hs
      /\ placing[j] = hs[j]
  BY <1>1, <1>3, <1>4, ExceptSeq
<1>6. new = [placing EXCEPT ![j] = RemoveGuest(placing[j], g)]
  BY <1>2 DEF Moved, TakeOff
<1>7. RemoveGuest(hs[j], g) \in HostSet /\ RemoveGuest(hs[j], g).guests = hs[j].guests \ {g}
  BY <1>1, GuestCallsTyped
<1> QED BY <1>1, <1>5, <1>6, <1>7, ExceptSeq

LEMMA MovePartTyped ==
  ASSUME NEW hs \in Seq(HostSet), NEW i \in DOMAIN hs, NEW j \in DOMAIN hs, i # j,
         NEW part \in SUBSET hs[j].guests, NEW new, new = MovePart(hs, i, j, part)
  PROVE  /\ new \in Seq(HostSet) /\ Len(new) = Len(hs)
         /\ hs[j].guests \ part \subseteq new[j].guests
<1>1. CASE ~AccommodatesGuests(hs[i], part)
  BY <1>1 DEF MovePart
<1>2. CASE AccommodatesGuests(hs[i], part)
  <2>1. part \subseteq Guest /\ IsFiniteSet(part)
    <3>1. hs[j] \in HostSet
      BY LenProperties
    <3> QED BY <3>1, HostSetIsHost, GuestFinite
  <2>2. PICK turn : OneByOne(turn, hs, i, j, part) /\ new = turn[part]
    BY <1>2, <2>1, GuestsTurns
  <2>3. PICK n \in Nat : n = Cardinality(part)
    BY <2>1, FS_CardinalityType
  <2> DEFINE Right(s) == /\ turn[s] \in Seq(HostSet) /\ Len(turn[s]) = Len(hs)
                         /\ DOMAIN turn[s] = DOMAIN hs
                         /\ hs[j].guests \ s \subseteq turn[s][j].guests
             Good == {k \in 0 .. n : \A s \in SUBSET part : Cardinality(s) = k => Right(s)}
  <2>4. ASSUME NEW s \in SUBSET part PROVE IsFiniteSet(s)
    BY <2>1, FS_Subset
  <2>5. 0 \in Good
    <3>1. \A s \in SUBSET part : Cardinality(s) = 0 => s = {}
      BY <2>4, FS_EmptySet
    <3>2. Right({})
      BY <2>2 DEF OneByOne
    <3> HIDE DEF Right
    <3>3. \A s \in SUBSET part : Cardinality(s) = 0 => Right(s)
      BY <3>1, <3>2
    <3>4. 0 \in 0 .. n
      OBVIOUS
    <3> QED BY <3>3, <3>4
  <2>6. ASSUME NEW k \in 1 .. n, k - 1 \in Good PROVE k \in Good
    <3> SUFFICES ASSUME NEW s \in SUBSET part, Cardinality(s) = k PROVE Right(s)
      OBVIOUS
    <3>1. s # {}
      <4>1. Cardinality({}) = 0 /\ Cardinality(s) # 0
        BY FS_EmptySet
      <4> QED BY <4>1
    <3>2. PICK g \in s : turn[s] = Moved(turn[s \ {g}], i, j, g)
      BY <2>2, <3>1 DEF OneByOne
    <3>3. Cardinality(s \ {g}) = k - 1 /\ s \ {g} \in SUBSET part
      BY <2>4, FS_RemoveElement
    <3>4. PICK before, after : before = turn[s \ {g}] /\ after = turn[s]
      OBVIOUS
    <3>5. Right(s \ {g})
      <4> HIDE DEF Right
      <4> QED BY <2>6, <3>3
    <3>6. before \in Seq(HostSet) /\ i \in DOMAIN before /\ j \in DOMAIN before /\ g \in Guest
      BY <2>1, <3>4, <3>5
    <3>7. after = Moved(before, i, j, g)
      BY <3>2, <3>4
    <3>8. /\ after \in Seq(HostSet) /\ Len(after) = Len(before) /\ DOMAIN after = DOMAIN before
          /\ after[j].guests = before[j].guests \ {g}
      BY <3>6, <3>7, MovedTyped
    <3> QED BY <3>4, <3>5, <3>8
  <2>7. n \in Good
    <3> HIDE DEF Good
    <3> QED BY <2>5, <2>6, CountingUp
  <2>8. Right(part)
    <3> HIDE DEF Right
    <3> QED BY <2>3, <2>7
  <2> QED BY <2>2, <2>8
<1> QED BY <1>1, <1>2

LEMMA DecantTyped ==
  ASSUME NEW hs \in Seq(HostSet), NEW result \in DecantResults(hs)
  PROVE  result \in Seq(HostSet)
<1> DEFINE V == Seq(HostSet)
<1>1. MovesWithin(V)
  <2> SUFFICES ASSUME NEW w \in V
               PROVE  /\ Len(w) \in Nat /\ DOMAIN w = 1 .. Len(w)
                      /\ \A k \in DOMAIN w : w[k].guests \subseteq Guest
                      /\ \A i, j \in DOMAIN w : i # j =>
                            \A part \in SUBSET w[j].guests :
                               /\ MovePart(w, i, j, part) \in V
                               /\ Len(MovePart(w, i, j, part)) = Len(w)
                               /\ w[j].guests \ part \subseteq MovePart(w, i, j, part)[j].guests
    BY DEF MovesWithin
  <2>1. /\ Len(w) \in Nat /\ DOMAIN w = 1 .. Len(w)
        /\ \A k \in DOMAIN w : w[k].guests \subseteq Guest
    BY LenProperties, HostSetIsHost
  <2>2. ASSUME NEW i \in DOMAIN w, NEW j \in DOMAIN w, i # j, NEW part \in SUBSET w[j].guests
        PROVE  /\ MovePart(w, i, j, part) \in V
               /\ Len(MovePart(w, i, j, part)) = Len(w)
               /\ w[j].guests \ part \subseteq MovePart(w, i, j, part)[j].guests
    BY <2>2, MovePartTyped
  <2> HIDE DEF V
  <2> QED BY <2>1, <2>2
<1>2. ErasesWithin(V)
  <2> SUFFICES ASSUME NEW w \in V PROVE EraseEmpty(w) \in V
    BY DEF ErasesWithin
  <2>1. PICK I : I = {i \in DOMAIN w : w[i].guests # {}}
    OBVIOUS
  <2>2. I \in SUBSET (1 .. Len(w)) /\ EraseEmpty(w) = Subsequence(w, I)
    BY <2>1, LenProperties DEF EraseEmpty
  <2> QED BY <2>2, SubsequenceHas
<1> HIDE DEF V
<1>3. hs \in V
  BY DEF V
<1>4. result \in V
  BY <1>1, <1>2, <1>3, DecantWithin
<1> QED BY <1>4 DEF V

-----------------------------------------------------------------------------
(* Guests added one by one, in any order.                                  *)
AddedInTurn(turn, h, S) ==
    /\ turn[{}] = h
    /\ \A s \in SUBSET S : s # {} => \E g \in s : turn[s] = AddGuest(turn[s \ {g}], g)

LEMMA AddTurns ==
  ASSUME NEW h, NEW S, IsFiniteSet(S)
  PROVE  \E turn : AddedInTurn(turn, h, S) /\ AddGuests(h, S) = turn[S]
<1> DEFINE Taken(s) == CHOOSE x \in s : TRUE
           Next1(f, s) == IF s = {} THEN h ELSE AddGuest(f[s \ {Taken(s)}], Taken(s))
           Level(k) == {s \in SUBSET S : Cardinality(s) <= k}
           Is(f, D) == f = [s \in D |-> Next1(f, s)]
<1>1. AddGuests(h, S) = (CHOOSE f : Is(f, SUBSET S))[S]
  BY DEF AddGuests, FoldSet, MapThenFoldSet
<1>2. PICK n \in Nat : n = Cardinality(S)
  BY FS_CardinalityType
<1> DEFINE Good == {k \in 0 .. n : \E f : Is(f, Level(k))}
<1>3. ASSUME NEW s \in SUBSET S
      PROVE  /\ IsFiniteSet(s) /\ Cardinality(s) \in Nat /\ Cardinality(s) <= n
             /\ Cardinality(s) = 0 => s = {}
  BY <1>2, FS_Subset, FS_CardinalityType, FS_EmptySet
<1>4. ASSUME NEW s \in SUBSET S, s # {}
      PROVE  /\ Taken(s) \in s /\ s \ {Taken(s)} \in SUBSET S
             /\ Cardinality(s \ {Taken(s)}) = Cardinality(s) - 1
  <2>1. Taken(s) \in s
    BY <1>4
  <2> HIDE DEF Taken
  <2> QED BY <1>3, <1>4, <2>1, FS_RemoveElement
<1> HIDE DEF Taken
<1>5. 0 \in Good
  <2>1. ASSUME NEW s \in Level(0) PROVE s = {}
    <3>1. s \in SUBSET S /\ Cardinality(s) <= 0
      OBVIOUS
    <3>2. Cardinality(s) \in Nat /\ (Cardinality(s) = 0 => s = {})
      BY <1>3, <3>1
    <3> QED BY <3>1, <3>2
  <2>2. Is([s \in Level(0) |-> h], Level(0))
    <3>1. [s \in Level(0) |-> h] = [s \in Level(0) |-> Next1([r \in Level(0) |-> h], s)]
      BY <2>1
    <3> QED BY <3>1
  <2> HIDE DEF Is, Level
  <2> QED BY <2>2
<1>6. ASSUME NEW k \in 1 .. n, k - 1 \in Good PROVE k \in Good
  <2>1. PICK p : Is(p, Level(k - 1))
    BY <1>6
  <2> DEFINE q == [s \in Level(k) |-> IF Cardinality(s) = k THEN Next1(p, s) ELSE p[s]]
  <2>2. ASSUME NEW s \in Level(k) PROVE q[s] = Next1(q, s)
    <3>1. s \in SUBSET S /\ Cardinality(s) \in Nat /\ Cardinality(s) <= k
      BY <1>3
    <3>2. s # {} => /\ s \ {Taken(s)} \in Level(k - 1) /\ s \ {Taken(s)} \in Level(k)
                    /\ Cardinality(s \ {Taken(s)}) # k
      <4>1. s # {} => /\ s \ {Taken(s)} \in SUBSET S
                      /\ Cardinality(s \ {Taken(s)}) = Cardinality(s) - 1
        BY <1>4, <3>1
      <4>2. s # {} => /\ Cardinality(s \ {Taken(s)}) <= k - 1
                      /\ Cardinality(s \ {Taken(s)}) <= k
                      /\ Cardinality(s \ {Taken(s)}) # k
        BY <3>1, <4>1
      <4> QED BY <4>1, <4>2
    <3>3. s # {} => q[s \ {Taken(s)}] = p[s \ {Taken(s)}]
      BY <3>2
    <3>4. Cardinality(s) # k => p[s] = Next1(p, s)
      <4>1. Cardinality(s) # k => s \in Level(k - 1)
        BY <3>1
      <4> QED BY <2>1, <4>1
    <3>5. q[s] = Next1(p, s)
      BY <3>4
    <3> HIDE DEF q
    <3> QED BY <3>3, <3>5
  <2>3. Is(q, Level(k))
    <3>1. q = [s \in Level(k) |-> q[s]]
      OBVIOUS
    <3> HIDE DEF Next1, q, Level
    <3> QED BY <2>2, <3>1
  <2> HIDE DEF Is, q, Level
  <2> QED BY <2>3
<1>7. n \in Good
  <2> HIDE DEF Good
  <2> QED BY <1>5, <1>6, CountingUp
<1>8. PICK f : Is(f, SUBSET S) /\ AddGuests(h, S) = f[S]
  <2>1. Level(n) = SUBSET S
    <3>1. \A s \in SUBSET S : Cardinality(s) <= n
      BY <1>3
    <3> QED BY <3>1
  <2>2. \E f : Is(f, SUBSET S)
    BY <1>7, <2>1
  <2> HIDE DEF Is
  <2> QED BY <1>1, <2>2
<1>9. \A s \in SUBSET S : f[s] = Next1(f, s)
  BY <1>8
<1>10. f[{}] = h
  BY <1>9
<1>11. \A s \in SUBSET S : s # {} => \E g \in s : f[s] = AddGuest(f[s \ {g}], g)
  BY <1>4, <1>9
<1> QED BY <1>8, <1>10, <1>11 DEF AddedInTurn

LEMMA AddGuestsMatches ==
  ASSUME NEW h, IsHost(h), FrequenciesMatch(h),
         NEW S \in SUBSET Guest, S \cap h.guests = {}, NEW new, new = AddGuests(h, S)
  PROVE  IsHost(new) /\ FrequenciesMatch(new) /\ new.guests = h.guests \cup S
<1>1. IsFiniteSet(S)
  BY GuestFinite
<1>2. PICK turn : AddedInTurn(turn, h, S) /\ new = turn[S]
  BY <1>1, AddTurns
<1>3. PICK n \in Nat : n = Cardinality(S)
  BY <1>1, FS_CardinalityType
<1> DEFINE Right(s) == /\ IsHost(turn[s]) /\ FrequenciesMatch(turn[s])
                       /\ turn[s].guests = h.guests \cup s
           Good == {k \in 0 .. n : \A s \in SUBSET S : Cardinality(s) = k => Right(s)}
<1>4. ASSUME NEW s \in SUBSET S PROVE IsFiniteSet(s)
  BY <1>1, FS_Subset
<1>5. 0 \in Good
  <2>1. \A s \in SUBSET S : Cardinality(s) = 0 => s = {}
    BY <1>4, FS_EmptySet
  <2>2. Right({})
    BY <1>2 DEF AddedInTurn
  <2> HIDE DEF Right
  <2>3. \A s \in SUBSET S : Cardinality(s) = 0 => Right(s)
    BY <2>1, <2>2
  <2>4. 0 \in 0 .. n
    OBVIOUS
  <2> QED BY <2>3, <2>4
<1>6. ASSUME NEW k \in 1 .. n, k - 1 \in Good PROVE k \in Good
  <2> SUFFICES ASSUME NEW s \in SUBSET S, Cardinality(s) = k PROVE Right(s)
    OBVIOUS
  <2>1. s # {}
    <3>1. Cardinality({}) = 0 /\ Cardinality(s) # 0
      BY FS_EmptySet
    <3> QED BY <3>1
  <2>2. PICK g \in s : turn[s] = AddGuest(turn[s \ {g}], g)
    BY <1>2, <2>1 DEF AddedInTurn
  <2>3. Cardinality(s \ {g}) = k - 1 /\ s \ {g} \in SUBSET S
    BY <1>4, FS_RemoveElement
  <2>4. PICK before : before = turn[s \ {g}]
    OBVIOUS
  <2>5. Right(s \ {g})
    <3> HIDE DEF Right
    <3> QED BY <1>6, <2>3
  <2>6. IsHost(before) /\ FrequenciesMatch(before) /\ before.guests = h.guests \cup (s \ {g})
    BY <2>4, <2>5
  <2>7. g \in Guest /\ g \notin before.guests
    BY <2>6
  <2>8. PICK after : after = turn[s] /\ after = AddGuest(before, g)
    BY <2>2, <2>4
  <2>9. IsHost(after) /\ FrequenciesMatch(after) /\ after.guests = before.guests \cup {g}
    BY <2>6, <2>7, <2>8, AddGuestMatches
  <2> QED BY <2>6, <2>8, <2>9
<1>7. n \in Good
  <2> HIDE DEF Good
  <2> QED BY <1>5, <1>6, CountingUp
<1>8. Right(S)
  <2> HIDE DEF Right
  <2> QED BY <1>3, <1>7
<1> QED BY <1>2, <1>8

-----------------------------------------------------------------------------
(* The most efficient subset: a set of the guests that are offered.        *)

LEMMA MaxOfBounded ==
  ASSUME NEW n \in Nat, NEW S \in SUBSET (1 .. n), S # {}
  PROVE  Max(S) \in S /\ \A i \in S : i <= Max(S)
<1> DEFINE Has(T) == \E m \in T : \A i \in T : m >= i
           Good == {k \in 0 .. n : \A T \in SUBSET (1 .. k) : T # {} => Has(T)}
<1>1. 0 \in Good
  <2>1. \A T \in SUBSET (1 .. 0) : T = {}
    OBVIOUS
  <2>2. 0 \in 0 .. n
    OBVIOUS
  <2> HIDE DEF Has
  <2> QED BY <2>1, <2>2
<1>2. ASSUME NEW k \in 1 .. n, k - 1 \in Good PROVE k \in Good
  <2> SUFFICES ASSUME NEW T \in SUBSET (1 .. k), T # {} PROVE Has(T)
    OBVIOUS
  <2>1. CASE k \in T
    BY <2>1
  <2>2. CASE k \notin T
    <3>1. T \in SUBSET (1 .. k - 1)
      BY <2>2
    <3> HIDE DEF Has
    <3> QED BY <1>2, <3>1
  <2> QED BY <2>1, <2>2
<1>3. n \in Good
  <2> HIDE DEF Good
  <2> QED BY <1>1, <1>2, CountingUp
<1>4. Has(S)
  <2> HIDE DEF Has
  <2> QED BY <1>3
<1>5. Max(S) = CHOOSE m \in S : \A i \in S : m >= i
  BY DEF Max
<1>6. Max(S) \in S /\ \A i \in S : Max(S) >= i
  BY <1>4, <1>5
<1> QED BY <1>6

(* The next combination is one of as many of the same numbers. *)
CombOf(k, n) == [1 .. k -> 1 .. n]

LEMMA NextCombIn ==
  ASSUME NEW n \in Nat, NEW k \in 0 .. n, NEW comb \in CombOf(k, n), Movable(comb, n) # {}
  PROVE  NextComb(comb, n) \in CombOf(k, n)
<1>1. DOMAIN comb = 1 .. k /\ Len(comb) = k /\ k \in Nat /\ k <= n
  BY DEF CombOf
<1>2. Movable(comb, n) = {i \in 1 .. k : comb[i] < n - k + i}
  BY <1>1 DEF Movable
<1>3. PICK i : i = Max(Movable(comb, n))
  OBVIOUS
<1>4. i \in 1 .. k /\ comb[i] < n - k + i
  <2>1. Movable(comb, n) \in SUBSET (1 .. k)
    BY <1>2
  <2>2. i \in Movable(comb, n)
    BY <1>1, <1>3, <2>1, MaxOfBounded
  <2> QED BY <1>2, <2>2
<1>5. NextComb(comb, n) = [j \in 1 .. k |-> IF j < i THEN comb[j] ELSE comb[i] + 1 + (j - i)]
  BY <1>1, <1>3 DEF NextComb
<1>6. ASSUME NEW j \in 1 .. k PROVE (IF j < i THEN comb[j] ELSE comb[i] + 1 + (j - i)) \in 1 .. n
  <2>1. comb[i] \in 1 .. n /\ comb[j] \in 1 .. n
    BY <1>4 DEF CombOf
  <2> QED BY <1>1, <1>4, <2>1
<1> QED BY <1>5, <1>6 DEF CombOf

(* What combinations follow each other. *)
CombAfter(comb, n) == IF Movable(comb, n) = {} THEN comb ELSE NextComb(comb, n)

LEMMA CombinationsIn ==
  ASSUME NEW n \in Nat, NEW k \in 0 .. n
  PROVE  /\ Cardinality(kSubset(k, 1 .. n)) \in Nat
         /\ Combinations(k, n) \in [1 .. Cardinality(kSubset(k, 1 .. n)) -> CombOf(k, n)]
         /\ \A i \in 1 .. Cardinality(kSubset(k, 1 .. n)) :
               Combinations(k, n)[i] = IF i = 1 THEN [j \in 1 .. k |-> j]
                                       ELSE CombAfter(Combinations(k, n)[i - 1], n)
<1>1. Cardinality(kSubset(k, 1 .. n)) \in Nat
  <2>1. IsFiniteSet(SUBSET (1 .. n))
    BY UpTo, FS_SUBSET
  <2>2. kSubset(k, 1 .. n) \subseteq SUBSET (1 .. n)
    BY DEF kSubset
  <2> QED BY <2>1, <2>2, FS_Subset, FS_CardinalityType
<1>2. PICK N \in Nat : N = Cardinality(kSubset(k, 1 .. n))
  BY <1>1
<1> DEFINE Next1(f, i) == IF i = 1 THEN [j \in 1 .. k |-> j] ELSE CombAfter(f[i - 1], n)
           Is(f, m) == f = [i \in 1 .. m |-> Next1(f, i)]
           Good == {m \in 0 .. N : \E f : Is(f, m)}
<1>3. 0 \in Good
  <2>1. 1 .. 0 = {}
    OBVIOUS
  <2>2. <<>> = [i \in 1 .. 0 |-> Next1(<<>>, i)]
    BY <2>1
  <2>3. \E f : Is(f, 0)
    BY <2>2
  <2>4. 0 \in 0 .. N
    OBVIOUS
  <2> HIDE DEF Is
  <2> QED BY <2>3, <2>4
<1>4. ASSUME NEW m \in 1 .. N, m - 1 \in Good PROVE m \in Good
  <2>1. PICK p : Is(p, m - 1)
    BY <1>4
  <2> DEFINE q == [i \in 1 .. m |-> IF i = m THEN Next1(p, i) ELSE p[i]]
  <2>2. ASSUME NEW i \in 1 .. m PROVE q[i] = Next1(q, i)
    <3>1. i # 1 => q[i - 1] = p[i - 1]
      <4>1. i # 1 => i - 1 \in 1 .. m /\ i - 1 # m
        OBVIOUS
      <4> HIDE DEF Next1
      <4> QED BY <4>1
    <3>2. i # m => p[i] = Next1(p, i)
      <4>1. i # m => i \in 1 .. m - 1
        OBVIOUS
      <4> HIDE DEF Next1
      <4> QED BY <2>1, <4>1
    <3>3. q[i] = Next1(p, i)
      <4> HIDE DEF Next1
      <4> QED BY <3>2
    <3> HIDE DEF q
    <3> QED BY <3>1, <3>3
  <2>3. Is(q, m)
    <3>1. q = [i \in 1 .. m |-> q[i]]
      OBVIOUS
    <3> HIDE DEF Next1, q
    <3> QED BY <2>2, <3>1
  <2> HIDE DEF Is, q
  <2> QED BY <2>3
<1>5. N \in Good
  <2> HIDE DEF Good
  <2> QED BY <1>3, <1>4, CountingUp
<1>6. PICK c : c = Combinations(k, n)
  OBVIOUS
<1>7. c = CHOOSE f : Is(f, N)
  BY <1>2, <1>6 DEF Combinations, CombAfter
<1>8. Is(c, N)
  <2>1. \E f : Is(f, N)
    BY <1>5
  <2> HIDE DEF Is
  <2> QED BY <1>7, <2>1
<1>9. c = [i \in 1 .. N |-> c[i]] /\ \A i \in 1 .. N : c[i] = Next1(c, i)
  BY <1>8
<1> HIDE DEF Is
<1> DEFINE Within == {m \in 0 .. N : \A i \in 1 .. m : c[i] \in CombOf(k, n)}
<1>10. 0 \in Within
  OBVIOUS
<1>11. ASSUME NEW m \in 1 .. N, m - 1 \in Within PROVE m \in Within
  <2>1. c[m] = Next1(c, m)
    BY <1>9
  <2>2. CASE m = 1
    <3>1. [j \in 1 .. k |-> j] \in CombOf(k, n)
      BY DEF CombOf
    <3>2. c[m] \in CombOf(k, n)
      BY <2>1, <2>2, <3>1
    <3> QED BY <2>2, <3>2
  <2>3. CASE m # 1
    <3>1. PICK before : before = c[m - 1]
      OBVIOUS
    <3>2. before \in CombOf(k, n)
      <4>1. m - 1 \in 1 .. m - 1
        BY <2>3
      <4> QED BY <1>11, <3>1, <4>1
    <3>3. c[m] = CombAfter(before, n)
      BY <2>1, <2>3, <3>1
    <3>4. c[m] \in CombOf(k, n)
      BY <3>2, <3>3, NextCombIn DEF CombAfter
    <3>5. \A i \in 1 .. m : i \in 1 .. m - 1 \/ i = m
      OBVIOUS
    <3> QED BY <1>11, <3>4, <3>5
  <2> QED BY <2>2, <2>3
<1>12. N \in Within
  <2> HIDE DEF Within
  <2> QED BY <1>10, <1>11, CountingUp
<1>13. c \in [1 .. N -> CombOf(k, n)]
  BY <1>9, <1>12
<1> QED BY <1>1, <1>2, <1>6, <1>9, <1>13

LEMMA BestSubset ==
  ASSUME NEW G, NEW guests \in Seq(G), NEW worth, NEW h, NEW k \in Nat,
         NEW S, S = FindMostEfficientSubset(guests, worth, h, k)
  PROVE  /\ S \subseteq GuestsOf(guests)
         /\ S # {} => AccommodatesGuests(h, S) /\ S \cap worth # {}
         /\ k = 1 => \E g : S \subseteq {g}
<1> DEFINE combs == Combinations(Min({k, Len(guests)}), Len(guests))
           subset(i) == {guests[combs[i][j]] : j \in DOMAIN combs[i]}
           rewarding == {i \in DOMAIN combs : /\ AccommodatesGuests(h, subset(i))
                                              /\ subset(i) \cap worth # {}}
           most == {i \in rewarding : \A j \in rewarding : ~MoreEfficient(subset(j), subset(i), worth, h)}
<1>1. S = IF most = {} THEN {} ELSE subset(Min(most))
  <2>1. FindMostEfficientSubset(guests, worth, h, k) = IF most = {} THEN {} ELSE subset(Min(most))
    BY Zenon DEF FindMostEfficientSubset
  <2> HIDE DEF most, subset
  <2> QED BY <2>1
<1> HIDE DEF combs
<1>2. PICK n \in Nat : n = Len(guests) /\ DOMAIN guests = 1 .. n
  BY LenProperties
<1>3. PICK l : l = Min({k, n})
  OBVIOUS
<1>4. l \in 0 .. n
  <2>1. {k, n} \in SUBSET Nat /\ {k, n} # {}
    OBVIOUS
  <2> QED BY <1>3, <2>1, MinOfNaturals
<1>5. PICK N \in Nat : N = Cardinality(kSubset(l, 1 .. n))
  BY <1>2, <1>4, CombinationsIn
<1>6. combs = Combinations(l, n)
  BY <1>2, <1>3 DEF combs
<1>7. combs \in [1 .. N -> CombOf(l, n)]
  BY <1>2, <1>4, <1>5, <1>6, CombinationsIn
<1>8. ASSUME NEW i \in DOMAIN combs PROVE subset(i) \subseteq GuestsOf(guests)
  <2>1. combs[i] \in CombOf(l, n)
    BY <1>7
  <2> QED BY <1>2, <2>1 DEF CombOf, GuestsOf
<1>9. most \subseteq DOMAIN combs /\ DOMAIN combs \subseteq Nat
  BY <1>7
<1>10. most # {} => Min(most) \in most
  <2>1. most \in SUBSET Nat
    BY <1>9
  <2> HIDE DEF most
  <2> QED BY <2>1, MinOfNaturals
<1>11. \A i \in most : AccommodatesGuests(h, subset(i)) /\ subset(i) \cap worth # {}
  OBVIOUS
<1>12. ASSUME NEW i \in DOMAIN combs, k = 1 PROVE \E g : subset(i) \subseteq {g}
  <2>1. l <= 1 /\ combs[i] \in CombOf(l, n)
    <3>1. {k, n} \in SUBSET Nat /\ {k, n} # {} /\ k \in {k, n}
      OBVIOUS
    <3>2. l <= k
      BY <1>3, <3>1, MinOfNaturals
    <3> QED BY <1>7, <1>12, <3>2
  <2>2. \A j \in DOMAIN combs[i] : j = 1
    BY <1>4, <2>1 DEF CombOf
  <2>3. subset(i) \subseteq {guests[combs[i][1]]}
    BY <2>2
  <2> HIDE DEF subset
  <2> QED BY <2>3
<1> HIDE DEF most, subset
<1> QED BY <1>1, <1>8, <1>9, <1>10, <1>11, <1>12

(* The combinations of one number are the numbers in turn. *)
LEMMA SingleCombinations ==
  ASSUME NEW n \in Nat \ {0}
  PROVE  /\ Cardinality(kSubset(1, 1 .. n)) = n
         /\ DOMAIN Combinations(1, n) = 1 .. n
         /\ \A i \in 1 .. n : Combinations(1, n)[i] = [j \in 1 .. 1 |-> i]
<1>1. Cardinality(kSubset(1, 1 .. n)) = n
  <2> DEFINE f == [i \in 1 .. n |-> {i}]
             K == kSubset(1, 1 .. n)
  <2>1. K = {{i} : i \in 1 .. n}
    <3>1. ASSUME NEW s \in K PROVE \E i \in 1 .. n : s = {i}
      <4>1. s \in SUBSET (1 .. n) /\ Cardinality(s) = 1
        BY DEF kSubset
      <4>2. IsFiniteSet(s)
        BY <4>1, UpTo, FS_Subset
      <4>3. \E i : s = {i}
        BY <4>1, <4>2, FS_Singleton
      <4> QED BY <4>1, <4>3
    <3>2. ASSUME NEW i \in 1 .. n PROVE {i} \in K
      <4>1. Cardinality({i}) = 1
        BY FS_Singleton
      <4> QED BY <4>1 DEF kSubset
    <3> HIDE DEF K
    <3> QED BY <3>1, <3>2
  <2>2. f \in Bijection(1 .. n, K)
    <3>1. f \in [1 .. n -> K] /\ \A s \in K : \E i \in 1 .. n : f[i] = s
      BY <2>1
    <3>2. \A i, j \in 1 .. n : f[i] = f[j] => i = j
      OBVIOUS
    <3> HIDE DEF f, K
    <3> QED BY <3>1, <3>2 DEF Bijection, Injection, Surjection, IsInjective
  <2>3. IsFiniteSet(1 .. n) /\ Cardinality(1 .. n) = n
    BY UpTo
  <2> HIDE DEF f
  <2>4. Cardinality(K) = n
    BY <2>2, <2>3, FS_Bijection DEF ExistsBijection
  <2> QED BY <2>4
<1>2. PICK c : c = Combinations(1, n)
  OBVIOUS
<1>3. 1 \in 0 .. n /\ n \in Nat
  OBVIOUS
<1>4. c \in [1 .. n -> CombOf(1, n)]
  BY <1>1, <1>2, <1>3, CombinationsIn
<1>5. ASSUME NEW i \in 1 .. n
      PROVE  c[i] = IF i = 1 THEN [j \in 1 .. 1 |-> j] ELSE CombAfter(c[i - 1], n)
  <2>1. \A m \in 1 .. Cardinality(kSubset(1, 1 .. n)) :
           Combinations(1, n)[m] = IF m = 1 THEN [j \in 1 .. 1 |-> j]
                                   ELSE CombAfter(Combinations(1, n)[m - 1], n)
    BY <1>3, CombinationsIn
  <2> QED BY <1>1, <1>2, <2>1
<1> DEFINE One(i) == [j \in 1 .. 1 |-> i]
           Good == {m \in 0 .. n : m # 0 => c[m] = One(m)}
<1>6. 0 \in Good
  OBVIOUS
<1>7. ASSUME NEW m \in 1 .. n, m - 1 \in Good PROVE m \in Good
  <2>1. CASE m = 1
    <3>1. c[1] = [j \in 1 .. 1 |-> j]
      BY <1>5, <2>1
    <3>2. [j \in 1 .. 1 |-> j] = One(1)
      OBVIOUS
    <3> QED BY <2>1, <3>1, <3>2
  <2>2. CASE m # 1
    <3>1. PICK before : before = c[m - 1]
      OBVIOUS
    <3>2. before = One(m - 1)
      BY <1>7, <2>2, <3>1
    <3>3. c[m] = CombAfter(before, n)
      BY <1>5, <2>2, <3>1
    <3>4. DOMAIN before = 1 .. 1 /\ Len(before) = 1 /\ before[1] = m - 1
      BY <3>2
    <3>5. Movable(before, n) = {1}
      BY <3>4 DEF Movable
    <3>6. Max({1}) = 1
      <4>1. {1} \in SUBSET (1 .. 1) /\ {1} # {} /\ 1 \in Nat
        OBVIOUS
      <4>2. Max({1}) \in {1}
        BY <4>1, MaxOfBounded
      <4> QED BY <4>2
    <3>7. NextComb(before, n) = [j \in 1 .. 1 |-> IF j < 1 THEN before[j] ELSE (m - 1) + 1 + (j - 1)]
      BY <3>4, <3>5, <3>6 DEF NextComb
    <3>8. NextComb(before, n) = One(m)
      BY <3>7
    <3> HIDE DEF One
    <3> QED BY <3>3, <3>5, <3>8 DEF CombAfter
  <2> QED BY <2>1, <2>2
<1>8. \A m \in 0 .. n : m \in Good
  <2> HIDE DEF Good
  <2> QED BY <1>6, <1>7, CountingUp
<1> QED BY <1>1, <1>2, <1>4, <1>8

(* When no single guest is found, no profitable one of those offered fits. *)
LEMMA NoGuestFits ==
  ASSUME NEW h, IsHost(h), FrequenciesMatch(h), NEW guests \in Seq(Guest), NEW worth,
         FindMostEfficientSubset(guests, worth, h, 1) = {},
         NEW g \in GuestsOf(guests), g \in worth
  PROVE  ~AccommodatesGuest(h, g)
<1> SUFFICES ASSUME AccommodatesGuest(h, g) PROVE FALSE
  OBVIOUS
<1> DEFINE combs == Combinations(Min({1, Len(guests)}), Len(guests))
           subset(i) == {guests[combs[i][j]] : j \in DOMAIN combs[i]}
           rewarding == {i \in DOMAIN combs : /\ AccommodatesGuests(h, subset(i))
                                              /\ subset(i) \cap worth # {}}
           most == {i \in rewarding : \A j \in rewarding : ~MoreEfficient(subset(j), subset(i), worth, h)}
<1>1. {} = IF most = {} THEN {} ELSE subset(Min(most))
  <2>1. FindMostEfficientSubset(guests, worth, h, 1) = IF most = {} THEN {} ELSE subset(Min(most))
    BY Zenon DEF FindMostEfficientSubset
  <2> HIDE DEF most, subset
  <2> QED BY <2>1
<1> HIDE DEF combs
<1>2. PICK n \in Nat : n = Len(guests) /\ DOMAIN guests = 1 .. n
  BY LenProperties
<1>3. PICK at \in 1 .. n : guests[at] = g
  BY <1>2 DEF GuestsOf
<1>4. n \in Nat \ {0} /\ Min({1, n}) = 1
  <2>1. n \in Nat \ {0}
    BY <1>2, <1>3
  <2>2. {1, n} \in SUBSET Nat /\ {1, n} # {}
    BY <2>1
  <2>3. Min({1, n}) \in {1, n} /\ \A i \in {1, n} : Min({1, n}) <= i
    BY <2>2, MinOfNaturals
  <2> QED BY <2>1, <2>3
<1>5. combs = Combinations(1, n)
  BY <1>2, <1>4 DEF combs
<1>6. DOMAIN combs = 1 .. n /\ \A i \in 1 .. n : combs[i] = [j \in 1 .. 1 |-> i]
  BY <1>4, <1>5, SingleCombinations
<1>7. ASSUME NEW i \in 1 .. n PROVE subset(i) = {guests[i]} /\ guests[i] \in Guest
  <2>1. combs[i] = [j \in 1 .. 1 |-> i]
    BY <1>6
  <2>2. guests[i] \in Guest
    BY <1>2
  <2> QED BY <2>1, <2>2
<1> DEFINE pages(i) == CountPagesWithGuests(h, subset(i))
<1>8. ASSUME NEW i \in 1 .. n PROVE pages(i) \in Nat
  <2>1. {guests[i]} \in SUBSET Guest /\ h.guests \cup {guests[i]} \in SUBSET Guest
    BY <1>7 DEF IsHost
  <2>2. pages(i) = Cardinality(PagesOf(h.guests \cup {guests[i]}))
    BY <1>7, <2>1, CountsOfGuests
  <2> QED BY <2>1, <2>2, PagesGrow
<1>9. at \in rewarding
  <2>1. CountPagesWithGuests(h, {g}) = Cardinality(PagesOf(h.guests \cup {g}))
    <3>1. {g} \in SUBSET Guest
      BY <1>3, <1>7
    <3> QED BY <3>1, CountsOfGuests
  <2>2. CountPagesWithGuest(h, g) = Cardinality(PagesOf(h.guests \cup {g}))
    BY <1>3, <1>7, CountsOfGuest
  <2>3. AccommodatesGuests(h, {g})
    BY <2>1, <2>2 DEF AccommodatesGuest, AccommodatesGuests
  <2>4. subset(at) = {g}
    BY <1>3, <1>7
  <2> HIDE DEF subset
  <2> QED BY <1>6, <2>3, <2>4
<1>10. PICK few \in rewarding : \A j \in rewarding : pages(few) <= pages(j)
  <2> DEFINE all == {pages(i) : i \in rewarding}
  <2>1. all \in SUBSET Nat /\ all # {}
    <3>1. rewarding \subseteq 1 .. n
      BY <1>6
    <3> HIDE DEF pages, rewarding
    <3> QED BY <1>8, <1>9, <3>1
  <2>2. Min(all) \in all /\ \A i \in all : Min(all) <= i
    <3> HIDE DEF all
    <3> QED BY <2>1, MinOfNaturals
  <2> HIDE DEF pages, rewarding
  <2> QED BY <2>2
<1>11. few \in most
  <2>1. ASSUME NEW j \in rewarding PROVE ~MoreEfficient(subset(j), subset(few), worth, h)
    <3>1. j \in 1 .. n /\ few \in 1 .. n
      BY <1>6
    <3>2. subset(j) \cap worth = {guests[j]} /\ subset(few) \cap worth = {guests[few]}
      <4>1. subset(j) \cap worth # {} /\ subset(few) \cap worth # {}
        OBVIOUS
      <4> HIDE DEF subset, rewarding
      <4> QED BY <1>7, <3>1, <4>1
    <3>3. Cardinality({guests[j]}) = 1 /\ Cardinality({guests[few]}) = 1
      BY FS_Singleton
    <3>4. pages(j) \in Nat /\ pages(few) \in Nat /\ pages(few) <= pages(j)
      BY <1>8, <1>10, <3>1
    <3>5. MoreEfficient(subset(j), subset(few), worth, h) <=> 1 * (1 + pages(few)) > 1 * (1 + pages(j))
      <4> HIDE DEF subset
      <4> QED BY <3>2, <3>3 DEF MoreEfficient
    <3> HIDE DEF subset, pages, rewarding
    <3> QED BY <3>4, <3>5
  <2> HIDE DEF subset, rewarding
  <2> QED BY <2>1
<1>12. Min(most) \in most /\ most \subseteq 1 .. n
  <2>1. most \subseteq 1 .. n
    BY <1>6
  <2>2. most \in SUBSET Nat /\ most # {}
    <3> HIDE DEF most
    <3> QED BY <1>11, <2>1
  <2> HIDE DEF most
  <2> QED BY <2>1, <2>2, MinOfNaturals
<1> HIDE DEF most, subset
<1>13. PICK i \in 1 .. n : i = Min(most)
  BY <1>12
<1>14. subset(i) = {}
  BY <1>1, <1>11, <1>13
<1>15. subset(i) = {guests[i]}
  BY <1>7
<1> QED BY <1>14, <1>15

-----------------------------------------------------------------------------
(* The entries of the table of a cluster tree.                             *)

LEMMA MaskIsNumber ==
  ASSUME NEW t, NEW c, t.clusters[c].nodes \in Seq(Nat), NEW S
  PROVE  MaskOf(t, c, S) \in Nat
<1> DEFINE nodes == t.clusters[c].nodes
           Bit(i) == IF nodes[i] \in S THEN 1 ELSE 0
           Next1(f, i) == IF i > Len(nodes) THEN 0 ELSE 2 * f[i + 1] + Bit(i)
           Is(f, m) == f = [i \in m .. Len(nodes) + 1 |-> Next1(f, i)]
<1>1. MaskOf(t, c, S) = (CHOOSE f : Is(f, 1))[1]
  BY DEF MaskOf
<1>2. PICK n \in Nat : n = Len(nodes)
  BY LenProperties
<1>3. \A i : Bit(i) \in Nat
  OBVIOUS
<1> HIDE DEF Bit, nodes
<1> DEFINE Whole(f, m) == Is(f, m) /\ \A i \in m .. n + 1 : f[i] \in Nat
           Good == {k \in 0 .. n : \E f : Whole(f, n + 1 - k)}
<1>4. 0 \in Good
  <2> DEFINE f == [i \in n + 1 .. n + 1 |-> 0]
  <2>1. \A i \in n + 1 .. n + 1 : Next1(f, i) = 0 /\ f[i] = 0
    BY <1>2
  <2>2. Whole(f, n + 1)
    <3>1. f = [i \in n + 1 .. n + 1 |-> f[i]]
      OBVIOUS
    <3> HIDE DEF f, Next1
    <3> QED BY <1>2, <2>1, <3>1
  <2>3. n + 1 - 0 = n + 1 /\ 0 \in 0 .. n
    OBVIOUS
  <2> HIDE DEF Whole, f
  <2> QED BY <2>2, <2>3
<1>5. ASSUME NEW k \in 1 .. n, k - 1 \in Good PROVE k \in Good
  <2>1. PICK m \in Nat : m = n + 1 - k
    OBVIOUS
  <2>2. n + 1 - (k - 1) = m + 1 /\ m <= n
    BY <2>1
  <2>3. PICK p : Whole(p, m + 1)
    <3> HIDE DEF Whole
    <3> QED BY <1>5, <2>2
  <2> DEFINE q == [i \in m .. n + 1 |-> IF i = m THEN Next1(p, i) ELSE p[i]]
  <2>4. \A i \in m .. n + 1 : i # m => i \in m + 1 .. n + 1
    OBVIOUS
  <2>5. \A i \in m + 1 .. n + 1 : p[i] \in Nat /\ p[i] = Next1(p, i)
    BY <1>2, <2>3
  <2>6. ASSUME NEW i \in m .. n + 1 PROVE q[i] = Next1(q, i) /\ q[i] \in Nat
    <3>1. q[i] = Next1(p, i)
      <4> HIDE DEF Next1
      <4> QED BY <2>4, <2>5
    <3>2. i <= n => i + 1 \in m + 1 .. n + 1 /\ i + 1 \in m .. n + 1 /\ i + 1 # m
      OBVIOUS
    <3>3. i <= n => q[i + 1] = p[i + 1] /\ p[i + 1] \in Nat
      BY <2>5, <3>2
    <3>4. CASE i <= n
      <4>1. Next1(p, i) = 2 * p[i + 1] + Bit(i) /\ Next1(q, i) = 2 * q[i + 1] + Bit(i)
        BY <1>2, <3>4
      <4> HIDE DEF Next1, q
      <4> QED BY <1>3, <3>1, <3>3, <3>4, <4>1
    <3>5. CASE ~(i <= n)
      <4>1. Next1(p, i) = 0 /\ Next1(q, i) = 0
        BY <1>2, <3>5
      <4> HIDE DEF Next1, q
      <4> QED BY <3>1, <4>1
    <3> QED BY <3>4, <3>5
  <2>7. Whole(q, m)
    <3>1. q = [i \in m .. n + 1 |-> q[i]]
      OBVIOUS
    <3> HIDE DEF Next1, q
    <3> QED BY <1>2, <2>6, <3>1
  <2> HIDE DEF Whole, q
  <2> QED BY <2>1, <2>7
<1>6. PICK f : Whole(f, 1)
  <2>1. n \in Good
    <3> HIDE DEF Good
    <3>1. \A k \in 1 .. n : k - 1 \in Good => k \in Good
      BY <1>5
    <3>2. \A k \in 0 .. n : k \in Good
      BY <1>4, <3>1, CountingUp
    <3> QED BY <3>2
  <2>2. n + 1 - n = 1
    OBVIOUS
  <2> HIDE DEF Whole
  <2> QED BY <2>1, <2>2
<1>7. Is(CHOOSE g : Is(g, 1), 1)
  <2> HIDE DEF Is
  <2> QED BY <1>6
<1>8. PICK g : Is(g, 1) /\ MaskOf(t, c, S) = g[1]
  <2> HIDE DEF Is
  <2> QED BY <1>1, <1>7
<1> DEFINE Numbers == {k \in 0 .. n : g[n + 1 - k] \in Nat}
<1>9. \A i \in 1 .. n + 1 : g[i] = Next1(g, i)
  BY <1>2, <1>8
<1> HIDE DEF Is, Whole
<1>10. 0 \in Numbers
  <2>1. n + 1 - 0 = n + 1 /\ n + 1 \in 1 .. n + 1 /\ n + 1 > n
    OBVIOUS
  <2>2. g[n + 1] = 0
    BY <1>2, <1>9, <2>1
  <2> QED BY <2>1, <2>2
<1>11. ASSUME NEW k \in 1 .. n, k - 1 \in Numbers PROVE k \in Numbers
  <2>1. PICK m \in 1 .. n : m = n + 1 - k
    OBVIOUS
  <2>2. n + 1 - (k - 1) = m + 1 /\ m \in 1 .. n + 1
    BY <2>1
  <2>3. g[m + 1] \in Nat
    BY <1>11, <2>2
  <2>4. g[m] = 2 * g[m + 1] + Bit(m)
    BY <1>2, <1>9, <2>2
  <2>5. g[m] \in Nat
    BY <1>3, <2>3, <2>4
  <2> QED BY <2>1, <2>5
<1>12. n \in Numbers
  <2> HIDE DEF Numbers
  <2>1. \A k \in 1 .. n : k - 1 \in Numbers => k \in Numbers
    BY <1>11
  <2>2. \A k \in 0 .. n : k \in Numbers
    BY <1>10, <2>1, CountingUp
  <2> QED BY <2>2
<1>13. n + 1 - n = 1
  OBVIOUS
<1> QED BY <1>8, <1>12, <1>13

(* What is looked up for a child is one of its entries, and none is        *)
(* cheaper.                                                                *)
LowestOf(made, child, A, target, S) ==
    /\ S \in SUBSET A
    /\ \A T \in SUBSET A : made[child][<<S, target>>].pageCount <= made[child][<<T, target>>].pageCount

LowestFound(t, made, child, A, target) ==
    \E S : /\ LowestOf(made, child, A, target, S)
           /\ LowestCost(t, made, child, A, target) = made[child][<<S, target>>]

PageCounts(made, child, A, target) == \A T \in SUBSET A : made[child][<<T, target>>].pageCount \in Nat

LEMMA LowestCostIs ==
  ASSUME NEW t, NEW made, NEW child, NEW A, NEW target,
         t.clusters[child].nodes \in Seq(Nat), PageCounts(made, child, A, target)
  PROVE  LowestFound(t, made, child, A, target)
<1> DEFINE pageCount(S) == made[child][<<S, target>>].pageCount
           cheapest == {S \in SUBSET A : \A T \in SUBSET A : pageCount(S) <= pageCount(T)}
           first == CHOOSE S \in cheapest : \A T \in cheapest : MaskOf(t, child, S) <= MaskOf(t, child, T)
<1>1. LowestCost(t, made, child, A, target) = made[child][<<first, target>>]
  BY Zenon DEF LowestCost
<1>2. \A S \in SUBSET A : pageCount(S) \in Nat
  BY DEF PageCounts
<1>3. cheapest # {}
  <2> DEFINE counts == {pageCount(S) : S \in SUBSET A}
  <2>1. counts \in SUBSET Nat /\ counts # {}
    <3>1. {} \in SUBSET A
      OBVIOUS
    <3> HIDE DEF pageCount
    <3> QED BY <1>2, <3>1
  <2>2. Min(counts) \in counts /\ \A i \in counts : Min(counts) <= i
    <3> HIDE DEF counts
    <3> QED BY <2>1, MinOfNaturals
  <2>3. PICK S \in SUBSET A : Min(counts) = pageCount(S)
    <3> HIDE DEF pageCount
    <3> QED BY <2>2
  <2>4. S \in cheapest
    <3> HIDE DEF pageCount
    <3> QED BY <2>2, <2>3
  <2> QED BY <2>4
<1>4. first \in cheapest
  <2> DEFINE masks == {MaskOf(t, child, S) : S \in cheapest}
  <2> HIDE DEF cheapest
  <2>1. masks \in SUBSET Nat /\ masks # {}
    BY <1>3, MaskIsNumber
  <2>2. Min(masks) \in masks /\ \A i \in masks : Min(masks) <= i
    <3> HIDE DEF masks
    <3> QED BY <2>1, MinOfNaturals
  <2>3. \E S \in cheapest : \A T \in cheapest : MaskOf(t, child, S) <= MaskOf(t, child, T)
    BY <2>2
  <2> QED BY <2>3
<1>5. LowestOf(made, child, A, target, first)
  <2> HIDE DEF first
  <2> QED BY <1>4 DEF LowestOf
<1> HIDE DEF first
<1> QED BY <1>1, <1>5 DEF LowestFound

(* An entry when one more child may be used: as before, or joined with the *)
(* lowest cost of some share of the profit, whichever is cheapest.         *)
Joint(t, made, old, child, key, p) ==
    CombinationOfDisjoint(old[<<key[1], key[2] - p>>],
                          LowestCost(t, made, child, AccessibleNodes(t, child, key[1]), p))

Shares(limits, child, key) == 0 .. Min({key[2], limits[child]})

JointsCount(t, made, limits, old, child, key) ==
    /\ old[key].pageCount \in Nat /\ key[2] \in Nat /\ limits[child] \in Nat
    /\ \A p \in Shares(limits, child, key) : Joint(t, made, old, child, key, p).pageCount \in Nat

CheapestJoint(t, made, limits, old, child, key, entry) ==
    /\ entry.pageCount <= old[key].pageCount
    /\ \A p \in Shares(limits, child, key) :
          entry.pageCount <= Joint(t, made, old, child, key, p).pageCount
    /\ \/ entry = old[key]
       \/ /\ entry.pageCount < old[key].pageCount
          /\ \E p \in Shares(limits, child, key) : entry = Joint(t, made, old, child, key, p)

LEMMA WithChildIs ==
  ASSUME NEW t, NEW made, NEW limits, NEW old, NEW child, NEW key \in DOMAIN old,
         JointsCount(t, made, limits, old, child, key)
  PROVE  CheapestJoint(t, made, limits, old, child, key,
                       WithChild(t, made, limits, old, child)[key])
<1> DEFINE joint(p) == CombinationOfDisjoint(old[<<key[1], key[2] - p>>],
                          LowestCost(t, made, child, AccessibleNodes(t, child, key[1]), p))
           shares == {p \in 0 .. Min({key[2], limits[child]}) :
                         joint(p).pageCount < old[key].pageCount}
           cheapest == {p \in shares : \A q \in shares : joint(p).pageCount <= joint(q).pageCount}
<1>1. WithChild(t, made, limits, old, child)[key] =
         IF shares = {} THEN old[key] ELSE joint(Min(cheapest))
  BY Zenon DEF WithChild
<1>2. PICK entry : entry = WithChild(t, made, limits, old, child)[key]
  OBVIOUS
<1>3. \A p : joint(p) = Joint(t, made, old, child, key, p)
  BY DEF Joint
<1>4. PICK R : R = Shares(limits, child, key)
  OBVIOUS
<1>5. shares = {p \in R : joint(p).pageCount < old[key].pageCount} /\ R \subseteq Nat
  <2>1. R = 0 .. Min({key[2], limits[child]})
    BY <1>4 DEF Shares
  <2> HIDE DEF joint
  <2> QED BY <2>1
<1>6. old[key].pageCount \in Nat /\ \A p \in R : joint(p).pageCount \in Nat
  BY <1>3, <1>4 DEF JointsCount
<1> HIDE DEF joint, shares
<1>7. CASE shares = {}
  <2>1. entry = old[key]
    BY <1>1, <1>2, <1>7
  <2>2. \A p \in R : entry.pageCount <= joint(p).pageCount
    BY <1>5, <1>6, <1>7, <2>1
  <2> QED BY <1>2, <1>3, <1>4, <1>6, <2>1, <2>2 DEF CheapestJoint
<1>8. CASE shares # {}
  <2> DEFINE counts == {joint(p).pageCount : p \in shares}
  <2>1. counts \in SUBSET Nat /\ counts # {}
    BY <1>5, <1>6, <1>8
  <2>2. Min(counts) \in counts /\ \A i \in counts : Min(counts) <= i
    <3> HIDE DEF counts
    <3> QED BY <2>1, MinOfNaturals
  <2>3. cheapest # {} /\ cheapest \in SUBSET Nat
    <3>1. PICK p \in shares : joint(p).pageCount = Min(counts)
      BY <2>2
    <3>2. \A q \in shares : Min(counts) <= joint(q).pageCount
      BY <2>2
    <3> HIDE DEF counts
    <3>3. p \in cheapest
      BY <3>1, <3>2
    <3>4. shares \subseteq Nat
      BY <1>5
    <3> QED BY <3>3, <3>4
  <2>4. Min(cheapest) \in cheapest
    <3> HIDE DEF cheapest
    <3> QED BY <2>3, MinOfNaturals
  <2>5. PICK p \in R : p = Min(cheapest)
    BY <1>5, <2>4
  <2>6. entry = joint(p)
    BY <1>1, <1>2, <1>8, <2>5
  <2>7. p \in shares /\ \A q \in shares : joint(p).pageCount <= joint(q).pageCount
    BY <2>4, <2>5
  <2>8. \A q \in R : joint(p).pageCount <= joint(q).pageCount
    BY <1>5, <1>6, <2>7
  <2>9. joint(p).pageCount <= old[key].pageCount /\ joint(p).pageCount < old[key].pageCount
    BY <1>5, <1>6, <2>7
  <2> QED BY <1>2, <1>3, <1>4, <2>6, <2>8, <2>9 DEF CheapestJoint
<1> QED BY <1>7, <1>8

LEMMA GuestsOfNodesIn ==
  ASSUME NEW t, WellMade(t), GuestsNumbered(t), NEW N \in SUBSET DOMAIN t.nodes
  PROVE  GuestsOfNodes(t, N) \subseteq 1 .. Len(t.leaves)
<1> SUFFICES ASSUME NEW m \in N, IsLeafNode(t, m) PROVE t.nodes[m].guest \in 1 .. Len(t.leaves)
  BY DEF GuestsOfNodes
<1>1. m \in ToSet(t.leaves)
  BY DEF GuestsNumbered
<1>2. PICK i \in DOMAIN t.leaves : m = t.leaves[i]
  BY <1>1 DEF ToSet
<1>3. DOMAIN t.leaves = 1 .. Len(t.leaves)
  BY LenProperties DEF WellMade, LeavesMade
<1> QED BY <1>2, <1>3 DEF GuestsNumbered

LEMMA NodesOfIn ==
  ASSUME NEW t, WellMade(t), NEW c \in DOMAIN t.clusters
  PROVE  NodesOf(t, c) \subseteq DOMAIN t.nodes /\ t.clusters[c].nodes \in Seq(Nat)
BY MadeHas

LEMMA SelectionMade ==
  ASSUME NEW t, WellMade(t), GuestsNumbered(t), NEW c \in DOMAIN t.clusters, NEW bound \in Nat,
         NEW profits, NEW n, n = Len(t.leaves), NEW new, new = SelectionCosts(t, c, bound, profits)
  PROVE  new \in EntriesOver(t, c, bound, n) /\ Rewarding(new, profits)
<1>1. PICK K : K = KeysOf(t, c, bound)
  OBVIOUS
<1>2. DOMAIN new = K /\ \A key \in K : new[key] = EntryOfSelection(t, key[1], key[2], profits)
  BY <1>1 DEF SelectionCosts, KeysOf
<1>3. ASSUME NEW key \in K
      PROVE  /\ EntryOfSelection(t, key[1], key[2], profits) \in EntryOver(n)
             /\ key[2] > 0 /\ IsFinite(EntryOfSelection(t, key[1], key[2], profits)) =>
                   EntryOfSelection(t, key[1], key[2], profits).guests \cap profits # {}
  <2>1. PICK S, target : S = key[1] /\ target = key[2]
    OBVIOUS
  <2>2. S \in SUBSET DOMAIN t.nodes /\ target \in Nat
    BY <1>1, <2>1, NodesOfIn DEF KeysOf
  <2>3. PICK pages, guests : /\ pages = UNION {t.nodes[m].pages : m \in S}
                             /\ guests = GuestsOfNodes(t, S)
    OBVIOUS
  <2>4. PICK entry : entry = EntryOfSelection(t, S, target, profits)
    OBVIOUS
  <2>5. entry = IF Cardinality(pages) > Capacity \/ Cardinality(guests \cap profits) < target
                THEN NoSelection
                ELSE [pageCount |-> Cardinality(pages), guests |-> guests]
    BY <2>3, <2>4 DEF EntryOfSelection
  <2>6. pages \subseteq Page
    BY <2>2, <2>3, MadeHas
  <2>7. Cardinality(pages) \in Nat /\ Capacity \in Nat
    BY <2>6, HostAssumption, FS_Subset, FS_CardinalityType
  <2>8. guests \subseteq 1 .. n
    BY <2>2, <2>3, GuestsOfNodesIn
  <2>9. entry \in EntryOver(n)
    BY <2>5, <2>7, <2>8 DEF EntryOver, NoSelection
  <2>10. ASSUME target > 0, IsFinite(entry) PROVE entry.guests \cap profits # {}
    <3>1. entry.guests = guests /\ ~(Cardinality(guests \cap profits) < target)
      BY <2>5, <2>7, <2>10 DEF NoSelection, IsFinite
    <3>2. Cardinality({}) = 0
      BY FS_EmptySet
    <3>3. guests \cap profits # {}
      BY <2>2, <2>10, <3>1, <3>2
    <3> QED BY <3>1, <3>3
  <2> QED BY <2>1, <2>4, <2>9, <2>10
<1>4. new \in [K -> EntryOver(n)]
  <2>1. new = [key \in K |-> EntryOfSelection(t, key[1], key[2], profits)]
    BY <1>1 DEF SelectionCosts, KeysOf
  <2> QED BY <1>3, <2>1
<1> QED BY <1>1, <1>2, <1>3, <1>4 DEF EntriesOver, Rewarding

LEMMA AccessibleIn ==
  ASSUME NEW t, NEW child, NEW S
  PROVE  AccessibleNodes(t, child, S) \subseteq NodesOf(t, child)
BY DEF AccessibleNodes

(* What a share of the profit costs, as a pair of entries: one of the      *)
(* child and one from before.                                              *)
JoinsEntries(t, made, old, child, key, p, S, entry) ==
    /\ LowestOf(made, child, AccessibleNodes(t, child, key[1]), p, S)
    /\ <<S, p>> \in DOMAIN made[child] /\ <<key[1], key[2] - p>> \in DOMAIN old
    /\ entry = CombinationOfDisjoint(old[<<key[1], key[2] - p>>], made[child][<<S, p>>])

LEMMA JointIs ==
  ASSUME NEW t, NEW c, NEW child, t.clusters[child].nodes \in Seq(Nat),
         NEW made, NEW limits, limits[child] \in Nat, NEW bound \in Nat, NEW n,
         NEW old \in EntriesOver(t, c, bound, n), made[child] \in EntriesOver(t, child, limits[child], n),
         NEW key \in DOMAIN old, NEW p \in Shares(limits, child, key),
         NEW entry, entry = Joint(t, made, old, child, key, p)
  PROVE  /\ \E S : JoinsEntries(t, made, old, child, key, p, S, entry)
         /\ p \in 0 .. key[2] /\ p <= limits[child] /\ key[2] \in 0 .. bound
<1>1. PICK m \in Nat : m = limits[child]
  OBVIOUS
<1>2. DOMAIN old = KeysOf(t, c, bound)
  BY DEF EntriesOver
<1>3. key[1] \in SUBSET NodesOf(t, c) /\ key[2] \in 0 .. bound
  BY <1>2 DEF KeysOf
<1>4. PICK T, target : T = key[1] /\ target = key[2]
  OBVIOUS
<1>5. p \in 0 .. target /\ p <= m
  <2>1. {target, m} \in SUBSET Nat /\ {target, m} # {}
    BY <1>3, <1>4
  <2>2. Min({target, m}) \in {target, m} /\ \A i \in {target, m} : Min({target, m}) <= i
    BY <2>1, MinOfNaturals
  <2>3. p \in 0 .. Min({target, m})
    BY <1>1, <1>4 DEF Shares
  <2> QED BY <1>3, <1>4, <2>1, <2>2, <2>3
<1>6. <<T, target - p>> \in KeysOf(t, c, bound)
  <2>1. target - p \in 0 .. bound
    BY <1>3, <1>4, <1>5
  <2> QED BY <1>3, <1>4, <2>1 DEF KeysOf
<1>7. PICK A : A = AccessibleNodes(t, child, T)
  OBVIOUS
<1>8. PICK entries : entries = made[child]
  OBVIOUS
<1>9. entries \in [KeysOf(t, child, m) -> EntryOver(n)]
  BY <1>1, <1>8 DEF EntriesOver
<1>10. ASSUME NEW S \in SUBSET A PROVE <<S, p>> \in KeysOf(t, child, m)
  BY <1>5, <1>7, AccessibleIn DEF KeysOf
<1>11. PageCounts(made, child, A, p)
  <2>1. \A S \in SUBSET A : entries[<<S, p>>] \in EntryOver(n)
    BY <1>9, <1>10
  <2> QED BY <1>8, <2>1 DEF PageCounts, EntryOver
<1>12. PICK S : /\ LowestOf(made, child, A, p, S)
                /\ LowestCost(t, made, child, A, p) = made[child][<<S, p>>]
  <2>1. LowestFound(t, made, child, A, p)
    BY <1>11, LowestCostIs
  <2> QED BY <2>1 DEF LowestFound
<1>13. <<S, p>> \in DOMAIN entries
  <2>1. S \in SUBSET A
    BY <1>12 DEF LowestOf
  <2> QED BY <1>9, <1>10, <2>1
<1>14. entry = CombinationOfDisjoint(old[<<T, target - p>>], made[child][<<S, p>>])
  BY <1>4, <1>7, <1>12 DEF Joint
<1>15. JoinsEntries(t, made, old, child, key, p, S, entry)
  BY <1>2, <1>4, <1>6, <1>7, <1>8, <1>12, <1>13, <1>14 DEF JoinsEntries
<1> QED BY <1>1, <1>3, <1>4, <1>5, <1>15

ChildUsed(t, c, child, made, limits, bound, n, profits, old, new) ==
    /\ new \in EntriesOver(t, c, bound, n) /\ Rewarding(new, profits)
    /\ \A key \in DOMAIN old : CheapestJoint(t, made, limits, old, child, key, new[key])

LEMMA WithChildMade ==
  ASSUME NEW t, NEW c, NEW child, t.clusters[child].nodes \in Seq(Nat),
         NEW made, NEW limits, limits[child] \in Nat, NEW bound \in Nat, NEW n, NEW profits,
         NEW old \in EntriesOver(t, c, bound, n), made[child] \in EntriesOver(t, child, limits[child], n),
         Rewarding(old, profits), Rewarding(made[child], profits),
         NEW new, new = WithChild(t, made, limits, old, child)
  PROVE  ChildUsed(t, c, child, made, limits, bound, n, profits, old, new)
<1>1. DOMAIN old = KeysOf(t, c, bound) /\ \A key \in DOMAIN old : old[key] \in EntryOver(n)
  BY DEF EntriesOver
<1>2. PICK entries : entries = made[child]
  OBVIOUS
<1>3. \A k \in DOMAIN entries : entries[k] \in EntryOver(n)
  BY <1>2 DEF EntriesOver
<1>4. \A a, b \in EntryOver(n) :
         /\ CombinationOfDisjoint(a, b) \in EntryOver(n)
         /\ CombinationOfDisjoint(a, b).pageCount = a.pageCount + b.pageCount
         /\ CombinationOfDisjoint(a, b).guests = a.guests \cup b.guests
         /\ a.pageCount \in Nat /\ b.pageCount \in Nat
  BY DEF EntryOver, CombinationOfDisjoint
<1>5. ASSUME NEW key \in DOMAIN old, NEW p \in Shares(limits, child, key)
      PROVE  Joint(t, made, old, child, key, p) \in EntryOver(n)
  <2>1. PICK S : JoinsEntries(t, made, old, child, key, p, S, Joint(t, made, old, child, key, p))
    BY JointIs
  <2> QED BY <1>1, <1>2, <1>3, <1>4, <2>1 DEF JoinsEntries
<1>6. ASSUME NEW key \in DOMAIN old
      PROVE  CheapestJoint(t, made, limits, old, child, key, new[key])
  <2>1. JointsCount(t, made, limits, old, child, key)
    <3>1. key[2] \in Nat
      BY <1>1 DEF KeysOf
    <3>2. old[key].pageCount \in Nat
      BY <1>1 DEF EntryOver
    <3>3. \A p \in Shares(limits, child, key) : Joint(t, made, old, child, key, p).pageCount \in Nat
      BY <1>5 DEF EntryOver
    <3> QED BY <3>1, <3>2, <3>3 DEF JointsCount
  <2>2. CheapestJoint(t, made, limits, old, child, key, WithChild(t, made, limits, old, child)[key])
    BY <2>1, WithChildIs
  <2> QED BY <2>2
<1>7. new \in EntriesOver(t, c, bound, n)
  <2>1. \A key \in DOMAIN old : new[key] \in EntryOver(n)
    BY <1>1, <1>5, <1>6 DEF CheapestJoint
  <2>2. new = [key \in DOMAIN old |-> new[key]]
    BY DEF WithChild
  <2> QED BY <1>1, <2>1, <2>2 DEF EntriesOver
<1>8. ASSUME NEW key \in DOMAIN old, key[2] > 0, IsFinite(new[key])
      PROVE  new[key].guests \cap profits # {}
  <2>1. CASE new[key] = old[key]
    BY <1>8, <2>1 DEF Rewarding
  <2>2. ASSUME NEW p \in Shares(limits, child, key), new[key] = Joint(t, made, old, child, key, p)
        PROVE  new[key].guests \cap profits # {}
    <3>1. PICK entry : entry = new[key]
      OBVIOUS
    <3>2. PICK S : JoinsEntries(t, made, old, child, key, p, S, entry)
      BY <2>2, <3>1, JointIs
    <3>3. p \in 0 .. key[2] /\ key[2] \in Nat
      <4>1. p \in 0 .. key[2] /\ key[2] \in 0 .. bound
        BY JointIs
      <4> QED BY <4>1
    <3>4. PICK a, b : a = old[<<key[1], key[2] - p>>] /\ b = entries[<<S, p>>]
      OBVIOUS
    <3>5. /\ <<S, p>> \in DOMAIN entries /\ <<key[1], key[2] - p>> \in DOMAIN old
          /\ entry = CombinationOfDisjoint(a, b)
      BY <1>2, <3>2, <3>4 DEF JoinsEntries
    <3>6. a \in EntryOver(n) /\ b \in EntryOver(n)
      BY <1>1, <1>3, <3>4, <3>5
    <3>7. entry.guests = a.guests \cup b.guests /\ IsFinite(a) /\ IsFinite(b)
      <4>1. /\ entry.pageCount = a.pageCount + b.pageCount /\ entry.guests = a.guests \cup b.guests
            /\ a.pageCount \in Nat /\ b.pageCount \in Nat
        BY <1>4, <3>5, <3>6
      <4>2. entry.pageCount <= Capacity /\ Capacity \in Nat
        BY <1>8, <3>1, HostAssumption DEF IsFinite
      <4> QED BY <4>1, <4>2 DEF IsFinite
    <3>8. CASE p = 0
      <4>1. key[2] - p > 0
        BY <1>8, <3>3, <3>8
      <4>2. a.guests \cap profits # {}
        BY <3>4, <3>5, <3>7, <4>1 DEF Rewarding
      <4> QED BY <3>1, <3>7, <4>2
    <3>9. CASE p # 0
      <4>1. p > 0
        BY <3>3, <3>9
      <4>2. b.guests \cap profits # {}
        BY <1>2, <3>4, <3>5, <3>7, <4>1 DEF Rewarding
      <4> QED BY <3>1, <3>7, <4>2
    <3> QED BY <3>8, <3>9
  <2> QED BY <1>6, <2>1, <2>2 DEF CheapestJoint
<1>9. DOMAIN new = DOMAIN old
  BY DEF WithChild
<1> QED BY <1>6, <1>7, <1>8, <1>9 DEF Rewarding, ChildUsed

-----------------------------------------------------------------------------
(* The queue of clusters to visit.                                         *)

LEMMA ChildrenHave ==
  ASSUME NEW t, WellMade(t), NEW c \in DOMAIN t.clusters
  PROVE  /\ ChildrenOf(t, c) = {d \in DOMAIN t.clusters \ {RootCluster} : t.clusters[d].parent = c}
         /\ IsFiniteSet(ChildrenOf(t, c)) /\ Cardinality(ChildrenOf(t, c)) \in Nat
         /\ Cardinality(ChildrenOf(t, c)) <= ClusterCount(t)
         /\ Len(t.clusters[c].children) = Cardinality(ChildrenOf(t, c))
<1>1. ChildrenOf(t, c) = {d \in DOMAIN t.clusters \ {RootCluster} : t.clusters[d].parent = c}
  BY MadeHas DEF ChildrenOf
<1>2. IsFiniteSet(DOMAIN t.clusters) /\ Cardinality(DOMAIN t.clusters) \in Nat
  BY CountedHas DEF WellMade
<1>3. ChildrenOf(t, c) \subseteq DOMAIN t.clusters
  BY <1>1
<1>4. IsFiniteSet(ChildrenOf(t, c)) /\ Cardinality(ChildrenOf(t, c)) <= ClusterCount(t)
  BY <1>2, <1>3, FS_Subset DEF ClusterCount
<1>5. Cardinality(ChildrenOf(t, c)) \in Nat
  BY <1>4, FS_CardinalityType
<1>6. t.clusters[c].children \in Seq(Nat) /\ NoneTwice(t.clusters[c].children)
  BY MadeHas DEF WellMade, ClusterMade
<1>7. Len(t.clusters[c].children) = Cardinality(ChildrenOf(t, c))
  BY <1>6, NoneTwiceCounts DEF ChildrenOf
<1> QED BY <1>1, <1>4, <1>5, <1>7

FirstQueue(t, n) ==
    Subsequence([i \in 1 .. n |-> i - 1], {i \in 1 .. n : t.clusters[i - 1].children = <<>>})

FirstCounts(t) == [c \in DOMAIN t.clusters |-> Len(t.clusters[c].children)]

LEMMA QueuedAtFirst ==
  ASSUME NEW t, WellMade(t), NEW n, n = ClusterCount(t),
         NEW queue, queue = FirstQueue(t, n), NEW counts, counts = FirstCounts(t)
  PROVE  Queued(t, queue, counts, {})
<1> DEFINE all == [i \in 1 .. n |-> i - 1]
           I == {i \in 1 .. n : t.clusters[i - 1].children = <<>>}
<1>1. n \in Nat /\ DOMAIN t.clusters = 0 .. n - 1
  BY CountedHas DEF WellMade, ClusterCount
<1>2. all \in Seq(DOMAIN t.clusters) /\ Len(all) = n
  <2>1. \A i \in 1 .. n : i - 1 \in DOMAIN t.clusters
    BY <1>1
  <2>2. all \in [1 .. n -> DOMAIN t.clusters]
    BY <2>1
  <2> QED BY <1>1, <2>2
<1>3. NoneTwice(all)
  BY <1>1, <1>2 DEF NoneTwice
<1>4. queue = Subsequence(all, I) /\ I \in SUBSET (1 .. Len(all))
  BY <1>2 DEF FirstQueue
<1>5. \A i \in I : all[i] = i - 1
  OBVIOUS
<1> HIDE DEF all, I
<1>6. /\ queue \in Seq(DOMAIN t.clusters) /\ NoneTwice(queue)
      /\ ToSet(queue) = {all[i] : i \in I}
  BY <1>2, <1>3, <1>4, SubsequenceNoneTwice
<1>7. ASSUME NEW c \in DOMAIN t.clusters
      PROVE  c \in ToSet(queue) <=> t.clusters[c].children = <<>>
  <2>1. c + 1 \in 1 .. n /\ c + 1 - 1 = c /\ \A i \in 1 .. n : i - 1 = c => i = c + 1
    BY <1>1
  <2>2. c \in ToSet(queue) <=> \E i \in I : i - 1 = c
    BY <1>5, <1>6
  <2>3. c + 1 \in I <=> t.clusters[c].children = <<>>
    <3>1. \A i : i \in I <=> i \in 1 .. n /\ t.clusters[i - 1].children = <<>>
      BY DEF I
    <3>2. PICK i \in 1 .. n : i = c + 1 /\ i - 1 = c
      BY <1>1, <2>1
    <3> QED BY <2>1, <3>1, <3>2
  <2>4. I \subseteq 1 .. n
    BY DEF I
  <2>5. c \in ToSet(queue) <=> c + 1 \in I
    <3>1. c + 1 \in I => c \in ToSet(queue)
      <4>1. PICK i \in Nat : i = c + 1
        <5>1. c \in Nat
          BY <1>1
        <5> QED BY <5>1
      <4>2. i - 1 = c
        <5>1. c \in Nat
          BY <1>1
        <5> QED BY <4>1, <5>1
      <4>3. i \in I => c \in ToSet(queue)
        BY <2>2, <4>2
      <4> QED BY <4>1, <4>3
    <3>2. ASSUME NEW i \in I, i - 1 = c PROVE c + 1 \in I
      <4>1. i \in 1 .. n
        BY <2>4
      <4>2. i = c + 1
        BY <2>1, <3>2, <4>1
      <4> QED BY <4>2
    <3> QED BY <2>2, <3>1, <3>2
  <2> QED BY <2>3, <2>5
<1>8. ASSUME NEW c \in DOMAIN t.clusters PROVE QueuedAt(t, queue, counts, {}, c)
  <2>1. ChildrenOf(t, c) \ {} = ChildrenOf(t, c) /\ counts[c] = Len(t.clusters[c].children)
    BY DEF FirstCounts
  <2>2. counts[c] = Cardinality(ChildrenOf(t, c))
    BY <2>1, ChildrenHave
  <2>3. t.clusters[c].children = <<>> <=> ChildrenOf(t, c) = {}
    <3>1. PICK kids : kids = t.clusters[c].children
      OBVIOUS
    <3>2. kids \in Seq(Nat)
      BY <3>1, MadeHas
    <3>3. kids = <<>> <=> ToSet(kids) = {}
      <4>1. kids # <<>> => Len(kids) >= 1 /\ 1 \in DOMAIN kids
        BY <3>2, EmptySeq, LenProperties
      <4> QED BY <4>1 DEF ToSet
    <3> QED BY <3>1, <3>3 DEF ChildrenOf
  <2> QED BY <1>7, <2>1, <2>2, <2>3 DEF QueuedAt
<1>9. counts \in [DOMAIN t.clusters -> Nat]
  <2>1. \A c \in DOMAIN t.clusters : Len(t.clusters[c].children) \in Nat
    BY ChildrenHave
  <2> QED BY <2>1 DEF FirstCounts
<1> QED BY <1>6, <1>8, <1>9 DEF Queued

RestAfter(queue, parent, left) == Tail(queue) \o (IF left[parent] = 0 THEN <<parent>> ELSE <<>>)

CountsAfter(counts, parent) == [counts EXCEPT ![parent] = (@ - 1) % SizeRange]

LEMMA CounterWraps ==
  ASSUME NEW k \in Nat, k > 1
  PROVE  /\ (0 - 1) % k = k - 1
         /\ \A m \in 0 .. k - 1 : m % k = m
<1>1. PICK q \in Int, r \in Int : q = (0 - 1) \div k /\ r = (0 - 1) % k
  OBVIOUS
<1>2. 0 <= r /\ r < k /\ 0 - 1 = k * q + r
  BY <1>1, Z3
<1>3. q = -1
  <2>1. q >= 0 => k * q >= 0
    OBVIOUS
  <2>2. q <= -2 => k * q <= k * (-2)
    OBVIOUS
  <2>3. k * (-2) = -k - k
    OBVIOUS
  <2> QED BY <1>2, <2>1, <2>2, <2>3
<1>4. r = k - 1
  BY <1>2, <1>3
<1>5. \A m \in Int, n \in Nat \ {0} : m \in 0 .. n - 1 => m % n = m
  BY Z3
<1> QED BY <1>1, <1>4, <1>5

LEMMA SingletonSequence ==
  ASSUME NEW S, NEW x \in S
  PROVE  <<x>> \in Seq(S) /\ NoneTwice(<<x>>) /\ ToSet(<<x>>) = {x}
<1>1. <<x>> \in Seq(S)
  OBVIOUS
<1>2. DOMAIN <<x>> = 1 .. 1
  OBVIOUS
<1>3. Len(<<x>>) = 1 /\ <<x>>[1] = x
  OBVIOUS
<1> QED BY <1>1, <1>2, <1>3 DEF NoneTwice, ToSet

LEMMA SizeRangeIs == SizeRange \in Nat /\ SizeRange > 1
BY DEF SizeRange

(* The queue after a visit. *)
QueuesOn(t, B, cid, rest, left) ==
    /\ Queued(t, rest, left, B \cup {cid})
    /\ cid \in DOMAIN t.clusters /\ cid \notin B /\ ChildrenOf(t, cid) \subseteq B

LEMMA QueuedAfterVisit ==
  ASSUME NEW t, WellMade(t), ClusterCount(t) < SizeRange,
         NEW queue, NEW counts, NEW B, Queued(t, queue, counts, B), queue # <<>>,
         NEW cid, cid = Head(queue), NEW parent, parent = t.clusters[cid].parent,
         NEW left, left = CountsAfter(counts, parent), NEW rest, rest = RestAfter(queue, parent, left)
  PROVE  QueuesOn(t, B, cid, rest, left)
<1> DEFINE C == DOMAIN t.clusters
<1>1. /\ queue \in Seq(C) /\ NoneTwice(queue)
      /\ B \subseteq C /\ ToSet(queue) \cap B = {}
      /\ DOMAIN counts = C
  BY DEF Queued
<1>2. ASSUME NEW c \in C
      PROVE  /\ counts[c] = IF c = RootCluster /\ c \in B THEN SizeRange - 1
                            ELSE Cardinality(ChildrenOf(t, c) \ B)
             /\ c \in ToSet(queue) \cup B <=> ChildrenOf(t, c) \subseteq B
  BY DEF Queued, QueuedAt
<1>3. /\ cid \in ToSet(queue) /\ cid \in C
      /\ Tail(queue) \in Seq(C) /\ NoneTwice(Tail(queue)) /\ ToSet(Tail(queue)) = ToSet(queue) \ {cid}
  BY <1>1, TailNoneTwice
<1>4. cid \notin B /\ ChildrenOf(t, cid) \subseteq B
  BY <1>1, <1>2, <1>3
<1>5. parent \in C /\ (cid # RootCluster => parent # cid)
  <2>1. parent \in C /\ cid \in Nat /\ (cid # RootCluster => parent < cid)
    BY <1>3, MadeHas
  <2> QED BY <2>1
<1>6. \A c \in C : left[c] = IF c = parent THEN (counts[c] - 1) % SizeRange ELSE counts[c]
  BY <1>1 DEF CountsAfter
<1>7. left \in [C -> Nat]
  <2>1. counts \in [C -> Nat] /\ parent \in C
    BY <1>5 DEF Queued
  <2>2. (counts[parent] - 1) % SizeRange \in Nat
    <3>1. \A m \in Int, k \in Nat \ {0} : m % k \in Nat
      BY Z3
    <3>2. counts[parent] - 1 \in Int /\ SizeRange \in Nat \ {0}
      BY <2>1, SizeRangeIs
    <3> QED BY <3>1, <3>2
  <2> QED BY <2>1, <2>2 DEF CountsAfter
<1>8. \A c \in C : /\ ChildrenOf(t, c) = {d \in C \ {RootCluster} : t.clusters[d].parent = c}
                   /\ IsFiniteSet(ChildrenOf(t, c))
                   /\ Cardinality(ChildrenOf(t, c)) <= ClusterCount(t)
  BY ChildrenHave
<1>9. \A c \in C : c # parent \/ cid = RootCluster =>
         /\ ChildrenOf(t, c) \ B = ChildrenOf(t, c) \ (B \cup {cid})
         /\ ChildrenOf(t, c) \subseteq B <=> ChildrenOf(t, c) \subseteq B \cup {cid}
  BY <1>3, <1>8
<1>10. <<>> \in Seq(C) /\ Tail(queue) \o <<>> = Tail(queue)
  BY <1>3, EmptySeq, ConcatEmptySeq
<1>11. CASE cid = RootCluster
  <2>1. parent = cid
    <3>1. ClusterMade(t, cid)
      BY <1>3 DEF WellMade
    <3> QED BY <1>11, <3>1 DEF ClusterMade
  <2>2. counts[cid] = 0
    <3>1. ChildrenOf(t, cid) \ B = {}
      BY <1>4
    <3> QED BY <1>2, <1>3, <1>4, <3>1, FS_EmptySet
  <2>3. left[parent] = SizeRange - 1
    <3>1. left[parent] = (0 - 1) % SizeRange
      BY <1>3, <1>6, <2>1, <2>2
    <3> QED BY <3>1, CounterWraps, SizeRangeIs
  <2>4. rest = Tail(queue)
    <3>1. left[parent] # 0
      BY <2>3, SizeRangeIs
    <3> QED BY <1>10, <3>1 DEF RestAfter
  <2>5. ASSUME NEW c \in C
        PROVE  QueuedAt(t, rest, left, B \cup {cid}, c)
    <3>1. c # cid => left[c] = Cardinality(ChildrenOf(t, c) \ B)
      BY <1>2, <1>6, <1>11, <2>1
    <3>2. c \in ToSet(rest) \cup (B \cup {cid}) <=> c \in ToSet(queue) \cup B
      BY <1>3, <2>4
    <3>3. c \in ToSet(rest) \cup (B \cup {cid}) <=> ChildrenOf(t, c) \subseteq B \cup {cid}
      BY <1>2, <1>9, <1>11, <3>2
    <3>4. c # cid => left[c] = Cardinality(ChildrenOf(t, c) \ (B \cup {cid}))
      BY <1>9, <1>11, <3>1
    <3>5. c = cid => left[c] = SizeRange - 1 /\ c \in B \cup {cid}
      BY <2>1, <2>3
    <3> QED BY <1>11, <3>3, <3>4, <3>5 DEF QueuedAt
  <2>6. ToSet(rest) \cap (B \cup {cid}) = {} /\ B \cup {cid} \subseteq C
    BY <1>1, <1>3, <2>4
  <2>11. Queued(t, rest, left, B \cup {cid})
    BY <1>3, <1>7, <2>4, <2>5, <2>6 DEF Queued
  <2> QED BY <1>3, <1>4, <2>11 DEF QueuesOn
<1>12. CASE cid # RootCluster
  <2>1. cid \in ChildrenOf(t, parent)
    BY <1>3, <1>5, <1>8, <1>12
  <2>2. parent \notin ToSet(queue) \cup B
    BY <1>2, <1>4, <1>5, <2>1
  <2> DEFINE kids == ChildrenOf(t, parent) \ B
  <2>3. PICK m \in Nat : m = Cardinality(kids)
    BY <1>5, <1>8, FS_Difference, FS_CardinalityType
  <2>4. m <= ClusterCount(t) /\ m > 0 /\ Cardinality(kids \ {cid}) = m - 1 /\ IsFiniteSet(kids)
    <3>1. kids \subseteq ChildrenOf(t, parent) /\ IsFiniteSet(ChildrenOf(t, parent)) /\ cid \in kids
      BY <1>4, <1>5, <1>8, <2>1
    <3>2. IsFiniteSet(kids) /\ Cardinality(kids) <= Cardinality(ChildrenOf(t, parent))
      BY <3>1, FS_Subset
    <3>3. Cardinality(kids \ {cid}) = m - 1 /\ Cardinality(kids) # 0
      <4> HIDE DEF kids
      <4>1. Cardinality(kids \ {cid}) = Cardinality(kids) - 1
        BY <3>1, <3>2, FS_RemoveElement
      <4>2. Cardinality(kids) # 0
        BY <3>1, <3>2, FS_EmptySet
      <4> QED BY <2>3, <4>1, <4>2
    <3>4. Cardinality(ChildrenOf(t, parent)) \in Nat /\ Cardinality(ChildrenOf(t, parent)) <= ClusterCount(t)
          /\ ClusterCount(t) \in Nat
      BY <1>5, ChildrenHave, CountedHas DEF ClusterCount, WellMade
    <3> HIDE DEF kids
    <3> QED BY <2>3, <3>2, <3>3, <3>4
  <2>5. kids \ {cid} = ChildrenOf(t, parent) \ (B \cup {cid})
    OBVIOUS
  <2>6. left[parent] = m - 1
    <3>1. counts[parent] = m
      BY <1>2, <1>5, <2>2, <2>3
    <3>2. left[parent] = (m - 1) % SizeRange
      BY <1>5, <1>6, <3>1
    <3>3. ClusterCount(t) \in Nat
      BY CountedHas DEF ClusterCount, WellMade
    <3>4. m - 1 \in 0 .. SizeRange - 1
      BY <2>4, <3>3, SizeRangeIs
    <3> QED BY <3>2, <3>4, CounterWraps, SizeRangeIs
  <2>7. m - 1 = 0 <=> ChildrenOf(t, parent) \subseteq B \cup {cid}
    <3> HIDE DEF kids
    <3>1. IsFiniteSet(kids \ {cid})
      BY <2>4, FS_Difference
    <3>2. Cardinality(kids \ {cid}) = 0 <=> kids \ {cid} = {}
      BY <3>1, FS_EmptySet
    <3> QED BY <2>4, <2>5, <3>2
  <2>8. /\ rest \in Seq(C) /\ NoneTwice(rest)
        /\ ToSet(rest) = ToSet(Tail(queue)) \cup (IF m - 1 = 0 THEN {parent} ELSE {})
    <3>1. CASE m - 1 = 0
      <4>1. rest = Tail(queue) \o <<parent>>
        BY <2>6, <3>1 DEF RestAfter
      <4>2. <<parent>> \in Seq(C) /\ NoneTwice(<<parent>>) /\ ToSet(<<parent>>) = {parent}
        BY <1>5, SingletonSequence
      <4>3. ToSet(Tail(queue)) \cap ToSet(<<parent>>) = {}
        BY <1>3, <2>2, <4>2
      <4>4. PICK front, back : front = Tail(queue) /\ back = <<parent>>
        OBVIOUS
      <4>5. /\ front \in Seq(C) /\ NoneTwice(front) /\ back \in Seq(C) /\ NoneTwice(back)
            /\ ToSet(front) \cap ToSet(back) = {} /\ ToSet(back) = {parent}
        BY <1>3, <4>2, <4>3, <4>4
      <4>6. /\ front \o back \in Seq(C) /\ NoneTwice(front \o back)
            /\ ToSet(front \o back) = ToSet(front) \cup ToSet(back)
        BY <4>5, ConcatNoneTwice
      <4> QED BY <3>1, <4>1, <4>4, <4>5, <4>6
    <3>2. CASE m - 1 # 0
      <4>1. rest = Tail(queue)
        BY <1>10, <2>6, <3>2 DEF RestAfter
      <4> QED BY <1>3, <3>2, <4>1
    <3> QED BY <3>1, <3>2
  <2>9. ASSUME NEW c \in C
        PROVE  QueuedAt(t, rest, left, B \cup {cid}, c)
    <3>1. CASE c = parent
      <4>1. left[c] = Cardinality(ChildrenOf(t, c) \ (B \cup {cid}))
        BY <2>4, <2>5, <2>6, <3>1
      <4>2. c \notin B \cup {cid}
        BY <1>5, <1>12, <2>2, <3>1
      <4>3. c \in ToSet(rest) <=> m - 1 = 0
        BY <1>3, <2>2, <2>8, <3>1
      <4> QED BY <2>7, <3>1, <4>1, <4>2, <4>3 DEF QueuedAt
    <3>2. CASE c # parent
      <4>1. left[c] = counts[c]
        BY <1>6, <3>2
      <4>2. c \in ToSet(rest) \cup (B \cup {cid}) <=> c \in ToSet(queue) \cup B
        BY <1>3, <2>8, <3>2
      <4>3. c = RootCluster /\ c \in B \cup {cid} <=> c = RootCluster /\ c \in B
        BY <1>12
      <4> QED BY <1>2, <1>9, <3>2, <4>1, <4>2, <4>3 DEF QueuedAt
    <3> QED BY <3>1, <3>2
  <2>10. ToSet(rest) \cap (B \cup {cid}) = {} /\ B \cup {cid} \subseteq C
    BY <1>1, <1>3, <1>5, <1>12, <2>2, <2>8
  <2>11. Queued(t, rest, left, B \cup {cid})
    BY <1>3, <1>7, <2>8, <2>9, <2>10 DEF Queued
  <2> QED BY <1>3, <1>4, <2>11 DEF QueuesOn
<1> QED BY <1>11, <1>12

(* When the queue is empty, every cluster has been visited: the largest    *)
(* that was not would have had all its children visited.                   *)
LEMMA QueuedAtLast ==
  ASSUME NEW t, WellMade(t), NEW counts, NEW B, Queued(t, <<>>, counts, B)
  PROVE  B = DOMAIN t.clusters
<1>1. PICK n \in Nat : DOMAIN t.clusters = 0 .. n - 1
  BY DEF WellMade, Counted
<1> DEFINE S == {k \in Nat : k < n => n - 1 - k \in B}
<1>2. ASSUME NEW k \in Nat, \A m \in Nat : m < k => m \in S PROVE k \in S
  <2> SUFFICES ASSUME k < n PROVE n - 1 - k \in B
    OBVIOUS
  <2>1. PICK c \in DOMAIN t.clusters : c = n - 1 - k
    BY <1>1
  <2>2. ASSUME NEW d \in ChildrenOf(t, c) PROVE d \in B
    <3>1. d \in DOMAIN t.clusters /\ d # RootCluster /\ t.clusters[d].parent = c
      BY ChildrenHave
    <3>2. c < d
      BY <3>1, MadeHas
    <3>3. PICK m \in Nat : m = n - 1 - d /\ m < k /\ n - 1 - m = d /\ m < n
      BY <1>1, <2>1, <3>1, <3>2
    <3> QED BY <1>2, <3>3
  <2>3. ToSet(<<>>) = {}
    BY DEF ToSet
  <2>4. QueuedAt(t, <<>>, counts, B, c)
    BY DEF Queued
  <2>5. c \in B
    BY <2>2, <2>3, <2>4 DEF QueuedAt
  <2> QED BY <2>1, <2>5
<1>3. Nat \subseteq S
  <2> HIDE DEF S
  <2> QED BY <1>2, SmallerFirst
<1>4. ASSUME NEW c \in 0 .. n - 1 PROVE c \in B
  <2>1. PICK k \in Nat : k = n - 1 - c /\ k < n /\ n - 1 - k = c
    OBVIOUS
  <2> QED BY <1>3, <2>1
<1> QED BY <1>1, <1>4 DEF Queued

-----------------------------------------------------------------------------
(* Every step keeps the invariant, part by part.  Outside the building of  *)
(* the tree the guests and the tree stay as they are.                      *)

(* What the steps that make the table leave alone.                         *)
LEMMA VisitLeaves ==
  ASSUME VisitCluster
  PROVE  /\ UNCHANGED <<call, input, phase, range, search, host, filling>>
         /\ phase = "tabulating" /\ frontier # <<>> /\ below = <<>>
BY Zenon DEF VisitCluster

LEMMA UseLeaves ==
  ASSUME UseChild
  PROVE  /\ UNCHANGED <<call, input, phase, range, search, host, filling, frontier, unvisited, visited, bounds>>
         /\ phase = "tabulating" /\ below # <<>> /\ below' = Tail(below)
BY Zenon DEF UseChild

LEMMA InputStays ==
  ASSUME MaxInv, Solve
  PROVE  UNCHANGED input /\ UNCHANGED call /\ phase # "building" /\ phase' # "building" /\ phase' \in Phase
<1> USE DEF call
<1>1. CASE MaximiseUnlimited \/ MaximiseMiddle
  BY <1>1 DEF MaximiseUnlimited, MaximiseMiddle, Maximise, Phase
<1>2. CASE ReturnUnlimited \/ Narrow \/ ReturnBest \/ Throw
  BY <1>2 DEF ReturnUnlimited, Narrow, ReturnBest, Throw, Phase
<1>3. CASE FillBySubsets \/ FillByTable
  BY <1>3 DEF FillBySubsets, FillByTable, Phase
<1>4. CASE KeepHost \/ StopAtEmptyHost \/ EndSearch
  BY <1>4 DEF KeepHost, StopAtEmptyHost, EndSearch, Phase
<1>5. CASE PlaceSubset \/ EndFilling
  BY <1>5 DEF PlaceSubset, EndFilling, Phase
<1>6. CASE VisitCluster \/ UseChild
  BY <1>6, VisitLeaves, UseLeaves DEF Phase
<1>7. CASE TakeMostProfitable \/ TakeNone
  BY <1>7 DEF TakeMostProfitable, TakeNone, EndTable, Phase
<1> QED BY <1>1, <1>2, <1>3, <1>4, <1>5, <1>6, <1>7 DEF Solve, MaxInv, CallMade

LEMMA CallKept ==
  ASSUME MaxInv, [Next]_vars
  PROVE  CallMade'
<1>1. CallMade
  BY DEF MaxInv
<1>2. CASE UNCHANGED vars
  BY <1>1, <1>2 DEF vars, call, CallMade
<1>3. CASE Parse
  <2>1. UNCHANGED call /\ phase = "building" /\ phase' \in {"building", "choosing"}
    BY <1>3 DEF Parse, ParseCluster, ParseInnerNode, ParseLeafNode, MayAdd, BuildTree
  <2> QED BY <1>1, <2>1 DEF CallMade, call, Phase
<1>4. CASE Solve
  <2>1. UNCHANGED call /\ phase' \in Phase /\ phase' # "building"
    BY <1>4, InputStays
  <2>2. phase' = "tabulating" => phase = "tabulating" \/ solver = "cluster_tree"
    <3>1. CASE VisitCluster \/ UseChild
      BY <3>1, VisitLeaves, UseLeaves
    <3>2. CASE ~(VisitCluster \/ UseChild)
      BY <1>4, <3>2 DEF Solve, MaximiseUnlimited, MaximiseMiddle, Maximise, ReturnUnlimited, Narrow, ReturnBest,
                        Throw, FillBySubsets, FillByTable, KeepHost, StopAtEmptyHost, EndSearch, PlaceSubset,
                        EndFilling, TakeMostProfitable, TakeNone, EndTable
    <3> QED BY <3>1, <3>2
  <2>3. phase' = "filling" => phase = "filling" \/ solver = "subset_efficiency"
    <3>1. CASE VisitCluster \/ UseChild
      BY <3>1, VisitLeaves, UseLeaves
    <3>2. CASE ~(VisitCluster \/ UseChild)
      BY <1>4, <3>2 DEF Solve, MaximiseUnlimited, MaximiseMiddle, Maximise, ReturnUnlimited, Narrow, ReturnBest,
                        Throw, FillBySubsets, FillByTable, KeepHost, StopAtEmptyHost, EndSearch, PlaceSubset,
                        EndFilling, TakeMostProfitable, TakeNone, EndTable
    <3> QED BY <3>1, <3>2
  <2> QED BY <1>1, <2>1, <2>2, <2>3 DEF CallMade, call
<1> QED BY <1>2, <1>3, <1>4 DEF Next

LEMMA TreeKept ==
  ASSUME MaxInv, [Next]_vars
  PROVE  TreeBuilt' /\ DOMAIN tree.clusters \subseteq DOMAIN tree'.clusters /\ Guests \subseteq Guests'
<1>1. TreeBuilt
  BY DEF MaxInv
<1>2. CASE UNCHANGED vars
  BY <1>1, <1>2 DEF vars, call, input, TreeBuilt, Guests
<1>3. CASE Solve
  <2>1. UNCHANGED input /\ UNCHANGED call /\ phase # "building" /\ phase' # "building"
    BY <1>3, InputStays
  <2> QED BY <1>1, <2>1 DEF TreeBuilt, input, call, Guests
<1>4. ASSUME NEW parent, ParseCluster(parent)
      PROVE  TreeBuilt' /\ DOMAIN tree.clusters \subseteq DOMAIN tree'.clusters /\ Guests \subseteq Guests'
  BY <1>4, ParseClusterKeeps DEF ParseCluster, Guests
<1>5. ASSUME NEW parents \in PossibleParents, NEW pages \in SUBSET Page, ParseInnerNode(parents, pages)
      PROVE  TreeBuilt' /\ DOMAIN tree.clusters \subseteq DOMAIN tree'.clusters /\ Guests \subseteq Guests'
  BY <1>5, ParseInnerNodeKeeps DEF ParseInnerNode, Guests
<1>6. ASSUME NEW parents \in PossibleParents, NEW pages \in SUBSET Page, ParseLeafNode(parents, pages)
      PROVE  TreeBuilt' /\ DOMAIN tree.clusters \subseteq DOMAIN tree'.clusters /\ Guests \subseteq Guests'
  BY <1>6, ParseLeafNodeKeeps
<1>7. CASE BuildTree
  BY <1>7, BuildTreeKeeps DEF BuildTree, Guests
<1> QED BY <1>2, <1>3, <1>4, <1>5, <1>6, <1>7 DEF Next, Parse

(* While the tree is built, only the tree and the guests change.           *)
LEMMA ParseLeaves ==
  ASSUME MaxInv, Parse
  PROVE  /\ UNCHANGED <<call, range, search, host, filling, table>>
         /\ phase = "building" /\ phase' \in {"building", "choosing"}
BY DEF Parse, ParseCluster, ParseInnerNode, ParseLeafNode, MayAdd, BuildTree

LEMMA DecantedTyped ==
  ASSUME hosts \in Seq(HostSet), NEW result \in Decanted
  PROVE  result \in Seq(HostSet)
BY DecantTyped DEF Decanted

LEMMA SearchKept ==
  ASSUME MaxInv, [Next]_vars
  PROVE  SearchTyped'
<1>1. SearchTyped /\ Guests \subseteq Guests' /\ unlimited \in BOOLEAN /\ MaxGuests \in Nat
  BY TreeKept, HostAssumption DEF MaxInv, CallMade
<1>2. CASE UNCHANGED vars
  BY <1>1, <1>2 DEF vars, call, range, search, SearchTyped, AtAttempt
<1>3. CASE Parse
  <2>1. UNCHANGED <<call, range, search>> /\ phase' \in {"building", "choosing"}
    BY <1>3, ParseLeaves
  <2> QED BY <1>1, <2>1 DEF SearchTyped, AtAttempt, range, search, call
<1>4. ASSUME Solve PROVE unlimited' = unlimited /\ Guests' = Guests
  BY <1>4, InputStays DEF call, input, Guests
<1>5. ASSUME NEW count \in 0 .. Unlimited, Maximise(count), Solve,
             ~unlimited => minHosts <= count /\ count <= maxHosts
      PROVE  SearchTyped'
  <2>1. <<>> \in Seq(HostSet)
    BY EmptySeq
  <2> QED BY <1>1, <1>4, <1>5, <2>1 DEF SearchTyped, Maximise, range
<1>6. CASE MaximiseUnlimited
  <2>1. Unlimited \in 0 .. Unlimited /\ unlimited /\ Maximise(Unlimited)
    BY <1>1, <1>6 DEF Unlimited, MaximiseUnlimited
  <2> QED BY <1>5, <1>6, <2>1 DEF Solve
<1>7. CASE MaximiseMiddle
  <2>1. PICK count : count = minHosts + (maxHosts - minHosts) \div 2
    OBVIOUS
  <2>2. Maximise(count) /\ minHosts <= maxHosts /\ minHosts \in Nat /\ maxHosts \in 0 .. MaxGuests
    BY <1>1, <1>7, <2>1 DEF MaximiseMiddle, SearchTyped
  <2>3. count \in Nat /\ minHosts <= count /\ count <= maxHosts
    <3>1. (maxHosts - minHosts) \div 2 \in 0 .. maxHosts - minHosts
      BY <2>2
    <3> QED BY <2>1, <2>2, <3>1
  <2>4. count \in 0 .. Unlimited
    BY <1>1, <2>2, <2>3 DEF Unlimited
  <2> QED BY <1>5, <1>7, <2>2, <2>3, <2>4 DEF Solve
<1>8. CASE ReturnUnlimited
  <2>1. hosts' \in Seq(HostSet)
    BY <1>1, <1>8, DecantedTyped DEF ReturnUnlimited, SearchTyped
  <2> QED BY <1>1, <1>4, <1>8, <2>1 DEF ReturnUnlimited, Solve, SearchTyped, AtAttempt, range
<1>9. CASE Narrow
  <2>1. /\ minHosts <= allowed /\ allowed <= maxHosts /\ allowed \in Nat
        /\ minHosts \in 1 .. MaxGuests + 1 /\ maxHosts \in 0 .. MaxGuests
    BY <1>1, <1>9 DEF Narrow, SearchTyped, AtAttempt
  <2>2. minHosts' \in 1 .. MaxGuests + 1 /\ maxHosts' \in 0 .. MaxGuests
    BY <1>1, <1>9, <2>1 DEF Narrow
  <2>3. best' \in SUBSET Seq(HostSet) /\ Cardinality(best') <= 1
    <3>1. CASE \E packing \in Decanted : best' = {packing}
      <4>1. PICK packing \in Decanted : best' = {packing}
        BY <3>1
      <4>2. packing \in Seq(HostSet)
        BY <1>1, DecantedTyped DEF SearchTyped
      <4>3. Cardinality({packing}) = 1
        BY FS_Singleton
      <4> QED BY <4>1, <4>2, <4>3
    <3>2. CASE best' = best
      BY <1>1, <3>2 DEF SearchTyped
    <3> QED BY <1>9, <3>1, <3>2 DEF Narrow
  <2>4. UNCHANGED search /\ phase' = "choosing"
    BY <1>9 DEF Narrow
  <2> QED BY <1>1, <1>4, <1>9, <2>2, <2>3, <2>4 DEF Solve, SearchTyped, AtAttempt, search
<1>10. CASE ReturnBest \/ Throw
  <2>1. hosts' \in Seq(HostSet)
    BY <1>1, <1>10 DEF ReturnBest, Throw, search, SearchTyped
  <2> QED BY <1>1, <1>4, <1>10, <2>1 DEF ReturnBest, Throw, Solve, SearchTyped, AtAttempt, range, search
<1>11. CASE KeepHost
  <2>1. host \in HostSet /\ Cardinality(host.guests) \in Nat
    BY IsHostSet, GuestFinite, FS_CardinalityType DEF MaxInv, HostFilling, IsHost
  <2>2. hosts' \in Seq(HostSet)
    BY <1>1, <1>11, <2>1, AppendProperties DEF KeepHost, SearchTyped
  <2>3. placed' \in Nat /\ profitable' \subseteq Guests'
    BY <1>1, <1>11, <2>1 DEF KeepHost, SearchTyped
  <2> QED BY <1>1, <1>4, <1>11, <2>2, <2>3 DEF KeepHost, Solve, SearchTyped, AtAttempt, range
<1>12. ASSUME UNCHANGED <<range, search>>, Solve, AtAttempt PROVE SearchTyped'
  BY <1>1, <1>4, <1>12 DEF SearchTyped, range, search
<1>13. CASE FillBySubsets \/ FillByTable \/ StopAtEmptyHost \/ EndSearch
  BY <1>12, <1>13 DEF Solve, FillBySubsets, FillByTable, StopAtEmptyHost, EndSearch, AtAttempt
<1>14. CASE PlaceSubset \/ EndFilling
  BY <1>12, <1>14 DEF Solve, PlaceSubset, EndFilling, AtAttempt
<1>16. CASE VisitCluster \/ UseChild
  BY <1>12, <1>16, VisitLeaves, UseLeaves DEF Solve, AtAttempt
<1>15. CASE TakeMostProfitable \/ TakeNone
  BY <1>12, <1>15 DEF Solve, TakeMostProfitable, TakeNone, EndTable, AtAttempt
<1> QED BY <1>2, <1>3, <1>6, <1>7, <1>8, <1>9, <1>10, <1>11, <1>13, <1>14, <1>15, <1>16 DEF Next, Solve

-----------------------------------------------------------------------------
(* The host that is filled.                                                *)

(* A host with these guests, with a true page map.                         *)
Holds(h, S) == IsHost(h) /\ FrequenciesMatch(h) /\ h.guests = S

(* The guests offered to a search for subsets. *)
OfferedOf(inst, U) == Subsequence(inst, {i \in DOMAIN inst : inst[i] \in U})

LEMMA UnplacedOffered ==
  ASSUME NEW inst, IsInstance(inst), NEW U, NEW offered, offered = OfferedOf(inst, U)
  PROVE  offered \in Seq(Guest) /\ GuestsOf(offered) = U \cap GuestsOf(inst)
<1> DEFINE I == {i \in DOMAIN inst : inst[i] \in U}
<1>1. inst \in Seq(Guest) /\ DOMAIN inst = 1 .. Len(inst)
  BY LenProperties DEF IsInstance
<1>2. I \in SUBSET (1 .. Len(inst)) /\ offered = Subsequence(inst, I)
  BY <1>1 DEF OfferedOf
<1>3. \A i : i \in I <=> i \in 1 .. Len(inst) /\ inst[i] \in U
  BY <1>1
<1> HIDE DEF I
<1>4. offered \in Seq(Guest) /\ \E pos : Picks(offered, inst, I, pos)
  BY <1>1, <1>2, SubsequenceHas
<1>5. PICK pos : Picks(offered, inst, I, pos)
  BY <1>4
<1>6. ASSUME NEW g \in GuestsOf(offered) PROVE g \in U \cap GuestsOf(inst)
  <2>1. PICK k \in 1 .. Len(offered) : g = offered[k]
    BY DEF GuestsOf
  <2>2. g = inst[pos[k]] /\ pos[k] \in I
    BY <1>5, <2>1 DEF Picks
  <2> QED BY <1>3, <2>2 DEF GuestsOf
<1>7. ASSUME NEW g \in U \cap GuestsOf(inst) PROVE g \in GuestsOf(offered)
  <2>1. PICK i \in 1 .. Len(inst) : g = inst[i]
    BY DEF GuestsOf
  <2>2. i \in I
    BY <1>3, <2>1
  <2>3. PICK k \in 1 .. Len(offered) : pos[k] = i
    BY <1>5, <2>2 DEF Picks
  <2>4. g = offered[k]
    BY <1>5, <2>1, <2>3 DEF Picks
  <2> QED BY <2>4 DEF GuestsOf
<1> QED BY <1>4, <1>6, <1>7

(* What placing a subset does.                                             *)
LEMMA SubsetPlaced ==
  ASSUME IsInstance(instance), IsHost(host), FrequenciesMatch(host), unplaced \subseteq Guests,
         host.guests \cap unplaced = {}, size \in 0 .. MaxSubsetSize, PlaceSubset
  PROVE  /\ size' \in 1 .. size
         /\ \E S : /\ S # {} /\ S \subseteq unplaced /\ S \cap profitable # {}
                   /\ AccommodatesGuests(host, S)
                   /\ size' = 1 => S \subseteq profitable
                   /\ unplaced' = unplaced \ S
                   /\ Holds(host', host.guests \cup S)
<1>1. MaxSubsetSize \in Nat
  BY MaximisersAssumption
<1>2. PICK n \in Nat : n = size
  BY <1>1
<1>17. \A i \in PossibleSizes : i \in 1 .. n
  BY <1>2 DEF PossibleSizes
<1>3. PossibleSizes \in SUBSET Nat /\ IsFiniteSet(PossibleSizes) /\ PossibleSizes # {}
  <2>1. IsFiniteSet(1 .. n) /\ PossibleSizes \subseteq 1 .. n
    BY <1>17, UpTo
  <2>2. PossibleSizes # {}
    BY DEF PlaceSubset
  <2>3. PossibleSizes \in SUBSET Nat
    BY <2>1
  <2>4. IsFiniteSet(PossibleSizes)
    BY <2>1, FS_Subset
  <2> QED BY <2>2, <2>3, <2>4
<1>4. PICK k : k = size'
  OBVIOUS
<1>5. k = Max(PossibleSizes)
  BY <1>4 DEF PlaceSubset
<1>6. k \in PossibleSizes
  <2>1. PossibleSizes \in SUBSET (1 .. n) /\ PossibleSizes # {}
    BY <1>3, <1>17
  <2> QED BY <1>5, <2>1, MaxOfBounded
<1>7. k \in 1 .. size /\ k \in Nat /\ SubsetOf(k) # {}
  <2>1. k \in 1 .. n
    BY <1>6, <1>17
  <2> QED BY <1>2, <1>6, <2>1 DEF PossibleSizes
<1>8. PICK S : S = SubsetOf(k)
  OBVIOUS
<1>9. PICK offered : offered = OfferedOf(instance, unplaced)
  OBVIOUS
<1>10. offered \in Seq(Guest) /\ GuestsOf(offered) = unplaced \cap Guests
  BY <1>9, UnplacedOffered DEF Guests
<1>11. S = FindMostEfficientSubset(offered, profitable, host, k)
  BY <1>8, <1>9 DEF SubsetOf, OfferedOf
<1>12. /\ S \subseteq GuestsOf(offered) /\ (S # {} => AccommodatesGuests(host, S) /\ S \cap profitable # {})
       /\ k = 1 => \E g : S \subseteq {g}
  BY <1>7, <1>10, <1>11, BestSubset
<1>13. S # {} /\ S \subseteq unplaced
  BY <1>7, <1>8, <1>10, <1>12
<1>14. S \in SUBSET Guest /\ S \cap host.guests = {}
  BY <1>13, InstanceGuests DEF Guests
<1>15. unplaced' = unplaced \ S /\ host' = AddGuests(host, S)
  BY <1>4, <1>8 DEF PlaceSubset
<1>16. Holds(host', host.guests \cup S)
  BY <1>14, <1>15, AddGuestsMatches DEF Holds
<1>18. size' = 1 => S \subseteq profitable
  BY <1>4, <1>12, <1>13
<1> QED BY <1>4, <1>7, <1>12, <1>13, <1>15, <1>16, <1>18

(* What the table puts on the host.                                        *)
LEMMA MostProfitableTaken ==
  ASSUME IsInstance(instance), profitable \subseteq Guests,
         NEW entry \in EntryOver(Len(instance)), NEW S, S = {instance[id] : id \in entry.guests}
  PROVE  /\ S \subseteq Guests
         /\ entry.guests \cap Profits # {} => S \cap profitable # {}
<1>1. entry.guests \subseteq 1 .. Len(instance) /\ Len(instance) \in Nat
  BY LenProperties DEF EntryOver, IsInstance
<1>2. S \subseteq Guests
  BY <1>1 DEF Guests, GuestsOf
<1>3. ASSUME NEW id \in entry.guests \cap Profits PROVE S \cap profitable # {}
  <2>1. PICK g \in profitable : id = g.id
    BY <1>3 DEF Profits
  <2>2. PICK i \in 1 .. Len(instance) : g = instance[i]
    BY <2>1 DEF Guests, GuestsOf
  <2>3. i = id
    BY <2>1, <2>2 DEF IsInstance
  <2> QED BY <1>3, <2>1, <2>2, <2>3
<1> QED BY <1>2, <1>3

(* The root's entry that the table is read from has a profitable guest.    *)
LEMMA RootEntryTyped ==
  ASSUME MaxInv, EndTable, NEW key \in MostProfitableAtRoot(costs)
  PROVE  /\ costs[RootCluster][key] \in EntryOver(Len(instance))
         /\ costs[RootCluster][key].guests \cap Profits # {}
         /\ key \in KeysOf(tree, RootCluster, bounds[RootCluster]) /\ key[2] > 0
         /\ IsFinite(costs[RootCluster][key])
<1>1. phase = "tabulating" /\ frontier = <<>>
  BY DEF EndTable
<1>2. PICK B : B = DOMAIN bounds
  OBVIOUS
<1>3. Queued(tree, <<>>, unvisited, B) /\ WellMade(tree)
  BY <1>1, <1>2 DEF MaxInv, TableMade, TreeBuilt
<1>4. B = DOMAIN tree.clusters
  BY <1>3, QueuedAtLast
<1>5. RootCluster \in DOMAIN bounds
  BY <1>2, <1>3, <1>4 DEF WellMade
<1>6. TableAt(tree, costs, bounds, Len(instance), Profits, RootCluster)
  BY <1>1, <1>5 DEF MaxInv, TableMade
<1>7. PICK entries, n, bound : entries = costs[RootCluster] /\ n = Len(instance) /\ bound = bounds[RootCluster]
  OBVIOUS
<1>8. entries \in EntriesOver(tree, RootCluster, bound, n) /\ Rewarding(entries, Profits)
  BY <1>6, <1>7 DEF TableAt
<1>9. key \in DOMAIN entries /\ key[2] > 0 /\ IsFinite(entries[key])
  BY <1>7 DEF MostProfitableAtRoot
<1>10. entries[key] \in EntryOver(n) /\ key \in KeysOf(tree, RootCluster, bound)
  BY <1>8, <1>9 DEF EntriesOver
<1>11. entries[key].guests \cap Profits # {}
  BY <1>8, <1>9 DEF Rewarding
<1> QED BY <1>7, <1>9, <1>10, <1>11

LEMMA HostKept ==
  ASSUME MaxInv, [Next]_vars
  PROVE  HostFilling'
<1>1. HostFilling /\ Guests \subseteq Guests' /\ IsInstance(instance) /\ profitable \subseteq Guests
  BY TreeKept DEF MaxInv, TreeBuilt, SearchTyped
<1>2. CASE UNCHANGED vars
  BY <1>1, <1>2 DEF vars, call, input, search, filling, HostFilling, Guests
<1>3. ASSUME UNCHANGED <<host, filling>>, phase' \notin {"filling", "filled"} PROVE HostFilling'
  BY <1>1, <1>3 DEF filling, HostFilling
<1>4. CASE Parse
  BY <1>3, <1>4, ParseLeaves
<1>5. CASE MaximiseUnlimited \/ MaximiseMiddle
  BY <1>3, <1>5 DEF MaximiseUnlimited, MaximiseMiddle, Maximise
<1>6. CASE ReturnUnlimited \/ Narrow \/ ReturnBest \/ Throw
  BY <1>3, <1>6 DEF ReturnUnlimited, Narrow, ReturnBest, Throw
<1>7. CASE FillByTable \/ StopAtEmptyHost \/ EndSearch
  BY <1>3, <1>7 DEF FillByTable, StopAtEmptyHost, EndSearch
<1>8. CASE VisitCluster \/ UseChild
  <2>1. UNCHANGED <<host, filling>> /\ phase' = phase /\ phase = "tabulating"
    BY <1>8, VisitLeaves, UseLeaves
  <2> QED BY <1>3, <2>1
<1>9. IsHost(EmptyHost) /\ FrequenciesMatch(EmptyHost) /\ EmptyHost.guests = {}
  BY EmptyHostMatches DEF EmptyHost
<1>10. CASE FillBySubsets
  <2>1. host' = EmptyHost /\ unplaced' = Guests /\ size' = subsetSize
    BY <1>10 DEF FillBySubsets
  <2>2. subsetSize \in 0 .. MaxSubsetSize
    BY MaximisersAssumption DEF MaxInv, CallMade
  <2> QED BY <1>1, <1>9, <2>1, <2>2 DEF HostFilling
<1>11. CASE PlaceSubset
  <2>1. phase = "filling" /\ phase' = phase /\ UNCHANGED profitable
    BY <1>11 DEF PlaceSubset, search
  <2>2. /\ IsHost(host) /\ FrequenciesMatch(host) /\ unplaced \subseteq Guests
        /\ host.guests \cap unplaced = {} /\ size \in 0 .. MaxSubsetSize /\ host.guests \subseteq Guests
    BY <1>1, <2>1 DEF HostFilling
  <2>3. size' \in 1 .. size
    BY <1>1, <1>11, <2>2, SubsetPlaced
  <2>4. PICK S : /\ S # {} /\ S \subseteq unplaced /\ S \cap profitable # {}
                 /\ unplaced' = unplaced \ S
                 /\ Holds(host', host.guests \cup S)
    BY <1>1, <1>11, <2>2, SubsetPlaced
  <2>5. IsHost(host') /\ FrequenciesMatch(host') /\ host'.guests = host.guests \cup S
    BY <2>4 DEF Holds
  <2>6. size' \in 0 .. MaxSubsetSize
    BY <2>2, <2>3, MaximisersAssumption
  <2> QED BY <1>1, <2>1, <2>2, <2>4, <2>5, <2>6 DEF HostFilling
<1>12. CASE EndFilling
  <2>1. phase = "filling" /\ unplaced' = {} /\ size' = 0 /\ UNCHANGED <<host, profitable>>
    BY <1>12 DEF EndFilling, search
  <2>2. 0 \in 0 .. MaxSubsetSize
    BY MaximisersAssumption
  <2> QED BY <1>1, <2>1, <2>2 DEF HostFilling
<1>13. CASE KeepHost
  <2>1. host' = EmptyHost /\ UNCHANGED filling /\ phase' = "searching"
    BY <1>13 DEF KeepHost
  <2> QED BY <1>1, <1>9, <2>1 DEF HostFilling, filling
<1>14. ASSUME EndTable, Solve, host'.guests \subseteq Guests, IsHost(host'), FrequenciesMatch(host'),
              host'.guests # {} => host'.guests \cap profitable # {}
       PROVE  HostFilling'
  <2>1. UNCHANGED filling /\ UNCHANGED profitable /\ phase' = "filled"
    BY <1>14 DEF EndTable, search
  <2> QED BY <1>1, <1>14, <2>1 DEF HostFilling, filling
<1>15. CASE TakeNone
  BY <1>9, <1>14, <1>15 DEF TakeNone, Solve
<1>16. CASE TakeMostProfitable
  <2>1. EndTable
    BY <1>16 DEF TakeMostProfitable
  <2>2. PICK key \in MostProfitableAtRoot(costs) :
           host' = HostOf({instance[id] : id \in costs[RootCluster][key].guests})
    BY <1>16 DEF TakeMostProfitable
  <2>3. PICK entry : entry = costs[RootCluster][key]
    OBVIOUS
  <2>4. entry \in EntryOver(Len(instance)) /\ entry.guests \cap Profits # {}
    BY <2>1, <2>3, RootEntryTyped
  <2>5. PICK S : S = {instance[id] : id \in entry.guests}
    OBVIOUS
  <2>6. S \subseteq Guests /\ S \cap profitable # {}
    BY <1>1, <2>4, <2>5, MostProfitableTaken
  <2>7. S \in SUBSET Guest /\ host' = HostOf(S)
    BY <1>1, <2>2, <2>3, <2>5, <2>6, InstanceGuests DEF Guests
  <2>8. IsHost(host') /\ FrequenciesMatch(host') /\ host'.guests = S
    BY <2>7, HostOfMatches
  <2> QED BY <1>14, <1>16, <2>1, <2>6, <2>8 DEF Solve
<1> QED BY <1>2, <1>4, <1>5, <1>6, <1>7, <1>8, <1>10, <1>11, <1>12, <1>13, <1>15, <1>16 DEF Next, Solve

-----------------------------------------------------------------------------
(* The table.  The bound of a cluster is the sum of those of its children. *)

SumOf(limits, order) == FoldLeft(LAMBDA sum, child : sum + limits[child], 0, order)

SumInTurn(turn, limits, order, n) ==
    /\ turn[0] = 0
    /\ \A k \in 1 .. n : turn[k] = turn[k - 1] + limits[order[k]]

LEMMA SumTurns ==
  ASSUME NEW limits, NEW n \in Nat, NEW order, DOMAIN order = 1 .. n
  PROVE  \E turn : SumInTurn(turn, limits, order, n) /\ SumOf(limits, order) = turn[n]
<1> DEFINE Next1(f, s) == IF s = {} THEN 0 ELSE f[s \ {Max(s)}] + limits[order[Max(s)]]
           Is(f, m) == f = [s \in SUBSET (1 .. m) |-> Next1(f, s)]
           Good == {m \in 0 .. n : \E f : Is(f, m)}
<1>1. SumOf(limits, order) = (CHOOSE f : Is(f, n))[1 .. n]
  BY DEF SumOf, FoldLeft, MapThenFoldSet
<1>2. 0 \in Good
  <2>1. SUBSET (1 .. 0) = {{}}
    OBVIOUS
  <2>2. [s \in {{}} |-> 0] = [s \in {{}} |-> Next1([r \in {{}} |-> 0], s)]
    OBVIOUS
  <2>3. Is([s \in {{}} |-> 0], 0)
    BY <2>1, <2>2
  <2> HIDE DEF Is
  <2> QED BY <2>3
<1>3. ASSUME NEW m \in 1 .. n, m - 1 \in Good PROVE m \in Good
  <2>1. PICK p : Is(p, m - 1)
    BY <1>3
  <2> DEFINE q == [s \in SUBSET (1 .. m) |->
                      IF m \in s THEN p[s \ {m}] + limits[order[m]] ELSE p[s]]
  <2>2. ASSUME NEW s \in SUBSET (1 .. m) PROVE q[s] = Next1(q, s)
    <3>1. CASE m \in s
      <4>1. Max(s) = m /\ s \ {m} \in SUBSET (1 .. m) /\ m \notin s \ {m}
        BY <3>1, LastPosition
      <4>2. q[s \ {m}] = p[s \ {m}]
        BY <4>1
      <4> QED BY <3>1, <4>1, <4>2
    <3>2. CASE m \notin s
      <4>1. s \in SUBSET (1 .. m - 1)
        BY <3>2, LastPosition
      <4>2. ASSUME NEW x PROVE q[s \ {x}] = p[s \ {x}]
        <5>1. s \ {x} \in SUBSET (1 .. m) /\ m \notin s \ {x}
          BY <3>2
        <5> QED BY <5>1
      <4>3. p[s] = Next1(p, s) /\ q[s] = p[s]
        BY <2>1, <3>2, <4>1
      <4> QED BY <4>2, <4>3
    <3> QED BY <3>1, <3>2
  <2>3. Is(q, m)
    <3>1. q = [s \in SUBSET (1 .. m) |-> q[s]]
      OBVIOUS
    <3> HIDE DEF Next1, q
    <3> QED BY <2>2, <3>1
  <2> HIDE DEF Is, q
  <2> QED BY <2>3
<1>4. n \in Good
  <2> HIDE DEF Good
  <2> QED BY <1>2, <1>3, CountingUp
<1>5. PICK f : Is(f, n) /\ SumOf(limits, order) = f[1 .. n]
  <2> HIDE DEF Is
  <2> QED BY <1>1, <1>4
<1>6. f[{}] = 0
  <2>1. f[{}] = Next1(f, {})
    BY <1>5
  <2> QED BY <2>1
<1>7. ASSUME NEW k \in 1 .. n PROVE f[1 .. k] = f[1 .. k - 1] + limits[order[k]]
  <2>1. 1 .. k \in SUBSET (1 .. n)
    OBVIOUS
  <2>2. f[1 .. k] = Next1(f, 1 .. k)
    BY <1>5, <2>1
  <2>3. 1 .. k # {} /\ Max(1 .. k) = k /\ (1 .. k) \ {k} = 1 .. k - 1
    <3>1. k \in Nat \ {0}
      OBVIOUS
    <3> QED BY <3>1, UpToLast, Zenon
  <2>4. (1 .. k) \ {Max(1 .. k)} = 1 .. k - 1
    BY <2>3
  <2>5. f[1 .. k] = f[(1 .. k) \ {Max(1 .. k)}] + limits[order[Max(1 .. k)]]
    BY <2>2, <2>3
  <2> HIDE DEF Next1, Is
  <2> QED BY <2>3, <2>4, <2>5
<1> DEFINE turn == [k \in 0 .. n |-> f[1 .. k]]
<1>8. turn[0] = 0 /\ SumOf(limits, order) = turn[n]
  <2>1. turn[0] = f[{}] /\ turn[n] = f[1 .. n]
    <3>1. 1 .. 0 = {}
      OBVIOUS
    <3>2. turn[0] = f[1 .. 0] /\ turn[n] = f[1 .. n]
      OBVIOUS
    <3> HIDE DEF turn
    <3> QED BY <3>1, <3>2
  <2> QED BY <1>5, <1>6, <2>1
<1>9. \A k \in 1 .. n : turn[k] = turn[k - 1] + limits[order[k]]
  BY <1>7
<1> HIDE DEF turn
<1> QED BY <1>8, <1>9 DEF SumInTurn

LEMMA SumIsNatural ==
  ASSUME NEW limits, NEW n \in Nat, NEW order, DOMAIN order = 1 .. n,
         \A k \in 1 .. n : limits[order[k]] \in Nat
  PROVE  SumOf(limits, order) \in Nat
<1>1. PICK turn : SumInTurn(turn, limits, order, n) /\ SumOf(limits, order) = turn[n]
  BY SumTurns
<1> DEFINE S == {k \in 0 .. n : turn[k] \in Nat}
<1>2. 0 \in S
  BY <1>1 DEF SumInTurn
<1>3. ASSUME NEW k \in 1 .. n, k - 1 \in S PROVE k \in S
  <2>1. turn[k - 1] \in Nat /\ turn[k] = turn[k - 1] + limits[order[k]] /\ limits[order[k]] \in Nat
    BY <1>1, <1>3 DEF SumInTurn
  <2> QED BY <2>1
<1>4. n \in S
  <2> HIDE DEF S
  <2>1. \A k \in 1 .. n : k - 1 \in S => k \in S
    BY <1>3
  <2>2. \A k \in 0 .. n : k \in S
    BY <1>2, <2>1, CountingUp
  <2>3. n \in 0 .. n
    OBVIOUS
  <2> QED BY <2>2, <2>3
<1> QED BY <1>1, <1>4

(* The bound of a leaf, and of other clusters. *)
LEMMA BoundIs ==
  ASSUME NEW t, NEW c, NEW limits, NEW profits
  PROVE  ProfitUpperBound(t, c, limits, profits) =
            IF IsLeafCluster(t, c) THEN Cardinality(GuestsOfNodes(t, NodesOf(t, c)) \cap profits)
            ELSE SumOf(limits, t.clusters[c].children)
BY Zenon DEF ProfitUpperBound, SumOf

LEMMA BoundIsNatural ==
  ASSUME NEW t, WellMade(t), GuestsNumbered(t), NEW c \in DOMAIN t.clusters, NEW limits, NEW profits,
         \A d \in ChildrenOf(t, c) : limits[d] \in Nat
  PROVE  ProfitUpperBound(t, c, limits, profits) \in Nat
<1>1. CASE IsLeafCluster(t, c)
  <2>1. PICK guests : guests = GuestsOfNodes(t, NodesOf(t, c))
    OBVIOUS
  <2>2. guests \subseteq 1 .. Len(t.leaves)
    BY <2>1, NodesOfIn, GuestsOfNodesIn
  <2>3. Len(t.leaves) \in Nat
    BY LenProperties DEF WellMade, LeavesMade
  <2>4. IsFiniteSet(guests \cap profits)
    <3>1. IsFiniteSet(1 .. Len(t.leaves)) /\ guests \cap profits \subseteq 1 .. Len(t.leaves)
      BY <2>2, <2>3, UpTo
    <3> QED BY <3>1, FS_Subset
  <2>5. Cardinality(guests \cap profits) \in Nat
    BY <2>4, FS_CardinalityType
  <2> QED BY <1>1, <2>1, <2>5, BoundIs
<1>2. CASE ~IsLeafCluster(t, c)
  <2>1. PICK order : order = t.clusters[c].children
    OBVIOUS
  <2>2. order \in Seq(Nat)
    BY <2>1, MadeHas
  <2>3. PICK n : n = Len(order)
    OBVIOUS
  <2>4. n \in Nat /\ DOMAIN order = 1 .. n
    BY <2>2, <2>3, LenProperties
  <2>5. \A k \in 1 .. n : limits[order[k]] \in Nat
    BY <2>1, <2>3 DEF ChildrenOf, ToSet
  <2>6. SumOf(limits, order) \in Nat
    BY <2>4, <2>5, SumIsNatural
  <2> QED BY <1>2, <2>1, <2>6, BoundIs
<1> QED BY <1>1, <1>2

(* A visit, on values. *)
VisitedTo(t, queue, counts, limits, made, profits, cid, rest, left, children, limits2, made2) ==
    /\ left = CountsAfter(counts, t.clusters[cid].parent)
    /\ rest = RestAfter(queue, t.clusters[cid].parent, left)
    /\ children = t.clusters[cid].children
    /\ limits2 = WithEntry(limits, cid, ProfitUpperBound(t, cid, limits, profits))
    /\ made2 = WithEntry(made, cid, SelectionCosts(t, cid, ProfitUpperBound(t, cid, limits, profits), profits))

LEMMA VisitDoes ==
  ASSUME VisitCluster
  PROVE  /\ VisitedTo(tree, frontier, unvisited, bounds, costs, Profits, visited',
                      frontier', unvisited', below', bounds', costs')
         /\ visited' = Head(frontier)
BY Zenon DEF VisitCluster, VisitedTo, CountsAfter, RestAfter

(* A map with one more entry. *)
HasOneMore(f, x, y, g) ==
    DOMAIN g = DOMAIN f \cup {x} /\ g[x] = y /\ \A z \in DOMAIN f : z # x => g[z] = f[z]

LEMMA OneMore ==
  ASSUME NEW f, NEW x, NEW y, NEW g, g = WithEntry(f, x, y)
  PROVE  HasOneMore(f, x, y, g)
BY DEF WithEntry, HasOneMore

VisitMade(t, limits, made, profits, cid, rest, left, children, limits2, made2) ==
    /\ cid \in DOMAIN t.clusters \ DOMAIN limits
    /\ children \in Seq(DOMAIN t.clusters) /\ ToSet(children) = ChildrenOf(t, cid)
    /\ ChildrenOf(t, cid) \subseteq DOMAIN limits
    /\ DOMAIN limits2 = DOMAIN limits \cup {cid} /\ DOMAIN made2 = DOMAIN limits2
    /\ limits2[cid] = ProfitUpperBound(t, cid, limits, profits)
    /\ made2[cid] = SelectionCosts(t, cid, limits2[cid], profits)
    /\ \A c \in DOMAIN limits : limits2[c] = limits[c] /\ made2[c] = made[c]
    /\ Queued(t, rest, left, DOMAIN limits2)
    /\ \A c \in DOMAIN limits2 : TableAt(t, made2, limits2, Len(t.leaves), profits, c)

LEMMA VisitMakes ==
  ASSUME NEW t, WellMade(t), GuestsNumbered(t), ClusterCount(t) < SizeRange,
         NEW queue, NEW counts, NEW limits, NEW made, NEW profits, NEW cid, NEW rest, NEW left,
         NEW children, NEW limits2, NEW made2, queue # <<>>, cid = Head(queue),
         VisitedTo(t, queue, counts, limits, made, profits, cid, rest, left, children, limits2, made2),
         Queued(t, queue, counts, DOMAIN limits), DOMAIN made = DOMAIN limits,
         \A c \in DOMAIN limits : TableAt(t, made, limits, Len(t.leaves), profits, c)
  PROVE  VisitMade(t, limits, made, profits, cid, rest, left, children, limits2, made2)
<1>1. PICK parent, B : parent = t.clusters[cid].parent /\ B = DOMAIN limits
  OBVIOUS
<1>2. /\ left = CountsAfter(counts, parent) /\ rest = RestAfter(queue, parent, left)
      /\ Queued(t, queue, counts, B) /\ parent = t.clusters[cid].parent
  BY <1>1 DEF VisitedTo
<1>3. /\ Queued(t, rest, left, B \cup {cid})
      /\ cid \in DOMAIN t.clusters /\ cid \notin B /\ ChildrenOf(t, cid) \subseteq B
  <2>1. QueuesOn(t, B, cid, rest, left)
    BY <1>2, QueuedAfterVisit
  <2> QED BY <2>1 DEF QueuesOn
<1>4. PICK bound : bound = ProfitUpperBound(t, cid, limits, profits)
  OBVIOUS
<1>5. PICK entries : entries = SelectionCosts(t, cid, bound, profits)
  OBVIOUS
<1>6. limits2 = WithEntry(limits, cid, bound) /\ made2 = WithEntry(made, cid, entries)
  BY <1>4, <1>5 DEF VisitedTo
<1>7. DOMAIN limits2 = B \cup {cid} /\ limits2[cid] = bound /\ \A z \in B : z # cid => limits2[z] = limits[z]
  <2>1. HasOneMore(limits, cid, bound, limits2)
    BY <1>6, OneMore
  <2> QED BY <1>1, <2>1 DEF HasOneMore
<1>8. DOMAIN made2 = B \cup {cid} /\ made2[cid] = entries /\ \A z \in B : z # cid => made2[z] = made[z]
  <2>1. HasOneMore(made, cid, entries, made2)
    BY <1>6, OneMore
  <2> QED BY <1>1, <2>1 DEF HasOneMore
<1>9. bound \in Nat
  <2>1. \A d \in ChildrenOf(t, cid) : limits[d] \in Nat
    BY <1>1, <1>3 DEF TableAt
  <2> QED BY <1>3, <1>4, <2>1, BoundIsNatural
<1>10. entries \in EntriesOver(t, cid, bound, Len(t.leaves)) /\ Rewarding(entries, profits)
  BY <1>3, <1>5, <1>9, SelectionMade
<1>11. TableAt(t, made2, limits2, Len(t.leaves), profits, cid)
  BY <1>7, <1>8, <1>9, <1>10 DEF TableAt
<1>12. ASSUME NEW c \in B
       PROVE  /\ limits2[c] = limits[c] /\ made2[c] = made[c]
              /\ TableAt(t, made2, limits2, Len(t.leaves), profits, c)
  <2>1. limits2[c] = limits[c] /\ made2[c] = made[c]
    BY <1>3, <1>7, <1>8
  <2>2. TableAt(t, made, limits, Len(t.leaves), profits, c)
    BY <1>1
  <2> QED BY <2>1, <2>2 DEF TableAt
<1>13. children \in Seq(DOMAIN t.clusters) /\ ToSet(children) = ChildrenOf(t, cid)
  <2>1. children = t.clusters[cid].children
    BY DEF VisitedTo
  <2>2. children \in Seq(Nat) /\ ToSet(children) = ChildrenOf(t, cid)
    BY <1>3, <2>1, MadeHas DEF ChildrenOf
  <2>3. ChildrenOf(t, cid) \subseteq DOMAIN t.clusters
    BY <1>3, ChildrenHave
  <2>4. PICK C : C = DOMAIN t.clusters
    OBVIOUS
  <2>5. \A k \in 1 .. Len(children) : children[k] \in C
    BY <2>2, <2>3, <2>4, LenProperties DEF ToSet
  <2>6. children \in Seq(C)
    <3>1. children \in Seq(Nat)
      BY <2>2
    <3> QED BY <2>5, <3>1
  <2> QED BY <2>2, <2>4, <2>6
<1>14. \A c \in DOMAIN limits2 : TableAt(t, made2, limits2, Len(t.leaves), profits, c)
  BY <1>7, <1>11, <1>12
<1>15. made2[cid] = SelectionCosts(t, cid, limits2[cid], profits)
  BY <1>5, <1>7, <1>8
<1> QED BY <1>1, <1>3, <1>4, <1>7, <1>8, <1>12, <1>13, <1>14, <1>15 DEF VisitMade

(* The use of a child, on values. *)
UsedTo(t, limits, made, parent, child, made2) ==
    made2 = [made EXCEPT ![parent] = WithChild(t, made, limits, @, child)]

LEMMA UseDoes == ASSUME UseChild PROVE UsedTo(tree, bounds, costs, visited, Head(below), costs')
BY Zenon DEF UseChild, UsedTo

UseMade(t, limits, made, profits, parent, child, made2, n) ==
    /\ DOMAIN made2 = DOMAIN limits
    /\ \A c \in DOMAIN limits : c # parent => made2[c] = made[c]
    /\ \A key \in DOMAIN made[parent] :
          CheapestJoint(t, made, limits, made[parent], child, key, made2[parent][key])
    /\ \A c \in DOMAIN limits : TableAt(t, made2, limits, n, profits, c)

LEMMA UseMakes ==
  ASSUME NEW t, WellMade(t), NEW limits, NEW made, NEW profits, NEW parent, NEW child, NEW made2, NEW n,
         UsedTo(t, limits, made, parent, child, made2),
         DOMAIN made = DOMAIN limits, DOMAIN limits \subseteq DOMAIN t.clusters,
         parent \in DOMAIN limits, child \in DOMAIN limits,
         \A c \in DOMAIN limits : TableAt(t, made, limits, n, profits, c)
  PROVE  UseMade(t, limits, made, profits, parent, child, made2, n)
<1>1. PICK old : old = made[parent]
  OBVIOUS
<1>9. PICK new : new = WithChild(t, made, limits, old, child)
  OBVIOUS
<1>2. DOMAIN made2 = DOMAIN limits /\ made2[parent] = new /\ \A c \in DOMAIN limits : c # parent => made2[c] = made[c]
  BY <1>1, <1>9 DEF UsedTo
<1>3. PICK bound : bound = limits[parent]
  OBVIOUS
<1>4. bound \in Nat /\ old \in EntriesOver(t, parent, bound, n) /\ Rewarding(old, profits)
  BY <1>1, <1>3 DEF TableAt
<1>5. limits[child] \in Nat /\ made[child] \in EntriesOver(t, child, limits[child], n)
      /\ Rewarding(made[child], profits)
  BY DEF TableAt
<1>6. t.clusters[child].nodes \in Seq(Nat)
  BY NodesOfIn
<1>7. /\ new \in EntriesOver(t, parent, bound, n) /\ Rewarding(new, profits)
      /\ \A key \in DOMAIN old : CheapestJoint(t, made, limits, old, child, key, new[key])
  <2>1. ChildUsed(t, parent, child, made, limits, bound, n, profits, old, new)
    BY <1>4, <1>5, <1>6, <1>9, WithChildMade
  <2> QED BY <2>1 DEF ChildUsed
<1>8. ASSUME NEW c \in DOMAIN limits PROVE TableAt(t, made2, limits, n, profits, c)
  <2>1. CASE c = parent
    BY <1>2, <1>3, <1>4, <1>7, <2>1 DEF TableAt
  <2>2. CASE c # parent
    <3>1. TableAt(t, made, limits, n, profits, c) /\ made2[c] = made[c]
      BY <1>2, <2>2
    <3> QED BY <3>1 DEF TableAt
  <2> QED BY <2>1, <2>2
<1> QED BY <1>1, <1>2, <1>7, <1>8 DEF UseMade

LEMMA HeadTailOf ==
  ASSUME NEW S, NEW s \in Seq(S), s # <<>>
  PROVE  /\ Head(s) \in ToSet(s) /\ Tail(s) \in Seq(S)
         /\ ToSet(Tail(s)) \subseteq ToSet(s) /\ ToSet(s) = {Head(s)} \cup ToSet(Tail(s))
<1>1. Len(s) \in Nat \ {0} /\ DOMAIN s = 1 .. Len(s)
  BY LenProperties, EmptySeq
<1>2. Head(s) = s[1] /\ 1 \in DOMAIN s
  BY <1>1
<1>3. Tail(s) \in Seq(S) /\ Len(Tail(s)) = Len(s) - 1 /\ \A k \in 1 .. Len(s) - 1 : Tail(s)[k] = s[k + 1]
  BY <1>1, HeadTailProperties
<1>4. DOMAIN Tail(s) = 1 .. Len(s) - 1
  BY <1>3, LenProperties
<1>5. ASSUME NEW k \in DOMAIN Tail(s) PROVE Tail(s)[k] \in ToSet(s)
  <2>1. k + 1 \in DOMAIN s /\ Tail(s)[k] = s[k + 1]
    BY <1>1, <1>3, <1>4, <1>5
  <2> QED BY <2>1 DEF ToSet
<1>6. ASSUME NEW k \in DOMAIN s, k # 1 PROVE s[k] \in ToSet(Tail(s))
  <2>1. k - 1 \in DOMAIN Tail(s) /\ Tail(s)[k - 1] = s[k]
    BY <1>1, <1>3, <1>4, <1>6
  <2> QED BY <2>1 DEF ToSet
<1> QED BY <1>2, <1>3, <1>5, <1>6 DEF ToSet

(* Where a table is made, and of what. *)
TableThere ==
    /\ TableTyped /\ TableMade /\ WellMade(tree) /\ ClusterCount(tree) < SizeRange
    /\ phase = "tabulating" =>
          solver = "cluster_tree" /\ GuestsNumbered(tree) /\ Len(tree.leaves) = Len(instance)

LEMMA TableIsThere == ASSUME MaxInv PROVE TableThere
<1>1. TableTyped /\ TableMade /\ WellMade(tree) /\ ClusterCount(tree) <= MaxClusters
  BY DEF MaxInv, TreeBuilt
<1>2. MaxClusters \in Nat /\ SizeRange \in Nat /\ MaxClusters < SizeRange
  BY MaximisersAssumption, SizeRangeIs
<1>3. ClusterCount(tree) \in Nat
  BY <1>1, CountedHas DEF WellMade, ClusterCount
<1>4. phase = "tabulating" => solver = "cluster_tree"
  BY MaximisersAssumption DEF MaxInv, CallMade
<1>5. phase = "tabulating" => GuestsNumbered(tree) /\ LeavesHavePages(tree, instance)
  BY <1>4 DEF MaxInv, TreeBuilt
<1> QED BY <1>1, <1>2, <1>3, <1>4, <1>5 DEF TableThere, LeavesHavePages

LEMMA VisitKeeps ==
  ASSUME MaxInv, VisitCluster
  PROVE  /\ VisitMade(tree, bounds, costs, Profits, visited', frontier', unvisited', below', bounds', costs')
         /\ visited' \notin DOMAIN bounds /\ ToSet(below') \subseteq DOMAIN bounds
<1>1. phase = "tabulating" /\ frontier # <<>>
  BY VisitLeaves
<1>2. /\ VisitedTo(tree, frontier, unvisited, bounds, costs, Profits, visited',
                   frontier', unvisited', below', bounds', costs')
      /\ visited' = Head(frontier)
  BY VisitDoes
<1>3. /\ TableTyped /\ TableMade /\ WellMade(tree) /\ ClusterCount(tree) < SizeRange
      /\ GuestsNumbered(tree) /\ Len(tree.leaves) = Len(instance)
  BY <1>1, TableIsThere DEF TableThere
<1>4. /\ Queued(tree, frontier, unvisited, DOMAIN bounds) /\ DOMAIN costs = DOMAIN bounds
      /\ \A c \in DOMAIN bounds : TableAt(tree, costs, bounds, Len(tree.leaves), Profits, c)
  BY <1>1, <1>3 DEF TableTyped, TableMade
<1>5. VisitMade(tree, bounds, costs, Profits, visited', frontier', unvisited', below', bounds', costs')
  BY <1>1, <1>2, <1>3, <1>4, VisitMakes
<1> QED BY <1>5 DEF VisitMade

LEMMA TableKept ==
  ASSUME MaxInv, [Next]_vars
  PROVE  TableTyped' /\ TableMade'
<1>1. /\ TableTyped /\ TableMade /\ WellMade(tree) /\ ClusterCount(tree) < SizeRange
      /\ (phase = "tabulating" => GuestsNumbered(tree) /\ Len(tree.leaves) = Len(instance))
  BY TableIsThere DEF TableThere
<1>2. CASE UNCHANGED vars
  BY <1>1, <1>2 DEF vars, call, input, search, table, TableTyped, TableMade, Profits
<1>3. CASE Parse
  <2>1. UNCHANGED table /\ phase = "building" /\ phase' \in {"building", "choosing"}
    BY <1>3, ParseLeaves
  <2>2. DOMAIN tree.clusters \subseteq DOMAIN tree'.clusters
    BY TreeKept
  <2>3. PICK C, D : C = DOMAIN tree.clusters /\ D = DOMAIN tree'.clusters
    OBVIOUS
  <2>4. C \subseteq D /\ frontier \in Seq(C) /\ below \in Seq(C)
    BY <1>1, <2>2, <2>3 DEF TableTyped
  <2>5. frontier \in Seq(D) /\ below \in Seq(D)
    BY <2>4
  <2> QED BY <1>1, <2>1, <2>2, <2>3, <2>5 DEF table, TableTyped, TableMade
<1>4. ASSUME UNCHANGED table, UNCHANGED input, phase # "tabulating", phase' # "tabulating"
      PROVE  TableTyped' /\ TableMade'
  BY <1>1, <1>4 DEF table, input, TableTyped, TableMade
<1>5. CASE MaximiseUnlimited \/ MaximiseMiddle
  BY <1>4, <1>5 DEF MaximiseUnlimited, MaximiseMiddle, Maximise
<1>6. CASE ReturnUnlimited \/ Narrow \/ ReturnBest \/ Throw
  BY <1>4, <1>6 DEF ReturnUnlimited, Narrow, ReturnBest, Throw
<1>7. CASE FillBySubsets \/ StopAtEmptyHost \/ EndSearch
  BY <1>4, <1>7 DEF FillBySubsets, StopAtEmptyHost, EndSearch
<1>8. CASE KeepHost \/ PlaceSubset \/ EndFilling
  BY <1>4, <1>8 DEF KeepHost, PlaceSubset, EndFilling
<1>9. CASE FillByTable
  <2>1. PICK n : n = ClusterCount(tree)
    OBVIOUS
  <2>2. /\ frontier' = FirstQueue(tree, n) /\ unvisited' = FirstCounts(tree)
        /\ bounds' = <<>> /\ costs' = <<>> /\ UNCHANGED <<visited, below, tree>>
        /\ phase # "tabulating" /\ phase' = "tabulating"
    BY <1>9, <2>1 DEF FillByTable, FirstQueue, FirstCounts, input
  <2>3. Queued(tree, frontier', unvisited', {})
    BY <1>1, <2>1, <2>2, QueuedAtFirst
  <2>4. DOMAIN <<>> = {}
    OBVIOUS
  <2>5. below = <<>>
    BY <1>1, <2>2 DEF TableMade
  <2>6. TableTyped'
    BY <1>1, <2>2, <2>3, <2>4 DEF TableTyped, Queued
  <2> QED BY <2>2, <2>3, <2>4, <2>5, <2>6 DEF TableMade
<1>10. CASE VisitCluster
  <2>1. UNCHANGED <<input, phase, search>> /\ phase = "tabulating" /\ frontier # <<>> /\ below = <<>>
    BY <1>10, VisitLeaves
  <2>2. tree' = tree /\ instance' = instance /\ Profits' = Profits
    BY <2>1 DEF input, search, Profits
  <2>6. VisitMade(tree, bounds, costs, Profits, visited', frontier', unvisited', below', bounds', costs')
    BY <1>10, VisitKeeps
  <2>7. /\ visited' \in DOMAIN tree.clusters \ DOMAIN bounds
        /\ below' \in Seq(DOMAIN tree.clusters) /\ ToSet(below') = ChildrenOf(tree, visited')
        /\ ChildrenOf(tree, visited') \subseteq DOMAIN bounds
        /\ DOMAIN bounds' = DOMAIN bounds \cup {visited'} /\ DOMAIN costs' = DOMAIN bounds'
        /\ Queued(tree, frontier', unvisited', DOMAIN bounds')
        /\ \A c \in DOMAIN bounds' : TableAt(tree, costs', bounds', Len(tree.leaves), Profits, c)
    BY <2>6 DEF VisitMade
  <2>8. TableTyped'
    BY <1>1, <2>2, <2>7 DEF TableTyped, Queued
  <2>9. Len(tree.leaves) = Len(instance)
    BY <1>1, <2>1
  <2> QED BY <2>1, <2>2, <2>7, <2>8, <2>9 DEF TableMade
<1>11. CASE UseChild
  <2>1. UNCHANGED <<input, phase, search, frontier, unvisited, visited, bounds>>
        /\ phase = "tabulating" /\ below # <<>> /\ below' = Tail(below)
    BY <1>11, UseLeaves
  <2>2. tree' = tree /\ instance' = instance /\ Profits' = Profits
    BY <2>1 DEF input, search, Profits
  <2>3. PICK child : child = Head(below)
    OBVIOUS
  <2>4. UsedTo(tree, bounds, costs, visited, child, costs')
    BY <1>11, <2>3, UseDoes
  <2>5. /\ DOMAIN costs = DOMAIN bounds /\ DOMAIN bounds \subseteq DOMAIN tree.clusters
        /\ visited \in DOMAIN bounds /\ ToSet(below) \subseteq DOMAIN bounds
        /\ \A c \in DOMAIN bounds : TableAt(tree, costs, bounds, Len(instance), Profits, c)
    BY <1>1, <2>1 DEF TableTyped, TableMade
  <2>6. /\ child \in ToSet(below) /\ Tail(below) \in Seq(DOMAIN tree.clusters)
        /\ ToSet(Tail(below)) \subseteq ToSet(below)
    BY <1>1, <2>1, <2>3, HeadTailOf DEF TableTyped
  <2>7. UseMade(tree, bounds, costs, Profits, visited, child, costs', Len(instance))
    BY <1>1, <2>4, <2>5, <2>6, UseMakes
  <2>8. /\ DOMAIN costs' = DOMAIN bounds
        /\ \A c \in DOMAIN bounds : TableAt(tree, costs', bounds, Len(instance), Profits, c)
    BY <2>7 DEF UseMade
  <2>9. TableTyped'
    BY <1>1, <2>1, <2>2, <2>6, <2>8 DEF TableTyped
  <2> QED BY <1>1, <2>1, <2>2, <2>5, <2>6, <2>8, <2>9 DEF TableMade
<1>12. CASE EndTable
  <2>1. /\ visited' = RootCluster /\ bounds' = <<>> /\ costs' = <<>> /\ phase' = "filled"
        /\ UNCHANGED <<frontier, below, tree>> /\ below = <<>>
    BY <1>12 DEF EndTable, input
  <2>2. RootCluster \in DOMAIN tree.clusters
    BY <1>1 DEF WellMade
  <2> QED BY <1>1, <2>1, <2>2 DEF TableTyped, TableMade
<1>13. CASE TakeMostProfitable \/ TakeNone
  BY <1>12, <1>13 DEF TakeMostProfitable, TakeNone
<1> QED BY <1>2, <1>3, <1>5, <1>6, <1>7, <1>8, <1>9, <1>10, <1>11, <1>13 DEF Next, Solve

-----------------------------------------------------------------------------
LEMMA MaxInvInductive == Spec => []MaxInv
<1>1. Init => MaxInv
  <2> SUFFICES ASSUME Init PROVE MaxInv
    OBVIOUS
  <2>1. IsInstance(instance) /\ (solver = "cluster_tree" => instance = <<>>)
    <3>1. CASE \E n \in 0 .. MaxGuests : \E pages \in [1 .. n -> PageSet] : instance = InstanceOf(pages)
      <4>1. IsInstance(instance)
        BY <3>1, InstanceOfIsInstance
      <4> QED BY <4>1 DEF Init
    <3>2. CASE instance = <<>>
      <4>1. <<>> \in Seq(Guest) /\ Len(<<>>) = 0 /\ MaxGuests \in Nat
        BY HostAssumption
      <4>2. 1 .. 0 = {}
        OBVIOUS
      <4> QED BY <3>2, <4>1, <4>2 DEF IsInstance
    <3> QED BY <3>1, <3>2 DEF Init
  <2>2. /\ subsetSize \in 1 .. MaxSubsetSize /\ unlimited \in BOOLEAN
        /\ (solver = "cluster_tree" => unlimited /\ phase = "building")
        /\ (solver = "subset_efficiency" => phase = "choosing")
        /\ phase \in {"building", "choosing"}
    <3>1. MaxSubsetSize \in Nat \ {0}
      BY MaximisersAssumption
    <3>2. 1 \in 1 .. MaxSubsetSize
      BY <3>1
    <3> QED BY <3>2 DEF Init
  <2>3. CallMade
    BY <2>2 DEF Init, CallMade, Phase
  <2>4. WellMade(EmptyTree) /\ EmptyTree.leaves = <<>> /\ DOMAIN EmptyTree.clusters = {RootCluster}
    BY EmptyTreeMade DEF EmptyTree
  <2>5. TreeBuilt
    <3>1. tree = EmptyTree /\ current = RootCluster
      BY DEF Init
    <3>2. ClusterCount(tree) <= MaxClusters
      <4>1. Cardinality({RootCluster}) = 1
        BY FS_Singleton
      <4>2. MaxClusters \in Nat \ {0}
        BY MaximisersAssumption
      <4>3. DOMAIN tree.clusters = {RootCluster}
        BY <2>4, <3>1
      <4>4. ClusterCount(tree) = 1
        BY <4>1, <4>3 DEF ClusterCount
      <4> QED BY <4>2, <4>4
    <3>3. solver = "cluster_tree" => LeavesHavePages(tree, instance)
      <4>1. Len(<<>>) = 0 /\ 1 .. 0 = {}
        OBVIOUS
      <4> QED BY <2>1, <2>4, <3>1, <4>1 DEF LeavesHavePages
    <3>4. Inner(tree, current)
      <4>1. ToSet(<<>>) = {}
        BY DEF ToSet
      <4> QED BY <2>4, <3>1, <4>1 DEF Inner
    <3> QED BY <2>1, <2>2, <2>4, <3>1, <3>2, <3>3, <3>4, MaximisersAssumption DEF TreeBuilt, Init
  <2>6. SearchTyped
    <3>1. <<>> \in Seq(HostSet)
      BY EmptySeq
    <3>2. Len(instance) \in 0 .. MaxGuests /\ MaxGuests \in Nat
      BY <2>1, LenProperties, HostAssumption DEF IsInstance
    <3>3. Cardinality({}) = 0
      BY FS_EmptySet
    <3> QED BY <2>2, <3>1, <3>2, <3>3 DEF Init, SearchTyped, AtAttempt, Unlimited
  <2>7. HostFilling
    <3>1. IsHost(EmptyHost) /\ FrequenciesMatch(EmptyHost) /\ EmptyHost.guests = {}
      BY EmptyHostMatches DEF EmptyHost
    <3>2. 0 \in 0 .. MaxSubsetSize
      BY MaximisersAssumption
    <3> QED BY <3>1, <3>2 DEF Init, HostFilling
  <2>8. TableTyped /\ TableMade
    <3>1. <<>> \in Seq({RootCluster}) /\ DOMAIN <<>> = {}
      BY EmptySeq
    <3> QED BY <2>2, <2>4, <3>1 DEF Init, TableTyped, TableMade
  <2> QED BY <2>3, <2>5, <2>6, <2>7, <2>8 DEF MaxInv
<1>2. MaxInv /\ [Next]_vars => MaxInv'
  BY CallKept, TreeKept, SearchKept, HostKept, TableKept DEF MaxInv
<1> QED BY <1>1, <1>2, PTL DEF Spec

(* The tree stays a tree of clusters at every call of its builder; the     *)
(* range, the attempt, the host and the queues stay within their bounds;   *)
(* and no cluster has entries without a bound.                             *)
THEOREM TypeCorrect == Spec => []TypeOK
<1>1. MaxInv => TypeOK
  <2> SUFFICES ASSUME MaxInv PROVE TypeOK
    OBVIOUS
  <2>1. IsClusterTree(tree) /\ current \in DOMAIN tree.clusters /\ IsInstance(instance)
        /\ (solver = "cluster_tree" => Len(tree.leaves) = Len(instance))
    BY DEF MaxInv, TreeBuilt, WellMade, LeavesHavePages
  <2>2. \A i \in DOMAIN hosts : IsHost(hosts[i])
    <3>1. hosts \in Seq(HostSet)
      BY DEF MaxInv, SearchTyped
    <3>2. \A i \in DOMAIN hosts : hosts[i] \in HostSet
      BY <3>1, LenProperties
    <3> QED BY <3>2, HostSetIsHost
  <2>3. ToSet(frontier) \cup {visited} \cup ToSet(below) \subseteq DOMAIN tree.clusters
    <3>1. frontier \in Seq(DOMAIN tree.clusters) /\ below \in Seq(DOMAIN tree.clusters)
          /\ visited \in DOMAIN tree.clusters
      BY DEF MaxInv, TableTyped
    <3> QED BY <3>1, LenProperties DEF ToSet
  <2>4. IsHost(host) /\ unplaced \subseteq Guests /\ size \in 0 .. MaxSubsetSize
    BY DEF MaxInv, HostFilling
  <2>5. /\ minHosts \in 1 .. MaxGuests + 1 /\ maxHosts \in 0 .. MaxGuests
        /\ Cardinality(best) <= 1 /\ allowed \in 0 .. Unlimited
        /\ profitable \subseteq Guests /\ placed \in Nat
    BY DEF MaxInv, SearchTyped
  <2>6. CallMade /\ DOMAIN costs = DOMAIN bounds /\ DOMAIN bounds \subseteq DOMAIN tree.clusters
    BY DEF MaxInv, TableTyped
  <2> QED BY <2>1, <2>2, <2>3, <2>4, <2>5, <2>6 DEF TypeOK, CallMade
<1> QED BY <1>1, MaxInvInductive, PTL

(* Every loop makes progress: a kept host takes profit, an attempt narrows *)
(* the range, no cluster is visited twice or before its children, and all  *)
(* have been visited when the table is read.                               *)
THEOREM TurnsProgress == Spec => EveryTurnProgresses
<1> DEFINE Progress ==
       /\ hosts # hosts' /\ phase = "filled" => profitable' # profitable
       /\ phase = "maximised" /\ phase' = "choosing" => maxHosts' - minHosts' < maxHosts - minHosts
       /\ bounds' # bounds /\ phase' = "tabulating" /\ bounds' # <<>> =>
             /\ visited' \notin DOMAIN bounds
             /\ ToSet(below') \subseteq DOMAIN bounds
       /\ phase = "tabulating" /\ phase' = "filled" => DOMAIN costs = DOMAIN tree.clusters
<1>1. MaxInv /\ [Next]_vars => [Progress]_vars
  <2> SUFFICES ASSUME MaxInv, Next PROVE Progress
    OBVIOUS
  <2>1. CASE Parse
    BY <2>1, ParseLeaves DEF search, table
  <2>2. CASE MaximiseUnlimited \/ MaximiseMiddle
    BY <2>2 DEF MaximiseUnlimited, MaximiseMiddle, Maximise, table
  <2>3. CASE ReturnUnlimited \/ ReturnBest \/ Throw
    BY <2>3 DEF ReturnUnlimited, ReturnBest, Throw, table
  <2>4. CASE Narrow
    <3>1. /\ minHosts \in Nat /\ maxHosts \in Nat /\ allowed \in Nat
          /\ minHosts <= allowed /\ allowed <= maxHosts
      <4>1. phase = "maximised" /\ ~unlimited
        BY <2>4 DEF Narrow
      <4> QED BY <4>1, HostAssumption DEF MaxInv, SearchTyped, AtAttempt
    <3>2. \/ maxHosts' = allowed - 1 /\ minHosts' = minHosts
          \/ minHosts' = allowed + 1 /\ maxHosts' = maxHosts
      BY <2>4 DEF Narrow
    <3>3. maxHosts' - minHosts' < maxHosts - minHosts
      BY <3>1, <3>2
    <3>4. phase = "maximised" /\ phase' = "choosing"
      BY <2>4 DEF Narrow
    <3> QED BY <3>3, <3>4
  <2>5. CASE FillBySubsets \/ FillByTable \/ StopAtEmptyHost \/ EndSearch
    BY <2>5 DEF FillBySubsets, FillByTable, StopAtEmptyHost, EndSearch, search, table
  <2>6. CASE KeepHost
    <3>1. phase = "filled" /\ phase' = "searching" /\ host.guests # {} /\ profitable' = profitable \ host.guests
      BY <2>6 DEF KeepHost
    <3>2. host.guests \cap profitable # {}
      BY <3>1 DEF MaxInv, HostFilling
    <3>3. profitable' # profitable
      BY <3>1, <3>2
    <3> QED BY <3>1, <3>3
  <2>7. CASE PlaceSubset \/ EndFilling
    BY <2>7 DEF PlaceSubset, EndFilling, table
  <2>8. CASE VisitCluster
    <3>1. phase = "tabulating" /\ phase' = phase
      BY <2>8, VisitLeaves
    <3>2. visited' \notin DOMAIN bounds /\ ToSet(below') \subseteq DOMAIN bounds
      BY <2>8, VisitKeeps
    <3> QED BY <3>1, <3>2
  <2>9. CASE UseChild
    <3>1. phase = "tabulating" /\ phase' = phase /\ bounds' = bounds
      BY <2>9, UseLeaves
    <3> QED BY <3>1
  <2>10. CASE TakeMostProfitable \/ TakeNone
    <3>1. EndTable
      BY <2>10 DEF TakeMostProfitable, TakeNone
    <3>2. phase = "tabulating" /\ frontier = <<>> /\ phase' = "filled"
      BY <3>1 DEF EndTable
    <3>3. Queued(tree, <<>>, unvisited, DOMAIN bounds) /\ WellMade(tree) /\ DOMAIN costs = DOMAIN bounds
      BY <3>2 DEF MaxInv, TableMade, TreeBuilt, TableTyped
    <3>4. DOMAIN bounds = DOMAIN tree.clusters
      BY <3>3, QueuedAtLast
    <3> QED BY <3>2, <3>3, <3>4
  <2> QED BY <2>1, <2>2, <2>3, <2>4, <2>5, <2>6, <2>7, <2>8, <2>9, <2>10 DEF Next, Solve
<1>2. [][Progress]_vars => EveryTurnProgresses
  BY DEF EveryTurnProgresses
<1> HIDE DEF Progress
<1>3. Spec => [][Progress]_vars
  BY <1>1, MaxInvInductive, PTL DEF Spec
<1> QED BY <1>2, <1>3

-----------------------------------------------------------------------------
(* What fills a host fills it well.                                        *)

(* The guests that are not on the host are offered, one at a time at the   *)
(* least; nothing that would not fit is placed.                            *)
FillingWell ==
    /\ phase = "filling" =>
          /\ unplaced = Guests \ host.guests
          /\ size >= 1 /\ (subsetSize = 1 => size = 1)
    /\ phase = "filling" \/ (phase = "filled" /\ solver = "subset_efficiency") =>
          /\ ~IsOverfull(host)
          /\ subsetSize = 1 => host.guests \subseteq profitable
    /\ phase = "filled" /\ solver = "subset_efficiency" =>
          \A g \in profitable \ host.guests : ~AccommodatesGuest(host, g)

(* The nodes of a cluster and those below used children of it; what nodes  *)
(* have together.                                                          *)
Under(t, c, U) ==
    {n \in DOMAIN t.nodes :
        t.nodes[n].cluster = c \/ U \cap ClusterPath(t, t.nodes[n].cluster) # {}}

PagesIn(t, N) == UNION {t.nodes[n].pages : n \in N}

ProfitIn(t, N, profits) == Cardinality(GuestsOfNodes(t, N) \cap profits)

ApartOn(t, N) == \A n, m \in N : n # m => t.nodes[n].pages \cap t.nodes[m].pages = {}

(* A set of nodes an entry may stand for: the selected ones of the cluster *)
(* itself, and others below that have a parent in the set.                 *)
Selects(t, c, U, S, N) ==
    /\ N \subseteq Under(t, c, U)
    /\ N \cap NodesOf(t, c) = S
    /\ \A n \in N \ S : t.nodes[n].parents \cap N # {}

(* Each finite entry has the guests of such a set, none for nothing, and   *)
(* no fewer pages; none has more pages than any such set that counts no    *)
(* page twice.                                                             *)
EntryMeans(t, c, U, key, entry, profits) ==
    \E N \in SUBSET DOMAIN t.nodes :
       /\ Selects(t, c, U, key[1], N)
       /\ Cardinality(PagesIn(t, N)) <= entry.pageCount
       /\ entry.guests = GuestsOfNodes(t, N)
       /\ key[2] <= ProfitIn(t, N, profits)
       /\ key[2] > 0 \/ ~IsLeafCluster(t, c) => entry.guests \subseteq profits

Enough(t, c, U, key, profits, N) ==
    /\ Selects(t, c, U, key[1], N) /\ ApartOn(t, N)
    /\ key[2] <= ProfitIn(t, N, profits)
    /\ Cardinality(PagesIn(t, N)) <= Capacity

EntryBest(t, c, U, key, entry, profits) ==
    \A N \in SUBSET DOMAIN t.nodes :
        Enough(t, c, U, key, profits, N) => entry.pageCount <= Cardinality(PagesIn(t, N))

EntriesWell(t, c, U, entries, profits) ==
    \A key \in DOMAIN entries :
        /\ IsFinite(entries[key]) => EntryMeans(t, c, U, key, entries[key], profits)
        /\ EntryBest(t, c, U, key, entries[key], profits)

(* The children of a cluster that are used for its entries so far. *)
UsedOf(t, parent, rest, c) ==
    IF c = parent THEN ChildrenOf(t, c) \ ToSet(rest) ELSE ChildrenOf(t, c)

LimitAt(t, c, limits, profits) == ProfitIn(t, Under(t, c, ChildrenOf(t, c)), profits) <= limits[c]

TableWellOn(t, limits, made, cid, rest, profits) ==
    /\ NoneTwice(rest) /\ ToSet(rest) \subseteq ChildrenOf(t, cid)
    /\ \A c \in DOMAIN limits : /\ LimitAt(t, c, limits, profits)
                                /\ EntriesWell(t, c, UsedOf(t, cid, rest, c), made[c], profits)

TableWell == phase = "tabulating" => TableWellOn(tree, bounds, costs, visited, below, Profits)

(* No node has a page of one that reaches it. *)
PathsApart(t) ==
    \A n \in DOMAIN t.nodes :
        t.nodes[n].pages \cap UNION {Reach(t, p) : p \in t.nodes[n].parents} = {}

(* A host the table fills, when no guest is reached along two paths.       *)
FilledByTable ==
    phase = "filled" /\ solver = "cluster_tree" /\ SingleParents(tree) =>
        /\ ~IsOverfull(host)
        /\ host.guests \subseteq profitable
        /\ host.guests = {} => profitable \cap Fitting = {}
        /\ PagesApart(tree) =>
              \A S \in SUBSET profitable :
                  FitTogether(S) => Cardinality(S) <= Cardinality(host.guests \cap profitable)

WellInv == FillingWell /\ PathsApart(tree) /\ TableWell /\ FilledByTable

LEMMA EmptyHostFits == ~IsOverfull(EmptyHost)
<1>1. DOMAIN EmptyHost.pageFrequencies = {}
  BY DEF EmptyHost
<1>2. UniquePageCount(EmptyHost) = 0
  BY <1>1, FS_EmptySet DEF UniquePageCount
<1> QED BY <1>2, HostAssumption DEF IsOverfull

LEMMA AddedFits ==
  ASSUME NEW h, IsHost(h), FrequenciesMatch(h), NEW S \in SUBSET Guest, AccommodatesGuests(h, S),
         NEW new, Holds(new, h.guests \cup S)
  PROVE  ~IsOverfull(new)
<1>1. CountPagesWithGuests(h, S) = Cardinality(PagesOf(h.guests \cup S))
  BY CountsOfGuests
<1>2. FrequenciesMatch(new) /\ new.guests = h.guests \cup S
  BY DEF Holds
<1>3. Cardinality(PagesOf(new.guests)) <= Capacity
  BY <1>1, <1>2 DEF AccommodatesGuests
<1>4. Cardinality(PagesOf(new.guests)) \in Nat
  <2>1. new.guests \in SUBSET Guest
    BY <1>2 DEF IsHost
  <2> QED BY <2>1, PagesGrow
<1> QED BY <1>2, <1>3, <1>4, OverfullMeans, HostAssumption

LEMMA FillingKept ==
  ASSUME MaxInv, FillingWell, [Next]_vars
  PROVE  FillingWell'
<1>1. IsInstance(instance) /\ HostFilling /\ profitable \subseteq Guests
  BY DEF MaxInv, TreeBuilt, SearchTyped
<1>2. CASE UNCHANGED vars
  BY <1>2 DEF vars, call, input, search, filling, FillingWell, Guests
<1>3. ASSUME phase' \notin {"filling", "filled"} PROVE FillingWell'
  BY <1>3 DEF FillingWell
<1>4. CASE Parse
  BY <1>3, <1>4, ParseLeaves
<1>5. CASE MaximiseUnlimited \/ MaximiseMiddle
  BY <1>3, <1>5 DEF MaximiseUnlimited, MaximiseMiddle, Maximise
<1>6. CASE ReturnUnlimited \/ Narrow \/ ReturnBest \/ Throw
  BY <1>3, <1>6 DEF ReturnUnlimited, Narrow, ReturnBest, Throw
<1>7. CASE FillByTable \/ KeepHost \/ StopAtEmptyHost \/ EndSearch
  BY <1>3, <1>7 DEF FillByTable, KeepHost, StopAtEmptyHost, EndSearch
<1>8. CASE VisitCluster \/ UseChild
  <2>1. phase' = phase /\ phase = "tabulating"
    BY <1>8, VisitLeaves, UseLeaves
  <2> QED BY <1>3, <2>1
<1>9. CASE TakeMostProfitable \/ TakeNone
  <2>1. phase = "tabulating" /\ phase' = "filled" /\ solver' = solver
    BY <1>9 DEF TakeMostProfitable, TakeNone, EndTable, call
  <2>2. solver # "subset_efficiency"
    BY <2>1 DEF MaxInv, CallMade
  <2> QED BY <2>1, <2>2 DEF FillingWell
<1>10. CASE FillBySubsets
  <2>1. /\ host' = EmptyHost /\ unplaced' = Guests /\ size' = subsetSize /\ phase' = "filling"
        /\ UNCHANGED <<call, input, search>>
    BY <1>10 DEF FillBySubsets
  <2>2. EmptyHost.guests = {} /\ ~IsOverfull(EmptyHost)
    BY EmptyHostFits DEF EmptyHost
  <2>3. subsetSize >= 1 /\ Guests' = Guests /\ subsetSize' = subsetSize
    BY <2>1, MaximisersAssumption DEF MaxInv, CallMade, call, input, Guests
  <2> QED BY <2>1, <2>2, <2>3 DEF FillingWell
<1>11. CASE PlaceSubset
  <2>1. phase = "filling" /\ UNCHANGED <<call, input, phase, search>>
    BY <1>11 DEF PlaceSubset
  <2>2. /\ IsHost(host) /\ FrequenciesMatch(host) /\ unplaced \subseteq Guests
        /\ host.guests \cap unplaced = {} /\ size \in 0 .. MaxSubsetSize /\ host.guests \subseteq Guests
    BY <1>1, <2>1 DEF HostFilling
  <2>3. size' \in 1 .. size
    BY <1>1, <1>11, <2>2, SubsetPlaced
  <2>4. PICK S : /\ S # {} /\ S \subseteq unplaced
                 /\ AccommodatesGuests(host, S)
                 /\ size' = 1 => S \subseteq profitable
                 /\ unplaced' = unplaced \ S
                 /\ Holds(host', host.guests \cup S)
    BY <1>1, <1>11, <2>2, SubsetPlaced
  <2>5. host'.guests = host.guests \cup S
    BY <2>4 DEF Holds
  <2>6. ~IsOverfull(host')
    <3>1. S \in SUBSET Guest
      BY <1>1, <2>2, <2>4, InstanceGuests DEF Guests
    <3> QED BY <2>2, <2>4, <3>1, AddedFits
  <2>7. /\ unplaced = Guests \ host.guests /\ (subsetSize = 1 => size = 1)
        /\ (subsetSize = 1 => host.guests \subseteq profitable)
    BY <2>1 DEF FillingWell
  <2>8. size' >= 1 /\ (subsetSize = 1 => size' = 1)
    BY <2>2, <2>3, <2>7, MaximisersAssumption
  <2>9. Guests' = Guests /\ profitable' = profitable /\ subsetSize' = subsetSize /\ phase' = "filling"
    BY <2>1 DEF call, input, search, Guests
  <2>10. unplaced' = Guests \ host'.guests
    BY <2>4, <2>5, <2>7
  <2>11. subsetSize = 1 => host'.guests \subseteq profitable
    BY <2>4, <2>5, <2>7, <2>8
  <2> QED BY <2>6, <2>8, <2>9, <2>10, <2>11 DEF FillingWell
<1>12. CASE EndFilling
  <2>1. /\ phase = "filling" /\ phase' = "filled" /\ UNCHANGED <<call, input, search, host>>
        /\ unplaced = {} \/ PossibleSizes = {}
    BY <1>12 DEF EndFilling
  <2>2. /\ IsHost(host) /\ FrequenciesMatch(host) /\ unplaced \subseteq Guests /\ size \in 0 .. MaxSubsetSize
    BY <1>1, <2>1 DEF HostFilling
  <2>3. /\ unplaced = Guests \ host.guests /\ size >= 1 /\ ~IsOverfull(host)
        /\ (subsetSize = 1 => host.guests \subseteq profitable)
    BY <2>1 DEF FillingWell
  <2>4. ASSUME NEW g \in profitable \ host.guests PROVE ~AccommodatesGuest(host, g)
    <3>1. g \in unplaced
      BY <1>1, <2>3
    <3>2. 1 \in 1 .. size
      BY <2>2, <2>3, MaximisersAssumption
    <3>3. SubsetOf(1) = {}
      BY <2>1, <3>1, <3>2 DEF PossibleSizes
    <3>4. PICK offered : offered = OfferedOf(instance, unplaced)
      OBVIOUS
    <3>5. FindMostEfficientSubset(offered, profitable, host, 1) = {}
      BY <3>3, <3>4 DEF SubsetOf, OfferedOf
    <3>6. offered \in Seq(Guest) /\ GuestsOf(offered) = unplaced \cap Guests
      BY <1>1, <3>4, UnplacedOffered DEF Guests
    <3>7. g \in GuestsOf(offered) /\ g \in profitable
      BY <2>2, <3>1, <3>6
    <3> QED BY <2>2, <3>5, <3>6, <3>7, NoGuestFits
  <2>5. profitable' = profitable /\ subsetSize' = subsetSize /\ host' = host
    BY <2>1 DEF call, search
  <2> QED BY <2>1, <2>3, <2>4, <2>5 DEF FillingWell
<1> QED BY <1>2, <1>4, <1>5, <1>6, <1>7, <1>8, <1>9, <1>10, <1>11, <1>12 DEF Next, Solve

-----------------------------------------------------------------------------
(* What nodes are under a cluster.                                         *)

Sub(t, c) == Under(t, c, ChildrenOf(t, c))

(* All nodes under a cluster are those of the clusters it is on the path   *)
(* of.                                                                     *)
LEMMA SubIs ==
  ASSUME NEW t, WellMade(t), NEW c \in DOMAIN t.clusters
  PROVE  Sub(t, c) = {n \in DOMAIN t.nodes : c \in ClusterPath(t, t.nodes[n].cluster)}
<1> DEFINE Steps(x) == c \in ClusterPath(t, x) =>
                          x = c \/ ChildrenOf(t, c) \cap ClusterPath(t, x) # {}
           S == {x \in Nat : x \in DOMAIN t.clusters => Steps(x)}
<1>1. ASSUME NEW x \in Nat, \A y \in Nat : y < x => y \in S PROVE x \in S
  <2> SUFFICES ASSUME x \in DOMAIN t.clusters, c \in ClusterPath(t, x), x # c
               PROVE  ChildrenOf(t, c) \cap ClusterPath(t, x) # {}
    OBVIOUS
  <2>1. x # RootCluster
    BY ClusterPathFacts
  <2>2. PICK p : p = t.clusters[x].parent
    OBVIOUS
  <2>3. /\ p \in DOMAIN t.clusters /\ p \in Nat /\ p < x
        /\ ClusterPath(t, x) = {x} \cup ClusterPath(t, p)
    BY <2>1, <2>2, MadeHas, ClusterPathFacts
  <2>4. Steps(p)
    BY <1>1, <2>3
  <2>5. CASE p = c
    <3>1. ChildrenOf(t, c) = {d \in DOMAIN t.clusters \ {RootCluster} : t.clusters[d].parent = c}
      BY ChildrenHave
    <3>2. x \in ChildrenOf(t, c)
      BY <2>1, <2>2, <2>5, <3>1
    <3> QED BY <2>3, <3>2
  <2>6. CASE p # c
    BY <2>3, <2>4, <2>6
  <2> QED BY <2>5, <2>6
<1>2. Nat \subseteq S
  <2> HIDE DEF S
  <2> QED BY <1>1, SmallerFirst
<1>3. ASSUME NEW x \in DOMAIN t.clusters PROVE Steps(x)
  <2>1. x \in Nat
    BY MadeHas
  <2> QED BY <1>2, <2>1
<1>4. ASSUME NEW x \in DOMAIN t.clusters, NEW d \in ChildrenOf(t, c), d \in ClusterPath(t, x)
      PROVE  c \in ClusterPath(t, x)
  <2>1. d \in DOMAIN t.clusters /\ d # RootCluster /\ t.clusters[d].parent = c
    BY ChildrenHave
  <2>2. c \in ClusterPath(t, d)
    BY <2>1, ClusterPathFacts
  <2> QED BY <1>4, <2>2, ClusterPathFacts
<1>5. \A n \in DOMAIN t.nodes : t.nodes[n].cluster \in DOMAIN t.clusters
  BY MadeHas
<1>6. c \in ClusterPath(t, c)
  BY ClusterPathFacts
<1>7. ASSUME NEW n \in DOMAIN t.nodes
      PROVE  n \in Sub(t, c) <=> c \in ClusterPath(t, t.nodes[n].cluster)
  <2>1. PICK x \in DOMAIN t.clusters : x = t.nodes[n].cluster
    BY <1>5
  <2>2. n \in Sub(t, c) <=> x = c \/ ChildrenOf(t, c) \cap ClusterPath(t, x) # {}
    BY <2>1 DEF Sub, Under
  <2>3. x = c \/ ChildrenOf(t, c) \cap ClusterPath(t, x) # {} <=> c \in ClusterPath(t, x)
    BY <1>3, <1>4, <1>6
  <2> QED BY <2>1, <2>2, <2>3
<1>8. Sub(t, c) \subseteq DOMAIN t.nodes
  BY DEF Sub, Under
<1> QED BY <1>7, <1>8

(* What is under a cluster when one more child is used.                    *)
UnderMore(t, c, U, d) ==
    /\ Under(t, c, U \cup {d}) = Under(t, c, U) \cup Sub(t, d)
    /\ Under(t, c, U) \cap Sub(t, d) = {}
    /\ NodesOf(t, c) \subseteq Under(t, c, U) /\ NodesOf(t, d) \subseteq Sub(t, d)
    /\ NodesOf(t, c) \cap Sub(t, d) = {}
    /\ \A n \in Under(t, c, U) \ NodesOf(t, c) : t.nodes[n].parents \subseteq Under(t, c, U)
    /\ \A n \in Sub(t, d) \ NodesOf(t, d) : t.nodes[n].parents \subseteq Sub(t, d)
    /\ \A n \in NodesOf(t, d) : t.nodes[n].parents \subseteq NodesOf(t, c)

LEMMA UnderHas ==
  ASSUME NEW t, WellMade(t), NEW c \in DOMAIN t.clusters
  PROVE  /\ Under(t, c, {}) = NodesOf(t, c)
         /\ \A U : NodesOf(t, c) \subseteq Under(t, c, U) /\ Under(t, c, U) \subseteq DOMAIN t.nodes
<1>1. NodesOf(t, c) = {n \in DOMAIN t.nodes : t.nodes[n].cluster = c}
  BY MadeHas
<1> QED BY <1>1 DEF Under

(* The parents of a node are in the cluster above. *)
LEMMA ParentsAbove ==
  ASSUME NEW t, WellMade(t), NEW n \in DOMAIN t.nodes, NEW p \in t.nodes[n].parents
  PROVE  /\ p \in DOMAIN t.nodes
         /\ t.nodes[n].cluster # RootCluster
         /\ t.nodes[p].cluster = t.clusters[t.nodes[n].cluster].parent
<1>1. p \in DOMAIN t.nodes /\ t.nodes[n].parents # {}
  BY MadeHas
<1> QED BY <1>1, MadeHas DEF WellMade, IsClusterTree

LEMMA UnderOneMore ==
  ASSUME NEW t, WellMade(t), NEW c \in DOMAIN t.clusters, NEW U \in SUBSET ChildrenOf(t, c),
         NEW d \in ChildrenOf(t, c), d \notin U
  PROVE  UnderMore(t, c, U, d)
<1>1. d \in DOMAIN t.clusters /\ d # RootCluster /\ t.clusters[d].parent = c /\ d # c
  <2>1. d \in DOMAIN t.clusters /\ d # RootCluster /\ t.clusters[d].parent = c
    BY ChildrenHave
  <2>2. t.clusters[d].parent < d /\ c \in Nat
    BY <2>1, MadeHas
  <2> QED BY <2>1, <2>2
<1>2. Sub(t, d) = {n \in DOMAIN t.nodes : d \in ClusterPath(t, t.nodes[n].cluster)}
  BY <1>1, SubIs
<1>3. \A u \in U : u \in DOMAIN t.clusters /\ u # RootCluster /\ t.clusters[u].parent = c
  BY ChildrenHave
<1>4. \A n \in DOMAIN t.nodes : t.nodes[n].cluster \in DOMAIN t.clusters
  BY MadeHas
<1>5. d \notin ClusterPath(t, c)
  BY <1>1, ClusterPathFacts
<1>6. ASSUME NEW x \in DOMAIN t.clusters, d \in ClusterPath(t, x) PROVE U \cap ClusterPath(t, x) = {}
  BY <1>1, <1>3, <1>6, ClusterPathFacts
<1>7. d \in ClusterPath(t, d)
  BY <1>1, ClusterPathFacts
<1>8. /\ NodesOf(t, c) = {n \in DOMAIN t.nodes : t.nodes[n].cluster = c}
      /\ NodesOf(t, d) = {n \in DOMAIN t.nodes : t.nodes[n].cluster = d}
  BY <1>1, MadeHas
<1>9. Under(t, c, U \cup {d}) = Under(t, c, U) \cup Sub(t, d)
  <2>1. ASSUME NEW n \in DOMAIN t.nodes
        PROVE  n \in Under(t, c, U \cup {d}) <=> n \in Under(t, c, U) \cup Sub(t, d)
    BY <1>2 DEF Under
  <2> QED BY <1>2, <2>1 DEF Under
<1>10. Under(t, c, U) \cap Sub(t, d) = {}
  <2> SUFFICES ASSUME NEW n \in Under(t, c, U), n \in Sub(t, d) PROVE FALSE
    OBVIOUS
  <2>1. /\ n \in DOMAIN t.nodes /\ d \in ClusterPath(t, t.nodes[n].cluster)
        /\ t.nodes[n].cluster = c \/ U \cap ClusterPath(t, t.nodes[n].cluster) # {}
    BY <1>2 DEF Under
  <2> QED BY <1>4, <1>5, <1>6, <2>1
<1>11. NodesOf(t, c) \subseteq Under(t, c, U) /\ NodesOf(t, d) \subseteq Sub(t, d)
  BY <1>1, UnderHas DEF Sub
<1>12. ASSUME NEW n \in Under(t, c, U) \ NodesOf(t, c), NEW p \in t.nodes[n].parents
       PROVE  p \in Under(t, c, U)
  <2>1. PICK x \in DOMAIN t.clusters : x = t.nodes[n].cluster
    BY <1>4 DEF Under
  <2>2. PICK u \in U : u \in ClusterPath(t, x) /\ x # c /\ n \in DOMAIN t.nodes
    BY <1>8, <2>1 DEF Under
  <2>3. p \in DOMAIN t.nodes /\ x # RootCluster /\ t.nodes[p].cluster = t.clusters[x].parent
    BY <2>1, <2>2, ParentsAbove
  <2>4. ClusterPath(t, x) = {x} \cup ClusterPath(t, t.clusters[x].parent)
    BY <2>3, ClusterPathFacts
  <2>5. u = x \/ u \in ClusterPath(t, t.nodes[p].cluster)
    BY <2>2, <2>3, <2>4
  <2> QED BY <1>3, <2>3, <2>5 DEF Under
<1>13. ASSUME NEW n \in Sub(t, d) \ NodesOf(t, d), NEW p \in t.nodes[n].parents
       PROVE  p \in Sub(t, d)
  <2>1. PICK x \in DOMAIN t.clusters : x = t.nodes[n].cluster
    BY <1>2, <1>4
  <2>2. d \in ClusterPath(t, x) /\ x # d /\ n \in DOMAIN t.nodes
    BY <1>2, <1>8, <2>1
  <2>3. p \in DOMAIN t.nodes /\ x # RootCluster /\ t.nodes[p].cluster = t.clusters[x].parent
    BY <2>1, <2>2, ParentsAbove
  <2>4. ClusterPath(t, x) = {x} \cup ClusterPath(t, t.clusters[x].parent)
    BY <2>3, ClusterPathFacts
  <2> QED BY <1>2, <2>2, <2>3, <2>4
<1>14. ASSUME NEW n \in NodesOf(t, d), NEW p \in t.nodes[n].parents PROVE p \in NodesOf(t, c)
  <2>1. p \in DOMAIN t.nodes /\ t.nodes[p].cluster = t.clusters[t.nodes[n].cluster].parent
    BY <1>8, ParentsAbove
  <2> QED BY <1>1, <1>8, <2>1
<1>15. NodesOf(t, c) \cap Sub(t, d) = {}
  BY <1>10, <1>11
<1> QED BY <1>9, <1>10, <1>11, <1>12, <1>13, <1>14, <1>15 DEF UnderMore

(* A set of nodes under a cluster and a child is a set under the cluster   *)
(* and a set under the child.                                              *)
JoinOf(t, c, U, d, S, A, N, M) == Selects(t, c, U \cup {d}, S, N \cup M) /\ N \cap M = {}

SplitOf(t, c, U, d, S, N) ==
    /\ Selects(t, c, U, S, N \cap Under(t, c, U))
    /\ Selects(t, d, ChildrenOf(t, d), N \cap NodesOf(t, d), N \cap Sub(t, d))
    /\ N \cap NodesOf(t, d) \subseteq AccessibleNodes(t, d, S)
    /\ N = (N \cap Under(t, c, U)) \cup (N \cap Sub(t, d))
    /\ (N \cap Under(t, c, U)) \cap (N \cap Sub(t, d)) = {}

LEMMA SelectsJoin ==
  ASSUME NEW t, NEW c, NEW U, NEW d, UnderMore(t, c, U, d), NEW S, NEW A, NEW N, NEW M,
         Selects(t, c, U, S, N), Selects(t, d, ChildrenOf(t, d), A, M),
         A \subseteq AccessibleNodes(t, d, S)
  PROVE  JoinOf(t, c, U, d, S, A, N, M)
<1>1. N \subseteq Under(t, c, U) /\ N \cap NodesOf(t, c) = S /\ \A n \in N \ S : t.nodes[n].parents \cap N # {}
  BY DEF Selects
<1>2. M \subseteq Sub(t, d) /\ M \cap NodesOf(t, d) = A /\ \A n \in M \ A : t.nodes[n].parents \cap M # {}
  BY DEF Selects, Sub
<1>3. \A n \in A : t.nodes[n].parents \cap S # {}
  BY DEF AccessibleNodes
<1>4. (N \cup M) \cap NodesOf(t, c) = S
  BY <1>1, <1>2 DEF UnderMore
<1>5. ASSUME NEW n \in (N \cup M) \ S PROVE t.nodes[n].parents \cap (N \cup M) # {}
  <2>1. CASE n \in N
    BY <1>1, <1>5, <2>1
  <2>2. CASE n \in A
    BY <1>1, <1>3, <2>2
  <2>3. CASE n \in M \ A
    BY <1>2, <2>3
  <2> QED BY <1>5, <2>1, <2>2, <2>3
<1>6. N \cup M \subseteq Under(t, c, U \cup {d}) /\ N \cap M = {}
  BY <1>1, <1>2 DEF UnderMore
<1> QED BY <1>4, <1>5, <1>6 DEF Selects, JoinOf

LEMMA SelectsSplit ==
  ASSUME NEW t, NEW c, NEW U, NEW d, UnderMore(t, c, U, d), NEW S, NEW N,
         Selects(t, c, U \cup {d}, S, N)
  PROVE  SplitOf(t, c, U, d, S, N)
<1>1. /\ N \subseteq Under(t, c, U) \cup Sub(t, d) /\ N \cap NodesOf(t, c) = S
      /\ \A n \in N \ S : t.nodes[n].parents \cap N # {}
  BY DEF Selects, UnderMore
<1>2. Selects(t, c, U, S, N \cap Under(t, c, U))
  <2>1. ASSUME NEW n \in (N \cap Under(t, c, U)) \ S
        PROVE  t.nodes[n].parents \cap (N \cap Under(t, c, U)) # {}
    <3>1. n \in Under(t, c, U) \ NodesOf(t, c)
      BY <1>1, <2>1
    <3> QED BY <1>1, <2>1, <3>1 DEF UnderMore
  <2>2. (N \cap Under(t, c, U)) \cap NodesOf(t, c) = S
    BY <1>1 DEF UnderMore
  <2> QED BY <2>1, <2>2 DEF Selects
<1>3. \A n \in N \cap Sub(t, d) : n \notin S
  BY <1>1 DEF UnderMore
<1>4. Selects(t, d, ChildrenOf(t, d), N \cap NodesOf(t, d), N \cap Sub(t, d))
  <2>1. ASSUME NEW n \in (N \cap Sub(t, d)) \ (N \cap NodesOf(t, d))
        PROVE  t.nodes[n].parents \cap (N \cap Sub(t, d)) # {}
    BY <1>1, <1>3, <2>1 DEF UnderMore
  <2>2. (N \cap Sub(t, d)) \cap NodesOf(t, d) = N \cap NodesOf(t, d)
    BY DEF UnderMore
  <2> QED BY <2>1, <2>2 DEF Selects, Sub
<1>5. ASSUME NEW n \in N \cap NodesOf(t, d) PROVE n \in AccessibleNodes(t, d, S)
  <2>1. n \in N \ S /\ n \in NodesOf(t, d)
    BY <1>3, <1>5 DEF UnderMore
  <2>2. t.nodes[n].parents \cap S # {}
    BY <1>1, <2>1 DEF UnderMore
  <2> QED BY <2>1, <2>2 DEF AccessibleNodes
<1> QED BY <1>1, <1>2, <1>4, <1>5 DEF UnderMore, SplitOf

-----------------------------------------------------------------------------
(* Pages and profits of sets of nodes.                                     *)

LEMMA PagesInHave ==
  ASSUME NEW t, WellMade(t), NEW N \in SUBSET DOMAIN t.nodes, NEW M \in SUBSET DOMAIN t.nodes
  PROVE  /\ IsFiniteSet(PagesIn(t, N)) /\ Cardinality(PagesIn(t, N)) \in Nat
         /\ PagesIn(t, N) \subseteq Page
         /\ PagesIn(t, N \cup M) = PagesIn(t, N) \cup PagesIn(t, M)
         /\ Cardinality(PagesIn(t, N)) <= Cardinality(PagesIn(t, N \cup M))
         /\ Cardinality(PagesIn(t, N \cup M)) <= Cardinality(PagesIn(t, N)) + Cardinality(PagesIn(t, M))
         /\ ApartOn(t, N \cup M) /\ N \cap M = {} =>
               Cardinality(PagesIn(t, N \cup M)) = Cardinality(PagesIn(t, N)) + Cardinality(PagesIn(t, M))
<1>1. PICK A, B : A = PagesIn(t, N) /\ B = PagesIn(t, M)
  OBVIOUS
<1>2. A \subseteq Page /\ B \subseteq Page
  BY <1>1, MadeHas DEF PagesIn
<1>3. IsFiniteSet(A) /\ IsFiniteSet(B) /\ IsFiniteSet(A \cap B)
  BY <1>2, HostAssumption, FS_Subset
<1>4. PagesIn(t, N \cup M) = A \cup B
  BY <1>1 DEF PagesIn
<1>5. /\ IsFiniteSet(A \cup B)
      /\ Cardinality(A \cup B) = Cardinality(A) + Cardinality(B) - Cardinality(A \cap B)
  BY <1>3, FS_Union
<1>6. Cardinality(A) \in Nat /\ Cardinality(B) \in Nat /\ Cardinality(A \cap B) \in Nat
  BY <1>3, FS_CardinalityType
<1>7. Cardinality(A) <= Cardinality(A \cup B)
  <2>1. A \in SUBSET (A \cup B)
    OBVIOUS
  <2> QED BY <1>5, <2>1, FS_Subset
<1>8. ASSUME ApartOn(t, N \cup M), N \cap M = {} PROVE Cardinality(A \cap B) = 0
  <2>1. A \cap B = {}
    BY <1>1, <1>8 DEF ApartOn, PagesIn
  <2> QED BY <2>1, FS_EmptySet
<1>9. PICK a, b, both : a = Cardinality(A) /\ b = Cardinality(B) /\ both = Cardinality(A \cup B)
  OBVIOUS
<1>10. a \in Nat /\ b \in Nat /\ a <= both /\ both <= a + b
  BY <1>5, <1>6, <1>7, <1>9
<1>11. ApartOn(t, N \cup M) /\ N \cap M = {} => both = a + b
  BY <1>5, <1>6, <1>8, <1>9
<1> QED BY <1>1, <1>2, <1>3, <1>4, <1>9, <1>10, <1>11

(* Different nodes have different guests. *)
LEMMA GuestsApart ==
  ASSUME NEW t, WellMade(t), GuestsNumbered(t),
         NEW N \in SUBSET DOMAIN t.nodes, NEW M \in SUBSET DOMAIN t.nodes, N \cap M = {}
  PROVE  GuestsOfNodes(t, N) \cap GuestsOfNodes(t, M) = {}
<1> SUFFICES ASSUME NEW n \in N, NEW m \in M, IsLeafNode(t, n), IsLeafNode(t, m),
                    t.nodes[n].guest = t.nodes[m].guest
             PROVE  FALSE
  BY DEF GuestsOfNodes
<1>1. n \in ToSet(t.leaves) /\ m \in ToSet(t.leaves)
  BY DEF GuestsNumbered
<1>2. DOMAIN t.leaves = 1 .. Len(t.leaves)
  BY LenProperties DEF WellMade, LeavesMade
<1>3. PICK i, j \in 1 .. Len(t.leaves) : n = t.leaves[i] /\ m = t.leaves[j]
  BY <1>1, <1>2 DEF ToSet
<1>4. t.nodes[n].guest = i /\ t.nodes[m].guest = j
  BY <1>3 DEF GuestsNumbered
<1> QED BY <1>3, <1>4

AddUp(t, N, M, profits) ==
    /\ ProfitIn(t, N, profits) \in Nat
    /\ GuestsOfNodes(t, N \cup M) = GuestsOfNodes(t, N) \cup GuestsOfNodes(t, M)
    /\ ProfitIn(t, N, profits) <= ProfitIn(t, N \cup M, profits)
    /\ N \cap M = {} =>
          ProfitIn(t, N \cup M, profits) = ProfitIn(t, N, profits) + ProfitIn(t, M, profits)

LEMMA ProfitsAddUp ==
  ASSUME NEW t, WellMade(t), GuestsNumbered(t), NEW profits,
         NEW N \in SUBSET DOMAIN t.nodes, NEW M \in SUBSET DOMAIN t.nodes
  PROVE  AddUp(t, N, M, profits)
<1>1. PICK A, B : A = GuestsOfNodes(t, N) \cap profits /\ B = GuestsOfNodes(t, M) \cap profits
  OBVIOUS
<1>2. GuestsOfNodes(t, N \cup M) = GuestsOfNodes(t, N) \cup GuestsOfNodes(t, M)
  BY DEF GuestsOfNodes
<1>3. Len(t.leaves) \in Nat
  BY LenProperties DEF WellMade, LeavesMade
<1>4. A \subseteq 1 .. Len(t.leaves) /\ B \subseteq 1 .. Len(t.leaves)
  BY <1>1, GuestsOfNodesIn
<1>5. IsFiniteSet(A) /\ IsFiniteSet(B) /\ IsFiniteSet(A \cap B)
  <2>1. IsFiniteSet(1 .. Len(t.leaves)) /\ A \cap B \subseteq 1 .. Len(t.leaves)
    BY <1>3, <1>4, UpTo
  <2> QED BY <1>4, <2>1, FS_Subset
<1>6. /\ IsFiniteSet(A \cup B)
      /\ Cardinality(A \cup B) = Cardinality(A) + Cardinality(B) - Cardinality(A \cap B)
  BY <1>5, FS_Union
<1>7. Cardinality(A) \in Nat /\ Cardinality(B) \in Nat /\ Cardinality(A \cap B) \in Nat
  BY <1>5, FS_CardinalityType
<1>8. Cardinality(A) <= Cardinality(A \cup B)
  <2>1. A \in SUBSET (A \cup B)
    OBVIOUS
  <2> QED BY <1>6, <2>1, FS_Subset
<1>9. N \cap M = {} => Cardinality(A \cap B) = 0
  <2>1. N \cap M = {} => A \cap B = {}
    BY <1>1, GuestsApart
  <2> QED BY <2>1, FS_EmptySet
<1>10. GuestsOfNodes(t, N \cup M) \cap profits = A \cup B
  BY <1>1, <1>2
<1>11. PICK a, b, both : a = Cardinality(A) /\ b = Cardinality(B) /\ both = Cardinality(A \cup B)
  OBVIOUS
<1>12. a \in Nat /\ b \in Nat /\ a <= both
  BY <1>7, <1>8, <1>11
<1>13. N \cap M = {} => both = a + b
  BY <1>6, <1>7, <1>9, <1>11
<1>14. ProfitIn(t, N, profits) = a /\ ProfitIn(t, M, profits) = b /\ ProfitIn(t, N \cup M, profits) = both
  BY <1>1, <1>10, <1>11 DEF ProfitIn
<1> QED BY <1>2, <1>12, <1>13, <1>14 DEF AddUp

LEMMA ProfitsAdd ==
  ASSUME NEW t, WellMade(t), GuestsNumbered(t), NEW profits,
         NEW N \in SUBSET DOMAIN t.nodes, NEW M \in SUBSET DOMAIN t.nodes
  PROVE  /\ ProfitIn(t, N, profits) \in Nat
         /\ GuestsOfNodes(t, N \cup M) = GuestsOfNodes(t, N) \cup GuestsOfNodes(t, M)
         /\ ProfitIn(t, N, profits) <= ProfitIn(t, N \cup M, profits)
<1>1. AddUp(t, N, M, profits)
  BY ProfitsAddUp
<1> QED BY <1>1 DEF AddUp

LEMMA ProfitsOfTwo ==
  ASSUME NEW t, WellMade(t), GuestsNumbered(t), NEW profits,
         NEW N \in SUBSET DOMAIN t.nodes, NEW M \in SUBSET DOMAIN t.nodes, N \cap M = {},
         NEW both, both = N \cup M
  PROVE  ProfitIn(t, both, profits) = ProfitIn(t, N, profits) + ProfitIn(t, M, profits)
<1>1. AddUp(t, N, M, profits)
  BY ProfitsAddUp
<1> QED BY <1>1 DEF AddUp

(* A cluster with a leaf is a leaf's, and has nothing below. *)
LEMMA LeafClusterHas ==
  ASSUME NEW t, WellMade(t), GuestsNumbered(t), NEW c \in DOMAIN t.clusters
  PROVE  /\ ~IsLeafCluster(t, c) => GuestsOfNodes(t, NodesOf(t, c)) = {}
         /\ IsLeafCluster(t, c) =>
               /\ ChildrenOf(t, c) = {} /\ c # RootCluster
               /\ \E l : NodesOf(t, c) = {l} /\ l \in DOMAIN t.nodes /\ IsLeafNode(t, l)
<1>1. ASSUME NEW l \in NodesOf(t, c), IsLeafNode(t, l)
      PROVE  IsLeafCluster(t, c) /\ ChildrenOf(t, c) = {} /\ c # RootCluster
  <2>1. l \in DOMAIN t.nodes /\ t.nodes[l].cluster = c
    BY <1>1, MadeHas
  <2>2. LeafApart(t, l)
    BY <1>1, <2>1, MadeHas DEF GuestsNumbered
  <2>3. t.clusters[c].nodes = <<l>> /\ t.clusters[c].children = <<>> /\ c # RootCluster
    BY <2>1, <2>2 DEF LeafApart
  <2>4. Len(<<l>>) = 1 /\ Head(<<l>>) = l
    OBVIOUS
  <2>5. ToSet(<<>>) = {}
    BY DEF ToSet
  <2> QED BY <1>1, <2>3, <2>4, <2>5 DEF IsLeafCluster, ChildrenOf
<1>2. ASSUME IsLeafCluster(t, c)
      PROVE  \E l : NodesOf(t, c) = {l} /\ l \in DOMAIN t.nodes /\ IsLeafNode(t, l)
  <2>1. PICK nodes : nodes = t.clusters[c].nodes
    OBVIOUS
  <2>2. nodes \in Seq(Nat) /\ Len(nodes) = 1 /\ IsLeafNode(t, Head(nodes))
    BY <1>2, <2>1, MadeHas DEF IsLeafCluster
  <2>3. PICK l : l = Head(nodes)
    OBVIOUS
  <2>4. DOMAIN nodes = {1} /\ nodes[1] = l
    BY <2>2, <2>3, LenProperties
  <2>5. NodesOf(t, c) = {l}
    BY <2>1, <2>4 DEF NodesOf, ToSet
  <2>6. l \in DOMAIN t.nodes
    BY <2>5, NodesOfIn
  <2> QED BY <2>2, <2>3, <2>5, <2>6
<1>3. ASSUME ~IsLeafCluster(t, c) PROVE GuestsOfNodes(t, NodesOf(t, c)) = {}
  BY <1>1, <1>3 DEF GuestsOfNodes
<1> QED BY <1>1, <1>2, <1>3

-----------------------------------------------------------------------------
(* The entries of a cluster before a child is used, and after.             *)

LEMMA SelectionWell ==
  ASSUME NEW t, WellMade(t), GuestsNumbered(t), NEW c \in DOMAIN t.clusters, NEW bound \in Nat,
         NEW profits, NEW new, new = SelectionCosts(t, c, bound, profits)
  PROVE  EntriesWell(t, c, {}, new, profits)
<1> SUFFICES ASSUME NEW key \in DOMAIN new
             PROVE  /\ IsFinite(new[key]) => EntryMeans(t, c, {}, key, new[key], profits)
                    /\ EntryBest(t, c, {}, key, new[key], profits)
  BY DEF EntriesWell
<1>1. PICK K : K = KeysOf(t, c, bound)
  OBVIOUS
<1>2. key \in K /\ new[key] = EntryOfSelection(t, key[1], key[2], profits)
  BY <1>1 DEF SelectionCosts, KeysOf
<1>3. PICK S, target : S = key[1] /\ target = key[2]
  OBVIOUS
<1>4. S \in SUBSET DOMAIN t.nodes /\ S \subseteq NodesOf(t, c) /\ target \in Nat
  BY <1>1, <1>2, <1>3, NodesOfIn DEF KeysOf
<1>5. PICK entry : entry = new[key]
  OBVIOUS
<1>6. PICK guests : guests = GuestsOfNodes(t, S)
  OBVIOUS
<1>7. entry = IF Cardinality(PagesIn(t, S)) > Capacity \/ Cardinality(guests \cap profits) < target
              THEN NoSelection
              ELSE [pageCount |-> Cardinality(PagesIn(t, S)), guests |-> guests]
  BY <1>2, <1>3, <1>5, <1>6 DEF EntryOfSelection, PagesIn
<1>8. Cardinality(PagesIn(t, S)) \in Nat /\ Capacity \in Nat
  BY <1>4, PagesInHave, HostAssumption
<1>9. ProfitIn(t, S, profits) = Cardinality(guests \cap profits) /\ ProfitIn(t, S, profits) \in Nat
  <2>1. ProfitIn(t, S, profits) \in Nat
    BY <1>4, ProfitsAdd
  <2> QED BY <1>6, <2>1 DEF ProfitIn
<1>10. Under(t, c, {}) = NodesOf(t, c)
  BY UnderHas
<1>11. ASSUME IsFinite(entry) PROVE EntryMeans(t, c, {}, key, entry, profits)
  <2>1. /\ entry.pageCount = Cardinality(PagesIn(t, S)) /\ entry.guests = guests
        /\ target <= ProfitIn(t, S, profits)
    BY <1>4, <1>7, <1>8, <1>9, <1>11 DEF IsFinite, NoSelection
  <2>2. Selects(t, c, {}, S, S)
    BY <1>4, <1>10 DEF Selects
  <2>3. ASSUME target > 0 \/ ~IsLeafCluster(t, c) PROVE guests \subseteq profits
    <3>1. CASE ~IsLeafCluster(t, c)
      <4>1. GuestsOfNodes(t, NodesOf(t, c)) = {}
        BY <3>1, LeafClusterHas
      <4>2. guests = {}
        BY <1>4, <1>6, <4>1 DEF GuestsOfNodes
      <4> QED BY <4>2
    <3>2. CASE IsLeafCluster(t, c)
      <4>1. PICK l : NodesOf(t, c) = {l}
        BY <3>2, LeafClusterHas
      <4>2. guests \subseteq {t.nodes[l].guest}
        BY <1>4, <1>6, <4>1 DEF GuestsOfNodes
      <4>3. guests \cap profits # {}
        <5>1. Cardinality(guests \cap profits) # 0
          BY <1>4, <1>9, <2>1, <2>3, <3>2
        <5> QED BY <5>1, FS_EmptySet
      <4> QED BY <4>2, <4>3
    <3> QED BY <3>1, <3>2
  <2>4. Cardinality(PagesIn(t, S)) <= entry.pageCount
    BY <1>8, <2>1
  <2> QED BY <1>3, <1>4, <1>6, <2>1, <2>2, <2>3, <2>4 DEF EntryMeans
<1>12. EntryBest(t, c, {}, key, entry, profits)
  <2> SUFFICES ASSUME NEW N \in SUBSET DOMAIN t.nodes, Enough(t, c, {}, key, profits, N)
               PROVE  entry.pageCount <= Cardinality(PagesIn(t, N))
    BY DEF EntryBest
  <2>1. /\ N \subseteq Under(t, c, {}) /\ N \cap NodesOf(t, c) = S
        /\ target <= ProfitIn(t, N, profits) /\ Cardinality(PagesIn(t, N)) <= Capacity
    BY <1>3 DEF Enough, Selects
  <2>2. N = S
    BY <1>10, <2>1
  <2>3. entry.pageCount = Cardinality(PagesIn(t, S))
    BY <1>4, <1>7, <1>8, <1>9, <2>1, <2>2
  <2> QED BY <1>8, <2>2, <2>3
<1> QED BY <1>5, <1>11, <1>12

(* What is asked of the entries before a child is used.                    *)
ReadyToUse(t, c, U, d, made, limits, old, bound, n, profits) ==
    /\ bound \in Nat /\ limits[d] \in Nat
    /\ old \in EntriesOver(t, c, bound, n) /\ made[d] \in EntriesOver(t, d, limits[d], n)
    /\ EntriesWell(t, c, U, old, profits)
    /\ EntriesWell(t, d, ChildrenOf(t, d), made[d], profits)
    /\ LimitAt(t, d, limits, profits)

LEMMA JoinedMeans ==
  ASSUME NEW t, WellMade(t), GuestsNumbered(t), NEW c \in DOMAIN t.clusters,
         NEW U \in SUBSET ChildrenOf(t, c), NEW d \in ChildrenOf(t, c), d \notin U,
         NEW made, NEW limits, NEW old, NEW bound, NEW n, NEW profits,
         ReadyToUse(t, c, U, d, made, limits, old, bound, n, profits),
         NEW key \in DOMAIN old, NEW entry \in EntryOver(n),
         CheapestJoint(t, made, limits, old, d, key, entry), IsFinite(entry)
  PROVE  EntryMeans(t, c, U \cup {d}, key, entry, profits)
<1>1. UnderMore(t, c, U, d)
  BY UnderOneMore
<1>2. d \in DOMAIN t.clusters
  BY ChildrenHave
<1>3. CASE entry = old[key]
  <2>1. EntryMeans(t, c, U, key, entry, profits)
    BY <1>3 DEF ReadyToUse, EntriesWell
  <2>2. PICK N \in SUBSET DOMAIN t.nodes :
               /\ Selects(t, c, U, key[1], N)
               /\ Cardinality(PagesIn(t, N)) <= entry.pageCount
               /\ entry.guests = GuestsOfNodes(t, N)
               /\ key[2] <= ProfitIn(t, N, profits)
               /\ key[2] > 0 \/ ~IsLeafCluster(t, c) => entry.guests \subseteq profits
    BY <2>1 DEF EntryMeans
  <2>3. Selects(t, c, U \cup {d}, key[1], N)
    BY <1>1, <2>2 DEF Selects, UnderMore
  <2> QED BY <2>2, <2>3 DEF EntryMeans
<1>4. ASSUME NEW p \in Shares(limits, d, key), entry = Joint(t, made, old, d, key, p),
             entry.pageCount < old[key].pageCount
      PROVE  EntryMeans(t, c, U \cup {d}, key, entry, profits)
  <2>1. /\ bound \in Nat /\ limits[d] \in Nat
        /\ old \in EntriesOver(t, c, bound, n) /\ made[d] \in EntriesOver(t, d, limits[d], n)
        /\ t.clusters[d].nodes \in Seq(Nat)
    BY <1>2, MadeHas DEF ReadyToUse
  <2>2. /\ \E S : JoinsEntries(t, made, old, d, key, p, S, entry)
        /\ p \in 0 .. key[2] /\ p <= limits[d] /\ key[2] \in 0 .. bound
    BY <1>4, <2>1, JointIs
  <2>3. PICK S : JoinsEntries(t, made, old, d, key, p, S, entry)
    BY <2>2
  <2>4. PICK T, target : T = key[1] /\ target = key[2]
    OBVIOUS
  <2>5. PICK entries : entries = made[d]
    OBVIOUS
  <2>6. PICK a, b : a = old[<<T, target - p>>] /\ b = entries[<<S, p>>]
    OBVIOUS
  <2>7. /\ S \subseteq AccessibleNodes(t, d, T)
        /\ <<S, p>> \in DOMAIN entries /\ <<T, target - p>> \in DOMAIN old
        /\ entry = CombinationOfDisjoint(a, b)
    BY <2>3, <2>4, <2>5, <2>6 DEF JoinsEntries, LowestOf
  <2>8. a \in EntryOver(n) /\ b \in EntryOver(n)
    BY <2>1, <2>5, <2>6, <2>7 DEF EntriesOver
  <2>9. /\ entry.pageCount = a.pageCount + b.pageCount /\ entry.guests = a.guests \cup b.guests
        /\ a.pageCount \in Nat /\ b.pageCount \in Nat
    BY <2>7, <2>8 DEF EntryOver, CombinationOfDisjoint
  <2>10. IsFinite(a) /\ IsFinite(b)
    BY <2>9, HostAssumption DEF IsFinite
  <2>11. target \in Nat /\ p \in Nat /\ p <= target
    BY <2>1, <2>2, <2>4
  <2>12. p > 0
    <3>1. ASSUME p = 0 PROVE FALSE
      <4>1. target - p = target
        BY <2>11, <3>1
      <4>2. key = <<T, target>>
        BY <2>1, <2>4 DEF EntriesOver, KeysOf
      <4>3. a = old[key]
        BY <2>6, <4>1, <4>2
      <4>4. entry.pageCount >= a.pageCount
        BY <2>9
      <4>5. entry.pageCount < a.pageCount
        BY <1>4, <4>3
      <4> QED BY <2>9, <4>4, <4>5
    <3> QED BY <2>11, <3>1
  <2>13. PICK N \in SUBSET DOMAIN t.nodes :
               /\ Selects(t, c, U, T, N)
               /\ Cardinality(PagesIn(t, N)) <= a.pageCount
               /\ a.guests = GuestsOfNodes(t, N)
               /\ target - p <= ProfitIn(t, N, profits)
               /\ target - p > 0 \/ ~IsLeafCluster(t, c) => a.guests \subseteq profits
    <3>1. EntryMeans(t, c, U, <<T, target - p>>, a, profits)
      BY <2>6, <2>7, <2>10 DEF ReadyToUse, EntriesWell
    <3> QED BY <3>1 DEF EntryMeans
  <2>14. PICK M \in SUBSET DOMAIN t.nodes :
               /\ Selects(t, d, ChildrenOf(t, d), S, M)
               /\ Cardinality(PagesIn(t, M)) <= b.pageCount
               /\ b.guests = GuestsOfNodes(t, M)
               /\ p <= ProfitIn(t, M, profits)
               /\ p > 0 \/ ~IsLeafCluster(t, d) => b.guests \subseteq profits
    <3>1. EntryMeans(t, d, ChildrenOf(t, d), <<S, p>>, b, profits)
      BY <2>5, <2>6, <2>7, <2>10 DEF ReadyToUse, EntriesWell
    <3> QED BY <3>1 DEF EntryMeans
  <2>15. Selects(t, c, U \cup {d}, T, N \cup M) /\ N \cap M = {}
    <3>1. Selects(t, c, U, T, N) /\ Selects(t, d, ChildrenOf(t, d), S, M)
      BY <2>13, <2>14
    <3>2. S \subseteq AccessibleNodes(t, d, T)
      BY <2>7
    <3>3. JoinOf(t, c, U, d, T, S, N, M)
      BY <1>1, <3>1, <3>2, SelectsJoin
    <3> QED BY <3>3 DEF JoinOf
  <2>16. Cardinality(PagesIn(t, N \cup M)) <= entry.pageCount
    <3>1. Cardinality(PagesIn(t, N \cup M)) <= Cardinality(PagesIn(t, N)) + Cardinality(PagesIn(t, M))
      BY PagesInHave
    <3>2. Cardinality(PagesIn(t, N)) \in Nat /\ Cardinality(PagesIn(t, M)) \in Nat
      BY PagesInHave
    <3>3. Cardinality(PagesIn(t, N \cup M)) \in Nat
      <4>1. N \cup M \in SUBSET DOMAIN t.nodes
        OBVIOUS
      <4> QED BY <4>1, PagesInHave
    <3> QED BY <2>9, <2>13, <2>14, <3>1, <3>2, <3>3
  <2>17. /\ entry.guests = GuestsOfNodes(t, N \cup M)
         /\ target <= ProfitIn(t, N \cup M, profits)
    <3>1. /\ ProfitIn(t, N \cup M, profits) = ProfitIn(t, N, profits) + ProfitIn(t, M, profits)
          /\ GuestsOfNodes(t, N \cup M) = GuestsOfNodes(t, N) \cup GuestsOfNodes(t, M)
      <4>1. AddUp(t, N, M, profits)
        BY ProfitsAddUp
      <4> QED BY <2>15, <4>1 DEF AddUp
    <3>2. ProfitIn(t, N, profits) \in Nat /\ ProfitIn(t, M, profits) \in Nat
      BY ProfitsAdd
    <3>3. target <= ProfitIn(t, N, profits) + ProfitIn(t, M, profits)
      BY <2>11, <2>13, <2>14, <3>2
    <3> QED BY <2>9, <2>13, <2>14, <3>1, <3>3
  <2>18. ~IsLeafCluster(t, c)
    BY LeafClusterHas
  <2>19. entry.guests \subseteq profits
    BY <2>9, <2>12, <2>13, <2>14, <2>18
  <2>20. N \cup M \in SUBSET DOMAIN t.nodes
    OBVIOUS
  <2> QED BY <2>4, <2>15, <2>16, <2>17, <2>19, <2>20 DEF EntryMeans
<1> QED BY <1>3, <1>4 DEF CheapestJoint

LEMMA JoinedBest ==
  ASSUME NEW t, WellMade(t), GuestsNumbered(t), NEW c \in DOMAIN t.clusters,
         NEW U \in SUBSET ChildrenOf(t, c), NEW d \in ChildrenOf(t, c), d \notin U,
         NEW made, NEW limits, NEW old, NEW bound, NEW n, NEW profits,
         ReadyToUse(t, c, U, d, made, limits, old, bound, n, profits),
         NEW key \in DOMAIN old, NEW entry \in EntryOver(n),
         CheapestJoint(t, made, limits, old, d, key, entry)
  PROVE  EntryBest(t, c, U \cup {d}, key, entry, profits)
<1> SUFFICES ASSUME NEW N \in SUBSET DOMAIN t.nodes, Enough(t, c, U \cup {d}, key, profits, N)
             PROVE  entry.pageCount <= Cardinality(PagesIn(t, N))
  BY DEF EntryBest
<1>1. UnderMore(t, c, U, d)
  BY UnderOneMore
<1>2. d \in DOMAIN t.clusters
  BY ChildrenHave
<1>3. PICK T, target : T = key[1] /\ target = key[2]
  OBVIOUS
<1>4. PICK N1, N2, A : N1 = N \cap Under(t, c, U) /\ N2 = N \cap Sub(t, d) /\ A = N \cap NodesOf(t, d)
  OBVIOUS
<1>5. /\ Selects(t, c, U, T, N1) /\ Selects(t, d, ChildrenOf(t, d), A, N2)
      /\ A \subseteq AccessibleNodes(t, d, T) /\ N = N1 \cup N2 /\ N1 \cap N2 = {}
  <2>1. Selects(t, c, U \cup {d}, T, N)
    BY <1>3 DEF Enough
  <2>2. SplitOf(t, c, U, d, T, N)
    BY <1>1, <2>1, SelectsSplit
  <2> QED BY <1>4, <2>2 DEF SplitOf
<1>6. /\ ApartOn(t, N) /\ target <= ProfitIn(t, N, profits) /\ Cardinality(PagesIn(t, N)) <= Capacity
  BY <1>3 DEF Enough
<1>7. N1 \in SUBSET DOMAIN t.nodes /\ N2 \in SUBSET DOMAIN t.nodes
  BY <1>5
<1>8. PICK m1, m2, m : /\ m1 = Cardinality(PagesIn(t, N1)) /\ m2 = Cardinality(PagesIn(t, N2))
                       /\ m = Cardinality(PagesIn(t, N))
  OBVIOUS
<1>9. m1 \in Nat /\ m2 \in Nat /\ m = m1 + m2
  <2>1. Cardinality(PagesIn(t, N1 \cup N2)) = Cardinality(PagesIn(t, N1)) + Cardinality(PagesIn(t, N2))
    <3>1. ApartOn(t, N1 \cup N2) /\ N1 \cap N2 = {}
      BY <1>5, <1>6
    <3> QED BY <1>7, <3>1, PagesInHave
  <2>2. Cardinality(PagesIn(t, N1)) \in Nat /\ Cardinality(PagesIn(t, N2)) \in Nat
    BY <1>7, PagesInHave
  <2> QED BY <1>5, <1>8, <2>1, <2>2
<1>10. PICK p1, p2 : p1 = ProfitIn(t, N1, profits) /\ p2 = ProfitIn(t, N2, profits)
  OBVIOUS
<1>11. p1 \in Nat /\ p2 \in Nat /\ ProfitIn(t, N, profits) = p1 + p2
  <2>1. ProfitIn(t, N, profits) = ProfitIn(t, N1, profits) + ProfitIn(t, N2, profits)
    BY <1>5, <1>7, ProfitsOfTwo
  <2>2. ProfitIn(t, N1, profits) \in Nat /\ ProfitIn(t, N2, profits) \in Nat
    BY <1>7, ProfitsAdd
  <2> QED BY <1>5, <1>10, <2>1, <2>2
<1>12. PICK limit : limit = limits[d]
  OBVIOUS
<1>13. p2 <= limit /\ limit \in Nat
  <2>1. Sub(t, d) \in SUBSET DOMAIN t.nodes
    BY DEF Sub, Under
  <2>2. N2 \cup Sub(t, d) = Sub(t, d)
    BY <1>4
  <2>3. ProfitIn(t, N2, profits) <= ProfitIn(t, N2 \cup Sub(t, d), profits)
    BY <1>7, <2>1, ProfitsAdd
  <2>4. ProfitIn(t, Sub(t, d), profits) <= limit /\ limit \in Nat
    BY <1>12 DEF ReadyToUse, LimitAt, Sub
  <2>5. ProfitIn(t, Sub(t, d), profits) \in Nat
    BY <2>1, ProfitsAdd
  <2>6. p2 <= ProfitIn(t, Sub(t, d), profits)
    BY <1>10, <2>2, <2>3
  <2> QED BY <1>11, <2>4, <2>5, <2>6
<1>14. /\ bound \in Nat /\ limits[d] \in Nat
       /\ old \in EntriesOver(t, c, bound, n) /\ made[d] \in EntriesOver(t, d, limits[d], n)
       /\ t.clusters[d].nodes \in Seq(Nat)
  BY <1>2, MadeHas DEF ReadyToUse
<1>15. target \in Nat
  BY <1>3, <1>14 DEF EntriesOver, KeysOf
<1>16. PICK p : p = IF target <= p2 THEN target ELSE p2
  OBVIOUS
<1>17. /\ p \in Nat /\ p <= target /\ p <= p2 /\ p <= limit
       /\ target - p <= p1
  BY <1>6, <1>11, <1>13, <1>15, <1>16
<1>18. p \in Shares(limits, d, key)
  <2>1. {target, limit} \in SUBSET Nat /\ {target, limit} # {}
    BY <1>13, <1>15
  <2>2. Min({target, limit}) \in {target, limit}
    BY <2>1, MinOfNaturals
  <2>3. p \in 0 .. Min({target, limit})
    BY <1>13, <1>15, <1>17, <2>2
  <2> QED BY <1>3, <1>12, <2>3 DEF Shares
<1>19. PICK joint : joint = Joint(t, made, old, d, key, p)
  OBVIOUS
<1>20. PICK S : JoinsEntries(t, made, old, d, key, p, S, joint)
  BY <1>14, <1>18, <1>19, JointIs
<1>21. PICK entries : entries = made[d]
  OBVIOUS
<1>22. PICK a, b, e : a = old[<<T, target - p>>] /\ b = entries[<<S, p>>] /\ e = entries[<<A, p>>]
  OBVIOUS
<1>23. /\ <<S, p>> \in DOMAIN entries /\ <<T, target - p>> \in DOMAIN old
       /\ joint = CombinationOfDisjoint(a, b) /\ b.pageCount <= e.pageCount
  <2>1. /\ <<S, p>> \in DOMAIN entries /\ <<T, target - p>> \in DOMAIN old
        /\ joint = CombinationOfDisjoint(a, b) /\ LowestOf(made, d, AccessibleNodes(t, d, T), p, S)
    BY <1>3, <1>20, <1>21, <1>22 DEF JoinsEntries
  <2>2. b.pageCount <= e.pageCount
    BY <1>5, <1>21, <1>22, <2>1 DEF LowestOf
  <2> QED BY <2>1, <2>2
<1>24. <<A, p>> \in DOMAIN entries
  <2>1. A \subseteq NodesOf(t, d)
    BY <1>4
  <2>2. DOMAIN entries = KeysOf(t, d, limit)
    BY <1>12, <1>14, <1>21 DEF EntriesOver
  <2>3. p \in 0 .. limit
    BY <1>13, <1>17
  <2> QED BY <2>1, <2>2, <2>3 DEF KeysOf
<1>25. a \in EntryOver(n) /\ b \in EntryOver(n) /\ e \in EntryOver(n)
  BY <1>14, <1>21, <1>22, <1>23, <1>24 DEF EntriesOver
<1>26. /\ joint.pageCount = a.pageCount + b.pageCount
       /\ a.pageCount \in Nat /\ b.pageCount \in Nat /\ e.pageCount \in Nat /\ entry.pageCount \in Nat
  BY <1>23, <1>25 DEF EntryOver, CombinationOfDisjoint
<1>27. m1 <= Capacity /\ m2 <= Capacity /\ ApartOn(t, N1) /\ ApartOn(t, N2)
  <2>1. ApartOn(t, N1) /\ ApartOn(t, N2)
    BY <1>5, <1>6 DEF ApartOn
  <2> QED BY <1>6, <1>8, <1>9, <2>1, HostAssumption
<1>28. a.pageCount <= m1
  <2>1. EntryBest(t, c, U, <<T, target - p>>, a, profits)
    BY <1>22, <1>23 DEF ReadyToUse, EntriesWell
  <2>2. Enough(t, c, U, <<T, target - p>>, profits, N1)
    BY <1>5, <1>8, <1>10, <1>17, <1>27 DEF Enough
  <2> QED BY <1>7, <1>8, <2>1, <2>2 DEF EntryBest
<1>29. e.pageCount <= m2
  <2>1. EntryBest(t, d, ChildrenOf(t, d), <<A, p>>, e, profits)
    BY <1>21, <1>22, <1>24 DEF ReadyToUse, EntriesWell
  <2>2. Enough(t, d, ChildrenOf(t, d), <<A, p>>, profits, N2)
    BY <1>5, <1>8, <1>10, <1>17, <1>27 DEF Enough
  <2> QED BY <1>7, <1>8, <2>1, <2>2 DEF EntryBest
<1>30. entry.pageCount <= joint.pageCount
  BY <1>18, <1>19 DEF CheapestJoint
<1> QED BY <1>8, <1>9, <1>23, <1>26, <1>28, <1>29, <1>30

LEMMA UseWell ==
  ASSUME NEW t, WellMade(t), GuestsNumbered(t), NEW c \in DOMAIN t.clusters,
         NEW U \in SUBSET ChildrenOf(t, c), NEW d \in ChildrenOf(t, c), d \notin U,
         NEW made, NEW limits, NEW old, NEW bound, NEW n, NEW profits,
         ReadyToUse(t, c, U, d, made, limits, old, bound, n, profits),
         NEW new \in EntriesOver(t, c, bound, n),
         \A key \in DOMAIN old : CheapestJoint(t, made, limits, old, d, key, new[key])
  PROVE  EntriesWell(t, c, U \cup {d}, new, profits)
<1>1. DOMAIN new = DOMAIN old
  BY DEF ReadyToUse, EntriesOver
<1>2. ASSUME NEW key \in DOMAIN new
      PROVE  /\ IsFinite(new[key]) => EntryMeans(t, c, U \cup {d}, key, new[key], profits)
             /\ EntryBest(t, c, U \cup {d}, key, new[key], profits)
  <2>1. PICK entry : entry = new[key]
    OBVIOUS
  <2>2. entry \in EntryOver(n) /\ CheapestJoint(t, made, limits, old, d, key, entry) /\ key \in DOMAIN old
    BY <1>1, <2>1 DEF EntriesOver
  <2>3. EntryBest(t, c, U \cup {d}, key, entry, profits)
    BY <2>2, JoinedBest
  <2>4. IsFinite(entry) => EntryMeans(t, c, U \cup {d}, key, entry, profits)
    BY <2>2, JoinedMeans
  <2> QED BY <2>1, <2>3, <2>4
<1> QED BY <1>2 DEF EntriesWell

(* The bound of a cluster is enough for what is under it.                  *)
LEMMA BoundIsEnough ==
  ASSUME NEW t, WellMade(t), GuestsNumbered(t), NEW c \in DOMAIN t.clusters, NEW limits, NEW profits,
         \A d \in ChildrenOf(t, c) : limits[d] \in Nat /\ LimitAt(t, d, limits, profits)
  PROVE  ProfitIn(t, Sub(t, c), profits) <= ProfitUpperBound(t, c, limits, profits)
<1>1. Under(t, c, {}) = NodesOf(t, c) /\ NodesOf(t, c) \in SUBSET DOMAIN t.nodes
  BY UnderHas, NodesOfIn
<1>2. CASE IsLeafCluster(t, c)
  <2>1. Sub(t, c) = NodesOf(t, c)
    BY <1>1, <1>2, LeafClusterHas DEF Sub
  <2>2. ProfitIn(t, NodesOf(t, c), profits) \in Nat
    BY <1>1, ProfitsAdd
  <2>3. ProfitUpperBound(t, c, limits, profits) = ProfitIn(t, NodesOf(t, c), profits)
    BY <1>2, BoundIs DEF ProfitIn
  <2> QED BY <2>1, <2>2, <2>3
<1>3. CASE ~IsLeafCluster(t, c)
  <2>1. PICK order : order = t.clusters[c].children
    OBVIOUS
  <2>2. order \in Seq(Nat) /\ NoneTwice(order)
    BY <2>1, MadeHas DEF WellMade, ClusterMade
  <2>3. PICK n : n = Len(order)
    OBVIOUS
  <2>4. n \in Nat /\ DOMAIN order = 1 .. n
    BY <2>2, <2>3, LenProperties
  <2>5. PICK turn : SumInTurn(turn, limits, order, n) /\ SumOf(limits, order) = turn[n]
    BY <2>4, SumTurns
  <2> DEFINE First(k) == {order[j] : j \in 1 .. k}
             S == {k \in 0 .. n : turn[k] \in Nat /\ ProfitIn(t, Under(t, c, First(k)), profits) <= turn[k]}
  <2>6. 0 \in S
    <3>1. First(0) = {}
      OBVIOUS
    <3>2. GuestsOfNodes(t, NodesOf(t, c)) \cap profits = {}
      BY <1>3, LeafClusterHas
    <3>3. ProfitIn(t, Under(t, c, First(0)), profits) = 0
      BY <1>1, <3>1, <3>2, FS_EmptySet DEF ProfitIn
    <3>4. turn[0] = 0
      BY <2>5 DEF SumInTurn
    <3> HIDE DEF First
    <3>5. 0 \in 0 .. n
      BY <2>4
    <3> QED BY <3>3, <3>4, <3>5
  <2>7. ASSUME NEW k \in 1 .. n, k - 1 \in S PROVE k \in S
    <3>1. PICK d : d = order[k]
      OBVIOUS
    <3>2. PICK U : U = First(k - 1)
      OBVIOUS
    <3>3. First(k) = U \cup {d} /\ d \notin U
      <4>1. 1 .. k = (1 .. k - 1) \cup {k}
        OBVIOUS
      <4>2. \A j \in 1 .. k - 1 : order[j] # order[k]
        BY <2>2, <2>4 DEF NoneTwice
      <4> QED BY <3>1, <3>2, <4>1, <4>2
    <3>4. d \in ChildrenOf(t, c) /\ U \in SUBSET ChildrenOf(t, c)
      <4>1. \A j \in 1 .. n : order[j] \in ChildrenOf(t, c)
        BY <2>1, <2>4 DEF ChildrenOf, ToSet
      <4>2. k \in 1 .. n /\ \A j \in 1 .. k - 1 : j \in 1 .. n
        BY <2>4
      <4> QED BY <3>1, <3>2, <4>1, <4>2
    <3> HIDE DEF First
    <3>5. UnderMore(t, c, U, d)
      BY <3>3, <3>4, UnderOneMore
    <3>6. PICK V, W : V = Under(t, c, U) /\ W = Sub(t, d)
      OBVIOUS
    <3>7. Under(t, c, First(k)) = V \cup W /\ V \cap W = {}
      BY <3>3, <3>5, <3>6 DEF UnderMore
    <3>8. V \in SUBSET DOMAIN t.nodes /\ W \in SUBSET DOMAIN t.nodes
      BY <3>6 DEF Under, Sub
    <3>9. ProfitIn(t, V \cup W, profits) = ProfitIn(t, V, profits) + ProfitIn(t, W, profits)
      BY <3>7, <3>8, ProfitsOfTwo
    <3>10. ProfitIn(t, V, profits) \in Nat /\ ProfitIn(t, W, profits) \in Nat
      BY <3>8, ProfitsAdd
    <3>11. ProfitIn(t, W, profits) <= limits[d] /\ limits[d] \in Nat
      BY <3>4, <3>6 DEF LimitAt, Sub
    <3>12. turn[k - 1] \in Nat /\ ProfitIn(t, V, profits) <= turn[k - 1]
      BY <2>7, <3>2, <3>6
    <3>13. turn[k] = turn[k - 1] + limits[d]
      BY <2>5, <3>1 DEF SumInTurn
    <3>14. turn[k] \in Nat /\ ProfitIn(t, V \cup W, profits) <= turn[k]
      BY <3>9, <3>10, <3>11, <3>12, <3>13
    <3>15. k \in 0 .. n
      OBVIOUS
    <3> QED BY <3>7, <3>14, <3>15
  <2>8. n \in S
    <3> HIDE DEF S
    <3>1. \A k \in 1 .. n : k - 1 \in S => k \in S
      BY <2>7
    <3>2. \A k \in 0 .. n : k \in S
      BY <2>4, <2>6, <3>1, CountingUp
    <3>3. n \in 0 .. n
      BY <2>4
    <3> QED BY <3>2, <3>3
  <2>9. First(n) = ChildrenOf(t, c)
    BY <2>1, <2>4 DEF ChildrenOf, ToSet
  <2>10. ProfitIn(t, Sub(t, c), profits) <= turn[n]
    <3> HIDE DEF First
    <3> QED BY <2>8, <2>9 DEF Sub
  <2>11. ProfitUpperBound(t, c, limits, profits) = turn[n]
    BY <1>3, <2>1, <2>5, BoundIs
  <2> QED BY <2>10, <2>11
<1> QED BY <1>2, <1>3

-----------------------------------------------------------------------------
(* The table is made well, step by step.                                   *)

VisitReady(t, limits, made, profits, before, n) ==
  /\ \A c \in DOMAIN limits : TableAt(t, made, limits, n, profits, c)
  /\ TableWellOn(t, limits, made, before, <<>>, profits)

LEMMA VisitWell ==
  ASSUME NEW t, WellMade(t), GuestsNumbered(t), NEW limits, NEW made, NEW profits, NEW before,
         NEW cid, NEW rest, NEW left, NEW children, NEW limits2, NEW made2, NEW n,
         VisitMade(t, limits, made, profits, cid, rest, left, children, limits2, made2),
         children = t.clusters[cid].children,
         VisitReady(t, limits, made, profits, before, n)
  PROVE  TableWellOn(t, limits2, made2, cid, children, profits)
<1>1. /\ cid \in DOMAIN t.clusters /\ cid \notin DOMAIN limits
      /\ ToSet(children) = ChildrenOf(t, cid) /\ ChildrenOf(t, cid) \subseteq DOMAIN limits
      /\ DOMAIN limits2 = DOMAIN limits \cup {cid}
      /\ limits2[cid] = ProfitUpperBound(t, cid, limits, profits)
      /\ made2[cid] = SelectionCosts(t, cid, limits2[cid], profits)
      /\ \A c \in DOMAIN limits : limits2[c] = limits[c] /\ made2[c] = made[c]
      /\ \A c \in DOMAIN limits2 : TableAt(t, made2, limits2, Len(t.leaves), profits, c)
  BY DEF VisitMade
<1>2. NoneTwice(children)
  BY <1>1 DEF WellMade, ClusterMade
<1>3. ASSUME NEW c \in DOMAIN limits
      PROVE  /\ LimitAt(t, c, limits2, profits)
             /\ EntriesWell(t, c, UsedOf(t, cid, children, c), made2[c], profits)
  <2>1. /\ LimitAt(t, c, limits, profits)
        /\ EntriesWell(t, c, UsedOf(t, before, <<>>, c), made[c], profits)
    BY DEF TableWellOn, VisitReady
  <2>2. UsedOf(t, before, <<>>, c) = ChildrenOf(t, c)
    BY DEF UsedOf, ToSet
  <2>3. UsedOf(t, cid, children, c) = ChildrenOf(t, c)
    BY <1>1 DEF UsedOf
  <2> QED BY <1>1, <2>1, <2>2, <2>3 DEF LimitAt
<1>4. LimitAt(t, cid, limits2, profits)
  <2>1. \A d \in ChildrenOf(t, cid) : limits[d] \in Nat /\ LimitAt(t, d, limits, profits)
    BY <1>1 DEF TableWellOn, TableAt, VisitReady
  <2>2. ProfitIn(t, Sub(t, cid), profits) <= ProfitUpperBound(t, cid, limits, profits)
    BY <1>1, <2>1, BoundIsEnough
  <2> QED BY <1>1, <2>2 DEF LimitAt, Sub
<1>5. EntriesWell(t, cid, UsedOf(t, cid, children, cid), made2[cid], profits)
  <2>1. UsedOf(t, cid, children, cid) = {}
    BY <1>1 DEF UsedOf
  <2>2. limits2[cid] \in Nat
    BY <1>1 DEF TableAt
  <2>3. PICK bound, new : bound = limits2[cid] /\ new = made2[cid]
    OBVIOUS
  <2>4. EntriesWell(t, cid, {}, new, profits)
    BY <1>1, <2>2, <2>3, SelectionWell
  <2> QED BY <2>1, <2>3, <2>4
<1> QED BY <1>1, <1>2, <1>3, <1>4, <1>5 DEF TableWellOn

LEMMA ChildWell ==
  ASSUME NEW t, WellMade(t), GuestsNumbered(t), NEW limits, NEW made, NEW profits,
         NEW parent \in DOMAIN limits, NEW child \in DOMAIN limits, NEW made2, NEW n, NEW rest, NEW rest2,
         DOMAIN limits \subseteq DOMAIN t.clusters,
         UseMade(t, limits, made, profits, parent, child, made2, n),
         \A c \in DOMAIN limits : TableAt(t, made, limits, n, profits, c),
         rest \in Seq(DOMAIN t.clusters), rest # <<>>, child = Head(rest), rest2 = Tail(rest),
         TableWellOn(t, limits, made, parent, rest, profits)
  PROVE  TableWellOn(t, limits, made2, parent, rest2, profits)
<1>1. /\ NoneTwice(rest) /\ ToSet(rest) \subseteq ChildrenOf(t, parent)
      /\ \A c \in DOMAIN limits : /\ LimitAt(t, c, limits, profits)
                                  /\ EntriesWell(t, c, UsedOf(t, parent, rest, c), made[c], profits)
  BY DEF TableWellOn
<1>2. PICK C : C = DOMAIN t.clusters
  OBVIOUS
<1>3. child \in ToSet(rest) /\ NoneTwice(rest2) /\ ToSet(rest2) = ToSet(rest) \ {child}
  BY <1>1, <1>2, TailNoneTwice
<1>4. child \in ChildrenOf(t, parent) /\ child # parent /\ parent \in DOMAIN t.clusters
  <2>1. child \in ChildrenOf(t, parent) /\ parent \in DOMAIN t.clusters
    BY <1>1, <1>3
  <2>2. ChildrenOf(t, parent) = {d \in DOMAIN t.clusters \ {RootCluster} : t.clusters[d].parent = parent}
    BY <2>1, ChildrenHave
  <2>3. child \in DOMAIN t.clusters /\ child # RootCluster /\ t.clusters[child].parent = parent
    BY <2>1, <2>2
  <2>4. \A c \in DOMAIN t.clusters : c # RootCluster => t.clusters[c].parent < c
    BY MadeHas
  <2>5. DOMAIN t.clusters \subseteq Nat
    BY MadeHas
  <2>6. parent < child /\ child \in Nat
    BY <2>3, <2>4, <2>5
  <2> QED BY <2>1, <2>3, <2>6
<1>5. PICK U : U = UsedOf(t, parent, rest, parent)
  OBVIOUS
<1>6. U \in SUBSET ChildrenOf(t, parent) /\ child \notin U
  BY <1>3, <1>5 DEF UsedOf
<1>7. UsedOf(t, parent, rest2, parent) = U \cup {child}
  BY <1>3, <1>4, <1>5 DEF UsedOf
<1>8. PICK old, new, bound : old = made[parent] /\ new = made2[parent] /\ bound = limits[parent]
  OBVIOUS
<1>9. TableAt(t, made, limits, n, profits, parent) /\ TableAt(t, made, limits, n, profits, child)
      /\ TableAt(t, made2, limits, n, profits, parent)
  BY DEF UseMade
<1>10. UsedOf(t, parent, rest, child) = ChildrenOf(t, child)
  BY <1>4 DEF UsedOf
<1>11. ReadyToUse(t, parent, U, child, made, limits, old, bound, n, profits)
  <2>1. bound \in Nat /\ old \in EntriesOver(t, parent, bound, n)
    BY <1>8, <1>9 DEF TableAt
  <2>2. limits[child] \in Nat /\ made[child] \in EntriesOver(t, child, limits[child], n)
    BY <1>9 DEF TableAt
  <2>3. EntriesWell(t, parent, U, old, profits)
    BY <1>1, <1>5, <1>8
  <2>4. EntriesWell(t, child, ChildrenOf(t, child), made[child], profits) /\ LimitAt(t, child, limits, profits)
    BY <1>1, <1>10
  <2> QED BY <2>1, <2>2, <2>3, <2>4 DEF ReadyToUse
<1>12. new \in EntriesOver(t, parent, bound, n)
  BY <1>8, <1>9 DEF TableAt
<1>13. \A key \in DOMAIN old : CheapestJoint(t, made, limits, old, child, key, new[key])
  BY <1>8 DEF UseMade
<1>14. EntriesWell(t, parent, U \cup {child}, new, profits)
  BY <1>4, <1>6, <1>11, <1>12, <1>13, UseWell
<1>15. ASSUME NEW c \in DOMAIN limits
       PROVE  EntriesWell(t, c, UsedOf(t, parent, rest2, c), made2[c], profits)
  <2>1. CASE c = parent
    BY <1>7, <1>8, <1>14, <2>1
  <2>2. CASE c # parent
    <3>1. made2[c] = made[c]
      BY <2>2 DEF UseMade
    <3>2. UsedOf(t, parent, rest2, c) = UsedOf(t, parent, rest, c)
      BY <2>2 DEF UsedOf
    <3> QED BY <1>1, <3>1, <3>2
  <2> QED BY <2>1, <2>2
<1> QED BY <1>1, <1>3, <1>15 DEF TableWellOn

LEMMA TableWellKept ==
  ASSUME MaxInv, TableWell, [Next]_vars
  PROVE  TableWell'
<1>1. /\ TableTyped /\ TableMade /\ WellMade(tree)
      /\ (phase = "tabulating" => GuestsNumbered(tree) /\ Len(tree.leaves) = Len(instance))
  BY TableIsThere DEF TableThere
<1>2. CASE UNCHANGED vars
  BY <1>2 DEF vars, input, search, table, TableWell, Profits
<1>3. ASSUME phase' # "tabulating" PROVE TableWell'
  BY <1>3 DEF TableWell
<1>4. CASE Parse
  BY <1>3, <1>4, ParseLeaves
<1>5. CASE MaximiseUnlimited \/ MaximiseMiddle
  BY <1>3, <1>5 DEF MaximiseUnlimited, MaximiseMiddle, Maximise
<1>6. CASE ReturnUnlimited \/ Narrow \/ ReturnBest \/ Throw
  BY <1>3, <1>6 DEF ReturnUnlimited, Narrow, ReturnBest, Throw
<1>7. CASE FillBySubsets \/ StopAtEmptyHost \/ EndSearch
  BY <1>3, <1>7 DEF FillBySubsets, StopAtEmptyHost, EndSearch
<1>8. CASE KeepHost \/ PlaceSubset \/ EndFilling
  BY <1>3, <1>8 DEF KeepHost, PlaceSubset, EndFilling
<1>9. CASE FillByTable
  <2>1. bounds' = <<>> /\ below' = below /\ phase # "tabulating"
    BY <1>9 DEF FillByTable
  <2>2. below' = <<>>
    BY <1>1, <2>1 DEF TableMade
  <2>3. DOMAIN bounds' = {} /\ NoneTwice(below') /\ ToSet(below') = {}
    BY <2>1, <2>2 DEF NoneTwice, ToSet
  <2> QED BY <2>3 DEF TableWell, TableWellOn
<1>10. CASE VisitCluster
  <2>1. UNCHANGED <<input, phase, search>> /\ phase = "tabulating" /\ below = <<>>
    BY <1>10, VisitLeaves
  <2>2. tree' = tree /\ Profits' = Profits
    BY <2>1 DEF input, search, Profits
  <2>3. VisitMade(tree, bounds, costs, Profits, visited', frontier', unvisited', below', bounds', costs')
    BY <1>10, VisitKeeps
  <2>4. below' = tree.clusters[visited'].children
    BY <1>10, VisitDoes DEF VisitedTo
  <2>5. \A c \in DOMAIN bounds : TableAt(tree, costs, bounds, Len(instance), Profits, c)
    BY <1>1, <2>1 DEF TableMade
  <2>6. VisitReady(tree, bounds, costs, Profits, visited, Len(instance))
    BY <2>1, <2>5 DEF TableWell, VisitReady
  <2>7. TableWellOn(tree, bounds', costs', visited', below', Profits)
    BY <1>1, <2>1, <2>3, <2>4, <2>6, VisitWell
  <2> QED BY <2>2, <2>7 DEF TableWell
<1>11. CASE UseChild
  <2>1. UNCHANGED <<input, phase, search, frontier, unvisited, visited, bounds>>
        /\ phase = "tabulating" /\ below # <<>> /\ below' = Tail(below)
    BY <1>11, UseLeaves
  <2>2. tree' = tree /\ Profits' = Profits /\ bounds' = bounds /\ visited' = visited
    BY <2>1 DEF input, search, Profits
  <2>3. PICK child : child = Head(below)
    OBVIOUS
  <2>4. UsedTo(tree, bounds, costs, visited, child, costs')
    BY <1>11, <2>3, UseDoes
  <2>5. /\ DOMAIN costs = DOMAIN bounds /\ DOMAIN bounds \subseteq DOMAIN tree.clusters
        /\ visited \in DOMAIN bounds /\ ToSet(below) \subseteq DOMAIN bounds
        /\ \A c \in DOMAIN bounds : TableAt(tree, costs, bounds, Len(instance), Profits, c)
        /\ below \in Seq(DOMAIN tree.clusters)
    BY <1>1, <2>1 DEF TableTyped, TableMade
  <2>6. child \in DOMAIN bounds
    <3>1. child \in ToSet(below)
      BY <2>1, <2>3, <2>5, HeadTailOf
    <3> QED BY <2>5, <3>1
  <2>7. UseMade(tree, bounds, costs, Profits, visited, child, costs', Len(instance))
    BY <1>1, <2>4, <2>5, <2>6, UseMakes
  <2>8. TableWellOn(tree, bounds, costs, visited, below, Profits)
    BY <2>1 DEF TableWell
  <2>9. TableWellOn(tree, bounds, costs', visited, below', Profits)
    BY <1>1, <2>1, <2>3, <2>5, <2>6, <2>7, <2>8, ChildWell
  <2> QED BY <2>2, <2>9 DEF TableWell
<1>12. CASE TakeMostProfitable \/ TakeNone
  BY <1>3, <1>12 DEF TakeMostProfitable, TakeNone, EndTable
<1> QED BY <1>2, <1>4, <1>5, <1>6, <1>7, <1>8, <1>9, <1>10, <1>11, <1>12 DEF Next, Solve

-----------------------------------------------------------------------------
(* No page twice on a path, as long as the builder is offered none.        *)

Grown(t, new, parents, pages) ==
    /\ DOMAIN t.nodes \subseteq DOMAIN new.nodes
    /\ \A n \in DOMAIN t.nodes : /\ new.nodes[n].parents = t.nodes[n].parents
                                 /\ new.nodes[n].pages = t.nodes[n].pages
    /\ \A n \in DOMAIN new.nodes \ DOMAIN t.nodes :
          new.nodes[n].parents = parents /\ new.nodes[n].pages = pages
    /\ parents \subseteq DOMAIN t.nodes
    /\ pages \cap ReachingPages(t, parents, {}) = {}

LEMMA ApartKept ==
  ASSUME NEW t, WellMade(t), NEW new, WellMade(new), NEW parents, NEW pages,
         Grown(t, new, parents, pages), PathsApart(t)
  PROVE  PathsApart(new)
<1>1. \A n \in DOMAIN t.nodes : Reach(new, n) = Reach(t, n)
  <2>1. DOMAIN t.nodes \subseteq DOMAIN new.nodes
        /\ \A n \in DOMAIN t.nodes : /\ new.nodes[n].parents = t.nodes[n].parents
                                     /\ new.nodes[n].pages = t.nodes[n].pages
    BY DEF Grown
  <2> QED BY <2>1, ReachSame
<1>2. ASSUME NEW ps, ps \subseteq DOMAIN t.nodes
      PROVE  {Reach(new, p) : p \in ps} = {Reach(t, p) : p \in ps}
  BY <1>1, <1>2
<1>3. ASSUME NEW n \in DOMAIN t.nodes
      PROVE  new.nodes[n].pages \cap UNION {Reach(new, p) : p \in new.nodes[n].parents} = {}
  <2>1. PICK ps, own : ps = t.nodes[n].parents /\ own = t.nodes[n].pages
    OBVIOUS
  <2>2. ps \subseteq DOMAIN t.nodes
    BY <2>1, MadeHas
  <2>3. own \cap UNION {Reach(t, p) : p \in ps} = {}
    BY <2>1 DEF PathsApart
  <2>4. {Reach(new, p) : p \in ps} = {Reach(t, p) : p \in ps}
    BY <1>2, <2>2
  <2>5. new.nodes[n].parents = ps /\ new.nodes[n].pages = own
    BY <2>1 DEF Grown
  <2> QED BY <2>3, <2>4, <2>5
<1>4. ASSUME NEW n \in DOMAIN new.nodes \ DOMAIN t.nodes
      PROVE  new.nodes[n].pages \cap UNION {Reach(new, p) : p \in new.nodes[n].parents} = {}
  <2>1. parents \subseteq DOMAIN t.nodes /\ pages \cap ReachingPages(t, parents, {}) = {}
    BY DEF Grown
  <2>2. ReachingPages(t, parents, {}) = {} \cup UNION {Reach(t, p) : p \in parents}
    BY ReachUnfolds
  <2>3. {Reach(new, p) : p \in parents} = {Reach(t, p) : p \in parents}
    BY <1>2, <2>1
  <2>4. new.nodes[n].parents = parents /\ new.nodes[n].pages = pages
    BY DEF Grown
  <2> QED BY <2>1, <2>2, <2>3, <2>4
<1> QED BY <1>3, <1>4 DEF PathsApart

LEMMA PathsApartAtFirst == PathsApart(EmptyTree)
<1>1. DOMAIN EmptyTree.nodes = {}
  BY DEF EmptyTree
<1> QED BY <1>1 DEF PathsApart

LEMMA PathsApartKept ==
  ASSUME MaxInv, MaxInv', PathsApart(tree), [Next]_vars
  PROVE  PathsApart(tree')
<1>1. PICK old, new : old = tree /\ new = tree'
  OBVIOUS
<1>2. WellMade(old) /\ WellMade(new) /\ PathsApart(old)
  BY <1>1 DEF MaxInv, TreeBuilt
<1>3. ASSUME tree' = tree PROVE PathsApart(tree')
  BY <1>3
<1>4. ASSUME DOMAIN new.nodes = DOMAIN old.nodes,
             \A n \in DOMAIN old.nodes : /\ new.nodes[n].parents = old.nodes[n].parents
                                         /\ new.nodes[n].pages = old.nodes[n].pages
      PROVE  PathsApart(tree')
  <2>1. PICK none : none = {}
    OBVIOUS
  <2>2. Grown(old, new, none, none)
    BY <1>4, <2>1 DEF Grown
  <2> QED BY <1>1, <1>2, <2>2, ApartKept
<1>5. CASE UNCHANGED vars
  BY <1>3, <1>5 DEF vars, input
<1>6. CASE Solve
  BY <1>3, <1>6, InputStays DEF input
<1>7. ASSUME NEW parent, ParseCluster(parent) PROVE PathsApart(tree')
  <2>1. tree' = CreateCluster(tree, parent)
    BY <1>7 DEF ParseCluster
  <2>2. new.nodes = old.nodes
    BY <1>1, <2>1 DEF CreateCluster
  <2> QED BY <1>4, <2>2
<1>8. ASSUME NEW parents \in PossibleParents, NEW pages \in SUBSET Page, ParseInnerNode(parents, pages)
      PROVE  PathsApart(tree')
  <2>1. /\ phase = "building" /\ pages \cap ReachingPages(old, parents, {}) = {}
        /\ new = AddInnerNode(old, current, parents, pages)
    BY <1>1, <1>8 DEF ParseInnerNode, MayAdd
  <2>2. PICK cid, nid : cid = current /\ nid = NodeCount(old)
    OBVIOUS
  <2>3. MayParent(old, cid, parents) /\ Inner(old, cid) /\ cid \in DOMAIN old.clusters
    BY <1>1, <2>1, <2>2, OfferedParents DEF MaxInv, TreeBuilt
  <2>4. InnerNodeAdded(old, new, cid, nid, parents, pages)
    BY <1>2, <2>1, <2>2, <2>3, AddInnerNodeMade
  <2>5. parents \subseteq DOMAIN old.nodes
    <3>1. CASE cid = RootCluster
      BY <2>3, <3>1 DEF MayParent
    <3>2. CASE cid # RootCluster
      <4>1. PICK c : c = old.clusters[cid].parent
        OBVIOUS
      <4>2. c \in DOMAIN old.clusters /\ parents \subseteq NodesOf(old, c)
        BY <1>2, <2>3, <3>2, <4>1, MadeHas DEF MayParent
      <4> QED BY <1>2, <4>2, MadeHas
    <3> QED BY <3>1, <3>2
  <2>6. Grown(old, new, parents, pages)
    BY <2>1, <2>4, <2>5 DEF Grown, InnerNodeAdded
  <2> QED BY <1>1, <1>2, <2>6, ApartKept
<1>9. ASSUME NEW parents \in PossibleParents, NEW pages \in SUBSET Page, ParseLeafNode(parents, pages)
      PROVE  PathsApart(tree')
  <2>1. /\ phase = "building" /\ pages \cap ReachingPages(old, parents, {}) = {}
        /\ new = AddLeafNode(old, parents, pages) /\ parents # {}
    BY <1>1, <1>9 DEF ParseLeafNode, MayAdd
  <2>2. PICK c, cid, nid : c = old.clusters[current].parent /\ cid = ClusterCount(old) /\ nid = NodeCount(old)
    OBVIOUS
  <2>3. Inner(old, c) /\ parents \subseteq NodesOf(old, c)
    BY <1>1, <2>1, <2>2, OfferedParents DEF MayParent
  <2>4. LeafNodeAdded(old, new, cid, nid, parents, pages)
    BY <1>2, <2>1, <2>2, <2>3, AddLeafNodeMade
  <2>5. parents \subseteq DOMAIN old.nodes
    BY <1>2, <2>3, MadeHas DEF Inner
  <2>6. Grown(old, new, parents, pages)
    BY <2>1, <2>4, <2>5 DEF Grown, LeafNodeAdded
  <2> QED BY <1>1, <1>2, <2>6, ApartKept
<1>10. CASE BuildTree
  <2>1. new = Build(old)
    BY <1>1, <1>10 DEF BuildTree
  <2> QED BY <1>2, <1>4, <2>1, BuildMade
<1> QED BY <1>5, <1>6, <1>7, <1>8, <1>9, <1>10 DEF Next, Parse

-----------------------------------------------------------------------------
(* What the entries of the root say of guests.                             *)

(* With each of its nodes, a set has the nodes above. *)
UpClosed(t, N) == \A n \in N : t.nodes[n].parents \subseteq N

LEMMA ReachWithin ==
  ASSUME NEW t, WellMade(t), NEW N \in SUBSET DOMAIN t.nodes, UpClosed(t, N)
  PROVE  \A n \in N : Reach(t, n) \subseteq PagesIn(t, N)
<1> DEFINE S == {n \in Nat : n \in N => Reach(t, n) \subseteq PagesIn(t, N)}
<1>1. ASSUME NEW n \in Nat, \A m \in Nat : m < n => m \in S PROVE n \in S
  <2> SUFFICES ASSUME n \in N PROVE Reach(t, n) \subseteq PagesIn(t, N)
    OBVIOUS
  <2>1. PICK ps, own : ps = t.nodes[n].parents /\ own = t.nodes[n].pages
    OBVIOUS
  <2>2. Reach(t, n) = own \cup UNION {Reach(t, p) : p \in ps}
    BY <2>1, ReachUnfolds
  <2>3. \A p \in ps : p \in N /\ p \in Nat /\ p < n
    BY <2>1, MadeHas DEF UpClosed
  <2>4. \A p \in ps : Reach(t, p) \subseteq PagesIn(t, N)
    BY <1>1, <2>3
  <2>5. own \subseteq PagesIn(t, N)
    BY <2>1 DEF PagesIn
  <2> QED BY <2>2, <2>4, <2>5
<1>2. Nat \subseteq S
  <2> HIDE DEF S
  <2> QED BY <1>1, SmallerFirst
<1>3. N \subseteq Nat
  BY MadeHas
<1> QED BY <1>2, <1>3

LEMMA OneParent ==
  ASSUME NEW t, WellMade(t), SingleParents(t), NEW n \in DOMAIN t.nodes
  PROVE  t.nodes[n].parents = {} \/ \E p \in DOMAIN t.nodes : t.nodes[n].parents = {p}
<1>1. PICK ps : ps = t.nodes[n].parents
  OBVIOUS
<1>2. ps \subseteq DOMAIN t.nodes /\ IsFiniteSet(DOMAIN t.nodes)
  BY <1>1, MadeHas, CountedHas DEF WellMade
<1>3. IsFiniteSet(ps) /\ Cardinality(ps) \in Nat
  BY <1>2, FS_Subset, FS_CardinalityType
<1>4. Cardinality(ps) <= 1
  BY <1>1 DEF SingleParents
<1>5. Cardinality(ps) = 0 \/ Cardinality(ps) = 1
  BY <1>3, <1>4
<1>6. ps = {} \/ \E p : ps = {p}
  BY <1>3, <1>5, FS_EmptySet, FS_Singleton
<1> QED BY <1>1, <1>2, <1>6

(* A node and those above it, when no node has two parents: the pages that *)
(* reach it, none of them twice.                                           *)
PathTo(t, n, N) ==
    /\ n \in N /\ UpClosed(t, N) /\ ApartOn(t, N)
    /\ PagesIn(t, N) \subseteq Reach(t, n)

LEMMA PathUp ==
  ASSUME NEW t, WellMade(t), SingleParents(t), PathsApart(t)
  PROVE  \A n \in DOMAIN t.nodes : \E N \in SUBSET DOMAIN t.nodes : PathTo(t, n, N)
<1> DEFINE S == {n \in Nat : n \in DOMAIN t.nodes => \E N \in SUBSET DOMAIN t.nodes : PathTo(t, n, N)}
<1>1. ASSUME NEW n \in Nat, \A m \in Nat : m < n => m \in S PROVE n \in S
  <2> SUFFICES ASSUME n \in DOMAIN t.nodes PROVE \E N \in SUBSET DOMAIN t.nodes : PathTo(t, n, N)
    OBVIOUS
  <2>1. PICK ps, own : ps = t.nodes[n].parents /\ own = t.nodes[n].pages
    OBVIOUS
  <2>2. Reach(t, n) = own \cup UNION {Reach(t, p) : p \in ps}
    BY <2>1, ReachUnfolds
  <2>3. CASE ps = {}
    <3>1. PICK N : N = {n}
      OBVIOUS
    <3>2. PagesIn(t, N) \subseteq Reach(t, n)
      BY <2>1, <2>2, <3>1 DEF PagesIn
    <3>3. UpClosed(t, N) /\ ApartOn(t, N)
      BY <2>1, <2>3, <3>1 DEF UpClosed, ApartOn
    <3> QED BY <3>1, <3>2, <3>3 DEF PathTo
  <2>4. CASE ps # {}
    <3>1. PICK p \in DOMAIN t.nodes : ps = {p}
      BY <2>1, <2>4, OneParent
    <3>2. p \in Nat /\ p < n
      BY <2>1, <3>1, MadeHas
    <3>3. PICK M \in SUBSET DOMAIN t.nodes : PathTo(t, p, M)
      BY <1>1, <3>2
    <3>4. PICK N : N = M \cup {n}
      OBVIOUS
    <3>5. Reach(t, n) = own \cup Reach(t, p)
      BY <2>2, <3>1
    <3>6. own \cap Reach(t, p) = {}
      <4>1. own \cap UNION {Reach(t, q) : q \in ps} = {}
        BY <2>1 DEF PathsApart
      <4> QED BY <3>1, <4>1
    <3>7. \A m \in M : t.nodes[m].pages \subseteq Reach(t, p)
      BY <3>3 DEF PathTo, PagesIn
    <3>8. ApartOn(t, N)
      BY <2>1, <3>3, <3>4, <3>6, <3>7 DEF ApartOn, PathTo
    <3>9. UpClosed(t, N)
      <4>1. \A m \in M : t.nodes[m].parents \subseteq M
        BY <3>3 DEF UpClosed, PathTo
      <4>2. t.nodes[n].parents \subseteq M
        BY <2>1, <3>1, <3>3 DEF PathTo
      <4> QED BY <3>4, <4>1, <4>2 DEF UpClosed
    <3>10. PagesIn(t, N) \subseteq Reach(t, n)
      BY <2>1, <3>4, <3>5, <3>7 DEF PagesIn
    <3>11. n \in N /\ N \in SUBSET DOMAIN t.nodes
      BY <3>4
    <3> QED BY <3>8, <3>9, <3>10, <3>11 DEF PathTo
  <2> QED BY <2>3, <2>4
<1>2. Nat \subseteq S
  <2> HIDE DEF S
  <2> QED BY <1>1, SmallerFirst
<1>3. DOMAIN t.nodes \subseteq Nat
  BY MadeHas
<1> QED BY <1>2, <1>3

(* The sets of nodes that entries of the root stand for. *)
LEMMA RootSelects ==
  ASSUME NEW t, WellMade(t), NEW N \in SUBSET DOMAIN t.nodes
  PROVE  /\ UpClosed(t, N) =>
               Selects(t, RootCluster, ChildrenOf(t, RootCluster), N \cap NodesOf(t, RootCluster), N)
         /\ \A S : SingleParents(t) /\ Selects(t, RootCluster, ChildrenOf(t, RootCluster), S, N) =>
               UpClosed(t, N)
         /\ Sub(t, RootCluster) = DOMAIN t.nodes
<1>1. RootCluster \in DOMAIN t.clusters
  BY DEF WellMade
<1>2. NodesOf(t, RootCluster) = {n \in DOMAIN t.nodes : t.nodes[n].cluster = RootCluster}
  BY <1>1, MadeHas
<1>3. \A n \in DOMAIN t.nodes : t.nodes[n].parents = {} <=> t.nodes[n].cluster = RootCluster
  BY MadeHas
<1>4. Sub(t, RootCluster) = DOMAIN t.nodes
  <2>1. Sub(t, RootCluster) = {n \in DOMAIN t.nodes : RootCluster \in ClusterPath(t, t.nodes[n].cluster)}
    BY <1>1, SubIs
  <2>2. \A n \in DOMAIN t.nodes : t.nodes[n].cluster \in DOMAIN t.clusters
    BY MadeHas
  <2>3. \A c \in DOMAIN t.clusters : RootCluster \in ClusterPath(t, c)
    BY ClusterPathFacts
  <2> QED BY <2>1, <2>2, <2>3
<1>5. ASSUME UpClosed(t, N)
      PROVE  Selects(t, RootCluster, ChildrenOf(t, RootCluster), N \cap NodesOf(t, RootCluster), N)
  <2>1. ASSUME NEW n \in N \ (N \cap NodesOf(t, RootCluster)) PROVE t.nodes[n].parents \cap N # {}
    BY <1>2, <1>3, <1>5 DEF UpClosed
  <2>2. N \subseteq Under(t, RootCluster, ChildrenOf(t, RootCluster))
    BY <1>4 DEF Sub
  <2> QED BY <2>1, <2>2 DEF Selects
<1>6. ASSUME NEW S, SingleParents(t), Selects(t, RootCluster, ChildrenOf(t, RootCluster), S, N)
      PROVE  UpClosed(t, N)
  <2>1. ASSUME NEW n \in N PROVE t.nodes[n].parents \subseteq N
    <3>1. CASE n \in S
      BY <1>2, <1>3, <1>6, <3>1 DEF Selects
    <3>2. CASE n \notin S
      <4>1. t.nodes[n].parents \cap N # {}
        BY <1>6, <3>2 DEF Selects
      <4> QED BY <1>6, <4>1, OneParent
    <3> QED BY <3>1, <3>2
  <2> QED BY <2>1 DEF UpClosed
<1> QED BY <1>4, <1>5, <1>6

RootTable(t, limits, made, profits, n) ==
    /\ WellMade(t) /\ GuestsNumbered(t)
    /\ TableAt(t, made, limits, n, profits, RootCluster)
    /\ EntriesWell(t, RootCluster, ChildrenOf(t, RootCluster), made[RootCluster], profits)
    /\ LimitAt(t, RootCluster, limits, profits)

(* Nodes that would fit a host, for this profit. *)
Offers(t, N, p, profits) ==
    /\ N \subseteq DOMAIN t.nodes /\ UpClosed(t, N) /\ ApartOn(t, N)
    /\ Cardinality(PagesIn(t, N)) <= Capacity
    /\ p <= ProfitIn(t, N, profits)

(* The most profitable entries make no less profit than any such nodes.    *)
LEMMA RootFinds ==
  ASSUME NEW t, NEW limits, NEW made, NEW profits, NEW n, RootTable(t, limits, made, profits, n),
         NEW N, NEW p \in Nat \ {0}, Offers(t, N, p, profits)
  PROVE  MostProfitableAtRoot(made) # {} /\ \A key \in MostProfitableAtRoot(made) : p <= key[2]
<1>1. WellMade(t) /\ GuestsNumbered(t) /\ N \in SUBSET DOMAIN t.nodes
  BY DEF RootTable, Offers
<1>2. PICK entries, bound, S : /\ entries = made[RootCluster] /\ bound = limits[RootCluster]
                               /\ S = N \cap NodesOf(t, RootCluster)
  OBVIOUS
<1>3. bound \in Nat /\ entries \in EntriesOver(t, RootCluster, bound, n)
  BY <1>2 DEF RootTable, TableAt
<1>4. DOMAIN entries = KeysOf(t, RootCluster, bound)
  BY <1>3 DEF EntriesOver
<1>5. Selects(t, RootCluster, ChildrenOf(t, RootCluster), S, N)
  BY <1>1, <1>2, RootSelects DEF Offers
<1>6. p <= bound
  <2>1. ProfitIn(t, DOMAIN t.nodes, profits) <= bound
    <3>1. Sub(t, RootCluster) = DOMAIN t.nodes
      BY <1>1, RootSelects
    <3> QED BY <1>2, <3>1 DEF RootTable, LimitAt, Sub
  <2>2. PICK M : M = DOMAIN t.nodes
    OBVIOUS
  <2>3. N \cup M = M /\ M \in SUBSET DOMAIN t.nodes
    BY <1>1, <2>2
  <2>4. /\ ProfitIn(t, N, profits) \in Nat /\ ProfitIn(t, M, profits) \in Nat
        /\ ProfitIn(t, N, profits) <= ProfitIn(t, N \cup M, profits)
    BY <1>1, <2>3, ProfitsAdd
  <2>5. ProfitIn(t, N, profits) <= ProfitIn(t, M, profits)
    BY <2>3, <2>4
  <2>6. p <= ProfitIn(t, N, profits)
    BY DEF Offers
  <2> QED BY <1>3, <2>1, <2>2, <2>4, <2>5, <2>6
<1>7. PICK key : key = <<S, p>>
  OBVIOUS
<1>8. key \in DOMAIN entries /\ key[1] = S /\ key[2] = p
  BY <1>2, <1>3, <1>4, <1>6, <1>7 DEF KeysOf
<1>9. Enough(t, RootCluster, ChildrenOf(t, RootCluster), key, profits, N)
  BY <1>5, <1>8 DEF Enough, Offers
<1>10. entries[key].pageCount <= Cardinality(PagesIn(t, N))
  BY <1>1, <1>2, <1>8, <1>9 DEF RootTable, EntriesWell, EntryBest
<1>11. IsFinite(entries[key])
  <2>1. entries[key] \in EntryOver(n)
    BY <1>3, <1>4, <1>8 DEF EntriesOver
  <2>2. entries[key].pageCount \in Nat
    BY <2>1 DEF EntryOver
  <2>3. Cardinality(PagesIn(t, N)) \in Nat
    BY <1>1, PagesInHave
  <2>4. Cardinality(PagesIn(t, N)) <= Capacity
    BY DEF Offers
  <2> QED BY <1>10, <2>2, <2>3, <2>4, HostAssumption DEF IsFinite
<1> DEFINE Feasible == {k \in DOMAIN entries : k[2] > 0 /\ IsFinite(entries[k])}
<1>12. key \in Feasible
  BY <1>8, <1>11
<1>13. MostProfitableAtRoot(made) = {k \in Feasible : \A other \in Feasible : other[2] <= k[2]}
  BY <1>2 DEF MostProfitableAtRoot
<1>14. \E k \in Feasible : \A other \in Feasible : other[2] <= k[2]
  <2>1. PICK made2 : made2 = {k[2] : k \in Feasible}
    OBVIOUS
  <2>2. made2 \in SUBSET (1 .. bound)
    BY <1>3, <1>4, <2>1 DEF KeysOf
  <2>3. made2 # {}
    BY <1>12, <2>1
  <2>4. Max(made2) \in made2 /\ \A i \in made2 : i <= Max(made2)
    BY <1>3, <2>2, <2>3, MaxOfBounded
  <2> QED BY <2>1, <2>4
<1> HIDE DEF Feasible
<1> QED BY <1>8, <1>12, <1>13, <1>14

(* Guests and their numbers. *)
Numbers(G) == {g.id : g \in G}

LEMMA NumbersOf ==
  ASSUME NEW inst, IsInstance(inst), NEW G \in SUBSET GuestsOf(inst)
  PROVE  /\ Numbers(G) \subseteq 1 .. Len(inst)
         /\ \A i \in Numbers(G) : inst[i] \in G
         /\ \A i \in 1 .. Len(inst) : inst[i] \in G => i \in Numbers(G)
         /\ IsFiniteSet(G) /\ IsFiniteSet(Numbers(G))
         /\ Cardinality(Numbers(G)) = Cardinality(G) /\ Cardinality(G) \in Nat
<1>1. \A g \in G : g.id \in 1 .. Len(inst) /\ inst[g.id] = g
  BY DEF GuestsOf, IsInstance
<1>2. \A i \in 1 .. Len(inst) : inst[i].id = i
  BY DEF IsInstance
<1>3. G \in SUBSET Guest
  BY InstanceGuests
<1>4. IsFiniteSet(G)
  BY <1>3, GuestFinite
<1> DEFINE f == [g \in G |-> g.id]
<1>5. f \in Bijection(G, Numbers(G))
  <2>1. f \in [G -> Numbers(G)]
    BY DEF Numbers
  <2>2. \A g, h \in G : f[g] = f[h] => g = h
    BY <1>1
  <2>3. \A i \in Numbers(G) : \E g \in G : f[g] = i
    BY DEF Numbers
  <2> HIDE DEF f
  <2> QED BY <2>1, <2>2, <2>3 DEF Bijection, Injection, IsInjective, Surjection
<1>6. IsFiniteSet(Numbers(G)) /\ Cardinality(Numbers(G)) = Cardinality(G)
  BY <1>4, <1>5, FS_Bijection DEF ExistsBijection
<1> HIDE DEF f
<1>7. Cardinality(G) \in Nat
  BY <1>4, FS_CardinalityType
<1>8. /\ Numbers(G) \subseteq 1 .. Len(inst)
      /\ \A i \in Numbers(G) : inst[i] \in G
      /\ \A i \in 1 .. Len(inst) : inst[i] \in G => i \in Numbers(G)
  BY <1>1, <1>2 DEF Numbers
<1> QED BY <1>4, <1>6, <1>7, <1>8

(* The tree and the guests that are given to its leaves. *)
Served(t, inst) ==
    WellMade(t) /\ GuestsNumbered(t) /\ IsInstance(inst) /\ LeavesHavePages(t, inst)

(* Guests make a profit for nodes that have their leaves.                  *)
LEMMA ProfitOfGuests ==
  ASSUME NEW t, NEW inst, Served(t, inst), NEW G \in SUBSET GuestsOf(inst),
         NEW profits, Numbers(G) \subseteq profits,
         NEW N \in SUBSET DOMAIN t.nodes, \A i \in Numbers(G) : t.leaves[i] \in N
  PROVE  Cardinality(G) <= ProfitIn(t, N, profits)
<1>1. WellMade(t) /\ GuestsNumbered(t) /\ IsInstance(inst) /\ Len(t.leaves) = Len(inst)
  BY DEF Served, LeavesHavePages
<1>2. Numbers(G) \subseteq 1 .. Len(inst) /\ Cardinality(Numbers(G)) = Cardinality(G)
  BY <1>1, NumbersOf
<1>3. DOMAIN t.leaves = 1 .. Len(inst) /\ Len(inst) \in Nat
  BY <1>1, LenProperties DEF WellMade, LeavesMade
<1>4. PICK made : made = GuestsOfNodes(t, N)
  OBVIOUS
<1>5. ASSUME NEW i \in Numbers(G) PROVE i \in made
  <2>1. i \in DOMAIN t.leaves /\ t.leaves[i] \in N
    BY <1>2, <1>3
  <2>2. t.leaves[i] \in ToSet(t.leaves)
    BY <2>1 DEF ToSet
  <2>3. IsLeafNode(t, t.leaves[i]) /\ t.nodes[t.leaves[i]].guest = i
    BY <1>1, <1>2, <2>1, <2>2 DEF GuestsNumbered
  <2> QED BY <1>4, <2>1, <2>3 DEF GuestsOfNodes
<1>6. Numbers(G) \in SUBSET (made \cap profits)
  BY <1>5
<1>7. IsFiniteSet(made \cap profits)
  <2>1. made \subseteq 1 .. Len(t.leaves)
    BY <1>1, <1>4, GuestsOfNodesIn
  <2>2. IsFiniteSet(1 .. Len(inst)) /\ made \cap profits \subseteq 1 .. Len(inst)
    BY <1>1, <1>3, <2>1, UpTo
  <2> QED BY <2>2, FS_Subset
<1>8. Cardinality(Numbers(G)) <= Cardinality(made \cap profits)
  BY <1>6, <1>7, FS_Subset
<1> QED BY <1>2, <1>4, <1>8 DEF ProfitIn

(* The nodes that have no other pages than these guests: all those that    *)
(* reach them.                                                             *)
LEMMA NodesFor ==
  ASSUME NEW t, NEW inst, Served(t, inst), PagesApart(t), NEW G \in SUBSET GuestsOf(inst),
         FitTogether(G), NEW profits, Numbers(G) \subseteq profits
  PROVE  \E N : Offers(t, N, Cardinality(G), profits)
<1>1. WellMade(t) /\ IsInstance(inst) /\ LeavesHavePages(t, inst)
  BY DEF Served
<1>2. PICK N : N = {n \in DOMAIN t.nodes : Reach(t, n) \subseteq PagesOf(G)}
  OBVIOUS
<1>3. N \in SUBSET DOMAIN t.nodes
  BY <1>2
<1>4. UpClosed(t, N)
  <2> SUFFICES ASSUME NEW n \in N, NEW p \in t.nodes[n].parents PROVE p \in N
    BY DEF UpClosed
  <2>1. p \in DOMAIN t.nodes
    BY <1>1, <1>3, MadeHas
  <2>2. PICK ps, own : ps = t.nodes[n].parents /\ own = t.nodes[n].pages
    OBVIOUS
  <2>3. Reach(t, n) = own \cup UNION {Reach(t, q) : q \in ps}
    BY <1>1, <1>3, <2>2, ReachUnfolds
  <2>4. Reach(t, p) \subseteq Reach(t, n)
    BY <2>2, <2>3
  <2> QED BY <1>2, <2>1, <2>4
<1>5. ApartOn(t, N)
  BY <1>3 DEF ApartOn, PagesApart
<1>6. PagesIn(t, N) \subseteq PagesOf(G)
  <2> SUFFICES ASSUME NEW n \in N PROVE t.nodes[n].pages \subseteq PagesOf(G)
    BY DEF PagesIn
  <2>1. PICK ps, own : ps = t.nodes[n].parents /\ own = t.nodes[n].pages
    OBVIOUS
  <2>2. Reach(t, n) = own \cup UNION {Reach(t, q) : q \in ps}
    BY <1>1, <1>3, <2>1, ReachUnfolds
  <2> QED BY <1>2, <2>1, <2>2
<1>7. Cardinality(PagesIn(t, N)) <= Capacity
  <2>1. G \in SUBSET Guest
    BY <1>1, InstanceGuests
  <2>2. IsFiniteSet(PagesOf(G)) /\ PagesIn(t, N) \in SUBSET PagesOf(G)
    BY <1>6, <2>1, GuestFinite
  <2>3. /\ Cardinality(PagesIn(t, N)) <= Cardinality(PagesOf(G))
        /\ Cardinality(PagesIn(t, N)) \in Nat /\ Cardinality(PagesOf(G)) \in Nat
    BY <2>2, FS_Subset, FS_CardinalityType
  <2>4. Cardinality(PagesOf(G)) <= Capacity
    BY DEF FitTogether
  <2> QED BY <2>3, <2>4, HostAssumption
<1>8. ASSUME NEW i \in Numbers(G) PROVE t.leaves[i] \in N
  <2>1. i \in 1 .. Len(inst) /\ inst[i] \in G
    BY <1>1, NumbersOf
  <2>2. inst[i].pages = Reach(t, t.leaves[i]) /\ Len(t.leaves) = Len(inst)
    BY <1>1, <2>1 DEF LeavesHavePages
  <2>3. Reach(t, t.leaves[i]) \subseteq PagesOf(G)
    BY <2>1, <2>2 DEF PagesOf
  <2>4. t.leaves[i] \in DOMAIN t.nodes
    BY <1>1, <2>1, <2>2, ElementOfSeq DEF WellMade, LeavesMade
  <2> QED BY <1>2, <2>3, <2>4
<1>9. Cardinality(G) <= ProfitIn(t, N, profits)
  BY <1>3, <1>8, ProfitOfGuests
<1> QED BY <1>3, <1>4, <1>5, <1>7, <1>9 DEF Offers

(* For one guest, the nodes on the path to its leaf.                       *)
LEMMA NodesForOne ==
  ASSUME NEW t, NEW inst, Served(t, inst), SingleParents(t), PathsApart(t),
         NEW g \in GuestsOf(inst), FitTogether({g}), NEW profits, g.id \in profits
  PROVE  \E N : Offers(t, N, 1, profits)
<1>1. WellMade(t) /\ IsInstance(inst) /\ LeavesHavePages(t, inst)
  BY DEF Served
<1>2. PICK G : G = {g}
  OBVIOUS
<1>3. G \in SUBSET GuestsOf(inst) /\ Numbers(G) = {g.id} /\ PagesOf(G) = g.pages
  BY <1>2 DEF Numbers, PagesOf
<1>4. g.id \in 1 .. Len(inst) /\ inst[g.id] = g
  BY <1>1 DEF GuestsOf, IsInstance
<1>5. PICK l : l = t.leaves[g.id]
  OBVIOUS
<1>6. l \in DOMAIN t.nodes /\ g.pages = Reach(t, l)
  <2>1. Len(t.leaves) = Len(inst) /\ inst[g.id].pages = Reach(t, l)
    BY <1>1, <1>4, <1>5 DEF LeavesHavePages
  <2>2. l \in DOMAIN t.nodes
    BY <1>1, <1>4, <1>5, <2>1, ElementOfSeq DEF WellMade, LeavesMade
  <2> QED BY <1>4, <2>1, <2>2
<1>7. PICK N \in SUBSET DOMAIN t.nodes : PathTo(t, l, N)
  BY <1>1, <1>6, PathUp
<1>8. Cardinality(G) <= ProfitIn(t, N, profits)
  <2>1. \A i \in Numbers(G) : t.leaves[i] \in N
    BY <1>3, <1>5, <1>7 DEF PathTo
  <2> QED BY <1>3, <2>1, ProfitOfGuests
<1>9. Cardinality(G) = 1
  BY <1>2, FS_Singleton
<1>10. Cardinality(PagesIn(t, N)) <= Capacity
  <2>1. G \in SUBSET Guest
    BY <1>1, <1>3, InstanceGuests
  <2>2. IsFiniteSet(PagesOf(G)) /\ PagesIn(t, N) \in SUBSET PagesOf(G)
    BY <1>3, <1>6, <1>7, <2>1, GuestFinite DEF PathTo
  <2>3. /\ Cardinality(PagesIn(t, N)) <= Cardinality(PagesOf(G))
        /\ Cardinality(PagesIn(t, N)) \in Nat /\ Cardinality(PagesOf(G)) \in Nat
    BY <2>2, FS_Subset, FS_CardinalityType
  <2>4. Cardinality(PagesOf(G)) <= Capacity
    BY <1>2 DEF FitTogether
  <2> QED BY <2>3, <2>4, HostAssumption
<1> QED BY <1>7, <1>8, <1>9, <1>10 DEF Offers, PathTo

(* The guests of an entry of the root, with single parents: they have no   *)
(* more pages than the entry says, and all make a profit.                  *)
GuestsAt(inst, made, key) == {inst[id] : id \in made[RootCluster][key].guests}

AreTaken(G, key, worth) ==
    /\ G \in SUBSET worth /\ FitTogether(G)
    /\ key[2] <= Cardinality(G) /\ key[2] \in Nat \ {0}

LEMMA EntryHosts ==
  ASSUME NEW t, NEW inst, Served(t, inst), SingleParents(t),
         NEW limits, NEW made, NEW profits, NEW n, RootTable(t, limits, made, profits, n),
         n = Len(inst), NEW key \in MostProfitableAtRoot(made),
         NEW worth \in SUBSET GuestsOf(inst), profits = Numbers(worth),
         NEW G, G = GuestsAt(inst, made, key)
  PROVE  AreTaken(G, key, worth)
<1> USE DEF GuestsAt
<1>1. WellMade(t) /\ GuestsNumbered(t) /\ IsInstance(inst) /\ LeavesHavePages(t, inst)
  BY DEF Served
<1>2. PICK entries, entry, bound :
         entries = made[RootCluster] /\ entry = entries[key] /\ bound = limits[RootCluster]
  OBVIOUS
<1>3. bound \in Nat /\ entries \in EntriesOver(t, RootCluster, bound, n)
  BY <1>2 DEF RootTable, TableAt
<1>4. key \in DOMAIN entries /\ key[2] > 0 /\ IsFinite(entry)
  BY <1>2 DEF MostProfitableAtRoot
<1>5. key \in KeysOf(t, RootCluster, bound) /\ entry \in EntryOver(n)
  BY <1>2, <1>3, <1>4 DEF EntriesOver
<1>6. EntryMeans(t, RootCluster, ChildrenOf(t, RootCluster), key, entry, profits)
  BY <1>2, <1>4 DEF RootTable, EntriesWell
<1>7. PICK N \in SUBSET DOMAIN t.nodes :
         /\ Selects(t, RootCluster, ChildrenOf(t, RootCluster), key[1], N)
         /\ Cardinality(PagesIn(t, N)) <= entry.pageCount
         /\ entry.guests = GuestsOfNodes(t, N)
         /\ key[2] <= ProfitIn(t, N, profits)
         /\ entry.guests \subseteq profits
  BY <1>4, <1>6 DEF EntryMeans
<1>8. UpClosed(t, N)
  BY <1>1, <1>7, RootSelects
<1>9. entry.guests \subseteq 1 .. Len(inst)
  BY <1>5 DEF EntryOver
<1>10. G \in SUBSET worth
  <2>1. \A i \in Numbers(worth) : inst[i] \in worth
    BY <1>1, NumbersOf
  <2> QED BY <1>2, <1>7, <2>1
<1>11. Numbers(G) = entry.guests
  <2>1. \A i \in 1 .. Len(inst) : inst[i].id = i
    BY <1>1 DEF IsInstance
  <2> QED BY <1>2, <1>9, <2>1 DEF Numbers
<1>12. key[2] <= Cardinality(G)
  <2>1. G \in SUBSET GuestsOf(inst)
    BY <1>10
  <2>2. Cardinality(Numbers(G)) = Cardinality(G)
    BY <1>1, <2>1, NumbersOf
  <2>3. GuestsOfNodes(t, N) \cap profits = Numbers(G)
    BY <1>7, <1>11
  <2> QED BY <1>7, <2>2, <2>3 DEF ProfitIn
<1>13. PagesOf(G) \subseteq PagesIn(t, N)
  <2> SUFFICES ASSUME NEW g \in G PROVE g.pages \subseteq PagesIn(t, N)
    BY DEF PagesOf
  <2>1. PICK i \in entry.guests : g = inst[i]
    BY <1>2
  <2>2. PICK m \in N : IsLeafNode(t, m) /\ t.nodes[m].guest = i
    BY <1>7, <2>1 DEF GuestsOfNodes
  <2>3. m \in ToSet(t.leaves)
    BY <1>1, <2>2 DEF GuestsNumbered
  <2>4. PICK j \in DOMAIN t.leaves : m = t.leaves[j]
    BY <2>3 DEF ToSet
  <2>5. DOMAIN t.leaves = 1 .. Len(t.leaves)
    BY <1>1, LenProperties DEF WellMade, LeavesMade
  <2>6. j = i
    BY <1>1, <2>2, <2>4, <2>5 DEF GuestsNumbered
  <2>7. g.pages = Reach(t, m)
    BY <1>1, <1>9, <2>1, <2>4, <2>6 DEF LeavesHavePages
  <2> QED BY <1>1, <1>8, <2>2, <2>7, ReachWithin
<1>14. FitTogether(G)
  <2>1. IsFiniteSet(PagesIn(t, N)) /\ Cardinality(PagesIn(t, N)) \in Nat
    BY <1>1, PagesInHave
  <2>2. Cardinality(PagesOf(G)) <= Cardinality(PagesIn(t, N)) /\ Cardinality(PagesOf(G)) \in Nat
    BY <1>13, <2>1, FS_Subset, FS_CardinalityType
  <2>3. entry.pageCount <= Capacity /\ entry.pageCount \in Nat
    BY <1>4, <1>5 DEF IsFinite, EntryOver
  <2> QED BY <1>7, <2>1, <2>2, <2>3, HostAssumption DEF FitTogether
<1>15. key[2] \in Nat
  BY <1>3, <1>5 DEF KeysOf
<1> QED BY <1>4, <1>10, <1>12, <1>14, <1>15 DEF AreTaken

LEMMA RootIsWell ==
  ASSUME MaxInv, TableWell, EndTable
  PROVE  /\ Served(tree, instance)
         /\ RootTable(tree, bounds, costs, Profits, Len(instance))
<1>1. phase = "tabulating" /\ frontier = <<>> /\ below = <<>>
  BY DEF EndTable
<1>2. /\ TableMade /\ WellMade(tree) /\ solver = "cluster_tree" /\ GuestsNumbered(tree)
      /\ IsInstance(instance) /\ LeavesHavePages(tree, instance)
  BY <1>1, TableIsThere DEF TableThere, MaxInv, TreeBuilt
<1>3. PICK B : B = DOMAIN bounds
  OBVIOUS
<1>4. Queued(tree, <<>>, unvisited, B)
  BY <1>1, <1>2, <1>3 DEF TableMade
<1>5. RootCluster \in DOMAIN bounds
  BY <1>2, <1>3, <1>4, QueuedAtLast DEF WellMade
<1>6. TableAt(tree, costs, bounds, Len(instance), Profits, RootCluster)
  BY <1>1, <1>2, <1>5 DEF TableMade
<1>7. /\ LimitAt(tree, RootCluster, bounds, Profits)
      /\ EntriesWell(tree, RootCluster, UsedOf(tree, visited, below, RootCluster), costs[RootCluster], Profits)
  BY <1>1, <1>5 DEF TableWell, TableWellOn
<1>8. UsedOf(tree, visited, below, RootCluster) = ChildrenOf(tree, RootCluster)
  BY <1>1 DEF UsedOf, ToSet
<1> QED BY <1>2, <1>6, <1>7, <1>8 DEF RootTable, Served

LEMMA FilledByTableKept ==
  ASSUME MaxInv, PathsApart(tree), TableWell, FilledByTable, [Next]_vars
  PROVE  FilledByTable'
<1>1. CASE UNCHANGED vars
  BY <1>1 DEF vars, call, input, search, FilledByTable, Guests, Fitting
<1>2. ASSUME phase' # "filled" PROVE FilledByTable'
  BY <1>2 DEF FilledByTable
<1>3. CASE Parse
  BY <1>2, <1>3, ParseLeaves
<1>4. CASE MaximiseUnlimited \/ MaximiseMiddle
  BY <1>2, <1>4 DEF MaximiseUnlimited, MaximiseMiddle, Maximise
<1>5. CASE ReturnUnlimited \/ Narrow \/ ReturnBest \/ Throw
  BY <1>2, <1>5 DEF ReturnUnlimited, Narrow, ReturnBest, Throw
<1>6. CASE FillBySubsets \/ FillByTable \/ KeepHost \/ StopAtEmptyHost \/ EndSearch
  BY <1>2, <1>6 DEF FillBySubsets, FillByTable, KeepHost, StopAtEmptyHost, EndSearch
<1>7. CASE PlaceSubset
  BY <1>2, <1>7 DEF PlaceSubset, MaxInv, CallMade
<1>8. CASE EndFilling
  <2>1. phase = "filling" /\ solver' = solver
    BY <1>8 DEF EndFilling, call
  <2>2. solver' # "cluster_tree"
    BY <2>1 DEF MaxInv, CallMade
  <2> QED BY <2>2 DEF FilledByTable
<1>9. CASE VisitCluster \/ UseChild
  <2>1. phase' = phase /\ phase = "tabulating"
    BY <1>9, VisitLeaves, UseLeaves
  <2> QED BY <1>2, <2>1
<1>10. CASE TakeMostProfitable \/ TakeNone
  <2>1. EndTable
    BY <1>10 DEF TakeMostProfitable, TakeNone
  <2>2. tree' = tree /\ instance' = instance /\ profitable' = profitable /\ phase' = "filled"
    BY <2>1 DEF EndTable, input, search
  <2> SUFFICES ASSUME SingleParents(tree)
               PROVE  /\ ~IsOverfull(host')
                      /\ host'.guests \subseteq profitable
                      /\ host'.guests = {} => profitable \cap Fitting = {}
                      /\ PagesApart(tree) =>
                            \A S \in SUBSET profitable :
                                FitTogether(S) => Cardinality(S) <= Cardinality(host'.guests \cap profitable)
    BY <2>2 DEF FilledByTable, Fitting, Guests
  <2>3. PICK n, profits : n = Len(instance) /\ profits = Profits
    OBVIOUS
  <2>4. Served(tree, instance) /\ RootTable(tree, bounds, costs, profits, n)
    BY <2>1, <2>3, RootIsWell
  <2>5. profits = Numbers(profitable) /\ profitable \in SUBSET GuestsOf(instance) /\ IsInstance(instance)
    BY <2>3 DEF Profits, Numbers, MaxInv, SearchTyped, TreeBuilt, Guests
  <2>6. ASSUME PagesApart(tree), NEW S \in SUBSET profitable, FitTogether(S), S # {}
        PROVE  /\ Cardinality(S) \in Nat \ {0} /\ MostProfitableAtRoot(costs) # {}
               /\ \A key \in MostProfitableAtRoot(costs) : Cardinality(S) <= key[2]
    <3>1. S \in SUBSET GuestsOf(instance)
      BY <2>5
    <3>2. Cardinality(S) \in Nat \ {0}
      BY <2>5, <2>6, <3>1, NumbersOf, FS_EmptySet
    <3>3. Numbers(S) \subseteq profits
      BY <2>5 DEF Numbers
    <3>4. PICK N, p : p = Cardinality(S) /\ Offers(tree, N, p, profits)
      BY <2>4, <2>6, <3>1, <3>3, NodesFor
    <3> QED BY <2>4, <3>2, <3>4, RootFinds
  <2>7. ASSUME NEW g \in profitable, g \in Fitting PROVE MostProfitableAtRoot(costs) # {}
    <3>1. g \in GuestsOf(instance) /\ FitTogether({g}) /\ g.id \in profits
      BY <2>5, <2>7 DEF Fitting, Numbers
    <3>2. PICK N, p : p = 1 /\ Offers(tree, N, p, profits)
      BY <2>4, <3>1, NodesForOne
    <3> QED BY <2>4, <3>2, RootFinds
  <2>8. CASE TakeNone
    <3>1. host' = EmptyHost /\ MostProfitableAtRoot(costs) = {}
      BY <2>8 DEF TakeNone
    <3>2. host'.guests = {} /\ ~IsOverfull(host')
      BY <3>1, EmptyHostFits DEF EmptyHost
    <3>3. profitable \cap Fitting = {}
      BY <2>7, <3>1
    <3>4. ASSUME PagesApart(tree), NEW S \in SUBSET profitable, FitTogether(S)
          PROVE  Cardinality(S) <= Cardinality(host'.guests \cap profitable)
      <4>1. S = {} /\ host'.guests \cap profitable = {}
        BY <2>6, <3>1, <3>2, <3>4
      <4> QED BY <4>1, FS_EmptySet
    <3> QED BY <3>2, <3>3, <3>4
  <2>9. CASE TakeMostProfitable
    <3>1. PICK key \in MostProfitableAtRoot(costs) :
             host' = HostOf({instance[id] : id \in costs[RootCluster][key].guests})
      BY <2>9 DEF TakeMostProfitable
    <3>2. PICK G : G = GuestsAt(instance, costs, key)
      OBVIOUS
    <3>3. G \in SUBSET profitable /\ FitTogether(G) /\ key[2] <= Cardinality(G) /\ key[2] \in Nat \ {0}
      <4>1. AreTaken(G, key, profitable)
        BY <2>3, <2>4, <2>5, <3>2, EntryHosts
      <4> QED BY <4>1 DEF AreTaken
    <3>4. G \in SUBSET Guest
      BY <2>5, <3>3, InstanceGuests
    <3>5. FrequenciesMatch(host') /\ host'.guests = G
      BY <3>1, <3>2, <3>4, HostOfMatches DEF GuestsAt
    <3>6. Cardinality(G) \in Nat
      BY <2>5, <3>3, NumbersOf
    <3>7. ~IsOverfull(host')
      <4>1. Cardinality(PagesOf(G)) \in Nat
        BY <3>4, PagesGrow
      <4>2. Cardinality(PagesOf(G)) <= Capacity
        BY <3>3 DEF FitTogether
      <4> QED BY <3>5, <4>1, <4>2, OverfullMeans, HostAssumption
    <3>8. host'.guests # {}
      BY <3>3, <3>5, FS_EmptySet
    <3>9. ASSUME PagesApart(tree), NEW S \in SUBSET profitable, FitTogether(S)
          PROVE  Cardinality(S) <= Cardinality(host'.guests \cap profitable)
      <4>1. host'.guests \cap profitable = G
        BY <3>3, <3>5
      <4>2. CASE S = {}
        BY <3>6, <4>1, <4>2, FS_EmptySet
      <4>3. CASE S # {}
        <5>1. Cardinality(S) \in Nat /\ Cardinality(S) <= key[2]
          BY <2>6, <3>9, <4>3
        <5> QED BY <3>3, <3>6, <4>1, <5>1
      <4> QED BY <4>2, <4>3
    <3> QED BY <3>3, <3>5, <3>7, <3>8, <3>9
  <2> QED BY <1>10, <2>8, <2>9
<1> QED BY <1>1, <1>3, <1>4, <1>5, <1>6, <1>7, <1>8, <1>9, <1>10 DEF Next, Solve

LEMMA WellInvInductive == Spec => []WellInv
<1>1. Init => WellInv
  <2> SUFFICES ASSUME Init PROVE WellInv
    OBVIOUS
  <2>1. phase \in {"building", "choosing"} /\ tree = EmptyTree
    BY DEF Init
  <2> QED BY <2>1, PathsApartAtFirst DEF WellInv, FillingWell, TableWell, FilledByTable
<1>2. MaxInv /\ MaxInv' /\ WellInv /\ [Next]_vars => WellInv'
  <2> SUFFICES ASSUME MaxInv, MaxInv', WellInv, [Next]_vars PROVE WellInv'
    OBVIOUS
  <2>1. FillingWell /\ PathsApart(tree) /\ TableWell /\ FilledByTable
    BY DEF WellInv
  <2>2. FillingWell'
    BY <2>1, FillingKept
  <2>3. PathsApart(tree')
    BY <2>1, PathsApartKept
  <2>4. TableWell'
    BY <2>1, TableWellKept
  <2>5. FilledByTable'
    BY <2>1, FilledByTableKept
  <2> QED BY <2>2, <2>3, <2>4, <2>5 DEF WellInv
<1> QED BY <1>1, <1>2, MaxInvInductive, PTL DEF Spec

(* Every host a maximiser fills is filled well: nothing that is worth      *)
(* placing would still fit, and the table makes the profit no other guests *)
(* would exceed (vmp_maximisers.cpp:74-83, 300-376).                       *)
THEOREM HostsFilledWell == Spec => []FilledWell
<1>1. WellInv => FilledWell
  BY DEF WellInv, FillingWell, FilledByTable, FilledWell
<1> QED BY <1>1, WellInvInductive, PTL

-----------------------------------------------------------------------------
(* Packings of the search: every guest of a set once, on hosts that are    *)
(* neither empty nor overfull.                                             *)

NoneOverfull(hs) == \A i \in DOMAIN hs : ~IsOverfull(hs[i])

Holding(hs, G) ==
    TrueHosts(hs) /\ NoGuestTwice(hs) /\ NoneOverfull(hs) /\ PlacedGuests(hs) = G

FullOf(hs, G) == Holding(hs, G) /\ \A i \in DOMAIN hs : hs[i].guests # {}

LEMMA NothingHeld == FullOf(<<>>, {}) /\ Len(<<>>) = 0
<1>1. GoodHosts(<<>>) /\ PlacedGuests(<<>>) = {} /\ NoGuestTwice(<<>>)
  BY EmptyHosts
<1>2. DOMAIN <<>> = {}
  OBVIOUS
<1> QED BY <1>1, <1>2 DEF FullOf, Holding, NoneOverfull, GoodHosts

(* A guest on a host that is not overfull fits one by itself. *)
LEMMA HeldFit ==
  ASSUME NEW hs, NEW G, Holding(hs, G)
  PROVE  G \subseteq Guest /\ \A g \in G : FitTogether({g})
<1>1. ASSUME NEW g \in G PROVE g \in Guest /\ FitTogether({g})
  <2>1. PICK i \in DOMAIN hs : g \in hs[i].guests
    BY DEF Holding, PlacedGuests
  <2>2. FrequenciesMatch(hs[i]) /\ hs[i].guests \in SUBSET Guest /\ ~IsOverfull(hs[i])
    BY <2>1, TrueHostsHave DEF Holding, NoneOverfull
  <2>3. ~(Cardinality(PagesOf(hs[i].guests)) > Capacity)
    BY <2>2, OverfullMeans
  <2>4. {g} \in SUBSET hs[i].guests
    BY <2>1
  <2>5. /\ Cardinality(PagesOf({g})) <= Cardinality(PagesOf(hs[i].guests))
        /\ Cardinality(PagesOf({g})) \in Nat /\ Cardinality(PagesOf(hs[i].guests)) \in Nat
    BY <2>2, <2>4, PagesGrow
  <2> QED BY <2>1, <2>2, <2>3, <2>5, HostAssumption DEF FitTogether
<1> QED BY <1>1

(* Decanting leaves such a packing of the same guests. *)
LEMMA DecantingHolds ==
  ASSUME NEW hs, NEW G, FullOf(hs, G), NEW result \in DecantResults(hs)
  PROVE  FullOf(result, G)
<1> DEFINE V == {vs \in Seq(HostSet) : Holding(vs, G)}
<1>1. hs \in V
  BY DEF FullOf, Holding, TrueHosts
<1>2. ASSUME NEW vs \in V, NEW i \in DOMAIN vs, NEW j \in DOMAIN vs, i # j,
             NEW part \in SUBSET vs[j].guests, NEW new, new = MovePart(vs, i, j, part)
      PROVE  new \in V /\ Len(new) = Len(vs) /\ vs[j].guests \ part \subseteq new[j].guests
  <2>1. CASE ~AccommodatesGuests(vs[i], part)
    BY <1>2, <2>1 DEF MovePart
  <2>2. CASE AccommodatesGuests(vs[i], part)
    <3>1. TrueHosts(vs) /\ NoGuestTwice(vs) /\ NoneOverfull(vs) /\ PlacedGuests(vs) = G
      BY DEF Holding
    <3>2. TrueHosts(new) /\ GuestsMoved(vs, new, i, j, part)
      BY <1>2, <2>2, <3>1, MovePartTrue
    <3>3. /\ DOMAIN new = DOMAIN vs /\ i # j
          /\ \A k \in DOMAIN vs : new[k].guests = IF k = i THEN vs[k].guests \cup part
                                                 ELSE IF k = j THEN vs[k].guests \ part ELSE vs[k].guests
      BY <1>2, <3>2 DEF GuestsMoved
    <3>4. /\ Len(vs) \in Nat /\ DOMAIN vs = 1 .. Len(vs)
          /\ Len(new) \in Nat /\ DOMAIN new = 1 .. Len(new)
          /\ \A k \in DOMAIN vs : IsHost(vs[k]) /\ FrequenciesMatch(vs[k]) /\ vs[k].guests \subseteq Guest
          /\ \A k \in DOMAIN new : IsHost(new[k]) /\ FrequenciesMatch(new[k]) /\ new[k].guests \subseteq Guest
      BY <3>1, <3>2, TrueHostsHave
    <3>5. Len(new) = Len(vs)
      BY <3>3, <3>4
    <3>6. NoGuestTwice(new)
      BY <3>1, <3>3 DEF NoGuestTwice
    <3>7. PlacedGuests(new) = G
      <4>1. PlacedGuests(new) \subseteq PlacedGuests(vs)
        BY <3>3 DEF PlacedGuests
      <4>2. PlacedGuests(vs) \subseteq PlacedGuests(new)
        <5> SUFFICES ASSUME NEW k \in DOMAIN vs, NEW g \in vs[k].guests
                     PROVE  \E m \in DOMAIN new : g \in new[m].guests
          BY DEF PlacedGuests
        <5>1. CASE k = j /\ g \in part
          <6>1. g \in new[i].guests /\ i \in DOMAIN new
            BY <3>3, <5>1
          <6> QED BY <6>1
        <5>2. CASE ~(k = j /\ g \in part)
          <6>1. g \in new[k].guests /\ k \in DOMAIN new
            BY <3>3, <5>2
          <6> QED BY <6>1
        <5> QED BY <5>1, <5>2
      <4> QED BY <3>1, <4>1, <4>2
    <3>8. ASSUME NEW k \in DOMAIN new PROVE ~IsOverfull(new[k])
      <4>1. k \in DOMAIN vs
        BY <3>3
      <4>2. CASE k = i
        <5>1. PICK old, grown : old = vs[i] /\ grown = new[i]
          OBVIOUS
        <5>2. IsHost(old) /\ FrequenciesMatch(old) /\ part \in SUBSET Guest /\ AccommodatesGuests(old, part)
          BY <2>2, <3>4, <5>1
        <5>3. Holds(grown, old.guests \cup part)
          BY <3>3, <3>4, <4>2, <5>1 DEF Holds
        <5> QED BY <4>2, <5>1, <5>2, <5>3, AddedFits
      <4>3. CASE k # i
        <5>1. new[k].guests \in SUBSET vs[k].guests
          BY <3>3, <4>1, <4>3
        <5>2. /\ Cardinality(PagesOf(new[k].guests)) <= Cardinality(PagesOf(vs[k].guests))
              /\ Cardinality(PagesOf(new[k].guests)) \in Nat /\ Cardinality(PagesOf(vs[k].guests)) \in Nat
          BY <3>4, <4>1, <5>1, PagesGrow
        <5>3. ~(Cardinality(PagesOf(vs[k].guests)) > Capacity)
          BY <3>1, <3>4, <4>1, OverfullMeans DEF NoneOverfull
        <5>4. ~(Cardinality(PagesOf(new[k].guests)) > Capacity)
          BY <5>2, <5>3, HostAssumption
        <5> QED BY <3>4, <5>4, OverfullMeans
      <4> QED BY <4>2, <4>3
    <3>9. new \in Seq(HostSet) /\ Holding(new, G)
      BY <3>2, <3>6, <3>7, <3>8 DEF Holding, NoneOverfull, TrueHosts
    <3>10. vs[j].guests \ part \subseteq new[j].guests
      BY <3>3
    <3> QED BY <3>5, <3>9, <3>10
  <2> QED BY <2>1, <2>2
<1>3. ASSUME NEW vs \in V
      PROVE  /\ Len(vs) \in Nat /\ DOMAIN vs = 1 .. Len(vs)
             /\ \A k \in DOMAIN vs : vs[k].guests \subseteq Guest
  BY TrueHostsHave DEF Holding
<1>4. ASSUME NEW vs \in V, NEW new, new = EraseEmpty(vs)
      PROVE  new \in V /\ FullOf(new, G)
  <2>1. TrueHosts(vs) /\ NoGuestTwice(vs) /\ NoneOverfull(vs) /\ PlacedGuests(vs) = G
    BY DEF Holding
  <2>2. /\ GoodHosts(new) /\ NoGuestTwice(new)
        /\ PlacedGuests(new) = PlacedGuests(vs)
        /\ \A k \in DOMAIN new : \E i \in DOMAIN vs : new[k] = vs[i]
    BY <1>4, <2>1, EraseEmptyTrue
  <2>3. NoneOverfull(new)
    BY <2>1, <2>2 DEF NoneOverfull
  <2> QED BY <2>1, <2>2, <2>3 DEF FullOf, Holding, GoodHosts, TrueHosts
<1> HIDE DEF V
<1>5. MovesWithin(V)
  BY <1>2, <1>3 DEF MovesWithin
<1>6. ErasesWithin(V)
  BY <1>4 DEF ErasesWithin
<1>7. PICK w \in V : result = EraseEmpty(w)
  BY <1>1, <1>5, <1>6, DecantWithin
<1> QED BY <1>4, <1>7

(* The search, of a maximiser that fills hosts for profit only: guests are *)
(* on the hosts or offered for profit, each host has one more at the       *)
(* least, and the attempt ends when none that is left fits a host, or with *)
(* as many hosts as are allowed.  An attempt fails with fewer hosts than   *)
(* guests.                                                                 *)
WellSearched ==
    /\ AtAttempt =>
          /\ FullOf(hosts, Guests \ profitable)
          /\ placed = Cardinality(Guests \ profitable)
          /\ Len(hosts) <= placed
          /\ unlimited => allowed = Unlimited
    /\ phase = "maximised" => profitable \cap Fitting = {} \/ Len(hosts) >= allowed
    /\ ~unlimited =>
          /\ \A hs \in best : FullOf(hs, Guests)
          /\ best = {} =>
                /\ maxHosts = Len(instance)
                /\ Guests # {} /\ Fitting = Guests => minHosts <= Len(instance)
    /\ phase = "returned" => FullOf(hosts, IF unlimited THEN Fitting ELSE Guests)
    /\ phase = "thrown" => Guests = {} \/ Fitting # Guests

ResultInv == Exact => WellSearched

LEMMA DecantedHolds ==
  ASSUME NEW G, FullOf(hosts, G), NEW result \in Decanted
  PROVE  FullOf(result, G)
<1>1. PICK hs : hs = hosts
  OBVIOUS
<1>2. FullOf(hs, G)
  BY <1>1
<1>3. CASE decant
  <2>1. result \in DecantResults(hs)
    BY <1>1, <1>3 DEF Decanted
  <2> QED BY <1>2, <2>1, DecantingHolds
<1>4. CASE ~decant
  <2>1. result = hs
    BY <1>1, <1>4 DEF Decanted
  <2> QED BY <1>2, <2>1
<1> QED BY <1>3, <1>4

(* How many guests are not offered for profit any more.                    *)
LEMMA PlacedCounts ==
  ASSUME MaxInv
  PROVE  /\ Len(instance) \in Nat /\ Len(instance) <= MaxGuests
         /\ Cardinality(Guests \ profitable) \in Nat
         /\ Cardinality(Guests \ profitable) <= Len(instance)
         /\ Cardinality(Guests \ profitable) = Len(instance) => profitable = {}
         /\ profitable = {} => Cardinality(Guests \ profitable) = Len(instance)
         /\ Len(instance) = 0 => Guests = {}
         /\ Len(instance) > 0 \/ Guests = {}
<1>1. IsInstance(instance) /\ profitable \subseteq Guests
  BY DEF MaxInv, TreeBuilt, SearchTyped
<1>2. Len(instance) \in Nat /\ Len(instance) <= MaxGuests
  BY <1>1, LenProperties DEF IsInstance
<1>3. Cardinality(Guests) = Len(instance)
  BY <1>1, InstanceCounts DEF Guests
<1>4. PICK G, P : G = Guests /\ P = Guests \ profitable
  OBVIOUS
<1>5. IsFiniteSet(G)
  <2>1. G \in SUBSET Guest
    BY <1>1, <1>4, InstanceGuests DEF Guests
  <2> QED BY <2>1, GuestFinite
<1>6. P \in SUBSET G
  BY <1>4
<1>7. /\ IsFiniteSet(P) /\ Cardinality(P) <= Cardinality(G)
      /\ Cardinality(G) = Cardinality(P) => G = P
  BY <1>5, <1>6, FS_Subset
<1>8. Cardinality(P) \in Nat
  BY <1>7, FS_CardinalityType
<1>9. G = P <=> profitable = {}
  BY <1>1, <1>4
<1>10. Cardinality(G) = 0 => G = {}
  BY <1>5, FS_EmptySet
<1>11. PICK n, all, some : n = Len(instance) /\ all = Cardinality(G) /\ some = Cardinality(P)
  OBVIOUS
<1>12. n \in Nat /\ some \in Nat /\ all = n /\ some <= n /\ n <= MaxGuests
  BY <1>2, <1>3, <1>4, <1>7, <1>8, <1>11
<1>13. (some = n => profitable = {}) /\ (profitable = {} => some = n)
  BY <1>7, <1>9, <1>11, <1>12
<1>14. n = 0 => Guests = {}
  BY <1>4, <1>10, <1>11, <1>12
<1>15. n > 0 \/ Guests = {}
  BY <1>12, <1>14
<1> QED BY <1>4, <1>11, <1>12, <1>13, <1>14, <1>15

(* A host without guests that is filled well leaves none that fits.        *)
LEMMA NothingLeft ==
  ASSUME MaxInv, WellInv, Exact, phase = "filled", host.guests = {}
  PROVE  profitable \cap Fitting = {}
<1>1. solver \in {"subset_efficiency", "cluster_tree"}
  BY DEF Exact
<1>2. CASE solver = "cluster_tree"
  BY <1>2 DEF Exact, WellInv, FilledByTable
<1>3. CASE solver = "subset_efficiency"
  <2> SUFFICES ASSUME NEW g \in profitable, g \in Fitting PROVE FALSE
    OBVIOUS
  <2>1. ~AccommodatesGuest(host, g)
    BY <1>3 DEF WellInv, FillingWell
  <2>2. g \in Guest /\ FitTogether({g})
    <3>1. g \in Guests /\ IsInstance(instance)
      BY DEF Fitting, MaxInv, TreeBuilt
    <3> QED BY <3>1, InstanceGuests DEF Guests, Fitting
  <2>3. IsHost(host) /\ FrequenciesMatch(host)
    BY DEF MaxInv, HostFilling
  <2>4. ~(Cardinality(PagesOf(host.guests \cup {g})) <= Capacity)
    BY <2>1, <2>2, <2>3, AccommodatesIsFits
  <2>5. host.guests \cup {g} = {g}
    OBVIOUS
  <2> QED BY <2>2, <2>4, <2>5 DEF FitTogether
<1> QED BY <1>1, <1>2, <1>3

(* A host that is kept has only guests that were offered for profit.       *)
LEMMA HostForProfit ==
  ASSUME MaxInv, WellInv, Exact, phase = "filled"
  PROVE  /\ IsHost(host) /\ FrequenciesMatch(host) /\ ~IsOverfull(host)
         /\ host.guests \subseteq profitable
<1>1. IsHost(host) /\ FrequenciesMatch(host)
  BY DEF MaxInv, HostFilling
<1>2. CASE solver = "cluster_tree"
  <2>1. solver # "subset_efficiency"
    BY <1>2
  <2> QED BY <1>1, <1>2, <2>1 DEF Exact, WellInv, FilledByTable
<1>3. CASE solver = "subset_efficiency"
  <2>1. solver # "cluster_tree"
    BY <1>3
  <2> QED BY <1>1, <1>3, <2>1 DEF Exact, WellInv, FillingWell
<1> QED BY <1>2, <1>3 DEF Exact

(* And makes one more that holds its guests.                               *)
LEMMA OneMoreHeld ==
  ASSUME NEW hs, NEW G, FullOf(hs, G), NEW h, IsHost(h), FrequenciesMatch(h), ~IsOverfull(h),
         h.guests # {}, h.guests \cap G = {}, NEW new, new = Append(hs, h)
  PROVE  FullOf(new, G \cup h.guests) /\ Len(new) = Len(hs) + 1 /\ Len(hs) \in Nat
<1>1. /\ TrueHosts(hs) /\ NoGuestTwice(hs) /\ NoneOverfull(hs) /\ PlacedGuests(hs) = G
      /\ \A i \in DOMAIN hs : hs[i].guests # {}
  BY DEF FullOf, Holding
<1>2. new = AppendHost(hs, h) /\ \A g \in h.guests : g \notin PlacedGuests(hs)
  BY <1>1 DEF AppendHost
<1>3. /\ TrueHosts(new) /\ NoGuestTwice(new)
      /\ DOMAIN new = 1 .. Len(hs) + 1 /\ Len(new) = Len(hs) + 1
      /\ \A j \in 1 .. Len(hs) : new[j] = hs[j]
      /\ new[Len(hs) + 1] = h
      /\ PlacedGuests(new) = G \cup h.guests
  BY <1>1, <1>2, AppendHostTrue
<1>4. Len(hs) \in Nat /\ DOMAIN hs = 1 .. Len(hs)
  BY <1>1, TrueHostsHave
<1>5. \A j \in DOMAIN new : (j \in DOMAIN hs /\ new[j] = hs[j]) \/ new[j] = h
  BY <1>3, <1>4
<1>6. NoneOverfull(new) /\ \A j \in DOMAIN new : new[j].guests # {}
  BY <1>1, <1>5 DEF NoneOverfull
<1> QED BY <1>3, <1>4, <1>6 DEF FullOf, Holding

LEMMA ResultKept ==
  ASSUME MaxInv, WellInv, ResultInv, [Next]_vars
  PROVE  ResultInv'
<1>1. CASE UNCHANGED vars
  BY <1>1 DEF vars, call, input, range, search, ResultInv, Exact, WellSearched, AtAttempt, Fitting, Guests
<1>2. CASE Parse
  <2>1. /\ UNCHANGED <<call, range, search>> /\ phase = "building" /\ phase' \in {"building", "choosing"}
    BY <1>2, ParseLeaves
  <2>2. unlimited /\ unlimited' = unlimited
    BY <2>1, MaximisersAssumption DEF MaxInv, CallMade, call
  <2> QED BY <2>1, <2>2 DEF ResultInv, WellSearched, AtAttempt
<1>3. CASE Solve
  <2>1. UNCHANGED input /\ UNCHANGED call
    BY <1>3, InputStays
  <2>2. /\ instance' = instance /\ tree' = tree /\ solver' = solver /\ subsetSize' = subsetSize
        /\ unlimited' = unlimited /\ Guests' = Guests /\ Fitting' = Fitting
    BY <2>1 DEF input, call, Guests, Fitting
  <2> SUFFICES ASSUME Exact, WellSearched PROVE WellSearched'
    BY <2>2 DEF ResultInv, Exact
  <2>3. ASSUME UNCHANGED <<range, search>>, AtAttempt, AtAttempt', phase' # "maximised"
        PROVE  WellSearched'
    BY <2>2, <2>3 DEF WellSearched, AtAttempt, range, search
  <2>4. CASE FillBySubsets \/ FillByTable
    BY <2>3, <2>4 DEF FillBySubsets, FillByTable, AtAttempt
  <2>5. CASE PlaceSubset \/ EndFilling
    BY <2>3, <2>5 DEF PlaceSubset, EndFilling, AtAttempt
  <2>6. CASE VisitCluster \/ UseChild
    <3>1. UNCHANGED <<range, search>> /\ phase = "tabulating" /\ phase' = phase
      BY <2>6, VisitLeaves, UseLeaves
    <3> QED BY <2>3, <3>1 DEF AtAttempt
  <2>7. CASE TakeMostProfitable \/ TakeNone
    BY <2>3, <2>7 DEF TakeMostProfitable, TakeNone, EndTable, AtAttempt
  <2>8. CASE MaximiseUnlimited \/ MaximiseMiddle
    <3>1. /\ UNCHANGED range /\ hosts' = <<>> /\ profitable' = Guests /\ placed' = 0 /\ phase' = "searching"
          /\ (unlimited => allowed' = Unlimited)
      BY <2>8 DEF MaximiseUnlimited, MaximiseMiddle, Maximise
    <3>2. PICK G : G = Guests' \ profitable'
      OBVIOUS
    <3>3. G = {}
      BY <2>2, <3>1, <3>2
    <3>4. FullOf(hosts', G) /\ Cardinality(G) = 0 /\ Len(hosts') = 0
      BY <3>1, <3>3, NothingHeld, FS_EmptySet
    <3> QED BY <2>2, <3>1, <3>2, <3>4 DEF WellSearched, range, Unlimited
  <2>9. CASE EndSearch
    <3>1. /\ UNCHANGED <<range, search>> /\ phase = "searching" /\ phase' = "maximised"
          /\ ~(placed < Len(instance) /\ Len(hosts) < allowed)
      BY <2>9 DEF EndSearch, MoreToPlace
    <3>2. FullOf(hosts, Guests \ profitable) /\ placed = Cardinality(Guests \ profitable)
      BY <3>1 DEF WellSearched, AtAttempt
    <3>3. profitable = {} \/ Len(hosts) >= allowed
      <4>1. CASE ~(placed < Len(instance))
        <5>1. Cardinality(Guests \ profitable) = Len(instance)
          BY <3>2, <4>1, PlacedCounts
        <5> QED BY <5>1, PlacedCounts
      <4>2. CASE ~(Len(hosts) < allowed)
        <5>1. Len(hosts) \in Nat /\ allowed \in Nat
          <6>1. hosts \in Seq(HostSet) /\ allowed \in 0 .. Unlimited
            BY DEF MaxInv, SearchTyped
          <6> QED BY <6>1, LenProperties, HostAssumption DEF Unlimited
        <5> QED BY <4>2, <5>1
      <4> QED BY <3>1, <4>1, <4>2
    <3> QED BY <2>2, <3>1, <3>3 DEF WellSearched, AtAttempt, range, search
  <2>10. CASE StopAtEmptyHost
    <3>1. UNCHANGED <<range, search>> /\ phase = "filled" /\ phase' = "maximised" /\ host.guests = {}
      BY <2>10 DEF StopAtEmptyHost
    <3>2. profitable \cap Fitting = {}
      BY <3>1, NothingLeft
    <3> QED BY <2>2, <3>1, <3>2 DEF WellSearched, AtAttempt, range, search
  <2>11. CASE KeepHost
    <3>1. /\ UNCHANGED range /\ phase = "filled" /\ phase' = "searching" /\ host.guests # {}
          /\ hosts' = Append(hosts, host) /\ profitable' = profitable \ host.guests
          /\ placed' = placed + Cardinality(host.guests) /\ allowed' = allowed
      BY <2>11 DEF KeepHost
    <3>2. PICK G, more : G = Guests \ profitable /\ more = host.guests
      OBVIOUS
    <3>3. /\ FullOf(hosts, G) /\ placed = Cardinality(G) /\ Len(hosts) <= placed
          /\ (unlimited => allowed = Unlimited)
      BY <3>1, <3>2 DEF WellSearched, AtAttempt
    <3>4. /\ IsHost(host) /\ FrequenciesMatch(host) /\ ~IsOverfull(host) /\ more \subseteq profitable
      BY <3>1, <3>2, HostForProfit
    <3>5. profitable \subseteq Guests /\ IsInstance(instance)
      BY DEF MaxInv, SearchTyped, TreeBuilt
    <3>6. G \cap more = {} /\ Guests \ profitable' = G \cup more
      BY <3>1, <3>2, <3>4, <3>5
    <3>7. FullOf(hosts', G \cup more) /\ Len(hosts') = Len(hosts) + 1 /\ Len(hosts) \in Nat
      <4>1. PICK hs, h, new : hs = hosts /\ h = host /\ new = hosts'
        OBVIOUS
      <4>2. /\ FullOf(hs, G) /\ IsHost(h) /\ FrequenciesMatch(h) /\ ~IsOverfull(h) /\ more = h.guests
            /\ h.guests # {} /\ h.guests \cap G = {} /\ new = Append(hs, h)
        BY <3>1, <3>2, <3>3, <3>4, <3>6, <4>1
      <4>3. FullOf(new, G \cup h.guests) /\ Len(new) = Len(hs) + 1 /\ Len(hs) \in Nat
        BY <4>2, OneMoreHeld
      <4> QED BY <4>1, <4>2, <4>3
    <3>8. /\ IsFiniteSet(G) /\ IsFiniteSet(more)
          /\ Cardinality(G) \in Nat /\ Cardinality(more) \in Nat \ {0}
          /\ Cardinality(G \cup more) = Cardinality(G) + Cardinality(more)
      <4>1. G \in SUBSET Guest /\ more \in SUBSET Guest
        BY <3>2, <3>4, <3>5, InstanceGuests DEF Guests
      <4>2. IsFiniteSet(G) /\ IsFiniteSet(more) /\ IsFiniteSet(G \cap more)
        BY <3>6, <4>1, GuestFinite, FS_EmptySet
      <4>3. Cardinality(G \cup more) = Cardinality(G) + Cardinality(more) - Cardinality(G \cap more)
        BY <4>2, FS_Union
      <4>4. Cardinality(G \cap more) = 0 /\ Cardinality(more) # 0
        BY <3>1, <3>2, <3>6, <4>2, FS_EmptySet
      <4>5. Cardinality(G) \in Nat /\ Cardinality(more) \in Nat
        BY <4>2, FS_CardinalityType
      <4> QED BY <4>2, <4>3, <4>4, <4>5
    <3>9. placed' = Cardinality(G \cup more) /\ Len(hosts') <= placed'
      BY <3>1, <3>2, <3>3, <3>7, <3>8
    <3>10. Guests' \ profitable' = G \cup more
      BY <2>2, <3>6
    <3> QED BY <2>2, <3>1, <3>3, <3>7, <3>9, <3>10 DEF WellSearched, AtAttempt, range, Unlimited
  <2>12. CASE ReturnUnlimited
    <3>1. /\ UNCHANGED range /\ phase = "maximised" /\ phase' = "returned" /\ unlimited /\ hosts' \in Decanted
      BY <2>12 DEF ReturnUnlimited
    <3>2. PICK G : G = Guests \ profitable
      OBVIOUS
    <3>3. /\ FullOf(hosts, G) /\ Len(hosts) <= Cardinality(G) /\ allowed = MaxGuests + 1
          /\ profitable \cap Fitting = {} \/ Len(hosts) >= allowed
      BY <3>1, <3>2 DEF WellSearched, AtAttempt, Unlimited
    <3>4. profitable \cap Fitting = {}
      <4>1. Len(hosts) \in Nat
        BY LenProperties DEF MaxInv, SearchTyped
      <4>2. Cardinality(G) \in Nat /\ Cardinality(G) <= Len(instance) /\ Len(instance) \in Nat
            /\ Len(instance) <= MaxGuests
        BY <3>2, PlacedCounts
      <4> QED BY <3>3, <4>1, <4>2, HostAssumption
    <3>5. G = Fitting
      <4>1. \A g \in G : FitTogether({g})
        <5>1. PICK hs : hs = hosts
          OBVIOUS
        <5>2. Holding(hs, G)
          BY <3>3, <5>1 DEF FullOf
        <5>3. G \subseteq Guest /\ \A g \in G : FitTogether({g})
          BY <5>2, HeldFit, Zenon
        <5> QED BY <5>3
      <4>2. \A g : g \in Fitting <=> g \in Guests /\ FitTogether({g})
        BY DEF Fitting
      <4>3. \A g : g \in G <=> g \in Fitting
        BY <3>2, <3>4, <4>1, <4>2
      <4> QED BY <4>3
    <3>6. FullOf(hosts', Fitting)
      BY <3>1, <3>3, <3>5, DecantedHolds
    <3> QED BY <2>2, <3>1, <3>6 DEF WellSearched, AtAttempt
  <2>13. CASE ReturnBest
    <3>1. /\ UNCHANGED range /\ phase' = "returned" /\ ~unlimited /\ hosts' \in best
      BY <2>13 DEF ReturnBest
    <3>2. FullOf(hosts', Guests)
      BY <3>1 DEF WellSearched
    <3> QED BY <2>2, <3>1, <3>2 DEF WellSearched, AtAttempt, range
  <2>14. CASE Throw
    <3>1. /\ UNCHANGED range /\ phase' = "thrown" /\ ~unlimited /\ minHosts > maxHosts /\ best = {}
      BY <2>14 DEF Throw
    <3>2. minHosts \in Nat /\ maxHosts \in Nat
      BY HostAssumption DEF MaxInv, SearchTyped
    <3>3. Guests = {} \/ Fitting # Guests
      BY <3>1, <3>2 DEF WellSearched
    <3> QED BY <2>2, <3>1, <3>3 DEF WellSearched, AtAttempt, range
  <2>15. CASE Narrow
    <3>1. /\ phase = "maximised" /\ phase' = "choosing" /\ ~unlimited
      BY <2>15 DEF Narrow
    <3>2. PICK G : G = Guests \ profitable
      OBVIOUS
    <3>3. /\ FullOf(hosts, G) /\ Len(hosts) <= Cardinality(G)
          /\ profitable \cap Fitting = {} \/ Len(hosts) >= allowed
      BY <3>1, <3>2 DEF WellSearched, AtAttempt
    <3>4. MakePacking(hosts).guestCount = Cardinality(G)
      BY <3>3, PackingCounts DEF FullOf, Holding
    <3>5. profitable \subseteq Guests
      BY DEF MaxInv, SearchTyped
    <3>6. CASE Cardinality(G) = Len(instance)
      <4>1. PICK packing \in Decanted : best' = {packing}
        BY <2>15, <3>4, <3>6 DEF Narrow
      <4>2. G = Guests
        BY <3>2, <3>6, PlacedCounts
      <4>3. FullOf(packing, Guests)
        BY <3>3, <4>1, <4>2, DecantedHolds
      <4>4. best' # {} /\ \A hs \in best' : FullOf(hs, Guests)
        BY <4>1, <4>3
      <4> QED BY <2>2, <3>1, <4>4 DEF WellSearched, AtAttempt
    <3>7. CASE Cardinality(G) # Len(instance)
      <4>1. minHosts' = allowed + 1 /\ maxHosts' = maxHosts /\ best' = best
        BY <2>15, <3>4, <3>7 DEF Narrow
      <4>2. ASSUME Fitting = Guests PROVE minHosts' <= Len(instance)
        <5>1. profitable # {}
          BY <3>2, <3>7, PlacedCounts
        <5>2. Len(hosts) >= allowed
          BY <3>3, <3>5, <4>2, <5>1
        <5>3. Len(hosts) \in Nat /\ allowed \in Nat
          <6>1. hosts \in Seq(HostSet) /\ allowed \in 0 .. Unlimited
            BY DEF MaxInv, SearchTyped
          <6> QED BY <6>1, LenProperties, HostAssumption DEF Unlimited
        <5>4. Cardinality(G) \in Nat /\ Cardinality(G) <= Len(instance) /\ Len(instance) \in Nat
          BY <3>2, PlacedCounts
        <5> QED BY <3>3, <3>7, <4>1, <5>2, <5>3, <5>4
      <4>3. best = {} => maxHosts = Len(instance)
        BY <3>1 DEF WellSearched
      <4>4. \A hs \in best : FullOf(hs, Guests)
        BY <3>1 DEF WellSearched
      <4> QED BY <2>2, <3>1, <4>1, <4>2, <4>3, <4>4 DEF WellSearched, AtAttempt
    <3> QED BY <3>6, <3>7
  <2> QED BY <1>3, <2>4, <2>5, <2>6, <2>7, <2>8, <2>9, <2>10, <2>11, <2>12, <2>13, <2>14, <2>15 DEF Solve
<1> QED BY <1>1, <1>2, <1>3 DEF Next

LEMMA ResultInvInductive == Spec => []ResultInv
<1>1. Init => ResultInv
  <2> SUFFICES ASSUME Init PROVE WellSearched
    BY DEF ResultInv
  <2>1. phase \in {"building", "choosing"} /\ best = {} /\ maxHosts = Len(instance) /\ minHosts = 1
    BY DEF Init
  <2>2. ASSUME Guests # {}, ~unlimited PROVE 1 <= Len(instance)
    <3>1. solver = "subset_efficiency"
      BY <2>2, MaximisersAssumption DEF Init
    <3>2. Len(instance) \in Nat /\ (Len(instance) = 0 => Guests = {})
      <4>1. PICK n \in 0 .. MaxGuests : \E pages \in [1 .. n -> PageSet] : instance = InstanceOf(pages)
        BY <3>1 DEF Init
      <4>2. IsInstance(instance)
        BY <4>1, InstanceOfIsInstance
      <4> QED BY <4>2, LenProperties DEF IsInstance, Guests, GuestsOf
    <3> QED BY <2>2, <3>2
  <2> QED BY <2>1, <2>2 DEF WellSearched, AtAttempt
<1>2. MaxInv /\ WellInv /\ ResultInv /\ [Next]_vars => ResultInv'
  BY ResultKept
<1> QED BY <1>1, <1>2, MaxInvInductive, WellInvInductive, PTL DEF Spec

(* Where subsets are single guests, or no node of the cluster tree has two *)
(* parents (Exact), the local search returns a packing of every guest that *)
(* fits a host, once, on hosts neither empty nor overfull, and the         *)
(* bisection throws only for want of guests or of room for one of them     *)
(* (vmp_maximisers.h:66-90, vmp_solvers.h:404-443).  Nothing is said of    *)
(* subsets of two and more, nor of nodes with two parents, for which       *)
(* ReturnsValidPacking is violated.                                        *)
THEOREM ExactResultsValid == Spec => [](Exact => EndsWell) /\ []ResultValid
<1>1. ResultInv => (Exact => EndsWell)
  <2> SUFFICES ASSUME WellSearched PROVE EndsWell
    BY DEF ResultInv
  <2>1. ASSUME phase = "returned"
        PROVE  /\ PlacedGuests(hosts) = IF unlimited THEN Fitting ELSE Guests
               /\ NoGuestTwice(hosts)
               /\ BadHosts(hosts) = {}
    BY <2>1 DEF WellSearched, FullOf, Holding, NoneOverfull, BadHosts
  <2>2. phase = "thrown" => Guests = {} \/ Fitting # Guests
    BY DEF WellSearched
  <2> QED BY <2>1, <2>2 DEF EndsWell
<1>2. ResultInv => ResultValid
  BY <1>1 DEF ResultValid
<1> QED BY <1>1, <1>2, ResultInvInductive, PTL
==============================================================================
