----------------------------- MODULE Maximisers -----------------------------
(***************************************************************************)
(* The solvers that maximise the guests of one host after another          *)
(* (solveByMaximiser, maximiseByLocalSearch, vmp_maximisers).  One of two  *)
(* maximisers fills a host: by the efficiency of subsets of the guests, or *)
(* by the table of a cluster tree, which is first built by the calls its   *)
(* loader makes.  The local search does not take guests out of the         *)
(* instance: those that are on a host are offered again, for no profit.    *)
(* The number of hosts is not limited, or found by bisection.  The guests  *)
(* (instance) and the host that is filled (host) are those of HostCalls.   *)
(***************************************************************************)
EXTENDS SubsetEfficiency, ProfitTable, DecantGuests, HostCalls

CONSTANTS
    Solver,         \* among "subset_efficiency" and "cluster_tree"
    MaxSubsetSize,  \* bound on the sizes of subsets to start with
    MaxNodes,       \* bounds on cluster trees: nodes, clusters,
    MaxClusters,    \* ...
    MaxParents,     \* parents of a node,
    MaxNodeSize     \* pages of a node

(* The least number a counter of the code cannot have; 2^64 there.  One    *)
(* counter, that of the root, is decremented when it is zero.              *)
SizeRange == 65536

ASSUME MaximisersAssumption ==
    /\ Solver \subseteq {"subset_efficiency", "cluster_tree"}
    /\ {MaxSubsetSize, MaxNodes, MaxClusters, MaxParents, MaxNodeSize} \subseteq Nat \ {0}
    /\ MaxClusters < SizeRange

VARIABLES
    solver,      \* which maximiser fills the hosts
    subsetSize,  \* the size of subsets it starts with
    unlimited,   \* allowUnlimitedHosts
    decant,      \* decantMaximiserOutputs
    tree,        \* the cluster tree the guests are in
    current,     \* the cluster whose nodes are being parsed
    phase        \* see Phase

VARIABLES minHosts, maxHosts, best       \* of solveByMaximiser; best is {} or {hosts}

VARIABLES allowed, hosts, profitable, placed   \* of maximiseByLocalSearch

VARIABLES unplaced, size                 \* of maximiseOneHostBySubsetEfficiency

VARIABLES                                \* of maximiseOneHostByClusterTree
    frontier,    \* the queue of clusters to visit
    unvisited,   \* the number of unvisited children of each cluster
    visited,     \* the cluster under visit, the last of those visited
    below,       \* those of its children not yet used for its entries
    bounds,      \* the upper bound of the profit of each cluster visited
    costs        \* its entries

call == <<solver, subsetSize, unlimited, decant>>
input == <<instance, tree, current>>
range == <<minHosts, maxHosts, best>>
search == <<allowed, hosts, profitable, placed>>
filling == <<unplaced, size>>
table == <<frontier, unvisited, visited, below, bounds, costs>>

vars == <<call, input, phase, range, search, host, filling, table>>

Phase == {"building", "choosing", "searching", "filling", "tabulating", "filled",
          "maximised", "returned", "thrown"}

Guests == GuestsOf(instance)

(* More hosts than any packing has: SIZE_MAX in the code. *)
Unlimited == MaxGuests + 1

Init ==
    /\ solver \in Solver
    /\ subsetSize \in IF solver = "subset_efficiency" THEN 1 .. MaxSubsetSize ELSE {1}
    /\ unlimited \in IF solver = "subset_efficiency" THEN BOOLEAN ELSE {TRUE}
    /\ decant \in BOOLEAN
    /\ \/ /\ solver = "subset_efficiency"
          /\ \E n \in 0 .. MaxGuests : \E pages \in [1 .. n -> PageSet] : instance = InstanceOf(pages)
          /\ phase = "choosing"
       \/ /\ solver = "cluster_tree"
          /\ instance = <<>>
          /\ phase = "building"
    /\ tree = EmptyTree
    /\ current = RootCluster
    /\ minHosts = 1
    /\ maxHosts = Len(instance)
    /\ best = {}
    /\ allowed = 0
    /\ hosts = <<>>
    /\ profitable = {}
    /\ placed = 0
    /\ host = EmptyHost
    /\ unplaced = {}
    /\ size = 0
    /\ frontier = <<>>
    /\ unvisited = <<>>
    /\ visited = RootCluster
    /\ below = <<>>
    /\ bounds = <<>>
    /\ costs = <<>>

-----------------------------------------------------------------------------
(* The cluster tree, parsed depth first.  A node of the root cluster has   *)
(* no parents; others have some in the cluster above the one being parsed, *)
(* and no page of a node that reaches them.                                *)

ParseCluster(parent) ==
    /\ phase = "building"
    /\ ClusterCount(tree) < MaxClusters
    /\ parent \in ClusterPath(tree, current)
    /\ tree' = CreateCluster(tree, parent)
    /\ current' = ClusterCount(tree)
    /\ UNCHANGED <<call, instance, phase, range, search, host, filling, table>>

MayAdd(parents, pages) ==
    /\ phase = "building"
    /\ NodeCount(tree) < MaxNodes
    /\ Cardinality(parents) <= MaxParents
    /\ Cardinality(pages) <= MaxNodeSize
    /\ pages \cap ReachingPages(tree, parents, {}) = {}

ParseInnerNode(parents, pages) ==
    /\ MayAdd(parents, pages)
    /\ tree' = AddInnerNode(tree, current, parents, pages)
    /\ UNCHANGED <<call, instance, current, phase, range, search, host, filling, table>>

(* The guest of a leaf has the pages of every node that reaches it.        *)
ParseLeafNode(parents, pages) ==
    LET id == Len(instance) + 1
        guest == [id |-> id, pages |-> ReachingPages(tree, parents, pages)]
    IN  /\ MayAdd(parents, pages)
        /\ parents # {}
        /\ id \in GuestId /\ guest.pages \in PageSet
        /\ ClusterCount(tree) < MaxClusters
        /\ tree' = AddLeafNode(tree, parents, pages)
        /\ instance' = Append(instance, guest)
        /\ UNCHANGED <<call, current, phase, range, search, host, filling, table>>

PossibleParents ==
    IF current = RootCluster
    THEN {{}}
    ELSE (SUBSET NodesOf(tree, tree.clusters[current].parent)) \ {{}}

BuildTree ==
    /\ phase = "building"
    /\ tree' = Build(tree)
    /\ phase' = "choosing"
    /\ UNCHANGED <<call, instance, current, range, search, host, filling, table>>

-----------------------------------------------------------------------------
(* solveByMaximiser.                                                       *)

(* The search for at most this many hosts, from none. *)
Maximise(count) ==
    /\ allowed' = count
    /\ hosts' = <<>>
    /\ profitable' = Guests
    /\ placed' = 0
    /\ phase' = "searching"
    /\ UNCHANGED <<call, input, range, host, filling, table>>

MaximiseUnlimited ==
    /\ phase = "choosing" /\ unlimited
    /\ Maximise(Unlimited)

MaximiseMiddle ==
    /\ phase = "choosing" /\ ~unlimited
    /\ minHosts <= maxHosts
    /\ Maximise(minHosts + (maxHosts - minHosts) \div 2)

Decanted == IF decant THEN DecantResults(hosts) ELSE {hosts}

ReturnUnlimited ==
    /\ phase = "maximised" /\ unlimited
    /\ hosts' \in Decanted
    /\ phase' = "returned"
    /\ UNCHANGED <<call, input, range, allowed, profitable, placed, host, filling, table>>

(* Mutant: the number of hosts that was enough is tried again. *)
NarrowTooLittle ==
    /\ phase = "maximised" /\ ~unlimited
    /\ IF MakePacking(hosts).guestCount = Len(instance)
       THEN /\ \E packing \in Decanted : best' = {packing}
            /\ maxHosts' = allowed
            /\ UNCHANGED minHosts
       ELSE /\ minHosts' = allowed + 1
            /\ UNCHANGED <<maxHosts, best>>
    /\ phase' = "choosing"
    /\ UNCHANGED <<call, input, search, host, filling, table>>

(* Whether the packing is complete is asked of its cached guest count,     *)
(* which decanting leaves alone.                                           *)
Narrow ==
    /\ phase = "maximised" /\ ~unlimited
    /\ IF MakePacking(hosts).guestCount = Len(instance)
       THEN /\ \E packing \in Decanted : best' = {packing}
            /\ maxHosts' = allowed - 1
            /\ UNCHANGED minHosts
       ELSE /\ minHosts' = allowed + 1
            /\ UNCHANGED <<maxHosts, best>>
    /\ phase' = "choosing"
    /\ UNCHANGED <<call, input, search, host, filling, table>>

ReturnBest ==
    /\ phase = "choosing" /\ ~unlimited
    /\ minHosts > maxHosts
    /\ hosts' \in best
    /\ phase' = "returned"
    /\ UNCHANGED <<call, input, range, allowed, profitable, placed, host, filling, table>>

Throw ==
    /\ phase = "choosing" /\ ~unlimited
    /\ minHosts > maxHosts
    /\ best = {}
    /\ phase' = "thrown"
    /\ UNCHANGED <<call, input, range, search, host, filling, table>>

-----------------------------------------------------------------------------
(* maximiseByLocalSearch.                                                  *)

MoreToPlace == placed < Len(instance) /\ Len(hosts) < allowed

FillBySubsets ==
    /\ phase = "searching" /\ MoreToPlace
    /\ solver = "subset_efficiency"
    /\ host' = EmptyHost
    /\ unplaced' = Guests
    /\ size' = subsetSize
    /\ phase' = "filling"
    /\ UNCHANGED <<call, input, range, search, table>>

FillByTable ==
    /\ phase = "searching" /\ MoreToPlace
    /\ solver = "cluster_tree"
    /\ frontier' = Subsequence([i \in 1 .. ClusterCount(tree) |-> i - 1],
                               {i \in 1 .. ClusterCount(tree) : tree.clusters[i - 1].children = <<>>})
    /\ unvisited' = [cid \in DOMAIN tree.clusters |-> Len(tree.clusters[cid].children)]
    /\ bounds' = <<>>
    /\ costs' = <<>>
    /\ phase' = "tabulating"
    /\ UNCHANGED <<visited, below>>
    /\ UNCHANGED <<call, input, range, search, host, filling>>

KeepHost ==
    /\ phase = "filled"
    /\ host.guests # {}
    /\ hosts' = Append(hosts, host)
    /\ profitable' = profitable \ host.guests
    /\ placed' = placed + Cardinality(host.guests)
    /\ host' = EmptyHost
    /\ phase' = "searching"
    /\ UNCHANGED <<call, input, range, allowed, filling, table>>

StopAtEmptyHost ==
    /\ phase = "filled"
    /\ host.guests = {}
    /\ phase' = "maximised"
    /\ UNCHANGED <<call, input, range, search, host, filling, table>>

EndSearch ==
    /\ phase = "searching" /\ ~MoreToPlace
    /\ phase' = "maximised"
    /\ UNCHANGED <<call, input, range, search, host, filling, table>>

-----------------------------------------------------------------------------
(* maximiseOneHostBySubsetEfficiency: the best subset of the largest size, *)
(* from the present one down, that has any; smaller sizes stay.            *)

(* The unplaced guests come from a hash map, which gives them in the same  *)
(* order at every call; here it is their order in the instance.            *)
SubsetOf(k) ==
    FindMostEfficientSubset(Subsequence(instance, {i \in DOMAIN instance : instance[i] \in unplaced}),
                            profitable, host, k)

PossibleSizes == {k \in 1 .. size : SubsetOf(k) # {}}

AddGuests(filled, subset) == FoldSet(LAMBDA g, h : AddGuest(h, g), filled, subset)

PlaceSubset ==
    /\ phase = "filling"
    /\ unplaced # {} /\ PossibleSizes # {}
    /\ size' = Max(PossibleSizes)
    /\ LET subset == SubsetOf(size')
       IN  /\ unplaced' = unplaced \ subset
           /\ host' = AddGuests(host, subset)
    /\ UNCHANGED <<call, input, phase, range, search, table>>

EndFilling ==
    /\ phase = "filling"
    /\ unplaced = {} \/ PossibleSizes = {}
    /\ unplaced' = {} /\ size' = 0
    /\ phase' = "filled"
    /\ UNCHANGED <<call, input, range, search, host, table>>

-----------------------------------------------------------------------------
(* maximiseOneHostByClusterTree.                                           *)

Profits == {g.id : g \in profitable}

(* A map with an entry for this key. *)
WithEntry(map, key, entry) ==
    [k \in DOMAIN map \cup {key} |-> IF k = key THEN entry ELSE map[k]]

(* The cluster at the front of the queue; its parent is queued when it was *)
(* the last of its children.                                               *)
VisitCluster ==
    /\ phase = "tabulating" /\ frontier # <<>> /\ below = <<>>
    /\ LET cid == Head(frontier)
           parent == tree.clusters[cid].parent
           bound == ProfitUpperBound(tree, cid, bounds, Profits)
       IN  /\ unvisited' = [unvisited EXCEPT ![parent] = (@ - 1) % SizeRange]
           /\ frontier' = Tail(frontier) \o (IF unvisited'[parent] = 0 THEN <<parent>> ELSE <<>>)
           /\ visited' = cid
           /\ below' = tree.clusters[cid].children
           /\ bounds' = WithEntry(bounds, cid, bound)
           /\ costs' = WithEntry(costs, cid, SelectionCosts(tree, cid, bound, Profits))
    /\ UNCHANGED <<call, input, phase, range, search, host, filling>>

UseChild ==
    /\ phase = "tabulating" /\ below # <<>>
    /\ costs' = [costs EXCEPT ![visited] = WithChild(tree, costs, bounds, @, Head(below))]
    /\ below' = Tail(below)
    /\ UNCHANGED <<call, input, phase, range, search, host, filling, frontier, unvisited, visited, bounds>>

EndTable ==
    /\ phase = "tabulating" /\ frontier = <<>> /\ below = <<>>
    /\ unvisited' = <<>> /\ visited' = RootCluster /\ bounds' = <<>> /\ costs' = <<>>
    /\ phase' = "filled"
    /\ UNCHANGED <<call, input, range, search, filling, frontier, below>>

TakeMostProfitable ==
    /\ EndTable
    /\ \E key \in MostProfitableAtRoot(costs) :
          host' = HostOf({instance[id] : id \in costs[RootCluster][key].guests})

TakeNone ==
    /\ EndTable
    /\ MostProfitableAtRoot(costs) = {}
    /\ host' = EmptyHost

-----------------------------------------------------------------------------
Parse ==
    \/ \E parent \in DOMAIN tree.clusters : ParseCluster(parent)
    \/ \E parents \in PossibleParents, pages \in SUBSET Page :
          ParseInnerNode(parents, pages) \/ ParseLeafNode(parents, pages)
    \/ BuildTree

Solve ==
    \/ MaximiseUnlimited \/ MaximiseMiddle \/ ReturnUnlimited \/ Narrow \/ ReturnBest \/ Throw
    \/ FillBySubsets \/ FillByTable \/ KeepHost \/ StopAtEmptyHost \/ EndSearch
    \/ PlaceSubset \/ EndFilling
    \/ VisitCluster \/ UseChild \/ TakeMostProfitable \/ TakeNone

Next == Parse \/ Solve

Spec == Init /\ [][Next]_vars

-----------------------------------------------------------------------------
(* Types; the cluster tree is one at every call of its builder.            *)
TypeOK ==
    /\ solver \in Solver
    /\ subsetSize \in 1 .. MaxSubsetSize
    /\ unlimited \in BOOLEAN /\ decant \in BOOLEAN
    /\ IsInstance(instance)
    /\ IsClusterTree(tree) /\ current \in DOMAIN tree.clusters
    /\ solver = "cluster_tree" => Len(tree.leaves) = Len(instance)
    /\ phase \in Phase
    /\ minHosts \in 1 .. MaxGuests + 1 /\ maxHosts \in 0 .. MaxGuests
    /\ Cardinality(best) <= 1
    /\ allowed \in 0 .. Unlimited
    /\ \A i \in DOMAIN hosts : IsHost(hosts[i])
    /\ profitable \subseteq Guests
    /\ placed \in Nat
    /\ IsHost(host)
    /\ unplaced \subseteq Guests
    /\ size \in 0 .. MaxSubsetSize
    /\ ToSet(frontier) \cup {visited} \cup ToSet(below) \subseteq DOMAIN tree.clusters
    /\ DOMAIN costs = DOMAIN bounds
    /\ DOMAIN bounds \subseteq DOMAIN tree.clusters

(* The maximisers fill a host for profit only, and never too much, when    *)
(* subsets are single guests, or no guest is reached along two paths.      *)
Exact ==
    \/ solver = "subset_efficiency" /\ subsetSize = 1
    \/ solver = "cluster_tree" /\ SingleParents(tree)

Fitting == {g \in Guests : FitTogether({g})}

(* Of each host the maximiser fills: it is not overfull, and nothing is    *)
(* left out.  The subsets stop only when no profitable guest would fit     *)
(* (vmp_maximisers.cpp:74-83), whatever their size; the table makes the    *)
(* profit that no set of guests that fit together exceeds                  *)
(* (vmp_maximisers.cpp:300-376), unless nodes repeat the pages of others,  *)
(* which it counts twice.                                                  *)
FilledWell ==
    phase = "filled" =>
        /\ solver = "subset_efficiency" =>
              /\ ~IsOverfull(host)
              /\ \A g \in profitable \ host.guests : ~AccommodatesGuest(host, g)
        /\ solver = "cluster_tree" /\ SingleParents(tree) =>
              /\ ~IsOverfull(host)
              /\ PagesApart(tree) =>
                    \A S \in SUBSET profitable :
                        FitTogether(S) => Cardinality(S) <= Cardinality(host.guests \cap profitable)

(* A search that ends well: the packing returned has every guest that fits *)
(* a host, once, on hosts that are neither empty nor overfull; and the     *)
(* bisection throws only when there is no packing of all guests, or there  *)
(* are no guests.                                                          *)
EndsWell ==
    /\ phase = "returned" =>
          /\ PlacedGuests(hosts) = IF unlimited THEN Fitting ELSE Guests
          /\ NoGuestTwice(hosts)
          /\ BadHosts(hosts) = {}
    /\ phase = "thrown" => Guests = {} \/ Fitting # Guests

(* The search ends well if subsets are single guests, or if no node of the *)
(* cluster tree has two parents (vmp_maximisers.h:66-90,                   *)
(* vmp_solvers.h:404-443).  Otherwise it need not: see                     *)
(* ReturnsValidPacking.                                                    *)
ResultValid == Exact => EndsWell

(* The measures that end the loops, none of which has a bound of its own:  *)
(* a host that is kept takes some profit, although the search asks only    *)
(* whether it has guests (vmp_maximisers.h:77-86); an attempt narrows the  *)
(* range (vmp_solvers.h:417-433); no cluster is visited twice, though the  *)
(* root is its own parent, and none before its children or not at all      *)
(* (vmp_maximisers.cpp:266-289).                                           *)
EveryTurnProgresses ==
    [][/\ hosts # hosts' /\ phase = "filled" => profitable' # profitable
       /\ phase = "maximised" /\ phase' = "choosing" => maxHosts' - minHosts' < maxHosts - minHosts
       /\ bounds' # bounds /\ phase' = "tabulating" /\ bounds' # <<>> =>
             /\ visited' \notin DOMAIN bounds
             /\ ToSet(below') \subseteq DOMAIN bounds
       /\ phase = "tabulating" /\ phase' = "filled" => DOMAIN costs = DOMAIN tree.clusters]_vars

(* "@return a valid packing", say both solvers of the local search         *)
(* (vmp_solvers.h:455, 482), with no word on guests that could be on one   *)
(* host only: not so for subsets of two guests, nor with guests that have  *)
(* two parents.                                                            *)
ReturnsValidPacking ==
    phase = "returned" /\ unlimited /\ Fitting = Guests =>
        ValidateForInstance(hosts, instance) = "PACKING_OKAY"
=============================================================================
