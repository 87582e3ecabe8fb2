---------------------------- MODULE ProfitTable -----------------------------
(***************************************************************************)
(* The table of maximiseOneHostByClusterTree (vmp_maximisers).  For a      *)
(* cluster, a selection of its nodes and a profit to make, an entry has    *)
(* the cheapest guests found that make the profit when just the selected   *)
(* nodes, and nodes of the clusters below that have a selected parent,     *)
(* are on the host; it has their number of pages, added up node by node.   *)
(* Guests are named by their ids; one makes a profit of one while it is    *)
(* among the profitable ones.                                              *)
(***************************************************************************)
EXTENDS ClusterTree, FiniteSetsExt

(* No way to make the profit within the capacity: SIZE_MAX in the code. *)
NoSelection == [pageCount |-> Capacity + 1, guests |-> {}]

IsFinite(entry) == entry.pageCount <= Capacity

GuestsOfNodes(tree, selection) ==
    {tree.nodes[n].guest : n \in {m \in selection : IsLeafNode(tree, m)}}

(* The profit to be made in a leaf, or in the clusters below. *)
ProfitUpperBound(tree, cid, bounds, profitable) ==
    IF IsLeafCluster(tree, cid)
    THEN Cardinality(GuestsOfNodes(tree, NodesOf(tree, cid)) \cap profitable)
    ELSE FoldLeft(LAMBDA sum, child : sum + bounds[child], 0, tree.clusters[cid].children)

(* What the selected nodes have by themselves. *)
EntryOfSelection(tree, selection, target, profitable) ==
    LET pages == UNION {tree.nodes[n].pages : n \in selection}
        guests == GuestsOfNodes(tree, selection)
    IN  IF Cardinality(pages) > Capacity \/ Cardinality(guests \cap profitable) < target
        THEN NoSelection
        ELSE [pageCount |-> Cardinality(pages), guests |-> guests]

(* The entries of a cluster before any of the clusters below is used. *)
SelectionCosts(tree, cid, bound, profitable) ==
    [key \in (SUBSET NodesOf(tree, cid)) \X (0 .. bound) |->
        EntryOfSelection(tree, key[1], key[2], profitable)]

(* Mutant: every node of the cluster below may be taken. *)
AllNodes(tree, child, selection) == NodesOf(tree, child)

(* The nodes of a cluster with at least one parent among the selected.     *)
AccessibleNodes(tree, child, selection) ==
    {n \in NodesOf(tree, child) : tree.nodes[n].parents \cap selection # {}}

(* The bits of a selection, in the order of the cluster's nodes. *)
MaskOf(tree, cid, selection) ==
    LET nodes == tree.clusters[cid].nodes
        bits[i \in 1 .. Len(nodes) + 1] ==
            IF i > Len(nodes) THEN 0 ELSE 2 * bits[i + 1] + (IF nodes[i] \in selection THEN 1 ELSE 0)
    IN  bits[1]

(* The cheapest entry of a cluster for a target, over the selections of    *)
(* accessible nodes: the one with the least mask, if several are.          *)
LowestCost(tree, costs, child, accessible, target) ==
    LET pageCount(S) == costs[child][<<S, target>>].pageCount
        cheapest == {S \in SUBSET accessible : \A T \in SUBSET accessible : pageCount(S) <= pageCount(T)}
        first == CHOOSE S \in cheapest : \A T \in cheapest : MaskOf(tree, child, S) <= MaskOf(tree, child, T)
    IN  costs[child][<<first, target>>]

CombinationOfDisjoint(a, b) ==
    [pageCount |-> a.pageCount + b.pageCount, guests |-> a.guests \cup b.guests]

(* Mutant: the profit asked of the child is also asked of the rest. *)
WithChildTwice(tree, costs, bounds, before, child) ==
    [key \in DOMAIN before |->
        LET below == AccessibleNodes(tree, child, key[1])
            joint(p) == CombinationOfDisjoint(before[key],
                                              LowestCost(tree, costs, child, below, p))
            shares == {p \in 0 .. Min({key[2], bounds[child]}) :
                          joint(p).pageCount < before[key].pageCount}
            cheapest == {p \in shares : \A q \in shares : joint(p).pageCount <= joint(q).pageCount}
        IN  IF shares = {} THEN before[key] ELSE joint(Min(cheapest))]

(* The entries of a cluster when one more child may be used: some of the   *)
(* profit is made there, the rest as before, if that is cheaper.           *)
WithChild(tree, costs, bounds, before, child) ==
    [key \in DOMAIN before |->
        LET below == AccessibleNodes(tree, child, key[1])
            joint(p) == CombinationOfDisjoint(before[<<key[1], key[2] - p>>],
                                              LowestCost(tree, costs, child, below, p))
            shares == {p \in 0 .. Min({key[2], bounds[child]}) :
                          joint(p).pageCount < before[key].pageCount}
            cheapest == {p \in shares : \A q \in shares : joint(p).pageCount <= joint(q).pageCount}
        IN  IF shares = {} THEN before[key] ELSE joint(Min(cheapest))]

(* The scenarios at the root that make the most profit, at least one; the  *)
(* hash map decides between them.                                          *)
MostProfitableAtRoot(costs) ==
    LET feasible == {key \in DOMAIN costs[RootCluster] :
                        key[2] > 0 /\ IsFinite(costs[RootCluster][key])}
    IN  {key \in feasible : \A other \in feasible : other[2] <= key[2]}
=============================================================================
