----------------------------- MODULE ClusterTree ----------------------------
(***************************************************************************)
(* Cluster trees (vmp_clustertree, vmp_clustertreebuilder), as values: a   *)
(* graph of nodes, where a guest has the pages of every node that reaches  *)
(* it, and a tree of clusters of nodes, where a node's parents are in the  *)
(* cluster above its own.  Nodes and clusters are numbered as they are     *)
(* added.  The root cluster is its own parent.                             *)
(***************************************************************************)
EXTENDS Host, SequencesExt

RootCluster == 0

NoGuest == 0

NewCluster(parent) == [parent |-> parent, children |-> <<>>, nodes |-> <<>>]

EmptyTree ==
    [nodes    |-> [n \in {} |-> NoGuest],
     leaves   |-> <<>>,
     clusters |-> [c \in {RootCluster} |-> NewCluster(RootCluster)]]

NodeCount(tree) == Cardinality(DOMAIN tree.nodes)

ClusterCount(tree) == Cardinality(DOMAIN tree.clusters)

NodesOf(tree, cid) == ToSet(tree.clusters[cid].nodes)

-----------------------------------------------------------------------------
(* The builder.                                                            *)

CreateCluster(tree, parent) ==
    LET cid == ClusterCount(tree)
        clusters == [tree.clusters EXCEPT ![parent].children = Append(@, cid)]
    IN  [tree EXCEPT !.clusters =
            [c \in DOMAIN clusters \cup {cid} |->
                IF c = cid THEN NewCluster(parent) ELSE clusters[c]]]

(* Mutant: a node is made a child of its first parent only. *)
AddInnerNodeToOne(tree, cid, parents, pages) ==
    LET nid == NodeCount(tree)
        node == [parents |-> parents, children |-> {}, pages |-> pages,
                 guest |-> NoGuest, cluster |-> cid]
        nodes == [n \in DOMAIN tree.nodes \cup {nid} |->
                     IF n = nid THEN node
                     ELSE IF n \in parents /\ \A p \in parents : n <= p
                     THEN [tree.nodes[n] EXCEPT !.children = @ \cup {nid}]
                     ELSE tree.nodes[n]]
    IN  [tree EXCEPT !.nodes = nodes, !.clusters[cid].nodes = Append(@, nid)]

AddInnerNode(tree, cid, parents, pages) ==
    LET nid == NodeCount(tree)
        node == [parents |-> parents, children |-> {}, pages |-> pages,
                 guest |-> NoGuest, cluster |-> cid]
        nodes == [n \in DOMAIN tree.nodes \cup {nid} |->
                     IF n = nid THEN node
                     ELSE IF n \in parents THEN [tree.nodes[n] EXCEPT !.children = @ \cup {nid}]
                     ELSE tree.nodes[n]]
    IN  [tree EXCEPT !.nodes = nodes, !.clusters[cid].nodes = Append(@, nid)]

(* A leaf gets a cluster of its own, below the cluster of its parents.  It *)
(* has no guest before Build.                                              *)
AddLeafNode(tree, parents, pages) ==
    LET parentCid == tree.nodes[CHOOSE p \in parents : TRUE].cluster
        grown == CreateCluster(tree, parentCid)
    IN  [AddInnerNode(grown, ClusterCount(tree), parents, pages) EXCEPT
            !.leaves = Append(@, NodeCount(tree))]

(* Each leaf is given its guest: the guests of the instance are parallel   *)
(* to the leaves.                                                          *)
Build(tree) ==
    LET guestOf(n) == IF n \in ToSet(tree.leaves)
                      THEN CHOOSE i \in DOMAIN tree.leaves : tree.leaves[i] = n
                      ELSE NoGuest
    IN  [tree EXCEPT !.nodes =
            [n \in DOMAIN tree.nodes |-> [tree.nodes[n] EXCEPT !.guest = guestOf(n)]]]

IsLeafNode(tree, nid) == tree.nodes[nid].guest # NoGuest

IsLeafCluster(tree, cid) ==
    /\ Len(tree.clusters[cid].nodes) = 1
    /\ IsLeafNode(tree, Head(tree.clusters[cid].nodes))

-----------------------------------------------------------------------------
(* What the graph means, for instances and properties.                     *)

(* The cluster and those above it. *)
ClusterPath(tree, cid) ==
    LET path[c \in DOMAIN tree.clusters] ==
            {c} \cup (IF c = RootCluster THEN {} ELSE path[tree.clusters[c].parent])
    IN  path[cid]

(* The pages of a node of which these are the parents, and of all nodes    *)
(* that reach it.                                                          *)
ReachingPages(tree, parents, pages) ==
    LET above[n \in DOMAIN tree.nodes] ==
            tree.nodes[n].pages \cup UNION {above[p] : p \in tree.nodes[n].parents}
    IN  pages \cup UNION {above[p] : p \in parents}

(* Every guest is reached along one path only. *)
SingleParents(tree) == \A n \in DOMAIN tree.nodes : Cardinality(tree.nodes[n].parents) <= 1

(* No two nodes have a page in common. *)
PagesApart(tree) ==
    \A n, m \in DOMAIN tree.nodes : n # m => tree.nodes[n].pages \cap tree.nodes[m].pages = {}

(* Parents know their children, and are in the cluster above; clusters     *)
(* know their nodes.                                                       *)
IsClusterTree(tree) ==
    /\ \A n, m \in DOMAIN tree.nodes :
          /\ n \in tree.nodes[m].parents <=> m \in tree.nodes[n].children
          /\ n \in tree.nodes[m].parents =>
                tree.nodes[n].cluster = tree.clusters[tree.nodes[m].cluster].parent
    /\ \A c \in DOMAIN tree.clusters :
          /\ NodesOf(tree, c) = {n \in DOMAIN tree.nodes : tree.nodes[n].cluster = c}
          /\ ToSet(tree.clusters[c].children) =
                {d \in DOMAIN tree.clusters \ {RootCluster} : tree.clusters[d].parent = c}
=============================================================================
