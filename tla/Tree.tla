-------------------------------- MODULE Tree --------------------------------
(***************************************************************************)
(* Trees of guests (vmp_tree, vmp_treebuilder) and the bounds the tree     *)
(* solver computes on them (vmp_solverutils).  A tree is a function from   *)
(* the ids of its nodes, the root being 0 and a child's id greater than    *)
(* its parent's.  A node caches the guests of its subtree; a node without  *)
(* children is what the code calls a leaf, whether it ever had a guest or  *)
(* not.                                                                    *)
(***************************************************************************)
EXTENDS Host, FiniteSetsExt

Root == 0

Node(parent, pages) == [parent |-> parent, children |-> {}, pages |-> pages, guests |-> {}]

NewTree(rootPages) == [n \in {Root} |-> Node(Root, rootPages)]

(* Inner nodes and leaves are added alike: caches are filled by Build.     *)
AddNode(tree, parent, pages) ==
    LET nid == Cardinality(DOMAIN tree)
    IN  [n \in DOMAIN tree \cup {nid} |->
            IF n = nid THEN Node(parent, pages)
            ELSE IF n = parent THEN [tree[n] EXCEPT !.children = @ \cup {nid}]
            ELSE tree[n]]

(* The node and its ancestors. *)
Path(tree, nid) ==
    LET path[n \in DOMAIN tree] == {n} \cup (IF n = Root THEN {} ELSE path[tree[n].parent])
    IN  path[nid]

Subtree(tree, nid) == {n \in DOMAIN tree : nid \in Path(tree, n)}

IsLeafNode(tree, nid) == tree[nid].children = {}

(* Each guest goes into the caches of its leaf and of all its ancestors.   *)
Build(tree, leafGuests) ==
    [n \in DOMAIN tree |->
        [tree[n] EXCEPT !.guests = {leafGuests[l] : l \in DOMAIN leafGuests \cap Subtree(tree, n)}]]

(* Mutants: the children of the erased node are forgotten; or the guests   *)
(* stay in the caches of all ancestors but the parent.                     *)
EraseNodeOnly(tree, nid) ==
    [n \in DOMAIN tree \ {nid} |->
        [tree[n] EXCEPT !.guests = @ \ tree[nid].guests, !.children = @ \ {nid}]]

EraseSubtreeFromParent(tree, nid) ==
    [n \in DOMAIN tree \ Subtree(tree, nid) |->
        IF n = tree[nid].parent
        THEN [tree[n] EXCEPT !.guests = @ \ tree[nid].guests, !.children = @ \ {nid}]
        ELSE tree[n]]

(* The guests of the subtree leave all caches, then its nodes the tree.    *)
EraseSubtree(tree, nid) ==
    [n \in DOMAIN tree \ Subtree(tree, nid) |->
        [tree[n] EXCEPT !.guests = @ \ tree[nid].guests, !.children = @ \ {nid}]]

-----------------------------------------------------------------------------
(* The bounds. *)

Weight(tree, nid) == Cardinality(tree[nid].pages)

(* What a host has left when the pages of all ancestors are on it.         *)
CapacityAt(tree, nid) ==
    LET weight == [n \in DOMAIN tree |-> Weight(tree, n)]
    IN  Capacity - SumFunctionOnSet(weight, Path(tree, nid) \ {nid})

(* Going down, a node that exceeds the capacity left is an error; going    *)
(* up, also an inner node that uses it up.                                 *)
Malformed(tree) ==
    \E n \in DOMAIN tree :
        \/ Weight(tree, n) > CapacityAt(tree, n)
        \/ ~IsLeafNode(tree, n) /\ Weight(tree, n) >= CapacityAt(tree, n)

CeilDiv(a, b) == (a + b - 1) \div b

(* Mutants: the pages of the node itself are left out of its size; or the  *)
(* quotient is not rounded but one is added.                               *)
LowerBoundsUnweighted(tree) ==
    LET bounds[n \in DOMAIN tree] ==
            IF IsLeafNode(tree, n)
            THEN [size |-> Weight(tree, n), count |-> 1]
            ELSE LET total == SumFunction([c \in tree[n].children |-> bounds[c].size])
                 IN  [size  |-> total,
                      count |-> CeilDiv(total, CapacityAt(tree, n) - Weight(tree, n))]
    IN  bounds

LowerBoundsRoundedUp(tree) ==
    LET bounds[n \in DOMAIN tree] ==
            IF IsLeafNode(tree, n)
            THEN [size |-> Weight(tree, n), count |-> 1]
            ELSE LET total == SumFunction([c \in tree[n].children |-> bounds[c].size])
                     count == total \div (CapacityAt(tree, n) - Weight(tree, n)) + 1
                 IN  [size  |-> total + count * Weight(tree, n), count |-> count]
    IN  bounds

(* For each node, the pages its subtree needs on hosts (size) and the      *)
(* hosts it needs (count): children must share the capacity that the node  *)
(* leaves them, and each host they use holds the pages of the node again.  *)
LowerBounds(tree) ==
    LET bounds[n \in DOMAIN tree] ==
            IF IsLeafNode(tree, n)
            THEN [size |-> Weight(tree, n), count |-> 1]
            ELSE LET total == SumFunction([c \in tree[n].children |-> bounds[c].size])
                     count == CeilDiv(total, CapacityAt(tree, n) - Weight(tree, n))
                 IN  [size  |-> total + count * Weight(tree, n), count |-> count]
    IN  bounds
=============================================================================
