----------------------------- MODULE TreeSolver -----------------------------
(***************************************************************************)
(* solveByTree: a tree is built by the calls the loader makes, depth       *)
(* first, and solved.  A turn of the solver computes the bounds of what is *)
(* left of the tree, packs the guests of a cheapest subtree that needs     *)
(* more than one host, with the intermediate solver it was given, and      *)
(* erases the subtree; what is left when the bound of the root is one goes *)
(* to a host of its own.                                                   *)
(***************************************************************************)
EXTENDS Tree, PartialPacking

CONSTANTS
    MaxNodes,    \* bound on the number of nodes
    MinNodeSize  \* bound on the number of pages of a node, except the root

ASSUME TreeAssumption ==
    /\ MaxNodes \in Nat \ {0}
    /\ MinNodeSize \in Nat

VARIABLES
    tree,        \* the tree under construction, then the one to solve
    workingTree, \* the solver's copy, from which it erases
    leafGuests,  \* the guest of each leaf added
    solver,      \* the intermediate solver
    hosts,       \* the hosts opened so far
    phase        \* see Phase

vars == <<tree, workingTree, leafGuests, solver, hosts, phase>>

(* A solve ends by returning, by an exception, or by reading past the end  *)
(* of the nodes, which is undefined.                                       *)
Phase == {"building", "solving", "returned", "thrown", "undefined"}

PathPages(nid) == UNION {tree[n].pages : n \in Path(tree, nid)}

Init ==
    /\ \E rootPages \in SUBSET Page :
          /\ Cardinality(rootPages) <= MaxGuestSize
          /\ tree = NewTree(rootPages)
    /\ workingTree = tree
    /\ leafGuests = [n \in {} |-> <<>>]
    /\ solver \in {"first_fit", "efficiency"}
    /\ hosts = <<>>
    /\ phase = "building"

(* Where a node may be added, and with which pages: below the last node or *)
(* an ancestor of it that is not the leaf of a guest, with pages not on    *)
(* its path, which together have room on a host.                           *)
MayAdd(parent, pages) ==
    /\ phase = "building"
    /\ Cardinality(DOMAIN tree) < MaxNodes
    /\ parent \in Path(tree, Cardinality(DOMAIN tree) - 1) \ DOMAIN leafGuests
    /\ pages \cap PathPages(parent) = {}
    /\ Cardinality(pages) >= MinNodeSize
    /\ Cardinality(pages \cup PathPages(parent)) <= MaxGuestSize

AddInnerNode(parent, pages) ==
    /\ MayAdd(parent, pages)
    /\ tree' = AddNode(tree, parent, pages)
    /\ UNCHANGED <<workingTree, leafGuests, solver, hosts, phase>>

(* The pages of a guest are those of its leaf and of all above it.         *)
AddLeafNode(parent, pages) ==
    LET nid == Cardinality(DOMAIN tree)
        id == Cardinality(DOMAIN leafGuests) + 1
        guest == [id |-> id, pages |-> pages \cup PathPages(parent)]
    IN  /\ MayAdd(parent, pages)
        /\ id \in GuestId
        /\ tree' = AddNode(tree, parent, pages)
        /\ leafGuests' = [n \in DOMAIN leafGuests \cup {nid} |->
                             IF n = nid THEN guest ELSE leafGuests[n]]
        /\ UNCHANGED <<workingTree, solver, hosts, phase>>

BuildTree ==
    /\ phase = "building"
    /\ tree' = Build(tree, leafGuests)
    /\ workingTree' = tree'
    /\ phase' = "solving"
    /\ UNCHANGED <<leafGuests, solver, hosts>>

-----------------------------------------------------------------------------
(* The turns. *)

Throw ==
    /\ phase = "solving"
    /\ Malformed(workingTree)
    /\ phase' = "thrown"
    /\ UNCHANGED <<tree, workingTree, leafGuests, solver, hosts>>

PackRest ==
    /\ phase = "solving"
    /\ ~Malformed(workingTree)
    /\ LowerBounds(workingTree)[Root].count = 1
    /\ LET rest == workingTree[Root].guests
       IN  hosts' = IF rest = {} THEN hosts ELSE Append(hosts, HostOf(rest))
    /\ phase' = "returned"
    /\ UNCHANGED <<tree, workingTree, leafGuests, solver>>

(* The nodes that need more than one host and whose children do not, and   *)
(* of them those that need the fewest; the hash map decides between them.  *)
Candidates ==
    LET bounds == LowerBounds(workingTree)
    IN  {n \in DOMAIN workingTree :
            /\ bounds[n].count > 1
            /\ \A c \in workingTree[n].children : bounds[c].count <= 1}

Cheapest ==
    LET bounds == LowerBounds(workingTree)
    IN  {n \in Candidates : \A m \in Candidates : bounds[n].count <= bounds[m].count}

(* The guests of a subtree come in the order of a hash set. *)
PackSubtree ==
    /\ phase = "solving"
    /\ ~Malformed(workingTree)
    /\ LowerBounds(workingTree)[Root].count # 1
    /\ \E nid \in Cheapest :
          /\ \E guests \in SetToSeqs(workingTree[nid].guests) : hosts' = ProceedBy(solver, hosts, guests)
          /\ IF nid = Root
             THEN phase' = "returned" /\ UNCHANGED workingTree
             ELSE workingTree' = EraseSubtree(workingTree, nid) /\ UNCHANGED phase
    /\ UNCHANGED <<tree, leafGuests, solver>>

(* Without a candidate the solver asks for the guests of a node that is    *)
(* not there; the assertion before it is compiled out by default.          *)
AskForNoNode ==
    /\ phase = "solving"
    /\ ~Malformed(workingTree)
    /\ LowerBounds(workingTree)[Root].count # 1
    /\ Candidates = {}
    /\ phase' = "undefined"
    /\ UNCHANGED <<tree, workingTree, leafGuests, solver, hosts>>

Next ==
    \/ \E parent \in DOMAIN tree, pages \in SUBSET Page :
          AddInnerNode(parent, pages) \/ AddLeafNode(parent, pages)
    \/ BuildTree
    \/ Throw \/ PackRest \/ PackSubtree \/ AskForNoNode

Spec == Init /\ [][Next]_vars

-----------------------------------------------------------------------------
Guests == {leafGuests[n] : n \in DOMAIN leafGuests}

(* Types; and parents and children agree: an erased subtree leaves neither *)
(* a child that is gone nor a node without a parent behind                 *)
(* (vmp_tree.cpp:100-115).                                                 *)
TypeOK ==
    /\ phase \in Phase
    /\ Root \in DOMAIN workingTree
    /\ \A n \in DOMAIN workingTree :
          /\ workingTree[n].pages \subseteq Page
          /\ workingTree[n].guests \subseteq Guest
          /\ workingTree[n].parent \in DOMAIN workingTree
          /\ workingTree[n].children =
                {c \in DOMAIN workingTree \ {Root} : workingTree[c].parent = n}
    /\ \A i \in DOMAIN hosts : IsHost(hosts[i])

(* While subtrees are packed and erased, the cache of each node that is    *)
(* left has the guests of the leaves left below it (vmp_tree.cpp:83-98),   *)
(* and these are the guests that are on no host.                           *)
CachesMatch ==
    phase \in {"solving", "returned"} =>
        /\ \A n \in DOMAIN workingTree :
              workingTree[n].guests =
                {leafGuests[l] : l \in DOMAIN leafGuests \cap Subtree(workingTree, n)}
        /\ phase = "solving" => workingTree[Root].guests = Guests \ PlacedGuests(hosts)

(* The solver returns a valid packing, as its comment promises             *)
(* (vmp_solvers.h:318), with no guest on two hosts and true page counts.   *)
ReturnsValidPacking ==
    /\ phase \notin {"thrown", "undefined"}
    /\ phase = "returned" => PlacedGuests(hosts) = Guests
    /\ BadHosts(hosts) = {}
    /\ NoGuestTwice(hosts)
    /\ AllFrequenciesMatch(hosts)

(* It does so whenever only the root is a node without pages: neither the  *)
(* error in the bounds (vmp_solverutils.cpp:120), nor the missing subtree  *)
(* (vmp_solvers.h:371), nor an overfull rest (vmp_solvers.h:343) is met.   *)
ResultValid ==
    (\A n \in DOMAIN tree \ {Root} : tree[n].pages # {}) => ReturnsValidPacking

(* As long as no two nodes have a page in common and every node that has   *)
(* no children is the leaf of a guest, a bound is one: the guests of a     *)
(* subtree cannot be packed on fewer hosts (vmp_solverutils.cpp:124-129).  *)
IsExact ==
    /\ \A n, m \in DOMAIN tree : n # m => tree[n].pages \cap tree[m].pages = {}
    /\ \A n \in DOMAIN tree : IsLeafNode(tree, n) => n \in DOMAIN leafGuests

LowerBoundsHold ==
    phase = "solving" /\ workingTree = tree /\ IsExact /\ ~Malformed(tree) =>
        \A n \in DOMAIN tree :
            \A host \in [tree[n].guests -> 1 .. LowerBounds(tree)[n].count - 1] :
                \E i \in 1 .. LowerBounds(tree)[n].count - 1 :
                    ~FitTogether({g \in tree[n].guests : host[g] = i})

(* "assert(!host.isOverfull())" of the host that takes the rest            *)
(* (vmp_solvers.h:343), compiled out by default: the guests left when the  *)
(* bound of the root is one do fit one host.                               *)
RestFitsOneHost == \A i \in DOMAIN hosts : ~IsOverfull(hosts[i])

(* "first-fit never needs decanting", says the benchmark, also within this *)
(* solver (benchmarks/benchmark.cpp:234).                                  *)
NeedsNoDecanting == phase = "returned" /\ solver = "first_fit" => FirstFitStable(hosts)
=============================================================================
