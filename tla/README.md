# VM packing: the verification project

The repository packs *guests* (virtual machines, each a set of memory pages)
onto *hosts* (each with room for a number of different pages; a page that
several guests of a host have in common is stored once) and tries to use few
hosts. This directory holds TLA+ modules for the library's data structures and
solvers, TLC runs that check them on small instances, and TLAPS proofs about
them for every instance. Paths below are relative to the repository.

## Contents

1. [The system](#the-system)
2. [Modules and the code they model](#modules-and-the-code-they-model)
3. [Modelling decisions](#modelling-decisions)
4. [Runs, properties and bounds](#runs-properties-and-bounds)
5. [Proofs](#proofs)
6. [Where code and comments disagree](#where-code-and-comments-disagree)
7. [Not modelled](#not-modelled)
8. [Plan](#plan)
9. [Running the checks](#running-the-checks)

## The system

Everything in the library runs in one thread; nothing is persisted. Only the
benchmark driver has threads. What makes the library hard to test is
long sequences of legal calls on redundant state, orders that hash sets leave
unspecified, loops without a bound of their own, and arithmetic at its edges.

| component | files | state | operations | correct when |
|---|---|---|---|---|
| guest | `src/vmp_guest` | a set of pages, immutable | `uniquePageCount`, `countUniquePagesOn` | – |
| host | `src/vmp_host` | guests; a map page -> number of its guests that have it; capacity | `addGuest`, `removeGuest`, `clearGuests`, and the counts answered from the map | the map says what the set of guests says after any calls |
| instance | `src/topology/vmp_instance` | a vector of guests, a capacity | accessors | – |
| packing | `src/vmp_packing` | a vector of hosts, a cached guest count | constructor, `decantGuests`, `validateForInstance` | all guests on one host each, none overfull or empty; the cached count true |
| scores | `src/vmp_solverutils` | none | `calculateRelSize`, `calculateSizeRelRatio`, `calculateOpportunityAwareEfficiency` | comparisons rank as meant, also for guests without pages |
| Next Fit, First Fit, Best Fusion (efficiency) | `src/vmp_solvers.h:36-167` | position in the instance, hosts opened | one guest placed per turn | a valid packing; no host opened that the heuristic does not need |
| Overload-and-Remove | `src/vmp_solvers.h:179-256` | queue, hosts, placements already attempted | place, evict, clean up | ends; loses and doubles no guest |
| opportunity-aware solver | `src/vmp_solvers.h:263-309` | unplaced set, hosts | one guest placed per turn | a valid packing |
| decanting | `src/vmp_solverutils.h:26-158` | hosts, parts of the host being decanted | three passes over pairs of hosts | a packing stays one; no guest left that fits an earlier host |
| tree, builder | `src/topology/vmp_tree`, `vmp_treebuilder` | nodes with pages, children, cached guests | `addInnerNode`, `addLeafNode`, `eraseSubtree` | caches are those of the nodes left |
| tree solver, lower bounds | `src/vmp_solvers.h:311-401`, `vmp_solverutils.cpp:53-133` | tree copy, bounds, hosts | pack the cheapest subtree, erase it, recompute | ends; a valid packing |
| maximisers | `src/vmp_maximisers`, `src/vmp_solvers.h:386-497` | profits, hosts; for one host the guests left and the size of subsets, or a table | fill a host by the efficiency of subsets or by the table; local search host by host; search for the number of hosts | ends; each host filled as promised; all guests placed, none twice |
| cluster tree, builder | `src/topology/vmp_clustertree*` | nodes in clusters, parents and children, leaves | `createCluster`, `addInnerNode`, `addLeafNode`, `build` | links agree in both directions; parents in the cluster above |
| loaders | `src/loaders` | a queue of paths, the instances taken from each file | `load` a batch | every instance of every file once |
| benchmark driver | `benchmarks/benchmark.cpp` | suite, batch, tasks, results; in the pool two counters, a mutex, result slots | `runSuite`, `runTasks` | each task once, while its instance is there; the results complete |
| generators, examples, tests | `generators`, `examples`, `tests` | – | – | – |

How they interact: a solver takes an `Instance`, makes hosts, asks each host
whether it accommodates a guest or how much a guest would cost there (answers
that come from the page map alone), adds and removes guests, and hands the
vector of hosts to `Packing`, which counts the guests. The caller may decant
the packing, which moves guests between hosts by `addGuest` and `removeGuest`.
The tree solver works on a copy of a `Tree`, which the loader built through the
builder, and uses First Fit or Best Fusion for subtrees. `solveByMaximiser`
calls a maximiser with varying numbers of hosts. The benchmark driver runs
solvers over instances in a pool of threads and validates what they return.
No two threads share a host, packing or tree.

## Modules and the code they model

| module | models | how |
|---|---|---|
| `Host` | `Guest`, `Host`, `Instance` | values and operators: a host is a record of its two containers, and every operation of the code is a function on it |
| `HostCalls` | one `Host` object | a state machine: any sequence of calls; `Maximisers` has its two variables, and steps of its own |
| `Scores` | the three measures | exact rational values and comparisons |
| `Packing` | `Packing` and steps all solvers share | operators on a vector of hosts |
| `BinPacking` | nothing in the code: the abstract specification | what any online packer does, and what any-fit packers do (`anyFit`) |
| `SequentialPackers` | Next Fit, First Fit, Best Fusion | one turn of the loop per step; `solver` says which of the three runs |
| `OverloadAndRemove` | that solver | a placement, an eviction or the clean-up per step |
| `OpportunityAware` | that solver | one placement per step |
| `Components` | what connected guests are | closed sets, without an algorithm |
| `Subsequences` | what erasing or copying by a condition leaves of a vector | one operator |
| `ConnectedGuests` | `partitionConnectedGuestsTogether` | one turn of one of its loops per step; its state is part of `Decanting`'s |
| `DecantGuests` | `Packing::decantGuests` as a function | the set of host vectors it can leave |
| `Decanting` | `Packing::decantGuests` step by step, with the searches of `ConnectedGuests` | one move of one guest, one turn of a loop, or one step of a search per step |
| `PartialPacking` | `proceedByFirstFit`, `proceedByEfficiency` on hosts that exist already | functions of the hosts and of the guests in their order |
| `Tree` | `Tree`, `TreeBuilder`, `calculateAllSubtreeLowerBounds` | operators on a function from node ids to nodes |
| `TreeSolver` | the loader's calls to the builder, then `solveByTree` | one builder call, or one turn of the solver's loop, per step |
| `SubsetEfficiency` | `findMostEfficientSubset`, `nextComb` | functions of the guests left, the host and the size |
| `ClusterTree` | `ClusterTree`, `ClusterTreeBuilder` | operators on a record of nodes, leaves and clusters |
| `ProfitTable` | the entries of `maximiseOneHostByClusterTree` | functions of the entries of the clusters below |
| `Maximisers` | the loader's calls to the cluster tree builder, `solveByMaximiser`, `maximiseByLocalSearch`, both single-host maximisers | one builder call, one turn of a loop, or one cluster or child of the table per step |
| `WorkerPool` | `runTasks` of the benchmark driver, called any number of times | one atomic operation of one thread per step |
| `Benchmark` | `main`, `runSuite` and the `load` of the three loaders, around `WorkerPool` | one file, instance or call of `runTasks` per step, and the steps of the pool |
| `PackingLemmas`, and `*Proofs` for the above that have theorems (`MaximisersProofs` also for `HostCalls`) | – | theorems and proofs |
| `MC*` | – | symmetry for TLC, and the directories of `Benchmark` |

**Host.** `guests_` is `host.guests`; `pageFrequencies_` is
`host.pageFrequencies`, a function whose domain is the set of keys of the
map, so that an entry at zero and no entry are different, as they are for
`uniquePageCount`, the number of entries. `AddGuest` counts pages without
asking whether the guest is there, as the code does; `RemoveGuest` erases an
entry that drops to zero. Guests are compared by address in the code, hence by
`id` here: two guests with the same pages are two guests.

**SequentialPackers.** `next` is `guestsBegin`, `hosts` the vector. `FirstFitPlace`
is a turn in which `find_if` finds a host, `FirstFitOpen` one in
which it does not. `MostEfficient` is the outcome of the scan with `<=`: the last
of the hosts where the relative size is least.

**OverloadAndRemove.** `unplaced` is the deque, `attempted` the map of attempted
placements, `best` the host of the current turn. The body of the outer loop is
split where the code may evict several guests: a placement (`PlaceOnUntried`,
`PlaceOnNewHost`) and then `EvictWorst` while the host is overfull. `WorstGuests`
are the guests `min_element` may return under some order of the hash set.
`Finish` is the clean-up after the loop, with its First Fit, and the return.

**OpportunityAware.** `Candidates` are the pairs the double loop gives a score
that compares, `BestCandidates` those the scan may end with. `OpenForLargest` is
the case in which no pair was found.

**Decanting.** `pass`, `left`, `right`, `parts`, `moving` are the loop variables;
the host vector changes one guest at a time. `stage` says what is done with the
guests of the right host: they are parted, by `PartRightHost` in the first and
third pass and by the searches of `ConnectedGuests` in the second
(`BeginSearches`, `ContinueSearches`, `EndSearches`), and then moved. `ReachesAResult`
compares all this with `DecantResults`, the function by which `Maximisers` has
decanting as one step.

**Tree, TreeSolver.** `tree` is the tree the loader builds and the solver is given,
`workingTree` the copy it erases from. The domain is the set of nodes that have a value in
`nodes_`; a cache is `tree[n].guests`. Children are a set: sums and `all_of` do not
depend on their order. `leafGuests` is the builder's `guests_` with the `leaves_` they
belong to. A turn of `solveByTree` is `Throw` (the bounds throw), `PackRest`
(lines 335-347), `PackSubtree` (349-381) or `AskForNoNode`, the case in which no
candidate is found: the assertion before line 373 is compiled out in the default
Release build, and what follows reads past the end of a vector, so the model
stops in the phase `undefined`. For the same reason an overfull host of `PackRest` is
returned, not caught by line 343.

**ClusterTree, Maximisers.** Nodes and clusters are numbered as in the code; the
root cluster is its own parent. `ParseCluster`, `ParseInnerNode` and `ParseLeafNode` are
the calls `parseClusterSubtree` makes, depth first; a leaf gets a cluster of its own. The phases
follow the nesting of the calls: `choosing` is the loop of `solveByMaximiser`,
`searching` that of `maximiseByLocalSearch`, `filling` and `tabulating` those of the
two single-host maximisers, whose result is the host of the phase `filled`. `profitable` has the guests
whose profit is still 1; as in the code, those with profit 0 are offered too. In
the table, `costs[c][<<S, p>>]` is the entry for cluster `c`, selection `S` and
profit `p` with the children used so far; the code keeps one per number of
children, and only ever reads the last but one of the present cluster (`WithChild`) and
the last of others. The entries of a cluster are made together, and then again
for each child (`VisitCluster`, `UseChild`), while the code finishes one
selection before it starts the next; entries of different selections
of a cluster do not depend on each other. `unvisited` counts modulo
`SizeRange`: the counter of the root is decremented once when it is zero.

**WorkerPool.** `task[w]` is the worker's `i`, `number[w]` its `done`. `finished` has the
slots of `results` that are written. `Draw` is one `fetch_add` and the loop test; `Count`
the other `fetch_add`; `Lock` and `Report` the scope of the `lock_guard`. `TaskThrows`
is a solver that throws inside a thread, which terminates the program. `Start` is a
call, which makes all these anew.

**Benchmark.** `paths`, `processed` and `file` are the loader's: at every call
`ScanDirectory` puts all files back into the queue, `TakeFile` takes the first, and
`ReadInstance` goes on where `processed` says, until the batch is full in the middle
of a file. The three loaders have the same loop. A task is a pair of a place in the batch
and a solver: it points to its instance, as in the code. `RunBatch` makes the tasks in some order and calls the
pool; `CollectResults` ends the turn of the loop, and with it the batch and the
tasks. An instance is its file and index, a result its three labels.
`results` is a bag: the vector is sorted before it is read.

**BinPacking.** Bins are sets of guests, and a set of guests may share a bin
when it is in `Feasible`. The packers are shown to implement it with the sets
of guests whose pages fit a host as the feasible ones: counts, maps and overlaps
disappear, and with them every way to get them wrong.

## Modelling decisions

- *Guest order.* Every instance up to the bounds is an initial state, so every
  order of the vector is covered. Where the code walks a hash set, every
  order is a behaviour.
- *Doubles.* Relative sizes are sums of 1/f with f a page frequency. They are
  kept exactly, as multiples of 1/`Unit`, a number that every possible frequency
  divides; a sum is the number of elements of a disjoint union, a form the provers can reason about. The code's
  sums are rounded, so two that are equal could compare unequal there. With the
  bounds of the runs (frequencies up to 3 before a guest is added, up to 4 pages)
  the sums that are equal are sums of the same few terms, or sums of halves,
  which doubles represent exactly; different ones are at least 1/6 apart, which
  rounding cannot bridge. Likewise num / sqrt(size) for sizes up to 4. On
  larger instances the code's rounding may break a tie the model has; the
  properties checked do not depend on how ties go.
- *Not a number.* A guest without pages has the ratio 0/0, and may have the
  score 0/0. Such a value is neither less nor greater than any other, and the
  models say what the code does then: `WorstGuests`, `Candidates`.
- *Hosts that exist already.* `proceedBy...` functions may be called with hosts.
  `SequentialPackers` and `OverloadAndRemove` have them from none, as the
  `solveBy...` functions call them; `PartialPacking` has First Fit and Best Fusion as the
  tree solver and the clean-up of Overload-and-Remove call them. No code
  calls the other two with hosts.
- *Well-formed trees.* The pages of a node are disjoint from those of its ancestors,
  and a guest has the pages of its leaf and of all above it, as
  `instances-explanation.md` defines tree instances. Branches may share
  pages, and inner nodes may have no children; both are possible in the
  instance format. The loader checks none of this. That a guest fits a host,
  which the format does not say, is an assumption of the runs of the tree solver.
- *Guests that fit.* Nothing in the code rejects a guest that is larger than a host (see
  below). `packers`, `opportunity_aware` and `maximisers` have such guests, and their `ResultValid`
  says what becomes of the packing. The other runs have `MaxGuestSize <= Capacity`:
  Overload-and-Remove does not return with such a guest, the bounds of the tree solver are
  claimed for trees whose guests fit, and decanting is given packings without overfull hosts.
- *Faulty forms.* Beside some definitions the modules keep faulty forms of them,
  each marked `Mutant` and used by nothing: a plausible bug that the
  properties must catch. `PROJECT.json` says which property catches which.

## Runs, properties and bounds

Each property is stated in words above its definition.

| run | bounds | shows |
|---|---|---|
| `host_calls` | 3 pages, 3 guests of 0-3 pages | the page map is true to the guests after any calls; what is computed from it is right |
| `packers` | 4 pages, capacity 3, up to 4 guests of 0-4 pages | for Next Fit, First Fit and Best Fusion: a valid packing, but that a guest larger than a host is alone on an overfull one; true counts; Next Fit leaves no two neighbours, the others no two hosts, that could be one; in a First Fit packing no guest fits an earlier host, at any moment; all implement `BinPacking` |
| `overload_and_remove` | the same, but guests of 0-3 pages | no guest lost, doubled, or put back on a host; no host left empty or overfull; the clean-up finds nothing; the loop ends |
| `opportunity_aware` | those of `packers` | a packing as valid as theirs, also when scores are no numbers; implements `BinPacking`, as any-fit when all guests have pages |
| `decanting` | 3 pages, capacity 2, packings of up to 4 guests on up to 4 hosts | stays a packing at every move; the searches find the components; parts are still on the right host when their turn comes; the result needs no decanting and is one that `DecantResults` has; a stable packing is left alone |
| `tree_solver` | 4 pages, capacity 3, trees of up to 5 nodes and 4 guests, nodes of 0-3 pages | tree and caches stay consistent through erasures, however the solve ends; without empty nodes below the root it returns a valid packing; bounds hold |
| `benchmark` | 2 workers, 2 suites with one and two solvers, batches of 2 instances, directories that are missing, empty, or have two files with 0 to 2 instances, anything may throw | no task twice, none outlives its batch, all done at the return; the results printed are complete; the program ends |
| `maximisers` | 3 pages, capacity 2, up to 3 guests of 0-3 pages; subsets of 1 or 2; cluster trees of up to 4 nodes with up to one page and two parents and 5 clusters | hosts are filled well, each loop has a measure; packings are valid where subsets are single guests or no node has two parents (`Exact`) |
| `tree_rest_overfull`, `tree_decanting`, `subset_pairs`, `shared_parents` | – | see [Where code and comments disagree](#where-code-and-comments-disagree) |

Why these bounds: with four pages and capacity 3 guests overlap in every way
(disjoint, sharing, nested, equal, without pages), hosts can be just full, one
short and one over, and up to four guests give up to three hosts, so that first,
last and a host between differ. Overload-and-Remove needs four guests to evict a
guest that was placed in an earlier turn and to place it elsewhere. Decanting
needs three hosts for a guest to move twice, and components of two guests that
do not fit where each of them does.

Five nodes are enough for the tree solver to erase a subtree three levels down, to
be left with an inner node without children, and to pack something after it.
In `benchmark` four tasks and two workers let a worker come back for further tasks
while the other is at any point of its own, and a worker find none; a batch that ends in the middle
of the second file, one that ends with the directory, and a
file without instances come up, and the second suite starts after each way the
first can go.

In `maximisers` three guests and hosts of two pages let a host be filled by a pair and
by single guests after it, a guest be placed on the second host by what the
first left, a guest fit no host, and the bisection go both ways and throw. Five clusters and four nodes
let a table combine two children, and a node of the second level have two
parents. The tables of larger trees repeat these steps.

TLC takes instances up to renaming of pages (`Symmetry`, sound as no property
or action names a page; pages have no order in the code either). The runs for
liveness, which symmetry could falsify, use none.

The solvers stop, so deadlock is not checked for them. It is for `HostCalls`,
which never stops.

*Fairness.* `Terminates` needs weak fairness of the whole next-state relation of
Overload-and-Remove, that is, that the only thread of the program goes on. No
choice inside the loop is assumed to be fair: the hash order may be the worst
one at every turn. `DriverEnds` needs weak fairness of the main thread and of each worker, which
the operating system's scheduler gives; the mutex need not be fair, and a
thread that waits for it gets it at the latest when the others have no tasks left.
`Maximisers` states no fairness: what ends its loops is stated as the measures of
`EveryTurnProgresses`, each of which is bounded.

## Proofs

TLAPS checks the following for every set of pages, capacity and number of guests.

*`PackingLemmas`* states in its first part what the operations do to a host whose map is
true to its guests: `AddGuest` of a guest that is not there and `RemoveGuest` of one
that is keep it so, and the counts computed from the map are sizes of sets of
pages. All later proofs cite these and never open a host again. The rest does the same for
vectors of hosts: what placing a guest, taking one off and
opening a host do, that a host which refuses a guest refuses it forever if it only
gains pages, that a relative size is never more than the size, so that the
comparison Best Fusion starts from (`src/vmp_solvers.h:129-139`) excludes no host,
and that `MakePacking` counts the guests placed when none is twice. The last part
follows the nested folds of `DecantGuests` turn by turn: for the proofs of decanting, and
for those of the maximisers, which use decanting as one step.

*`MaximisersProofs`* proves first, for `HostCalls`, that types, the agreement of the two
containers and the right answers are invariants. The inductive invariant, `HostInv`, is
`HostTypeOK /\ FrequenciesCount`: without the second conjunct `RemoveCall` could
drop a page some guest has. The rest is about `Maximisers` ([below](#the-maximisers)).

*`PackersProofs`* proves every property of the run `packers`, from `HostAssumption` and
`ScoresAssumption`, for guests of any size:

- the inductive invariant: the hosts are well formed with true counts,
  none is empty, an overfull one has one guest only, no guest is on two, and the guests on them are
  those before `next`. The turns of all three solvers are instances of one step,
  "place on a host that accommodates, or on a new one when the hosts asked
  refuse", for which it is proved once. `TypeOK`, `CountsTrue` and `ResultValid`
  follow: the verdict of `validateForInstance` from the fact that a host with one guest is overfull
  just when the guest does not fit a host (`VerdictOnPacking`), and that the packing counts its
  guests by counting the places of the guests.
- `NeedsNoDecanting`. Inductive as it is together with the common
  invariant: hosts only gain guests, so a host that refuses a guest goes on
  refusing it.
- `NeighboursDoNotMerge` and `HostsDoNotMerge`. The strengthening remembers that
  each host has a guest which every host asked before it was opened refused.
- `PacksBins`: each initial state maps to one of `BinPacking`, and each step to
  a step. Counting pages on a host becomes the question whether a set of guests
  may share a bin.

*`OverloadProofs`* proves every property of the run `overload_and_remove` but `Terminates`.
The inductive invariant says that each guest is either on one host or, once, in the queue,
that the page maps are true, that only the host of the turn is ever overfull, and that no host is
empty. The last holds if every guest fits an empty host (`MaxGuestSize <= Capacity`, a hypothesis of
`OverloadHostsStayUsed` and `OverloadResultValid` only): an overfull host then has two
guests at least, so an eviction leaves one. `EveryTurnIsNew` rests on `Untried`: the host chosen
is not among those the guest was on. A queue becomes shorter only by a placement, and each adds
an attempt; as attempts are finitely many, this is the argument for `Terminates`, whose last step,
from the measure to termination, is left to TLC. `CleanUpChangesNothing` needs all of the invariant: when
the queue is empty no host is overfull, so nothing is cleared or queued.

*`OpportunityProofs`* proves `TypeOK`, `ResultValid` and `PacksBins` of the run `opportunity_aware`.
The scores stay closed: the proofs use only that a candidate is an unplaced guest with a host that
accommodates it, and that `OpenForLargest` takes place when there is no candidate. That suffices for
`ResultValid`, as for the packers; for the any-fit form of `PacksBins` one must
also know that a guest with pages on a host that accommodates it has a score that compares, which is
where guests without pages make the difference.

*`DecantingProofs`* proves all properties of the run `decanting`, for packings
of any number of hosts. There are three inductive invariants.

- `SearchInv` is about one call of `partitionConnectedGuestsTogether`. All guests reached, in the
  finished components, the present one and the queue, are distinct (`ReachedOnce`), and they are exactly
  those marked as discovered with the one guest of each search that never is (`MarkedButFirst`), which
  is safe because it lies before the candidates of its own and of all later searches (`SearchFromBegin`).
  Each dequeued guest has had all its neighbours reached (`NeighboursReached`), so finished components
  are closed, and what one search has reached is connected (`ReachedConnected`), so they
  do not fall apart. `FindsComponents` follows.
- `MovesInv` is about the hosts. The guests stay those of the packing (`HostsKept`); the part under
  way is split between left and right host and later parts are whole on the right one
  (`StagesFit`, `PartsApart`, which needs `FindsComponents`), so no guest is removed from a host it
  is not on. `ThirdPassSettles` is why the result is stable: once the third pass is beyond a left host,
  each guest further right is refused by it, and remains so, since left hosts only gain pages then and
  right ones only lose guests. It holds in no earlier pass, as
  those move parts. `StableStays` says that a stable packing is still the one given.
- `FollowInv` is about the function. The hosts a pass began with are among those the passes before can
  leave (`Starts`); before the pair under way, the hosts were among those the walk over the pairs
  can have reached (`IsWalk`, `FromStart`); and the parts tried since, in the order they were tried in, make of these what
  the hosts will be when the part that is moving has moved (`TriedSoFar`). The nested folds of `DecantGuests` are
  brought to this form by following each turn by turn (`PartsTurns`, `RowTurns`, `RowsTurns`), and
  a part by taking its guests off one by one (`GuestsTurns`). Guests move in another order here than in
  the fold: since page maps are true to guests (`MovesInv`), hosts are equal when their guests are
  (`KnownByGuests`). `ReachesAResult` follows; it is also why the parts of the second pass must be
  those the searches find (`SearchInv`).

*`TreeProofs`* proves every property of the run `tree_solver`, for trees of any
shape and size. The inductive invariant, `IInv`, has three parts besides the hosts.

- `Rooted`, of the tree and of the working copy: nodes are numbered from 0, parents before
  children, and parents and children know each other. So every path ends at the root, a
  node's subtree is itself and the subtrees of its children, and erasing a subtree leaves a tree.
- `Spread`: the pages of a path are disjoint, and at most as many as a guest may have; `LeavesRight`:
  the guests of the leaves are distinct and have the pages of their paths.
- `CachesMatch` itself, with `PartOf`: the working copy has nodes of the tree, unchanged but for children and caches.

`TreeCachesMatch` follows: a turn places the guests of the subtree it erases, each once, whichever
intermediate solver is used (`ProceedByPlaces`). `TreeResultValid` (with `MaxGuestSize <= Capacity`) is about
the bounds: below a node that is not the root the capacity left is positive, so no bound
divides by zero and the tree is not malformed (`NotMalformed`); the page bound of each node is what its
guests have below its ancestors when they are on one host (`BoundsRight`), so a bound of one means they
fit one (`PackRestFits`); and when the bound of the root is more than one some
subtree is a candidate (`CandidateExists`). `TreeLowerBoundsHold` counts copies of pages, one for
each host a page is on: take any assignment of the guests below a node to hosts that all fit. From the leaves up, each node
uses at least as many hosts as its bound says, and there are at least as many copies of the pages from it on as its size
(`BoundsReached`). For a host that a node uses has all pages of the path to it, hence no more copies from below than the
node leaves room for (`CopiesOnOneHost`), and the copies of different children are different, as no nodes
share pages (`ChildrenApart`). Paths, bounds and folds are recursive functions. Their
equations, and what holds of them for all nodes or guests, are proved by taking a least
counterexample (`CountingUp` of `PackingLemmas`), since induction schemata are out of the provers' reach.

*`BenchmarkProofs`* proves first, about the pool by itself, for every number of workers (at least one) and tasks, and
any sequence of calls, that no task is run twice and that all are done and reported at the return. The
inductive invariant says where each drawn task and each drawn number is
(finished, reported, or with a worker), that joined workers have exited and
exited ones saw no task left, and that the numbers drawn are as many as the
finished tasks less the workers about to draw one: a cardinality, without which
the reports could be numbered with gaps.

It then proves that every step of the driver is a step of the pool, a
call of it, or leaves the pool alone, for any directories, batches and solvers
(`DriverAssumption`). So the driver, as far as the pool goes, implements
`WorkerPool`, and its invariants hold from batch to batch. Its own invariant, `DriverInv`, says what the
driver has at each moment: files that are neither in the queue nor being read have been read to the end
(`LoaderInPlace`); the batch has distinct instances, all of them taken from the files
(`BatchInPlace`); while the pool runs, its tasks are each instance of the batch with each solver once
(`TasksInPlace`); and the results are those of the earlier suites, and of the instances
taken from the files that are not in the batch. `ResultsComplete` is this when the last suite is left, and
`DriverTypeOK`, that no task outlives its instance, follows with the invariant of the pool.

### The maximisers

*`MaximisersProofs`* proves every property of the run `maximisers`, for instances, cluster
trees and sizes of subsets of any bounds, from `HostAssumption` and `MaximisersAssumption`. Guests
may be larger than a host. There are three inductive invariants, each resting on those before.

- `MaxInv` is about types and links, and holds for every solver, tree and profit.
  `TreeBuilt` says that the builder's calls keep nodes, clusters and leaves
  linked both ways, parents in the cluster above, and every leaf the only node of its cluster (`WellMade`), and that the
  guest of a leaf has the pages of all nodes that reach the leaf (`LeavesHavePages`).
  `SearchTyped` says that the attempt under way is at a number of hosts in the range of the bisection, so the
  range narrows by every attempt. `HostFilling` says that a host has a profitable guest as soon as it has
  any: a subset is taken only for a reward above 0, and an entry for a profit above 0 has a profitable
  guest (`Rewarding`). So a host that is kept takes profit. `TableMade` is about the order of visits
  (`Queued`): a cluster's counter is the number of its children not visited, or, for the root after its visit,
  one less than zero; a cluster is queued or visited just when all its children are visited. A queue
  that runs empty therefore leaves no cluster out: there would be a deepest one, and all its children would be
  visited. `TypeCorrect` and `TurnsProgress` follow.
- `WellInv` is about what the hosts are filled with. `FillingWell`: the guests still offered are those that are
  not on the host, and the size of subsets is at least 1 before the search ends, so that
  when it ends no single guest was accepted for the host. `TableWell` gives the entries of the table their
  meaning, for any tree: a finite entry for selection `S` and profit `p` stands for a set of nodes that selects `S`, whose other
  members have *some* parent in it, and that makes the profit; its count is no less
  than the number of pages of these nodes (`EntryMeans`), and no more than that of any such set in which nodes
  share no pages (`EntryBest`). Using a child joins the sets of two entries
  (`JoinOf`), and each set splits into such two (`SplitOf`). At the root, with one parent for each node, a set that has
  some parent of each member has all of them, hence all pages of its guests (`OneParent`, `PathUp`); the host is then
  not overfull, and no set of guests that fits makes more profit when no pages are shared. That
  a host stays empty only if no profitable guest fits needs less: the nodes that reach
  one guest share no pages in any tree (`PathsApart`), and the entry for them is fit. With two
  parents for a node the argument breaks where the code does (`shared_parents`). `HostsFilledWell` follows.
- `ResultInv` is about the search, where subsets are single guests or nodes have one parent (`Exact`). The
  hosts made so far have the guests that are not profitable any more, each once, and none is empty or
  overfull (`FullOf`); `placed` is the number of these guests, no less than that of the hosts. So the search ends when all guests
  are placed, when no profitable guest fits, or at the limit of hosts, and it does not end for the limit when
  that is `Unlimited`. The bisection can only throw if no attempt succeeded. The range then still ends at
  the number of guests, and an attempt with that many hosts places them all, since each
  host takes one at least; so it throws only for want of guests or of room for one of them. Decanting keeps what
  `FullOf` says (`DecantedHolds`). `ExactResultsValid` follows: the search ends well (`EndsWell`) *if* `Exact`.
  It is not a theorem that the solvers of the local search return valid packings: for subsets of two guests, or a node with two
  parents, they need not (`subset_pairs`, `shared_parents`).

The folds of the table, the sequence of combinations and the sums of profits are followed turn by turn, as in
`DecantGuests`, by least counterexample; that the combinations tried are all there are is
only needed, and proved, for single guests (`SingleCombinations`).

### What is only model-checked

`Terminates` and `DriverEnds`, which are liveness properties; every other property of a passing run is a
theorem. That a violation is found where code and comments disagree is by nature a matter of single behaviours,
hence of TLC.

## Where code and comments disagree

- `tree_rest_overfull`: what the tree solver does with a guest
  that has no pages of its own below its ancestors. The bound of its parent is
  0 hosts and no pages. The solver then returns an overfull host, against its
  assertion and its comment (capacity 3, a node with page 1 above a guest with nothing
  more, beside a guest with pages 2, 3, 4). Or it finds no subtree to pack, against
  another assertion, and reads past the end of a vector (any tree whose leaves are
  all empty, such as one guest at the root, as the tree loader builds it); or it
  throws "malformed Tree" (when the ancestors fill the host). The instance format
  allows such guests. With no empty node below the root none of this happens,
  which is what `ResultValid` of `tree_solver` says.
- `tree_decanting`: the benchmark does not decant the packings of the tree solver by First Fit,
  for which "first-fit never needs decanting" (`benchmarks/benchmark.cpp:234`). The
  host for the rest is opened without asking the others, so a guest may fit an
  earlier host.
- `subset_pairs`: `solveByLocalSubsetEfficiency` promises "a valid packing"
  (`src/vmp_solvers.h:455`). The local search offers every guest for every host, those
  on a host for no profit, and a subset of two is taken if either has a profit.
  With hosts of two pages and guests `{}`, `{p1, p2}`, `{p1, p3}`, `{p2, p3}` the
  second host takes the empty guest again; `placed` reaches four with the last
  guest on no host. The benchmark has this solver commented out as "too slow".
- `shared_parents`: `solveByLocalClusterTree` promises the same (`src/vmp_solvers.h:482`).
  A guest has the pages of all nodes that reach it (`instances-explanation.md:57`), but
  the table lets it be taken with any one of its parents. A guest with two
  parents is then counted with too few pages, and its host is overfull.
  The tests' cluster trees have such guests. Where every node has one parent, `ResultValid` of `maximisers` shows the
  packing valid, and `FilledWell` the table exact if no nodes have pages in common.

All solvers promise "a valid packing" without saying that no guest may be larger than
a host. With such a guest the sequential packers and the opportunity-aware solver return an overfull host,
on which it is alone, as `ResultValid` of their runs has it;
Overload-and-Remove does not return, and the maximisers leave the guest out or, by
bisection, throw. No loader, builder or constructor rejects it. The bisection
also throws for an instance without guests, for which the unlimited call returns an empty packing.

The comment on `countPagesWithGuest` (`src/vmp_host.h:50-52`) says it counts the
pages host and guest share. It counts those they have together, as
`AnswersRight` states; this is what callers and tests want.

Two things the runs show that contradict nobody: a guest without pages can make
the opportunity-aware solver open a host it does not need (its score is 0/0,
which is taken for no candidate), and the clean-up at the end of Overload-and-Remove
never has anything to do.

## Not modelled

Printing, labels, JSON parsing, options, timing, the exit code and CSV output: no property is
about them. Generators, examples and tests: they are callers, read for what they
expect. `Packing::addHost` has no caller among what is modelled. Of the recursive
parsers of the loaders the order of the builder calls is modelled, in
`TreeSolver` and `Maximisers`, not the mapping of ids; a tree loader drops the
pages of a root that is not a guest (`src/loaders/vmp_treeloader.cpp:84-88`), which
the models, starting from the builder, do not have. Profits other than 0 and 1, which no
caller gives, are left out, and so are leaves without parents, which the
builder excludes by an assertion only (`vmp_clustertreebuilder.cpp:45`).

Some hazards have no property, as the repository says nothing of what should
happen, and the models only have what does: results of finished tasks are lost when a
solver or a loader throws (`DriverEnds` says that such a run ends, `ResultsComplete` that nothing
incomplete is printed); the tree solver throws "malformed Tree" for some trees with
empty nodes. Nor is it stated that the bisection finds the least number of hosts its
maximiser could do with: no comment promises it.

## Plan

In order, the most important behaviour first:

1. **Done**: host, packing, the five one-level solvers, decanting, the abstract
   packer; proofs for the host and all properties of the sequential packers.
2. **Done**: `Tree`, `TreeSolver`: builder calls, caches, `eraseSubtree`, lower bounds,
   `solveByTree` with either intermediate solver.
3. **Done**: `WorkerPool`, with proofs for any number of calls; `Benchmark`, with the
   loaders' batches, around it.
4. **Done**: `ClusterTree`, `SubsetEfficiency`, `ProfitTable`, `Maximisers`.
5. **Done**: decanting and the searches of its second pass as one system.
6. **Done**: proofs for Overload-and-Remove, the opportunity-aware solver, decanting with the
   searches of its second pass, and the driver.
7. **Done**: proofs for the tree solver: types, caches, bounds, and valid results.
8. **Done**: decanting, move by move, reaches a result of the function that stands for it.
9. **Done**: proofs for the maximisers: types, the measures of their loops, what hosts are filled
   with, and valid results.

## Running the checks

In this directory, with the TLA+ tools and community modules at hand:

    tlc -workers 2 -config MCSequentialPackers.cfg MCSequentialPackers
    tlapm PackersProofs.tla

`PROJECT.json` lists every run with its module, configuration and properties,
every definition with the lines of code it models, the faulty forms with the
properties that catch them, the hazards, and the theorems.
