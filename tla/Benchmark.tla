----------------------------- MODULE Benchmark ------------------------------
(***************************************************************************)
(* The benchmark driver: runSuite for each suite in turn, with its loader. *)
(* A loader gives the instances of a directory in batches.  At each call   *)
(* of load it puts every path back into its queue, and finds its place by  *)
(* the number of instances it has taken from each file.  The tasks of a    *)
(* batch, one for each instance and solver, are shuffled and given to the  *)
(* pool of WorkerPool, whose variables and steps this module adds to.  A   *)
(* task points to its instance in the batch.  The results of the batches   *)
(* are only printed after the last one, and nothing is caught.  An         *)
(* instance is its place in its file, and a result is its three labels;    *)
(* what a solver finds, and how long it takes, are left out.               *)
(***************************************************************************)
EXTENDS WorkerPool, SequencesExt

CONSTANTS
    Solvers,       \* the number of solvers of each suite
    MaxResident,   \* maxResidentInstances, at least one (parseConfig)
    Directories,   \* what a directory may hold: the number of instances of each file
    NoDirectory,   \* a directory that is not there
    Blank          \* a Result no task has written

Suite == 1 .. Len(Solvers)

ASSUME DriverAssumption ==
    /\ Solvers \in Seq(Nat \ {0})
    /\ MaxResident \in Nat \ {0}
    /\ \A d \in Directories : d = NoDirectory \/ d \in Seq(Nat)
    /\ \A s \in Suite : MaxResident * Solvers[s] <= MaxTotal

VARIABLES
    driver,      \* "entering" a suite, "calling" load, "loading", "loaded", "running",
                 \* "printed", or "terminated" by an exception of a loader
    suite,       \* the number of the suite
    dirs,        \* the directory of each suite, which nothing changes
    paths,       \* the files in the loader's queue, in their order
    processed,   \* the number of instances the loader has taken from each file
    file,        \* the file that is read, or 0
    batch,       \* the instances loaded: pairs <<file, index>>
    tasks,       \* the tasks: pairs <<position in the batch, solver>>
    results      \* outResults, which is sorted before it is read

driverVars == <<driver, suite, dirs, paths, processed, file, batch, tasks, results, vars>>

loaderVars == <<paths, processed, file>>

DriverInit ==
    /\ Init
    /\ driver = "entering"
    /\ suite = 1
    /\ dirs \in [Suite -> Directories]
    /\ paths = {}
    /\ processed = <<>>
    /\ file = 0
    /\ batch = <<>>
    /\ tasks = <<>>
    /\ results = EmptyBag

Files == DOMAIN dirs[suite]

-----------------------------------------------------------------------------
(* A suite begins with a new loader, or is passed over.                    *)
EnterSuite ==
    /\ driver = "entering" /\ suite \in Suite
    /\ dirs[suite] # NoDirectory
    /\ driver' = "calling"
    /\ paths' = {}
    /\ processed' = [f \in Files |-> 0]
    /\ UNCHANGED <<suite, dirs, file, batch, tasks, results, vars>>

SkipSuite ==
    /\ driver = "entering" /\ suite \in Suite
    /\ dirs[suite] = NoDirectory
    /\ suite' = suite + 1
    /\ UNCHANGED <<driver, dirs, loaderVars, batch, tasks, results, vars>>

-----------------------------------------------------------------------------
(* The loader. *)

(* Mutant: the directory is only read by the first call. *)
ScanDirectoryOnce ==
    /\ driver = "calling"
    /\ driver' = "loading"
    /\ paths' = IF \A f \in Files : processed[f] = 0 THEN Files ELSE paths
    /\ UNCHANGED <<suite, dirs, processed, file, batch, tasks, results, vars>>

ScanDirectory ==
    /\ driver = "calling"
    /\ driver' = "loading"
    /\ paths' = paths \cup Files
    /\ UNCHANGED <<suite, dirs, processed, file, batch, tasks, results, vars>>

TakeFile ==
    /\ driver = "loading" /\ file = 0
    /\ \E f \in paths :
          /\ \A g \in paths : f <= g
          /\ file' = f
          /\ paths' = paths \ {f}
    /\ UNCHANGED <<driver, suite, dirs, processed, batch, tasks, results, vars>>

(* A call ends in the middle of a file when the batch is full. *)
ReadInstance ==
    /\ driver = "loading" /\ file # 0
    /\ processed[file] < dirs[suite][file]
    /\ processed' = [processed EXCEPT ![file] = @ + 1]
    /\ batch' = Append(batch, <<file, processed[file]>>)
    /\ IF Len(batch') = MaxResident
       THEN driver' = "loaded" /\ file' = 0
       ELSE UNCHANGED <<driver, file>>
    /\ UNCHANGED <<suite, dirs, paths, tasks, results, vars>>

EndFile ==
    /\ driver = "loading" /\ file # 0
    /\ processed[file] >= dirs[suite][file]
    /\ file' = 0
    /\ UNCHANGED <<driver, suite, dirs, paths, processed, batch, tasks, results, vars>>

NoFileLeft ==
    /\ driver = "loading" /\ file = 0 /\ paths = {}
    /\ driver' = "loaded"
    /\ UNCHANGED <<suite, dirs, loaderVars, batch, tasks, results, vars>>

(* The directory cannot be read, or a file is not what it should be. *)
LoadThrows ==
    /\ driver \in {"calling", "loading"}
    /\ driver' = "terminated"
    /\ UNCHANGED <<suite, dirs, loaderVars, batch, tasks, results, vars>>

-----------------------------------------------------------------------------
(* The tasks of a batch, and their results. *)

(* makeTasks, in the order of some shuffle. *)
ShuffledTasks == SetToSeqs((DOMAIN batch) \X (1 .. Solvers[suite]))

RunBatch ==
    /\ driver = "loaded" /\ batch # <<>>
    /\ \E s \in ShuffledTasks : tasks' = s
    /\ \E n \in 0 .. MaxTotal : n = Len(tasks') /\ Start(n)
    /\ driver' = "running"
    /\ UNCHANGED <<suite, dirs, loaderVars, batch, results>>

ResultOf(t) == [suite |-> suite, instance |-> batch[t[1]], solver |-> t[2]]

(* The results that runTasks returns. *)
BatchResults ==
    ToBag([i \in DOMAIN tasks |-> IF i - 1 \in finished THEN ResultOf(tasks[i]) ELSE Blank])

(* The batch and its tasks end with the turn of the loop. *)
CollectResults ==
    /\ driver = "running" /\ main = "returned"
    /\ results' = results (+) BatchResults
    /\ batch' = <<>>
    /\ tasks' = <<>>
    /\ driver' = "calling"
    /\ UNCHANGED <<suite, dirs, loaderVars, vars>>

LeaveSuite ==
    /\ driver = "loaded" /\ batch = <<>>
    /\ driver' = "entering"
    /\ suite' = suite + 1
    /\ UNCHANGED <<dirs, loaderVars, batch, tasks, results, vars>>

PrintResults ==
    /\ driver = "entering" /\ suite \notin Suite
    /\ driver' = "printed"
    /\ UNCHANGED <<suite, dirs, loaderVars, batch, tasks, results, vars>>

-----------------------------------------------------------------------------
PoolStep(A) ==
    /\ driver = "running"
    /\ A
    /\ UNCHANGED <<driver, suite, dirs, loaderVars, batch, tasks, results>>

LoaderNext ==
    ScanDirectory \/ TakeFile \/ ReadInstance \/ EndFile \/ NoFileLeft \/ LoadThrows

(* The main thread runs the driver, and in runTasks its part of the pool.  *)
MainThread ==
    \/ EnterSuite \/ SkipSuite \/ LoaderNext
    \/ RunBatch \/ CollectResults \/ LeaveSuite \/ PrintResults
    \/ PoolStep(MainNext)

DriverNext == MainThread \/ \E w \in Worker : PoolStep(WorkerNext(w))

DriverFairness ==
    /\ WF_driverVars(MainThread)
    /\ \A w \in Worker : WF_driverVars(PoolStep(WorkerNext(w)))

DriverSpec == DriverInit /\ [][DriverNext]_driverVars /\ DriverFairness

-----------------------------------------------------------------------------
(* Types; and the pointers of the tasks: while a worker is at a task, the  *)
(* instance the task points to is in the batch (benchmark.cpp:257, 287).   *)
DriverTypeOK ==
    /\ TypeOK
    /\ driver \in {"entering", "calling", "loading", "loaded", "running", "printed", "terminated"}
    /\ suite \in 1 .. Len(Solvers) + 1
    /\ Len(batch) <= MaxResident
    /\ IsABag(results)
    /\ \A w \in Busy : /\ task[w] + 1 \in DOMAIN tasks
                       /\ tasks[task[w] + 1][1] \in DOMAIN batch

(* What is printed is one result for every instance of every file of every *)
(* directory that is there and every solver of its suite, however the      *)
(* batches cut the files (benchmark.cpp:180-194, vmp_instanceloader.cpp:   *)
(* 53-85).                                                                 *)
ResultsComplete ==
    driver = "printed" =>
        LET present == {s \in Suite : dirs[s] # NoDirectory}
            instances(s) == UNION {{f} \X (0 .. dirs[s][f] - 1) : f \in DOMAIN dirs[s]}
            expected == UNION {[suite : {s}, instance : instances(s), solver : 1 .. Solvers[s]] :
                               s \in present}
        IN  results = SetToBag(expected)

(* The driver prints its results, or an exception ends it                  *)
(* (benchmark.cpp:182-194, 323-325, 371-385).                              *)
DriverEnds == <>(driver \in {"printed", "terminated"} \/ main = "terminated")
=============================================================================
