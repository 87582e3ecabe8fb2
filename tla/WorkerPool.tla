----------------------------- MODULE WorkerPool -----------------------------
(***************************************************************************)
(* runTasks of the benchmark driver, called once for each batch: the main  *)
(* thread starts the workers and joins them in order; a worker draws the   *)
(* number of its next task from a shared counter, runs the task, which     *)
(* writes the task's slot of the results, draws a number for its report    *)
(* from a second counter, and writes the report, with the slot read again, *)
(* under a mutex.  A task is a run of a solver and may throw, which        *)
(* nothing catches: the program is terminated.  The two counters are       *)
(* atomic, all else is interleaved.                                        *)
(***************************************************************************)
EXTENDS Integers

CONSTANTS
    Workers,   \* the number of threads, at least one (parseConfig)
    MaxTotal   \* bound on the number of tasks of a call

ASSUME PoolAssumption ==
    /\ Workers \in Nat \ {0}
    /\ MaxTotal \in Nat

Worker == 1 .. Workers

VARIABLES
    main,       \* "idle", "spawning", "joining", "returned", or "terminated"
    total,      \* the number of tasks
    spawned,    \* the number of workers started
    joined,     \* the number of workers joined
    state,      \* what each worker is about to do
    task,       \* the number each worker has drawn (i)
    number,     \* the number of each worker's report (done)
    nextIdx,
    completed,
    holder,     \* the worker that holds the mutex, or 0
    finished,   \* the tasks whose slot in results is written
    reports     \* the reports written: pairs <<number, task>>

vars == <<main, total, spawned, joined, state, task, number, nextIdx, completed, holder, finished, reports>>

Task == 0 .. total - 1

Init ==
    /\ main = "idle"
    /\ total = 0
    /\ spawned = 0
    /\ joined = 0
    /\ state = [w \in Worker |-> "absent"]
    /\ task = [w \in Worker |-> 0]
    /\ number = [w \in Worker |-> 0]
    /\ nextIdx = 0
    /\ completed = 0
    /\ holder = 0
    /\ finished = {}
    /\ reports = {}

Running == main \in {"spawning", "joining"}

-----------------------------------------------------------------------------
(* The main thread. *)

(* A call, with the locals of runTasks made anew. *)
Start(n) ==
    /\ main \in {"idle", "returned"}
    /\ main' = "spawning"
    /\ total' = n
    /\ spawned' = 0
    /\ joined' = 0
    /\ state' = [w \in Worker |-> "absent"]
    /\ task' = [w \in Worker |-> 0]
    /\ number' = [w \in Worker |-> 0]
    /\ nextIdx' = 0
    /\ completed' = 0
    /\ holder' = 0
    /\ finished' = {}
    /\ reports' = {}

Spawn ==
    /\ main = "spawning"
    /\ spawned < Workers
    /\ spawned' = spawned + 1
    /\ state' = [state EXCEPT ![spawned + 1] = "drawing"]
    /\ UNCHANGED <<main, total, joined, task, number, nextIdx, completed, holder, finished, reports>>

AllSpawned ==
    /\ main = "spawning"
    /\ spawned = Workers
    /\ main' = "joining"
    /\ UNCHANGED <<total, spawned, joined, state, task, number, nextIdx, completed, holder, finished, reports>>

(* Mutant: the threads are not waited for. *)
JoinUnwaited ==
    /\ main = "joining"
    /\ joined < Workers
    /\ joined' = joined + 1
    /\ UNCHANGED <<main, total, spawned, state, task, number, nextIdx, completed, holder, finished, reports>>

Join ==
    /\ main = "joining"
    /\ joined < Workers
    /\ state[joined + 1] = "exited"
    /\ joined' = joined + 1
    /\ UNCHANGED <<main, total, spawned, state, task, number, nextIdx, completed, holder, finished, reports>>

Return ==
    /\ main = "joining"
    /\ joined = Workers
    /\ main' = "returned"
    /\ UNCHANGED <<total, spawned, joined, state, task, number, nextIdx, completed, holder, finished, reports>>

-----------------------------------------------------------------------------
(* A worker. *)

(* Mutant: the counter is read and not advanced. *)
DrawWithoutAdvancing(w) ==
    /\ Running /\ state[w] = "drawing"
    /\ task' = [task EXCEPT ![w] = nextIdx]
    /\ state' = [state EXCEPT ![w] = IF nextIdx < total THEN "running" ELSE "exited"]
    /\ UNCHANGED <<main, total, spawned, joined, number, nextIdx, completed, holder, finished, reports>>

Draw(w) ==
    /\ Running /\ state[w] = "drawing"
    /\ task' = [task EXCEPT ![w] = nextIdx]
    /\ nextIdx' = nextIdx + 1
    /\ state' = [state EXCEPT ![w] = IF nextIdx < total THEN "running" ELSE "exited"]
    /\ UNCHANGED <<main, total, spawned, joined, number, completed, holder, finished, reports>>

RunTask(w) ==
    /\ Running /\ state[w] = "running"
    /\ finished' = finished \cup {task[w]}
    /\ state' = [state EXCEPT ![w] = "counting"]
    /\ UNCHANGED <<main, total, spawned, joined, task, number, nextIdx, completed, holder, reports>>

TaskThrows(w) ==
    /\ Running /\ state[w] = "running"
    /\ main' = "terminated"
    /\ UNCHANGED <<total, spawned, joined, state, task, number, nextIdx, completed, holder, finished, reports>>

Count(w) ==
    /\ Running /\ state[w] = "counting"
    /\ completed' = completed + 1
    /\ number' = [number EXCEPT ![w] = completed + 1]
    /\ state' = [state EXCEPT ![w] = "locking"]
    /\ UNCHANGED <<main, total, spawned, joined, task, nextIdx, holder, finished, reports>>

Lock(w) ==
    /\ Running /\ state[w] = "locking"
    /\ holder = 0
    /\ holder' = w
    /\ state' = [state EXCEPT ![w] = "reporting"]
    /\ UNCHANGED <<main, total, spawned, joined, task, number, nextIdx, completed, finished, reports>>

(* Mutant: the mutex stays locked. *)
ReportKeepingLock(w) ==
    /\ Running /\ state[w] = "reporting"
    /\ reports' = reports \cup {<<number[w], task[w]>>}
    /\ state' = [state EXCEPT ![w] = "drawing"]
    /\ UNCHANGED <<main, total, spawned, joined, task, number, nextIdx, completed, holder, finished>>

(* The report is written, and the lock released at the end of its scope.   *)
Report(w) ==
    /\ Running /\ state[w] = "reporting"
    /\ reports' = reports \cup {<<number[w], task[w]>>}
    /\ holder' = 0
    /\ state' = [state EXCEPT ![w] = "drawing"]
    /\ UNCHANGED <<main, total, spawned, joined, task, number, nextIdx, completed, finished>>

-----------------------------------------------------------------------------
MainNext == Spawn \/ AllSpawned \/ Join \/ Return

WorkerNext(w) ==
    Draw(w) \/ RunTask(w) \/ TaskThrows(w) \/ Count(w) \/ Lock(w) \/ Report(w)

Next ==
    \/ \E n \in 0 .. MaxTotal : Start(n)
    \/ MainNext
    \/ \E w \in Worker : WorkerNext(w)

(* Every thread goes on when it can.  The mutex is not fair, and need not  *)
(* be: other workers run out of tasks.                                     *)
Fairness == WF_vars(MainNext) /\ \A w \in Worker : WF_vars(WorkerNext(w))

Spec == Init /\ [][Next]_vars /\ Fairness

-----------------------------------------------------------------------------
(* The workers that are at a task. *)
Busy == {w \in Worker : state[w] \in {"running", "counting", "locking", "reporting"}}

(* Types. *)
TypeOK ==
    /\ main \in {"idle", "spawning", "joining", "returned", "terminated"}
    /\ total \in 0 .. MaxTotal
    /\ spawned \in 0 .. Workers
    /\ joined \in 0 .. Workers
    /\ state \in [Worker -> {"absent", "drawing", "running", "counting", "locking",
                             "reporting", "exited"}]
    /\ task \in [Worker -> Nat]
    /\ number \in [Worker -> Nat]
    /\ nextIdx \in Nat
    /\ completed \in Nat
    /\ holder \in 0 .. Workers
    /\ finished \subseteq Task
    /\ reports \subseteq Nat \X Task

(* No two workers are ever at the same task, so no slot of the results is  *)
(* written by one while the other writes or reads it, and no task that is  *)
(* finished is run again (benchmark.cpp:304-308).                          *)
NoTaskTwice ==
    /\ \A v, w \in Busy : v # w => task[v] # task[w]
    /\ \A w \in Busy : state[w] = "running" => task[w] \notin finished

(* When runTasks returns, every slot is written, however many workers      *)
(* there are; and each task was reported, the reports numbered from one to *)
(* the number of tasks (benchmark.cpp:323-325, 307-311).                   *)
AllDoneAtReturn ==
    main = "returned" =>
        /\ finished = Task
        /\ {r[2] : r \in reports} = Task
        /\ {r[1] : r \in reports} = 1 .. total

(* runTasks returns, or a task that throws ends the program                *)
(* (benchmark.cpp:317-325).                                                *)
Ends == main = "spawning" ~> main \in {"returned", "terminated"}
=============================================================================
