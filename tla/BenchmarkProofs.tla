-------------------------- MODULE BenchmarkProofs ---------------------------
(***************************************************************************)
(* Theorems about the worker pool, for any number of workers and tasks,    *)
(* and about the driver that calls it: what holds of one call of the pool  *)
(* holds of all calls the driver makes.                                    *)
(***************************************************************************)
EXTENDS Benchmark, FiniteSetTheorems, SequenceTheorems, TLAPS

Counting == {w \in Worker : state[w] = "counting"}

(* A worker that has not been started does nothing; one that has been      *)
(* joined, or sees no task left, has exited.                               *)
Threads ==
    /\ \A w \in Worker : w > spawned => state[w] = "absent"
    /\ \A w \in 1 .. joined : state[w] = "exited"
    /\ main = "returned" => joined = Workers
    /\ \A w \in Worker : state[w] = "exited" => nextIdx >= total

(* Every task drawn is finished or running, at one worker.                 *)
TasksDrawn ==
    /\ NoTaskTwice
    /\ \A w \in Busy : task[w] < nextIdx /\ task[w] \in Task
    /\ \A t \in finished : t < nextIdx
    /\ \A t \in Task : t < nextIdx =>
          t \in finished \/ \E w \in Worker : state[w] = "running" /\ task[w] = t

(* A finished task is reported, or its worker is on the way to report it.  *)
TasksReported ==
    \A t \in finished :
        \/ \E r \in reports : r[2] = t
        \/ \E w \in Worker : state[w] \in {"counting", "locking", "reporting"} /\ task[w] = t

(* The numbers drawn are those of reports, or of workers about to report.  *)
NumbersReported ==
    /\ \A r \in reports : r[1] \in 1 .. completed
    /\ \A w \in Worker : state[w] \in {"locking", "reporting"} => number[w] \in 1 .. completed
    /\ \A n \in 1 .. completed :
          \/ \E r \in reports : r[1] = n
          \/ \E w \in Worker : state[w] \in {"locking", "reporting"} /\ number[w] = n

(* As many numbers are drawn as tasks are finished, but for the workers    *)
(* that are about to draw one.                                             *)
Counted == completed + Cardinality(Counting) = Cardinality(finished)

IInv ==
    /\ TypeOK
    /\ Threads
    /\ TasksDrawn
    /\ TasksReported
    /\ NumbersReported
    /\ Counted

LEMMA FiniteSets == TypeOK => /\ IsFiniteSet(Worker) /\ IsFiniteSet(Counting)
                              /\ IsFiniteSet(finished)
<1> SUFFICES ASSUME TypeOK PROVE IsFiniteSet(Worker) /\ IsFiniteSet(Counting) /\ IsFiniteSet(finished)
  OBVIOUS
<1>1. IsFiniteSet(Worker) /\ IsFiniteSet(Task)
  BY PoolAssumption, FS_Interval DEF TypeOK, Worker, Task
<1> QED BY <1>1, FS_Subset DEF TypeOK, Counting

LEMMA InitIInv == Init => IInv
<1> SUFFICES ASSUME Init PROVE IInv
  OBVIOUS
<1> USE PoolAssumption DEF Init
<1>1. TypeOK
  BY DEF TypeOK, Worker, Task
<1>2. Threads
  BY <1>1 DEF Threads, Worker
<1>3. TasksDrawn /\ TasksReported /\ NumbersReported
  BY DEF TasksDrawn, NoTaskTwice, Busy, TasksReported, NumbersReported, Worker, Task
<1>4. Counted
  <2>1. Counting = {}
    BY DEF Counting
  <2> QED BY <2>1, FS_EmptySet DEF Counted
<1> QED BY <1>1, <1>2, <1>3, <1>4 DEF IInv

(* The conjuncts that need no counting are kept by each action.            *)
LEMMA StepsKeepTypes == IInv /\ [Next]_vars => TypeOK'
<1> SUFFICES ASSUME IInv, [Next]_vars PROVE TypeOK'
  OBVIOUS
<1> USE PoolAssumption DEF IInv, TypeOK, Worker, Task
<1>0. CASE \E n \in 0 .. MaxTotal : Start(n)
  BY <1>0 DEF Start
<1>1. CASE MainNext
  <2>1. CASE Spawn
    BY <2>1 DEF Spawn
  <2>2. CASE AllSpawned
    BY <2>2 DEF AllSpawned
  <2>3. CASE Join
    BY <2>3 DEF Join
  <2>4. CASE Return
    BY <2>4 DEF Return
  <2> QED BY <1>1, <2>1, <2>2, <2>3, <2>4 DEF MainNext
<1>2. ASSUME NEW w \in Worker, WorkerNext(w) PROVE TypeOK'
  <2>1. CASE Draw(w)
    BY <1>2, <2>1 DEF Draw
  <2>2. CASE RunTask(w)
    <3>1. task[w] \in Task
      BY <1>2, <2>2 DEF RunTask, TasksDrawn, Busy
    <3> QED BY <1>2, <2>2, <3>1 DEF RunTask
  <2>3. CASE TaskThrows(w)
    BY <1>2, <2>3 DEF TaskThrows
  <2>4. CASE Count(w)
    BY <1>2, <2>4 DEF Count
  <2>5. CASE Lock(w)
    BY <1>2, <2>5 DEF Lock
  <2>6. CASE Report(w)
    BY <1>2, <2>6 DEF Report, TasksDrawn, Busy
  <2> QED BY <1>2, <2>1, <2>2, <2>3, <2>4, <2>5, <2>6 DEF WorkerNext
<1>3. CASE UNCHANGED vars
  BY <1>3 DEF vars
<1> QED BY <1>0, <1>1, <1>2, <1>3 DEF Next

LEMMA StepsKeepThreads == IInv /\ [Next]_vars => Threads'
<1> SUFFICES ASSUME IInv, [Next]_vars PROVE Threads'
  OBVIOUS
<1> USE PoolAssumption DEF IInv, TypeOK, Worker, Task, Threads
<1>0. CASE \E n \in 0 .. MaxTotal : Start(n)
  BY <1>0 DEF Start
<1>1. CASE MainNext
  <2>1. CASE Spawn
    BY <2>1 DEF Spawn
  <2>2. CASE AllSpawned
    BY <2>2 DEF AllSpawned
  <2>3. CASE Join
    BY <2>3 DEF Join
  <2>4. CASE Return
    BY <2>4 DEF Return
  <2> QED BY <1>1, <2>1, <2>2, <2>3, <2>4 DEF MainNext
<1>2. ASSUME NEW w \in Worker, WorkerNext(w) PROVE Threads'
  <2>1. CASE Draw(w)
    BY <1>2, <2>1 DEF Draw, Running
  <2>2. CASE RunTask(w)
    BY <1>2, <2>2 DEF RunTask, Running
  <2>3. CASE TaskThrows(w)
    BY <1>2, <2>3 DEF TaskThrows, Running
  <2>4. CASE Count(w)
    BY <1>2, <2>4 DEF Count, Running
  <2>5. CASE Lock(w)
    BY <1>2, <2>5 DEF Lock, Running
  <2>6. CASE Report(w)
    BY <1>2, <2>6 DEF Report, Running
  <2> QED BY <1>2, <2>1, <2>2, <2>3, <2>4, <2>5, <2>6 DEF WorkerNext
<1>3. CASE UNCHANGED vars
  BY <1>3 DEF vars
<1> QED BY <1>0, <1>1, <1>2, <1>3 DEF Next

LEMMA StepsKeepTasksDrawn == IInv /\ [Next]_vars => TasksDrawn'
<1> SUFFICES ASSUME IInv, [Next]_vars PROVE TasksDrawn'
  OBVIOUS
<1> USE PoolAssumption DEF IInv, TypeOK, Worker, Task, TasksDrawn, NoTaskTwice, Busy
<1>0. CASE \E n \in 0 .. MaxTotal : Start(n)
  BY <1>0 DEF Start
<1>1. CASE MainNext
  <2>1. CASE Spawn
    BY <2>1 DEF Spawn, Threads
  <2>2. CASE AllSpawned
    BY <2>2 DEF AllSpawned
  <2>3. CASE Join
    BY <2>3 DEF Join
  <2>4. CASE Return
    BY <2>4 DEF Return
  <2> QED BY <1>1, <2>1, <2>2, <2>3, <2>4 DEF MainNext
<1>2. ASSUME NEW w \in Worker, WorkerNext(w) PROVE TasksDrawn'
  <2>1. CASE Draw(w)
    <3>1. state[w] = "drawing" /\ task'[w] = nextIdx /\ nextIdx' = nextIdx + 1
      BY <2>1 DEF Draw
    <3>2. state'[w] = IF nextIdx < total THEN "running" ELSE "exited"
      BY <2>1 DEF Draw
    <3>3. \A v \in Worker : v # w => state'[v] = state[v] /\ task'[v] = task[v]
      BY <2>1 DEF Draw
    <3>4. finished' = finished
      BY <2>1 DEF Draw
    <3>5. NoTaskTwice'
      <4>1. ASSUME NEW u \in Busy', NEW v \in Busy', u # v PROVE task'[u] # task'[v]
        <5>1. CASE u # w /\ v # w
          BY <3>3, <4>1, <5>1
        <5>2. CASE u = w
          BY <3>1, <3>3, <4>1, <5>2
        <5>3. CASE v = w
          BY <3>1, <3>3, <4>1, <5>3
        <5> QED BY <5>1, <5>2, <5>3
      <4>2. ASSUME NEW v \in Busy', state'[v] = "running" PROVE task'[v] \notin finished'
        <5>1. CASE v = w
          BY <3>1, <3>4, <5>1
        <5>2. CASE v # w
          BY <3>3, <3>4, <4>2, <5>2
        <5> QED BY <5>1, <5>2
      <4> QED BY <4>1, <4>2
    <3>6. ASSUME NEW v \in Busy' PROVE task'[v] < nextIdx' /\ task'[v] \in Task
      <4>1. CASE v = w
        <5>1. nextIdx < total /\ nextIdx \in Nat
          BY <3>2, <4>1
        <5> QED BY <3>1, <4>1, <5>1
      <4>2. CASE v # w
        <5>1. v \in Busy /\ task'[v] = task[v]
          BY <3>3, <4>2
        <5>2. task[v] < nextIdx /\ task[v] \in Task /\ nextIdx \in Nat
          BY <5>1
        <5> QED BY <3>1, <5>1, <5>2
      <4> QED BY <4>1, <4>2
    <3>9. Task' = Task
      BY <2>1 DEF Draw
    <3>7. \A t \in finished' : t < nextIdx'
      BY <3>1, <3>4
    <3>8. ASSUME NEW t \in Task, t < nextIdx'
          PROVE  t \in finished' \/ \E v \in Worker : state'[v] = "running" /\ task'[v] = t
      <4>1. CASE t < nextIdx
        BY <3>1, <3>3, <3>4, <4>1
      <4>2. CASE t = nextIdx
        BY <3>1, <3>2, <4>2
      <4> QED BY <3>1, <3>8, <4>1, <4>2
    <3> QED BY <3>5, <3>6, <3>7, <3>8, <3>9
  <2>2. CASE RunTask(w)
    BY <1>2, <2>2 DEF RunTask
  <2>3. CASE TaskThrows(w)
    BY <1>2, <2>3 DEF TaskThrows
  <2>4. CASE Count(w)
    <3>1. /\ \A v \in Worker : v # w => state'[v] = state[v]
          /\ state[w] = "counting" /\ state'[w] = "locking"
      BY <2>4 DEF Count
    <3>2. UNCHANGED <<total, task, nextIdx, finished>>
      BY <2>4 DEF Count
    <3>3. Busy' = Busy /\ \A v \in Worker : state'[v] = "running" <=> state[v] = "running"
      <4>1. \A v \in Worker : state'[v] = "running" <=> state[v] = "running"
        BY <3>1
      <4>2. \A v \in Worker : v \in Busy' <=> v \in Busy
        BY <3>1
      <4>3. Busy \subseteq Worker /\ Busy' \subseteq Worker
        OBVIOUS
      <4> HIDE DEF Busy
      <4> QED BY <4>1, <4>2, <4>3
    <3>4. Busy' \subseteq Worker
      OBVIOUS
    <3> HIDE DEF Busy
    <3>5. NoTaskTwice'
      BY <3>2, <3>3, <3>4
    <3>6. \A v \in Busy' : task'[v] < nextIdx' /\ task'[v] \in Task'
      BY <3>2, <3>3
    <3>7. \A t \in finished' : t < nextIdx'
      BY <3>2
    <3>8. \A t \in Task' : t < nextIdx' =>
             t \in finished' \/ \E v \in Worker : state'[v] = "running" /\ task'[v] = t
      BY <3>2, <3>3
    <3> QED BY <3>5, <3>6, <3>7, <3>8
  <2>5. CASE Lock(w)
    BY <1>2, <2>5 DEF Lock
  <2>6. CASE Report(w)
    BY <1>2, <2>6 DEF Report
  <2> QED BY <1>2, <2>1, <2>2, <2>3, <2>4, <2>5, <2>6 DEF WorkerNext
<1>3. CASE UNCHANGED vars
  BY <1>3 DEF vars
<1> QED BY <1>0, <1>1, <1>2, <1>3 DEF Next

LEMMA StepsKeepTasksReported == IInv /\ [Next]_vars => TasksReported'
<1> SUFFICES ASSUME IInv, [Next]_vars PROVE TasksReported'
  OBVIOUS
<1> USE PoolAssumption DEF IInv, TypeOK, Worker, Task, TasksReported
<1>0. CASE \E n \in 0 .. MaxTotal : Start(n)
  BY <1>0 DEF Start
<1>1. CASE MainNext
  <2>1. CASE Spawn
    <3>1. spawned + 1 \in Worker /\ state[spawned + 1] = "absent"
      BY <2>1 DEF Spawn, Threads
    <3>2. \A v \in Worker : v # spawned + 1 => state'[v] = state[v]
      BY <2>1 DEF Spawn
    <3>3. state'[spawned + 1] = "drawing"
      BY <2>1, <3>1 DEF Spawn
    <3> QED BY <2>1, <3>1, <3>2, <3>3 DEF Spawn
  <2>2. CASE AllSpawned
    BY <2>2 DEF AllSpawned
  <2>3. CASE Join
    BY <2>3 DEF Join
  <2>4. CASE Return
    BY <2>4 DEF Return
  <2> QED BY <1>1, <2>1, <2>2, <2>3, <2>4 DEF MainNext
<1>2. ASSUME NEW w \in Worker, WorkerNext(w) PROVE TasksReported'
  <2>1. CASE Draw(w)
    BY <1>2, <2>1 DEF Draw
  <2>2. CASE RunTask(w)
    BY <1>2, <2>2 DEF RunTask
  <2>3. CASE TaskThrows(w)
    BY <1>2, <2>3 DEF TaskThrows
  <2>4. CASE Count(w)
    BY <1>2, <2>4 DEF Count
  <2>5. CASE Lock(w)
    BY <1>2, <2>5 DEF Lock
  <2>6. CASE Report(w)
    <3>1. finished' = finished /\ task' = task
      BY <2>6 DEF Report
    <3>2. \A v \in Worker : v # w => state'[v] = state[v]
      BY <2>6 DEF Report
    <3>3. reports' = reports \cup {<<number[w], task[w]>>}
      BY <2>6 DEF Report
    <3>4. ASSUME NEW t \in finished'
          PROVE  \/ \E r \in reports' : r[2] = t
                 \/ \E v \in Worker : /\ state'[v] \in {"counting", "locking", "reporting"}
                                     /\ task'[v] = t
      <4>1. CASE \E r \in reports : r[2] = t
        BY <3>3, <4>1
      <4>2. CASE task[w] = t
        <5>1. <<number[w], task[w]>> \in reports' /\ <<number[w], task[w]>>[2] = t
          BY <3>3, <4>2
        <5> QED BY <5>1
      <4>3. ASSUME NEW v \in Worker, v # w, task[v] = t,
                   state[v] \in {"counting", "locking", "reporting"}
            PROVE  state'[v] \in {"counting", "locking", "reporting"} /\ task'[v] = t
        BY <3>1, <3>2, <4>3
      <4> QED BY <3>1, <4>1, <4>2, <4>3
    <3> QED BY <3>4
  <2> QED BY <1>2, <2>1, <2>2, <2>3, <2>4, <2>5, <2>6 DEF WorkerNext
<1>3. CASE UNCHANGED vars
  BY <1>3 DEF vars
<1> QED BY <1>0, <1>1, <1>2, <1>3 DEF Next

LEMMA StepsKeepNumbersReported == IInv /\ [Next]_vars => NumbersReported'
<1> SUFFICES ASSUME IInv, [Next]_vars PROVE NumbersReported'
  OBVIOUS
<1> USE PoolAssumption DEF IInv, TypeOK, Worker, Task, NumbersReported
<1>0. CASE \E n \in 0 .. MaxTotal : Start(n)
  BY <1>0 DEF Start
<1>1. CASE MainNext
  <2>1. CASE Spawn
    <3>1. spawned + 1 \in Worker /\ state[spawned + 1] = "absent"
      BY <2>1 DEF Spawn, Threads
    <3>2. \A v \in Worker : v # spawned + 1 => state'[v] = state[v]
      BY <2>1 DEF Spawn
    <3>3. state'[spawned + 1] = "drawing"
      BY <2>1, <3>1 DEF Spawn
    <3> QED BY <2>1, <3>1, <3>2, <3>3 DEF Spawn
  <2>2. CASE AllSpawned
    BY <2>2 DEF AllSpawned
  <2>3. CASE Join
    BY <2>3 DEF Join
  <2>4. CASE Return
    BY <2>4 DEF Return
  <2> QED BY <1>1, <2>1, <2>2, <2>3, <2>4 DEF MainNext
<1>2. ASSUME NEW w \in Worker, WorkerNext(w) PROVE NumbersReported'
  <2>1. CASE Draw(w)
    BY <1>2, <2>1 DEF Draw
  <2>2. CASE RunTask(w)
    BY <1>2, <2>2 DEF RunTask
  <2>3. CASE TaskThrows(w)
    BY <1>2, <2>3 DEF TaskThrows
  <2>4. CASE Count(w)
    <3>1. /\ completed' = completed + 1 /\ reports' = reports
          /\ state[w] = "counting" /\ state'[w] = "locking" /\ number'[w] = completed'
      BY <2>4 DEF Count
    <3>2. \A v \in Worker : v # w => state'[v] = state[v] /\ number'[v] = number[v]
      BY <2>4 DEF Count
    <3>3. \A r \in reports' : r[1] \in 1 .. completed'
      BY <3>1
    <3>4. \A v \in Worker : state'[v] \in {"locking", "reporting"} => number'[v] \in 1 .. completed'
      <4>1. number'[w] \in 1 .. completed'
        BY <3>1
      <4>2. ASSUME NEW v \in Worker, v # w, state'[v] \in {"locking", "reporting"}
            PROVE  number'[v] \in 1 .. completed'
        <5>1. number[v] \in 1 .. completed /\ number'[v] = number[v]
          BY <3>2, <4>2
        <5> QED BY <3>1, <5>1
      <4> QED BY <4>1, <4>2
    <3>5. ASSUME NEW n \in 1 .. completed'
          PROVE  \/ \E r \in reports' : r[1] = n
                 \/ \E v \in Worker : state'[v] \in {"locking", "reporting"} /\ number'[v] = n
      <4>1. CASE n \in 1 .. completed
        <5>1. CASE \E r \in reports : r[1] = n
          BY <3>1, <5>1
        <5>2. ASSUME NEW v \in Worker, state[v] \in {"locking", "reporting"}, number[v] = n
              PROVE  state'[v] \in {"locking", "reporting"} /\ number'[v] = n
          BY <3>1, <3>2, <5>2
        <5> QED BY <4>1, <5>1, <5>2
      <4>2. CASE n = completed'
        BY <3>1, <4>2
      <4> QED BY <3>1, <4>1, <4>2
    <3> QED BY <3>3, <3>4, <3>5
  <2>5. CASE Lock(w)
    BY <1>2, <2>5 DEF Lock
  <2>6. CASE Report(w)
    <3>1. completed' = completed /\ number' = number /\ state'[w] = "drawing"
      BY <2>6 DEF Report
    <3>2. \A v \in Worker : v # w => state'[v] = state[v]
      BY <2>6 DEF Report
    <3>3. reports' = reports \cup {<<number[w], task[w]>>}
      BY <2>6 DEF Report
    <3>4. number[w] \in 1 .. completed
      BY <2>6 DEF Report
    <3>5. \A r \in reports' : r[1] \in 1 .. completed'
      BY <3>1, <3>3, <3>4
    <3>6. ASSUME NEW n \in 1 .. completed'
          PROVE  \/ \E r \in reports' : r[1] = n
                 \/ \E v \in Worker : state'[v] \in {"locking", "reporting"} /\ number'[v] = n
      <4>1. CASE \E r \in reports : r[1] = n
        BY <3>3, <4>1
      <4>2. CASE number[w] = n
        <5>1. <<number[w], task[w]>> \in reports' /\ <<number[w], task[w]>>[1] = n
          BY <3>3, <4>2
        <5> QED BY <5>1
      <4>3. ASSUME NEW v \in Worker, v # w, number[v] = n, state[v] \in {"locking", "reporting"}
            PROVE  state'[v] \in {"locking", "reporting"} /\ number'[v] = n
        BY <3>1, <3>2, <4>3
      <4> QED BY <3>1, <4>1, <4>2, <4>3
    <3> QED BY <3>1, <3>2, <3>5, <3>6
  <2> QED BY <1>2, <2>1, <2>2, <2>3, <2>4, <2>5, <2>6 DEF WorkerNext
<1>3. CASE UNCHANGED vars
  BY <1>3 DEF vars
<1> QED BY <1>0, <1>1, <1>2, <1>3 DEF Next

(* Only RunTask and Count change what is counted.                          *)
LEMMA StepsKeepCounted == IInv /\ [Next]_vars => Counted'
<1> SUFFICES ASSUME IInv, [Next]_vars PROVE Counted'
  OBVIOUS
<1> USE PoolAssumption DEF IInv, TypeOK, Worker, Task
<1>1. ASSUME Counting' = Counting, completed' = completed, finished' = finished PROVE Counted'
  BY <1>1 DEF Counted
<1>0. CASE \E n \in 0 .. MaxTotal : Start(n)
  <2>1. Counting' = {} /\ completed' = 0 /\ finished' = {}
    BY <1>0 DEF Start, Counting
  <2> QED BY <2>1, FS_EmptySet DEF Counted
<1>2. CASE MainNext
  <2>1. Counting' = Counting
    <3>1. CASE Spawn
      <4>1. spawned + 1 \in Worker /\ state[spawned + 1] = "absent"
        BY <3>1 DEF Spawn, Threads
      <4> QED BY <3>1, <4>1 DEF Spawn, Counting
    <3>2. CASE AllSpawned \/ Join \/ Return
      BY <3>2 DEF AllSpawned, Join, Return, Counting
    <3> QED BY <1>2, <3>1, <3>2 DEF MainNext
  <2> QED BY <1>1, <1>2, <2>1 DEF MainNext, Spawn, AllSpawned, Join, Return
<1>3. ASSUME NEW w \in Worker, WorkerNext(w) PROVE Counted'
  <2>1. CASE RunTask(w)
    <3>1. Counting' = Counting \cup {w} /\ w \notin Counting
      BY <1>3, <2>1 DEF RunTask, Counting
    <3>2. finished' = finished \cup {task[w]} /\ task[w] \notin finished
      BY <1>3, <2>1 DEF RunTask, TasksDrawn, NoTaskTwice, Busy
    <3>3. Cardinality(Counting') = Cardinality(Counting) + 1
      BY <3>1, FiniteSets, FS_AddElement
    <3>4. Cardinality(finished') = Cardinality(finished) + 1
      BY <3>2, FiniteSets, FS_AddElement
    <3>5. Cardinality(Counting) \in Nat /\ Cardinality(finished) \in Nat
      BY FiniteSets, FS_CardinalityType
    <3> QED BY <2>1, <3>3, <3>4, <3>5 DEF RunTask, Counted
  <2>2. CASE Count(w)
    <3>1. Counting' = Counting \ {w} /\ w \in Counting
      BY <1>3, <2>2 DEF Count, Counting
    <3>2. Cardinality(Counting') = Cardinality(Counting) - 1
      BY <3>1, FiniteSets, FS_RemoveElement
    <3>3. Cardinality(Counting) \in Nat /\ Cardinality(finished) \in Nat
      BY FiniteSets, FS_CardinalityType
    <3> QED BY <2>2, <3>2, <3>3 DEF Count, Counted
  <2>3. CASE Draw(w) \/ TaskThrows(w) \/ Lock(w) \/ Report(w)
    <3>1. Counting' = Counting
      BY <1>3, <2>3 DEF Draw, TaskThrows, Lock, Report, Counting
    <3> QED BY <1>1, <2>3, <3>1 DEF Draw, TaskThrows, Lock, Report
  <2> QED BY <1>3, <2>1, <2>2, <2>3 DEF WorkerNext
<1>4. CASE UNCHANGED vars
  BY <1>1, <1>4 DEF vars, Counting
<1> QED BY <1>0, <1>2, <1>3, <1>4 DEF Next

LEMMA IInvInductive == Init /\ [][Next]_vars => []IInv
<1>1. IInv /\ [Next]_vars => IInv'
  BY StepsKeepTypes, StepsKeepThreads, StepsKeepTasksDrawn, StepsKeepTasksReported,
     StepsKeepNumbersReported, StepsKeepCounted
  DEF IInv
<1> QED BY <1>1, InitIInv, PTL

(* When runTasks returns, every thread has exited, so every task drawn is  *)
(* finished and reported, and every task has been drawn.                   *)
LEMMA AllDone == IInv => AllDoneAtReturn
<1> SUFFICES ASSUME IInv, main = "returned"
             PROVE  /\ finished = Task
                    /\ {r[2] : r \in reports} = Task
                    /\ {r[1] : r \in reports} = 1 .. total
  BY DEF AllDoneAtReturn
<1> USE PoolAssumption DEF IInv, TypeOK, Worker
<1>1. (\A w \in Worker : state[w] = "exited") /\ nextIdx >= total
  BY DEF Threads
<1>2. finished = Task
  <2>1. \A t \in Task : t < nextIdx
    BY <1>1 DEF Task
  <2> QED BY <1>1, <2>1 DEF TasksDrawn
<1>3. {r[2] : r \in reports} = Task
  <2>1. \A r \in reports : r[2] \in Task
    OBVIOUS
  <2>2. \A t \in Task : \E r \in reports : r[2] = t
    BY <1>1, <1>2 DEF TasksReported
  <2> QED BY <2>1, <2>2
<1>4. completed = total
  <2>1. Cardinality(Counting) = 0
    BY <1>1, FS_EmptySet DEF Counting
  <2>2. Cardinality(Task) = total
    BY FS_Interval DEF Task
  <2> QED BY <1>2, <2>1, <2>2 DEF Counted
<1>5. {r[1] : r \in reports} = 1 .. total
  <2>1. \A r \in reports : r[1] \in 1 .. total
    BY <1>4 DEF NumbersReported
  <2>2. \A n \in 1 .. total : \E r \in reports : r[1] = n
    BY <1>1, <1>4 DEF NumbersReported
  <2> QED BY <2>1, <2>2
<1> QED BY <1>2, <1>3, <1>5

(* The state of the pool keeps its types (runTasks).                       *)
THEOREM PoolTypeCorrect == Spec => []TypeOK
<1>1. IInv => TypeOK
  BY DEF IInv
<1> QED BY <1>1, IInvInductive, PTL DEF Spec

(* No two workers are at one task and none is run again (the lambda work). *)
THEOREM PoolRunsNoTaskTwice == Spec => []NoTaskTwice
<1>1. IInv => NoTaskTwice
  BY DEF IInv, TasksDrawn
<1> QED BY <1>1, IInvInductive, PTL DEF Spec

(* All tasks are finished, and reported under the numbers from one to      *)
(* their number, when runTasks returns.                                    *)
THEOREM PoolAllDoneAtReturn == Spec => []AllDoneAtReturn
<1> QED BY AllDone, IInvInductive, PTL DEF Spec

-----------------------------------------------------------------------------
(* Every step of the driver is one of the pool, a call of it, or none of   *)
(* its business.                                                           *)
LEMMA DriverStepIsPoolStep == [DriverNext]_driverVars => [Next]_vars
<1> SUFFICES ASSUME [DriverNext]_driverVars PROVE [Next]_vars
  OBVIOUS
<1>1. CASE EnterSuite \/ SkipSuite \/ LoaderNext \/ CollectResults \/ LeaveSuite \/ PrintResults
  <2>1. UNCHANGED vars
    BY <1>1 DEF EnterSuite, SkipSuite, LoaderNext, ScanDirectory, TakeFile, ReadInstance, EndFile,
                NoFileLeft, LoadThrows, CollectResults, LeaveSuite, PrintResults
  <2> QED BY <2>1
<1>2. CASE RunBatch
  <2>1. \E n \in 0 .. MaxTotal : Start(n)
    BY <1>2 DEF RunBatch
  <2> QED BY <2>1 DEF Next
<1>3. CASE PoolStep(MainNext)
  BY <1>3 DEF PoolStep, Next
<1>4. CASE \E w \in Worker : PoolStep(WorkerNext(w))
  BY <1>4 DEF PoolStep, Next
<1>5. CASE UNCHANGED driverVars
  BY <1>5 DEF driverVars
<1> QED BY <1>1, <1>2, <1>3, <1>4, <1>5 DEF DriverNext, MainThread

(* From batch to batch the pool behaves as its specification says          *)
(* (benchmark.cpp:180-194, 293-334).                                       *)
THEOREM DriverRunsPool == DriverSpec => Init /\ [][Next]_vars
<1>1. DriverInit => Init
  BY DEF DriverInit
<1> QED BY <1>1, DriverStepIsPoolStep, PTL DEF DriverSpec

(* No two workers are ever at one task of a batch, and none is run again   *)
(* (benchmark.cpp:304-308).                                                *)
THEOREM DriverRunsNoTaskTwice == DriverSpec => []NoTaskTwice
<1>1. IInv => NoTaskTwice
  BY DEF IInv, TasksDrawn
<1> QED BY <1>1, DriverRunsPool, IInvInductive, PTL

(* The results of a batch are collected when all its tasks are finished    *)
(* (benchmark.cpp:189-193, 323-325).                                       *)
THEOREM DriverAllDoneAtReturn == DriverSpec => []AllDoneAtReturn
<1> QED BY AllDone, DriverRunsPool, IInvInductive, PTL

-----------------------------------------------------------------------------
(* What the driver has at each moment. *)

InSuite == driver \notin {"entering", "printed"}

Present(s) == dirs[s] # NoDirectory

Loaded == {batch[i] : i \in DOMAIN batch}

(* The instances the loader has taken from the files of the suite.         *)
Taken == {x \in Files \X Nat : x[2] < processed[x[1]]}

Instances(s) == UNION {{f} \X (0 .. dirs[s][f] - 1) : f \in DOMAIN dirs[s]}

ResultsFor(s, instances) == [suite : {s}, instance : instances, solver : 1 .. Solvers[s]]

(* The results there are: those of earlier suites, and of the instances    *)
(* that were loaded before the present batch.                              *)
EarlierResults == UNION {ResultsFor(s, Instances(s)) : s \in {t \in Suite : t < suite /\ Present(t)}}

Collected ==
    EarlierResults \cup (IF InSuite THEN ResultsFor(suite, Taken \ Loaded) ELSE {})

SuitesInTurn ==
    /\ driver \in {"entering", "calling", "loading", "loaded", "running", "printed", "terminated"}
    /\ suite \in 1 .. Len(Solvers) + 1
    /\ dirs \in [Suite -> Directories]
    /\ InSuite => suite \in Suite /\ Present(suite)
    /\ driver = "printed" => suite \notin Suite

(* The loader has read to the end what it has taken out of its queue.      *)
LoaderInPlace ==
    /\ InSuite => /\ paths \subseteq Files
                  /\ processed \in [Files -> Nat]
                  /\ \A f \in Files : processed[f] <= dirs[suite][f]
                  /\ file \in Files \cup {0}
    /\ driver = "loading" =>
          \A f \in Files : f \in paths \/ f = file \/ processed[f] = dirs[suite][f]
    /\ driver = "loaded" /\ batch = <<>> => \A f \in Files : processed[f] = dirs[suite][f]
    /\ driver \notin {"loading", "terminated"} => file = 0

BatchInPlace ==
    /\ batch \in Seq(Nat \X Nat)
    /\ Len(batch) <= MaxResident
    /\ \A i, j \in DOMAIN batch : batch[i] = batch[j] => i = j
    /\ InSuite => Loaded \subseteq Taken
    /\ driver \in {"entering", "calling", "printed"} => batch = <<>>
    /\ driver = "loading" => Len(batch) < MaxResident

(* While the pool runs, its tasks are those of the batch; when it does     *)
(* not, no worker is at a task.                                            *)
TasksInPlace ==
    /\ driver = "running" =>
          /\ tasks \in [1 .. total -> (DOMAIN batch) \X (1 .. Solvers[suite])]
          /\ \A i, j \in 1 .. total : tasks[i] = tasks[j] => i = j
          /\ \A t \in (DOMAIN batch) \X (1 .. Solvers[suite]) : \E i \in 1 .. total : t = tasks[i]
    /\ driver # "running" => Busy = {}

DriverInv ==
    /\ SuitesInTurn
    /\ LoaderInPlace
    /\ BatchInPlace
    /\ TasksInPlace
    /\ results = SetToBag(Collected)

-----------------------------------------------------------------------------
(* What the steps rest on. *)

LEMMA SuiteTypes ==
  ASSUME SuitesInTurn
  PROVE  /\ Len(Solvers) \in Nat /\ suite \in Nat /\ Suite = 1 .. Len(Solvers)
         /\ \A s \in Suite : Solvers[s] \in Nat \ {0}
         /\ \A s \in Suite : Present(s) => /\ dirs[s] \in Seq(Nat) /\ Len(dirs[s]) \in Nat
                                           /\ DOMAIN dirs[s] = 1 .. Len(dirs[s])
                                           /\ \A f \in DOMAIN dirs[s] : dirs[s][f] \in Nat
<1>1. Solvers \in Seq(Nat \ {0}) /\ Len(Solvers) \in Nat /\ Suite = 1 .. Len(Solvers)
  BY DriverAssumption, LenProperties DEF Suite
<1>2. \A s \in Suite : Solvers[s] \in Nat \ {0}
  BY <1>1, LenProperties
<1>3. \A s \in Suite : Present(s) => dirs[s] \in Seq(Nat)
  BY DriverAssumption DEF SuitesInTurn, Present
<1> QED BY <1>1, <1>2, <1>3, LenProperties DEF SuitesInTurn

(* The orders of a finite set: each element once. *)
LEMMA EachOnce ==
  ASSUME NEW S, IsFiniteSet(S), NEW s \in SetToSeqs(S)
  PROVE  /\ s \in [1 .. Len(s) -> S] /\ Len(s) \in Nat
         /\ \A i, j \in 1 .. Len(s) : s[i] = s[j] => i = j
         /\ \A x \in S : \E i \in 1 .. Len(s) : x = s[i]
<1>1. PICK n \in Nat : n = Cardinality(S)
  BY FS_CardinalityType
<1>2. s \in [1 .. n -> S] /\ \A i, j \in 1 .. n : i # j => s[i] # s[j]
  BY <1>1 DEF SetToSeqs
<1>3. Len(s) = n
  BY <1>2
<1>4. IsFiniteSet(1 .. n) /\ Cardinality(1 .. n) = n
  <2>1. Cardinality(1 .. n) = IF 1 > n THEN 0 ELSE n - 1 + 1
    BY FS_Interval
  <2> QED BY <2>1, FS_Interval
<1>5. s \in Injection(1 .. n, S)
  BY <1>2 DEF Injection, IsInjective
<1>6. s \in Surjection(1 .. n, S)
  BY <1>1, <1>4, <1>5, FS_Injection
<1> QED BY <1>2, <1>3, <1>6 DEF Surjection

(* Sets as bags add up to their union, when they have nothing in common.   *)
LEMMA BagsOfSets ==
  ASSUME NEW S, NEW T, S \cap T = {}
  PROVE  SetToBag(S) (+) SetToBag(T) = SetToBag(S \cup T)
<1>1. \A e \in S \cup T : (IF e \in S THEN 1 ELSE 0) + (IF e \in T THEN 1 ELSE 0) = 1
  OBVIOUS
<1> QED BY <1>1 DEF SetToBag, (+)

(* When none of its elements comes twice, the bag of a sequence is that of *)
(* their set.                                                              *)
LEMMA BagOfSequence ==
  ASSUME NEW n \in Nat, NEW s, DOMAIN s = 1 .. n,
         \A i, j \in 1 .. n : s[i] = s[j] => i = j
  PROVE  ToBag(s) = SetToBag({s[i] : i \in 1 .. n})
<1>1. \A i \in 1 .. n : {j \in DOMAIN s : s[j] = s[i]} = {i}
  OBVIOUS
<1>2. \A i : Cardinality({i}) = 1
  BY FS_Singleton
<1>3. ASSUME NEW x \in {s[i] : i \in 1 .. n} PROVE Cardinality({j \in DOMAIN s : s[j] = x}) = 1
  <2>1. PICK i \in 1 .. n : x = s[i]
    OBVIOUS
  <2>2. {j \in DOMAIN s : s[j] = x} = {i}
    BY <1>1, <2>1
  <2> QED BY <1>2, <2>2
<1>4. Range(s) = {s[i] : i \in 1 .. n}
  BY DEF Range
<1> QED BY <1>3, <1>4 DEF ToBag, SetToBag

LEMMA InitDriverInv == DriverInit => DriverInv
<1> SUFFICES ASSUME DriverInit PROVE DriverInv
  OBVIOUS
<1>1. /\ driver = "entering" /\ suite = 1 /\ dirs \in [Suite -> Directories]
      /\ batch = <<>> /\ file = 0 /\ results = EmptyBag /\ ~InSuite
      /\ \A w \in Worker : state[w] = "absent"
  BY DEF DriverInit, Init, InSuite
<1>2. Len(Solvers) \in Nat /\ Suite = 1 .. Len(Solvers) /\ MaxResident \in Nat \ {0}
  BY DriverAssumption, LenProperties DEF Suite
<1>3. SuitesInTurn
  BY <1>1, <1>2 DEF SuitesInTurn
<1>4. LoaderInPlace
  BY <1>1 DEF LoaderInPlace
<1>5. BatchInPlace
  BY <1>1, <1>2, EmptySeq DEF BatchInPlace
<1>6. TasksInPlace
  BY <1>1 DEF TasksInPlace, Busy
<1>7. Collected = {}
  <2>1. {t \in Suite : t < suite /\ Present(t)} = {}
    BY <1>1, <1>2
  <2> QED BY <1>1, <2>1 DEF Collected, EarlierResults
<1> QED BY <1>1, <1>3, <1>4, <1>5, <1>6, <1>7 DEF DriverInv, EmptyBag

-----------------------------------------------------------------------------
(* DriverInv is kept by every step. *)

(* What a step leaves of the results there are. *)
LEMMA CollectedStays ==
  ASSUME suite' = suite, dirs' = dirs, processed' = processed, batch' = batch, InSuite' = InSuite
  PROVE  Collected' = Collected /\ Taken' = Taken /\ Loaded' = Loaded /\ EarlierResults' = EarlierResults
BY DEF Collected, EarlierResults, ResultsFor, Instances, Present, Taken, Loaded, Files

LEMMA BusyStays == UNCHANGED vars => Busy' = Busy
BY DEF vars, Busy

LEMMA EnterKeepsDriverInv == DriverInv /\ EnterSuite => DriverInv'
<1> SUFFICES ASSUME DriverInv, EnterSuite PROVE DriverInv'
  OBVIOUS
<1>1. /\ driver = "entering" /\ suite \in Suite /\ Present(suite) /\ driver' = "calling"
      /\ paths' = {} /\ processed' = [f \in Files |-> 0]
      /\ suite' = suite /\ dirs' = dirs /\ file' = file /\ batch' = batch
      /\ tasks' = tasks /\ results' = results /\ UNCHANGED vars
      /\ ~InSuite /\ InSuite' /\ Files' = Files
  BY DEF EnterSuite, Present, InSuite, Files
<1>2. \A f \in Files : dirs[suite][f] \in Nat
  BY <1>1, SuiteTypes DEF DriverInv, Files
<1>3. Taken' = {} /\ Loaded = {} /\ Loaded' = {}
  <2>1. batch = <<>>
    BY <1>1 DEF DriverInv, BatchInPlace
  <2>2. \A x \in Files \X Nat : ~(x[2] < processed'[x[1]])
    BY <1>1
  <2> QED BY <1>1, <2>1, <2>2 DEF Taken, Loaded
<1>4. SuitesInTurn'
  BY <1>1 DEF DriverInv, SuitesInTurn, Present
<1>5. LoaderInPlace'
  BY <1>1, <1>2 DEF DriverInv, LoaderInPlace
<1>6. BatchInPlace'
  BY <1>1, <1>3 DEF DriverInv, BatchInPlace
<1>7. TasksInPlace'
  BY <1>1, BusyStays DEF DriverInv, TasksInPlace
<1>8. Collected' = Collected
  <2>1. EarlierResults' = EarlierResults
    BY <1>1 DEF EarlierResults, ResultsFor, Instances, Present
  <2>2. ResultsFor(suite, {}) = {}
    BY DEF ResultsFor
  <2> QED BY <1>1, <1>3, <2>1, <2>2 DEF Collected, ResultsFor
<1> QED BY <1>1, <1>4, <1>5, <1>6, <1>7, <1>8 DEF DriverInv

LEMMA SkipKeepsDriverInv == DriverInv /\ SkipSuite => DriverInv'
<1> SUFFICES ASSUME DriverInv, SkipSuite PROVE DriverInv'
  OBVIOUS
<1>1. /\ driver = "entering" /\ suite \in Suite /\ ~Present(suite) /\ driver' = driver
      /\ suite' = suite + 1 /\ dirs' = dirs /\ file' = file /\ batch' = batch
      /\ tasks' = tasks /\ results' = results /\ UNCHANGED vars
      /\ ~InSuite /\ ~InSuite'
  BY DEF SkipSuite, Present, InSuite, loaderVars
<1>2. SuitesInTurn'
  BY <1>1, SuiteTypes DEF DriverInv, SuitesInTurn
<1>3. LoaderInPlace'
  BY <1>1 DEF DriverInv, LoaderInPlace
<1>4. BatchInPlace'
  BY <1>1 DEF DriverInv, BatchInPlace
<1>5. TasksInPlace'
  BY <1>1, BusyStays DEF DriverInv, TasksInPlace
<1>6. Collected' = Collected
  <2>1. {t \in Suite : t < suite + 1 /\ Present(t)} = {t \in Suite : t < suite /\ Present(t)}
    <3>1. \A t \in Suite : t \in Nat
      BY SuiteTypes DEF DriverInv
    <3> QED BY <1>1, <3>1, SuiteTypes DEF DriverInv
  <2>2. EarlierResults' = EarlierResults
    BY <1>1, <2>1 DEF EarlierResults, ResultsFor, Instances, Present
  <2> QED BY <1>1, <2>2 DEF Collected
<1> QED BY <1>1, <1>2, <1>3, <1>4, <1>5, <1>6 DEF DriverInv

LEMMA PrintKeepsDriverInv == DriverInv /\ PrintResults => DriverInv'
<1> SUFFICES ASSUME DriverInv, PrintResults PROVE DriverInv'
  OBVIOUS
<1>1. /\ driver = "entering" /\ suite \notin Suite /\ driver' = "printed"
      /\ suite' = suite /\ dirs' = dirs /\ processed' = processed /\ file' = file /\ batch' = batch
      /\ tasks' = tasks /\ results' = results /\ UNCHANGED vars
      /\ ~InSuite /\ ~InSuite' /\ InSuite' = InSuite
  BY DEF PrintResults, InSuite, loaderVars
<1>2. SuitesInTurn' /\ LoaderInPlace' /\ BatchInPlace' /\ TasksInPlace'
  BY <1>1, BusyStays DEF DriverInv, SuitesInTurn, LoaderInPlace, BatchInPlace, TasksInPlace
<1>3. Collected' = Collected
  BY <1>1, CollectedStays
<1> QED BY <1>1, <1>2, <1>3 DEF DriverInv

(* The steps of the loader but for that which reads an instance.           *)
LEMMA LoaderKeepsDriverInv ==
  DriverInv /\ (ScanDirectory \/ TakeFile \/ EndFile \/ NoFileLeft \/ LoadThrows) => DriverInv'
<1> SUFFICES ASSUME DriverInv, ScanDirectory \/ TakeFile \/ EndFile \/ NoFileLeft \/ LoadThrows
             PROVE  DriverInv'
  OBVIOUS
<1>1. /\ driver \in {"calling", "loading"} /\ driver' \in {"loading", "loaded", "terminated"}
      /\ suite' = suite /\ dirs' = dirs /\ processed' = processed /\ batch' = batch
      /\ tasks' = tasks /\ results' = results /\ UNCHANGED vars
      /\ InSuite /\ InSuite' /\ Files' = Files
  BY DEF ScanDirectory, TakeFile, EndFile, NoFileLeft, LoadThrows, InSuite, loaderVars, Files
<1>2. /\ processed \in [Files -> Nat] /\ \A f \in Files : processed[f] <= dirs[suite][f]
      /\ \A f \in Files : dirs[suite][f] \in Nat /\ f # 0
      /\ paths \subseteq Files /\ file \in Files \cup {0}
  BY <1>1, SuiteTypes DEF DriverInv, LoaderInPlace, SuitesInTurn, Files
<1>3. SuitesInTurn'
  BY <1>1 DEF DriverInv, SuitesInTurn, Present
<1>4. LoaderInPlace'
  <2>1. CASE ScanDirectory
    BY <1>1, <1>2, <2>1 DEF ScanDirectory, DriverInv, LoaderInPlace
  <2>2. CASE TakeFile
    BY <1>1, <1>2, <2>2 DEF TakeFile, DriverInv, LoaderInPlace
  <2>3. CASE EndFile
    BY <1>1, <1>2, <2>3 DEF EndFile, DriverInv, LoaderInPlace
  <2>4. CASE NoFileLeft
    BY <1>1, <1>2, <2>4 DEF NoFileLeft, loaderVars, DriverInv, LoaderInPlace
  <2>5. CASE LoadThrows
    BY <1>1, <1>2, <2>5 DEF LoadThrows, loaderVars, DriverInv, LoaderInPlace
  <2> QED BY <2>1, <2>2, <2>3, <2>4, <2>5
<1>5. BatchInPlace'
  <2>1. Taken' = Taken /\ Loaded' = Loaded
    BY <1>1, CollectedStays
  <2>2. driver' = "loading" => Len(batch) < MaxResident
    <3>1. driver = "calling" => batch = <<>>
      BY DEF DriverInv, BatchInPlace
    <3>2. Len(<<>>) < MaxResident
      BY DriverAssumption
    <3> QED BY <1>1, <3>1, <3>2 DEF DriverInv, BatchInPlace
  <2> QED BY <1>1, <2>1, <2>2 DEF DriverInv, BatchInPlace
<1>6. TasksInPlace'
  BY <1>1, BusyStays DEF DriverInv, TasksInPlace
<1>7. Collected' = Collected
  BY <1>1, CollectedStays
<1> QED BY <1>1, <1>3, <1>4, <1>5, <1>6, <1>7 DEF DriverInv

LEMMA ReadKeepsDriverInv == DriverInv /\ ReadInstance => DriverInv'
<1> SUFFICES ASSUME DriverInv, ReadInstance PROVE DriverInv'
  OBVIOUS
<1> DEFINE new == <<file, processed[file]>>
<1>1. /\ driver = "loading" /\ file # 0 /\ processed[file] < dirs[suite][file]
      /\ processed' = [processed EXCEPT ![file] = processed[file] + 1]
      /\ batch' = Append(batch, new)
      /\ driver' = IF Len(batch') = MaxResident THEN "loaded" ELSE driver
      /\ file' = IF Len(batch') = MaxResident THEN 0 ELSE file
      /\ suite' = suite /\ dirs' = dirs /\ paths' = paths
      /\ tasks' = tasks /\ results' = results /\ UNCHANGED vars
      /\ Files' = Files
  BY DEF ReadInstance, Files
<1>2. InSuite /\ InSuite'
  BY <1>1 DEF InSuite
<1>3. /\ processed \in [Files -> Nat] /\ \A f \in Files : processed[f] <= dirs[suite][f]
      /\ \A f \in Files : dirs[suite][f] \in Nat /\ f # 0 /\ f \in Nat
      /\ paths \subseteq Files /\ file \in Files
  <2>1. suite \in Suite /\ Present(suite)
    BY <1>2 DEF DriverInv, SuitesInTurn
  <2>2. Files = 1 .. Len(dirs[suite]) /\ \A f \in Files : dirs[suite][f] \in Nat
    BY <2>1, SuiteTypes DEF DriverInv, Files
  <2>3. \A f \in Files : f # 0 /\ f \in Nat
    BY <2>2
  <2> QED BY <1>1, <1>2, <2>2, <2>3 DEF DriverInv, LoaderInPlace
<1>4. PICK n : n = Len(batch)
  OBVIOUS
<1>5. batch \in Seq(Nat \X Nat) /\ n < MaxResident /\ new \in Nat \X Nat /\ MaxResident \in Nat
  <2>1. file \in Nat /\ processed[file] \in Nat
    BY <1>3
  <2>2. new \in Nat \X Nat
    BY <2>1
  <2> HIDE DEF new
  <2>3. batch \in Seq(Nat \X Nat) /\ n < MaxResident
    BY <1>1, <1>4 DEF DriverInv, BatchInPlace
  <2>4. MaxResident \in Nat
    BY DriverAssumption
  <2> QED BY <2>2, <2>3, <2>4
<1> HIDE DEF new
<1>6. /\ n \in Nat /\ DOMAIN batch = 1 .. n
      /\ batch' \in Seq(Nat \X Nat) /\ Len(batch') = n + 1 /\ DOMAIN batch' = 1 .. n + 1
      /\ \A i \in 1 .. n : batch'[i] = batch[i]
      /\ batch'[n + 1] = new
      /\ \A i \in 1 .. n + 1 : i \in 1 .. n \/ i = n + 1
  <2>1. /\ n \in Nat /\ DOMAIN batch = 1 .. n
        /\ batch' \in Seq(Nat \X Nat) /\ Len(batch') = n + 1
        /\ \A i \in 1 .. n : batch'[i] = batch[i]
        /\ batch'[n + 1] = new
    BY <1>1, <1>4, <1>5, AppendProperties, LenProperties
  <2>2. DOMAIN batch' = 1 .. n + 1
    BY <2>1, LenProperties
  <2> QED BY <2>1, <2>2
<1>7. Loaded' = Loaded \cup {new}
  <2>1. \A i \in 1 .. n : i \in 1 .. n + 1
    BY <1>6
  <2>2. n + 1 \in 1 .. n + 1
    BY <1>6
  <2>3. {batch'[i] : i \in 1 .. n + 1} = {batch[i] : i \in 1 .. n} \cup {new}
    BY ONLY <1>6, <2>1, <2>2
  <2> QED BY <1>6, <2>3 DEF Loaded
<1>8. Taken' = Taken \cup {new} /\ new \notin Taken
  <2>1. \A x \in Files \X Nat : x[2] < processed'[x[1]] <=> (x[2] < processed[x[1]] \/ x = new)
    <3> TAKE x \in Files \X Nat
    <3>1. CASE x[1] = file
      <4>1. x = new <=> x[2] = processed[file]
        BY <3>1 DEF new
      <4>2. processed'[x[1]] = processed[file] + 1 /\ processed[file] \in Nat
        BY <1>1, <1>3, <3>1
      <4> QED BY <3>1, <4>1, <4>2
    <3>2. CASE x[1] # file
      BY <1>1, <1>3, <3>2 DEF new
    <3> QED BY <3>1, <3>2
  <2>2. new \in Files \X Nat /\ ~(new[2] < processed[new[1]])
    BY <1>3 DEF new
  <2> QED BY <1>1, <2>1, <2>2 DEF Taken
<1>9. Loaded \subseteq Taken
  BY <1>2 DEF DriverInv, BatchInPlace
<1>10. SuitesInTurn'
  BY <1>1, <1>2 DEF DriverInv, SuitesInTurn, Present
<1>11. LoaderInPlace'
  <2>1. processed' \in [Files -> Nat] /\ \A f \in Files : processed'[f] <= dirs[suite][f]
    BY <1>1, <1>3
  <2>2. driver' = "loading" =>
           \A f \in Files : f \in paths' \/ f = file' \/ processed'[f] = dirs[suite][f]
    BY <1>1, <1>3 DEF DriverInv, LoaderInPlace
  <2>3. driver' = "loaded" => batch' # <<>>
    BY <1>6, EmptySeq
  <2> QED BY <1>1, <1>3, <2>1, <2>2, <2>3 DEF LoaderInPlace
<1>12. BatchInPlace'
  <2>1. \A i, j \in DOMAIN batch' : batch'[i] = batch'[j] => i = j
    <3>1. \A i \in 1 .. n : batch[i] # new
      BY <1>6, <1>8, <1>9 DEF Loaded
    <3>2. \A i, j \in 1 .. n : batch[i] = batch[j] => i = j
      BY <1>6 DEF DriverInv, BatchInPlace
    <3> QED BY <1>6, <3>1, <3>2
  <2>2. Len(batch') <= MaxResident
    BY <1>5, <1>6
  <2>3. driver' = "loading" => Len(batch') < MaxResident
    BY <1>1, <1>5, <1>6
  <2> QED BY <1>1, <1>6, <1>7, <1>8, <1>9, <2>1, <2>2, <2>3 DEF BatchInPlace
<1>13. TasksInPlace'
  BY <1>1, BusyStays DEF DriverInv, TasksInPlace
<1>14. Collected' = Collected
  <2>1. EarlierResults' = EarlierResults
    BY <1>1 DEF EarlierResults, ResultsFor, Instances, Present
  <2>2. Taken' \ Loaded' = Taken \ Loaded
    BY <1>7, <1>8
  <2> QED BY <1>1, <1>2, <2>1, <2>2 DEF Collected, ResultsFor
<1> QED BY <1>1, <1>10, <1>11, <1>12, <1>13, <1>14 DEF DriverInv

LEMMA RunKeepsDriverInv == DriverInv /\ RunBatch => DriverInv'
<1> SUFFICES ASSUME DriverInv, RunBatch PROVE DriverInv'
  OBVIOUS
<1>1. /\ driver = "loaded" /\ driver' = "running" /\ tasks' \in ShuffledTasks
      /\ suite' = suite /\ dirs' = dirs /\ paths' = paths /\ processed' = processed /\ file' = file
      /\ batch' = batch /\ results' = results /\ InSuite /\ InSuite' /\ Files' = Files
  BY DEF RunBatch, InSuite, loaderVars, Files
<1>2. total' = Len(tasks')
  BY DEF RunBatch, Start
<1> DEFINE S == (DOMAIN batch) \X (1 .. Solvers[suite])
<1>3. IsFiniteSet(S)
  <2>1. DOMAIN batch = 1 .. Len(batch) /\ Len(batch) \in Nat
    BY LenProperties DEF DriverInv, BatchInPlace
  <2>2. Solvers[suite] \in Nat
    BY <1>1, SuiteTypes DEF DriverInv, SuitesInTurn
  <2>3. IsFiniteSet(1 .. Len(batch)) /\ IsFiniteSet(1 .. Solvers[suite])
    BY <2>1, <2>2, FS_Interval
  <2> QED BY <2>1, <2>3, FS_Product
<1>4. tasks' \in SetToSeqs(S)
  BY <1>1 DEF ShuffledTasks
<1> HIDE DEF S
<1>5. /\ tasks' \in [1 .. total' -> S]
      /\ \A i, j \in 1 .. total' : tasks'[i] = tasks'[j] => i = j
      /\ \A t \in S : \E i \in 1 .. total' : t = tasks'[i]
  BY <1>2, <1>3, <1>4, EachOnce
<1>6. TasksInPlace'
  BY <1>1, <1>5 DEF TasksInPlace, S
<1>7. Collected' = Collected /\ Taken' = Taken /\ Loaded' = Loaded
  BY <1>1, CollectedStays
<1>8. SuitesInTurn' /\ LoaderInPlace' /\ BatchInPlace'
  BY <1>1, <1>7 DEF DriverInv, SuitesInTurn, Present, LoaderInPlace, BatchInPlace
<1> QED BY <1>1, <1>6, <1>7, <1>8 DEF DriverInv

(* The results of a batch: one for each of its instances and each solver.  *)
LEMMA BatchGivesResults ==
  ASSUME DriverInv, IInv, driver = "running", main = "returned"
  PROVE  BatchResults = SetToBag(ResultsFor(suite, Loaded))
<1>1. finished = 0 .. total - 1 /\ total \in Nat
  BY AllDone, PoolAssumption DEF AllDoneAtReturn, Task, IInv, TypeOK
<1>2. /\ tasks \in [1 .. total -> (DOMAIN batch) \X (1 .. Solvers[suite])]
      /\ \A i, j \in 1 .. total : tasks[i] = tasks[j] => i = j
      /\ \A t \in (DOMAIN batch) \X (1 .. Solvers[suite]) : \E i \in 1 .. total : t = tasks[i]
      /\ \A i, j \in DOMAIN batch : batch[i] = batch[j] => i = j
  BY DEF DriverInv, TasksInPlace, BatchInPlace
<1> DEFINE s == [i \in DOMAIN tasks |-> IF i - 1 \in finished THEN ResultOf(tasks[i]) ELSE Blank]
<1>3. DOMAIN s = 1 .. total
  BY <1>2
<1>4. \A i \in 1 .. total : s[i] = ResultOf(tasks[i])
  BY <1>1, <1>2
<1> HIDE DEF s
<1>5. \A i, j \in 1 .. total : s[i] = s[j] => i = j
  <2> SUFFICES ASSUME NEW i \in 1 .. total, NEW j \in 1 .. total, s[i] = s[j] PROVE i = j
    OBVIOUS
  <2>1. ResultOf(tasks[i]) = ResultOf(tasks[j])
    BY <1>4
  <2>2. batch[tasks[i][1]] = batch[tasks[j][1]] /\ tasks[i][2] = tasks[j][2]
    BY <2>1 DEF ResultOf
  <2>3. tasks[i][1] \in DOMAIN batch /\ tasks[j][1] \in DOMAIN batch
    BY <1>2
  <2>4. tasks[i][1] = tasks[j][1]
    BY <1>2, <2>2, <2>3
  <2>5. tasks[i] = tasks[j]
    BY <1>2, <2>2, <2>4
  <2> QED BY <1>2, <2>5
<1>6. {s[i] : i \in 1 .. total} = ResultsFor(suite, Loaded)
  <2>1. ASSUME NEW i \in 1 .. total PROVE s[i] \in ResultsFor(suite, Loaded)
    <3>1. tasks[i][1] \in DOMAIN batch /\ tasks[i][2] \in 1 .. Solvers[suite]
      BY <1>2
    <3>2. batch[tasks[i][1]] \in Loaded
      BY <3>1 DEF Loaded
    <3>3. s[i] = [suite |-> suite, instance |-> batch[tasks[i][1]], solver |-> tasks[i][2]]
      BY <1>4 DEF ResultOf
    <3> QED BY <3>1, <3>2, <3>3 DEF ResultsFor
  <2>2. ASSUME NEW r \in ResultsFor(suite, Loaded) PROVE \E i \in 1 .. total : r = s[i]
    <3>0. r.instance \in Loaded /\ r.solver \in 1 .. Solvers[suite] /\ r.suite = suite
          /\ r = [suite |-> r.suite, instance |-> r.instance, solver |-> r.solver]
      BY DEF ResultsFor
    <3>1. PICK b \in DOMAIN batch : r.instance = batch[b]
      BY <3>0 DEF Loaded
    <3>2. <<b, r.solver>> \in (DOMAIN batch) \X (1 .. Solvers[suite])
      BY <3>0
    <3>3. PICK i \in 1 .. total : <<b, r.solver>> = tasks[i]
      BY <1>2, <3>2
    <3>4. r = ResultOf(<<b, r.solver>>)
      BY <3>0, <3>1 DEF ResultOf
    <3> QED BY <1>4, <3>3, <3>4
  <2> QED BY <2>1, <2>2
<1>7. BatchResults = ToBag(s)
  BY DEF BatchResults, s
<1> QED BY <1>1, <1>3, <1>5, <1>6, <1>7, BagOfSequence

LEMMA CollectKeepsDriverInv == DriverInv /\ IInv /\ CollectResults => DriverInv'
<1> SUFFICES ASSUME DriverInv, IInv, CollectResults PROVE DriverInv'
  OBVIOUS
<1>1. /\ driver = "running" /\ main = "returned" /\ driver' = "calling"
      /\ results' = results (+) BatchResults /\ batch' = <<>>
      /\ suite' = suite /\ dirs' = dirs /\ paths' = paths /\ processed' = processed /\ file' = file
      /\ InSuite /\ InSuite' /\ Files' = Files /\ UNCHANGED vars
  BY DEF CollectResults, InSuite, loaderVars, Files
<1>2. Loaded \subseteq Taken /\ Loaded' = {} /\ Taken' = Taken /\ EarlierResults' = EarlierResults
  <2>1. Loaded' = {}
    BY <1>1 DEF Loaded
  <2>2. Taken' = Taken /\ EarlierResults' = EarlierResults
    BY <1>1 DEF Taken, EarlierResults, ResultsFor, Instances, Present
  <2> QED BY <1>1, <2>1, <2>2 DEF DriverInv, BatchInPlace
<1>3. Collected' = Collected \cup ResultsFor(suite, Loaded)
  <2>1. ResultsFor(suite, Taken) = ResultsFor(suite, Taken \ Loaded) \cup ResultsFor(suite, Loaded)
    <3>1. Taken = (Taken \ Loaded) \cup Loaded
      BY <1>2
    <3>2. \A A, B : ResultsFor(suite, A \cup B) = ResultsFor(suite, A) \cup ResultsFor(suite, B)
      BY DEF ResultsFor
    <3> QED BY <3>1, <3>2
  <2>2. Collected' = EarlierResults \cup ResultsFor(suite, Taken)
    BY <1>1, <1>2 DEF Collected, ResultsFor
  <2>3. Collected = EarlierResults \cup ResultsFor(suite, Taken \ Loaded)
    BY <1>1 DEF Collected
  <2> QED BY <2>1, <2>2, <2>3
<1>4. Collected \cap ResultsFor(suite, Loaded) = {}
  <2>1. EarlierResults \cap ResultsFor(suite, Loaded) = {}
    <3>1. suite \in Nat
      BY SuiteTypes DEF DriverInv
    <3>2. \A r \in EarlierResults : \E s \in Suite : s < suite /\ r.suite = s
      BY DEF EarlierResults, ResultsFor
    <3>3. \A r \in ResultsFor(suite, Loaded) : r.suite = suite
      BY DEF ResultsFor
    <3> QED BY <3>1, <3>2, <3>3
  <2>2. ResultsFor(suite, Taken \ Loaded) \cap ResultsFor(suite, Loaded) = {}
    BY DEF ResultsFor
  <2> QED BY <1>1, <2>1, <2>2 DEF Collected
<1>5. results' = SetToBag(Collected')
  <2>1. results' = SetToBag(Collected) (+) SetToBag(ResultsFor(suite, Loaded))
    BY <1>1, BatchGivesResults DEF DriverInv
  <2> QED BY <1>3, <1>4, <2>1, BagsOfSets
<1>6. SuitesInTurn' /\ LoaderInPlace'
  BY <1>1 DEF DriverInv, SuitesInTurn, Present, LoaderInPlace
<1>7. BatchInPlace'
  BY <1>1, <1>2, EmptySeq, DriverAssumption DEF BatchInPlace
<1>8. TasksInPlace'
  <2>1. \A w \in Worker : state[w] = "exited"
    BY <1>1, PoolAssumption DEF IInv, Threads, Worker
  <2>2. Busy = {}
    BY <2>1 DEF Busy
  <2> QED BY <1>1, <2>2, BusyStays DEF TasksInPlace
<1> QED BY <1>5, <1>6, <1>7, <1>8 DEF DriverInv

LEMMA LeaveKeepsDriverInv == DriverInv /\ LeaveSuite => DriverInv'
<1> SUFFICES ASSUME DriverInv, LeaveSuite PROVE DriverInv'
  OBVIOUS
<1>1. /\ driver = "loaded" /\ batch = <<>> /\ driver' = "entering" /\ suite' = suite + 1
      /\ dirs' = dirs /\ file' = file /\ batch' = batch
      /\ tasks' = tasks /\ results' = results /\ UNCHANGED vars
      /\ InSuite /\ ~InSuite'
  BY DEF LeaveSuite, InSuite, loaderVars
<1>2. suite \in Suite /\ Present(suite) /\ suite \in Nat /\ Len(Solvers) \in Nat /\ Suite = 1 .. Len(Solvers)
  BY <1>1, SuiteTypes DEF DriverInv, SuitesInTurn
<1>3. SuitesInTurn'
  BY <1>1, <1>2 DEF DriverInv, SuitesInTurn
<1>4. LoaderInPlace'
  BY <1>1 DEF DriverInv, LoaderInPlace
<1>5. BatchInPlace'
  BY <1>1 DEF DriverInv, BatchInPlace
<1>6. TasksInPlace'
  BY <1>1, BusyStays DEF DriverInv, TasksInPlace
<1>7. Taken \ Loaded = Instances(suite)
  <2>1. Loaded = {}
    BY <1>1 DEF Loaded
  <2>2. \A f \in Files : processed[f] = dirs[suite][f] /\ dirs[suite][f] \in Nat
    BY <1>1, <1>2, SuiteTypes DEF DriverInv, LoaderInPlace, Files
  <2>3. \A f \in Files : \A k : k \in Nat /\ k < processed[f] <=> k \in 0 .. dirs[suite][f] - 1
    BY <2>2
  <2> QED BY <2>1, <2>3 DEF Taken, Instances, Files
<1>8. Collected' = Collected
  <2>1. {t \in Suite : t < suite + 1 /\ Present(t)} = {t \in Suite : t < suite /\ Present(t)} \cup {suite}
    <3>1. \A t \in Suite : t < suite + 1 <=> t < suite \/ t = suite
      BY <1>2
    <3> QED BY <1>2, <3>1
  <2>2. EarlierResults' = UNION {ResultsFor(s, Instances(s)) :
                                     s \in {t \in Suite : t < suite + 1 /\ Present(t)}}
    BY <1>1 DEF EarlierResults, ResultsFor, Instances, Present
  <2>3. EarlierResults' = EarlierResults \cup ResultsFor(suite, Instances(suite))
    BY <2>1, <2>2 DEF EarlierResults
  <2> QED BY <1>1, <1>7, <2>3 DEF Collected
<1> QED BY <1>1, <1>3, <1>4, <1>5, <1>6, <1>8 DEF DriverInv

LEMMA PoolKeepsDriverInv ==
  ASSUME DriverInv, driver = "running", total' = total,
         UNCHANGED <<driver, suite, dirs, loaderVars, batch, tasks, results>>
  PROVE  DriverInv'
<1>1. /\ suite' = suite /\ dirs' = dirs /\ processed' = processed /\ batch' = batch
      /\ paths' = paths /\ file' = file
      /\ driver' = driver /\ tasks' = tasks /\ results' = results
      /\ InSuite' = InSuite /\ Files' = Files
  BY DEF loaderVars, InSuite, Files
<1>2. Collected' = Collected /\ Taken' = Taken /\ Loaded' = Loaded
  BY <1>1, CollectedStays
<1>3. SuitesInTurn' /\ LoaderInPlace' /\ BatchInPlace' /\ TasksInPlace'
  BY <1>1, <1>2 DEF DriverInv, SuitesInTurn, Present, LoaderInPlace, BatchInPlace, TasksInPlace
<1> QED BY <1>1, <1>2, <1>3 DEF DriverInv

LEMMA DriverInvariance == DriverSpec => [](DriverInv /\ IInv)
<1>1. ASSUME DriverInv, IInv, DriverNext PROVE DriverInv'
  <2>1. CASE EnterSuite \/ SkipSuite \/ RunBatch \/ CollectResults \/ LeaveSuite \/ PrintResults
    BY <1>1, <2>1, EnterKeepsDriverInv, SkipKeepsDriverInv, RunKeepsDriverInv, CollectKeepsDriverInv,
       LeaveKeepsDriverInv, PrintKeepsDriverInv
  <2>2. CASE LoaderNext
    BY <1>1, <2>2, LoaderKeepsDriverInv, ReadKeepsDriverInv DEF LoaderNext
  <2>3. CASE PoolStep(MainNext)
    <3>1. total' = total
      BY <2>3 DEF PoolStep, MainNext, Spawn, AllSpawned, Join, Return
    <3> QED BY <1>1, <2>3, <3>1, PoolKeepsDriverInv DEF PoolStep
  <2>4. ASSUME NEW w \in Worker, PoolStep(WorkerNext(w)) PROVE DriverInv'
    <3>1. total' = total
      BY <2>4 DEF PoolStep, WorkerNext, Draw, RunTask, TaskThrows, Count, Lock, Report
    <3> QED BY <1>1, <2>4, <3>1, PoolKeepsDriverInv DEF PoolStep
  <2> QED BY <1>1, <2>1, <2>2, <2>3, <2>4 DEF DriverNext, MainThread
<1>2. ASSUME DriverInv, UNCHANGED driverVars PROVE DriverInv'
  <2>1. /\ suite' = suite /\ dirs' = dirs /\ processed' = processed /\ batch' = batch
        /\ paths' = paths /\ file' = file /\ total' = total /\ UNCHANGED vars
        /\ driver' = driver /\ tasks' = tasks /\ results' = results
        /\ InSuite' = InSuite /\ Files' = Files
    BY <1>2 DEF driverVars, vars, InSuite, Files
  <2>2. Collected' = Collected /\ Taken' = Taken /\ Loaded' = Loaded /\ Busy' = Busy
    BY <2>1, CollectedStays, BusyStays
  <2>3. SuitesInTurn' /\ LoaderInPlace' /\ BatchInPlace' /\ TasksInPlace'
    BY <1>2, <2>1, <2>2 DEF DriverInv, SuitesInTurn, Present, LoaderInPlace, BatchInPlace, TasksInPlace
  <2> QED BY <1>2, <2>1, <2>2, <2>3 DEF DriverInv
<1>3. DriverInv /\ IInv /\ [DriverNext]_driverVars => DriverInv'
  BY <1>1, <1>2
<1> QED BY <1>3, InitDriverInv, DriverRunsPool, IInvInductive, PTL DEF DriverSpec

-----------------------------------------------------------------------------
(* Types; and no worker is at a task whose instance is gone                *)
(* (benchmark.cpp:257, 287).                                               *)
THEOREM DriverTypeCorrect == DriverSpec => []DriverTypeOK
<1>1. DriverInv /\ IInv => DriverTypeOK
  <2> SUFFICES ASSUME DriverInv, IInv PROVE DriverTypeOK
    OBVIOUS
  <2>1. IsABag(results)
    BY DEF DriverInv, SetToBag, IsABag
  <2>2. ASSUME NEW w \in Busy
        PROVE  task[w] + 1 \in DOMAIN tasks /\ tasks[task[w] + 1][1] \in DOMAIN batch
    <3>1. driver = "running"
      BY DEF DriverInv, TasksInPlace
    <3>2. task[w] + 1 \in 1 .. total
      BY PoolAssumption DEF IInv, TypeOK, TasksDrawn, Task
    <3>3. tasks \in [1 .. total -> (DOMAIN batch) \X (1 .. Solvers[suite])]
      BY <3>1 DEF DriverInv, TasksInPlace
    <3> QED BY <3>2, <3>3
  <2> QED BY <2>1, <2>2 DEF DriverTypeOK, DriverInv, SuitesInTurn, BatchInPlace, IInv
<1> QED BY <1>1, DriverInvariance, PTL

(* What is printed is one result for each instance of each directory that  *)
(* is there and each solver, for any files and any number of instances     *)
(* that are resident at a time (benchmark.cpp:180-194).                    *)
THEOREM DriverResultsComplete == DriverSpec => []ResultsComplete
<1>1. DriverInv => ResultsComplete
  <2> SUFFICES ASSUME DriverInv, driver = "printed"
               PROVE  results = SetToBag(UNION {ResultsFor(s, Instances(s)) : s \in {t \in Suite : Present(t)}})
    BY DEF ResultsComplete, ResultsFor, Instances, Present
  <2>1. {t \in Suite : t < suite /\ Present(t)} = {t \in Suite : Present(t)}
    <3>1. suite = Len(Solvers) + 1
      BY SuiteTypes DEF DriverInv, SuitesInTurn
    <3> QED BY <3>1, SuiteTypes DEF DriverInv
  <2> QED BY <2>1 DEF DriverInv, Collected, InSuite, EarlierResults
<1> QED BY <1>1, DriverInvariance, PTL
=============================================================================
