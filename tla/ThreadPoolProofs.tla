--------------------------- MODULE ThreadPoolProofs ---------------------------
(***************************************************************************)
(* Proofs about ThreadPool for every number of tasks and of workers.       *)
(***************************************************************************)
EXTENDS ThreadPool, FiniteSetTheorems, TLAPS

(***************************************************************************)
(* The tasks taken are the first k of those added.  front and rear alone   *)
(* do not tell k (0 and queue_size look alike), hence the existential in   *)
(* the invariant.                                                          *)
(***************************************************************************)
Wrapped(i) == IF i = queue_size THEN 0 ELSE i

Dispatched(k) ==
  /\ \A t \in Task \cup {None} : taken[t] = IF t \in 1 .. k THEN 1 ELSE 0
  /\ front = Wrapped(k)
  /\ rear = Wrapped(added)
  /\ \A t \in Task : t <= added /\ k < t => task_queue[t - 1] = t
  /\ \A w \in Worker : worker[w] = "compute" => task[w] \in 1 .. k

AddingUntilAll == IF main = "adding" THEN added < queue_size ELSE added = queue_size

IInv ==
  /\ TypeOK
  /\ AddingUntilAll
  /\ OneOwner
  /\ NoLostWakeup
  /\ \E k \in 0 .. added : Dispatched(k)

\* Moving an index on around the ring counts one more, up to the last slot.
LEMMA WrapSucc ==
  ASSUME NEW k \in Nat, k < queue_size
  PROVE  /\ (Wrapped(k) + 1) % queue_size = Wrapped(k + 1)
         /\ Wrapped(k) = k
         /\ Wrapped(k + 1) \in Slot
<1>1. Wrapped(k) = k  BY ThreadPoolAssumption DEF Wrapped
<1>2. CASE k + 1 = queue_size
  <2>1. queue_size % queue_size = 0  BY ThreadPoolAssumption
  <2> QED  BY <1>1, <1>2, <2>1, ThreadPoolAssumption DEF Wrapped, Slot
<1>3. CASE k + 1 < queue_size
  <2>1. (k + 1) % queue_size = k + 1  BY <1>3, ThreadPoolAssumption
  <2> QED  BY <1>1, <1>3, <2>1, ThreadPoolAssumption DEF Wrapped, Slot
<1> QED  BY <1>2, <1>3, ThreadPoolAssumption

LEMMA InitInv == Init => IInv
<1> SUFFICES ASSUME Init PROVE IInv
  OBVIOUS
<1>1. TypeOK  BY ThreadPoolAssumption DEF Init, TypeOK, Task, Slot, Worker, None
<1>2. AddingUntilAll  BY ThreadPoolAssumption DEF Init, AddingUntilAll
<1>3. OneOwner /\ NoLostWakeup  BY DEF Init, OneOwner, NoLostWakeup
<1>4. Dispatched(0)
  BY ThreadPoolAssumption DEF Init, Dispatched, Wrapped, Task, None
<1> QED  BY <1>1, <1>2, <1>3, <1>4 DEF IInv, Init

\* A worker that finds front # rear takes the next task in the order of add_task.
LEMMA TakeNext ==
  ASSUME TypeOK, AddingUntilAll, NEW k \in 0 .. added, Dispatched(k), front # rear
  PROVE  /\ k < added /\ k + 1 \in Task
         /\ front = k
         /\ task_queue[front] = k + 1
         /\ taken[k + 1] = 0
<1>1. k < added  BY ThreadPoolAssumption DEF Dispatched, TypeOK
<1>2. k < queue_size /\ k \in Nat  BY <1>1, ThreadPoolAssumption DEF TypeOK
<1>3. k + 1 \in Task  BY <1>2, ThreadPoolAssumption DEF Task
<1>4. front = k  BY <1>2, ThreadPoolAssumption DEF Dispatched, Wrapped
<1>5. task_queue[k] = k + 1
  <2>1. task_queue[(k + 1) - 1] = k + 1
    BY <1>1, <1>2, <1>3 DEF Dispatched, TypeOK
  <2> QED  BY <2>1, <1>2
<1>6. taken[k + 1] = 0  BY <1>3, <1>2 DEF Dispatched
<1> QED  BY <1>1, <1>3, <1>4, <1>5, <1>6

LEMMA TakeInv == \A w \in Worker : IInv /\ Take(w) => IInv'
<1> SUFFICES ASSUME NEW w \in Worker, IInv, Take(w) PROVE IInv'
  OBVIOUS
<1> USE DEF IInv
<1>k. PICK k \in 0 .. added : Dispatched(k)  OBVIOUS
<1>0. k < added /\ k + 1 \in Task /\ front = k /\ task_queue[front] = k + 1 /\ taken[k + 1] = 0
  BY <1>k, TakeNext DEF Take, Filled
<1>1. k \in Nat /\ k < queue_size /\ added \in Nat  BY <1>0, ThreadPoolAssumption DEF TypeOK
<1>2. front' = Wrapped(k + 1) /\ Wrapped(k + 1) \in Slot
  BY <1>0, <1>1, WrapSucc DEF Take
<1>3. task' = [task EXCEPT ![w] = k + 1]  BY <1>0 DEF Take
<1>4. taken' = [taken EXCEPT ![k + 1] = 1]  BY <1>0 DEF Take, TypeOK
<1>5. TypeOK'  BY <1>0, <1>2, <1>3, <1>4 DEF TypeOK, Take
<1>6. AddingUntilAll'  BY DEF AddingUntilAll, Take
<1>7. OneOwner'
  <2> SUFFICES ASSUME NEW u \in Worker, NEW v \in Worker, u # v,
                      worker'[u] = "compute", worker'[v] = "compute"
               PROVE  task'[u] # task'[v]
    BY DEF OneOwner
  <2>1. \A x \in Worker \ {w} : worker'[x] = worker[x] /\ task'[x] = task[x]
    BY <1>3 DEF Take, TypeOK
  <2>2. task'[w] = k + 1  BY <1>3 DEF TypeOK
  <2>3. \A x \in Worker : worker[x] = "compute" => task[x] <= k /\ task[x] \in Nat
    BY <1>k, <1>1 DEF Dispatched
  <2>4. CASE u = w  BY <2>1, <2>2, <2>3, <2>4, <1>1
  <2>5. CASE v = w  BY <2>1, <2>2, <2>3, <2>5, <1>1
  <2>6. CASE u # w /\ v # w  BY <2>1, <2>6 DEF OneOwner
  <2> QED  BY <2>4, <2>5, <2>6
<1>8. NoLostWakeup'  BY DEF NoLostWakeup, Take, TypeOK
<1>9. Dispatched(k + 1)'
  <2>1. \A t \in Task \cup {None} : taken'[t] = IF t \in 1 .. k + 1 THEN 1 ELSE 0
    BY <1>k, <1>1, <1>4 DEF Dispatched, TypeOK, Task, None
  <2>2. \A t \in Task : t <= added' /\ k + 1 < t => task_queue'[t - 1] = t
    BY <1>k, <1>1 DEF Dispatched, Take, Task
  <2>3. \A x \in Worker : worker'[x] = "compute" => task'[x] \in 1 .. k + 1
    BY <1>k, <1>1, <1>3 DEF Dispatched, Take, TypeOK
  <2> QED  BY <1>k, <1>2, <2>1, <2>2, <2>3 DEF Dispatched, Take, Wrapped
<1>10. k + 1 \in 0 .. added'  BY <1>0, <1>1 DEF Take
<1> QED  BY <1>5, <1>6, <1>7, <1>8, <1>9, <1>10

LEMMA add_taskInv == IInv /\ add_task => IInv'
<1> SUFFICES ASSUME IInv, add_task PROVE IInv'
  OBVIOUS
<1> USE DEF IInv
<1>k. PICK k \in 0 .. added : Dispatched(k)  OBVIOUS
<1>1. added \in Nat /\ added < queue_size /\ queue_size \in Nat /\ k \in Nat /\ k <= added
  BY ThreadPoolAssumption DEF TypeOK, AddingUntilAll, add_task
<1>2. rear = added /\ rear' = Wrapped(added + 1) /\ rear' \in Slot
  BY <1>k, <1>1, WrapSucc DEF Dispatched, add_task, Put, Signal
<1>3. added + 1 \in Task /\ added' = added + 1  BY <1>1 DEF Task, add_task
<1>4. worker' \in [Worker -> {"lock", "waiting", "woken", "compute"}]
  BY DEF add_task, Put, Signal, TypeOK
<1>5. \A x \in Worker : worker'[x] = worker[x] \/ (worker[x] = "waiting" /\ worker'[x] = "woken")
  BY DEF add_task, Put, Signal, TypeOK
<1>6. TypeOK'
  <2>1. task_queue' \in [Slot -> Task \cup {None}]  BY <1>3 DEF add_task, Put, Signal, TypeOK
  <2>2. added' \in 0 .. queue_size  BY <1>1, <1>3
  <2> QED  BY <1>2, <1>4, <2>1, <2>2 DEF add_task, TypeOK
<1>7. AddingUntilAll'  BY <1>1 DEF AddingUntilAll, add_task
<1>8. OneOwner'  BY <1>5 DEF OneOwner, add_task
<1>9. NoLostWakeup'
  <2>1. CASE \E x \in Worker : worker[x] = "waiting"
    BY <2>1 DEF NoLostWakeup, add_task, Put, Signal, TypeOK
  <2>2. CASE ~ \E x \in Worker : worker[x] = "waiting"
    <3>1. 1 \in Worker  BY ThreadPoolAssumption DEF Worker
    <3> QED  BY <2>2, <3>1 DEF NoLostWakeup, add_task, Put, Signal
  <2> QED  BY <2>1, <2>2
<1>10. Dispatched(k)'
  <2>1. \A t \in Task : t <= added' /\ k < t => task_queue'[t - 1] = t
    BY <1>k, <1>1, <1>2, <1>3 DEF Dispatched, add_task, Put, Signal, TypeOK, Task, Slot
  <2>2. \A x \in Worker : worker'[x] = "compute" => task'[x] \in 1 .. k
    BY <1>k, <1>5 DEF Dispatched, add_task
  <2> QED  BY <1>k, <1>2, <1>3, <2>1, <2>2 DEF Dispatched, add_task, Wrapped
<1>11. k \in 0 .. added'  BY <1>1, <1>3
<1> QED  BY <1>6, <1>7, <1>8, <1>9, <1>10, <1>11

\* Where a worker goes when it takes nothing; Dispatched and the ring stay.
LEMMA WaitInv == \A w \in Worker : IInv /\ Wait(w) => IInv'
<1> SUFFICES ASSUME NEW w \in Worker, IInv, Wait(w) PROVE IInv'
  OBVIOUS
<1> USE DEF IInv
<1>k. PICK k \in 0 .. added : Dispatched(k)  OBVIOUS
<1>1. TypeOK'  BY DEF TypeOK, Wait, pool
<1>2. AddingUntilAll'  BY DEF AddingUntilAll, Wait, pool
<1>3. OneOwner'  BY DEF OneOwner, Wait, pool, TypeOK
<1>4. NoLostWakeup'  BY DEF NoLostWakeup, Wait, Filled, pool
<1>5. Dispatched(k)'  BY <1>k DEF Dispatched, Wait, pool, Wrapped, TypeOK
<1> QED  BY <1>1, <1>2, <1>3, <1>4, <1>5 DEF Wait, pool

LEMMA WakeInv == \A w \in Worker : IInv /\ SpuriousWakeup(w) => IInv'
<1> SUFFICES ASSUME NEW w \in Worker, IInv, SpuriousWakeup(w) PROVE IInv'
  OBVIOUS
<1> USE DEF IInv
<1>k. PICK k \in 0 .. added : Dispatched(k)  OBVIOUS
<1>1. TypeOK'  BY DEF TypeOK, SpuriousWakeup, pool
<1>2. AddingUntilAll'  BY DEF AddingUntilAll, SpuriousWakeup, pool
<1>3. OneOwner'  BY DEF OneOwner, SpuriousWakeup, pool, TypeOK
<1>4. NoLostWakeup'  BY DEF NoLostWakeup, SpuriousWakeup, pool, TypeOK
<1>5. Dispatched(k)'  BY <1>k DEF Dispatched, SpuriousWakeup, pool, Wrapped, TypeOK
<1> QED  BY <1>1, <1>2, <1>3, <1>4, <1>5 DEF SpuriousWakeup

LEMMA ComputeInv == \A w \in Worker : IInv /\ Compute(w) => IInv'
<1> SUFFICES ASSUME NEW w \in Worker, IInv, Compute(w) PROVE IInv'
  OBVIOUS
<1> USE DEF IInv
<1>k. PICK k \in 0 .. added : Dispatched(k)  OBVIOUS
<1>1. task[w] \in Task
  BY <1>k, ThreadPoolAssumption DEF Dispatched, Compute, pool, Task, TypeOK
<1>2. TypeOK'  BY <1>1 DEF TypeOK, Compute, pool
<1>3. AddingUntilAll'  BY DEF AddingUntilAll, Compute, pool
<1>4. OneOwner'  BY DEF OneOwner, Compute, pool, TypeOK
<1>5. NoLostWakeup'  BY DEF NoLostWakeup, Compute, pool, TypeOK
<1>6. Dispatched(k)'  BY <1>k DEF Dispatched, Compute, pool, Wrapped, TypeOK
<1> QED  BY <1>2, <1>3, <1>4, <1>5, <1>6 DEF Compute

\* The rest of main moves on and leaves the pool alone.
LEMMA MainInv == IInv /\ (Measure \/ Free \/ Exit \/ \E w \in Worker : Crash(w)) => IInv'
<1> SUFFICES ASSUME IInv, Measure \/ Free \/ Exit \/ \E w \in Worker : Crash(w) PROVE IInv'
  OBVIOUS
<1> USE DEF IInv
<1>k. PICK k \in 0 .. added : Dispatched(k)  OBVIOUS
<1>1. UNCHANGED <<pool, workers, added, C>> /\ main # "adding"
      /\ main' \in {"measured", "freed", "exited"}
  BY DEF Measure, Free, Exit, Crash
<1>2. TypeOK'  BY <1>1 DEF TypeOK, pool, workers
<1>3. AddingUntilAll'  BY <1>1 DEF AddingUntilAll
<1>4. OneOwner' /\ NoLostWakeup'  BY <1>1 DEF OneOwner, NoLostWakeup, pool, workers
<1>5. Dispatched(k)'  BY <1>k, <1>1 DEF Dispatched, pool, workers, Wrapped
<1> QED  BY <1>1, <1>2, <1>3, <1>4, <1>5

LEMMA Inductive == Spec => []IInv
<1>1. IInv /\ [Next]_vars => IInv'
  <2> SUFFICES ASSUME IInv, [Next]_vars PROVE IInv'
    OBVIOUS
  <2>1. CASE UNCHANGED vars
    <3> USE <2>1 DEF vars, pool, workers
    <3>k. PICK k \in 0 .. added : Dispatched(k)  BY DEF IInv
    <3>1. Dispatched(k)'  BY <3>k DEF Dispatched, Wrapped
    <3>2. (TypeOK /\ AddingUntilAll /\ OneOwner /\ NoLostWakeup)'
      BY DEF IInv, TypeOK, AddingUntilAll, OneOwner, NoLostWakeup
    <3> QED  BY <3>1, <3>2 DEF IInv
  <2> QED  BY <2>1, TakeInv, add_taskInv, WaitInv, WakeInv, ComputeInv, MainInv DEF Next
<1> QED  BY InitInv, <1>1, PTL DEF Spec

----------------------------------------------------------------------------
(* Types.                                                                  *)
THEOREM TypeCorrect == Spec => []TypeOK
<1>1. IInv => TypeOK  BY DEF IInv
<1> QED  BY Inductive, <1>1, PTL

(* Tasks are taken once and in order, and never a slot nobody wrote.       *)
THEOREM InOrder == Spec => []TakenInOrder
<1>1. IInv => TakenInOrder
  <2> SUFFICES ASSUME IInv PROVE TakenInOrder
    OBVIOUS
  <2>1. PICK k \in 0 .. added : Dispatched(k)  BY DEF IInv
  <2> QED  BY <2>1, ThreadPoolAssumption DEF IInv, TypeOK, Dispatched, TakenInOrder, Task, None
<1> QED  BY Inductive, <1>1, PTL

(* Two workers never hold the same task.                                   *)
THEOREM Ownership == Spec => []OneOwner
<1>1. IInv => OneOwner  BY DEF IInv
<1> QED  BY Inductive, <1>1, PTL

(* A ring that looks empty after the last add_task lost nothing or all.    *)
THEOREM NothingOrEverythingLost == Spec => []AllOrNothing
<1>1. IInv => AllOrNothing
  <2> SUFFICES ASSUME IInv, added = queue_size, front = rear
               PROVE (\A t \in Task : taken[t] = 1) \/ (\A t \in Task : taken[t] = 0)
    BY DEF AllOrNothing
  <2>1. PICK k \in 0 .. added : Dispatched(k)  BY DEF IInv
  <2>2. k = 0 \/ k = queue_size
    BY <2>1, ThreadPoolAssumption DEF Dispatched, Wrapped
  <2> QED  BY <2>1, <2>2, ThreadPoolAssumption DEF Dispatched, Task
<1> QED  BY Inductive, <1>1, PTL

(* While the ring holds a task a worker is awake.                          *)
THEOREM WakeupsKept == Spec => []NoLostWakeup
<1>1. IInv => NoLostWakeup  BY DEF IInv
<1> QED  BY Inductive, <1>1, PTL

----------------------------------------------------------------------------
(* What is taken is computed, and somebody goes on                       *)

\* As long as the matrices are there, a task that has been taken is in the hands of a
\* worker or its element is computed.
InHands(t) == \E w \in Worker : worker[w] = "compute" /\ task[w] = t
TakenAccounted ==
  main \in {"adding", "sleeping", "measured"} =>
    \A t \in Task : taken[t] = 1 => InHands(t) \/ t \in C

\* Every step keeps the account: taking puts the task in hand, computing stores it.
LEMMA StepAccounted == IInv /\ IInv' /\ TakenAccounted /\ [Next]_vars => TakenAccounted'
<1> SUFFICES ASSUME IInv, IInv', TakenAccounted, [Next]_vars,
                    main' \in {"adding", "sleeping", "measured"}, NEW t \in Task, taken'[t] = 1
             PROVE  InHands(t)' \/ t \in C'
  BY DEF TakenAccounted
<1>1. ASSUME UNCHANGED <<taken, task, C>>, main \in {"adding", "sleeping", "measured"},
             \A w \in Worker : worker[w] = "compute" => worker'[w] = "compute"
      PROVE  InHands(t)' \/ t \in C'
  BY <1>1 DEF TakenAccounted, InHands
<1>t. worker \in [Worker -> {"lock", "waiting", "woken", "compute"}]
      /\ task \in [Worker -> Task \cup {None}] /\ taken \in [Task \cup {None} -> Nat]
  BY DEF IInv, TypeOK
<1>2. ASSUME NEW w \in Worker, Take(w) PROVE InHands(t)' \/ t \in C'
  <2>1. /\ main \in {"adding", "sleeping", "measured"} /\ worker[w] # "compute" /\ C' = C
        /\ worker' = [worker EXCEPT ![w] = "compute"]
        /\ task' = [task EXCEPT ![w] = task_queue[front]]
        /\ taken' = [taken EXCEPT ![task_queue[front]] = @ + 1]
    BY <1>2 DEF Take
  <2>2. CASE t = task_queue[front]
    <3>1. worker'[w] = "compute" /\ task'[w] = t  BY <1>t, <2>1, <2>2
    <3> QED  BY <3>1 DEF InHands
  <2>3. CASE t # task_queue[front]
    <3>1. taken[t] = 1  BY <1>t, <2>1, <2>3
    <3>2. \A v \in Worker : worker[v] = "compute" => worker'[v] = "compute" /\ task'[v] = task[v]
      BY <1>t, <2>1
    <3> QED  BY <2>1, <3>1, <3>2 DEF TakenAccounted, InHands
  <2> QED  BY <2>2, <2>3
<1>3. ASSUME NEW w \in Worker, Compute(w) PROVE InHands(t)' \/ t \in C'
  <2>1. /\ main \in {"adding", "sleeping", "measured"} /\ taken[t] = 1
        /\ C' = C \cup {task[w]}
        /\ \A v \in Worker : v # w => worker'[v] = worker[v] /\ task'[v] = task[v]
    BY <1>3, <1>t DEF Compute
  <2> QED  BY <2>1 DEF TakenAccounted, InHands
<1>4. ASSUME NEW w \in Worker, Wait(w) \/ SpuriousWakeup(w) PROVE InHands(t)' \/ t \in C'
  BY <1>1, <1>4, <1>t DEF Wait, SpuriousWakeup
<1>5. CASE add_task
  BY <1>1, <1>5, <1>t DEF add_task, Signal
<1>6. CASE Measure \/ Free \/ Exit \/ \E w \in Worker : Crash(w)
  BY <1>1, <1>6 DEF Measure, Free, Exit, Crash, workers
<1>7. CASE UNCHANGED vars
  BY <1>1, <1>7 DEF vars, workers
<1> QED  BY <1>2, <1>3, <1>4, <1>5, <1>6, <1>7 DEF Next

\* No task that has been taken gets lost before the matrices are freed.
THEOREM NoTaskDropped == Spec => []TakenAccounted
<1>1. Init => TakenAccounted  BY DEF Init, TakenAccounted
<1> QED  BY Inductive, StepAccounted, <1>1, PTL DEF Spec

\* A worker that needs nobody to go on: it computes, or is awake and finds a task.
Goes(w) == worker[w] = "compute" \/ (Filled(w) /\ worker[w] \in {"lock", "woken"})

\* Once one task has been taken, and all are added, there is such a worker until the
\* whole matrix is there.
WorkerGoes ==
  main = "sleeping" /\ (\E t \in Task : taken[t] = 1) /\ C # Task => \E w \in Worker : Goes(w)

\* The first task that a worker takes is not the last that happens: until the matrix
\* is complete there is a worker that can go on without a signal.
THEOREM OneThenGoesOn == Spec => []WorkerGoes
<1>1. ASSUME IInv, TakenAccounted, main = "sleeping", NEW u \in Task, taken[u] = 1, C # Task,
             \A w \in Worker : worker[w] # "compute"
      PROVE  \E w \in Worker : Filled(w) /\ worker[w] \in {"lock", "woken"}
  <2>1. PICK k \in 0 .. added : Dispatched(k)  BY <1>1 DEF IInv
  <2>2. added = queue_size  BY <1>1 DEF IInv, AddingUntilAll
  <2>3. \A t \in Task : taken[t] = 1 => t \in C  BY <1>1 DEF TakenAccounted, InHands
  <2>4. k # 0  BY <1>1, <2>1 DEF Dispatched
  <2>5. k # queue_size
    <3> SUFFICES ASSUME k = queue_size PROVE FALSE  OBVIOUS
    <3>1. Task \subseteq C  BY <2>1, <2>3 DEF Dispatched, Task
    <3> QED  BY <1>1, <3>1 DEF IInv, TypeOK
  <2>6. front = k /\ rear = 0  BY <2>1, <2>2, <2>5 DEF Dispatched, Wrapped
  <2>7. front # rear  BY <2>4, <2>6
  <2> QED  BY <1>1, <2>7 DEF IInv, TypeOK, NoLostWakeup, Filled
<1>2. IInv /\ TakenAccounted => WorkerGoes  BY <1>1 DEF WorkerGoes, Goes
<1> QED  BY Inductive, NoTaskDropped, <1>2, PTL

\* A task is taken, then computed: steps to go.
Untaken   == {t \in Task : taken[t] = 0}
Computing == {w \in Worker : worker[w] = "compute"}
PoolToGo  == 2 * Cardinality(Untaken) + Cardinality(Computing)

\* While main sleeps, a step brings the matrix nearer, and that of a worker that goes
\* always does, or all who go still go after it: no other worker, and no
\* wakeup without cause, takes that away from them.
GoesTillDone ==
  main = "sleeping" =>
    /\ \/ PoolToGo' < PoolToGo
       \/ PoolToGo' = PoolToGo /\ \A w \in Worker : Goes(w) => Goes(w)'
    /\ \A w \in Worker : Goes(w) /\ worker_function(w) => PoolToGo' < PoolToGo

\* What is counted is finite.
LEMMA PoolFinite ==
  /\ IsFiniteSet(Untaken) /\ Cardinality(Untaken) \in Nat
  /\ IsFiniteSet(Computing) /\ Cardinality(Computing) \in Nat
<1>1. IsFiniteSet(Task) /\ IsFiniteSet(Worker)
  <2>1. 1 \in Int /\ queue_size \in Int /\ num_cores \in Int  BY ThreadPoolAssumption
  <2> QED  BY <2>1, FS_Interval, Zenon DEF Task, Worker
<1>2. Untaken \in SUBSET Task /\ Computing \in SUBSET Worker  BY DEF Untaken, Computing
<1> QED  BY <1>1, <1>2, FS_Subset, FS_CardinalityType

\* To take a task is one step of two, the other is to compute it.
LEMMA TakeNearer ==
  ASSUME IInv, NEW w \in Worker, Take(w)
  PROVE  PoolToGo' = PoolToGo - 1
<1>1. PICK k \in 0 .. added : Dispatched(k)  BY DEF IInv
<1>2. k + 1 \in Task /\ task_queue[front] = k + 1 /\ taken[k + 1] = 0
  BY <1>1, TakeNext DEF IInv, Take, Filled
<1>3. taken \in [Task \cup {None} -> Nat] /\ worker \in [Worker -> {"lock", "waiting", "woken", "compute"}]
  BY DEF IInv, TypeOK
<1>4. PICK u \in Task : u = k + 1  BY <1>2
<1>5. taken' = [taken EXCEPT ![u] = 1] /\ taken[u] = 0  BY <1>2, <1>3, <1>4 DEF Take
<1>6. Untaken' = Untaken \ {u} /\ u \in Untaken
  <2>1. \A t \in Task : taken'[t] = 0 <=> taken[t] = 0 /\ t # u  BY <1>3, <1>5
  <2> QED  BY <1>5, <2>1 DEF Untaken
<1>7. Computing' = Computing \cup {w} /\ w \notin Computing  BY <1>3 DEF Take, Computing
<1>8. Cardinality(Untaken') = Cardinality(Untaken) - 1
  BY <1>6, PoolFinite, FS_RemoveElement
<1>9. Cardinality(Computing') = Cardinality(Computing) + 1
  BY <1>7, PoolFinite, FS_AddElement
<1> QED  BY <1>8, <1>9, PoolFinite DEF PoolToGo

LEMMA ComputeNearer ==
  ASSUME IInv, NEW w \in Worker, Compute(w)
  PROVE  PoolToGo' = PoolToGo - 1
<1>1. worker \in [Worker -> {"lock", "waiting", "woken", "compute"}]  BY DEF IInv, TypeOK
<1>2. Computing' = Computing \ {w} /\ w \in Computing  BY <1>1 DEF Compute, Computing
<1>3. Untaken' = Untaken  BY DEF Compute, Untaken
<1>4. Cardinality(Computing') = Cardinality(Computing) - 1
  BY <1>2, PoolFinite, FS_RemoveElement
<1> QED  BY <1>3, <1>4, PoolFinite DEF PoolToGo

\* A worker without a task to take goes to sleep or wakes up, whoever else goes.
LEMMA OthersKeep ==
  ASSUME IInv, NEW w \in Worker, Wait(w) \/ SpuriousWakeup(w)
  PROVE  PoolToGo' = PoolToGo /\ ~Goes(w) /\ \A v \in Worker : Goes(v) => Goes(v)'
<1>1. worker \in [Worker -> {"lock", "waiting", "woken", "compute"}]  BY DEF IInv, TypeOK
<1>2. ~Goes(w)  BY DEF Wait, SpuriousWakeup, Goes
<1>3. /\ \A v \in Worker : v # w => worker'[v] = worker[v]
      /\ worker[w] # "compute" /\ worker'[w] # "compute"
      /\ front' = front /\ rear' = rear /\ taken' = taken
  BY <1>1 DEF Wait, SpuriousWakeup, pool
<1>4. Computing' = Computing /\ Untaken' = Untaken  BY <1>3 DEF Computing, Untaken
<1>5. ASSUME NEW v \in Worker, Goes(v) PROVE Goes(v)'
  <2>1. v # w  BY <1>2, <1>5
  <2> QED  BY <1>3, <1>5, <2>1 DEF Goes, Filled
<1> QED  BY <1>2, <1>4, <1>5 DEF PoolToGo

\* The pool computes the whole matrix in a bounded number of steps of workers that go,
\* each of which goes until one of them has made such a step.
THEOREM NobodyStopsThePool == Spec => [](PoolToGo \in Nat) /\ [][GoesTillDone]_vars
<1>1. PoolToGo \in Nat  BY PoolFinite DEF PoolToGo
<1>2. ASSUME IInv, Next, main = "sleeping"
      PROVE  /\ \/ PoolToGo' < PoolToGo
                \/ PoolToGo' = PoolToGo /\ \A w \in Worker : Goes(w) => Goes(w)'
             /\ \A w \in Worker : Goes(w) /\ worker_function(w) => PoolToGo' < PoolToGo
  <2>1. \A w \in Worker : Take(w) \/ Compute(w) => PoolToGo' < PoolToGo
    BY <1>1, <1>2, TakeNearer, ComputeNearer
  <2>2. \A w \in Worker : Goes(w) /\ worker_function(w) => PoolToGo' < PoolToGo
    <3>1. ASSUME NEW w \in Worker, Goes(w), worker_function(w) PROVE Take(w) \/ Compute(w)
      BY <1>2, <3>1 DEF worker_function, Goes, Wait, Crash
    <3> QED  BY <2>1, <3>1
  <2>3. CASE \E w \in Worker : Take(w) \/ Compute(w)  BY <2>1, <2>2, <2>3
  <2>4. CASE \E w \in Worker : Wait(w) \/ SpuriousWakeup(w)
    BY <1>2, <2>2, <2>4, OthersKeep
  <2>5. CASE Measure
    <3>1. PoolToGo' = PoolToGo  BY <2>5 DEF Measure, workers, PoolToGo, Untaken, Computing
    <3>2. \A w \in Worker : Goes(w) => Goes(w)'  BY <2>5 DEF Measure, workers, pool, Goes, Filled
    <3> QED  BY <2>2, <3>1, <3>2
  <2>6. ~add_task /\ ~Free /\ ~Exit /\ \A w \in Worker : ~Crash(w)
    BY <1>2 DEF add_task, Free, Exit, Crash
  <2> QED  BY <1>2, <2>3, <2>4, <2>5, <2>6 DEF Next
<1>3. IInv /\ [Next]_vars => [GoesTillDone]_vars  BY <1>2 DEF GoesTillDone
<1> QED  BY <1>1, <1>3, Inductive, PTL DEF Spec
=============================================================================
