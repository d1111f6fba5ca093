------------------------------ MODULE ThreadPool ------------------------------
(***************************************************************************)
(* Multithreading/q4p2.c: a pool of workers takes tasks from a ring with   *)
(* as many slots as main adds tasks, one for each element of the product   *)
(* matrix.  The ring has no count: front = rear means empty.  main sleeps  *)
(* for a second, prints the time the pool took and frees the matrices      *)
(* under the workers' feet.                                                *)
(*                                                                         *)
(* A task is the number under which main adds it.                          *)
(***************************************************************************)
EXTENDS Integers

CONSTANTS queue_size,   \* max_tasks = m * p
          num_cores

ASSUME ThreadPoolAssumption ==
  /\ queue_size \in Nat \ {0}
  /\ num_cores \in Nat \ {0}

Task   == 1 .. queue_size
Worker == 1 .. num_cores
Slot   == 0 .. queue_size - 1
None   == 0            \* a slot of the ring nobody has written; no task in hand

VARIABLES task_queue, front, rear,
          worker,      \* where each worker is
          task,        \* the task each worker has taken
          main,        \* where main is
          added,       \* how many tasks main has added
          C,           \* the elements of C_threadpool that have been computed
          taken        \* history: how often each task (or None) was taken

pool    == <<task_queue, front, rear>>
workers == <<worker, task, taken>>
vars    == <<pool, workers, main, added, C>>

\* initialize_threadpool, and main up to its first add_task.
Init ==
  /\ task_queue = [s \in Slot |-> None] /\ front = 0 /\ rear = 0
  /\ worker = [w \in Worker |-> "lock"]
  /\ task = [w \in Worker |-> None]
  /\ main = "adding"
  /\ added = 0
  /\ C = {}
  /\ taken = [t \in Task \cup {None} |-> 0]

Running == main # "exited"

----------------------------------------------------------------------------
(* worker_function.  What a worker does from pthread_mutex_lock to         *)
(* pthread_cond_wait or pthread_mutex_unlock is one step.                  *)

\* Faulty variant: the loop around pthread_cond_wait is an if.
FilledOnce(w) == worker[w] = "lock" => front # rear

Filled(w) == front # rear

Take(w) ==
  /\ Running /\ worker[w] \in {"lock", "woken"}
  /\ Filled(w)
  /\ task' = [task EXCEPT ![w] = task_queue[front]]
  /\ taken' = [taken EXCEPT ![task_queue[front]] = @ + 1]
  /\ front' = (front + 1) % queue_size
  /\ worker' = [worker EXCEPT ![w] = "compute"]
  /\ UNCHANGED <<task_queue, rear, main, added, C>>

\* pthread_cond_wait gives the mutex back and waits.
Wait(w) ==
  /\ Running /\ worker[w] \in {"lock", "woken"}
  /\ ~Filled(w)
  /\ worker' = [worker EXCEPT ![w] = "waiting"]
  /\ UNCHANGED <<pool, task, taken, main, added, C>>

\* POSIX: pthread_cond_wait may return without a signal.
SpuriousWakeup(w) ==
  /\ Running /\ worker[w] = "waiting"
  /\ worker' = [worker EXCEPT ![w] = "woken"]
  /\ UNCHANGED <<pool, task, taken, main, added, C>>

\* The matrices are there: the element is computed and stored.  After main has
\* freed them this writes to memory that is no longer C's.
Compute(w) ==
  /\ Running /\ worker[w] = "compute"
  /\ C' = IF main = "freed" THEN C ELSE C \cup {task[w]}
  /\ task' = [task EXCEPT ![w] = None]
  /\ worker' = [worker EXCEPT ![w] = "lock"]
  /\ UNCHANGED <<pool, taken, main, added>>

\* Reading freed memory may also end the program.
Crash(w) ==
  /\ main = "freed" /\ worker[w] = "compute"
  /\ main' = "exited"
  /\ UNCHANGED <<pool, workers, added, C>>

worker_function(w) == Take(w) \/ Wait(w) \/ Compute(w) \/ Crash(w)

----------------------------------------------------------------------------
(* main                                                                    *)

\* Faulty variant: a ring with one free slot left counts as full, and the task
\* is dropped.
PutDropping(t) ==
  IF (rear + 1) % queue_size = front THEN UNCHANGED <<task_queue, rear>>
  ELSE task_queue' = [task_queue EXCEPT ![rear] = t] /\ rear' = (rear + 1) % queue_size

Put(t) == task_queue' = [task_queue EXCEPT ![rear] = t] /\ rear' = (rear + 1) % queue_size

\* Faulty variant: nobody is told of the new task.
SignalNot == UNCHANGED worker

\* pthread_cond_signal wakes one of the waiting workers.
Signal ==
  IF \E w \in Worker : worker[w] = "waiting"
    THEN \E w \in Worker : worker[w] = "waiting" /\ worker' = [worker EXCEPT ![w] = "woken"]
    ELSE UNCHANGED worker

add_task ==
  /\ main = "adding"
  /\ Put(added + 1)
  /\ Signal
  /\ added' = added + 1
  /\ main' = IF added + 1 = queue_size THEN "sleeping" ELSE "adding"
  /\ UNCHANGED <<front, task, taken, C>>

\* sleep(1) is over, at whatever moment, and the time is taken and printed.
Measure ==
  /\ main = "sleeping"
  /\ main' = "measured"
  /\ UNCHANGED <<pool, workers, added, C>>

Free ==
  /\ main = "measured"
  /\ main' = "freed"
  /\ UNCHANGED <<pool, workers, added, C>>

\* The workers end with the process.
Exit ==
  /\ main = "freed"
  /\ main' = "exited"
  /\ UNCHANGED <<pool, workers, added, C>>

----------------------------------------------------------------------------
Next ==
  \/ \E w \in Worker : Take(w)
  \/ \E w \in Worker : Wait(w)
  \/ \E w \in Worker : SpuriousWakeup(w)
  \/ \E w \in Worker : Compute(w)
  \/ \E w \in Worker : Crash(w)
  \/ add_task
  \/ Measure
  \/ Free
  \/ Exit

Spec == Init /\ [][Next]_vars

\* No thread is stopped for ever; how long a second is to the workers, nothing
\* says, so Measure is not fair.
FairSpec == Spec /\ WF_vars(add_task) /\ \A w \in Worker : WF_vars(worker_function(w))

----------------------------------------------------------------------------
(* Properties                                                              *)

TypeOK ==
  /\ task_queue \in [Slot -> Task \cup {None}]
  /\ front \in Slot
  /\ rear \in Slot
  /\ worker \in [Worker -> {"lock", "waiting", "woken", "compute"}]
  /\ task \in [Worker -> Task \cup {None}]
  /\ main \in {"adding", "sleeping", "measured", "freed", "exited"}
  /\ added \in 0 .. queue_size
  /\ C \subseteq Task
  /\ taken \in [Task \cup {None} -> Nat]

\* Whatever the order in which workers sleep, are woken without cause and race
\* for the lock: no task is taken twice, tasks are taken in the order of
\* add_task, and no worker gets hold of a slot of the ring nobody has written.
TakenInOrder ==
  /\ taken[None] = 0
  /\ \A t \in Task : taken[t] <= 1
  /\ \A t, u \in Task : t < u /\ taken[u] = 1 => taken[t] = 1

\* A worker computes only a task of its own: two workers never hold the same
\* task, whose memory the first of them frees.
OneOwner ==
  \A v, w \in Worker : worker[v] = "compute" /\ worker[w] = "compute" /\ v # w => task[v] # task[w]

\* A ring that looks empty once all tasks are added has lost either none of
\* them or, full to the last slot, every one.
AllOrNothing ==
  added = queue_size /\ front = rear =>
    \/ \A t \in Task : taken[t] = 1
    \/ \A t \in Task : taken[t] = 0

\* No wakeup is lost: while the ring holds a task, not every worker is asleep.
NoLostWakeup == front # rear => \E w \in Worker : worker[w] # "waiting"

\* If the workers got hold of one task before the last was added, the pool
\* computes the whole matrix, provided main's second is long enough.
OneThenAll ==
  (main = "sleeping" /\ \E t \in Task : taken[t] = 1) ~> (C = Task \/ main # "sleeping")

\* The time main prints is that of the pool at work: when it is printed and no
\* worker has anything left to do, the whole matrix has been computed.
PoolDrained ==
  main = "measured" /\ front = rear /\ (\A w \in Worker : worker[w] # "compute") => C = Task
=============================================================================
