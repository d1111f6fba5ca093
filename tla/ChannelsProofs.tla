-------------------------- MODULE ChannelsProofs --------------------------
(***************************************************************************)
(* Proofs about Channels (Multithreading/q2.c) for every number of servers *)
(* and of tasks.  The inductive invariant IInv ties each semaphore to the  *)
(* program counters of the servers that share it.                          *)
(***************************************************************************)
EXTENDS Channels, WellFoundedInduction, FiniteSetTheorems, TLAPS

\* A server that is not done still has a task to do.
LoopInv == \A s \in Server : pc[s] # "done" => task_count[s] < MAX_TASKS

IInv == TypeOK /\ ChannelsAccounted /\ MutualExclusion /\ LoopInv

----------------------------------------------------------------------------
(* The two channels of a server are two different channels of the ring.    *)
LEMMA OrderFacts ==
  ASSUME NEW s \in Server
  PROVE  /\ rght_channel(s) = IF s = TOTAL_SERVERS - 1 THEN 0 ELSE s + 1
         /\ left_channel(s) \in Channel
         /\ rght_channel(s) \in Channel
         /\ left_channel(s) # rght_channel(s)
         /\ {Order(s).first, Order(s).second} = {left_channel(s), rght_channel(s)}
         /\ Order(s).first < Order(s).second
<1>1. rght_channel(s) = IF s = TOTAL_SERVERS - 1 THEN 0 ELSE s + 1
  BY ServersAssumption DEF rght_channel, Server
<1>2. /\ left_channel(s) \in Channel
      /\ rght_channel(s) \in Channel
      /\ left_channel(s) # rght_channel(s)
  BY <1>1, ServersAssumption DEF left_channel, Server, Channel
<1>3. /\ {Order(s).first, Order(s).second} = {left_channel(s), rght_channel(s)}
      /\ Order(s).first < Order(s).second
  BY <1>2 DEF Order, Channel
<1> QED
  BY <1>1, <1>2, <1>3

(* A server holds channels of the ring only.                               *)
LEMMA HoldsChannels ==
  ASSUME NEW s \in Server
  PROVE  Holds(s) \subseteq Channel
BY OrderFacts DEF Holds

----------------------------------------------------------------------------
(* When server s takes channel c with sem_wait, its set of channels grows  *)
(* by c and no other set changes, exclusion and accounting are kept.       *)
LEMMA TakeKeepsExclusion ==
  ASSUME IInv, NEW s \in Server, NEW c \in Channel, sem_wait(c),
         Holds(s)' = Holds(s) \cup {c},
         \A t \in Server : t # s => Holds(t)' = Holds(t)
  PROVE  MutualExclusion' /\ ChannelsAccounted' /\ channels' \in [Channel -> {0, 1}]
<1>1. channels[c] = 1 /\ \A t \in Server : c \notin Holds(t)
  BY DEF IInv, TypeOK, ChannelsAccounted, sem_wait
<1>2. channels' = [channels EXCEPT ![c] = 0]
  BY <1>1 DEF sem_wait
<1>3. MutualExclusion'
  BY <1>1 DEF IInv, MutualExclusion
<1>4. ChannelsAccounted' /\ channels' \in [Channel -> {0, 1}]
  BY <1>1, <1>2 DEF IInv, TypeOK, ChannelsAccounted
<1> QED
  BY <1>3, <1>4

(* When server s posts channel c, its set of channels shrinks by c.        *)
LEMMA GiveKeepsExclusion ==
  ASSUME IInv, NEW s \in Server, NEW c \in Channel, c \in Holds(s), sem_post(c),
         Holds(s)' = Holds(s) \ {c},
         \A t \in Server : t # s => Holds(t)' = Holds(t)
  PROVE  MutualExclusion' /\ ChannelsAccounted' /\ channels' \in [Channel -> {0, 1}]
<1>1. channels[c] = 0 /\ \A t \in Server : t # s => c \notin Holds(t)
  BY DEF IInv, TypeOK, ChannelsAccounted, MutualExclusion
<1>2. channels' = [channels EXCEPT ![c] = 1]
  BY <1>1 DEF sem_post
<1>3. MutualExclusion'
  BY DEF IInv, MutualExclusion
<1>4. ChannelsAccounted' /\ channels' \in [Channel -> {0, 1}]
  BY <1>1, <1>2 DEF IInv, TypeOK, ChannelsAccounted
<1> QED
  BY <1>3, <1>4

----------------------------------------------------------------------------
LEMMA InitIInv == Init => IInv
<1> SUFFICES ASSUME Init PROVE IInv
  OBVIOUS
<1>1. TypeOK /\ LoopInv
  BY TasksAssumption DEF Init, TypeOK, LoopInv
<1>2. \A s \in Server : Holds(s) = {}
  BY DEF Init, Holds
<1>3. ChannelsAccounted /\ MutualExclusion
  BY <1>2 DEF Init, ChannelsAccounted, MutualExclusion
<1> QED
  BY <1>1, <1>3 DEF IInv

LEMMA StepIInv == IInv /\ [Next]_vars => IInv'
<1> SUFFICES ASSUME IInv, [Next]_vars PROVE IInv'
  OBVIOUS
<1> USE DEF Goto
<1>1. ASSUME NEW s \in Server, WaitFirst(s) PROVE IInv'
  <2>1. Order(s).first \in Channel
    BY OrderFacts
  <2>2. Holds(s)' = Holds(s) \cup {Order(s).first}
    BY <1>1 DEF WaitFirst, Holds, IInv, TypeOK
  <2>3. \A t \in Server : t # s => Holds(t)' = Holds(t)
    BY <1>1 DEF WaitFirst, Holds, IInv, TypeOK
  <2>4. MutualExclusion' /\ ChannelsAccounted' /\ channels' \in [Channel -> {0, 1}]
    BY <1>1, <2>1, <2>2, <2>3, TakeKeepsExclusion DEF WaitFirst
  <2> QED
    BY <1>1, <2>4 DEF WaitFirst, IInv, TypeOK, LoopInv
<1>2. ASSUME NEW s \in Server, WaitSecond(s) PROVE IInv'
  <2>1. Order(s).second \in Channel
    BY OrderFacts
  <2>2. Holds(s)' = Holds(s) \cup {Order(s).second}
    BY <1>2, OrderFacts DEF WaitSecond, Holds, IInv, TypeOK
  <2>3. \A t \in Server : t # s => Holds(t)' = Holds(t)
    BY <1>2 DEF WaitSecond, Holds, IInv, TypeOK
  <2>4. MutualExclusion' /\ ChannelsAccounted' /\ channels' \in [Channel -> {0, 1}]
    BY <1>2, <2>1, <2>2, <2>3, TakeKeepsExclusion DEF WaitSecond
  <2> QED
    BY <1>2, <2>4 DEF WaitSecond, IInv, TypeOK, LoopInv
<1>3. ASSUME NEW s \in Server, PostLeft(s) PROVE IInv'
  <2>1. left_channel(s) \in Channel /\ left_channel(s) \in Holds(s)
    BY <1>3, OrderFacts DEF PostLeft, Holds
  <2>2. Holds(s)' = Holds(s) \ {left_channel(s)}
    BY <1>3, OrderFacts DEF PostLeft, Holds, IInv, TypeOK
  <2>3. \A t \in Server : t # s => Holds(t)' = Holds(t)
    BY <1>3 DEF PostLeft, Holds, IInv, TypeOK
  <2>4. MutualExclusion' /\ ChannelsAccounted' /\ channels' \in [Channel -> {0, 1}]
    BY <1>3, <2>1, <2>2, <2>3, GiveKeepsExclusion DEF PostLeft
  <2> QED
    BY <1>3, <2>4 DEF PostLeft, IInv, TypeOK, LoopInv
<1>4. ASSUME NEW s \in Server, PostRight(s) PROVE IInv'
  <2>1. rght_channel(s) \in Channel /\ rght_channel(s) \in Holds(s)
    BY <1>4, OrderFacts DEF PostRight, Holds
  <2>2. Holds(s)' = Holds(s) \ {rght_channel(s)}
    BY <1>4, OrderFacts DEF PostRight, Holds, IInv, TypeOK
  <2>3. \A t \in Server : t # s => Holds(t)' = Holds(t)
    BY <1>4 DEF PostRight, Holds, IInv, TypeOK
  <2>4. MutualExclusion' /\ ChannelsAccounted' /\ channels' \in [Channel -> {0, 1}]
    BY <1>4, <2>1, <2>2, <2>3, GiveKeepsExclusion DEF PostRight
  <2>5. task_count[s] \in 0 .. MAX_TASKS - 1
    BY <1>4, TasksAssumption DEF PostRight, IInv, TypeOK, LoopInv
  <2> QED
    BY <1>4, <2>4, <2>5, TasksAssumption DEF PostRight, IInv, TypeOK, LoopInv
<1>5. CASE UNCHANGED vars
  BY <1>5 DEF vars, IInv, TypeOK, LoopInv, ChannelsAccounted, MutualExclusion, Holds
<1> QED
  BY <1>1, <1>2, <1>3, <1>4, <1>5 DEF Next, server_func, Terminated

LEMMA Invariance == Spec => []IInv
BY InitIInv, StepIInv, PTL DEF Spec

(* Type correctness, for any number of servers and tasks.                  *)
THEOREM TypeCorrect == Spec => []TypeOK
BY Invariance, PTL DEF IInv

(* Two servers never use the same channel at the same time.                *)
THEOREM Exclusion == Spec => []MutualExclusion
BY Invariance, PTL DEF IInv

(* Every semaphore is 0 exactly while one of its two servers has it.       *)
THEOREM Accounting == Spec => []ChannelsAccounted
BY Invariance, PTL DEF IInv

----------------------------------------------------------------------------
(* Any nonempty set of channels has a largest one.                         *)
LEMMA LargestChannel ==
  ASSUME NEW T \in SUBSET Channel, T # {}
  PROVE  \E m \in T : \A c \in T : c <= m
<1> DEFINE Mirror == {n \in Nat : \E c \in T : n = TOTAL_SERVERS - 1 - c}
<1>1. Mirror \subseteq Nat /\ Mirror # {}
  <2>1. PICK c \in T : TRUE
    OBVIOUS
  <2>2. TOTAL_SERVERS - 1 - c \in Nat
    BY ServersAssumption DEF Channel
  <2>3. TOTAL_SERVERS - 1 - c \in Mirror
    BY <2>2
  <2> QED
    BY <2>3
<1> HIDE DEF Mirror
<1>2. OpToRel(<, Nat) = {ss \in Nat \X Nat : ss[1] < ss[2]}
  BY Zenon DEF OpToRel
<1>3. PICK n \in Mirror : \A k \in Mirror : n <= k
  <2>1. PICK n \in Mirror : \A k \in Mirror : ~ (<<k, n>> \in OpToRel(<, Nat))
    BY <1>1, NatLessThanWellFounded, WFMin, Zenon
  <2>2. \A k \in Mirror : ~ (<<k, n>> \in {ss \in Nat \X Nat : ss[1] < ss[2]})
    BY <1>2, <2>1, Zenon
  <2>3. ASSUME NEW k \in Mirror PROVE n <= k
    <3>1. k \in Nat /\ n \in Nat
      BY <1>1
    <3>2. <<k, n>> \in Nat \X Nat /\ <<k, n>>[1] = k /\ <<k, n>>[2] = n
      BY <3>1
    <3>3. ~ (<<k, n>>[1] < <<k, n>>[2])
      BY <2>2, <3>2, Zenon
    <3> QED
      BY <3>1, <3>2, <3>3
  <2> QED
    BY <2>3
<1> USE DEF Mirror
<1>4. PICK m \in T : n = TOTAL_SERVERS - 1 - m
  OBVIOUS
<1>5. ASSUME NEW c \in T PROVE c <= m
  <2>1. TOTAL_SERVERS - 1 - c \in Mirror
    BY ServersAssumption DEF Channel
  <2> QED
    BY <1>3, <1>4, <2>1, ServersAssumption DEF Channel
<1> QED
  BY <1>5

(* The servers never all wait for one another.  If none could run, each    *)
(* would wait for a channel that another holds while waiting in turn; of   *)
(* the channels waited for second, the largest would have a holder that    *)
(* waits for a larger one.                                                 *)
THEOREM DeadlockFreedom == Spec => []NoDeadlock
<1>1. IInv => NoDeadlock
  <2> SUFFICES ASSUME IInv, NEW s0 \in Server, pc[s0] # "done",
                      \A s \in Server : ~ CanRun(s)
               PROVE  FALSE
    BY DEF NoDeadlock
  <2>1. \A s \in Server : pc[s] \in {"first", "second", "done"}
    BY DEF IInv, TypeOK, CanRun
  <2>2. ASSUME NEW c \in Channel, channels[c] = 0
        PROVE  \E t \in Server : pc[t] = "second" /\ Order(t).first = c
    BY <2>1, <2>2 DEF IInv, ChannelsAccounted, Holds
  <2>3. \E s \in Server : pc[s] = "second"
    <3>1. CASE pc[s0] = "first"
      <4>1. Order(s0).first \in Channel /\ channels[Order(s0).first] = 0
        BY <3>1, OrderFacts DEF IInv, TypeOK, CanRun
      <4> QED
        BY <2>2, <4>1
    <3> QED
      BY <2>1, <3>1
  <2> DEFINE Awaited == {c \in Channel : \E s \in Server :
                           pc[s] = "second" /\ c = Order(s).second}
  <2>4. Awaited # {}
    BY <2>3, OrderFacts
  <2>5. PICK m \in Awaited : \A c \in Awaited : c <= m
    BY <2>4, LargestChannel
  <2>6. channels[m] = 0
    BY <2>5 DEF IInv, TypeOK, CanRun
  <2>7. PICK t \in Server : pc[t] = "second" /\ Order(t).first = m
    BY <2>2, <2>6
  <2>8. Order(t).second \in Awaited /\ Order(t).second \in Int /\ m < Order(t).second
    BY <2>7, OrderFacts DEF Channel
  <2> QED
    BY <2>5, <2>8 DEF Channel
<1> QED
  BY <1>1, Invariance, PTL

----------------------------------------------------------------------------
(* Every step of q2.c is a step of the ring of servers or leaves it as it  *)
(* is: the second sem_wait starts a task, the first sem_post finishes it.  *)
THEOREM RingRefinement == Spec => ImplementsRing
<1> USE DEF Ring!Server, Server
<1>1. Init => Ring!Init
  BY DEF Init, Ring!Init, Busy, Served
<1>2. IInv /\ IInv' /\ [Next]_vars => [Ring!Next]_(Ring!vars)
  <2> SUFFICES ASSUME IInv, IInv', [Next]_vars PROVE [Ring!Next]_(Ring!vars)
    OBVIOUS
  <2> USE DEF Goto, Busy, Served, IInv, TypeOK, Ring!vars
  <2>1. ASSUME NEW s \in Server, WaitFirst(s) PROVE UNCHANGED Ring!vars
    BY <2>1 DEF WaitFirst
  <2>2. ASSUME NEW s \in Server, WaitSecond(s) PROVE Ring!Start(s)
    <3>1. \A t \in Busy : ~ Ring!Adjacent(s, t)
      <4> SUFFICES ASSUME NEW t \in Server, pc[t] = "processing", s # t
                   PROVE  t # rght_channel(s) /\ s # rght_channel(t)
        BY <2>2 DEF Ring!Adjacent, rght_channel, WaitSecond
      <4>1. pc'[s] = "processing" /\ pc'[t] = "processing"
        BY <2>2, pc[t] = "processing", s # t DEF WaitSecond
      <4>2. Holds(s)' \cap Holds(t)' = {}
        BY DEF MutualExclusion
      <4> QED
        BY <4>1, <4>2 DEF Holds, left_channel
    <3>2. /\ Busy' = Busy \cup {s} /\ s \notin Busy
          /\ Served' = Served
      BY <2>2 DEF WaitSecond
    <3>3. Served[s] < MAX_TASKS
      BY <2>2, TasksAssumption DEF WaitSecond, LoopInv
    <3> QED
      BY <3>1, <3>2, <3>3 DEF Ring!Start
  <2>3. ASSUME NEW s \in Server, PostLeft(s) PROVE Ring!Finish(s)
    <3>1. Busy' = Busy \ {s} /\ s \in Busy
      BY <2>3 DEF PostLeft
    <3>2. Served' = [Served EXCEPT ![s] = @ + 1]
      <4>1. /\ Served'[s] = Served[s] + 1
            /\ \A t \in Server : t # s => Served'[t] = Served[t]
        BY <2>3, TasksAssumption DEF PostLeft
      <4> QED
        BY <4>1
    <3> QED
      BY <3>1, <3>2 DEF Ring!Finish
  <2>4. ASSUME NEW s \in Server, PostRight(s) PROVE UNCHANGED Ring!vars
    <3>1. pc'[s] \in {"first", "done"} /\ \A t \in Server : t # s => pc'[t] = pc[t]
      BY <2>4 DEF PostRight
    <3>2. Busy' = Busy
      BY <2>4, <3>1 DEF PostRight
    <3>3. Served' = Served
      BY <2>4, <3>1 DEF PostRight
    <3> QED
      BY <3>2, <3>3
  <2>5. CASE UNCHANGED vars
    BY <2>5 DEF vars
  <2> QED
    BY <2>1, <2>2, <2>3, <2>4, <2>5 DEF Next, server_func, Terminated, Ring!Next
<1> QED
  BY <1>1, <1>2, Invariance, PTL DEF Spec, ImplementsRing, Ring!Spec

----------------------------------------------------------------------------
(* Termination: the variant                                              *)

\* The semaphore operations that server s has yet to get through.
Passed(s) == IF pc[s] = "second" THEN 1 ELSE IF pc[s] = "processing" THEN 2
             ELSE IF pc[s] = "posting" THEN 3 ELSE 0
ToPass    == [s \in Server |-> IF pc[s] = "done" THEN 0
                               ELSE 4 * (MAX_TASKS - task_count[s]) - Passed(s)]

Cells(left) == {c \in Server \X (1 .. 4 * MAX_TASKS) : c[2] <= left[c[1]]}

\* All of them, of all servers.
StepsToGo == Cardinality(Cells(ToPass))

\* There are finitely many of them.
LEMMA CellsFinite ==
  ASSUME NEW left PROVE IsFiniteSet(Cells(left)) /\ Cardinality(Cells(left)) \in Nat
<1>1. IsFiniteSet(Server) /\ IsFiniteSet(1 .. 4 * MAX_TASKS)
  BY FS_Interval, ServersAssumption, TasksAssumption DEF Server
<1>2. IsFiniteSet(Server \X (1 .. 4 * MAX_TASKS))  BY <1>1, FS_Product
<1>3. Cells(left) \in SUBSET (Server \X (1 .. 4 * MAX_TASKS))  BY DEF Cells
<1>4. IsFiniteSet(Cells(left))  BY <1>2, <1>3, FS_Subset
<1> QED  BY <1>4, FS_CardinalityType

\* A server never has more than four for each of its tasks.
LEMMA ToPassBounds ==
  ASSUME IInv
  PROVE  ToPass \in [Server -> 0 .. 4 * MAX_TASKS]
<1> SUFFICES ASSUME NEW s \in Server, pc[s] # "done"
             PROVE  4 * (MAX_TASKS - task_count[s]) - Passed(s) \in 0 .. 4 * MAX_TASKS
  BY TasksAssumption DEF ToPass
<1>1. PICK n \in Nat : n = task_count[s] /\ n < MAX_TASKS  BY DEF IInv, TypeOK, LoopInv
<1>2. Passed(s) \in 0 .. 3  BY DEF Passed
<1> QED  BY <1>1, <1>2, TasksAssumption

\* If one server has one step less, there is one step less in all.
LEMMA OneLess ==
  ASSUME NEW f \in [Server -> 0 .. 4 * MAX_TASKS], NEW s \in Server, f[s] > 0,
         NEW g, g = [f EXCEPT ![s] = f[s] - 1]
  PROVE  Cardinality(Cells(g)) = Cardinality(Cells(f)) - 1
<1>1. PICK n \in 1 .. 4 * MAX_TASKS : n = f[s]  BY TasksAssumption
<1>2. <<s, n>> \in Cells(f)  BY <1>1 DEF Cells
<1>3. Cells(g) = Cells(f) \ {<<s, n>>}
  <2>1. ASSUME NEW t \in Server, NEW k \in 1 .. 4 * MAX_TASKS
        PROVE  <<t, k>> \in Cells(g) <=> <<t, k>> \in Cells(f) \ {<<s, n>>}
    <3>1. CASE t = s
      <4>1. g[t] = n - 1  BY <1>1, <3>1
      <4>2. k <= n - 1 <=> k <= n /\ k # n  BY <1>1
      <4> QED  BY <1>1, <3>1, <4>1, <4>2 DEF Cells
    <3>2. CASE t # s  BY <3>2 DEF Cells
    <3> QED  BY <3>1, <3>2
  <2> QED  BY <2>1 DEF Cells
<1> QED  BY <1>2, <1>3, CellsFinite, FS_RemoveElement

\* What a server does is one of the steps it has to go.
LEMMA ServerSteps ==
  ASSUME IInv, IInv', NEW s \in Server, server_func(s)
  PROVE  ToPass[s] > 0 /\ ToPass' = [ToPass EXCEPT ![s] = ToPass[s] - 1]
<1>1. PICK n \in Nat : n = task_count[s] /\ n < MAX_TASKS
  BY DEF IInv, TypeOK, LoopInv, server_func, WaitFirst, WaitSecond, PostLeft, PostRight
<1>2. \A t \in Server \ {s} : ToPass'[t] = ToPass[t]
  BY DEF server_func, WaitFirst, WaitSecond, PostLeft, PostRight, Goto, ToPass, Passed, IInv, TypeOK
<1>3. ToPass[s] > 0 /\ ToPass'[s] = ToPass[s] - 1
  <2>1. CASE WaitFirst(s)
    <3>1. pc[s] = "first" /\ pc'[s] = "second" /\ task_count'[s] = n
      BY <1>1, <2>1 DEF WaitFirst, Goto, IInv, TypeOK
    <3> QED  BY <1>1, <3>1, TasksAssumption DEF ToPass, Passed
  <2>2. CASE WaitSecond(s)
    <3>1. pc[s] = "second" /\ pc'[s] = "processing" /\ task_count'[s] = n
      BY <1>1, <2>2 DEF WaitSecond, Goto, IInv, TypeOK
    <3> QED  BY <1>1, <3>1, TasksAssumption DEF ToPass, Passed
  <2>3. CASE PostLeft(s)
    <3>1. pc[s] = "processing" /\ pc'[s] = "posting" /\ task_count'[s] = n
      BY <1>1, <2>3 DEF PostLeft, Goto, IInv, TypeOK
    <3> QED  BY <1>1, <3>1, TasksAssumption DEF ToPass, Passed
  <2>4. CASE PostRight(s)
    <3>1. pc[s] = "posting" /\ task_count'[s] = n + 1
          /\ pc'[s] = IF n + 1 < MAX_TASKS THEN "first" ELSE "done"
      BY <1>1, <2>4 DEF PostRight, Goto, IInv, TypeOK
    <3>2. ToPass[s] = 4 * (MAX_TASKS - n) - 3  BY <1>1, <3>1 DEF ToPass, Passed
    <3>3. CASE n + 1 < MAX_TASKS
      <4>1. ToPass'[s] = 4 * (MAX_TASKS - (n + 1)) - 0  BY <3>1, <3>3 DEF ToPass, Passed
      <4> QED  BY <1>1, <3>2, <4>1, TasksAssumption
    <3>4. CASE ~(n + 1 < MAX_TASKS)
      <4>1. ToPass'[s] = 0 /\ MAX_TASKS = n + 1
        BY <1>1, <3>1, <3>4, TasksAssumption DEF ToPass
      <4> QED  BY <3>2, <4>1
    <3> QED  BY <3>3, <3>4
  <2> QED  BY <2>1, <2>2, <2>3, <2>4 DEF server_func
<1> QED  BY <1>2, <1>3 DEF ToPass

\* No step is wasted: each of a server brings the end nearer by one, and there
\* are none to go when all have finished.  With NoDeadlock, the servers finish after
\* four semaphore operations for each task of each.
THEOREM NoStepWasted == Spec => [](StepsToGo \in Nat) /\ [][StepsToGo' = StepsToGo - 1]_vars
<1>1. ASSUME IInv, IInv', [Next]_vars PROVE [StepsToGo' = StepsToGo - 1]_vars
  <2>1. ASSUME NEW s \in Server, server_func(s) PROVE StepsToGo' = StepsToGo - 1
    <3> DEFINE f == ToPass
               g == ToPass'
    <3>1. f \in [Server -> 0 .. 4 * MAX_TASKS]  BY <1>1, ToPassBounds
    <3>2. f[s] > 0 /\ g = [f EXCEPT ![s] = f[s] - 1]  BY <1>1, <2>1, ServerSteps
    <3>3. StepsToGo = Cardinality(Cells(f)) /\ StepsToGo' = Cardinality(Cells(g))
      BY DEF StepsToGo, Cells, Server
    <3> HIDE DEF f, g
    <3> QED  BY <3>1, <3>2, <3>3, OneLess
  <2> QED  BY <1>1, <2>1 DEF Next, Terminated
<1>2. StepsToGo \in Nat  BY CellsFinite DEF StepsToGo
<1> QED  BY <1>1, <1>2, Invariance, PTL DEF Spec
============================================================================
