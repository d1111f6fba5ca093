----------------------------- MODULE Channels -----------------------------
(***************************************************************************)
(* Multithreading/q2.c: TOTAL_SERVERS server threads and as many channels, *)
(* each channel a binary semaphore shared by two adjacent servers.  Server *)
(* s needs channels s and (s + 1) % TOTAL_SERVERS and waits for the lower- *)
(* numbered one first.                                                     *)
(***************************************************************************)
EXTENDS Integers, FiniteSets

CONSTANTS TOTAL_SERVERS, MAX_TASKS

\* With a single server left_channel = rght_channel and the thread would wait
\* for itself; q2.c has five.
ASSUME ServersAssumption == TOTAL_SERVERS \in Nat /\ TOTAL_SERVERS >= 2
ASSUME TasksAssumption   == MAX_TASKS \in Nat \ {0}

VARIABLES channels,    \* the value of each semaphore
          pc,          \* where each server thread is
          task_count   \* the loop counter of each server thread

vars == <<channels, pc, task_count>>

Server  == 0 .. TOTAL_SERVERS - 1
Channel == 0 .. TOTAL_SERVERS - 1

left_channel(s) == s
rght_channel(s) == (s + 1) % TOTAL_SERVERS

----------------------------------------------------------------------------
(* The order in which server s waits for its two channels.                 *)

\* Faulty variant: the naive order, left before right for every server.
OrderNaive(s) == [first |-> left_channel(s), second |-> rght_channel(s)]

Order(s) ==
  IF left_channel(s) < rght_channel(s)
    THEN [first |-> left_channel(s), second |-> rght_channel(s)]
    ELSE [first |-> rght_channel(s), second |-> left_channel(s)]

Init ==
  /\ channels = [c \in Channel |-> 1]
  /\ pc = [s \in Server |-> "first"]
  /\ task_count = [s \in Server |-> 0]

sem_wait(c) == channels[c] > 0 /\ channels' = [channels EXCEPT ![c] = @ - 1]
sem_post(c) == channels' = [channels EXCEPT ![c] = @ + 1]

Goto(s, label) == pc' = [pc EXCEPT ![s] = label]

WaitFirst(s) ==
  /\ pc[s] = "first"
  /\ sem_wait(Order(s).first)
  /\ Goto(s, "second")
  /\ UNCHANGED task_count

\* Faulty variant: the second channel is used without being waited for.
WaitSecondUnguarded(s) ==
  /\ pc[s] = "second"
  /\ Goto(s, "processing")
  /\ UNCHANGED <<channels, task_count>>

WaitSecond(s) ==
  /\ pc[s] = "second"
  /\ sem_wait(Order(s).second)
  /\ Goto(s, "processing")
  /\ UNCHANGED task_count

\* The one second of processing ends with the first sem_post.
PostLeft(s) ==
  /\ pc[s] = "processing"
  /\ sem_post(left_channel(s))
  /\ Goto(s, "posting")
  /\ UNCHANGED task_count

\* Faulty variant: the left channel is posted twice, the right one never.
PostRightTwice(s) ==
  /\ pc[s] = "posting"
  /\ sem_post(left_channel(s))
  /\ task_count' = [task_count EXCEPT ![s] = @ + 1]
  /\ Goto(s, IF task_count[s] + 1 < MAX_TASKS THEN "first" ELSE "done")

\* Faulty variant: the loop counter is not advanced.
PostRightForever(s) ==
  /\ pc[s] = "posting"
  /\ sem_post(rght_channel(s))
  /\ Goto(s, IF task_count[s] + 1 < MAX_TASKS THEN "first" ELSE "done")
  /\ UNCHANGED task_count

PostRight(s) ==
  /\ pc[s] = "posting"
  /\ sem_post(rght_channel(s))
  /\ task_count' = [task_count EXCEPT ![s] = @ + 1]
  /\ Goto(s, IF task_count[s] + 1 < MAX_TASKS THEN "first" ELSE "done")

server_func(s) == WaitFirst(s) \/ WaitSecond(s) \/ PostLeft(s) \/ PostRight(s)

\* main joins the threads and destroys the semaphores: nothing is left to do.
Terminated == (\A s \in Server : pc[s] = "done") /\ UNCHANGED vars

Next == (\E s \in Server : server_func(s)) \/ Terminated

\* Every runnable thread is eventually scheduled.  No more is assumed of
\* sem_wait: a semaphore that is posted again and again may pass a waiter by.
Fairness == \A s \in Server : WF_vars(server_func(s))

Spec     == Init /\ [][Next]_vars
FairSpec == Spec /\ Fairness

----------------------------------------------------------------------------
(* The types of the variables. *)
TypeOK ==
  /\ channels \in [Channel -> {0, 1}]
  /\ pc \in [Server -> {"first", "second", "processing", "posting", "done"}]
  /\ task_count \in [Server -> 0 .. MAX_TASKS]

\* The channels server s has waited for and not yet posted.
Holds(s) ==
  IF pc[s] = "second" THEN {Order(s).first}
  ELSE IF pc[s] = "processing" THEN {left_channel(s), rght_channel(s)}
  ELSE IF pc[s] = "posting" THEN {rght_channel(s)}
  ELSE {}

(* A channel is used by one server at a time (q2.c has the two neighbours  *)
(* of a channel share it through a binary semaphore).                      *)
MutualExclusion ==
  \A s, t \in Server : s # t => Holds(s) \cap Holds(t) = {}

(* No sem_post is lost or doubled: a semaphore is 0 exactly while one of   *)
(* the two servers that share the channel has it.                          *)
ChannelsAccounted ==
  \A c \in Channel : channels[c] = 0 <=> \E s \in Server : c \in Holds(s)

\* Server s has something to do and is not blocked in sem_wait.
CanRun(s) ==
  \/ pc[s] = "first" /\ channels[Order(s).first] > 0
  \/ pc[s] = "second" /\ channels[Order(s).second] > 0
  \/ pc[s] \in {"processing", "posting"}

(* The servers never all wait for one another: while one of them has not   *)
(* finished its tasks, one of them can take a step.                        *)
NoDeadlock ==
  (\E s \in Server : pc[s] # "done") => \E s \in Server : CanRun(s)

(* Every server gets through its MAX_TASKS tasks, whichever way its        *)
(* neighbours and it are scheduled: main's joins return.                   *)
Termination == <>(\A s \in Server : pc[s] = "done")

(* A server is processing from its second sem_wait to its first sem_post;  *)
(* seen so, q2.c implements the ring of servers of ServerRing.             *)
Busy   == {s \in Server : pc[s] = "processing"}
Served == [s \in Server |-> task_count[s] + IF pc[s] = "posting" THEN 1 ELSE 0]

Ring == INSTANCE ServerRing WITH busy <- Busy, served <- Served

ImplementsRing == Ring!Spec
============================================================================
