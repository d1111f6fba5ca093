------------------------------ MODULE LockOrder ------------------------------
(***************************************************************************)
(* Multithreading/q1.c: threads that three times each try to lock A and,   *)
(* holding it, B, and never wait for a lock; main creates them, joins them *)
(* in order and destroys the locks.                                        *)
(***************************************************************************)
EXTENDS Integers

CONSTANTS num_threads,   \* 3 in main
          rounds         \* 3, the initial count

ASSUME LockOrderAssumption ==
  /\ num_threads \in Nat \ {0}
  /\ rounds \in Nat

Thread == 1 .. num_threads
Free   == 0

VARIABLES lockA, lockB,   \* the thread that holds the lock, or Free
          at,             \* where each thread is
          count,
          main,           \* the step main is at, and its loop variable
          acquired        \* history: the times each thread has locked A and then B

locks   == <<lockA, lockB>>
threads == <<at, count, acquired>>
vars    == <<locks, threads, main>>

Init ==
  /\ lockA = Free /\ lockB = Free
  /\ at = [t \in Thread |-> "none"]
  /\ count = [t \in Thread |-> rounds]
  /\ main = [at |-> "create", next |-> 1]
  /\ acquired = [t \in Thread |-> 0]

\* while (count > 0), before the first round and after each.
Loop(n) == IF n > 0 THEN "tryA" ELSE "done"

----------------------------------------------------------------------------
(* thread_function                                                         *)

\* Faulty variant: the thread waits for lock A.
LockA(t) ==
  /\ at[t] = "tryA"
  /\ lockA = Free
  /\ lockA' = t
  /\ at' = [at EXCEPT ![t] = "tryB"]
  /\ UNCHANGED <<lockB, count, acquired, main>>

TryA(t) ==
  /\ at[t] = "tryA"
  /\ IF lockA = Free
       THEN /\ lockA' = t
            /\ at' = [at EXCEPT ![t] = "tryB"]
       ELSE /\ at' = [at EXCEPT ![t] = "sleep"]
            /\ UNCHANGED lockA
  /\ UNCHANGED <<lockB, count, acquired, main>>

\* Faulty variant: the second trylock is of the first lock again.
TrySame(t) ==
  /\ at[t] = "tryB"
  /\ at' = [at EXCEPT ![t] = "unlockA"]
  /\ UNCHANGED <<locks, count, acquired, main>>

TryB(t) ==
  /\ at[t] = "tryB"
  /\ IF lockB = Free
       THEN /\ lockB' = t
            /\ at' = [at EXCEPT ![t] = "unlockB"]
            /\ acquired' = [acquired EXCEPT ![t] = @ + 1]
       ELSE /\ at' = [at EXCEPT ![t] = "unlockA"]
            /\ UNCHANGED <<lockB, acquired>>
  /\ UNCHANGED <<lockA, count, main>>

\* Faulty variant: B is left locked.
KeepB(t) ==
  /\ at[t] = "unlockB"
  /\ at' = [at EXCEPT ![t] = "unlockA"]
  /\ UNCHANGED <<locks, count, acquired, main>>

UnlockB(t) ==
  /\ at[t] = "unlockB"
  /\ lockB' = Free
  /\ at' = [at EXCEPT ![t] = "unlockA"]
  /\ UNCHANGED <<lockA, count, acquired, main>>

UnlockA(t) ==
  /\ at[t] = "unlockA"
  /\ lockA' = Free
  /\ at' = [at EXCEPT ![t] = "sleep"]
  /\ UNCHANGED <<lockB, count, acquired, main>>

\* usleep is over: count-- and the condition of the loop.
Again(t) ==
  /\ at[t] = "sleep"
  /\ count' = [count EXCEPT ![t] = @ - 1]
  /\ at' = [at EXCEPT ![t] = Loop(count[t] - 1)]
  /\ UNCHANGED <<locks, acquired, main>>

thread_function(t) == TryA(t) \/ TryB(t) \/ UnlockB(t) \/ UnlockA(t) \/ Again(t)

----------------------------------------------------------------------------
(* main                                                                    *)

Create ==
  /\ main.at = "create"
  /\ at' = [at EXCEPT ![main.next] = Loop(count[main.next])]
  /\ main' = IF main.next < num_threads THEN [main EXCEPT !.next = @ + 1]
                                        ELSE [at |-> "join", next |-> 1]
  /\ UNCHANGED <<locks, count, acquired>>

\* Faulty variant: only the first thread is waited for.
JoinFirst ==
  /\ main.at = "join"
  /\ at[main.next] = "done"
  /\ main' = [at |-> "destroy", next |-> 1]
  /\ UNCHANGED <<locks, threads>>

Join ==
  /\ main.at = "join"
  /\ at[main.next] = "done"
  /\ main' = IF main.next < num_threads THEN [main EXCEPT !.next = @ + 1]
                                        ELSE [at |-> "destroy", next |-> 1]
  /\ UNCHANGED <<locks, threads>>

\* pthread_mutex_destroy, twice, and the exit.
Destroy ==
  /\ main.at = "destroy"
  /\ main' = [at |-> "exited", next |-> 1]
  /\ UNCHANGED <<locks, threads>>

----------------------------------------------------------------------------
Next ==
  \/ \E t \in Thread : TryA(t)
  \/ \E t \in Thread : TryB(t)
  \/ \E t \in Thread : UnlockB(t)
  \/ \E t \in Thread : UnlockA(t)
  \/ \E t \in Thread : Again(t)
  \/ Create
  \/ Join
  \/ Destroy

Spec == Init /\ [][Next]_vars

\* The scheduler need only be fair to main and to thread 1: all others may stop
\* anywhere, locks in hand.
UnfairSpec == Spec /\ WF_vars(Create) /\ WF_vars(thread_function(1))

----------------------------------------------------------------------------
(* Properties                                                              *)

TypeOK ==
  /\ lockA \in Thread \cup {Free}
  /\ lockB \in Thread \cup {Free}
  /\ at \in [Thread -> {"none", "tryA", "tryB", "unlockB", "unlockA", "sleep", "done"}]
  /\ count \in [Thread -> 0 .. rounds]
  /\ main \in [at : {"create", "join", "destroy", "exited"}, next : Thread]
  /\ acquired \in [Thread -> 0 .. rounds]

\* A lock is held by exactly the thread whose code is between its trylock and
\* its unlock: no unlock is of a lock another thread holds.
HeldWhereUsed ==
  \A t \in Thread : /\ lockA = t <=> at[t] \in {"tryB", "unlockB", "unlockA"}
                    /\ lockB = t <=> at[t] = "unlockB"

\* B is only ever taken under A, so the second trylock cannot fail and the
\* branch that prints "waiting for Lock B" is dead.
BFreeUnderA == \A t \in Thread : at[t] = "tryB" => lockB = Free

\* The locks are free when they are destroyed: destroying a locked mutex is
\* undefined.
DestroyedUnlocked == main.at \in {"destroy", "exited"} => lockA = Free /\ lockB = Free

\* While A is taken by one thread the others lose their rounds for good, but
\* not all rounds are lost: with every round used up, somebody had both locks.
SomebodyServed ==
  (\A t \in Thread : at[t] = "done") /\ rounds > 0 => \E t \in Thread : acquired[t] > 0

\* Wait-freedom: a thread ends its rounds whatever becomes of the others, be it
\* that one of them stops for ever with the locks in hand.
WaitFree == <>(at[1] = "done")
=============================================================================
