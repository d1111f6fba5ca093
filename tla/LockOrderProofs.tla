---------------------------- MODULE LockOrderProofs ----------------------------
(***************************************************************************)
(* Proofs about LockOrder for every number of threads and rounds.          *)
(***************************************************************************)
EXTENDS LockOrder, TLAPS

(***************************************************************************)
(* main joins threads in order: those before main.next are done.  A thread *)
(* that is not yet created has all its rounds; and before the first round  *)
(* ends, one thread has tried both locks or is about to try the second.    *)
(***************************************************************************)
JoinedDone ==
  /\ main.at = "join" => \A t \in Thread : t < main.next => at[t] = "done"
  /\ main.at \in {"destroy", "exited"} => \A t \in Thread : at[t] = "done"

CreateInOrder ==
  main.at = "create" => \A t \in Thread : main.next <= t => at[t] = "none"

Rounds ==
  \A t \in Thread : /\ at[t] = "none" => count[t] = rounds
                    /\ at[t] \notin {"none", "done"} => count[t] > 0
                    /\ acquired[t] + count[t] <=
                         IF at[t] \in {"unlockB", "unlockA", "sleep"} THEN rounds + 1 ELSE rounds

FirstServed ==
  rounds > 0 => \/ \E t \in Thread : acquired[t] > 0 \/ at[t] = "tryB"
                \/ \A t \in Thread : at[t] \in {"none", "tryA"}

IInv == TypeOK /\ HeldWhereUsed /\ JoinedDone /\ CreateInOrder /\ Rounds /\ FirstServed

LEMMA InitInv == Init => IInv
<1> SUFFICES ASSUME Init PROVE IInv
  OBVIOUS
<1>1. TypeOK  BY LockOrderAssumption DEF Init, TypeOK, Thread, Free
<1>2. HeldWhereUsed  BY LockOrderAssumption DEF Init, HeldWhereUsed, Thread, Free
<1>3. JoinedDone /\ CreateInOrder /\ FirstServed
  BY DEF Init, JoinedDone, CreateInOrder, FirstServed
<1>4. Rounds  BY LockOrderAssumption DEF Init, Rounds
<1> QED  BY <1>1, <1>2, <1>3, <1>4 DEF IInv

\* 0 is not the number of a thread.
LEMMA FreeIsNobody == Free \notin Thread
BY DEF Free, Thread

LEMMA TryAInv == \A t \in Thread : IInv /\ TryA(t) => IInv'
<1> SUFFICES ASSUME NEW t \in Thread, IInv, TryA(t) PROVE IInv'
  OBVIOUS
<1> USE DEF IInv, TryA
<1>1. TypeOK'  BY DEF TypeOK
<1>2. HeldWhereUsed'
  <2>1. CASE lockA = Free  BY <2>1, FreeIsNobody DEF HeldWhereUsed, TypeOK
  <2>2. CASE lockA # Free  BY <2>2 DEF HeldWhereUsed, TypeOK
  <2> QED  BY <2>1, <2>2
<1>3. JoinedDone'  BY DEF JoinedDone, TypeOK
<1>4. CreateInOrder'  BY DEF CreateInOrder, TypeOK
<1>5. Rounds'
  <2> SUFFICES ASSUME NEW u \in Thread
               PROVE  /\ at'[u] = "none" => count[u] = rounds
                      /\ at'[u] \notin {"none", "done"} => count[u] > 0
                      /\ acquired[u] + count[u] <=
                           IF at'[u] \in {"unlockB", "unlockA", "sleep"} THEN rounds + 1 ELSE rounds
    BY DEF Rounds
  <2>1. acquired[u] \in Nat /\ count[u] \in Nat /\ rounds \in Nat
    BY LockOrderAssumption DEF TypeOK
  <2>2. u # t => at'[u] = at[u]  BY DEF TypeOK
  <2>3. at'[t] \in {"tryB", "sleep"}  BY DEF TypeOK
  <2> QED  BY <2>1, <2>2, <2>3 DEF Rounds
<1>6. FirstServed'
  <2>1. CASE lockA = Free
    <3>1. at'[t] = "tryB"  BY <2>1 DEF TypeOK
    <3> QED  BY <3>1 DEF FirstServed
  <2>2. CASE lockA # Free
    <3>1. PICK u \in Thread : u = lockA  BY <2>2 DEF TypeOK
    <3>2. at[u] \in {"tryB", "unlockB", "unlockA"} /\ u # t
      BY <3>1 DEF HeldWhereUsed
    <3>3. \A v \in Thread : v # t => at'[v] = at[v]  BY <2>2 DEF TypeOK
    <3> QED  BY <2>2, <3>2, <3>3 DEF FirstServed
  <2> QED  BY <2>1, <2>2
<1> QED  BY <1>1, <1>2, <1>3, <1>4, <1>5, <1>6

\* B is taken only under A, so a thread about to try it finds it free.
LEMMA BFree == IInv => BFreeUnderA
<1> SUFFICES ASSUME IInv, NEW t \in Thread, at[t] = "tryB" PROVE lockB = Free
  BY DEF BFreeUnderA
<1>1. lockA = t  BY DEF IInv, HeldWhereUsed
<1>2. ASSUME lockB # Free PROVE FALSE
  <2>1. PICK u \in Thread : lockB = u  BY <1>2 DEF IInv, TypeOK
  <2>2. at[u] = "unlockB" /\ lockA = u  BY <2>1 DEF IInv, HeldWhereUsed
  <2> QED  BY <1>1, <2>2
<1> QED  BY <1>2

LEMMA TryBInv == \A t \in Thread : IInv /\ TryB(t) => IInv'
<1> SUFFICES ASSUME NEW t \in Thread, IInv, TryB(t) PROVE IInv'
  OBVIOUS
<1>0. /\ at[t] = "tryB" /\ lockB' = t /\ lockA' = lockA /\ main' = main /\ count' = count
      /\ at' = [at EXCEPT ![t] = "unlockB"]
      /\ acquired' = [acquired EXCEPT ![t] = @ + 1]
      /\ lockB = Free
  BY BFree DEF TryB, BFreeUnderA
<1> USE DEF IInv
<1>1. acquired[t] + 1 \in 0 .. rounds
  <2>1. acquired[t] \in Nat /\ count[t] \in Nat /\ rounds \in Nat
    BY LockOrderAssumption DEF TypeOK
  <2>2. count[t] > 0 /\ acquired[t] + count[t] <= rounds
    BY <1>0 DEF Rounds
  <2> QED  BY <2>1, <2>2
<1>2. TypeOK'  BY <1>0, <1>1 DEF TypeOK
<1>3. HeldWhereUsed'  BY <1>0, FreeIsNobody DEF HeldWhereUsed, TypeOK
<1>4. JoinedDone' /\ CreateInOrder'  BY <1>0 DEF JoinedDone, CreateInOrder, TypeOK
<1>5. Rounds'
  <2> SUFFICES ASSUME NEW u \in Thread
               PROVE  /\ at'[u] = "none" => count[u] = rounds
                      /\ at'[u] \notin {"none", "done"} => count[u] > 0
                      /\ acquired'[u] + count[u] <=
                           IF at'[u] \in {"unlockB", "unlockA", "sleep"} THEN rounds + 1 ELSE rounds
    BY <1>0 DEF Rounds
  <2>1. acquired[u] \in Nat /\ count[u] \in Nat /\ rounds \in Nat
    BY LockOrderAssumption DEF TypeOK
  <2>2. CASE u = t
    <3>1. at'[u] = "unlockB" /\ acquired'[u] = acquired[u] + 1
      BY <1>0, <2>2 DEF TypeOK
    <3> QED  BY <1>0, <2>1, <2>2, <3>1 DEF Rounds
  <2>3. CASE u # t
    <3>1. at'[u] = at[u] /\ acquired'[u] = acquired[u]  BY <1>0, <2>3 DEF TypeOK
    <3> QED  BY <2>1, <3>1 DEF Rounds
  <2> QED  BY <2>2, <2>3
<1>6. FirstServed'
  <2>1. acquired'[t] > 0  BY <1>0, LockOrderAssumption DEF TypeOK
  <2> QED  BY <2>1 DEF FirstServed
<1> QED  BY <1>2, <1>3, <1>4, <1>5, <1>6

LEMMA UnlockBInv == \A t \in Thread : IInv /\ UnlockB(t) => IInv'
<1> SUFFICES ASSUME NEW t \in Thread, IInv, UnlockB(t) PROVE IInv'
  OBVIOUS
<1> USE DEF IInv, UnlockB
<1>1. TypeOK'  BY DEF TypeOK
<1>2. HeldWhereUsed'  BY FreeIsNobody DEF HeldWhereUsed, TypeOK
<1>3. JoinedDone' /\ CreateInOrder'  BY DEF JoinedDone, CreateInOrder, TypeOK
<1>4. Rounds'  BY DEF Rounds, TypeOK
<1>5. FirstServed'  BY DEF FirstServed, TypeOK
<1> QED  BY <1>1, <1>2, <1>3, <1>4, <1>5

LEMMA UnlockAInv == \A t \in Thread : IInv /\ UnlockA(t) => IInv'
<1> SUFFICES ASSUME NEW t \in Thread, IInv, UnlockA(t) PROVE IInv'
  OBVIOUS
<1> USE DEF IInv, UnlockA
<1>1. TypeOK'  BY DEF TypeOK
<1>2. HeldWhereUsed'  BY FreeIsNobody DEF HeldWhereUsed, TypeOK
<1>3. JoinedDone' /\ CreateInOrder'  BY DEF JoinedDone, CreateInOrder, TypeOK
<1>4. Rounds'  BY DEF Rounds, TypeOK
<1>5. FirstServed'  BY DEF FirstServed, TypeOK
<1> QED  BY <1>1, <1>2, <1>3, <1>4, <1>5

LEMMA AgainInv == \A t \in Thread : IInv /\ Again(t) => IInv'
<1> SUFFICES ASSUME NEW t \in Thread, IInv, Again(t) PROVE IInv'
  OBVIOUS
<1> USE DEF IInv, Again, locks
<1>0. /\ count[t] \in Nat /\ count[t] > 0 /\ count[t] <= rounds /\ rounds \in Nat
      /\ Loop(count[t] - 1) \in {"tryA", "done"}
      /\ Loop(count[t] - 1) = "tryA" => count[t] - 1 > 0
  BY LockOrderAssumption DEF Rounds, TypeOK, Loop
<1>1. TypeOK'  BY <1>0 DEF TypeOK
<1>2. HeldWhereUsed'  BY <1>0 DEF HeldWhereUsed, TypeOK
<1>3. JoinedDone' /\ CreateInOrder'  BY DEF JoinedDone, CreateInOrder, TypeOK
<1>4. Rounds'
  <2> SUFFICES ASSUME NEW u \in Thread
               PROVE  /\ at'[u] = "none" => count'[u] = rounds
                      /\ at'[u] \notin {"none", "done"} => count'[u] > 0
                      /\ acquired[u] + count'[u] <=
                           IF at'[u] \in {"unlockB", "unlockA", "sleep"} THEN rounds + 1 ELSE rounds
    BY DEF Rounds
  <2>1. acquired[u] \in Nat /\ count[u] \in Nat  BY DEF TypeOK
  <2>2. CASE u = t
    <3>1. at'[u] = Loop(count[t] - 1) /\ count'[u] = count[t] - 1  BY <2>2 DEF TypeOK
    <3> QED  BY <1>0, <2>1, <2>2, <3>1 DEF Rounds
  <2>3. CASE u # t
    <3>1. at'[u] = at[u] /\ count'[u] = count[u]  BY <2>3 DEF TypeOK
    <3> QED  BY <1>0, <2>1, <3>1 DEF Rounds
  <2> QED  BY <2>2, <2>3
<1>5. FirstServed'  BY DEF FirstServed, TypeOK
<1> QED  BY <1>1, <1>2, <1>3, <1>4, <1>5

LEMMA CreateInv == IInv /\ Create => IInv'
<1> SUFFICES ASSUME IInv, Create PROVE IInv'
  OBVIOUS
<1> DEFINE n == main.next
<1> USE DEF IInv, Create, locks
<1>0. /\ n \in Thread /\ at[n] = "none" /\ num_threads \in Nat /\ n \in Nat /\ n <= num_threads
      /\ count[n] = rounds /\ rounds \in Nat
      /\ Loop(rounds) \in {"tryA", "done"}
      /\ Loop(rounds) = "tryA" <=> rounds > 0
      /\ at' = [at EXCEPT ![n] = Loop(rounds)]
  <2>1. n \in Thread  BY DEF TypeOK
  <2>2. at[n] = "none"  BY <2>1 DEF CreateInOrder, Thread
  <2>3. count[n] = rounds  BY <2>1, <2>2 DEF Rounds
  <2>4. rounds \in Nat /\ num_threads \in Nat /\ n \in Nat /\ n <= num_threads
    BY <2>1, LockOrderAssumption DEF Thread
  <2>5. Loop(rounds) \in {"tryA", "done"} /\ (Loop(rounds) = "tryA" <=> rounds > 0)
    BY <2>4 DEF Loop
  <2> QED  BY <2>1, <2>2, <2>3, <2>4, <2>5
<1>m. \/ n < num_threads /\ main' = [at |-> "create", next |-> n + 1]
      \/ n = num_threads /\ main' = [at |-> "join", next |-> 1]
  BY <1>0 DEF TypeOK
<1> HIDE DEF n
<1>1. TypeOK'
  <2>1. main' \in [at : {"create", "join", "destroy", "exited"}, next : Thread]
    BY <1>0, <1>m DEF Thread
  <2> QED  BY <1>0, <2>1 DEF TypeOK
<1>2. HeldWhereUsed'  BY <1>0 DEF HeldWhereUsed, TypeOK
<1>3. JoinedDone'  BY <1>m, LockOrderAssumption DEF JoinedDone, Thread
<1>4. CreateInOrder'
  <2> SUFFICES ASSUME main'.at = "create", NEW t \in Thread, main'.next <= t
               PROVE at'[t] = "none"
    BY DEF CreateInOrder
  <2>1. n + 1 <= t  BY <1>m
  <2>2. n # t /\ n <= t  BY <1>0, <2>1 DEF Thread
  <2> QED  BY <1>0, <2>2 DEF CreateInOrder, TypeOK, n
<1>5. Rounds'  BY <1>0 DEF Rounds, TypeOK
<1>6. FirstServed'  BY <1>0 DEF FirstServed, TypeOK
<1> QED  BY <1>1, <1>2, <1>3, <1>4, <1>5, <1>6

LEMMA JoinInv == IInv /\ (Join \/ Destroy) => IInv'
<1> SUFFICES ASSUME IInv, Join \/ Destroy PROVE IInv'
  OBVIOUS
<1> DEFINE n == main.next
<1> USE DEF IInv
<1>0. /\ UNCHANGED <<locks, threads>> /\ n \in Thread /\ num_threads \in Nat
      /\ n \in Nat /\ n <= num_threads
  BY LockOrderAssumption DEF TypeOK, Join, Destroy, Thread
<1>m. \/ /\ main.at = "join" /\ at[n] = "done"
         /\ n < num_threads /\ main' = [at |-> "join", next |-> n + 1]
      \/ /\ main.at = "join" /\ at[n] = "done"
         /\ n = num_threads /\ main' = [at |-> "destroy", next |-> 1]
      \/ main.at = "destroy" /\ main' = [at |-> "exited", next |-> 1]
  BY <1>0 DEF TypeOK, Join, Destroy
<1>d. main.at = "join" => \A t \in Thread : t < n => at[t] = "done"  BY DEF JoinedDone
<1>e. at' = at /\ count' = count /\ acquired' = acquired /\ lockA' = lockA /\ lockB' = lockB
  BY <1>0 DEF locks, threads
<1> HIDE DEF n
<1>1. TypeOK'
  <2>1. main' \in [at : {"create", "join", "destroy", "exited"}, next : Thread]
    BY <1>0, <1>m, LockOrderAssumption DEF Thread
  <2> QED  BY <1>e, <2>1 DEF TypeOK
<1>2. HeldWhereUsed' /\ Rounds' /\ FirstServed'
  BY <1>e DEF HeldWhereUsed, Rounds, FirstServed
<1>3. JoinedDone'
  <2>1. main'.at = "join" => \A t \in Thread : t < main'.next => at'[t] = "done"
    BY <1>0, <1>m, <1>d, <1>e DEF Thread
  <2>2. main'.at \in {"destroy", "exited"} => \A t \in Thread : at'[t] = "done"
    BY <1>0, <1>m, <1>d, <1>e DEF Thread, JoinedDone
  <2> QED  BY <2>1, <2>2 DEF JoinedDone
<1>4. CreateInOrder'  BY <1>m DEF CreateInOrder
<1> QED  BY <1>1, <1>2, <1>3, <1>4

LEMMA Inductive == Spec => []IInv
<1>1. IInv /\ UNCHANGED vars => IInv'
  BY DEF vars, locks, threads, IInv, TypeOK, HeldWhereUsed, JoinedDone, CreateInOrder,
         Rounds, FirstServed
<1>2. IInv /\ [Next]_vars => IInv'
  BY <1>1, TryAInv, TryBInv, UnlockBInv, UnlockAInv, AgainInv, CreateInv, JoinInv DEF Next
<1> QED  BY InitInv, <1>2, PTL DEF Spec

----------------------------------------------------------------------------
(* Types.                                                                  *)
THEOREM TypeCorrect == Spec => []TypeOK
<1>1. IInv => TypeOK  BY DEF IInv
<1> QED  BY Inductive, <1>1, PTL

(* Locks are held where the code says and nowhere else.                    *)
THEOREM Ownership == Spec => []HeldWhereUsed
<1>1. IInv => HeldWhereUsed  BY DEF IInv
<1> QED  BY Inductive, <1>1, PTL

(* The trylock of B never fails.                                           *)
THEOREM DeadBranch == Spec => []BFreeUnderA
BY Inductive, BFree, PTL

(* The locks are free when they are destroyed.                             *)
THEOREM CleanDestroy == Spec => []DestroyedUnlocked
<1>1. IInv => DestroyedUnlocked
  <2> SUFFICES ASSUME IInv, main.at \in {"destroy", "exited"} PROVE lockA = Free /\ lockB = Free
    BY DEF DestroyedUnlocked
  <2>1. \A t \in Thread : at[t] = "done"  BY DEF IInv, JoinedDone
  <2> QED  BY <2>1 DEF IInv, HeldWhereUsed, TypeOK
<1> QED  BY Inductive, <1>1, PTL

(* Some thread gets both locks before all have used up their rounds.       *)
THEOREM NotAllLost == Spec => []SomebodyServed
<1>1. IInv => SomebodyServed
  <2> SUFFICES ASSUME IInv, \A t \in Thread : at[t] = "done", rounds > 0
               PROVE \E t \in Thread : acquired[t] > 0
    BY DEF SomebodyServed
  <2>1. 1 \in Thread  BY LockOrderAssumption DEF Thread
  <2> QED  BY <2>1 DEF IInv, FirstServed
<1> QED  BY Inductive, <1>1, PTL

----------------------------------------------------------------------------
(* Wait-freedom: the variant                                             *)

\* The steps a thread is from its end at the most, five for each round.
InRound(t) ==
  IF at[t] \in {"none", "tryA"} THEN 4 ELSE IF at[t] = "tryB" THEN 3
  ELSE IF at[t] = "unlockB" THEN 2 ELSE IF at[t] = "unlockA" THEN 1 ELSE 0
ToGo(t) == IF at[t] = "done" THEN 0 ELSE 5 * count[t] + InRound(t)

\* Each of its steps brings a thread nearer to its end, and nothing the others do
\* takes it away from there, be it that they stop with the locks in hand.
OwnStepsOnly ==
  \A t \in Thread : IF thread_function(t) THEN ToGo(t)' < ToGo(t) ELSE ToGo(t)' <= ToGo(t)

\* The variant is a number.
LEMMA ToGoNat ==
  ASSUME IInv, NEW t \in Thread PROVE ToGo(t) \in Nat
BY DEF IInv, TypeOK, ToGo, InRound

\* A step of another thread, or of main.
LEMMA OtherStep ==
  ASSUME IInv, NEW t \in Thread, [Next]_vars, ~thread_function(t)
  PROVE  ToGo(t)' <= ToGo(t)
<1>0. /\ at \in [Thread -> {"none", "tryA", "tryB", "unlockB", "unlockA", "sleep", "done"}]
      /\ count \in [Thread -> 0 .. rounds] /\ ToGo(t) \in Nat
  BY ToGoNat DEF IInv, TypeOK
<1>1. at'[t] = at[t] /\ count'[t] = count[t] => ToGo(t)' <= ToGo(t)
  BY <1>0 DEF ToGo, InRound
<1>2. ASSUME NEW u \in Thread, thread_function(u) PROVE at'[t] = at[t] /\ count'[t] = count[t]
  <2>1. u # t  BY <1>2
  <2> QED  BY <1>0, <1>2, <2>1 DEF thread_function, TryA, TryB, UnlockB, UnlockA, Again
<1>3. CASE Create
  <2>1. main.next \in Thread /\ at[main.next] = "none"
    BY <1>3 DEF Create, IInv, TypeOK, CreateInOrder, Thread
  <2>2. CASE main.next = t
    <3>1. at[t] = "none" /\ count'[t] = count[t] /\ at'[t] \in {"tryA", "done"}
      BY <1>0, <1>3, <2>1, <2>2 DEF Create, Loop
    <3> QED  BY <1>0, <3>1 DEF ToGo, InRound
  <2>3. CASE main.next # t  BY <1>0, <1>1, <1>3, <2>1, <2>3 DEF Create
  <2> QED  BY <2>2, <2>3
<1>4. CASE Join \/ Destroy \/ UNCHANGED vars
  BY <1>1, <1>4 DEF Join, Destroy, vars, threads
<1> QED  BY <1>1, <1>2, <1>3, <1>4 DEF Next, thread_function

\* A step of its own.
LEMMA OwnStep ==
  ASSUME IInv, NEW t \in Thread, thread_function(t)
  PROVE  ToGo(t)' < ToGo(t)
<1>0. /\ at \in [Thread -> {"none", "tryA", "tryB", "unlockB", "unlockA", "sleep", "done"}]
      /\ count \in [Thread -> 0 .. rounds]
  BY DEF IInv, TypeOK
<1>1. PICK n \in Nat : n = count[t]  BY <1>0
<1>2. CASE TryA(t) \/ TryB(t) \/ UnlockB(t) \/ UnlockA(t)
  <2>1. /\ count'[t] = n
        /\ \/ at[t] = "tryA" /\ at'[t] \in {"tryB", "sleep"}
           \/ at[t] = "tryB" /\ at'[t] \in {"unlockB", "unlockA"}
           \/ at[t] = "unlockB" /\ at'[t] = "unlockA"
           \/ at[t] = "unlockA" /\ at'[t] = "sleep"
    BY <1>0, <1>1, <1>2 DEF TryA, TryB, UnlockB, UnlockA
  <2>2. InRound(t)' < InRound(t) /\ InRound(t) \in Nat /\ InRound(t)' \in Nat  BY <2>1 DEF InRound
  <2>3. ToGo(t) = 5 * n + InRound(t) /\ ToGo(t)' = 5 * n + InRound(t)'
    BY <1>1, <2>1 DEF ToGo
  <2> QED  BY <2>2, <2>3
<1>3. CASE Again(t)
  <2>1. n > 0  BY <1>1, <1>3 DEF Again, IInv, Rounds
  <2>2. at[t] = "sleep" /\ count'[t] = n - 1 /\ at'[t] \in {"tryA", "done"}
    BY <1>0, <1>1, <1>3 DEF Again, Loop
  <2>3. ToGo(t) = 5 * n  BY <1>1, <2>2 DEF ToGo, InRound
  <2>4. ToGo(t)' \in {0, 5 * (n - 1) + 4}  BY <2>2 DEF ToGo, InRound
  <2> QED  BY <2>1, <2>3, <2>4
<1> QED  BY <1>2, <1>3 DEF thread_function

\* A thread that is scheduled ends, whatever the others do: each of its steps lowers
\* its own variant and no step of another raises it.
THEOREM OwnRoundsEnd ==
  Spec => [](\A t \in Thread : ToGo(t) \in Nat) /\ [][OwnStepsOnly]_vars
<1>1. IInv => \A t \in Thread : ToGo(t) \in Nat  BY ToGoNat
<1>2. IInv /\ [Next]_vars => [OwnStepsOnly]_vars  BY OwnStep, OtherStep DEF OwnStepsOnly
<1> QED  BY Inductive, <1>1, <1>2, PTL DEF Spec
=============================================================================
