-------------------------- MODULE WarehouseProofs --------------------------
(***************************************************************************)
(* Proofs about Warehouse (Multithreading/q3.c) for any number of trucks   *)
(* and managers, any sizes, and whatever lies behind the array deliveries. *)
(* The inductive invariant IInv counts tokens and products together: types *)
(* alone do not bound count, nor does either count without the other.      *)
(***************************************************************************)
EXTENDS Warehouse, FiniteSetTheorems, TLAPS

\* The mutex belongs to a manager that is in printf or was cancelled there.
MutexOwned ==
  /\ \A m \in Manager : manager[m] = "print" => mutex = m
  /\ mutex # 0 => manager[mutex] \in {"print", "exited"}

\* A truck that waits has something to deliver; main cancels managers there are.
ProgressInv ==
  /\ \A t \in Truck : truck[t] \in {"wait", "lock"} => products[t] > 0
  /\ main.at \in {"cancel", "join"} => main.next <= num_managers

IInv == TypeOK /\ TokensConserved /\ ProductsCovered /\ MutexOwned /\ ProgressInv

----------------------------------------------------------------------------
(* The sets of threads that the invariants count are finite.               *)
LEMMA FiniteThreads ==
  /\ IsFiniteSet(Truck) /\ IsFiniteSet(Manager)
  /\ \A S \in SUBSET Truck : IsFiniteSet(S) /\ Cardinality(S) \in Nat
  /\ \A S \in SUBSET Manager : IsFiniteSet(S) /\ Cardinality(S) \in Nat
<1>1. IsFiniteSet(Truck) /\ IsFiniteSet(Manager)
  BY FS_Interval, WarehouseAssumption DEF Truck, Manager
<1> QED
  BY <1>1, FS_Subset, FS_CardinalityType

\* The trucks and the managers that carry a token.
Carrying == TrucksAt("lock") \cup TrucksAt("post")

\* The sets of threads that the counts are sizes of are finite.
LEMMA CountedSets ==
  /\ Carrying \in SUBSET Truck /\ TrucksAt("post") \in SUBSET Truck
  /\ Storing \in SUBSET Manager /\ ManagersAt("lock") \in SUBSET Manager
  /\ IsFiniteSet(Carrying) /\ Cardinality(Carrying) \in Nat
  /\ IsFiniteSet(TrucksAt("post")) /\ Cardinality(TrucksAt("post")) \in Nat
  /\ IsFiniteSet(Storing) /\ Cardinality(Storing) \in Nat
  /\ IsFiniteSet(ManagersAt("lock")) /\ Cardinality(ManagersAt("lock")) \in Nat
  /\ Cardinality(TrucksAt("post")) <= Cardinality(Carrying)
  /\ Cardinality(ManagersAt("lock")) <= Cardinality(Storing)
<1>1. /\ Carrying \in SUBSET Truck /\ TrucksAt("post") \in SUBSET Truck
      /\ Storing \in SUBSET Manager /\ ManagersAt("lock") \in SUBSET Manager
  BY DEF Carrying, Storing, TrucksAt, ManagersAt
<1>2. /\ TrucksAt("post") \in SUBSET Carrying
      /\ ManagersAt("lock") \in SUBSET Storing
  BY DEF Carrying, Storing
<1>3. /\ IsFiniteSet(Carrying) /\ Cardinality(Carrying) \in Nat
      /\ IsFiniteSet(TrucksAt("post")) /\ Cardinality(TrucksAt("post")) \in Nat
      /\ IsFiniteSet(Storing) /\ Cardinality(Storing) \in Nat
      /\ IsFiniteSet(ManagersAt("lock")) /\ Cardinality(ManagersAt("lock")) \in Nat
  BY <1>1, FiniteThreads
<1> QED
  BY <1>1, <1>2, <1>3, FS_Subset

----------------------------------------------------------------------------
LEMMA InitIInv == Init => IInv
<1> SUFFICES ASSUME Init PROVE IInv
  OBVIOUS
<1> USE WarehouseAssumption DEF Init
<1>1. Carrying = {} /\ TrucksAt("post") = {} /\ Storing = {} /\ ManagersAt("lock") = {}
  BY DEF Carrying, Storing, TrucksAt, ManagersAt
<1>2. /\ Cardinality(Carrying) = 0 /\ Cardinality(TrucksAt("post")) = 0
      /\ Cardinality(Storing) = 0 /\ Cardinality(ManagersAt("lock")) = 0
  BY <1>1, FS_EmptySet
<1>3. TokensConserved /\ ProductsCovered
  BY <1>2 DEF TokensConserved, ProductsCovered, Carrying
<1>4. TypeOK
  <2>1. deliveries \in [Truck -> Int]
    BY DEF Truck
  <2>2. main \in [at : {"trucks", "cancel", "join", "done"}, next : 1 .. num_managers + 1]
    OBVIOUS
  <2> QED
    BY <2>1, <2>2 DEF TypeOK, Slot
<1>5. MutexOwned /\ ProgressInv
  BY DEF MutexOwned, ProgressInv
<1> QED
  BY <1>3, <1>4, <1>5 DEF IInv

(* Each step of a truck keeps the invariant.                               *)
LEMMA TruckStep ==
  ASSUME IInv, NEW t \in Truck, delivery_truck(t)
  PROVE  IInv'
<1> USE WarehouseAssumption
<1> DEFINE posting == TrucksAt("post")
           locking == ManagersAt("lock")
<1>0. /\ empty + full + Cardinality(Carrying) + Cardinality(Storing) = BUFFER_SIZE
      /\ count <= full + Cardinality(posting) + Cardinality(locking)
      /\ TypeOK /\ MutexOwned /\ ProgressInv
      /\ empty \in Nat /\ full \in Nat /\ count \in Nat
  BY DEF IInv, TokensConserved, ProductsCovered, Carrying, TypeOK
<1>1. CASE TruckWait(t)
  <2>1. /\ Carrying' = Carrying \cup {t} /\ t \notin Carrying
        /\ posting' = posting /\ Storing' = Storing /\ locking' = locking
    BY <1>0, <1>1 DEF TruckWait, Carrying, Storing, TrucksAt, ManagersAt, TypeOK
  <2>2. Cardinality(Carrying') = Cardinality(Carrying) + 1
    BY <2>1, CountedSets, FS_AddElement
  <2>3. TokensConserved' /\ ProductsCovered'
    BY <1>0, <1>1, <2>1, <2>2, CountedSets DEF TruckWait, TokensConserved, ProductsCovered, ring, Carrying
  <2> QED
    BY <1>0, <1>1, <2>3 DEF TruckWait, IInv, TypeOK, MutexOwned, ProgressInv, ring
<1>2. CASE Deliver(t)
  <2>1. /\ Carrying' = Carrying
        /\ posting' = posting \cup {t} /\ t \notin posting
        /\ Storing' = Storing /\ locking' = locking
    BY <1>0, <1>2 DEF Deliver, Carrying, Storing, TrucksAt, ManagersAt, TypeOK
  <2>2. Cardinality(posting') = Cardinality(posting) + 1
    BY <2>1, CountedSets, FS_AddElement
  <2>3. TokensConserved' /\ ProductsCovered'
    BY <1>0, <1>2, <2>1, <2>2, CountedSets DEF Deliver, NextSlot, TokensConserved, ProductsCovered, Carrying
  <2>4. Cardinality(posting') <= Cardinality(Carrying)
    <3>1. posting' \subseteq Carrying
      BY <1>0, <1>2 DEF Deliver, Carrying, TrucksAt, TypeOK
    <3> QED
      BY <3>1, CountedSets, FS_Subset
  <2>5. count' \in 0 .. BUFFER_SIZE
    BY <1>0, <1>2, <2>2, <2>4, CountedSets DEF Deliver
  <2>6. in' \in Slot /\ buffer' \in [Slot -> {0, 1}]
    BY <1>0, <1>2 DEF Deliver, NextSlot, TypeOK, Slot
  <2>7. products' \in [Truck -> 0 .. DELIVERY_MAX_PRODUCTS]
    BY <1>0, <1>2 DEF Deliver, TypeOK, ProgressInv
  <2> QED
    BY <1>0, <1>2, <2>3, <2>5, <2>6, <2>7 DEF Deliver, IInv, TypeOK, MutexOwned, ProgressInv
<1>3. CASE TruckPost(t) \/ TruckDelivered(t)
  <2>1. /\ Carrying' = Carrying \ {t} /\ t \in Carrying
        /\ posting' = posting \ {t} /\ t \in posting
        /\ Storing' = Storing /\ locking' = locking
        /\ full' = full + 1 /\ UNCHANGED <<ring, empty, mutex, manager, cancelled, main>>
    BY <1>0, <1>3 DEF TruckPost, TruckDelivered, Carrying, Storing, TrucksAt, ManagersAt, TypeOK
  <2>2. /\ Cardinality(Carrying') = Cardinality(Carrying) - 1
        /\ Cardinality(posting') = Cardinality(posting) - 1
    <3>1. Cardinality(Carrying \ {t}) = Cardinality(Carrying) - 1
      BY <2>1, CountedSets, FS_RemoveElement
    <3>2. Cardinality(posting \ {t}) = Cardinality(posting) - 1
      BY <2>1, CountedSets, FS_RemoveElement
    <3> QED
      BY <2>1, <3>1, <3>2
  <2>3. TokensConserved' /\ ProductsCovered'
    BY <1>0, <2>1, <2>2, CountedSets DEF TokensConserved, ProductsCovered, ring, Carrying
  <2>4. full' \in 0 .. BUFFER_SIZE
    <3>1. Cardinality(Carrying') \in Nat
      BY <2>1, CountedSets, FS_RemoveElement, FS_CardinalityType
    <3> QED
      BY <1>0, <2>1, <2>2, <3>1, CountedSets
  <2>5. /\ truck' \in [Truck -> {"wait", "lock", "post", "done"}]
        /\ products' \in [Truck -> 0 .. DELIVERY_MAX_PRODUCTS]
        /\ deliveries' \in [Truck -> Int] /\ made' \in [Truck -> Nat]
        /\ \A u \in Truck : truck'[u] \in {"wait", "lock"} => products'[u] > 0
    <3>1. CASE TruckPost(t)
      BY <1>0, <3>1 DEF TruckPost, TypeOK, ProgressInv
    <3>2. CASE TruckDelivered(t)
      BY <1>0, <3>2 DEF TruckDelivered, TypeOK, ProgressInv
    <3> QED
      BY <1>3, <3>1, <3>2
  <2> QED
    BY <1>0, <2>1, <2>3, <2>4, <2>5 DEF IInv, TypeOK, MutexOwned, ProgressInv, ring
<1> QED
  BY <1>1, <1>2, <1>3 DEF delivery_truck

(* Each step of a manager keeps the invariant.                             *)
LEMMA ManagerStep ==
  ASSUME IInv, NEW m \in Manager, storage_manager(m)
  PROVE  IInv'
<1> USE WarehouseAssumption
<1> DEFINE posting == TrucksAt("post")
           locking == ManagersAt("lock")
<1>0. /\ empty + full + Cardinality(Carrying) + Cardinality(Storing) = BUFFER_SIZE
      /\ count <= full + Cardinality(posting) + Cardinality(locking)
      /\ TypeOK /\ MutexOwned /\ ProgressInv
      /\ empty \in Nat /\ full \in Nat /\ count \in Nat
      /\ m # 0
  BY DEF IInv, TokensConserved, ProductsCovered, Carrying, TypeOK, Manager
<1>1. CASE ManagerWait(m)
  <2>1. /\ Carrying' = Carrying /\ posting' = posting
        /\ Storing' = Storing \cup {m} /\ m \notin Storing
        /\ locking' = locking \cup {m} /\ m \notin locking
    BY <1>0, <1>1 DEF ManagerWait, trucks, Carrying, Storing, TrucksAt, ManagersAt, TypeOK, MutexOwned
  <2>2. /\ Cardinality(Storing') = Cardinality(Storing) + 1
        /\ Cardinality(locking') = Cardinality(locking) + 1
    BY <2>1, CountedSets, FS_AddElement
  <2>3. TokensConserved' /\ ProductsCovered'
    <3>1. UNCHANGED <<empty, count>> /\ full' = full - 1
      BY <1>1 DEF ManagerWait, ring
    <3>2. /\ empty' + full' + Cardinality(Carrying') + Cardinality(Storing') = BUFFER_SIZE
          /\ count' <= full' + Cardinality(posting') + Cardinality(locking')
      BY <1>0, <2>1, <2>2, <3>1, CountedSets
    <3> QED
      BY <3>2 DEF TokensConserved, ProductsCovered, Carrying
  <2> QED
    BY <1>0, <1>1, <2>3 DEF ManagerWait, IInv, TypeOK, MutexOwned, ProgressInv, ring, trucks
<1>2. CASE Remove(m)
  <2>1. /\ Carrying' = Carrying /\ posting' = posting
        /\ Storing' = Storing
        /\ locking' = locking \ {m} /\ m \in locking
    <3>1. /\ manager[m] = "lock" /\ mutex = 0 /\ mutex' = m
          /\ manager' = [manager EXCEPT ![m] = "print"] /\ UNCHANGED truck
      BY <1>2 DEF Remove, trucks
    <3>2. Carrying' = Carrying /\ posting' = posting
      BY <3>1 DEF Carrying, TrucksAt
    <3>3. locking' = locking \ {m} /\ m \in locking
      BY <1>0, <3>1 DEF ManagersAt, TypeOK
    <3>4. Storing' = Storing
      BY <1>0, <3>1 DEF Storing, ManagersAt, TypeOK, Manager
    <3> QED
      BY <3>2, <3>3, <3>4
  <2>2. Cardinality(locking') = Cardinality(locking) - 1
    BY <2>1, CountedSets, FS_RemoveElement
  <2>3. PICK drawn \in 1 .. STORAGE_MAX_PRODUCTS :
          LET n == IF drawn <= count THEN drawn ELSE count
          IN  /\ buffer' = [i \in Slot |->
                   IF \E k \in 0 .. n - 1 : i = (out + k) % BUFFER_SIZE THEN 0 ELSE buffer[i]]
              /\ out' = (out + n) % BUFFER_SIZE
              /\ count' = count - n
    BY <1>2 DEF Remove, Limited
  <2>4. /\ count' \in 0 .. BUFFER_SIZE
        /\ count' < count \/ count' = 0
        /\ out' \in Slot /\ buffer' \in [Slot -> {0, 1}]
    BY <1>0, <2>3 DEF TypeOK, Slot
  <2>5. TokensConserved' /\ ProductsCovered'
    <3>1. UNCHANGED <<empty, full>>
      BY <1>2 DEF Remove
    <3>2. Cardinality(posting') \in Nat /\ Cardinality(locking') \in Nat
      BY <2>1, CountedSets, FS_RemoveElement, FS_CardinalityType
    <3>3. count' <= full' + Cardinality(posting') + Cardinality(locking')
      BY <1>0, <2>1, <2>2, <2>4, <3>1, <3>2, CountedSets
    <3> QED
      BY <1>0, <2>1, <3>1, <3>3 DEF TokensConserved, ProductsCovered, Carrying
  <2> QED
    <3>1. /\ manager[m] = "lock" /\ mutex = 0 /\ mutex' = m
          /\ manager' = [manager EXCEPT ![m] = "print"]
          /\ UNCHANGED <<in, empty, full, trucks, cancelled, main>>
      BY <1>2 DEF Remove
    <3>2. MutexOwned' /\ ProgressInv'
      BY <1>0, <3>1 DEF MutexOwned, ProgressInv, TypeOK, trucks, Manager
    <3>3. TypeOK'
      BY <1>0, <2>4, <3>1 DEF TypeOK, trucks
    <3> QED
      BY <2>5, <3>2, <3>3 DEF IInv
<1>3. CASE Unlock(m) \/ CancelPoint(m)
  <2>1. /\ Carrying' = Carrying /\ posting' = posting
        /\ Storing' = Storing /\ locking' = locking
        /\ UNCHANGED <<ring, empty, full, trucks, cancelled, main>>
    <3>1. /\ UNCHANGED <<ring, empty, full, trucks, cancelled, main>>
          /\ Carrying' = Carrying /\ posting' = posting
      BY <1>3 DEF Unlock, CancelPoint, trucks, Carrying, TrucksAt
    <3>2. CASE Unlock(m)
      BY <1>0, <3>1, <3>2 DEF Unlock, Storing, ManagersAt, TypeOK, MutexOwned, Manager
    <3>3. CASE CancelPoint(m)
      BY <1>0, <3>1, <3>3 DEF CancelPoint, Storing, ManagersAt, TypeOK, MutexOwned
    <3> QED
      BY <1>3, <3>2, <3>3
  <2>2. TokensConserved' /\ ProductsCovered'
    BY <1>0, <2>1 DEF TokensConserved, ProductsCovered, ring, Carrying
  <2>3. /\ mutex' \in Manager \cup {0}
        /\ manager' \in [Manager -> {"wait", "lock", "print", "post", "exited"}]
        /\ MutexOwned'
    BY <1>0, <1>3 DEF Unlock, CancelPoint, TypeOK, MutexOwned, Manager
  <2> QED
    BY <1>0, <2>1, <2>2, <2>3 DEF IInv, TypeOK, ProgressInv, ring, trucks
<1>4. CASE ManagerPost(m)
  <2>1. /\ Carrying' = Carrying /\ posting' = posting
        /\ Storing' = Storing \ {m} /\ m \in Storing
        /\ locking' = locking
    BY <1>0, <1>4 DEF ManagerPost, trucks, Carrying, Storing, TrucksAt, ManagersAt, TypeOK, MutexOwned
  <2>2. Cardinality(Storing') = Cardinality(Storing) - 1 /\ Cardinality(Storing') \in Nat
    BY <2>1, CountedSets, FS_RemoveElement, FS_CardinalityType
  <2>3. TokensConserved' /\ ProductsCovered' /\ empty' \in 0 .. BUFFER_SIZE
    <3>1. UNCHANGED <<full, count>> /\ empty' = empty + 1
      BY <1>4 DEF ManagerPost, ring
    <3>2. /\ empty' + full' + Cardinality(Carrying') + Cardinality(Storing') = BUFFER_SIZE
          /\ count' <= full' + Cardinality(posting') + Cardinality(locking')
      BY <1>0, <2>1, <2>2, <3>1, CountedSets
    <3>3. empty' \in 0 .. BUFFER_SIZE
      BY <1>0, <2>1, <2>2, <3>1, CountedSets
    <3> QED
      BY <3>2, <3>3 DEF TokensConserved, ProductsCovered, Carrying
  <2> QED
    BY <1>0, <1>4, <2>3 DEF ManagerPost, IInv, TypeOK, MutexOwned, ProgressInv, ring, trucks
<1> QED
  BY <1>1, <1>2, <1>3, <1>4 DEF storage_manager

LEMMA StepIInv == IInv /\ [Next]_vars => IInv'
<1> SUFFICES ASSUME IInv, [Next]_vars PROVE IInv'
  OBVIOUS
<1>1. CASE JoinTrucks \/ Cancel \/ JoinManager
  <2>1. UNCHANGED <<ring, empty, full, mutex, trucks, manager>>
    BY <1>1 DEF JoinTrucks, Cancel, JoinManager
  <2>2. /\ main' \in [at : {"trucks", "cancel", "join", "done"}, next : 1 .. num_managers + 1]
        /\ cancelled' \subseteq Manager
        /\ main'.at \in {"cancel", "join"} => main'.next <= num_managers
    <3>1. CASE JoinTrucks
      <4>1. main' = NextManager(1) /\ UNCHANGED cancelled
        BY <3>1 DEF JoinTrucks
      <4>2. CASE 1 <= num_managers
        BY <4>1, <4>2, WarehouseAssumption DEF NextManager, IInv, TypeOK
      <4>3. CASE ~ (1 <= num_managers)
        BY <4>1, <4>3, WarehouseAssumption DEF NextManager, IInv, TypeOK
      <4> QED
        BY <4>2, <4>3
    <3>2. CASE Cancel
      <4>1. /\ main.at = "cancel" /\ main.next \in 1 .. num_managers
            /\ main' = [main EXCEPT !.at = "join"] /\ cancelled' = cancelled \cup {main.next}
        BY <3>2, WarehouseAssumption DEF Cancel, IInv, TypeOK, ProgressInv
      <4>2. main'.at = "join" /\ main'.next = main.next
        BY <4>1 DEF IInv, TypeOK
      <4>3. main' \in [at : {"trucks", "cancel", "join", "done"}, next : 1 .. num_managers + 1]
        BY <4>1 DEF IInv, TypeOK
      <4>4. cancelled' \subseteq Manager
        BY <4>1 DEF IInv, TypeOK, Manager
      <4> QED
        BY <4>1, <4>2, <4>3, <4>4
    <3>3. CASE JoinManager
      BY <3>3, WarehouseAssumption DEF JoinManager, NextManager, IInv, TypeOK, ProgressInv
    <3> QED
      BY <1>1, <3>1, <3>2, <3>3
  <2> QED
    BY <2>1, <2>2
    DEF IInv, TypeOK, TokensConserved, ProductsCovered, MutexOwned, ProgressInv,
        Storing, TrucksAt, ManagersAt, ring, trucks
<1>2. CASE UNCHANGED vars
  BY <1>2
  DEF vars, IInv, TypeOK, TokensConserved, ProductsCovered, MutexOwned, ProgressInv,
      Storing, TrucksAt, ManagersAt, ring, trucks
<1> QED
  BY <1>1, <1>2, TruckStep, ManagerStep DEF Next

LEMMA Invariance == Spec => []IInv
BY InitIInv, StepIInv, PTL DEF Spec

(* Type correctness: the inventory stays between 0 and BUFFER_SIZE, though *)
(* managers take several products for one token.                           *)
THEOREM TypeCorrect == Spec => []TypeOK
BY Invariance, PTL DEF IInv

(* No token is lost or made, even by a manager cancelled in printf.        *)
THEOREM Conservation == Spec => []TokensConserved
BY Invariance, PTL DEF IInv

(* Every product has its token.                                            *)
THEOREM Coverage == Spec => []ProductsCovered
BY Invariance, PTL DEF IInv

----------------------------------------------------------------------------
\* The two parts of RingFilled about the ring itself.
RingInv ==
  /\ in = (out + count) % BUFFER_SIZE
  /\ \A k \in Slot : buffer[(out + k) % BUFFER_SIZE] = IF k < count THEN 1 ELSE 0

(* Arithmetic of ring indices: adding to one passes the end at most once.  *)
LEMMA Wrap ==
  ASSUME NEW a \in 0 .. BUFFER_SIZE - 1, NEW b \in 0 .. BUFFER_SIZE
  PROVE  /\ (a + b) % BUFFER_SIZE = IF a + b < BUFFER_SIZE THEN a + b ELSE a + b - BUFFER_SIZE
         /\ (a + b) % BUFFER_SIZE \in 0 .. BUFFER_SIZE - 1
BY WarehouseAssumption

\* Extending a region of c slots that starts at o by one slot.
LEMMA WrapNext ==
  ASSUME NEW o \in 0 .. BUFFER_SIZE - 1, NEW c \in 0 .. BUFFER_SIZE - 1
  PROVE  (((o + c) % BUFFER_SIZE) + 1) % BUFFER_SIZE = (o + (c + 1)) % BUFFER_SIZE
BY WarehouseAssumption

\* Two offsets from o below BUFFER_SIZE lead to two slots.
LEMMA WrapInjective ==
  ASSUME NEW o \in 0 .. BUFFER_SIZE - 1,
         NEW k \in 0 .. BUFFER_SIZE - 1, NEW l \in 0 .. BUFFER_SIZE - 1,
         (o + k) % BUFFER_SIZE = (o + l) % BUFFER_SIZE
  PROVE  k = l
BY WarehouseAssumption

\* The region of c slots from o, without its first n slots.
LEMMA WrapShift ==
  ASSUME NEW o \in 0 .. BUFFER_SIZE - 1, NEW n \in 0 .. BUFFER_SIZE,
         NEW k \in 0 .. BUFFER_SIZE - 1
  PROVE  (((o + n) % BUFFER_SIZE) + k) % BUFFER_SIZE =
           (o + (IF n + k < BUFFER_SIZE THEN n + k ELSE n + k - BUFFER_SIZE)) % BUFFER_SIZE
BY WarehouseAssumption

\* Going n of c places round the ring and then the rest is going all of them.
LEMMA WrapRest ==
  ASSUME NEW o \in 0 .. BUFFER_SIZE - 1, NEW c \in 0 .. BUFFER_SIZE, NEW n \in 0 .. c
  PROVE  (((o + n) % BUFFER_SIZE) + (c - n)) % BUFFER_SIZE = (o + c) % BUFFER_SIZE
BY WarehouseAssumption

(* A truck that has waited for empty has room.                             *)
LEMMA Room == IInv /\ TrucksAt("lock") # {} => count < BUFFER_SIZE
<1> SUFFICES ASSUME IInv, NEW t \in TrucksAt("lock") PROVE count < BUFFER_SIZE
  OBVIOUS
<1>1. /\ TrucksAt("post") \in SUBSET Carrying
      /\ t \in Carrying /\ t \notin TrucksAt("post")
  BY DEF Carrying, TrucksAt
<1>2. Cardinality(TrucksAt("post")) < Cardinality(Carrying)
  <2>1. /\ Cardinality(TrucksAt("post")) <= Cardinality(Carrying)
        /\ Cardinality(TrucksAt("post")) = Cardinality(Carrying) => Carrying = TrucksAt("post")
    BY <1>1, CountedSets, FS_Subset
  <2> QED
    BY <1>1, <2>1, CountedSets
<1>3. /\ empty + full + Cardinality(Carrying) + Cardinality(Storing) = BUFFER_SIZE
      /\ count <= full + Cardinality(TrucksAt("post")) + Cardinality(ManagersAt("lock"))
      /\ empty \in Nat /\ full \in Nat /\ count \in Nat
  BY WarehouseAssumption DEF IInv, TokensConserved, ProductsCovered, Carrying, TypeOK
<1> QED
  BY <1>2, <1>3, CountedSets, WarehouseAssumption

(* A delivery extends the filled part of the ring by the slot at in.       *)
LEMMA DeliverFills ==
  ASSUME IInv, RingInv, NEW t \in Truck, Deliver(t)
  PROVE  RingInv'
<1>1. /\ out \in 0 .. BUFFER_SIZE - 1
      /\ count \in 0 .. BUFFER_SIZE - 1
  BY WarehouseAssumption, Room DEF IInv, TypeOK, Slot, Deliver, TrucksAt
<1>2. /\ buffer' = [buffer EXCEPT ![in] = 1] /\ in' = (in + 1) % BUFFER_SIZE
      /\ count' = count + 1 /\ out' = out
  BY DEF Deliver, NextSlot
<1>3. in' = (out' + count') % BUFFER_SIZE
  BY <1>1, <1>2, WrapNext DEF RingInv
<1>4. ASSUME NEW k \in Slot
      PROVE  buffer'[(out' + k) % BUFFER_SIZE] = IF k < count' THEN 1 ELSE 0
  <2> DEFINE i == (out + k) % BUFFER_SIZE
  <2>1. k \in 0 .. BUFFER_SIZE - 1 /\ k \in 0 .. BUFFER_SIZE
    BY WarehouseAssumption DEF Slot
  <2>2. i \in Slot
    BY <1>1, <2>1, Wrap DEF Slot
  <2>3. buffer[i] = IF k < count THEN 1 ELSE 0
    BY DEF RingInv
  <2>4. i = in <=> k = count
    BY <1>1, <2>1, WrapInjective DEF RingInv
  <2> HIDE DEF i
  <2>5. buffer'[i] = IF k = count THEN 1 ELSE buffer[i]
    BY <1>2, <2>2, <2>4 DEF IInv, TypeOK
  <2>6. buffer'[i] = IF k < count + 1 THEN 1 ELSE 0
    BY <1>1, <2>1, <2>3, <2>5
  <2> QED
    BY <1>2, <2>6 DEF i
<1> QED
  BY <1>3, <1>4 DEF RingInv

(* A storage empties the slots from out on, and only filled ones.          *)
LEMMA RemoveEmpties ==
  ASSUME IInv, RingInv, NEW m \in Manager, Remove(m)
  PROVE  RingInv'
<1>1. /\ out \in 0 .. BUFFER_SIZE - 1
      /\ count \in 0 .. BUFFER_SIZE
  BY WarehouseAssumption DEF IInv, TypeOK, Slot
<1>2. PICK drawn \in 1 .. STORAGE_MAX_PRODUCTS :
        LET n == IF drawn <= count THEN drawn ELSE count
        IN  /\ buffer' = [i \in Slot |->
                 IF \E k \in 0 .. n - 1 : i = (out + k) % BUFFER_SIZE THEN 0 ELSE buffer[i]]
            /\ out' = (out + n) % BUFFER_SIZE
            /\ count' = count - n
  BY DEF Remove, Limited
<1> DEFINE n == IF drawn <= count THEN drawn ELSE count
<1>3. n \in 0 .. count /\ n \in 0 .. BUFFER_SIZE
  BY <1>1, WarehouseAssumption
<1>4. /\ buffer' = [i \in Slot |->
           IF \E j \in 0 .. n - 1 : i = (out + j) % BUFFER_SIZE THEN 0 ELSE buffer[i]]
      /\ out' = (out + n) % BUFFER_SIZE
      /\ count' = count - n
      /\ in' = in
  BY <1>2 DEF Remove
<1> HIDE DEF n
<1>5. in' = (out' + count') % BUFFER_SIZE
  BY <1>1, <1>3, <1>4, WrapRest DEF RingInv
<1>6. ASSUME NEW k \in Slot
      PROVE  buffer'[(out' + k) % BUFFER_SIZE] = IF k < count' THEN 1 ELSE 0
  <2> DEFINE l == IF n + k < BUFFER_SIZE THEN n + k ELSE n + k - BUFFER_SIZE
             i == (out + l) % BUFFER_SIZE
  <2>1. k \in 0 .. BUFFER_SIZE - 1
    BY WarehouseAssumption DEF Slot
  <2>2. l \in 0 .. BUFFER_SIZE - 1 /\ l \in 0 .. BUFFER_SIZE /\ l \in Slot
    BY <1>3, <2>1, WarehouseAssumption DEF Slot
  <2>3. (out' + k) % BUFFER_SIZE = i
    BY <1>1, <1>3, <1>4, <2>1, WrapShift
  <2>4. l < count => (l < n <=> k >= count - n)
    BY <1>1, <1>3, <2>1, WarehouseAssumption
  <2>5. l >= count => k >= count - n
    BY <1>1, <1>3, <2>1, WarehouseAssumption
  <2> HIDE DEF l
  <2>6. i \in Slot
    BY <1>1, <2>2, Wrap DEF Slot
  <2>7. buffer[i] = IF l < count THEN 1 ELSE 0
    BY <2>2 DEF RingInv
  <2>8. (\E j \in 0 .. n - 1 : i = (out + j) % BUFFER_SIZE) <=> l < n
    <3>1. ASSUME NEW j \in 0 .. n - 1, i = (out + j) % BUFFER_SIZE PROVE l < n
      <4>1. j \in 0 .. BUFFER_SIZE - 1
        BY <1>3, WarehouseAssumption
      <4>2. l = j
        BY <1>1, <2>2, <3>1, <4>1, WrapInjective
      <4> QED
        BY <1>3, <4>2
    <3>2. ASSUME l < n PROVE \E j \in 0 .. n - 1 : i = (out + j) % BUFFER_SIZE
      <4>1. l \in 0 .. n - 1
        BY <1>3, <2>2, <3>2
      <4> QED
        BY <4>1
    <3> QED
      BY <3>1, <3>2
  <2>9. buffer'[i] = IF l < n THEN 0 ELSE buffer[i]
    BY <1>4, <2>6, <2>8, Zenon
  <2> HIDE DEF i
  <2>10. buffer'[i] = IF k < count - n THEN 1 ELSE 0
    BY <1>1, <1>3, <2>1, <2>2, <2>4, <2>5, <2>7, <2>9
  <2> QED
    BY <1>4, <2>3, <2>10
<1> QED
  BY <1>5, <1>6 DEF RingInv

(* The products lie in the ring from out up to in, and a truck about to    *)
(* deliver finds its slot free: nothing is ever overwritten.               *)
THEOREM RingIntact == Spec => []RingFilled
<1>1. Init => RingInv
  BY WarehouseAssumption, Wrap DEF Init, RingInv, Slot
<1>2. IInv /\ RingInv /\ [Next]_vars => RingInv'
  <2> SUFFICES ASSUME IInv, RingInv, [Next]_vars PROVE RingInv'
    OBVIOUS
  <2>1. UNCHANGED ring => RingInv'
    BY DEF ring, RingInv
  <2>2. ASSUME NEW t \in Truck, delivery_truck(t) PROVE RingInv'
    BY <2>1, <2>2, DeliverFills DEF delivery_truck, TruckWait, TruckPost, TruckDelivered
  <2>3. ASSUME NEW m \in Manager, storage_manager(m) PROVE RingInv'
    BY <2>1, <2>3, RemoveEmpties
    DEF storage_manager, ManagerWait, Unlock, ManagerPost, CancelPoint
  <2> QED
    BY <2>1, <2>2, <2>3 DEF Next, JoinTrucks, Cancel, JoinManager, vars
<1>3. IInv /\ RingInv => RingFilled
  <2> SUFFICES ASSUME IInv, RingInv, NEW t \in TrucksAt("lock") PROVE buffer[in] = 0
    BY DEF RingInv, RingFilled
  <2>1. count \in Slot
    BY Room, WarehouseAssumption DEF IInv, TypeOK, Slot
  <2> QED
    BY <2>1 DEF RingInv, Slot
<1> QED
  BY <1>1, <1>2, <1>3, Invariance, PTL DEF Spec

----------------------------------------------------------------------------
(* Trucks and managers never all wait for each other while a truck is still *)
(* on its way: the deadlock that TrucksFinish would meet, ruled out.        *)

\* The next call of a truck, or of a manager, does not block.
TruckGoes(t) ==
  \/ truck[t] = "wait" /\ empty > 0
  \/ truck[t] = "lock" /\ mutex = 0
  \/ truck[t] = "post"

ManagerGoes(m) ==
  \/ manager[m] = "wait" /\ full > 0
  \/ manager[m] = "lock" /\ mutex = 0
  \/ manager[m] \in {"print", "post"}

(* As long as there is a manager and a truck is not done, some truck or   *)
(* manager can take its next step without blocking.                        *)
NeverStuck ==
  num_managers > 0 /\ (\E t \in Truck : truck[t] # "done") =>
    (\E t \in Truck : TruckGoes(t)) \/ (\E m \in Manager : ManagerGoes(m))

\* Nobody is cancelled, and no manager exits, before the trucks are done.
CancelledLate ==
  /\ main.at = "trucks" => cancelled = {}
  /\ main.at # "trucks" => \A t \in Truck : truck[t] = "done"
  /\ \A m \in Manager : manager[m] = "exited" => m \in cancelled

\* Before anything runs nobody is cancelled.
LEMMA InitCancelled == Init => CancelledLate
BY DEF Init, CancelledLate

\* Only Cancel cancels, which main comes to after it has joined the trucks, and
\* a manager exits at a cancellation point only.
LEMMA StepCancelled == IInv /\ CancelledLate /\ [Next]_vars => CancelledLate'
<1> SUFFICES ASSUME IInv, CancelledLate, [Next]_vars PROVE CancelledLate'  OBVIOUS
<1> USE DEF CancelledLate
<1>1. ASSUME NEW t \in Truck, delivery_truck(t) PROVE CancelledLate'
  <2>1. truck[t] # "done" /\ main' = main /\ cancelled' = cancelled /\ manager' = manager
    BY <1>1 DEF delivery_truck, TruckWait, Deliver, TruckPost, TruckDelivered
  <2> QED  BY <2>1
<1>2. ASSUME NEW m \in Manager, storage_manager(m) PROVE CancelledLate'
  <2>1. /\ main' = main /\ cancelled' = cancelled /\ truck' = truck
        /\ \E at \in {"lock", "print", "post", "wait", "exited"} :
             manager' = [manager EXCEPT ![m] = at] /\ (at = "exited" => m \in cancelled)
    BY <1>2 DEF storage_manager, ManagerWait, Remove, Unlock, ManagerPost, CancelPoint, trucks
  <2> QED  BY <2>1 DEF IInv, TypeOK
<1>3. CASE JoinTrucks
  BY <1>3 DEF JoinTrucks, NextManager, trucks
<1>4. CASE Cancel
  BY <1>4 DEF Cancel, trucks, IInv, TypeOK
<1>5. CASE JoinManager
  BY <1>5 DEF JoinManager, NextManager, trucks
<1>6. CASE UNCHANGED vars
  BY <1>6 DEF vars, trucks
<1> QED  BY <1>1, <1>2, <1>3, <1>4, <1>5, <1>6 DEF Next

\* With a manager at work the program does not come to a stand before the trucks
\* are done, for any numbers of threads and any sizes: when nobody carries a token,
\* all of them are in the semaphores, and one semaphore lets somebody pass.
THEOREM NoStandstill == Spec => []NeverStuck
<1>1. ASSUME IInv, CancelledLate, num_managers > 0, NEW t \in Truck, truck[t] # "done"
      PROVE  (\E u \in Truck : TruckGoes(u)) \/ (\E m \in Manager : ManagerGoes(m))
  <2>1. \A m \in Manager : manager[m] \in {"wait", "lock", "print", "post"}
    BY <1>1 DEF IInv, TypeOK, CancelledLate
  <2>2. CASE mutex # 0
    <3>1. mutex \in Manager /\ manager[mutex] = "print"
      BY <1>1, <2>1, <2>2 DEF IInv, TypeOK, MutexOwned
    <3> QED  BY <3>1 DEF ManagerGoes
  <2>3. CASE mutex = 0 /\ \E u \in Truck : truck[u] \in {"lock", "post"}
    BY <2>3 DEF TruckGoes
  <2>4. CASE mutex = 0 /\ \E m \in Manager : manager[m] \in {"lock", "print", "post"}
    BY <2>4 DEF ManagerGoes
  <2>5. CASE /\ \A u \in Truck : truck[u] \notin {"lock", "post"}
             /\ \A m \in Manager : manager[m] \notin {"lock", "print", "post"}
    <3>1. Carrying = {} /\ Storing = {}
      BY <2>1, <2>5 DEF Carrying, Storing, TrucksAt, ManagersAt
    <3>2. empty + full = BUFFER_SIZE
      <4>1. Cardinality({}) = 0  BY FS_EmptySet
      <4>2. empty + full + 0 + 0 = BUFFER_SIZE
        BY <1>1, <3>1, <4>1 DEF IInv, TokensConserved, Carrying
      <4> QED  BY <1>1, <4>2 DEF IInv, TypeOK
    <3>3. empty > 0 \/ full > 0
      BY <1>1, <3>2, WarehouseAssumption DEF IInv, TypeOK
    <3>4. truck[t] = "wait"  BY <1>1, <2>5 DEF IInv, TypeOK
    <3>5. 1 \in Manager /\ manager[1] = "wait"
      <4>1. 1 \in Manager  BY <1>1, WarehouseAssumption DEF Manager
      <4> QED  BY <2>1, <2>5, <4>1
    <3> QED  BY <3>3, <3>4, <3>5 DEF TruckGoes, ManagerGoes
  <2> QED  BY <2>2, <2>3, <2>4, <2>5
<1>2. IInv /\ CancelledLate => NeverStuck  BY <1>1 DEF NeverStuck
<1>3. IInv /\ CancelledLate /\ [Next]_vars => (IInv /\ CancelledLate)'  BY StepIInv, StepCancelled
<1>4. Init => IInv /\ CancelledLate  BY InitIInv, InitCancelled
<1> QED  BY <1>2, <1>3, <1>4, PTL DEF Spec

----------------------------------------------------------------------------
(* The trucks finish: the variants                                       *)

\* The loads a truck draws after the one it has, and the steps it takes to
\* deliver all: three for each product.
LoadsToCome(t) ==
  IF deliveries[t] + 1 >= MAX_DELIVERIES THEN 0 ELSE MAX_DELIVERIES - deliveries[t] - 1

StepsOfLoad(t) ==
  IF truck[t] = "wait" THEN 3 * products[t]
  ELSE IF truck[t] = "lock" THEN 3 * products[t] - 1
  ELSE 3 * products[t] + 1

TruckToGo(t) ==
  IF truck[t] = "done" THEN 0
  ELSE LoadsToCome(t) * (3 * DELIVERY_MAX_PRODUCTS) + StepsOfLoad(t)

\* A token of full is worth four steps of a manager, the first of which takes it.
StepsOfToken == [wait |-> 0, lock |-> 3, print |-> 2, post |-> 1, exited |-> 0]
TokenCells   == {c \in Manager \X (1 .. 3) : c[2] <= StepsOfToken[manager[c[1]]]}
ManagersToGo == 4 * full + Cardinality(TokenCells)

\* The steps the managers still owe are finitely many.
LEMMA TokenCellsFinite == IsFiniteSet(TokenCells) /\ Cardinality(TokenCells) \in Nat
<1>1. 0 \in Int /\ 1 \in Int /\ 3 \in Int /\ num_managers \in Int  BY WarehouseAssumption
<1>2. IsFiniteSet(Manager) /\ IsFiniteSet(1 .. 3)  BY <1>1, FS_Interval, Zenon DEF Manager
<1>3. IsFiniteSet(Manager \X (1 .. 3))  BY <1>2, FS_Product
<1>4. TokenCells \in SUBSET (Manager \X (1 .. 3))  BY DEF TokenCells
<1> QED  BY <1>3, <1>4, FS_Subset, FS_CardinalityType

\* The variant of a truck is a number.
LEMMA TruckToGoNat ==
  ASSUME IInv, NEW t \in Truck
  PROVE  TruckToGo(t) \in Nat
<1>1. products[t] \in Nat /\ deliveries[t] \in Int /\ DELIVERY_MAX_PRODUCTS \in Nat /\ MAX_DELIVERIES \in Nat
  BY WarehouseAssumption DEF IInv, TypeOK
<1>2. LoadsToCome(t) \in Nat  BY <1>1 DEF LoadsToCome
<1>3. StepsOfLoad(t) \in Nat
  BY <1>1 DEF StepsOfLoad, IInv, ProgressInv
<1>4. PICK a \in Nat, b \in Nat, c \in Nat :
        a = LoadsToCome(t) /\ b = 3 * DELIVERY_MAX_PRODUCTS /\ c = StepsOfLoad(t)
  BY <1>1, <1>2, <1>3
<1>5. a * b + c \in Nat  OBVIOUS
<1> QED  BY <1>4, <1>5 DEF TruckToGo

\* A step of a truck: the rest of the load, or of the loads, grows less.
LEMMA TruckGetsOn ==
  ASSUME IInv, NEW t \in Truck, delivery_truck(t)
  PROVE  /\ TruckToGo(t)' < TruckToGo(t)
         /\ \A u \in Truck : u # t => TruckToGo(u)' = TruckToGo(u)
<1>1. /\ products \in [Truck -> 0 .. DELIVERY_MAX_PRODUCTS] /\ deliveries \in [Truck -> Int]
      /\ truck \in [Truck -> {"wait", "lock", "post", "done"}]
      /\ DELIVERY_MAX_PRODUCTS \in Nat /\ MAX_DELIVERIES \in Nat
  BY WarehouseAssumption DEF IInv, TypeOK
<1>2. ASSUME NEW u \in Truck, u # t PROVE TruckToGo(u)' = TruckToGo(u)
  <2>1. truck'[u] = truck[u] /\ products'[u] = products[u] /\ deliveries'[u] = deliveries[u]
    BY <1>1, <1>2 DEF delivery_truck, TruckWait, Deliver, TruckPost, TruckDelivered
  <2> QED  BY <2>1 DEF TruckToGo, LoadsToCome, StepsOfLoad
<1>3. TruckToGo(t)' < TruckToGo(t)
  <2>1. PICK p \in Nat, L \in Nat, b \in Nat :
          /\ p = products[t] /\ L = LoadsToCome(t) /\ b = 3 * DELIVERY_MAX_PRODUCTS
    <3>1. LoadsToCome(t) \in Nat  BY <1>1 DEF LoadsToCome
    <3> QED  BY <1>1, <3>1
  <2>2. L * b \in Nat  OBVIOUS
  <2>3. ASSUME UNCHANGED deliveries, NEW m \in Nat, NEW k \in Nat, m < k,
               TruckToGo(t) = L * b + k, TruckToGo(t)' = L * b + m
        PROVE  TruckToGo(t)' < TruckToGo(t)
    BY <2>2, <2>3
  <2>4. UNCHANGED deliveries => LoadsToCome(t)' = L  BY <2>1 DEF LoadsToCome
  <2>5. CASE TruckWait(t)
    <3>1. truck[t] = "wait" /\ truck'[t] = "lock" /\ products'[t] = p /\ UNCHANGED deliveries
      BY <1>1, <2>1, <2>5 DEF TruckWait
    <3>2. p > 0  BY <2>1, <3>1 DEF IInv, ProgressInv
    <3>3. TruckToGo(t) = L * b + 3 * p /\ TruckToGo(t)' = L * b + (3 * p - 1)
      BY <2>1, <2>4, <3>1 DEF TruckToGo, StepsOfLoad
    <3> QED  BY <2>2, <3>2, <3>3
  <2>6. CASE Deliver(t)
    <3>1. truck[t] = "lock" /\ truck'[t] = "post" /\ products'[t] = p - 1 /\ UNCHANGED deliveries
      BY <1>1, <2>1, <2>6 DEF Deliver
    <3>2. p > 0  BY <2>1, <3>1 DEF IInv, ProgressInv
    <3>3. TruckToGo(t) = L * b + (3 * p - 1) /\ TruckToGo(t)' = L * b + (3 * (p - 1) + 1)
      BY <2>1, <2>4, <3>1 DEF TruckToGo, StepsOfLoad
    <3> QED  BY <2>2, <3>2, <3>3
  <2>7. CASE TruckPost(t)
    <3>1. truck[t] = "post" /\ truck'[t] = "wait" /\ products'[t] = p /\ UNCHANGED deliveries
      BY <1>1, <2>1, <2>7 DEF TruckPost
    <3>3. TruckToGo(t) = L * b + (3 * p + 1) /\ TruckToGo(t)' = L * b + 3 * p
      BY <2>1, <2>4, <3>1 DEF TruckToGo, StepsOfLoad
    <3> QED  BY <2>2, <3>3
  <2>8. CASE TruckDelivered(t)
    <3>1. /\ truck[t] = "post" /\ p = 0 /\ deliveries'[t] = deliveries[t] + 1
          /\ IF deliveries[t] + 1 >= MAX_DELIVERIES
               THEN truck'[t] = "done"
               ELSE truck'[t] = "wait" /\ products'[t] \in 1 .. DELIVERY_MAX_PRODUCTS
      BY <1>1, <2>1, <2>8 DEF TruckDelivered
    <3>2. TruckToGo(t) = L * b + 1  BY <2>1, <3>1 DEF TruckToGo, StepsOfLoad
    <3>3. CASE deliveries[t] + 1 >= MAX_DELIVERIES
      <4>1. TruckToGo(t)' = 0  BY <3>1, <3>3 DEF TruckToGo
      <4> QED  BY <2>2, <3>2, <4>1
    <3>4. CASE ~(deliveries[t] + 1 >= MAX_DELIVERIES)
      <4>1. PICK n \in 1 .. DELIVERY_MAX_PRODUCTS : n = products'[t]  BY <3>1, <3>4
      <4>2. L >= 1 /\ LoadsToCome(t)' = L - 1
        BY <1>1, <2>1, <3>1, <3>4 DEF LoadsToCome
      <4>3. TruckToGo(t)' = (L - 1) * b + 3 * n
        BY <2>1, <3>1, <3>4, <4>1, <4>2 DEF TruckToGo, StepsOfLoad
      <4>4. (L - 1) * b = L * b - b  BY <4>2
      <4>5. 3 * n <= b /\ 3 * n \in Nat  BY <1>1, <2>1
      <4> QED  BY <2>2, <3>2, <4>3, <4>4, <4>5
    <3> QED  BY <3>3, <3>4
  <2> QED  BY <2>5, <2>6, <2>7, <2>8 DEF delivery_truck
<1> QED  BY <1>2, <1>3

\* A step of a manager that nobody has cancelled uses up a part of a token.
LEMMA ManagerGetsOn ==
  ASSUME IInv, NEW m \in Manager, storage_manager(m), m \notin cancelled
  PROVE  ManagersToGo' < ManagersToGo /\ UNCHANGED trucks
<1>1. /\ manager \in [Manager -> {"wait", "lock", "print", "post", "exited"}] /\ full \in Nat
      /\ UNCHANGED trucks
  BY DEF IInv, TypeOK, storage_manager, ManagerWait, Remove, Unlock, ManagerPost, CancelPoint
<1>2. ASSUME NEW at, manager' = [manager EXCEPT ![m] = at], UNCHANGED full,
             \/ manager[m] = "lock" /\ at = "print"
             \/ manager[m] = "print" /\ at = "post"
             \/ manager[m] = "post" /\ at = "wait"
      PROVE  ManagersToGo' < ManagersToGo
  <2>1. PICK k \in 1 .. 3 : k = StepsOfToken[manager[m]] /\ k - 1 = StepsOfToken[at]
    BY <1>2 DEF StepsOfToken
  <2>2. <<m, k>> \in TokenCells  BY <2>1 DEF TokenCells
  <2>3. TokenCells' = TokenCells \ {<<m, k>>}
    <3>1. ASSUME NEW q \in Manager, NEW j \in 1 .. 3
          PROVE  j <= StepsOfToken[manager'[q]] <=> j <= StepsOfToken[manager[q]] /\ <<q, j>> # <<m, k>>
      <4>1. CASE q = m
        <5>1. manager'[q] = at  BY <1>1, <1>2, <4>1
        <5> QED  BY <2>1, <4>1, <5>1
      <4>2. CASE q # m  BY <1>1, <1>2, <4>2
      <4> QED  BY <4>1, <4>2
    <3> QED  BY <3>1 DEF TokenCells
  <2>4. Cardinality(TokenCells') = Cardinality(TokenCells) - 1
    BY <2>2, <2>3, TokenCellsFinite, FS_RemoveElement
  <2> QED  BY <1>1, <1>2, <2>4, TokenCellsFinite DEF ManagersToGo
<1>3. CASE ManagerWait(m)
  <2>1. manager[m] = "wait" /\ full > 0 /\ full' = full - 1 /\ manager' = [manager EXCEPT ![m] = "lock"]
    BY <1>3 DEF ManagerWait
  <2>2. \A k \in 1 .. 3 : <<m, k>> \notin TokenCells  BY <2>1 DEF TokenCells, StepsOfToken
  <2>3. TokenCells' = ((TokenCells \cup {<<m, 1>>}) \cup {<<m, 2>>}) \cup {<<m, 3>>}
    <3>1. ASSUME NEW q \in Manager, NEW j \in 1 .. 3
          PROVE  j <= StepsOfToken[manager'[q]] <=> j <= StepsOfToken[manager[q]] \/ q = m
      <4>1. CASE q = m
        <5>1. manager'[q] = "lock"  BY <1>1, <2>1, <4>1
        <5> QED  BY <4>1, <5>1 DEF StepsOfToken
      <4>2. CASE q # m  BY <1>1, <2>1, <4>2
      <4> QED  BY <4>1, <4>2
    <3>2. \A j \in 1 .. 3 : j \in {1, 2, 3}  OBVIOUS
    <3> QED  BY <3>1, <3>2 DEF TokenCells
  <2>4. Cardinality(TokenCells') = Cardinality(TokenCells) + 3
    <3> DEFINE A == TokenCells
               B == A \cup {<<m, 1>>}
               C == B \cup {<<m, 2>>}
    <3>1. IsFiniteSet(A) /\ Cardinality(A) \in Nat  BY TokenCellsFinite
    <3>2. <<m, 1>> \notin A /\ <<m, 2>> \notin B /\ <<m, 3>> \notin C  BY <2>2
    <3> HIDE DEF A
    <3>3. IsFiniteSet(B) /\ Cardinality(B) = Cardinality(A) + 1  BY <3>1, <3>2, FS_AddElement
    <3> HIDE DEF B
    <3>4. IsFiniteSet(C) /\ Cardinality(C) = Cardinality(B) + 1  BY <3>2, <3>3, FS_AddElement
    <3> HIDE DEF C
    <3>5. Cardinality(C \cup {<<m, 3>>}) = Cardinality(C) + 1  BY <3>2, <3>4, FS_AddElement
    <3>6. TokenCells' = C \cup {<<m, 3>>}  BY <2>3 DEF A, B, C
    <3> QED  BY <3>1, <3>3, <3>4, <3>5, <3>6 DEF A
  <2> QED  BY <1>1, <2>1, <2>4, TokenCellsFinite DEF ManagersToGo
<1> QED
  BY <1>1, <1>2, <1>3 DEF storage_manager, Remove, Unlock, ManagerPost, CancelPoint

\* While a truck is not done no thread can keep the program busy for ever: a step
\* of a truck brings its end nearer, and a step of a manager uses up what is left of
\* a token that some truck has posted.  With NoStandstill, the trucks finish.
GetsOn ==
  (\E t \in Truck : truck[t] # "done") =>
    \/ \E t \in Truck : /\ TruckToGo(t)' < TruckToGo(t)
                        /\ \A u \in Truck : u # t => TruckToGo(u)' = TruckToGo(u)
    \/ ManagersToGo' < ManagersToGo /\ UNCHANGED trucks

\* Neither the trucks nor the managers keep the program busy for ever while a truck
\* is not done: their variants are numbers, and every step lowers one of them.
THEOREM NobodyKeepsBusy ==
  Spec => [](ManagersToGo \in Nat /\ \A t \in Truck : TruckToGo(t) \in Nat) /\ [][GetsOn]_vars
<1>1. IInv => ManagersToGo \in Nat /\ \A t \in Truck : TruckToGo(t) \in Nat
  BY TokenCellsFinite, TruckToGoNat DEF ManagersToGo, IInv, TypeOK
<1>2. IInv /\ CancelledLate /\ [Next]_vars => [GetsOn]_vars
  <2> SUFFICES ASSUME IInv, CancelledLate, Next, \E t \in Truck : truck[t] # "done" PROVE GetsOn
    BY DEF GetsOn
  <2>1. main.at = "trucks" /\ cancelled = {}  BY DEF CancelledLate
  <2>2. ASSUME NEW t \in Truck, delivery_truck(t) PROVE GetsOn  BY <2>2, TruckGetsOn DEF GetsOn
  <2>3. ASSUME NEW m \in Manager, storage_manager(m) PROVE GetsOn
    BY <2>1, <2>3, ManagerGetsOn DEF GetsOn
  <2> QED  BY <2>1, <2>2, <2>3 DEF Next, JoinTrucks, Cancel, JoinManager
<1>3. IInv /\ CancelledLate /\ [Next]_vars => (IInv /\ CancelledLate)'  BY StepIInv, StepCancelled
<1>4. Init => IInv /\ CancelledLate  BY InitIInv, InitCancelled
<1> QED  BY <1>1, <1>2, <1>3, <1>4, PTL DEF Spec
============================================================================
