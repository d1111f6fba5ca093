---------------------------- MODULE Warehouse ----------------------------
(***************************************************************************)
(* Multithreading/q3.c: delivery trucks put products one at a time into a  *)
(* ring buffer, storage managers take several at once; main joins the      *)
(* trucks, then cancels and joins the managers one after the other.        *)
(***************************************************************************)
EXTENDS Integers, FiniteSets

CONSTANTS num_trucks, num_managers,
          BUFFER_SIZE, DELIVERY_MAX_PRODUCTS, STORAGE_MAX_PRODUCTS, MAX_DELIVERIES,
          Garbage   \* what may lie in memory behind the array deliveries

ASSUME WarehouseAssumption ==
  /\ num_trucks \in Nat \ {0}
  /\ num_managers \in Nat
  /\ BUFFER_SIZE \in Nat \ {0}
  /\ DELIVERY_MAX_PRODUCTS \in Nat \ {0}
  /\ STORAGE_MAX_PRODUCTS \in Nat \ {0}
  /\ MAX_DELIVERIES \in Nat \ {0}
  /\ Garbage \subseteq Int

VARIABLES buffer, count, in, out,   \* the ring
          empty, full,              \* the semaphores
          mutex,                    \* the manager that has it, 0 if none
          truck,                    \* where each truck is
          products,                 \* what each truck has yet to deliver
          deliveries,               \* the array, read and written one past its end
          manager,                  \* where each manager is
          cancelled,                \* managers with a pending pthread_cancel
          main,                     \* where main is: the step and the manager it is at
          made                      \* history: the deliveries each truck has made

ring   == <<buffer, count, in, out>>
trucks == <<truck, products, deliveries, made>>
vars   == <<ring, empty, full, mutex, trucks, manager, cancelled, main>>

Truck   == 1 .. num_trucks
Manager == 1 .. num_managers
Slot    == 0 .. BUFFER_SIZE - 1

Init ==
  /\ buffer = [i \in Slot |-> 0] /\ count = 0 /\ in = 0 /\ out = 0
  /\ empty = BUFFER_SIZE /\ full = 0 /\ mutex = 0
  /\ truck = [t \in Truck |-> "wait"]
  /\ products \in [Truck -> 1 .. DELIVERY_MAX_PRODUCTS]
  \* The ids run from 1, the indices from 0: the last truck's is out of bounds.
  /\ \E g \in Garbage : deliveries = [t \in Truck |-> IF t < num_trucks THEN 0 ELSE g]
  /\ manager = [m \in Manager |-> "wait"]
  /\ cancelled = {}
  /\ main = [at |-> "trucks", next |-> 1]
  /\ made = [t \in Truck |-> 0]

----------------------------------------------------------------------------
(* delivery_truck                                                          *)

TruckWait(t) ==
  /\ truck[t] = "wait"
  /\ empty > 0
  /\ empty' = empty - 1
  /\ truck' = [truck EXCEPT ![t] = "lock"]
  /\ UNCHANGED <<ring, full, mutex, products, deliveries, made, manager, cancelled, main>>

\* Faulty variant: the index goes round the other way.
NextSlotBackwards(i) == (i + BUFFER_SIZE - 1) % BUFFER_SIZE

NextSlot(i) == (i + 1) % BUFFER_SIZE

\* The critical section: nothing can interrupt a truck in it, trucks are not
\* cancelled, so it is one step.
Deliver(t) ==
  /\ truck[t] = "lock" /\ mutex = 0
  /\ buffer' = [buffer EXCEPT ![in] = 1]
  /\ in' = NextSlot(in)
  /\ count' = count + 1
  /\ products' = [products EXCEPT ![t] = @ - 1]
  /\ truck' = [truck EXCEPT ![t] = "post"]
  /\ UNCHANGED <<out, empty, full, mutex, deliveries, made, manager, cancelled, main>>

\* Faulty variant: the token goes back to the semaphore it came from.
TruckPostEmpty(t) ==
  /\ truck[t] = "post" /\ products[t] > 0
  /\ empty' = empty + 1
  /\ truck' = [truck EXCEPT ![t] = "wait"]
  /\ UNCHANGED <<ring, full, mutex, products, deliveries, made, manager, cancelled, main>>

\* sem_post(&full) with products left to deliver.
TruckPost(t) ==
  /\ truck[t] = "post" /\ products[t] > 0
  /\ full' = full + 1
  /\ truck' = [truck EXCEPT ![t] = "wait"]
  /\ UNCHANGED <<ring, empty, mutex, products, deliveries, made, manager, cancelled, main>>

\* sem_post(&full) after the last product: the delivery is counted and the
\* truck exits or draws another load.
TruckDelivered(t) ==
  /\ truck[t] = "post" /\ products[t] = 0
  /\ full' = full + 1
  /\ deliveries' = [deliveries EXCEPT ![t] = @ + 1]
  /\ made' = [made EXCEPT ![t] = @ + 1]
  /\ IF deliveries[t] + 1 >= MAX_DELIVERIES
       THEN /\ truck' = [truck EXCEPT ![t] = "done"]
            /\ UNCHANGED products
       ELSE /\ truck' = [truck EXCEPT ![t] = "wait"]
            /\ \E n \in 1 .. DELIVERY_MAX_PRODUCTS : products' = [products EXCEPT ![t] = n]
  /\ UNCHANGED <<ring, empty, mutex, manager, cancelled, main>>

delivery_truck(t) == TruckWait(t) \/ Deliver(t) \/ TruckPost(t) \/ TruckDelivered(t)

----------------------------------------------------------------------------
(* storage_manager.  Cancellation is deferred: it takes effect in sem_wait *)
(* and sleep, and may take effect in printf, which is called with the      *)
(* mutex locked.                                                           *)

ManagerWait(m) ==
  /\ manager[m] = "wait" /\ m \notin cancelled
  /\ full > 0
  /\ full' = full - 1
  /\ manager' = [manager EXCEPT ![m] = "lock"]
  /\ UNCHANGED <<ring, empty, mutex, trucks, cancelled, main>>

\* Faulty variant: count is not checked for each product.
LimitedNot(drawn) == drawn

\* The products a manager has drawn are limited by those in the warehouse.
Limited(drawn) == IF drawn <= count THEN drawn ELSE count

Remove(m) ==
  /\ manager[m] = "lock" /\ mutex = 0
  /\ mutex' = m
  /\ \E drawn \in 1 .. STORAGE_MAX_PRODUCTS :
       LET n == Limited(drawn)
       IN  /\ buffer' = [i \in Slot |->
                IF \E k \in 0 .. n - 1 : i = (out + k) % BUFFER_SIZE THEN 0 ELSE buffer[i]]
           /\ out' = (out + n) % BUFFER_SIZE
           /\ count' = count - n
  /\ manager' = [manager EXCEPT ![m] = "print"]
  /\ UNCHANGED <<in, empty, full, trucks, cancelled, main>>

Unlock(m) ==
  /\ manager[m] = "print"
  /\ mutex' = 0
  /\ manager' = [manager EXCEPT ![m] = "post"]
  /\ UNCHANGED <<ring, empty, full, trucks, cancelled, main>>

\* Faulty variant: one token for every storage, posted to both semaphores.
ManagerPostBoth(m) ==
  /\ manager[m] = "post"
  /\ empty' = empty + 1 /\ full' = full + 1
  /\ manager' = [manager EXCEPT ![m] = "wait"]
  /\ UNCHANGED <<ring, mutex, trucks, cancelled, main>>

\* Faulty variant: the token goes back to the semaphore it came from.
ManagerPostFull(m) ==
  /\ manager[m] = "post"
  /\ full' = full + 1
  /\ manager' = [manager EXCEPT ![m] = "wait"]
  /\ UNCHANGED <<ring, empty, mutex, trucks, cancelled, main>>

ManagerPost(m) ==
  /\ manager[m] = "post"
  /\ empty' = empty + 1
  /\ manager' = [manager EXCEPT ![m] = "wait"]
  /\ UNCHANGED <<ring, full, mutex, trucks, cancelled, main>>

\* Cancelled in sleep or sem_wait, or in printf with the mutex locked.
CancelPoint(m) ==
  /\ m \in cancelled /\ manager[m] \in {"wait", "print"}
  /\ manager' = [manager EXCEPT ![m] = "exited"]
  /\ UNCHANGED <<ring, empty, full, mutex, trucks, cancelled, main>>

storage_manager(m) ==
  ManagerWait(m) \/ Remove(m) \/ Unlock(m) \/ ManagerPost(m) \/ CancelPoint(m)

----------------------------------------------------------------------------
(* main                                                                    *)

NextManager(i) == [at |-> IF i <= num_managers THEN "cancel" ELSE "done", next |-> i]

JoinTrucks ==
  /\ main.at = "trucks"
  /\ \A t \in Truck : truck[t] = "done"
  /\ main' = NextManager(1)
  /\ UNCHANGED <<ring, empty, full, mutex, trucks, manager, cancelled>>

Cancel ==
  /\ main.at = "cancel"
  /\ cancelled' = cancelled \cup {main.next}
  /\ main' = [main EXCEPT !.at = "join"]
  /\ UNCHANGED <<ring, empty, full, mutex, trucks, manager>>

JoinManager ==
  /\ main.at = "join"
  /\ manager[main.next] = "exited"
  /\ main' = NextManager(main.next + 1)
  /\ UNCHANGED <<ring, empty, full, mutex, trucks, manager, cancelled>>

Next ==
  \/ \E t \in Truck : delivery_truck(t)
  \/ \E m \in Manager : storage_manager(m)
  \/ JoinTrucks \/ Cancel \/ JoinManager

\* Every thread that can take a step eventually does.
Fairness ==
  /\ \A t \in Truck : WF_vars(delivery_truck(t))
  /\ \A m \in Manager : WF_vars(storage_manager(m))
  /\ WF_vars(JoinTrucks \/ Cancel \/ JoinManager)

Spec     == Init /\ [][Next]_vars
FairSpec == Spec /\ Fairness

----------------------------------------------------------------------------
TrucksAt(label)   == {t \in Truck : truck[t] = label}
ManagersAt(label) == {m \in Manager : manager[m] = label}

(* The types of the variables. *)
TypeOK ==
  /\ buffer \in [Slot -> {0, 1}] /\ in \in Slot /\ out \in Slot
  /\ count \in 0 .. BUFFER_SIZE
  /\ empty \in 0 .. BUFFER_SIZE /\ full \in 0 .. BUFFER_SIZE
  /\ mutex \in Manager \cup {0}
  /\ truck \in [Truck -> {"wait", "lock", "post", "done"}]
  /\ products \in [Truck -> 0 .. DELIVERY_MAX_PRODUCTS]
  /\ deliveries \in [Truck -> Int] /\ made \in [Truck -> Nat]
  /\ manager \in [Manager -> {"wait", "lock", "print", "post", "exited"}]
  /\ cancelled \subseteq Manager
  /\ main \in [at : {"trucks", "cancel", "join", "done"}, next : 1 .. num_managers + 1]

\* Managers that took a token of full and have not posted one to empty; one
\* cancelled in printf still has the mutex, and never will.
Storing == ManagersAt("lock") \cup ManagersAt("print") \cup ManagersAt("post")
             \cup (ManagersAt("exited") \cap {mutex})

(* Tokens are neither lost nor made: those of the two semaphores and those *)
(* that threads are carrying from one to the other are BUFFER_SIZE.        *)
TokensConserved ==
  empty + full + Cardinality(TrucksAt("lock") \cup TrucksAt("post"))
    + Cardinality(Storing) = BUFFER_SIZE

(* A manager takes up to STORAGE_MAX_PRODUCTS products for one token of    *)
(* full and posts one token to empty.  That is safe: a product in the      *)
(* warehouse always has a token that is in full, or about to be posted to  *)
(* it, or was taken by a manager that has not stored yet.                  *)
ProductsCovered ==
  count <= full + Cardinality(TrucksAt("post")) + Cardinality(ManagersAt("lock"))

(* The products are in the slots from out up to in, and nowhere else: a    *)
(* truck that has waited for empty finds its slot free.                    *)
RingFilled ==
  /\ in = (out + count) % BUFFER_SIZE
  /\ \A k \in Slot : buffer[(out + k) % BUFFER_SIZE] = IF k < count THEN 1 ELSE 0
  /\ \A t \in TrucksAt("lock") : buffer[in] = 0

(* With a manager at work all trucks get rid of their products, though     *)
(* they may wait for a token while the warehouse is empty.                 *)
TrucksFinish == <>(\A t \in Truck : truck[t] = "done")

(* A truck that exits has made MAX_DELIVERIES deliveries (its message,     *)
(* q3.c:52).                                                               *)
DeliveriesMade == \A t \in TrucksAt("done") : made[t] = MAX_DELIVERIES

(* The program ends by printing the final inventory (q3.c:137).            *)
FinalInventory == <>(main.at = "done")
============================================================================
