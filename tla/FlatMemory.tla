---------------------------- MODULE FlatMemory ----------------------------
(***************************************************************************)
(* What the demand-paged memory of "Segmentation, Paging, IPC/q4.c"        *)
(* promises its user: one byte per virtual address, 0 until it is stored,  *)
(* with no trace of pages, frames or tables.                               *)
(***************************************************************************)
CONSTANTS Address, Byte

VARIABLES memory,  \* the byte at each virtual address
          value,   \* the byte last loaded or stored
          running  \* the session has not been quit

vars == <<memory, value, running>>

Zeroed == [va \in Address |-> 0]

Init == memory = Zeroed /\ value \in Byte /\ running = TRUE

Load(va) ==
  /\ running
  /\ value' = memory[va]
  /\ UNCHANGED <<memory, running>>

Store(va, v) ==
  /\ running
  /\ memory' = [memory EXCEPT ![va] = v]
  /\ value' = v
  /\ UNCHANGED running

\* The memory is released.
Quit ==
  /\ running
  /\ running' = FALSE
  /\ memory' = Zeroed
  /\ UNCHANGED value

Next == (\E va \in Address : Load(va) \/ \E v \in Byte : Store(va, v)) \/ Quit

Spec == Init /\ [][Next]_vars
============================================================================
