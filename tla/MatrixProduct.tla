----------------------------- MODULE MatrixProduct -----------------------------
(***************************************************************************)
(* Multithreading/q4p1.c: a thread for every element of the product.       *)
(* main joins them, prints the product, computes it again by itself for a  *)
(* comparison of the times, and frees the matrices.                        *)
(***************************************************************************)
EXTENDS Integers

CONSTANT ELEMENTS    \* m * p

ASSUME MatrixProductAssumption == ELEMENTS \in Nat \ {0}

VARIABLES mt_main,      \* where main is
          mt_created,   \* thread_index
          mt_joined,    \* how many threads main has joined
          mt_C          \* the elements of C that are stored

mt_vars == <<mt_main, mt_created, mt_joined, mt_C>>

MTInit == mt_main = "create" /\ mt_created = 0 /\ mt_joined = 0 /\ mt_C = {}

CreateThread ==
  /\ mt_main = "create"
  /\ mt_created' = mt_created + 1
  /\ mt_main' = IF mt_created' = ELEMENTS THEN "join" ELSE "create"
  /\ UNCHANGED <<mt_joined, mt_C>>

\* The thread stores its element, frees its data and ends.
compute_element ==
  /\ \E t \in 1 .. mt_created \ mt_C : mt_C' = mt_C \cup {t}
  /\ UNCHANGED <<mt_main, mt_created, mt_joined>>

\* Faulty variant: the last thread is not joined.
JoinableShort(i) == i + 1 = ELEMENTS \/ i + 1 \in mt_C

Joinable(i) == i + 1 \in mt_C

JoinThread ==
  /\ mt_main = "join" /\ Joinable(mt_joined)
  /\ mt_joined' = mt_joined + 1
  /\ mt_main' = IF mt_joined' = ELEMENTS THEN "print" ELSE "join"
  /\ UNCHANGED <<mt_created, mt_C>>

\* main prints C, computes all of it again, and frees it.
Finish ==
  /\ \/ mt_main = "print"      /\ mt_main' = "sequential" /\ UNCHANGED mt_C
     \/ mt_main = "sequential" /\ mt_main' = "free"       /\ mt_C' = 1 .. ELEMENTS
     \/ mt_main = "free"       /\ mt_main' = "exited"     /\ UNCHANGED mt_C
  /\ UNCHANGED <<mt_created, mt_joined>>

MTNext == CreateThread \/ compute_element \/ JoinThread \/ Finish

----------------------------------------------------------------------------
(* Properties                                                              *)

\* Whatever the order of the threads, the product main prints is complete, and
\* no thread is there that could store into matrices which main writes or frees.
ProductComplete == mt_main \notin {"create", "join"} => mt_C = 1 .. ELEMENTS
=============================================================================
