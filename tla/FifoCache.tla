------------------------------ MODULE FifoCache ------------------------------
(***************************************************************************)
(* What a translation buffer promises: an address is translated to itself  *)
(* (the mapping of pages to frames is one to one) and the translation      *)
(* counts as a hit exactly if its page is among the last Capacity pages    *)
(* that missed.                                                            *)
(***************************************************************************)
EXTENDS Naturals, Sequences

CONSTANTS Address, Capacity, PageOf(_)

VARIABLES queue,          \* the pages in the cache, the oldest first
          hits, misses,
          answer          \* the last translation

Cached(p) == \E k \in 1 .. Len(queue) : queue[k] = p

FifoInit ==
  /\ queue = <<>>
  /\ hits = 0 /\ misses = 0
  /\ answer = [physical |-> <<0, 0>>, hit |-> FALSE]

Hit(a) ==
  /\ Cached(PageOf(a))
  /\ hits' = hits + 1
  /\ answer' = [physical |-> a, hit |-> TRUE]
  /\ UNCHANGED <<queue, misses>>

Miss(a) ==
  /\ ~Cached(PageOf(a))
  /\ queue' = Append(IF Len(queue) = Capacity THEN Tail(queue) ELSE queue, PageOf(a))
  /\ misses' = misses + 1
  /\ answer' = [physical |-> a, hit |-> FALSE]
  /\ UNCHANGED hits

FifoNext == \E a \in Address : Hit(a) \/ Miss(a)

FifoSpec == FifoInit /\ [][FifoNext]_<<queue, hits, misses, answer>>
=============================================================================
