--------------------------- MODULE ForkBinarySearch ---------------------------
(***************************************************************************)
(* Fork, Wait, Exec, Process Scheduling/q2.c: binary search in which every *)
(* step is made by a child of the process that made the one before, and    *)
(* each waits for its child.  The prompt, which every process of the chain *)
(* writes again unless stdout is a terminal, is left out.                  *)
(***************************************************************************)
EXTENDS Integers, Sequences

CONSTANT ARRAY_SIZE    \* 16 in the code

ASSUME BinarySearchAssumption == ARRAY_SIZE \in Nat \ {0}

VARIABLES bs_target,
          bs_chain,    \* the processes, each with its bounds and where it is
          bs_answers   \* the indices printed; -1 for none

bs_vars == <<bs_target, bs_chain, bs_answers>>

arr(i) == i + 1
Bounds(first, last) == [start |-> first, end |-> last, at |-> "search"]

BSInit ==
  /\ bs_target \in 0 .. ARRAY_SIZE + 1
  /\ bs_chain = <<Bounds(0, ARRAY_SIZE - 1)>>
  /\ bs_answers = <<>>

BSLast == bs_chain[Len(bs_chain)]
mid    == BSLast.start + (BSLast.end - BSLast.start) \div 2
Move(k, at) == [bs_chain EXCEPT ![k].at = at]

\* Faulty variant: the element before the middle is left out.
NarrowedShort == IF arr(mid) < bs_target THEN Bounds(mid + 1, BSLast.end) ELSE Bounds(BSLast.start, mid - 2)

Narrowed == IF arr(mid) < bs_target THEN Bounds(mid + 1, BSLast.end) ELSE Bounds(BSLast.start, mid - 1)

\* The last process prints -1 or the index and exits.
Answer ==
  /\ BSLast.at = "search"
  /\ BSLast.start > BSLast.end \/ arr(mid) = bs_target
  /\ bs_answers' = Append(bs_answers, IF BSLast.start > BSLast.end THEN -1 ELSE mid)
  /\ bs_chain' = Move(Len(bs_chain), "exited")
  /\ UNCHANGED bs_target

Descend ==
  /\ BSLast.at = "search"
  /\ BSLast.start <= BSLast.end /\ arr(mid) # bs_target
  /\ \/ bs_chain' = Append(Move(Len(bs_chain), "wait"), Narrowed)
     \/ bs_chain' = Move(Len(bs_chain), "failed")     \* fork returns -1
  /\ UNCHANGED <<bs_target, bs_answers>>

\* wait(NULL) returns, and the process exits.
Return ==
  /\ \E k \in 1 .. Len(bs_chain) - 1 :
       /\ bs_chain[k].at = "wait"
       /\ bs_chain[k + 1].at \in {"exited", "failed"}
       /\ bs_chain' = Move(k, "exited")
  /\ UNCHANGED <<bs_target, bs_answers>>

BSNext == Answer \/ Descend \/ Return

----------------------------------------------------------------------------
(* Properties                                                              *)

\* Beyond the one that finds nothing left to search, the chain is no longer
\* than halving allows; and when the first process exits every process has.
\* Then exactly one of them has answered, with the index of the target or -1,
\* unless a fork has failed, and then none has.
OneAnswer ==
  /\ Len(bs_chain) > 1 => 2 ^ (Len(bs_chain) - 2) <= ARRAY_SIZE
  /\ bs_chain[1].at \in {"exited", "failed"} =>
       /\ \A k \in 1 .. Len(bs_chain) : bs_chain[k].at \in {"exited", "failed"}
       /\ bs_answers = IF \E k \in 1 .. Len(bs_chain) : bs_chain[k].at = "failed" THEN <<>>
                       ELSE IF bs_target \in 1 .. ARRAY_SIZE THEN <<bs_target - 1>> ELSE <<-1>>
=============================================================================
