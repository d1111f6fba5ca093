----------------------------- MODULE Segmentation -----------------------------
(***************************************************************************)
(* Segmentation, Paging, IPC/q2.c: 16-bit addresses whose top two bits     *)
(* name a segment are translated by base and size.  The stack's offset is  *)
(* counted back from 4096, in int and unsigned int by turns.               *)
(***************************************************************************)
EXTENDS Integers

CONSTANT Inputs     \* the addresses that are asked for

Address16 == 0 .. 65535

ASSUME SegmentationAssumption == Inputs \subseteq Address16

Segment == [code  |-> [base |-> 32768, size |-> 2048],
            heap  |-> [base |-> 34816, size |-> 3072],
            stack |-> [base |-> 28672, size |-> 2048]]

Selected(address)  == (address \div 16384) % 4
SegOffset(address) == address % 16384

\* An int compared with an unsigned int is converted: a negative one is larger
\* than every size.
AtMostUnsigned(int, unsigned) == int >= 0 /\ int <= unsigned

Mapped(physical) == [fault |-> FALSE, physical |-> physical]
Fault == [fault |-> TRUE, physical |-> 0]

\* Faulty variant: the limit itself is let through.
translateUpwardLax(segment, off) ==
  IF off <= segment.size THEN Mapped(segment.base + off) ELSE Fault

translateUpward(segment, off) ==
  IF off < segment.size THEN Mapped(segment.base + off) ELSE Fault

translateStack(segment, off) ==
  LET negativeOffset == off - 4096
  IN  IF AtMostUnsigned(negativeOffset, segment.size)
        THEN Mapped(segment.base + negativeOffset)
        ELSE Fault

translateAddress(address) ==
  CASE Selected(address) = 0 -> translateUpward(Segment.code, SegOffset(address))
    [] Selected(address) = 1 -> translateUpward(Segment.heap, SegOffset(address))
    [] Selected(address) = 2 -> translateStack(Segment.stack, SegOffset(address))
    [] Selected(address) = 3 -> Fault      \* "Invalid Segment"

VARIABLES address, reply    \* the last address asked for and what was printed

SegInit ==
  /\ address \in Inputs
  /\ reply = translateAddress(address)

Translate(a) ==
  /\ address' = a
  /\ reply' = translateAddress(a)

SegNext == \E a \in Inputs : Translate(a)

SegSpec == SegInit /\ [][SegNext]_<<address, reply>>

----------------------------------------------------------------------------
(* Properties                                                              *)

\* Two addresses never share a byte of memory.  In particular no segment
\* reaches into another, although the stack's is let through one byte past its
\* size, and above its base.
SegmentsDisjoint ==
  \A a \in Inputs : a # address /\ ~reply.fault => translateAddress(a) # reply

\* The stack grows down from its base: "To account for the stack growing
\* downwards" the offset counts back from the 4KB a segment can have, so the
\* topmost 2KB of the 4KB are the stack and lie below the base.
StackGrowsDown ==
  Selected(address) = 2 /\ SegOffset(address) \in 4096 - Segment.stack.size .. 4095
    => reply = Mapped(Segment.stack.base - (4096 - SegOffset(address)))
=============================================================================
