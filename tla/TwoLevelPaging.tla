-------------------------- MODULE TwoLevelPaging --------------------------
(***************************************************************************)
(* "Segmentation, Paging, IPC/q4.c": a page directory of page tables that  *)
(* are allocated on the first fault in their range, frames handed out in   *)
(* order, and a physical memory that is a list of the bytes stored so far. *)
(***************************************************************************)
EXTENDS Integers, FiniteSets

CONSTANTS PAGE_TABLE_ENTRIES,  \* entries of the directory and of each table
          PAGE_SIZE,
          FRAMES,              \* the values of the bit-field frame_number, 2^20
          COUNTER,             \* the values of the uint32_t counters, 2^32
          Byte,                \* the values of a uint8_t
          Address,             \* the virtual addresses the user may type
          NULL                 \* a directory entry without a page table

Index == 0 .. PAGE_TABLE_ENTRIES - 1

PageTableEntry == [frame_number : 0 .. FRAMES - 1, valid : BOOLEAN]

ASSUME SizesAssumption ==
  /\ PAGE_TABLE_ENTRIES \in Nat \ {0}
  /\ PAGE_SIZE \in Nat \ {0}
  /\ FRAMES \in Nat
  /\ FRAMES >= PAGE_TABLE_ENTRIES * PAGE_TABLE_ENTRIES
  /\ COUNTER \in Nat
  /\ COUNTER > FRAMES
ASSUME AddressAssumption ==
  Address \subseteq 0 .. PAGE_TABLE_ENTRIES * PAGE_TABLE_ENTRIES * PAGE_SIZE - 1
ASSUME ByteAssumption == 0 \in Byte
ASSUME NullAssumption == NULL \notin [Index -> PageTableEntry]

VARIABLES page_directory,   \* page tables by directory index, NULL until the first fault
          physical_memory,  \* the list as a function from its addresses to their bytes
          next_frame,       \* static counter of allocate_frame
          page_faults, page_hits,
          value,            \* main's byte, read from the user or loaded
          running,          \* main is in its loop
          pt_size           \* the "Total Page Table size" printed, in entries

paging == <<page_directory, next_frame, page_faults, page_hits>>
vars   == <<paging, physical_memory, value, running, pt_size>>

pd_index(va) == ((va \div PAGE_SIZE) \div PAGE_TABLE_ENTRIES) % PAGE_TABLE_ENTRIES
pt_index(va) == (va \div PAGE_SIZE) % PAGE_TABLE_ENTRIES
offset(va)   == va % PAGE_SIZE

Mapped(pd, pt) == page_directory[pd] # NULL /\ page_directory[pd][pt].valid

----------------------------------------------------------------------------
Init ==
  /\ page_directory = [pd \in Index |-> NULL]
  /\ physical_memory = [a \in {} |-> 0]
  /\ next_frame = 0
  /\ page_faults = 0 /\ page_hits = 0
  /\ value \in Byte          \* never initialised
  /\ running = TRUE
  /\ pt_size = 0

\* What calloc returns.
EmptyTable == [pt \in Index |-> [frame_number |-> 0, valid |-> FALSE]]

\* Faulty variant: a fault always starts with a fresh table.
TableReset(pd) == EmptyTable

Table(pd) == IF page_directory[pd] = NULL THEN EmptyTable ELSE page_directory[pd]

\* Faulty variant: the frame number loses its lowest bit.
frame_numberTruncated(frame) == frame \div 2

\* What the bit-field keeps of a frame number.
frame_number(frame) == frame % FRAMES

\* Faulty variant: only the faults that allocate a table are counted.
handle_page_faultUncounted(pd, pt) ==
  /\ page_faults' = IF page_directory[pd] = NULL
                      THEN (page_faults + 1) % COUNTER ELSE page_faults
  /\ page_directory' = [page_directory EXCEPT ![pd] =
       [Table(pd) EXCEPT ![pt] = [frame_number |-> frame_number(next_frame), valid |-> TRUE]]]
  /\ next_frame' = (next_frame + 1) % COUNTER

\* translate_address calls it for a page that is not mapped, so the test of
\* the valid bit in it always succeeds.
handle_page_fault(pd, pt) ==
  /\ page_faults' = (page_faults + 1) % COUNTER
  /\ page_directory' = [page_directory EXCEPT ![pd] =
       [Table(pd) EXCEPT ![pt] = [frame_number |-> frame_number(next_frame), valid |-> TRUE]]]
  /\ next_frame' = (next_frame + 1) % COUNTER

translate_address(va) ==
  IF Mapped(pd_index(va), pt_index(va))
    THEN /\ page_hits' = (page_hits + 1) % COUNTER
         /\ UNCHANGED <<page_directory, next_frame, page_faults>>
    ELSE /\ handle_page_fault(pd_index(va), pt_index(va))
         /\ UNCHANGED page_hits

\* Faulty variant: the offset in the page is dropped.
PhysicalPage(va) == page_directory[pd_index(va)][pt_index(va)].frame_number * PAGE_SIZE

\* What translate_address returns, once the page is mapped.
PhysicalAddress(va) ==
  page_directory[pd_index(va)][pt_index(va)].frame_number * PAGE_SIZE + offset(va)

load(va) ==
  /\ running
  /\ translate_address(va)
  /\ value' = IF PhysicalAddress(va)' \in DOMAIN physical_memory
                THEN physical_memory[PhysicalAddress(va)'] ELSE 0
  /\ UNCHANGED <<physical_memory, running, pt_size>>

store(va, v) ==
  /\ running
  /\ translate_address(va)
  /\ physical_memory' =
       [a \in DOMAIN physical_memory \cup {PhysicalAddress(va)'} |->
          IF a = PhysicalAddress(va)' THEN v ELSE physical_memory[a]]
  /\ value' = v
  /\ UNCHANGED <<running, pt_size>>

\* 'q': print the statistics, free the memory.  The directory is left with
\* the addresses of freed tables; nothing reads it again.
quit ==
  /\ running
  /\ running' = FALSE
  /\ pt_size' = PAGE_TABLE_ENTRIES * page_faults
  /\ physical_memory' = [a \in {} |-> 0]
  /\ UNCHANGED <<paging, value>>

Next == (\E va \in Address : load(va) \/ \E v \in Byte : store(va, v)) \/ quit

Spec == Init /\ [][Next]_vars

----------------------------------------------------------------------------
MappedPages == {p \in Index \X Index : Mapped(p[1], p[2])}

Frame(p) == page_directory[p[1]][p[2]].frame_number

(* The types of the variables. *)
TypeOK ==
  /\ page_directory \in [Index -> {NULL} \cup [Index -> PageTableEntry]]
  /\ next_frame \in 0 .. COUNTER - 1
  /\ page_faults \in 0 .. COUNTER - 1
  /\ page_hits \in 0 .. COUNTER - 1
  /\ value \in Byte
  /\ running \in BOOLEAN
  /\ pt_size \in Nat
  /\ DOMAIN physical_memory \subseteq Nat
  /\ \A a \in DOMAIN physical_memory : physical_memory[a] \in Byte

(* Two pages are never given the same frame: a store through one is not    *)
(* seen through the other (allocate_frame hands out each number once and   *)
(* the 20 bits of frame_number hold every number it is asked for).         *)
FramesDistinct ==
  \A p, q \in MappedPages : Frame(p) = Frame(q) => p = q

(* Each page faults once: the counters count the mapped pages, and so the  *)
(* frames handed out never outgrow the bit-field.                          *)
OneFaultPerPage ==
  /\ page_faults = Cardinality(MappedPages)
  /\ next_frame = Cardinality(MappedPages)

(* A mapping lasts: whatever page is touched later, a page that has a      *)
(* frame keeps it.                                                         *)
MappingKept ==
  [][\A p \in MappedPages : p \in MappedPages' /\ Frame(p)' = Frame(p)]_vars

(* Seen by its user, the program is a flat memory: loads return what was   *)
(* last stored at the same virtual address, 0 if nothing was.              *)
Contents ==
  [va \in Address |->
     IF /\ Mapped(pd_index(va), pt_index(va))
        /\ PhysicalAddress(va) \in DOMAIN physical_memory
       THEN physical_memory[PhysicalAddress(va)] ELSE 0]

Flat == INSTANCE FlatMemory WITH memory <- Contents

ImplementsFlatMemory == Flat!Spec

(* The "Total Page Table size" that print_statistics reports is the size   *)
(* of the page tables there are (print_statistics, q4.c:105-107).          *)
ReportedTableSize ==
  ~ running =>
    pt_size = PAGE_TABLE_ENTRIES * Cardinality({pd \in Index : page_directory[pd] # NULL})
============================================================================
