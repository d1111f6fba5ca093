----------------------- MODULE TwoLevelPagingProofs -----------------------
(***************************************************************************)
(* Proofs about TwoLevelPaging ("Segmentation, Paging, IPC/q4.c") for      *)
(* every page size, table size and set of addresses.  The inductive        *)
(* invariant IInv relates three counts and two regions: the frames handed  *)
(* out are the numbers below next_frame, as many as there are mapped       *)
(* pages, and every byte in physical memory lies in the frame of one.      *)
(***************************************************************************)
EXTENDS TwoLevelPaging, FiniteSetTheorems, TLAPS

\* Frame numbers come from allocate_frame.
FramesAllocated == \A p \in MappedPages : Frame(p) \in 0 .. next_frame - 1

\* Every node of the list was stored through a mapped page.
BytesInFrames ==
  \A a \in DOMAIN physical_memory :
    \E p \in MappedPages, o \in 0 .. PAGE_SIZE - 1 : a = Frame(p) * PAGE_SIZE + o

IInv == TypeOK /\ FramesDistinct /\ OneFaultPerPage /\ FramesAllocated /\ BytesInFrames

----------------------------------------------------------------------------
(* A physical address determines its frame and its offset.                 *)
LEMMA AddressSplit ==
  ASSUME NEW f \in Nat, NEW g \in Nat,
         NEW o \in 0 .. PAGE_SIZE - 1, NEW q \in 0 .. PAGE_SIZE - 1,
         f * PAGE_SIZE + o = g * PAGE_SIZE + q
  PROVE  f = g /\ o = q
<1>1. PAGE_SIZE \in Nat \ {0}
  BY SizesAssumption
<1> QED
  BY <1>1, SMTT(20)

(* A virtual address is determined by its two indices and its offset.      *)
LEMMA VirtualSplit ==
  ASSUME NEW va \in Address, NEW vb \in Address,
         pd_index(va) = pd_index(vb), pt_index(va) = pt_index(vb), offset(va) = offset(vb)
  PROVE  va = vb
<1> DEFINE E == PAGE_TABLE_ENTRIES
           x == va \div PAGE_SIZE
           y == vb \div PAGE_SIZE
<1>1. PAGE_SIZE \in Nat \ {0} /\ E \in Nat \ {0} /\ va \in Nat /\ vb \in Nat
  BY SizesAssumption, AddressAssumption
<1>2. va < (E * E) * PAGE_SIZE /\ vb < (E * E) * PAGE_SIZE
  BY <1>1, SizesAssumption, AddressAssumption
<1>3. x \in Nat /\ y \in Nat /\ x < E * E /\ y < E * E
  BY <1>1, <1>2
<1>4. x \div E \in 0 .. E - 1 /\ y \div E \in 0 .. E - 1
  BY <1>1, <1>3
<1>5. (x \div E) % E = x \div E /\ (y \div E) % E = y \div E
  BY <1>1, <1>4
<1>6. x = y
  BY <1>1, <1>3, <1>5 DEF pd_index, pt_index
<1> QED
  BY <1>1, <1>6 DEF offset

(* The three fields of a virtual address are in range.                     *)
LEMMA Indices ==
  ASSUME NEW va \in Address
  PROVE  pd_index(va) \in Index /\ pt_index(va) \in Index /\ offset(va) \in 0 .. PAGE_SIZE - 1
BY SizesAssumption, AddressAssumption DEF pd_index, pt_index, offset, Index

(* There are at most FRAMES pages, so the number of mapped pages is finite *)
(* and a further fault finds fewer than FRAMES of them.                    *)
LEMMA MappedFinite ==
  /\ IsFiniteSet(MappedPages)
  /\ Cardinality(MappedPages) \in Nat
  /\ \A p \in (Index \X Index) \ MappedPages : Cardinality(MappedPages) < FRAMES
<1>1. IsFiniteSet(Index) /\ Cardinality(Index) = PAGE_TABLE_ENTRIES
  BY FS_Interval, SizesAssumption DEF Index
<1>2. /\ IsFiniteSet(Index \X Index)
      /\ Cardinality(Index \X Index) = PAGE_TABLE_ENTRIES * PAGE_TABLE_ENTRIES
  BY <1>1, FS_Product
<1>3. MappedPages \subseteq Index \X Index
  BY DEF MappedPages
<1>4. IsFiniteSet(MappedPages) /\ Cardinality(MappedPages) \in Nat
  BY <1>2, <1>3, FS_Subset, FS_CardinalityType
<1>5. ASSUME NEW p \in (Index \X Index) \ MappedPages
      PROVE  Cardinality(MappedPages) < FRAMES
  <2>1. /\ Cardinality(MappedPages) <= Cardinality(Index \X Index)
        /\ Cardinality(MappedPages) # Cardinality(Index \X Index)
    BY <1>2, <1>3, <1>5, FS_Subset
  <2> QED
    BY <1>2, <1>4, <2>1, SizesAssumption
<1> QED
  BY <1>4, <1>5

(* What a page fault does to the mapped pages: it adds one, with the       *)
(* number next_frame, and leaves the frames of the others.                 *)
LEMMA FaultMapsOne ==
  ASSUME IInv, NEW pd \in Index, NEW pt \in Index, ~ Mapped(pd, pt),
         handle_page_fault(pd, pt)
  PROVE  /\ next_frame < FRAMES
         /\ page_directory' \in [Index -> {NULL} \cup [Index -> PageTableEntry]]
         /\ MappedPages' = MappedPages \cup {<<pd, pt>>}
         /\ <<pd, pt>> \notin MappedPages
         /\ Frame(<<pd, pt>>)' = next_frame
         /\ \A p \in MappedPages : Frame(p)' = Frame(p)
         /\ next_frame' = next_frame + 1
         /\ page_faults' = page_faults + 1
<1>1. <<pd, pt>> \in (Index \X Index) \ MappedPages
  BY DEF MappedPages
<1>2. next_frame < FRAMES /\ next_frame \in Nat /\ page_faults = next_frame
  BY <1>1, MappedFinite DEF IInv, OneFaultPerPage
<1>3. frame_number(next_frame) = next_frame /\ next_frame \in 0 .. FRAMES - 1
  BY <1>2, SizesAssumption DEF frame_number
<1>4. next_frame' = next_frame + 1 /\ page_faults' = page_faults + 1
  BY <1>2, SizesAssumption DEF handle_page_fault
<1> DEFINE pte == [frame_number |-> next_frame, valid |-> TRUE]
           T == [Table(pd) EXCEPT ![pt] = pte]
<1>5. /\ Table(pd) \in [Index -> PageTableEntry]
      /\ page_directory[pd] = NULL => \A i \in Index : ~ Table(pd)[i].valid
      /\ page_directory[pd] # NULL => Table(pd) = page_directory[pd]
  BY SizesAssumption DEF Table, EmptyTable, PageTableEntry, IInv, TypeOK
<1>6. pte \in PageTableEntry
  BY <1>3 DEF PageTableEntry
<1>7. T \in [Index -> PageTableEntry] /\ T # NULL
  BY <1>5, <1>6, NullAssumption
<1>8. page_directory' = [page_directory EXCEPT ![pd] = T]
  BY <1>3 DEF handle_page_fault
<1>9. page_directory' \in [Index -> {NULL} \cup [Index -> PageTableEntry]]
  BY <1>7, <1>8 DEF IInv, TypeOK
<1>10. /\ Mapped(pd, pt)' /\ Frame(<<pd, pt>>)' = next_frame
  BY <1>5, <1>7, <1>8 DEF Mapped, Frame, IInv, TypeOK
<1>11. ASSUME NEW i \in Index, NEW j \in Index, <<i, j>> # <<pd, pt>>
       PROVE  /\ Mapped(i, j)' <=> Mapped(i, j)
              /\ Mapped(i, j) => Frame(<<i, j>>)' = Frame(<<i, j>>)
  <2>1. CASE i # pd
    BY <1>8, <2>1 DEF Mapped, Frame, IInv, TypeOK
  <2>2. CASE i = pd /\ j # pt
    <3>1. page_directory'[i] = T /\ T[j] = Table(pd)[j]
      BY <1>5, <1>8, <2>2 DEF IInv, TypeOK
    <3> QED
      BY <1>5, <1>7, <2>2, <3>1 DEF Mapped, Frame
  <2> QED
    BY <1>11, <2>1, <2>2
<1>12. MappedPages' = MappedPages \cup {<<pd, pt>>}
  BY <1>10, <1>11 DEF MappedPages
<1>13. \A p \in MappedPages : Frame(p)' = Frame(p)
  BY <1>1, <1>11 DEF MappedPages
<1> QED
  BY <1>1, <1>2, <1>4, <1>9, <1>10, <1>12, <1>13

(* After translate_address, the page is mapped and the four parts of the   *)
(* invariant that speak of pages and frames hold again; no mapped page was *)
(* moved.                                                                  *)
LEMMA Translation ==
  ASSUME IInv, NEW va \in Address, translate_address(va)
  PROVE  /\ page_directory' \in [Index -> {NULL} \cup [Index -> PageTableEntry]]
         /\ next_frame' \in 0 .. COUNTER - 1
         /\ page_faults' \in 0 .. COUNTER - 1
         /\ page_hits' \in 0 .. COUNTER - 1
         /\ FramesDistinct' /\ OneFaultPerPage' /\ FramesAllocated'
         /\ Mapped(pd_index(va), pt_index(va))'
         /\ MappedPages' = MappedPages \cup {<<pd_index(va), pt_index(va)>>}
         /\ \A p \in MappedPages : Frame(p)' = Frame(p)
         /\ Frame(<<pd_index(va), pt_index(va)>>)' \in Nat
         /\ ~ Mapped(pd_index(va), pt_index(va)) =>
               \A p \in MappedPages : Frame(<<pd_index(va), pt_index(va)>>)' # Frame(p)
<1> DEFINE pd == pd_index(va)
           pt == pt_index(va)
<1>1. pd \in Index /\ pt \in Index
  BY Indices
<1> HIDE DEF pd, pt
<1>2. CASE Mapped(pd, pt)
  <2>1. /\ UNCHANGED <<page_directory, next_frame, page_faults>>
        /\ page_hits' = (page_hits + 1) % COUNTER
    BY <1>2 DEF translate_address, pd, pt
  <2>2. /\ MappedPages' = MappedPages
        /\ \A p \in MappedPages : Frame(p)' = Frame(p)
        /\ Mapped(pd, pt)'
    BY <1>2, <2>1 DEF MappedPages, Mapped, Frame
  <2>3. <<pd, pt>> \in MappedPages
    BY <1>1, <1>2 DEF MappedPages
  <2>4. FramesDistinct' /\ OneFaultPerPage' /\ FramesAllocated'
    BY <2>1, <2>2 DEF IInv, FramesDistinct, OneFaultPerPage, FramesAllocated
  <2>5. Frame(<<pd, pt>>)' \in Nat
    BY <2>2, <2>3 DEF IInv, FramesAllocated
  <2> QED
    BY <1>2, <2>1, <2>2, <2>3, <2>4, <2>5, SizesAssumption DEF IInv, TypeOK, pd, pt
<1>3. CASE ~ Mapped(pd, pt)
  <2>1. handle_page_fault(pd, pt) /\ UNCHANGED page_hits
    BY <1>3 DEF translate_address, pd, pt
  <2>2. /\ next_frame < FRAMES
        /\ page_directory' \in [Index -> {NULL} \cup [Index -> PageTableEntry]]
        /\ MappedPages' = MappedPages \cup {<<pd, pt>>}
        /\ <<pd, pt>> \notin MappedPages
        /\ Frame(<<pd, pt>>)' = next_frame
        /\ \A p \in MappedPages : Frame(p)' = Frame(p)
        /\ next_frame' = next_frame + 1
        /\ page_faults' = page_faults + 1
    BY <1>1, <1>3, <2>1, FaultMapsOne
  <2>3. next_frame \in Nat /\ page_faults = next_frame
    BY MappedFinite DEF IInv, OneFaultPerPage
  <2>4. FramesDistinct'
    BY <2>2, <2>3 DEF IInv, FramesDistinct, FramesAllocated
  <2>5. FramesAllocated'
    BY <2>2, <2>3 DEF IInv, FramesAllocated
  <2>6. OneFaultPerPage'
    BY <2>2, <2>3, MappedFinite, FS_AddElement DEF IInv, OneFaultPerPage
  <2>7. Mapped(pd, pt)'
    BY <2>2 DEF MappedPages
  <2> QED
    BY <2>1, <2>2, <2>3, <2>4, <2>5, <2>6, <2>7, SizesAssumption
    DEF IInv, TypeOK, FramesAllocated, pd, pt
<1> QED
  BY <1>2, <1>3

(* The parts about pages and frames depend on the paging variables alone.  *)
LEMMA PagingUnchanged ==
  ASSUME IInv, UNCHANGED paging
  PROVE  /\ MappedPages' = MappedPages
         /\ \A p \in MappedPages : Frame(p)' = Frame(p)
         /\ FramesDistinct' /\ OneFaultPerPage' /\ FramesAllocated'
<1>1. UNCHANGED <<page_directory, next_frame, page_faults>>
  BY DEF paging
<1>2. /\ MappedPages' = MappedPages
      /\ \A p \in MappedPages : Frame(p)' = Frame(p)
  BY <1>1 DEF MappedPages, Mapped, Frame
<1> QED
  BY <1>1, <1>2 DEF IInv, FramesDistinct, OneFaultPerPage, FramesAllocated

----------------------------------------------------------------------------
LEMMA InitIInv == Init => IInv
<1> SUFFICES ASSUME Init PROVE IInv
  OBVIOUS
<1>1. MappedPages = {}
  BY DEF Init, MappedPages, Mapped
<1>2. TypeOK
  BY SizesAssumption DEF Init, TypeOK
<1>3. OneFaultPerPage
  BY <1>1, FS_EmptySet DEF Init, OneFaultPerPage
<1> QED
  BY <1>1, <1>2, <1>3 DEF Init, IInv, FramesDistinct, FramesAllocated, BytesInFrames

LEMMA StepIInv == IInv /\ [Next]_vars => IInv'
<1> SUFFICES ASSUME IInv, [Next]_vars PROVE IInv'
  OBVIOUS
<1>1. ASSUME NEW va \in Address, load(va) PROVE IInv'
  <2>1. translate_address(va)
    BY <1>1 DEF load
  <2>2. BytesInFrames'
    <3>1. \A p \in MappedPages : p \in MappedPages' /\ Frame(p)' = Frame(p)
      BY <2>1, Translation
    <3>2. physical_memory' = physical_memory
      BY <1>1 DEF load
    <3> QED
      BY <3>1, <3>2 DEF IInv, BytesInFrames
  <2>3. value' \in Byte
    BY <1>1, ByteAssumption DEF load, IInv, TypeOK
  <2> QED
    BY <1>1, <2>1, <2>2, <2>3, Translation DEF load, IInv, TypeOK
<1>2. ASSUME NEW va \in Address, NEW v \in Byte, store(va, v) PROVE IInv'
  <2> DEFINE pa == PhysicalAddress(va)'
             p == <<pd_index(va), pt_index(va)>>
  <2>1. translate_address(va)
    BY <1>2 DEF store
  <2>2. /\ p \in MappedPages' /\ Frame(p)' \in Nat
        /\ offset(va) \in 0 .. PAGE_SIZE - 1
        /\ pa = Frame(p)' * PAGE_SIZE + offset(va)
    BY <2>1, Translation, Indices DEF PhysicalAddress, Frame
  <2>3. pa \in Nat
    BY <2>2, SizesAssumption
  <2> HIDE DEF pa, p
  <2>4. /\ DOMAIN physical_memory' = DOMAIN physical_memory \cup {pa}
        /\ \A a \in DOMAIN physical_memory' :
              physical_memory'[a] = IF a = pa THEN v ELSE physical_memory[a]
    BY <1>2 DEF store, pa
  <2>5. BytesInFrames'
    <3>1. \A r \in MappedPages : r \in MappedPages' /\ Frame(r)' = Frame(r)
      BY <2>1, Translation
    <3>2. \A a \in DOMAIN physical_memory :
            \E r \in MappedPages', o \in 0 .. PAGE_SIZE - 1 : a = Frame(r)' * PAGE_SIZE + o
      BY <3>1 DEF IInv, BytesInFrames
    <3>3. \E r \in MappedPages', o \in 0 .. PAGE_SIZE - 1 : pa = Frame(r)' * PAGE_SIZE + o
      BY <2>2
    <3> QED
      BY <2>4, <3>2, <3>3 DEF BytesInFrames
  <2>6. /\ DOMAIN physical_memory' \subseteq Nat
        /\ \A a \in DOMAIN physical_memory' : physical_memory'[a] \in Byte
    BY <2>3, <2>4 DEF IInv, TypeOK
  <2> QED
    BY <1>2, <2>1, <2>5, <2>6, Translation DEF store, IInv, TypeOK
<1>3. CASE quit
  <2>1. BytesInFrames' /\ (pt_size' \in Nat)
    BY <1>3, SizesAssumption DEF quit, BytesInFrames, IInv, TypeOK
  <2>2. TypeOK'
    BY <1>3, <2>1 DEF quit, paging, IInv, TypeOK
  <2> QED
    BY <1>3, <2>1, <2>2, PagingUnchanged DEF quit, IInv
<1>4. CASE UNCHANGED vars
  <2>1. UNCHANGED paging /\ UNCHANGED <<physical_memory, value, running, pt_size>>
    BY <1>4 DEF vars
  <2>2. BytesInFrames'
    BY <2>1, PagingUnchanged DEF BytesInFrames, IInv
  <2>3. TypeOK'
    BY <2>1 DEF paging, IInv, TypeOK
  <2> QED
    BY <2>1, <2>2, <2>3, PagingUnchanged DEF IInv
<1> QED
  BY <1>1, <1>2, <1>3, <1>4 DEF Next

LEMMA Invariance == Spec => []IInv
BY InitIInv, StepIInv, PTL DEF Spec

(* Type correctness, for every size of pages and tables.                   *)
THEOREM TypeCorrect == Spec => []TypeOK
BY Invariance, PTL DEF IInv

(* Two pages never share a frame.                                          *)
THEOREM NoAliasing == Spec => []FramesDistinct
BY Invariance, PTL DEF IInv

(* The page faults counted, the frames handed out and the pages mapped are *)
(* one number; so the bit-field never truncates a frame number.            *)
THEOREM FaultCount == Spec => []OneFaultPerPage
BY Invariance, PTL DEF IInv

(* A mapped page stays mapped to its frame, whatever is accessed next.     *)
THEOREM MappingsLast == Spec => MappingKept
<1> DEFINE Kept == \A p \in MappedPages : p \in MappedPages' /\ Frame(p)' = Frame(p)
<1>1. IInv /\ [Next]_vars => [Kept]_vars
  <2> SUFFICES ASSUME IInv, Next PROVE Kept
    OBVIOUS
  <2>1. ASSUME NEW va \in Address, translate_address(va) PROVE Kept
    BY <2>1, Translation
  <2>2. CASE quit
    BY <2>2, PagingUnchanged DEF quit
  <2> QED
    BY <2>1, <2>2 DEF Next, load, store
<1> QED
  BY <1>1, Invariance, PTL DEF Spec, MappingKept

----------------------------------------------------------------------------
(* An access leaves the contents of memory as they are: a page that was    *)
(* not mapped reads 0 before, and after, as its new frame holds no byte.   *)
LEMMA ContentsKept ==
  ASSUME IInv, NEW va \in Address, translate_address(va), NEW vb \in Address
  PROVE  /\ Mapped(pd_index(vb), pt_index(vb)) =>
              /\ Mapped(pd_index(vb), pt_index(vb))'
              /\ PhysicalAddress(vb)' = PhysicalAddress(vb)
         /\ ~ Mapped(pd_index(vb), pt_index(vb)) /\ Mapped(pd_index(vb), pt_index(vb))' =>
              PhysicalAddress(vb)' \notin DOMAIN physical_memory
<1> DEFINE p == <<pd_index(vb), pt_index(vb)>>
<1>1. p \in Index \X Index /\ offset(vb) \in 0 .. PAGE_SIZE - 1
  BY Indices
<1>2. ASSUME Mapped(pd_index(vb), pt_index(vb))
      PROVE  /\ Mapped(pd_index(vb), pt_index(vb))'
             /\ PhysicalAddress(vb)' = PhysicalAddress(vb)
  <2>1. p \in MappedPages
    BY <1>1, <1>2 DEF MappedPages
  <2>2. p \in MappedPages' /\ Frame(p)' = Frame(p)
    BY <2>1, Translation
  <2> QED
    BY <2>2 DEF PhysicalAddress, Frame, MappedPages
<1>3. ASSUME ~ Mapped(pd_index(vb), pt_index(vb)), Mapped(pd_index(vb), pt_index(vb))',
             PhysicalAddress(vb)' \in DOMAIN physical_memory
      PROVE  FALSE
  <2>1. p \in MappedPages' /\ p \notin MappedPages
    BY <1>1, <1>3 DEF MappedPages
  <2>2. p = <<pd_index(va), pt_index(va)>>
    <3>1. MappedPages' = MappedPages \cup {<<pd_index(va), pt_index(va)>>}
      BY Translation
    <3> QED
      BY <2>1, <3>1, Zenon
  <2>3. /\ Frame(p)' \in Nat
        /\ \A q \in MappedPages : Frame(p)' # Frame(q)
    BY <1>3, <2>2, Translation
  <2>4. PICK q \in MappedPages, o \in 0 .. PAGE_SIZE - 1 :
          PhysicalAddress(vb)' = Frame(q) * PAGE_SIZE + o
    BY <1>3 DEF IInv, BytesInFrames
  <2>5. Frame(p)' * PAGE_SIZE + offset(vb) = Frame(q) * PAGE_SIZE + o
    BY <2>4 DEF PhysicalAddress, Frame
  <2>6. Frame(q) \in Nat
    BY DEF IInv, FramesAllocated
  <2> QED
    BY <1>1, <2>3, <2>5, <2>6, AddressSplit
<1> QED
  BY <1>2, <1>3

(* After an access to va, another mapped virtual address has another       *)
(* physical address.                                                       *)
LEMMA DistinctAddresses ==
  ASSUME IInv, NEW va \in Address, translate_address(va),
         NEW vb \in Address, vb # va, Mapped(pd_index(vb), pt_index(vb))'
  PROVE  PhysicalAddress(vb)' # PhysicalAddress(va)'
<1> DEFINE p == <<pd_index(va), pt_index(va)>>
           q == <<pd_index(vb), pt_index(vb)>>
<1> SUFFICES ASSUME PhysicalAddress(vb)' = PhysicalAddress(va)' PROVE FALSE
  OBVIOUS
<1>1. /\ p \in Index \X Index /\ offset(va) \in 0 .. PAGE_SIZE - 1
      /\ q \in Index \X Index /\ offset(vb) \in 0 .. PAGE_SIZE - 1
  BY Indices
<1>2. p \in MappedPages' /\ q \in MappedPages'
  BY <1>1, Translation DEF MappedPages
<1>3. Frame(p)' \in Nat /\ Frame(q)' \in Nat
  BY <1>2, Translation DEF FramesAllocated
<1>4. Frame(p)' * PAGE_SIZE + offset(va) = Frame(q)' * PAGE_SIZE + offset(vb)
  BY DEF PhysicalAddress, Frame
<1>5. Frame(p)' = Frame(q)' /\ offset(va) = offset(vb)
  BY <1>1, <1>3, <1>4, AddressSplit
<1>6. p = q
  BY <1>2, <1>5, Translation DEF FramesDistinct
<1> QED
  BY <1>5, <1>6, VirtualSplit

(* The paged memory implements a flat one: loads and stores through the    *)
(* two levels of tables are loads and stores of one byte per virtual       *)
(* address, and the faults on the way are not seen.                        *)
THEOREM FlatRefinement == Spec => ImplementsFlatMemory
<1>1. Init => Flat!Init
  BY DEF Init, Flat!Init, Flat!Zeroed, Contents, Mapped, Index
<1>2. IInv /\ [Next]_vars => [Flat!Next]_(Flat!vars)
  <2> SUFFICES ASSUME IInv, [Next]_vars PROVE [Flat!Next]_(Flat!vars)
    OBVIOUS
  <2>1. ASSUME NEW va \in Address, load(va) PROVE Flat!Load(va)
    <3>1. translate_address(va) /\ physical_memory' = physical_memory /\ running
      BY <2>1 DEF load
    <3>2. Contents' = Contents
      <4>1. ASSUME NEW vb \in Address PROVE Contents'[vb] = Contents[vb]
        BY <3>1, ContentsKept DEF Contents
      <4> QED
        BY <4>1 DEF Contents
    <3>3. value' = Contents'[va]
      BY <2>1, <3>1, Translation DEF load, Contents
    <3> QED
      BY <2>1, <3>2, <3>3 DEF load, Flat!Load
  <2>2. ASSUME NEW va \in Address, NEW v \in Byte, store(va, v) PROVE Flat!Store(va, v)
    <3>1. translate_address(va) /\ running
      BY <2>2 DEF store
    <3>2. /\ PhysicalAddress(va)' \in DOMAIN physical_memory'
          /\ physical_memory'[PhysicalAddress(va)'] = v
          /\ \A a : a # PhysicalAddress(va)' =>
                /\ a \in DOMAIN physical_memory' <=> a \in DOMAIN physical_memory
                /\ a \in DOMAIN physical_memory => physical_memory'[a] = physical_memory[a]
      BY <2>2 DEF store
    <3>3. Contents'[va] = v
      BY <3>1, <3>2, Translation DEF Contents
    <3>4. ASSUME NEW vb \in Address, vb # va PROVE Contents'[vb] = Contents[vb]
      <4>1. Mapped(pd_index(vb), pt_index(vb))' => PhysicalAddress(vb)' # PhysicalAddress(va)'
        BY <3>1, <3>4, DistinctAddresses
      <4> QED
        BY <3>1, <3>2, <4>1, ContentsKept DEF Contents
    <3>5. Contents' = [Contents EXCEPT ![va] = v]
      BY <3>3, <3>4 DEF Contents
    <3> QED
      BY <2>2, <3>5 DEF store, Flat!Store
  <2>3. CASE quit
    <3>1. DOMAIN physical_memory' = {}
      BY <2>3 DEF quit
    <3>2. Contents' = [va \in Address |-> 0]
      BY <3>1 DEF Contents
    <3>3. running /\ running' = FALSE /\ UNCHANGED value
      BY <2>3 DEF quit
    <3> QED
      BY <3>2, <3>3 DEF Flat!Quit, Flat!Zeroed, Flat!Next
  <2>4. CASE UNCHANGED vars
    BY <2>4 DEF vars, paging, Flat!vars, Contents, Mapped, PhysicalAddress
  <2> QED
    BY <2>1, <2>2, <2>3, <2>4 DEF Next, Flat!Next
<1> QED
  BY <1>1, <1>2, Invariance, PTL DEF Spec, ImplementsFlatMemory, Flat!Spec
============================================================================
