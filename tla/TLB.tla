--------------------------------- MODULE TLB ---------------------------------
(***************************************************************************)
(* Segmentation, Paging, IPC/q3.c: addresses are translated through a page *)
(* table and a small buffer of its entries, replaced round robin.  main    *)
(* also keeps every distinct address it was given, in an array it does not *)
(* check the end of; the kept addresses are searched and the result of the *)
(* search is thrown away.                                                  *)
(***************************************************************************)
EXTENDS Integers, FiniteSets

CONSTANTS NUM_PAGES, PAGE_SIZE, TLB_SIZE,
          MAX_PREVIOUS,       \* 100, the size of previous_addresses
          MAX_TRANSLATIONS    \* bound of the model: translations before q

ASSUME TLBAssumption ==
  /\ NUM_PAGES \in Nat \ {0}
  /\ PAGE_SIZE \in Nat \ {0}
  /\ TLB_SIZE \in Nat \ {0}
  /\ MAX_PREVIOUS \in Nat
  /\ MAX_TRANSLATIONS \in Nat

VPN     == 0 .. NUM_PAGES - 1
Entry   == 0 .. TLB_SIZE - 1
Address == VPN \X (0 .. PAGE_SIZE - 1)   \* what VPN_MASK and OFFSET_MASK make of one
ALL     == 255     \* protect_bits: all access allowed

VARIABLES tlb, next_tlb_entry,
          tlb_hits, tlb_misses,
          previous_addresses,   \* the distinct addresses given so far
          translation,          \* what main printed last
          simulation            \* "running", "complete", "exited" by a fault, "undefined"

tlb_vars == <<tlb, next_tlb_entry, tlb_hits, tlb_misses, previous_addresses, translation,
              simulation>>

PageTableEntry == [pfn : VPN, valid : BOOLEAN, protect_bits : {0, ALL}]
TLBEntry == [vpn : VPN, pfn : VPN, valid : BOOLEAN, protect_bits : {0, ALL}]

\* init_page_table; the table is never written again.
page_table == [v \in VPN |-> [pfn |-> v, valid |-> TRUE, protect_bits |-> ALL]]

\* Global memory is zero, and init_tlb makes every entry invalid.
TLBInit ==
  /\ tlb = [i \in Entry |-> [vpn |-> 0, pfn |-> 0, valid |-> FALSE, protect_bits |-> 0]]
  /\ next_tlb_entry = 0
  /\ tlb_hits = 0 /\ tlb_misses = 0
  /\ previous_addresses = {}
  /\ translation = [physical |-> <<0, 0>>, hit |-> FALSE]
  /\ simulation = "running"

vpn(a)    == a[1]
offset(a) == a[2]

\* Faulty variant: the search stops before the last entry.
check_tlbShort(v) == {i \in Entry \ {TLB_SIZE - 1} : tlb[i].valid /\ tlb[i].vpn = v}

\* The entries check_tlb may return; it returns the first.
check_tlb(v) == {i \in Entry : tlb[i].valid /\ tlb[i].vpn = v}

\* Faulty variant: the last entry is never replaced.
NextEntryShort(i) == IF TLB_SIZE = 1 THEN 0 ELSE (i + 1) % (TLB_SIZE - 1)

NextEntry(i) == (i + 1) % TLB_SIZE

update_tlb(v, pte) ==
  /\ tlb' = [tlb EXCEPT ![next_tlb_entry] =
               [vpn |-> v, pfn |-> pte.pfn, valid |-> TRUE, protect_bits |-> pte.protect_bits]]
  /\ next_tlb_entry' = NextEntry(next_tlb_entry)

\* previous_addresses has room for the address, or has it already.
Room(a) == a \in previous_addresses \/ Cardinality(previous_addresses) < MAX_PREVIOUS

Given(a) ==
  /\ simulation = "running"
  /\ tlb_hits + tlb_misses < MAX_TRANSLATIONS
  /\ Room(a)
  /\ previous_addresses' = previous_addresses \cup {a}

Hit(a) ==
  /\ Given(a)
  /\ tlb_hits' = tlb_hits + 1
  /\ UNCHANGED <<tlb, next_tlb_entry, tlb_misses>>
  /\ \E i \in check_tlb(vpn(a)) :
       /\ \A j \in check_tlb(vpn(a)) : i <= j
       /\ IF tlb[i].protect_bits # 0
            THEN /\ translation' = [physical |-> <<tlb[i].pfn, offset(a)>>, hit |-> TRUE]
                 /\ UNCHANGED simulation
            ELSE /\ simulation' = "exited"
                 /\ UNCHANGED translation

Miss(a) ==
  /\ Given(a)
  /\ check_tlb(vpn(a)) = {}
  /\ tlb_misses' = tlb_misses + 1
  /\ UNCHANGED tlb_hits
  /\ LET pte == page_table[vpn(a)]
     IN  IF pte.valid /\ pte.protect_bits # 0
           THEN /\ update_tlb(vpn(a), pte)
                /\ translation' = [physical |-> <<pte.pfn, offset(a)>>, hit |-> FALSE]
                /\ UNCHANGED simulation
           ELSE /\ simulation' = "exited"
                /\ UNCHANGED <<tlb, next_tlb_entry, translation>>

\* One address more than previous_addresses holds: it is written past its end.
Overrun(a) ==
  /\ simulation = "running" /\ ~Room(a)
  /\ simulation' = "undefined"
  /\ UNCHANGED <<tlb, next_tlb_entry, tlb_hits, tlb_misses, previous_addresses, translation>>

\* 'q': the statistics are printed.
Quit ==
  /\ simulation = "running"
  /\ simulation' = "complete"
  /\ UNCHANGED <<tlb, next_tlb_entry, tlb_hits, tlb_misses, previous_addresses, translation>>

TLBNext ==
  \/ \E a \in Address : Hit(a)
  \/ \E a \in Address : Miss(a)
  \/ \E a \in Address : Overrun(a)
  \/ Quit

TLBSpec == TLBInit /\ [][TLBNext]_tlb_vars

----------------------------------------------------------------------------
(* Properties                                                              *)

TLBTypeOK ==
  /\ tlb \in [Entry -> TLBEntry]
  /\ next_tlb_entry \in Entry
  /\ tlb_hits \in Nat /\ tlb_misses \in Nat
  /\ previous_addresses \subseteq Address
  /\ translation \in [physical : Address, hit : BOOLEAN]
  /\ simulation \in {"running", "complete", "exited", "undefined"}

\* Valid entries are those of the page table, no page has two, and an invalid
\* one is the next to be replaced or comes after it.
TLBCoherent ==
  \A i \in Entry : tlb[i].valid =>
    /\ tlb[i].pfn = page_table[tlb[i].vpn].pfn
    /\ tlb[i].protect_bits = page_table[tlb[i].vpn].protect_bits
    /\ \A j \in Entry : tlb[j].valid /\ tlb[j].vpn = tlb[i].vpn => j = i
    /\ \A j \in Entry : j < i => tlb[j].valid

\* The pages in the buffer in the order they were loaded: the entry about to
\* be replaced, if it is valid, is the oldest.
Occupied == IF tlb[next_tlb_entry].valid THEN TLB_SIZE ELSE next_tlb_entry
Oldest   == IF tlb[next_tlb_entry].valid THEN next_tlb_entry ELSE 0
Loaded   == [k \in 1 .. Occupied |-> tlb[(Oldest + k - 1) % TLB_SIZE].vpn]

Fifo == INSTANCE FifoCache WITH Capacity <- TLB_SIZE, PageOf <- vpn, queue <- Loaded,
                                hits <- tlb_hits, misses <- tlb_misses, answer <- translation

\* The buffer changes no translation, whatever is in it, and what main reports
\* as a hit is a hit of a first-in first-out cache of TLB_SIZE pages.
ImplementsFifoCache == Fifo!FifoSpec
=============================================================================
