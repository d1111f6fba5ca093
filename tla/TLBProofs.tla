------------------------------- MODULE TLBProofs -------------------------------
(***************************************************************************)
(* Proofs about TLB for every number and size of pages and every size of   *)
(* the buffer.                                                             *)
(***************************************************************************)
EXTENDS TLB, Sequences, TLAPS

\* The valid entries are all of them, or those the index has passed.
Prefix ==
  \/ \A i \in Entry : tlb[i].valid
  \/ \A i \in Entry : tlb[i].valid <=> i < next_tlb_entry

IInv == TLBTypeOK /\ Prefix /\ TLBCoherent /\ simulation # "exited"

----------------------------------------------------------------------------
(* Arithmetic of addresses and of the round-robin index                    *)

LEMMA AddressSplit ==
  ASSUME NEW a \in Address
  PROVE  vpn(a) \in VPN /\ <<vpn(a), offset(a)>> = a
BY DEF Address, vpn, offset

LEMMA Wrap ==
  ASSUME NEW i \in Nat, i < TLB_SIZE
  PROVE  NextEntry(i) = IF i + 1 = TLB_SIZE THEN 0 ELSE i + 1
<1>1. CASE i + 1 = TLB_SIZE
  <2>1. TLB_SIZE % TLB_SIZE = 0  BY TLBAssumption
  <2> QED  BY <1>1, <2>1 DEF NextEntry
<1>2. CASE i + 1 < TLB_SIZE
  <2>1. (i + 1) % TLB_SIZE = i + 1  BY <1>2, TLBAssumption
  <2> QED  BY <1>2, <2>1 DEF NextEntry
<1> QED  BY <1>1, <1>2, TLBAssumption

Folded(i) == IF i < TLB_SIZE THEN i ELSE i - TLB_SIZE

LEMMA WrapTwice ==
  ASSUME NEW i \in Nat, i < 2 * TLB_SIZE
  PROVE  i % TLB_SIZE = Folded(i)
<1> USE DEF Folded
<1>1. TLB_SIZE \in Nat \ {0}  BY TLBAssumption
<1>2. CASE i < TLB_SIZE  BY <1>1, <1>2
<1>3. CASE i >= TLB_SIZE
  <2>1. i % TLB_SIZE = (i - TLB_SIZE) % TLB_SIZE  BY <1>1, <1>3
  <2>2. (i - TLB_SIZE) % TLB_SIZE = i - TLB_SIZE  BY <1>1, <1>3
  <2> QED  BY <2>1, <2>2, <1>1, <1>3
<1> QED  BY <1>1, <1>2, <1>3

----------------------------------------------------------------------------
(* The invariant                                                           *)

LEMMA InitInv == TLBInit => IInv
<1> SUFFICES ASSUME TLBInit PROVE IInv
  OBVIOUS
<1>1. 0 \in Entry /\ 0 \in VPN  BY TLBAssumption DEF Entry, VPN
<1>2. <<0, 0>> \in Address  BY <1>1, TLBAssumption DEF Address
<1>3. [vpn |-> 0, pfn |-> 0, valid |-> FALSE, protect_bits |-> 0] \in TLBEntry
  BY <1>1 DEF TLBEntry
<1>4. [physical |-> <<0, 0>>, hit |-> FALSE] \in [physical : Address, hit : BOOLEAN]
  BY <1>2
<1>5. TLBTypeOK  BY <1>1, <1>3, <1>4 DEF TLBInit, TLBTypeOK
<1>6. Prefix  BY DEF TLBInit, Prefix, Entry
<1>7. TLBCoherent  BY DEF TLBInit, TLBCoherent
<1> QED  BY <1>5, <1>6, <1>7 DEF IInv, TLBInit

\* What a hit does: the entry found is the page table's.
LEMMA HitEffect ==
  ASSUME IInv, NEW a \in Address, Hit(a)
  PROVE  /\ UNCHANGED <<tlb, next_tlb_entry, tlb_misses, simulation>>
         /\ tlb_hits' = tlb_hits + 1
         /\ translation' = [physical |-> a, hit |-> TRUE]
         /\ previous_addresses' \subseteq Address
         /\ check_tlb(vpn(a)) # {}
<1>1. PICK i \in check_tlb(vpn(a)) :
        IF tlb[i].protect_bits # 0
          THEN /\ translation' = [physical |-> <<tlb[i].pfn, offset(a)>>, hit |-> TRUE]
               /\ UNCHANGED simulation
          ELSE /\ simulation' = "exited"
               /\ UNCHANGED translation
  BY DEF Hit
<1>2. i \in Entry /\ tlb[i].valid /\ tlb[i].vpn = vpn(a)  BY <1>1 DEF check_tlb
<1>3. vpn(a) \in VPN  BY AddressSplit
<1>4. tlb[i].pfn = vpn(a) /\ tlb[i].protect_bits = ALL
  BY <1>2, <1>3 DEF IInv, TLBCoherent, page_table
<1>5. translation' = [physical |-> a, hit |-> TRUE] /\ UNCHANGED simulation
  BY <1>1, <1>4, AddressSplit DEF ALL
<1>6. previous_addresses' \subseteq Address  BY DEF Hit, Given, IInv, TLBTypeOK
<1> QED  BY <1>1, <1>5, <1>6 DEF Hit

\* What a miss does: the page table's entry is loaded.
LEMMA MissEffect ==
  ASSUME IInv, NEW a \in Address, Miss(a)
  PROVE  /\ UNCHANGED <<tlb_hits, simulation>>
         /\ tlb_misses' = tlb_misses + 1
         /\ tlb' = [tlb EXCEPT ![next_tlb_entry] =
                      [vpn |-> vpn(a), pfn |-> vpn(a), valid |-> TRUE, protect_bits |-> ALL]]
         /\ next_tlb_entry' = NextEntry(next_tlb_entry)
         /\ translation' = [physical |-> a, hit |-> FALSE]
         /\ previous_addresses' \subseteq Address
         /\ \A i \in Entry : ~(tlb[i].valid /\ tlb[i].vpn = vpn(a))
<1>1. /\ page_table[vpn(a)].pfn = vpn(a)
      /\ page_table[vpn(a)].valid
      /\ page_table[vpn(a)].protect_bits = ALL
  BY AddressSplit DEF page_table
<1>2. /\ update_tlb(vpn(a), page_table[vpn(a)])
      /\ translation' = [physical |-> <<page_table[vpn(a)].pfn, offset(a)>>, hit |-> FALSE]
      /\ UNCHANGED simulation
  BY <1>1 DEF Miss, ALL
<1>3. translation' = [physical |-> a, hit |-> FALSE]  BY <1>1, <1>2, AddressSplit
<1>4. previous_addresses' \subseteq Address  BY DEF Miss, Given, IInv, TLBTypeOK
<1>5. \A i \in Entry : ~(tlb[i].valid /\ tlb[i].vpn = vpn(a))  BY DEF Miss, check_tlb
<1> QED  BY <1>1, <1>2, <1>3, <1>4, <1>5 DEF Miss, update_tlb

LEMMA HitInv == \A a \in Address : IInv /\ Hit(a) => IInv'
<1> SUFFICES ASSUME NEW a \in Address, IInv, Hit(a) PROVE IInv'
  OBVIOUS
<1>1. /\ UNCHANGED <<tlb, next_tlb_entry, tlb_misses, simulation>>
      /\ tlb_hits' = tlb_hits + 1
      /\ translation' = [physical |-> a, hit |-> TRUE]
      /\ previous_addresses' \subseteq Address
  BY HitEffect
<1>2. TLBTypeOK'  BY <1>1 DEF IInv, TLBTypeOK
<1>3. Prefix'  BY <1>1 DEF IInv, Prefix
<1>4. TLBCoherent'  BY <1>1 DEF IInv, TLBCoherent, page_table
<1> QED  BY <1>1, <1>2, <1>3, <1>4 DEF IInv

LEMMA MissInv == \A a \in Address : IInv /\ Miss(a) => IInv'
<1> SUFFICES ASSUME NEW a \in Address, IInv, Miss(a) PROVE IInv'
  OBVIOUS
<1> DEFINE n == next_tlb_entry
           new == [vpn |-> vpn(a), pfn |-> vpn(a), valid |-> TRUE, protect_bits |-> ALL]
<1>0. /\ n \in Entry /\ n \in Nat /\ n < TLB_SIZE /\ TLB_SIZE \in Nat
      /\ vpn(a) \in VPN
      /\ next_tlb_entry' = IF n + 1 = TLB_SIZE THEN 0 ELSE n + 1
      /\ tlb' = [tlb EXCEPT ![n] = new]
      /\ new \in TLBEntry
  BY MissEffect, Wrap, AddressSplit, TLBAssumption DEF IInv, TLBTypeOK, Entry, TLBEntry
<1>1. TLBTypeOK'
  <2>1. next_tlb_entry' \in Entry  BY <1>0, TLBAssumption DEF Entry
  <2>2. tlb' \in [Entry -> TLBEntry]  BY <1>0 DEF IInv, TLBTypeOK
  <2>3. /\ UNCHANGED <<tlb_hits, simulation>> /\ tlb_misses' = tlb_misses + 1
        /\ translation' = [physical |-> a, hit |-> FALSE] /\ previous_addresses' \subseteq Address
    BY MissEffect
  <2> QED  BY <2>1, <2>2, <2>3 DEF IInv, TLBTypeOK
<1>2. tlb'[n] = new /\ \A i \in Entry : i # n => tlb'[i] = tlb[i]
  BY <1>0 DEF IInv, TLBTypeOK
<1>3. new.valid /\ new.vpn = vpn(a) /\ new.pfn = vpn(a) /\ new.protect_bits = ALL
  OBVIOUS
<1> HIDE DEF new
<1>4. Prefix'
  <2>1. CASE \A i \in Entry : tlb[i].valid
    BY <1>2, <1>3, <2>1 DEF Prefix
  <2>2. CASE \A i \in Entry : tlb[i].valid <=> i < n
    <3>1. \A i \in Entry : tlb'[i].valid <=> i < n + 1
      BY <1>0, <1>2, <1>3, <2>2 DEF Entry
    <3> QED  BY <1>0, <3>1 DEF Prefix, Entry
  <2> QED  BY <2>1, <2>2 DEF IInv, Prefix
<1>5. TLBCoherent'
  <2> SUFFICES ASSUME NEW i \in Entry, tlb'[i].valid
               PROVE  /\ tlb'[i].pfn = page_table[tlb'[i].vpn].pfn
                      /\ tlb'[i].protect_bits = page_table[tlb'[i].vpn].protect_bits
                      /\ \A j \in Entry : tlb'[j].valid /\ tlb'[j].vpn = tlb'[i].vpn => j = i
                      /\ \A j \in Entry : j < i => tlb'[j].valid
    BY DEF TLBCoherent, page_table
  <2>1. \A j \in Entry : ~(tlb[j].valid /\ tlb[j].vpn = vpn(a))  BY MissEffect
  <2>2. page_table[vpn(a)].pfn = vpn(a) /\ page_table[vpn(a)].protect_bits = ALL
    BY <1>0 DEF page_table
  <2>3. \A j \in Entry : j < i => tlb'[j].valid
    BY <1>0, <1>2, <1>3 DEF IInv, Prefix, Entry
  <2>4. CASE i = n  BY <1>2, <1>3, <2>1, <2>2, <2>3, <2>4
  <2>5. CASE i # n
    BY <1>2, <1>3, <2>1, <2>3, <2>5 DEF IInv, TLBCoherent
  <2> QED  BY <2>4, <2>5
<1>6. simulation' # "exited"  BY MissEffect DEF IInv
<1> QED  BY <1>1, <1>4, <1>5, <1>6 DEF IInv

LEMMA OtherInv == IInv /\ (Quit \/ \E a \in Address : Overrun(a)) => IInv'
<1> SUFFICES ASSUME IInv, Quit \/ \E a \in Address : Overrun(a) PROVE IInv'
  OBVIOUS
<1>1. /\ UNCHANGED <<tlb, next_tlb_entry, tlb_hits, tlb_misses, previous_addresses, translation>>
      /\ simulation' \in {"complete", "undefined"}
  BY DEF Quit, Overrun
<1> QED  BY <1>1 DEF IInv, TLBTypeOK, Prefix, TLBCoherent

LEMMA Inductive == TLBSpec => []IInv
<1>1. IInv /\ UNCHANGED tlb_vars => IInv'
  BY DEF tlb_vars, IInv, TLBTypeOK, Prefix, TLBCoherent
<1>2. IInv /\ [TLBNext]_tlb_vars => IInv'
  BY <1>1, HitInv, MissInv, OtherInv DEF TLBNext
<1> QED  BY InitInv, <1>2, PTL DEF TLBSpec

----------------------------------------------------------------------------
(* The first-in first-out cache                                            *)

\* Where the k-th oldest page is.
Place(k) == Folded(Oldest + k - 1)

Window ==
  /\ next_tlb_entry \in Nat /\ next_tlb_entry < TLB_SIZE
  /\ Oldest \in Nat /\ Oldest < TLB_SIZE
  /\ Occupied \in Nat /\ Occupied <= TLB_SIZE
  /\ Loaded \in Seq(VPN) /\ Len(Loaded) = Occupied
  /\ \A k \in 1 .. Occupied : Place(k) \in Entry /\ Loaded[k] = tlb[Place(k)].vpn
  /\ Occupied = TLB_SIZE <=> tlb[next_tlb_entry].valid

LEMMA FunctionIsSeq ==
  ASSUME NEW S, NEW n \in Nat, NEW f \in [1 .. n -> S]
  PROVE  f \in Seq(S) /\ Len(f) = n
OBVIOUS

LEMMA LoadedPages == IInv => Window
<1> SUFFICES ASSUME IInv PROVE Window
  OBVIOUS
<1>0. /\ TLB_SIZE \in Nat \ {0} /\ next_tlb_entry \in Nat /\ next_tlb_entry < TLB_SIZE
      /\ tlb \in [Entry -> TLBEntry]
  BY TLBAssumption DEF IInv, TLBTypeOK, Entry
<1>1. Oldest \in Nat /\ Oldest < TLB_SIZE /\ Occupied \in Nat /\ Occupied <= TLB_SIZE
      /\ (Occupied = TLB_SIZE <=> tlb[next_tlb_entry].valid)
  BY <1>0 DEF Oldest, Occupied
<1>2. ASSUME NEW k \in 1 .. Occupied
      PROVE  /\ Place(k) \in Entry
             /\ (Oldest + k - 1) % TLB_SIZE = Place(k)
             /\ tlb[Place(k)].vpn \in VPN
  <2>1. k \in Nat /\ k >= 1 /\ k <= TLB_SIZE  BY <1>0, <1>1
  <2>2. Oldest + k - 1 \in Nat /\ Oldest + k - 1 < 2 * TLB_SIZE  BY <1>0, <1>1, <2>1
  <2>3. Place(k) \in Entry  BY <1>0, <1>1, <2>1 DEF Place, Folded, Entry
  <2>4. (Oldest + k - 1) % TLB_SIZE = Place(k)  BY <2>2, WrapTwice DEF Place
  <2>5. tlb[Place(k)] \in TLBEntry  BY <1>0, <2>3
  <2> QED  BY <2>3, <2>4, <2>5 DEF TLBEntry
<1>3. Loaded = [k \in 1 .. Occupied |-> tlb[Place(k)].vpn]
  BY <1>2 DEF Loaded
<1>4. Loaded \in Seq(VPN) /\ Len(Loaded) = Occupied
  <2>1. Loaded \in [1 .. Occupied -> VPN]  BY <1>2, <1>3
  <2> QED  BY <1>1, <2>1, FunctionIsSeq
<1> QED  BY <1>0, <1>1, <1>2, <1>3, <1>4 DEF Window

\* A page is in the cache exactly if a valid entry holds it.
LEMMA CachedIffValid ==
  ASSUME IInv, NEW v
  PROVE  Fifo!Cached(v) <=> \E i \in Entry : tlb[i].valid /\ tlb[i].vpn = v
<1>0. Window  BY LoadedPages
<1>1. ASSUME NEW k \in 1 .. Occupied PROVE tlb[Place(k)].valid
  <2>1. Place(k) \in Entry  BY <1>0 DEF Window
  <2>2. CASE tlb[next_tlb_entry].valid
    BY <1>0, <2>1, <2>2 DEF IInv, Prefix, Window, Entry
  <2>3. CASE ~tlb[next_tlb_entry].valid
    <3>1. Occupied = next_tlb_entry /\ Oldest = 0  BY <2>3 DEF Occupied, Oldest
    <3>2. Place(k) < next_tlb_entry  BY <1>0, <3>1, TLBAssumption DEF Place, Folded, Window
    <3> QED  BY <1>0, <2>1, <2>3, <3>2 DEF IInv, Prefix, Window, Entry
  <2> QED  BY <2>2, <2>3
<1>2. ASSUME NEW i \in Entry, tlb[i].valid PROVE \E k \in 1 .. Occupied : Place(k) = i
  <2>0. /\ i \in Nat /\ i < TLB_SIZE /\ TLB_SIZE \in Nat
        /\ next_tlb_entry \in Nat /\ next_tlb_entry < TLB_SIZE
    BY <1>0, TLBAssumption DEF Window, Entry
  <2>1. CASE tlb[next_tlb_entry].valid
    <3>0. Occupied = TLB_SIZE /\ Oldest = next_tlb_entry  BY <2>1 DEF Occupied, Oldest
    <3>1. CASE i >= next_tlb_entry
      <4>1. i - next_tlb_entry + 1 \in 1 .. Occupied  BY <2>0, <3>0, <3>1
      <4>2. Place(i - next_tlb_entry + 1) = i  BY <2>0, <3>0, <3>1 DEF Place, Folded
      <4> QED  BY <4>1, <4>2
    <3>2. CASE i < next_tlb_entry
      <4>1. i + TLB_SIZE - next_tlb_entry + 1 \in 1 .. Occupied  BY <2>0, <3>0, <3>2
      <4>2. Place(i + TLB_SIZE - next_tlb_entry + 1) = i  BY <2>0, <3>0, <3>2 DEF Place, Folded
      <4> QED  BY <4>1, <4>2
    <3> QED  BY <2>0, <3>1, <3>2
  <2>2. CASE ~tlb[next_tlb_entry].valid
    <3>0. Occupied = next_tlb_entry /\ Oldest = 0  BY <2>2 DEF Occupied, Oldest
    <3>1. i < next_tlb_entry
      BY <1>2, <2>2, <1>0 DEF IInv, Prefix, TLBTypeOK
    <3>2. i + 1 \in 1 .. Occupied  BY <2>0, <3>0, <3>1
    <3>3. Place(i + 1) = i  BY <2>0, <3>0, <3>1 DEF Place, Folded
    <3> QED  BY <3>2, <3>3
  <2> QED  BY <2>1, <2>2
<1>3. Fifo!Cached(v) <=> \E k \in 1 .. Occupied : tlb[Place(k)].vpn = v
  BY <1>0 DEF Fifo!Cached, Window
<1> QED  BY <1>0, <1>1, <1>2, <1>3 DEF Window

\* A miss moves the window of loaded pages on by one.
LEMMA LoadedAfterMiss ==
  ASSUME IInv, IInv', NEW a \in Address, Miss(a)
  PROVE  Loaded' = Append(IF Len(Loaded) = TLB_SIZE THEN Tail(Loaded) ELSE Loaded, vpn(a))
<1> DEFINE n == next_tlb_entry
           Kept == IF Len(Loaded) = TLB_SIZE THEN Tail(Loaded) ELSE Loaded
<1>w. Window /\ Window'  BY LoadedPages, PTL
<1>0. /\ TLB_SIZE \in Nat \ {0} /\ n \in Nat /\ n < TLB_SIZE /\ n \in Entry
      /\ next_tlb_entry' = IF n + 1 = TLB_SIZE THEN 0 ELSE n + 1
      /\ \A i \in Entry : i # n => tlb'[i] = tlb[i]
      /\ tlb'[n].valid /\ tlb'[n].vpn = vpn(a)
      /\ vpn(a) \in VPN
  <2>1. tlb' = [tlb EXCEPT ![next_tlb_entry] =
                  [vpn |-> vpn(a), pfn |-> vpn(a), valid |-> TRUE, protect_bits |-> ALL]]
        /\ next_tlb_entry' = NextEntry(next_tlb_entry)
    BY MissEffect
  <2>2. n \in Entry /\ n \in Nat /\ n < TLB_SIZE  BY <1>w DEF IInv, TLBTypeOK, Window
  <2> QED  BY <2>1, <2>2, Wrap, AddressSplit, TLBAssumption DEF IInv, TLBTypeOK
<1>1. \/ Occupied = TLB_SIZE /\ Oldest = n /\ Occupied' = TLB_SIZE /\ Oldest' = next_tlb_entry'
      \/ Occupied = n /\ Oldest = 0 /\ Occupied' = n + 1 /\ Oldest' = 0
  <2>1. CASE tlb[n].valid
    <3>1. \A i \in Entry : tlb[i].valid  BY <1>0, <2>1 DEF IInv, Prefix
    <3>2. tlb'[next_tlb_entry'].valid  BY <1>0, <3>1, TLBAssumption DEF Entry
    <3> QED  BY <2>1, <3>2 DEF Occupied, Oldest
  <2>2. CASE ~tlb[n].valid
    <3>1. \A i \in Entry : tlb[i].valid <=> i < n  BY <1>0, <2>2 DEF IInv, Prefix
    <3>2. CASE n + 1 = TLB_SIZE
      <4>1. tlb'[0].valid  BY <1>0, <3>1, <3>2 DEF Entry
      <4> QED  BY <1>0, <2>2, <3>2, <4>1 DEF Occupied, Oldest
    <3>3. CASE n + 1 # TLB_SIZE
      <4>1. ~tlb'[n + 1].valid  BY <1>0, <3>1, <3>3 DEF Entry
      <4> QED  BY <1>0, <2>2, <3>3, <4>1 DEF Occupied, Oldest
    <3> QED  BY <3>2, <3>3
  <2> QED  BY <2>1, <2>2
<1>2. Kept \in Seq(VPN) /\ Len(Kept) = Occupied' - 1
  <2>1. Loaded \in Seq(VPN) /\ Len(Loaded) = Occupied  BY <1>w DEF Window
  <2>2. CASE Occupied = TLB_SIZE
    <3>1. Kept = Tail(Loaded) /\ Loaded # <<>>  BY <1>0, <2>1, <2>2
    <3>2. Tail(Loaded) \in Seq(VPN) /\ Len(Tail(Loaded)) = Len(Loaded) - 1
      BY <2>1, <3>1
    <3> QED  BY <1>0, <1>1, <2>1, <2>2, <3>1, <3>2
  <2>3. CASE Occupied # TLB_SIZE
    <3>1. Kept = Loaded  BY <2>1, <2>3
    <3> QED  BY <1>0, <1>1, <2>1, <2>3, <3>1
  <2> QED  BY <2>2, <2>3
<1>3. ASSUME NEW k \in 1 .. Occupied'
      PROVE  Loaded'[k] = Append(Kept, vpn(a))[k]
  <2>0. k \in Nat /\ k >= 1 /\ k <= Occupied' /\ Occupied' \in Nat /\ Occupied' <= TLB_SIZE
    BY <1>w DEF Window
  <2>1. Loaded'[k] = tlb'[Place(k)'].vpn /\ Place(k)' \in Entry  BY <1>w DEF Window
  <2>2. CASE k = Occupied'
    <3>1. Place(k)' = n  BY <1>0, <1>1, <2>0, <2>2 DEF Place, Folded
    <3>2. Append(Kept, vpn(a))[k] = vpn(a)  BY <1>2, <2>0, <2>2
    <3> QED  BY <1>0, <2>1, <3>1, <3>2
  <2>3. CASE k < Occupied'
    <3>1. Append(Kept, vpn(a))[k] = Kept[k]  BY <1>2, <2>0, <2>3
    <3>2. CASE Occupied = TLB_SIZE /\ Oldest = n
      <4>1. Kept[k] = Loaded[k + 1] /\ k + 1 \in 1 .. Occupied
        BY <1>w, <1>0, <1>1, <2>0, <2>3, <3>2 DEF Window
      <4>2. Place(k)' = Place(k + 1) /\ Place(k)' # n
        BY <1>0, <1>1, <2>0, <2>3, <3>2 DEF Place, Folded
      <4> QED  BY <1>w, <1>0, <2>1, <3>1, <4>1, <4>2 DEF Window
    <3>3. CASE Occupied = n /\ Oldest = 0
      <4>1. Kept[k] = Loaded[k] /\ k \in 1 .. Occupied
        BY <1>w, <1>0, <1>1, <2>0, <2>3, <3>3 DEF Window
      <4>2. Place(k)' = Place(k) /\ Place(k)' # n
        BY <1>0, <1>1, <2>0, <2>3, <3>3 DEF Place, Folded
      <4> QED  BY <1>w, <1>0, <2>1, <3>1, <4>1, <4>2 DEF Window
    <3> QED  BY <1>1, <3>2, <3>3
  <2>4. k = Occupied' \/ k < Occupied'  BY <2>0
  <2> QED  BY <2>2, <2>3, <2>4
<1> HIDE DEF Kept
<1>4. Append(Kept, vpn(a)) \in Seq(VPN) /\ Len(Append(Kept, vpn(a))) = Occupied'
  BY <1>0, <1>2, <1>w DEF Window
<1>5. Loaded' = Append(Kept, vpn(a))
  <2> DEFINE s == Loaded'
             t == Append(Kept, vpn(a))
  <2>1. s \in Seq(VPN) /\ t \in Seq(VPN) /\ Len(s) = Len(t)
    BY <1>w, <1>4 DEF Window
  <2>2. \A k \in 1 .. Len(s) : s[k] = t[k]  BY <1>w, <1>3 DEF Window
  <2> HIDE DEF s, t
  <2>3. s = t  BY <2>1, <2>2
  <2> QED  BY <2>3 DEF s, t
<1> QED  BY <1>5 DEF Kept

----------------------------------------------------------------------------
(* Types.                                                                  *)
THEOREM TypeCorrect == TLBSpec => []TLBTypeOK
<1>1. IInv => TLBTypeOK  BY DEF IInv
<1> QED  BY Inductive, <1>1, PTL

(* The buffer agrees with the page table and holds no page twice.          *)
THEOREM Coherence == TLBSpec => []TLBCoherent
<1>1. IInv => TLBCoherent  BY DEF IInv
<1> QED  BY Inductive, <1>1, PTL

(* Translation through the buffer is that of a first-in first-out cache.   *)
THEOREM FifoRefinement == TLBSpec => ImplementsFifoCache
<1>1. TLBInit => Fifo!FifoInit
  <2> SUFFICES ASSUME TLBInit PROVE Fifo!FifoInit
    OBVIOUS
  <2>1. ~tlb[next_tlb_entry].valid  BY TLBAssumption DEF TLBInit, Entry
  <2>2. Occupied = 0  BY <2>1 DEF Occupied, TLBInit
  <2>3. Loaded = <<>>
    <3>1. IInv  BY InitInv
    <3>2. Len(Loaded) = 0 /\ Loaded \in Seq(VPN)  BY <2>2, <3>1, LoadedPages DEF Window
    <3> QED  BY <3>2
  <2> QED  BY <2>3 DEF TLBInit, Fifo!FifoInit
<1>2. IInv /\ IInv' /\ [TLBNext]_tlb_vars
        => [Fifo!FifoNext]_<<Loaded, tlb_hits, tlb_misses, translation>>
  <2> SUFFICES ASSUME IInv, IInv', [TLBNext]_tlb_vars
               PROVE  [Fifo!FifoNext]_<<Loaded, tlb_hits, tlb_misses, translation>>
    OBVIOUS
  <2>1. ASSUME NEW a \in Address, Hit(a) PROVE Fifo!FifoNext
    <3>1. /\ UNCHANGED <<tlb, next_tlb_entry, tlb_misses, simulation>>
          /\ tlb_hits' = tlb_hits + 1
          /\ translation' = [physical |-> a, hit |-> TRUE]
          /\ check_tlb(vpn(a)) # {}
      BY <2>1, HitEffect
    <3>2. Fifo!Cached(vpn(a))  BY <3>1, CachedIffValid DEF check_tlb
    <3>3. Loaded' = Loaded  BY <3>1 DEF Loaded, Occupied, Oldest
    <3> QED  BY <3>1, <3>2, <3>3 DEF Fifo!FifoNext, Fifo!Hit
  <2>2. ASSUME NEW a \in Address, Miss(a) PROVE Fifo!FifoNext
    <3>1. /\ UNCHANGED <<tlb_hits, simulation>>
          /\ tlb_misses' = tlb_misses + 1
          /\ translation' = [physical |-> a, hit |-> FALSE]
          /\ \A i \in Entry : ~(tlb[i].valid /\ tlb[i].vpn = vpn(a))
      BY <2>2, MissEffect
    <3>2. ~Fifo!Cached(vpn(a))  BY <3>1, CachedIffValid
    <3>3. Loaded' = Append(IF Len(Loaded) = TLB_SIZE THEN Tail(Loaded) ELSE Loaded, vpn(a))
      BY <2>2, LoadedAfterMiss
    <3> QED  BY <3>1, <3>2, <3>3 DEF Fifo!FifoNext, Fifo!Miss
  <2>3. CASE Quit \/ \E a \in Address : Overrun(a)
    <3>1. UNCHANGED <<tlb, next_tlb_entry, tlb_hits, tlb_misses, translation>>
      BY <2>3 DEF Quit, Overrun
    <3> QED  BY <3>1 DEF Loaded, Occupied, Oldest
  <2>4. CASE UNCHANGED tlb_vars
    BY <2>4 DEF tlb_vars, Loaded, Occupied, Oldest
  <2> QED  BY <2>1, <2>2, <2>3, <2>4 DEF TLBNext
<1> QED  BY <1>1, <1>2, Inductive, PTL DEF TLBSpec, ImplementsFifoCache, Fifo!FifoSpec
=============================================================================
