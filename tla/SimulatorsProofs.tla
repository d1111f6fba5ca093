---------------------------- MODULE SimulatorsProofs ----------------------------
(***************************************************************************)
(* Proofs about MCSimulators: the clock, CPU and disk scheduling, the      *)
(* segments and the stations.  (TLBProofs has those about the TLB.)        *)
(***************************************************************************)
EXTENDS MCSimulators, FiniteSetTheorems, WellFoundedInduction, TLAPS

----------------------------------------------------------------------------
(* Disk scheduling: what is to be shown is inductive.                      *)

DiskIInv ==
  /\ disk_requests \in Seq(Sector)
  /\ disk_served \in Seq(1 .. Len(disk_requests))
  /\ NothingPassedOver

LEMMA TracksAreNumbers ==
  ASSUME DiskIInv
  PROVE  /\ \A i \in 1 .. Len(disk_requests) : Track(i) \in Int
         /\ \A k \in 0 .. Len(disk_served) : Visited(k) \in Int
<1>1. \A s \in Nat : calculate_track(s) \in Int  BY DiskAssumption DEF calculate_track
<1>2. \A i \in 1 .. Len(disk_requests) : disk_requests[i] \in Nat
  <2>1. \A i \in 1 .. Len(disk_requests) : disk_requests[i] \in Sector  BY DEF DiskIInv
  <2> QED  BY <2>1, DiskAssumption
<1>3. \A k \in 1 .. Len(disk_served) : disk_served[k] \in 1 .. Len(disk_requests)  BY DEF DiskIInv
<1>4. ASSUME NEW k \in 0 .. Len(disk_served) PROVE Visited(k) \in Int
  <2>1. CASE k = 0  BY <2>1, <1>1, DiskAssumption DEF Visited
  <2>2. CASE k # 0  BY <2>2, <1>1, <1>2, <1>3 DEF Visited
  <2> QED  BY <2>1, <2>2
<1> QED  BY <1>1, <1>2, <1>4 DEF Track

LEMMA DiskInitInv == DiskInit => DiskIInv
<1> SUFFICES ASSUME DiskInit PROVE DiskIInv  OBVIOUS
<1>1. PICK r \in Nat : disk_requests \in [1 .. r -> Sector]
  BY DiskAssumption DEF DiskInit
<1>2. disk_requests \in Seq(Sector) /\ disk_served = <<>>  BY <1>1 DEF DiskInit
<1>3. NothingPassedOver
  <2> SUFFICES ASSUME NEW i \in Unused, NEW k \in 0 .. 0, NEW m \in 0 .. 0,
                      Visited(k) <= Track(i), Track(i) <= Visited(m)
               PROVE  Track(i) = current_track
    BY <1>2 DEF NothingPassedOver
  <2>1. Visited(0) \in Int  BY DiskAssumption DEF Visited, calculate_track
  <2>2. disk_requests[i] \in Nat
    <3>1. disk_requests[i] \in Sector  BY <1>2 DEF Unused
    <3> QED  BY <3>1, DiskAssumption
  <2>3. Track(i) \in Int  BY <2>2, DiskAssumption DEF Track, calculate_track
  <2> QED  BY <2>1, <2>3, <1>2 DEF current_track
<1> QED  BY <1>2, <1>3 DEF DiskIInv

LEMMA DiskNextInv == DiskIInv /\ [simulate_sstf]_disk_vars => DiskIInv'
<1>1. CASE UNCHANGED disk_vars
  BY <1>1 DEF disk_vars, DiskIInv, NothingPassedOver, Unused, used_requests, Visited, current_track,
              Track
<1>2. ASSUME DiskIInv, simulate_sstf PROVE DiskIInv'
  <2>0. PICK L \in Nat : L = Len(disk_served)  BY <1>2 DEF DiskIInv
  <2>1. PICK r \in 1 .. Len(disk_requests) : Nearest(r) /\ disk_served' = Append(disk_served, r)
    BY <1>2 DEF simulate_sstf
  <2>2. /\ disk_requests' = disk_requests /\ disk_served' \in Seq(1 .. Len(disk_requests))
        /\ Len(disk_served') = L + 1 /\ Len(disk_served) = L
        /\ \A k \in 1 .. L : disk_served'[k] = disk_served[k]
        /\ disk_served'[L + 1] = r
    BY <1>2, <2>0, <2>1 DEF simulate_sstf, DiskIInv
  <2>3. /\ \A i \in 1 .. Len(disk_requests) : Track(i)' = Track(i)
        /\ \A k \in 0 .. L : Visited(k)' = Visited(k)
        /\ Visited(L + 1)' = Track(r) /\ current_track' = Track(r)
        /\ current_track = Visited(L)
    <3>1. \A i \in 1 .. Len(disk_requests) : Track(i)' = Track(i)  BY <2>2 DEF Track
    <3>2. \A k \in 0 .. L : Visited(k)' = Visited(k)
      <4> SUFFICES ASSUME NEW k \in 0 .. L PROVE Visited(k)' = Visited(k)  OBVIOUS
      <4>1. CASE k = 0  BY <4>1 DEF Visited
      <4>2. CASE k # 0
        <5>1. disk_served'[k] = disk_served[k]  BY <4>2, <2>2
        <5> QED  BY <4>2, <5>1, <2>2 DEF Visited
      <4> QED  BY <4>1, <4>2
    <3>3. Visited(L + 1)' = Track(r)  BY <2>2 DEF Visited, Track
    <3> QED  BY <3>1, <3>2, <3>3, <2>2 DEF current_track
  <2>4. Unused' \subseteq Unused
    BY <2>2 DEF Unused, used_requests
  <2>5. /\ \A i \in 1 .. Len(disk_requests) : Track(i) \in Int
        /\ \A k \in 0 .. L : Visited(k) \in Int
    BY <1>2, <2>0, TracksAreNumbers
  <2>a. SUFFICES NothingPassedOver'  BY <1>2, <2>2 DEF DiskIInv
  <2>b. SUFFICES ASSUME NEW i \in Unused', NEW k \in 0 .. L + 1, NEW m \in 0 .. L + 1,
                        Visited(k)' <= Track(i)', Track(i)' <= Visited(m)'
                 PROVE  Track(i)' = current_track'
    BY <2>2 DEF NothingPassedOver
  <2>7. i \in Unused /\ i \in 1 .. Len(disk_requests)  BY <2>4 DEF Unused
  <2>6. /\ Visited(k)' <= Track(i) /\ Track(i) <= Visited(m)'
        /\ Track(i)' = Track(i)
    BY <2>b, <2>3, <2>7
  <2>c. SUFFICES Track(i) = Track(r)  BY <2>3, <2>6
  <2>8. Track(i) \in Int /\ Track(r) \in Int /\ current_track \in Int  BY <2>2, <2>3, <2>5, <2>7
  <2>9. track_distance(current_track, Track(r)) <= track_distance(current_track, Track(i))
    BY <2>1, <2>7, <2>8 DEF Nearest, track_distance
  \* A request on the track where the head is is as near as can be.
  <2>10. CASE Track(i) = current_track  BY <2>8, <2>9, <2>10 DEF track_distance
  <2>11. CASE k = L + 1 /\ m = L + 1  BY <2>3, <2>6, <2>8, <2>11
  <2>12. CASE k = L + 1 /\ m \in 0 .. L /\ Track(i) # current_track
    <3>1. Track(r) <= Track(i) /\ Track(i) <= Visited(m)  BY <2>3, <2>6, <2>12
    <3>2. ~(Visited(L) <= Track(i))  BY <1>2, <2>2, <2>7, <2>12, <3>1 DEF DiskIInv, NothingPassedOver
    <3> QED  BY <2>3, <2>8, <2>9, <3>1, <3>2 DEF track_distance
  <2>13. CASE k \in 0 .. L /\ m = L + 1 /\ Track(i) # current_track
    <3>1. Visited(k) <= Track(i) /\ Track(i) <= Track(r)  BY <2>3, <2>6, <2>13
    <3>2. ~(Track(i) <= Visited(L))  BY <1>2, <2>2, <2>7, <2>13, <3>1 DEF DiskIInv, NothingPassedOver
    <3> QED  BY <2>3, <2>8, <2>9, <3>1, <3>2 DEF track_distance
  <2>14. CASE k \in 0 .. L /\ m \in 0 .. L /\ Track(i) # current_track
    <3>1. Visited(k) <= Track(i) /\ Track(i) <= Visited(m)  BY <2>3, <2>6, <2>14
    <3> QED  BY <1>2, <2>2, <2>7, <2>14, <3>1 DEF DiskIInv, NothingPassedOver
  <2> QED  BY <2>10, <2>11, <2>12, <2>13, <2>14
<1> QED  BY <1>1, <1>2

----------------------------------------------------------------------------
(* The clock: frames are filled in the order of the hand.                  *)

\* The least of a set of frames or of steps of the hand.
LEMMA FirstIsLeast ==
  ASSUME NEW S \in SUBSET Nat, S # {}
  PROVE  First(S) \in S /\ \A j \in S : First(S) <= j
<1>1. OpToRel(<, Nat) = {ss \in Nat \X Nat : ss[1] < ss[2]}  BY Zenon DEF OpToRel
<1>2. PICK i \in S : \A j \in S : ~ (<<j, i>> \in OpToRel(<, Nat))
  BY NatLessThanWellFounded, WFMin, Zenon
<1>3. ASSUME NEW j \in S PROVE i <= j
  <2>1. <<j, i>> \in Nat \X Nat /\ <<j, i>>[1] = j /\ <<j, i>>[2] = i  OBVIOUS
  <2>2. ~ (<<j, i>>[1] < <<j, i>>[2])  BY <1>1, <1>2, <2>1, Zenon
  <2> QED  BY <2>1, <2>2
<1> QED  BY <1>3 DEF First

ClockTypes ==
  /\ memory \in [Frame -> [page_number : Page, reference_bit : BOOLEAN, dirty_bit : BOOLEAN]]
  /\ \A i \in Frame : ~memory[i].dirty_bit
  /\ clock_hand \in Frame
  /\ total_faults \in Nat
  /\ requested \in SUBSET Page /\ IsFiniteSet(requested)

\* As long as the pages requested fit, the frames before the hand hold them.
Filling ==
  Marked \notin requested /\ Cardinality(requested) <= num_frames =>
    /\ total_faults = Cardinality(requested)
    /\ clock_hand = IF total_faults = num_frames THEN 0 ELSE total_faults
    /\ \A p \in requested : \E i \in Frame : memory[i].page_number = p
    /\ \A i \in Frame : memory[i].page_number \in requested \cup {Marked}
    /\ \A i \in Frame : i >= total_faults =>
         memory[i].page_number = Marked /\ ~memory[i].reference_bit

ClockIInv == ClockTypes /\ Filling

\* The hand goes round all the frames.
LEMMA HandGoesRound ==
  ASSUME ClockTypes
  PROVE  /\ At(0) = clock_hand /\ At(num_frames) = clock_hand
         /\ At(1) = IF clock_hand + 1 = num_frames THEN 0 ELSE clock_hand + 1
         /\ \A k \in Nat : At(k) \in Frame
         /\ \A i \in Frame : \E k \in 0 .. num_frames - 1 : At(k) = i
<1>1. num_frames \in Nat \ {0} /\ clock_hand \in 0 .. num_frames - 1
  BY ClockAssumption DEF ClockTypes, Frame
<1>2. ASSUME NEW i \in Frame PROVE \E k \in 0 .. num_frames - 1 : At(k) = i
  <2>1. CASE clock_hand <= i
    <3>1. i - clock_hand \in 0 .. num_frames - 1 /\ At(i - clock_hand) = i
      BY <1>1, <2>1 DEF At, Frame
    <3> QED  BY <3>1
  <2>2. CASE i < clock_hand
    <3>1. i - clock_hand + num_frames \in 0 .. num_frames - 1 /\ At(i - clock_hand + num_frames) = i
      BY <1>1, <2>2 DEF At, Frame
    <3> QED  BY <3>1
  <2> QED  BY <1>1, <2>1, <2>2 DEF Frame
<1> QED  BY <1>1, <1>2 DEF At, Frame

\* find_empty_frame finds none: no byte is -1.
LEMMA NoEmptyFrames ==
  ASSUME ClockTypes
  PROVE  empty_frames = {} /\ Marked \in Page
BY ClockAssumption DEF ClockTypes, empty_frames, Page, Marked

\* Where the hand stops, and what it passed on its way.
LEMMA HandStops ==
  ASSUME ClockTypes
  PROVE  /\ Passes \in 0 .. num_frames
         /\ Passes = num_frames => \A i \in Frame : ~Replaceable(i)
         /\ Passes # num_frames => Replaceable(At(Passes))
         /\ Replaceable(At(0)) => Passes = 0
<1> DEFINE stops == {k \in 0 .. num_frames - 1 : Replaceable(At(k))}
<1>1. num_frames \in Nat \ {0}  BY ClockAssumption
<1>2. CASE stops = {}
  <2>1. Passes = num_frames  BY <1>2 DEF Passes
  <2> QED  BY <2>1, <1>1, <1>2, HandGoesRound
<1>3. CASE stops # {}
  <2>1. Passes = First(stops)  BY <1>3 DEF Passes
  <2>2. First(stops) \in stops /\ \A j \in stops : First(stops) <= j
    BY <1>1, <1>3, FirstIsLeast
  <2> QED  BY <2>1, <2>2, <1>1
<1> QED  BY <1>2, <1>3

LEMMA ClockInitInv == ClockInit => ClockIInv
<1> SUFFICES ASSUME ClockInit PROVE ClockIInv  OBVIOUS
<1>1. num_frames \in Nat \ {0} /\ Marked \in Page  BY ClockAssumption DEF Marked, Page
<1>2. IsFiniteSet({}) /\ Cardinality({}) = 0  BY FS_EmptySet
<1>3. ClockTypes  BY <1>1, <1>2 DEF ClockInit, ClockTypes, Frame
<1>4. Filling  BY <1>1, <1>2 DEF ClockInit, Filling, Frame
<1> QED  BY <1>3, <1>4 DEF ClockIInv

\* What a request adds to the pages requested.
LEMMA RequestCounts ==
  ASSUME ClockTypes, NEW p \in Page, Request(p)
  PROVE  /\ requested' \in SUBSET Page /\ IsFiniteSet(requested')
         /\ Cardinality(requested) \in Nat
         /\ Cardinality(requested') = Cardinality(requested) + IF p \in requested THEN 0 ELSE 1
<1>1. IsFiniteSet(requested) /\ requested' = requested \cup {p} /\ requested \in SUBSET Page
  BY DEF ClockTypes, Request
<1>2. Cardinality(requested) \in Nat  BY <1>1, FS_CardinalityType
<1> QED  BY <1>1, <1>2, FS_AddElement

LEMMA PageHitInv ==
  ASSUME ClockIInv, NEW p \in Page, PageHit(p)
  PROVE  ClockIInv'
<1> DEFINE f == First(Holding(p))
<1>1. f \in Frame /\ memory[f].page_number = p
  <2>1. Holding(p) \in SUBSET Nat /\ Holding(p) # {}
    BY ClockAssumption DEF PageHit, Holding, Frame
  <2> QED  BY <2>1, FirstIsLeast DEF Holding
<1>2. /\ memory' = [memory EXCEPT ![f].reference_bit = TRUE]
      /\ UNCHANGED <<clock_hand, total_faults>>
      /\ Request(p)
  BY DEF PageHit
<1> HIDE DEF f
<1>3. ClockTypes'
  BY <1>1, <1>2, RequestCounts DEF ClockIInv, ClockTypes
<1>4. Filling'
  <2> SUFFICES ASSUME Marked \notin requested', Cardinality(requested') <= num_frames
               PROVE  /\ total_faults' = Cardinality(requested')
                      /\ clock_hand' = IF total_faults' = num_frames THEN 0 ELSE total_faults'
                      /\ \A q \in requested' : \E i \in Frame : memory'[i].page_number = q
                      /\ \A i \in Frame : memory'[i].page_number \in requested' \cup {Marked}
                      /\ \A i \in Frame : i >= total_faults' =>
                           memory'[i].page_number = Marked /\ ~memory'[i].reference_bit
    BY DEF Filling
  <2>1. /\ Cardinality(requested) \in Nat /\ requested' = requested \cup {p}
        /\ Cardinality(requested') = Cardinality(requested) + IF p \in requested THEN 0 ELSE 1
    BY <1>2, RequestCounts DEF ClockIInv, Request
  <2>2. Marked \notin requested /\ Cardinality(requested) <= num_frames
    BY <2>1, ClockAssumption
  <2>3. p \in requested  BY <1>1, <2>1, <2>2 DEF ClockIInv, Filling
  <2>4. requested' = requested  BY <2>1, <2>3
  <2>5. /\ \A i \in Frame : memory'[i].page_number = memory[i].page_number
        /\ \A i \in Frame : i # f => memory'[i] = memory[i]
    BY <1>1, <1>2 DEF ClockIInv, ClockTypes
  <2>6. memory[f].page_number # Marked  BY <1>1, <2>2, <2>3
  <2> QED  BY <1>1, <1>2, <2>2, <2>4, <2>5, <2>6 DEF ClockIInv, Filling
<1> QED  BY <1>3, <1>4 DEF ClockIInv

LEMMA PageFaultMemory ==
  ASSUME ClockTypes, NEW p \in Page, PageFault(p)
  PROVE  /\ memory' = [i \in Frame |->
                         IF i = At(Passes) THEN LoadedPage(p)
                         ELSE IF \E j \in 0 .. Passes - 1 : i = At(j) THEN Passed(memory[i])
                         ELSE memory[i]]
         /\ clock_hand' = At(Passes + 1)
         /\ total_faults' = total_faults + 1
         /\ Holding(p) = {} /\ Request(p)
BY NoEmptyFrames DEF PageFault, Victim, HandAfter

LEMMA PageFaultInv ==
  ASSUME ClockIInv, NEW p \in Page, PageFault(p)
  PROVE  ClockIInv'
<1>0. ClockTypes  BY DEF ClockIInv
<1>1. /\ total_faults' = total_faults + 1 /\ clock_hand' = At(Passes + 1)
      /\ Holding(p) = {} /\ Request(p)
  BY <1>0, PageFaultMemory
<1>2. \A i \in Frame : /\ memory'[i] = LoadedPage(p) \/ memory'[i] = Passed(memory[i])
                                                      \/ memory'[i] = memory[i]
                       /\ Passed(memory[i]).page_number = memory[i].page_number
  BY <1>0, PageFaultMemory DEF Passed, ClockTypes
<1>3. ClockTypes'
  <2>1. \A i \in Frame : /\ memory'[i] \in [page_number : Page, reference_bit : BOOLEAN,
                                            dirty_bit : BOOLEAN]
                         /\ ~memory'[i].dirty_bit
    <3> SUFFICES ASSUME NEW i \in Frame
                 PROVE  /\ memory'[i] \in [page_number : Page, reference_bit : BOOLEAN,
                                           dirty_bit : BOOLEAN]
                        /\ ~memory'[i].dirty_bit
      OBVIOUS
    <3>1. CASE memory'[i] = LoadedPage(p)  BY <3>1 DEF LoadedPage
    <3>2. CASE memory'[i] = Passed(memory[i])
      <4>1. CASE memory[i].reference_bit  BY <1>0, <3>2, <4>1 DEF ClockTypes, Passed
      <4>2. CASE ~memory[i].reference_bit  BY <1>0, <3>2, <4>2 DEF ClockTypes, Passed
      <4> QED  BY <4>1, <4>2
    <3>3. CASE memory'[i] = memory[i]  BY <1>0, <3>3 DEF ClockTypes
    <3> QED  BY <1>2, <3>1, <3>2, <3>3
  <2>2. memory' \in [Frame -> [page_number : Page, reference_bit : BOOLEAN, dirty_bit : BOOLEAN]]
    BY <2>1, <1>0, PageFaultMemory
  <2>3. clock_hand' \in Frame  BY <1>0, <1>1, HandGoesRound, HandStops, ClockAssumption
  <2> QED  BY <1>0, <1>1, <2>1, <2>2, <2>3, RequestCounts DEF ClockTypes
<1>4. Filling'
  <2> SUFFICES ASSUME Marked \notin requested', Cardinality(requested') <= num_frames
               PROVE  /\ total_faults' = Cardinality(requested')
                      /\ clock_hand' = IF total_faults' = num_frames THEN 0 ELSE total_faults'
                      /\ \A q \in requested' : \E i \in Frame : memory'[i].page_number = q
                      /\ \A i \in Frame : memory'[i].page_number \in requested' \cup {Marked}
                      /\ \A i \in Frame : i >= total_faults' =>
                           memory'[i].page_number = Marked /\ ~memory'[i].reference_bit
    BY DEF Filling
  <2>0. num_frames \in Nat \ {0}  BY ClockAssumption
  <2>1. /\ Cardinality(requested) \in Nat /\ requested' = requested \cup {p}
        /\ Cardinality(requested') = Cardinality(requested) + IF p \in requested THEN 0 ELSE 1
    BY <1>0, <1>1, RequestCounts DEF Request
  <2>2. Marked \notin requested /\ Cardinality(requested) <= num_frames /\ p # Marked
    BY <2>0, <2>1
  <2>3. p \notin requested  BY <1>1, <2>2 DEF ClockIInv, Filling, Holding
  <2>4. /\ total_faults = Cardinality(requested) /\ total_faults < num_frames
        /\ clock_hand = total_faults
    BY <2>0, <2>1, <2>2, <2>3 DEF ClockIInv, Filling
  <2>5. Passes = 0 /\ At(Passes) = total_faults
    <3>1. At(0) = total_faults /\ total_faults \in Frame  BY <1>0, <2>4, HandGoesRound DEF ClockTypes
    <3>2. Replaceable(At(0))
      BY <1>0, <2>1, <2>2, <2>4, <3>1 DEF Replaceable, ClockIInv, Filling, ClockTypes
    <3> QED  BY <1>0, <3>1, <3>2, HandStops
  <2>6. memory' = [memory EXCEPT ![total_faults] = LoadedPage(p)]
    BY <1>0, <2>5, PageFaultMemory DEF ClockTypes
  <2>7. clock_hand' = IF total_faults + 1 = num_frames THEN 0 ELSE total_faults + 1
    BY <1>0, <1>1, <2>4, <2>5, HandGoesRound
  <2>8. total_faults \in Frame /\ memory[total_faults].page_number = Marked
    BY <1>0, <2>1, <2>2, <2>4 DEF ClockTypes, ClockIInv, Filling
  <2>9. /\ memory'[total_faults].page_number = p
        /\ \A i \in Frame : i # total_faults => memory'[i] = memory[i]
    BY <1>0, <2>6, <2>8 DEF ClockTypes, LoadedPage
  <2>10. \A q \in requested' : \E i \in Frame : memory'[i].page_number = q
    <3> SUFFICES ASSUME NEW q \in requested PROVE \E i \in Frame : memory'[i].page_number = q
      BY <2>1, <2>8, <2>9
    <3>1. PICK i \in Frame : memory[i].page_number = q  BY <2>2 DEF ClockIInv, Filling
    <3> QED  BY <2>2, <2>8, <2>9, <3>1
  <2>11. \A i \in Frame : memory'[i].page_number \in requested' \cup {Marked}
    BY <2>1, <2>2, <2>8, <2>9 DEF ClockIInv, Filling
  <2>12. \A i \in Frame : i >= total_faults + 1 =>
           memory'[i].page_number = Marked /\ ~memory'[i].reference_bit
    <3> SUFFICES ASSUME NEW i \in Frame, i >= total_faults + 1
                 PROVE  memory'[i].page_number = Marked /\ ~memory'[i].reference_bit
      OBVIOUS
    <3>1. i >= total_faults /\ i # total_faults  BY <2>0, <2>8 DEF Frame
    <3> QED  BY <2>2, <2>9, <3>1 DEF ClockIInv, Filling
  <2> QED  BY <1>1, <2>1, <2>3, <2>4, <2>7, <2>10, <2>11, <2>12
<1> QED  BY <1>3, <1>4 DEF ClockIInv

LEMMA ClockNextInv == ClockIInv /\ [ClockNext]_clock_vars => ClockIInv'
<1>1. CASE UNCHANGED clock_vars
  BY <1>1 DEF clock_vars, ClockIInv, ClockTypes, Filling
<1> QED  BY <1>1, PageHitInv, PageFaultInv DEF ClockNext

\* The step of the property.
Chance ==
  \A i \in Frame :
    memory'[i].page_number # memory[i].page_number /\ memory[i].reference_bit
      => \A j \in Frame : memory[j].reference_bit

LEMMA ChanceKept == ClockIInv /\ [ClockNext]_clock_vars => [Chance]_clock_vars
<1> SUFFICES ASSUME ClockTypes, ClockNext, NEW i \in Frame, NEW j \in Frame,
                    memory'[i].page_number # memory[i].page_number,
                    memory[i].reference_bit, ~memory[j].reference_bit
             PROVE  FALSE
  BY DEF Chance, ClockIInv
<1>1. ASSUME NEW p \in Page, PageHit(p) PROVE FALSE
  <2>1. memory' = [memory EXCEPT ![First(Holding(p))].reference_bit = TRUE]  BY <1>1 DEF PageHit
  <2> QED  BY <2>1 DEF ClockTypes
<1>2. ASSUME NEW p \in Page, PageFault(p) PROVE FALSE
  <2>1. Passed(memory[i]).page_number = memory[i].page_number  BY DEF Passed, ClockTypes
  <2>2. i = At(Passes)  BY <1>2, <2>1, PageFaultMemory
  <2>3. ~Replaceable(i) /\ Replaceable(j)  BY DEF Replaceable, ClockTypes
  <2> QED  BY <2>2, <2>3, HandStops
<1> QED  BY <1>1, <1>2 DEF ClockNext

----------------------------------------------------------------------------
(* CPU scheduling: what each policy knows of a process it has not finished *)
(* and, of round robin, how much of the round each has had.                *)

SchedTypes ==
  /\ algo \in {"FIFO", "SJF", "SRTF", "RR"}
  /\ timeQuantum \in Nat \ {0}
  /\ arrivalTime \in [Process -> Nat] /\ burstTime \in [Process -> Nat]
  /\ current_time \in Nat
  /\ remainingTime \in [Process -> Nat]
  /\ startTime \in [Process -> Int] /\ completionTime \in [Process -> Int]
  /\ \A p \in Process : startTime[p] >= Never /\ remainingTime[p] <= burstTime[p]
  /\ idx \in 0 .. n

\* Who has not been run has no start time, and has all of its burst before it.
Unstarted ==
  \A p \in Process \ Completed :
    /\ algo \in {"FIFO", "SJF"} => startTime[p] = Never /\ remainingTime[p] = burstTime[p]
    /\ algo = "SRTF" => /\ remainingTime[p] > 0
                        /\ startTime[p] = Never <=> remainingTime[p] = burstTime[p]

Served(p) == burstTime[p] - remainingTime[p]
InRound(p) == IF p < Turn THEN timeQuantum ELSE 0

\* But for the slice of the round they are in, all have had the same.
Even ==
  algo = "RR" =>
    \A p, q \in Process \ Completed :
      arrivalTime[p] = 0 /\ arrivalTime[q] = 0 => Served(p) - InRound(p) = Served(q) - InRound(q)

SchedIInv == SchedTypes /\ Unstarted /\ Even

LEMMA SchedInitInv == SchedInit => SchedIInv /\ Processor!ProcInit
<1> SUFFICES ASSUME SchedInit PROVE SchedIInv /\ Processor!ProcInit  OBVIOUS
<1>0. n \in Nat \ {0} /\ MAX_ARRIVAL \in Nat /\ MAX_BURST \in Nat /\ MAX_QUANTUM \in Nat
  BY SchedulingAssumption
<1>1. burstTime \in [Process -> Nat] /\ (algo = "SRTF" => \A p \in Process : burstTime[p] > 0)
  <2>1. CASE algo = "SRTF"  BY <1>0, <2>1 DEF SchedInit
  <2>2. CASE algo # "SRTF"  BY <1>0, <2>2 DEF SchedInit
  <2> QED  BY <2>1, <2>2
<1>2. arrivalTime \in [Process -> Nat]  BY <1>0 DEF SchedInit
<1>3. timeQuantum \in Nat \ {0}
  <2>1. CASE algo = "RR"  BY <1>0, <2>1 DEF SchedInit
  <2>2. CASE algo # "RR"  BY <2>2 DEF SchedInit
  <2> QED  BY <2>1, <2>2
<1>4. SchedTypes  BY <1>0, <1>1, <1>2, <1>3 DEF SchedInit, SchedTypes, Never
<1>5. Unstarted  BY <1>1 DEF SchedInit, Unstarted
<1>6. Turn = 1  BY <1>0 DEF SchedInit, Turn
<1>7. Even
  <2>1. \A p \in Process : Served(p) = 0 /\ InRound(p) = 0
    BY <1>0, <1>1, <1>6 DEF SchedInit, Served, InRound, Process
  <2> QED  BY <2>1 DEF Even
<1>8. Processor!ProcInit  BY DEF SchedInit, Processor!ProcInit, Processor!Never, Never
<1> QED  BY <1>4, <1>5, <1>7, <1>8 DEF SchedIInv

\* What Execute leaves of the process, and of the others.
LEMMA ExecuteKeeps ==
  ASSUME SchedIInv, NEW p \in Process \ Completed, NEW t \in Nat, NEW d \in Nat,
         Execute(p, t, d), current_time <= t, d <= remainingTime[p]
  PROVE  /\ current_time' = t + d /\ current_time' \in Nat
         /\ remainingTime' \in [Process -> Nat] /\ completionTime' \in [Process -> Int]
         /\ \A q \in Process : remainingTime'[q] <= burstTime[q]
         /\ \A q \in Process : q # p => remainingTime'[q] = remainingTime[q]
         /\ remainingTime'[p] = remainingTime[p] - d
         /\ \A q \in Process : q \in Completed' <=> q \in Completed \/ (q = p /\ d = remainingTime[p])
         /\ UNCHANGED input
<1>1. /\ remainingTime \in [Process -> Nat] /\ completionTime \in [Process -> Int]
      /\ \A q \in Process : remainingTime[q] <= burstTime[q]
      /\ burstTime \in [Process -> Nat] /\ completionTime[p] = Never
  BY DEF SchedIInv, SchedTypes, Completed
<1>2. /\ current_time' = t + d
      /\ remainingTime' = [remainingTime EXCEPT ![p] = @ - d]
      /\ completionTime' = [completionTime EXCEPT ![p] = IF remainingTime[p] = d THEN t + d ELSE @]
      /\ UNCHANGED input
  BY DEF Execute
<1>3. remainingTime' \in [Process -> Nat] /\ remainingTime'[p] = remainingTime[p] - d
  BY <1>1, <1>2
<1>4. /\ \A q \in Process : q # p => remainingTime'[q] = remainingTime[q]
      /\ \A q \in Process : remainingTime'[q] <= burstTime[q]
  BY <1>1, <1>2, <1>3
<1>5. /\ completionTime' \in [Process -> Int]
      /\ \A q \in Process : q # p => completionTime'[q] = completionTime[q]
      /\ completionTime'[p] = IF remainingTime[p] = d THEN t + d ELSE completionTime[p]
  BY <1>1, <1>2
<1>6. \A q \in Process : q \in Completed' <=> q \in Completed \/ (q = p /\ d = remainingTime[p])
  BY <1>1, <1>5 DEF Completed, Never
<1> QED  BY <1>2, <1>3, <1>4, <1>5, <1>6

\* Such a step is one of the processor.
LEMMA ExecuteRuns ==
  ASSUME SchedIInv, NEW p \in Process \ Completed, NEW t \in Nat, NEW d \in Nat,
         Execute(p, t, d), current_time <= t, d <= remainingTime[p],
         arrivalTime[p] <= t, d > 0 \/ remainingTime[p] = 0,
         \/ t = current_time
         \/ t = arrivalTime[p] /\ \A q \in Process \ Completed : t <= arrivalTime[q],
         startTime' = [startTime EXCEPT ![p] = IF @ = Never THEN t ELSE @],
         idx' \in 0 .. n
  PROVE  /\ Processor!ProcNext
         /\ SchedTypes'
<1>1. /\ completionTime[p] = Never /\ t \in {current_time} \cup {arrivalTime[q] : q \in Process}
      /\ d \in 0 .. remainingTime[p]
  BY DEF Completed, SchedIInv, SchedTypes
<1>2. ASSUME t > current_time, NEW q \in Process PROVE ~Processor!Waiting(q, t)
  <2>1. \A r \in Process \ Completed : t <= arrivalTime[r]  BY <1>2 DEF SchedIInv, SchedTypes
  <2>2. arrivalTime[q] \in Nat  BY DEF SchedIInv, SchedTypes
  <2> QED  BY <2>1, <2>2 DEF Processor!Waiting, Processor!Never, Never, Completed
<1>3. Processor!Run(p, t, d)
  BY <1>1, <1>2 DEF Processor!Run, Processor!Never, Never, Processor!given, Execute, input
<1>4. Processor!ProcNext  BY <1>1, <1>3 DEF Processor!ProcNext
<1>5. SchedTypes'
  <2>1. /\ startTime' \in [Process -> Int]
        /\ \A q \in Process : startTime'[q] >= Never
    BY DEF SchedIInv, SchedTypes, Never
  <2>2. UNCHANGED <<algo, timeQuantum, arrivalTime, burstTime>>  BY ExecuteKeeps DEF input
  <2>3. /\ current_time' \in Nat /\ remainingTime' \in [Process -> Nat]
        /\ completionTime' \in [Process -> Int]
        /\ \A q \in Process : remainingTime'[q] <= burstTime[q]
    BY ExecuteKeeps
  <2> QED  BY <2>1, <2>2, <2>3 DEF SchedIInv, SchedTypes, Never
<1> QED  BY <1>4, <1>5

\* A burst in one piece, by fifo or sjf.
LEMMA WholeBurst ==
  ASSUME SchedIInv, algo \in {"FIFO", "SJF"}, NEW p \in Process \ Completed, NEW t \in Nat,
         Execute(p, t, burstTime[p]), current_time <= t, arrivalTime[p] <= t,
         \/ t = current_time
         \/ t = arrivalTime[p] /\ \A q \in Process \ Completed : t <= arrivalTime[q],
         startTime' = [startTime EXCEPT ![p] = t], idx' = idx
  PROVE  SchedIInv' /\ Processor!ProcNext
<1>1. /\ startTime[p] = Never /\ remainingTime[p] = burstTime[p] /\ burstTime[p] \in Nat
      /\ startTime \in [Process -> Int] /\ idx' \in 0 .. n
  BY DEF SchedIInv, Unstarted, SchedTypes
<1>2. startTime' = [startTime EXCEPT ![p] = IF @ = Never THEN t ELSE @]  BY <1>1
<1>a. burstTime[p] <= remainingTime[p] /\ (burstTime[p] > 0 \/ remainingTime[p] = 0)  BY <1>1
<1>3. Processor!ProcNext /\ SchedTypes'  BY <1>1, <1>2, <1>a, ExecuteRuns
<1>4. /\ \A q \in Process \ Completed' : q # p /\ q \notin Completed /\ remainingTime'[q] = remainingTime[q]
      /\ algo' = algo /\ burstTime' = burstTime
  BY <1>1, <1>a, ExecuteKeeps DEF input
<1>5. Unstarted'  BY <1>1, <1>4 DEF SchedIInv, Unstarted
<1>6. Even'  BY <1>4 DEF Even
<1> QED  BY <1>3, <1>5, <1>6 DEF SchedIInv

LEMMA FifoStep ==
  ASSUME SchedIInv, fifo  PROVE SchedIInv' /\ Processor!ProcNext
<1>1. PICK p \in Process \ Completed :
        /\ \A q \in Process \ Completed : EarlierThan(p, q)
        /\ Execute(p, Begin(p), burstTime[p])
        /\ startTime' = [startTime EXCEPT ![p] = Begin(p)]
  BY DEF fifo
<1>2. /\ current_time \in Nat /\ \A q \in Process : arrivalTime[q] \in Nat
      /\ algo \in {"FIFO", "SJF"} /\ idx' = idx
  BY DEF SchedIInv, SchedTypes, fifo
<1>3. \A q \in Process \ Completed : arrivalTime[p] <= arrivalTime[q]
  BY <1>1, <1>2 DEF EarlierThan
<1>4. PICK t \in Nat : t = Begin(p)  BY <1>2 DEF Begin
<1>5. /\ current_time <= t /\ arrivalTime[p] <= t
      /\ t = current_time \/ (t = arrivalTime[p] /\ \A q \in Process \ Completed : t <= arrivalTime[q])
  <2>1. CASE current_time < arrivalTime[p]  BY <1>2, <1>3, <1>4, <2>1 DEF Begin
  <2>2. CASE arrivalTime[p] <= current_time  BY <1>2, <1>4, <2>2 DEF Begin
  <2> QED  BY <1>2, <2>1, <2>2
<1>6. Execute(p, t, burstTime[p]) /\ startTime' = [startTime EXCEPT ![p] = t]  BY <1>1, <1>4
<1> QED  BY <1>2, <1>5, <1>6, WholeBurst

LEMMA SjfStep ==
  ASSUME SchedIInv, sjf  PROVE SchedIInv' /\ Processor!ProcNext
<1>1. PICK p \in Ready : /\ Execute(p, current_time, burstTime[p])
                         /\ startTime' = [startTime EXCEPT ![p] = current_time]
  BY DEF sjf
<1>2. PICK t \in Nat : t = current_time  BY DEF SchedIInv, SchedTypes
<1>3. p \in Process \ Completed /\ arrivalTime[p] <= t /\ current_time <= t  BY <1>2 DEF Ready
<1>4. Execute(p, t, burstTime[p]) /\ startTime' = [startTime EXCEPT ![p] = t]  BY <1>1, <1>2
<1>5. algo \in {"FIFO", "SJF"} /\ idx' = idx  BY DEF sjf
<1> QED  BY <1>2, <1>3, <1>4, <1>5, WholeBurst

LEMMA SrtfStep ==
  ASSUME SchedIInv, srtf  PROVE SchedIInv' /\ Processor!ProcNext
<1>1. PICK p \in Ready :
        /\ Execute(p, current_time, 1)
        /\ startTime' = [startTime EXCEPT ![p] = IF remainingTime[p] = burstTime[p]
                                                   THEN current_time ELSE @]
  BY DEF srtf
<1>2. /\ current_time \in Nat /\ p \in Process \ Completed /\ arrivalTime[p] <= current_time
      /\ remainingTime[p] \in Nat /\ remainingTime[p] <= burstTime[p] /\ burstTime[p] \in Nat
      /\ startTime \in [Process -> Int] /\ idx' \in 0 .. n /\ algo = "SRTF"
  BY DEF SchedIInv, SchedTypes, Ready, srtf
<1>3. remainingTime[p] > 0 /\ (startTime[p] = Never <=> remainingTime[p] = burstTime[p])
  BY <1>2 DEF SchedIInv, Unstarted
<1>4. startTime' = [startTime EXCEPT ![p] = IF @ = Never THEN current_time ELSE @]
  BY <1>1, <1>3
<1>5. 1 \in Nat /\ 1 <= remainingTime[p] /\ 1 > 0 /\ current_time <= current_time  BY <1>2, <1>3
<1>6. Processor!ProcNext /\ SchedTypes'  BY <1>1, <1>2, <1>4, <1>5, ExecuteRuns
<1>7. /\ \A q \in Process : q # p => remainingTime'[q] = remainingTime[q]
      /\ remainingTime'[p] = remainingTime[p] - 1
      /\ \A q \in Process : q \in Completed' <=> q \in Completed \/ (q = p /\ 1 = remainingTime[p])
      /\ algo' = algo /\ burstTime' = burstTime
  BY <1>1, <1>2, <1>5, ExecuteKeeps DEF input
<1>8. Unstarted'
  <2> SUFFICES ASSUME NEW q \in Process, q \notin Completed'
               PROVE  remainingTime'[q] > 0 /\ (startTime'[q] = Never <=> remainingTime'[q] = burstTime[q])
    BY <1>2, <1>7 DEF Unstarted
  <2>1. q \notin Completed  BY <1>7
  <2>2. CASE q = p
    <3>1. remainingTime'[p] > 0 /\ remainingTime'[p] # burstTime[p]  BY <1>2, <1>3, <1>7, <2>2
    <3>2. startTime'[p] # Never  BY <1>2, <1>4 DEF Never
    <3> QED  BY <2>2, <3>1, <3>2
  <2>3. CASE q # p
    <3>1. startTime'[q] = startTime[q]  BY <1>2, <1>4, <2>3
    <3> QED  BY <1>2, <1>7, <2>1, <2>3, <3>1 DEF SchedIInv, Unstarted
  <2> QED  BY <2>2, <2>3
<1>9. Even'  BY <1>2, <1>7 DEF Even
<1> QED  BY <1>6, <1>8, <1>9 DEF SchedIInv

\* The place in the queue, and the one after it.
LEMMA TurnBounds ==
  ASSUME SchedTypes
  PROVE  /\ Turn = IF idx = n THEN 1 ELSE idx + 1
         /\ NextPlace(idx) = Turn /\ Turn \in 1 .. n
BY SchedulingAssumption DEF SchedTypes, Turn, NextPlace

\* A place that gets no slice, for its process is completed or not there from
\* the beginning, or gets a whole one, leaves the shares of the others even.
LEMMA EvenKept ==
  ASSUME SchedIInv, algo = "RR", idx' = Turn, Completed \subseteq Completed',
         UNCHANGED <<algo, timeQuantum, arrivalTime, burstTime>>,
         \A q \in Process : q # Turn => remainingTime'[q] = remainingTime[q],
         \/ Turn \in Completed' \/ arrivalTime[Turn] # 0
         \/ remainingTime'[Turn] = remainingTime[Turn] - timeQuantum
  PROVE  Even'
<1>1. /\ n \in Nat \ {0} /\ idx \in 0 .. n /\ timeQuantum \in Nat
      /\ Turn = IF idx = n THEN 1 ELSE idx + 1
      /\ Turn' = IF Turn = n THEN 1 ELSE Turn + 1
  BY SchedulingAssumption, TurnBounds DEF SchedIInv, SchedTypes, Turn
<1>2. \A q \in Process : burstTime[q] \in Nat /\ remainingTime[q] \in Nat
  BY DEF SchedIInv, SchedTypes
<1> DEFINE Share(q) == Served(q) - InRound(q)
<1>3. ASSUME NEW q \in Process, q \notin Completed', arrivalTime[q] = 0
      PROVE  Share(q)' = Share(q) + IF Turn = n THEN timeQuantum ELSE 0
  <2>1. q \in Int /\ 1 <= q /\ q <= n  BY <1>1 DEF Process
  <2>2. CASE q = Turn
    <3>1. Served(q)' = Served(q) + timeQuantum  BY <1>1, <1>2, <1>3, <2>2 DEF Served
    <3>2. InRound(q) = 0 /\ InRound(q)' = IF Turn = n THEN 0 ELSE timeQuantum
      BY <1>1, <2>1, <2>2 DEF InRound
    <3>3. Served(q) \in Int  BY <1>2 DEF Served
    <3> QED  BY <1>1, <3>1, <3>2, <3>3
  <2>3. CASE q # Turn
    <3>1. Served(q)' = Served(q) /\ Served(q) \in Int  BY <1>2, <2>3 DEF Served
    <3>2. CASE Turn = n
      <4>1. InRound(q) = timeQuantum /\ InRound(q)' = 0  BY <1>1, <2>1, <2>3, <3>2 DEF InRound
      <4> QED  BY <1>1, <3>1, <3>2, <4>1
    <3>3. CASE Turn # n
      <4>1. InRound(q)' = InRound(q) /\ InRound(q) \in Int  BY <1>1, <2>1, <2>3, <3>3 DEF InRound
      <4> QED  BY <3>1, <3>3, <4>1
    <3> QED  BY <3>2, <3>3
  <2> QED  BY <2>2, <2>3
<1>4. ASSUME NEW p \in Process, NEW q \in Process, p \notin Completed', q \notin Completed',
             arrivalTime[p] = 0, arrivalTime[q] = 0
      PROVE  Share(p)' = Share(q)'
  <2>1. Share(p) = Share(q)  BY <1>4 DEF SchedIInv, Even
  <2> HIDE DEF Share
  <2> QED  BY <1>3, <1>4, <2>1
<1> QED  BY <1>4 DEF Even

LEMMA RrStep ==
  ASSUME SchedIInv, rr
  PROVE  /\ SchedIInv'
         /\ [Processor!ProcNext]_(Processor!proc_vars)
<1>1. /\ n \in Nat \ {0} /\ Turn \in Process /\ idx' = Turn /\ idx' \in 0 .. n
      /\ algo = "RR" /\ timeQuantum \in Nat \ {0}
  <2>1. algo = "RR" /\ idx' = NextPlace(idx)  BY DEF rr
  <2>2. NextPlace(idx) = Turn /\ Turn \in 1 .. n  BY TurnBounds DEF SchedIInv
  <2>3. timeQuantum \in Nat \ {0}  BY DEF SchedIInv, SchedTypes
  <2> QED  BY <2>1, <2>2, <2>3, SchedulingAssumption DEF Process
<1>2. CASE Turn \in Ready
  <2>1. PICK t \in Nat, d \in Nat : t = current_time /\ d = Slice(Turn)
    BY <1>1 DEF SchedIInv, SchedTypes, Slice
  <2>2. /\ Turn \in Process \ Completed /\ arrivalTime[Turn] <= t /\ current_time <= t
        /\ remainingTime[Turn] \in Nat
    BY <1>1, <1>2, <2>1 DEF Ready, SchedIInv, SchedTypes
  <2>3. d <= remainingTime[Turn] /\ (d > 0 \/ remainingTime[Turn] = 0)
    BY <1>1, <2>1, <2>2 DEF Slice
  <2>4. /\ Execute(Turn, t, d)
        /\ startTime' = [startTime EXCEPT ![Turn] = IF @ = Never THEN t ELSE @]
    BY <1>2, <2>1 DEF rr
  <2>5. Processor!ProcNext /\ SchedTypes'  BY <1>1, <2>1, <2>2, <2>3, <2>4, ExecuteRuns
  <2>6. /\ \A q \in Process : q # Turn => remainingTime'[q] = remainingTime[q]
        /\ remainingTime'[Turn] = remainingTime[Turn] - d
        /\ \A q \in Process : q \in Completed' <=> q \in Completed \/ (q = Turn /\ d = remainingTime[Turn])
        /\ UNCHANGED <<algo, timeQuantum, arrivalTime, burstTime>>
    BY <2>2, <2>3, <2>4, ExecuteKeeps DEF input
  <2>7. Completed \subseteq Completed'  BY <2>6 DEF Completed
  <2>8. Turn \in Completed' \/ remainingTime'[Turn] = remainingTime[Turn] - timeQuantum
    BY <1>1, <2>1, <2>2, <2>6 DEF Slice
  <2>9. Even'  BY <1>1, <2>6, <2>7, <2>8, EvenKept
  <2>10. Unstarted'  BY <1>1, <2>6 DEF Unstarted
  <2> QED  BY <2>5, <2>9, <2>10 DEF SchedIInv
<1>3. CASE Turn \notin Ready
  <2>1. UNCHANGED <<input, current_time, remainingTime, startTime, completionTime>>
    BY <1>3 DEF rr
  <2>2. /\ UNCHANGED <<algo, timeQuantum, arrivalTime, burstTime>> /\ Completed' = Completed
        /\ UNCHANGED Processor!proc_vars
    BY <2>1 DEF input, Completed, Processor!proc_vars, Processor!given
  <2>3. Turn \in Completed \/ arrivalTime[Turn] # 0
    BY <1>1, <1>3 DEF Ready, SchedIInv, SchedTypes
  <2>4. Even'  BY <1>1, <2>1, <2>2, <2>3, EvenKept
  <2>5. SchedTypes' /\ Unstarted'
    BY <1>1, <2>1, <2>2 DEF SchedIInv, SchedTypes, Unstarted
  <2> QED  BY <2>2, <2>4, <2>5 DEF SchedIInv
<1> QED  BY <1>2, <1>3

LEMMA TickStep ==
  ASSUME SchedIInv, algo \in {"SJF", "SRTF"}, Tick  PROVE SchedIInv' /\ Processor!ProcNext
<1>1. /\ Ready = {} /\ current_time' = current_time + 1 /\ current_time \in Nat
      /\ UNCHANGED <<input, remainingTime, startTime, completionTime, idx>>
  BY DEF Tick, SchedIInv, SchedTypes
<1>2. ASSUME NEW q \in Process PROVE ~Processor!Waiting(q, current_time + 1)
  <2>1. q \in Completed \/ ~(arrivalTime[q] <= current_time)  BY <1>1 DEF Ready
  <2>2. arrivalTime[q] \in Nat  BY DEF SchedIInv, SchedTypes
  <2> QED  BY <1>1, <2>1, <2>2 DEF Processor!Waiting, Processor!Never, Never, Completed
<1>3. Processor!Idle  BY <1>1, <1>2 DEF Processor!Idle, Processor!given, input
<1>4. SchedTypes'  BY <1>1 DEF SchedIInv, SchedTypes, input
<1>5. Unstarted'  BY <1>1 DEF SchedIInv, Unstarted, Completed, input
<1>6. Even'  BY DEF Even, Tick, input
<1> QED  BY <1>3, <1>4, <1>5, <1>6 DEF SchedIInv, Processor!ProcNext

LEMMA SchedNextInv ==
  SchedIInv /\ [SchedNext]_sched_vars => SchedIInv' /\ [Processor!ProcNext]_(Processor!proc_vars)
<1>1. CASE UNCHANGED sched_vars
  BY <1>1 DEF sched_vars, input, SchedIInv, SchedTypes, Unstarted, Even, Completed, Served, InRound,
              Turn, Processor!proc_vars, Processor!given
<1> QED  BY <1>1, FifoStep, SjfStep, SrtfStep, RrStep, TickStep DEF SchedNext

LEMMA SharesEqual == SchedIInv => EqualShares
<1> SUFFICES ASSUME SchedIInv, algo = "RR", NEW p \in Process \ Completed, NEW q \in Process \ Completed,
                    arrivalTime[p] = 0, arrivalTime[q] = 0
             PROVE  Served(p) <= Served(q) + timeQuantum
  BY DEF EqualShares, Served
<1>1. /\ Served(p) - InRound(p) = Served(q) - InRound(q)
      /\ timeQuantum \in Nat
  BY DEF SchedIInv, Even, SchedTypes
<1>2. Served(p) \in Int /\ Served(q) \in Int
  BY DEF SchedIInv, SchedTypes, Served
<1>3. InRound(p) \in 0 .. timeQuantum /\ InRound(q) \in 0 .. timeQuantum  BY <1>1 DEF InRound
<1> QED  BY <1>1, <1>2, <1>3

----------------------------------------------------------------------------
(* srtf against the rival.  Whatever processes are left aside for the      *)
(* rival, as many can be left aside for srtf, so that of the others srtf   *)
(* has no more left to do.  When a tick goes to one of those left aside    *)
(* for srtf, it is exchanged for one that has work left.                   *)

\* What a schedule has left to do for the processes of S, tick by tick.
Cells(left, S) == {c \in S \X (1 .. MAX_BURST) : c[2] <= left[c[1]]}
Work(left, S)  == Cardinality(Cells(left, S))
Lefts          == [Process -> 0 .. MAX_BURST]

LEMMA WorkFinite ==
  ASSUME NEW left, NEW S \in SUBSET Process
  PROVE  IsFiniteSet(S) /\ IsFiniteSet(Cells(left, S)) /\ Work(left, S) \in Nat
<1>1. n \in Nat /\ MAX_BURST \in Nat  BY SchedulingAssumption
<1>2. IsFiniteSet(1 .. n) /\ IsFiniteSet(1 .. MAX_BURST)  BY <1>1, FS_Interval
<1>3. IsFiniteSet(S)  BY <1>2, FS_Subset DEF Process
<1>4. IsFiniteSet(S \X (1 .. MAX_BURST))  BY <1>2, <1>3, FS_Product
<1>5. Cells(left, S) \in SUBSET (S \X (1 .. MAX_BURST))  BY DEF Cells
<1> QED  BY <1>3, <1>4, <1>5, FS_Subset, FS_CardinalityType DEF Work

LEMMA WorkOfSome ==
  ASSUME NEW left, NEW S \in SUBSET Process, NEW T \in SUBSET Process, S \cap T = {}
  PROVE  Work(left, S \cup T) = Work(left, S) + Work(left, T)
<1>1. Cells(left, S \cup T) = Cells(left, S) \cup Cells(left, T)  BY DEF Cells
<1>2. Cells(left, S) \cap Cells(left, T) = {}
  <2>1. \A c \in Cells(left, S) : c[1] \in S  BY DEF Cells
  <2>2. \A c \in Cells(left, T) : c[1] \in T  BY DEF Cells
  <2> QED  BY <2>1, <2>2
<1>3. IsFiniteSet(Cells(left, S)) /\ IsFiniteSet(Cells(left, T))  BY WorkFinite
<1>4. Cardinality(Cells(left, S) \cup Cells(left, T)) =
        Cardinality(Cells(left, S)) + Cardinality(Cells(left, T)) - 0
  BY <1>2, <1>3, FS_Union, FS_EmptySet
<1>5. Work(left, S) \in Nat /\ Work(left, T) \in Nat  BY WorkFinite
<1>6. Work(left, S \cup T) = Work(left, S) + Work(left, T) - 0  BY <1>1, <1>4, Zenon DEF Work
<1> QED  BY <1>5, <1>6

LEMMA WorkSame ==
  ASSUME NEW left, NEW right, NEW S \in SUBSET Process, \A p \in S : left[p] = right[p]
  PROVE  Work(left, S) = Work(right, S)
<1>1. Cells(left, S) = Cells(right, S)  BY DEF Cells
<1> QED  BY <1>1 DEF Work

LEMMA WorkOfOne ==
  ASSUME NEW left \in Lefts, NEW p \in Process
  PROVE  Work(left, {p}) = left[p]
<1>1. left[p] \in 0 .. MAX_BURST /\ MAX_BURST \in Nat  BY SchedulingAssumption DEF Lefts
<1> DEFINE m == left[p]
           C == Cells(left, {p})
           f == [i \in 1 .. m |-> <<p, i>>]
<1>2. C = {<<p, i>> : i \in 1 .. m}
  <2>1. \A i \in 1 .. m : <<p, i>> \in C  BY <1>1 DEF Cells
  <2>2. \A c \in C : c = <<p, c[2]>> /\ c[2] \in 1 .. m  BY <1>1 DEF Cells
  <2> HIDE DEF C, m
  <2> QED  BY <2>1, <2>2
<1>3. m \in Nat  BY <1>1
<1> HIDE DEF m, C
<1>4. f \in [1 .. m -> C] /\ DOMAIN f = 1 .. m  BY <1>2
<1>5. \A i, j \in 1 .. m : f[i] = f[j] => i = j  OBVIOUS
<1>6. \A c \in C : \E i \in 1 .. m : f[i] = c  BY <1>2
<1> HIDE DEF f
<1>7. f \in Bijection(1 .. m, C)  BY <1>4, <1>5, <1>6, Zenon DEF Bijection, Injection, Surjection, IsInjective
<1>8. IsFiniteSet(1 .. m) /\ Cardinality(1 .. m) = m  BY <1>3, FS_Interval
<1>9. Cardinality(C) = m  BY <1>7, <1>8, FS_Bijection DEF ExistsBijection
<1> QED  BY <1>9 DEF C, m, Work

LEMMA WorkNone ==
  ASSUME NEW left \in Lefts, NEW S \in SUBSET Process
  PROVE  Work(left, S) = 0 <=> \A p \in S : left[p] = 0
<1>1. \A p \in S : left[p] \in 0 .. MAX_BURST /\ MAX_BURST \in Nat  BY SchedulingAssumption DEF Lefts
<1>2. Work(left, S) = 0 <=> Cells(left, S) = {}  BY WorkFinite, FS_EmptySet DEF Work
<1>3. ASSUME NEW p \in S, left[p] # 0 PROVE Cells(left, S) # {}
  <2>1. <<p, 1>> \in Cells(left, S)  BY <1>1, <1>3 DEF Cells
  <2> QED  BY <2>1
<1>4. ASSUME NEW c \in Cells(left, S) PROVE \E p \in S : left[p] # 0
  <2>1. c[1] \in S /\ c[2] \in 1 .. MAX_BURST /\ c[2] <= left[c[1]]  BY DEF Cells
  <2> QED  BY <2>1, <1>1
<1> QED  BY <1>2, <1>3, <1>4

\* A tick for p.
Ticked(p, left, next) == left[p] > 0 /\ next = [left EXCEPT ![p] = @ - 1]

LEMMA WorkDone ==
  ASSUME NEW left \in Lefts, NEW p \in Process, NEW next, Ticked(p, left, next)
  PROVE  /\ next \in Lefts
         /\ \A S \in SUBSET Process : p \in S => Work(next, S) = Work(left, S) - 1
         /\ \A S \in SUBSET Process : p \notin S => Work(next, S) = Work(left, S)
<1>1. left[p] \in 0 .. MAX_BURST /\ MAX_BURST \in Nat  BY SchedulingAssumption DEF Lefts
<1>2. next \in Lefts /\ next[p] = left[p] - 1 /\ \A q \in Process : q # p => next[q] = left[q]
  BY <1>1 DEF Lefts, Ticked
<1>3. ASSUME NEW S \in SUBSET Process, p \in S PROVE Work(next, S) = Work(left, S) - 1
  <2> DEFINE T == S \ {p}
  <2>1. S = T \cup {p} /\ T \cap {p} = {} /\ T \in SUBSET Process /\ {p} \in SUBSET Process  BY <1>3
  <2>2. Work(next, T) = Work(left, T)
    <3>1. \A q \in T : next[q] = left[q]  BY <1>2
    <3> QED  BY <2>1, <3>1, WorkSame, Zenon
  <2> HIDE DEF T
  <2>3. Work(next, S) = Work(next, T) + Work(next, {p})  BY <2>1, WorkOfSome
  <2>4. Work(left, S) = Work(left, T) + Work(left, {p})  BY <2>1, WorkOfSome
  <2>5. Work(next, {p}) = left[p] - 1 /\ Work(left, {p}) = left[p]  BY <1>2, WorkOfOne
  <2>6. Work(left, T) \in Nat  BY <2>1, WorkFinite
  <2> QED  BY <1>1, <2>2, <2>3, <2>4, <2>5, <2>6
<1>4. ASSUME NEW S \in SUBSET Process, p \notin S PROVE Work(next, S) = Work(left, S)
  BY <1>2, <1>4, WorkSame
<1> QED  BY <1>2, <1>3, <1>4

Arrived == {p \in Process : arrivalTime[p] <= current_time}

\* Whichever processes the rival has favoured, there are as many that srtf has,
\* so that of the others no more is left to do.
NotBehind ==
  \A D \in SUBSET Arrived : \E E \in SUBSET Arrived :
    /\ Cardinality(E) <= Cardinality(D)
    /\ Work(remainingTime, Arrived \ E) <= Work(rival, Arrived \ D)

RivalTypes ==
  /\ burstTime \in [Process -> 1 .. MAX_BURST]
  /\ remainingTime \in Lefts /\ rival \in Lefts
  /\ \A p \in Process \ Arrived : remainingTime[p] = burstTime[p] /\ rival[p] = burstTime[p]
  /\ \A p \in Completed : remainingTime[p] = 0

RivalIInv == algo = "SRTF" => RivalTypes /\ NotBehind

\* Those that arrive are new to both.
LEMMA ArriveNotBehind ==
  ASSUME NEW left \in Lefts, NEW right \in Lefts,
         NEW A \in SUBSET Process, NEW B \in SUBSET Process, A \subseteq B,
         \A p \in B \ A : left[p] = right[p],
         NEW D \in SUBSET B, NEW E \in SUBSET A,
         Cardinality(E) <= Cardinality(D \cap A),
         Work(left, A \ E) <= Work(right, A \ D)
  PROVE  \E F \in SUBSET B : Cardinality(F) <= Cardinality(D) /\ Work(left, B \ F) <= Work(right, B \ D)
<1> DEFINE F == E \cup (D \ A)
           N == (B \ A) \ D
<1>1. F \in SUBSET B  OBVIOUS
<1>2. Cardinality(F) <= Cardinality(D)
  <2>1. IsFiniteSet(D) /\ IsFiniteSet(E) /\ IsFiniteSet(D \ A) /\ IsFiniteSet(D \cap A)
    BY WorkFinite
  <2>2. (D \cap A) \cap (D \ A) = {} /\ (D \cap A) \cup (D \ A) = D /\ E \cap (D \ A) = {}  OBVIOUS
  <2>3. Cardinality(F) = Cardinality(E) + Cardinality(D \ A) - 0
    BY <2>1, <2>2, FS_Union, FS_EmptySet
  <2>4. Cardinality(D) = Cardinality(D \cap A) + Cardinality(D \ A) - 0
    <3>1. Cardinality((D \cap A) \cup (D \ A)) =
            Cardinality(D \cap A) + Cardinality(D \ A) - Cardinality((D \cap A) \cap (D \ A))
      BY <2>1, FS_Union
    <3> QED  BY <3>1, <2>2, FS_EmptySet
  <2>5. /\ Cardinality(E) \in Nat /\ Cardinality(D \ A) \in Nat /\ Cardinality(D \cap A) \in Nat
    BY <2>1, FS_CardinalityType
  <2> HIDE DEF F
  <2> QED  BY <2>3, <2>4, <2>5
<1>3. Work(left, B \ F) <= Work(right, B \ D)
  <2>1. B \ F = (A \ E) \cup N /\ B \ D = (A \ D) \cup N  OBVIOUS
  <2>2. (A \ E) \cap N = {} /\ (A \ D) \cap N = {} /\ N \in SUBSET Process
        /\ A \ E \in SUBSET Process /\ A \ D \in SUBSET Process
    OBVIOUS
  <2>3. \A p \in N : left[p] = right[p]  OBVIOUS
  <2> HIDE DEF F, N
  <2>4. Work(left, N) = Work(right, N)  BY <2>2, <2>3, WorkSame, Zenon
  <2>5. Work(left, (A \ E) \cup N) = Work(left, A \ E) + Work(left, N)  BY <2>2, WorkOfSome, Zenon
  <2>6. Work(right, (A \ D) \cup N) = Work(right, A \ D) + Work(right, N)  BY <2>2, WorkOfSome, Zenon
  <2>7. /\ Work(left, A \ E) \in Nat /\ Work(right, A \ D) \in Nat
        /\ Work(left, N) \in Nat /\ Work(right, N) \in Nat
    BY <2>2, WorkFinite
  <2>8. /\ Work(left, B \ F) = Work(left, A \ E) + Work(left, N)
        /\ Work(right, B \ D) = Work(right, A \ D) + Work(right, N)
    BY <2>1, <2>5, <2>6, Zenon
  <2> QED  BY <2>4, <2>7, <2>8
<1> HIDE DEF F
<1> QED  BY <1>1, <1>2, <1>3

\* A tick that srtf gives to a shortest of the processes that have work left.
LEMMA ShortestNotBehind ==
  ASSUME NEW left \in Lefts, NEW A \in SUBSET Process, NEW p \in A,
         \A q \in A : left[q] > 0 => left[p] <= left[q],
         NEW next, Ticked(p, left, next),
         NEW E \in SUBSET A
  PROVE  \E F \in SUBSET A :
           /\ Cardinality(F) <= Cardinality(E)
           /\ Work(next, A \ F) = 0 \/ Work(next, A \ F) <= Work(left, A \ E) - 1
<1>1. /\ next \in Lefts
      /\ \A S \in SUBSET Process : p \in S => Work(next, S) = Work(left, S) - 1
      /\ \A S \in SUBSET Process : p \notin S => Work(next, S) = Work(left, S)
  <2>1. p \in Process  OBVIOUS
  <2> QED  BY <2>1, WorkDone, Zenon
<1>2. IsFiniteSet(E) /\ Cardinality(E) \in Nat /\ Cardinality(E) <= Cardinality(E)
  <2>0. E \in SUBSET Process  OBVIOUS
  <2>1. IsFiniteSet(E)  BY <2>0, WorkFinite, Zenon
  <2>2. Cardinality(E) \in Nat  BY <2>1, FS_CardinalityType
  <2> QED  BY <2>1, <2>2
<1>3. A \ E \in SUBSET Process /\ Work(left, A \ E) \in Nat  BY WorkFinite
<1>4. CASE p \notin E
  <2>1. Work(next, A \ E) = Work(left, A \ E) - 1  BY <1>1, <1>3, <1>4
  <2>2. Work(next, A \ E) <= Work(left, A \ E) - 1  BY <1>3, <2>1
  <2> WITNESS E \in SUBSET A
  <2> QED  BY <1>2, <2>2
<1>5. CASE p \in E /\ \A q \in A \ E : left[q] = 0
  <2>1. Work(left, A \ E) = 0  BY <1>3, <1>5, WorkNone
  <2>2. Work(next, A \ E) = 0  BY <1>1, <1>3, <1>5, <2>1
  <2> WITNESS E \in SUBSET A
  <2> QED  BY <1>2, <2>2, Zenon
<1>6. ASSUME p \in E, NEW z \in A \ E, left[z] # 0
      PROVE  \E F \in SUBSET A :
               /\ Cardinality(F) <= Cardinality(E)
               /\ Work(next, A \ F) = 0 \/ Work(next, A \ F) <= Work(left, A \ E) - 1
  <2> DEFINE R == (A \ E) \ {z}
             F == (E \ {p}) \cup {z}
  <2>1. A \ F = R \cup {p} /\ A \ E = R \cup {z} /\ p \notin R /\ z \notin R /\ p # z  BY <1>6
  <2>2. R \in SUBSET Process /\ {p} \in SUBSET Process /\ {z} \in SUBSET Process
        /\ R \cap {p} = {} /\ R \cap {z} = {} /\ p \in Process /\ z \in Process
    BY <2>1
  <2>3. F \in SUBSET A  BY <1>6
  <2>4. Cardinality(F) = Cardinality(E)
    <3>1. IsFiniteSet(E \ {p}) /\ Cardinality(E \ {p}) = Cardinality(E) - 1  BY <1>2, <1>6, FS_RemoveElement
    <3>2. z \notin E \ {p}  OBVIOUS
    <3>3. Cardinality((E \ {p}) \cup {z}) = Cardinality(E \ {p}) + 1  BY <3>1, <3>2, FS_AddElement
    <3> QED  BY <1>2, <3>1, <3>3
  <2> HIDE DEF R, F
  <2>5. Work(left, {p}) = left[p] /\ Work(left, {z}) = left[z]  BY <2>2, WorkOfOne, Zenon
  <2>6. Work(left, R \cup {p}) = Work(left, R) + Work(left, {p})  BY <2>2, WorkOfSome, Zenon
  <2>7. Work(left, R \cup {z}) = Work(left, R) + Work(left, {z})  BY <2>2, WorkOfSome, Zenon
  <2>8. Work(next, R \cup {p}) = Work(left, R \cup {p}) - 1
    <3>1. p \in R \cup {p} /\ R \cup {p} \in SUBSET Process  BY <2>2
    <3> QED  BY <1>1, <3>1, Zenon
  <2>9. left[p] \in Nat /\ left[z] \in Nat /\ Work(left, R) \in Nat
    <3>1. left[p] \in 0 .. MAX_BURST /\ left[z] \in 0 .. MAX_BURST  BY <2>2 DEF Lefts
    <3> QED  BY <2>2, <3>1, WorkFinite, SchedulingAssumption
  <2>10. left[p] <= left[z]  BY <1>6, <2>9
  <2>11. Work(next, A \ F) = Work(next, R \cup {p}) /\ Work(left, A \ E) = Work(left, R \cup {z})
    BY <2>1, Zenon
  <2>12. Work(next, A \ F) <= Work(left, A \ E) - 1
    BY <2>5, <2>6, <2>7, <2>8, <2>9, <2>10, <2>11
  <2> WITNESS F \in SUBSET A
  <2> QED  BY <1>2, <2>4, <2>12
<1> QED  BY <1>4, <1>5, <1>6

LEMMA RivalInitInv == SchedInit /\ rival = burstTime => RivalIInv
<1> SUFFICES ASSUME SchedInit, rival = burstTime, algo = "SRTF" PROVE RivalTypes /\ NotBehind
  BY DEF RivalIInv
<1>1. MAX_BURST \in Nat \ {0}  BY SchedulingAssumption
<1>2. burstTime \in [Process -> 1 .. MAX_BURST] /\ remainingTime = burstTime /\ Completed = {}
  BY DEF SchedInit, Completed
<1>3. burstTime \in Lefts  BY <1>1, <1>2 DEF Lefts
<1>4. RivalTypes  BY <1>2, <1>3 DEF RivalTypes
<1>5. NotBehind
  <2> SUFFICES ASSUME NEW D \in SUBSET Arrived
               PROVE  \E E \in SUBSET Arrived :
                        /\ Cardinality(E) <= Cardinality(D)
                        /\ Work(remainingTime, Arrived \ E) <= Work(rival, Arrived \ D)
    BY DEF NotBehind
  <2>1. D \in SUBSET Process /\ Arrived \ D \in SUBSET Process  BY DEF Arrived
  <2>2. IsFiniteSet(D) /\ Work(burstTime, Arrived \ D) \in Nat  BY <2>1, WorkFinite
  <2>3. Cardinality(D) \in Nat  BY <2>2, FS_CardinalityType
  <2> WITNESS D \in SUBSET Arrived
  <2> QED  BY <1>2, <2>2, <2>3
<1> QED  BY <1>4, <1>5

\* The rival runs one of the processes that have arrived, or none.
LEMMA RivalStep ==
  ASSUME RivalTypes, RivalRuns
  PROVE  /\ rival' \in Lefts
         /\ \A S \in SUBSET Process : Work(rival', S) >= Work(rival, S) - 1
         /\ \A p \in Process \ Arrived : rival'[p] = rival[p]
<1>0. rival \in Lefts  BY DEF RivalTypes
<1>1. CASE UNCHANGED rival
  <2>1. \A S \in SUBSET Process : Work(rival, S) \in Nat  BY WorkFinite
  <2> QED  BY <1>0, <1>1, <2>1
<1>2. ASSUME NEW q \in Process, arrivalTime[q] <= current_time, rival[q] > 0,
             rival' = [rival EXCEPT ![q] = @ - 1]
      PROVE  /\ rival' \in Lefts
             /\ \A S \in SUBSET Process : Work(rival', S) >= Work(rival, S) - 1
             /\ \A p \in Process \ Arrived : rival'[p] = rival[p]
  <2>1. Ticked(q, rival, rival')  BY <1>2 DEF Ticked
  <2>2. /\ rival' \in Lefts
        /\ \A S \in SUBSET Process : q \in S => Work(rival', S) = Work(rival, S) - 1
        /\ \A S \in SUBSET Process : q \notin S => Work(rival', S) = Work(rival, S)
    BY <1>0, <2>1, WorkDone, Zenon
  <2>3. \A S \in SUBSET Process : Work(rival, S) \in Nat  BY WorkFinite
  <2>4. \A S \in SUBSET Process : Work(rival', S) >= Work(rival, S) - 1  BY <2>2, <2>3
  <2>5. \A p \in Process \ Arrived : rival'[p] = rival[p]  BY <1>0, <1>2 DEF Arrived, Lefts
  <2> QED  BY <2>2, <2>4, <2>5
<1> QED  BY <1>1, <1>2 DEF RivalRuns

\* A step of srtf is a tick for a shortest process.
LEMMA SrtfTicks ==
  ASSUME SchedIInv, RivalTypes, srtf
  PROVE  /\ \E p \in Arrived :
              /\ Ticked(p, remainingTime, remainingTime')
              /\ \A q \in Arrived : remainingTime[q] > 0 => remainingTime[p] <= remainingTime[q]
         /\ \A q \in Completed' : remainingTime'[q] = 0
         /\ current_time' = current_time + 1 /\ UNCHANGED <<arrivalTime, burstTime>>
<1>1. PICK p \in Ready : /\ \A q \in Ready : ShorterThan(p, q)
                         /\ Execute(p, current_time, 1)
  BY DEF srtf
<1>2. /\ \A q \in Process : remainingTime[q] \in Nat
      /\ p \in Arrived /\ p \notin Completed /\ current_time \in Nat
  BY DEF SchedIInv, SchedTypes, Ready, Arrived
<1>3. \A q \in Process \ Completed : remainingTime[q] > 0  BY DEF SchedIInv, Unstarted, srtf
<1>4. \A q \in Arrived : remainingTime[q] > 0 => q \in Ready
  <2>1. \A q \in Completed : remainingTime[q] = 0  BY DEF RivalTypes
  <2> QED  BY <2>1 DEF Arrived, Ready
<1>5. \A q \in Arrived : remainingTime[q] > 0 => remainingTime[p] <= remainingTime[q]
  <2>1. \A q \in Ready : q \in Process /\ remainingTime[p] <= remainingTime[q]
    BY <1>1, <1>2 DEF ShorterThan, Ready
  <2> QED  BY <1>4, <2>1
<1>6. Ticked(p, remainingTime, remainingTime')
  <2>1. p \in Process  BY DEF Ready
  <2> QED  BY <1>1, <1>2, <1>3, <2>1 DEF Execute, Ticked
<1>7. \A q \in Completed' : remainingTime'[q] = 0
  <2>1. p \in Process \ Completed /\ 1 \in Nat /\ 1 <= remainingTime[p] /\ current_time <= current_time
    BY <1>2, <1>3 DEF Ready
  <2>2. /\ \A q \in Process : q # p => remainingTime'[q] = remainingTime[q]
        /\ remainingTime'[p] = remainingTime[p] - 1
        /\ \A q \in Process : q \in Completed' <=> q \in Completed \/ (q = p /\ 1 = remainingTime[p])
    BY <1>1, <1>2, <2>1, ExecuteKeeps
  <2>3. \A q \in Completed' : q \in Process  BY DEF Completed
  <2>4. \A q \in Completed : remainingTime[q] = 0  BY DEF RivalTypes
  <2> QED  BY <1>2, <2>2, <2>3, <2>4
<1> QED  BY <1>1, <1>2, <1>5, <1>6, <1>7 DEF Execute, input

\* Whatever was true of those that had arrived is so when others do.
LEMMA NotBehindLater ==
  ASSUME NEW left \in Lefts, NEW right \in Lefts,
         NEW A \in SUBSET Process, NEW B \in SUBSET Process, A \subseteq B,
         \A p \in B \ A : left[p] = right[p],
         \A D \in SUBSET A : \E E \in SUBSET A :
           Cardinality(E) <= Cardinality(D) /\ Work(left, A \ E) <= Work(right, A \ D)
  PROVE  \A D \in SUBSET B : \E E \in SUBSET B :
           Cardinality(E) <= Cardinality(D) /\ Work(left, B \ E) <= Work(right, B \ D)
<1> TAKE D \in SUBSET B
<1>1. D \cap A \in SUBSET A /\ A \ (D \cap A) = A \ D  OBVIOUS
<1>2. PICK E \in SUBSET A :
        Cardinality(E) <= Cardinality(D \cap A) /\ Work(left, A \ E) <= Work(right, A \ D)
  BY <1>1, Zenon
<1> QED  BY <1>2, ArriveNotBehind

\* No matter whom the rival ran, those it favoured can be matched.
LEMMA TickNotBehind ==
  ASSUME RivalTypes, NotBehind, RivalRuns, NEW p \in Arrived,
         Ticked(p, remainingTime, remainingTime'),
         \A q \in Arrived : remainingTime[q] > 0 => remainingTime[p] <= remainingTime[q]
  PROVE  \A D \in SUBSET Arrived : \E E \in SUBSET Arrived :
           /\ Cardinality(E) <= Cardinality(D)
           /\ Work(remainingTime', Arrived \ E) <= Work(rival', Arrived \ D)
<1> TAKE D \in SUBSET Arrived
<1>1. PICK E \in SUBSET Arrived :
        /\ Cardinality(E) <= Cardinality(D)
        /\ Work(remainingTime, Arrived \ E) <= Work(rival, Arrived \ D)
  BY DEF NotBehind
<1>2. Arrived \in SUBSET Process /\ remainingTime \in Lefts  BY DEF Arrived, RivalTypes
<1>3. PICK F \in SUBSET Arrived :
        /\ Cardinality(F) <= Cardinality(E)
        /\ \/ Work(remainingTime', Arrived \ F) = 0
           \/ Work(remainingTime', Arrived \ F) <= Work(remainingTime, Arrived \ E) - 1
  BY <1>2, ShortestNotBehind
<1>4. /\ Arrived \ D \in SUBSET Process /\ Arrived \ E \in SUBSET Process /\ Arrived \ F \in SUBSET Process
      /\ D \in SUBSET Process /\ E \in SUBSET Process /\ F \in SUBSET Process
  BY <1>2
<1>5. Work(rival', Arrived \ D) >= Work(rival, Arrived \ D) - 1  BY <1>4, RivalStep
<1>6. /\ Work(rival', Arrived \ D) \in Nat /\ Work(rival, Arrived \ D) \in Nat
      /\ Work(remainingTime', Arrived \ F) \in Nat /\ Work(remainingTime, Arrived \ E) \in Nat
  BY <1>4, WorkFinite
<1>7. Cardinality(D) \in Nat /\ Cardinality(E) \in Nat /\ Cardinality(F) \in Nat
  <2>1. IsFiniteSet(D) /\ IsFiniteSet(E) /\ IsFiniteSet(F)  BY <1>4, WorkFinite
  <2> QED  BY <2>1, FS_CardinalityType
<1>8. /\ Cardinality(F) <= Cardinality(D)
      /\ Work(remainingTime', Arrived \ F) <= Work(rival', Arrived \ D)
  BY <1>1, <1>3, <1>5, <1>6, <1>7
<1> WITNESS F \in SUBSET Arrived
<1> QED  BY <1>8

\* When all that have arrived are completed, nothing of theirs is left to do.
LEMMA IdleNotBehind ==
  ASSUME RivalTypes, RivalRuns, Ready = {}, UNCHANGED remainingTime
  PROVE  \A D \in SUBSET Arrived : \E E \in SUBSET Arrived :
           /\ Cardinality(E) <= Cardinality(D)
           /\ Work(remainingTime', Arrived \ E) <= Work(rival', Arrived \ D)
<1> TAKE D \in SUBSET Arrived
<1>1. \A q \in Arrived : remainingTime[q] = 0  BY DEF RivalTypes, Ready, Arrived
<1>2. Arrived \in SUBSET Process /\ remainingTime \in Lefts  BY DEF Arrived, RivalTypes
<1>3. Work(remainingTime, Arrived) = 0  BY <1>1, <1>2, WorkNone
<1>4. Arrived \ D \in SUBSET Process /\ D \in SUBSET Process /\ Arrived \ {} = Arrived  BY <1>2
<1>5. Work(rival', Arrived \ D) \in Nat /\ Cardinality(D) \in Nat  BY <1>4, WorkFinite, FS_CardinalityType
<1>6. Cardinality({}) = 0  BY FS_EmptySet
<1>7. Work(remainingTime', Arrived \ {}) <= Work(rival', Arrived \ D)  BY <1>3, <1>4, <1>5
<1> WITNESS {} \in SUBSET Arrived
<1> QED  BY <1>5, <1>6, <1>7

LEMMA RivalNextInv ==
  ASSUME RivalIInv, SchedIInv,
         \/ SchedNext /\ IF algo = "SRTF" THEN RivalRuns ELSE UNCHANGED rival
         \/ UNCHANGED cpu_vars
  PROVE  RivalIInv'
<1>1. CASE UNCHANGED cpu_vars
  BY <1>1 DEF cpu_vars, sched_vars, input, RivalIInv, RivalTypes, NotBehind, Arrived, Completed
<1>2. CASE SchedNext /\ algo # "SRTF"
  <2>1. algo' = algo
    BY <1>2 DEF SchedNext, fifo, sjf, srtf, rr, Tick, Execute, input
  <2> QED  BY <1>2, <2>1 DEF RivalIInv
<1>3. CASE SchedNext /\ algo = "SRTF" /\ RivalRuns
  <2>0. RivalTypes /\ NotBehind  BY <1>3 DEF RivalIInv
  <2>1. srtf \/ Tick  BY <1>3 DEF SchedNext, fifo, sjf, rr
  <2>2. /\ rival' \in Lefts /\ \A p \in Process \ Arrived : rival'[p] = rival[p]
    BY <1>3, <2>0, RivalStep
  <2>3. \A p \in Process \ Arrived : remainingTime[p] = burstTime[p] /\ rival[p] = burstTime[p]
    BY <2>0 DEF RivalTypes
  <2>4. /\ \A D \in SUBSET Arrived : \E E \in SUBSET Arrived :
             /\ Cardinality(E) <= Cardinality(D)
             /\ Work(remainingTime', Arrived \ E) <= Work(rival', Arrived \ D)
        /\ remainingTime' \in Lefts
        /\ \A p \in Process \ Arrived : remainingTime'[p] = remainingTime[p]
        /\ \A q \in Completed' : remainingTime'[q] = 0
        /\ current_time' = current_time + 1 /\ UNCHANGED <<arrivalTime, burstTime>>
    <3>1. CASE srtf
      <4>1. PICK p \in Arrived :
              /\ Ticked(p, remainingTime, remainingTime')
              /\ \A q \in Arrived : remainingTime[q] > 0 => remainingTime[p] <= remainingTime[q]
        BY <2>0, <3>1, SrtfTicks
      <4>2. /\ \A q \in Completed' : remainingTime'[q] = 0
            /\ current_time' = current_time + 1 /\ UNCHANGED <<arrivalTime, burstTime>>
        BY <2>0, <3>1, SrtfTicks
      <4>3. remainingTime \in Lefts /\ p \in Process  BY <2>0 DEF RivalTypes, Arrived
      <4>4. remainingTime' \in Lefts  BY <4>1, <4>3, WorkDone, Zenon
      <4>5. \A q \in Process \ Arrived : remainingTime'[q] = remainingTime[q]
        BY <4>1, <4>3 DEF Ticked, Lefts
      <4> QED  BY <1>3, <2>0, <4>1, <4>2, <4>4, <4>5, TickNotBehind, Zenon
    <3>2. CASE Tick
      <4>1. /\ Ready = {} /\ current_time' = current_time + 1
            /\ UNCHANGED <<arrivalTime, burstTime, remainingTime, completionTime>>
        BY <3>2 DEF Tick, input
      <4>2. remainingTime' \in Lefts /\ \A q \in Completed' : remainingTime'[q] = 0
        BY <2>0, <4>1 DEF RivalTypes, Completed
      <4> QED  BY <1>3, <2>0, <4>1, <4>2, IdleNotBehind, Zenon
    <3> QED  BY <2>1, <3>1, <3>2
  <2>5. Arrived \in SUBSET Process /\ Arrived' \in SUBSET Process /\ Arrived \subseteq Arrived'
    <3>1. current_time \in Nat /\ \A p \in Process : arrivalTime[p] \in Nat  BY DEF SchedIInv, SchedTypes
    <3> QED  BY <2>4, <3>1 DEF Arrived
  <2>6. \A p \in Process \ Arrived : remainingTime'[p] = rival'[p] /\ rival'[p] = burstTime'[p]
    BY <2>2, <2>3, <2>4
  <2>7. NotBehind'
    <3>1. \A p \in Arrived' \ Arrived : remainingTime'[p] = rival'[p]  BY <2>5, <2>6
    <3>2. \A D \in SUBSET Arrived' : \E E \in SUBSET Arrived' :
            /\ Cardinality(E) <= Cardinality(D)
            /\ Work(remainingTime', Arrived' \ E) <= Work(rival', Arrived' \ D)
      BY <2>2, <2>4, <2>5, <3>1, NotBehindLater, Zenon
    <3> QED  BY <3>2 DEF NotBehind, Work, Cells
  <2>8. RivalTypes'  BY <2>0, <2>2, <2>4, <2>5, <2>6 DEF RivalTypes
  <2> QED  BY <2>7, <2>8 DEF RivalIInv
<1> QED  BY <1>1, <1>2, <1>3

\* What the rival has completed is matched by what is left to do for none.
LEMMA NoneIsAhead == RivalIInv /\ SchedIInv => NoScheduleIsAhead
<1> SUFFICES ASSUME RivalIInv, SchedIInv, algo = "SRTF"
             PROVE  Cardinality({p \in Process : rival[p] = 0}) <= Cardinality(Completed)
  BY DEF NoScheduleIsAhead
<1> DEFINE W == {p \in Process : rival[p] = 0}
           D == Arrived \ W
<1>1. RivalTypes /\ NotBehind  BY DEF RivalIInv
<1>2. W \subseteq Arrived
  <2>1. \A p \in Process \ Arrived : rival[p] = burstTime[p] /\ burstTime[p] \in 1 .. MAX_BURST
    BY <1>1 DEF RivalTypes
  <2> QED  BY <2>1, SchedulingAssumption
<1>3. Arrived \in SUBSET Process /\ W \in SUBSET Process /\ D \in SUBSET Arrived
  BY DEF Arrived
<1>4. \A p \in Arrived \ D : rival[p] = 0  OBVIOUS
<1>5. Arrived \ D = W  BY <1>2
<1> HIDE DEF D, W
<1>6. Work(rival, Arrived \ D) = 0
  <2>1. rival \in Lefts  BY <1>1 DEF RivalTypes
  <2>2. Arrived \ D \in SUBSET Process  BY <1>3
  <2> QED  BY <1>4, <2>1, <2>2, WorkNone, Zenon
<1>7. PICK E \in SUBSET Arrived :
        /\ Cardinality(E) <= Cardinality(D)
        /\ Work(remainingTime, Arrived \ E) <= Work(rival, Arrived \ D)
  BY <1>1, <1>3 DEF NotBehind
<1>8. Arrived \ E \subseteq Completed
  <2>1. Arrived \ E \in SUBSET Process /\ remainingTime \in Lefts  BY <1>1, <1>3 DEF RivalTypes
  <2>2. Work(remainingTime, Arrived \ E) \in Nat  BY <2>1, WorkFinite
  <2>3. Work(remainingTime, Arrived \ E) = 0  BY <1>6, <1>7, <2>2
  <2>4. \A p \in Arrived \ E : remainingTime[p] = 0  BY <2>1, <2>3, WorkNone, Zenon
  <2>5. \A p \in Process \ Completed : remainingTime[p] > 0  BY DEF SchedIInv, Unstarted
  <2> QED  BY <2>1, <2>4, <2>5
<1>9. /\ IsFiniteSet(Arrived) /\ IsFiniteSet(Completed) /\ IsFiniteSet(D) /\ IsFiniteSet(E)
  <2>1. Completed \in SUBSET Process /\ D \in SUBSET Process /\ E \in SUBSET Process
    BY <1>3 DEF Completed
  <2> QED  BY <1>3, <2>1, WorkFinite
<1>10. Cardinality(Arrived \ E) <= Cardinality(Completed)  BY <1>8, <1>9, FS_Subset
<1>11. /\ Cardinality(Arrived \ E) = Cardinality(Arrived) - Cardinality(E)
       /\ Cardinality(Arrived \ D) = Cardinality(Arrived) - Cardinality(D)
  <2>1. Arrived \cap E = E /\ Arrived \cap D = D  BY <1>3
  <2>2. Cardinality(Arrived \ E) = Cardinality(Arrived) - Cardinality(Arrived \cap E)
    BY <1>9, FS_Difference, Zenon
  <2>3. Cardinality(Arrived \ D) = Cardinality(Arrived) - Cardinality(Arrived \cap D)
    BY <1>9, FS_Difference, Zenon
  <2> QED  BY <2>1, <2>2, <2>3, Zenon
<1>12. /\ Cardinality(Arrived) \in Nat /\ Cardinality(D) \in Nat /\ Cardinality(E) \in Nat
       /\ Cardinality(Completed) \in Nat
  BY <1>9, FS_CardinalityType
<1>13. Cardinality(W) <= Cardinality(Completed)
  <2>1. Cardinality(W) = Cardinality(Arrived) - Cardinality(D)  BY <1>5, <1>11
  <2> QED  BY <1>7, <1>10, <1>11, <1>12, <2>1
<1> QED  BY <1>13 DEF W

----------------------------------------------------------------------------
(* What every step of a policy brings nearer, and that a policy always     *)
(* finds whom to run.                                                      *)

\* The inputs are what input_processes has read.
GivenBounds == \A p \in Process : arrivalTime[p] <= MAX_ARRIVAL /\ burstTime[p] <= MAX_BURST

\* Time left to run, processes not completed, and time until all have arrived.
ArrivalsToGo == IF current_time < MAX_ARRIVAL THEN MAX_ARRIVAL - current_time ELSE 0
TimeToGo     == Work(remainingTime, Process) + Cardinality(Process \ Completed) + ArrivalsToGo

\* Turns of round robin until a process gets a slice.
TurnsTo(p) == IF p > idx THEN p - idx ELSE p - idx + n
TurnsToGo  == IF Ready = {} THEN 0 ELSE First({TurnsTo(p) : p \in Ready})

\* A step that nobody is there to profit from is only made by rr.
GetsNearer ==
  \/ TimeToGo' < TimeToGo
  \/ TimeToGo' = TimeToGo /\ TurnsToGo' < TurnsToGo
  \/ algo = "RR" /\ Ready = {}

\* They are bounded, and nothing changes them.
LEMMA BoundsInit == SchedInit => GivenBounds
<1> SUFFICES ASSUME SchedInit PROVE GivenBounds  OBVIOUS
<1>1. MAX_ARRIVAL \in Nat /\ MAX_BURST \in Nat  BY SchedulingAssumption
<1>2. arrivalTime \in [Process -> 0 .. MAX_ARRIVAL]  BY DEF SchedInit
<1>3. \E low \in {0, 1} : burstTime \in [Process -> low .. MAX_BURST]  BY DEF SchedInit
<1> QED  BY <1>1, <1>2, <1>3 DEF GivenBounds

LEMMA BoundsKept == SchedIInv /\ GivenBounds /\ [SchedNext]_sched_vars => GivenBounds'
<1> SUFFICES ASSUME [SchedNext]_sched_vars, GivenBounds PROVE GivenBounds'  OBVIOUS
<1>1. UNCHANGED input
  BY DEF SchedNext, sched_vars, fifo, sjf, srtf, rr, Tick, Execute
<1> QED  BY <1>1 DEF input, GivenBounds

\* Less left for some process is less work.
LEMMA WorkFalls ==
  ASSUME NEW left \in Lefts, NEW next \in Lefts, \A p \in Process : next[p] <= left[p]
  PROVE  /\ Work(next, Process) <= Work(left, Process)
         /\ \A p \in Process : next[p] < left[p] => Work(next, Process) < Work(left, Process)
<1>1. IsFiniteSet(Cells(left, Process)) /\ Work(left, Process) \in Nat /\ Work(next, Process) \in Nat
  BY WorkFinite
<1>2. \A p \in Process : left[p] \in Nat /\ next[p] \in Nat /\ left[p] <= MAX_BURST
  BY SchedulingAssumption DEF Lefts
<1>3. Cells(next, Process) \subseteq Cells(left, Process)
  <2> SUFFICES ASSUME NEW c \in Cells(next, Process) PROVE c \in Cells(left, Process)  OBVIOUS
  <2>1. c \in Process \X (1 .. MAX_BURST) /\ c[1] \in Process /\ c[2] \in Nat /\ c[2] <= next[c[1]]
    BY SchedulingAssumption DEF Cells
  <2>2. c[2] <= left[c[1]]  BY <1>2, <2>1
  <2> QED  BY <2>1, <2>2 DEF Cells
<1>4. /\ Work(next, Process) <= Work(left, Process)
      /\ Work(next, Process) = Work(left, Process) => Cells(next, Process) = Cells(left, Process)
  BY <1>1, <1>3, FS_Subset DEF Work
<1>5. ASSUME NEW p \in Process, next[p] < left[p] PROVE Cells(next, Process) # Cells(left, Process)
  <2>1. left[p] \in 1 .. MAX_BURST  BY <1>2, <1>5, SchedulingAssumption
  <2>2. <<p, left[p]>> \in Cells(left, Process)  BY <1>2, <2>1 DEF Cells
  <2>3. <<p, left[p]>> \notin Cells(next, Process)  BY <1>2, <1>5 DEF Cells
  <2> QED  BY <2>2, <2>3
<1> QED  BY <1>1, <1>4, <1>5

\* What remains is no more than the burst.
LEMMA RemainingLefts == SchedIInv /\ GivenBounds => remainingTime \in Lefts
<1> SUFFICES ASSUME SchedIInv, GivenBounds PROVE remainingTime \in Lefts  OBVIOUS
<1>1. ASSUME NEW p \in Process PROVE remainingTime[p] \in 0 .. MAX_BURST
  <2>1. /\ remainingTime[p] \in Nat /\ burstTime[p] \in Nat /\ remainingTime[p] <= burstTime[p]
        /\ burstTime[p] <= MAX_BURST
    BY DEF SchedIInv, SchedTypes, GivenBounds
  <2> QED  BY <2>1, SchedulingAssumption
<1> QED  BY <1>1 DEF Lefts, SchedIInv, SchedTypes

\* All that is counted is finite.
LEMMA TimeToGoNat ==
  SchedIInv => /\ Work(remainingTime, Process) \in Nat /\ Cardinality(Process \ Completed) \in Nat
               /\ ArrivalsToGo \in Nat /\ IsFiniteSet(Process \ Completed)
<1> SUFFICES ASSUME SchedIInv
             PROVE  /\ Work(remainingTime, Process) \in Nat /\ Cardinality(Process \ Completed) \in Nat
                    /\ ArrivalsToGo \in Nat /\ IsFiniteSet(Process \ Completed)
  OBVIOUS
<1>1. Work(remainingTime, Process) \in Nat  BY WorkFinite
<1>2. IsFiniteSet(Process \ Completed)  BY WorkFinite
<1>3. Cardinality(Process \ Completed) \in Nat  BY <1>2, FS_CardinalityType
<1>4. ArrivalsToGo \in Nat  BY SchedulingAssumption DEF SchedIInv, SchedTypes, ArrivalsToGo
<1> QED  BY <1>1, <1>2, <1>3, <1>4

\* A process that runs has less left, or is done.
LEMMA ExecuteNearer ==
  ASSUME SchedIInv, SchedIInv', GivenBounds, GivenBounds',
         NEW p \in Process \ Completed, NEW t \in Nat, NEW d \in Nat,
         Execute(p, t, d), current_time <= t, d <= remainingTime[p], d > 0 \/ remainingTime[p] = 0
  PROVE  TimeToGo' < TimeToGo
<1> DEFINE U == Process \ Completed
           W == Work(remainingTime, Process)
<1>1. /\ current_time' = t + d
      /\ \A q \in Process : q # p => remainingTime'[q] = remainingTime[q]
      /\ remainingTime'[p] = remainingTime[p] - d
      /\ \A q \in Process : q \in Completed' <=> q \in Completed \/ (q = p /\ d = remainingTime[p])
  BY ExecuteKeeps
<1>3. \A q \in Process : remainingTime[q] \in Nat  BY DEF SchedIInv, SchedTypes
<1>4. \A q \in Process : remainingTime'[q] <= remainingTime[q]  BY <1>1, <1>3
<1>2. remainingTime \in Lefts /\ remainingTime' \in Lefts
  <2>1. remainingTime \in Lefts  BY RemainingLefts
  <2>2. remainingTime' \in [Process -> Nat] /\ MAX_BURST \in Nat  BY ExecuteKeeps, SchedulingAssumption
  <2>3. \A q \in Process : remainingTime'[q] \in 0 .. MAX_BURST
    BY <1>4, <2>1, <2>2 DEF Lefts
  <2> QED  BY <2>1, <2>2, <2>3 DEF Lefts
<1>5. /\ W \in Nat /\ Cardinality(U) \in Nat /\ ArrivalsToGo \in Nat /\ IsFiniteSet(U)
  BY TimeToGoNat
<1>9. U' \subseteq U /\ (remainingTime[p] = 0 => p \notin U')  BY <1>1
<1>6. W' \in Nat /\ Cardinality(U') \in Nat
  <2>1. W' \in Nat  BY WorkFinite
  <2>2. IsFiniteSet(U')  BY <1>5, <1>9, FS_Subset
  <2> QED  BY <2>1, <2>2, FS_CardinalityType
<1>7. ArrivalsToGo' \in Nat /\ ArrivalsToGo' <= ArrivalsToGo
  <2>1. current_time \in Nat /\ current_time' \in Nat /\ current_time <= current_time'
    BY <1>1 DEF SchedIInv, SchedTypes
  <2>2. MAX_ARRIVAL \in Nat  BY SchedulingAssumption
  <2>3. ASSUME NEW i \in Nat, NEW j \in Nat, NEW m \in Nat, i <= j
        PROVE  LET late(k) == IF k < m THEN m - k ELSE 0 IN late(j) \in Nat /\ late(j) <= late(i)
    BY <2>3
  <2> QED  BY <2>1, <2>2, <2>3 DEF ArrivalsToGo
<1>8. W' <= W /\ (d > 0 => W' < W)
  <2>1. W' = Work(remainingTime', Process)  OBVIOUS
  <2>2. d > 0 => remainingTime'[p] < remainingTime[p]  BY <1>1, <1>3
  <2> QED  BY <1>2, <1>4, <2>1, <2>2, WorkFalls
<1>10. Cardinality(U') <= Cardinality(U) /\ (remainingTime[p] = 0 => Cardinality(U') < Cardinality(U))
  <2>1. Cardinality(U') <= Cardinality(U) /\ (Cardinality(U') = Cardinality(U) => U' = U)
    BY <1>5, <1>9, FS_Subset
  <2>2. p \in U  OBVIOUS
  <2> HIDE DEF U
  <2> QED  BY <1>5, <1>6, <1>9, <2>1, <2>2
<1>11. TimeToGo = W + Cardinality(U) + ArrivalsToGo /\ TimeToGo' = W' + Cardinality(U') + ArrivalsToGo'
  BY DEF TimeToGo
<1> HIDE DEF U, W
<1> QED  BY <1>5, <1>6, <1>7, <1>8, <1>10, <1>11

\* Every process has its turn within one round, the next one at once.
LEMMA TurnsToNat ==
  ASSUME SchedIInv
  PROVE  /\ {TurnsTo(p) : p \in Ready} \in SUBSET Nat
         /\ \A p \in Process : TurnsTo(p) \in 1 .. n /\ (TurnsTo(p) = 1 <=> p = Turn)
         /\ TurnsToGo \in Nat
<1>0. n \in Nat \ {0} /\ idx \in 0 .. n  BY SchedulingAssumption DEF SchedIInv, SchedTypes
<1>1. ASSUME NEW p \in Process PROVE TurnsTo(p) \in 1 .. n /\ (TurnsTo(p) = 1 <=> p = Turn)
  <2>1. Turn = IF idx = n THEN 1 ELSE idx + 1  BY TurnBounds DEF SchedIInv
  <2>2. p \in 1 .. n  BY DEF Process
  <2> QED  BY <1>0, <2>1, <2>2 DEF TurnsTo
<1>2. \A p \in Ready : p \in Process  BY DEF Ready
<1>3. {TurnsTo(p) : p \in Ready} \in SUBSET Nat
  <2>1. 1 .. n \subseteq Nat  BY <1>0
  <2> QED  BY <1>1, <1>2, <2>1
<1>4. TurnsToGo \in Nat
  <2>1. CASE Ready = {}  BY <2>1 DEF TurnsToGo
  <2>2. CASE Ready # {}
    <3>1. {TurnsTo(p) : p \in Ready} # {}  BY <2>2
    <3>2. First({TurnsTo(p) : p \in Ready}) \in Nat  BY <1>3, <3>1, FirstIsLeast
    <3> QED  BY <2>2, <3>2 DEF TurnsToGo
  <2> QED  BY <2>1, <2>2
<1> QED  BY <1>1, <1>3, <1>4

\* A turn that goes by brings the next slice nearer.
LEMMA TurnGoesBy ==
  ASSUME SchedIInv, SchedIInv', algo = "RR", Turn \notin Ready, Ready # {}, Ready' = Ready, idx' = Turn
  PROVE  TurnsToGo' < TurnsToGo
<1> DEFINE S == {TurnsTo(p) : p \in Ready}
<1>1. S \in SUBSET Nat /\ S # {} /\ TurnsToGo \in Nat  BY TurnsToNat
<1>2. S' \in SUBSET Nat /\ S' # {}
  <2>1. n \in Nat \ {0} /\ Turn \in 1 .. n /\ \A q \in Ready : q \in 1 .. n
    BY SchedulingAssumption, TurnBounds DEF SchedIInv, Ready, Process
  <2>2. \A q \in Ready : TurnsTo(q)' \in Nat  BY <2>1 DEF TurnsTo
  <2>3. S' = {TurnsTo(q)' : q \in Ready}  OBVIOUS
  <2> QED  BY <2>2, <2>3
<1>3. PICK p \in Ready : TurnsToGo = TurnsTo(p)
  <2>1. First(S) \in S  BY <1>1, FirstIsLeast
  <2> QED  BY <2>1 DEF TurnsToGo
<1>4. n \in Nat \ {0} /\ idx \in 0 .. n /\ p \in 1 .. n /\ Turn = IF idx = n THEN 1 ELSE idx + 1
  BY SchedulingAssumption, TurnBounds DEF SchedIInv, SchedTypes, Ready, Process
<1>5. p # Turn  OBVIOUS
<1>6. TurnsTo(p)' = TurnsTo(p) - 1
  <2>1. TurnsTo(p) = IF p > idx THEN p - idx ELSE p - idx + n  BY DEF TurnsTo
  <2>2. TurnsTo(p)' = IF p > idx' THEN p - idx' ELSE p - idx' + n  BY DEF TurnsTo
  <2> QED  BY <1>4, <1>5, <2>1, <2>2
<1>7. TurnsTo(p)' \in S'  BY DEF S
<1>8. TurnsToGo' = First(S')  BY DEF TurnsToGo
<1> HIDE DEF S
<1>9. First(S') \in Nat /\ First(S') <= TurnsTo(p)'  BY <1>2, <1>7, FirstIsLeast
<1> QED  BY <1>1, <1>3, <1>6, <1>8, <1>9

\* One case for each policy, and the clock that moves while nobody is ready.
LEMMA SchedNearer ==
  SchedIInv /\ SchedIInv' /\ GivenBounds /\ GivenBounds' /\ SchedNext => GetsNearer
<1> SUFFICES ASSUME SchedIInv, SchedIInv', GivenBounds, GivenBounds', SchedNext PROVE GetsNearer
  OBVIOUS
<1>1. /\ current_time \in Nat /\ \A q \in Process : remainingTime[q] \in Nat /\ arrivalTime[q] \in Nat
      /\ Ready \subseteq Process \ Completed
  BY DEF SchedIInv, SchedTypes, Ready
<1>2. CASE fifo
  <2>1. PICK p \in Process \ Completed : Execute(p, Begin(p), burstTime[p])  BY <1>2 DEF fifo
  <2>2. Begin(p) \in Nat /\ current_time <= Begin(p)  BY <1>1 DEF Begin
  <2>3. burstTime[p] \in Nat /\ remainingTime[p] = burstTime[p]
    BY <1>2 DEF SchedIInv, Unstarted, SchedTypes, fifo
  <2>4. burstTime[p] <= remainingTime[p] /\ (burstTime[p] > 0 \/ remainingTime[p] = 0)  BY <2>3
  <2> QED  BY <2>1, <2>2, <2>3, <2>4, ExecuteNearer DEF GetsNearer
<1>3. CASE sjf
  <2>1. PICK p \in Process \ Completed : Execute(p, current_time, burstTime[p])  BY <1>1, <1>3 DEF sjf
  <2>2. current_time <= current_time  BY <1>1
  <2>3. burstTime[p] \in Nat /\ remainingTime[p] = burstTime[p]
    BY <1>3 DEF SchedIInv, Unstarted, SchedTypes, sjf
  <2>4. burstTime[p] <= remainingTime[p] /\ (burstTime[p] > 0 \/ remainingTime[p] = 0)  BY <2>3
  <2> QED  BY <1>1, <2>1, <2>2, <2>3, <2>4, ExecuteNearer DEF GetsNearer
<1>4. CASE srtf
  <2>1. PICK p \in Process \ Completed : Execute(p, current_time, 1)  BY <1>1, <1>4 DEF srtf
  <2>2. current_time <= current_time  BY <1>1
  <2>3. remainingTime[p] > 0  BY <1>4 DEF SchedIInv, Unstarted, srtf
  <2>4. 1 \in Nat /\ 1 <= remainingTime[p] /\ 1 > 0  BY <1>1, <2>3
  <2> QED  BY <1>1, <2>1, <2>2, <2>4, ExecuteNearer DEF GetsNearer
<1>5. CASE Tick
  <2>1. PICK q \in Process : q \notin Completed /\ q \notin Ready  BY <1>5 DEF Tick, Completed
  <2>2. current_time < arrivalTime[q] /\ arrivalTime[q] <= MAX_ARRIVAL
    BY <1>1, <2>1 DEF Ready, GivenBounds
  <2>3. current_time' = current_time + 1 /\ remainingTime' = remainingTime /\ Completed' = Completed
    BY <1>5 DEF Tick, Completed
  <2>4. ArrivalsToGo' = ArrivalsToGo - 1
    BY <1>1, <2>2, <2>3, SchedulingAssumption DEF ArrivalsToGo
  <2>5. TimeToGo' = Work(remainingTime, Process) + Cardinality(Process \ Completed) + (ArrivalsToGo - 1)
    BY <2>3, <2>4 DEF TimeToGo
  <2> QED  BY <2>5, TimeToGoNat DEF TimeToGo, GetsNearer
<1>6. CASE rr
  <2>1. /\ n \in Nat \ {0} /\ Turn \in Process /\ idx' = Turn
        /\ algo = "RR" /\ timeQuantum \in Nat \ {0}
    <3>1. algo = "RR" /\ idx' = NextPlace(idx)  BY <1>6 DEF rr
    <3>2. NextPlace(idx) = Turn /\ Turn \in 1 .. n  BY TurnBounds DEF SchedIInv
    <3>3. timeQuantum \in Nat \ {0}  BY DEF SchedIInv, SchedTypes
    <3> QED  BY <3>1, <3>2, <3>3, SchedulingAssumption DEF Process
  <2>2. CASE Turn \in Ready
    <3>1. PICK d \in Nat : d = Slice(Turn)  BY <1>1, <2>1 DEF Slice
    <3>2. d <= remainingTime[Turn] /\ (d > 0 \/ remainingTime[Turn] = 0)
      BY <1>1, <2>1, <3>1 DEF Slice
    <3>3. Execute(Turn, current_time, d)  BY <1>6, <2>2, <3>1 DEF rr
    <3>4. Turn \in Process \ Completed /\ current_time <= current_time  BY <1>1, <2>2
    <3> QED  BY <1>1, <3>2, <3>3, <3>4, ExecuteNearer DEF GetsNearer
  <2>3. CASE Turn \notin Ready
    <3>1. UNCHANGED <<input, current_time, remainingTime, startTime, completionTime>>
      BY <1>6, <2>3 DEF rr
    <3>2. Completed' = Completed /\ Ready' = Ready /\ TimeToGo' = TimeToGo
      BY <3>1 DEF input, Completed, Ready, TimeToGo, ArrivalsToGo
    <3>3. Ready # {} => TurnsToGo' < TurnsToGo  BY <2>1, <2>3, <3>2, TurnGoesBy
    <3> QED  BY <2>1, <3>2, <3>3 DEF GetsNearer
  <2> QED  BY <2>2, <2>3
<1> QED  BY <1>2, <1>3, <1>4, <1>5, <1>6 DEF SchedNext

\* Of any processes there is one that arrived first and, of these, stands first.
LEMMA EarliestOf ==
  ASSUME SchedIInv, NEW S \in SUBSET Process, S # {}
  PROVE  \E p \in S : \A q \in S : EarlierThan(p, q)
<1>1. \A p \in Process : p \in Nat /\ arrivalTime[p] \in Nat
  BY SchedulingAssumption DEF Process, SchedIInv, SchedTypes
<1> DEFINE A == {arrivalTime[p] : p \in S}
           E == {p \in S : arrivalTime[p] = First(A)}
<1>2. A \in SUBSET Nat /\ A # {}  BY <1>1
<1>3. First(A) \in A /\ \A a \in A : First(A) <= a  BY <1>2, FirstIsLeast
<1>4. E \in SUBSET Nat /\ E # {}  BY <1>1, <1>3
<1>5. First(E) \in E /\ \A p \in E : First(E) <= p
  <2> HIDE DEF E
  <2> QED  BY <1>4, FirstIsLeast
<1>6. ASSUME NEW q \in S PROVE EarlierThan(First(E), q)
  <2> DEFINE p == First(E)
  <2>1. p \in S /\ arrivalTime[p] = First(A)  BY <1>5
  <2>2. First(A) <= arrivalTime[q]  BY <1>3
  <2>3. arrivalTime[q] = First(A) => p <= q  BY <1>5
  <2> HIDE DEF p, A, E
  <2>4. arrivalTime[p] \in Nat /\ arrivalTime[q] \in Nat  BY <1>1, <2>1
  <2>5. arrivalTime[p] < arrivalTime[q] \/ (arrivalTime[p] = arrivalTime[q] /\ p <= q)
    BY <2>1, <2>2, <2>3, <2>4
  <2> QED  BY <2>5 DEF EarlierThan, p
<1>7. First(E) \in S  BY <1>5
<1> QED  BY <1>6, <1>7

\* And one that is shortest.
LEMMA ShortestOf ==
  ASSUME SchedIInv, NEW S \in SUBSET Process, S # {}
  PROVE  \E p \in S : \A q \in S : ShorterThan(p, q)
<1>1. \A p \in Process : remainingTime[p] \in Nat  BY DEF SchedIInv, SchedTypes
<1> DEFINE R == {remainingTime[p] : p \in S}
           E == {p \in S : remainingTime[p] = First(R)}
<1>2. R \in SUBSET Nat /\ R # {}  BY <1>1
<1>3. First(R) \in R /\ \A r \in R : First(R) <= r  BY <1>2, FirstIsLeast
<1>4. E \in SUBSET Process /\ E # {}  BY <1>3
<1>5. PICK p \in E : \A q \in E : EarlierThan(p, q)
  <2> HIDE DEF E
  <2> QED  BY <1>4, EarliestOf
<1>6. ASSUME NEW q \in S PROVE ShorterThan(p, q)
  <2>1. p \in S /\ remainingTime[p] = First(R) /\ First(R) <= remainingTime[q]  BY <1>3
  <2>2. remainingTime[q] = First(R) => EarlierThan(p, q)  BY <1>5
  <2>3. remainingTime[p] \in Nat /\ remainingTime[q] \in Nat  BY <1>1, <2>1
  <2> HIDE DEF R, E
  <2>4. remainingTime[p] < remainingTime[q] \/ (remainingTime[p] = remainingTime[q] /\ EarlierThan(p, q))
    BY <2>1, <2>2, <2>3
  <2> QED  BY <2>4 DEF ShorterThan
<1>7. p \in S  OBVIOUS
<1> QED  BY <1>6, <1>7

\* fifo goes on until all are completed; sjf and srtf find a process to run
\* whenever one is ready, and otherwise the clock moves.
SomebodyNext ==
  /\ algo = "FIFO" /\ Completed # Process =>
       \E p \in Process \ Completed : \A q \in Process \ Completed : EarlierThan(p, q)
  /\ algo \in {"SJF", "SRTF"} /\ Ready # {} =>
       \E p \in Ready : \A q \in Ready : ShorterThan(p, q)

LEMMA AlwaysSomebody == SchedIInv => SomebodyNext
<1> SUFFICES ASSUME SchedIInv PROVE SomebodyNext  OBVIOUS
<1>1. Ready \in SUBSET Process /\ Process \ Completed \in SUBSET Process
      /\ (Completed # Process => Process \ Completed # {})
  BY DEF Ready, Completed
<1> QED  BY <1>1, EarliestOf, ShortestOf DEF SomebodyNext
----------------------------------------------------------------------------
(* Segments: each maps its addresses one to one into a range of its own.   *)

SegIInv == address \in Address16 /\ reply = translateAddress(address)

\* The two fields of an address make it up.
LEMMA Fields ==
  /\ \A a \in Address16 : Selected(a) \in 0 .. 3 /\ SegOffset(a) \in Nat
  /\ \A a, b \in Address16 : Selected(a) = Selected(b) /\ SegOffset(a) = SegOffset(b) => a = b
<1>1. ASSUME NEW a \in Address16 PROVE SegOffset(a) \in Nat
  BY SMT DEF Address16, SegOffset
<1>2. ASSUME NEW a \in Address16 PROVE (a \div 16384) \in 0 .. 3
  BY SMT DEF Address16
<1>3. ASSUME NEW a \in Address16 PROVE Selected(a) = a \div 16384
  BY <1>2, SMT DEF Address16, Selected
<1>4. ASSUME NEW a \in Address16, NEW b \in Address16,
             Selected(a) = Selected(b), SegOffset(a) = SegOffset(b)
      PROVE  a = b
  <2>1. a \div 16384 = b \div 16384  BY <1>3, <1>4, SMT
  <2>2. a % 16384 = b % 16384  BY <1>4, SMT DEF SegOffset
  <2> QED  BY <2>1, <2>2, SMT DEF Address16
<1>5. ASSUME NEW a \in Address16 PROVE Selected(a) \in 0 .. 3
  BY <1>2, <1>3, SMT
<1> QED  BY <1>1, <1>4, <1>5, SMT

\* Where the offsets of each segment go.
LEMMA InItsRange ==
  ASSUME NEW a \in Address16, ~translateAddress(a).fault
  PROVE  LET physical == translateAddress(a).physical
             off      == SegOffset(a)
         IN  \/ Selected(a) = 0 /\ physical = 32768 + off /\ off < 2048
             \/ Selected(a) = 1 /\ physical = 34816 + off /\ off < 3072
             \/ Selected(a) = 2 /\ physical + 4096 = 28672 + off /\ 4096 <= off /\ off <= 6144
<1> DEFINE off == SegOffset(a)
<1>1. Selected(a) \in 0 .. 3 /\ SegOffset(a) \in Nat  BY Fields, SMT
<1>2. Selected(a) # 3
  <2> SUFFICES ASSUME Selected(a) = 3 PROVE FALSE  OBVIOUS
  <2>1. translateAddress(a) = Fault  BY SMT DEF translateAddress
  <2> QED  BY <2>1, SMT DEF Fault
<1>3. CASE Selected(a) = 0
  <2>1. translateAddress(a) = IF off < 2048 THEN Mapped(32768 + off) ELSE Fault
    BY <1>3, SMT DEF translateAddress, translateUpward, Segment
  <2> HIDE DEF off
  <2>2. off < 2048 /\ translateAddress(a) = Mapped(32768 + off)  BY <2>1, SMT DEF Fault
  <2> QED  BY <1>3, <2>2, SMT DEF Mapped, off
<1>4. CASE Selected(a) = 1
  <2>1. translateAddress(a) = IF off < 3072 THEN Mapped(34816 + off) ELSE Fault
    BY <1>4, SMT DEF translateAddress, translateUpward, Segment
  <2> HIDE DEF off
  <2>2. off < 3072 /\ translateAddress(a) = Mapped(34816 + off)  BY <2>1, SMT DEF Fault
  <2> QED  BY <1>4, <2>2, SMT DEF Mapped, off
<1>5. CASE Selected(a) = 2
  <2>1. translateAddress(a) = IF off - 4096 >= 0 /\ off - 4096 <= 2048
                                THEN Mapped(28672 + (off - 4096)) ELSE Fault
    BY <1>5, SMT DEF translateAddress, translateStack, AtMostUnsigned, Segment
  <2>0. off \in Nat  BY <1>1
  <2> HIDE DEF off
  <2>2. off - 4096 >= 0 /\ off - 4096 <= 2048 /\ translateAddress(a) = Mapped(28672 + (off - 4096))
    BY <2>1, SMT DEF Fault
  <2>3. translateAddress(a).physical = 28672 + (off - 4096)  BY <2>2, SMT DEF Mapped
  <2>4. 4096 <= off /\ off <= 6144 /\ 28672 + (off - 4096) + 4096 = 28672 + off  BY <2>0, <2>2, SMT
  <2> QED  BY <1>5, <2>3, <2>4, SMT DEF off
<1> QED  BY <1>1, <1>2, <1>3, <1>4, <1>5, SMT

LEMMA Disjoint == SegIInv => SegmentsDisjoint
<1> SUFFICES ASSUME SegIInv, NEW a \in Inputs, a # address, ~reply.fault, translateAddress(a) = reply
             PROVE  FALSE
  BY Zenon DEF SegmentsDisjoint
<1>1. a \in Address16 /\ address \in Address16 /\ translateAddress(a) = translateAddress(address)
  BY SegmentationAssumption, SMT DEF SegIInv
<1>2. ~translateAddress(a).fault /\ ~translateAddress(address).fault  BY <1>1, Zenon DEF SegIInv
<1>3. SegOffset(a) \in Nat /\ SegOffset(address) \in Nat  BY <1>1, Fields, SMT
<1>4. Selected(a) = Selected(address) /\ SegOffset(a) = SegOffset(address)
  BY <1>1, <1>2, <1>3, InItsRange, SMT
<1> QED  BY <1>1, <1>4, Fields, SMT

----------------------------------------------------------------------------
(* The stations: the sums and the extremes in the table are those of the   *)
(* lines read so far, and a station that is not in it came when it was     *)
(* full, and it stays full.                                                *)

\* A running sum.  There is one, whatever is summed, and only one.
IsSum(s, w, m) == s = [k \in 0 .. m |-> IF k = 0 THEN 0 ELSE s[k - 1] + w[k]]

LEMMA SumExists ==
  ASSUME NEW w, NEW m \in Nat
  PROVE  \E s : IsSum(s, w, m)
<1> DEFINE Without == {k \in 0 .. m : ~\E s : IsSum(s, w, k)}
<1> SUFFICES ASSUME Without # {} PROVE FALSE  OBVIOUS
<1>1. PICK i \in Without : \A j \in Without : i <= j
  <2>1. Without \in SUBSET Nat  OBVIOUS
  <2> QED  BY <2>1, FirstIsLeast
<1>2. i # 0
  <2>1. IsSum([k \in 0 .. 0 |-> 0], w, 0)  BY DEF IsSum
  <2> QED  BY <2>1
<1>3. i - 1 \in 0 .. m /\ i - 1 < i  BY <1>2
<1>4. PICK s : IsSum(s, w, i - 1)  BY <1>1, <1>3
<1> DEFINE r == [k \in 0 .. i |-> IF k = 0 THEN 0 ELSE s[k - 1] + w[k]]
<1>5. \A k \in 0 .. i - 1 : r[k] = s[k]  BY <1>3, <1>4 DEF IsSum
<1>6. r = [k \in 0 .. i |-> IF k = 0 THEN 0 ELSE r[k - 1] + w[k]]
  <2>1. \A k \in 0 .. i : k # 0 => k - 1 \in 0 .. i - 1  BY <1>3
  <2>2. \A k \in 0 .. i : r[k] = IF k = 0 THEN 0 ELSE r[k - 1] + w[k]  BY <1>5, <2>1
  <2> QED  BY <2>2
<1> QED  BY <1>1, <1>6 DEF IsSum

LEMMA SumUnique ==
  ASSUME NEW w, NEW m \in Nat, NEW s, IsSum(s, w, m), NEW r, IsSum(r, w, m)
  PROVE  s = r
<1> DEFINE Differ == {k \in 0 .. m : s[k] # r[k]}
<1>1. Differ = {}
  <2> SUFFICES ASSUME Differ # {} PROVE FALSE  OBVIOUS
  <2>1. PICK i \in Differ : \A j \in Differ : i <= j
    <3>1. Differ \in SUBSET Nat  OBVIOUS
    <3> QED  BY <3>1, FirstIsLeast
  <2>2. i \in 0 .. m /\ s[i] # r[i]
        /\ s[i] = (IF i = 0 THEN 0 ELSE s[i - 1] + w[i]) /\ r[i] = IF i = 0 THEN 0 ELSE r[i - 1] + w[i]
    BY DEF IsSum
  <2>3. i - 1 \in 0 .. m /\ i - 1 < i /\ s[i - 1] # r[i - 1]  BY <2>2
  <2> QED  BY <2>1, <2>3
<1>2. \A k \in 0 .. m : s[k] = r[k]  BY <1>1
<1>3. s = [k \in 0 .. m |-> s[k]] /\ r = [k \in 0 .. m |-> r[k]]  BY DEF IsSum
<1> QED  BY <1>2, <1>3

\* What a line adds to the total of a station.
Added(lines, name) == [k \in 1 .. Len(lines) |-> IF k \in LinesOf(lines, name) THEN lines[k][2] ELSE 0]

LEMMA TotalIsSum ==
  ASSUME NEW m \in Nat, NEW lines, Len(lines) = m, NEW name, NEW s, IsSum(s, Added(lines, name), m)
  PROVE  TotalOf(lines, name) = s[m]
<1> DEFINE sum(r) == r = [k \in 0 .. Len(lines) |->
              IF k = 0 THEN 0 ELSE r[k - 1] + IF k \in LinesOf(lines, name) THEN lines[k][2] ELSE 0]
<1>1. TotalOf(lines, name) = (CHOOSE r : sum(r))[Len(lines)]  BY Zenon DEF TotalOf
<1>2. \A r : sum(r) <=> IsSum(r, Added(lines, name), m)
  <2> TAKE r
  <2>1. [k \in 0 .. m |-> IF k = 0 THEN 0 ELSE r[k - 1] + IF k \in LinesOf(lines, name) THEN lines[k][2] ELSE 0]
          = [k \in 0 .. m |-> IF k = 0 THEN 0 ELSE r[k - 1] + Added(lines, name)[k]]
    BY DEF Added
  <2> QED  BY <2>1 DEF IsSum
<1> HIDE DEF sum
<1>3. sum(CHOOSE r : sum(r))  BY <1>2, Zenon
<1>4. (CHOOSE r : sum(r)) = s  BY <1>2, <1>3, SumUnique
<1> QED  BY <1>1, <1>4

LEMMA LinesFinite ==
  ASSUME NEW lines \in Seq(Lines), NEW name
  PROVE  /\ LinesOf(lines, name) \in SUBSET (1 .. Len(lines)) /\ IsFiniteSet(LinesOf(lines, name))
         /\ Cardinality(LinesOf(lines, name)) \in Nat
         /\ \A k \in LinesOf(lines, name) : lines[k][2] \in Temperature /\ lines[k][2] \in Int
<1>1. Len(lines) \in Nat /\ \A k \in 1 .. Len(lines) : lines[k] \in Lines  OBVIOUS
<1>2. LinesOf(lines, name) \in SUBSET (1 .. Len(lines))  BY DEF LinesOf
<1>3. IsFiniteSet(1 .. Len(lines))  BY <1>1, FS_Interval
<1>4. IsFiniteSet(LinesOf(lines, name)) /\ Cardinality(LinesOf(lines, name)) \in Nat
  BY <1>2, <1>3, FS_Subset, FS_CardinalityType
<1>5. ASSUME NEW k \in LinesOf(lines, name) PROVE lines[k][2] \in Temperature /\ lines[k][2] \in Int
  <2>1. lines[k] \in Lines /\ lines[k] # NoSemicolon  BY <1>1, <1>2, <1>5 DEF LinesOf
  <2>2. lines[k] \in Name \X Temperature  BY <2>1 DEF Lines
  <2>3. lines[k][2] \in Temperature  BY <2>2
  <2>4. Temperature \subseteq Int  BY StationsAssumption
  <2> QED  BY <2>3, <2>4
<1> QED  BY <1>2, <1>4, <1>5

\* The total is a number.
LEMMA TotalType ==
  ASSUME NEW lines \in Seq(Lines), NEW name
  PROVE  TotalOf(lines, name) \in Int
<1>1. PICK m \in Nat : m = Len(lines)  OBVIOUS
<1>2. PICK s : IsSum(s, Added(lines, name), m)  BY SumExists
<1>3. TotalOf(lines, name) = s[m]  BY <1>1, <1>2, TotalIsSum
<1>4. \A k \in 1 .. m : Added(lines, name)[k] \in Int  BY <1>1, LinesFinite DEF Added
<1> DEFINE Bad == {k \in 0 .. m : s[k] \notin Int}
<1> SUFFICES ASSUME Bad # {} PROVE FALSE  BY <1>3
<1>5. PICK i \in Bad : \A j \in Bad : i <= j
  <2>1. Bad \in SUBSET Nat  OBVIOUS
  <2> QED  BY <2>1, FirstIsLeast
<1>6. i \in 0 .. m /\ s[i] = IF i = 0 THEN 0 ELSE s[i - 1] + Added(lines, name)[i]  BY <1>2 DEF IsSum
<1>7. i # 0  BY <1>6
<1>8. i - 1 \in 0 .. m /\ i - 1 < i /\ i \in 1 .. m  BY <1>6, <1>7
<1>9. s[i - 1] \in Int  BY <1>5, <1>8
<1> QED  BY <1>4, <1>6, <1>7, <1>8, <1>9

\* A line adds itself to the lines of the station it names.
LEMMA LineRead ==
  ASSUME NEW lines \in Seq(Lines), NEW line \in Lines, NEW name
  PROVE  /\ Append(lines, line) \in Seq(Lines)
         /\ Len(lines) + 1 \notin LinesOf(lines, name) /\ Append(lines, line)[Len(lines) + 1] = line
         /\ \A j \in LinesOf(lines, name) : Append(lines, line)[j] = lines[j]
         /\ line # NoSemicolon /\ line[1] = name =>
              /\ LinesOf(Append(lines, line), name) = LinesOf(lines, name) \cup {Len(lines) + 1}
              /\ TotalOf(Append(lines, line), name) = TotalOf(lines, name) + line[2]
         /\ line = NoSemicolon \/ line[1] # name =>
              /\ LinesOf(Append(lines, line), name) = LinesOf(lines, name)
              /\ TotalOf(Append(lines, line), name) = TotalOf(lines, name)
<1> DEFINE here == line # NoSemicolon /\ line[1] = name
<1> DEFINE next == Append(lines, line)
<1>1. PICK m \in Nat : m = Len(lines)  OBVIOUS
<1>2. /\ next \in Seq(Lines) /\ Len(next) = m + 1 /\ next[m + 1] = line
      /\ \A j \in 1 .. m : next[j] = lines[j]
  BY <1>1
<1> HIDE DEF next
<1>3. m + 1 \notin LinesOf(lines, name)  BY <1>1 DEF LinesOf
<1>4. LinesOf(next, name) = IF here THEN LinesOf(lines, name) \cup {m + 1} ELSE LinesOf(lines, name)
  <2>1. \A j \in 1 .. m + 1 : j \in 1 .. m \/ j = m + 1  BY <1>1
  <2>2. \A j \in 1 .. m : j \in LinesOf(next, name) <=> j \in LinesOf(lines, name)
    BY <1>1, <1>2 DEF LinesOf
  <2>3. m + 1 \in LinesOf(next, name) <=> here  BY <1>1, <1>2 DEF LinesOf
  <2>4. \A j \in LinesOf(next, name) : j \in 1 .. m + 1  BY <1>2 DEF LinesOf
  <2>5. \A j \in LinesOf(lines, name) : j \in 1 .. m  BY <1>1 DEF LinesOf
  <2> HIDE DEF here
  <2>6. CASE here  BY <2>1, <2>2, <2>3, <2>4, <2>5, <2>6
  <2>7. CASE ~here
    <3>1. \A j : j \in LinesOf(next, name) <=> j \in LinesOf(lines, name)
      BY <2>1, <2>2, <2>3, <2>4, <2>5, <2>7
    <3> QED  BY <2>7, <3>1
  <2> QED  BY <2>6, <2>7
<1>5. TotalOf(next, name) = TotalOf(lines, name) + IF here THEN line[2] ELSE 0
  <2>1. PICK s : IsSum(s, Added(lines, name), m)  BY SumExists
  <2>2. PICK r : IsSum(r, Added(next, name), m + 1)
    <3>1. m + 1 \in Nat  OBVIOUS
    <3> QED  BY <3>1, SumExists
  <2>3. \A k \in 1 .. m : Added(next, name)[k] = Added(lines, name)[k]
    BY <1>1, <1>2, <1>3, <1>4 DEF Added
  <2>4. Added(next, name)[m + 1] = IF here THEN line[2] ELSE 0
    BY <1>1, <1>2, <1>3, <1>4 DEF Added
  <2>a. \A k \in 0 .. m + 1 : r[k] = IF k = 0 THEN 0 ELSE r[k - 1] + Added(next, name)[k]
    BY <2>2 DEF IsSum
  <2>5. [k \in 0 .. m |-> r[k]] = s
    <3> DEFINE q == [k \in 0 .. m |-> r[k]]
    <3>1. \A k \in 0 .. m : r[k] = IF k = 0 THEN 0 ELSE r[k - 1] + Added(lines, name)[k]
      BY <2>a, <2>3
    <3>2. \A k \in 0 .. m : q[k] = IF k = 0 THEN 0 ELSE q[k - 1] + Added(lines, name)[k]  BY <3>1
    <3>3. IsSum(q, Added(lines, name), m)  BY <3>2 DEF IsSum
    <3> HIDE DEF q
    <3> QED  BY <2>1, <3>3, SumUnique DEF q
  <2>6. r[m + 1] = r[m] + Added(next, name)[m + 1] /\ r[m] = s[m]  BY <2>a, <2>5
  <2>7. TotalOf(lines, name) = s[m]  BY <1>1, <2>1, TotalIsSum
  <2>8. TotalOf(next, name) = r[m + 1]
    <3>1. m + 1 \in Nat  OBVIOUS
    <3>2. Len(next) = m + 1  BY <1>2
    <3> QED  BY <2>2, <3>1, <3>2, TotalIsSum, Zenon
  <2> HIDE DEF here
  <2> QED  BY <2>4, <2>6, <2>7, <2>8
<1>6. \A j \in LinesOf(lines, name) : next[j] = lines[j]  BY <1>1, <1>2 DEF LinesOf
<1>7. TotalOf(lines, name) + 0 = TotalOf(lines, name)  BY TotalType
<1> QED  BY <1>1, <1>2, <1>3, <1>4, <1>5, <1>6, <1>7 DEF next

LEMMA LineOfOther ==
  ASSUME NEW lines \in Seq(Lines), NEW line \in Lines, NEW name, line = NoSemicolon \/ line[1] # name
  PROVE  /\ LinesOf(Append(lines, line), name) = LinesOf(lines, name)
         /\ TotalOf(Append(lines, line), name) = TotalOf(lines, name)
BY LineRead, SMT

Station == [name : {<<x>> : x \in Name} \cup {Other}, min_temp : Int, max_temp : Int,
            total_temp : Int, count : Nat]

STTypes ==
  /\ st_lines \in Seq(Lines)
  /\ st_stations \in Seq(Station)
  /\ Len(st_stations) <= MAX_STATIONS

\* An entry has the figures of the lines its.
HasFigures(e, its, lines, total) ==
  /\ \A k \in its : e.min_temp <= lines[k][2] /\ lines[k][2] <= e.max_temp
  /\ \E k \in its : e.min_temp = lines[k][2]
  /\ \E k \in its : e.max_temp = lines[k][2]
  /\ e.total_temp = total
  /\ e.count = Cardinality(its)

EntriesOf(name) == {i \in 1 .. Len(st_stations) : st_stations[i].name = <<name>>}

\* A station is in the table once, or not, and then the table is full or it has
\* not come.
Recorded(name) ==
  LET its == LinesOf(st_lines, name)
  IN  \/ \E i \in EntriesOf(name) :
           EntriesOf(name) = {i} /\ HasFigures(st_stations[i], its, st_lines, TotalOf(st_lines, name))
      \/ EntriesOf(name) = {} /\ (its = {} \/ Len(st_stations) = MAX_STATIONS)

STIInv == STTypes /\ \A name \in Name \ LongName : Recorded(name)

\* A line more of the same station.
LEMMA UpdateFigures ==
  ASSUME NEW e \in Station,
         NEW lines \in Seq(Lines), NEW name, NEW line \in Lines, line # NoSemicolon, line[1] = name,
         \/ HasFigures(e, LinesOf(lines, name), lines, TotalOf(lines, name))
         \/ e.min_temp = DBL_MAX /\ e.max_temp = -DBL_MAX /\ e.total_temp = 0 /\ e.count = 0
            /\ LinesOf(lines, name) = {}
  PROVE  HasFigures(Updated(e, line[2]), LinesOf(Append(lines, line), name),
                    Append(lines, line), TotalOf(Append(lines, line), name))
<1> DEFINE its == LinesOf(lines, name)
           next == Append(lines, line)
           new == LinesOf(next, name)
           k   == Len(lines) + 1
           t   == line[2]
           f   == Updated(e, t)
<1>1. /\ k \notin its /\ next[k] = line /\ \A j \in its : next[j] = lines[j]
      /\ new = its \cup {k}
      /\ TotalOf(next, name) = TotalOf(lines, name) + t
  <2>1. Len(lines) + 1 \notin LinesOf(lines, name) /\ Append(lines, line)[Len(lines) + 1] = line
    BY LineRead, Zenon
  <2>2. \A j \in LinesOf(lines, name) : Append(lines, line)[j] = lines[j]  BY DEF LinesOf
  <2>3. LinesOf(Append(lines, line), name) = LinesOf(lines, name) \cup {Len(lines) + 1}
    BY LineRead, Zenon
  <2>4. TotalOf(Append(lines, line), name) = TotalOf(lines, name) + line[2]
    BY LineRead, SMT
  <2> QED  BY <2>1, <2>2, <2>3, <2>4, Zenon
<1>2. IsFiniteSet(its) /\ \A j \in its : lines[j][2] \in Int  BY LinesFinite, Zenon
<1>3. Cardinality(new) = Cardinality(its) + 1
  <2> HIDE DEF its, new, k
  <2> QED  BY <1>1, <1>2, FS_AddElement
<1>4. t \in Int /\ -1000 < t /\ t < 1000
  <2>1. line \in Name \X Temperature  BY DEF Lines
  <2>2. t \in Temperature  BY <2>1
  <2> HIDE DEF t
  <2>3. t \in -999 .. 999  BY <2>2, StationsAssumption
  <2> QED  BY <2>3
<1>5. e.min_temp \in Int /\ e.max_temp \in Int /\ e.total_temp \in Int /\ e.count \in Nat
  BY DEF Station
<1>6. /\ f.min_temp = IF t < e.min_temp THEN t ELSE e.min_temp
      /\ f.max_temp = IF t > e.max_temp THEN t ELSE e.max_temp
      /\ f.total_temp = e.total_temp + t
      /\ f.count = e.count + 1
  BY DEF Updated
<1>7. \A j \in new : next[j][2] = IF j = k THEN t ELSE lines[j][2]  BY <1>1
<1>8. CASE HasFigures(e, its, lines, TotalOf(lines, name))
  <2>1. /\ \A j \in its : e.min_temp <= lines[j][2] /\ lines[j][2] <= e.max_temp
        /\ e.total_temp = TotalOf(lines, name) /\ e.count = Cardinality(its)
    BY <1>8 DEF HasFigures
  <2>2. PICK i \in its : e.min_temp = lines[i][2]  BY <1>8 DEF HasFigures
  <2>3. PICK j \in its : e.max_temp = lines[j][2]  BY <1>8 DEF HasFigures
  <2> HIDE DEF its, next, new, k, t, f
  <2>4. ASSUME NEW l \in new PROVE f.min_temp <= next[l][2] /\ next[l][2] <= f.max_temp
    <3>1. CASE l = k
      <4>1. next[l][2] = t  BY <1>7, <3>1
      <4> QED  BY <1>4, <1>5, <1>6, <4>1
    <3>2. CASE l # k
      <4>1. l \in its  BY <1>1, <3>2
      <4>2. PICK v \in Int : v = lines[l][2]  BY <1>2, <4>1
      <4>3. next[l][2] = v  BY <1>7, <3>2, <4>2
      <4>4. e.min_temp <= v /\ v <= e.max_temp  BY <2>1, <4>1, <4>2
      <4> QED  BY <1>4, <1>5, <1>6, <4>3, <4>4
    <3> QED  BY <3>1, <3>2
  <2>5. \E l \in new : f.min_temp = next[l][2]
    <3>1. i \in new /\ k \in new /\ next[i][2] = lines[i][2] /\ next[k][2] = t  BY <1>1, <1>7
    <3> QED  BY <1>6, <2>2, <3>1
  <2>6. \E l \in new : f.max_temp = next[l][2]
    <3>1. j \in new /\ k \in new /\ next[j][2] = lines[j][2] /\ next[k][2] = t  BY <1>1, <1>7
    <3> QED  BY <1>6, <2>3, <3>1
  <2>7. HasFigures(f, new, next, TotalOf(next, name))
    BY <1>1, <1>3, <1>6, <2>1, <2>4, <2>5, <2>6 DEF HasFigures
  <2> QED  BY <2>7 DEF f, next, new, t
<1>9. CASE /\ e.min_temp = DBL_MAX /\ e.max_temp = -DBL_MAX /\ e.total_temp = 0 /\ e.count = 0
           /\ its = {}
  <2>1. TotalOf(lines, name) = 0
    <3>1. PICK m \in Nat : m = Len(lines)  OBVIOUS
    <3> DEFINE s == [j \in 0 .. m |-> 0]
    <3>2. \A j \in 0 .. m : s[j] = IF j = 0 THEN 0 ELSE s[j - 1] + Added(lines, name)[j]
      BY <1>9, <3>1 DEF Added
    <3>3. IsSum(s, Added(lines, name), m) /\ s[m] = 0  BY <3>2 DEF IsSum
    <3> HIDE DEF s
    <3> QED  BY <3>1, <3>3, TotalIsSum
  <2>2. new = {k} /\ next[k][2] = t  BY <1>1, <1>9
  <2>3. f.min_temp = t /\ f.max_temp = t
    <3> HIDE DEF t, f
    <3> QED  BY <1>4, <1>6, <1>9 DEF DBL_MAX
  <2>4. f.total_temp = TotalOf(next, name) /\ f.count = Cardinality(new)
    <3>1. Cardinality(its) = 0  BY <1>9, FS_EmptySet
    <3> HIDE DEF its, next, new, k, t, f
    <3> QED  BY <1>1, <1>3, <1>4, <1>6, <1>9, <2>1, <3>1
  <2> HIDE DEF its, next, new, k, t, f
  <2>5. HasFigures(f, new, next, TotalOf(next, name))
    <3>1. k \in new /\ \A l \in new : next[l][2] = t  BY <2>2
    <3>2. t <= t  BY <1>4
    <3> QED  BY <2>3, <2>4, <3>1, <3>2 DEF HasFigures
  <2> QED  BY <2>5 DEF f, next, new, t
<1> QED  BY <1>8, <1>9

\* A line that does not name the station leaves it as it is.
LEMMA OthersKept ==
  ASSUME STTypes, NEW line \in Lines, st_lines' = Append(st_lines, line), NEW name,
         line = NoSemicolon \/ line[1] # name, Recorded(name),
         Len(st_stations') \in Nat, Len(st_stations) <= Len(st_stations'), Len(st_stations') <= MAX_STATIONS,
         EntriesOf(name)' = EntriesOf(name),
         \A i \in EntriesOf(name) : st_stations'[i] = st_stations[i]
  PROVE  Recorded(name)'
<1> DEFINE its == LinesOf(st_lines, name)
           total == TotalOf(st_lines, name)
<1>1. st_lines \in Seq(Lines) /\ Len(st_stations) \in Nat /\ MAX_STATIONS \in Nat
  BY StationsAssumption DEF STTypes
<1>2. LinesOf(st_lines', name) = its /\ TotalOf(st_lines', name) = total
  BY <1>1, LineOfOther
<1>3. \A k \in its : st_lines'[k] = st_lines[k]  BY <1>1 DEF LinesOf
<1> HIDE DEF its, total
<1>4. CASE EntriesOf(name) = {} /\ (its = {} \/ Len(st_stations) = MAX_STATIONS)
  <2>1. its = {} \/ Len(st_stations') = MAX_STATIONS  BY <1>1, <1>4
  <2> QED  BY <1>2, <1>4, <2>1 DEF Recorded
<1>5. ASSUME NEW i \in EntriesOf(name), EntriesOf(name) = {i},
             HasFigures(st_stations[i], its, st_lines, total)
      PROVE  Recorded(name)'
  <2>1. HasFigures(st_stations'[i], its, st_lines', total)
    BY <1>3, <1>5 DEF HasFigures
  <2> QED  BY <1>2, <1>5, <2>1 DEF Recorded
<1> QED  BY <1>4, <1>5 DEF Recorded, its, total

LEMMA UpdatedType ==
  ASSUME NEW e \in Station, NEW t \in Int
  PROVE  Updated(e, t) \in Station /\ Updated(e, t).name = e.name
<1> DEFINE low  == IF t < e.min_temp THEN t ELSE e.min_temp
           high == IF t > e.max_temp THEN t ELSE e.max_temp
<1>1. low \in Int /\ high \in Int /\ e.total_temp + t \in Int /\ e.count + 1 \in Nat
  BY DEF Station
<1>2. Updated(e, t) = [name |-> e.name, min_temp |-> low, max_temp |-> high,
                       total_temp |-> e.total_temp + t, count |-> e.count + 1]
  <2> DEFINE f == Updated(e, t)
  <2>1. /\ f.name = e.name /\ f.min_temp = low /\ f.max_temp = high
        /\ f.total_temp = e.total_temp + t /\ f.count = e.count + 1
    BY DEF Updated, Station
  <2>2. DOMAIN f = {"name", "min_temp", "max_temp", "total_temp", "count"}
    BY DEF Updated, Station
  <2>3. f = [x \in DOMAIN f |-> f[x]]  BY DEF Updated, Station
  <2> HIDE DEF f, low, high
  <2>4. f = [name |-> e.name, min_temp |-> low, max_temp |-> high,
             total_temp |-> e.total_temp + t, count |-> e.count + 1]
    BY <2>1, <2>2, <2>3
  <2> QED  BY <2>4 DEF f
<1>3. e.name \in {<<x>> : x \in Name} \cup {Other}  BY DEF Station
<1> HIDE DEF low, high
<1> QED  BY <1>1, <1>2, <1>3 DEF Station

LEMMA LineParts ==
  ASSUME NEW line \in Lines, line # NoSemicolon
  PROVE  line[1] \in Name /\ line[2] \in Int
<1>1. line \in Name \X Temperature  BY DEF Lines
<1>2. line[1] \in Name /\ line[2] \in Temperature  BY <1>1
<1>3. Temperature \subseteq Int  BY StationsAssumption
<1> QED  BY <1>2, <1>3

\* A line of a station that is in the table.
LEMMA FoundInv ==
  ASSUME STIInv, NEW line \in Lines, line # NoSemicolon, st_lines' = Append(st_lines, line),
         NEW i \in 1 .. Len(st_stations), Found(i, line[1]),
         st_stations' = [st_stations EXCEPT ![i] = Updated(@, line[2])]
  PROVE  STIInv'
<1>1. /\ STTypes /\ st_stations \in Seq(Station) /\ Len(st_stations) \in Nat
      /\ st_stations[i] \in Station /\ st_stations[i].name = <<line[1]>>
  BY DEF STIInv, STTypes, Found
<1>2. Updated(st_stations[i], line[2]) \in Station
      /\ Updated(st_stations[i], line[2]).name = <<line[1]>>
  BY <1>1, LineParts, UpdatedType
<1>3. /\ st_stations' \in Seq(Station) /\ Len(st_stations') = Len(st_stations)
      /\ st_stations'[i] = Updated(st_stations[i], line[2])
      /\ \A j \in 1 .. Len(st_stations) : j # i => st_stations'[j] = st_stations[j]
  BY <1>1, <1>2
<1>4. STTypes'
  <2>1. st_lines' \in Seq(Lines)  BY <1>1 DEF STTypes
  <2> QED  BY <1>1, <1>3, <2>1 DEF STTypes
<1>5. ASSUME NEW name PROVE EntriesOf(name)' = EntriesOf(name)
  <2>1. \A j \in 1 .. Len(st_stations) : st_stations'[j].name = st_stations[j].name
    BY <1>1, <1>2, <1>3
  <2> QED  BY <1>3, <2>1 DEF EntriesOf
<1>6. ASSUME NEW name \in Name \ LongName, name # line[1] PROVE Recorded(name)'
  <2>1. i \notin EntriesOf(name)  BY <1>1, <1>6 DEF EntriesOf
  <2>2. \A j \in EntriesOf(name) : st_stations'[j] = st_stations[j]  BY <1>3, <2>1 DEF EntriesOf
  <2>3. Recorded(name)  BY DEF STIInv
  <2>4. Len(st_stations) <= Len(st_stations') /\ Len(st_stations') <= MAX_STATIONS /\ Len(st_stations') \in Nat
    BY <1>1, <1>3 DEF STTypes
  <2> QED  BY <1>1, <1>5, <1>6, <2>2, <2>3, <2>4, OthersKept
<1>7. ASSUME NEW name \in Name \ LongName, name = line[1] PROVE Recorded(name)'
  <2>1. i \in EntriesOf(name)  BY <1>1, <1>7 DEF EntriesOf
  <2>2. Recorded(name)  BY DEF STIInv
  <2>3. /\ EntriesOf(name) = {i}
        /\ HasFigures(st_stations[i], LinesOf(st_lines, name), st_lines, TotalOf(st_lines, name))
    BY <2>1, <2>2 DEF Recorded
  <2>4. st_lines \in Seq(Lines)  BY <1>1 DEF STTypes
  <2>5. HasFigures(st_stations'[i], LinesOf(st_lines', name), st_lines', TotalOf(st_lines', name))
    BY <1>1, <1>3, <1>7, <2>3, <2>4, UpdateFigures
  <2>6. EntriesOf(name)' = {i}  BY <1>5, <2>3
  <2> QED  BY <2>5, <2>6 DEF Recorded
<1> QED  BY <1>4, <1>6, <1>7 DEF STIInv

\* The first line of a station, when there is room.
LEMMA AddInv ==
  ASSUME STIInv, NEW line \in Lines, line # NoSemicolon, st_lines' = Append(st_lines, line),
         \A i \in 1 .. Len(st_stations) : ~Found(i, line[1]), Len(st_stations) < MAX_STATIONS,
         NEW stored \in strncpy(line[1]),
         st_stations' = Append(st_stations, Updated(new_station(stored), line[2]))
  PROVE  STIInv'
<1> DEFINE e == new_station(stored)
           f == Updated(e, line[2])
<1>0. line[1] \in Name /\ line[2] \in Int  BY LineParts
<1>1. /\ STTypes /\ st_stations \in Seq(Station) /\ MAX_STATIONS \in Nat
      /\ stored \in {<<line[1]>>, Other} /\ (line[1] \notin LongName => stored = <<line[1]>>)
  BY StationsAssumption DEF STIInv, STTypes, strncpy
<1>a. PICK m \in Nat : m = Len(st_stations)  BY <1>1
<1>2. e \in Station /\ e.name = stored
  BY <1>0, <1>1 DEF new_station, Station, DBL_MAX
<1>3. f \in Station /\ f.name = stored  BY <1>0, <1>2, UpdatedType
<1> HIDE DEF f
<1>4. /\ st_stations' \in Seq(Station) /\ Len(st_stations') = m + 1
      /\ st_stations'[m + 1] = f
      /\ \A j \in 1 .. m : st_stations'[j] = st_stations[j]
  BY <1>1, <1>a, <1>3 DEF f
<1>5. STTypes'
  <2>1. st_lines' \in Seq(Lines)  BY <1>1 DEF STTypes
  <2> QED  BY <1>1, <1>a, <1>4, <2>1 DEF STTypes
<1>6. ASSUME NEW name \in Name \ LongName, name # line[1] PROVE Recorded(name)'
  <2>1. stored # <<name>>
    <3>1. name # "other"  BY StationsAssumption
    <3> QED  BY <1>1, <1>6, <3>1 DEF Other
  <2>2. EntriesOf(name)' = EntriesOf(name)
    <3>1. ASSUME NEW j \in EntriesOf(name)' PROVE j \in EntriesOf(name)
      <4>1. j \in 1 .. m + 1 /\ st_stations'[j].name = <<name>>  BY <1>4 DEF EntriesOf
      <4>2. j # m + 1  BY <1>3, <1>4, <2>1, <4>1
      <4>3. j \in 1 .. m  BY <4>1, <4>2
      <4> QED  BY <1>a, <1>4, <4>1, <4>3 DEF EntriesOf
    <3>2. \A j \in EntriesOf(name) : j \in EntriesOf(name)'  BY <1>a, <1>4 DEF EntriesOf
    <3> QED  BY <3>1, <3>2
  <2>3. \A j \in EntriesOf(name) : st_stations'[j] = st_stations[j]  BY <1>a, <1>4 DEF EntriesOf
  <2>4. Recorded(name)  BY DEF STIInv
  <2>5. Len(st_stations) <= Len(st_stations') /\ Len(st_stations') <= MAX_STATIONS /\ Len(st_stations') \in Nat
    BY <1>1, <1>a, <1>4
  <2> QED  BY <1>1, <1>6, <2>2, <2>3, <2>4, <2>5, OthersKept
<1>7. ASSUME NEW name \in Name \ LongName, name = line[1] PROVE Recorded(name)'
  <2>1. EntriesOf(name) = {}  BY <1>7 DEF EntriesOf, Found
  <2>2. Recorded(name)  BY DEF STIInv
  <2>3. LinesOf(st_lines, name) = {}  BY <1>1, <1>a, <2>1, <2>2 DEF Recorded
  <2>4. EntriesOf(name)' = {m + 1}
    <3>1. \A j \in 1 .. m : st_stations[j].name # <<name>>  BY <1>a, <2>1 DEF EntriesOf
    <3>2. \A j \in EntriesOf(name)' : j = m + 1  BY <1>4, <3>1 DEF EntriesOf
    <3>3. m + 1 \in EntriesOf(name)'  BY <1>1, <1>3, <1>4, <1>7 DEF EntriesOf
    <3> QED  BY <3>2, <3>3
  <2>5. e.min_temp = DBL_MAX /\ e.max_temp = -DBL_MAX /\ e.total_temp = 0 /\ e.count = 0
    BY DEF new_station
  <2>6. st_lines \in Seq(Lines)  BY <1>1 DEF STTypes
  <2> HIDE DEF e
  <2>7. HasFigures(f, LinesOf(st_lines', name), st_lines', TotalOf(st_lines', name))
    BY <1>2, <1>7, <2>3, <2>5, <2>6, UpdateFigures DEF f
  <2> QED  BY <1>4, <2>4, <2>7 DEF Recorded
<1> QED  BY <1>5, <1>6, <1>7 DEF STIInv

\* A line that changes nothing in the table.
LEMMA IgnoredInv ==
  ASSUME STIInv, NEW line \in Lines, st_lines' = Append(st_lines, line), UNCHANGED st_stations,
         line # NoSemicolon =>
           (\A i \in 1 .. Len(st_stations) : ~Found(i, line[1])) /\ ~(Len(st_stations) < MAX_STATIONS)
  PROVE  STIInv'
<1>1. /\ STTypes /\ Len(st_stations) \in Nat /\ MAX_STATIONS \in Nat /\ Len(st_stations) <= MAX_STATIONS
  BY StationsAssumption DEF STIInv, STTypes
<1>2. STTypes'  BY <1>1 DEF STTypes
<1>3. \A name : EntriesOf(name)' = EntriesOf(name)  BY DEF EntriesOf
<1>4. ASSUME NEW name \in Name \ LongName, line = NoSemicolon \/ line[1] # name PROVE Recorded(name)'
  <2>1. Recorded(name)  BY DEF STIInv
  <2>2. Len(st_stations') = Len(st_stations) /\ Len(st_stations) <= Len(st_stations)  BY <1>1
  <2>3. \A j \in EntriesOf(name) : st_stations'[j] = st_stations[j]  OBVIOUS
  <2> QED  BY <1>1, <1>3, <1>4, <2>1, <2>2, <2>3, OthersKept
<1>5. ASSUME NEW name \in Name \ LongName, line # NoSemicolon, line[1] = name PROVE Recorded(name)'
  <2>1. EntriesOf(name) = {}  BY <1>5 DEF EntriesOf, Found
  <2>2. Len(st_stations') = MAX_STATIONS  BY <1>1, <1>5
  <2> QED  BY <1>3, <2>1, <2>2 DEF Recorded
<1> QED  BY <1>2, <1>4, <1>5 DEF STIInv

LEMMA STInitInv == STInit => STIInv
<1> SUFFICES ASSUME STInit PROVE STIInv  OBVIOUS
<1>1. st_lines = <<>> /\ st_stations = <<>>  BY DEF STInit
<1>2. STTypes  BY <1>1, StationsAssumption DEF STTypes
<1>3. \A name : EntriesOf(name) = {} /\ LinesOf(st_lines, name) = {}
  BY <1>1 DEF EntriesOf, LinesOf
<1> QED  BY <1>2, <1>3 DEF STIInv, Recorded

LEMMA STNextInv == STIInv /\ [STNext]_st_vars => STIInv'
<1>1. CASE UNCHANGED st_vars
  BY <1>1 DEF st_vars, STIInv, STTypes, Recorded, EntriesOf
<1>2. ASSUME STIInv, STNext PROVE STIInv'
  <2>1. PICK line \in Lines : ProcessLine(line)
    BY <1>2 DEF STNext, process_file_mmap, process_file_fread
  <2>2. st_lines' = Append(st_lines, line)  BY <2>1 DEF ProcessLine
  <2>3. CASE line = NoSemicolon
    <3>1. UNCHANGED st_stations  BY <2>1, <2>3 DEF ProcessLine
    <3> QED  BY <1>2, <2>2, <2>3, <3>1, IgnoredInv
  <2>4. CASE line # NoSemicolon
    <3>1. Record(line[1], line[2])  BY <2>1, <2>4 DEF ProcessLine
    <3>2. ASSUME NEW i \in 1 .. Len(st_stations), Found(i, line[1]),
                 st_stations' = [st_stations EXCEPT ![i] = Updated(@, line[2])]
          PROVE  STIInv'
      BY <1>2, <2>2, <2>4, <3>2, FoundInv
    <3>3. ASSUME \A i \in 1 .. Len(st_stations) : ~Found(i, line[1]), Len(st_stations) < MAX_STATIONS,
                 NEW stored \in strncpy(line[1]),
                 st_stations' = Append(st_stations, Updated(new_station(stored), line[2]))
          PROVE  STIInv'
      BY <1>2, <2>2, <2>4, <3>3, AddInv
    <3>4. ASSUME \A i \in 1 .. Len(st_stations) : ~Found(i, line[1]), ~(Len(st_stations) < MAX_STATIONS),
                 UNCHANGED st_stations
          PROVE  STIInv'
      BY <1>2, <2>2, <2>4, <3>4, IgnoredInv
    <3> QED  BY <3>1, <3>2, <3>3, <3>4, Zenon DEF Record
  <2> QED  BY <2>3, <2>4
<1> QED  BY <1>1, <1>2

\* The figures in the table are those of the property.
LEMMA AllOrNoneInv == STIInv => AllLinesOrNone
<1> SUFFICES ASSUME STIInv, NEW name \in Name \ LongName
             PROVE  LET its     == LinesOf(st_lines, name)
                        temps   == {st_lines[k][2] : k \in its}
                        figures == [name |-> <<name>>, min_temp |-> Min(temps), max_temp |-> Max(temps),
                                    total_temp |-> TotalOf(st_lines, name), count |-> Cardinality(its)]
                    IN  \/ Cardinality(EntriesOf(name)) = 1
                           /\ \A i \in EntriesOf(name) : st_stations[i] = figures
                        \/ EntriesOf(name) = {} /\ (its = {} \/ Len(st_stations) = MAX_STATIONS)
  BY Zenon DEF AllLinesOrNone, EntriesOf
<1> DEFINE its   == LinesOf(st_lines, name)
           temps == {st_lines[k][2] : k \in its}
           total == TotalOf(st_lines, name)
<1>1. Recorded(name)  BY DEF STIInv
<1>2. CASE EntriesOf(name) = {} /\ (its = {} \/ Len(st_stations) = MAX_STATIONS)  BY <1>2
<1>3. ASSUME NEW i \in EntriesOf(name), EntriesOf(name) = {i},
             HasFigures(st_stations[i], its, st_lines, total)
      PROVE  /\ Cardinality(EntriesOf(name)) = 1
             /\ st_stations[i] = [name |-> <<name>>, min_temp |-> Min(temps), max_temp |-> Max(temps),
                                  total_temp |-> total, count |-> Cardinality(its)]
  <2> DEFINE e == st_stations[i]
  <2>1. e \in Station /\ e.name = <<name>>
    BY <1>3 DEF STIInv, STTypes, EntriesOf
  <2>2. st_lines \in Seq(Lines)  BY DEF STIInv, STTypes
  <2>3. \A k \in its : st_lines[k][2] \in Int  BY <2>2, LinesFinite
  <2>4. Cardinality(EntriesOf(name)) = 1  BY <1>3, FS_Singleton
  <2> HIDE DEF its, total
  <2>5. temps \subseteq Int  BY <2>3
  <2>6. e.min_temp \in temps /\ \A v \in temps : e.min_temp <= v  BY <1>3 DEF HasFigures
  <2>7. e.max_temp \in temps /\ \A v \in temps : e.max_temp >= v  BY <1>3, <2>3 DEF HasFigures
  <2>8. e.total_temp = total /\ e.count = Cardinality(its)  BY <1>3 DEF HasFigures
  <2> HIDE DEF temps, e
  <2>9. Min(temps) = e.min_temp
    <3>1. Min(temps) \in temps /\ \A v \in temps : Min(temps) <= v  BY <2>6, Zenon DEF Min
    <3>2. Min(temps) <= e.min_temp /\ e.min_temp <= Min(temps)  BY <2>6, <3>1
    <3>3. Min(temps) \in Int /\ e.min_temp \in Int  BY <2>5, <2>6, <3>1
    <3> QED  BY <3>2, <3>3
  <2>10. Max(temps) = e.max_temp
    <3>1. Max(temps) \in temps /\ \A v \in temps : Max(temps) >= v  BY <2>7, Zenon DEF Max
    <3>2. Max(temps) >= e.max_temp /\ e.max_temp >= Max(temps)  BY <2>7, <3>1
    <3>3. Max(temps) \in Int /\ e.max_temp \in Int  BY <2>5, <2>7, <3>1
    <3> QED  BY <3>2, <3>3
  <2>11. e = [name |-> <<name>>, min_temp |-> e.min_temp, max_temp |-> e.max_temp,
              total_temp |-> e.total_temp, count |-> e.count]
    BY <2>1 DEF Station
  <2> QED  BY <2>4, <2>8, <2>9, <2>10, <2>11 DEF e
<1> QED  BY <1>1, <1>2, <1>3 DEF Recorded

----------------------------------------------------------------------------
IInv == DiskIInv /\ ClockIInv /\ SchedIInv /\ GivenBounds /\ RivalIInv /\ SegIInv /\ STIInv

LEMMA InitInv == Init => IInv /\ Processor!ProcInit
<1> SUFFICES ASSUME Init PROVE IInv /\ Processor!ProcInit  OBVIOUS
<1>1. SchedInit /\ DiskInit /\ ClockInit /\ STInit /\ rival = burstTime  BY DEF Init
<1>2. SegIInv
  <2>1. 0 \in Address16  BY SMT DEF Address16
  <2> QED  BY <2>1, SegmentationAssumption DEF Init, SegInit, SegIInv
<1> QED  BY <1>1, <1>2, DiskInitInv, ClockInitInv, SchedInitInv, BoundsInit, RivalInitInv,
        STInitInv DEF IInv

LEMMA StepOfEach ==
  ASSUME [Next]_vars
  PROVE  /\ [simulate_sstf]_disk_vars /\ [ClockNext]_clock_vars /\ [SchedNext]_sched_vars
         /\ [SegNext]_seg_vars /\ [STNext]_st_vars
         /\ \/ SchedNext /\ IF algo = "SRTF" THEN RivalRuns ELSE UNCHANGED rival
            \/ UNCHANGED cpu_vars
<1>1. CASE program = "cpu" /\ Next  BY <1>1 DEF Next
<1>2. CASE program # "cpu" /\ Next  BY <1>2 DEF Next, cpu_vars
<1>3. CASE UNCHANGED vars  BY <1>3 DEF vars, cpu_vars
<1> QED  BY <1>1, <1>2, <1>3

LEMMA NextInv == IInv /\ [Next]_vars => IInv'
<1> SUFFICES ASSUME IInv, [Next]_vars PROVE IInv'  OBVIOUS
<1>1. SegIInv'
  <2>1. CASE SegNext  BY <2>1, SegmentationAssumption DEF SegNext, Translate, SegIInv
  <2>2. CASE UNCHANGED seg_vars  BY <2>2 DEF IInv, SegIInv, seg_vars
  <2> QED  BY <2>1, <2>2, StepOfEach
<1> QED  BY <1>1, StepOfEach, DiskNextInv, ClockNextInv, SchedNextInv, BoundsKept,
        RivalNextInv, STNextInv DEF IInv

THEOREM Invariance == Spec => []IInv
BY InitInv, NextInv, PTL DEF Spec

\* Shortest seek time first passes no request over, wherever the head begins.
THEOREM NonePassedOver == Spec => []NothingPassedOver
<1>1. IInv => NothingPassedOver  BY DEF IInv, DiskIInv
<1> QED  BY <1>1, Invariance, PTL

\* With any number of frames, pages that fit them fault once each.
THEOREM FirstFaultsOnly == Spec => []WorkingSetFits
<1>1. ASSUME IInv PROVE WorkingSetFits
  BY <1>1 DEF IInv, ClockIInv, Filling, WorkingSetFits
<1> QED  BY <1>1, Invariance, PTL

\* A referenced page goes only when all are.
THEOREM ChanceGiven == Spec => SecondChance
<1>1. IInv /\ [Next]_vars => [Chance]_clock_vars  BY StepOfEach, ChanceKept DEF IInv
<1> QED  BY <1>1, Invariance, PTL DEF Spec, SecondChance, Chance

\* Whatever the processes are, the four policies are schedules of one processor.
THEOREM ProcessorRefinement == Spec => ImplementsProcessor
<1>1. IInv /\ [Next]_vars => [Processor!ProcNext]_(Processor!proc_vars)
  BY StepOfEach, SchedNextInv DEF IInv
<1> QED  BY <1>1, InitInv, Invariance, PTL DEF Spec, ImplementsProcessor, Processor!ProcSpec

\* With any number of processes, and any quantum, round robin is fair to those
\* that are there from the beginning.
THEOREM SharesOfRoundRobin == Spec => []EqualShares
<1>1. IInv => EqualShares  BY SharesEqual DEF IInv
<1> QED  BY <1>1, Invariance, PTL

\* Under every policy somebody can be chosen as long as somebody is there, and each
\* step leaves less to run, fewer to complete, less time until all have arrived or
\* fewer turns until the next slice.  Only round robin with nobody ready goes round
\* for ever.
THEOREM ProcessesGetDone ==
  Spec => /\ [](SomebodyNext /\ TimeToGo \in Nat /\ TurnsToGo \in Nat)
          /\ [][GetsNearer]_sched_vars
<1>1. IInv => SomebodyNext /\ TimeToGo \in Nat /\ TurnsToGo \in Nat
  <2> SUFFICES ASSUME IInv PROVE SomebodyNext /\ TimeToGo \in Nat /\ TurnsToGo \in Nat  OBVIOUS
  <2>1. SchedIInv  BY DEF IInv
  <2>2. TimeToGo \in Nat  BY <2>1, TimeToGoNat DEF TimeToGo
  <2> QED  BY <2>1, <2>2, AlwaysSomebody, TurnsToNat
<1>2. IInv /\ IInv' /\ [Next]_vars => [GetsNearer]_sched_vars
  <2> SUFFICES ASSUME IInv, IInv', [Next]_vars PROVE [GetsNearer]_sched_vars  OBVIOUS
  <2>1. [SchedNext]_sched_vars  BY StepOfEach
  <2> QED  BY <2>1, SchedNearer DEF IInv
<1> QED  BY <1>1, <1>2, Invariance, PTL DEF Spec

\* With any number of processes, whatever they are and however the rival runs
\* them, it has never completed more of them than srtf.
THEOREM OptimalSrtf == Spec => []NoScheduleIsAhead
<1>1. IInv => NoScheduleIsAhead  BY NoneIsAhead DEF IInv
<1> QED  BY <1>1, Invariance, PTL

\* Of all 65536 addresses no two share a byte.
THEOREM NoOverlap == Spec => []SegmentsDisjoint
<1>1. IInv => SegmentsDisjoint  BY Disjoint DEF IInv
<1> QED  BY <1>1, Invariance, PTL

\* For any file and any limit on the stations, whichever way the file is read.
THEOREM FiguresOfAllLines == Spec => []AllLinesOrNone
<1>1. IInv => AllLinesOrNone  BY AllOrNoneInv DEF IInv
<1> QED  BY <1>1, Invariance, PTL
=============================================================================
