--------------------------- MODULE ClockReplacement ---------------------------
(***************************************************************************)
(* Segmentation, Paging, IPC/q5.c: the clock page replacement algorithm on *)
(* a sequence of page requests.  A page number is a byte; an empty frame   *)
(* is marked with -1, which the byte stores as its largest value.          *)
(***************************************************************************)
EXTENDS Integers, FiniteSets

CONSTANTS num_frames,
          BYTE,             \* 256, the number of values of a uint8_t
          MAX_REQUESTS      \* bound of the model: requests in the input line

ASSUME ClockAssumption ==
  /\ num_frames \in Nat \ {0}
  /\ BYTE \in Nat \ {0}
  /\ MAX_REQUESTS \in Nat

Frame  == 0 .. num_frames - 1
Page   == 0 .. BYTE - 1
Marked == -1 % BYTE        \* what page_number = -1 stores

VARIABLES memory, clock_hand, total_faults, total_hits,
          requested         \* history: the pages requested so far

clock_vars == <<memory, clock_hand, total_faults, total_hits, requested>>

\* initialize_memory
ClockInit ==
  /\ memory = [i \in Frame |->
                 [page_number |-> Marked, reference_bit |-> FALSE, dirty_bit |-> FALSE]]
  /\ clock_hand = 0
  /\ total_faults = 0 /\ total_hits = 0
  /\ requested = {}

\* Faulty variant: the last frame is not searched.
HoldingShort(p) == {i \in Frame \ {num_frames - 1} : memory[i].page_number = p}

\* The frames that hold a page, for is_page_in_memory and handle_page_request.
Holding(p) == {i \in Frame : memory[i].page_number = p}

\* find_empty_frame compares the byte, widened to int, with -1.
empty_frames == {i \in Frame : memory[i].page_number = -1}

First(S) == CHOOSE i \in S : \A j \in S : i <= j

\* The frame k places after the hand.
At(k) == (clock_hand + k) % num_frames

Replaceable(i) == ~memory[i].reference_bit /\ ~memory[i].dirty_bit

\* What the hand does to a frame it passes: a second chance.
Passed(f) == IF f.reference_bit THEN [f EXCEPT !.reference_bit = FALSE]
                                ELSE [f EXCEPT !.dirty_bit = FALSE]

LoadedPage(p) == [page_number |-> p, reference_bit |-> TRUE, dirty_bit |-> FALSE]

Request(p) ==
  /\ total_faults + total_hits < MAX_REQUESTS
  /\ requested' = requested \cup {p}

PageHit(p) ==
  /\ Request(p)
  /\ Holding(p) # {}
  /\ total_hits' = total_hits + 1
  /\ memory' = [memory EXCEPT ![First(Holding(p))].reference_bit = TRUE]
  /\ UNCHANGED <<clock_hand, total_faults>>

\* The number of frames the hand passes before it stops, all of them if none
\* can be replaced.
Passes ==
  LET stops == {k \in 0 .. num_frames - 1 : Replaceable(At(k))}
  IN  IF stops = {} THEN num_frames ELSE First(stops)

\* Where the hand is after a victim k places on; a full circle ends where it
\* began, at the frame that is replaced then.
HandAfter(k) == At(k + 1)

\* Faulty variant: the frame under the hand is replaced whatever its bits are.
VictimUnderHand(k) == At(0)

Victim(k) == At(k)

\* clock_algorithm, for find_empty_frame finds none, and the load of the page.
PageFault(p) ==
  /\ Request(p)
  /\ Holding(p) = {}
  /\ total_faults' = total_faults + 1
  /\ IF empty_frames # {}
       THEN /\ memory' = [memory EXCEPT ![First(empty_frames)] = LoadedPage(p)]
            /\ UNCHANGED clock_hand
       ELSE LET k == Passes
            IN  /\ memory' = [i \in Frame |->
                     IF i = Victim(k) THEN LoadedPage(p)
                     ELSE IF \E j \in 0 .. k - 1 : i = At(j) THEN Passed(memory[i])
                     ELSE memory[i]]
                /\ clock_hand' = HandAfter(k)
  /\ UNCHANGED total_hits

ClockNext ==
  \/ \E p \in Page : PageHit(p)
  \/ \E p \in Page : PageFault(p)

ClockSpec == ClockInit /\ [][ClockNext]_clock_vars

----------------------------------------------------------------------------
(* Properties                                                              *)

\* Although find_empty_frame never finds one, empty frames are filled before a
\* page is thrown out: as long as the pages requested fit the frames, each has
\* faulted once and never again.  (Not so once the page that marks an empty
\* frame is requested.)
WorkingSetFits ==
  Marked \notin requested /\ Cardinality(requested) <= num_frames
    => total_faults = Cardinality(requested)

\* Second chance: a page whose reference bit is set is not thrown out while
\* another frame could be.
SecondChance ==
  [][\A i \in Frame :
       memory'[i].page_number # memory[i].page_number /\ memory[i].reference_bit
         => \A j \in Frame : memory[j].reference_bit]_clock_vars
=============================================================================
