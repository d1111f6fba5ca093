---------------------------- MODULE MergeSortPipes ----------------------------
(***************************************************************************)
(* Segmentation, Paging, IPC/q1.c: merge sort by a tree of processes.  A   *)
(* process forks a child for each half of its segment; the child sends the *)
(* sorted half back through a pipe.  pipe, fork, read and write may fail,  *)
(* and then the process exits, whether it has children or not.             *)
(*                                                                         *)
(* A process is named by the bounds of its segment.  A half is at most 32  *)
(* bytes in the code, so a write to a pipe does not block.                 *)
(***************************************************************************)
EXTENDS Integers, Sequences, FiniteSets

CONSTANTS SIZE,
          Value     \* what the array may hold

ASSUME MergeSortAssumption == SIZE \in Nat \ {0} /\ Value \subseteq Int

Segment == {s \in (0 .. SIZE - 1) \X (0 .. SIZE - 1) : s[1] <= s[2]}
Root    == <<0, SIZE - 1>>

VARIABLES ms_input,
          ms_pc,     \* where the process of each segment is
          ms_arr,    \* its copy of that segment
          ms_pipe    \* what it has written into its pipe

ms_vars == <<ms_input, ms_pc, ms_arr, ms_pipe>>

Mid(p)    == p[1] + (p[2] - p[1]) \div 2
Left(p)   == <<p[1], Mid(p)>>
Right(p)  == <<Mid(p) + 1, p[2]>>
Half(p, c) == SubSeq(ms_arr[p], c[1] - p[1] + 1, c[2] - p[1] + 1)

\* mergesort returns at once when left = right.
FirstStep(p) == IF p[1] < p[2] THEN "fork_left" ELSE "sorted"

MSInit ==
  /\ ms_input \in [1 .. SIZE -> Value]
  /\ ms_pc = [s \in Segment |-> IF s = Root THEN FirstStep(Root) ELSE "none"]
  /\ ms_arr = [s \in Segment |-> IF s = Root THEN ms_input ELSE <<>>]
  /\ ms_pipe = [s \in Segment |-> <<>>]

Running(p) == ms_pc[p] \notin {"none", "exited", "failed"}
Below(p)   == {q \in Segment \ {p} : p[1] <= q[1] /\ q[2] <= p[2]}

\* Faulty variant: the comparison is turned round.
FromLeftTurned(a, b, i, j) == i < Len(a) /\ (j < Len(b) => a[i + 1] >= b[j + 1])

\* Of leftArr and rightArr i and j elements are copied: the next is of leftArr.
FromLeft(a, b, i, j) == i < Len(a) /\ (j < Len(b) => a[i + 1] <= b[j + 1])

\* The three loops, of which k turns have been gone through when taken[k]
\* elements of leftArr are copied.
Merge(a, b) ==
  LET taken[k \in 0 .. Len(a) + Len(b)] ==
        IF k = 0 THEN 0
        ELSE LET i == taken[k - 1] IN IF FromLeft(a, b, i, k - 1 - i) THEN i + 1 ELSE i
  IN  [k \in 1 .. Len(a) + Len(b) |-> IF taken[k] > taken[k - 1] THEN a[taken[k]] ELSE b[k - taken[k]]]

Fork(p, c, here, next) ==
  /\ ms_pc[p] = here
  /\ ms_pc' = [ms_pc EXCEPT ![p] = next, ![c] = FirstStep(c)]
  /\ ms_arr' = [ms_arr EXCEPT ![c] = Half(p, c)]
  /\ UNCHANGED <<ms_input, ms_pipe>>

\* Both calls of wait have returned.
Ended(p) == \A c \in {Left(p), Right(p)} : ~Running(c)

Wait(p) ==
  /\ ms_pc[p] = "wait" /\ Ended(p)
  /\ ms_pc' = [ms_pc EXCEPT ![p] = "read"]
  /\ UNCHANGED <<ms_input, ms_arr, ms_pipe>>

\* Faulty variant: the parent does not close its own write ends.
WriteEndKept(p) == \E q \in Below(p) \cup {p} : Running(q)

\* Every process forked below p after its pipes were made has inherited the
\* write ends of both, and only its exit closes them.
WriteEndOpen(p) == \E q \in Below(p) : Running(q)

\* read returns the half, or 0 at the end of file: then the half stays as it
\* was.  It blocks while the pipe is empty and somebody might still write.
ReadAndMerge(p) ==
  LET half(c) == IF ms_pipe[c] = <<>> THEN Half(p, c) ELSE ms_pipe[c]
  IN  /\ ms_pc[p] = "read"
      /\ <<>> \in {ms_pipe[Left(p)], ms_pipe[Right(p)]} => ~WriteEndOpen(p)
      /\ ms_arr' = [ms_arr EXCEPT ![p] = Merge(half(Left(p)), half(Right(p)))]
      /\ ms_pc' = [ms_pc EXCEPT ![p] = "sorted"]
      /\ UNCHANGED <<ms_input, ms_pipe>>

Write(p) ==
  /\ ms_pc[p] = "sorted" /\ p # Root
  /\ ms_pipe' = [ms_pipe EXCEPT ![p] = ms_arr[p]]
  /\ ms_pc' = [ms_pc EXCEPT ![p] = "exited"]
  /\ UNCHANGED <<ms_input, ms_arr>>

\* main prints the sorted array and returns.
print_sorted ==
  /\ ms_pc[Root] = "sorted"
  /\ ms_pc' = [ms_pc EXCEPT ![Root] = "exited"]
  /\ UNCHANGED <<ms_input, ms_arr, ms_pipe>>

\* A call returns -1.  The message to stderr is left out.
Fail(p) ==
  /\ Running(p) /\ ms_pc[p] # "wait" /\ <<ms_pc[p], p>> # <<"sorted", Root>>
  /\ ms_pc' = [ms_pc EXCEPT ![p] = "failed"]
  /\ UNCHANGED <<ms_input, ms_arr, ms_pipe>>

MSNext ==
  \/ \E p \in Segment : Fork(p, Left(p), "fork_left", "fork_right")
  \/ \E p \in Segment : Fork(p, Right(p), "fork_right", "wait")
  \/ \E p \in Segment : Wait(p)
  \/ \E p \in Segment : ReadAndMerge(p)
  \/ \E p \in Segment : Write(p)
  \/ print_sorted
  \/ \E p \in Segment : Fail(p)

MSSpec == MSInit /\ [][MSNext]_ms_vars

----------------------------------------------------------------------------
(* Properties                                                              *)

MSTypeOK ==
  /\ ms_input \in [1 .. SIZE -> Value]
  /\ ms_pc \in [Segment -> {"none", "fork_left", "fork_right", "wait", "read", "sorted",
                            "exited", "failed"}]
  /\ ms_arr \in [Segment -> Seq(Value)]
  /\ ms_pipe \in [Segment -> Seq(Value)]

IsSorted(s) == \A i \in 1 .. Len(s) - 1 : s[i] <= s[i + 1]
Count(s, v) == Cardinality({i \in 1 .. Len(s) : s[i] = v})

\* Whatever calls fail, below or beside, the array that main prints holds the
\* numbers of the input; and it is sorted if no call has failed.
SortedUnlessFailed ==
  ms_pc[Root] = "exited" =>
    /\ \A v \in Value : Count(ms_arr[Root], v) = Count(ms_input, v)
    /\ (\A p \in Segment : ms_pc[p] # "failed") => IsSorted(ms_arr[Root])

\* When main prints, nobody it started, directly or not, is still there.
\* Processes whose parent has failed are waited for by no wait, but as long as
\* one of them lives it holds the write end of the pipe that the failure left
\* empty.
LastToLeave == ms_pc[Root] = "exited" => ~\E p \in Segment : Running(p)
=============================================================================
