---------------------------- MODULE ProcessesProofs ----------------------------
(***************************************************************************)
(* Proofs about MCProcesses, for arrays, files and trees of any size and   *)
(* any number of children: when a program that starts processes or threads *)
(* prints their result, or returns, none of them is left; the array is     *)
(* sorted unless a call failed, and no number of it is lost; the search    *)
(* answers once, output goes where it was directed, a copy is one, and     *)
(* what is moved is left in one place or the other.                        *)
(***************************************************************************)
EXTENDS MCProcesses, FiniteSetTheorems, SequenceTheorems, TLAPS

----------------------------------------------------------------------------
(* Merge sort: the segments of the processes started form a tree, and a    *)
(* process that has its segment sorted has nobody running below it.        *)

Started(p)   == ms_pc[p] # "none"
Within(q, p) == p[1] <= q[1] /\ q[2] <= p[2]
Apart(q, p)  == p[2] < q[1] \/ q[2] < p[1]

MSTypes ==
  /\ ms_pc \in [Segment -> {"none", "fork_left", "fork_right", "wait", "read", "sorted",
                            "exited", "failed"}]
  /\ DOMAIN ms_pipe = Segment

\* Two processes are the same, or work on segments of which one contains the
\* other, or that are apart.
Laminar ==
  \A p, q \in Segment : Started(p) /\ Started(q) => Within(p, q) \/ Within(q, p) \/ Apart(p, q)

\* Whoever works on a part of p's segment works on a part of one of its halves.
InHalves ==
  \A p, q \in Segment :
    Started(p) /\ Started(q) /\ q \in Below(p) => Within(q, Left(p)) \/ Within(q, Right(p))

\* A half that is not forked yet has nobody in it.
NotYet ==
  \A p, q \in Segment :
    /\ ms_pc[p] = "fork_left" /\ Started(q) => q \notin Below(p)
    /\ ms_pc[p] = "fork_right" /\ Started(q) => ~Within(q, Right(p))

Forking == \A p \in Segment : ms_pc[p] \in {"fork_left", "fork_right", "wait", "read"} => p[1] < p[2]

\* The heart of it.
QuietBelow ==
  \A p, q \in Segment : ms_pc[p] \in {"sorted", "exited"} /\ q \in Below(p) => ~Running(q)

WrittenAtExit == \A p \in Segment : ms_pipe[p] # <<>> => ms_pc[p] = "exited"

MSIInv == MSTypes /\ Laminar /\ InHalves /\ NotYet /\ Forking /\ QuietBelow /\ WrittenAtExit

\* The bounds of the two halves.
LEMMA HalvesBounds ==
  ASSUME NEW p \in Segment, p[1] < p[2]
  PROVE  /\ Left(p) \in Segment /\ Right(p) \in Segment
         /\ Left(p)[1] = p[1] /\ Right(p)[2] = p[2]
         /\ Right(p)[1] = Left(p)[2] + 1
         /\ p[1] <= Left(p)[2] /\ Left(p)[2] < p[2]
<1>1. p[1] \in Nat /\ p[2] \in 0 .. SIZE - 1  BY MergeSortAssumption DEF Segment
<1>2. Mid(p) \in Int /\ p[1] <= Mid(p) /\ Mid(p) < p[2]  BY <1>1, MergeSortAssumption DEF Mid
<1> QED  BY <1>1, <1>2, MergeSortAssumption DEF Left, Right, Segment

\* The bounds of halves are numbers.
LEMMA HalvesInt ==
  \A p \in Segment : /\ Left(p)[1] \in Int /\ Left(p)[2] \in Int
                     /\ Right(p)[1] \in Int /\ Right(p)[2] \in Int
                     /\ Left(p)[1] = p[1] /\ Right(p)[2] = p[2] /\ Right(p)[1] = Left(p)[2] + 1
BY MergeSortAssumption DEF Segment, Left, Right, Mid

\* Segments with the same bounds are the same.
LEMMA SegmentBounds ==
  /\ \A p \in Segment : p[1] \in Int /\ p[2] \in Int /\ p[1] <= p[2]
  /\ \A p, q \in Segment : p[1] = q[1] /\ p[2] = q[2] => p = q
BY MergeSortAssumption DEF Segment

LEMMA MSInitInv == MSInit => MSIInv
<1> SUFFICES ASSUME MSInit PROVE MSIInv  OBVIOUS
<1>1. Root \in Segment /\ \A p \in Segment : Within(p, Root)
  BY MergeSortAssumption DEF Root, Segment, Within
<1>2. /\ \A p \in Segment : Started(p) => p = Root
      /\ ms_pc[Root] \in {"fork_left", "sorted"} /\ (ms_pc[Root] = "fork_left" => Root[1] < Root[2])
      /\ MSTypes
  BY <1>1 DEF MSInit, Started, FirstStep, MSTypes
<1>3. \A p \in Segment : ms_pc[p] # "none" => p = Root  BY <1>2 DEF Started
<1>4. Laminar  BY <1>1, <1>2 DEF Laminar
<1>5. InHalves  BY <1>2 DEF InHalves, Below
<1>6. NotYet  BY <1>2, <1>3 DEF NotYet, Below
<1>7. Forking  BY <1>2, <1>3 DEF Forking
<1>8. QuietBelow  BY <1>2, <1>3 DEF QuietBelow, Running, Below
<1>9. WrittenAtExit  BY DEF WrittenAtExit, MSInit
<1> QED  BY <1>2, <1>4, <1>5, <1>6, <1>7, <1>8, <1>9 DEF MSIInv

\* Who is forked is new: c is a half of p that nobody is in.
LEMMA ForkNew ==
  ASSUME MSIInv, NEW p \in Segment, NEW c \in Segment, NEW here, NEW next,
         Fork(p, c, here, next),
         \/ c = Left(p) /\ here = "fork_left" /\ next = "fork_right"
         \/ c = Right(p) /\ here = "fork_right" /\ next = "wait"
  PROVE  /\ ms_pc[p] = here /\ ms_pc[c] = "none" /\ c \in Below(p) /\ c # p /\ c # Root
         /\ p[1] <= c[1] /\ c[2] <= p[2] /\ c[1] <= c[2] /\ (p[1] < c[1] \/ c[2] < p[2])
         /\ \A q \in Segment : q # p /\ q # c => ms_pc'[q] = ms_pc[q]
         /\ ms_pc'[p] = next /\ ms_pc'[c] = FirstStep(c)
         /\ \A q \in Segment : Started(q) /\ q # p => Within(p, q) \/ Apart(q, c)
<1>1. /\ ms_pc[p] = here /\ p[1] < p[2]
      /\ ms_pc' = [ms_pc EXCEPT ![p] = next, ![c] = FirstStep(c)]
  BY DEF Fork, MSIInv, Forking
<1>2. /\ p[1] \in Int /\ p[2] \in Int /\ c[1] \in Int /\ c[2] \in Int
      /\ Left(p)[2] \in Int
  BY <1>1, HalvesBounds, SegmentBounds
<1>h. /\ Left(p)[1] = p[1] /\ Right(p)[2] = p[2]
      /\ Right(p)[1] = Left(p)[2] + 1
      /\ p[1] <= Left(p)[2] /\ Left(p)[2] < p[2]
  BY <1>1, HalvesBounds
<1>b. /\ p[1] <= c[1] /\ c[2] <= p[2] /\ c[1] <= c[2]
      /\ p[1] < c[1] \/ c[2] < p[2]
  <2>1. CASE c = Left(p)  BY <1>2, <1>h, <2>1
  <2>2. CASE c = Right(p)  BY <1>2, <1>h, <2>2
  <2> QED  BY <2>1, <2>2
<1>3. c \in Below(p) /\ c # p
  <2>1. c # p  BY <1>2, <1>b
  <2> QED  BY <1>b, <2>1 DEF Below
<1>4. \A q \in Segment : Started(q) /\ q # p => Within(p, q) \/ Apart(q, c)
  <2> SUFFICES ASSUME NEW q \in Segment, Started(q), q # p, ~Within(p, q) PROVE Apart(q, c)
    OBVIOUS
  <2>0. Started(p)  BY <1>1 DEF Started
  <2>i. q[1] \in Int /\ q[2] \in Int  BY SegmentBounds
  <2>j. q[1] <= q[2]  BY SegmentBounds
  <2>1. CASE Apart(p, q)
    BY <2>i, <2>j, <2>1, <1>2, <1>b DEF Apart
  <2>2. CASE Within(q, p)
    <3>1. q \in Below(p)  BY <2>2 DEF Below, Within
    <3>2. here = "fork_right" /\ c = Right(p)  BY <3>1, <1>1 DEF MSIInv, NotYet
    <3>3. ~Within(q, Right(p))  BY <3>2, <1>1 DEF MSIInv, NotYet
    <3>4. Within(q, Left(p))  BY <3>1, <3>3, <2>0 DEF MSIInv, InHalves
    <3> QED  BY <3>2, <3>4, <1>2, <1>h, <2>i, <2>j DEF Apart, Within
  <2>3. Within(p, q) \/ Within(q, p) \/ Apart(p, q)  BY <2>0 DEF MSIInv, Laminar
  <2> QED  BY <2>1, <2>2, <2>3
<1>5. ms_pc[c] = "none"
  <2>1. ~Within(p, c) /\ ~Apart(c, c)  BY <1>2, <1>b DEF Within, Apart
  <2> QED  BY <2>1, <1>3, <1>4 DEF Started
<1>6. /\ \A q \in Segment : q # p /\ q # c => ms_pc'[q] = ms_pc[q]
      /\ ms_pc'[p] = next /\ ms_pc'[c] = FirstStep(c)
  BY <1>1, <1>3 DEF MSIInv, MSTypes
<1>7. c # Root
  <2>1. 0 <= p[1] /\ p[2] <= SIZE - 1 /\ Root[1] = 0 /\ Root[2] = SIZE - 1 /\ SIZE \in Int
    BY MergeSortAssumption DEF Segment, Root
  <2> QED  BY <2>1, <1>2, <1>b
<1> QED  BY <1>1, <1>b, <1>3, <1>4, <1>5, <1>6, <1>7

\* A fork.
LEMMA ForkInv ==
  ASSUME MSIInv, NEW p \in Segment, NEW c \in Segment, NEW here, NEW next,
         Fork(p, c, here, next),
         \/ c = Left(p) /\ here = "fork_left" /\ next = "fork_right"
         \/ c = Right(p) /\ here = "fork_right" /\ next = "wait"
  PROVE  MSIInv'
<1>1. /\ ms_pc[p] = here /\ p[1] < p[2]
      /\ ms_pc' = [ms_pc EXCEPT ![p] = next, ![c] = FirstStep(c)]
      /\ ms_pipe' = ms_pipe
  BY DEF Fork, MSIInv, Forking
<1>2. /\ p[1] \in Int /\ p[2] \in Int /\ c[1] \in Int /\ c[2] \in Int
      /\ Left(p)[2] \in Int
  BY <1>1, HalvesBounds, SegmentBounds
<1>h. /\ Left(p)[1] = p[1] /\ Right(p)[2] = p[2]
      /\ Right(p)[1] = Left(p)[2] + 1
      /\ p[1] <= Left(p)[2] /\ Left(p)[2] < p[2]
  BY <1>1, HalvesBounds
<1>b. /\ p[1] <= c[1] /\ c[2] <= p[2] /\ c[1] <= c[2]
      /\ p[1] < c[1] \/ c[2] < p[2]
  BY ForkNew
<1>3. c \in Below(p) /\ c # p  BY ForkNew
<1>4. \A q \in Segment : Started(q) /\ q # p => Within(p, q) \/ Apart(q, c)  BY ForkNew
<1>5. ms_pc[c] = "none"  BY ForkNew
<1>6. /\ \A q \in Segment : q # p /\ q # c => ms_pc'[q] = ms_pc[q]
      /\ ms_pc'[p] = next /\ ms_pc'[c] = FirstStep(c)
      /\ MSTypes'
  BY <1>1, <1>3 DEF MSIInv, MSTypes, FirstStep
<1>7. \A q \in Segment : Started(q)' <=> Started(q) \/ q = c
  <2>1. ms_pc'[p] # "none" /\ ms_pc[p] # "none" /\ ms_pc'[c] # "none"
    BY <1>1, <1>6 DEF FirstStep
  <2> QED  BY <2>1, <1>6 DEF Started
<1>8. \A q \in Segment : Started(q) => Within(c, q) \/ Apart(q, c)
  <2> SUFFICES ASSUME NEW q \in Segment, Started(q), ~Apart(q, c) PROVE Within(c, q)  OBVIOUS
  <2>1. q[1] \in Int /\ q[2] \in Int  BY SegmentBounds
  <2>2. q = p \/ Within(p, q)  BY <1>4
  <2> QED  BY <2>1, <2>2, <1>2, <1>b DEF Within
<1>9. \A q \in Segment : Started(q)' => q \notin Below(c)
  <2> SUFFICES ASSUME NEW q \in Segment, Started(q), q \in Below(c), q # c PROVE FALSE
    BY <1>7 DEF Below
  <2>1. q[1] \in Int /\ q[2] \in Int  BY SegmentBounds
  <2>2. q[1] <= q[2]  BY SegmentBounds
  <2>3. c[1] <= q[1] /\ q[2] <= c[2]  BY DEF Below
  <2>4. CASE Apart(q, c)  BY <2>1, <2>2, <2>3, <2>4, <1>2 DEF Apart
  <2>5. CASE Within(c, q)
    <3>1. c[1] = q[1] /\ c[2] = q[2]  BY <2>1, <2>3, <2>5, <1>2 DEF Within
    <3> QED  BY <3>1, SegmentBounds
  <2> QED  BY <2>4, <2>5, <1>8
<1>10. \A q \in Segment : Started(q) /\ q # p /\ Within(c, q) => p \in Below(q)
  <2> SUFFICES ASSUME NEW q \in Segment, Started(q), q # p, Within(c, q) PROVE p \in Below(q)
    OBVIOUS
  <2>1. q[1] \in Int /\ q[2] \in Int  BY SegmentBounds
  <2>2. ~Apart(q, c)  BY <2>1, <1>2, <1>b DEF Apart, Within
  <2> QED  BY <2>2, <1>4 DEF Below, Within
<1>11. Started(p)  BY <1>1 DEF Started
<1>12. Laminar'
  <2> SUFFICES ASSUME NEW a \in Segment, NEW b \in Segment, Started(a)', Started(b)'
               PROVE  Within(a, b) \/ Within(b, a) \/ Apart(a, b)
    BY DEF Laminar
  <2>1. Within(c, c)  BY <1>2 DEF Within
  <2>2. CASE Started(a) /\ Started(b)  BY <2>2 DEF MSIInv, Laminar
  <2>3. CASE a = c \/ b = c  BY <2>1, <2>3, <1>7, <1>8 DEF Apart
  <2> QED  BY <2>2, <2>3, <1>7
<1>13. InHalves'
  <2> SUFFICES ASSUME NEW a \in Segment, NEW b \in Segment, Started(a)', Started(b)', b \in Below(a)
               PROVE  Within(b, Left(a)) \/ Within(b, Right(a))
    BY DEF InHalves
  <2>1. CASE Started(a) /\ Started(b)  BY <2>1 DEF MSIInv, InHalves
  <2>2. CASE b = c /\ a = p
    BY <2>2, <1>2 DEF Within
  <2>3. CASE b = c /\ a # p
    <3>1. Started(a) /\ Within(c, a)  BY <2>3, <1>7 DEF Below, Within
    <3>2. p \in Below(a)  BY <3>1, <2>3, <1>10
    <3>3. Within(p, Left(a)) \/ Within(p, Right(a))  BY <3>1, <3>2, <1>11 DEF MSIInv, InHalves
    <3>4. Left(a)[1] \in Int /\ Left(a)[2] \in Int /\ Right(a)[1] \in Int /\ Right(a)[2] \in Int
      BY HalvesInt
    <3> QED  BY <3>3, <3>4, <2>3, <1>2, <1>b DEF Within
  <2> QED  BY <2>1, <2>2, <2>3, <1>7, <1>9
<1>14. NotYet'
  <2> SUFFICES ASSUME NEW a \in Segment, NEW b \in Segment, Started(b)'
               PROVE  /\ ms_pc'[a] = "fork_left" => b \notin Below(a)
                      /\ ms_pc'[a] = "fork_right" => ~Within(b, Right(a))
    BY DEF NotYet
  <2>1. CASE a = c  BY <2>1, <1>6, <1>9 DEF FirstStep
  <2>2. CASE a = p
    <3>1. SUFFICES ASSUME here = "fork_left", c = Left(p), Within(b, Right(p)) PROVE FALSE
      BY <2>2, <1>6
    <3>2. b[1] \in Int /\ b[2] \in Int  BY SegmentBounds
    <3>3. b \in Below(p) /\ b # c  BY <3>1, <3>2, <1>2, <1>h, SegmentBounds DEF Below, Within
    <3> QED  BY <3>1, <3>3, <1>1, <1>7 DEF MSIInv, NotYet
  <2>3. CASE a # p /\ a # c /\ b # c  BY <2>3, <1>6, <1>7 DEF MSIInv, NotYet
  <2>4. CASE a # p /\ a # c /\ b = c /\ ms_pc[a] = "fork_left"
    <3>1. c \notin Below(a)
      BY <2>4, <1>10, <1>11 DEF MSIInv, NotYet, Started, Below, Within
    <3> QED  BY <3>1, <2>4, <1>6
  <2>5. CASE a # p /\ a # c /\ b = c /\ ms_pc[a] = "fork_right"
    <3> SUFFICES ASSUME Within(c, Right(a)) PROVE FALSE  BY <2>5, <1>6
    <3>1. /\ Left(a)[1] \in Int /\ Left(a)[2] \in Int /\ Right(a)[1] \in Int
          /\ a[1] \in Int /\ a[2] \in Int
      BY HalvesInt, SegmentBounds
    <3>2. a[1] < a[2]  BY <2>5 DEF MSIInv, Forking
    <3>3. a[1] <= Left(a)[2] /\ Right(a)[1] = Left(a)[2] + 1 /\ Right(a)[2] = a[2]
      BY <3>2, HalvesBounds
    <3>4. Within(c, a)  BY <3>1, <3>3, <1>2 DEF Within
    <3>5. Started(a)  BY <2>5 DEF Started
    <3>6. p \in Below(a)  BY <2>5, <3>4, <3>5, <1>10
    <3>7. ~Within(p, Right(a))  BY <2>5, <1>11 DEF MSIInv, NotYet
    <3>8. Within(p, Left(a))  BY <3>5, <3>6, <3>7, <1>11 DEF MSIInv, InHalves
    <3> QED  BY <3>1, <3>3, <3>8, <1>2, <1>b DEF Within
  <2> QED  BY <2>1, <2>2, <2>3, <2>4, <2>5, <1>6
<1>15. Forking'  BY <1>1, <1>6 DEF MSIInv, Forking, FirstStep
<1>16. QuietBelow'
  <2> SUFFICES ASSUME NEW a \in Segment, NEW b \in Segment, ms_pc'[a] \in {"sorted", "exited"},
                      b \in Below(a), Running(b)'
               PROVE  FALSE
    BY DEF QuietBelow
  <2>1. Started(b)' /\ a # c /\ a # p  BY <1>6, <1>9 DEF Running, Started
  <2>2. ms_pc[a] \in {"sorted", "exited"} /\ Started(a)  BY <2>1, <1>6 DEF Started
  <2>3. Running(p)  BY <1>1 DEF Running
  <2>4. CASE b = c
    BY <2>1, <2>2, <2>3, <2>4, <1>10 DEF MSIInv, QuietBelow, Below, Within
  <2>5. CASE b # c
    <3>1. Running(b)  BY <2>3, <2>5, <1>6 DEF Running
    <3> QED  BY <3>1, <2>2 DEF MSIInv, QuietBelow
  <2> QED  BY <2>4, <2>5
<1>17. WrittenAtExit'
  BY <1>1, <1>5, <1>6 DEF MSIInv, WrittenAtExit
<1> QED  BY <1>6, <1>12, <1>13, <1>14, <1>15, <1>16, <1>17 DEF MSIInv

\* Any other step of a process p: the segments stay, and p is sorted or leaves
\* only when nobody runs below it.
LEMMA MoveInv ==
  ASSUME MSIInv, NEW p \in Segment, NEW at \in {"read", "sorted", "exited", "failed"},
         Running(p), ms_pc' = [ms_pc EXCEPT ![p] = at],
         at = "read" => ms_pc[p] = "wait",
         at \in {"sorted", "exited"} => ~WriteEndOpen(p),
         \/ ms_pipe' = ms_pipe
         \/ at = "exited" /\ ms_pipe' = [ms_pipe EXCEPT ![p] = ms_arr[p]]
  PROVE  MSIInv'
<1>1. /\ \A q \in Segment : q # p => ms_pc'[q] = ms_pc[q] /\ ms_pipe'[q] = ms_pipe[q]
      /\ ms_pc'[p] = at /\ ms_pc[p] \notin {"none", "exited", "failed"}
      /\ ms_pipe'[p] # ms_pipe[p] => at = "exited"
      /\ MSTypes'
  BY DEF MSIInv, MSTypes, Running
<1>2. \A q \in Segment : Started(q)' <=> Started(q)  BY <1>1 DEF Started
<1>3. \A q \in Segment : Running(q)' => Running(q)  BY <1>1 DEF Running
<1>4. Laminar'  BY <1>2 DEF MSIInv, Laminar
<1>5. InHalves'  BY <1>2 DEF MSIInv, InHalves
<1>6. NotYet'  BY <1>1, <1>2 DEF MSIInv, NotYet
<1>7. Forking'  BY <1>1 DEF MSIInv, Forking
<1>8. QuietBelow'
  <2> SUFFICES ASSUME NEW a \in Segment, NEW b \in Segment, ms_pc'[a] \in {"sorted", "exited"},
                      b \in Below(a), Running(b)
               PROVE  FALSE
    BY <1>3 DEF QuietBelow
  <2>1. CASE a = p  BY <2>1, <1>1 DEF WriteEndOpen
  <2>2. CASE a # p  BY <2>2, <1>1 DEF MSIInv, QuietBelow
  <2> QED  BY <2>1, <2>2
<1>9. WrittenAtExit'
  <2> SUFFICES ASSUME NEW a \in Segment, ms_pipe'[a] # <<>> PROVE ms_pc'[a] = "exited"
    BY DEF WrittenAtExit
  <2>1. CASE ms_pipe'[a] = ms_pipe[a]  BY <2>1, <1>1 DEF MSIInv, WrittenAtExit
  <2>2. CASE ms_pipe'[a] # ms_pipe[a]  BY <2>2, <1>1
  <2> QED  BY <2>1, <2>2
<1> QED  BY <1>1, <1>4, <1>5, <1>6, <1>7, <1>8, <1>9 DEF MSIInv

\* The parent that reads is the last in its segment, whether the halves have
\* come or the pipes are at their end.
LEMMA QuietAfterRead ==
  ASSUME MSIInv, NEW p \in Segment, ReadAndMerge(p)
  PROVE  ~WriteEndOpen(p)
<1> SUFFICES ASSUME NEW q \in Below(p), Running(q) PROVE FALSE  BY DEF WriteEndOpen
<1>1. ms_pc[p] = "read" /\ ms_pipe[Left(p)] # <<>> /\ ms_pipe[Right(p)] # <<>>
  BY DEF ReadAndMerge, WriteEndOpen
<1>2. Left(p) \in Segment /\ Right(p) \in Segment
  BY <1>1, HalvesBounds DEF MSIInv, Forking
<1>3. ms_pc[Left(p)] = "exited" /\ ms_pc[Right(p)] = "exited"
  BY <1>1, <1>2 DEF MSIInv, WrittenAtExit
<1>4. Started(p) /\ Started(q) /\ q \in Segment  BY <1>1 DEF Started, Running, Below
<1>5. Within(q, Left(p)) \/ Within(q, Right(p))  BY <1>4 DEF MSIInv, InHalves
<1>6. q \in Below(Left(p)) \/ q \in Below(Right(p))
  BY <1>3, <1>4, <1>5 DEF Below, Within, Running
<1> QED  BY <1>2, <1>3, <1>4, <1>6 DEF MSIInv, QuietBelow

LEMMA MSNextInv == MSIInv /\ [MSNext]_ms_vars => MSIInv'
<1> SUFFICES ASSUME MSIInv, [MSNext]_ms_vars PROVE MSIInv'  OBVIOUS
<1>1. ASSUME NEW p \in Segment, Fork(p, Left(p), "fork_left", "fork_right") PROVE MSIInv'
  BY <1>1, ForkInv, HalvesBounds DEF Fork, MSIInv, Forking
<1>2. ASSUME NEW p \in Segment, Fork(p, Right(p), "fork_right", "wait") PROVE MSIInv'
  BY <1>2, ForkInv, HalvesBounds DEF Fork, MSIInv, Forking
<1>3. ASSUME NEW p \in Segment, Wait(p) PROVE MSIInv'
  BY <1>3, MoveInv DEF Wait, Running
<1>4. ASSUME NEW p \in Segment, ReadAndMerge(p) PROVE MSIInv'
  BY <1>4, MoveInv, QuietAfterRead DEF ReadAndMerge, Running
<1>5. ASSUME NEW p \in Segment, Write(p) PROVE MSIInv'
  <2>1. ~WriteEndOpen(p)  BY <1>5 DEF Write, WriteEndOpen, Below, MSIInv, QuietBelow
  <2> QED  BY <1>5, <2>1, MoveInv DEF Write, Running
<1>6. CASE print_sorted
  <2>1. Root \in Segment  BY MergeSortAssumption DEF Root, Segment
  <2>2. ~WriteEndOpen(Root)  BY <1>6, <2>1 DEF print_sorted, WriteEndOpen, Below, MSIInv, QuietBelow
  <2> QED  BY <1>6, <2>1, <2>2, MoveInv DEF print_sorted, Running
<1>7. ASSUME NEW p \in Segment, Fail(p) PROVE MSIInv'
  BY <1>7, MoveInv DEF Fail
<1>8. CASE UNCHANGED ms_vars
  BY <1>8 DEF ms_vars, MSIInv, MSTypes, Laminar, InHalves, NotYet, Forking, QuietBelow,
              WrittenAtExit, Started, Running
<1> QED  BY <1>1, <1>2, <1>3, <1>4, <1>5, <1>6, <1>7, <1>8 DEF MSNext

\* Nobody runs below a process that has left, and everybody is below main.
LEMMA LastToLeaveInv == MSIInv => LastToLeave
<1> SUFFICES ASSUME MSIInv, ms_pc[Root] = "exited", NEW p \in Segment, Running(p) PROVE FALSE
  BY DEF LastToLeave
<1>1. Root \in Segment /\ p # Root  BY MergeSortAssumption DEF Root, Segment, Running
<1>2. p \in Below(Root)  BY <1>1, MergeSortAssumption DEF Root, Segment, Below
<1> QED  BY <1>1, <1>2 DEF MSIInv, QuietBelow

----------------------------------------------------------------------------
(* What merge returns.  Its loops are a recursive function, which exists    *)
(* because there is no least number of turns that it could not go to.       *)

LEMMA LeastOf ==
  ASSUME NEW S \in SUBSET Nat, S # {}
  PROVE  \E i \in S : \A j \in S : i <= j
<1>1. OpToRel(<, Nat) = {ss \in Nat \X Nat : ss[1] < ss[2]}  BY Zenon DEF OpToRel
<1>2. PICK i \in S : \A j \in S : ~ (<<j, i>> \in OpToRel(<, Nat))
  BY NatLessThanWellFounded, WFMin, Zenon
<1>3. ASSUME NEW j \in S PROVE i <= j
  <2>1. <<j, i>> \in Nat \X Nat /\ <<j, i>>[1] = j /\ <<j, i>>[2] = i  OBVIOUS
  <2>2. ~ (<<j, i>>[1] < <<j, i>>[2])  BY <1>1, <1>2, <2>1, Zenon
  <2> QED  BY <2>1, <2>2
<1> QED  BY <1>3

\* The loops of merge: turn by turn, how many elements of leftArr are copied.
Turn(f, a, b, k) == IF FromLeft(a, b, f[k - 1], k - 1 - f[k - 1]) THEN f[k - 1] + 1 ELSE f[k - 1]

IsTaken(f, a, b, m) == f = [k \in 0 .. m |-> IF k = 0 THEN 0 ELSE Turn(f, a, b, k)]

Merged(f, a, b, m) == [k \in 1 .. m |-> IF f[k] > f[k - 1] THEN a[f[k]] ELSE b[k - f[k]]]

\* The recursive function of the loops exists: the least count it could fail at.
LEMMA TakenExists ==
  ASSUME NEW a, NEW b, NEW m \in Nat
  PROVE  \E f : IsTaken(f, a, b, m)
<1> DEFINE Without == {k \in 0 .. m : ~\E f : IsTaken(f, a, b, k)}
<1> SUFFICES ASSUME Without # {} PROVE FALSE  OBVIOUS
<1>1. PICK i \in Without : \A j \in Without : i <= j
  <2>1. Without \in SUBSET Nat  OBVIOUS
  <2> QED  BY <2>1, LeastOf
<1>2. i # 0
  <2>1. IsTaken([k \in 0 .. 0 |-> 0], a, b, 0)  BY DEF IsTaken
  <2> QED  BY <2>1
<1>3. i - 1 \in 0 .. m /\ i - 1 < i  BY <1>2
<1>4. PICK f : IsTaken(f, a, b, i - 1)  BY <1>1, <1>3
<1> DEFINE g == [k \in 0 .. i |-> IF k = 0 THEN 0 ELSE Turn(f, a, b, k)]
<1>5. \A k \in 0 .. i - 1 : g[k] = f[k]  BY <1>3, <1>4 DEF IsTaken
<1>6. g = [k \in 0 .. i |-> IF k = 0 THEN 0 ELSE Turn(g, a, b, k)]
  <2>1. \A k \in 0 .. i : k # 0 => k - 1 \in 0 .. i - 1  BY <1>3
  <2>2. \A k \in 0 .. i : k # 0 => Turn(g, a, b, k) = Turn(f, a, b, k)  BY <1>5, <2>1 DEF Turn
  <2> QED  BY <2>2
<1> QED  BY <1>1, <1>6 DEF IsTaken

\* merge as a sequence, without the recursion.
LEMMA MergeIs ==
  ASSUME NEW a, NEW b, NEW m \in Nat, Len(a) + Len(b) = m
  PROVE  \E f : IsTaken(f, a, b, m) /\ Merge(a, b) = Merged(f, a, b, m)
<1> DEFINE taken(f) == f = [k \in 0 .. Len(a) + Len(b) |->
             IF k = 0 THEN 0
             ELSE LET i == f[k - 1] IN IF FromLeft(a, b, i, k - 1 - i) THEN i + 1 ELSE i]
           merged(f) == [k \in 1 .. Len(a) + Len(b) |-> IF f[k] > f[k - 1] THEN a[f[k]] ELSE b[k - f[k]]]
<1>1. Merge(a, b) = merged(CHOOSE f : taken(f))  BY Zenon DEF Merge
<1>2. \A f : taken(f) <=> IsTaken(f, a, b, m)  BY DEF IsTaken, Turn
<1>3. \A f : merged(f) = Merged(f, a, b, m)  BY DEF Merged
<1> HIDE DEF taken, merged
<1>4. taken(CHOOSE f : taken(f))  BY <1>2, TakenExists, Zenon
<1> QED  BY <1>1, <1>2, <1>3, <1>4, Zenon

\* The loops stay within both arrays, and come to their ends.
LEMMA TakenBounds ==
  ASSUME NEW a \in Seq(Int), NEW b \in Seq(Int), NEW m \in Nat, Len(a) + Len(b) = m,
         NEW f, IsTaken(f, a, b, m)
  PROVE  /\ \A k \in 0 .. m : f[k] \in 0 .. Len(a) /\ k - f[k] \in 0 .. Len(b)
         /\ f[0] = 0 /\ f[m] = Len(a)
         /\ \A k \in 1 .. m : f[k] = Turn(f, a, b, k)
<1>0. \A k \in 0 .. m : f[k] = IF k = 0 THEN 0 ELSE Turn(f, a, b, k)  BY DEF IsTaken
<1>1. f[0] = 0 /\ \A k \in 1 .. m : f[k] = Turn(f, a, b, k)
  <2>1. 0 \in 0 .. m /\ \A k \in 1 .. m : k \in 0 .. m /\ k # 0  OBVIOUS
  <2> HIDE DEF Turn
  <2> QED  BY <1>0, <2>1
<1>2. PICK la \in Nat, lb \in Nat : la = Len(a) /\ lb = Len(b)  OBVIOUS
<1> DEFINE Out == {k \in 0 .. m : ~(f[k] \in 0 .. la /\ k - f[k] \in 0 .. lb)}
<1>3. Out = {}
  <2> SUFFICES ASSUME Out # {} PROVE FALSE  OBVIOUS
  <2>1. PICK i \in Out : \A j \in Out : i <= j
    <3>1. Out \in SUBSET Nat  OBVIOUS
    <3> QED  BY <3>1, LeastOf
  <2>2. i # 0  BY <1>1, <1>2
  <2>3. i \in 1 .. m /\ i - 1 \in 0 .. m /\ i - 1 < i  BY <2>2
  <2>4. f[i - 1] \in 0 .. la /\ i - 1 - f[i - 1] \in 0 .. lb
    <3>1. i - 1 \notin Out  BY <2>1, <2>3
    <3> QED  BY <2>3, <3>1
  <2>a. PICK h \in 0 .. la, r \in 0 .. lb : h = f[i - 1] /\ r = i - 1 - h  BY <2>4
  <2>5. f[i] = IF FromLeft(a, b, h, r) THEN h + 1 ELSE h
    <3>1. f[i] = Turn(f, a, b, i)  BY <1>1, <2>3
    <3> QED  BY <2>a, <3>1 DEF Turn
  <2>6. FromLeft(a, b, h, r) => h < la  BY <1>2 DEF FromLeft
  <2>7. ~FromLeft(a, b, h, r) => h >= la \/ r < lb  BY <1>2 DEF FromLeft
  <2>8. i = h + r + 1 /\ h + r + 1 <= la + lb
    <3>1. i \in Int /\ i <= la + lb /\ i - 1 - h = r  BY <1>2, <2>3, <2>a
    <3> QED  BY <3>1
  <2>9. f[i] \in 0 .. la /\ i - f[i] \in 0 .. lb
    <3>1. CASE FromLeft(a, b, h, r)
      <4>1. f[i] = h + 1 /\ h < la  BY <2>5, <2>6, <3>1
      <4>2. h + 1 \in 0 .. la /\ i - (h + 1) = r  BY <2>8, <4>1
      <4> QED  BY <4>1, <4>2
    <3>2. CASE ~FromLeft(a, b, h, r)
      <4>1. f[i] = h /\ (h >= la \/ r < lb)  BY <2>5, <2>7, <3>2
      <4>2. i - h = r + 1 /\ r + 1 <= lb  BY <2>8, <4>1
      <4> QED  BY <4>1, <4>2
    <3> QED  BY <3>1, <3>2
  <2> QED  BY <2>9
<1>4. f[m] = la
  <2>1. f[m] \in 0 .. la /\ m - f[m] \in 0 .. lb  BY <1>3
  <2> QED  BY <1>2, <2>1
<1> QED  BY <1>1, <1>2, <1>3, <1>4

\* How often v is among the first n elements.
Upto(s, v, n) == Cardinality({i \in 1 .. n : s[i] = v})

OneIf(true) == IF true THEN 1 ELSE 0

\* Counting one place further.
LEMMA UptoStep ==
  ASSUME NEW s, NEW v, NEW n \in Nat
  PROVE  /\ Upto(s, v, n) \in Nat
         /\ Upto(s, v, 0) = 0
         /\ Upto(s, v, n + 1) = Upto(s, v, n) + OneIf(s[n + 1] = v)
<1> DEFINE Places(k) == {i \in 1 .. k : s[i] = v}
<1>1. IsFiniteSet(Places(n)) /\ Cardinality(Places(n)) \in Nat
  <2>1. IsFiniteSet(1 .. n)  BY FS_Interval
  <2>2. Places(n) \in SUBSET (1 .. n)  OBVIOUS
  <2> QED  BY <2>1, <2>2, FS_Subset, FS_CardinalityType
<1>2. Places(0) = {}  OBVIOUS
<1>3. Places(n + 1) = IF s[n + 1] = v THEN Places(n) \cup {n + 1} ELSE Places(n)  OBVIOUS
<1>4. n + 1 \notin Places(n)  OBVIOUS
<1>5. Cardinality(Places(n + 1)) = Cardinality(Places(n)) + OneIf(s[n + 1] = v)
  <2>1. Cardinality(Places(n) \cup {n + 1}) = Cardinality(Places(n)) + 1
    BY <1>1, <1>4, FS_AddElement, Zenon
  <2> HIDE DEF Places
  <2> QED  BY <1>1, <1>3, <2>1 DEF OneIf
<1>6. Cardinality({}) = 0  BY FS_EmptySet
<1> QED  BY <1>1, <1>2, <1>5, <1>6, Zenon DEF Upto

\* Counting to the end.
LEMMA CountIsUpto == \A s, v : Count(s, v) = Upto(s, v, Len(s))
BY DEF Count, Upto

\* A sequence in two parts.
LEMMA UptoSplit ==
  ASSUME NEW s, NEW t, NEW v, NEW h \in Nat, NEW n \in Nat,
         \A i \in 1 .. n : t[i] = s[h + i], NEW w \in Nat, w = h + n
  PROVE  Upto(s, v, w) = Upto(s, v, h) + Upto(t, v, n)
<1> DEFINE Bad == {k \in 0 .. n : Upto(s, v, h + k) # Upto(s, v, h) + Upto(t, v, k)}
<1> SUFFICES ASSUME Bad # {} PROVE FALSE  OBVIOUS
<1>1. PICK i \in Bad : \A j \in Bad : i <= j
  <2>1. Bad \in SUBSET Nat  OBVIOUS
  <2> QED  BY <2>1, LeastOf
<1>2. i # 0
  <2>1. Upto(s, v, h) \in Nat /\ Upto(t, v, 0) = 0  BY UptoStep
  <2>2. h + 0 = h /\ Upto(s, v, h) + 0 = Upto(s, v, h)  BY <2>1
  <2> QED  BY <2>1, <2>2
<1>3. PICK k \in 0 .. n - 1 : i = k + 1
  <2>1. i - 1 \in 0 .. n - 1 /\ i = i - 1 + 1  BY <1>2
  <2> QED  BY <2>1
<1>4. k \in Nat /\ h + k \in Nat /\ k + 1 \in 1 .. n /\ h + (k + 1) = h + k + 1  BY <1>3
<1>5. Upto(s, v, h + k) = Upto(s, v, h) + Upto(t, v, k)
  <2>1. k \notin Bad  BY <1>1, <1>3
  <2> QED  BY <1>3, <2>1
<1>6. t[k + 1] = s[h + k + 1]  BY <1>4
<1>7. PICK x \in Nat, y \in Nat, z \in Nat, d \in {0, 1} :
        /\ x = Upto(s, v, h + k) /\ y = Upto(s, v, h) /\ z = Upto(t, v, k)
        /\ Upto(s, v, h + k + 1) = x + d /\ Upto(t, v, k + 1) = z + d
  <2> DEFINE d == OneIf(t[k + 1] = v)
  <2>1. Upto(s, v, h + k) \in Nat /\ Upto(s, v, h + k + 1) = Upto(s, v, h + k) + d
    BY <1>4, <1>6, UptoStep
  <2>2. Upto(t, v, k) \in Nat /\ Upto(t, v, k + 1) = Upto(t, v, k) + d  BY <1>4, UptoStep
  <2>3. Upto(s, v, h) \in Nat /\ d \in {0, 1}  BY UptoStep DEF OneIf
  <2> HIDE DEF d
  <2> QED  BY <2>1, <2>2, <2>3
<1>8. Upto(s, v, h + i) = Upto(s, v, h) + Upto(t, v, i)
  <2>1. x = y + z /\ x + d = y + (z + d)  BY <1>5, <1>7
  <2> QED  BY <1>3, <1>4, <1>7, <2>1
<1> QED  BY <1>8

\* The same value appended on both sides.
LEMMA OneMore ==
  ASSUME NEW r, NEW s, NEW v, NEW k \in Nat, NEW h \in Nat, NEW c \in Nat,
         Upto(r, v, k) = Upto(s, v, h) + c, r[k + 1] = s[h + 1]
  PROVE  Upto(r, v, k + 1) = Upto(s, v, h + 1) + c
<1>1. Upto(r, v, k + 1) = Upto(r, v, k) + OneIf(r[k + 1] = v)  BY UptoStep
<1>2. Upto(s, v, h) \in Nat /\ Upto(s, v, h + 1) = Upto(s, v, h) + OneIf(s[h + 1] = v)  BY UptoStep
<1>3. PICK d \in {0, 1} : d = OneIf(s[h + 1] = v) /\ d = OneIf(r[k + 1] = v)  BY DEF OneIf
<1> QED  BY <1>1, <1>2, <1>3

\* A turn takes the next of leftArr or the next of rightArr.
Turned(f, a, b, r, k) ==
  \E h \in 0 .. Len(a), g \in 0 .. Len(b) :
    /\ f[k - 1] = h /\ g = k - 1 - h
    /\ \/ FromLeft(a, b, h, g) /\ f[k] = h + 1 /\ h + 1 <= Len(a) /\ r[k] = a[h + 1]
       \/ ~FromLeft(a, b, h, g) /\ f[k] = h /\ g + 1 <= Len(b) /\ r[k] = b[g + 1]

\* Each turn of the loops takes the next value of one of the two sides.
LEMMA MergeTurn ==
  ASSUME NEW a \in Seq(Int), NEW b \in Seq(Int), NEW m \in Nat, Len(a) + Len(b) = m,
         NEW f, IsTaken(f, a, b, m), NEW r, r = Merged(f, a, b, m), NEW k \in 1 .. m
  PROVE  Turned(f, a, b, r, k)
<1>l. PICK la \in Nat, lb \in Nat : la = Len(a) /\ lb = Len(b)  OBVIOUS
<1>1. k - 1 \in 0 .. m /\ k \in 0 .. m  OBVIOUS
<1>b. /\ \A j \in 0 .. m : f[j] \in 0 .. la /\ j - f[j] \in 0 .. lb
      /\ \A j \in 1 .. m : f[j] = Turn(f, a, b, j)
  BY <1>l, TakenBounds
<1>c. f[k - 1] \in 0 .. la /\ k - 1 - f[k - 1] \in 0 .. lb  BY <1>1, <1>b
<1>2. PICK h \in 0 .. la, g \in 0 .. lb : f[k - 1] = h /\ k - 1 - h = g  BY <1>c
<1>3. f[k] = IF FromLeft(a, b, h, g) THEN h + 1 ELSE h  BY <1>b, <1>2 DEF Turn
<1>4. f[k] \in 0 .. la /\ k - f[k] \in 0 .. lb  BY <1>1, <1>b
<1>5. r[k] = IF f[k] > f[k - 1] THEN a[f[k]] ELSE b[k - f[k]]  BY DEF Merged
<1> SUFFICES /\ f[k - 1] = h /\ g = k - 1 - h
              /\ \/ FromLeft(a, b, h, g) /\ f[k] = h + 1 /\ h + 1 <= la /\ r[k] = a[h + 1]
                 \/ ~FromLeft(a, b, h, g) /\ f[k] = h /\ g + 1 <= lb /\ r[k] = b[g + 1]
  BY <1>l DEF Turned
<1>6. CASE FromLeft(a, b, h, g)
  <2>1. f[k] = h + 1 /\ f[k] > f[k - 1]  BY <1>2, <1>3, <1>6
  <2>2. r[k] = a[h + 1] /\ h + 1 <= la  BY <1>4, <1>5, <2>1
  <2> QED  BY <1>2, <1>6, <2>1, <2>2
<1>7. CASE ~FromLeft(a, b, h, g)
  <2>1. f[k] = h /\ ~(f[k] > f[k - 1]) /\ k - f[k] = g + 1  BY <1>2, <1>3, <1>7
  <2>2. r[k] = b[g + 1] /\ g + 1 <= lb  BY <1>4, <1>5, <2>1
  <2> QED  BY <1>2, <1>7, <2>1, <2>2
<1> QED  BY <1>6, <1>7

\* merge leaves all the numbers of both arrays, each as often as it was there.
LEMMA MergeCount ==
  ASSUME NEW a \in Seq(Int), NEW b \in Seq(Int), NEW v
  PROVE  /\ Len(Merge(a, b)) = Len(a) + Len(b)
         /\ Count(Merge(a, b), v) = Count(a, v) + Count(b, v)
<1>1. PICK la \in Nat, lb \in Nat, m \in Nat : la = Len(a) /\ lb = Len(b) /\ m = la + lb
  <2>1. Len(a) \in Nat /\ Len(b) \in Nat /\ Len(a) + Len(b) \in Nat  OBVIOUS
  <2> QED  BY <2>1
<1>2. PICK f : IsTaken(f, a, b, m) /\ Merge(a, b) = Merged(f, a, b, m)  BY <1>1, MergeIs
<1>3. f[0] = 0 /\ f[m] = la  BY <1>1, <1>2, TakenBounds
<1>4. PICK r : r = Merged(f, a, b, m)  OBVIOUS
<1>5. Len(r) = m  BY <1>4 DEF Merged
<1>6. ASSUME NEW k \in 1 .. m
      PROVE  \E h \in 0 .. la, g \in 0 .. lb :
               /\ f[k - 1] = h /\ g = k - 1 - h
               /\ \/ f[k] = h + 1 /\ r[k] = a[h + 1]
                  \/ f[k] = h /\ r[k] = b[g + 1]
  <2>1. Len(a) + Len(b) = m  BY <1>1
  <2>2. Turned(f, a, b, r, k)  BY <1>2, <1>4, <2>1, MergeTurn, Zenon
  <2> QED  BY <1>1, <2>2 DEF Turned
<1> DEFINE Bad == {k \in 0 .. m : Upto(r, v, k) # Upto(a, v, f[k]) + Upto(b, v, k - f[k])}
<1>7. Bad = {}
  <2> SUFFICES ASSUME Bad # {} PROVE FALSE  OBVIOUS
  <2>1. PICK i \in Bad : \A j \in Bad : i <= j
    <3>1. Bad \in SUBSET Nat  OBVIOUS
    <3> QED  BY <3>1, LeastOf
  <2>2. i # 0
    <3>1. Upto(r, v, 0) = 0 /\ Upto(a, v, 0) = 0 /\ Upto(b, v, 0) = 0  BY UptoStep
    <3>2. 0 - f[0] = 0 /\ f[0] = 0  BY <1>3
    <3> QED  BY <3>1, <3>2
  <2>3. i \in 1 .. m /\ i - 1 \in 0 .. m /\ i - 1 < i  BY <2>2
  <2>4. PICK h \in 0 .. la, g \in 0 .. lb :
          /\ f[i - 1] = h /\ g = i - 1 - h
          /\ \/ f[i] = h + 1 /\ r[i] = a[h + 1]
             \/ f[i] = h /\ r[i] = b[g + 1]
    BY <1>6, <2>3
  <2>5. PICK k \in Nat : k = i - 1  BY <2>3
  <2>6. i = k + 1 /\ h \in Nat /\ g \in Nat  BY <2>3, <2>5
  <2>7. Upto(r, v, k) = Upto(a, v, h) + Upto(b, v, g)
    <3>1. k \notin Bad /\ k \in 0 .. m  BY <2>1, <2>3, <2>5
    <3> QED  BY <2>4, <2>5, <3>1
  <2>8. PICK y \in Nat, z \in Nat : y = Upto(a, v, h) /\ z = Upto(b, v, g)  BY <2>6, UptoStep
  <2>9. CASE f[i] = h + 1 /\ r[i] = a[h + 1]
    <3>1. Upto(r, v, k + 1) = Upto(a, v, h + 1) + z  BY <2>6, <2>7, <2>8, <2>9, OneMore
    <3>2. i - f[i] = g  BY <2>4, <2>9
    <3> QED  BY <2>6, <2>8, <2>9, <3>1, <3>2
  <2>10. CASE f[i] = h /\ r[i] = b[g + 1]
    <3>1. Upto(r, v, k) = Upto(b, v, g) + y  BY <2>7, <2>8
    <3>2. r[k + 1] = b[g + 1] /\ g \in Nat  BY <2>6, <2>10
    <3>a. Upto(r, v, k + 1) = Upto(b, v, g + 1) + y  BY <3>1, <3>2, OneMore
    <3>3. Upto(b, v, g + 1) \in Nat
      <4>1. \A n \in Nat : Upto(b, v, n) \in Nat  BY UptoStep
      <4>2. g + 1 \in Nat  BY <2>6
      <4> QED  BY <4>1, <4>2, Zenon
    <3>4. Upto(r, v, k + 1) = y + Upto(b, v, g + 1)  BY <3>a, <3>3
    <3>5. i - f[i] = g + 1  BY <2>4, <2>10
    <3> QED  BY <2>6, <2>8, <2>10, <3>4, <3>5
  <2> QED  BY <2>4, <2>9, <2>10
<1>8. Upto(r, v, m) = Upto(a, v, la) + Upto(b, v, lb)
  <2>1. m \in 0 .. m /\ m - f[m] = lb /\ f[m] = la  BY <1>1, <1>3
  <2> QED  BY <1>7, <2>1
<1> QED  BY <1>1, <1>2, <1>4, <1>5, <1>8, CountIsUpto

\* What merge makes of two sorted sequences is sorted, and has their values.
LEMMA MergeSorted ==
  ASSUME NEW a \in Seq(Int), NEW b \in Seq(Int)
  PROVE  /\ \A S \in SUBSET Int : a \in Seq(S) /\ b \in Seq(S) => Merge(a, b) \in Seq(S)
         /\ IsSorted(a) /\ IsSorted(b) => IsSorted(Merge(a, b))
<1>1. PICK la \in Nat, lb \in Nat, m \in Nat : la = Len(a) /\ lb = Len(b) /\ m = la + lb
  <2>1. Len(a) \in Nat /\ Len(b) \in Nat /\ Len(a) + Len(b) \in Nat  OBVIOUS
  <2> QED  BY <2>1
<1>2. PICK f : IsTaken(f, a, b, m) /\ Merge(a, b) = Merged(f, a, b, m)  BY <1>1, MergeIs
<1>3. PICK r : r = Merged(f, a, b, m)  OBVIOUS
<1>4. Len(r) = m  BY <1>3 DEF Merged
<1>5. ASSUME NEW k \in 1 .. m
      PROVE  \E h \in 0 .. la, g \in 0 .. lb :
               /\ f[k - 1] = h /\ g = k - 1 - h
               /\ \/ FromLeft(a, b, h, g) /\ f[k] = h + 1 /\ h + 1 <= la /\ r[k] = a[h + 1]
                  \/ ~FromLeft(a, b, h, g) /\ f[k] = h /\ g + 1 <= lb /\ r[k] = b[g + 1]
  <2>1. Len(a) + Len(b) = m  BY <1>1
  <2>2. Turned(f, a, b, r, k)  BY <1>2, <1>3, <2>1, MergeTurn, Zenon
  <2> QED  BY <1>1, <2>2 DEF Turned
<1>6. ASSUME NEW S \in SUBSET Int, a \in Seq(S), b \in Seq(S) PROVE r \in Seq(S)
  <2>1. \A k \in 1 .. m : r[k] \in S
    <3> TAKE k \in 1 .. m
    <3>1. PICK h \in 0 .. la, g \in 0 .. lb :
               \/ h + 1 <= la /\ r[k] = a[h + 1]
               \/ g + 1 <= lb /\ r[k] = b[g + 1]
      BY <1>5
    <3>2. h + 1 <= la => a[h + 1] \in S  BY <1>1, <1>6
    <3>3. g + 1 <= lb => b[g + 1] \in S  BY <1>1, <1>6
    <3> QED  BY <3>1, <3>2, <3>3
  <2>2. r = [k \in 1 .. m |-> r[k]]  BY <1>3 DEF Merged
  <2>3. r \in [1 .. m -> S]  BY <2>1, <2>2
  <2> QED  BY <2>3, SeqDef
<1>7. ASSUME IsSorted(a), IsSorted(b), NEW k \in 1 .. m - 1 PROVE r[k] <= r[k + 1]
  <2>1. k \in 1 .. m /\ k + 1 \in 1 .. m /\ k + 1 - 1 = k  OBVIOUS
  <2>2. PICK h \in 0 .. la, g \in 0 .. lb :
          /\ g = k - 1 - h
          /\ \/ FromLeft(a, b, h, g) /\ f[k] = h + 1 /\ h + 1 <= la /\ r[k] = a[h + 1]
             \/ ~FromLeft(a, b, h, g) /\ f[k] = h /\ g + 1 <= lb /\ r[k] = b[g + 1]
    BY <1>5, <2>1
  <2>3. PICK x \in 0 .. la, y \in 0 .. lb :
          /\ f[k] = x /\ y = k - x
          /\ \/ x + 1 <= la /\ r[k + 1] = a[x + 1]
             \/ y + 1 <= lb /\ r[k + 1] = b[y + 1]
    <3>1. PICK x \in 0 .. la, y \in 0 .. lb :
            /\ f[k + 1 - 1] = x /\ y = k + 1 - 1 - x
            /\ \/ x + 1 <= la /\ r[k + 1] = a[x + 1]
               \/ y + 1 <= lb /\ r[k + 1] = b[y + 1]
      <4> DEFINE K == k + 1
      <4>1. K \in 1 .. m  BY <2>1
      <4> HIDE DEF K
      <4>2. PICK x \in 0 .. la, y \in 0 .. lb :
            /\ f[K - 1] = x /\ y = K - 1 - x
            /\ \/ x + 1 <= la /\ r[K] = a[x + 1]
               \/ y + 1 <= lb /\ r[K] = b[y + 1]
        BY <1>5, <4>1
      <4> USE DEF K
      <4> QED  BY <4>2
    <3> QED  BY <2>1, <3>1
  <2>4. /\ \A i \in 1 .. la : a[i] \in Int
        /\ \A i \in 1 .. lb : b[i] \in Int
        /\ \A i \in Int : 1 <= i /\ i + 1 <= la => a[i] <= a[i + 1]
        /\ \A i \in Int : 1 <= i /\ i + 1 <= lb => b[i] <= b[i + 1]
    BY <1>1, <1>7 DEF IsSorted
  <2>5. FromLeft(a, b, h, g) <=> h < la /\ (g < lb => a[h + 1] <= b[g + 1])
    BY <1>1 DEF FromLeft
  <2> HIDE DEF FromLeft
  <2>6. CASE FromLeft(a, b, h, g) /\ f[k] = h + 1 /\ h + 1 <= la /\ r[k] = a[h + 1]
    <3>1. x = h + 1 /\ y = g  BY <2>2, <2>3, <2>6
    <3>2. CASE x + 1 <= la /\ r[k + 1] = a[x + 1]
      <4>1. h + 1 \in Int /\ 1 <= h + 1 /\ h + 1 + 1 <= la  BY <3>1, <3>2
      <4> QED  BY <2>4, <2>6, <3>1, <3>2, <4>1
    <3>3. CASE y + 1 <= lb /\ r[k + 1] = b[y + 1]
      <4>1. g < lb  BY <3>1, <3>3
      <4> QED  BY <2>5, <2>6, <3>1, <3>3, <4>1
    <3> QED  BY <2>3, <3>2, <3>3
  <2>7. CASE ~FromLeft(a, b, h, g) /\ f[k] = h /\ g + 1 <= lb /\ r[k] = b[g + 1]
    <3>1. x = h /\ y = g + 1  BY <2>2, <2>3, <2>7
    <3>2. CASE x + 1 <= la /\ r[k + 1] = a[x + 1]
      <4>1. h < la /\ g < lb /\ h + 1 \in 1 .. la /\ g + 1 \in 1 .. lb  BY <2>7, <3>1, <3>2
      <4>2. ~(a[h + 1] <= b[g + 1]) /\ a[h + 1] \in Int /\ b[g + 1] \in Int  BY <2>4, <2>5, <2>7, <4>1
      <4> QED  BY <2>7, <3>1, <3>2, <4>2
    <3>3. CASE y + 1 <= lb /\ r[k + 1] = b[y + 1]
      <4>1. g + 1 \in Int /\ 1 <= g + 1 /\ g + 1 + 1 <= lb  BY <3>1, <3>3
      <4> QED  BY <2>4, <2>7, <3>1, <3>3, <4>1
    <3> QED  BY <2>3, <3>2, <3>3
  <2> QED  BY <2>2, <2>6, <2>7
<1>8. IsSorted(a) /\ IsSorted(b) => IsSorted(r)  BY <1>4, <1>7 DEF IsSorted
<1> QED  BY <1>2, <1>3, <1>6, <1>8

----------------------------------------------------------------------------
(* Merge sort: what a process holds of the array.                          *)

\* The part of the input that p has to sort.
Part(p)      == SubSeq(ms_input, p[1] + 1, p[2] + 1)
NobodyFailed == \A p \in Segment : ms_pc[p] # "failed"

ArrTypes ==
  /\ ms_input \in [1 .. SIZE -> Value]
  /\ ms_arr \in [Segment -> Seq(Value)]

\* Whatever happens, a process holds the numbers of its part.
HoldsPart ==
  \A p \in Segment :
    Started(p) => /\ Len(ms_arr[p]) = p[2] - p[1] + 1
                  /\ \A v \in Value : Count(ms_arr[p], v) = Count(Part(p), v)

\* Until the halves are merged, in the order of the input.
AsGiven ==
  \A p \in Segment : ms_pc[p] \in {"fork_left", "fork_right", "wait", "read"} => ms_arr[p] = Part(p)

InOrder ==
  \A p \in Segment : ms_pc[p] \in {"sorted", "exited"} /\ NobodyFailed => IsSorted(ms_arr[p])

\* A pipe holds what its writer has when it has exited, and nothing before.
PipeHolds ==
  \A p \in Segment :
    /\ ms_pc[p] = "exited" /\ p # Root => ms_pipe[p] = ms_arr[p]
    /\ ms_pc[p] # "exited" => ms_pipe[p] = <<>>

\* Whoever waits has started both halves, whoever reads has seen both end.
HalvesThere ==
  \A p \in Segment :
    /\ ms_pc[p] \in {"fork_right", "wait", "read"} => Started(Left(p))
    /\ ms_pc[p] \in {"wait", "read"} => Started(Right(p))
    /\ ms_pc[p] = "read" => ~Running(Left(p)) /\ ~Running(Right(p))

SortIInv == ArrTypes /\ HoldsPart /\ AsGiven /\ InOrder /\ PipeHolds /\ HalvesThere

\* The part of the input that a segment stands for.
LEMMA PartIs ==
  ASSUME ms_input \in [1 .. SIZE -> Value], NEW p \in Segment
  PROVE  /\ Part(p) \in Seq(Value)
         /\ Len(Part(p)) = p[2] - p[1] + 1
         /\ \A i \in 1 .. p[2] - p[1] + 1 : Part(p)[i] = ms_input[p[1] + i]
<1>1. PICK a \in Int, b \in Int : a = p[1] /\ b = p[2] /\ 0 <= a /\ a <= b /\ b + 1 <= SIZE
  <2>1. SIZE \in Nat /\ p[1] \in 0 .. SIZE - 1 /\ p[2] \in 0 .. SIZE - 1 /\ p[1] <= p[2]
    BY MergeSortAssumption DEF Segment
  <2>2. p[1] \in Int /\ p[2] \in Int /\ 0 <= p[1] /\ p[2] + 1 <= SIZE  BY <2>1
  <2> QED  BY <2>1, <2>2
<1>2. SIZE \in Nat  BY MergeSortAssumption
<1>3. a + 1 \in Int /\ b + 1 \in Int /\ \A i \in a + 1 .. b + 1 : ms_input[i] \in Value
  BY <1>1, <1>2
<1> DEFINE part == SubSeq(ms_input, a + 1, b + 1)
<1>4. /\ part \in Seq(Value)
      /\ Len(part) = IF a + 1 <= b + 1 THEN b + 1 - (a + 1) + 1 ELSE 0
      /\ \A i \in 1 .. b + 1 - (a + 1) + 1 : part[i] = ms_input[a + 1 + i - 1]
  BY <1>3, SubSeqProperties
<1> HIDE DEF part
<1>5. b + 1 - (a + 1) + 1 = b - a + 1 /\ a + 1 <= b + 1  BY <1>1
<1>6. \A i \in Int : a + 1 + i - 1 = a + i  OBVIOUS
<1>7. Len(part) = b - a + 1  BY <1>4, <1>5
<1>8. \A i \in 1 .. b - a + 1 : part[i] = ms_input[a + i]
  <2> TAKE i \in 1 .. b - a + 1
  <2>1. part[i] = ms_input[a + 1 + i - 1]  BY <1>4, <1>5
  <2>2. a + 1 + i - 1 = a + i  BY <1>1
  <2> QED  BY <2>1, <2>2
<1>9. Part(p) = part  BY <1>1 DEF Part, part
<1> QED  BY <1>1, <1>4, <1>7, <1>8, <1>9

\* A part of a part.
LEMMA SubSeqTwice ==
  ASSUME NEW S, NEW s \in Seq(S), NEW size \in Nat, Len(s) = size,
         NEW i \in Int, NEW j \in Int, NEW m \in Int, NEW n \in Int, NEW l \in Int, NEW h \in Int,
         1 <= i, i <= j, j <= size, 1 <= m, m <= n, n <= j - i + 1, l = i + m - 1, h = i + n - 1
  PROVE  SubSeq(SubSeq(s, i, j), m, n) = SubSeq(s, l, h)
<1>1. /\ i \in 1 .. size /\ j \in 1 .. size
      /\ m \in 1 .. j - i + 1 /\ n \in 1 .. j - i + 1
  OBVIOUS
<1> QED  BY <1>1, SubSeqOfSubSeq

\* A half of the part is the part of the half.
LEMMA HalfIsPart ==
  ASSUME ms_input \in [1 .. SIZE -> Value], NEW p \in Segment, NEW c \in Segment, Within(c, p),
         ms_arr[p] = Part(p)
  PROVE  Half(p, c) = Part(c)
<1>1. PICK a \in Int, b \in Int, x \in Int, y \in Int :
        /\ a = p[1] /\ b = p[2] /\ x = c[1] /\ y = c[2]
        /\ 0 <= a /\ a <= x /\ x <= y /\ y <= b /\ b + 1 <= SIZE
  <2>1. /\ SIZE \in Nat /\ p[1] \in 0 .. SIZE - 1 /\ p[2] \in 0 .. SIZE - 1
        /\ c[1] \in 0 .. SIZE - 1 /\ c[2] \in 0 .. SIZE - 1 /\ c[1] <= c[2]
        /\ p[1] <= c[1] /\ c[2] <= p[2]
    BY MergeSortAssumption DEF Segment, Within
  <2>2. p[1] \in Int /\ p[2] \in Int /\ c[1] \in Int /\ c[2] \in Int /\ 0 <= p[1] /\ p[2] + 1 <= SIZE
    BY <2>1
  <2> QED  BY <2>1, <2>2
<1>2. SIZE \in Nat /\ ms_input \in Seq(Value) /\ Len(ms_input) = SIZE  BY MergeSortAssumption
<1>3. PICK i \in Int, j \in Int, m \in Int, n \in Int, l \in Int, h \in Int :
        /\ i = a + 1 /\ j = b + 1 /\ l = x + 1 /\ h = y + 1
        /\ m = x - a + 1 /\ n = y - a + 1
  <2>1. /\ a + 1 \in Int /\ b + 1 \in Int /\ x + 1 \in Int /\ y + 1 \in Int
        /\ x - a + 1 \in Int /\ y - a + 1 \in Int
    OBVIOUS
  <2> QED  BY <2>1
<1>4. /\ 1 <= i /\ i <= j /\ j <= SIZE /\ 1 <= m /\ m <= n /\ n <= j - i + 1
      /\ l = i + m - 1 /\ h = i + n - 1
  <2>1. PICK size \in Int : size = SIZE  BY <1>2
  <2>2. 0 <= a /\ a <= x /\ x <= y /\ y <= b /\ b + 1 <= size  BY <1>1, <2>1
  <2> QED  BY <1>3, <2>1, <2>2
<1>5. Half(p, c) = SubSeq(SubSeq(ms_input, i, j), m, n)
  BY <1>1, <1>3 DEF Half, Part
<1>6. SubSeq(SubSeq(ms_input, i, j), m, n) = SubSeq(ms_input, l, h)
  BY <1>2, <1>4, SubSeqTwice
<1> QED  BY <1>1, <1>3, <1>5, <1>6 DEF Part

\* The numbers of a part are those of its halves.
LEMMA CountOfParts ==
  ASSUME ms_input \in [1 .. SIZE -> Value], NEW p \in Segment, p[1] < p[2], NEW v
  PROVE  Count(Part(p), v) = Count(Part(Left(p)), v) + Count(Part(Right(p)), v)
<1>1. Left(p) \in Segment /\ Right(p) \in Segment  BY HalvesBounds
<1>2. PICK a \in Int, b \in Int, d \in Int :
        /\ a = p[1] /\ b = p[2] /\ d = Left(p)[2] /\ a = Left(p)[1]
        /\ b = Right(p)[2] /\ d + 1 = Right(p)[1] /\ a <= d /\ d < b
  BY HalvesBounds, HalvesInt, SegmentBounds
<1>3. PICK h \in Nat, n \in Nat, m \in Nat :
         h = d - a + 1 /\ n = b - (d + 1) + 1 /\ m = b - a + 1 /\ m = h + n
  <2>1. d - a + 1 \in Nat /\ b - (d + 1) + 1 \in Nat /\ b - a + 1 \in Nat
    <3>1. d - a + 1 >= 0 /\ b - (d + 1) + 1 >= 0 /\ b - a + 1 >= 0  BY <1>2
    <3> QED  BY <3>1
  <2>2. b - a + 1 = (d - a + 1) + (b - (d + 1) + 1)  OBVIOUS
  <2> QED  BY <2>1, <2>2
<1>4. /\ Len(Part(p)) = m /\ \A i \in 1 .. m : Part(p)[i] = ms_input[a + i]
  BY <1>2, <1>3, PartIs
<1>5. /\ Len(Part(Left(p))) = h /\ \A i \in 1 .. h : Part(Left(p))[i] = ms_input[a + i]
  BY <1>1, <1>2, <1>3, PartIs
<1>6. /\ Len(Part(Right(p))) = n /\ \A i \in 1 .. n : Part(Right(p))[i] = ms_input[d + 1 + i]
  BY <1>1, <1>2, <1>3, PartIs
<1>7. \A i \in 1 .. h : Part(Left(p))[i] = Part(p)[0 + i]
  <2>1. \A i \in 1 .. h : i \in 1 .. m /\ 0 + i = i  BY <1>3
  <2> QED  BY <1>4, <1>5, <2>1
<1>8. \A i \in 1 .. n : Part(Right(p))[i] = Part(p)[h + i]
  <2> TAKE i \in 1 .. n
  <2>1. h + i \in 1 .. m  BY <1>3
  <2>2. a + (h + i) = d + 1 + i  BY <1>3
  <2>3. Part(p)[h + i] = ms_input[a + (h + i)]  BY <1>4, <2>1
  <2> QED  BY <1>6, <2>2, <2>3
<1>9. Upto(Part(p), v, h) = Upto(Part(p), v, 0) + Upto(Part(Left(p)), v, h)
  <2>1. h = 0 + h  OBVIOUS
  <2> QED  BY <1>7, <2>1, UptoSplit
<1>10. Upto(Part(p), v, m) = Upto(Part(p), v, h) + Upto(Part(Right(p)), v, n)
  <2>1. PICK s, t : s = Part(p) /\ t = Part(Right(p))  OBVIOUS
  <2>2. \A i \in 1 .. n : t[i] = s[h + i]  BY <1>8, <2>1
  <2>3. Upto(s, v, m) = Upto(s, v, h) + Upto(t, v, n)  BY <1>3, <2>2, UptoSplit
  <2> QED  BY <2>1, <2>3
<1>11. Upto(Part(p), v, 0) = 0  BY UptoStep
<1>12. Upto(Part(Left(p)), v, h) \in Nat  BY UptoStep
<1>13. Upto(Part(p), v, h) = Upto(Part(Left(p)), v, h)  BY <1>9, <1>11, <1>12
<1> QED  BY <1>3, <1>4, <1>5, <1>6, <1>10, <1>13, CountIsUpto

\* main begins with the whole of the input.
LEMMA MSInitSort == MSInit => SortIInv
<1> SUFFICES ASSUME MSInit PROVE SortIInv  OBVIOUS
<1>1. /\ Root \in Segment /\ Root[1] = 0 /\ Root[2] = SIZE - 1 /\ SIZE \in Nat \ {0}
      /\ ms_input \in [1 .. SIZE -> Value] /\ ms_input \in Seq(Value) /\ Len(ms_input) = SIZE
  BY MergeSortAssumption DEF MSInit, Root, Segment
<1>2. Part(Root) = ms_input
  <2>1. Part(Root) = SubSeq(ms_input, 1, SIZE)
    <3>1. 0 + 1 = 1 /\ SIZE - 1 + 1 = SIZE  BY <1>1
    <3> QED  BY <1>1, <3>1 DEF Part
  <2> QED  BY <1>1, <2>1, SubSeqFull
<1>3. /\ ms_pc[Root] = FirstStep(Root) /\ ms_arr[Root] = ms_input
      /\ \A q \in Segment : q # Root => ms_pc[q] = "none"
      /\ \A q \in Segment : ms_pipe[q] = <<>>
      /\ ArrTypes
  BY <1>1 DEF MSInit, ArrTypes
<1>4. FirstStep(Root) \in {"fork_left", "sorted"} /\ (FirstStep(Root) = "sorted" => ~(Root[1] < Root[2]))
  BY DEF FirstStep
<1>5. HoldsPart
  <2>1. SIZE = SIZE - 1 - 0 + 1  BY <1>1
  <2> QED  BY <1>1, <1>2, <1>3, <2>1 DEF HoldsPart, Started
<1>6. AsGiven  BY <1>2, <1>3 DEF AsGiven
<1>7. InOrder
  <2>1. FirstStep(Root) = "sorted" => IsSorted(ms_input)  BY <1>1, <1>4 DEF IsSorted
  <2> QED  BY <1>3, <1>4, <2>1 DEF InOrder
<1>8. PipeHolds  BY <1>3, <1>4 DEF PipeHolds
<1>9. HalvesThere  BY <1>3, <1>4 DEF HalvesThere
<1> QED  BY <1>3, <1>5, <1>6, <1>7, <1>8, <1>9 DEF SortIInv

\* A fork copies the array of the parent for its half.
LEMMA ForkSort ==
  ASSUME MSIInv, SortIInv, NEW p \in Segment, NEW c \in Segment, NEW here, NEW next,
         Fork(p, c, here, next),
         \/ c = Left(p) /\ here = "fork_left" /\ next = "fork_right"
         \/ c = Right(p) /\ here = "fork_right" /\ next = "wait"
  PROVE  SortIInv'
<1>1. /\ ms_pc[p] = here /\ ms_pc[c] = "none" /\ c # p
      /\ Within(c, p) /\ c # Root
      /\ \A q \in Segment : q # p /\ q # c => ms_pc'[q] = ms_pc[q]
      /\ ms_pc'[p] = next /\ ms_pc'[c] = FirstStep(c)
  BY ForkNew DEF Within
<1>2. /\ ms_arr' = [ms_arr EXCEPT ![c] = Half(p, c)]
      /\ ms_input' = ms_input /\ ms_pipe' = ms_pipe
  BY DEF Fork
<1>3. ArrTypes  BY DEF SortIInv
<1>4. Half(p, c) = Part(c)
  <2>1. ms_arr[p] = Part(p)  BY <1>1 DEF SortIInv, AsGiven
  <2> QED  BY <1>1, <1>3, <2>1, HalfIsPart DEF ArrTypes
<1>5. Part(c) \in Seq(Value) /\ Len(Part(c)) = c[2] - c[1] + 1
  BY <1>3, PartIs DEF ArrTypes
<1>6. /\ ArrTypes'
      /\ ms_arr'[c] = Part(c) /\ \A q \in Segment : q # c => ms_arr'[q] = ms_arr[q]
      /\ \A q \in Segment : Part(q)' = Part(q)
  BY <1>2, <1>3, <1>4, <1>5 DEF ArrTypes, Part
<1>7. FirstStep(c) \in {"fork_left", "sorted"} /\ (FirstStep(c) = "sorted" => ~(c[1] < c[2]))
  BY DEF FirstStep
<1>8. /\ \A q \in Segment : Started(q)' <=> Started(q) \/ q = c
      /\ \A q \in Segment : q # c => (Running(q)' => Running(q))
      /\ NobodyFailed' => NobodyFailed
  BY <1>1, <1>7 DEF Started, Running, NobodyFailed
<1>9. HoldsPart'  BY <1>5, <1>6, <1>8 DEF SortIInv, HoldsPart
<1>10. AsGiven'
  <2> SUFFICES ASSUME NEW q \in Segment, ms_pc'[q] \in {"fork_left", "fork_right", "wait", "read"}
               PROVE  ms_arr'[q] = Part(q)
    BY <1>6 DEF AsGiven
  <2>1. q = c \/ ms_pc[q] \in {"fork_left", "fork_right", "wait", "read"}  BY <1>1
  <2> QED  BY <2>1, <1>6 DEF SortIInv, AsGiven
<1>11. InOrder'
  <2> SUFFICES ASSUME NEW q \in Segment, ms_pc'[q] \in {"sorted", "exited"}, NobodyFailed'
               PROVE  IsSorted(ms_arr'[q])
    BY DEF InOrder, IsSorted
  <2>1. CASE q = c
    <3>1. ~(c[1] < c[2])  BY <2>1, <1>1, <1>7
    <3>2. PICK x \in Int, y \in Int : x = c[1] /\ y = c[2]  BY SegmentBounds
    <3>3. Len(Part(c)) \in Int /\ Len(Part(c)) <= 1  BY <3>1, <3>2, <1>5
    <3>4. IsSorted(Part(c))  BY <3>3 DEF IsSorted
    <3> QED  BY <2>1, <3>4, <1>6
  <2>2. CASE q # c
    <3>1. ms_pc[q] \in {"sorted", "exited"}  BY <2>2, <1>1
    <3> QED  BY <2>2, <3>1, <1>6, <1>8 DEF SortIInv, InOrder
  <2> QED  BY <2>1, <2>2
<1>12. PipeHolds'
  <2> SUFFICES ASSUME NEW q \in Segment
               PROVE  /\ ms_pc'[q] = "exited" /\ q # Root => ms_pipe'[q] = ms_arr'[q]
                      /\ ms_pc'[q] # "exited" => ms_pipe'[q] = <<>>
    BY DEF PipeHolds
  <2>1. ms_pc'[q] = "exited" <=> ms_pc[q] = "exited"  BY <1>1, <1>7
  <2>2. ms_pc[q] = "exited" => q # c  BY <1>1
  <2> QED  BY <2>1, <2>2, <1>2, <1>6 DEF SortIInv, PipeHolds
<1>13. HalvesThere'
  <2> SUFFICES ASSUME NEW q \in Segment
               PROVE  /\ ms_pc'[q] \in {"fork_right", "wait", "read"} => Started(Left(q))'
                      /\ ms_pc'[q] \in {"wait", "read"} => Started(Right(q))'
                      /\ ms_pc'[q] = "read" => ~Running(Left(q))' /\ ~Running(Right(q))'
    BY DEF HalvesThere, Left, Right, Mid, Started, Running
  <2>0. p[1] < p[2]  BY <1>1 DEF MSIInv, Forking
  <2>1. CASE q = c  BY <2>1, <1>1, <1>7
  <2>2. CASE q = p
    <3>1. Left(p) \in Segment /\ Right(p) \in Segment  BY <2>0, HalvesBounds
    <3>2. CASE c = Left(p) /\ here = "fork_left" /\ next = "fork_right"
      BY <2>2, <3>1, <3>2, <1>1, <1>8
    <3>3. CASE c = Right(p) /\ here = "fork_right" /\ next = "wait"
      <4>1. Started(Left(p))  BY <3>3, <1>1 DEF SortIInv, HalvesThere
      <4> QED  BY <2>2, <3>1, <3>3, <4>1, <1>1, <1>8
    <3> QED  BY <3>2, <3>3
  <2>3. CASE q # p /\ q # c /\ ms_pc[q] \in {"fork_right", "wait", "read"}
    <3>1. Left(q) \in Segment /\ Right(q) \in Segment  BY <2>3, HalvesBounds DEF MSIInv, Forking
    <3>2. ms_pc'[q] = ms_pc[q]  BY <2>3, <1>1
    <3>3. /\ Started(Left(q))
          /\ ms_pc[q] \in {"wait", "read"} => Started(Right(q))
          /\ ms_pc[q] = "read" => ~Running(Left(q)) /\ ~Running(Right(q))
      BY <2>3 DEF SortIInv, HalvesThere
    <3>4. \A x \in Segment : Started(x) => x # c  BY <1>1 DEF Started
    <3> QED  BY <3>1, <3>2, <3>3, <3>4, <1>8
  <2>4. CASE q # p /\ q # c /\ ms_pc[q] \notin {"fork_right", "wait", "read"}
    BY <2>4, <1>1
  <2> QED  BY <2>1, <2>2, <2>3, <2>4
<1> QED  BY <1>6, <1>9, <1>10, <1>11, <1>12, <1>13 DEF SortIInv

\* A step of p that leaves its segment as it is.
LEMMA MoveSort ==
  ASSUME MSIInv, SortIInv, NEW p \in Segment, NEW at \in {"read", "sorted", "exited", "failed"},
         Running(p), ms_pc' = [ms_pc EXCEPT ![p] = at], at # "sorted",
         at = "read" => ms_pc[p] = "wait" /\ Ended(p),
         at = "exited" => ms_pc[p] = "sorted",
         UNCHANGED <<ms_input, ms_arr>>,
         \/ ms_pipe' = ms_pipe /\ (at = "exited" => p = Root)
         \/ at = "exited" /\ ms_pipe' = [ms_pipe EXCEPT ![p] = ms_arr[p]]
  PROVE  SortIInv'
<1>1. /\ \A q \in Segment : q # p => ms_pc'[q] = ms_pc[q]
      /\ ms_pc'[p] = at /\ ms_pc[p] \notin {"none", "exited", "failed"}
  BY DEF MSIInv, MSTypes, Running
<1>2. ms_input' = ms_input /\ ms_arr' = ms_arr /\ \A q \in Segment : Part(q)' = Part(q)
  BY DEF Part
<1>3. /\ \A q \in Segment : Started(q)' <=> Started(q)
      /\ \A q \in Segment : Running(q)' => Running(q)
      /\ NobodyFailed' => NobodyFailed
  BY <1>1 DEF Started, Running, NobodyFailed
<1>4. ArrTypes'  BY <1>2 DEF SortIInv, ArrTypes
<1>5. HoldsPart'  BY <1>2, <1>3 DEF SortIInv, HoldsPart
<1>6. AsGiven'
  <2> SUFFICES ASSUME NEW q \in Segment, ms_pc'[q] \in {"fork_left", "fork_right", "wait", "read"}
               PROVE  ms_arr[q] = Part(q)
    BY <1>2 DEF AsGiven
  <2>1. ms_pc[q] \in {"fork_left", "fork_right", "wait", "read"}  BY <1>1
  <2> QED  BY <2>1 DEF SortIInv, AsGiven
<1>7. InOrder'
  <2> SUFFICES ASSUME NEW q \in Segment, ms_pc'[q] \in {"sorted", "exited"}, NobodyFailed'
               PROVE  IsSorted(ms_arr[q])
    BY <1>2 DEF InOrder, IsSorted
  <2>1. ms_pc[q] \in {"sorted", "exited"}  BY <1>1
  <2> QED  BY <2>1, <1>3 DEF SortIInv, InOrder
<1>8. PipeHolds'
  <2> SUFFICES ASSUME NEW q \in Segment
               PROVE  /\ ms_pc'[q] = "exited" /\ q # Root => ms_pipe'[q] = ms_arr[q]
                      /\ ms_pc'[q] # "exited" => ms_pipe'[q] = <<>>
    BY <1>2 DEF PipeHolds
  <2>1. q # p => ms_pipe'[q] = ms_pipe[q]  BY DEF MSIInv, MSTypes
  <2>2. CASE q # p  BY <2>1, <2>2, <1>1 DEF SortIInv, PipeHolds
  <2>3. CASE q = p /\ ms_pipe' = ms_pipe /\ (at = "exited" => p = Root)
    BY <2>3, <1>1 DEF SortIInv, PipeHolds
  <2>4. CASE q = p /\ at = "exited" /\ ms_pipe' = [ms_pipe EXCEPT ![p] = ms_arr[p]]
    BY <2>4, <1>1 DEF MSIInv, MSTypes
  <2> QED  BY <2>2, <2>3, <2>4
<1>9. HalvesThere'
  <2> SUFFICES ASSUME NEW q \in Segment, ms_pc'[q] \in {"fork_right", "wait", "read"}
               PROVE  /\ Started(Left(q))'
                      /\ ms_pc'[q] \in {"wait", "read"} => Started(Right(q))'
                      /\ ms_pc'[q] = "read" => ~Running(Left(q))' /\ ~Running(Right(q))'
    BY DEF HalvesThere, Left, Right, Mid, Started, Running
  <2>1. ms_pc[q] \in {"fork_right", "wait", "read"}  BY <1>1
  <2>2. Left(q) \in Segment /\ Right(q) \in Segment  BY <2>1, HalvesBounds DEF MSIInv, Forking
  <2>3. Started(Left(q)) /\ (ms_pc'[q] \in {"wait", "read"} => Started(Right(q)))
    BY <2>1, <1>1 DEF SortIInv, HalvesThere
  <2>4. ms_pc'[q] = "read" => ~Running(Left(q)) /\ ~Running(Right(q))
    <3>1. CASE q = p  BY <3>1, <1>1 DEF Ended
    <3>2. CASE q # p  BY <3>2, <1>1 DEF SortIInv, HalvesThere
    <3> QED  BY <3>1, <3>2
  <2> QED  BY <2>2, <2>3, <2>4, <1>3
<1> QED  BY <1>4, <1>5, <1>6, <1>7, <1>8, <1>9 DEF SortIInv

\* What read has come with of the half c of p.
Came(p, c) == IF ms_pipe[c] = <<>> THEN Half(p, c) ELSE ms_pipe[c]

\* What read has come with is a half with the values of that half.
LEMMA CameHolds ==
  ASSUME MSIInv, SortIInv, NEW p \in Segment, ms_pc[p] = "read",
         NEW c \in Segment, c = Left(p) \/ c = Right(p)
  PROVE  /\ Came(p, c) \in Seq(Value) /\ Len(Came(p, c)) = c[2] - c[1] + 1
         /\ \A v \in Value : Count(Came(p, c), v) = Count(Part(c), v)
         /\ NobodyFailed => IsSorted(Came(p, c))
<1>1. p[1] < p[2] /\ ArrTypes  BY DEF MSIInv, Forking, SortIInv
<1>2. Started(c) /\ ~Running(c)  BY DEF SortIInv, HalvesThere
<1>3. Within(c, p) /\ c # Root
  <2>1. /\ SIZE \in Nat /\ p[1] \in Int /\ p[2] \in Int /\ 0 <= p[1] /\ p[2] <= SIZE - 1
    BY MergeSortAssumption DEF Segment
  <2>2. c[1] \in Int /\ c[2] \in Int  BY SegmentBounds
  <2>3. /\ Left(p)[1] = p[1] /\ Right(p)[2] = p[2]
        /\ Right(p)[1] = Left(p)[2] + 1
        /\ p[1] <= Left(p)[2] /\ Left(p)[2] < p[2]
    BY <1>1, HalvesBounds
  <2>4. p[1] <= c[1] /\ c[2] <= p[2] /\ (p[1] < c[1] \/ c[2] < p[2])  BY <2>1, <2>2, <2>3, HalvesInt
  <2>5. Root[1] = 0 /\ Root[2] = SIZE - 1  BY DEF Root
  <2> QED  BY <2>1, <2>2, <2>4, <2>5 DEF Within
<1>4. Part(c) \in Seq(Value) /\ Len(Part(c)) = c[2] - c[1] + 1  BY <1>1, PartIs DEF ArrTypes
<1>5. CASE ms_pc[c] = "exited"
  <2>1. ms_pipe[c] = ms_arr[c]  BY <1>3, <1>5 DEF SortIInv, PipeHolds
  <2>2. /\ ms_arr[c] \in Seq(Value) /\ Len(ms_arr[c]) = c[2] - c[1] + 1
        /\ \A v \in Value : Count(ms_arr[c], v) = Count(Part(c), v)
    BY <1>1, <1>2 DEF ArrTypes, SortIInv, HoldsPart
  <2>3. ms_arr[c] # <<>>
    <3>1. PICK x \in Int, y \in Int : x = c[1] /\ y = c[2] /\ x <= y  BY SegmentBounds
    <3>2. Len(ms_arr[c]) # 0  BY <2>2, <3>1
    <3> QED  BY <3>2
  <2>4. NobodyFailed => IsSorted(ms_arr[c])  BY <1>5 DEF SortIInv, InOrder
  <2> QED  BY <2>1, <2>2, <2>3, <2>4 DEF Came
<1>6. CASE ms_pc[c] # "exited"
  <2>1. ~NobodyFailed  BY <1>2, <1>6 DEF Started, Running, NobodyFailed
  <2>2. ms_pipe[c] = <<>>  BY <1>6 DEF SortIInv, PipeHolds
  <2>3. ms_arr[p] = Part(p)  BY DEF SortIInv, AsGiven
  <2>4. Half(p, c) = Part(c)  BY <1>1, <1>3, <2>3, HalfIsPart DEF ArrTypes
  <2> QED  BY <1>4, <2>1, <2>2, <2>4 DEF Came
<1> QED  BY <1>5, <1>6

\* What the array holds can be compared.
LEMMA ValuesAreNumbers == \A s \in Seq(Value) : s \in Seq(Int)
<1> SUFFICES ASSUME NEW s \in Seq(Value) PROVE s \in Seq(Int)  OBVIOUS
<1>1. PICK n \in Nat : n = Len(s)  OBVIOUS
<1>2. s \in [1 .. n -> Value]  BY <1>1
<1>3. s \in [1 .. n -> Int]  BY <1>2, MergeSortAssumption
<1> QED  BY <1>3, SeqDef

\* The merge: the step at which the segment becomes sorted.
LEMMA ReadSort ==
  ASSUME MSIInv, SortIInv, NEW p \in Segment, ReadAndMerge(p)
  PROVE  SortIInv'
<1>1. /\ ms_pc[p] = "read" /\ ms_pc' = [ms_pc EXCEPT ![p] = "sorted"]
      /\ ms_arr' = [ms_arr EXCEPT ![p] = Merge(Came(p, Left(p)), Came(p, Right(p)))]
      /\ ms_input' = ms_input /\ ms_pipe' = ms_pipe
  BY DEF ReadAndMerge, Came
<1>2. p[1] < p[2] /\ ArrTypes /\ Value \subseteq Int
  BY <1>1, MergeSortAssumption DEF MSIInv, Forking, SortIInv
<1>3. Left(p) \in Segment /\ Right(p) \in Segment  BY <1>2, HalvesBounds
<1>4. PICK a, b : a = Came(p, Left(p)) /\ b = Came(p, Right(p))  OBVIOUS
<1>5. /\ a \in Seq(Value) /\ Len(a) = Left(p)[2] - Left(p)[1] + 1
      /\ \A v \in Value : Count(a, v) = Count(Part(Left(p)), v)
      /\ NobodyFailed => IsSorted(a)
  BY <1>1, <1>3, <1>4, CameHolds
<1>6. /\ b \in Seq(Value) /\ Len(b) = Right(p)[2] - Right(p)[1] + 1
      /\ \A v \in Value : Count(b, v) = Count(Part(Right(p)), v)
      /\ NobodyFailed => IsSorted(b)
  BY <1>1, <1>3, <1>4, CameHolds
<1>7. a \in Seq(Int) /\ b \in Seq(Int)  BY <1>5, <1>6, ValuesAreNumbers
<1>8. PICK r : r = Merge(a, b)  OBVIOUS
<1>9. /\ r \in Seq(Value) /\ Len(r) = p[2] - p[1] + 1
      /\ \A v \in Value : Count(r, v) = Count(Part(p), v)
      /\ NobodyFailed => IsSorted(r)
  <2>1. r \in Seq(Value) /\ (NobodyFailed => IsSorted(r))
    BY <1>2, <1>5, <1>6, <1>7, <1>8, MergeSorted
  <2>2. Len(r) = Len(a) + Len(b)  BY <1>7, <1>8, MergeCount
  <2>3. Len(a) + Len(b) = p[2] - p[1] + 1
    <3>1. PICK x \in Int, y \in Int, d \in Int :
            /\ x = p[1] /\ y = p[2] /\ d = Left(p)[2] /\ x = Left(p)[1]
            /\ y = Right(p)[2] /\ d + 1 = Right(p)[1]
      BY <1>2, HalvesBounds, HalvesInt, SegmentBounds
    <3>2. Len(a) = d - x + 1 /\ Len(b) = y - (d + 1) + 1  BY <1>5, <1>6, <3>1
    <3>3. (d - x + 1) + (y - (d + 1) + 1) = y - x + 1  OBVIOUS
    <3> QED  BY <3>1, <3>2, <3>3
  <2>4. ASSUME NEW v \in Value PROVE Count(r, v) = Count(Part(p), v)
    <3>1. Count(r, v) = Count(a, v) + Count(b, v)  BY <1>7, <1>8, MergeCount
    <3>2. Count(Part(p), v) = Count(Part(Left(p)), v) + Count(Part(Right(p)), v)
      BY <1>2, CountOfParts DEF ArrTypes
    <3>3. Count(a, v) = Count(Part(Left(p)), v) /\ Count(b, v) = Count(Part(Right(p)), v)
      BY <1>5, <1>6
    <3> QED  BY <3>1, <3>2, <3>3
  <2> QED  BY <2>1, <2>2, <2>3, <2>4
<1>10. /\ ms_arr'[p] = r /\ \A q \in Segment : q # p => ms_arr'[q] = ms_arr[q]
       /\ ms_pc'[p] = "sorted" /\ \A q \in Segment : q # p => ms_pc'[q] = ms_pc[q]
       /\ ArrTypes'
       /\ \A q \in Segment : Part(q)' = Part(q)
  BY <1>1, <1>2, <1>4, <1>8, <1>9 DEF MSIInv, MSTypes, ArrTypes, Part
<1>11. /\ \A q \in Segment : Started(q)' <=> Started(q)
       /\ \A q \in Segment : Running(q)' => Running(q)
       /\ NobodyFailed' => NobodyFailed
  BY <1>1, <1>10 DEF Started, Running, NobodyFailed
<1>12. HoldsPart'  BY <1>9, <1>10, <1>11 DEF SortIInv, HoldsPart
<1>13. AsGiven'  BY <1>10 DEF SortIInv, AsGiven
<1>14. InOrder'
  <2> SUFFICES ASSUME NEW q \in Segment, ms_pc'[q] \in {"sorted", "exited"}, NobodyFailed'
               PROVE  IsSorted(ms_arr'[q])
    BY DEF InOrder, IsSorted
  <2>1. CASE q = p  BY <2>1, <1>9, <1>10, <1>11
  <2>2. CASE q # p  BY <2>2, <1>10, <1>11 DEF SortIInv, InOrder
  <2> QED  BY <2>1, <2>2
<1>15. PipeHolds'
  <2> SUFFICES ASSUME NEW q \in Segment
               PROVE  /\ ms_pc'[q] = "exited" /\ q # Root => ms_pipe'[q] = ms_arr'[q]
                      /\ ms_pc'[q] # "exited" => ms_pipe'[q] = <<>>
    BY DEF PipeHolds
  <2>1. CASE q = p  BY <2>1, <1>1, <1>10 DEF SortIInv, PipeHolds
  <2>2. CASE q # p  BY <2>2, <1>1, <1>10 DEF SortIInv, PipeHolds
  <2> QED  BY <2>1, <2>2
<1>16. HalvesThere'
  <2> SUFFICES ASSUME NEW q \in Segment, ms_pc'[q] \in {"fork_right", "wait", "read"}
               PROVE  /\ Started(Left(q))'
                      /\ ms_pc'[q] \in {"wait", "read"} => Started(Right(q))'
                      /\ ms_pc'[q] = "read" => ~Running(Left(q))' /\ ~Running(Right(q))'
    BY DEF HalvesThere, Left, Right, Mid, Started, Running
  <2>1. ms_pc'[q] = ms_pc[q]  BY <1>10
  <2>2. Left(q) \in Segment /\ Right(q) \in Segment  BY <2>1, HalvesBounds DEF MSIInv, Forking
  <2> QED  BY <2>1, <2>2, <1>11 DEF SortIInv, HalvesThere
<1> QED  BY <1>10, <1>12, <1>13, <1>14, <1>15, <1>16 DEF SortIInv

\* The second invariant, of what the pipes carry, needs the first.
LEMMA MSNextSort == MSIInv /\ SortIInv /\ [MSNext]_ms_vars => SortIInv'
<1> SUFFICES ASSUME MSIInv, SortIInv, [MSNext]_ms_vars PROVE SortIInv'  OBVIOUS
<1>1. ASSUME NEW p \in Segment, Fork(p, Left(p), "fork_left", "fork_right") PROVE SortIInv'
  BY <1>1, ForkSort, HalvesBounds DEF Fork, MSIInv, Forking
<1>2. ASSUME NEW p \in Segment, Fork(p, Right(p), "fork_right", "wait") PROVE SortIInv'
  BY <1>2, ForkSort, HalvesBounds DEF Fork, MSIInv, Forking
<1>3. ASSUME NEW p \in Segment, Wait(p) PROVE SortIInv'
  BY <1>3, MoveSort DEF Wait, Running
<1>4. ASSUME NEW p \in Segment, ReadAndMerge(p) PROVE SortIInv'
  BY <1>4, ReadSort
<1>5. ASSUME NEW p \in Segment, Write(p) PROVE SortIInv'
  BY <1>5, MoveSort DEF Write, Running
<1>6. CASE print_sorted
  <2>1. Root \in Segment  BY MergeSortAssumption DEF Root, Segment
  <2> QED  BY <1>6, <2>1, MoveSort DEF print_sorted, Running
<1>7. ASSUME NEW p \in Segment, Fail(p) PROVE SortIInv'
  BY <1>7, MoveSort DEF Fail
<1>8. CASE UNCHANGED ms_vars
  BY <1>8 DEF ms_vars, SortIInv, ArrTypes, HoldsPart, AsGiven, InOrder, PipeHolds, HalvesThere,
              Started, Running, NobodyFailed, Part
<1> QED  BY <1>1, <1>2, <1>3, <1>4, <1>5, <1>6, <1>7, <1>8 DEF MSNext

\* The root has its values sorted when it is printed.
LEMMA SortedInv == SortIInv => SortedUnlessFailed
<1> SUFFICES ASSUME SortIInv, ms_pc[Root] = "exited"
             PROVE  /\ \A v \in Value : Count(ms_arr[Root], v) = Count(ms_input, v)
                    /\ NobodyFailed => IsSorted(ms_arr[Root])
  BY DEF SortedUnlessFailed, NobodyFailed
<1>1. Root \in Segment /\ Started(Root)  BY MergeSortAssumption DEF Root, Segment, Started
<1>2. Part(Root) = ms_input
  <2>1. SIZE \in Nat \ {0} /\ 0 + 1 = 1 /\ SIZE - 1 + 1 = SIZE /\ Root[1] = 0 /\ Root[2] = SIZE - 1
    BY MergeSortAssumption DEF Root
  <2>2. ms_input \in Seq(Value) /\ Len(ms_input) = SIZE  BY <2>1 DEF SortIInv, ArrTypes
  <2> QED  BY <2>1, <2>2, SubSeqFull DEF Part
<1> QED  BY <1>1, <1>2 DEF SortIInv, HoldsPart, InOrder

----------------------------------------------------------------------------
(* Merge sort: whoever waits or reads does so for processes that are below  *)
(* it, so the lowest of those that run is not blocked.                      *)

\* The next call of the process of p does not block: a wait has an ended half
\* to return for, a read finds the half or the end of the file.
Goes(p) ==
  \/ ms_pc[p] \in {"fork_left", "fork_right", "sorted"}
  \/ ms_pc[p] = "wait" /\ Ended(p)
  \/ ms_pc[p] = "read" /\ (<<>> \in {ms_pipe[Left(p)], ms_pipe[Right(p)]} => ~WriteEndOpen(p))

\* As long as a process of the sort runs, one of them can go on without
\* blocking, and without a call that fails.
SortGoes == (\E p \in Segment : Running(p)) => \E p \in Segment : Goes(p)

\* Of the processes that run, one with a segment as short as any has nobody below.
LEMMA SortGoesInv == MSIInv => SortGoes
<1> SUFFICES ASSUME MSIInv, \E p \in Segment : Running(p) PROVE \E p \in Segment : Goes(p)
  BY DEF SortGoes
<1> DEFINE Lengths == {n \in Nat : \E p \in Segment : Running(p) /\ n = p[2] - p[1]}
<1>1. Lengths # {} /\ Lengths \in SUBSET Nat
  <2>1. PICK p \in Segment : Running(p)  OBVIOUS
  <2>2. p[2] - p[1] \in Nat  BY SegmentBounds
  <2> QED  BY <2>1, <2>2
<1>2. PICK n \in Lengths : \A k \in Lengths : n <= k  BY <1>1, LeastOf
<1>3. PICK p \in Segment : Running(p) /\ n = p[2] - p[1]  OBVIOUS
<1>4. \A q \in Below(p) : ~Running(q)
  <2> SUFFICES ASSUME NEW q \in Below(p), Running(q) PROVE FALSE  OBVIOUS
  <2>1. q \in Segment /\ q # p /\ p[1] <= q[1] /\ q[2] <= p[2]  BY DEF Below
  <2>2. PICK a \in Int, b \in Int, x \in Int, y \in Int :
          /\ a = p[1] /\ b = p[2] /\ x = q[1] /\ y = q[2] /\ x <= y /\ a <= x /\ y <= b
    BY <2>1, SegmentBounds
  <2>3. y - x \in Nat /\ y - x \in Lengths
    <3>1. y - x \in Nat  BY <2>2
    <3> QED  BY <3>1, <2>1, <2>2
  <2>4. b - a <= y - x  BY <1>2, <1>3, <2>2, <2>3
  <2>5. a = x /\ b = y  BY <2>2, <2>4
  <2> QED  BY <2>1, <2>2, <2>5, SegmentBounds
<1>5. ~WriteEndOpen(p)  BY <1>4 DEF WriteEndOpen
<1>6. ms_pc[p] \in {"fork_left", "fork_right", "wait", "read", "sorted"}
  BY <1>3 DEF MSIInv, MSTypes, Running
<1>7. CASE ms_pc[p] = "wait"
  <2>1. p[1] < p[2]  BY <1>7 DEF MSIInv, Forking
  <2>2. Left(p) \in Below(p) /\ Right(p) \in Below(p)
    <3>1. /\ Left(p) \in Segment /\ Right(p) \in Segment
          /\ Left(p)[1] = p[1] /\ Right(p)[2] = p[2]
          /\ Right(p)[1] = Left(p)[2] + 1
          /\ p[1] <= Left(p)[2] /\ Left(p)[2] < p[2]
      BY <2>1, HalvesBounds
    <3>2. PICK a \in Int, b \in Int, d \in Int : a = p[1] /\ b = p[2] /\ d = Left(p)[2]
      BY SegmentBounds, HalvesInt
    <3>3. /\ d < b /\ a <= d /\ a <= d + 1 /\ d <= b /\ a # d + 1  BY <3>1, <3>2
    <3> QED  BY <3>1, <3>2, <3>3 DEF Below
  <2> QED  BY <1>4, <1>7, <2>2 DEF Goes, Ended
<1> QED  BY <1>5, <1>6, <1>7 DEF Goes

----------------------------------------------------------------------------
(* Averages: a call of wait returns for an exit of its own, and what fork  *)
(* copies is an empty buffer.                                              *)

AVCounts ==
  /\ av_main \in {"print", "fork", "wait", "exited", "failed"}
  /\ av_forked \in 0 .. CHILDREN /\ av_waits \in Nat
  /\ av_exited \in SUBSET (1 .. av_forked)
  /\ av_waits <= Cardinality(av_exited)
  /\ av_main = "print" => av_forked = 0
  /\ av_main = "fork" => av_forked < CHILDREN
  /\ av_main \in {"wait", "exited"} => av_forked = CHILDREN
  /\ av_main = "exited" => av_waits = CHILDREN

AVOut ==
  /\ av_buffer = <<>>
  /\ av_out \in Seq(Int)
  /\ av_main = "print" <=> av_out = <<>>
  /\ av_out # <<>> => av_out[1] = ParentLine
  /\ \A j \in 1 .. Len(av_out) : av_out[j] \in {ParentLine} \cup av_exited
  /\ \A j, k \in 1 .. Len(av_out) : av_out[j] = av_out[k] => j = k

AVIInv == AVCounts /\ AVOut

\* A set of children is finite, and has their number only if it is all of them.
LEMMA ChildrenFinite ==
  ASSUME NEW n \in Nat, NEW S \in SUBSET (1 .. n)
  PROVE  /\ IsFiniteSet(S) /\ Cardinality(S) \in Nat /\ Cardinality(S) <= n
         /\ Cardinality(S) = n => S = 1 .. n
<1>1. IsFiniteSet(1 .. n) /\ Cardinality(1 .. n) = n  BY FS_Interval
<1>2. IsFiniteSet(S)  BY <1>1, FS_Subset
<1> QED  BY <1>1, <1>2, FS_Subset, FS_CardinalityType

LEMMA AVInitInv == AVInit => AVIInv
BY ForkAverageAssumption, FS_EmptySet DEF AVInit, AVIInv, AVCounts, AVOut

LEMMA AVNextInv == AVIInv /\ [AVNext]_av_vars => AVIInv'
<1> SUFFICES ASSUME AVIInv, [AVNext]_av_vars PROVE AVIInv'  OBVIOUS
<1>1. CHILDREN \in Nat \ {0}  BY ForkAverageAssumption
<1>2. AVCounts'
  <2>1. CASE PrintParent  BY <2>1, <1>1 DEF PrintParent, AVIInv, AVCounts
  <2>2. CASE ForkChild
    BY <2>2, <1>1 DEF ForkChild, AVIInv, AVCounts
  <2>3. CASE ForkChildFails  BY <2>3, <1>1 DEF ForkChildFails, AVIInv, AVCounts
  <2>4. CASE RunChild
    <3>1. PICK i \in 1 .. av_forked \ av_exited : av_exited' = av_exited \cup {i}
      BY <2>4 DEF RunChild
    <3>2. Cardinality(av_exited') = Cardinality(av_exited) + 1 /\ Cardinality(av_exited) \in Nat
      BY <3>1, FS_AddElement, ChildrenFinite DEF AVIInv, AVCounts
    <3> QED  BY <2>4, <3>1, <3>2, <1>1 DEF RunChild, AVIInv, AVCounts
  <2>5. CASE WaitChild
    <3>1. Cardinality(av_exited) \in Nat  BY ChildrenFinite DEF AVIInv, AVCounts
    <3> QED  BY <2>5, <3>1 DEF WaitChild, AVIInv, AVCounts
  <2>6. CASE ReturnParent  BY <2>6 DEF ReturnParent, AllWaited, AVIInv, AVCounts
  <2>7. CASE UNCHANGED av_vars  BY <2>7 DEF av_vars, AVIInv, AVCounts
  <2> QED  BY <2>1, <2>2, <2>3, <2>4, <2>5, <2>6, <2>7 DEF AVNext
<1>3. AVOut'
  <2>1. CASE PrintParent
    <3>1. av_out = <<>> /\ av_buffer = <<>>  BY <2>1 DEF PrintParent, AVIInv, AVOut
    <3>2. av_out' = <<ParentLine>> /\ av_buffer' = <<>> /\ av_main' = "fork"
      <4>1. <<ParentLine>> \in Seq(Int) /\ <<>> \in Seq(Int)  BY DEF ParentLine
      <4>2. <<ParentLine>> \o <<>> = <<ParentLine>> /\ <<>> \o <<ParentLine>> = <<ParentLine>>
        BY <4>1, ConcatEmptySeq
      <4>3. Flushed(Printed) = [out |-> <<ParentLine>>, buffer |-> <<>>]
        <5>1. CASE av_tty  BY <5>1, <4>2 DEF Flushed, Printed
        <5>2. CASE ~av_tty  BY <5>2, <4>2 DEF Flushed, Printed
        <5> QED  BY <5>1, <5>2
      <4> QED  BY <2>1, <4>3 DEF PrintParent
    <3> QED  BY <3>2 DEF AVOut, ParentLine
  <2>2. CASE ForkChild  BY <2>2 DEF ForkChild, AVIInv, AVOut
  <2>3. ASSUME av_main # "print", av_out' = av_out \o av_buffer, av_main' # "print",
               UNCHANGED <<av_buffer, av_exited>>
        PROVE  AVOut'
    BY <2>3, ConcatEmptySeq DEF AVIInv, AVOut
  <2>4. CASE RunChild
    <3>1. PICK i \in 1 .. av_forked \ av_exited :
            av_exited' = av_exited \cup {i} /\ av_out' = av_out \o av_buffer \o <<i>>
      BY <2>4 DEF RunChild
    <3>2. av_out' = av_out \o <<i>>  BY <3>1, ConcatEmptySeq DEF AVIInv, AVOut
    <3>3. /\ i \in Int /\ i \notin {ParentLine} \cup av_exited
          /\ av_main # "print" /\ UNCHANGED <<av_main, av_buffer>>
      BY <3>1, <2>4 DEF RunChild, ParentLine, AVIInv, AVCounts
    <3>4. /\ av_out' \in Seq(Int) /\ Len(av_out') = Len(av_out) + 1
          /\ \A j \in 1 .. Len(av_out) : av_out'[j] = av_out[j]
          /\ av_out'[Len(av_out) + 1] = i
      BY <3>2, <3>3, ConcatProperties DEF AVIInv, AVOut
    <3>5. Len(av_out) \in Nat \ {0} /\ av_out[1] = ParentLine
      BY <3>3, EmptySeq DEF AVIInv, AVOut
    <3> QED  BY <3>1, <3>3, <3>4, <3>5 DEF AVIInv, AVOut
  <2>5. CASE WaitChild  BY <2>5 DEF WaitChild, AVIInv, AVOut
  <2>6. CASE UNCHANGED av_vars  BY <2>6 DEF av_vars, AVIInv, AVOut
  <2> QED  BY <2>1, <2>2, <2>3, <2>4, <2>5, <2>6 DEF AVNext, ForkChildFails, ReturnParent
<1> QED  BY <1>2, <1>3 DEF AVIInv

LEMMA ParentIsLastInv == AVIInv => ParentIsLast
<1> SUFFICES ASSUME AVIInv, av_main = "exited" PROVE av_exited = Child  BY DEF ParentIsLast
<1>1. /\ CHILDREN \in Nat /\ av_exited \in SUBSET (1 .. CHILDREN)
      /\ CHILDREN <= Cardinality(av_exited)
  BY ForkAverageAssumption DEF AVIInv, AVCounts
<1> QED  BY <1>1, ChildrenFinite DEF Child

----------------------------------------------------------------------------
(* The matrix product: a thread that is joined has stored its element.     *)

MTIInv ==
  /\ mt_main \in {"create", "join", "print", "sequential", "free", "exited"}
  /\ mt_created \in 0 .. ELEMENTS /\ mt_joined \in 0 .. ELEMENTS
  /\ mt_C \subseteq 1 .. mt_created
  /\ \A i \in 1 .. mt_joined : i \in mt_C
  /\ mt_main = "create" => mt_created < ELEMENTS
  /\ mt_main = "join" => mt_joined < ELEMENTS
  /\ mt_main # "create" => mt_created = ELEMENTS
  /\ mt_main \notin {"create", "join"} => mt_joined = ELEMENTS

LEMMA MTInitInv == MTInit => MTIInv
BY MatrixProductAssumption DEF MTInit, MTIInv

LEMMA MTNextInv == MTIInv /\ [MTNext]_mt_vars => MTIInv'
<1> SUFFICES ASSUME MTIInv, [MTNext]_mt_vars PROVE MTIInv'  OBVIOUS
<1> USE MatrixProductAssumption DEF MTIInv
<1>1. CASE CreateThread  BY <1>1 DEF CreateThread
<1>2. CASE compute_element  BY <1>2 DEF compute_element
<1>3. CASE JoinThread  BY <1>3 DEF JoinThread, Joinable
<1>4. CASE Finish  BY <1>4 DEF Finish
<1>5. CASE UNCHANGED mt_vars  BY <1>5 DEF mt_vars
<1> QED  BY <1>1, <1>2, <1>3, <1>4, <1>5 DEF MTNext

LEMMA ProductCompleteInv == MTIInv => ProductComplete
BY MatrixProductAssumption DEF MTIInv, ProductComplete

----------------------------------------------------------------------------
(* Binary search: a process and the child it waits for search the same     *)
(* half, so a target that is in the array is in the half of every process  *)
(* of the chain, and once a child has answered nobody above it searches.   *)

\* The sets of numbers up to n + 1 are those up to n, without and with n + 1.
LEMMA PowerOfTwo ==
  ASSUME NEW n \in Nat
  PROVE  2 ^ n \in Nat \ {0} /\ 2 ^ (n + 1) = 2 * 2 ^ n
<1> DEFINE P == SUBSET (1 .. n)
<1> DEFINE Q == {T \cup {n + 1} : T \in P}
<1>1. \A m \in Nat : IsFiniteSet(SUBSET (1 .. m)) /\ Cardinality(SUBSET (1 .. m)) = 2 ^ m
  <2> TAKE m \in Nat
  <2>1. IsFiniteSet(1 .. m) /\ Cardinality(1 .. m) = m  BY FS_Interval
  <2> QED  BY <2>1, FS_SUBSET
<1>2. 2 ^ n \in Nat /\ 2 ^ n # 0
  <2>1. {} \in P  OBVIOUS
  <2> QED  BY <1>1, <2>1, FS_CardinalityType, FS_EmptySet
<1>3. IsFiniteSet(Q) /\ Cardinality(Q) = 2 ^ n
  <2> DEFINE f == [T \in P |-> T \cup {n + 1}]
  <2>1. \A T, U \in P : f[T] = f[U] => T = U
    <3> SUFFICES ASSUME NEW T \in P, NEW U \in P, f[T] = f[U] PROVE T = U  OBVIOUS
    <3>1. n + 1 \notin T /\ n + 1 \notin U  OBVIOUS
    <3> QED  BY <3>1
  <2> HIDE DEF P
  <2>2. f \in [P -> Q] /\ DOMAIN f = P /\ \A T \in Q : \E U \in P : f[U] = T  OBVIOUS
  <2> HIDE DEF f, Q
  <2>3. f \in Bijection(P, Q)
    BY <2>1, <2>2, Zenon DEF Bijection, Injection, Surjection, IsInjective
  <2> QED  BY <1>1, <2>3, FS_Bijection DEF ExistsBijection, P
<1>4. SUBSET (1 .. n + 1) = P \cup Q
  <2>1. \A T \in SUBSET (1 .. n + 1) : T \in P \/ T \in Q
    <3> TAKE T \in SUBSET (1 .. n + 1)
    <3>1. CASE n + 1 \in T
      <4>1. T \ {n + 1} \in P /\ T = (T \ {n + 1}) \cup {n + 1}
        <5>1. \A i \in T \ {n + 1} : i \in 1 .. n  OBVIOUS
        <5> QED  BY <3>1, <5>1
      <4> QED  BY <4>1
    <3>2. CASE n + 1 \notin T
      <4>1. \A i \in T : i \in 1 .. n + 1 /\ i # n + 1  BY <3>2
      <4>2. \A i \in 1 .. n + 1 : i # n + 1 => i \in 1 .. n  OBVIOUS
      <4> QED  BY <4>1, <4>2
    <3> QED  BY <3>1, <3>2
  <2>2. \A T \in P : T \in SUBSET (1 .. n + 1) /\ T \cup {n + 1} \in SUBSET (1 .. n + 1)
    <3>1. n + 1 \in 1 .. n + 1 /\ \A i \in 1 .. n : i \in 1 .. n + 1  OBVIOUS
    <3> QED  BY <3>1
  <2> HIDE DEF P
  <2> QED  BY <2>1, <2>2
<1>5. P \cap Q = {}
  <2>1. \A T \in P : n + 1 \notin T  OBVIOUS
  <2> QED  BY <2>1
<1> HIDE DEF P, Q
<1>6. Cardinality(P \cup Q) = 2 ^ n + 2 ^ n - 0
  <2>1. IsFiniteSet(P) /\ Cardinality(P) = 2 ^ n  BY <1>1 DEF P
  <2> QED  BY <2>1, <1>3, <1>5, FS_Union, FS_EmptySet
<1>7. n + 1 \in Nat  OBVIOUS
<1>8. 2 ^ (n + 1) = 2 ^ n + 2 ^ n - 0  BY <1>1, <1>4, <1>6, <1>7
<1> QED  BY <1>2, <1>8

Process == [start : Int, end : Int, at : {"search", "wait", "exited", "failed"}]
HasLeft(p) == p.at \in {"exited", "failed"}

\* The target, if there is one, is within the bounds of every process, and each
\* has half of what the one before it has, or less.
BSBounds ==
  /\ bs_target \in 0 .. ARRAY_SIZE + 1
  /\ bs_chain \in Seq(Process) /\ Len(bs_chain) > 0
  /\ \A k \in 1 .. Len(bs_chain) :
       /\ 0 <= bs_chain[k].start /\ bs_chain[k].end < ARRAY_SIZE
       /\ bs_chain[k].start <= bs_chain[k].end + 1
       /\ bs_target \in 1 .. ARRAY_SIZE => bs_target - 1 \in bs_chain[k].start .. bs_chain[k].end
       /\ 2 ^ (k - 1) * (bs_chain[k].end - bs_chain[k].start + 1) <= ARRAY_SIZE
       /\ k < Len(bs_chain) => bs_chain[k].start <= bs_chain[k].end

\* Whoever has left has nobody below him, and only the last one answers.
BSOrder ==
  /\ \A k \in 1 .. Len(bs_chain) : bs_chain[k].at \in {"search", "failed"} => k = Len(bs_chain)
  /\ \A j, k \in 1 .. Len(bs_chain) : j <= k /\ HasLeft(bs_chain[j]) => HasLeft(bs_chain[k])
  /\ BSLast.at # "wait"
  /\ bs_answers = IF BSLast.at # "exited" THEN <<>>
                  ELSE IF bs_target \in 1 .. ARRAY_SIZE THEN <<bs_target - 1>> ELSE <<-1>>

BSIInv == BSBounds /\ BSOrder

LEMMA BSInitInv == BSInit => BSIInv
<1> SUFFICES ASSUME BSInit PROVE BSIInv  OBVIOUS
<1>1. ARRAY_SIZE \in Nat \ {0}  BY BinarySearchAssumption
<1>2. Bounds(0, ARRAY_SIZE - 1) \in Process  BY <1>1 DEF Bounds, Process
<1>3. /\ bs_chain \in Seq(Process) /\ Len(bs_chain) = 1 /\ bs_chain[1] = Bounds(0, ARRAY_SIZE - 1)
  BY <1>2 DEF BSInit
<1>4. 2 ^ (1 - 1) * (ARRAY_SIZE - 1 - 0 + 1) <= ARRAY_SIZE
  <2>1. 2 ^ 0 = 1 /\ 1 - 1 = 0  OBVIOUS
  <2> QED  BY <1>1, <2>1
<1>5. bs_chain[1].start = 0 /\ bs_chain[1].end = ARRAY_SIZE - 1 /\ bs_chain[1].at = "search"
  BY <1>3 DEF Bounds
<1>6. bs_target \in 0 .. ARRAY_SIZE + 1 /\ bs_answers = <<>>  BY DEF BSInit
<1>7. /\ 2 ^ (1 - 1) * (bs_chain[1].end - bs_chain[1].start + 1) <= ARRAY_SIZE
      /\ bs_target \in 1 .. ARRAY_SIZE => bs_target - 1 \in bs_chain[1].start .. bs_chain[1].end
  BY <1>1, <1>4, <1>5
<1>8. BSBounds  BY <1>1, <1>3, <1>5, <1>6, <1>7 DEF BSBounds
<1>9. BSOrder  BY <1>3, <1>5, <1>6 DEF BSOrder, BSLast
<1> QED  BY <1>8, <1>9 DEF BSIInv

\* The middle halves what there is to search.
LEMMA Halving ==
  ASSUME BSBounds, BSLast.start <= BSLast.end
  PROVE  /\ mid \in Int /\ BSLast.start <= mid /\ mid <= BSLast.end
         /\ Narrowed.start \in Int /\ Narrowed.end \in Int /\ Narrowed.at = "search"
         /\ 2 * (Narrowed.end - Narrowed.start + 1) <= BSLast.end - BSLast.start + 1
         /\ 0 <= Narrowed.start /\ Narrowed.end < ARRAY_SIZE /\ Narrowed.start <= Narrowed.end + 1
         /\ bs_target \in BSLast.start + 1 .. BSLast.end + 1 /\ arr(mid) # bs_target =>
              bs_target - 1 \in Narrowed.start .. Narrowed.end
<1>1. ARRAY_SIZE \in Nat \ {0}  BY BinarySearchAssumption
<1>2. BSLast \in Process /\ 0 <= BSLast.start /\ BSLast.end < ARRAY_SIZE
  <2>1. Len(bs_chain) \in 1 .. Len(bs_chain) /\ bs_chain \in Seq(Process)  BY DEF BSBounds
  <2>2. bs_chain[Len(bs_chain)] \in Process  BY <2>1
  <2> QED  BY <2>1, <2>2 DEF BSBounds, BSLast
<1>3. BSLast.start \in Int /\ BSLast.end \in Int  BY <1>2 DEF Process
<1> DEFINE s == BSLast.start
           e == BSLast.end
           h == (e - s) \div 2
<1>4. s \in Int /\ e \in Int /\ s <= e  BY <1>3
<1> HIDE DEF s, e
<1>5. h \in Nat /\ (e - s = 2 * h \/ e - s = 2 * h + 1)  BY <1>4
<1>6. mid = s + h  BY DEF mid, s, e
<1> HIDE DEF h
<1>7. Narrowed = IF arr(mid) < bs_target THEN Bounds(mid + 1, e) ELSE Bounds(s, mid - 1)  BY DEF Narrowed, s, e
<1>8. bs_target \in Nat  BY <1>1 DEF BSBounds
<1>9. CASE arr(mid) < bs_target
  <2>1. Narrowed.start = mid + 1 /\ Narrowed.end = e /\ Narrowed.at = "search"
    BY <1>7, <1>9 DEF Bounds
  <2> QED  BY <1>1, <1>2, <1>4, <1>5, <1>6, <1>8, <1>9, <2>1 DEF arr, s, e
<1>10. CASE ~(arr(mid) < bs_target)
  <2>1. Narrowed.start = s /\ Narrowed.end = mid - 1 /\ Narrowed.at = "search"
    BY <1>7, <1>10 DEF Bounds
  <2> QED  BY <1>1, <1>2, <1>4, <1>5, <1>6, <1>8, <1>10, <2>1 DEF arr, s, e
<1> QED  BY <1>9, <1>10

\* One process has moved on.
LEMMA MoveFacts ==
  ASSUME BSBounds, NEW k \in 1 .. Len(bs_chain), NEW at \in {"wait", "exited", "failed"}
  PROVE  /\ Move(k, at) \in Seq(Process) /\ Len(Move(k, at)) = Len(bs_chain)
         /\ Len(bs_chain) \in Nat \ {0}
         /\ \A j \in 1 .. Len(bs_chain) :
              /\ Move(k, at)[j].start = bs_chain[j].start /\ Move(k, at)[j].end = bs_chain[j].end
              /\ Move(k, at)[j].at = IF j = k THEN at ELSE bs_chain[j].at
<1>1. bs_chain \in Seq(Process) /\ bs_chain[k] \in Process  BY DEF BSBounds
<1> DEFINE r == [bs_chain[k] EXCEPT !.at = at]
<1>2. r \in Process /\ r.start = bs_chain[k].start /\ r.end = bs_chain[k].end /\ r.at = at
  BY <1>1 DEF Process
<1>3. Move(k, at) = [bs_chain EXCEPT ![k] = r]  BY <1>1 DEF Move
<1> HIDE DEF r
<1>4. /\ Move(k, at) \in Seq(Process) /\ Len(Move(k, at)) = Len(bs_chain)
      /\ \A j \in 1 .. Len(bs_chain) : Move(k, at)[j] = IF j = k THEN r ELSE bs_chain[j]
  BY <1>1, <1>2, <1>3
<1>5. Len(bs_chain) \in Nat \ {0}  BY <1>1
<1> QED  BY <1>2, <1>4, <1>5

\* Moving a process on leaves the ranges of the chain as they are.
LEMMA MoveBounds ==
  ASSUME BSBounds, UNCHANGED bs_target, NEW k \in 1 .. Len(bs_chain),
         NEW at \in {"wait", "exited", "failed"}, bs_chain' = Move(k, at)
  PROVE  BSBounds'
<1> DEFINE n == Len(bs_chain)
<1>1. /\ bs_chain' \in Seq(Process) /\ Len(bs_chain') = n /\ n \in Nat \ {0}
      /\ \A j \in 1 .. n : bs_chain'[j].start = bs_chain[j].start /\ bs_chain'[j].end = bs_chain[j].end
  BY MoveFacts
<1> QED  BY <1>1 DEF BSBounds

\* Halving the rest makes up for doubling what has been done.
LEMMA Product2 ==
  ASSUME NEW a \in Nat, NEW s \in Int, NEW t \in Int, 2 * t <= s
  PROVE  (2 * a) * t <= a * s
OBVIOUS

LEMMA AnswerInv == BSIInv /\ Answer => BSIInv'
<1> SUFFICES ASSUME BSIInv, Answer PROVE BSIInv'  OBVIOUS
<1> DEFINE n == Len(bs_chain)
<1>1. /\ BSBounds /\ BSOrder /\ n \in Nat \ {0} /\ n \in 1 .. n
      /\ BSLast.at = "search" /\ BSLast = bs_chain[n]
      /\ UNCHANGED bs_target /\ bs_chain' = Move(n, "exited")
      /\ BSLast.start > BSLast.end \/ arr(mid) = bs_target
      /\ bs_answers' = Append(bs_answers, IF BSLast.start > BSLast.end THEN -1 ELSE mid)
  BY DEF BSIInv, BSBounds, Answer, BSLast
<1>2. /\ Len(bs_chain') = n
      /\ \A j \in 1 .. n : bs_chain'[j].at = IF j = n THEN "exited" ELSE bs_chain[j].at
  BY <1>1, MoveFacts
<1>3. BSBounds'  BY <1>1, MoveBounds
<1>4. BSLast'.at = "exited"  BY <1>1, <1>2 DEF BSLast
<1>5. bs_answers' = IF bs_target \in 1 .. ARRAY_SIZE THEN <<bs_target - 1>> ELSE <<-1>>
  <2>1. bs_answers = <<>>  BY <1>1 DEF BSOrder
  <2>2. /\ bs_target \in 1 .. ARRAY_SIZE => bs_target - 1 \in BSLast.start .. BSLast.end
        /\ bs_target \in 0 .. ARRAY_SIZE + 1 /\ ARRAY_SIZE \in Nat
        /\ 0 <= BSLast.start /\ BSLast.end < ARRAY_SIZE
        /\ BSLast.start \in Int /\ BSLast.end \in Int
    <3>1. BSLast \in Process  BY <1>1 DEF BSBounds
    <3> QED  BY <1>1, <3>1, BinarySearchAssumption DEF BSBounds, Process
  <2>3. CASE BSLast.start > BSLast.end
    <3>1. bs_target \notin 1 .. ARRAY_SIZE  BY <2>2, <2>3
    <3> QED  BY <1>1, <2>1, <2>3, <3>1
  <2>4. CASE BSLast.start <= BSLast.end
    <3>1. /\ mid \in Int /\ BSLast.start <= mid /\ mid <= BSLast.end  BY <1>1, <2>4, Halving
    <3>2. bs_target = mid + 1  BY <1>1, <2>2, <2>4 DEF arr
    <3>3. bs_target \in 1 .. ARRAY_SIZE /\ mid = bs_target - 1  BY <2>2, <3>1, <3>2
    <3>4. ~(BSLast.start > BSLast.end)  BY <2>2, <2>4
    <3> QED  BY <1>1, <2>1, <3>3, <3>4
  <2> QED  BY <2>2, <2>3, <2>4
<1>6. BSOrder'
  <2>1. \A k \in 1 .. n : bs_chain'[k].at \in {"search", "failed"} => k = n  BY <1>1, <1>2 DEF BSOrder
  <2>2. \A j, k \in 1 .. n : j <= k /\ HasLeft(bs_chain'[j]) => HasLeft(bs_chain'[k])
    <3> SUFFICES ASSUME NEW j \in 1 .. n, NEW k \in 1 .. n, j <= k, HasLeft(bs_chain'[j])
                 PROVE  HasLeft(bs_chain'[k])
      OBVIOUS
    <3>1. CASE k = n  BY <1>2, <3>1 DEF HasLeft
    <3>2. CASE k # n
      <4>1. j # n  BY <1>1, <3>2
      <4>2. HasLeft(bs_chain[j])  BY <1>2, <4>1 DEF HasLeft
      <4>3. HasLeft(bs_chain[k])  BY <1>1, <4>2 DEF BSOrder
      <4> QED  BY <1>2, <3>2, <4>3 DEF HasLeft
    <3> QED  BY <3>1, <3>2
  <2> QED  BY <1>1, <1>2, <1>4, <1>5, <2>1, <2>2 DEF BSOrder
<1> QED  BY <1>3, <1>6 DEF BSIInv

LEMMA DescendInv == BSIInv /\ Descend => BSIInv'
<1> SUFFICES ASSUME BSIInv, Descend PROVE BSIInv'  OBVIOUS
<1> DEFINE n == Len(bs_chain)
<1>1. /\ BSBounds /\ BSOrder /\ n \in Nat \ {0} /\ n \in 1 .. n
      /\ BSLast.at = "search" /\ BSLast = bs_chain[n] /\ BSLast.start <= BSLast.end
      /\ UNCHANGED <<bs_target, bs_answers>> /\ arr(mid) # bs_target
      /\ \A j \in 1 .. n : bs_chain[j] \in Process
  BY DEF BSIInv, BSBounds, Descend, BSLast
<1>2. bs_answers = <<>> /\ \A j \in 1 .. n : ~HasLeft(bs_chain[j])
  BY <1>1 DEF BSOrder, HasLeft
<1>3. CASE bs_chain' = Move(n, "failed")
  <2>1. /\ Len(bs_chain') = n
        /\ \A j \in 1 .. n : bs_chain'[j].at = IF j = n THEN "failed" ELSE bs_chain[j].at
    BY <1>1, <1>3, MoveFacts
  <2>2. BSBounds'  BY <1>1, <1>3, MoveBounds
  <2>3. BSLast'.at = "failed"  BY <1>1, <2>1 DEF BSLast
  <2>4. \A j \in 1 .. n : HasLeft(bs_chain'[j]) <=> j = n  BY <1>2, <2>1 DEF HasLeft
  <2>5. \A j \in 1 .. n : bs_chain'[j].at \in {"search", "failed"} => j = n  BY <1>1, <2>1 DEF BSOrder
  <2>6. \A j, k \in 1 .. n : j <= k /\ j = n => k = n  BY <1>1
  <2>7. BSOrder'  BY <1>1, <1>2, <2>1, <2>3, <2>4, <2>5, <2>6 DEF BSOrder
  <2> QED  BY <2>2, <2>7 DEF BSIInv
<1>4. CASE bs_chain' = Append(Move(n, "wait"), Narrowed)
  <2> DEFINE c == Move(n, "wait")
  <2>1. /\ c \in Seq(Process) /\ Len(c) = n
        /\ \A j \in 1 .. n :
             /\ c[j].start = bs_chain[j].start /\ c[j].end = bs_chain[j].end
             /\ c[j].at = IF j = n THEN "wait" ELSE bs_chain[j].at
    BY <1>1, MoveFacts
  <2>2. /\ Narrowed.start \in Int /\ Narrowed.end \in Int /\ Narrowed.at = "search"
        /\ 2 * (Narrowed.end - Narrowed.start + 1) <= BSLast.end - BSLast.start + 1
        /\ 0 <= Narrowed.start /\ Narrowed.end < ARRAY_SIZE /\ Narrowed.start <= Narrowed.end + 1
        /\ bs_target \in BSLast.start + 1 .. BSLast.end + 1 =>
             bs_target - 1 \in Narrowed.start .. Narrowed.end
    BY <1>1, Halving
  <2>3. Narrowed \in Process  BY <2>2 DEF Narrowed, Bounds, Process
  <2> HIDE DEF c
  <2>4. /\ bs_chain' \in Seq(Process) /\ Len(bs_chain') = n + 1
        /\ \A j \in 1 .. n : bs_chain'[j] = c[j]
        /\ bs_chain'[n + 1] = Narrowed
    BY <1>4, <2>1, <2>3 DEF c
  <2>5. \A j \in 1 .. n + 1 : j \in 1 .. n \/ j = n + 1  BY <1>1
  <2>6. BSBounds'
    <3>1. ASSUME NEW k \in 1 .. n
          PROVE  /\ 0 <= bs_chain'[k].start /\ bs_chain'[k].end < ARRAY_SIZE
                 /\ bs_chain'[k].start <= bs_chain'[k].end + 1
                 /\ bs_target \in 1 .. ARRAY_SIZE => bs_target - 1 \in bs_chain'[k].start .. bs_chain'[k].end
                 /\ 2 ^ (k - 1) * (bs_chain'[k].end - bs_chain'[k].start + 1) <= ARRAY_SIZE
                 /\ bs_chain'[k].start <= bs_chain'[k].end
      <4>1. bs_chain'[k].start = bs_chain[k].start /\ bs_chain'[k].end = bs_chain[k].end
        BY <2>1, <2>4
      <4>2. bs_chain[k].start <= bs_chain[k].end  BY <1>1 DEF BSBounds
      <4> QED  BY <1>1, <4>1, <4>2 DEF BSBounds
    <3>2. bs_target \in 1 .. ARRAY_SIZE => bs_target - 1 \in Narrowed.start .. Narrowed.end
      <4>1. bs_target \in 1 .. ARRAY_SIZE => bs_target - 1 \in BSLast.start .. BSLast.end
        BY <1>1 DEF BSBounds
      <4>2. BSLast.start \in Int /\ BSLast.end \in Int /\ bs_target \in Int
        BY <1>1, BinarySearchAssumption DEF BSBounds, Process
      <4>3. bs_target - 1 \in BSLast.start .. BSLast.end => bs_target \in BSLast.start + 1 .. BSLast.end + 1
        BY <4>2
      <4> QED  BY <2>2, <4>1, <4>3
    <3>3. 2 ^ n * (Narrowed.end - Narrowed.start + 1) <= ARRAY_SIZE
      <4> DEFINE s == BSLast.end - BSLast.start + 1
                 t == Narrowed.end - Narrowed.start + 1
                 a == 2 ^ (n - 1)
      <4>1. n - 1 \in Nat /\ (n - 1) + 1 = n  BY <1>1
      <4>2. a \in Nat /\ 2 ^ n = 2 * a  BY <4>1, PowerOfTwo
      <4>3. s \in Int /\ t \in Int /\ 2 * t <= s  BY <1>1, <2>2 DEF Process
      <4>4. a * s <= ARRAY_SIZE  BY <1>1 DEF BSBounds
      <4>5. ARRAY_SIZE \in Nat  BY BinarySearchAssumption
      <4> HIDE DEF s, t, a
      <4>6. (2 * a) * t <= a * s  BY <4>2, <4>3, Product2
      <4>7. (2 * a) * t <= ARRAY_SIZE  BY <4>2, <4>3, <4>4, <4>5, <4>6
      <4> QED  BY <4>2, <4>7 DEF t
    <3>4. (n + 1) - 1 = n /\ n + 1 > 0  BY <1>1
    <3>5. ASSUME NEW k \in 1 .. n + 1
          PROVE  /\ 0 <= bs_chain'[k].start /\ bs_chain'[k].end < ARRAY_SIZE
                 /\ bs_chain'[k].start <= bs_chain'[k].end + 1
                 /\ bs_target \in 1 .. ARRAY_SIZE => bs_target - 1 \in bs_chain'[k].start .. bs_chain'[k].end
                 /\ 2 ^ (k - 1) * (bs_chain'[k].end - bs_chain'[k].start + 1) <= ARRAY_SIZE
                 /\ k < n + 1 => bs_chain'[k].start <= bs_chain'[k].end
      <4>1. CASE k \in 1 .. n  BY <3>1, <4>1
      <4>2. CASE k = n + 1
        <5>1. k - 1 = n /\ bs_chain'[k] = Narrowed /\ ~(k < n + 1)  BY <1>1, <2>4, <4>2
        <5> QED  BY <2>2, <3>2, <3>3, <5>1, Zenon
      <4> QED  BY <2>5, <4>1, <4>2
    <3>6. bs_target' \in 0 .. ARRAY_SIZE + 1 /\ bs_target' = bs_target  BY <1>1 DEF BSBounds
    <3> QED  BY <2>4, <3>4, <3>5, <3>6 DEF BSBounds
  <2>7. BSLast'.at = "search"  BY <2>2, <2>4 DEF BSLast
  <2>8. \A j \in 1 .. n + 1 : ~HasLeft(bs_chain'[j])
    BY <1>2, <2>1, <2>2, <2>4, <2>5 DEF HasLeft
  <2>9. \A j \in 1 .. n + 1 : bs_chain'[j].at \in {"search", "failed"} => j = n + 1
    BY <1>1, <2>1, <2>4, <2>5 DEF BSOrder
  <2>10. BSOrder'  BY <1>1, <1>2, <2>4, <2>7, <2>8, <2>9 DEF BSOrder
  <2> QED  BY <2>6, <2>10 DEF BSIInv
<1> QED  BY <1>3, <1>4 DEF Descend

LEMMA ReturnInv == BSIInv /\ Return => BSIInv'
<1> SUFFICES ASSUME BSIInv, Return PROVE BSIInv'  OBVIOUS
<1> DEFINE n == Len(bs_chain)
<1>1. PICK k \in 1 .. n - 1 : /\ bs_chain[k].at = "wait" /\ HasLeft(bs_chain[k + 1])
                              /\ bs_chain' = Move(k, "exited")
  BY DEF Return, HasLeft
<1>2. /\ BSBounds /\ BSOrder /\ n \in Nat \ {0} /\ n \in 1 .. n /\ k \in 1 .. n /\ k + 1 \in 1 .. n /\ k # n
      /\ UNCHANGED <<bs_target, bs_answers>>
  BY <1>1 DEF BSIInv, BSBounds, Return
<1>3. /\ Len(bs_chain') = n
      /\ \A j \in 1 .. n : bs_chain'[j].at = IF j = k THEN "exited" ELSE bs_chain[j].at
  BY <1>1, <1>2, MoveFacts
<1>4. BSBounds'  BY <1>1, <1>2, MoveBounds
<1>5. BSLast'.at = BSLast.at  BY <1>2, <1>3 DEF BSLast
<1>6. \A i, j \in 1 .. n : i <= j /\ HasLeft(bs_chain'[i]) => HasLeft(bs_chain'[j])
  <2> SUFFICES ASSUME NEW i \in 1 .. n, NEW j \in 1 .. n, i <= j, HasLeft(bs_chain'[i]), j # k
               PROVE  HasLeft(bs_chain[j])
    BY <1>3 DEF HasLeft
  <2>1. CASE i = k
    <3>1. k + 1 <= j  BY <1>2, <2>1
    <3> QED  BY <1>1, <1>2, <3>1 DEF BSOrder
  <2>2. CASE i # k
    <3>1. HasLeft(bs_chain[i])  BY <1>3, <2>2 DEF HasLeft
    <3> QED  BY <1>2, <3>1 DEF BSOrder
  <2> QED  BY <2>1, <2>2
<1>7. \A j \in 1 .. n : bs_chain'[j].at \in {"search", "failed"} => j = n  BY <1>2, <1>3 DEF BSOrder
<1>8. BSOrder'  BY <1>2, <1>3, <1>5, <1>6, <1>7 DEF BSOrder
<1> QED  BY <1>4, <1>8 DEF BSIInv

\* One lemma for each call of the search.
LEMMA BSNextInv == BSIInv /\ [BSNext]_bs_vars => BSIInv'
<1>1. BSIInv /\ UNCHANGED bs_vars => BSIInv'
  BY DEF bs_vars, BSIInv, BSBounds, BSOrder, BSLast, HasLeft
<1> QED  BY <1>1, AnswerInv, DescendInv, ReturnInv DEF BSNext

LEMMA OneAnswerInv == BSIInv => OneAnswer
<1> SUFFICES ASSUME BSIInv PROVE OneAnswer  OBVIOUS
<1> DEFINE n == Len(bs_chain)
<1>1. BSBounds /\ BSOrder /\ n \in Nat \ {0} /\ n \in 1 .. n /\ 1 \in 1 .. n /\ BSLast = bs_chain[n]
      /\ \A j \in 1 .. n : bs_chain[j] \in Process
  BY DEF BSIInv, BSBounds, BSLast
<1>2. ASSUME n > 1 PROVE 2 ^ (n - 2) <= ARRAY_SIZE
  <2>1. n - 2 \in Nat /\ n - 1 \in 1 .. n /\ n - 1 < n /\ (n - 1) - 1 = n - 2  BY <1>1, <1>2
  <2> DEFINE s == bs_chain[n - 1].end - bs_chain[n - 1].start
             a == 2 ^ (n - 2)
  <2>2. s \in Nat
    <3>1. bs_chain[n - 1] \in Process /\ bs_chain[n - 1].start <= bs_chain[n - 1].end
      BY <1>1, <2>1 DEF BSBounds
    <3> QED  BY <3>1 DEF Process
  <2>3. a * (s + 1) <= ARRAY_SIZE
    <3>1. 2 ^ ((n - 1) - 1) * (s + 1) <= ARRAY_SIZE  BY <1>1, <2>1 DEF BSBounds
    <3> QED  BY <2>1, <3>1
  <2>4. a \in Nat  BY <2>1, PowerOfTwo
  <2>5. ARRAY_SIZE \in Nat  BY BinarySearchAssumption
  <2> HIDE DEF s, a
  <2>6. a <= a * (s + 1)  BY <2>2, <2>4
  <2>7. a * (s + 1) \in Nat  BY <2>2, <2>4
  <2>8. a <= ARRAY_SIZE  BY <2>3, <2>4, <2>5, <2>6, <2>7
  <2> QED  BY <2>8 DEF a
<1>3. ASSUME HasLeft(bs_chain[1])
      PROVE  /\ \A k \in 1 .. n : HasLeft(bs_chain[k])
             /\ bs_answers = IF \E k \in 1 .. n : bs_chain[k].at = "failed" THEN <<>>
                             ELSE IF bs_target \in 1 .. ARRAY_SIZE THEN <<bs_target - 1>> ELSE <<-1>>
  <2>1. \A k \in 1 .. n : 1 <= k  OBVIOUS
  <2>2. \A k \in 1 .. n : HasLeft(bs_chain[k])  BY <1>1, <1>3, <2>1 DEF BSOrder
  <2>3. (\E k \in 1 .. n : bs_chain[k].at = "failed") <=> BSLast.at # "exited"
    BY <1>1, <2>2 DEF BSOrder, HasLeft
  <2> QED  BY <1>1, <2>2, <2>3 DEF BSOrder
<1> QED  BY <1>2, <1>3 DEF OneAnswer, HasLeft

----------------------------------------------------------------------------
(* Redirection: the descriptors at each point of the two parts.            *)

\* A copy is open on the terminal, and a descriptor that is no copy is not open.
Copies ==
  /\ rd_saved \in [{1, 2} -> {-1, 4, 5}]
  /\ rd_saved[1] = rd_saved[2] => rd_saved[1] = -1
  /\ rd_part = 1 => rd_saved[2] = -1
  /\ \A f \in {4, 5} : rd_fd[f] = IF f \in {rd_saved[1], rd_saved[2]} THEN "terminal" ELSE Closed

RDIInv ==
  /\ rd_part \in {1, 2} /\ rd_buffer = {}
  /\ rd_fd \in [FD -> {"terminal", "file", Closed}]
  /\ rd_pc \in {"open", "dup", "redirect", "work", "restore", "exited", "failed"}
  /\ rd_pc \in {"open", "dup", "redirect", "work"} => rd_shown = {}
  /\ rd_pc \in {"open", "dup", "redirect"} => \A f \in 0 .. 2 : rd_fd[f] = "terminal"
  /\ rd_pc \in {"open", "dup"} => rd_fd[4] = Closed /\ rd_fd[5] = Closed
  /\ rd_pc = "open" => rd_fd[file] = Closed
  /\ rd_pc \in {"dup", "redirect", "work"} => rd_fd[file] = "file"
  /\ rd_pc \in {"redirect", "work", "restore"} => Copies
  /\ rd_pc \in {"work", "restore"} =>
       /\ rd_fd[0] = "terminal"
       /\ rd_fd[1] = "file"
       /\ rd_fd[2] = IF rd_part = 2 THEN "file" ELSE "terminal"
  /\ rd_pc = "restore" =>
       /\ rd_fd[file] = Closed
       /\ rd_shown = {<<t, "file">> : t \in IF rd_part = 1 THEN {"output"} ELSE {"output", "errors"}}
  /\ Redirection

LEMMA RDInitInv == RDInit => RDIInv
BY DEF RDInit, RDIInv, FD, file, Closed, Redirection

LEMMA RDNextInv == RDIInv /\ [RDNext]_rd_vars => RDIInv'
<1> SUFFICES ASSUME RDIInv, [RDNext]_rd_vars PROVE RDIInv'  OBVIOUS
<1> USE DEF FD, file, Closed
<1>1. CASE Open
  <2>1. CASE rd_pc' = "dup"  BY <1>1, <2>1 DEF Open, ExitWith, RDIInv, Redirection
  <2>2. CASE ExitWith("failed", rd_fd, {}, {"failed_to_open"})
    BY <1>1, <2>2 DEF Open, ExitWith, RDIInv, Redirection
  <2> QED  BY <1>1, <2>1, <2>2 DEF Open
<1>2. CASE Dup
  <2>1. Std = IF rd_part = 1 THEN {1} ELSE {1, 2}
    <3>1. 1 .. 1 = {1} /\ 1 .. 2 = {1, 2}  OBVIOUS
    <3> QED  BY <3>1 DEF Std, RDIInv
  <2>2. /\ Cardinality({1}) = 1 /\ Cardinality({2}) = 1
        /\ Cardinality({1, 2}) = 2
    <3>1. Cardinality({1}) = 1 /\ Cardinality({2}) = 1 /\ IsFiniteSet({1})  BY FS_Singleton
    <3>2. {1, 2} = {1} \cup {2} /\ 2 \notin {1}  OBVIOUS
    <3> QED  BY <3>1, <3>2, FS_AddElement
  <2>3. PICK ok \in SUBSET Std :
          rd_saved' = [d \in {1, 2} |-> IF d \in ok THEN file + Cardinality({e \in ok : e <= d}) ELSE -1]
    BY <1>2 DEF Dup
  <2>4. /\ 1 \in ok => {e \in ok : e <= 1} = {1}
        /\ 2 \in ok => {e \in ok : e <= 2} = IF 1 \in ok THEN {1, 2} ELSE {2}
    <3>1. ok \subseteq {1, 2}  BY <2>1
    <3>2. \A e \in ok : (e <= 1 <=> e = 1) /\ e <= 2  BY <3>1
    <3>3. {e \in ok : e <= 1} = ok \cap {1} /\ {e \in ok : e <= 2} = ok  BY <3>2
    <3>4. 2 \in ok => ok = IF 1 \in ok THEN {1, 2} ELSE {2}  BY <3>1, Zenon
    <3> QED  BY <3>3, <3>4, Zenon
  <2>5. /\ rd_saved'[1] = IF 1 \in ok THEN 4 ELSE -1
        /\ rd_saved'[2] = IF 2 \in ok THEN IF 1 \in ok THEN 5 ELSE 4 ELSE -1
        /\ rd_saved' \in [{1, 2} -> {-1, 4, 5}]
    BY <2>2, <2>3, <2>4
  <2>6. 2 \in ok => rd_part = 2  BY <2>1 DEF RDIInv
  <2>7. rd_fd' = [f \in FD |-> IF \E d \in Std : rd_saved'[d] = f THEN "terminal" ELSE rd_fd[f]]
    BY <1>2 DEF Dup
  <2>8. \A f \in FD : rd_fd'[f] = IF f \in {rd_saved'[1], rd_saved'[2]} THEN "terminal" ELSE rd_fd[f]
    BY <2>1, <2>5, <2>6, <2>7
  <2>9. Copies'
    <3>1. rd_fd[4] = Closed /\ rd_fd[5] = Closed /\ UNCHANGED rd_part  BY <1>2 DEF Dup, RDIInv
    <3> QED  BY <3>1, <2>5, <2>6, <2>8 DEF Copies
  <2>10. rd_fd' \in [FD -> {"terminal", "file", Closed}] /\ \A f \in 0 .. 3 : rd_fd'[f] = rd_fd[f]
    <3>1. rd_fd \in [FD -> {"terminal", "file", Closed}]  BY DEF RDIInv
    <3>2. \A f \in 0 .. 3 : f \notin {rd_saved'[1], rd_saved'[2]}  BY <2>5
    <3> QED  BY <3>1, <3>2, <2>7, <2>8
  <2>11. rd_pc = "dup" /\ rd_pc' = "redirect" /\ UNCHANGED <<rd_part, rd_buffer, rd_shown>>
    BY <1>2 DEF Dup
  <2> QED  BY <2>9, <2>10, <2>11 DEF RDIInv, Redirection
<1>3. CASE Redirect
  <2>1. PICK k \in 0 .. rd_part :
          LET table == Dup2([d \in {1, 2} |-> file], k)
          IN  \/ /\ k = rd_part
                 /\ rd_fd' = table
                 /\ rd_pc' = "work"
                 /\ UNCHANGED <<rd_part, rd_saved, rd_buffer, rd_shown>>
              \/ k < rd_part /\ ExitWith("failed", table, {file}, {"failed_to_redirect"})
    BY <1>3 DEF Redirect
  <2>2. Dup2([d \in {1, 2} |-> file], k) = [f \in FD |-> IF f \in 1 .. k THEN "file" ELSE rd_fd[f]]
    BY <1>3 DEF Redirect, Dup2, RDIInv
  <2>3. CASE k = rd_part /\ rd_pc' = "work"
    BY <1>3, <2>1, <2>2, <2>3 DEF Redirect, ExitWith, RDIInv, Redirection, Copies
  <2>4. CASE k < rd_part /\ ExitWith("failed", Dup2([d \in {1, 2} |-> file], k), {file}, {"failed_to_redirect"})
    BY <1>3, <2>2, <2>4 DEF Redirect, ExitWith, RDIInv, Redirection, Copies
  <2> QED  BY <2>1, <2>3, <2>4
<1>4. CASE Work  BY <1>4 DEF Work, FlushedText, RDIInv, Redirection, Copies
<1>5. CASE Restore
  <2>1. PICK k \in 0 .. rd_part :
       /\ \A d \in 1 .. k : rd_saved[d] # -1
       /\ IF k = rd_part
            THEN ExitWith("exited", Dup2(rd_saved, k), {rd_saved[d] : d \in Std}, {})
            ELSE ExitWith("failed", Dup2(rd_saved, k), {}, {"failed_to_restore"})
    BY <1>5 DEF Restore
  <2>2. CASE k = rd_part
    <3>1. \A f \in FD : rd_fd'[f] = IF f <= 2 THEN "terminal" ELSE Closed
      BY <1>5, <2>1, <2>2 DEF Restore, ExitWith, RDIInv, Copies, Dup2, Std
    <3> QED  BY <1>5, <2>1, <2>2, <3>1 DEF Restore, ExitWith, RDIInv, Redirection
  <2>3. CASE k # rd_part
    BY <1>5, <2>1, <2>3 DEF Restore, ExitWith, RDIInv, Redirection, Copies, Dup2
  <2> QED  BY <2>2, <2>3
<1>6. CASE UNCHANGED rd_vars  BY <1>6 DEF rd_vars, RDIInv, Redirection, Copies
<1> QED  BY <1>1, <1>2, <1>3, <1>4, <1>5, <1>6 DEF RDNext

----------------------------------------------------------------------------
(* copy: what has been written, and that the source is as it was unless it  *)
(* is what was opened for writing.                                         *)

\* What a file held at the start.
Original(f) == IF f = "source" THEN [i \in 1 .. cp_length |-> i] ELSE <<0, 0>>

CPTypes ==
  /\ cp_dest \in {"source", "other", ".", "directory"}
  /\ cp_pc \in {"open_src", "open_dest", "copy", "returned", "reported"}
  /\ cp_file \in [CopiedFile -> Seq(Nat)]
  /\ cp_length \in Nat /\ cp_read \in Nat /\ cp_written \in Nat /\ cp_lost \in BOOLEAN

\* The file that is written holds blocks already read, in their order, all of
\* them unless a write has failed.
Written ==
  LET content == cp_file[Target]
  IN  /\ Len(content) = cp_written /\ cp_written <= cp_read /\ cp_read <= cp_length
      /\ \A i \in 1 .. cp_written : content[i] \in 1 .. cp_read
      /\ \A i, j \in 1 .. cp_written : i < j => content[i] < content[j]
      /\ ~cp_lost => cp_written = cp_read
      /\ cp_pc = "reported" => cp_read = cp_length

CPIInv ==
  /\ CPTypes
  /\ \A f \in CopiedFile : f # Target \/ cp_pc \notin {"copy", "reported"} => cp_file[f] = Original(f)
  /\ cp_pc \notin {"copy", "reported"} => cp_read = 0 /\ cp_written = 0 /\ ~cp_lost
  /\ cp_pc \in {"copy", "reported"} => IF Target = "source" THEN Len(cp_file["source"]) = 0
                                                            ELSE Written

\* The bytes of the source, numbered.
LEMMA OriginalType ==
  ASSUME cp_length \in Nat
  PROVE  /\ \A f \in CopiedFile : Original(f) \in Seq(Nat)
         /\ Len(Original("source")) = cp_length
         /\ \A i \in 1 .. cp_length : Original("source")[i] = i
BY DEF Original

\* What a write at the end of a file gives.
LEMMA WrittenAtEnd ==
  ASSUME NEW c \in Seq(Nat), NEW x \in Nat
  PROVE  LET d == SubSeq(c, 1, Len(c)) \o <<x>> \o SubSeq(c, Len(c) + 2, Len(c))
         IN  /\ d \in Seq(Nat) /\ Len(d) = Len(c) + 1
             /\ \A i \in 1 .. Len(c) : d[i] = c[i]
             /\ d[Len(c) + 1] = x
<1>1. Len(c) \in Nat  OBVIOUS
<1>2. SubSeq(c, 1, Len(c)) = c  BY SubSeqFull
<1>3. SubSeq(c, Len(c) + 2, Len(c)) = <<>>  BY <1>1, SubSeqEmpty
<1>4. <<x>> \in Seq(Nat) /\ Len(<<x>>) = 1 /\ <<x>>[1] = x  OBVIOUS
<1>5. (c \o <<x>>) \o <<>> = c \o <<x>>  BY <1>4, ConcatProperties, ConcatEmptySeq
<1>6. /\ c \o <<x>> \in Seq(Nat) /\ Len(c \o <<x>>) = Len(c) + 1
      /\ \A i \in 1 .. Len(c) + 1 : (c \o <<x>>)[i] = IF i <= Len(c) THEN c[i] ELSE <<x>>[i - Len(c)]
  BY <1>4, ConcatProperties
<1>7. /\ \A i \in 1 .. Len(c) : (c \o <<x>>)[i] = c[i]
      /\ (c \o <<x>>)[Len(c) + 1] = x
  BY <1>1, <1>4, <1>6
<1> QED  BY <1>2, <1>3, <1>5, <1>6, <1>7

LEMMA CPInitInv == CPInit => CPIInv
<1> SUFFICES ASSUME CPInit PROVE CPIInv  OBVIOUS
<1>1. cp_length \in Nat  BY CopyAssumption DEF CPInit
<1>2. cp_file = [f \in CopiedFile |-> Original(f)]  BY DEF CPInit, Original
<1> QED  BY <1>1, <1>2, OriginalType DEF CPInit, CPIInv, CPTypes

LEMMA CPNextInv == CPIInv /\ [CPNext]_cp_vars => CPIInv'
<1> SUFFICES ASSUME CPIInv, [CPNext]_cp_vars PROVE CPIInv'  OBVIOUS
<1> USE DEF cp_offsets
<1>t. Target \in CopiedFile  BY DEF CPIInv, CPTypes, Target, CopiedFile
<1>u. ASSUME UNCHANGED <<cp_dest, cp_length>>
      PROVE  UNCHANGED Target /\ \A f : UNCHANGED Original(f)
  BY <1>u DEF Target, Original
<1>1. CASE OpenSource  BY <1>1, <1>u DEF OpenSource, CPIInv, CPTypes
<1>2. CASE OpenDest
  <2>1. CASE cp_pc' = "returned"  BY <1>2, <2>1, <1>u DEF OpenDest, CPIInv, CPTypes
  <2>2. CASE cp_pc' = "copy" /\ cp_file' = [cp_file EXCEPT ![Target] = <<>>]
    <3>1. Len(<<>>) = 0 /\ <<>> \in Seq(Nat)  OBVIOUS
    <3>2. /\ cp_file' \in [CopiedFile -> Seq(Nat)] /\ Len(cp_file'[Target]) = 0
          /\ \A f \in CopiedFile : f # Target => cp_file'[f] = cp_file[f]
      BY <2>2, <3>1, <1>t DEF CPIInv, CPTypes
    <3>3. "source" \in CopiedFile  BY DEF CopiedFile
    <3>4. UNCHANGED <<cp_dest, cp_length, cp_read, cp_written, cp_lost>> /\ cp_pc = "open_dest"
      BY <1>2 DEF OpenDest
    <3> QED  BY <2>2, <3>2, <3>3, <3>4, <1>u DEF CPIInv, CPTypes, Written
  <2> QED  BY <1>2, <2>1, <2>2 DEF OpenDest, Opened
<1>3. CASE CopyBlock
  <2>1. cp_pc = "copy" /\ Target # "source"  BY <1>3 DEF CopyBlock, End, CPIInv, CPTypes
  <2>2. /\ cp_file["source"] = Original("source") /\ Written
        /\ cp_length \in Nat
    BY <2>1 DEF CPIInv, CPTypes, CopiedFile
  <2>3. cp_read < cp_length /\ cp_file["source"][cp_read + 1] = cp_read + 1
    BY <2>2, <1>3, OriginalType DEF CopyBlock, End, CPIInv, CPTypes
  <2>4. CASE cp_lost' = TRUE /\ UNCHANGED <<cp_written, cp_file>>
    BY <1>3, <1>u, <2>1, <2>2, <2>3, <2>4 DEF CopyBlock, CPIInv, CPTypes, Written
  <2>5. CASE cp_written' = cp_written + 1 /\ UNCHANGED cp_lost
    <3>1. /\ cp_file[Target] \in Seq(Nat) /\ Len(cp_file[Target]) = cp_written
          /\ cp_read \in Nat /\ cp_written \in Nat
      BY <1>t, <2>2 DEF CPIInv, CPTypes, Written
    <3>2. cp_file' = [cp_file EXCEPT ![Target] =
            SubSeq(@, 1, cp_written) \o <<cp_read + 1>> \o SubSeq(@, cp_written + 2, Len(@))]
      BY <1>3, <2>3, <2>5, <3>1 DEF CopyBlock
    <3>3. /\ cp_file' \in [CopiedFile -> Seq(Nat)]
          /\ \A f \in CopiedFile : f # Target => cp_file'[f] = cp_file[f]
          /\ Len(cp_file'[Target]) = cp_written + 1
          /\ \A i \in 1 .. cp_written : cp_file'[Target][i] = cp_file[Target][i]
          /\ cp_file'[Target][cp_written + 1] = cp_read + 1
      <4> DEFINE d == SubSeq(cp_file[Target], 1, cp_written) \o <<cp_read + 1>>
                        \o SubSeq(cp_file[Target], cp_written + 2, Len(cp_file[Target]))
      <4>1. /\ d \in Seq(Nat) /\ Len(d) = cp_written + 1
            /\ \A i \in 1 .. cp_written : d[i] = cp_file[Target][i]
            /\ d[cp_written + 1] = cp_read + 1
        BY <3>1, WrittenAtEnd
      <4>2. cp_file' = [cp_file EXCEPT ![Target] = d] /\ cp_file \in [CopiedFile -> Seq(Nat)]
        BY <3>2 DEF CPIInv, CPTypes
      <4> HIDE DEF d
      <4> QED  BY <4>1, <4>2, <1>t
    <3>4. UNCHANGED <<cp_dest, cp_pc, cp_length>> /\ cp_read' = cp_read + 1  BY <1>3 DEF CopyBlock
    <3>5. UNCHANGED Target /\ \A f : UNCHANGED Original(f)  BY <1>u, <3>4
    <3>6. Written'
      <4>0. \A i \in 1 .. cp_written : cp_file[Target][i] \in Nat  BY <3>1
      <4>1. \A i \in 1 .. cp_written + 1 : i \in 1 .. cp_written \/ i = cp_written + 1  BY <3>1
      <4>2. cp_file'[Target'] = cp_file'[Target]  BY <3>5
      <4>3. \A i \in 1 .. cp_written + 1 : cp_file'[Target][i] \in 1 .. cp_read + 1
        <5> TAKE i \in 1 .. cp_written + 1
        <5>1. CASE i \in 1 .. cp_written
          <6>1. cp_file[Target][i] \in 1 .. cp_read  BY <5>1, <2>2 DEF Written
          <6>2. cp_file'[Target][i] = cp_file[Target][i]  BY <5>1, <3>3
          <6> QED  BY <6>1, <6>2, <3>1
        <5>2. CASE i = cp_written + 1  BY <5>2, <3>1, <3>3
        <5> QED  BY <5>1, <5>2, <4>1
      <4>4. \A i, j \in 1 .. cp_written + 1 : i < j => cp_file'[Target][i] < cp_file'[Target][j]
        <5> SUFFICES ASSUME NEW i \in 1 .. cp_written + 1, NEW j \in 1 .. cp_written + 1, i < j
                     PROVE  cp_file'[Target][i] < cp_file'[Target][j]
          OBVIOUS
        <5>1. i \in 1 .. cp_written  BY <3>1
        <5>2. cp_file'[Target][i] = cp_file[Target][i] /\ cp_file[Target][i] \in 1 .. cp_read
          BY <5>1, <2>2, <3>3 DEF Written
        <5>3. CASE j = cp_written + 1  BY <5>2, <5>3, <3>1, <3>3
        <5>4. CASE j \in 1 .. cp_written
          BY <5>1, <5>2, <5>4, <2>2, <3>3 DEF Written
        <5> QED  BY <5>3, <5>4, <4>1
      <4>5. cp_written <= cp_read /\ (~cp_lost => cp_written = cp_read)  BY <2>2 DEF Written
      <4>6. cp_written' <= cp_read' /\ (~cp_lost' => cp_written' = cp_read') /\ cp_read' <= cp_length'
        BY <2>3, <2>5, <3>1, <3>4, <4>5, <2>2
      <4>7. cp_pc' # "reported" /\ Len(cp_file'[Target']) = cp_written'  BY <2>1, <2>5, <3>3, <3>4, <4>2
      <4>8. cp_written' = cp_written + 1 /\ cp_read' = cp_read + 1  BY <2>5, <3>4
      <4> QED  BY <4>2, <4>3, <4>4, <4>6, <4>7, <4>8 DEF Written
    <3> QED  BY <2>1, <2>5, <3>1, <3>3, <3>4, <3>5, <3>6 DEF CPIInv, CPTypes
  <2> QED  BY <1>3, <2>4, <2>5 DEF CopyBlock
<1>4. CASE Report
  <2>1. cp_pc = "copy" /\ cp_pc' = "reported" /\ cp_read >= Len(cp_file["source"])
        /\ UNCHANGED <<cp_dest, cp_file, cp_length, cp_read, cp_written, cp_lost>>
    BY <1>4 DEF Report, End
  <2>2. Target # "source" => Len(cp_file["source"]) = cp_length
    BY <2>1, OriginalType DEF CPIInv, CPTypes, CopiedFile
  <2> QED  BY <1>u, <2>1, <2>2 DEF CPIInv, CPTypes, Written
<1>5. CASE UNCHANGED cp_vars
  BY <1>5, <1>u DEF cp_vars, CPIInv, CPTypes, Written
<1> QED  BY <1>1, <1>2, <1>3, <1>4, <1>5 DEF CPNext

LEMMA CopyFaithfulInv == CPIInv => CopyFaithful
BY DEF CPIInv, CPTypes, Written, Original, CopyFaithful

----------------------------------------------------------------------------
(* move: an entry that is still in the source is in a call of move that is  *)
(* yet to come back to it, or is accounted for by a refusal above it.      *)

\* The directory of an entry is above it.
LEMMA AboveParent ==
  \A e \in Entry : Parent[e] \in Above[e] /\ Above[e] \subseteq Dirs
BY MoveTreeAssumption DEF Above

\* The directories above an entry are in every set of directories that its
\* parent is in, and with a directory the parent of it.
LEMMA AboveLeast ==
  ASSUME NEW e \in Entry, NEW S \in SUBSET Dirs, Parent[e] \in S,
         \A x \in S \ {Top} : Parent[x] \in S
  PROVE  Above[e] \subseteq S
BY DEF Above

\* With a directory its own directory is above an entry.
LEMMA AboveUpwards ==
  ASSUME NEW e \in Entry, NEW d \in Above[e], d # Top
  PROVE  Parent[d] \in Above[e]
<1>1. d \in Entry /\ Parent[d] \in Dirs
  BY AboveParent, MoveTreeAssumption DEF Dirs
<1> SUFFICES ASSUME NEW S \in SUBSET Dirs, Parent[e] \in S, \A x \in S \ {Top} : Parent[x] \in S
             PROVE  Parent[d] \in S
  BY <1>1 DEF Above
<1>2. d \in S  BY AboveLeast
<1> QED  BY <1>2

\* An entry below d is d's child, or below one.
LEMMA ChildOnTheWay ==
  ASSUME NEW e \in Entry, NEW d \in Above[e]
  PROVE  \E c \in {e} \cup (Above[e] \ {Top}) : c \in Entry /\ Parent[c] = d
<1> SUFFICES ASSUME \A c \in {e} \cup (Above[e] \ {Top}) : c \in Entry => Parent[c] # d
             PROVE  FALSE
  OBVIOUS
<1> DEFINE S == Above[e] \ {d}
<1>1. Above[e] \subseteq Dirs /\ Parent[e] \in S  BY AboveParent
<1>2. \A x \in S \ {Top} : x \in Entry  BY <1>1, MoveTreeAssumption DEF Dirs
<1>3. \A x \in S \ {Top} : Parent[x] \in S  BY <1>2, AboveUpwards
<1>4. S \in SUBSET Dirs  BY <1>1
<1> HIDE DEF S
<1>5. Above[e] \subseteq S  BY <1>1, <1>3, <1>4, AboveLeast
<1> QED  BY <1>5 DEF S

Frame == [dir : Dirs, todo : SUBSET Entry]

\* The calls of move_directory: each for a directory in that of the call below.
Frames ==
  /\ mv_stack \in Seq(Frame)
  /\ \A k \in 1 .. Len(mv_stack) :
       /\ mv_stack[k].dir = Top <=> k = 1
       /\ \A x \in mv_stack[k].todo : Parent[x] = mv_stack[k].dir
  /\ \A k \in 2 .. Len(mv_stack) : Parent[mv_stack[k].dir] = mv_stack[k - 1].dir

\* The walk still gets to e, or is in it.
Pending(e) ==
  \E k \in 1 .. Len(mv_stack) :
    e = mv_stack[k].dir \/ ({e} \cup Above[e]) \cap mv_stack[k].todo # {}

\* There is a reason for e to stay behind.
Accounted(e) ==
  \/ mv_refused \cap ({e} \cup Above[e]) # {}
  \/ \E f \in mv_src : e \in Above[f]

MVTypes ==
  /\ mv_pc \in {"start", "walk", "done"}
  /\ mv_src \subseteq Entry /\ mv_dest \subseteq Entry \cup {Top}
  /\ mv_pc = "start" => mv_src = Entry
  /\ mv_pc = "walk" <=> mv_stack # <<>>

OnePlace ==
  /\ \A e \in Entry \ Directories : e \in mv_src <=> e \notin mv_dest
  /\ \A e \in mv_src : Parent[e] \in mv_src \cup {Top}

MVIInv ==
  /\ MVTypes /\ Frames /\ OnePlace
  /\ mv_pc # "start" => \A e \in mv_src : Pending(e) \/ Accounted(e)

\* What is above an entry of a call's directory are the directories of the calls.
LEMMA AboveOnStack ==
  ASSUME Frames, NEW n \in 1 .. Len(mv_stack), NEW e \in Entry, Parent[e] = mv_stack[n].dir
  PROVE  \A d \in Above[e] : \E k \in 1 .. n : mv_stack[k].dir = d
<1> DEFINE S == {mv_stack[k].dir : k \in 1 .. n}
<1>1. Len(mv_stack) \in Nat /\ \A k \in 1 .. Len(mv_stack) : mv_stack[k] \in Frame  BY DEF Frames
<1>2. S \in SUBSET Dirs /\ Parent[e] \in S  BY <1>1 DEF Frame
<1>3. \A x \in S \ {Top} : Parent[x] \in S
  <2> SUFFICES ASSUME NEW k \in 1 .. n, mv_stack[k].dir # Top PROVE Parent[mv_stack[k].dir] \in S
    OBVIOUS
  <2>1. k \in 2 .. Len(mv_stack) /\ k - 1 \in 1 .. n  BY <1>1 DEF Frames
  <2> QED  BY <2>1 DEF Frames
<1> HIDE DEF S
<1>4. Above[e] \subseteq S  BY <1>2, <1>3, AboveLeast
<1> QED  BY <1>4 DEF S

\* All that is left in src has what is above it there.
LEMMA AboveLeft ==
  ASSUME MVTypes, OnePlace, NEW e \in mv_src
  PROVE  Above[e] \subseteq mv_src \cup {Top}
<1> DEFINE S == (mv_src \cup {Top}) \cap Dirs
<1>1. e \in Entry /\ Parent[e] \in S  BY MoveTreeAssumption DEF MVTypes, OnePlace
<1>2. \A x \in S \ {Top} : x \in Entry /\ x \in mv_src  BY DEF MVTypes
<1>3. \A x \in S \ {Top} : Parent[x] \in S  BY <1>2, MoveTreeAssumption DEF OnePlace
<1>4. S \in SUBSET Dirs  OBVIOUS
<1> HIDE DEF S
<1>5. Above[e] \subseteq S  BY <1>1, <1>3, <1>4, AboveLeast
<1> QED  BY <1>5 DEF S

LEMMA MVInitInv == MVInit => MVIInv
<1> SUFFICES ASSUME MVInit PROVE MVIInv  OBVIOUS
<1>1. <<>> \in Seq(Frame) /\ Len(<<>>) = 0  OBVIOUS
<1>2. Frames  BY <1>1 DEF MVInit, Frames
<1>3. MVTypes /\ OnePlace  BY MoveTreeAssumption DEF MVInit, MVTypes, OnePlace, Dirs
<1> QED  BY <1>2, <1>3 DEF MVInit, MVIInv

\* The stack once an entry has been read.
LEMMA ReadFrames ==
  ASSUME Frames, mv_stack # <<>>, NEW e
  PROVE  /\ Read(e) \in Seq(Frame) /\ Len(Read(e)) = Len(mv_stack) /\ Len(mv_stack) \in Nat \ {0}
         /\ \A k \in 1 .. Len(mv_stack) :
              /\ Read(e)[k].dir = mv_stack[k].dir
              /\ Read(e)[k].todo = IF k = Len(mv_stack) THEN mv_stack[k].todo \ {e} ELSE mv_stack[k].todo
<1>1. Len(mv_stack) \in Nat \ {0} /\ mv_stack \in Seq(Frame)  BY DEF Frames
<1>2. \A k \in 1 .. Len(mv_stack) : mv_stack[k] \in Frame  BY <1>1
<1>3. Read(e) = [mv_stack EXCEPT ![Len(mv_stack)] = [mv_stack[Len(mv_stack)] EXCEPT !.todo = @ \ {e}]]
  BY <1>1 DEF Read
<1>4. mv_stack[Len(mv_stack)] \in Frame  BY <1>1, <1>2
<1>5. [mv_stack[Len(mv_stack)] EXCEPT !.todo = @ \ {e}] \in Frame  BY <1>4 DEF Frame
<1> DEFINE r == [mv_stack[Len(mv_stack)] EXCEPT !.todo = @ \ {e}]
<1>6. r.dir = mv_stack[Len(mv_stack)].dir /\ r.todo = mv_stack[Len(mv_stack)].todo \ {e}
  BY <1>4 DEF Frame
<1> HIDE DEF r
<1>7. Read(e) = [mv_stack EXCEPT ![Len(mv_stack)] = r] /\ r \in Frame  BY <1>3, <1>5 DEF r
<1>8. /\ Read(e) \in Seq(Frame) /\ Len(Read(e)) = Len(mv_stack)
      /\ \A k \in 1 .. Len(mv_stack) : Read(e)[k] = IF k = Len(mv_stack) THEN r ELSE mv_stack[k]
  BY <1>1, <1>7
<1> QED  BY <1>1, <1>6, <1>8

\* A call for a directory whose entries have been listed.
LEMMA EnterFrames ==
  ASSUME MVTypes, NEW calls \in Seq(Frame), NEW d \in Dirs
  PROVE  LET r == Append(calls, [dir |-> d, todo |-> In(d)])
         IN  /\ r \in Seq(Frame) /\ Len(r) = Len(calls) + 1 /\ Len(calls) \in Nat
             /\ \A k \in 1 .. Len(calls) : r[k] = calls[k]
             /\ r[Len(calls) + 1].dir = d /\ r[Len(calls) + 1].todo = In(d)
<1>1. [dir |-> d, todo |-> In(d)] \in Frame  BY DEF Frame, In, MVTypes
<1> QED  BY <1>1

\* What a call for directory d does whatever fails.
LEMMA EnterInv ==
  ASSUME MVTypes, OnePlace, NEW d \in Dirs, NEW calls, Enter(d, calls), UNCHANGED mv_src
  PROVE  /\ OnePlace' /\ mv_dest' \subseteq Entry \cup {Top}
         /\ mv_refused \subseteq mv_refused'
         /\ \/ mv_stack' = Append(calls, [dir |-> d, todo |-> In(d)])
            \/ mv_stack' = calls /\ d \in mv_refused'
<1>1. PICK made \in BOOLEAN, opened \in BOOLEAN :
        /\ mv_dest' = IF made THEN mv_dest \cup {d} ELSE mv_dest
        /\ mv_stack' = IF opened THEN Append(calls, [dir |-> d, todo |-> In(d)]) ELSE calls
        /\ mv_refused' = IF opened /\ d \in mv_dest' THEN mv_refused ELSE mv_refused \cup {d}
  BY DEF Enter
<1>2. mv_dest' \subseteq mv_dest \cup {d}  BY <1>1
<1>3. d \notin Entry \ Directories  BY MoveTreeAssumption DEF Dirs
<1>4. mv_dest \subseteq mv_dest'  BY <1>1
<1>5. OnePlace'  BY <1>2, <1>3, <1>4 DEF OnePlace
<1>6. mv_dest' \subseteq Entry \cup {Top}  BY <1>2, MoveTreeAssumption DEF MVTypes, Dirs
<1> QED  BY <1>1, <1>5, <1>6

LEMMA StartInv == MVIInv /\ Start => MVIInv'
<1> SUFFICES ASSUME MVIInv, Start PROVE MVIInv'  OBVIOUS
<1>1. /\ mv_src' = mv_src /\ mv_src = Entry /\ MVTypes /\ OnePlace
      /\ mv_pc' = IF mv_stack' = <<>> THEN "done" ELSE "walk"
  BY DEF Start, MVIInv, MVTypes
<1>2. Top \in Dirs /\ <<>> \in Seq(Frame) /\ Len(<<>>) = 0  BY DEF Dirs
<1>3. /\ OnePlace' /\ mv_dest' \subseteq Entry \cup {Top}
      /\ \/ mv_stack' = Append(<<>>, [dir |-> Top, todo |-> In(Top)])
         \/ mv_stack' = <<>> /\ Top \in mv_refused'
  BY <1>1, <1>2, EnterInv DEF Start
<1>4. MVTypes'  BY <1>1, <1>3 DEF MVTypes
<1>5. CASE mv_stack' = Append(<<>>, [dir |-> Top, todo |-> In(Top)])
  <2>1. /\ mv_stack' \in Seq(Frame) /\ Len(mv_stack') = 1
        /\ mv_stack'[1].dir = Top /\ mv_stack'[1].todo = In(Top)
    <3>1. /\ mv_stack' \in Seq(Frame) /\ Len(mv_stack') = Len(<<>>) + 1
          /\ mv_stack'[Len(<<>>) + 1].dir = Top /\ mv_stack'[Len(<<>>) + 1].todo = In(Top)
      BY <1>1, <1>2, <1>5, EnterFrames, Zenon
    <3>2. Len(<<>>) + 1 = 1  BY <1>2
    <3> QED  BY <3>1, <3>2
  <2>2. Frames'  BY <2>1 DEF Frames, In
  <2>3. \A e \in mv_src' : Pending(e)'
    <3> SUFFICES ASSUME NEW e \in Entry PROVE ({e} \cup Above[e]) \cap mv_stack'[1].todo # {}
      BY <1>1, <2>1 DEF Pending
    <3>1. PICK c \in {e} \cup (Above[e] \ {Top}) : c \in Entry /\ Parent[c] = Top
      BY MoveTreeAssumption, ChildOnTheWay
    <3> QED  BY <3>1, <2>1, <1>1 DEF In
  <2> QED  BY <1>3, <1>4, <2>2, <2>3 DEF MVIInv
<1>6. CASE mv_stack' = <<>> /\ Top \in mv_refused'
  <2>1. Frames'  BY <1>2, <1>6 DEF Frames
  <2>2. \A e \in mv_src' : Accounted(e)'  BY <1>1, <1>6, MoveTreeAssumption DEF Accounted
  <2> QED  BY <1>3, <1>4, <2>1, <2>2 DEF MVIInv
<1> QED  BY <1>3, <1>5, <1>6

LEMMA SubdirectoryInv ==
  ASSUME MVIInv, mv_pc = "walk", NEW e \in Call.todo, move_subdirectory(e)
  PROVE  MVIInv'
<1> DEFINE n == Len(mv_stack)
<1>1. /\ MVTypes /\ OnePlace /\ Frames /\ mv_stack # <<>>
      /\ \A x \in mv_src : Pending(x) \/ Accounted(x)
      /\ UNCHANGED <<mv_pc, mv_src>> /\ e \in Directories /\ e \in Dirs
  BY DEF MVIInv, MVTypes, move_subdirectory, Dirs
<1>2. /\ Read(e) \in Seq(Frame) /\ Len(Read(e)) = n /\ n \in Nat \ {0}
      /\ \A k \in 1 .. n :
           /\ Read(e)[k].dir = mv_stack[k].dir
           /\ Read(e)[k].todo = IF k = n THEN mv_stack[k].todo \ {e} ELSE mv_stack[k].todo
  BY <1>1, ReadFrames
<1>3. /\ OnePlace' /\ mv_dest' \subseteq Entry \cup {Top}
      /\ mv_refused \subseteq mv_refused'
      /\ \/ mv_stack' = Append(Read(e), [dir |-> e, todo |-> In(e)])
         \/ mv_stack' = Read(e) /\ e \in mv_refused'
  BY <1>1, EnterInv DEF move_subdirectory
<1>4. e \in Entry /\ e # Top /\ Parent[e] = mv_stack[n].dir
  BY <1>1, <1>2, MoveTreeAssumption DEF Frames, Call
<1>5. \A x \in mv_src : Accounted(x) => Accounted(x)'  BY <1>1, <1>3 DEF Accounted
<1>6. CASE mv_stack' = Append(Read(e), [dir |-> e, todo |-> In(e)])
  <2>1. /\ mv_stack' \in Seq(Frame) /\ Len(mv_stack') = n + 1
        /\ \A k \in 1 .. n : mv_stack'[k] = Read(e)[k]
        /\ mv_stack'[n + 1].dir = e /\ mv_stack'[n + 1].todo = In(e)
    BY <1>1, <1>2, <1>6, EnterFrames
  <2>2. Frames'
    <3>0. \A k \in 1 .. n : mv_stack'[k].dir = mv_stack[k].dir /\ mv_stack'[k].todo \subseteq mv_stack[k].todo
      BY <1>2, <2>1
    <3>1. \A k \in 1 .. n + 1 : k \in 1 .. n \/ k = n + 1  BY <1>2
    <3>2. \A k \in 2 .. n + 1 : k \in 2 .. n \/ k = n + 1  BY <1>2
    <3>3. \A k \in 1 .. n + 1 :
            /\ mv_stack'[k].dir = Top <=> k = 1
            /\ \A x \in mv_stack'[k].todo : Parent[x] = mv_stack'[k].dir
      <4>1. ASSUME NEW k \in 1 .. n
            PROVE  /\ mv_stack'[k].dir = Top <=> k = 1
                   /\ \A x \in mv_stack'[k].todo : Parent[x] = mv_stack'[k].dir
        BY <1>1, <3>0 DEF Frames
      <4>2. /\ mv_stack'[n + 1].dir # Top /\ n + 1 # 1
            /\ \A x \in mv_stack'[n + 1].todo : Parent[x] = mv_stack'[n + 1].dir
        BY <1>2, <1>4, <2>1 DEF In
      <4> TAKE k \in 1 .. n + 1
      <4>3. CASE k \in 1 .. n  BY <4>1, <4>3
      <4>4. CASE k = n + 1  BY <4>2, <4>4
      <4> QED  BY <3>1, <4>3, <4>4
    <3>4. \A k \in 2 .. n + 1 : Parent[mv_stack'[k].dir] = mv_stack'[k - 1].dir
      <4>1. \A k \in 2 .. n : k \in 1 .. n /\ k - 1 \in 1 .. n  BY <1>2
      <4>2. (n + 1) - 1 = n /\ n \in 1 .. n  BY <1>2
      <4>3. ASSUME NEW k \in 2 .. n PROVE Parent[mv_stack'[k].dir] = mv_stack'[k - 1].dir
        BY <1>1, <3>0, <4>1 DEF Frames
      <4>4. Parent[mv_stack'[n + 1].dir] = mv_stack'[n].dir  BY <1>4, <2>1, <3>0, <4>2
      <4> TAKE k \in 2 .. n + 1
      <4>5. CASE k \in 2 .. n  BY <4>3, <4>5
      <4>6. CASE k = n + 1  BY <4>2, <4>4, <4>6
      <4> QED  BY <3>2, <4>5, <4>6
    <3> QED  BY <2>1, <3>3, <3>4 DEF Frames
  <2>3. \A x \in mv_src' : Pending(x)' \/ Accounted(x)'
    <3> SUFFICES ASSUME NEW x \in mv_src, Pending(x) PROVE Pending(x)'  BY <1>1, <1>5
    <3>1. PICK k \in 1 .. n : x = mv_stack[k].dir \/ ({x} \cup Above[x]) \cap mv_stack[k].todo # {}
      BY DEF Pending
    <3>2. k \in 1 .. n + 1 /\ n + 1 \in 1 .. n + 1  BY <1>2
    <3>3. CASE x = mv_stack[k].dir  BY <3>2, <3>3, <1>2, <2>1 DEF Pending
    <3>4. ASSUME NEW y \in ({x} \cup Above[x]) \cap mv_stack[k].todo, y # e
          PROVE  Pending(x)'
      <4>1. y \in mv_stack'[k].todo  BY <3>4, <1>2, <2>1
      <4> QED  BY <3>2, <3>4, <2>1, <4>1 DEF Pending
    <3>5. CASE x = e  BY <3>2, <3>5, <2>1 DEF Pending
    <3>6. CASE e \in Above[x]
      <4>1. x \in Entry /\ Above[x] \subseteq mv_src \cup {Top}  BY <1>1, AboveLeft DEF MVTypes
      <4>2. PICK c \in {x} \cup (Above[x] \ {Top}) : c \in Entry /\ Parent[c] = e
        BY <3>6, <4>1, ChildOnTheWay
      <4>3. c \in mv_stack'[n + 1].todo  BY <2>1, <4>1, <4>2 DEF In
      <4> QED  BY <3>2, <2>1, <4>2, <4>3 DEF Pending
    <3> QED  BY <3>1, <3>3, <3>4, <3>5, <3>6
  <2>4. MVTypes'
    <3>1. mv_stack' # <<>>  BY <2>1, <1>2
    <3> QED  BY <1>1, <1>3, <3>1 DEF MVTypes
  <2> QED  BY <1>3, <2>2, <2>3, <2>4 DEF MVIInv
<1>7. CASE mv_stack' = Read(e) /\ e \in mv_refused'
  <2>2. Frames'
    <3>1. \A k \in 1 .. n :
            /\ mv_stack'[k].dir = Top <=> k = 1
            /\ \A x \in mv_stack'[k].todo : Parent[x] = mv_stack'[k].dir
      BY <1>1, <1>2, <1>7 DEF Frames
    <3>2. \A k \in 2 .. n : Parent[mv_stack'[k].dir] = mv_stack'[k - 1].dir
      <4>1. \A k \in 2 .. n : k \in 1 .. n /\ k - 1 \in 1 .. n  BY <1>2
      <4> QED  BY <1>1, <1>2, <1>7, <4>1 DEF Frames
    <3> QED  BY <1>2, <1>7, <3>1, <3>2 DEF Frames
  <2>3. \A x \in mv_src' : Pending(x)' \/ Accounted(x)'
    <3> SUFFICES ASSUME NEW x \in mv_src, Pending(x) PROVE Pending(x)' \/ Accounted(x)'  BY <1>1, <1>5
    <3>1. PICK k \in 1 .. n : x = mv_stack[k].dir \/ ({x} \cup Above[x]) \cap mv_stack[k].todo # {}
      BY DEF Pending
    <3>3. CASE x = mv_stack[k].dir  BY <3>3, <1>2, <1>7 DEF Pending
    <3>4. ASSUME NEW y \in ({x} \cup Above[x]) \cap mv_stack[k].todo, y # e
          PROVE  Pending(x)'
      <4>1. y \in mv_stack'[k].todo  BY <3>4, <1>2, <1>7
      <4> QED  BY <3>4, <1>2, <1>7, <4>1 DEF Pending
    <3>5. CASE e \in {x} \cup Above[x]  BY <3>5, <1>7 DEF Accounted
    <3> QED  BY <3>1, <3>3, <3>4, <3>5
  <2>4. MVTypes'
    <3>1. mv_stack' # <<>>  BY <1>2, <1>7
    <3> QED  BY <1>1, <1>3, <3>1 DEF MVTypes
  <2> QED  BY <1>3, <2>2, <2>3, <2>4 DEF MVIInv
<1> QED  BY <1>3, <1>6, <1>7

LEMMA FileInv ==
  ASSUME MVIInv, mv_pc = "walk", NEW e \in Call.todo, move_file(e)
  PROVE  MVIInv'
<1> DEFINE n == Len(mv_stack)
<1>1. /\ MVTypes /\ OnePlace /\ Frames /\ mv_stack # <<>>
      /\ \A x \in mv_src : Pending(x) \/ Accounted(x)
      /\ UNCHANGED mv_pc /\ e \notin Directories /\ mv_stack' = Read(e)
  BY DEF MVIInv, MVTypes, move_file
<1>2. /\ Read(e) \in Seq(Frame) /\ Len(Read(e)) = n /\ n \in Nat \ {0}
      /\ \A k \in 1 .. n :
           /\ Read(e)[k].dir = mv_stack[k].dir
           /\ Read(e)[k].todo = IF k = n THEN mv_stack[k].todo \ {e} ELSE mv_stack[k].todo
  BY <1>1, ReadFrames
<1>3. e \in Entry /\ e \notin Dirs /\ Parent[e] = mv_stack[n].dir
  <2>1. n \in 1 .. n /\ mv_stack[n] \in Frame  BY <1>1, <1>2 DEF Frames
  <2>2. e \in Entry  BY <2>1 DEF Call, Frame
  <2> QED  BY <1>1, <2>1, <2>2, MoveTreeAssumption DEF Frames, Call, Dirs
<1>4. Frames'
  <2>1. \A k \in 1 .. n : mv_stack'[k].dir = mv_stack[k].dir /\ mv_stack'[k].todo \subseteq mv_stack[k].todo
    BY <1>1, <1>2
  <2>2. \A k \in 2 .. n : k \in 1 .. n /\ k - 1 \in 1 .. n  BY <1>2
  <2>3. \A k \in 1 .. n :
          /\ mv_stack'[k].dir = Top <=> k = 1
          /\ \A x \in mv_stack'[k].todo : Parent[x] = mv_stack'[k].dir
    BY <1>1, <2>1 DEF Frames
  <2>4. \A k \in 2 .. n : Parent[mv_stack'[k].dir] = mv_stack'[k - 1].dir
    BY <1>1, <2>1, <2>2 DEF Frames
  <2> QED  BY <1>1, <1>2, <2>3, <2>4 DEF Frames
<1>5. \A x \in Entry : e \notin Above[x]  BY <1>3, AboveParent
<1>6. \A x \in mv_src \ {e} : Pending(x) => Pending(x)'
  <2> SUFFICES ASSUME NEW x \in mv_src, x # e, Pending(x) PROVE Pending(x)'  OBVIOUS
  <2>1. PICK k \in 1 .. n : x = mv_stack[k].dir \/ ({x} \cup Above[x]) \cap mv_stack[k].todo # {}
    BY DEF Pending
  <2>2. e \notin {x} \cup Above[x]  BY <1>1, <1>5 DEF MVTypes
  <2>3. mv_stack'[k].dir = mv_stack[k].dir /\ mv_stack[k].todo \ {e} \subseteq mv_stack'[k].todo
    BY <1>1, <1>2
  <2>4. x = mv_stack'[k].dir \/ ({x} \cup Above[x]) \cap mv_stack'[k].todo # {}
    BY <2>1, <2>2, <2>3
  <2> QED  BY <1>1, <1>2, <2>4 DEF Pending
<1>7. CASE /\ mv_src' = mv_src \ {e}
           /\ mv_dest' = mv_dest \cup {e}
           /\ UNCHANGED mv_refused
  <2>1. MVTypes'
    <3>1. mv_stack' # <<>>  BY <1>1, <1>2
    <3>2. mv_pc # "start" /\ mv_pc = "walk"  BY <1>1
    <3> QED  BY <1>1, <1>3, <1>7, <3>1, <3>2 DEF MVTypes
  <2>2. OnePlace'
    <3>1. \A x \in mv_src : Parent[x] # e  BY <1>1, <1>3, MoveTreeAssumption DEF MVTypes
    <3> QED  BY <1>1, <1>3, <1>7, <3>1 DEF OnePlace
  <2>3. \A x \in mv_src' : Pending(x)' \/ Accounted(x)'
    <3> SUFFICES ASSUME NEW x \in mv_src, x # e, ~Pending(x) PROVE Accounted(x)'  BY <1>6, <1>7
    <3>1. Accounted(x)  BY <1>1
    <3>2. CASE mv_refused \cap ({x} \cup Above[x]) # {}  BY <3>2, <1>7 DEF Accounted
    <3>3. ASSUME NEW f \in mv_src, x \in Above[f] PROVE Accounted(x)'
      <4>1. f # e
        <5>1. x \in Above[e] => \E k \in 1 .. n : mv_stack[k].dir = x
          BY <1>1, <1>2, <1>3, AboveOnStack
        <5> QED  BY <5>1, <3>3 DEF Pending
      <4> QED  BY <3>3, <4>1, <1>7 DEF Accounted
    <3> QED  BY <3>1, <3>2, <3>3 DEF Accounted
  <2> QED  BY <1>4, <2>1, <2>2, <2>3 DEF MVIInv
<1>8. CASE mv_refused' = mv_refused \cup {e} /\ UNCHANGED <<mv_src, mv_dest>>
  <2>1. MVTypes'
    <3>1. mv_stack' # <<>>  BY <1>1, <1>2
    <3>2. mv_pc # "start" /\ mv_pc = "walk"  BY <1>1
    <3> QED  BY <1>1, <1>8, <3>1, <3>2 DEF MVTypes
  <2>2. OnePlace'  BY <1>1, <1>8 DEF OnePlace
  <2>3. \A x \in mv_src' : Pending(x)' \/ Accounted(x)'
    <3>1. \A x \in mv_src : Accounted(x) \/ x = e => Accounted(x)'  BY <1>8 DEF Accounted
    <3> QED  BY <1>1, <1>6, <1>8, <3>1
  <2> QED  BY <1>4, <2>1, <2>2, <2>3 DEF MVIInv
<1> QED  BY <1>7, <1>8 DEF move_file

LEMMA LeaveInv == MVIInv /\ Leave => MVIInv'
<1> SUFFICES ASSUME MVIInv, Leave PROVE MVIInv'  OBVIOUS
<1> DEFINE n == Len(mv_stack)
<1> DEFINE d == mv_stack[n].dir
<1>1. /\ MVTypes /\ OnePlace /\ Frames /\ mv_stack # <<>>
      /\ \A x \in mv_src : Pending(x) \/ Accounted(x)
      /\ UNCHANGED <<mv_dest, mv_refused>>
      /\ mv_src' = IF In(d) = {} THEN mv_src \ {d} ELSE mv_src
      /\ mv_stack' = SubSeq(mv_stack, 1, n - 1)
      /\ mv_pc' = IF n = 1 THEN "done" ELSE "walk"
      /\ mv_stack[n].todo = {} /\ mv_pc = "walk"
  BY DEF MVIInv, MVTypes, Leave, Call
<1>2. n \in Nat \ {0} /\ mv_stack \in Seq(Frame) /\ n \in 1 .. n  BY <1>1 DEF Frames
<1>3. /\ mv_stack' \in Seq(Frame) /\ Len(mv_stack') = n - 1
      /\ \A k \in 1 .. n - 1 : mv_stack'[k] = mv_stack[k]
  <2>1. 1 \in Int /\ n - 1 \in Int /\ \A i \in 1 .. n - 1 : mv_stack[i] \in Frame  BY <1>2
  <2>2. /\ SubSeq(mv_stack, 1, n - 1) \in Seq(Frame)
        /\ Len(SubSeq(mv_stack, 1, n - 1)) = IF 1 <= n - 1 THEN (n - 1) - 1 + 1 ELSE 0
        /\ \A i \in 1 .. (n - 1) - 1 + 1 : SubSeq(mv_stack, 1, n - 1)[i] = mv_stack[1 + i - 1]
    BY <2>1, SubSeqProperties
  <2> HIDE DEF n
  <2>3. (IF 1 <= n - 1 THEN (n - 1) - 1 + 1 ELSE 0) = n - 1 /\ (n - 1) - 1 + 1 = n - 1  BY <1>2
  <2>4. \A i \in 1 .. n - 1 : 1 + i - 1 = i  BY <1>2
  <2> QED  BY <1>1, <2>2, <2>3, <2>4
<1>4. Frames'
  <2>1. \A k \in 1 .. n - 1 : k \in 1 .. n  BY <1>2
  <2>2. \A k \in 2 .. n - 1 : k \in 2 .. n /\ k \in 1 .. n - 1 /\ k - 1 \in 1 .. n - 1  BY <1>2
  <2>3. \A k \in 1 .. n - 1 :
          /\ mv_stack'[k].dir = Top <=> k = 1
          /\ \A x \in mv_stack'[k].todo : Parent[x] = mv_stack'[k].dir
    BY <1>1, <1>3, <2>1 DEF Frames
  <2>4. \A k \in 2 .. n - 1 : Parent[mv_stack'[k].dir] = mv_stack'[k - 1].dir
    BY <1>1, <1>3, <2>2 DEF Frames
  <2> QED  BY <1>3, <2>3, <2>4 DEF Frames
<1>5. d \in Dirs
  <2>1. mv_stack[n] \in Frame  BY <1>2
  <2> QED  BY <2>1 DEF Frame
<1>6. MVTypes'
  <2>1. mv_stack' = <<>> <=> n = 1
    <3>1. mv_stack' = <<>> <=> Len(mv_stack') = 0  BY <1>3, EmptySeq
    <3> QED  BY <1>2, <1>3, <3>1
  <2> QED  BY <1>1, <2>1 DEF MVTypes
<1>7. OnePlace'
  <2>1. d \notin Entry \ Directories  BY <1>5, MoveTreeAssumption DEF Dirs
  <2>2. \A x \in mv_src' : Parent[x] = d => d \in mv_src'  \/ d = Top
    BY <1>1 DEF In, OnePlace
  <2> QED  BY <1>1, <2>1, <2>2 DEF OnePlace
<1>8. \A x \in Entry : \A k \in 1 .. n - 1 : mv_stack[k].dir = x => Pending(x)'
  BY <1>3 DEF Pending
<1>9. \A x \in mv_src : Pending(x) /\ x # d => Pending(x)'
  <2> SUFFICES ASSUME NEW x \in mv_src, x # d, Pending(x) PROVE Pending(x)'  OBVIOUS
  <2>1. PICK k \in 1 .. n : x = mv_stack[k].dir \/ ({x} \cup Above[x]) \cap mv_stack[k].todo # {}
    BY DEF Pending
  <2>2. k # n  BY <2>1, <1>1
  <2>3. k \in 1 .. n - 1  BY <1>2, <2>2
  <2> QED  BY <1>3, <2>1, <2>3 DEF Pending
<1>10. \A x \in mv_src' : Pending(x)' \/ Accounted(x)'
  <2> SUFFICES ASSUME NEW x \in mv_src, x \in mv_src', ~Pending(x)' PROVE Accounted(x)'  BY <1>1
  <2>1. CASE x = d
    <3>1. PICK f \in mv_src : Parent[f] = d  BY <1>1, <2>1 DEF In
    <3>2. f \in Entry /\ d \in Above[f] /\ mv_src' = mv_src
      BY <1>1, <3>1, AboveParent DEF MVTypes, In
    <3> QED  BY <2>1, <3>2 DEF Accounted
  <2>2. CASE x # d
    <3>1. Accounted(x)  BY <1>1, <1>9, <2>2
    <3>2. CASE mv_refused \cap ({x} \cup Above[x]) # {}  BY <1>1, <3>2 DEF Accounted
    <3>3. ASSUME NEW f \in mv_src, x \in Above[f] PROVE Accounted(x)'
      <4>1. f \in mv_src'
        <5> SUFFICES ASSUME f = d PROVE FALSE  BY <1>1
        <5>1. d \in Entry /\ d # Top  BY <1>1, MoveTreeAssumption DEF MVTypes
        <5>2. n \in 2 .. n /\ n - 1 \in 1 .. n  BY <1>1, <1>2, <5>1 DEF Frames
        <5>3. Parent[d] = mv_stack[n - 1].dir  BY <1>1, <5>2 DEF Frames
        <5>4. \E k \in 1 .. n - 1 : mv_stack[k].dir = x
          BY <1>1, <3>3, <5>1, <5>2, <5>3, AboveOnStack
        <5> QED  BY <1>1, <1>8, <5>4 DEF MVTypes
      <4> QED  BY <3>3, <4>1 DEF Accounted
    <3> QED  BY <3>1, <3>2, <3>3 DEF Accounted
  <2> QED  BY <2>1, <2>2
<1> QED  BY <1>4, <1>6, <1>7, <1>10 DEF MVIInv

\* One lemma for each call of move.
LEMMA MVNextInv == MVIInv /\ [MVNext]_mv_vars => MVIInv'
<1> SUFFICES ASSUME MVIInv, [MVNext]_mv_vars PROVE MVIInv'  OBVIOUS
<1>1. CASE Start  BY <1>1, StartInv
<1>2. CASE ReadEntry  BY <1>2, SubdirectoryInv, FileInv DEF ReadEntry
<1>3. CASE Leave  BY <1>3, LeaveInv
<1>4. CASE UNCHANGED mv_vars
  BY <1>4 DEF mv_vars, MVIInv, MVTypes, Frames, OnePlace, Pending, Accounted
<1> QED  BY <1>1, <1>2, <1>3, <1>4 DEF MVNext

LEMMA MovedInv == MVIInv => MovedUnlessRefused
<1> SUFFICES ASSUME MVIInv PROVE MovedUnlessRefused  OBVIOUS
<1>1. mv_pc = "done" => Len(mv_stack) = 0  BY DEF MVIInv, MVTypes
<1>2. mv_pc = "done" => \A e \in mv_src : Accounted(e)  BY <1>1 DEF MVIInv, Pending
<1> QED  BY <1>2 DEF MVIInv, MVTypes, OnePlace, Accounted, MovedUnlessRefused

\* main and its children: one program at a time, in their order.
MNIInv ==
  /\ mn_next \in 0 .. Len(Programs)
  /\ \A p \in mn_running : mn_next # 0 /\ p = Programs[mn_next]
  /\ IF program = "main"
       THEN /\ cp_pc \in {"open_dest", "copy"} => "copy" \in mn_running
            /\ mv_pc # "start" => mn_next = Len(Programs)
       ELSE mv_pc = "start"

\* Where the copy and the move are in the list of programs.
LEMMA ProgramsList ==
  /\ Len(Programs) = 4 /\ Programs[3] = "copy" /\ Programs[4] = "move"
  /\ \A k \in 1 .. 4 : Programs[k] = "copy" => k = 3
  /\ \A k \in 1 .. 4 : Programs[k] = "move" => k = 4
BY DEF Programs

\* The driver begins before the first of its programs.
LEMMA MNInitInv == Init => MNIInv
BY ProgramsList DEF Init, DriverInit, MNIInv, CPInit, MVInit

\* Every step of the driver, of the copy and of the move.
LEMMA MNNextInv == MNIInv /\ [Next]_vars => MNIInv'
<1> SUFFICES ASSUME MNIInv, [Next]_vars PROVE MNIInv'  OBVIOUS
<1> USE ProgramsList DEF MNIInv
<1>1. CASE UNCHANGED <<program, mn_vars, cp_vars, mv_vars>>
  BY <1>1 DEF mn_vars, cp_vars, mv_vars
<1>2. CASE program = "copy" /\ UNCHANGED <<program, mv_vars, mn_vars>>
  BY <1>2 DEF mn_vars, mv_vars
<1>3. CASE program = "main" /\ DriverNext /\ UNCHANGED program
  <2>1. CASE run_program  BY <1>3, <2>1 DEF run_program, Waited, cp_vars, mv_vars
  <2>2. CASE ChildExits  BY <1>3, <2>2 DEF ChildExits, cp_vars, mv_vars
  <2>3. CASE CopyRuns  BY <1>3, <2>3 DEF CopyRuns, mn_vars, mv_vars
  <2>4. CASE MoveRuns  BY <1>3, <2>4 DEF MoveRuns, mn_vars, cp_vars
  <2> QED  BY <1>3, <2>1, <2>2, <2>3, <2>4 DEF DriverNext
<1> QED  BY <1>1, <1>2, <1>3 DEF Next, vars

LEMMA CopiedInv == MVIInv /\ MNIInv => CopiedBeforeMoved
<1> SUFFICES ASSUME MVIInv, MNIInv, cp_pc \in {"open_dest", "copy"}
             PROVE  mv_pc = "start" /\ mv_src = Entry
  BY DEF CopiedBeforeMoved
<1> QED  BY ProgramsList DEF MVIInv, MVTypes, MNIInv

----------------------------------------------------------------------------
IInv == /\ MSIInv /\ SortIInv /\ AVIInv /\ BSIInv /\ MTIInv
        /\ RDIInv /\ CPIInv /\ MVIInv /\ MNIInv

\* Every program begins with its invariant.
LEMMA InitInv == Init => IInv
<1> SUFFICES ASSUME Init PROVE IInv  OBVIOUS
<1>1. MSInit /\ AVInit /\ BSInit /\ MTInit /\ RDInit  BY DEF Init
<1>2. CPInit /\ MVInit  BY DEF Init, DriverInit
<1> QED
  BY <1>1, <1>2, MSInitInv, MSInitSort, AVInitInv, BSInitInv, MTInitInv, RDInitInv, CPInitInv, MVInitInv, MNInitInv
  DEF IInv

\* A step of the composition is a step or a stutter of each program.
LEMMA StepOfEach ==
  ASSUME [Next]_vars
  PROVE  /\ [MSNext]_ms_vars /\ [AVNext]_av_vars /\ [BSNext]_bs_vars /\ [MTNext]_mt_vars
         /\ [RDNext]_rd_vars /\ [CPNext]_cp_vars /\ [MVNext]_mv_vars
<1>1. [MSNext]_ms_vars /\ [AVNext]_av_vars  BY DEF Next, vars
<1>2. [BSNext]_bs_vars /\ [MTNext]_mt_vars /\ [RDNext]_rd_vars  BY DEF Next, vars
<1>3. [CPNext]_cp_vars /\ [MVNext]_mv_vars
  <2>1. CASE program = "main" /\ DriverNext
    BY <2>1 DEF DriverNext, run_program, ChildExits, CopyRuns, MoveRuns
  <2>2. CASE program = "copy" /\ CPNext /\ UNCHANGED <<mv_vars, mn_vars>>  BY <2>2
  <2>3. CASE UNCHANGED <<cp_vars, mv_vars>>  BY <2>3
  <2> QED  BY <2>1, <2>2, <2>3 DEF Next, vars
<1> QED  BY <1>1, <1>2, <1>3

\* So every step preserves the invariant of each.
LEMMA NextInv == IInv /\ [Next]_vars => IInv'
<1> SUFFICES ASSUME IInv, [Next]_vars PROVE IInv'  OBVIOUS
<1>1. MSIInv' /\ SortIInv' /\ AVIInv' /\ BSIInv' /\ MTIInv'
  BY StepOfEach, MSNextInv, MSNextSort, AVNextInv, BSNextInv, MTNextInv DEF IInv
<1>2. RDIInv' /\ CPIInv' /\ MVIInv' /\ MNIInv'
  BY StepOfEach, RDNextInv, CPNextInv, MVNextInv, MNNextInv DEF IInv
<1> QED  BY <1>1, <1>2 DEF IInv

\* The inductive invariants of the programs, all at once.
THEOREM Invariance == Spec => []IInv
BY InitInv, NextInv, PTL DEF Spec

\* Whichever calls fail, main prints the sorted array after everybody it has
\* started has left, the parent of the averages returns after all its children,
\* and the product is printed, and the matrices freed, when no thread is left:
\* for arrays of any size, any number of children and of elements.
THEOREM LeftBehind == Spec => []NobodyLeftBehind
<1>1. IInv => NobodyLeftBehind
  BY LastToLeaveInv, ParentIsLastInv, ProductCompleteInv DEF IInv, NobodyLeftBehind
<1> QED  BY <1>1, Invariance, PTL

\* For an array of any size, whichever calls of pipe, fork, read and write fail:
\* what main prints holds the numbers of the input, each as often as it was
\* there, and it is sorted if none has failed.
THEOREM SortedOrFailed == Spec => []SortedUnlessFailed
<1>1. IInv => SortedUnlessFailed  BY SortedInv DEF IInv
<1> QED  BY <1>1, Invariance, PTL

\* The line that the parent prints before it forks is written once, and first.
THEOREM LinesOnce == Spec => []LinesWrittenOnce
<1>1. IInv => LinesWrittenOnce  BY DEF IInv, AVIInv, AVOut, LinesWrittenOnce
<1> QED  BY <1>1, Invariance, PTL

\* For a sorted array of any length: the chain of forks answers once, and the
\* answer is right.
THEOREM OneAnswerOnly == Spec => []OneAnswer
<1>1. IInv => OneAnswer  BY OneAnswerInv DEF IInv
<1> QED  BY <1>1, Invariance, PTL

\* Whichever of open, dup and dup2 fail, what a part has to say goes where it
\* says it does, and the descriptors are left as the code leaves them.
THEOREM OutputRedirected == Spec => []Redirection
<1>1. IInv => Redirection  BY DEF IInv, RDIInv
<1> QED  BY <1>1, Invariance, PTL

\* For files of any length: copy leaves the blocks of the source in the
\* destination, or has failed to write one.
THEOREM CopiedFaithfully == Spec => []CopyFaithful
<1>1. IInv => CopyFaithful  BY CopyFaithfulInv DEF IInv
<1> QED  BY <1>1, Invariance, PTL

\* For every tree of directories: what move takes away it has left in the
\* destination, but for what the destination refused, and it begins when copy
\* has ended.
THEOREM LostToNeither == Spec => []NothingLost
<1>1. IInv => NothingLost  BY MovedInv, CopiedInv DEF IInv, NothingLost
<1> QED  BY <1>1, Invariance, PTL

\* As long as a process of the sort runs, in an array of any size and whichever
\* calls have failed, one of them can go on: a parent that waits for its children,
\* or reads a pipe whose write ends are inherited by every process below it, waits
\* for nobody that waits for it.
THEOREM SortNeverStuck == Spec => []SortGoes
<1>1. IInv => SortGoes  BY SortGoesInv DEF IInv
<1> QED  BY <1>1, Invariance, PTL

----------------------------------------------------------------------------
(* The merge sort ends: the variant                                      *)

\* The calls that the process of a segment is away from its end, and not more
\* than six before it is forked.
CallsToGo ==
  [none |-> 6, fork_left |-> 5, fork_right |-> 4, wait |-> 3, read |-> 2, sorted |-> 1,
   exited |-> 0, failed |-> 0]

SortToGo == {c \in Segment \X (1 .. 6) : c[2] <= CallsToGo[ms_pc[c[1]]]}

\* The segments are pairs of indices: what is left is finite.
LEMMA SortToGoFinite == IsFiniteSet(SortToGo)
<1>1. IsFiniteSet(0 .. SIZE - 1) /\ IsFiniteSet(1 .. 6)
  <2>1. SIZE - 1 \in Int  BY MergeSortAssumption
  <2>2. PICK n \in Int : n = SIZE - 1  BY <2>1
  <2>3. 0 \in Int /\ 1 \in Int /\ 6 \in Int  OBVIOUS
  <2>4. IsFiniteSet(0 .. n) /\ IsFiniteSet(1 .. 6)  BY <2>3, FS_Interval, Zenon
  <2> QED  BY <2>2, <2>4
<1>2. IsFiniteSet((0 .. SIZE - 1) \X (0 .. SIZE - 1))  BY <1>1, FS_Product
<1>3. Segment \in SUBSET ((0 .. SIZE - 1) \X (0 .. SIZE - 1))  BY DEF Segment
<1>4. IsFiniteSet(Segment)  BY <1>2, <1>3, FS_Subset
<1>5. IsFiniteSet(Segment \X (1 .. 6))  BY <1>1, <1>4, FS_Product
<1>6. SortToGo \in SUBSET (Segment \X (1 .. 6))  BY DEF SortToGo
<1> QED  BY <1>5, <1>6, FS_Subset

\* A process that has moved on, and perhaps another, while none has gone back.
LEMMA FewerToGo ==
  ASSUME MSTypes, MSTypes', NEW p \in Segment, CallsToGo[ms_pc'[p]] < CallsToGo[ms_pc[p]],
         \A q \in Segment : CallsToGo[ms_pc'[q]] <= CallsToGo[ms_pc[q]]
  PROVE  Cardinality(SortToGo') < Cardinality(SortToGo)
<1>1. \A q \in Segment : CallsToGo[ms_pc[q]] \in 0 .. 6 /\ CallsToGo[ms_pc'[q]] \in 0 .. 6
  BY DEF MSTypes, CallsToGo
<1>2. PICK n \in 1 .. 6 : n = CallsToGo[ms_pc[p]]  BY <1>1
<1>3. <<p, n>> \in SortToGo /\ <<p, n>> \notin SortToGo'  BY <1>1, <1>2 DEF SortToGo
<1>4. SortToGo' \in SUBSET SortToGo
  <2>1. ASSUME NEW q \in Segment, NEW k \in 1 .. 6, k <= CallsToGo[ms_pc'[q]]
        PROVE  k <= CallsToGo[ms_pc[q]]
    BY <1>1, <2>1
  <2> QED  BY <2>1 DEF SortToGo
<1>5. IsFiniteSet(SortToGo) /\ IsFiniteSet(SortToGo')  BY <1>4, SortToGoFinite, FS_Subset
<1>6. Cardinality(SortToGo) \in Nat /\ Cardinality(SortToGo') \in Nat  BY <1>5, FS_CardinalityType
<1>7. /\ Cardinality(SortToGo') <= Cardinality(SortToGo)
      /\ Cardinality(SortToGo') # Cardinality(SortToGo)
  BY <1>3, <1>4, SortToGoFinite, FS_Subset
<1> QED  BY <1>6, <1>7

\* Every action of the sort is such a step.
LEMMA SortMovesOn ==
  ASSUME MSIInv, MSNext
  PROVE  Cardinality(SortToGo') < Cardinality(SortToGo)
<1>0. MSTypes /\ MSTypes'
  <2>1. MSIInv'  BY MSNextInv
  <2> QED  BY <2>1 DEF MSIInv
<1>1. ASSUME NEW p \in Segment, NEW c \in Segment, NEW here, NEW next, Fork(p, c, here, next),
             \/ c = Left(p) /\ here = "fork_left" /\ next = "fork_right"
             \/ c = Right(p) /\ here = "fork_right" /\ next = "wait"
      PROVE  Cardinality(SortToGo') < Cardinality(SortToGo)
  <2>1. /\ ms_pc[p] = here /\ ms_pc'[p] = next
        /\ ms_pc[c] = "none" /\ ms_pc'[c] \in {"fork_left", "sorted"}
        /\ \A q \in Segment : q # p /\ q # c => ms_pc'[q] = ms_pc[q]
    BY <1>1, ForkNew DEF FirstStep
  <2>2. CallsToGo[ms_pc'[p]] < CallsToGo[ms_pc[p]]  BY <1>1, <2>1 DEF CallsToGo
  <2>3. CallsToGo[ms_pc'[c]] <= CallsToGo[ms_pc[c]]  BY <2>1 DEF CallsToGo
  <2>4. \A q \in Segment : CallsToGo[ms_pc[q]] \in 0 .. 6  BY <1>0 DEF MSTypes, CallsToGo
  <2>5. \A q \in Segment : CallsToGo[ms_pc'[q]] <= CallsToGo[ms_pc[q]]
    <3> SUFFICES ASSUME NEW q \in Segment PROVE CallsToGo[ms_pc'[q]] <= CallsToGo[ms_pc[q]]
      OBVIOUS
    <3>1. CASE q # p /\ q # c  BY <2>1, <2>4, <3>1
    <3>2. CASE q = p  BY <1>1, <2>1, <3>2 DEF CallsToGo
    <3>3. CASE q = c  BY <2>3, <3>3
    <3> QED  BY <3>1, <3>2, <3>3
  <2> QED  BY <1>0, <2>2, <2>5, FewerToGo
<1>2. ASSUME NEW p \in Segment, NEW next, ms_pc' = [ms_pc EXCEPT ![p] = next],
             \/ ms_pc[p] = "wait" /\ next = "read"
             \/ ms_pc[p] = "read" /\ next = "sorted"
             \/ ms_pc[p] = "sorted" /\ next = "exited"
             \/ Running(p) /\ next = "failed"
      PROVE  Cardinality(SortToGo') < Cardinality(SortToGo)
  <2>1. ms_pc'[p] = next /\ \A q \in Segment : q # p => ms_pc'[q] = ms_pc[q]
    BY <1>0, <1>2 DEF MSTypes
  <2>2. CallsToGo[ms_pc'[p]] < CallsToGo[ms_pc[p]]
    BY <1>0, <1>2, <2>1 DEF MSTypes, Running, CallsToGo
  <2>3. \A q \in Segment : CallsToGo[ms_pc[q]] \in 0 .. 6 /\ CallsToGo[ms_pc'[q]] \in 0 .. 6
    BY <1>0 DEF MSTypes, CallsToGo
  <2>4. \A q \in Segment : CallsToGo[ms_pc'[q]] <= CallsToGo[ms_pc[q]]
    <3> SUFFICES ASSUME NEW q \in Segment PROVE CallsToGo[ms_pc'[q]] <= CallsToGo[ms_pc[q]]
      OBVIOUS
    <3>1. CASE q # p  BY <2>1, <2>3, <3>1
    <3>2. CASE q = p  BY <2>2, <2>3, <3>2
    <3> QED  BY <3>1, <3>2
  <2> QED  BY <1>0, <2>2, <2>4, FewerToGo
<1>3. ASSUME NEW p \in Segment, Fork(p, Left(p), "fork_left", "fork_right")
      PROVE  Cardinality(SortToGo') < Cardinality(SortToGo)
  <2>1. Left(p) \in Segment  BY <1>3, HalvesBounds DEF Fork, MSIInv, Forking
  <2> QED  BY <1>1, <1>3, <2>1
<1>4. ASSUME NEW p \in Segment, Fork(p, Right(p), "fork_right", "wait")
      PROVE  Cardinality(SortToGo') < Cardinality(SortToGo)
  <2>1. Right(p) \in Segment  BY <1>4, HalvesBounds DEF Fork, MSIInv, Forking
  <2> QED  BY <1>1, <1>4, <2>1
<1>5. ASSUME NEW p \in Segment, Wait(p) \/ ReadAndMerge(p) \/ Write(p) \/ Fail(p)
      PROVE  Cardinality(SortToGo') < Cardinality(SortToGo)
  BY <1>2, <1>5 DEF Wait, ReadAndMerge, Write, Fail
<1>6. CASE print_sorted
  <2>1. Root \in Segment  BY MergeSortAssumption DEF Root, Segment
  <2> QED  BY <1>2, <1>6, <2>1 DEF print_sorted
<1> QED  BY <1>3, <1>4, <1>5, <1>6 DEF MSNext

----------------------------------------------------------------------------
(* The binary search ends: somebody goes on, and the variant             *)

\* A process of the chain that can go on: the last searches, or one waits for a
\* child that has left.
SearchGoes ==
  (\E k \in 1 .. Len(bs_chain) : ~HasLeft(bs_chain[k])) =>
    \/ BSLast.at = "search"
    \/ \E k \in 1 .. Len(bs_chain) - 1 : bs_chain[k].at = "wait" /\ HasLeft(bs_chain[k + 1])

\* The first process of the chain that has left is awaited by the one before it.
LEMMA SearchGoesInv == BSIInv => SearchGoes
<1> SUFFICES ASSUME BSIInv, \E k \in 1 .. Len(bs_chain) : ~HasLeft(bs_chain[k]), BSLast.at # "search"
             PROVE  \E k \in 1 .. Len(bs_chain) - 1 : bs_chain[k].at = "wait" /\ HasLeft(bs_chain[k + 1])
  BY DEF SearchGoes
<1> DEFINE n    == Len(bs_chain)
           Left1 == {k \in 1 .. n : HasLeft(bs_chain[k])}
<1>1. /\ n \in Nat \ {0} /\ n \in 1 .. n /\ BSLast = bs_chain[n]
      /\ \A k \in 1 .. n : bs_chain[k].at \in {"search", "wait", "exited", "failed"}
  <2>1. n \in Nat \ {0} /\ \A k \in 1 .. n : bs_chain[k] \in Process  BY DEF BSIInv, BSBounds
  <2> QED  BY <2>1 DEF BSLast, Process
<1>2. n \in Left1  BY <1>1 DEF BSIInv, BSOrder, HasLeft
<1>3. PICK i \in Left1 : \A j \in Left1 : i <= j
  <2>1. Left1 \in SUBSET Nat  OBVIOUS
  <2> QED  BY <1>2, <2>1, LeastOf
<1>4. i # 1
  <2> SUFFICES ASSUME i = 1 PROVE FALSE  OBVIOUS
  <2>1. \A k \in 1 .. n : 1 \in 1 .. n /\ 1 <= k  BY <1>1
  <2>2. \A k \in 1 .. n : HasLeft(bs_chain[k])  BY <2>1 DEF BSIInv, BSOrder
  <2> QED  BY <2>2
<1>5. i - 1 \in 1 .. n - 1 /\ i - 1 \in 1 .. n /\ i - 1 # n /\ (i - 1) + 1 = i /\ i - 1 < i  BY <1>1, <1>4
<1>6. ~HasLeft(bs_chain[i - 1])
  <2>1. i - 1 \notin Left1  BY <1>1, <1>3, <1>5
  <2> QED  BY <1>5, <2>1
<1>7. bs_chain[i - 1].at # "search"  BY <1>5 DEF BSIInv, BSOrder
<1>8. bs_chain[i - 1].at = "wait" /\ HasLeft(bs_chain[(i - 1) + 1])
  BY <1>1, <1>5, <1>6, <1>7 DEF HasLeft
<1> QED  BY <1>5, <1>8

\* What there is to search, each element twice, and the processes that have not left.
StillThere == {k \in 1 .. Len(bs_chain) : ~HasLeft(bs_chain[k])}
SearchToGo == 2 * (BSLast.end - BSLast.start + 1) + Cardinality(StillThere)

\* The variant is a number.
LEMMA SearchToGoNat ==
  ASSUME BSIInv
  PROVE  /\ SearchToGo \in Nat
         /\ IsFiniteSet(StillThere) /\ Cardinality(StillThere) \in Nat
         /\ BSLast.start \in Int /\ BSLast.end \in Int
         /\ Len(bs_chain) \in Nat \ {0} /\ Len(bs_chain) \in 1 .. Len(bs_chain)
         /\ BSLast = bs_chain[Len(bs_chain)]
<1>1. /\ Len(bs_chain) \in Nat \ {0} /\ Len(bs_chain) \in 1 .. Len(bs_chain)
      /\ BSLast = bs_chain[Len(bs_chain)] /\ BSLast \in Process
  BY DEF BSIInv, BSBounds, BSLast
<1>2. BSLast.start \in Int /\ BSLast.end \in Int /\ BSLast.start <= BSLast.end + 1
  <2>1. bs_chain[Len(bs_chain)].start <= bs_chain[Len(bs_chain)].end + 1
    BY <1>1 DEF BSIInv, BSBounds
  <2> QED  BY <1>1, <2>1 DEF Process
<1>3. IsFiniteSet(StillThere) /\ Cardinality(StillThere) \in Nat
  <2>1. IsFiniteSet(1 .. Len(bs_chain))  BY <1>1, FS_Interval
  <2>2. StillThere \in SUBSET (1 .. Len(bs_chain))  BY DEF StillThere
  <2> QED  BY <2>1, <2>2, FS_Subset, FS_CardinalityType
<1> QED  BY <1>1, <1>2, <1>3 DEF SearchToGo

\* An answer or a return takes a process away; a fork adds one and halves the range.
LEMMA SearchMovesOn ==
  ASSUME BSIInv, BSNext
  PROVE  SearchToGo' < SearchToGo
<1> DEFINE n == Len(bs_chain)
<1>0. BSIInv'  BY BSNextInv
<1>1. /\ BSBounds /\ n \in Nat \ {0} /\ n \in 1 .. n /\ BSLast = bs_chain[n]
      /\ IsFiniteSet(StillThere) /\ Cardinality(StillThere) \in Nat
      /\ BSLast.start \in Int /\ BSLast.end \in Int
  BY SearchToGoNat DEF BSIInv
<1>2. ASSUME NEW k \in 1 .. n, NEW at \in {"exited", "failed"},
             ~HasLeft(bs_chain[k]), bs_chain' = Move(k, at)
      PROVE  SearchToGo' < SearchToGo
  <2>1. /\ Len(bs_chain') = n
        /\ \A j \in 1 .. n : /\ bs_chain'[j].start = bs_chain[j].start
                             /\ bs_chain'[j].end = bs_chain[j].end
                             /\ bs_chain'[j].at = IF j = k THEN at ELSE bs_chain[j].at
    BY <1>1, <1>2, MoveFacts
  <2>2. BSLast'.start = BSLast.start /\ BSLast'.end = BSLast.end  BY <1>1, <2>1 DEF BSLast
  <2>3. k \in StillThere /\ StillThere' = StillThere \ {k}
    BY <1>2, <2>1 DEF StillThere, HasLeft
  <2>4. Cardinality(StillThere') = Cardinality(StillThere) - 1
    BY <1>1, <2>3, FS_RemoveElement
  <2> QED  BY <1>1, <2>2, <2>4 DEF SearchToGo
<1>3. CASE Answer
  BY <1>1, <1>2, <1>3 DEF Answer, HasLeft
<1>4. CASE Descend /\ bs_chain' = Move(n, "failed")
  BY <1>1, <1>2, <1>4 DEF Descend, HasLeft
<1>5. CASE Descend /\ bs_chain' = Append(Move(n, "wait"), Narrowed)
  <2> DEFINE c == Move(n, "wait")
  <2>1. /\ c \in Seq(Process) /\ Len(c) = n
        /\ \A j \in 1 .. n : c[j].at = IF j = n THEN "wait" ELSE bs_chain[j].at
    BY <1>1, MoveFacts
  <2>2. /\ Narrowed.start \in Int /\ Narrowed.end \in Int /\ Narrowed.at = "search"
        /\ 2 * (Narrowed.end - Narrowed.start + 1) <= BSLast.end - BSLast.start + 1
        /\ BSLast.start <= BSLast.end /\ Narrowed.start <= Narrowed.end + 1
    BY <1>1, <1>5, Halving DEF Descend
  <2>3. Narrowed \in Process  BY <2>2 DEF Narrowed, Bounds, Process
  <2> HIDE DEF c
  <2>4. /\ Len(bs_chain') = n + 1
        /\ \A j \in 1 .. n : bs_chain'[j] = c[j]
        /\ bs_chain'[n + 1] = Narrowed
    BY <1>5, <2>1, <2>3 DEF c
  <2>5. BSLast' = Narrowed  BY <2>4 DEF BSLast
  <2>6. \A j \in 1 .. n + 1 : j \in 1 .. n \/ j = n + 1  BY <1>1
  <2>7. BSLast.at = "search"  BY <1>5 DEF Descend
  <2>8. \A j \in 1 .. n : HasLeft(bs_chain'[j]) <=> HasLeft(bs_chain[j])
    BY <1>1, <2>1, <2>4, <2>7 DEF HasLeft
  <2>9. StillThere' = StillThere \cup {n + 1} /\ n + 1 \notin StillThere
    <3>1. ~HasLeft(bs_chain'[n + 1])  BY <2>2, <2>4 DEF HasLeft
    <3>2. n + 1 \notin 1 .. n /\ n + 1 \in 1 .. n + 1 /\ \A j \in 1 .. n : j \in 1 .. n + 1  BY <1>1
    <3> QED  BY <2>4, <2>6, <2>8, <3>1, <3>2 DEF StillThere
  <2>10. Cardinality(StillThere') = Cardinality(StillThere) + 1
    BY <1>1, <2>9, FS_AddElement
  <2>11. PICK s \in Int, t \in Int : /\ s = BSLast.end - BSLast.start + 1
                                   /\ t = Narrowed.end - Narrowed.start + 1
    BY <1>1, <2>2
  <2>12. s > 0 /\ t >= 0 /\ 2 * t <= s
    <3>1. PICK a \in Int, b \in Int, x \in Int, y \in Int :
            a = BSLast.start /\ b = BSLast.end /\ x = Narrowed.start /\ y = Narrowed.end
      BY <1>1, <2>2
    <3>2. s = b - a + 1 /\ t = y - x + 1 /\ a <= b /\ x <= y + 1 /\ 2 * (y - x + 1) <= b - a + 1
      BY <2>2, <2>11, <3>1
    <3> QED  BY <3>2
  <2>13. 2 * t + 1 < 2 * s  BY <2>12
  <2>14. /\ SearchToGo = 2 * s + Cardinality(StillThere)
         /\ SearchToGo' = 2 * t + (Cardinality(StillThere) + 1)
    BY <2>5, <2>10, <2>11 DEF SearchToGo
  <2> HIDE DEF n
  <2> QED  BY <1>1, <2>13, <2>14
<1>6. CASE Return
  BY <1>1, <1>2, <1>6 DEF Return, HasLeft
<1> QED  BY <1>3, <1>4, <1>5, <1>6 DEF BSNext, Descend

----------------------------------------------------------------------------
(* The averages and the product end in the same sense                  *)

\* The parent, or a child, can go on without blocking.
AverageGoes ==
  av_main \notin {"exited", "failed"} \/ av_exited # 1 .. av_forked =>
    \/ av_main \in {"print", "fork"}
    \/ av_exited # 1 .. av_forked
    \/ av_waits = CHILDREN
    \/ av_waits < CHILDREN /\ av_waits < Cardinality(av_exited)

\* The parent does not wait for more children than it has forked.
LEMMA WaitsBound == AVIInv => av_waits \in 0 .. CHILDREN
<1> SUFFICES ASSUME AVIInv PROVE av_waits \in 0 .. CHILDREN  OBVIOUS
<1>1. av_forked \in Nat /\ av_forked <= CHILDREN /\ av_exited \in SUBSET (1 .. av_forked)
  BY ForkAverageAssumption DEF AVIInv, AVCounts
<1>2. Cardinality(av_exited) \in Nat /\ Cardinality(av_exited) <= av_forked  BY <1>1, ChildrenFinite
<1>3. av_waits \in Nat /\ av_waits <= Cardinality(av_exited)  BY DEF AVIInv, AVCounts
<1> QED  BY <1>1, <1>2, <1>3, ForkAverageAssumption

\* All children have exited and not all are waited for: one of them is there to take.
LEMMA AverageGoesInv == AVIInv => AverageGoes
<1> SUFFICES ASSUME AVIInv, av_main \notin {"exited", "failed"}, av_main \notin {"print", "fork"},
                    av_exited = 1 .. av_forked, av_waits # CHILDREN
             PROVE  av_waits < CHILDREN /\ av_waits < Cardinality(av_exited)
  BY DEF AverageGoes
<1>1. /\ av_main = "wait" /\ av_forked = CHILDREN /\ av_waits \in 0 .. CHILDREN
  BY WaitsBound DEF AVIInv, AVCounts
<1>2. Cardinality(1 .. CHILDREN) = CHILDREN  BY FS_Interval, ForkAverageAssumption
<1> QED  BY <1>1, <1>2, ForkAverageAssumption

\* A fork that is to come is two steps: its own and that of the child.
AverageToGo ==
  2 * (CHILDREN - av_forked) + Cardinality(1 .. av_forked \ av_exited) + (CHILDREN - av_waits)
    + IF av_main = "print" THEN 3 ELSE IF av_main = "fork" THEN 2 ELSE IF av_main = "wait" THEN 1 ELSE 0

\* The variant is a number, which every step of the program lowers.
LEMMA AverageMovesOn ==
  AVIInv => /\ AverageToGo \in Nat
            /\ (AVNext => AverageToGo' < AverageToGo)
<1> SUFFICES ASSUME AVIInv
             PROVE  /\ AverageToGo \in Nat
                    /\ (AVNext => AverageToGo' < AverageToGo)
  OBVIOUS
<1> DEFINE living == 1 .. av_forked \ av_exited
<1>1. /\ av_forked \in 0 .. CHILDREN /\ av_waits \in 0 .. CHILDREN /\ CHILDREN \in Nat
      /\ av_exited \subseteq 1 .. av_forked
      /\ av_main \in {"print", "fork", "wait", "exited", "failed"}
  BY ForkAverageAssumption, WaitsBound DEF AVIInv, AVCounts
<1>2. IsFiniteSet(living) /\ Cardinality(living) \in Nat
  <2>1. av_forked \in Nat /\ living \in SUBSET (1 .. av_forked)  BY <1>1
  <2> QED  BY <2>1, ChildrenFinite
<1>3. AverageToGo \in Nat  BY <1>1, <1>2 DEF AverageToGo
<1>4. ASSUME UNCHANGED <<av_forked, av_exited, av_waits>>,
             \/ av_main = "print" /\ av_main' = "fork"
             \/ av_main = "fork" /\ av_main' = "failed"
             \/ av_main = "wait" /\ av_main' = "exited"
      PROVE  AverageToGo' < AverageToGo
  BY <1>1, <1>2, <1>4 DEF AverageToGo
<1>5. CASE PrintParent \/ ForkChildFails \/ ReturnParent
  <2>1. CASE PrintParent  BY <1>3, <1>4, <2>1 DEF PrintParent
  <2>2. CASE ForkChildFails  BY <1>3, <1>4, <2>2 DEF ForkChildFails
  <2>3. CASE ReturnParent  BY <1>3, <1>4, <2>3 DEF ReturnParent
  <2> QED  BY <1>5, <2>1, <2>2, <2>3
<1>6. CASE ForkChild
  <2>1. /\ av_main = "fork" /\ av_main' \in {"wait", "fork"} /\ av_forked' = av_forked + 1
        /\ av_exited' = av_exited /\ av_waits' = av_waits
    BY <1>6 DEF ForkChild
  <2>2. living' = living \cup {av_forked + 1} /\ av_forked + 1 \notin living  BY <1>1, <2>1
  <2>3. Cardinality(living') = Cardinality(living) + 1  BY <1>2, <2>2, FS_AddElement
  <2> QED  BY <1>1, <1>2, <2>1, <2>3 DEF AverageToGo
<1>7. CASE RunChild
  <2>1. PICK i \in living : av_exited' = av_exited \cup {i}  BY <1>7 DEF RunChild
  <2>2. UNCHANGED <<av_forked, av_waits, av_main>>  BY <1>7 DEF RunChild
  <2>3. living' = living \ {i}  BY <2>1, <2>2
  <2>4. Cardinality(living') = Cardinality(living) - 1  BY <1>2, <2>1, <2>3, FS_RemoveElement
  <2> QED  BY <1>1, <1>2, <2>2, <2>4 DEF AverageToGo
<1>8. CASE WaitChild
  <2>1. av_waits < CHILDREN /\ av_waits' = av_waits + 1 /\ UNCHANGED <<av_forked, av_exited, av_main>>
    BY <1>8 DEF WaitChild
  <2> QED  BY <1>1, <1>2, <2>1 DEF AverageToGo
<1> QED  BY <1>3, <1>5, <1>6, <1>7, <1>8 DEF AVNext

\* The same of main and the threads of the product.
ProductGoes ==
  mt_main # "exited" =>
    \/ mt_main \in {"create", "print", "sequential", "free"}
    \/ mt_main = "join" /\ (mt_joined + 1 \in mt_C \/ mt_C # 1 .. mt_created)

ProductToGo ==
  2 * (ELEMENTS - mt_created) + Cardinality(1 .. mt_created \ mt_C) + (ELEMENTS - mt_joined)
    + IF mt_main \in {"create", "join", "print"} THEN 3
      ELSE IF mt_main = "sequential" THEN 2 ELSE IF mt_main = "free" THEN 1 ELSE 0

\* The next thread to join has stored its element, or some thread is computing.
LEMMA ProductGoesInv == MTIInv => ProductGoes
BY MatrixProductAssumption DEF MTIInv, ProductGoes

\* The variant is a number, which every step of the program lowers.
LEMMA ProductMovesOn ==
  MTIInv => /\ ProductToGo \in Nat
            /\ (MTNext => ProductToGo' < ProductToGo)
<1> SUFFICES ASSUME MTIInv
             PROVE  /\ ProductToGo \in Nat
                    /\ (MTNext => ProductToGo' < ProductToGo)
  OBVIOUS
<1> DEFINE computing == 1 .. mt_created \ mt_C
<1>1. /\ mt_created \in 0 .. ELEMENTS /\ mt_joined \in 0 .. ELEMENTS /\ ELEMENTS \in Nat
      /\ mt_C \subseteq 1 .. mt_created
      /\ mt_main \in {"create", "join", "print", "sequential", "free", "exited"}
      /\ mt_main = "join" => mt_joined < ELEMENTS
  BY MatrixProductAssumption DEF MTIInv
<1>2. IsFiniteSet(computing) /\ Cardinality(computing) \in Nat
  <2>1. mt_created \in Nat /\ computing \in SUBSET (1 .. mt_created)  BY <1>1
  <2> QED  BY <2>1, ChildrenFinite
<1>3. ProductToGo \in Nat  BY <1>1, <1>2 DEF ProductToGo
<1>4. CASE CreateThread
  <2>1. /\ mt_main = "create" /\ mt_main' \in {"join", "create"} /\ mt_created' = mt_created + 1
        /\ mt_C' = mt_C /\ mt_joined' = mt_joined
    BY <1>4 DEF CreateThread
  <2>2. computing' = computing \cup {mt_created + 1} /\ mt_created + 1 \notin computing  BY <1>1, <2>1
  <2>3. Cardinality(computing') = Cardinality(computing) + 1  BY <1>2, <2>2, FS_AddElement
  <2> QED  BY <1>1, <1>2, <2>1, <2>3 DEF ProductToGo
<1>5. CASE compute_element
  <2>1. PICK t \in computing : mt_C' = mt_C \cup {t}  BY <1>5 DEF compute_element
  <2>2. UNCHANGED <<mt_main, mt_created, mt_joined>>  BY <1>5 DEF compute_element
  <2>3. computing' = computing \ {t}  BY <2>1, <2>2
  <2>4. Cardinality(computing') = Cardinality(computing) - 1  BY <1>2, <2>1, <2>3, FS_RemoveElement
  <2> QED  BY <1>1, <1>2, <2>2, <2>4 DEF ProductToGo
<1>6. CASE JoinThread
  <2>1. /\ mt_main = "join" /\ mt_joined' = mt_joined + 1 /\ mt_main' \in {"print", "join"}
        /\ UNCHANGED <<mt_created, mt_C>>
    BY <1>6 DEF JoinThread
  <2> QED  BY <1>1, <1>2, <2>1 DEF ProductToGo
<1>7. CASE Finish
  <2>1. /\ UNCHANGED <<mt_created, mt_joined>>
        /\ \/ mt_main = "print"      /\ mt_main' = "sequential" /\ UNCHANGED mt_C
           \/ mt_main = "sequential" /\ mt_main' = "free"       /\ mt_C' = 1 .. ELEMENTS
           \/ mt_main = "free"       /\ mt_main' = "exited"     /\ UNCHANGED mt_C
    BY <1>7 DEF Finish
  <2>2. mt_C' = mt_C
    <3>1. CASE mt_main = "sequential"
      <4>1. mt_joined = ELEMENTS /\ mt_created = ELEMENTS  BY <3>1 DEF MTIInv
      <4>2. \A i \in 1 .. ELEMENTS : i \in mt_C  BY <4>1 DEF MTIInv
      <4>3. mt_C = 1 .. ELEMENTS  BY <1>1, <4>1, <4>2
      <4> QED  BY <2>1, <3>1, <4>3
    <3> QED  BY <2>1, <3>1
  <2> QED  BY <1>1, <1>2, <2>1, <2>2 DEF ProductToGo
<1> QED  BY <1>3, <1>4, <1>5, <1>6, <1>7 DEF MTNext

\* The search, the averages and the product are never stuck: as long as they have
\* not ended, a process or thread of theirs can go on, be it that the one somebody
\* waits for has left.
THEOREM NobodyWaitsInVain == Spec => [](SearchGoes /\ AverageGoes /\ ProductGoes)
<1>1. IInv => SearchGoes /\ AverageGoes /\ ProductGoes
  BY SearchGoesInv, AverageGoesInv, ProductGoesInv DEF IInv
<1> QED  BY <1>1, Invariance, PTL

----------------------------------------------------------------------------
(* The move ends: the variant                                            *)

\* No directory that is being walked is yet to be read, or is walked twice.
CalledOnce ==
  \A j, k \in 1 .. Len(mv_stack) :
    /\ mv_stack[j].dir \notin mv_stack[k].todo
    /\ mv_stack[j].dir = mv_stack[k].dir => j = k

\* The entries the walk has yet to read, at the most.
Unread ==
  IF mv_pc = "start" THEN Entry
  ELSE {x \in Entry : \E k \in 1 .. Len(mv_stack) : ({x} \cup Above[x]) \cap mv_stack[k].todo # {}}

\* An entry to read may be a call to come, with its return.
MoveToGo == 2 * Cardinality(Unread) + Len(mv_stack) + IF mv_pc = "start" THEN 2 ELSE 0

\* The source has finitely many entries.
LEMMA UnreadFinite ==
  /\ IsFiniteSet(Unread) /\ Cardinality(Unread) \in Nat
  /\ \A S \in SUBSET Entry : IsFiniteSet(S) /\ Cardinality(S) \in Nat
<1>1. IsFiniteSet(Entry) /\ Unread \in SUBSET Entry  BY MoveTreeAssumption DEF Unread
<1> QED  BY <1>1, FS_Subset, FS_CardinalityType

\* A set without one entry is smaller.
LEMMA UnreadLess ==
  ASSUME NEW S \in SUBSET Entry, NEW e \in S, NEW T \in SUBSET (S \ {e})
  PROVE  Cardinality(T) <= Cardinality(S) - 1
<1>1. IsFiniteSet(S) /\ Cardinality(S) \in Nat /\ Cardinality(T) \in Nat  BY UnreadFinite
<1>2. IsFiniteSet(S \ {e}) /\ Cardinality(S \ {e}) = Cardinality(S) - 1  BY <1>1, FS_RemoveElement
<1>3. Cardinality(T) <= Cardinality(S \ {e})  BY <1>2, FS_Subset
<1> QED  BY <1>1, <1>2, <1>3

\* An entry that has been read will not be read again, and what is in it if it is
\* a directory was to be read before.
LEMMA ReadOnce ==
  ASSUME MVIInv, CalledOnce, mv_pc = "walk", mv_pc' = "walk", NEW e \in Call.todo,
         \/ mv_stack' = Read(e)
         \/ e \in Dirs /\ mv_stack' = Append(Read(e), [dir |-> e, todo |-> In(e)])
  PROVE  /\ CalledOnce' /\ e \in Unread /\ Unread' \subseteq Unread \ {e}
         /\ Len(mv_stack) \in Nat /\ Len(mv_stack') \in Nat /\ Len(mv_stack') <= Len(mv_stack) + 1
<1> DEFINE n == Len(mv_stack)
<1>1. MVTypes /\ OnePlace /\ Frames /\ mv_stack # <<>>  BY DEF MVIInv, MVTypes
<1>2. /\ Read(e) \in Seq(Frame) /\ Len(Read(e)) = n /\ n \in Nat \ {0} /\ n \in 1 .. n
      /\ \A k \in 1 .. n :
           /\ Read(e)[k].dir = mv_stack[k].dir
           /\ Read(e)[k].todo = IF k = n THEN mv_stack[k].todo \ {e} ELSE mv_stack[k].todo
  <2>1. PICK m \in Nat \ {0} : m = n  BY <1>1, ReadFrames
  <2>2. m \in 1 .. m  BY <2>1
  <2>3. n \in 1 .. n  BY <2>1, <2>2
  <2>4. /\ Read(e) \in Seq(Frame) /\ Len(Read(e)) = n /\ n \in Nat \ {0}
        /\ \A k \in 1 .. n :
           /\ Read(e)[k].dir = mv_stack[k].dir
           /\ Read(e)[k].todo = IF k = n THEN mv_stack[k].todo \ {e} ELSE mv_stack[k].todo
    BY <1>1, ReadFrames
  <2> QED  BY <2>3, <2>4
<1>3. e \in Entry /\ e # Top /\ Parent[e] = mv_stack[n].dir /\ e \in mv_stack[n].todo
  <2>1. mv_stack[n] \in Frame  BY <1>1, <1>2 DEF Frames
  <2>2. e \in mv_stack[n].todo /\ mv_stack[n].todo \in SUBSET Entry  BY <2>1 DEF Frame, Call
  <2> QED  BY <1>1, <1>2, <2>2, MoveTreeAssumption DEF Frames
<1>4. \A j \in 1 .. n : e # mv_stack[j].dir  BY <1>2, <1>3 DEF CalledOnce
<1>5. \A k \in 1 .. n : Read(e)[k].todo \subseteq mv_stack[k].todo /\ e \notin Read(e)[k].todo
  <2> SUFFICES ASSUME NEW k \in 1 .. n, e \in mv_stack[k].todo PROVE k = n  BY <1>2
  <2>1. mv_stack[k].dir = mv_stack[n].dir  BY <1>1, <1>3 DEF Frames
  <2> QED  BY <1>2, <2>1 DEF CalledOnce
<1>d. \A j, k \in 1 .. n :
        /\ Read(e)[j].dir = mv_stack[j].dir /\ mv_stack[j].dir \notin Read(e)[k].todo
        /\ mv_stack[j].dir = mv_stack[k].dir => j = k
  <2> SUFFICES ASSUME NEW j \in 1 .. n, NEW k \in 1 .. n
               PROVE  /\ Read(e)[j].dir = mv_stack[j].dir /\ mv_stack[j].dir \notin Read(e)[k].todo
                      /\ mv_stack[j].dir = mv_stack[k].dir => j = k
    OBVIOUS
  <2>1. mv_stack[j].dir \notin mv_stack[k].todo /\ (mv_stack[j].dir = mv_stack[k].dir => j = k)
    BY DEF CalledOnce
  <2> QED  BY <1>2, <1>5, <2>1
<1>6. \A x \in Above[e] : \E j \in 1 .. n : mv_stack[j].dir = x
  BY <1>1, <1>2, <1>3, AboveOnStack
<1>7. \A k \in 1 .. n : ({e} \cup Above[e]) \cap Read(e)[k].todo = {}
  BY <1>5, <1>6 DEF CalledOnce
<1>8. e \in Unread  BY <1>2, <1>3 DEF Unread
<1>9. CASE mv_stack' = Read(e)
  <2>1. CalledOnce'  BY <1>2, <1>9, <1>d DEF CalledOnce
  <2>2. Unread' \subseteq Unread \ {e}  BY <1>2, <1>5, <1>7, <1>9 DEF Unread
  <2> QED  BY <1>2, <1>8, <1>9, <2>1, <2>2
<1>10. CASE e \in Dirs /\ mv_stack' = Append(Read(e), [dir |-> e, todo |-> In(e)])
  <2>1. /\ Len(mv_stack') = n + 1
        /\ \A k \in 1 .. n : mv_stack'[k] = Read(e)[k]
        /\ mv_stack'[n + 1].dir = e /\ mv_stack'[n + 1].todo = In(e)
    BY <1>1, <1>2, <1>10, EnterFrames
  <2>2. \A k \in 1 .. n + 1 : k \in 1 .. n \/ k = n + 1  BY <1>2
  <2>3. \A j \in 1 .. n : mv_stack[j].dir \notin In(e)
    <3> SUFFICES ASSUME NEW j \in 1 .. n, mv_stack[j].dir \in In(e) PROVE FALSE  OBVIOUS
    <3>1. mv_stack[j].dir \in Entry /\ Parent[mv_stack[j].dir] = e  BY <1>1 DEF In, MVTypes
    <3>2. j \in 2 .. n /\ j - 1 \in 1 .. n
      <4>1. j # 1  BY <1>1, <3>1, MoveTreeAssumption DEF Frames
      <4> QED  BY <1>2, <4>1
    <3>3. mv_stack[j - 1].dir = e  BY <1>1, <3>1, <3>2 DEF Frames
    <3> QED  BY <1>4, <3>2, <3>3
  <2>4. e \notin In(e)
    <3>1. Parent[e] # e  BY <1>2, <1>3, <1>4
    <3> QED  BY <3>1 DEF In
  <2>5. CalledOnce'
    <3>1. ASSUME NEW j \in 1 .. n, NEW k \in 1 .. n
          PROVE  /\ mv_stack'[j].dir \notin mv_stack'[k].todo
                 /\ mv_stack'[j].dir = mv_stack'[k].dir => j = k
      BY <1>d, <2>1
    <3>2. ASSUME NEW j \in 1 .. n
          PROVE  /\ mv_stack'[j].dir \notin mv_stack'[n + 1].todo
                 /\ mv_stack'[n + 1].dir \notin mv_stack'[j].todo
                 /\ mv_stack'[j].dir # mv_stack'[n + 1].dir
      <4>1. mv_stack'[j].dir = mv_stack[j].dir /\ mv_stack'[j].todo = Read(e)[j].todo
        BY <1>d, <2>1
      <4> QED  BY <1>4, <1>5, <2>1, <2>3, <4>1
    <3>3. mv_stack'[n + 1].dir \notin mv_stack'[n + 1].todo  BY <2>1, <2>4
    <3> QED  BY <2>1, <2>2, <3>1, <3>2, <3>3 DEF CalledOnce
  <2>6. Unread' \subseteq Unread \ {e}
    <3> SUFFICES ASSUME NEW x \in Entry, NEW k \in 1 .. n + 1,
                        NEW y \in ({x} \cup Above[x]) \cap mv_stack'[k].todo
                 PROVE  x \in Unread /\ x # e
      BY <2>1 DEF Unread
    <3>1. CASE k \in 1 .. n
      <4>1. y \in mv_stack[k].todo /\ y \in Read(e)[k].todo  BY <1>5, <2>1, <3>1
      <4>2. x # e  BY <1>7, <3>1, <4>1
      <4> QED  BY <3>1, <4>1, <4>2 DEF Unread
    <3>2. CASE k = n + 1
      <4>1. y \in In(e) /\ y \in Entry /\ Parent[y] = e /\ y # Top
        BY <1>1, <2>1, <3>2, MoveTreeAssumption DEF In, MVTypes
      <4>2. e \in Above[x]  BY <4>1, AboveParent, AboveUpwards
      <4>3. x # e
        <5> SUFFICES ASSUME x = e PROVE FALSE  OBVIOUS
        <5>1. PICK j \in 1 .. n : mv_stack[j].dir = e  BY <1>6, <4>2
        <5> QED  BY <1>4, <5>1
      <4> QED  BY <1>2, <1>3, <4>2, <4>3 DEF Unread
    <3> QED  BY <2>2, <3>1, <3>2
  <2> QED  BY <1>2, <1>8, <2>1, <2>5, <2>6
<1> QED  BY <1>9, <1>10

\* A read makes the source smaller by an entry, whose call may come on top; a return
\* takes a call away.
LEMMA MoveMovesOn ==
  ASSUME MVIInv, CalledOnce, [MVNext]_mv_vars
  PROVE  /\ CalledOnce' /\ MoveToGo \in Nat
         /\ MVNext => MoveToGo' < MoveToGo
<1>0. Cardinality(Unread) \in Nat /\ Cardinality(Unread') \in Nat /\ Unread \in SUBSET Entry
  <2>1. Unread \in SUBSET Entry /\ Unread' \in SUBSET Entry  BY DEF Unread
  <2> QED  BY <2>1, UnreadFinite
<1>1. Len(mv_stack) \in Nat /\ MoveToGo \in Nat
  <2>1. Len(mv_stack) \in Nat  BY DEF MVIInv, Frames
  <2> QED  BY <1>0, <2>1 DEF MoveToGo
<1>2. CASE Start
  <2>1. mv_pc = "start" /\ mv_pc' # "start" /\ mv_src = Entry /\ mv_stack = <<>>
    BY <1>2 DEF Start, MVIInv, MVTypes
  <2>2. mv_stack' = Append(<<>>, [dir |-> Top, todo |-> In(Top)]) \/ mv_stack' = <<>>
    BY <1>2 DEF Start, Enter
  <2>3. /\ Len(mv_stack') \in {0, 1}
        /\ Len(mv_stack') = 1 => mv_stack'[1] = [dir |-> Top, todo |-> In(Top)]
    BY <2>2
  <2>4. CalledOnce'
    <3>1. Top \notin In(Top)  BY <2>1, MoveTreeAssumption DEF In
    <3>2. ASSUME NEW j \in 1 .. Len(mv_stack') PROVE j = 1 /\ Len(mv_stack') = 1
      <4>1. PICK l \in {0, 1} : l = Len(mv_stack')  BY <2>3
      <4> QED  BY <3>2, <4>1
    <3> QED  BY <2>3, <3>1, <3>2 DEF CalledOnce
  <2>5. Cardinality(Unread') <= Cardinality(Unread)
    <3>1. Unread = Entry /\ Unread' \in SUBSET Entry  BY <2>1 DEF Unread
    <3> QED  BY <3>1, UnreadFinite, FS_Subset
  <2>6. MoveToGo = 2 * Cardinality(Unread) + 0 + 2  BY <2>1 DEF MoveToGo
  <2>7. MoveToGo' = 2 * Cardinality(Unread') + Len(mv_stack') + 0  BY <2>1 DEF MoveToGo
  <2>8. PICK a \in Nat, b \in Nat, l \in {0, 1} :
          a = Cardinality(Unread) /\ b = Cardinality(Unread') /\ l = Len(mv_stack')
    BY <1>0, <2>3
  <2>9. b <= a  BY <2>5, <2>8
  <2>10. 2 * b + l + 0 < 2 * a + 0 + 2
    <3> HIDE DEF MoveToGo
    <3> QED  BY <2>9
  <2> QED  BY <1>1, <2>4, <2>6, <2>7, <2>8, <2>10
<1>3. CASE ReadEntry
  <2>1. PICK e \in Call.todo : move_subdirectory(e) \/ move_file(e)  BY <1>3 DEF ReadEntry
  <2>2. /\ mv_pc = "walk" /\ mv_pc' = "walk"
        /\ \/ mv_stack' = Read(e)
           \/ e \in Dirs /\ mv_stack' = Append(Read(e), [dir |-> e, todo |-> In(e)])
    BY <1>3, <2>1 DEF ReadEntry, move_subdirectory, move_file, Enter, Dirs
  <2>3. /\ CalledOnce' /\ e \in Unread /\ Unread' \subseteq Unread \ {e}
        /\ Len(mv_stack') \in Nat /\ Len(mv_stack') <= Len(mv_stack) + 1
    BY <2>2, ReadOnce
  <2>4. Cardinality(Unread') <= Cardinality(Unread) - 1  BY <1>0, <2>3, UnreadLess
  <2>5. /\ MoveToGo = 2 * Cardinality(Unread) + Len(mv_stack) + 0
        /\ MoveToGo' = 2 * Cardinality(Unread') + Len(mv_stack') + 0
    BY <2>2 DEF MoveToGo
  <2> QED  BY <1>0, <1>1, <2>3, <2>4, <2>5
<1>4. CASE Leave
  <2> DEFINE n == Len(mv_stack)
  <2>1. mv_pc = "walk" /\ mv_pc' \in {"walk", "done"} /\ n \in Nat \ {0} /\ mv_stack \in Seq(Frame)
    <3>1. mv_pc = "walk" /\ mv_stack # <<>> /\ mv_stack \in Seq(Frame)
      BY <1>4 DEF Leave, MVIInv, MVTypes, Frames
    <3> QED  BY <1>4, <3>1 DEF Leave
  <2>2. Len(mv_stack') = n - 1 /\ \A k \in 1 .. n - 1 : k \in 1 .. n /\ mv_stack'[k] = mv_stack[k]
    <3>1. mv_stack' = SubSeq(mv_stack, 1, n - 1)  BY <1>4 DEF Leave
    <3>2. 1 \in Int /\ n - 1 \in Int /\ \A i \in 1 .. n - 1 : mv_stack[i] \in Frame /\ i \in 1 .. n
      BY <2>1
    <3>3. /\ Len(SubSeq(mv_stack, 1, n - 1)) = IF 1 <= n - 1 THEN (n - 1) - 1 + 1 ELSE 0
          /\ \A i \in 1 .. (n - 1) - 1 + 1 : SubSeq(mv_stack, 1, n - 1)[i] = mv_stack[1 + i - 1]
      BY <3>2, SubSeqProperties
    <3> HIDE DEF n
    <3>4. (IF 1 <= n - 1 THEN (n - 1) - 1 + 1 ELSE 0) = n - 1 /\ (n - 1) - 1 + 1 = n - 1  BY <2>1
    <3>5. \A i \in 1 .. n - 1 : 1 + i - 1 = i  BY <2>1
    <3> QED  BY <3>1, <3>2, <3>3, <3>4, <3>5
  <2>3. CalledOnce'  BY <2>2 DEF CalledOnce
  <2>4. Unread' \subseteq Unread  BY <2>1, <2>2 DEF Unread
  <2>5. Cardinality(Unread') <= Cardinality(Unread)  BY <1>0, <2>4, UnreadFinite, FS_Subset
  <2>6. /\ MoveToGo = 2 * Cardinality(Unread) + n + 0
        /\ MoveToGo' = 2 * Cardinality(Unread') + (n - 1) + 0
    BY <2>1, <2>2 DEF MoveToGo
  <2> QED  BY <1>0, <1>1, <2>1, <2>3, <2>5, <2>6
<1>5. CASE ~MVNext /\ UNCHANGED mv_vars
  BY <1>1, <1>5 DEF mv_vars, CalledOnce
<1> QED  BY <1>2, <1>3, <1>4, <1>5 DEF MVNext

----------------------------------------------------------------------------
(* Every program ends: the sum of the variants                           *)

\* The calls of a redirection that are to come, or that end it.
RedirectToGo ==
  IF rd_pc = "open" THEN 5 ELSE IF rd_pc = "dup" THEN 4 ELSE IF rd_pc = "redirect" THEN 3
  ELSE IF rd_pc = "work" THEN 2 ELSE IF rd_pc = "restore" THEN 1 ELSE 0

\* Opening, the blocks that are not read yet, and closing.
CopyToGo ==
  (IF cp_pc = "open_src" THEN 3 ELSE IF cp_pc = "open_dest" THEN 2 ELSE IF cp_pc = "copy" THEN 1 ELSE 0)
    + IF cp_read < cp_length THEN cp_length - cp_read ELSE 0

\* The programs main has yet to start, and the one that runs.
DriverToGo == 2 * (Len(Programs) - mn_next) + IF mn_running = {} THEN 0 ELSE 1

\* None of the calls is made twice.
LEMMA RedirectMovesOn == RDNext => RedirectToGo \in Nat /\ RedirectToGo' < RedirectToGo
<1>1. CASE Open  BY <1>1 DEF Open, ExitWith, RedirectToGo
<1>2. CASE Dup  BY <1>2 DEF Dup, RedirectToGo
<1>3. CASE Redirect
  <2>1. rd_pc = "redirect" /\ rd_pc' \in {"work", "failed"}  BY <1>3 DEF Redirect, ExitWith
  <2> QED  BY <2>1 DEF RedirectToGo
<1>4. CASE Work  BY <1>4 DEF Work, RedirectToGo
<1>5. CASE Restore
  <2>1. rd_pc = "restore" /\ rd_pc' \in {"exited", "failed"}  BY <1>5 DEF Restore, ExitWith
  <2> QED  BY <2>1 DEF RedirectToGo
<1> QED  BY <1>1, <1>2, <1>3, <1>4, <1>5 DEF RDNext

\* The loop reads no more than the source held when it was opened, and nothing at
\* all if the source is the file that was opened for writing.
LEMMA CopyMovesOn ==
  ASSUME CPIInv
  PROVE  CopyToGo \in Nat /\ (CPNext => CopyToGo' < CopyToGo)
<1>1. cp_length \in Nat /\ cp_read \in Nat  BY DEF CPIInv, CPTypes
<1>2. CopyToGo \in Nat  BY <1>1 DEF CopyToGo
<1>3. CASE OpenSource  BY <1>1, <1>2, <1>3 DEF OpenSource, cp_offsets, CopyToGo
<1>4. CASE OpenDest
  <2>1. /\ cp_pc = "open_dest" /\ cp_pc' \in {"copy", "returned"}
        /\ cp_length' = cp_length /\ cp_read' = cp_read
    BY <1>4 DEF OpenDest, cp_offsets
  <2> QED  BY <1>1, <1>2, <2>1 DEF CopyToGo
<1>5. CASE CopyBlock
  <2>1. /\ cp_pc = "copy" /\ cp_pc' = "copy" /\ cp_read' = cp_read + 1 /\ cp_length' = cp_length
        /\ cp_read < Len(cp_file["source"])
    BY <1>5 DEF CopyBlock, End
  <2>2. Target # "source"  BY <1>1, <2>1 DEF CPIInv
  <2>3. cp_file["source"] = Original("source")  BY <2>2 DEF CPIInv, CopiedFile
  <2>4. cp_read < cp_length  BY <1>1, <2>1, <2>3, OriginalType
  <2> QED  BY <1>1, <1>2, <2>1, <2>4 DEF CopyToGo
<1>6. CASE Report  BY <1>1, <1>2, <1>6 DEF Report, cp_offsets, CopyToGo
<1> QED  BY <1>2, <1>3, <1>4, <1>5, <1>6 DEF CPNext

\* A program is started only when the one before has been waited for.
LEMMA DriverMovesOn ==
  ASSUME MNIInv
  PROVE  /\ DriverToGo \in Nat
         /\ run_program \/ ChildExits => DriverToGo' < DriverToGo
<1>1. mn_next \in 0 .. 4 /\ Len(Programs) = 4  BY ProgramsList DEF MNIInv
<1>2. DriverToGo \in Nat  BY <1>1 DEF DriverToGo
<1>3. CASE run_program
  <2>1. mn_next' = mn_next + 1 /\ mn_running = {}
    BY <1>3 DEF run_program, Waited
  <2> QED  BY <1>1, <1>2, <2>1 DEF DriverToGo
<1>4. CASE ChildExits
  <2>1. mn_next' = mn_next /\ mn_running # {} /\ \E p \in mn_running : mn_running' = mn_running \ {p}
    BY <1>4 DEF ChildExits
  <2>2. mn_running' = {}  BY <2>1 DEF MNIInv
  <2> QED  BY <1>1, <1>2, <2>1, <2>2 DEF DriverToGo
<1> QED  BY <1>2, <1>3, <1>4

\* What is left to do, of whichever program runs.
FilesToGo == CopyToGo + MoveToGo + DriverToGo
ToGo      == Cardinality(SortToGo) + AverageToGo + SearchToGo + ProductToGo + RedirectToGo + FilesToGo

AreNumbers ==
  /\ Cardinality(SortToGo) \in Nat /\ AverageToGo \in Nat /\ SearchToGo \in Nat
  /\ ProductToGo \in Nat /\ RedirectToGo \in Nat
  /\ CopyToGo \in Nat /\ MoveToGo \in Nat /\ DriverToGo \in Nat

\* All the variants are numbers.
LEMMA ToGoNat == IInv /\ CalledOnce => AreNumbers
<1> SUFFICES ASSUME IInv, CalledOnce PROVE AreNumbers  OBVIOUS
<1>1. Cardinality(SortToGo) \in Nat  BY SortToGoFinite, FS_CardinalityType
<1>2. AverageToGo \in Nat /\ SearchToGo \in Nat /\ ProductToGo \in Nat
  BY AverageMovesOn, SearchToGoNat, ProductMovesOn DEF IInv
<1>3. RedirectToGo \in Nat  BY DEF RedirectToGo
<1>4. MoveToGo \in Nat
  <2>1. Cardinality(Unread) \in Nat  BY UnreadFinite
  <2>2. Len(mv_stack) \in Nat  BY DEF IInv, MVIInv, Frames
  <2> QED  BY <2>1, <2>2 DEF MoveToGo
<1>5. CopyToGo \in Nat /\ DriverToGo \in Nat  BY CopyMovesOn, DriverMovesOn DEF IInv
<1> QED  BY <1>1, <1>2, <1>3, <1>4, <1>5 DEF AreNumbers

\* What does not run has as much to do as before.
LEMMA Resting ==
  /\ UNCHANGED ms_vars => Cardinality(SortToGo)' = Cardinality(SortToGo)
  /\ UNCHANGED av_vars => AverageToGo' = AverageToGo
  /\ UNCHANGED bs_vars => SearchToGo' = SearchToGo
  /\ UNCHANGED mt_vars => ProductToGo' = ProductToGo
  /\ UNCHANGED rd_vars => RedirectToGo' = RedirectToGo
  /\ UNCHANGED cp_vars => CopyToGo' = CopyToGo
  /\ UNCHANGED mv_vars => MoveToGo' = MoveToGo
  /\ UNCHANGED mn_vars => DriverToGo' = DriverToGo
<1>1. UNCHANGED ms_vars => Cardinality(SortToGo)' = Cardinality(SortToGo)  BY DEF ms_vars, SortToGo
<1>2. UNCHANGED av_vars => AverageToGo' = AverageToGo  BY DEF av_vars, AverageToGo
<1>3. UNCHANGED bs_vars => SearchToGo' = SearchToGo
  BY DEF bs_vars, SearchToGo, BSLast, StillThere, HasLeft
<1>4. UNCHANGED mt_vars => ProductToGo' = ProductToGo  BY DEF mt_vars, ProductToGo
<1>5. UNCHANGED rd_vars => RedirectToGo' = RedirectToGo  BY DEF rd_vars, RedirectToGo
<1>6. UNCHANGED cp_vars => CopyToGo' = CopyToGo  BY DEF cp_vars, cp_offsets, CopyToGo
<1>7. UNCHANGED mv_vars => MoveToGo' = MoveToGo  BY DEF mv_vars, MoveToGo, Unread
<1>8. UNCHANGED mn_vars => DriverToGo' = DriverToGo  BY DEF mn_vars, DriverToGo
<1> QED  BY <1>1, <1>2, <1>3, <1>4, <1>5, <1>6, <1>7, <1>8

\* A step of the copy, the move or the driver.
LEMMA FilesMoveOn ==
  ASSUME IInv, CalledOnce, [Next]_vars,
         \/ CPNext /\ UNCHANGED <<mv_vars, mn_vars>>
         \/ DriverNext
  PROVE  \/ CopyToGo' < CopyToGo /\ MoveToGo' = MoveToGo /\ DriverToGo' = DriverToGo
         \/ CopyToGo' = CopyToGo /\ MoveToGo' < MoveToGo /\ DriverToGo' = DriverToGo
         \/ CopyToGo' = CopyToGo /\ MoveToGo' = MoveToGo /\ DriverToGo' < DriverToGo
<1>0. CPIInv /\ MVIInv /\ MNIInv /\ [MVNext]_mv_vars  BY StepOfEach DEF IInv
<1>1. CASE CPNext /\ UNCHANGED <<mv_vars, mn_vars>>  BY <1>0, <1>1, CopyMovesOn, Resting
<1>2. CASE CopyRuns
  BY <1>0, <1>2, CopyMovesOn, Resting DEF CopyRuns
<1>3. CASE MoveRuns
  BY <1>0, <1>3, MoveMovesOn, Resting DEF MoveRuns
<1>4. CASE run_program \/ ChildExits
  <2>1. UNCHANGED <<cp_vars, mv_vars>>  BY <1>4 DEF run_program, ChildExits
  <2> QED  BY <1>0, <1>4, <2>1, DriverMovesOn, Resting
<1> QED  BY <1>1, <1>2, <1>3, <1>4 DEF DriverNext

\* A step of a program lowers its variant and leaves those of the others.
LEMMA StepCounts ==
  ASSUME IInv, CalledOnce, IInv', CalledOnce', Next
  PROVE  ToGo' < ToGo
<1>1. PICK a \in Nat, b \in Nat, c \in Nat, d \in Nat, e \in Nat, f \in Nat, g \in Nat, h \in Nat :
        /\ a = Cardinality(SortToGo) /\ b = AverageToGo /\ c = SearchToGo /\ d = ProductToGo
        /\ e = RedirectToGo /\ f = CopyToGo /\ g = MoveToGo /\ h = DriverToGo
  BY ToGoNat DEF AreNumbers
<1>2. PICK i \in Nat, j \in Nat, k \in Nat, l \in Nat, m \in Nat, n \in Nat, o \in Nat, p \in Nat :
        /\ i = Cardinality(SortToGo)' /\ j = AverageToGo' /\ k = SearchToGo' /\ l = ProductToGo'
        /\ m = RedirectToGo' /\ n = CopyToGo' /\ o = MoveToGo' /\ p = DriverToGo'
  <2>1. AreNumbers'  BY ToGoNat, PTL
  <2> QED  BY <2>1 DEF AreNumbers
<1>3. ToGo = a + b + c + d + e + (f + g + h)  BY <1>1 DEF ToGo, FilesToGo
<1>4. ToGo' = i + j + k + l + m + (n + o + p)  BY <1>2 DEF ToGo, FilesToGo
<1>5. MSIInv /\ AVIInv /\ BSIInv /\ MTIInv  BY DEF IInv
<1>6. \/ i < a /\ j = b /\ k = c /\ l = d /\ m = e /\ n = f /\ o = g /\ p = h
      \/ i = a /\ j < b /\ k = c /\ l = d /\ m = e /\ n = f /\ o = g /\ p = h
      \/ i = a /\ j = b /\ k < c /\ l = d /\ m = e /\ n = f /\ o = g /\ p = h
      \/ i = a /\ j = b /\ k = c /\ l < d /\ m = e /\ n = f /\ o = g /\ p = h
      \/ i = a /\ j = b /\ k = c /\ l = d /\ m < e /\ n = f /\ o = g /\ p = h
      \/ i = a /\ j = b /\ k = c /\ l = d /\ m = e /\ n < f /\ o = g /\ p = h
      \/ i = a /\ j = b /\ k = c /\ l = d /\ m = e /\ n = f /\ o < g /\ p = h
      \/ i = a /\ j = b /\ k = c /\ l = d /\ m = e /\ n = f /\ o = g /\ p < h
  <2>1. CASE program = "sort" /\ MSNext
    <3>1. UNCHANGED <<av_vars, bs_vars, mt_vars, rd_vars, cp_vars, mv_vars, mn_vars>>  BY <2>1 DEF Next
    <3>2. Cardinality(SortToGo)' < Cardinality(SortToGo)  BY <1>5, <2>1, SortMovesOn
    <3> QED  BY <1>1, <1>2, <3>1, <3>2, Resting
  <2>2. CASE program = "average" /\ AVNext
    <3>1. UNCHANGED <<ms_vars, bs_vars, mt_vars, rd_vars, cp_vars, mv_vars, mn_vars>>  BY <2>2 DEF Next
    <3>2. AverageToGo' < AverageToGo  BY <1>5, <2>2, AverageMovesOn
    <3> QED  BY <1>1, <1>2, <3>1, <3>2, Resting
  <2>3. CASE program = "search" /\ BSNext
    <3>1. UNCHANGED <<ms_vars, av_vars, mt_vars, rd_vars, cp_vars, mv_vars, mn_vars>>  BY <2>3 DEF Next
    <3>2. SearchToGo' < SearchToGo  BY <1>5, <2>3, SearchMovesOn
    <3> QED  BY <1>1, <1>2, <3>1, <3>2, Resting
  <2>4. CASE program = "product" /\ MTNext
    <3>1. UNCHANGED <<ms_vars, av_vars, bs_vars, rd_vars, cp_vars, mv_vars, mn_vars>>  BY <2>4 DEF Next
    <3>2. ProductToGo' < ProductToGo  BY <1>5, <2>4, ProductMovesOn
    <3> QED  BY <1>1, <1>2, <3>1, <3>2, Resting
  <2>5. CASE program = "redirect" /\ RDNext
    <3>1. UNCHANGED <<ms_vars, av_vars, bs_vars, mt_vars, cp_vars, mv_vars, mn_vars>>  BY <2>5 DEF Next
    <3>2. RedirectToGo' < RedirectToGo  BY <2>5, RedirectMovesOn
    <3> QED  BY <1>1, <1>2, <3>1, <3>2, Resting
  <2>6. CASE \/ program = "copy" /\ CPNext /\ UNCHANGED <<mv_vars, mn_vars>>
             \/ program = "main" /\ DriverNext
    <3>1. UNCHANGED <<ms_vars, av_vars, bs_vars, mt_vars, rd_vars>>  BY <2>6 DEF Next
    <3>2. \/ CopyToGo' < CopyToGo /\ MoveToGo' = MoveToGo /\ DriverToGo' = DriverToGo
          \/ CopyToGo' = CopyToGo /\ MoveToGo' < MoveToGo /\ DriverToGo' = DriverToGo
          \/ CopyToGo' = CopyToGo /\ MoveToGo' = MoveToGo /\ DriverToGo' < DriverToGo
      BY <2>6, FilesMoveOn
    <3> QED  BY <1>1, <1>2, <3>1, <3>2, Resting
  <2> QED  BY <2>1, <2>2, <2>3, <2>4, <2>5, <2>6 DEF Next
<1> HIDE DEF ToGo
<1> QED  BY <1>3, <1>4, <1>6

\* No step of any program is taken twice: whichever calls fail, and whatever the
\* order of its processes or threads, each lowers what is left to do.  So no program
\* goes on for ever; that none is stuck either is
\* SortNeverStuck and NobodyWaitsInVain.
THEOREM EveryStepCounts == Spec => [](ToGo \in Nat) /\ [][ToGo' < ToGo]_vars
<1>1. Init => CalledOnce
  <2>1. Init => mv_stack = <<>>  BY DEF Init, MVInit, DriverInit
  <2>2. mv_stack = <<>> => Len(mv_stack) = 0  OBVIOUS
  <2> QED  BY <2>1, <2>2 DEF CalledOnce
<1>2. IInv /\ CalledOnce /\ [Next]_vars => CalledOnce'
  <2> SUFFICES ASSUME IInv, CalledOnce, [Next]_vars PROVE CalledOnce'  OBVIOUS
  <2>1. MVIInv /\ [MVNext]_mv_vars  BY StepOfEach DEF IInv
  <2> QED  BY <2>1, MoveMovesOn
<1>3. IInv /\ CalledOnce => ToGo \in Nat  BY ToGoNat DEF ToGo, FilesToGo, AreNumbers
<1>4. IInv /\ CalledOnce /\ IInv' /\ CalledOnce' /\ [Next]_vars => [ToGo' < ToGo]_vars  BY StepCounts
<1> QED  BY <1>1, <1>2, <1>3, <1>4, Invariance, PTL DEF Spec
=============================================================================
