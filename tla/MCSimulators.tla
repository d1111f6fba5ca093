----------------------------- MODULE MCSimulators -----------------------------
(***************************************************************************)
(* The sequential simulators in one run: of segmentation, the TLB and the  *)
(* clock, of CPU and disk scheduling, and the statistics of stations.  The *)
(* initial state picks the one that runs; the others stay in an initial    *)
(* state of theirs.  Beside srtf runs a rival that at every tick runs any  *)
(* process that has arrived, or none.                                      *)
(***************************************************************************)
EXTENDS TLB, ClockReplacement, Segmentation, CpuScheduling, DiskSSTF, Stations

VARIABLES program,
          rival      \* what remains of each process under the rival's schedule

seg_vars == <<address, reply>>
cpu_vars == <<sched_vars, rival>>
vars == <<program, tlb_vars, clock_vars, seg_vars, cpu_vars, disk_vars, st_vars>>

\* Addresses next to every boundary of every segment.
Boundaries ==
  LET offsets == {0, 1, 2046, 2047, 2048, 2049, 3071, 3072, 3073, 4094, 4095, 4096, 4097,
                  6143, 6144, 6145, 16383}
  IN  {s * 16384 + o : s \in 0 .. 3, o \in offsets}

Readings == {-1, 0, 2}

Init ==
  /\ program \in {"segments", "tlb", "clock", "cpu", "disk", "stations"}
  /\ TLBInit
  /\ ClockInit
  /\ IF program = "segments" THEN SegInit ELSE address = 0 /\ reply = translateAddress(0)
  /\ IF program = "cpu" THEN SchedInit
     ELSE /\ algo = "FIFO" /\ timeQuantum = 1
          /\ arrivalTime = [p \in Process |-> 0] /\ burstTime = arrivalTime
          /\ SchedInit
  /\ rival = burstTime
  /\ DiskInit /\ (program # "disk" => disk_requests = <<>>)
  /\ STInit /\ (program # "stations" => st_way = "mmap")

RivalRuns ==
  \/ UNCHANGED rival
  \/ \E p \in Process : /\ arrivalTime[p] <= current_time
                        /\ rival[p] > 0
                        /\ rival' = [rival EXCEPT ![p] = @ - 1]

Next ==
  /\ \/ program = "segments" /\ SegNext
     \/ program = "tlb"      /\ TLBNext
     \/ program = "clock"    /\ ClockNext
     \/ program = "cpu"      /\ SchedNext /\ IF algo = "SRTF" THEN RivalRuns ELSE UNCHANGED rival
     \/ program = "disk"     /\ simulate_sstf
     \/ program = "stations" /\ STNext
  /\ program # "segments" => UNCHANGED seg_vars
  /\ program # "tlb"      => UNCHANGED tlb_vars
  /\ program # "clock"    => UNCHANGED clock_vars
  /\ program # "cpu"      => UNCHANGED cpu_vars
  /\ program # "disk"     => UNCHANGED disk_vars
  /\ program # "stations" => UNCHANGED st_vars
  /\ UNCHANGED program

\* Fair because the programs are sequential: each goes on as long as it has a step.
Spec == Init /\ [][Next]_vars /\ WF_vars(Next)

\* AllComplete, of the scheduler when it is the one that runs.
ReadyComplete == program = "cpu" => AllComplete

\* Shortest remaining time first is optimal: at no moment has any other
\* schedule of the same processes completed more of them.
NoScheduleIsAhead ==
  algo = "SRTF" => Cardinality({p \in Process : rival[p] = 0}) <= Cardinality(Completed)
=============================================================================
