---------------------------- MODULE CpuScheduling ----------------------------
(***************************************************************************)
(* Fork, Wait, Exec, Process Scheduling/q4.c: a list of processes is       *)
(* scheduled by the policy the user names: FIFO, SJF, SRTF or RR.  The     *)
(* averages main prints are sums over start and completion times and are   *)
(* left out.                                                               *)
(***************************************************************************)
EXTENDS Integers, FiniteSets

CONSTANTS n,               \* the number of processes
          MAX_ARRIVAL, MAX_BURST, MAX_QUANTUM   \* bounds of the model: inputs

ASSUME SchedulingAssumption ==
  /\ n \in Nat \ {0}
  /\ MAX_ARRIVAL \in Nat
  /\ MAX_BURST \in Nat \ {0}
  /\ MAX_QUANTUM \in Nat \ {0}

Process == 1 .. n
Never   == -1       \* no start or completion time yet

VARIABLES algo, timeQuantum, arrivalTime, burstTime,   \* input
          current_time,
          remainingTime,
          startTime, completionTime,
          idx            \* the place in the queue of round robin

input == <<algo, timeQuantum, arrivalTime, burstTime>>
sched_vars == <<input, current_time, remainingTime, startTime, completionTime, idx>>

\* input_processes, and main up to the policy.  A burst of 0 makes srtf count
\* below 0 for ever, and so does a quantum of 0 make rr go round: not among the
\* inputs.
SchedInit ==
  /\ algo \in {"FIFO", "SJF", "SRTF", "RR"}
  /\ timeQuantum \in IF algo = "RR" THEN 1 .. MAX_QUANTUM ELSE {1}
  /\ arrivalTime \in [Process -> 0 .. MAX_ARRIVAL]
  /\ burstTime \in [Process -> (IF algo = "SRTF" THEN 1 ELSE 0) .. MAX_BURST]
  /\ current_time = 0
  /\ remainingTime = burstTime
  /\ startTime = [p \in Process |-> Never]
  /\ completionTime = [p \in Process |-> Never]
  /\ idx = 0

Completed == {p \in Process : completionTime[p] # Never}
Ready     == {p \in Process \ Completed : arrivalTime[p] <= current_time}

\* p runs from the moment t for the time d.
Execute(p, t, d) ==
  /\ current_time' = t + d
  /\ remainingTime' = [remainingTime EXCEPT ![p] = @ - d]
  /\ completionTime' = [completionTime EXCEPT ![p] = IF remainingTime[p] = d THEN t + d ELSE @]
  /\ UNCHANGED input

\* No process is ready: the clock of sjf and srtf moves on.
Tick ==
  /\ Ready = {} /\ Completed # Process
  /\ current_time' = current_time + 1
  /\ UNCHANGED <<input, remainingTime, startTime, completionTime, idx>>

----------------------------------------------------------------------------
(* fifo: the array is sorted by arrival, then pid, and run through.        *)

EarlierThan(p, q) ==
  \/ arrivalTime[p] < arrivalTime[q]
  \/ arrivalTime[p] = arrivalTime[q] /\ p <= q

\* Faulty variant: the clock does not wait for a process to arrive.
BeginAtOnce(p) == current_time

Begin(p) == IF current_time < arrivalTime[p] THEN arrivalTime[p] ELSE current_time

fifo ==
  /\ algo = "FIFO"
  /\ \E p \in Process \ Completed :
       /\ \A q \in Process \ Completed : EarlierThan(p, q)
       /\ Execute(p, Begin(p), burstTime[p])
       /\ startTime' = [startTime EXCEPT ![p] = Begin(p)]
  /\ UNCHANGED idx

----------------------------------------------------------------------------
(* sjf and srtf: the shortest of the ready processes; of equals, the one   *)
(* that arrived first; of these, the first in the list.                    *)

\* Faulty variant: the longest.
Longest(p, q) == remainingTime[p] >= remainingTime[q]

ShorterThan(p, q) ==
  \/ remainingTime[p] < remainingTime[q]
  \/ remainingTime[p] = remainingTime[q] /\ EarlierThan(p, q)

sjf ==
  /\ algo = "SJF"
  /\ \E p \in Ready :
       /\ \A q \in Ready : ShorterThan(p, q)
       /\ Execute(p, current_time, burstTime[p])
       /\ startTime' = [startTime EXCEPT ![p] = current_time]
  /\ UNCHANGED idx

srtf ==
  /\ algo = "SRTF"
  /\ \E p \in Ready :
       /\ \A q \in Ready : ShorterThan(p, q)
       /\ Execute(p, current_time, 1)
       /\ startTime' = [startTime EXCEPT ![p] =
                          IF remainingTime[p] = burstTime[p] THEN current_time ELSE @]
  /\ UNCHANGED idx

----------------------------------------------------------------------------
(* rr: the queue is the list itself, gone through again and again.         *)

\* Faulty variant: the index comes round one place too early.
NextPlaceShort(i) == IF (i % n) + 1 < n - 1 THEN (i % n) + 1 ELSE 0

\* idx >= n is set back to 0 when the loop comes round.
Turn == (idx % n) + 1

NextPlace(i) == (i % n) + 1

\* Faulty variant: a slice may be one longer than the quantum.
SliceLong(p) == IF remainingTime[p] > timeQuantum + 1 THEN timeQuantum + 1 ELSE remainingTime[p]

Slice(p) == IF remainingTime[p] > timeQuantum THEN timeQuantum ELSE remainingTime[p]

rr ==
  /\ algo = "RR" /\ Completed # Process
  /\ IF Turn \in Ready
       THEN /\ Execute(Turn, current_time, Slice(Turn))
            /\ startTime' = [startTime EXCEPT ![Turn] = IF @ = Never THEN current_time ELSE @]
       ELSE UNCHANGED <<input, current_time, remainingTime, startTime, completionTime>>
  /\ idx' = NextPlace(idx)

----------------------------------------------------------------------------
SchedNext == fifo \/ sjf \/ srtf \/ (algo \in {"SJF", "SRTF"} /\ Tick) \/ rr

SchedSpec == SchedInit /\ [][SchedNext]_sched_vars

----------------------------------------------------------------------------
(* Properties                                                              *)

Processor == INSTANCE Processor WITH
  arrival <- arrivalTime, burst <- burstTime, time <- current_time,
  remaining <- remainingTime, start <- startTime, completion <- completionTime

\* All four policies are schedules of one processor that never stands still
\* while a process waits, and the start and completion times they record are
\* those of that schedule.
ImplementsProcessor == Processor!ProcSpec

\* Round robin is fair to the processes that are there from the beginning: of
\* two that are not finished, neither is more than a quantum ahead.
EqualShares ==
  algo = "RR" =>
    \A p, q \in Process \ Completed :
      arrivalTime[p] = 0 /\ arrivalTime[q] = 0 =>
        burstTime[p] - remainingTime[p] <= burstTime[q] - remainingTime[q] + timeQuantum

\* A process that is ready is completed one day, under every policy.  fifo, sjf
\* and srtf also wait for those that arrive after a gap; rr does not, its clock
\* stands still when nobody is ready, and it goes round the queue for ever.
AllComplete == <>[](Ready = {} /\ (algo # "RR" => Completed = Process))
=============================================================================
