------------------------------ MODULE Processor ------------------------------
(***************************************************************************)
(* What every scheduling policy promises: one processor that runs one      *)
(* process at a time, none before it has arrived, each for exactly its     *)
(* burst, and that stands still only while nobody is there to run.         *)
(***************************************************************************)
EXTENDS Integers

CONSTANT Process

VARIABLES arrival, burst,    \* given
          time,
          remaining,
          start, completion  \* when a process first ran and finished, or Never

Never == -1

given == <<arrival, burst>>
proc_vars == <<given, time, remaining, start, completion>>

Waiting(p, t) == completion[p] = Never /\ arrival[p] < t

ProcInit ==
  /\ time = 0
  /\ remaining = burst
  /\ start = [p \in Process |-> Never]
  /\ completion = [p \in Process |-> Never]

\* p runs for d from the moment t, at once or when it arrives.
Run(p, t, d) ==
  /\ completion[p] = Never
  /\ arrival[p] <= t /\ time <= t
  /\ t > time => \A q \in Process : ~Waiting(q, t)
  /\ d > 0 \/ remaining[p] = 0
  /\ time' = t + d
  /\ remaining' = [remaining EXCEPT ![p] = @ - d]
  /\ start' = [start EXCEPT ![p] = IF @ = Never THEN t ELSE @]
  /\ completion' = [completion EXCEPT ![p] = IF remaining[p] = d THEN t + d ELSE @]
  /\ UNCHANGED given

Idle ==
  /\ \A q \in Process : ~Waiting(q, time + 1)
  /\ time' = time + 1
  /\ UNCHANGED <<given, remaining, start, completion>>

ProcNext ==
  \/ \E p \in Process : \E t \in {time} \cup {arrival[q] : q \in Process} :
       \E d \in 0 .. remaining[p] : Run(p, t, d)
  \/ Idle

ProcSpec == ProcInit /\ [][ProcNext]_proc_vars
=============================================================================
