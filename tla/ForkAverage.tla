------------------------------ MODULE ForkAverage ------------------------------
(***************************************************************************)
(* Fork, Wait, Exec, Process Scheduling/q1.c: a parent prints a line,      *)
(* forks seven children that print an average each, and waits for them.    *)
(* What printf leaves in the buffer of stdout is copied by fork and        *)
(* written by every exit.  The averages themselves are left out.           *)
(***************************************************************************)
EXTENDS Integers, Sequences, FiniteSets

CONSTANT CHILDREN    \* 7 in the code

ASSUME ForkAverageAssumption == CHILDREN \in Nat \ {0}

Child      == 1 .. CHILDREN
ParentLine == 0      \* the line of child i is i

VARIABLES av_tty,      \* stdout is a terminal: a line leaves the buffer at its end
          av_main,     \* where the parent is
          av_forked,   \* how many children there are
          av_exited,   \* those that have exited
          av_waits,    \* how many calls of wait have returned
          av_buffer,   \* the parent's buffer, which each child begins with
          av_out       \* the lines written, in order

av_vars == <<av_tty, av_main, av_forked, av_exited, av_waits, av_buffer, av_out>>

AVInit ==
  /\ av_tty \in BOOLEAN
  /\ av_main = "print" /\ av_forked = 0 /\ av_exited = {} /\ av_waits = 0
  /\ av_buffer = <<>> /\ av_out = <<>>

\* printf
Printed == IF av_tty THEN [out |-> <<ParentLine>>, buffer |-> <<>>]
                     ELSE [out |-> <<>>, buffer |-> <<ParentLine>>]

\* Faulty variant: there is no fflush.
FlushedNot(text) == text

\* fflush(stdout)
Flushed(text) == [out |-> text.out \o text.buffer, buffer |-> <<>>]

PrintParent ==
  /\ av_main = "print"
  /\ av_out' = Flushed(Printed).out
  /\ av_buffer' = Flushed(Printed).buffer
  /\ av_main' = "fork"
  /\ UNCHANGED <<av_tty, av_forked, av_exited, av_waits>>

ForkChild ==
  /\ av_main = "fork"
  /\ av_forked' = av_forked + 1
  /\ av_main' = IF av_forked' = CHILDREN THEN "wait" ELSE "fork"
  /\ UNCHANGED <<av_tty, av_exited, av_waits, av_buffer, av_out>>

\* fork returns -1: exit(1), with the children there are left to themselves.
ForkChildFails ==
  /\ av_main = "fork"
  /\ av_main' = "failed"
  /\ av_out' = av_out \o av_buffer
  /\ UNCHANGED <<av_tty, av_forked, av_exited, av_waits, av_buffer>>

\* generate_and_print_average, and exit(0), which writes the buffer.
RunChild ==
  /\ \E i \in 1 .. av_forked \ av_exited :
       /\ av_exited' = av_exited \cup {i}
       /\ av_out' = av_out \o av_buffer \o <<i>>
  /\ UNCHANGED <<av_tty, av_main, av_forked, av_waits, av_buffer>>

\* wait(NULL) takes leave of a child that has exited.
WaitChild ==
  /\ av_main = "wait" /\ av_waits < CHILDREN
  /\ av_waits < Cardinality(av_exited)
  /\ av_waits' = av_waits + 1
  /\ UNCHANGED <<av_tty, av_main, av_forked, av_exited, av_buffer, av_out>>

AllWaited == av_waits = CHILDREN

ReturnParent ==
  /\ av_main = "wait" /\ AllWaited
  /\ av_main' = "exited"
  /\ av_out' = av_out \o av_buffer
  /\ UNCHANGED <<av_tty, av_forked, av_exited, av_waits, av_buffer>>

AVNext == PrintParent \/ ForkChild \/ ForkChildFails \/ RunChild \/ WaitChild \/ ReturnParent

----------------------------------------------------------------------------
(* Properties                                                              *)

\* The parent's line comes before any child's and is written once, although
\* fork copies the buffer it was printed to; a child's is written once too.
LinesWrittenOnce ==
  /\ \A j, k \in 1 .. Len(av_out) : av_out[j] = av_out[k] => j = k
  /\ av_out # <<>> => av_out[1] = ParentLine

\* The parent returns after the last of its children.
ParentIsLast == av_main = "exited" => av_exited = Child
=============================================================================
