-------------------------------- MODULE FileTools --------------------------------
(***************************************************************************)
(* Hard Disk and File IO/q5/main.c: list, countw, copy and move are run    *)
(* one after the other, each by a child that main waits for.  copy copies  *)
(* list.c to "..", and move moves ".", where list.c is, to "../q5_files".  *)
(* list and countw change nothing.                                         *)
(***************************************************************************)
EXTENDS CopyFile, MoveTree

VARIABLES mn_next,      \* the number of programs main has got to
          mn_running    \* the programs that are running

mn_vars == <<mn_next, mn_running>>

Programs == <<"list", "countw", "copy", "move">>

DriverInit ==
  /\ mn_next = 0 /\ mn_running = {}
  /\ CPInit /\ cp_dest = "directory"
  /\ MVInit

\* Faulty variant: main does not wait.
WaitedNot == TRUE

\* wait(NULL) has returned.
Waited == mn_running = {}

\* fork or execvp may fail; then main goes on to the next program.
run_program ==
  /\ mn_next < Len(Programs) /\ Waited
  /\ mn_next' = mn_next + 1
  /\ mn_running' \in {mn_running, mn_running \cup {Programs[mn_next']}}
  /\ UNCHANGED <<cp_vars, mv_vars>>

\* A program has come to its end.
ChildExits ==
  /\ \E p \in mn_running :
       /\ p = "copy" => cp_pc \in {"returned", "reported"}
       /\ p = "move" => mv_pc = "done"
       /\ mn_running' = mn_running \ {p}
  /\ UNCHANGED <<mn_next, cp_vars, mv_vars>>

\* copy opens list.c only where it still is.
CopyRuns ==
  /\ "copy" \in mn_running
  /\ CPNext
  /\ cp_pc' = "open_dest" => "list.c" \in mv_src
  /\ UNCHANGED <<mn_vars, mv_vars>>

MoveRuns == "move" \in mn_running /\ MVNext /\ UNCHANGED <<mn_vars, cp_vars>>

DriverNext == run_program \/ ChildExits \/ CopyRuns \/ MoveRuns

----------------------------------------------------------------------------
(* Properties                                                              *)

\* move takes nothing away from under copy: until copy has ended, everything is
\* where it was, and when move begins nobody holds list.c open.
CopiedBeforeMoved ==
  cp_pc \in {"open_dest", "copy"} => mv_pc = "start" /\ mv_src = Entry
=============================================================================
