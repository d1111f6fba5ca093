------------------------------ MODULE MCProcesses ------------------------------
(***************************************************************************)
(* The programs that fork, create threads or work on files, in one run.    *)
(* The initial state picks the one that runs; the others stay in an        *)
(* initial state of theirs.                                                *)
(***************************************************************************)
EXTENDS MergeSortPipes, ForkAverage, ForkBinarySearch, MatrixProduct, Redirect, FileTools

VARIABLE program

vars == <<program, ms_vars, av_vars, bs_vars, mt_vars, rd_vars, cp_vars, mv_vars, mn_vars>>

\* Two files and a directory, in which are a file, and a directory with a file.
Tree == [e \in Entry |-> CASE e = "c" -> "deep" [] e \in {"b", "deep"} -> "sub" [] OTHER -> Top]

Init ==
  /\ program \in {"sort", "average", "search", "product", "redirect", "copy", "main"}
  /\ MSInit /\ (program # "sort" => ms_input = CHOOSE s \in [1 .. SIZE -> Value] : TRUE)
  /\ AVInit /\ (program # "average" => av_tty)
  /\ BSInit /\ (program # "search" => bs_target = 0)
  /\ MTInit
  /\ RDInit /\ (program # "redirect" => rd_part = 1)
  /\ IF program = "main" THEN DriverInit
     ELSE /\ CPInit /\ (program # "copy" => cp_length = 0 /\ cp_dest = ".")
          /\ MVInit /\ mv_dest = {}
          /\ mn_next = 0 /\ mn_running = {}

Idle(name, state) == program = name \/ UNCHANGED state

Next ==
  /\ \/ program = "sort"     /\ MSNext
     \/ program = "average"  /\ AVNext
     \/ program = "search"   /\ BSNext
     \/ program = "product"  /\ MTNext
     \/ program = "redirect" /\ RDNext
     \/ program = "copy"     /\ CPNext /\ UNCHANGED <<mv_vars, mn_vars>>
     \/ program = "main"     /\ DriverNext
  /\ program # "sort"     => UNCHANGED ms_vars
  /\ program # "average"  => UNCHANGED av_vars
  /\ program # "search"   => UNCHANGED bs_vars
  /\ program # "product"  => UNCHANGED mt_vars
  /\ program # "redirect" => UNCHANGED rd_vars
  /\ program \notin {"copy", "main"} => UNCHANGED <<cp_vars, mv_vars, mn_vars>>
  /\ UNCHANGED program

\* Fair because a process or thread that can go on is run some time; no
\* property needs more than that one of them does.  But nothing makes a call
\* fail: a process of the sort that can do nothing else is stuck.
GoOn == Next /\ \A p \in Segment : ms_pc'[p] = "failed" => ms_pc[p] = "failed"
Spec == Init /\ [][Next]_vars /\ WF_vars(GoOn)

----------------------------------------------------------------------------
(* Properties                                                              *)

\* A program that starts processes or threads and prints their result, or
\* returns, is the last of them: none is left behind.
NobodyLeftBehind == LastToLeave /\ ParentIsLast /\ ProductComplete

\* The files move takes away are not those copy is at work on, and each is lost
\* to neither.
NothingLost == MovedUnlessRefused /\ CopiedBeforeMoved

\* Every program ends, whichever calls fail: no process waits for ever for a
\* child or for the other end of a pipe.
EveryProgramEnds ==
  <>(CASE program = "sort"     -> \A p \in Segment : ~Running(p)
       [] program = "average"  -> av_main \in {"exited", "failed"} /\ av_exited = 1 .. av_forked
       [] program = "search"   -> \A k \in 1 .. Len(bs_chain) : bs_chain[k].at \in {"exited", "failed"}
       [] program = "product"  -> mt_main = "exited"
       [] program = "redirect" -> rd_pc \in {"exited", "failed"}
       [] program = "copy"     -> cp_pc \in {"returned", "reported"}
       [] program = "main"     -> mn_next = Len(Programs) /\ mn_running = {})
=============================================================================
