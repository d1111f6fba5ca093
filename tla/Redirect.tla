-------------------------------- MODULE Redirect --------------------------------
(***************************************************************************)
(* Hard Disk and File IO/q4.c: stdout (part1), or stdout and stderr        *)
(* (part2), are redirected to a file and restored.  Every call may fail.   *)
(* 0, 1 and 2 are open when the program starts, so the file gets 3.        *)
(***************************************************************************)
EXTENDS Integers, FiniteSets

FD     == 0 .. 5
file   == 3
Closed == "closed"

VARIABLES rd_part,     \* 1 or 2
          rd_pc,       \* the next call
          rd_fd,       \* what each descriptor is open on
          rd_saved,    \* the copies of 1 and 2, or -1
          rd_buffer,   \* what is in the buffer of stdout
          rd_shown     \* what has been written: pairs of a text and its place

rd_vars == <<rd_part, rd_pc, rd_fd, rd_saved, rd_buffer, rd_shown>>

RDInit ==
  /\ rd_part \in {1, 2}
  /\ rd_pc = "open"
  /\ rd_fd = [f \in FD |-> IF f <= 2 THEN "terminal" ELSE Closed]
  /\ rd_saved = [d \in {1, 2} |-> -1]
  /\ rd_buffer = {} /\ rd_shown = {}

Std == 1 .. rd_part

\* exit writes the buffer.
ExitWith(pc, table, closing, messages) ==
  /\ rd_pc' = pc
  /\ rd_fd' = [f \in FD |-> IF f \in closing THEN Closed ELSE table[f]]
  /\ rd_shown' = rd_shown \cup {<<m, table[2]>> : m \in messages} \cup {<<t, table[1]>> : t \in rd_buffer}
  /\ UNCHANGED <<rd_part, rd_saved, rd_buffer>>

Open ==
  /\ rd_pc = "open"
  /\ \/ /\ rd_fd' = [rd_fd EXCEPT ![file] = "file"]
        /\ rd_pc' = "dup"
        /\ UNCHANGED <<rd_part, rd_saved, rd_buffer, rd_shown>>
     \/ ExitWith("failed", rd_fd, {}, {"failed_to_open"})

\* dup gives the lowest free descriptor; that it failed is not noticed yet.
Dup ==
  /\ rd_pc = "dup"
  /\ \E ok \in SUBSET Std :
       rd_saved' = [d \in {1, 2} |-> IF d \in ok THEN file + Cardinality({e \in ok : e <= d}) ELSE -1]
  /\ rd_fd' = [f \in FD |-> IF \E d \in Std : rd_saved'[d] = f THEN "terminal" ELSE rd_fd[f]]
  /\ rd_pc' = "redirect"
  /\ UNCHANGED <<rd_part, rd_buffer, rd_shown>>

\* The first k of the calls of dup2 for 1 and 2 have succeeded.
Dup2(from, k) == [f \in FD |-> IF f \in 1 .. k THEN rd_fd[from[f]] ELSE rd_fd[f]]

Redirect ==
  /\ rd_pc = "redirect"
  /\ \E k \in 0 .. rd_part :
       LET table == Dup2([d \in {1, 2} |-> file], k)
       IN  \/ /\ k = rd_part
              /\ rd_fd' = table
              /\ rd_pc' = "work"
              /\ UNCHANGED <<rd_part, rd_saved, rd_buffer, rd_shown>>
           \/ k < rd_part /\ ExitWith("failed", table, {file}, {"failed_to_redirect"})

\* Faulty variant: there is no fflush.
FlushedLate == {}

\* The texts that fflush writes: all there is in the buffer.
FlushedText == {"output"}

\* printf and fflush, or a command that writes to both; then close(fd).
Work ==
  /\ rd_pc = "work"
  /\ IF rd_part = 1
       THEN /\ rd_shown' = {<<t, rd_fd[1]>> : t \in FlushedText}
            /\ rd_buffer' = {"output"} \ FlushedText
       ELSE rd_shown' = {<<"output", rd_fd[1]>>, <<"errors", rd_fd[2]>>} /\ UNCHANGED rd_buffer
  /\ rd_fd' = [rd_fd EXCEPT ![file] = Closed]
  /\ rd_pc' = "restore"
  /\ UNCHANGED <<rd_part, rd_saved>>

\* dup2 fails for a copy that was not made, and may fail for one that was.
Restore ==
  /\ rd_pc = "restore"
  /\ \E k \in 0 .. rd_part :
       /\ \A d \in 1 .. k : rd_saved[d] # -1
       /\ IF k = rd_part
            THEN ExitWith("exited", Dup2(rd_saved, k), {rd_saved[d] : d \in Std}, {})
            ELSE ExitWith("failed", Dup2(rd_saved, k), {}, {"failed_to_restore"})

RDNext == Open \/ Dup \/ Redirect \/ Work \/ Restore

----------------------------------------------------------------------------
(* Properties                                                              *)

\* If the program succeeds, what was to be redirected is in the file and
\* nowhere else, and the descriptors are what they were, with none left over.
\* If it fails before the output is produced nothing is in the file, and the
\* reason is on the terminal, although one of two redirections may be done.
Redirection ==
  /\ rd_pc = "exited" =>
       /\ rd_shown = {<<t, "file">> : t \in IF rd_part = 1 THEN {"output"} ELSE {"output", "errors"}}
       /\ rd_fd = [f \in FD |-> IF f <= 2 THEN "terminal" ELSE Closed]
  /\ rd_pc = "failed" =>
       \/ \E m \in {"failed_to_open", "failed_to_redirect"} : rd_shown = {<<m, "terminal">>}
       \/ <<"output", "file">> \in rd_shown /\ \E s \in {"terminal", "file"} : <<"failed_to_restore", s>> \in rd_shown
=============================================================================
