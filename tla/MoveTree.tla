-------------------------------- MODULE MoveTree --------------------------------
(***************************************************************************)
(* Hard Disk and File IO/q5/move.c: the files of a directory are renamed   *)
(* into another one, directory by directory, and the directories left      *)
(* empty are removed.  mkdir, opendir and rename may fail, and the walk    *)
(* goes on.  dest is not inside src: there the walk would not end.         *)
(***************************************************************************)
EXTENDS Integers, Sequences, FiniteSets

CONSTANTS Entry,         \* files and directories below src
          Directories,   \* those that are directories
          Parent         \* the directory each is in: a function on Entry

Top  == "."              \* src itself; it is named so, and rmdir refuses the name
Dirs == Directories \cup {Top}

\* The directories an entry is in: the parent, the parent's parent, and so on.
Above ==
  [e \in Entry |-> {d \in Dirs : \A S \in SUBSET Dirs :
     Parent[e] \in S /\ (\A x \in S \ {Top} : Parent[x] \in S) => d \in S}]

\* A tree: everything is in src, which has finitely many entries.
ASSUME MoveTreeAssumption ==
  /\ IsFiniteSet(Entry) /\ Directories \subseteq Entry /\ Top \notin Entry
  /\ Parent \in [Entry -> Dirs]
  /\ \A e \in Entry : Top \in Above[e]

VARIABLES mv_pc,         \* "start", "walk" or "done"
          mv_src,        \* what is in src
          mv_dest,       \* what is in dest, and Top when dest itself is there
          mv_stack,      \* the calls of move_directory: each with the entries to read
          mv_refused     \* history: entries for which a call has failed

mv_vars == <<mv_pc, mv_src, mv_dest, mv_stack, mv_refused>>

In(d) == {e \in mv_src : Parent[e] = d}

\* move_directory(d) is called, on top of the calls there are: mkdir, unless dest
\* is there; then opendir, or a return.  Either may fail.
Enter(d, calls) ==
  \E made, opened \in BOOLEAN :
    /\ made => d \in {Top} \cup {e \in Entry : Parent[e] \in mv_dest}
    /\ mv_dest' = IF made THEN mv_dest \cup {d} ELSE mv_dest
    /\ mv_stack' = IF opened THEN Append(calls, [dir |-> d, todo |-> In(d)]) ELSE calls
    /\ mv_refused' = IF opened /\ d \in mv_dest' THEN mv_refused ELSE mv_refused \cup {d}

MVInit ==
  /\ mv_pc = "start"
  /\ mv_src = Entry /\ mv_dest \in {{}, {Top}}
  /\ mv_stack = <<>> /\ mv_refused = {}

Call == mv_stack[Len(mv_stack)]
Read(e) == [mv_stack EXCEPT ![Len(mv_stack)].todo = @ \ {e}]

Start ==
  /\ mv_pc = "start"
  /\ Enter(Top, <<>>)
  /\ mv_pc' = IF mv_stack' = <<>> THEN "done" ELSE "walk"
  /\ UNCHANGED mv_src

move_subdirectory(e) ==
  /\ e \in Directories
  /\ Enter(e, Read(e))
  /\ UNCHANGED <<mv_pc, mv_src>>

\* rename cannot succeed without the directory in dest.
move_file(e) ==
  /\ e \notin Directories
  /\ mv_stack' = Read(e)
  /\ \/ /\ Parent[e] \in mv_dest
        /\ mv_src' = mv_src \ {e}
        /\ mv_dest' = mv_dest \cup {e}
        /\ UNCHANGED mv_refused
     \/ /\ mv_refused' = mv_refused \cup {e}
        /\ UNCHANGED <<mv_src, mv_dest>>
  /\ UNCHANGED mv_pc

\* readdir gives the entries in any order.
ReadEntry ==
  /\ mv_pc = "walk"
  /\ \E e \in Call.todo : move_subdirectory(e) \/ move_file(e)

\* closedir, and rmdir, which removes a directory only if it is empty.
Leave ==
  /\ mv_pc = "walk" /\ Call.todo = {}
  /\ mv_src' = IF In(Call.dir) = {} THEN mv_src \ {Call.dir} ELSE mv_src
  /\ mv_stack' = SubSeq(mv_stack, 1, Len(mv_stack) - 1)
  /\ mv_pc' = IF Len(mv_stack) = 1 THEN "done" ELSE "walk"
  /\ UNCHANGED <<mv_dest, mv_refused>>

MVNext == Start \/ ReadEntry \/ Leave

----------------------------------------------------------------------------
(* Properties                                                              *)

\* However the directories are read and whatever calls fail, a file is in src
\* or in dest, never in both or in neither; and in the end what could be moved
\* has been: a file stays behind only if its rename was refused, or a
\* directory it is in could not be made or opened, and a directory stays only
\* for such a reason or for what has stayed in it.
MovedUnlessRefused ==
  /\ \A e \in Entry \ Directories : e \in mv_src <=> e \notin mv_dest
  /\ \A e \in mv_src \ Directories : Parent[e] \in mv_src \cup {Top}
  /\ mv_pc = "done" => \A e \in mv_src :
       \/ mv_refused \cap ({e} \cup Above[e]) # {}
       \/ \E f \in mv_src : e \in Above[f]
=============================================================================
