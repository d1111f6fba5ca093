-------------------------------- MODULE CopyFile --------------------------------
(***************************************************************************)
(* Hard Disk and File IO/q5/copy.c: a file is copied block by block to     *)
(* another name, or into a directory under its own name.  Either may be    *)
(* the file itself.  The result of write is not looked at.                 *)
(***************************************************************************)
EXTENDS Integers, Sequences

CONSTANT BLOCKS       \* bound of the model: the length of a file

ASSUME CopyAssumption == BLOCKS \in Nat

CopiedFile == {"source", "other", "inside"}

VARIABLES cp_dest,     \* dest: a file, the source's own directory, or another
          cp_pc,       \* the next call, or how copy_file ended
          cp_file,     \* what each file holds: block numbers
          cp_length,   \* how long the source was
          cp_read, cp_written,   \* the offsets of src_fd and dest_fd
          cp_lost      \* whether a write has failed

cp_vars == <<cp_dest, cp_pc, cp_file, cp_length, cp_read, cp_written, cp_lost>>
cp_offsets == <<cp_read, cp_written, cp_lost>>

CPInit ==
  /\ cp_dest \in {"source", "other", ".", "directory"}
  /\ cp_pc = "open_src"
  /\ cp_length \in 0 .. BLOCKS
  /\ cp_file = [f \in CopiedFile |-> IF f = "source" THEN [i \in 1 .. cp_length |-> i] ELSE <<0, 0>>]
  /\ cp_read = 0 /\ cp_written = 0 /\ cp_lost = FALSE

Target == CASE cp_dest = "." -> "source" [] cp_dest = "directory" -> "inside" [] OTHER -> cp_dest
End    == Len(cp_file["source"])

\* A call of open succeeds, or fails, with a message, and nothing is copied.
OpenSource ==
  /\ cp_pc = "open_src"
  /\ cp_pc' \in {"open_dest", "returned"}
  /\ UNCHANGED <<cp_dest, cp_file, cp_length, cp_offsets>>

\* Faulty variant: no O_TRUNC.
OpenedKept(content) == content

\* O_TRUNC
Opened(content) == <<>>

OpenDest ==
  /\ cp_pc = "open_dest"
  /\ \/ /\ cp_file' = [cp_file EXCEPT ![Target] = Opened(@)]
        /\ cp_pc' = "copy"
     \/ cp_pc' = "returned" /\ UNCHANGED cp_file
  /\ UNCHANGED <<cp_dest, cp_length, cp_offsets>>

\* One turn of the loop: read a block and write it.  write may fail.
CopyBlock ==
  /\ cp_pc = "copy" /\ cp_read < End
  /\ cp_read' = cp_read + 1
  /\ \/ /\ cp_written' = cp_written + 1
        /\ cp_file' = [cp_file EXCEPT ![Target] =
             SubSeq(@, 1, cp_written) \o <<cp_file["source"][cp_read + 1]>> \o SubSeq(@, cp_written + 2, Len(@))]
        /\ UNCHANGED cp_lost
     \/ cp_lost' = TRUE /\ UNCHANGED <<cp_written, cp_file>>
  /\ UNCHANGED <<cp_dest, cp_pc, cp_length>>

\* read returns 0: the files are closed and the message is printed.
Report ==
  /\ cp_pc = "copy" /\ cp_read >= End
  /\ cp_pc' = "reported"
  /\ UNCHANGED <<cp_dest, cp_file, cp_length, cp_offsets>>

CPNext == OpenSource \/ OpenDest \/ CopyBlock \/ Report

----------------------------------------------------------------------------
(* Properties                                                              *)

\* When copy_file says that it has copied the source to another file, that file
\* holds the blocks of the source in their order, all of them unless a write
\* has failed.  Only the file named is changed, by whichever name, and not even
\* that one if it could not be opened.
CopyFaithful ==
  /\ cp_pc = "reported" /\ Target # "source" =>
       /\ \A i, j \in 1 .. Len(cp_file[Target]) : i < j => cp_file[Target][i] < cp_file[Target][j]
       /\ \A i \in 1 .. Len(cp_file[Target]) : cp_file[Target][i] \in 1 .. cp_length
       /\ ~cp_lost => Len(cp_file[Target]) = cp_length
  /\ \A f \in CopiedFile : f # Target \/ cp_pc = "returned" =>
       cp_file[f] = IF f = "source" THEN [i \in 1 .. cp_length |-> i] ELSE <<0, 0>>
=============================================================================
