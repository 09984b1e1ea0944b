------------------------------ MODULE Storage ------------------------------
(***************************************************************************)
(* One file on disk as the programs of this repository write it:           *)
(* std::fs::write, which FileBuilder::write (rustyhdf5/src/writer.rs) and   *)
(* FileWriter::flush_to_disk (rustyhdf5-io/src/lib.rs) come down to.  The   *)
(* file is created or truncated first and grows by what each write call    *)
(* takes; the process may die, or the disk may be full, after any of them. *)
(* A file is a sequence of blocks; what a block holds is up to the module  *)
(* that writes it.  There is no lock on the file and no second file that   *)
(* would be renamed, so that what a crash leaves is a beginning.           *)
(***************************************************************************)
EXTENDS Naturals, Sequences

CONSTANTS None      \* no file, no write under way, nothing opened

VARIABLES disk,     \* the blocks of the file, or None
          pending   \* the blocks still to be written, or None

storageVars == <<disk, pending>>

StorageInit == disk = None /\ pending = None

Quiet == pending = None

(* File::create: whatever the file held is gone.                           *)
CreateTruncate(blocks) ==
    /\ Quiet
    /\ disk' = <<>>
    /\ pending' = blocks

(* One write call of write_all.                                            *)
AppendBlock ==
    /\ pending \notin {None, <<>>}
    /\ disk' = Append(disk, Head(pending))
    /\ pending' = Tail(pending)

WriteReturns ==
    /\ pending = <<>>
    /\ pending' = None
    /\ UNCHANGED disk

(* The disk is full: write_all returns the error and leaves what is there. *)
WriteFails ==
    /\ pending \notin {None, <<>>}
    /\ pending' = None
    /\ UNCHANGED disk

ProcessDies ==
    /\ pending' = None
    /\ UNCHANGED disk
=============================================================================
