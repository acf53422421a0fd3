---------------------------- MODULE ResumeState ----------------------------
(***************************************************************************)
(* The resume state of a transfer (core/state.py): the `.mbstate` file     *)
(* beside a destination, the live TransferState and its snapshots.         *)
(*                                                                         *)
(* A save or a clear reads, verifies and replaces (or unlinks) the file    *)
(* under the in-process mutex and the cross-process lock: one step.  The   *)
(* flush of the transferred data happens before, outside both locks.       *)
(***************************************************************************)
EXTENDS Integers

CONSTANTS Sources,    \* what may be transferred: link (or local file) and its key
          NoSource,
          NumChunks   \* chunks of the largest source

ASSUME StateAssumption == NumChunks \in Nat /\ NoSource \notin Sources

Chunks == 1 .. NumChunks

(* A state file is absent, one that load_state cannot trust, one that a     *)
(* newer client wrote, or the committed state of a transfer.                *)
StateFile == [kind : {"none", "corrupt", "newer", "state"}, src : Sources \cup {NoSource},
              done : SUBSET Chunks, rev : Nat]

Bare(k) == [kind |-> k, src |-> NoSource, done |-> {}, rev |-> 0]
NoFile == Bare("none")

\* TransferState(): nothing done yet, revision 0.
FreshState(s) == [kind |-> "state", src |-> s, done |-> {}, rev |-> 0]

\* snapshot_state: the next revision of the live state, claimed as it is copied.
Snapshot(live) == [live EXCEPT !.rev = @ + 1]

\* mark_chunk_done.
Marked(live, c) == [live EXCEPT !.done = @ \cup {c}]

\* load_state: a corrupt file is set aside and removed, any other is left as it is.
AfterLoad(f) == IF f.kind = "corrupt" THEN NoFile ELSE f

\* Variant (bug): the last writer wins.
MaySaveAlways(f, snap) == f.kind # "newer"

\* save_state under the locks: never over a newer client's file or a later revision.
MaySave(f, snap) == f.kind # "newer" /\ (f.kind = "state" => f.rev <= snap.rev)

Saved(f, snap) == IF MaySave(f, snap) THEN snap ELSE f

\* clear_state: unlink, but never a newer client's file.
Cleared(f) == IF f.kind = "newer" THEN f ELSE NoFile
=============================================================================
