----------------------------- MODULE UploadTree -----------------------------
(***************************************************************************)
(* One --keep-structure directory (core/upload_tree.py): the walk over    *)
(* what it holds, then one pass that makes a remote folder for each folder *)
(* and uploads each file into its own.                                     *)
(***************************************************************************)
EXTENDS Integers, Sequences, FiniteSets

CONSTANTS Size      \* bound: entries below the directory

Entries == 1 .. Size    \* in sorted order: a folder before what it holds
Top == 0                \* the directory itself

ASSUME TreeAssumption == Size \in Nat

VARIABLES
    kind,       \* what each entry is
    above,      \* the entry it is in
    walked,     \* entries the walk has looked at
    skippedDirs,\* symlinks it has met
    kept,       \* the entries that are to be uploaded
    passed,     \* entries the upload has been through
    handleFor,  \* the entries with a remote folder
    failedDirs, \* folders that could not be made
    failures,   \* entries that failed
    remote      \* what was made at MEGA, and in which folder

treeVars == <<kind, above, walked, skippedDirs, kept, passed, handleFor, failedDirs, failures,
              remote>>
tree == <<kind, above>>

Nowhere == -1

\* Only folders, and symlinks to folders, have entries below them.
TreeInit ==
    /\ kind \in [Entries -> {"file", "folder", "link"}]
    /\ above \in [Entries -> Entries \cup {Top}]
    /\ \A e \in Entries : above[e] < e /\ (above[e] # Top => kind[above[e]] # "file")
    /\ walked = 0 /\ skippedDirs = {} /\ kept = {}
    /\ passed = 0 /\ handleFor = {Top} /\ failedDirs = {} /\ failures = {}
    /\ remote = [e \in Entries |-> Nowhere]

\* local_path.parents, as far as the directory.
Parents(e) ==
    LET up[n \in 0 .. Size] == IF n = 0 THEN {above[e]}
                               ELSE up[n - 1] \cup {above[f] : f \in up[n - 1] \ {Top}}
    IN  up[Size]

\* Variant (bug): only the symlink itself is left out.
WalkLinksOnly ==
    /\ walked < Size
    /\ walked' = walked + 1
    /\ kept' = IF kind[walked + 1] = "link" THEN kept ELSE kept \cup {walked + 1}
    /\ UNCHANGED <<tree, skippedDirs, passed, handleFor, failedDirs, failures, remote>>

\* walk_upload_entries: no symlink, and nothing below one.
Walk ==
    /\ walked < Size
    /\ walked' = walked + 1
    /\ LET e == walked + 1
       IN  IF kind[e] = "link"
           THEN skippedDirs' = skippedDirs \cup {e} /\ UNCHANGED kept
           ELSE /\ kept' = IF Parents(e) \cap skippedDirs = {} THEN kept \cup {e} ELSE kept
                /\ UNCHANGED skippedDirs
    /\ UNCHANGED <<tree, passed, handleFor, failedDirs, failures, remote>>

\* Where an entry goes: the folder made for its parent, else the top.
FolderOf(e) == IF above[e] \in handleFor THEN above[e] ELSE Top

(* mkdir or upload_file of one entry.  A failure is noted, whether or not   *)
(* MEGA has made the node all the same, and what lies below a failed folder *)
(* fails with it.                                                           *)
UploadEntry(e) ==
    \/ /\ Parents(e) \cap failedDirs = {}
       /\ remote' = [remote EXCEPT ![e] = FolderOf(e)]
       /\ \/ /\ handleFor' = IF kind[e] = "folder" THEN handleFor \cup {e} ELSE handleFor
             /\ UNCHANGED <<failedDirs, failures>>
          \/ /\ failures' = failures \cup {e}
             /\ failedDirs' = IF kind[e] = "folder" THEN failedDirs \cup {e} ELSE failedDirs
             /\ UNCHANGED handleFor
    \/ /\ failures' = failures \cup {e}
       /\ failedDirs' = IF kind[e] = "folder" /\ Parents(e) \cap failedDirs = {}
                        THEN failedDirs \cup {e} ELSE failedDirs
       /\ UNCHANGED <<handleFor, remote>>

\* The pass over what was kept, once the walk is done.
UploadNext ==
    /\ walked = Size /\ passed < Size
    /\ passed' = passed + 1
    /\ IF passed + 1 \in kept THEN UploadEntry(passed + 1)
       ELSE UNCHANGED <<handleFor, failedDirs, failures, remote>>
    /\ UNCHANGED <<tree, walked, skippedDirs, kept>>

TreeNext == Walk \/ UploadNext

TreeSpec == TreeInit /\ [][TreeNext]_treeVars

-----------------------------------------------------------------------------
(* Properties *)

(* The remote tree is the local one (upload_tree.py:56-73, "preserving      *)
(* structure"): whatever is made is made in the folder of its own parent,   *)
(* though folders fail, and no symlink and nothing below one is published   *)
(* (upload_tree.py:28-38).                                                  *)
TreeMirrored ==
    \A e \in Entries : remote[e] # Nowhere =>
        /\ remote[e] = above[e]
        /\ remote[e] # Top => remote[remote[e]] # Nowhere
        /\ kind[e] # "link" /\ \A f \in Parents(e) \ {Top} : kind[f] # "link"
=============================================================================
