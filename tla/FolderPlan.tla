----------------------------- MODULE FolderPlan -----------------------------
(***************************************************************************)
(* Where the files of a public folder go (core/folder_downloader.py): the  *)
(* listing names each node's parent, in any order and, since its author is *)
(* not the user, with parents that are missing, empty, files, or go round  *)
(* in a circle.  A handle is listed once.                                  *)
(***************************************************************************)
EXTENDS Integers, Sequences, FiniteSets

CONSTANTS Nodes,     \* handles in the listing
          Outside,   \* a parent that is not in the listing
          NoParent   \* an empty or absent parent

ASSUME ListingAssumption ==
    IsFiniteSet(Nodes) /\ Outside \notin Nodes /\ NoParent \notin Nodes

VARIABLES
    isFile,   \* the nodes that are files
    parent,   \* the parent of each
    asked,    \* what the link asks for: the whole "share", or a "folder" in it
    root,     \* the folder the plan starts from
    depth,    \* what _sort_by_depth has found
    chain,    \* the chain of parents it is walking
    pathFor,  \* path_for_handle: the folders above each folder, and itself
    jobs,     \* the files planned, and the folders their paths go through
    stage     \* "sort", "place", "files", "planned", "refused"

planVars == <<isFile, parent, asked, root, depth, chain, pathFor, jobs, stage>>
listing == <<isFile, parent, asked, root>>

Unknown == -1

\* _subtree_handles: the root and all that is below it.
Below ==
    LET grow[n \in 0 .. Cardinality(Nodes)] ==
            IF n = 0 THEN {root} ELSE grow[n - 1] \cup {m \in Nodes : parent[m] \in grow[n - 1]}
    IN  grow[Cardinality(Nodes)]

\* The nodes the plan is about: all of a share; of a folder, those below it.
Planned == IF asked = "share" THEN Nodes ELSE Below \cap Nodes

(* _find_folder_root: the parent of the first node whose parent is not      *)
(* listed, or that node itself if it names none, be it a folder or a file;  *)
(* the first node where every parent is listed.                             *)
FolderRoots ==
    LET strays == {n \in Nodes : parent[n] \notin Nodes}
    IN  IF strays = {} THEN Nodes
        ELSE {IF parent[n] = NoParent THEN n ELSE parent[n] : n \in strays}

PlanInit ==
    /\ isFile \in SUBSET Nodes /\ parent \in [Nodes -> Nodes \cup {Outside, NoParent}]
    /\ asked \in {"share", "folder"}
    /\ root \in (IF asked = "share" THEN FolderRoots ELSE Nodes \ isFile)
    /\ depth = [n \in Nodes |-> IF n = root THEN 0 ELSE Unknown]
    /\ chain = <<>>
    /\ pathFor = [n \in Nodes |-> <<>>]
    /\ jobs = [n \in {} |-> <<>>]
    /\ stage = "sort"

-----------------------------------------------------------------------------
(* _sort_by_depth and _parent_chain *)

LastLink == chain[Len(chain)]
InChain(n) == \E i \in DOMAIN chain : chain[i] = n

\* The next node whose depth is not known; the order of the listing decides which.
Take(n) ==
    /\ stage = "sort" /\ chain = <<>>
    /\ n \in Planned /\ depth[n] = Unknown
    /\ chain' = <<n>>
    /\ UNCHANGED <<listing, depth, pathFor, jobs, stage>>

(* One step up the chain: to a node whose depth is known, or out of the     *)
(* listing, which settles the depth of the whole chain; to a node of the    *)
(* chain itself, which refuses the share.                                   *)
Ascend ==
    /\ stage = "sort" /\ chain # <<>>
    /\ LET p == parent[LastLink]
           known == p \in Planned /\ depth[p] # Unknown
           base == IF known THEN depth[p] ELSE 0
       IN  \/ /\ p \in Planned /\ ~known /\ ~InChain(p)
              /\ chain' = Append(chain, p)
              /\ UNCHANGED <<depth, stage>>
           \/ /\ InChain(p)
              /\ stage' = "refused"
              /\ UNCHANGED <<depth, chain>>
           \/ /\ known \/ p \notin Planned
              /\ depth' = [n \in Nodes |-> IF InChain(n)
                                           THEN base + Len(chain) + 1
                                                - (CHOOSE i \in DOMAIN chain : chain[i] = n)
                                           ELSE depth[n]]
              /\ chain' = <<>>
              /\ UNCHANGED stage
    /\ UNCHANGED <<listing, pathFor, jobs>>

-----------------------------------------------------------------------------
(* _build_directory_paths and plan_file_jobs *)

Folders == Planned \ isFile
Placed == {n \in Folders : pathFor[n] # <<>>}

\* The path of the root: its name, or the output folder if it is no listed folder.
RootPath == IF root \in Folders THEN <<root>> ELSE <<>>

\* Once every depth is known, the root has its path.
Sorted ==
    /\ stage = "sort" /\ chain = <<>> /\ \A n \in Planned : depth[n] # Unknown
    /\ pathFor' = [n \in Nodes |-> IF n = root THEN RootPath ELSE <<>>]
    /\ stage' = "place"
    /\ UNCHANGED <<listing, depth, chain, jobs>>

\* The path of a folder in the map, the root's for a handle that is not in it.
PathOf(h) == IF h \in Placed THEN pathFor[h] ELSE RootPath

\* Variant (bug): folders are placed in the order of the listing.
PlaceListed(n) ==
    /\ stage = "place"
    /\ n \in Folders \ Placed
    /\ pathFor' = [pathFor EXCEPT ![n] = Append(PathOf(parent[n]), n)]
    /\ UNCHANGED <<listing, depth, chain, jobs, stage>>

\* The next folder by depth.
Place(n) ==
    /\ stage = "place"
    /\ n \in Folders \ Placed
    /\ \A m \in Folders \ Placed : depth[n] <= depth[m]
    /\ pathFor' = [pathFor EXCEPT ![n] = Append(PathOf(parent[n]), n)]
    /\ UNCHANGED <<listing, depth, chain, jobs, stage>>

\* The files, each in the folder of its parent, or in the output folder.
PlanFiles ==
    /\ stage = "place" /\ Folders = Placed
    /\ jobs' = [f \in Planned \cap isFile |->
                   IF parent[f] \in Placed THEN pathFor[parent[f]] ELSE <<>>]
    /\ stage' = "planned"
    /\ UNCHANGED <<listing, depth, chain, pathFor>>

PlanNext == Ascend \/ Sorted \/ PlanFiles \/ \E n \in Nodes : Take(n) \/ Place(n)

PlanSpec == PlanInit /\ [][PlanNext]_planVars

-----------------------------------------------------------------------------
(* Properties *)

\* A node the listing puts in no folder: its parent is a file, or is missing.
Astray(n) == IF asked = "share" THEN parent[n] \notin Folders ELSE parent[n] \in isFile

(* The plan mirrors the share (folder_downloader.py:366-437) in whatever    *)
(* order the listing came and whatever it lacks.  The folders of a path are *)
(* a file's own parents, up to the root or to where the listing loses the   *)
(* trail; a folder astray is put in the root, where the root is a folder,   *)
(* and a file astray at the top.  Below a folder that was asked for, only a *)
(* file that is named as a parent leads astray.                             *)
PlanMirrorsTree ==
    stage = "planned" =>
        \A f \in DOMAIN jobs :
            LET path == jobs[f]
            IN  \/ path = <<>> /\ Astray(f)
                \/ /\ path # <<>> /\ parent[f] = path[Len(path)]
                   /\ path[1] = root \/ (root \notin Folders /\ Astray(path[1]))
                   /\ \A i \in 2 .. Len(path) :
                        \/ parent[path[i]] = path[i - 1]
                        \/ i = 2 /\ path[1] = root /\ Astray(path[2])
=============================================================================
