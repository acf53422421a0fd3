------------------------------ MODULE Download ------------------------------
(***************************************************************************)
(* A download (core/downloader.py, core/download_transport.py): the main   *)
(* thread that claims a destination, resumes or starts afresh, submits one *)
(* task per missing chunk to a thread pool, and decides what the result    *)
(* is; the tasks that fetch, write and record a chunk and refresh an       *)
(* expired CDN URL; one session after another on one destination, with     *)
(* other sources, operators that stop, processes that die and power that   *)
(* fails.  Two sessions at once are excluded by claim_destination.         *)
(***************************************************************************)
EXTENDS ResumeState, FiniteSets

CONSTANTS Size,         \* chunks of each source (a source of another size is another number)
          Workers,      \* max_workers
          Attempts,     \* stop_after_attempt
          SaveEvery,    \* the state is saved each time this many chunks are done
          Modes,        \* the settings a session may have
          DiskFaults,   \* whether writing, flushing or saving may fail
          Garbling,     \* whether a server may send wrong bytes of the right length
          MaxSessions   \* bound: sessions on the destination

ASSUME DownloadAssumption ==
    /\ Size \in [Sources -> 1 .. NumChunks]
    /\ Workers \in Nat \ {0} /\ Attempts \in Nat \ {0} /\ SaveEvery \in Nat \ {0}
    /\ Modes # {} /\ Modes \subseteq [overwrite : BOOLEAN, keep : BOOLEAN, verify : BOOLEAN, resume : BOOLEAN]
    /\ DiskFaults \in BOOLEAN /\ Garbling \in BOOLEAN
    /\ MaxSessions \in Nat

VARIABLES
    image,     \* the destination as programs see it
    synced,    \* the destination as the disk holds it
    file,      \* the .mbstate file
    sessions,  \* sessions begun
    pc,        \* main thread
    source,    \* what the session downloads
    mode,      \* keep_state_files_on_error, overwrite, verify_integrity, auto_resume
    live,      \* the live TransferState
    snap,      \* the snapshot the main thread saves
    outcome,   \* how the session ended, or is about to
    stop,      \* _stop_event
    gen,       \* _url_generation
    refresher, \* the task that holds _url_refresh_lock, or 0
    task       \* the task of each chunk

diskVars == <<image, synced, file>>
urlVars == <<gen, refresher>>
vars == <<diskVars, sessions, pc, source, mode, live, snap, outcome, stop, urlVars, task>>

Zero == "zero"         \* preallocated, not written
Garbled == "garbled"   \* not the bytes of any source
Contents == Sources \cup {Zero, Garbled}

Absent == [size |-> -1, body |-> [c \in Chunks |-> Zero]]
Preallocated(n) == [size |-> n, body |-> [c \in Chunks |-> Zero]]
Images == [size : -1 .. NumChunks, body : [Chunks -> Contents]]

ChunksOf(s) == 1 .. Size[s]

NoTask == [pc |-> "none", seen |-> 0, tries |-> 0, got |-> Zero, snap |-> NoFile]

Running == {"ready", "fetch", "expired", "waitlock", "resolving", "write", "mark", "flush", "save"}
TaskPCs == Running \cup {"none", "queued", "returned", "raised"}

Live == pc # "off"
PoolUp == pc \in {"submit", "wait", "fail", "failflush", "failsave", "join"}

\* Variant (bug): a state is reused without asking what it belongs to.
UsableForAny(f, img, s, m) ==
    /\ m.resume /\ f.kind = "state"
    /\ f.done # {} => img.size = Size[s] /\ f.done \subseteq ChunksOf(s)

(* is_usable_download_state: same source, key and size, and the destination *)
(* still there at its full size if any chunk is done.                       *)
Usable(f, img, s, m) ==
    /\ m.resume /\ f.kind = "state" /\ f.src = s
    /\ f.done # {} => img.size = Size[s] /\ f.done \subseteq ChunksOf(s)

Init ==
    /\ image \in {Absent, Preallocated(NumChunks)} /\ synced = image
    /\ file \in {NoFile, Bare("corrupt"), Bare("newer")}
    /\ sessions = 0
    /\ pc = "off" /\ source = NoSource /\ outcome = "none"
    /\ mode = CHOOSE m \in Modes : TRUE
    /\ live = NoFile /\ snap = NoFile
    /\ stop = FALSE /\ gen = 0 /\ refresher = 0
    /\ task = [c \in Chunks |-> NoTask]

\* The session is over: its threads and what they held in memory are gone.
Over(how) ==
    /\ pc' = "off" /\ outcome' = how
    /\ live' = NoFile /\ snap' = NoFile
    /\ stop' = FALSE /\ gen' = 0 /\ refresher' = 0
    /\ task' = [c \in Chunks |-> NoTask]

-----------------------------------------------------------------------------
(* The main thread *)

(* claim_destination: an existing file is taken only to overwrite it or to  *)
(* resume it; otherwise the transfer goes to another path, after the look   *)
(* at the state file.  Then resume, or clear what is on disk and start      *)
(* afresh; a newer client's state is refused.                               *)
Start(s, m) ==
    /\ pc = "off" /\ sessions < MaxSessions
    /\ sessions' = sessions + 1
    /\ LET asked == image.size # -1 /\ ~m.overwrite
           here == ~asked \/ Usable(file, image, s, m)
           f == IF asked \/ m.resume THEN AfterLoad(file) ELSE file
       IN  \/ /\ ~here
              /\ file' = f
              /\ UNCHANGED <<pc, source, mode, live, outcome>>
           \/ /\ here
              /\ source' = s /\ mode' = m
              /\ \/ /\ Usable(f, image, s, m)
                    /\ live' = f
                    /\ file' = f
                    /\ pc' = "prepare" /\ outcome' = "none"
                 \/ /\ ~Usable(f, image, s, m) /\ f.kind # "newer"
                    /\ live' = FreshState(s)
                    /\ file' = Cleared(f)
                    /\ pc' = "prepare" /\ outcome' = "none"
                 \/ /\ ~Usable(f, image, s, m) /\ f.kind = "newer"
                    /\ file' = f
                    /\ outcome' = "failed"
                    /\ UNCHANGED <<pc, live>>
    /\ UNCHANGED <<image, synced, snap, stop, urlVars, task>>

(* Preallocate unless the size is right already (the disk may be full),     *)
(* then reset the stop event.                                               *)
Prepare ==
    /\ pc = "prepare"
    /\ \/ /\ image' = IF image.size = Size[source] THEN image ELSE Preallocated(Size[source])
          /\ stop' = FALSE
          /\ pc' = "submit"
          /\ UNCHANGED <<outcome, live, snap, urlVars, task>>
       \/ /\ image.size # Size[source]
          /\ Over("failed")
          /\ UNCHANGED image
    /\ UNCHANGED <<synced, file, sessions, source, mode>>

Unsubmitted == {c \in ChunksOf(source) \ live.done : task[c].pc = "none"}

Submit ==
    /\ pc = "submit"
    /\ \/ /\ ~stop
          /\ \E c \in Unsubmitted :
               /\ \A b \in Unsubmitted : c <= b
               /\ task' = [task EXCEPT ![c].pc = "queued"]
          /\ UNCHANGED pc
       \/ /\ stop \/ Unsubmitted = {}
          /\ pc' = "wait"
          /\ UNCHANGED task
    /\ UNCHANGED <<diskVars, sessions, source, mode, live, snap, outcome, stop, urlVars>>

(* The futures are asked for their results in order of submission; the      *)
(* first exception stops the others.                                        *)
SeeFailure ==
    /\ pc = "wait"
    /\ \E c \in Chunks : /\ task[c].pc = "raised"
                         /\ \A b \in 1 .. (c - 1) : task[b].pc \in {"none", "returned"}
    /\ stop' = TRUE
    /\ outcome' = "failed"
    /\ pc' = "fail"
    /\ UNCHANGED <<diskVars, sessions, source, mode, live, snap, urlVars, task>>

SeeReturns ==
    /\ pc = "wait"
    /\ \A c \in Chunks : task[c].pc \in {"none", "returned"}
    /\ snap' = Snapshot(live) /\ live' = Snapshot(live)
    /\ pc' = "flush"
    /\ UNCHANGED <<diskVars, sessions, source, mode, outcome, stop, urlVars, task>>

\* KeyboardInterrupt in fut.result(): the pool is joined, nothing is stopped or saved.
Interrupted ==
    /\ pc = "wait"
    /\ outcome' = "interrupted"
    /\ pc' = "join"
    /\ UNCHANGED <<diskVars, sessions, source, mode, live, snap, stop, urlVars, task>>

\* The handler of a failed chunk, while other tasks are still running.
HandleFailure ==
    /\ pc = "fail"
    /\ \/ /\ mode.keep
          /\ snap' = Snapshot(live) /\ live' = Snapshot(live)
          /\ pc' = "failflush"
          /\ UNCHANGED file
       \/ /\ ~mode.keep
          /\ file' = Cleared(file)
          /\ pc' = "join"
          /\ UNCHANGED <<snap, live>>
    /\ UNCHANGED <<image, synced, sessions, source, mode, outcome, stop, urlVars, task>>

\* save_state of the main thread: flush the data, then replace the state file.
Flush ==
    /\ pc \in {"failflush", "flush"}
    /\ synced' = image
    /\ pc' = IF pc = "flush" THEN "save" ELSE "failsave"
    /\ UNCHANGED <<image, file, sessions, source, mode, live, snap, outcome, stop, urlVars, task>>

Save ==
    /\ pc \in {"failsave", "save"}
    /\ file' = Saved(file, snap)
    /\ pc' = IF pc = "save" THEN "cover" ELSE "join"
    /\ UNCHANGED <<image, synced, sessions, source, mode, live, snap, outcome, stop, urlVars, task>>

SaveFails ==
    /\ DiskFaults
    /\ \/ /\ pc \in {"flush", "save"}
          /\ Over("failed")
       \/ /\ pc \in {"failflush", "failsave"}
          /\ pc' = "join"
          /\ UNCHANGED <<live, snap, outcome, stop, urlVars, task>>
    /\ UNCHANGED <<diskVars, sessions, source, mode>>

\* Leaving the `with` block waits for every task that was submitted.
Join ==
    /\ pc = "join"
    /\ \A c \in Chunks : task[c].pc \in {"none", "returned", "raised"}
    /\ Over(outcome)
    /\ UNCHANGED <<diskVars, sessions, source, mode>>

\* Variant (bug): reaching this line is taken for completion.
CoverUnchecked ==
    /\ pc = "cover"
    /\ pc' = "verify"
    /\ UNCHANGED <<diskVars, sessions, source, mode, live, snap, outcome, stop, urlVars, task>>

(* Completion is proven by coverage: with chunks missing the state is saved *)
(* again (the same snapshot) or cleared, and the transfer is cancelled.     *)
Cover ==
    /\ pc = "cover"
    /\ \/ /\ ChunksOf(source) \subseteq snap.done
          /\ pc' = "verify"
          /\ UNCHANGED <<file, live, snap, outcome, stop, urlVars, task>>
       \/ /\ ~(ChunksOf(source) \subseteq snap.done)
          /\ file' = IF mode.keep THEN Saved(file, snap) ELSE Cleared(file)
          /\ Over(IF stop THEN "cancelled" ELSE "failed")
    /\ UNCHANGED <<image, synced, sessions, source, mode>>

\* Variant (bug): only the length of the file is looked at.
IntactBySize == image.size = Size[source]

\* _verify_file_on_disk: the MAC of the bytes on disk is the one in the key.
Intact == image.size = Size[source] /\ \A c \in ChunksOf(source) : image.body[c] = source

Verify ==
    /\ pc = "verify"
    /\ \/ /\ ~mode.verify \/ Intact
          /\ pc' = "clear"
          /\ UNCHANGED <<file, live, snap, outcome, stop, urlVars, task>>
       \/ /\ mode.verify /\ ~Intact
          /\ file' = IF mode.keep THEN file ELSE Cleared(file)
          /\ Over("failed")
    /\ UNCHANGED <<image, synced, sessions, source, mode>>

Finish ==
    /\ pc = "clear"
    /\ file' = Cleared(file)
    /\ Over("done")
    /\ UNCHANGED <<image, synced, sessions, source, mode>>

-----------------------------------------------------------------------------
(* The tasks *)

taskFrame == <<sessions, pc, source, mode, outcome, stop>>

\* The pool starts tasks in order of submission, at most max_workers at a time.
Begin(c) ==
    /\ PoolUp /\ task[c].pc = "queued"
    /\ \A b \in Chunks : task[b].pc = "queued" => c <= b
    /\ Cardinality({b \in Chunks : task[b].pc \in Running}) < Workers
    /\ task' = [task EXCEPT ![c].pc = "ready"]
    /\ UNCHANGED <<diskVars, taskFrame, live, snap, urlVars>>

\* An attempt looks at the stop event and reads the URL.
Attempt(c) ==
    /\ task[c].pc = "ready"
    /\ task' = IF stop THEN [task EXCEPT ![c].pc = "returned"]
                       ELSE [task EXCEPT ![c].pc = "fetch", ![c].seen = gen]
    /\ UNCHANGED <<diskVars, taskFrame, live, snap, urlVars>>

\* Variant (bug): an attempt that is not counted.
RetriedUncounted(c) == [task EXCEPT ![c].pc = "ready"]

\* The retry policy: what may be retried is retried while attempts are left.
Retried(c) == IF task[c].tries + 1 < Attempts
                THEN [task EXCEPT ![c].pc = "ready", ![c].tries = @ + 1]
                ELSE [task EXCEPT ![c].pc = "raised"]

(* The answer: the body, a stop seen while reading it, an expired URL, a    *)
(* transient failure, or one that no retry can mend.                        *)
Fetch(c) ==
    /\ task[c].pc = "fetch"
    /\ \/ \E got \in {source} \cup (IF Garbling THEN {Garbled} ELSE {}) :
            task' = [task EXCEPT ![c].pc = "write", ![c].got = got]
       \/ stop /\ task' = [task EXCEPT ![c].pc = "returned"]
       \/ task' = [task EXCEPT ![c].pc = "expired"]
       \/ task' = Retried(c)
       \/ task' = [task EXCEPT ![c].pc = "raised"]
    /\ UNCHANGED <<diskVars, taskFrame, live, snap, urlVars>>

\* _refresh_url: somebody else may have refreshed it already.
LookAtUrl(c) ==
    /\ task[c].pc = "expired"
    /\ task' = IF gen # task[c].seen THEN Retried(c) ELSE [task EXCEPT ![c].pc = "waitlock"]
    /\ UNCHANGED <<diskVars, taskFrame, live, snap, urlVars>>

\* Variant (bug): no second look under the lock.
LockRefreshUnchecked(c) ==
    /\ task[c].pc = "waitlock" /\ refresher = 0
    /\ refresher' = c
    /\ task' = [task EXCEPT ![c].pc = "resolving"]
    /\ UNCHANGED <<diskVars, taskFrame, live, snap, gen>>

LockRefresh(c) ==
    /\ task[c].pc = "waitlock" /\ refresher = 0
    /\ \/ /\ gen # task[c].seen
          /\ task' = Retried(c)
          /\ UNCHANGED refresher
       \/ /\ gen = task[c].seen
          /\ refresher' = c
          /\ task' = [task EXCEPT ![c].pc = "resolving"]
    /\ UNCHANGED <<diskVars, taskFrame, live, snap, gen>>

\* The resolver answers with a new URL, or fails in a way that may be retried or not.
Resolve(c) ==
    /\ task[c].pc = "resolving"
    /\ refresher' = 0
    /\ \/ /\ gen' = IF gen = task[c].seen THEN gen + 1 ELSE gen
          /\ task' = Retried(c)
       \/ /\ task' \in {Retried(c), [task EXCEPT ![c].pc = "raised"]}
          /\ UNCHANGED gen
    /\ UNCHANGED <<diskVars, taskFrame, live, snap>>

Write(c) ==
    /\ task[c].pc = "write"
    /\ \/ /\ image' = [image EXCEPT !.body[c] = task[c].got]
          /\ task' = [task EXCEPT ![c].pc = "mark"]
       \/ /\ DiskFaults
          /\ task' = [task EXCEPT ![c].pc = "raised"]
          /\ UNCHANGED image
    /\ UNCHANGED <<synced, file, taskFrame, live, snap, urlVars>>

\* Under _lock: record the chunk, and take a snapshot every SaveEvery chunks.
Mark(c) ==
    /\ task[c].pc = "mark"
    /\ LET l == Marked(live, c) IN
         IF Cardinality(l.done) % SaveEvery = 0
           THEN /\ live' = Snapshot(l)
                /\ task' = [task EXCEPT ![c].pc = "flush", ![c].snap = Snapshot(l)]
           ELSE /\ live' = l
                /\ task' = [task EXCEPT ![c].pc = "returned"]
    /\ UNCHANGED <<diskVars, taskFrame, snap, urlVars>>

\* Variant (bug): a flush that fails is logged, and the state saved.
TaskFlushGoesOn(c) ==
    /\ task[c].pc = "flush"
    /\ synced' = image \/ (DiskFaults /\ UNCHANGED synced)
    /\ task' = [task EXCEPT ![c].pc = "save"]
    /\ UNCHANGED <<image, file, taskFrame, live, snap, urlVars>>

\* save_state of a task: flush, then replace; a failure is raised and not retried.
TaskFlush(c) ==
    /\ task[c].pc = "flush"
    /\ \/ /\ synced' = image
          /\ task' = [task EXCEPT ![c].pc = "save"]
       \/ /\ DiskFaults
          /\ task' = [task EXCEPT ![c].pc = "raised", ![c].snap = NoFile]
          /\ UNCHANGED synced
    /\ UNCHANGED <<image, file, taskFrame, live, snap, urlVars>>

TaskSave(c) ==
    /\ task[c].pc = "save"
    /\ \/ /\ file' = Saved(file, task[c].snap)
          /\ task' = [task EXCEPT ![c].pc = "returned", ![c].snap = NoFile]
       \/ /\ DiskFaults
          /\ task' = [task EXCEPT ![c].pc = "raised", ![c].snap = NoFile]
          /\ UNCHANGED file
    /\ UNCHANGED <<image, synced, taskFrame, live, snap, urlVars>>

-----------------------------------------------------------------------------
(* The world around it *)

\* stop(): a lost lease, or a caller of the library.
Stop ==
    /\ Live /\ ~stop
    /\ stop' = TRUE
    /\ UNCHANGED <<diskVars, sessions, pc, source, mode, live, snap, outcome, urlVars, task>>

\* A process is killed: the destination claim goes with it, as the lock of its file.
Kill == Live /\ Over("none") /\ UNCHANGED <<diskVars, sessions, source, mode>>

(* What was not flushed is on the disk or not, chunk by chunk.  The state   *)
(* file was fsynced before it was renamed.                                  *)
PowerFails ==
    /\ image # synced
    /\ \E n \in {image.size, synced.size} :
       \E b \in [Chunks -> Contents] :
          /\ \A c \in Chunks : b[c] \in {image.body[c], synced.body[c]}
          /\ image' = [size |-> n, body |-> b]
    /\ synced' = image'
    /\ Over("none")
    /\ UNCHANGED <<file, sessions, source, mode>>

\* Between sessions the user may remove the destination.
Delete ==
    /\ ~Live /\ image.size # -1
    /\ image' = Absent /\ synced' = Absent
    /\ outcome' = "none"
    /\ UNCHANGED <<file, sessions, pc, source, mode, live, snap, stop, urlVars, task>>

MainStep == \/ Prepare \/ Submit \/ SeeFailure \/ SeeReturns \/ HandleFailure \/ Flush \/ Save
            \/ SaveFails \/ Join \/ Cover \/ Verify \/ Finish

TaskStep(c) == \/ Begin(c) \/ Attempt(c) \/ Fetch(c) \/ LookAtUrl(c) \/ LockRefresh(c)
               \/ Resolve(c) \/ Write(c) \/ Mark(c) \/ TaskFlush(c) \/ TaskSave(c)

Next == \/ \E s \in Sources, m \in Modes : Start(s, m)
        \/ MainStep \/ Interrupted
        \/ \E c \in Chunks : TaskStep(c)
        \/ Stop \/ Kill \/ PowerFails \/ Delete

Spec == Init /\ [][Next]_vars

\* The operating system runs the threads; the resolver and the server answer or time out.
Fairness == WF_vars(MainStep) /\ \A c \in Chunks : WF_vars(TaskStep(c))

FairSpec == Spec /\ Fairness

-----------------------------------------------------------------------------
TypeOK ==
    /\ image \in Images /\ synced \in Images
    /\ file \in StateFile /\ live \in StateFile /\ snap \in StateFile
    /\ sessions \in 0 .. MaxSessions
    /\ pc \in {"off", "prepare", "submit", "wait", "fail", "failflush", "failsave", "flush", "save",
               "join", "cover", "verify", "clear"}
    /\ source \in Sources \cup {NoSource} /\ mode \in Modes
    /\ outcome \in {"none", "done", "failed", "cancelled", "interrupted"}
    /\ stop \in BOOLEAN /\ gen \in Nat /\ refresher \in 0 .. NumChunks
    /\ task \in [Chunks -> [pc : TaskPCs, seen : Nat, tries : 0 .. (Attempts - 1),
                            got : Contents, snap : StateFile]]

(* The barrier of save_state: the state file vouches only for bytes that    *)
(* are on the disk, and are the source's own, whatever is killed and        *)
(* whenever power fails.  (A destination the user removed is noticed.)      *)
StateVouchesForDisk ==
    file.kind = "state" /\ image.size # -1 =>
        \A c \in file.done : /\ synced.size = Size[file.src]
                             /\ synced.body[c] \in {file.src} \cup (IF Garbling THEN {Garbled} ELSE {})

(* A download reported as complete is complete, on the disk, with the bytes *)
(* of its own source: also after resuming what other sessions left behind.  *)
CompleteIsComplete ==
    outcome = "done" =>
        /\ image.size = Size[source] /\ synced = image
        /\ \A c \in ChunksOf(source) :
             image.body[c] = source \/ (Garbling /\ ~mode.verify /\ image.body[c] = Garbled)

(* state.py 530-542: nothing committed can regress.  Late saves of older    *)
(* snapshots do not take back a chunk.                                      *)
CommittedOnlyGrows ==
    [][file.kind = "state" /\ file'.kind = "state" /\ file.src = file'.src
         => file.done \subseteq file'.done]_vars

(* downloader.py 332-352: a URL is resolved once per generation: a task     *)
(* never asks for a URL that another has just fetched.                      *)
ResolvedOncePerGeneration ==
    \A c \in Chunks : task[c].pc = "resolving" => /\ task[c].seen = gen
                                                  /\ refresher = c

\* Every session ends: retries are bounded and no lock is kept.
SessionEnds == Live ~> ~Live
=============================================================================
