------------------------------- MODULE Upload -------------------------------
(***************************************************************************)
(* Uploads of one local file (core/uploader.py, core/upload_transport.py,  *)
(* core/upload_identity.py) by several processes: the lease, the resume    *)
(* state, the upload slot, the chunk tasks, the refresh of an expired      *)
(* slot, and the registration of the node; while the file is edited,       *)
(* removed and written anew, and processes are stopped, interrupted and    *)
(* killed.                                                                 *)
(*                                                                         *)
(* The local file is named by its version: each edit sets a new mtime, so  *)
(* source_identity tells versions apart.  An identity torn by an edit      *)
(* between stat and hash matches no version from then on, as the identity  *)
(* of the version before the edit would.                                   *)
(***************************************************************************)
EXTENDS ResumeState, FiniteSets

CONSTANTS Procs,        \* processes
          NumVersions,  \* bound: versions of the local file
          Size,         \* chunks of each version, 0 for an empty file
          Workers,      \* max_workers
          Attempts,     \* stop_after_attempt
          SaveEvery,    \* the state is saved each time this many chunks are done
          SaveFaults,   \* whether saving the state may fail
          MaxSessions,  \* bound: uploads begun
          MaxSlots      \* bound: slots the server hands out

ASSUME UploadAssumption ==
    /\ NumVersions \in Nat \ {0} /\ Sources = 1 .. NumVersions /\ NoSource = 0
    /\ Size \in [Sources -> 0 .. NumChunks]
    /\ Workers \in Nat \ {0} /\ Attempts \in Nat \ {0} /\ SaveEvery \in Nat \ {0}
    /\ SaveFaults \in BOOLEAN /\ MaxSessions \in Nat /\ MaxSlots \in Nat

VARIABLES
    version,   \* the version of the local file last written
    there,     \* whether it is there
    stored,    \* the resume state; its path holds the size of the file when it was asked for
    sessions,  \* uploads begun
    slots,     \* slots the server handed out; slot numbers are never used again
    body,      \* what each slot holds of each chunk: key and version it was read from
    nodes,     \* what was registered
    proc,      \* main thread of each process
    task       \* the chunk tasks of each process

worldVars == <<version, there, sessions>>
serverVars == <<slots, body, nodes>>
vars == <<worldVars, stored, serverVars, proc, task>>

Slots == 1 .. MaxSlots
Nothing == [key |-> 0, ver |-> NoSource]

(* The TransferState of an upload.  The key is named by the first slot that *)
(* was requested with it; _completion_token and metadata["completion_token"] *)
(* are always assigned together and are one field, naming the slot.         *)
UploadStates ==
    [kind : {"state"}, src : Sources, size : 1 .. NumChunks, done : SUBSET Chunks, rev : Nat,
     mac : [Chunks -> Sources \cup {NoSource}], slot : Slots, key : Slots, token : {0} \cup Slots]

FreshUpload(v, n, slot) ==
    [kind |-> "state", src |-> v, size |-> n, done |-> {}, rev |-> 0,
     mac |-> [c \in Chunks |-> NoSource], slot |-> slot, key |-> slot, token |-> 0]

Bares == {Bare(k) : k \in {"none", "corrupt", "newer"}}

ChunksOf(n) == 1 .. n

\* is_final_chunk: the chunk with the last byte; its answer is the token.
Final(st, c) == c = st.size

Idle == [pc |-> "off", lock |-> -1, size |-> 0, ident |-> NoSource, path |-> 0,
         live |-> NoFile, snap |-> NoFile, refreshed |-> FALSE, stop |-> FALSE]

NoTask == [pc |-> "none", tries |-> 0, got |-> NoSource, snap |-> NoFile]

\* A task before or after its request: nothing read, nothing tried.
At(where) == [NoTask EXCEPT !.pc = where]

Running == {"ready", "post", "mark", "save"}
TaskPCs == Running \cup {"none", "queued", "returned", "raised", "expired"}
MainPCs == {"off", "leased", "sized", "hashed", "request", "loop", "wait", "failsave", "join",
            "refresh", "refused", "refreshsave", "token", "register", "clear",
            "emptyslot", "emptypost", "emptycheck", "emptyregister"}

Live(p) == proc[p].pc # "off"
SizeNow == Size[version]

Init ==
    /\ version = 1 /\ there = TRUE
    /\ stored \in {[n \in 0 .. NumChunks |-> f] : f \in Bares}
    /\ sessions = 0
    /\ slots = 0 /\ body = [s \in Slots |-> [c \in Chunks |-> Nothing]] /\ nodes = {}
    /\ proc = [p \in Procs |-> Idle]
    /\ task = [p \in Procs |-> [c \in Chunks |-> NoTask]]

Goto(p, where) == proc' = [proc EXCEPT ![p].pc = where]

\* The upload is over: threads, memory and the lease are gone.
Over(p) == /\ proc' = [proc EXCEPT ![p] = Idle]
           /\ task' = [task EXCEPT ![p] = [c \in Chunks |-> NoTask]]

-----------------------------------------------------------------------------
(* Before the transfer *)

(* upload_file: there must be a file; the lease is named by its size, and   *)
(* another process that holds it is not waited for.                         *)
Start(p) ==
    /\ ~Live(p) /\ sessions < MaxSessions
    /\ sessions' = sessions + 1
    /\ \/ /\ there /\ \A q \in Procs : proc[q].lock # SizeNow
          /\ proc' = [proc EXCEPT ![p].pc = "leased", ![p].lock = SizeNow]
       \/ /\ ~there \/ \E q \in Procs : proc[q].lock = SizeNow
          /\ UNCHANGED proc
    /\ UNCHANGED <<version, there, stored, serverVars, task>>

\* The per-file state is reset and the size of the file taken.
TakeSize(p) ==
    /\ proc[p].pc = "leased"
    /\ \/ /\ there
          /\ proc' = [proc EXCEPT ![p].pc = "sized", ![p].stop = FALSE, ![p].size = SizeNow]
          /\ UNCHANGED task
       \/ ~there /\ Over(p)
    /\ UNCHANGED <<worldVars, stored, serverVars>>

\* The root is looked up (it may fail) and the file hashed; a stop is seen here.
Hash(p) ==
    /\ proc[p].pc = "sized"
    /\ \/ /\ there /\ ~proc[p].stop
          /\ proc' = [proc EXCEPT ![p].ident = version,
                                  ![p].pc = IF proc[p].size = 0 THEN "emptyslot" ELSE "hashed"]
          /\ UNCHANGED task
       \/ Over(p)
    /\ UNCHANGED <<worldVars, stored, serverVars>>

\* is_resumable_upload_state: the state of this very version, of this size.
Resumable(f, p) == f.kind = "state" /\ f.src = proc[p].ident /\ f.size = proc[p].size

(* The state file is found by the size the file has by now, loaded, reused  *)
(* if it fits, cleared if it does not; a newer client's state is refused.   *)
LoadState(p) ==
    /\ proc[p].pc = "hashed"
    /\ \/ /\ there
          /\ \E auto_resume \in BOOLEAN : LET f == AfterLoad(stored[SizeNow]) IN
             /\ \/ /\ auto_resume /\ Resumable(f, p)
                   /\ proc' = [proc EXCEPT ![p].pc = "loop", ![p].path = SizeNow, ![p].live = f]
                   /\ stored' = [stored EXCEPT ![SizeNow] = f]
                   /\ UNCHANGED task
                \/ /\ ~(auto_resume /\ Resumable(f, p)) /\ f.kind # "newer"
                   /\ proc' = [proc EXCEPT ![p].pc = "request", ![p].path = SizeNow]
                   /\ stored' = [stored EXCEPT ![SizeNow] = Cleared(f)]
                   /\ UNCHANGED task
                \/ /\ f.kind = "newer"
                   /\ Over(p)
                   /\ UNCHANGED stored
       \/ ~there /\ Over(p) /\ UNCHANGED stored
    /\ UNCHANGED <<worldVars, serverVars>>

\* _request_upload_url: a slot, or an error.
RequestSlot(p) ==
    /\ proc[p].pc = "request"
    /\ \/ /\ slots < MaxSlots
          /\ slots' = slots + 1
          /\ proc' = [proc EXCEPT ![p].pc = "loop",
                                  ![p].live = FreshUpload(proc[p].ident, proc[p].size, slots + 1)]
          /\ UNCHANGED task
       \/ Over(p) /\ UNCHANGED slots
    /\ UNCHANGED <<worldVars, stored, body, nodes>>

-----------------------------------------------------------------------------
(* The transfer *)

(* The stop event is cleared and every missing chunk submitted.  (A stop    *)
(* ends the submission; the tasks submitted then return at once, so it is   *)
(* as if the others had been submitted too.)                                *)
Submit(p) ==
    /\ proc[p].pc = "loop"
    /\ proc' = [proc EXCEPT ![p].pc = "wait", ![p].stop = FALSE]
    /\ task' = [task EXCEPT ![p] =
                  [c \in Chunks |-> IF c \in ChunksOf(proc[p].size) \ proc[p].live.done
                                      THEN At("queued") ELSE NoTask]]
    /\ UNCHANGED <<worldVars, stored, serverVars>>

FirstRaised(p, c) ==
    /\ task[p][c].pc \in {"raised", "expired"}
    /\ \A b \in 1 .. (c - 1) : task[p][b].pc \in {"none", "returned"}

(* The first exception stops the other tasks.  An expired slot is refreshed *)
(* once the pool is joined; anything else saves the state and ends.         *)
SeeFailure(p) ==
    /\ proc[p].pc = "wait"
    /\ \E c \in Chunks :
         /\ FirstRaised(p, c)
         /\ \/ /\ task[p][c].pc = "expired"
               /\ proc' = [proc EXCEPT ![p].pc = "refresh", ![p].stop = TRUE]
            \/ /\ task[p][c].pc = "raised"
               /\ proc' = [proc EXCEPT ![p].pc = "failsave", ![p].stop = TRUE,
                                       ![p].live = Snapshot(@), ![p].snap = Snapshot(proc[p].live)]
    /\ UNCHANGED <<worldVars, stored, serverVars, task>>

SeeReturns(p) ==
    /\ proc[p].pc = "wait"
    /\ \A c \in Chunks : task[p][c].pc \in {"none", "returned"}
    /\ Goto(p, "token")
    /\ UNCHANGED <<worldVars, stored, serverVars, task>>

\* KeyboardInterrupt in fut.result(): the pool is joined, nothing is stopped or saved.
Interrupted(p) ==
    /\ proc[p].pc = "wait"
    /\ Goto(p, "join")
    /\ UNCHANGED <<worldVars, stored, serverVars, task>>

Joined(p) == \A c \in Chunks : task[p][c].pc \in {"none", "returned", "raised", "expired"}

Join(p) ==
    /\ proc[p].pc = "join" /\ Joined(p)
    /\ Over(p)
    /\ UNCHANGED <<worldVars, stored, serverVars>>

\* Variant (bug): the chunks the old slot holds are taken to be in the new one.
RefreshedKeepingChunks(live, slot) == [Snapshot(live) EXCEPT !.slot = slot, !.token = 0]

\* Variant (bug): the completion token of the old slot is kept.
RefreshedKeepingToken(live, slot) ==
    [Snapshot(live) EXCEPT !.slot = slot, !.done = {}, !.mac = [c \in Chunks |-> NoSource]]

\* A new slot holds nothing: no token, no chunk and no MAC goes over to it.
Refreshed(live, slot) ==
    [Snapshot(live) EXCEPT !.slot = slot, !.token = 0, !.done = {},
                           !.mac = [c \in Chunks |-> NoSource]]

\* One refresh: the pool is joined and a slot requested; a second expiry is an error.
Refresh(p) ==
    /\ proc[p].pc = "refresh" /\ Joined(p)
    /\ \/ /\ proc[p].refreshed
          /\ proc' = [proc EXCEPT ![p].pc = "refused",
                                  ![p].live = Snapshot(@), ![p].snap = Snapshot(proc[p].live)]
          /\ UNCHANGED <<slots, task>>
       \/ /\ ~proc[p].refreshed /\ slots < MaxSlots
          /\ slots' = slots + 1
          /\ LET l == Refreshed(proc[p].live, slots + 1) IN
               proc' = [proc EXCEPT ![p].pc = "refreshsave", ![p].refreshed = TRUE,
                                    ![p].live = l, ![p].snap = l]
          /\ task' = [task EXCEPT ![p] = [c \in Chunks |-> NoTask]]
       \/ ~proc[p].refreshed /\ Over(p) /\ UNCHANGED slots
    /\ UNCHANGED <<worldVars, stored, body, nodes>>


\* save_state before the upload fails: what comes of it makes no difference.
FailSave(p) ==
    /\ proc[p].pc \in {"failsave", "refused"}
    /\ \/ stored' = [stored EXCEPT ![proc[p].path] = Saved(@, proc[p].snap)]
       \/ SaveFaults /\ UNCHANGED stored
    /\ \/ /\ proc[p].pc = "failsave"
          /\ proc' = [proc EXCEPT ![p].pc = "join", ![p].snap = NoFile]
          /\ UNCHANGED task
       \/ proc[p].pc = "refused" /\ Over(p)
    /\ UNCHANGED <<worldVars, serverVars>>

\* save_state of the refreshed state; a failure ends the upload.
RefreshSave(p) ==
    /\ proc[p].pc = "refreshsave"
    /\ \/ /\ stored' = [stored EXCEPT ![proc[p].path] = Saved(@, proc[p].snap)]
          /\ proc' = [proc EXCEPT ![p].pc = "loop", ![p].snap = NoFile]
          /\ UNCHANGED task
       \/ SaveFaults /\ Over(p) /\ UNCHANGED stored
    /\ UNCHANGED <<worldVars, serverVars>>

-----------------------------------------------------------------------------
(* After the transfer *)

\* Variant (bug): the file is not looked at again.
CheckTokenOnly(p) ==
    /\ proc[p].pc = "token"
    /\ \/ proc[p].live.token # 0 /\ Goto(p, "register") /\ UNCHANGED task
       \/ proc[p].live.token = 0 /\ Over(p)
    /\ UNCHANGED <<worldVars, stored, serverVars>>

(* A token is needed, and the file of the beginning: what was read of one   *)
(* that changed or is gone is thrown away.  A stop is seen while hashing.   *)
CheckSource(p) ==
    /\ proc[p].pc = "token"
    /\ \/ /\ proc[p].live.token # 0 /\ there /\ version = proc[p].ident
          /\ Goto(p, "register")
          /\ UNCHANGED <<stored, task>>
       \/ /\ proc[p].live.token # 0 /\ (~there \/ version # proc[p].ident)
          /\ stored' = [stored EXCEPT ![proc[p].path] = Cleared(@)]
          /\ Over(p)
       \/ /\ proc[p].live.token = 0 \/ proc[p].stop
          /\ Over(p)
          /\ UNCHANGED stored
    /\ UNCHANGED <<worldVars, serverVars>>

Node(p) == [src |-> proc[p].ident, size |-> proc[p].size, key |-> proc[p].live.key,
            body |-> body[proc[p].live.token], mac |-> proc[p].live.mac]

(* With every chunk MAC there, _register_node: the node is created or not,  *)
(* and the answer is usable or not; the state is kept if it is not.         *)
Register(p) ==
    /\ proc[p].pc = "register"
    /\ LET complete == ChunksOf(proc[p].size) \subseteq proc[p].live.done IN
         \/ complete /\ nodes' = nodes \cup {Node(p)} /\ Goto(p, "clear") /\ UNCHANGED task
         \/ complete /\ nodes' = nodes \cup {Node(p)} /\ Over(p)
         \/ UNCHANGED nodes /\ Over(p)
    /\ UNCHANGED <<worldVars, stored, slots, body>>

Finish(p) ==
    /\ proc[p].pc = "clear"
    /\ stored' = [stored EXCEPT ![proc[p].path] = Cleared(@)]
    /\ Over(p)
    /\ UNCHANGED <<worldVars, serverVars>>

-----------------------------------------------------------------------------
(* _upload_empty_file: no chunks, no state; one POST, one refresh. *)

EmptyNode(p) == [src |-> proc[p].ident, size |-> 0, key |-> 0, body |-> [c \in Chunks |-> Nothing],
                 mac |-> [c \in Chunks |-> NoSource]]

EmptySlot(p) ==
    /\ proc[p].pc = "emptyslot"
    /\ \/ /\ slots < MaxSlots
          /\ slots' = slots + 1
          /\ Goto(p, "emptypost")
          /\ UNCHANGED task
       \/ Over(p) /\ UNCHANGED slots
    /\ UNCHANGED <<worldVars, stored, body, nodes>>

EmptyPost(p) ==
    /\ proc[p].pc = "emptypost"
    /\ \/ Goto(p, "emptycheck") /\ UNCHANGED task
       \/ /\ ~proc[p].refreshed
          /\ proc' = [proc EXCEPT ![p].pc = "emptyslot", ![p].refreshed = TRUE]
          /\ UNCHANGED task
       \/ Over(p)
    /\ UNCHANGED <<worldVars, stored, serverVars>>

EmptyCheck(p) ==
    /\ proc[p].pc = "emptycheck"
    /\ \/ /\ there /\ version = proc[p].ident /\ SizeNow = 0 /\ ~proc[p].stop
          /\ Goto(p, "emptyregister")
          /\ UNCHANGED task
       \/ /\ ~there \/ version # proc[p].ident \/ SizeNow # 0 \/ proc[p].stop
          /\ Over(p)
    /\ UNCHANGED <<worldVars, stored, serverVars>>

EmptyRegister(p) ==
    /\ proc[p].pc = "emptyregister"
    /\ nodes' \in {nodes, nodes \cup {EmptyNode(p)}}
    /\ Over(p)
    /\ UNCHANGED <<worldVars, stored, slots, body>>

-----------------------------------------------------------------------------
(* The tasks *)

SetTask(p, c, t) == task' = [task EXCEPT ![p][c] = t]

\* The pool starts tasks in order of submission, at most max_workers at a time.
Begin(p, c) ==
    /\ task[p][c].pc = "queued"
    /\ \A b \in Chunks : task[p][b].pc = "queued" => c <= b
    /\ Cardinality({b \in Chunks : task[p][b].pc \in Running}) < Workers
    /\ SetTask(p, c, At("ready"))
    /\ UNCHANGED <<worldVars, stored, serverVars, proc>>

\* An attempt looks at the stop event and reads its part of the file.
Attempt(p, c) ==
    /\ task[p][c].pc = "ready"
    /\ \/ /\ proc[p].stop
          /\ SetTask(p, c, At("returned"))
       \/ /\ ~proc[p].stop /\ there /\ c <= SizeNow
          /\ SetTask(p, c, [task[p][c] EXCEPT !.pc = "post", !.got = version])
       \/ /\ ~proc[p].stop /\ (~there \/ c > SizeNow)
          /\ SetTask(p, c, At("raised"))
    /\ UNCHANGED <<worldVars, stored, serverVars, proc>>

\* Variant (bug): an attempt that is not counted.
RetriedUncounted(t) == [t EXCEPT !.pc = "ready"]

\* The retry policy: what may be retried is retried while attempts are left.
Retried(t) == IF t.tries + 1 < Attempts THEN [t EXCEPT !.pc = "ready", !.tries = @ + 1]
                                        ELSE At("raised")

(* The POST: the slot takes the chunk, whether or not an answer of the      *)
(* right form comes back; or it does not: it has expired, or a failure that *)
(* a retry may mend, or one that it cannot.                                 *)
Post(p, c) ==
    /\ task[p][c].pc = "post"
    /\ \/ /\ body' = [body EXCEPT ![proc[p].live.slot][c] =
                        [key |-> proc[p].live.key, ver |-> task[p][c].got]]
          /\ \/ SetTask(p, c, [task[p][c] EXCEPT !.pc = "mark"])
             \/ SetTask(p, c, Retried(task[p][c]))
             \/ SetTask(p, c, At("raised"))
       \/ /\ \/ SetTask(p, c, At("expired"))
             \/ SetTask(p, c, Retried(task[p][c]))
             \/ SetTask(p, c, At("raised"))
          /\ UNCHANGED body
    /\ UNCHANGED <<worldVars, stored, slots, nodes, proc>>

\* Under _lock: chunk, MAC and (with the final chunk) the first token.
Recorded(st, c, v) ==
    [Marked(st, c) EXCEPT !.mac[c] = v,
                          !.token = IF Final(st, c) /\ @ = 0 THEN st.slot ELSE @]

Mark(p, c) ==
    /\ task[p][c].pc = "mark"
    /\ LET st == Recorded(proc[p].live, c, task[p][c].got)
           saves == Cardinality(st.done) % SaveEvery = 0 \/ Final(st, c)
       IN  /\ proc' = [proc EXCEPT ![p].live = IF saves THEN Snapshot(st) ELSE st]
           /\ SetTask(p, c, IF saves THEN [At("save") EXCEPT !.snap = Snapshot(st)]
                                     ELSE At("returned"))
    /\ UNCHANGED <<worldVars, stored, serverVars>>

TaskSave(p, c) ==
    /\ task[p][c].pc = "save"
    /\ \/ /\ stored' = [stored EXCEPT ![proc[p].path] = Saved(@, task[p][c].snap)]
          /\ SetTask(p, c, At("returned"))
       \/ /\ SaveFaults
          /\ SetTask(p, c, At("raised"))
          /\ UNCHANGED stored
    /\ UNCHANGED <<worldVars, serverVars, proc>>

-----------------------------------------------------------------------------
(* The world around it *)

\* stop(): a lost queue lease, or a caller of the library.
Stop(p) ==
    /\ Live(p) /\ ~proc[p].stop
    /\ proc' = [proc EXCEPT ![p].stop = TRUE]
    /\ UNCHANGED <<worldVars, stored, serverVars, task>>

\* A process is killed: the operating system releases its lease.
Kill(p) == Live(p) /\ Over(p) /\ UNCHANGED <<worldVars, stored, serverVars>>

Edit ==
    /\ version < NumVersions
    /\ version' = version + 1 /\ there' = TRUE
    /\ UNCHANGED <<sessions, stored, serverVars, proc, task>>

Delete ==
    /\ there /\ there' = FALSE
    /\ UNCHANGED <<version, sessions, stored, serverVars, proc, task>>

MainStep(p) ==
    \/ TakeSize(p) \/ Hash(p) \/ LoadState(p) \/ RequestSlot(p) \/ Submit(p) \/ SeeFailure(p)
    \/ SeeReturns(p) \/ Join(p) \/ Refresh(p) \/ FailSave(p) \/ RefreshSave(p) \/ CheckSource(p)
    \/ Register(p) \/ Finish(p) \/ EmptySlot(p) \/ EmptyPost(p) \/ EmptyCheck(p) \/ EmptyRegister(p)

TaskStep(p, c) == Begin(p, c) \/ Attempt(p, c) \/ Post(p, c) \/ Mark(p, c) \/ TaskSave(p, c)

Next == \/ \E p \in Procs : \/ Start(p) \/ MainStep(p) \/ Interrupted(p) \/ Stop(p) \/ Kill(p)
                            \/ \E c \in Chunks : TaskStep(p, c)
        \/ Edit \/ Delete

Spec == Init /\ [][Next]_vars

\* The operating system runs the threads; the server answers, or its answer times out.
Fairness == \A p \in Procs : /\ WF_vars(MainStep(p))
                             /\ \A c \in Chunks : WF_vars(TaskStep(p, c))

FairSpec == Spec /\ Fairness

-----------------------------------------------------------------------------
States == UploadStates \cup Bares
ProcRecord == [pc : MainPCs, lock : -1 .. NumChunks, size : 0 .. NumChunks,
               ident : Sources \cup {NoSource}, path : 0 .. NumChunks, live : States,
               snap : States, refreshed : BOOLEAN, stop : BOOLEAN]
TaskRecord == [pc : TaskPCs, tries : 0 .. (Attempts - 1), got : Sources \cup {NoSource},
               snap : States]

TypeOK ==
    /\ version \in Sources /\ there \in BOOLEAN /\ sessions \in 0 .. MaxSessions
    /\ stored \in [0 .. NumChunks -> States]
    /\ slots \in 0 .. MaxSlots
    /\ body \in [Slots -> [Chunks -> [key : 0 .. MaxSlots, ver : Sources \cup {NoSource}]]]
    /\ proc \in [Procs -> ProcRecord]
    /\ task \in [Procs -> [Chunks -> TaskRecord]]

(* uploader.py 454-457: what is registered is one content of the file, the  *)
(* one it had from the beginning to the end of the upload, under one key,   *)
(* and its MACs are those of that content: never a mix of old and new, nor  *)
(* of what two slots or two sessions hold.                                  *)
NodeOfOneContent ==
    \A n \in nodes : \A c \in ChunksOf(n.size) : /\ n.body[c] = [key |-> n.key, ver |-> n.src]
                                                 /\ n.mac[c] = n.src

(* The resume state vouches only for chunks its own slot holds, with the    *)
(* bytes its MACs were computed on.  (upload_transport.py 205-209)          *)
StateVouchesForSlot ==
    \A n \in 0 .. NumChunks : stored[n].kind = "state" =>
        \A c \in stored[n].done :
            body[stored[n].slot][c] = [key |-> stored[n].key, ver |-> stored[n].mac[c]]

(* No resume state is a dead end: the token comes only with the final       *)
(* chunk, so a state with that chunk and no token could never be finished,  *)
(* and one with a token of another slot would finish that one.              *)
TokenWithFinalChunk ==
    \A n \in 0 .. NumChunks : stored[n].kind = "state" =>
        stored[n].token = IF stored[n].size \in stored[n].done THEN stored[n].slot ELSE 0

(* _upload_lease (uploader.py 205-217): the upload is owned for the whole   *)
(* transfer.  No two processes work on one resume state and one slot.       *)
Uploading(p) == proc[p].live # NoFile
OneUploadPerState ==
    \A p, q \in Procs : Uploading(p) /\ Uploading(q) /\ proc[p].path = proc[q].path => p = q

(* uploader.py 454-457: a node that was registered holds the whole file.    *)
NodeIsWhole == \A n \in nodes : n.size = Size[n.src]

\* Every upload ends: retries and refreshes are bounded, and nothing is waited for in vain.
UploadEnds == \A p \in Procs : Live(p) ~> ~Live(p)
=============================================================================
