--------------------------- MODULE DownloadProofs ---------------------------
(***************************************************************************)
(* Proofs about Download for any sources, chunks, workers, attempts and    *)
(* settings, with faults of the disk and of the server: the state file     *)
(* vouches only for bytes that are on the disk, a download reported as     *)
(* complete is complete, what is committed only grows, and a URL is        *)
(* resolved once per generation.                                           *)
(***************************************************************************)
EXTENDS Download, TLAPS

-----------------------------------------------------------------------------
(* The inductive invariant. *)

Bytes(s) == {s} \cup (IF Garbling THEN {Garbled} ELSE {})

\* A copy of the destination holds these chunks of a source.
Holds(img, s, done) == \A c \in done : img.size = Size[s] /\ img.body[c] \in Bytes(s)

IsState(f) == f.kind = "state"

AtRest == {"off", "prepare"}
Quiet == {"flush", "save", "cover", "verify", "clear"}

Control ==
    /\ pc \in AtRest => \A c \in Chunks : task[c] = NoTask
    /\ pc \in Quiet => \A c \in Chunks : task[c].pc \in {"none", "returned"}
    /\ pc \notin AtRest => image.size = Size[source]
    /\ image.size = -1 => synced = image
    /\ Live => source \in Sources /\ outcome # "done"
    /\ pc = "off" => live = NoFile /\ snap = NoFile

FileVouches ==
    IsState(file) /\ (Live \/ image.size # -1) =>
        Holds(image, file.src, file.done) /\ Holds(synced, file.src, file.done)

LiveVouches ==
    Live => /\ IsState(live) /\ live.src = source /\ Holds(image, source, live.done)
            /\ file.kind \in {"none", "state"} /\ (IsState(file) => file.src = source)

SnapVouches ==
    /\ IsState(snap) => snap.src = source /\ Holds(image, source, snap.done)
    /\ pc \in {"failflush", "failsave"} \cup Quiet => IsState(snap)
    /\ pc \in {"failsave", "save", "cover"} => Holds(synced, source, snap.done)

TaskVouches(t, c) ==
    /\ IsState(t.snap) => t.snap.src = source /\ Holds(image, source, t.snap.done)
    /\ t.pc \in {"flush", "save"} => IsState(t.snap)
    /\ t.pc = "save" => Holds(synced, source, t.snap.done)
    /\ t.pc = "write" => t.got \in Bytes(source)
    /\ t.pc = "mark" => image.body[c] \in Bytes(source)

TasksVouch == \A c \in Chunks : TaskVouches(task[c], c)

Covered ==
    /\ pc \in {"save", "cover", "verify", "clear"} => synced = image
    /\ pc \in {"verify", "clear"} => ChunksOf(source) \subseteq snap.done
    /\ pc = "clear" => ~mode.verify \/ Intact

\* The snapshots in use, and what is committed: a later revision has every chunk of an earlier.
Behind(f, g) == IsState(f) /\ IsState(g) /\ f.rev <= g.rev => f.done \subseteq g.done

BehindLive(f) == IsState(f) => f.rev <= live.rev /\ f.done \subseteq live.done

Revisions == {file, snap} \cup {task[c].snap : c \in Chunks}

RevisionsAgree ==
    Live => /\ \A f \in Revisions : BehindLive(f)
            /\ \A f, g \in Revisions : Behind(f, g)

Safe == /\ Control /\ FileVouches /\ LiveVouches /\ SnapVouches /\ TasksVouch /\ Covered
        /\ RevisionsAgree /\ CompleteIsComplete /\ ResolvedOncePerGeneration

IInv == TypeOK /\ Safe

-----------------------------------------------------------------------------
(* Types. *)

TaskRecord == [pc : TaskPCs, seen : Nat, tries : 0 .. (Attempts - 1),
               got : Contents, snap : StateFile]

LEMMA StateFiles ==
    /\ NoFile \in StateFile
    /\ \A f \in StateFile : AfterLoad(f) \in StateFile /\ Cleared(f) \in StateFile
    /\ \A f, g \in StateFile : Saved(f, g) \in StateFile
    /\ \A s \in Sources : FreshState(s) \in StateFile
    /\ \A f \in StateFile : Snapshot(f) \in StateFile
    /\ \A f \in StateFile, c \in Chunks : Marked(f, c) \in StateFile
BY DEF NoFile, Bare, StateFile, AfterLoad, Cleared, Saved, FreshState, Snapshot, Marked

LEMMA NoTaskType == NoTask \in TaskRecord
BY StateFiles, DownloadAssumption DEF NoTask, TaskRecord, TaskPCs, Running, Contents

LEMMA RestTypes == [c \in Chunks |-> NoTask] \in [Chunks -> TaskRecord]
BY NoTaskType

LEMMA TaskUpdates ==
    ASSUME NEW t \in TaskRecord, NEW p \in TaskPCs
    PROVE  /\ [t EXCEPT !.pc = p] \in TaskRecord
           /\ \A n \in Nat : [t EXCEPT !.pc = p, !.seen = n] \in TaskRecord
           /\ t.tries + 1 < Attempts => [t EXCEPT !.pc = p, !.tries = t.tries + 1] \in TaskRecord
           /\ \A b \in Contents : [t EXCEPT !.pc = p, !.got = b] \in TaskRecord
           /\ \A f \in StateFile : [t EXCEPT !.pc = p, !.snap = f] \in TaskRecord
<1>1. ASSUME t.tries + 1 < Attempts PROVE t.tries + 1 \in 0 .. (Attempts - 1)
  BY <1>1, DownloadAssumption DEF TaskRecord
<1> QED BY <1>1 DEF TaskRecord

LEMMA ImageTypes ==
    /\ Absent \in Images
    /\ \A s \in Sources : Size[s] \in 1 .. NumChunks /\ Preallocated(Size[s]) \in Images
    /\ \A c \in Chunks, b \in Contents, i \in Images : [i EXCEPT !.body[c] = b] \in Images
<1>1. \A s \in Sources : Size[s] \in 1 .. NumChunks BY DownloadAssumption
<1>2. ASSUME NEW n \in 1 .. NumChunks PROVE n \in -1 .. NumChunks BY StateAssumption
<1>3. -1 \in -1 .. NumChunks BY StateAssumption
<1>4. [c \in Chunks |-> Zero] \in [Chunks -> Contents] BY DEF Contents
<1>5. ASSUME NEW c \in Chunks, NEW b \in Contents, NEW i \in Images
      PROVE  [i EXCEPT !.body[c] = b] \in Images
  BY DEF Images
<1> QED BY <1>1, <1>2, <1>3, <1>4, <1>5 DEF Absent, Preallocated, Images

LEMMA InitType == Init => TypeOK
<1> SUFFICES ASSUME Init PROVE TypeOK OBVIOUS
<1>1. file \in StateFile BY DEF Init, NoFile, Bare, StateFile
<1>2. Preallocated(NumChunks) \in Images
  <2>1. NumChunks \in -1 .. NumChunks BY StateAssumption
  <2> QED BY <2>1 DEF Preallocated, Images, Contents
<1>3. image \in Images /\ synced \in Images BY <1>2, ImageTypes DEF Init
<1>4. mode \in Modes BY DownloadAssumption DEF Init
<1>5. task \in [Chunks -> TaskRecord] BY RestTypes DEF Init
<1>6. sessions \in 0 .. MaxSessions /\ refresher \in 0 .. NumChunks
  BY DownloadAssumption, StateAssumption DEF Init
<1> QED BY <1>1, <1>3, <1>4, <1>5, <1>6, StateFiles DEF Init, TypeOK, TaskRecord

Outcomes == {"none", "done", "failed", "cancelled", "interrupted"}

LEMMA OverType ==
    ASSUME TypeOK, NEW how \in Outcomes, Over(how), image' \in Images, synced' \in Images,
           file' \in StateFile, UNCHANGED <<sessions, source, mode>>
    PROVE  TypeOK'
<1>1. task' \in [Chunks -> TaskRecord] BY RestTypes DEF Over
<1>2. refresher' \in 0 .. NumChunks BY StateAssumption DEF Over
<1> QED BY <1>1, <1>2, StateFiles DEF Over, TypeOK, TaskRecord, Outcomes

LEMMA TaskFrameType ==
    ASSUME TypeOK, UNCHANGED taskFrame, image' \in Images, synced' \in Images,
           file' \in StateFile, live' \in StateFile, snap' = snap,
           gen' \in Nat, refresher' \in 0 .. NumChunks, task' \in [Chunks -> TaskRecord]
    PROVE  TypeOK'
BY DEF TypeOK, taskFrame, TaskRecord

LEMMA RetriedType ==
    ASSUME TypeOK, NEW c \in Chunks PROVE Retried(c) \in [Chunks -> TaskRecord]
<1>1. task \in [Chunks -> TaskRecord] /\ task[c] \in TaskRecord BY DEF TypeOK, TaskRecord
<1>2. "ready" \in TaskPCs /\ "raised" \in TaskPCs BY DEF TaskPCs, Running
<1>3. task[c].tries + 1 < Attempts => [task[c] EXCEPT !.pc = "ready", !.tries = @ + 1] \in TaskRecord
  BY <1>1, <1>2, TaskUpdates
<1>4. [task[c] EXCEPT !.pc = "raised"] \in TaskRecord BY <1>1, <1>2, TaskUpdates
<1> QED BY <1>1, <1>3, <1>4 DEF Retried

LEMMA TaskStepType ==
    ASSUME TypeOK, NEW c \in Chunks, TaskStep(c), Live => source \in Sources,
           task[c].pc # "none" => Live
    PROVE  TypeOK'
<1> DEFINE After(p) == [task EXCEPT ![c].pc = p]
<1>1. task \in [Chunks -> TaskRecord] /\ task[c] \in TaskRecord BY DEF TypeOK, TaskRecord
<1>2. \A p \in TaskPCs : [task[c] EXCEPT !.pc = p] \in TaskRecord BY <1>1, TaskUpdates
<1>3. \A p \in TaskPCs : After(p) \in [Chunks -> TaskRecord] BY <1>1, <1>2
<1>4. Retried(c) \in [Chunks -> TaskRecord] BY RetriedType
<1>5. \A p \in Running \cup {"returned", "raised"} : p \in TaskPCs BY DEF TaskPCs
<1>6. /\ image \in Images /\ synced \in Images /\ file \in StateFile /\ live \in StateFile
      /\ gen \in Nat /\ refresher \in 0 .. NumChunks
  BY DEF TypeOK
<1>7. CASE Begin(c) BY <1>3, <1>5, <1>6, <1>7, TaskFrameType DEF Begin, diskVars, urlVars, Running
<1>8. CASE Attempt(c)
  <2>1. [task EXCEPT ![c].pc = "fetch", ![c].seen = gen] \in [Chunks -> TaskRecord]
    <3>1. [task[c] EXCEPT !.pc = "fetch", !.seen = gen] \in TaskRecord
      BY <1>1, <1>5, <1>6, TaskUpdates DEF Running
    <3> QED BY <1>1, <3>1
  <2> QED BY <1>3, <1>5, <1>6, <1>8, <2>1, TaskFrameType DEF Attempt, diskVars, urlVars
<1>9. CASE Fetch(c)
  <2>1. task[c].pc # "none" BY <1>9 DEF Fetch
  <2>2. \A b \in Contents : [task EXCEPT ![c].pc = "write", ![c].got = b] \in [Chunks -> TaskRecord]
    <3>1. \A b \in Contents : [task[c] EXCEPT !.pc = "write", !.got = b] \in TaskRecord
      BY <1>1, <1>5, TaskUpdates DEF Running
    <3> QED BY <1>1, <3>1
  <2>4. \A p \in {"returned", "expired", "raised"} : After(p) \in [Chunks -> TaskRecord]
    BY <1>3, <1>5 DEF Running
  <2>5. source \in Sources BY <2>1
  <2>6. \A b \in Bytes(source) : [task EXCEPT ![c].pc = "write", ![c].got = b] \in [Chunks -> TaskRecord]
    BY <2>2, <2>5 DEF Contents, Bytes
  <2>7. task' \in [Chunks -> TaskRecord]
    <3>1. CASE \E b \in Bytes(source) : task' = [task EXCEPT ![c].pc = "write", ![c].got = b]
      BY <2>6, <3>1
    <3>2. CASE task' = Retried(c) BY <1>4, <3>2
    <3>3. CASE \E p \in {"returned", "expired", "raised"} : task' = After(p) BY <2>4, <3>3
    <3> QED BY <1>9, <3>1, <3>2, <3>3 DEF Fetch, Bytes
  <2> QED BY <1>6, <1>9, <2>7, TaskFrameType DEF Fetch, diskVars, urlVars
<1>10. CASE LookAtUrl(c)
  BY <1>3, <1>4, <1>5, <1>6, <1>10, TaskFrameType DEF LookAtUrl, diskVars, urlVars, Running
<1>11. CASE LockRefresh(c)
  <2>1. c \in 0 .. NumChunks BY StateAssumption DEF Chunks
  <2>2. refresher' \in 0 .. NumChunks /\ task' \in [Chunks -> TaskRecord]
    BY <1>3, <1>4, <1>5, <1>6, <1>11, <2>1 DEF LockRefresh, Running
  <2> QED BY <1>6, <1>11, <2>2, TaskFrameType DEF LockRefresh, diskVars
<1>12. CASE Resolve(c)
  <2>1. 0 \in 0 .. NumChunks /\ gen + 1 \in Nat BY <1>6, StateAssumption
  <2>2. refresher' \in 0 .. NumChunks /\ gen' \in Nat /\ task' \in [Chunks -> TaskRecord]
    BY <1>3, <1>4, <1>5, <1>6, <1>12, <2>1 DEF Resolve
  <2> QED BY <1>6, <1>12, <2>2, TaskFrameType DEF Resolve, diskVars
<1>13. CASE Write(c)
  <2>1. task[c].got \in Contents BY <1>1 DEF TaskRecord
  <2>2. image' \in Images BY <1>6, <1>13, <2>1, ImageTypes DEF Write
  <2>3. task' \in [Chunks -> TaskRecord] BY <1>3, <1>5, <1>13 DEF Write, Running
  <2> QED BY <1>6, <1>13, <2>2, <2>3, TaskFrameType DEF Write, urlVars
<1>14. CASE Mark(c)
  <2> DEFINE l == Marked(live, c)
  <2>1. l \in StateFile /\ Snapshot(l) \in StateFile BY <1>6, StateFiles
  <2>2. [task[c] EXCEPT !.pc = "flush", !.snap = Snapshot(l)] \in TaskRecord
    BY <1>1, <1>5, <2>1, TaskUpdates DEF Running
  <2>3. [task EXCEPT ![c].pc = "flush", ![c].snap = Snapshot(l)] \in [Chunks -> TaskRecord]
    BY <1>1, <2>2
  <2>4. After("returned") \in [Chunks -> TaskRecord] BY <1>3, <1>5
  <2>5. task' \in [Chunks -> TaskRecord] /\ live' \in StateFile
    BY <1>14, <2>1, <2>3, <2>4 DEF Mark
  <2> QED BY <1>6, <1>14, <2>5, TaskFrameType DEF Mark, diskVars, urlVars
<1>15. \A p \in TaskPCs : [task EXCEPT ![c].pc = p, ![c].snap = NoFile] \in [Chunks -> TaskRecord]
  <2>1. \A p \in TaskPCs : [task[c] EXCEPT !.pc = p, !.snap = NoFile] \in TaskRecord
    BY <1>1, StateFiles, TaskUpdates
  <2> QED BY <1>1, <2>1
<1>16. CASE TaskFlush(c)
  <2>1. After("save") \in [Chunks -> TaskRecord] BY <1>3, <1>5 DEF Running
  <2>2. [task EXCEPT ![c].pc = "raised", ![c].snap = NoFile] \in [Chunks -> TaskRecord]
    BY <1>5, <1>15
  <2>3. task' \in [Chunks -> TaskRecord] /\ synced' \in Images
    BY <1>6, <1>16, <2>1, <2>2 DEF TaskFlush
  <2> QED BY <1>6, <1>16, <2>3, TaskFrameType DEF TaskFlush, urlVars
<1>17. CASE TaskSave(c)
  <2>1. task[c].snap \in StateFile BY <1>1 DEF TaskRecord
  <2>2. \A p \in {"returned", "raised"} :
          [task EXCEPT ![c].pc = p, ![c].snap = NoFile] \in [Chunks -> TaskRecord]
    BY <1>5, <1>15
  <2>3. Saved(file, task[c].snap) \in StateFile BY <1>6, <2>1, StateFiles
  <2>4. task' \in [Chunks -> TaskRecord] /\ file' \in StateFile
    BY <1>6, <1>17, <2>2, <2>3 DEF TaskSave
  <2> QED BY <1>6, <1>17, <2>4, TaskFrameType DEF TaskSave, urlVars
<1> QED BY <1>7, <1>8, <1>9, <1>10, <1>11, <1>12, <1>13, <1>14, <1>16, <1>17 DEF TaskStep

LEMMA MainStepType ==
    ASSUME TypeOK, MainStep \/ Interrupted, Live => source \in Sources
    PROVE  TypeOK'
<1>1. /\ image \in Images /\ synced \in Images /\ file \in StateFile /\ live \in StateFile
      /\ snap \in StateFile
  BY DEF TypeOK
<1>2. /\ Cleared(file) \in StateFile /\ Saved(file, snap) \in StateFile
      /\ Snapshot(live) \in StateFile
  BY <1>1, StateFiles
<1>3. /\ "failed" \in Outcomes /\ "cancelled" \in Outcomes /\ "done" \in Outcomes
      /\ outcome \in Outcomes
  BY DEF Outcomes, TypeOK
<1>4. CASE Prepare
  <2>1. source \in Sources BY <1>4 DEF Prepare, Live
  <2>2. Preallocated(Size[source]) \in Images BY <2>1, ImageTypes
  <2>3. CASE image.size # Size[source] /\ Over("failed") /\ UNCHANGED image
    BY <1>1, <1>3, <1>4, <2>3, OverType DEF Prepare
  <2>4. CASE image' \in {image, Preallocated(Size[source])} /\ stop' = FALSE /\ pc' = "submit"
               /\ UNCHANGED <<outcome, live, snap, urlVars, task>>
    BY <1>4, <2>2, <2>4 DEF Prepare, TypeOK, urlVars
  <2> QED BY <1>4, <2>3, <2>4 DEF Prepare
<1>5. CASE Submit
  <2>1. task' \in [Chunks -> TaskRecord]
    <3>1. task \in [Chunks -> TaskRecord] BY DEF TypeOK, TaskRecord
    <3>2. ASSUME NEW c \in Chunks, task' = [task EXCEPT ![c].pc = "queued"]
          PROVE  task' \in [Chunks -> TaskRecord]
      <4>1. "queued" \in TaskPCs BY DEF TaskPCs
      <4>2. [task[c] EXCEPT !.pc = "queued"] \in TaskRecord BY <3>1, <4>1, TaskUpdates
      <4> QED BY <3>1, <3>2, <4>2
    <3>3. source \in Sources BY <1>5 DEF Submit, Live
    <3>4. Unsubmitted \subseteq Chunks
      <4>1. ChunksOf(source) \subseteq Chunks
        BY <3>3, ImageTypes, StateAssumption DEF ChunksOf, Chunks
      <4> QED BY <4>1 DEF Unsubmitted
    <3> QED BY <1>5, <3>1, <3>2, <3>4 DEF Submit
  <2> QED BY <1>5, <2>1 DEF Submit, TypeOK, TaskRecord, diskVars, urlVars
<1>6. CASE SeeFailure BY <1>6 DEF SeeFailure, TypeOK, diskVars, urlVars
<1>7. CASE SeeReturns BY <1>2, <1>7 DEF SeeReturns, TypeOK, diskVars, urlVars
<1>8. CASE Interrupted BY <1>8 DEF Interrupted, TypeOK, diskVars, urlVars
<1>9. CASE HandleFailure BY <1>2, <1>9 DEF HandleFailure, TypeOK, urlVars
<1>10. CASE Flush BY <1>10 DEF Flush, TypeOK, urlVars
<1>11. CASE Save BY <1>2, <1>11 DEF Save, TypeOK, urlVars
<1>12. CASE SaveFails
  <2>1. CASE Over("failed") BY <1>1, <1>3, <1>12, <2>1, OverType DEF SaveFails, diskVars
  <2>2. CASE pc' = "join" /\ UNCHANGED <<live, snap, outcome, stop, urlVars, task>>
    BY <1>12, <2>2 DEF SaveFails, TypeOK, diskVars, urlVars
  <2> QED BY <1>12, <2>1, <2>2 DEF SaveFails
<1>13. CASE Join BY <1>1, <1>3, <1>13, OverType DEF Join, diskVars
<1>14. CASE Cover
  <2>1. CASE pc' = "verify" /\ UNCHANGED <<file, live, snap, outcome, stop, urlVars, task>>
    BY <1>14, <2>1 DEF Cover, TypeOK, urlVars
  <2>2. CASE /\ file' \in {Saved(file, snap), Cleared(file)}
             /\ Over("cancelled") \/ Over("failed")
    BY <1>1, <1>2, <1>3, <1>14, <2>2, OverType DEF Cover
  <2> QED BY <1>14, <2>1, <2>2 DEF Cover
<1>15. CASE Verify
  <2>1. CASE pc' = "clear" /\ UNCHANGED <<file, live, snap, outcome, stop, urlVars, task>>
    BY <1>15, <2>1 DEF Verify, TypeOK, urlVars
  <2>2. CASE file' \in {file, Cleared(file)} /\ Over("failed")
    BY <1>1, <1>2, <1>3, <1>15, <2>2, OverType DEF Verify
  <2> QED BY <1>15, <2>1, <2>2 DEF Verify
<1>16. CASE Finish BY <1>1, <1>2, <1>3, <1>16, OverType DEF Finish
<1> QED BY <1>4, <1>5, <1>6, <1>7, <1>8, <1>9, <1>10, <1>11, <1>12, <1>13, <1>14, <1>15, <1>16
        DEF MainStep

LEMMA WorldType ==
    ASSUME TypeOK, \/ \E s \in Sources, m \in Modes : Start(s, m)
                   \/ Stop \/ Kill \/ PowerFails \/ Delete
    PROVE  TypeOK'
<1>1. image \in Images /\ synced \in Images /\ file \in StateFile BY DEF TypeOK
<1>2. "none" \in Outcomes BY DEF Outcomes
<1>3. CASE \E s \in Sources, m \in Modes : Start(s, m)
  <2>1. PICK s \in Sources, m \in Modes : Start(s, m) BY <1>3
  <2>2. AfterLoad(file) \in StateFile BY <1>1, StateFiles
  <2>3. /\ Cleared(file) \in StateFile /\ Cleared(AfterLoad(file)) \in StateFile
        /\ FreshState(s) \in StateFile
    BY <1>1, <2>2, StateFiles
  <2>4. sessions' \in 0 .. MaxSessions
    BY <2>1, DownloadAssumption DEF Start, TypeOK
  <2>5. file' \in StateFile /\ live' \in StateFile
    BY <1>1, <2>1, <2>2, <2>3 DEF Start, TypeOK
  <2>6. /\ pc' \in {pc, "prepare"} /\ source' \in {source, s} /\ mode' \in {mode, m}
        /\ outcome' \in {outcome, "none", "failed"}
    BY <2>1 DEF Start
  <2>7. UNCHANGED <<image, synced, snap, stop, urlVars, task>> BY <2>1 DEF Start
  <2> QED BY <2>4, <2>5, <2>6, <2>7 DEF TypeOK, urlVars
<1>4. CASE Stop BY <1>4 DEF Stop, TypeOK, diskVars, urlVars
<1>5. CASE Kill BY <1>1, <1>2, <1>5, OverType DEF Kill, diskVars
<1>6. CASE PowerFails
  <2>1. PICK n \in {image.size, synced.size}, b \in [Chunks -> Contents] :
          image' = [size |-> n, body |-> b]
    BY <1>6 DEF PowerFails
  <2>2. image' \in Images BY <1>1, <2>1 DEF Images
  <2> QED BY <1>1, <1>2, <1>6, <2>2, OverType DEF PowerFails
<1>7. CASE Delete BY <1>7, ImageTypes DEF Delete, TypeOK, urlVars
<1> QED BY <1>3, <1>4, <1>5, <1>6, <1>7

-----------------------------------------------------------------------------
(* Facts about the parts of the invariant. *)

LEMMA InitSafe == Init => Safe
<1> SUFFICES ASSUME Init PROVE Safe OBVIOUS
<1>1. ~Live /\ ~IsState(file) /\ ~IsState(snap) /\ ~IsState(NoFile)
  BY DEF Init, Live, IsState, NoFile, Bare
<1>2. \A c \in Chunks : task[c] = NoTask BY DEF Init
<1>3. Control BY <1>1, <1>2 DEF Init, Control, AtRest, Quiet
<1>4. FileVouches /\ LiveVouches /\ RevisionsAgree
  BY <1>1 DEF FileVouches, LiveVouches, RevisionsAgree
<1>5. SnapVouches /\ Covered BY <1>1 DEF Init, SnapVouches, Covered, Quiet
<1>6. TasksVouch BY <1>1, <1>2 DEF TasksVouch, TaskVouches, NoTask
<1>7. CompleteIsComplete BY DEF Init, CompleteIsComplete
<1>8. ResolvedOncePerGeneration BY <1>2 DEF ResolvedOncePerGeneration, NoTask
<1> QED BY <1>3, <1>4, <1>5, <1>6, <1>7, <1>8 DEF Safe

\* A task that works holds the main thread between submission and the last look.
LEMMA Working ==
    ASSUME IInv, NEW c \in Chunks, task[c].pc \notin {"none", "returned"}
    PROVE  /\ pc \notin AtRest /\ pc \notin Quiet /\ Live /\ source \in Sources
           /\ outcome # "done" /\ image.size = Size[source] /\ image.size # -1
<1>1. pc \notin AtRest BY DEF IInv, Safe, Control, NoTask
<1>2. pc \notin Quiet BY DEF IInv, Safe, Control
<1>3. Live BY <1>1 DEF Live, AtRest
<1>4. source \in Sources /\ outcome # "done" /\ image.size = Size[source]
  BY <1>1, <1>3 DEF IInv, Safe, Control
<1>5. Size[source] # -1 BY <1>4, ImageTypes, StateAssumption
<1> QED BY <1>1, <1>2, <1>3, <1>4, <1>5

LEMMA RevisionsGrow ==
    ASSUME Live, RevisionsAgree, live.rev \in Nat, live'.rev \in Nat,
           \A f \in Revisions : f.rev \in Nat,
           live.rev <= live'.rev, live.done \subseteq live'.done,
           \/ Revisions' \subseteq Revisions \cup {NoFile}
           \/ live.rev < live'.rev /\ Revisions' \subseteq Revisions \cup {NoFile, live'}
    PROVE  RevisionsAgree'
<1>1. ~IsState(NoFile) BY DEF IsState, NoFile, Bare
<1>2. ASSUME NEW f \in Revisions, IsState(f) PROVE f.rev <= live'.rev /\ f.done \subseteq live'.done
  BY <1>2 DEF RevisionsAgree, BehindLive
<1>3. \A f \in Revisions' : (IsState(f) => f.rev <= live'.rev /\ f.done \subseteq live'.done)
  BY <1>1, <1>2
<1>4. ASSUME NEW f \in Revisions', NEW g \in Revisions' PROVE Behind(f, g)
  <2>1. CASE f = NoFile \/ g = NoFile BY <1>1, <2>1 DEF Behind
  <2>2. CASE f \in Revisions /\ g \in Revisions BY <2>2 DEF RevisionsAgree
  <2>3. CASE g = live' BY <1>3, <2>3 DEF Behind
  <2>4. CASE f = live' /\ g \in Revisions /\ live.rev < live'.rev
    BY <2>4 DEF Behind, RevisionsAgree, BehindLive
  <2> QED BY <2>1, <2>2, <2>3, <2>4
<1> QED BY <1>3, <1>4 DEF RevisionsAgree, BehindLive, Behind, IsState

LEMMA RevisionTypes ==
    ASSUME TypeOK
    PROVE  live.rev \in Nat /\ \A f \in Revisions : f \in StateFile /\ f.rev \in Nat
<1>1. \A c \in Chunks : task[c].snap \in StateFile BY DEF TypeOK
<1> QED BY <1>1 DEF TypeOK, Revisions, StateFile

LEMMA SnapshotFacts ==
    ASSUME NEW f \in StateFile
    PROVE  /\ Snapshot(f).rev = f.rev + 1 /\ Snapshot(f).done = f.done
           /\ Snapshot(f).src = f.src /\ Snapshot(f).kind = f.kind
BY DEF Snapshot, StateFile

\* A destination that holds chunks still does when one is written with bytes of that source.
LEMMA HoldsWritten ==
    ASSUME NEW img \in Images, NEW s, NEW done, Holds(img, s, done), NEW c \in Chunks,
           NEW b \in Bytes(s), done \subseteq Chunks
    PROVE  Holds([img EXCEPT !.body[c] = b], s, done)
<1> DEFINE new == [img EXCEPT !.body[c] = b]
<1>1. new.size = img.size BY DEF Images
<1>2. \A d \in Chunks : new.body[d] = IF d = c THEN b ELSE img.body[d] BY DEF Images
<1> QED BY <1>1, <1>2 DEF Holds

-----------------------------------------------------------------------------
(* The steps of the tasks. *)

\* What one task's own step leaves to show, when only its record changes.
LEMMA OneTask ==
    ASSUME IInv, NEW c \in Chunks, NEW t, task' = [task EXCEPT ![c] = t],
           task[c].pc \notin {"none", "returned"}, t.snap \in {task[c].snap, NoFile},
           UNCHANGED <<diskVars, taskFrame, live, snap>>, TaskVouches(t, c),
           ResolvedOncePerGeneration'
    PROVE  Safe'
<1> USE DEF diskVars, taskFrame
<1>1. /\ pc \notin AtRest /\ pc \notin Quiet /\ Live /\ source \in Sources /\ outcome # "done"
      /\ image.size = Size[source]
  BY Working
<1>2. Control' BY <1>1 DEF IInv, Safe, Control, Live
<1>3. FileVouches' BY DEF IInv, Safe, FileVouches, Live, IsState, Holds, Bytes
<1>4. LiveVouches' BY DEF IInv, Safe, LiveVouches, Live, IsState, Holds, Bytes
<1>5. SnapVouches' BY DEF IInv, Safe, SnapVouches, IsState, Holds, Bytes
<1>6. TasksVouch'
  <2> SUFFICES ASSUME NEW d \in Chunks PROVE TaskVouches(task[d], d)' BY DEF TasksVouch
  <2>1. task'[d] = IF d = c THEN t ELSE task[d] BY DEF IInv, TypeOK
  <2>2. TaskVouches(task'[d], d) BY <2>1 DEF IInv, Safe, TasksVouch
  <2> QED BY <2>2 DEF TaskVouches, IsState, Holds, Bytes
<1>7. Covered' BY <1>1 DEF Covered, Quiet
<1>8. RevisionsAgree'
  <2>1. \A d \in Chunks : task'[d].snap \in {task[d].snap, NoFile} BY DEF IInv, TypeOK
  <2>2. Revisions' \subseteq Revisions \cup {NoFile} BY <2>1 DEF Revisions
  <2> QED BY <1>1, <2>2, RevisionTypes, RevisionsGrow DEF IInv, Safe
<1>9. CompleteIsComplete' BY <1>1 DEF CompleteIsComplete
<1> QED BY <1>2, <1>3, <1>4, <1>5, <1>6, <1>7, <1>8, <1>9 DEF Safe

\* Neither a lock nor a generation changes: nobody else starts to resolve.
LEMMA StillOnce ==
    ASSUME IInv, NEW c \in Chunks, NEW t, task' = [task EXCEPT ![c] = t],
           t.pc = "resolving" => t.seen = gen' /\ refresher' = c,
           \/ UNCHANGED urlVars
           \/ refresher \in {0, c}
    PROVE  ResolvedOncePerGeneration'
<1> SUFFICES ASSUME NEW d \in Chunks, task'[d].pc = "resolving"
             PROVE  task'[d].seen = gen' /\ refresher' = d
  BY DEF ResolvedOncePerGeneration
<1>1. task'[d] = IF d = c THEN t ELSE task[d] BY DEF IInv, TypeOK
<1>2. CASE d = c BY <1>1, <1>2
<1>3. CASE d # c
  <2>1. task[d].seen = gen /\ refresher = d
    BY <1>1, <1>3 DEF IInv, Safe, ResolvedOncePerGeneration
  <2>2. d # 0 BY DEF Chunks
  <2> QED BY <1>1, <1>3, <2>1, <2>2 DEF urlVars
<1> QED BY <1>2, <1>3

\* The record of a task after a step that moves only its program counter.
Moved(c, p) == [task[c] EXCEPT !.pc = p]

LEMMA RetriedMoves ==
    ASSUME IInv, NEW c \in Chunks
    PROVE  \E t : /\ Retried(c) = [task EXCEPT ![c] = t]
                  /\ t.pc \in {"ready", "raised"} /\ t.snap = task[c].snap
<1>1. task[c] \in TaskRecord BY DEF IInv, TypeOK, TaskRecord
<1>2. CASE task[c].tries + 1 < Attempts
  <2> DEFINE t == [task[c] EXCEPT !.pc = "ready", !.tries = @ + 1]
  <2>1. Retried(c) = [task EXCEPT ![c] = t] BY <1>2 DEF Retried
  <2>2. t.pc = "ready" /\ t.snap = task[c].snap BY <1>1 DEF TaskRecord
  <2> QED BY <2>1, <2>2
<1>3. CASE ~(task[c].tries + 1 < Attempts)
  <2> DEFINE t == [task[c] EXCEPT !.pc = "raised"]
  <2>1. Retried(c) = [task EXCEPT ![c] = t] BY <1>3 DEF Retried
  <2>2. t.pc = "raised" /\ t.snap = task[c].snap BY <1>1 DEF TaskRecord
  <2> QED BY <2>1, <2>2
<1> QED BY <1>2, <1>3

\* The steps on the network: they end where no byte is at stake, or with a body in hand.
NetPCs == {"ready", "fetch", "expired", "waitlock", "resolving", "returned", "raised"}

NetMove(c) ==
    \E t : /\ task' = [task EXCEPT ![c] = t] /\ t.snap = task[c].snap
           /\ t.pc \in NetPCs \/ (t.pc = "write" /\ t.got \in Bytes(source))
           /\ t.pc = "resolving" => t.seen = gen' /\ refresher' = c

LEMMA NetMoves ==
    ASSUME IInv, NEW c \in Chunks,
           Begin(c) \/ Attempt(c) \/ Fetch(c) \/ LookAtUrl(c) \/ LockRefresh(c) \/ Resolve(c)
    PROVE  NetMove(c)
<1>1. task[c] \in TaskRecord BY DEF IInv, TypeOK, TaskRecord
<1>2. ASSUME NEW p \in NetPCs \ {"resolving"}, task' = [task EXCEPT ![c].pc = p]
      PROVE  NetMove(c)
  <2>1. task' = [task EXCEPT ![c] = Moved(c, p)] BY <1>2 DEF Moved
  <2>2. Moved(c, p).pc = p /\ Moved(c, p).snap = task[c].snap BY <1>1 DEF Moved, TaskRecord
  <2> QED BY <2>1, <2>2 DEF NetMove
<1>3. ASSUME task' = Retried(c) PROVE NetMove(c)
  BY <1>3, RetriedMoves DEF NetMove, NetPCs
<1>4. CASE Begin(c) BY <1>2, <1>4 DEF Begin, NetPCs
<1>5. CASE Attempt(c)
  <2>1. CASE stop BY <1>2, <1>5, <2>1 DEF Attempt, NetPCs
  <2>2. CASE ~stop
    <3> DEFINE t == [task[c] EXCEPT !.pc = "fetch", !.seen = gen]
    <3>1. task' = [task EXCEPT ![c] = t] BY <1>5, <2>2 DEF Attempt
    <3>2. t.pc = "fetch" /\ t.snap = task[c].snap BY <1>1 DEF TaskRecord
    <3> QED BY <3>1, <3>2 DEF NetMove, NetPCs
  <2> QED BY <2>1, <2>2
<1>6. CASE Fetch(c)
  <2>1. ASSUME NEW b \in Bytes(source), task' = [task EXCEPT ![c].pc = "write", ![c].got = b]
        PROVE  NetMove(c)
    <3> DEFINE t == [task[c] EXCEPT !.pc = "write", !.got = b]
    <3>1. task' = [task EXCEPT ![c] = t] BY <2>1
    <3>2. t.pc = "write" /\ t.got = b /\ t.snap = task[c].snap BY <1>1 DEF TaskRecord
    <3> QED BY <3>1, <3>2 DEF NetMove
  <2>2. CASE \E p \in {"returned", "expired", "raised"} : task' = [task EXCEPT ![c].pc = p]
    BY <1>2, <2>2 DEF NetPCs
  <2> QED BY <1>3, <1>6, <2>1, <2>2 DEF Fetch, Bytes
<1>7. CASE LookAtUrl(c) BY <1>2, <1>3, <1>7 DEF LookAtUrl, NetPCs
<1>8. CASE LockRefresh(c)
  <2>1. CASE task' = Retried(c) BY <1>3, <2>1
  <2>2. CASE /\ gen = task[c].seen /\ refresher' = c
             /\ task' = [task EXCEPT ![c].pc = "resolving"]
    <3>1. task' = [task EXCEPT ![c] = Moved(c, "resolving")] BY <2>2 DEF Moved
    <3>2. /\ Moved(c, "resolving").pc = "resolving" /\ Moved(c, "resolving").seen = task[c].seen
          /\ Moved(c, "resolving").snap = task[c].snap
      BY <1>1 DEF Moved, TaskRecord
    <3>3. gen' = gen BY <1>8 DEF LockRefresh
    <3> QED BY <2>2, <3>1, <3>2, <3>3 DEF NetMove, NetPCs
  <2> QED BY <1>8, <2>1, <2>2 DEF LockRefresh
<1>9. CASE Resolve(c) BY <1>2, <1>3, <1>9 DEF Resolve, NetPCs
<1> QED BY <1>4, <1>5, <1>6, <1>7, <1>8, <1>9

LEMMA NetSafe ==
    ASSUME IInv, NEW c \in Chunks,
           Begin(c) \/ Attempt(c) \/ Fetch(c) \/ LookAtUrl(c) \/ LockRefresh(c) \/ Resolve(c)
    PROVE  Safe'
<1>1. PICK t : /\ task' = [task EXCEPT ![c] = t] /\ t.snap = task[c].snap
               /\ t.pc \in NetPCs \/ (t.pc = "write" /\ t.got \in Bytes(source))
               /\ t.pc = "resolving" => t.seen = gen' /\ refresher' = c
  BY NetMoves DEF NetMove
<1>2. task[c].pc \notin {"none", "returned"}
  BY DEF Begin, Attempt, Fetch, LookAtUrl, LockRefresh, Resolve
<1>3. UNCHANGED <<diskVars, taskFrame, live, snap>>
  BY DEF Begin, Attempt, Fetch, LookAtUrl, LockRefresh, Resolve
<1>4. UNCHANGED urlVars \/ refresher \in {0, c}
  <2>1. Resolve(c) => refresher = c
    BY DEF Resolve, IInv, Safe, ResolvedOncePerGeneration
  <2> QED BY <2>1 DEF Begin, Attempt, Fetch, LookAtUrl, LockRefresh
<1>5. ResolvedOncePerGeneration' BY <1>1, <1>4, StillOnce
<1>6. TaskVouches(t, c)
  <2>1. TaskVouches(task[c], c) BY DEF IInv, Safe, TasksVouch
  <2> QED BY <1>1, <2>1 DEF TaskVouches, NetPCs
<1> QED BY <1>1, <1>2, <1>3, <1>5, <1>6, OneTask

\* Parts of the invariant that a working task reads.
LEMMA WorkFacts ==
    ASSUME IInv, NEW c \in Chunks, task[c].pc \notin {"none", "returned"}
    PROVE  /\ IsState(live) /\ live.src = source /\ Holds(image, source, live.done)
           /\ live \in StateFile /\ live.done \subseteq Chunks
           /\ file \in StateFile /\ image \in Images /\ synced \in Images
           /\ file.kind \in {"none", "state"}
           /\ IsState(file) => /\ file.src = source /\ Holds(image, source, file.done)
                               /\ Holds(synced, source, file.done)
           /\ TaskVouches(task[c], c) /\ task[c] \in TaskRecord
<1>1. Live BY Working
<1>2. LiveVouches /\ FileVouches /\ TasksVouch BY DEF IInv, Safe
<1>3. /\ live \in StateFile /\ file \in StateFile /\ task[c] \in TaskRecord
      /\ image \in Images /\ synced \in Images
  BY DEF IInv, TypeOK, TaskRecord
<1>4. live.done \subseteq Chunks BY <1>3 DEF StateFile
<1> QED BY <1>1, <1>2, <1>3, <1>4 DEF LiveVouches, FileVouches, TasksVouch

\* One task's record changes, and no lock or generation.
LEMMA StillOnceMoved ==
    ASSUME IInv, NEW c \in Chunks, NEW t, task' = [task EXCEPT ![c] = t], t.pc # "resolving",
           UNCHANGED urlVars
    PROVE  ResolvedOncePerGeneration'
BY StillOnce

LEMMA WriteSafe == ASSUME IInv, NEW c \in Chunks, Write(c) PROVE Safe'
<1>0. task[c].pc = "write" /\ UNCHANGED urlVars /\ UNCHANGED <<synced, file, taskFrame, live, snap>>
  BY DEF Write
<1>1. /\ pc \notin AtRest /\ pc \notin Quiet /\ Live /\ source \in Sources /\ outcome # "done"
      /\ image.size = Size[source] /\ image.size # -1
  BY <1>0, Working
<1>2. /\ IsState(live) /\ live.src = source /\ Holds(image, source, live.done)
      /\ live.done \subseteq Chunks /\ file \in StateFile /\ image \in Images
      /\ file.kind \in {"none", "state"}
      /\ IsState(file) => /\ file.src = source /\ Holds(image, source, file.done)
                          /\ Holds(synced, source, file.done)
      /\ TaskVouches(task[c], c) /\ task[c] \in TaskRecord
  BY <1>0, WorkFacts
<1>3. \A p \in TaskPCs : Moved(c, p).pc = p /\ Moved(c, p).snap = task[c].snap
  BY <1>2 DEF Moved, TaskRecord
<1>4. "raised" \in TaskPCs /\ "mark" \in TaskPCs BY DEF TaskPCs, Running
<1>5. CASE UNCHANGED image /\ task' = [task EXCEPT ![c].pc = "raised"]
  <2> DEFINE t == Moved(c, "raised")
  <2>1. task' = [task EXCEPT ![c] = t] /\ t.pc = "raised" /\ t.snap = task[c].snap
    BY <1>3, <1>4, <1>5 DEF Moved
  <2>2. TaskVouches(t, c) BY <1>2, <2>1 DEF TaskVouches
  <2>3. ResolvedOncePerGeneration' BY <1>0, <2>1, StillOnceMoved
  <2> HIDE DEF t
  <2> QED BY <1>0, <1>5, <2>1, <2>2, <2>3, OneTask DEF diskVars
<1>6. CASE /\ image' = [image EXCEPT !.body[c] = task[c].got]
           /\ task' = [task EXCEPT ![c].pc = "mark"]
  <2> DEFINE t == Moved(c, "mark")
  <2>1. task' = [task EXCEPT ![c] = t] /\ t.pc = "mark" /\ t.snap = task[c].snap
    BY <1>3, <1>4, <1>6 DEF Moved
  <2> HIDE DEF t
  <2>2. task[c].got \in Bytes(source) BY <1>0, <1>2 DEF TaskVouches
  <2>3. \A done \in SUBSET Chunks : Holds(image, source, done) => Holds(image', source, done)
    BY <1>2, <1>6, <2>2, HoldsWritten
  <2>4. /\ image'.size = image.size
        /\ \A d \in Chunks : image'.body[d] = IF d = c THEN task[c].got ELSE image.body[d]
    BY <1>2, <1>6 DEF Images
  <2>5. \A d \in Chunks : task'[d] = IF d = c THEN t ELSE task[d] BY <2>1 DEF IInv, TypeOK
  <2>6. file.done \subseteq Chunks /\ snap.done \subseteq Chunks
        /\ \A d \in Chunks : task[d].snap.done \subseteq Chunks
    <3>1. \A d \in Chunks : task[d].snap \in StateFile BY DEF IInv, TypeOK
    <3> QED BY <3>1 DEF IInv, TypeOK, StateFile
  <2>7. Control' BY <1>0, <1>1, <2>4 DEF IInv, Safe, Control, Live, taskFrame
  <2>8. FileVouches'
    BY <1>0, <1>2, <2>3, <2>6 DEF FileVouches, Live, taskFrame, IsState, Holds, Bytes
  <2>9. LiveVouches'
    BY <1>0, <1>2, <2>3 DEF LiveVouches, Live, taskFrame, IsState, Holds, Bytes
  <2>10. SnapVouches'
    BY <1>0, <2>3, <2>6 DEF IInv, Safe, SnapVouches, taskFrame, IsState, Holds, Bytes
  <2>11. TasksVouch'
    <3> SUFFICES ASSUME NEW d \in Chunks PROVE TaskVouches(task[d], d)' BY DEF TasksVouch
    <3>1. TaskVouches(task[d], d) BY DEF IInv, Safe, TasksVouch
    <3>2. source' = source /\ synced' = synced BY <1>0 DEF taskFrame
    <3>3. IsState(task'[d].snap) => /\ task'[d].snap.src = source
                                    /\ Holds(image', source, task'[d].snap.done)
      BY <2>1, <2>3, <2>5, <2>6, <3>1 DEF TaskVouches
    <3>4. task'[d].pc = "mark" => image'.body[d] \in Bytes(source)
      BY <2>2, <2>4, <2>5, <3>1 DEF TaskVouches
    <3>5. /\ task'[d].pc \in {"flush", "save"} => IsState(task'[d].snap)
          /\ task'[d].pc = "save" => Holds(synced, source, task'[d].snap.done)
          /\ task'[d].pc = "write" => task'[d].got \in Bytes(source)
      BY <2>1, <2>5, <3>1 DEF TaskVouches
    <3> QED BY <3>2, <3>3, <3>4, <3>5 DEF TaskVouches, IsState, Holds, Bytes
  <2>12. Covered' BY <1>0, <1>1 DEF Covered, Quiet, taskFrame
  <2>13. RevisionsAgree'
    <3>1. \A d \in Chunks : task'[d].snap = task[d].snap BY <2>1, <2>5
    <3>2. Revisions' \subseteq Revisions \cup {NoFile} BY <1>0, <3>1 DEF Revisions
    <3> QED BY <1>0, <1>1, <3>2, RevisionTypes, RevisionsGrow DEF IInv, Safe
  <2>14. CompleteIsComplete' BY <1>0, <1>1 DEF CompleteIsComplete, taskFrame
  <2>15. ResolvedOncePerGeneration' BY <1>0, <2>1, StillOnceMoved
  <2> QED BY <2>7, <2>8, <2>9, <2>10, <2>11, <2>12, <2>13, <2>14, <2>15 DEF Safe
<1> QED BY <1>5, <1>6 DEF Write

LEMMA MarkSafe == ASSUME IInv, NEW c \in Chunks, Mark(c) PROVE Safe'
<1> DEFINE l == Marked(live, c)
           n == Snapshot(l)
<1>0. /\ task[c].pc = "mark" /\ UNCHANGED urlVars /\ UNCHANGED <<diskVars, taskFrame, snap>>
  BY DEF Mark
<1>1. /\ pc \notin AtRest /\ pc \notin Quiet /\ Live /\ source \in Sources /\ outcome # "done"
      /\ image.size = Size[source] /\ image.size # -1
  BY <1>0, Working
<1>2. /\ IsState(live) /\ live.src = source /\ Holds(image, source, live.done)
      /\ live \in StateFile /\ file.kind \in {"none", "state"}
      /\ IsState(file) => file.src = source
      /\ TaskVouches(task[c], c) /\ task[c] \in TaskRecord
  BY <1>0, WorkFacts
<1>3. /\ l \in StateFile /\ l.rev = live.rev /\ l.done = live.done \cup {c}
      /\ l.src = source /\ IsState(l)
  BY <1>2, StateFiles DEF Marked, StateFile, IsState
<1>4. /\ n.rev = live.rev + 1 /\ n.done = live.done \cup {c} /\ n.src = source /\ IsState(n)
  BY <1>3, SnapshotFacts DEF IsState
<1>5. live.rev \in Nat BY <1>2 DEF StateFile
<1>6. Holds(image, source, live.done \cup {c})
  BY <1>0, <1>1, <1>2 DEF Holds, TaskVouches
<1>7. \/ live' = l /\ task' = [task EXCEPT ![c] = Moved(c, "returned")]
      \/ /\ live' = n
         /\ task' = [task EXCEPT ![c] = [task[c] EXCEPT !.pc = "flush", !.snap = n]]
  BY DEF Mark, Moved
<1> HIDE DEF l, n
<1>8. PICK t : /\ task' = [task EXCEPT ![c] = t]
               /\ \/ live' = l /\ t.pc = "returned" /\ t.snap = task[c].snap
                  \/ live' = n /\ t.pc = "flush" /\ t.snap = n
  <2>1. /\ Moved(c, "returned").pc = "returned"
        /\ Moved(c, "returned").snap = task[c].snap
    BY <1>2 DEF Moved, TaskRecord
  <2>2. /\ [task[c] EXCEPT !.pc = "flush", !.snap = n].pc = "flush"
        /\ [task[c] EXCEPT !.pc = "flush", !.snap = n].snap = n
    BY <1>2 DEF TaskRecord
  <2> QED BY <1>7, <2>1, <2>2
<1>9. \A d \in Chunks : task'[d] = IF d = c THEN t ELSE task[d] BY <1>8 DEF IInv, TypeOK
<1>10. /\ IsState(live') /\ live'.src = source /\ live'.done = live.done \cup {c}
       /\ live.rev <= live'.rev /\ live'.rev \in Nat
  BY <1>3, <1>4, <1>5, <1>8
<1>11. Control' BY <1>0, <1>1 DEF IInv, Safe, Control, Live, diskVars, taskFrame
<1>12. FileVouches'
  BY <1>0, <1>1 DEF IInv, Safe, FileVouches, Live, IsState, Holds, Bytes, diskVars, taskFrame
<1>13. LiveVouches'
  BY <1>0, <1>1, <1>2, <1>6, <1>10 DEF LiveVouches, Live, IsState, Holds, Bytes, diskVars, taskFrame
<1>14. SnapVouches'
  BY <1>0 DEF IInv, Safe, SnapVouches, IsState, Holds, Bytes, diskVars, taskFrame
<1>15. TasksVouch'
  <2> SUFFICES ASSUME NEW d \in Chunks PROVE TaskVouches(task[d], d)' BY DEF TasksVouch
  <2>1. TaskVouches(task[d], d) BY DEF IInv, Safe, TasksVouch
  <2>2. TaskVouches(task'[d], d)
    BY <1>4, <1>6, <1>8, <1>9, <2>1 DEF TaskVouches
  <2> QED BY <1>0, <2>2 DEF TaskVouches, IsState, Holds, Bytes, diskVars, taskFrame
<1>16. Covered' BY <1>0, <1>1 DEF Covered, Quiet, taskFrame
<1>17. RevisionsAgree'
  <2>1. /\ \A f \in Revisions : f.rev \in Nat
        /\ RevisionsAgree
    BY RevisionTypes DEF IInv, Safe
  <2>2. file' = file /\ snap' = snap BY <1>0 DEF diskVars
  <2>3. \/ Revisions' \subseteq Revisions \cup {NoFile}
        \/ live.rev < live'.rev /\ Revisions' \subseteq Revisions \cup {NoFile, live'}
    <3>1. CASE live' = l /\ t.snap = task[c].snap
      BY <1>9, <2>2, <3>1 DEF Revisions
    <3>2. CASE live' = n /\ t.snap = n
      <4>1. Revisions' \subseteq Revisions \cup {NoFile, live'}
        BY <1>9, <2>2, <3>2 DEF Revisions
      <4>2. live.rev < live'.rev BY <1>4, <1>5, <3>2
      <4> QED BY <4>1, <4>2
    <3> QED BY <1>8, <3>1, <3>2
  <2> QED BY <1>1, <1>5, <1>10, <2>1, <2>3, RevisionsGrow
<1>18. CompleteIsComplete' BY <1>0, <1>1 DEF CompleteIsComplete, taskFrame
<1>19. ResolvedOncePerGeneration' BY <1>0, <1>8, StillOnceMoved
<1> QED BY <1>11, <1>12, <1>13, <1>14, <1>15, <1>16, <1>17, <1>18, <1>19 DEF Safe

LEMMA TaskFlushSafe == ASSUME IInv, NEW c \in Chunks, TaskFlush(c) PROVE Safe'
<1>0. /\ task[c].pc = "flush" /\ UNCHANGED urlVars
      /\ UNCHANGED <<image, file, taskFrame, live, snap>>
  BY DEF TaskFlush
<1>1. /\ pc \notin AtRest /\ pc \notin Quiet /\ Live /\ source \in Sources /\ outcome # "done"
      /\ image.size = Size[source] /\ image.size # -1
  BY <1>0, Working
<1>2. /\ IsState(file) => file.src = source /\ Holds(image, source, file.done)
      /\ TaskVouches(task[c], c) /\ task[c] \in TaskRecord
  BY <1>0, WorkFacts
<1>3. CASE /\ UNCHANGED synced
           /\ task' = [task EXCEPT ![c].pc = "raised", ![c].snap = NoFile]
  <2> DEFINE t == [task[c] EXCEPT !.pc = "raised", !.snap = NoFile]
  <2>1. task' = [task EXCEPT ![c] = t] /\ t.pc = "raised" /\ t.snap = NoFile
    BY <1>2, <1>3 DEF TaskRecord
  <2> HIDE DEF t
  <2>2. TaskVouches(t, c) BY <2>1 DEF TaskVouches, IsState, NoFile, Bare
  <2>3. ResolvedOncePerGeneration' BY <1>0, <2>1, StillOnceMoved
  <2> QED BY <1>0, <1>3, <2>1, <2>2, <2>3, OneTask DEF diskVars
<1>4. CASE synced' = image /\ task' = [task EXCEPT ![c].pc = "save"]
  <2> DEFINE t == Moved(c, "save")
  <2>1. task' = [task EXCEPT ![c] = t] /\ t.pc = "save" /\ t.snap = task[c].snap
    BY <1>2, <1>4 DEF Moved, TaskRecord
  <2> HIDE DEF t
  <2>2. \A d \in Chunks : task'[d] = IF d = c THEN t ELSE task[d] BY <2>1 DEF IInv, TypeOK
  <2>3. Control' BY <1>0, <1>1 DEF IInv, Safe, Control, Live, taskFrame
  <2>4. FileVouches'
    BY <1>0, <1>2, <1>4 DEF FileVouches, Live, taskFrame, IsState, Holds, Bytes
  <2>5. LiveVouches'
    BY <1>0, <1>1 DEF IInv, Safe, LiveVouches, Live, taskFrame, IsState, Holds, Bytes
  <2>6. SnapVouches'
    <3>1. pc \in {"failsave", "save", "cover"} => Holds(image, source, snap.done)
      BY DEF IInv, Safe, SnapVouches, Quiet
    <3> QED BY <1>0, <1>4, <3>1 DEF IInv, Safe, SnapVouches, taskFrame, IsState, Holds, Bytes
  <2>7. TasksVouch'
    <3> SUFFICES ASSUME NEW d \in Chunks PROVE TaskVouches(task[d], d)' BY DEF TasksVouch
    <3>1. TaskVouches(task[d], d) BY DEF IInv, Safe, TasksVouch
    <3>2. task'[d].snap = task[d].snap /\ (task'[d].pc = task[d].pc \/ task'[d].pc = "save")
          /\ (task'[d].pc = "save" => IsState(task'[d].snap))
          /\ (task'[d].pc = "write" => task'[d].got = task[d].got)
      BY <1>0, <2>1, <2>2, <3>1 DEF TaskVouches
    <3>3. image' = image /\ source' = source BY <1>0 DEF taskFrame
    <3> QED BY <1>4, <3>1, <3>2, <3>3 DEF TaskVouches, IsState, Holds, Bytes
  <2>8. Covered' BY <1>0, <1>1 DEF Covered, Quiet, taskFrame
  <2>9. RevisionsAgree'
    <3>1. \A d \in Chunks : task'[d].snap = task[d].snap BY <2>1, <2>2
    <3>2. Revisions' \subseteq Revisions \cup {NoFile} BY <1>0, <3>1 DEF Revisions
    <3> QED BY <1>0, <1>1, <3>2, RevisionTypes, RevisionsGrow DEF IInv, Safe
  <2>10. CompleteIsComplete' BY <1>0, <1>1 DEF CompleteIsComplete, taskFrame
  <2>11. ResolvedOncePerGeneration' BY <1>0, <2>1, StillOnceMoved
  <2> QED BY <2>3, <2>4, <2>5, <2>6, <2>7, <2>8, <2>9, <2>10, <2>11 DEF Safe
<1> QED BY <1>3, <1>4 DEF TaskFlush

LEMMA TaskSaveSafe == ASSUME IInv, NEW c \in Chunks, TaskSave(c) PROVE Safe'
<1>0. /\ task[c].pc = "save" /\ UNCHANGED urlVars
      /\ UNCHANGED <<image, synced, taskFrame, live, snap>>
  BY DEF TaskSave
<1>1. /\ pc \notin AtRest /\ pc \notin Quiet /\ Live /\ source \in Sources /\ outcome # "done"
      /\ image.size = Size[source] /\ image.size # -1
  BY <1>0, Working
<1>2. /\ file.kind \in {"none", "state"}
      /\ IsState(file) => /\ file.src = source /\ Holds(image, source, file.done)
                          /\ Holds(synced, source, file.done)
      /\ TaskVouches(task[c], c) /\ task[c] \in TaskRecord
  BY <1>0, WorkFacts
<1>3. PICK p \in {"returned", "raised"} :
        task' = [task EXCEPT ![c] = [task[c] EXCEPT !.pc = p, !.snap = NoFile]]
  BY DEF TaskSave
<1> DEFINE t == [task[c] EXCEPT !.pc = p, !.snap = NoFile]
<1>4. task' = [task EXCEPT ![c] = t] /\ t.pc = p /\ t.snap = NoFile
  BY <1>2, <1>3 DEF TaskRecord
<1> HIDE DEF t
<1>5. \A d \in Chunks : task'[d] = IF d = c THEN t ELSE task[d] BY <1>4 DEF IInv, TypeOK
<1>6. file' \in {file, task[c].snap} BY DEF TaskSave, Saved
<1>7. Control' BY <1>0, <1>1 DEF IInv, Safe, Control, Live, taskFrame
<1>8. /\ IsState(task[c].snap) /\ task[c].snap.src = source
      /\ Holds(image, source, task[c].snap.done) /\ Holds(synced, source, task[c].snap.done)
  BY <1>0, <1>2 DEF TaskVouches
<1>9. /\ IsState(file') => /\ file'.src = source /\ Holds(image, source, file'.done)
                           /\ Holds(synced, source, file'.done)
      /\ file'.kind \in {"none", "state"}
  BY <1>2, <1>6, <1>8 DEF IsState
<1>10. FileVouches' BY <1>0, <1>9 DEF FileVouches, Live, taskFrame, IsState, Holds, Bytes
<1>11. LiveVouches'
  BY <1>0, <1>1, <1>9 DEF IInv, Safe, LiveVouches, Live, taskFrame, IsState, Holds, Bytes
<1>12. SnapVouches'
  BY <1>0 DEF IInv, Safe, SnapVouches, taskFrame, IsState, Holds, Bytes
<1>13. TasksVouch'
  <2> SUFFICES ASSUME NEW d \in Chunks PROVE TaskVouches(task[d], d)' BY DEF TasksVouch
  <2>1. TaskVouches(task[d], d) BY DEF IInv, Safe, TasksVouch
  <2>2. TaskVouches(t, d) BY <1>4 DEF TaskVouches, IsState, NoFile, Bare
  <2>3. TaskVouches(task'[d], d) BY <1>5, <2>1, <2>2
  <2> QED BY <1>0, <2>3 DEF TaskVouches, IsState, Holds, Bytes, taskFrame
<1>14. Covered' BY <1>0, <1>1 DEF Covered, Quiet, taskFrame
<1>15. RevisionsAgree'
  <2>1. \A d \in Chunks : task'[d].snap \in {task[d].snap, NoFile} BY <1>4, <1>5
  <2>2. Revisions' \subseteq Revisions \cup {NoFile} BY <1>0, <1>6, <2>1 DEF Revisions
  <2> QED BY <1>0, <1>1, <2>2, RevisionTypes, RevisionsGrow DEF IInv, Safe
<1>16. CompleteIsComplete' BY <1>0, <1>1 DEF CompleteIsComplete, taskFrame
<1>17. ResolvedOncePerGeneration' BY <1>0, <1>4, StillOnceMoved
<1> QED BY <1>7, <1>10, <1>11, <1>12, <1>13, <1>14, <1>15, <1>16, <1>17 DEF Safe

-----------------------------------------------------------------------------
(* The steps of the main thread. *)

\* However a session ends, only the destination and its state file are left.
LEMMA OverSafe ==
    ASSUME NEW how, Over(how), image'.size = -1 => synced' = image', FileVouches',
           CompleteIsComplete'
    PROVE  Safe'
<1>1. ~IsState(NoFile) BY DEF IsState, NoFile, Bare
<1>2. \A c \in Chunks : task'[c] = NoTask BY DEF Over
<1>3. Control' BY <1>2 DEF Over, Control, AtRest, Quiet, Live
<1>4. LiveVouches' /\ RevisionsAgree' BY DEF Over, LiveVouches, RevisionsAgree, Live
<1>5. SnapVouches' /\ Covered'
  BY <1>1 DEF Over, SnapVouches, Covered, Quiet, IsState
<1>6. TasksVouch' BY <1>1, <1>2 DEF TasksVouch, TaskVouches, NoTask, IsState
<1>7. ResolvedOncePerGeneration' BY <1>2 DEF ResolvedOncePerGeneration, NoTask
<1> QED BY <1>3, <1>4, <1>5, <1>6, <1>7 DEF Safe

\* What the main thread finds while a session is on.
LEMMA LiveFacts ==
    ASSUME IInv, Live
    PROVE  /\ source \in Sources /\ outcome # "done" /\ Size[source] # -1
           /\ IsState(live) /\ live.src = source /\ Holds(image, source, live.done)
           /\ file.kind \in {"none", "state"}
           /\ IsState(file) => /\ file.src = source /\ Holds(image, source, file.done)
                               /\ Holds(synced, source, file.done)
           /\ IsState(snap) => snap.src = source /\ Holds(image, source, snap.done)
           /\ live \in StateFile /\ snap \in StateFile /\ file \in StateFile
           /\ image \in Images /\ synced \in Images
<1>1. source \in Sources /\ outcome # "done" BY DEF IInv, Safe, Control
<1>2. Size[source] # -1 BY <1>1, ImageTypes, StateAssumption
<1>3. LiveVouches /\ FileVouches /\ SnapVouches BY DEF IInv, Safe
<1>4. /\ live \in StateFile /\ snap \in StateFile /\ file \in StateFile
      /\ image \in Images /\ synced \in Images
  BY DEF IInv, TypeOK
<1> QED BY <1>1, <1>2, <1>3, <1>4 DEF LiveVouches, FileVouches, SnapVouches

\* An end that is no completion leaves the file, nothing, or the state it has just saved.
LEMMA FailedSafe ==
    ASSUME IInv, Live, NEW how \in {"none", "failed", "cancelled", "interrupted"}, Over(how),
           UNCHANGED <<image, synced>>,
           file' \in {file, Cleared(file)} \/ (pc = "cover" /\ file' = Saved(file, snap))
    PROVE  Safe'
<1>1. file.kind \in {"none", "state"}
      /\ (IsState(file) => /\ file.src = source /\ Holds(image, source, file.done)
                           /\ Holds(synced, source, file.done))
  BY LiveFacts
<1>2. pc = "cover" => /\ IsState(snap) /\ snap.src = source /\ Holds(image, source, snap.done)
                      /\ Holds(synced, source, snap.done)
  BY DEF IInv, Safe, SnapVouches, Quiet
<1>3. file' \in {file, NoFile} \/ (pc = "cover" /\ file' = snap)
  BY <1>1 DEF Cleared, Saved
<1>4. FileVouches'
  BY <1>1, <1>2, <1>3 DEF FileVouches, IsState, NoFile, Bare, Holds, Bytes
<1>5. image'.size = -1 => synced' = image' BY DEF IInv, Safe, Control
<1>6. CompleteIsComplete' BY DEF Over, CompleteIsComplete
<1> QED BY <1>4, <1>5, <1>6, OverSafe

\* A step of the main thread that touches no file, no state and no task.
LEMMA StillSafe ==
    ASSUME IInv, Live, UNCHANGED <<diskVars, source, mode, live, snap, task, urlVars>>,
           pc' # "off", outcome' # "done", Control', SnapVouches', Covered'
    PROVE  Safe'
<1> USE DEF diskVars
<1>1. Live' BY DEF Live
<1>2. FileVouches' BY DEF IInv, Safe, FileVouches, Live, IsState, Holds, Bytes
<1>3. LiveVouches' BY DEF IInv, Safe, LiveVouches, Live, IsState, Holds, Bytes
<1>4. TasksVouch' BY DEF IInv, Safe, TasksVouch, TaskVouches, IsState, Holds, Bytes
<1>5. RevisionsAgree'
  <2>1. Revisions' = Revisions BY DEF Revisions
  <2> QED BY <2>1, RevisionTypes, RevisionsGrow DEF IInv, Safe
<1>6. CompleteIsComplete' BY DEF CompleteIsComplete
<1>7. ResolvedOncePerGeneration' BY DEF IInv, Safe, ResolvedOncePerGeneration, urlVars
<1> QED BY <1>2, <1>3, <1>4, <1>5, <1>6, <1>7 DEF Safe

LEMMA PrepareSafe == ASSUME IInv, Prepare PROVE Safe'
<1>0. pc = "prepare" /\ Live /\ UNCHANGED <<synced, file, sessions, source, mode>>
  BY DEF Prepare, Live
<1>1. CASE Over("failed") /\ UNCHANGED image BY <1>0, <1>1, FailedSafe
<1>2. CASE /\ image' = IF image.size = Size[source] THEN image ELSE Preallocated(Size[source])
           /\ pc' = "submit" /\ UNCHANGED <<outcome, live, snap, urlVars, task>>
  <2>1. /\ source \in Sources /\ outcome # "done" /\ Size[source] # -1
        /\ IsState(live) /\ live.src = source /\ Holds(image, source, live.done)
        /\ file.kind \in {"none", "state"}
        /\ IsState(file) => /\ file.src = source /\ Holds(image, source, file.done)
                            /\ Holds(synced, source, file.done)
        /\ IsState(snap) => snap.src = source /\ Holds(image, source, snap.done)
    BY <1>0, LiveFacts
  <2>2. ASSUME NEW done, Holds(image, source, done) PROVE Holds(image', source, done)
    BY <1>2, <2>2 DEF Holds
  <2>3. \A c \in Chunks : task[c] = NoTask BY <1>0 DEF IInv, Safe, Control, AtRest
  <2>4. image'.size = Size[source] BY <1>2 DEF Preallocated
  <2>5. Control' BY <1>0, <1>2, <2>1, <2>4 DEF Control, AtRest, Quiet, Live
  <2>6. FileVouches' BY <1>0, <2>1, <2>2 DEF FileVouches, IsState, Holds, Bytes
  <2>7. LiveVouches' BY <1>0, <1>2, <2>1, <2>2 DEF LiveVouches, IsState, Holds, Bytes
  <2>8. SnapVouches' BY <1>0, <1>2, <2>1, <2>2 DEF SnapVouches, Quiet, IsState, Holds, Bytes
  <2>9. TasksVouch'
    BY <1>2, <2>3 DEF TasksVouch, TaskVouches, NoTask, IsState, NoFile, Bare
  <2>10. Covered' BY <1>2 DEF Covered
  <2>11. RevisionsAgree'
    <3>1. Revisions' = Revisions BY <1>0, <1>2 DEF Revisions
    <3> QED BY <1>0, <1>2, <3>1, RevisionTypes, RevisionsGrow DEF IInv, Safe
  <2>12. CompleteIsComplete' BY <1>2, <2>1 DEF CompleteIsComplete
  <2>13. ResolvedOncePerGeneration'
    BY <1>2, <2>3 DEF ResolvedOncePerGeneration, NoTask
  <2> QED BY <2>5, <2>6, <2>7, <2>8, <2>9, <2>10, <2>11, <2>12, <2>13 DEF Safe
<1> QED BY <1>1, <1>2 DEF Prepare

LEMMA SubmitSafe == ASSUME IInv, Submit PROVE Safe'
<1>0. /\ pc = "submit" /\ Live /\ UNCHANGED urlVars
      /\ UNCHANGED <<diskVars, source, mode, live, snap, outcome>>
  BY DEF Submit, Live
<1>1. source \in Sources /\ outcome # "done" BY <1>0, LiveFacts
<1>2. CASE pc' = "wait" /\ UNCHANGED task
  <2>1. Control' BY <1>0, <1>1, <1>2 DEF IInv, Safe, Control, AtRest, Quiet, Live, diskVars
  <2>2. SnapVouches' /\ Covered'
    BY <1>0, <1>2 DEF IInv, Safe, SnapVouches, Covered, Quiet, IsState, Holds, Bytes, diskVars
  <2> QED BY <1>0, <1>1, <1>2, <2>1, <2>2, StillSafe
<1>3. ASSUME NEW c \in Unsubmitted, task' = [task EXCEPT ![c].pc = "queued"], UNCHANGED pc
      PROVE  Safe'
  <2>1. \A d \in Chunks : task'[d].snap = task[d].snap /\ task'[d].got = task[d].got
                          /\ task'[d].pc \in {task[d].pc, "queued"}
                          /\ task'[d].seen = task[d].seen
    <3> SUFFICES ASSUME NEW d \in Chunks
                 PROVE  task'[d].snap = task[d].snap /\ task'[d].got = task[d].got
                          /\ task'[d].pc \in {task[d].pc, "queued"}
                          /\ task'[d].seen = task[d].seen
      OBVIOUS
    <3>1. task[d] \in TaskRecord /\ task \in [Chunks -> TaskRecord]
      BY DEF IInv, TypeOK, TaskRecord
    <3>2. task'[d] \in {task[d], [task[d] EXCEPT !.pc = "queued"]} BY <1>3, <3>1
    <3> QED BY <3>1, <3>2 DEF TaskRecord
  <2>2. Control' BY <1>0, <1>1, <1>3 DEF IInv, Safe, Control, AtRest, Quiet, Live, diskVars
  <2>3. FileVouches'
    BY <1>0, <1>3 DEF IInv, Safe, FileVouches, Live, IsState, Holds, Bytes, diskVars
  <2>4. LiveVouches'
    BY <1>0, <1>3 DEF IInv, Safe, LiveVouches, Live, IsState, Holds, Bytes, diskVars
  <2>5. SnapVouches' /\ Covered'
    BY <1>0, <1>3 DEF IInv, Safe, SnapVouches, Covered, Quiet, IsState, Holds, Bytes, diskVars
  <2>6. TasksVouch'
    <3> SUFFICES ASSUME NEW d \in Chunks PROVE TaskVouches(task[d], d)' BY DEF TasksVouch
    <3>1. TaskVouches(task[d], d) BY DEF IInv, Safe, TasksVouch
    <3>2. TaskVouches(task'[d], d) BY <2>1, <3>1 DEF TaskVouches
    <3> QED BY <1>0, <3>2 DEF TaskVouches, IsState, Holds, Bytes, diskVars
  <2>7. RevisionsAgree'
    <3>1. Revisions' \subseteq Revisions \cup {NoFile} BY <1>0, <2>1 DEF Revisions, diskVars
    <3> QED BY <1>0, <3>1, RevisionTypes, RevisionsGrow DEF IInv, Safe
  <2>8. CompleteIsComplete' BY <1>0, <1>1 DEF CompleteIsComplete
  <2>9. ResolvedOncePerGeneration'
    BY <1>0, <2>1 DEF IInv, Safe, ResolvedOncePerGeneration, urlVars
  <2> QED BY <2>2, <2>3, <2>4, <2>5, <2>6, <2>7, <2>8, <2>9 DEF Safe
<1> QED BY <1>2, <1>3 DEF Submit

\* A snapshot becomes both the live state and what the main thread saves.
LEMMA SnapshotSafe ==
    ASSUME IInv, pc \in {"wait", "fail"}, snap' = Snapshot(live), live' = Snapshot(live),
           UNCHANGED <<diskVars, source, mode, task, urlVars>>, outcome' # "done",
           pc' \in {"flush", "failflush"},
           pc' = "flush" => \A c \in Chunks : task[c].pc \in {"none", "returned"}
    PROVE  Safe'
<1> USE DEF diskVars
<1>0. Live /\ Live' BY DEF Live
<1>1. /\ source \in Sources /\ IsState(live) /\ live.src = source /\ live \in StateFile
      /\ Holds(image, source, live.done)
      /\ file.kind \in {"none", "state"} /\ (IsState(file) => file.src = source)
  BY <1>0, LiveFacts
<1>2. /\ live'.rev = live.rev + 1 /\ live'.done = live.done /\ live'.src = source
      /\ IsState(live') /\ snap' = live'
  BY <1>1, SnapshotFacts DEF IsState
<1>3. Control'
  BY <1>0, <1>1 DEF IInv, Safe, Control, AtRest, Quiet, Live
<1>4. FileVouches' BY <1>0 DEF IInv, Safe, FileVouches, IsState, Holds, Bytes
<1>5. LiveVouches' BY <1>0, <1>1, <1>2 DEF LiveVouches, IsState, Holds, Bytes
<1>6. SnapVouches' BY <1>1, <1>2 DEF SnapVouches, Quiet, IsState, Holds, Bytes
<1>7. TasksVouch' BY DEF IInv, Safe, TasksVouch, TaskVouches, IsState, Holds, Bytes
<1>8. Covered' BY DEF Covered
<1>9. RevisionsAgree'
  <2>1. Revisions' \subseteq Revisions \cup {NoFile, live'} BY <1>2 DEF Revisions
  <2>2. live.rev \in Nat BY <1>1 DEF StateFile
  <2>3. live.rev < live'.rev /\ live.rev <= live'.rev /\ live'.rev \in Nat BY <1>2, <2>2
  <2> QED BY <1>0, <1>2, <2>1, <2>2, <2>3, RevisionTypes, RevisionsGrow DEF IInv, Safe
<1>10. CompleteIsComplete' BY DEF CompleteIsComplete
<1>11. ResolvedOncePerGeneration' BY DEF IInv, Safe, ResolvedOncePerGeneration, urlVars
<1> QED BY <1>3, <1>4, <1>5, <1>6, <1>7, <1>8, <1>9, <1>10, <1>11 DEF Safe

\* A step of the main thread that flushes the destination or replaces the state file.
LEMMA SavingSafe ==
    ASSUME IInv, Live, pc \notin AtRest,
           UNCHANGED <<image, source, mode, live, snap, task, urlVars>>, outcome' # "done",
           pc' \notin AtRest, pc' \in Quiet => pc \in Quiet,
           synced' \in {synced, image},
           file' \in {file, NoFile} \/ (IsState(snap) /\ file' = snap),
           IsState(file') => Holds(synced', source, file'.done),
           SnapVouches', Covered'
    PROVE  Safe'
<1>0. Live' BY DEF Live, AtRest
<1>1. /\ source \in Sources /\ Size[source] # -1
      /\ IsState(live) /\ live.src = source /\ Holds(image, source, live.done)
      /\ file.kind \in {"none", "state"}
      /\ IsState(file) => file.src = source /\ Holds(image, source, file.done)
      /\ IsState(snap) => snap.src = source /\ Holds(image, source, snap.done)
  BY LiveFacts
<1>2. Control' BY <1>0, <1>1 DEF IInv, Safe, Control, AtRest, Live
<1>3. /\ file'.kind \in {"none", "state"}
      /\ IsState(file') => file'.src = source /\ Holds(image, source, file'.done)
  BY <1>1 DEF IsState, NoFile, Bare
<1>4. FileVouches' BY <1>3 DEF FileVouches, IsState, Holds, Bytes
<1>5. LiveVouches' BY <1>1, <1>3 DEF LiveVouches, IsState, Holds, Bytes
<1>6. TasksVouch'
  <2> SUFFICES ASSUME NEW d \in Chunks PROVE TaskVouches(task[d], d)' BY DEF TasksVouch
  <2>1. TaskVouches(task[d], d) BY DEF IInv, Safe, TasksVouch
  <2> QED BY <2>1 DEF TaskVouches, IsState, Holds, Bytes
<1>7. RevisionsAgree'
  <2>1. Revisions' \subseteq Revisions \cup {NoFile} BY DEF Revisions
  <2> QED BY <2>1, RevisionTypes, RevisionsGrow DEF IInv, Safe
<1>8. CompleteIsComplete' BY DEF CompleteIsComplete
<1>9. ResolvedOncePerGeneration' BY DEF IInv, Safe, ResolvedOncePerGeneration, urlVars
<1> QED BY <1>2, <1>4, <1>5, <1>6, <1>7, <1>8, <1>9 DEF Safe

LEMMA MainSafe == ASSUME IInv, MainStep \/ Interrupted PROVE Safe'
<1>1. Live
  BY DEF MainStep, Prepare, Submit, SeeFailure, SeeReturns, Interrupted, HandleFailure, Flush,
         Save, SaveFails, Join, Cover, Verify, Finish, Live
<1>2. /\ source \in Sources /\ outcome # "done"
      /\ file.kind \in {"none", "state"}
      /\ IsState(file) => /\ file.src = source /\ Holds(image, source, file.done)
                          /\ Holds(synced, source, file.done)
      /\ IsState(snap) => snap.src = source /\ Holds(image, source, snap.done)
      /\ snap \in StateFile
  BY <1>1, LiveFacts
<1>3. Control /\ SnapVouches /\ Covered BY DEF IInv, Safe
<1>4. CASE Prepare BY <1>4, PrepareSafe
<1>5. CASE Submit BY <1>5, SubmitSafe
<1>6. CASE SeeFailure \/ Interrupted
  <2>1. Control' BY <1>1, <1>2, <1>3, <1>6
    DEF SeeFailure, Interrupted, Control, AtRest, Quiet, Live, diskVars
  <2>2. SnapVouches' /\ Covered' BY <1>3, <1>6
    DEF SeeFailure, Interrupted, SnapVouches, Covered, Quiet, IsState, Holds, Bytes, diskVars
  <2> QED BY <1>1, <1>6, <2>1, <2>2, StillSafe DEF SeeFailure, Interrupted
<1>7. CASE SeeReturns BY <1>2, <1>7, SnapshotSafe DEF SeeReturns
<1>8. CASE HandleFailure
  <2>1. CASE snap' = Snapshot(live) /\ live' = Snapshot(live) /\ pc' = "failflush" /\ UNCHANGED file
    BY <1>2, <1>8, <2>1, SnapshotSafe DEF HandleFailure, diskVars
  <2>2. CASE file' = Cleared(file) /\ pc' = "join" /\ UNCHANGED <<snap, live>>
    <3>1. file' = NoFile BY <1>2, <2>2 DEF Cleared
    <3>2. ~IsState(file') BY <3>1 DEF IsState, NoFile, Bare
    <3>3. SnapVouches' /\ Covered'
      BY <1>3, <1>8, <2>2 DEF HandleFailure, SnapVouches, Covered, Quiet, IsState, Holds, Bytes
    <3> QED BY <1>1, <1>2, <1>8, <2>2, <3>1, <3>2, <3>3, SavingSafe
            DEF HandleFailure, AtRest, Quiet
  <2> QED BY <1>8, <2>1, <2>2 DEF HandleFailure
<1>9. CASE Flush
  <2>0. /\ pc \in {"failflush", "flush"}
        /\ pc' = IF pc = "flush" THEN "save" ELSE "failsave"
        /\ synced' = image /\ UNCHANGED <<image, file, source, mode, live, snap, outcome, task>>
        /\ UNCHANGED urlVars
    BY <1>9 DEF Flush
  <2>1. IsState(snap) /\ Holds(image, source, snap.done) BY <1>2, <1>3, <2>0 DEF SnapVouches, Quiet
  <2>2. SnapVouches' BY <1>2, <2>0, <2>1 DEF SnapVouches, IsState, Holds, Bytes
  <2>3. Covered' BY <2>0 DEF Covered
  <2>4. IsState(file') => Holds(synced', source, file'.done) BY <1>2, <2>0
  <2> QED BY <1>1, <1>2, <2>0, <2>2, <2>3, <2>4, SavingSafe DEF AtRest, Quiet
<1>10. CASE Save
  <2>0. /\ pc \in {"failsave", "save"}
        /\ pc' = IF pc = "save" THEN "cover" ELSE "join"
        /\ file' = Saved(file, snap)
        /\ UNCHANGED <<image, synced, source, mode, live, snap, outcome, task>>
        /\ UNCHANGED urlVars
    BY <1>10 DEF Save
  <2>1. /\ IsState(snap) /\ Holds(synced, source, snap.done)
    BY <1>3, <2>0 DEF SnapVouches, Quiet
  <2>2. SnapVouches' BY <1>2, <2>0, <2>1 DEF SnapVouches, IsState, Holds, Bytes
  <2>3. Covered' BY <1>3, <2>0 DEF Covered
  <2>4. file' \in {file, snap} BY <2>0 DEF Saved
  <2>5. IsState(file') => Holds(synced', source, file'.done) BY <1>2, <2>0, <2>1, <2>4
  <2> QED BY <1>1, <1>2, <2>0, <2>1, <2>2, <2>3, <2>4, <2>5, SavingSafe DEF AtRest, Quiet
<1>11. CASE SaveFails
  <2>1. CASE Over("failed") BY <1>1, <1>11, <2>1, FailedSafe DEF SaveFails, diskVars
  <2>2. CASE /\ pc \in {"failflush", "failsave"} /\ pc' = "join"
             /\ UNCHANGED <<live, snap, outcome, stop, urlVars, task>>
    <3>1. Control' BY <1>1, <1>2, <1>3, <1>11, <2>2
      DEF SaveFails, Control, AtRest, Quiet, Live, diskVars
    <3>2. SnapVouches' /\ Covered' BY <1>3, <1>11, <2>2
      DEF SaveFails, SnapVouches, Covered, Quiet, IsState, Holds, Bytes, diskVars
    <3> QED BY <1>1, <1>2, <1>11, <2>2, <3>1, <3>2, StillSafe DEF SaveFails
  <2> QED BY <1>11, <2>1, <2>2 DEF SaveFails
<1>12. CASE Join
  <2>1. outcome \in {"none", "failed", "cancelled", "interrupted"} BY <1>2 DEF IInv, TypeOK
  <2> QED BY <1>1, <1>12, <2>1, FailedSafe DEF Join, diskVars
<1>13. CASE Cover
  <2>1. CASE /\ ChunksOf(source) \subseteq snap.done /\ pc' = "verify"
             /\ UNCHANGED <<file, live, snap, outcome, stop, urlVars, task>>
    <3>1. Control' BY <1>1, <1>2, <1>3, <1>13, <2>1
      DEF Cover, Control, AtRest, Quiet, Live
    <3>2. SnapVouches' BY <1>3, <1>13, <2>1 DEF Cover, SnapVouches, Quiet, IsState, Holds, Bytes
    <3>3. Covered' BY <1>3, <1>13, <2>1 DEF Cover, Covered, ChunksOf
    <3> QED BY <1>1, <1>2, <1>13, <2>1, <3>1, <3>2, <3>3, StillSafe DEF Cover, diskVars
  <2>2. CASE /\ file' = IF mode.keep THEN Saved(file, snap) ELSE Cleared(file)
             /\ Over(IF stop THEN "cancelled" ELSE "failed")
    BY <1>1, <1>13, <2>2, FailedSafe DEF Cover
  <2> QED BY <1>13, <2>1, <2>2 DEF Cover
<1>14. CASE Verify
  <2>1. CASE /\ ~mode.verify \/ Intact
             /\ pc' = "clear" /\ UNCHANGED <<file, live, snap, outcome, stop, urlVars, task>>
    <3>1. Control' BY <1>1, <1>2, <1>3, <1>14, <2>1
      DEF Verify, Control, AtRest, Quiet, Live
    <3>2. SnapVouches' BY <1>3, <1>14, <2>1 DEF Verify, SnapVouches, Quiet, IsState, Holds, Bytes
    <3>3. Covered' BY <1>3, <1>14, <2>1 DEF Verify, Covered, ChunksOf, Intact
    <3> QED BY <1>1, <1>2, <1>14, <2>1, <3>1, <3>2, <3>3, StillSafe DEF Verify, diskVars
  <2>2. CASE file' = (IF mode.keep THEN file ELSE Cleared(file)) /\ Over("failed")
    BY <1>1, <1>14, <2>2, FailedSafe DEF Verify
  <2> QED BY <1>14, <2>1, <2>2 DEF Verify
<1>15. CASE Finish
  <2>0. /\ pc = "clear" /\ file' = Cleared(file) /\ Over("done")
        /\ UNCHANGED <<image, synced, source, mode>>
    BY <1>15 DEF Finish
  <2>1. file' = NoFile BY <1>2, <2>0 DEF Cleared
  <2>2. FileVouches' BY <2>1 DEF FileVouches, IsState, NoFile, Bare
  <2>3. /\ IsState(snap) /\ synced = image /\ image.size = Size[source]
        /\ ChunksOf(source) \subseteq snap.done /\ (~mode.verify \/ Intact)
    BY <1>3, <2>0 DEF Control, SnapVouches, Covered, Quiet, AtRest
  <2>4. \A c \in ChunksOf(source) : image.body[c] \in Bytes(source) BY <1>2, <2>3 DEF Holds
  <2>5. \A c \in ChunksOf(source) :
          image.body[c] = source \/ (Garbling /\ ~mode.verify /\ image.body[c] = Garbled)
    BY <2>3, <2>4 DEF Bytes, Intact
  <2>6. CompleteIsComplete' BY <2>0, <2>3, <2>5 DEF CompleteIsComplete, ChunksOf
  <2> QED BY <2>0, <2>2, <2>3, <2>6, OverSafe
<1> QED BY <1>4, <1>5, <1>6, <1>7, <1>8, <1>9, <1>10, <1>11, <1>12, <1>13, <1>14, <1>15
        DEF MainStep

-----------------------------------------------------------------------------
(* A session begins, and the world around it. *)

LEMMA StartSafe ==
    ASSUME IInv, NEW s \in Sources, NEW m \in Modes, Start(s, m) PROVE Safe'
<1>0. /\ pc = "off" /\ ~Live /\ UNCHANGED <<image, synced, snap, stop, urlVars, task>>
  BY DEF Start, Live
<1>1. /\ live = NoFile /\ snap = NoFile /\ ~IsState(NoFile)
      /\ \A c \in Chunks : task[c] = NoTask
  BY <1>0 DEF IInv, Safe, Control, AtRest, IsState, NoFile, Bare
<1>2. \A c \in Chunks : task'[c] = NoTask BY <1>0, <1>1
<1>3. TasksVouch' BY <1>1, <1>2 DEF TasksVouch, TaskVouches, NoTask, IsState
<1>4. ResolvedOncePerGeneration' BY <1>2 DEF ResolvedOncePerGeneration, NoTask
<1>5. image.size = -1 => synced = image BY DEF IInv, Safe, Control
<1> DEFINE f == IF (image.size # -1 /\ ~m.overwrite) \/ m.resume THEN AfterLoad(file) ELSE file
<1>6. IsState(f) => f = file BY <1>1 DEF AfterLoad
<1>7. \A g : IsState(Cleared(g)) => IsState(g) /\ Cleared(g) = g
  BY <1>1 DEF Cleared
<1>8. CASE file' = f /\ pc' = pc /\ live' = live
           /\ (outcome' = "failed" \/ UNCHANGED <<source, mode, outcome>>)
  <2>1. ~Live' BY <1>0, <1>8 DEF Live
  <2>2. Control' BY <1>0, <1>1, <1>2, <1>5, <1>8, <2>1 DEF Control, AtRest, Quiet
  <2>3. FileVouches'
    BY <1>0, <1>6, <1>8, <2>1 DEF IInv, Safe, FileVouches, IsState, Holds, Bytes
  <2>4. LiveVouches' /\ RevisionsAgree' BY <2>1 DEF LiveVouches, RevisionsAgree
  <2>5. SnapVouches' /\ Covered'
    BY <1>0, <1>1, <1>8 DEF SnapVouches, Covered, Quiet, IsState
  <2>6. CompleteIsComplete'
    BY <1>0, <1>8 DEF IInv, Safe, CompleteIsComplete, ChunksOf
  <2> QED BY <1>3, <1>4, <2>2, <2>3, <2>4, <2>5, <2>6 DEF Safe
<1>9. ASSUME pc' = "prepare", outcome' = "none", source' = s, IsState(live'), live'.src = s,
             Holds(image, s, live'.done), live' \in StateFile,
             file' = NoFile \/ (file' = live' /\ Holds(synced, s, live'.done))
      PROVE  Safe'
  <2>1. Live' /\ pc' # "off" BY <1>9 DEF Live
  <2>2. Control' BY <1>0, <1>2, <1>5, <1>9 DEF Control, AtRest, Quiet, Live
  <2>3. FileVouches' BY <1>0, <1>1, <1>9 DEF FileVouches, IsState, Holds, Bytes
  <2>4. LiveVouches'
    BY <1>0, <1>9 DEF LiveVouches, IsState, Holds, Bytes, NoFile, Bare
  <2>5. SnapVouches' /\ Covered' BY <1>0, <1>1, <1>9 DEF SnapVouches, Covered, Quiet, IsState
  <2>6. RevisionsAgree'
    <3>1. \A g \in Revisions' : IsState(g) => g = live'
      BY <1>0, <1>1, <1>2, <1>9 DEF Revisions, NoTask
    <3>2. live'.rev \in Nat BY <1>9 DEF StateFile
    <3>3. \A g \in Revisions' : (IsState(g) => g.rev <= live'.rev /\ g.done \subseteq live'.done)
      BY <3>1, <3>2
    <3>4. \A g, h \in Revisions' : Behind(g, h) BY <3>1 DEF Behind
    <3> QED BY <3>3, <3>4 DEF RevisionsAgree, BehindLive, Behind, IsState
  <2>7. CompleteIsComplete' BY <1>9 DEF CompleteIsComplete
  <2> QED BY <1>3, <1>4, <2>2, <2>3, <2>4, <2>5, <2>6, <2>7 DEF Safe
<1>10. CASE /\ source' = s /\ Usable(f, image, s, m) /\ live' = f /\ file' = f
            /\ pc' = "prepare" /\ outcome' = "none"
  <2>1. f = file /\ IsState(f) /\ f.src = s /\ f \in StateFile
    BY <1>6, <1>10 DEF Usable, IsState, IInv, TypeOK
  <2>2. f.done # {} => image.size # -1
    BY <1>10, ImageTypes, StateAssumption DEF Usable
  <2>3. f.done # {} => Holds(image, s, f.done) /\ Holds(synced, s, f.done)
    BY <2>1, <2>2 DEF IInv, Safe, FileVouches
  <2>4. Holds(image, s, f.done) /\ Holds(synced, s, f.done) BY <2>3 DEF Holds
  <2> QED BY <1>9, <1>10, <2>1, <2>4
<1>11. CASE /\ source' = s /\ f.kind # "newer" /\ live' = FreshState(s) /\ file' = Cleared(f)
            /\ pc' = "prepare" /\ outcome' = "none"
  <2>1. file' = NoFile BY <1>11 DEF Cleared
  <2>2. /\ IsState(live') /\ live'.src = s /\ live'.done = {} /\ live' \in StateFile
    BY <1>11, StateFiles DEF FreshState, IsState
  <2> QED BY <1>9, <1>11, <2>1, <2>2 DEF Holds
<1> QED BY <1>8, <1>10, <1>11 DEF Start

LEMMA PowerSafe == ASSUME IInv, PowerFails PROVE Safe'
<1>1. PICK n \in {image.size, synced.size}, b \in [Chunks -> Contents] :
        /\ \A c \in Chunks : b[c] \in {image.body[c], synced.body[c]}
        /\ image' = [size |-> n, body |-> b]
  BY DEF PowerFails
<1>2. image # synced /\ synced' = image' /\ Over("none") /\ UNCHANGED <<file, source, mode>>
  BY DEF PowerFails
<1>3. image.size # -1 BY <1>2 DEF IInv, Safe, Control
<1>4. FileVouches'
  <2> SUFFICES ASSUME IsState(file) PROVE Holds(image', file.src, file.done)
    BY <1>2 DEF FileVouches, IsState, Holds, Bytes
  <2>1. Holds(image, file.src, file.done) /\ Holds(synced, file.src, file.done)
    BY <1>3 DEF IInv, Safe, FileVouches
  <2>2. file.done \subseteq Chunks BY DEF IInv, TypeOK, StateFile
  <2> QED BY <1>1, <2>1, <2>2 DEF Holds
<1>5. CompleteIsComplete' BY <1>2 DEF Over, CompleteIsComplete
<1> QED BY <1>2, <1>4, <1>5, OverSafe

LEMMA WorldSafe == ASSUME IInv, Stop \/ Kill \/ Delete PROVE Safe'
<1>1. CASE Stop
  <2>1. outcome # "done" BY <1>1, LiveFacts DEF Stop
  <2>2. Control'
    BY <1>1, <2>1 DEF Stop, IInv, Safe, Control, AtRest, Quiet, Live, diskVars
  <2>3. SnapVouches' /\ Covered'
    BY <1>1 DEF Stop, IInv, Safe, SnapVouches, Covered, Quiet, IsState, Holds, Bytes, diskVars,
                ChunksOf, Intact
  <2> QED BY <1>1, <2>1, <2>2, <2>3, StillSafe DEF Stop, Live
<1>2. CASE Kill BY <1>2, FailedSafe DEF Kill, diskVars
<1>3. CASE Delete
  <2>0. /\ pc = "off" /\ ~Live /\ ~Live' /\ image' = Absent /\ synced' = Absent /\ outcome' = "none"
        /\ UNCHANGED <<file, pc, source, mode, live, snap, urlVars, task>>
    BY <1>3 DEF Delete, Live
  <2>1. Control' BY <2>0 DEF IInv, Safe, Control, AtRest, Quiet
  <2>2. FileVouches' BY <2>0 DEF FileVouches, Absent
  <2>3. LiveVouches' /\ RevisionsAgree' BY <2>0 DEF LiveVouches, RevisionsAgree
  <2>4. \A c \in Chunks : task'[c] = NoTask BY <2>0 DEF IInv, Safe, Control, AtRest
  <2>5. TasksVouch'
    BY <2>4 DEF TasksVouch, TaskVouches, NoTask, IsState, NoFile, Bare
  <2>6. SnapVouches' /\ Covered'
    BY <2>0 DEF IInv, Safe, Control, SnapVouches, Covered, Quiet, IsState, NoFile, Bare
  <2>7. CompleteIsComplete' BY <2>0 DEF CompleteIsComplete
  <2>8. ResolvedOncePerGeneration' BY <2>4 DEF ResolvedOncePerGeneration, NoTask
  <2> QED BY <2>1, <2>2, <2>3, <2>5, <2>6, <2>7, <2>8 DEF Safe
<1> QED BY <1>1, <1>2, <1>3

-----------------------------------------------------------------------------
(* Theorems. *)

LEMMA StepKeepsIInv == IInv /\ [Next]_vars => IInv'
<1> SUFFICES ASSUME IInv, [Next]_vars PROVE IInv' OBVIOUS
<1>1. TypeOK BY DEF IInv
<1>2. Live => source \in Sources BY DEF IInv, Safe, Control
<1>3. CASE \E s \in Sources, m \in Modes : Start(s, m)
  BY <1>1, <1>3, WorldType, StartSafe DEF IInv
<1>4. CASE MainStep \/ Interrupted BY <1>1, <1>2, <1>4, MainStepType, MainSafe DEF IInv
<1>5. ASSUME NEW c \in Chunks, TaskStep(c) PROVE IInv'
  <2>1. task[c].pc # "none" => Live
    <3>1. ~Live => task[c] = NoTask BY DEF IInv, Safe, Control, AtRest, Live
    <3> QED BY <3>1 DEF NoTask
  <2>2. TypeOK' BY <1>1, <1>2, <1>5, <2>1, TaskStepType
  <2>3. Safe'
    BY <1>5, NetSafe, WriteSafe, MarkSafe, TaskFlushSafe, TaskSaveSafe DEF TaskStep
  <2> QED BY <2>2, <2>3 DEF IInv
<1>6. CASE Stop \/ Kill \/ Delete BY <1>1, <1>6, WorldType, WorldSafe DEF IInv
<1>7. CASE PowerFails BY <1>1, <1>7, WorldType, PowerSafe DEF IInv
<1>8. CASE UNCHANGED vars
  <2> USE DEF vars, diskVars, urlVars
  <2>1. TypeOK' BY <1>1, <1>8 DEF TypeOK
  <2>2. Control' BY <1>8 DEF IInv, Safe, Control, AtRest, Quiet, Live
  <2>3. FileVouches' /\ LiveVouches'
    BY <1>8 DEF IInv, Safe, FileVouches, LiveVouches, Live, IsState, Holds, Bytes
  <2>4. SnapVouches' BY <1>8 DEF IInv, Safe, SnapVouches, Quiet, IsState, Holds, Bytes
  <2>5. TasksVouch' BY <1>8 DEF IInv, Safe, TasksVouch, TaskVouches, IsState, Holds, Bytes
  <2>6. Covered' BY <1>8 DEF IInv, Safe, Covered, ChunksOf, Intact
  <2>7. RevisionsAgree'
    BY <1>8 DEF IInv, Safe, RevisionsAgree, Revisions, Live, BehindLive, Behind, IsState
  <2>8. CompleteIsComplete' BY <1>8 DEF IInv, Safe, CompleteIsComplete, ChunksOf
  <2>9. ResolvedOncePerGeneration' BY <1>8 DEF IInv, Safe, ResolvedOncePerGeneration
  <2> QED BY <2>1, <2>2, <2>3, <2>4, <2>5, <2>6, <2>7, <2>8, <2>9 DEF IInv, Safe
<1> QED BY <1>3, <1>4, <1>5, <1>6, <1>7, <1>8 DEF Next

LEMMA InvariantHolds == Spec => []IInv
<1>1. Init => IInv BY InitType, InitSafe DEF IInv
<1> QED BY <1>1, StepKeepsIInv, PTL DEF Spec

(* Every variable of a download stays in its type. *)
THEOREM DownloadTypeCorrect == Spec => []TypeOK
<1>1. IInv => TypeOK BY DEF IInv
<1> QED BY <1>1, InvariantHolds, PTL

(* The state file vouches only for bytes that are on the disk and are its   *)
(* source's own, whatever is killed, cleared or resumed and whenever power  *)
(* fails (save_state flushes before it replaces).                           *)
THEOREM StateVouches == Spec => []StateVouchesForDisk
<1>1. IInv => StateVouchesForDisk
  BY DEF IInv, Safe, FileVouches, StateVouchesForDisk, IsState, Holds, Bytes
<1> QED BY <1>1, InvariantHolds, PTL

(* A download reported as complete has every chunk of its own source on the *)
(* disk, also after resuming what other sessions left behind.               *)
THEOREM CompletionSound == Spec => []CompleteIsComplete
<1>1. IInv => CompleteIsComplete BY DEF IInv, Safe
<1> QED BY <1>1, InvariantHolds, PTL

(* No task asks the resolver for a URL that another has just fetched        *)
(* (_refresh_url looks again under its lock).                               *)
THEOREM OneResolution == Spec => []ResolvedOncePerGeneration
<1>1. IInv => ResolvedOncePerGeneration BY DEF IInv, Safe
<1> QED BY <1>1, InvariantHolds, PTL

(* Late saves of older snapshots take back no committed chunk: snapshots    *)
(* are numbered as they are copied, and a later number holds every chunk of *)
(* an earlier one.                                                          *)
THEOREM CommittedNeverShrinks == Spec => CommittedOnlyGrows
<1> DEFINE Grows == /\ file.kind = "state" /\ file'.kind = "state" /\ file.src = file'.src
                    => file.done \subseteq file'.done
<1>1. IInv /\ [Next]_vars => [Grows]_vars
  <2> SUFFICES ASSUME IInv, Next, IsState(file), IsState(file') PROVE file.done \subseteq file'.done
    BY DEF IsState
  <2>1. CASE file' = file BY <2>1
  <2>2. CASE file' = Saved(file, snap) /\ Live
    BY <2>2 DEF Saved, MaySave, IInv, Safe, RevisionsAgree, Revisions, Behind, IsState
  <2>3. ASSUME NEW c \in Chunks, file' = Saved(file, task[c].snap), Live
        PROVE  file.done \subseteq file'.done
    BY <2>3 DEF Saved, MaySave, IInv, Safe, RevisionsAgree, Revisions, Behind, IsState
  <2>4. CASE file' \in {Cleared(file), AfterLoad(file), Cleared(AfterLoad(file))}
    BY <2>4 DEF Cleared, AfterLoad, IsState, NoFile, Bare
  <2>5. CASE MainStep \/ Interrupted
    BY <2>1, <2>2, <2>4, <2>5
    DEF MainStep, Prepare, Submit, SeeFailure, SeeReturns, Interrupted, HandleFailure, Flush,
        Save, SaveFails, Join, Cover, Verify, Finish, Live, diskVars
  <2>6. ASSUME NEW c \in Chunks, TaskStep(c) PROVE file.done \subseteq file'.done
    <3>1. CASE TaskSave(c)
      <4>1. Live BY <3>1, Working DEF TaskSave
      <4> QED BY <2>1, <2>3, <3>1, <4>1 DEF TaskSave
    <3>2. ~TaskSave(c) => file' = file
      BY <2>6 DEF TaskStep, Begin, Attempt, Fetch, LookAtUrl, LockRefresh, Resolve, Write, Mark,
                  TaskFlush, diskVars
    <3> QED BY <2>1, <3>1, <3>2
  <2>7. CASE \E s \in Sources, m \in Modes : Start(s, m) BY <2>1, <2>4, <2>7 DEF Start
  <2>8. CASE Stop \/ Kill \/ PowerFails \/ Delete
    BY <2>1, <2>8 DEF Stop, Kill, PowerFails, Delete, diskVars
  <2> QED BY <2>5, <2>6, <2>7, <2>8 DEF Next
<1> QED BY <1>1, InvariantHolds, PTL DEF Spec, CommittedOnlyGrows
=============================================================================
