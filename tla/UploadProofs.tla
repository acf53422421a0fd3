---------------------------- MODULE UploadProofs ----------------------------
(***************************************************************************)
(* Proofs about Upload for any processes, versions of the file, sizes,     *)
(* workers, attempts, slots and failing saves.  That a token comes with    *)
(* the final chunk holds whatever happens.  That a node is of one content, *)
(* and that a resume state vouches only for what its slot holds, are       *)
(* proved from the promise of the upload lease, that no two uploads work   *)
(* on one resume state; and that promise is proved for files whose         *)
(* versions are all of one size, because the size names lease and state.   *)
(***************************************************************************)
EXTENDS Upload, TLAPS

-----------------------------------------------------------------------------
(* The inductive invariant: what holds with or without the lease. *)

IsState(f) == f.kind = "state"

Working == {"loop", "wait", "failsave", "join", "refresh", "refused", "refreshsave", "token",
            "register", "clear"}
Pool == {"wait", "failsave", "join", "refresh"}
Quiet == {"token", "register", "clear"}
Busy == {"queued", "ready", "post", "mark", "save"}

TokenRule(f) == IsState(f) => f.token = IF f.size \in f.done THEN f.slot ELSE 0

TaskBase(r, t, c, v) ==
    /\ t.pc \in Busy => r.pc \in Pool
    /\ t.pc \in Busy \ {"save"} => c \in ChunksOf(r.size) \ r.live.done
    /\ t.pc \in {"post", "mark"} => t.got \in r.ident .. v
    /\ TokenRule(t.snap)

\* There is something to send, read from a version of the file.
Known(r) == r.pc \in {"hashed", "request"} => r.ident \in Sources /\ r.size \in 1 .. NumChunks

ProcBase(r, ts, v) ==
    /\ Known(r)
    /\ r.pc \in Working => IsState(r.live) /\ r.live.src = r.ident /\ r.live.size = r.size
    /\ r.pc \notin Working => /\ r.live = NoFile /\ r.snap = NoFile
                              /\ ts = [c \in Chunks |-> NoTask]
    /\ r.pc \in Quiet => \A c \in Chunks : ts[c].pc \in {"none", "returned"}
    /\ r.ident <= v
    /\ TokenRule(r.live) /\ TokenRule(r.snap)
    /\ \A c \in Chunks : TaskBase(r, ts[c], c, v)

Base == /\ \A p \in Procs : ProcBase(proc[p], task[p], version)
        /\ \A n \in 0 .. NumChunks : TokenRule(stored[n])

-----------------------------------------------------------------------------
(* The inductive invariant: what holds as long as the lease keeps its promise. *)

\* An earlier copy of one upload's state.
Partial(f, g) ==
    /\ IsState(f) /\ IsState(g) /\ f.slot = g.slot /\ f.key = g.key /\ f.src = g.src
    /\ f.done \subseteq g.done /\ \A c \in f.done : f.mac[c] = g.mac[c]

Vouched(f, b, v) ==
    IsState(f) => \A c \in f.done : /\ b[f.slot][c] = [key |-> f.key, ver |-> f.mac[c]]
                                    /\ f.mac[c] \in f.src .. v

ProcLease(r, ts, b, v, top) ==
    /\ IsState(r.live) => r.live.slot <= top
    /\ Vouched(r.live, b, v)
    /\ IsState(r.snap) => Partial(r.snap, r.live)
    /\ r.pc = "register" => \A c \in r.live.done : r.live.mac[c] = r.ident
    /\ \A c \in Chunks : /\ IsState(ts[c].snap) => Partial(ts[c].snap, r.live)
                         /\ ts[c].pc = "mark" =>
                              b[r.live.slot][c] = [key |-> r.live.key, ver |-> ts[c].got]

\* No slot is worked on twice, nor kept in two resume states.
Apart == /\ \A p, q \in Procs : IsState(proc[p].live) /\ IsState(proc[q].live) /\ p # q
                                => proc[p].live.slot # proc[q].live.slot
         /\ \A n, m \in 0 .. NumChunks : IsState(stored[n]) /\ IsState(stored[m]) /\ n # m
                                => stored[n].slot # stored[m].slot

\* The resume state that holds an upload's slot is the one of that upload, and behind it.
Kept == \A n \in 0 .. NumChunks, p \in Procs :
          IsState(stored[n]) /\ IsState(proc[p].live) /\ stored[n].slot = proc[p].live.slot
            => n = proc[p].path /\ Partial(stored[n], proc[p].live)

Leased == /\ \A p \in Procs : ProcLease(proc[p], task[p], body, version, slots)
          /\ \A n \in 0 .. NumChunks : /\ IsState(stored[n]) => stored[n].slot <= slots
                                       /\ Vouched(stored[n], body, version)
          /\ Apart /\ Kept

BaseInv == TypeOK /\ Base

LeaseInv == Leased /\ NodeOfOneContent

-----------------------------------------------------------------------------
(* Types. *)

LEMMA BareTypes ==
    /\ NoFile \in Bares /\ NoFile \in States /\ ~IsState(NoFile)
    /\ \A f \in Bares : f \in States /\ ~IsState(f)
    /\ \A f \in UploadStates : f \in States /\ IsState(f)
    /\ \A f \in States : IsState(f) => f \in UploadStates
BY DEF NoFile, Bares, Bare, States, UploadStates, IsState

LEMMA StateTypes ==
    /\ \A f \in States : AfterLoad(f) \in States /\ Cleared(f) \in States
    /\ \A f, g \in States : Saved(f, g) \in States
BY BareTypes DEF AfterLoad, Cleared, Saved

LEMMA SnapshotFacts ==
    ASSUME NEW f \in UploadStates
    PROVE  /\ Snapshot(f) \in UploadStates
           /\ Snapshot(f).src = f.src /\ Snapshot(f).size = f.size /\ Snapshot(f).done = f.done
           /\ Snapshot(f).mac = f.mac /\ Snapshot(f).slot = f.slot /\ Snapshot(f).key = f.key
           /\ Snapshot(f).token = f.token
BY DEF UploadStates, Snapshot

LEMMA VersionTypes ==
    /\ \A v \in Sources : v \in Nat /\ v \in Int /\ v >= 1
    /\ NoSource = 0 /\ NoSource \notin Sources
    /\ \A v \in Sources \cup {NoSource} : v \in Nat
    /\ \A v \in Sources : Size[v] \in 0 .. NumChunks
BY UploadAssumption, StateAssumption

LEMMA FreshFacts ==
    ASSUME NEW v \in Sources, NEW n \in 1 .. NumChunks, NEW s \in Slots
    PROVE  LET f == FreshUpload(v, n, s) IN
           /\ f \in UploadStates /\ f.src = v /\ f.size = n /\ f.done = {} /\ f.slot = s
           /\ f.key = s /\ f.token = 0
BY DEF FreshUpload, UploadStates

LEMMA RefreshedFacts ==
    ASSUME NEW f \in UploadStates, NEW s \in Slots
    PROVE  LET g == Refreshed(f, s) IN
           /\ g \in UploadStates /\ g.src = f.src /\ g.size = f.size /\ g.done = {} /\ g.slot = s
           /\ g.token = 0
<1>1. Snapshot(f) \in UploadStates BY SnapshotFacts
<1>2. [c \in Chunks |-> NoSource] \in [Chunks -> Sources \cup {NoSource}] OBVIOUS
<1> QED BY <1>1, <1>2, SnapshotFacts DEF Refreshed, UploadStates

LEMMA RecordedFacts ==
    ASSUME NEW f \in UploadStates, NEW c \in Chunks, NEW v \in Sources \cup {NoSource}
    PROVE  LET g == Recorded(f, c, v) IN
           /\ g \in UploadStates /\ g.src = f.src /\ g.size = f.size /\ g.slot = f.slot
           /\ g.key = f.key /\ g.done = f.done \cup {c}
           /\ g.mac = [f.mac EXCEPT ![c] = v]
           /\ g.token = IF c = f.size /\ f.token = 0 THEN f.slot ELSE f.token
<1>1. /\ Marked(f, c) \in UploadStates /\ Marked(f, c).done = f.done \cup {c}
      /\ Marked(f, c).src = f.src /\ Marked(f, c).size = f.size /\ Marked(f, c).slot = f.slot
      /\ Marked(f, c).key = f.key /\ Marked(f, c).mac = f.mac /\ Marked(f, c).token = f.token
  BY DEF Marked, UploadStates
<1>2. [f.mac EXCEPT ![c] = v] \in [Chunks -> Sources \cup {NoSource}] BY DEF UploadStates
<1> QED BY <1>1, <1>2 DEF Recorded, Final, UploadStates

LEMMA NoTaskType == NoTask \in TaskRecord /\ \A w \in TaskPCs : At(w) \in TaskRecord
BY BareTypes, UploadAssumption DEF NoTask, At, TaskRecord, TaskPCs, Running

LEMMA AtFacts == \A w : At(w).pc = w /\ At(w).got = NoSource /\ At(w).snap = NoFile
BY DEF At, NoTask

LEMMA IdleType == Idle \in ProcRecord
BY BareTypes, StateAssumption DEF Idle, ProcRecord, MainPCs

LEMMA InitType == Init => TypeOK
<1> SUFFICES ASSUME Init PROVE TypeOK OBVIOUS
<1>1. version \in Sources BY UploadAssumption DEF Init
<1>2. stored \in [0 .. NumChunks -> States]
  <2>1. PICK f \in Bares : stored = [n \in 0 .. NumChunks |-> f] BY DEF Init
  <2> QED BY <2>1, BareTypes
<1>3. proc \in [Procs -> ProcRecord] BY IdleType DEF Init
<1>4. task \in [Procs -> [Chunks -> TaskRecord]] BY NoTaskType DEF Init
<1>5. Nothing \in [key : 0 .. MaxSlots, ver : Sources \cup {NoSource}]
  BY UploadAssumption DEF Nothing
<1>6. sessions \in 0 .. MaxSessions /\ slots \in 0 .. MaxSlots BY UploadAssumption DEF Init
<1> QED BY <1>1, <1>2, <1>3, <1>4, <1>5, <1>6 DEF Init, TypeOK

-----------------------------------------------------------------------------
(* A step of one process. *)

NoTasks == [c \in Chunks |-> NoTask]

Steps(p, r, ts) ==
    /\ proc' = [proc EXCEPT ![p] = r] /\ task' = [task EXCEPT ![p] = ts]
    /\ r \in ProcRecord /\ ts \in [Chunks -> TaskRecord]

\* The upload goes on with the same slot and resume state, or is over, or has none yet.
Extends(old, r) ==
    \/ ~IsState(r.live)
    \/ r.path = old.path /\ Partial(old.live, r.live)

\* The step leaves what the invariant says of the process.
OwnMove(p) ==
    \E r, ts : /\ Steps(p, r, ts) /\ ProcBase(r, ts, version) /\ Extends(proc[p], r)
               /\ ProcLease(proc[p], task[p], body, version, slots)
                    => ProcLease(r, ts, body, version, slots)

BaseMove(p) == \E r, ts : Steps(p, r, ts) /\ ProcBase(r, ts, version)

\* What the step makes of the resume states.
Stores(p) ==
    \/ stored' = stored
    \/ \E n \in 0 .. NumChunks, x \in States :
         /\ stored' = [stored EXCEPT ![n] = x]
         /\ \/ x = stored[n] \/ ~IsState(x)
            \/ /\ n = proc[p].path /\ TokenRule(x)
               /\ Leased => Partial(x, proc[p].live)

LEMMA StepsApplied ==
    ASSUME TypeOK, NEW p \in Procs, NEW r, NEW ts, Steps(p, r, ts)
    PROVE  /\ proc'[p] = r /\ task'[p] = ts
           /\ \A q \in Procs : q # p => proc'[q] = proc[q] /\ task'[q] = task[q]
           /\ proc' \in [Procs -> ProcRecord] /\ task' \in [Procs -> [Chunks -> TaskRecord]]
BY DEF TypeOK, Steps

LEMMA StoresApplied ==
    ASSUME TypeOK, NEW p \in Procs, Stores(p)
    PROVE  /\ stored' \in [0 .. NumChunks -> States]
           /\ \A n \in 0 .. NumChunks :
                \/ stored'[n] = stored[n] \/ ~IsState(stored'[n])
                \/ /\ n = proc[p].path /\ TokenRule(stored'[n])
                   /\ Leased => Partial(stored'[n], proc[p].live)
BY DEF TypeOK, Stores

LEMMA OwnBase ==
    ASSUME TypeOK, Base, NEW p \in Procs, BaseMove(p), Stores(p), version' = version
    PROVE  Base'
<1>1. PICK r, ts : Steps(p, r, ts) /\ ProcBase(r, ts, version) BY DEF BaseMove
<1>2. ASSUME NEW q \in Procs PROVE ProcBase(proc'[q], task'[q], version)
  BY <1>1, StepsApplied DEF Base
<1>3. \A n \in 0 .. NumChunks : TokenRule(stored'[n])
  BY StoresApplied DEF Base, TokenRule
<1>4. \A q \in Procs : ProcBase(proc[q], task[q], version)'
  <2> SUFFICES ASSUME NEW q \in Procs PROVE ProcBase(proc[q], task[q], version)' OBVIOUS
  <2>1. ProcBase(proc'[q], task'[q], version) BY <1>2
  <2> QED BY <2>1 DEF ProcBase, TaskBase, TokenRule, IsState, ChunksOf, Known
<1>5. \A n \in 0 .. NumChunks : TokenRule(stored[n])' BY <1>3 DEF TokenRule, IsState
<1> QED BY <1>4, <1>5 DEF Base

LEMMA PartialFacts ==
    /\ \A f : IsState(f) => Partial(f, f)
    /\ \A f, g, h : Partial(f, g) /\ Partial(g, h) => Partial(f, h)
    /\ \A f, g, b, v : Partial(f, g) /\ Vouched(g, b, v) => Vouched(f, b, v)
BY DEF Partial, Vouched

LEMMA OwnLease ==
    ASSUME TypeOK, Leased, NEW p \in Procs, OwnMove(p), Stores(p), version' = version,
           body' = body, slots' \in Nat, slots' >= slots
    PROVE  Leased'
<1>1. PICK r, ts : /\ Steps(p, r, ts) /\ Extends(proc[p], r)
                   /\ ProcLease(r, ts, body, version, slots)
  BY DEF OwnMove, Leased
<1>2. /\ proc'[p] = r /\ task'[p] = ts
      /\ \A q \in Procs : q # p => proc'[q] = proc[q] /\ task'[q] = task[q]
  BY <1>1, StepsApplied
<1>3. \A n \in 0 .. NumChunks :
        \/ stored'[n] = stored[n] \/ ~IsState(stored'[n])
        \/ n = proc[p].path /\ Partial(stored'[n], proc[p].live)
  BY StoresApplied
<1>4. slots \in Nat /\ (\A f \in States : IsState(f) => f.slot \in Nat)
  <2>1. slots \in Nat BY DEF TypeOK
  <2> QED BY <2>1, BareTypes DEF UploadStates, Slots
<1>5. \A q \in Procs : proc[q].live \in States /\ proc'[q].live \in States
  BY <1>1, StepsApplied DEF TypeOK, ProcRecord
<1>6. ASSUME NEW q \in Procs PROVE ProcLease(proc'[q], task'[q], body, version, slots')
  <2>1. ProcLease(proc'[q], task'[q], body, version, slots) BY <1>1, <1>2 DEF Leased
  <2>2. IsState(proc'[q].live) => proc'[q].live.slot <= slots'
    BY <1>4, <1>5, <2>1 DEF ProcLease
  <2> QED BY <2>1, <2>2 DEF ProcLease
<1>7. \A q \in Procs : IsState(proc'[q].live) =>
        /\ IsState(proc[q].live) /\ proc'[q].path = proc[q].path
        /\ Partial(proc[q].live, proc'[q].live)
  BY <1>1, <1>2, PartialFacts DEF Extends, Partial
<1>8. \A q \in Procs : IsState(proc'[q].live) => proc'[q].live.slot = proc[q].live.slot
  BY <1>7 DEF Partial
<1>9. ASSUME NEW n \in 0 .. NumChunks, IsState(stored'[n])
      PROVE  /\ stored'[n].slot <= slots' /\ Vouched(stored'[n], body, version)
             /\ \/ IsState(stored[n]) /\ stored'[n] = stored[n]
                \/ /\ n = proc[p].path /\ IsState(proc[p].live)
                   /\ Partial(stored'[n], proc[p].live)
  <2>1. CASE stored'[n] = stored[n]
    <3>1. stored[n] \in States BY DEF TypeOK
    <3> QED BY <1>4, <1>9, <2>1, <3>1 DEF Leased
  <2>2. CASE n = proc[p].path /\ Partial(stored'[n], proc[p].live)
    <3>1. IsState(proc[p].live) /\ stored'[n].slot = proc[p].live.slot BY <2>2 DEF Partial
    <3>2. ProcLease(proc[p], task[p], body, version, slots) BY DEF Leased
    <3>3. stored'[n].slot <= slots' BY <1>4, <1>5, <3>1, <3>2 DEF ProcLease
    <3>4. Vouched(stored'[n], body, version) BY <2>2, <3>2, PartialFacts DEF ProcLease
    <3> QED BY <2>2, <3>1, <3>3, <3>4
  <2> QED BY <1>3, <1>9, <2>1, <2>2
<1>10. ASSUME NEW n \in 0 .. NumChunks, NEW q \in Procs, IsState(stored'[n]), IsState(proc'[q].live),
              stored'[n].slot = proc'[q].live.slot
       PROVE  n = proc'[q].path /\ Partial(stored'[n], proc'[q].live)
  <2>1. /\ IsState(proc[q].live) /\ proc'[q].path = proc[q].path
        /\ Partial(proc[q].live, proc'[q].live) /\ proc'[q].live.slot = proc[q].live.slot
    BY <1>7, <1>8, <1>10
  <2>2. CASE IsState(stored[n]) /\ stored'[n] = stored[n]
    <3>1. n = proc[q].path /\ Partial(stored[n], proc[q].live)
      BY <1>10, <2>1, <2>2 DEF Leased, Kept
    <3> QED BY <2>1, <2>2, <3>1, PartialFacts
  <2>3. CASE n = proc[p].path /\ IsState(proc[p].live) /\ Partial(stored'[n], proc[p].live)
    <3>1. stored'[n].slot = proc[p].live.slot BY <2>3 DEF Partial
    <3>2. p = q BY <1>10, <2>1, <2>3, <3>1 DEF Leased, Apart
    <3> QED BY <2>1, <2>3, <3>2, PartialFacts
  <2> QED BY <1>9, <1>10, <2>2, <2>3
<1>11. ASSUME NEW n \in 0 .. NumChunks, NEW m \in 0 .. NumChunks, n # m,
              IsState(stored'[n]), IsState(stored'[m])
       PROVE  stored'[n].slot # stored'[m].slot
  <2> DEFINE Old(k) == IsState(stored[k]) /\ stored'[k] = stored[k]
             New(k) == /\ k = proc[p].path /\ IsState(proc[p].live)
                       /\ stored'[k].slot = proc[p].live.slot
  <2>1. \A k \in {n, m} : Old(k) \/ New(k) BY <1>9, <1>11 DEF Partial
  <2>2. ASSUME NEW k \in 0 .. NumChunks, NEW l \in 0 .. NumChunks, k # l, Old(k), New(l)
        PROVE  stored'[k].slot # stored'[l].slot
    BY <2>2 DEF Leased, Kept
  <2>3. CASE Old(n) /\ Old(m) BY <1>11, <2>3 DEF Leased, Apart
  <2> QED BY <1>11, <2>1, <2>2, <2>3
<1>12. ASSUME NEW q \in Procs, NEW u \in Procs, q # u, IsState(proc'[q].live), IsState(proc'[u].live)
       PROVE  proc'[q].live.slot # proc'[u].live.slot
  BY <1>7, <1>8, <1>12 DEF Leased, Apart
<1>13. (\A q \in Procs : ProcLease(proc[q], task[q], body, version, slots))'
  <2> SUFFICES ASSUME NEW q \in Procs PROVE ProcLease(proc[q], task[q], body, version, slots)' OBVIOUS
  <2>1. ProcLease(proc'[q], task'[q], body, version, slots') BY <1>6
  <2> QED BY <2>1 DEF ProcLease, Vouched, Partial, IsState
<1>14. (\A n \in 0 .. NumChunks : /\ IsState(stored[n]) => stored[n].slot <= slots
                                  /\ Vouched(stored[n], body, version))'
  BY <1>9 DEF Vouched, IsState
<1>15. Apart' BY <1>11, <1>12 DEF Apart, IsState
<1>16. Kept' BY <1>10 DEF Kept, IsState, Partial
<1> QED BY <1>13, <1>14, <1>15, <1>16 DEF Leased

-----------------------------------------------------------------------------
(* Steps that leave the resume state in memory as it is. *)

\* One state, whether or not it has been saved since.
Same(f, g) ==
    \/ f = g
    \/ /\ f \in UploadStates /\ g \in UploadStates /\ f.src = g.src /\ f.size = g.size
       /\ f.done = g.done /\ f.mac = g.mac /\ f.slot = g.slot /\ f.key = g.key /\ f.token = g.token

LEMMA SnapshotSame == ASSUME NEW f \in UploadStates PROVE Same(Snapshot(f), f)
BY SnapshotFacts DEF Same

LEMMA SameState ==
    ASSUME NEW f, NEW g, Same(f, g), IsState(g)
    PROVE  /\ IsState(f) /\ (TokenRule(g) => TokenRule(f))
           /\ f.src = g.src /\ f.size = g.size /\ f.done = g.done /\ f.mac = g.mac
           /\ f.slot = g.slot /\ f.key = g.key
           /\ Partial(f, g) /\ Partial(g, f)
<1>1. CASE f = g BY <1>1 DEF Partial
<1>2. CASE f # g
  <2>1. IsState(f) BY <1>2, BareTypes DEF Same
  <2> QED BY <1>2, <2>1 DEF Same, TokenRule, Partial
<1> QED BY <1>1, <1>2

\* An upload that has no resume state yet, or none any more.
LEMMA RestMove ==
    ASSUME TypeOK, NEW p \in Procs, NEW r \in ProcRecord, Steps(p, r, NoTasks),
           r.pc \notin Working, r.live = NoFile, r.snap = NoFile, r.ident <= version, Known(r)
    PROVE  OwnMove(p) /\ BaseMove(p)
<1>1. \A c \in Chunks : TaskBase(r, NoTasks[c], c, version)
  BY BareTypes DEF TaskBase, NoTasks, NoTask, TokenRule, Busy
<1>2. ProcBase(r, NoTasks, version)
  BY <1>1, BareTypes DEF ProcBase, TokenRule, NoTasks, Working, Quiet
<1>3. ProcLease(r, NoTasks, body, version, slots)
  BY BareTypes DEF ProcLease, Vouched, NoTasks, NoTask, Working
<1>4. Extends(proc[p], r) BY BareTypes DEF Extends
<1> QED BY <1>2, <1>3, <1>4 DEF OwnMove, BaseMove

LEMMA NoTasksType == NoTasks \in [Chunks -> TaskRecord]
BY NoTaskType DEF NoTasks

LEMMA OverMove ==
    ASSUME TypeOK, NEW p \in Procs, Over(p)
    PROVE  OwnMove(p) /\ BaseMove(p)
<1>1. Steps(p, Idle, NoTasks) BY NoTasksType, IdleType DEF Over, Steps, NoTasks
<1>2. Idle.ident <= version BY VersionTypes DEF Idle, TypeOK
<1> QED BY <1>1, <1>2, IdleType, RestMove DEF Idle, Working, Known

\* The main thread goes on; the tasks are left alone.
LEMMA MainMove ==
    ASSUME TypeOK, Base, NEW p \in Procs, NEW r \in ProcRecord,
           proc' = [proc EXCEPT ![p] = r], task' = task,
           proc[p].pc \in Working, r.pc \in Working,
           r.ident = proc[p].ident, r.size = proc[p].size, r.path = proc[p].path,
           Same(r.live, proc[p].live),
           r.snap \in {NoFile, proc[p].snap} \/ Same(r.snap, proc[p].live),
           r.pc \in Quiet => \A c \in Chunks : task[p][c].pc \in {"none", "returned"},
           r.pc \in Pool \/ \A c \in Chunks : task[p][c].pc \notin Busy,
           Vouched(proc[p].live, body, version) /\ r.pc = "register"
              => proc[p].pc = "register" \/ \A c \in proc[p].live.done : proc[p].live.mac[c] = r.ident
    PROVE  OwnMove(p) /\ BaseMove(p)
<1> DEFINE ts == task[p]
<1>1. Steps(p, r, ts) BY DEF Steps, TypeOK
<1>2. /\ IsState(proc[p].live) /\ proc[p].live.src = proc[p].ident
      /\ proc[p].live.size = proc[p].size /\ proc[p].ident <= version
      /\ TokenRule(proc[p].live) /\ TokenRule(proc[p].snap)
      /\ \A c \in Chunks : TaskBase(proc[p], ts[c], c, version)
  BY DEF Base, ProcBase
<1>3. /\ IsState(r.live) /\ r.live.src = r.ident /\ r.live.size = r.size /\ TokenRule(r.live)
      /\ r.live.done = proc[p].live.done /\ r.live.mac = proc[p].live.mac
      /\ r.live.slot = proc[p].live.slot /\ r.live.key = proc[p].live.key
      /\ Partial(r.live, proc[p].live) /\ Partial(proc[p].live, r.live)
  <2>1. Same(r.live, proc[p].live) OBVIOUS
  <2>2. /\ IsState(r.live) /\ TokenRule(r.live)
        /\ r.live.src = proc[p].live.src /\ r.live.size = proc[p].live.size
        /\ r.live.done = proc[p].live.done /\ r.live.mac = proc[p].live.mac
        /\ r.live.slot = proc[p].live.slot /\ r.live.key = proc[p].live.key
        /\ Partial(r.live, proc[p].live) /\ Partial(proc[p].live, r.live)
    BY <1>2, <2>1, SameState
  <2> QED BY <1>2, <2>2
<1>4. TokenRule(r.snap)
  <2>1. CASE r.snap \in {NoFile, proc[p].snap} BY <1>2, <2>1, BareTypes DEF TokenRule
  <2>2. CASE Same(r.snap, proc[p].live) BY <1>2, <2>2, SameState
  <2> QED BY <2>1, <2>2
<1>5. \A c \in Chunks : TaskBase(r, ts[c], c, version) BY <1>2, <1>3 DEF TaskBase
<1>6. ProcBase(r, ts, version)
  <2> HIDE DEF ts
  <2>1. Known(r) BY DEF Known, Working
  <2> QED BY <1>2, <1>3, <1>4, <1>5, <2>1 DEF ProcBase, ts
<1>7. Extends(proc[p], r) BY <1>3 DEF Extends
<1>8. ASSUME ProcLease(proc[p], ts, body, version, slots)
      PROVE  ProcLease(r, ts, body, version, slots)
  <2>1. Vouched(proc[p].live, body, version) BY <1>8 DEF ProcLease
  <2>2. Vouched(r.live, body, version) BY <1>3, <2>1, PartialFacts
  <2>3. IsState(r.snap) => Partial(r.snap, r.live)
    <3>1. IsState(r.snap) => Partial(r.snap, proc[p].live)
      <4>1. CASE r.snap \in {NoFile, proc[p].snap} BY <1>8, <4>1, BareTypes DEF ProcLease
      <4>2. CASE Same(r.snap, proc[p].live) BY <1>2, <4>2, SameState
      <4> QED BY <4>1, <4>2
    <3> QED BY <1>3, <3>1, PartialFacts, Zenon
  <2>4. \A c \in Chunks : IsState(ts[c].snap) => Partial(ts[c].snap, r.live)
    BY <1>3, <1>8, PartialFacts DEF ProcLease
  <2>5. r.pc = "register" => \A c \in r.live.done : r.live.mac[c] = r.ident
    BY <1>3, <1>8, <2>1 DEF ProcLease
  <2> QED BY <1>2, <1>3, <1>8, <2>2, <2>3, <2>4, <2>5 DEF ProcLease
<1> QED BY <1>1, <1>6, <1>7, <1>8 DEF OwnMove, BaseMove

\* A task goes on; the main thread is left alone.
LEMMA TaskMove ==
    ASSUME TypeOK, Base, NEW p \in Procs, NEW c \in Chunks, NEW t \in TaskRecord,
           proc' = proc, task' = [task EXCEPT ![p][c] = t],
           task[p][c].pc \in Busy, t.snap \in {NoFile, task[p][c].snap},
           t.pc \in Busy \ {"save"} => task[p][c].pc # "save",
           t.pc \in {"post", "mark"} => t.got \in proc[p].ident .. version
    PROVE  BaseMove(p) /\ (t.pc # "mark" => OwnMove(p))
<1> DEFINE ts == [task[p] EXCEPT ![c] = t]
           r == proc[p]
<1>0. task[p] \in [Chunks -> TaskRecord] BY DEF TypeOK
<1>1. Steps(p, r, ts)
  <2>1. proc' = [proc EXCEPT ![p] = r] BY DEF TypeOK
  <2>2. task' = [task EXCEPT ![p] = ts] BY DEF TypeOK
  <2> QED BY <1>0, <2>1, <2>2 DEF Steps, TypeOK
<1>2. \A b \in Chunks : b # c => ts[b] = task[p][b] BY <1>0
<1>3. ts[c] = t BY <1>0
<1>4. ProcBase(r, task[p], version) BY DEF Base
<1>5. TaskBase(r, t, c, version)
  <2>1. TaskBase(r, task[p][c], c, version) BY <1>4 DEF ProcBase
  <2>2. TokenRule(t.snap) BY <2>1, BareTypes DEF TaskBase, TokenRule
  <2> QED BY <2>1, <2>2 DEF TaskBase
<1> HIDE DEF ts, r
<1>6. r.pc \in Pool BY <1>4 DEF ProcBase, TaskBase
<1>7. r.pc \in Working /\ r.pc \notin Quiet BY <1>6 DEF Pool, Working, Quiet
<1>8. \A b \in Chunks : TaskBase(r, ts[b], b, version) BY <1>2, <1>3, <1>4, <1>5 DEF ProcBase
<1>9. ProcBase(r, ts, version) BY <1>4, <1>7, <1>8 DEF ProcBase
<1>10. Extends(proc[p], r)
  <2>1. IsState(proc[p].live) BY <1>4, <1>7 DEF ProcBase, r
  <2> QED BY <2>1, PartialFacts DEF Extends, r
<1>11. ASSUME t.pc # "mark", ProcLease(proc[p], task[p], body, version, slots)
       PROVE  ProcLease(r, ts, body, version, slots)
  BY <1>2, <1>3, <1>11, BareTypes DEF ProcLease, r
<1> QED BY <1>1, <1>9, <1>10, <1>11 DEF OwnMove, BaseMove

LEMMA AtRest ==
    ASSUME TypeOK, Base, NEW p \in Procs, proc[p].pc \notin Working
    PROVE  /\ proc[p].live = NoFile /\ proc[p].snap = NoFile /\ task[p] = NoTasks
           /\ proc[p].ident <= version
BY DEF Base, ProcBase, NoTasks

LEMMA RestStep ==
    ASSUME TypeOK, Base, NEW p \in Procs, NEW r \in ProcRecord,
           proc' = [proc EXCEPT ![p] = r], task' = task,
           proc[p].pc \notin Working, r.pc \notin Working, r.live = proc[p].live,
           r.snap = proc[p].snap, r.ident <= version, Known(r)
    PROVE  OwnMove(p) /\ BaseMove(p)
<1>1. /\ proc[p].live = NoFile /\ proc[p].snap = NoFile /\ task[p] = NoTasks BY AtRest
<1>2. Steps(p, r, NoTasks)
  <2>1. task' = [task EXCEPT ![p] = NoTasks] BY <1>1 DEF TypeOK
  <2> QED BY <2>1, NoTasksType DEF Steps
<1> QED BY <1>1, <1>2, RestMove

LEMMA SizeNowType == TypeOK => SizeNow \in 0 .. NumChunks /\ SizeNow \in -1 .. NumChunks
BY VersionTypes, StateAssumption DEF TypeOK, SizeNow

\* The steps of the main thread before there is a resume state in memory.
LEMMA StartMove ==
    ASSUME BaseInv, NEW p \in Procs, Start(p)
    PROVE  OwnMove(p) /\ BaseMove(p) /\ Stores(p)
<1>0. TypeOK /\ Base BY DEF BaseInv
<1>1. Stores(p) BY DEF Start, Stores
<1>2. proc[p].pc \notin Working BY DEF Start, Live, Working
<1>3. CASE proc' = [proc EXCEPT ![p].pc = "leased", ![p].lock = SizeNow]
  <2> DEFINE r == [proc[p] EXCEPT !.pc = "leased", !.lock = SizeNow]
  <2>1. proc[p] \in ProcRecord BY <1>0 DEF TypeOK
  <2>2. r \in ProcRecord BY <1>0, <2>1, SizeNowType DEF ProcRecord, MainPCs
  <2>3. proc' = [proc EXCEPT ![p] = r] BY <1>0, <1>3 DEF TypeOK, ProcRecord
  <2>4. r.pc = "leased" /\ r.live = proc[p].live /\ r.snap = proc[p].snap /\ r.ident = proc[p].ident
    BY <2>1 DEF ProcRecord
  <2> HIDE DEF r
  <2>5. r.pc \notin Working /\ Known(r) BY <2>4 DEF Working, Known
  <2>6. r.ident <= version BY <1>0, <1>2, <2>4, AtRest
  <2>7. task' = task BY DEF Start
  <2> QED BY <1>0, <1>1, <1>2, <2>2, <2>3, <2>4, <2>5, <2>6, <2>7, RestStep
<1>4. CASE proc' = proc
  <2> DEFINE r == proc[p]
  <2>1. r \in ProcRecord /\ proc' = [proc EXCEPT ![p] = r] BY <1>0, <1>4 DEF TypeOK
  <2>2. r.ident <= version /\ Known(r) BY <1>0, <1>2, AtRest DEF Base, ProcBase
  <2>3. task' = task BY DEF Start
  <2> QED BY <1>0, <1>1, <1>2, <2>1, <2>2, <2>3, RestStep
<1> QED BY <1>3, <1>4 DEF Start

LEMMA TakeSizeMove ==
    ASSUME BaseInv, NEW p \in Procs, TakeSize(p)
    PROVE  OwnMove(p) /\ BaseMove(p) /\ Stores(p)
<1>0. TypeOK /\ Base BY DEF BaseInv
<1>1. Stores(p) BY DEF TakeSize, Stores
<1>2. proc[p].pc \notin Working BY DEF TakeSize, Working
<1>3. CASE /\ proc' = [proc EXCEPT ![p].pc = "sized", ![p].stop = FALSE, ![p].size = SizeNow]
           /\ task' = task
  <2> DEFINE r == [proc[p] EXCEPT !.pc = "sized", !.stop = FALSE, !.size = SizeNow]
  <2>1. proc[p] \in ProcRecord BY <1>0 DEF TypeOK
  <2>2. r \in ProcRecord BY <1>0, <2>1, SizeNowType DEF ProcRecord, MainPCs
  <2>3. proc' = [proc EXCEPT ![p] = r] BY <1>0, <1>3 DEF TypeOK, ProcRecord
  <2>4. r.pc = "sized" /\ r.live = proc[p].live /\ r.snap = proc[p].snap /\ r.ident = proc[p].ident
    BY <2>1 DEF ProcRecord
  <2> HIDE DEF r
  <2>5. r.pc \notin Working /\ Known(r) BY <2>4 DEF Working, Known
  <2>6. r.ident <= version BY <1>0, <1>2, <2>4, AtRest
  <2> QED BY <1>0, <1>1, <1>2, <1>3, <2>2, <2>3, <2>4, <2>5, <2>6, RestStep
<1> QED BY <1>0, <1>1, <1>3, OverMove DEF TakeSize

LEMMA HashMove ==
    ASSUME BaseInv, NEW p \in Procs, Hash(p)
    PROVE  OwnMove(p) /\ BaseMove(p) /\ Stores(p)
<1>0. TypeOK /\ Base BY DEF BaseInv
<1>1. Stores(p) BY DEF Hash, Stores
<1>2. proc[p].pc \notin Working BY DEF Hash, Working
<1> DEFINE where == IF proc[p].size = 0 THEN "emptyslot" ELSE "hashed"
           r == [proc[p] EXCEPT !.ident = version, !.pc = where]
<1>3. CASE proc' = [proc EXCEPT ![p].ident = version, ![p].pc = where] /\ task' = task
  <2>1. proc[p] \in ProcRecord /\ version \in Sources BY <1>0 DEF TypeOK
  <2>2. where \in MainPCs /\ where \notin Working BY DEF MainPCs, Working
  <2> HIDE DEF where
  <2>3. r \in ProcRecord BY <2>1, <2>2 DEF ProcRecord
  <2>4. proc' = [proc EXCEPT ![p] = r] BY <1>0, <1>3 DEF TypeOK, ProcRecord
  <2>5. /\ r.pc = where /\ r.live = proc[p].live /\ r.snap = proc[p].snap /\ r.ident = version
        /\ r.size = proc[p].size
    BY <2>1 DEF ProcRecord
  <2>6. Known(r)
    <3>1. proc[p].size \in 0 .. NumChunks BY <2>1 DEF ProcRecord
    <3>2. where = "hashed" => proc[p].size \in 1 .. NumChunks BY <3>1, StateAssumption DEF where
    <3>3. where # "request" BY DEF where
    <3> HIDE DEF r
    <3> QED BY <2>1, <2>5, <3>2, <3>3 DEF Known
  <2> HIDE DEF r
  <2>7. r.ident <= version BY <2>1, <2>5, VersionTypes
  <2> QED BY <1>0, <1>1, <1>2, <1>3, <2>2, <2>3, <2>4, <2>5, <2>6, <2>7, RestStep
<1> QED BY <1>0, <1>1, <1>3, OverMove DEF Hash

\* The step that resumes an upload is another.
Resumes(p) == \E n \in 0 .. NumChunks :
    /\ IsState(stored[n]) /\ Resumable(stored[n], p) /\ stored' = stored
    /\ proc' = [proc EXCEPT ![p].pc = "loop", ![p].path = n, ![p].live = stored[n]]
    /\ task' = task

LEMMA LoadStateMove ==
    ASSUME BaseInv, NEW p \in Procs, LoadState(p)
    PROVE  Resumes(p) \/ (OwnMove(p) /\ BaseMove(p) /\ Stores(p))
<1>0. TypeOK /\ Base BY DEF BaseInv
<1>1. proc[p].pc \notin Working BY DEF LoadState, Working
<1>2. SizeNow \in 0 .. NumChunks /\ stored[SizeNow] \in States BY <1>0, SizeNowType DEF TypeOK
<1> DEFINE f == AfterLoad(stored[SizeNow])
<1>3. f \in States /\ (f = stored[SizeNow] \/ ~IsState(f))
  BY <1>2, StateTypes, BareTypes DEF AfterLoad
<1>4. CASE /\ Resumable(f, p)
           /\ proc' = [proc EXCEPT ![p].pc = "loop", ![p].path = SizeNow, ![p].live = f]
           /\ stored' = [stored EXCEPT ![SizeNow] = f] /\ task' = task
  <2>1. IsState(f) /\ f = stored[SizeNow] BY <1>3, <1>4 DEF Resumable, IsState
  <2>2. stored' = stored BY <1>0, <1>4, <2>1 DEF TypeOK
  <2> QED BY <1>2, <1>4, <2>1, <2>2 DEF Resumes
<1>5. CASE /\ proc' = [proc EXCEPT ![p].pc = "request", ![p].path = SizeNow]
           /\ stored' = [stored EXCEPT ![SizeNow] = Cleared(f)] /\ task' = task /\ f.kind # "newer"
  <2> DEFINE r == [proc[p] EXCEPT !.pc = "request", !.path = SizeNow]
  <2>1. proc[p] \in ProcRecord BY <1>0 DEF TypeOK
  <2>2. r \in ProcRecord BY <1>2, <2>1 DEF ProcRecord, MainPCs
  <2>3. proc' = [proc EXCEPT ![p] = r] BY <1>0, <1>5 DEF TypeOK, ProcRecord
  <2>4. /\ r.pc = "request" /\ r.live = proc[p].live /\ r.snap = proc[p].snap
        /\ r.ident = proc[p].ident /\ r.size = proc[p].size
    BY <2>1 DEF ProcRecord
  <2>5. Cleared(f) \in States /\ ~IsState(Cleared(f)) BY <1>5, BareTypes DEF Cleared
  <2>6. Stores(p) BY <1>2, <1>5, <2>5 DEF Stores
  <2> HIDE DEF r, f
  <2>7. r.pc \notin Working /\ Known(r)
    BY <1>0, <2>4 DEF Working, Known, Base, ProcBase, LoadState
  <2>8. r.ident <= version BY <1>0, <1>1, <2>4, AtRest
  <2> QED BY <1>0, <1>1, <1>5, <2>2, <2>3, <2>4, <2>6, <2>7, <2>8, RestStep
<1>6. CASE Over(p) /\ stored' = stored BY <1>0, <1>6, OverMove DEF Stores
<1> QED BY <1>4, <1>5, <1>6 DEF LoadState

\* The main thread's next place, before there is a resume state in memory.
LEMMA RestGoto ==
    ASSUME TypeOK, Base, NEW p \in Procs, NEW where \in MainPCs \ (Working \cup {"hashed", "request"}),
           Goto(p, where),
           task' = task, proc[p].pc \notin Working
    PROVE  OwnMove(p) /\ BaseMove(p)
<1> DEFINE r == [proc[p] EXCEPT !.pc = where]
<1>1. proc[p] \in ProcRecord BY DEF TypeOK
<1>2. r \in ProcRecord BY <1>1 DEF ProcRecord
<1>3. proc' = [proc EXCEPT ![p] = r] BY DEF Goto, TypeOK, ProcRecord
<1>4. r.pc = where /\ r.live = proc[p].live /\ r.snap = proc[p].snap /\ r.ident = proc[p].ident
  BY <1>1 DEF ProcRecord
<1> HIDE DEF r
<1>5. r.ident <= version /\ Known(r) BY <1>4, AtRest DEF Known
<1> QED BY <1>2, <1>3, <1>4, <1>5, RestStep

LEMMA EmptySlotMove ==
    ASSUME BaseInv, NEW p \in Procs, EmptySlot(p)
    PROVE  OwnMove(p) /\ BaseMove(p) /\ Stores(p)
<1>0. TypeOK /\ Base BY DEF BaseInv
<1>1. Stores(p) BY DEF EmptySlot, Stores
<1>2. proc[p].pc \notin Working /\ "emptypost" \in MainPCs \ (Working \cup {"hashed", "request"})
  BY DEF EmptySlot, Working, MainPCs
<1>3. CASE Goto(p, "emptypost") /\ task' = task BY <1>0, <1>1, <1>2, <1>3, RestGoto
<1> QED BY <1>0, <1>1, <1>3, OverMove DEF EmptySlot

LEMMA EmptyPostMove ==
    ASSUME BaseInv, NEW p \in Procs, EmptyPost(p)
    PROVE  OwnMove(p) /\ BaseMove(p) /\ Stores(p)
<1>0. TypeOK /\ Base BY DEF BaseInv
<1>1. Stores(p) BY DEF EmptyPost, Stores
<1>2. proc[p].pc \notin Working /\ "emptycheck" \in MainPCs \ (Working \cup {"hashed", "request"})
  BY DEF EmptyPost, Working, MainPCs
<1>3. CASE Goto(p, "emptycheck") /\ task' = task BY <1>0, <1>1, <1>2, <1>3, RestGoto
<1>4. CASE proc' = [proc EXCEPT ![p].pc = "emptyslot", ![p].refreshed = TRUE] /\ task' = task
  <2> DEFINE r == [proc[p] EXCEPT !.pc = "emptyslot", !.refreshed = TRUE]
  <2>1. proc[p] \in ProcRecord BY <1>0 DEF TypeOK
  <2>2. r \in ProcRecord BY <2>1 DEF ProcRecord, MainPCs
  <2>3. proc' = [proc EXCEPT ![p] = r] BY <1>0, <1>4 DEF TypeOK, ProcRecord
  <2>4. r.pc = "emptyslot" /\ r.live = proc[p].live /\ r.snap = proc[p].snap /\ r.ident = proc[p].ident
    BY <2>1 DEF ProcRecord
  <2> HIDE DEF r
  <2>5. r.pc \notin Working /\ Known(r) BY <2>4 DEF Working, Known
  <2>6. r.ident <= version BY <1>0, <1>2, <2>4, AtRest
  <2> QED BY <1>0, <1>1, <1>2, <1>4, <2>2, <2>3, <2>4, <2>5, <2>6, RestStep
<1> QED BY <1>0, <1>1, <1>3, <1>4, OverMove DEF EmptyPost

LEMMA EmptyCheckMove ==
    ASSUME BaseInv, NEW p \in Procs, EmptyCheck(p)
    PROVE  OwnMove(p) /\ BaseMove(p) /\ Stores(p)
<1>0. TypeOK /\ Base BY DEF BaseInv
<1>1. Stores(p) BY DEF EmptyCheck, Stores
<1>2. proc[p].pc \notin Working /\ "emptyregister" \in MainPCs \ (Working \cup {"hashed", "request"})
  BY DEF EmptyCheck, Working, MainPCs
<1>3. CASE Goto(p, "emptyregister") /\ task' = task BY <1>0, <1>1, <1>2, <1>3, RestGoto
<1> QED BY <1>0, <1>1, <1>3, OverMove DEF EmptyCheck

LEMMA EmptyRegisterMove ==
    ASSUME BaseInv, NEW p \in Procs, EmptyRegister(p)
    PROVE  OwnMove(p) /\ BaseMove(p) /\ Stores(p)
BY OverMove DEF BaseInv, EmptyRegister, Stores

LEMMA JoinMove ==
    ASSUME BaseInv, NEW p \in Procs, Join(p) \/ Kill(p)
    PROVE  OwnMove(p) /\ BaseMove(p) /\ Stores(p)
BY OverMove DEF BaseInv, Join, Kill, Stores

-----------------------------------------------------------------------------
(* The main thread during and after the transfer. *)

\* The main thread's next place, with a resume state in memory.
LEMMA WorkGoto ==
    ASSUME TypeOK, Base, NEW p \in Procs, NEW where \in MainPCs \cap Working, Goto(p, where),
           task' = task, proc[p].pc \in Working,
           where \in Quiet => \A c \in Chunks : task[p][c].pc \in {"none", "returned"},
           where \in Pool \/ \A c \in Chunks : task[p][c].pc \notin Busy,
           Vouched(proc[p].live, body, version) /\ where = "register"
              => \A c \in proc[p].live.done : proc[p].live.mac[c] = proc[p].ident
    PROVE  OwnMove(p) /\ BaseMove(p)
<1> DEFINE r == [proc[p] EXCEPT !.pc = where]
<1>1. proc[p] \in ProcRecord BY DEF TypeOK
<1>2. r \in ProcRecord BY <1>1 DEF ProcRecord
<1>3. proc' = [proc EXCEPT ![p] = r] BY DEF Goto, TypeOK, ProcRecord
<1>4. /\ r.pc = where /\ r.live = proc[p].live /\ r.snap = proc[p].snap /\ r.ident = proc[p].ident
      /\ r.size = proc[p].size /\ r.path = proc[p].path
  BY <1>1 DEF ProcRecord
<1>5. Same(r.live, proc[p].live) BY <1>4 DEF Same
<1> HIDE DEF r
<1> QED BY <1>2, <1>3, <1>4, <1>5, MainMove

LEMMA SeeReturnsMove ==
    ASSUME BaseInv, NEW p \in Procs, SeeReturns(p)
    PROVE  OwnMove(p) /\ BaseMove(p) /\ Stores(p)
<1>1. Stores(p) BY DEF SeeReturns, Stores
<1>2. proc[p].pc \in Working /\ "token" \in MainPCs \cap Working BY DEF SeeReturns, Working, MainPCs
<1>3. \A c \in Chunks : task[p][c].pc \in {"none", "returned"} BY DEF SeeReturns
<1>4. \A c \in Chunks : task[p][c].pc \notin Busy BY <1>3 DEF Busy
<1> QED BY <1>1, <1>2, <1>3, <1>4, WorkGoto DEF SeeReturns, BaseInv

LEMMA InterruptedMove ==
    ASSUME BaseInv, NEW p \in Procs, Interrupted(p)
    PROVE  OwnMove(p) /\ BaseMove(p) /\ Stores(p)
<1>1. Stores(p) BY DEF Interrupted, Stores
<1>2. /\ proc[p].pc \in Working /\ "join" \in MainPCs \cap Working
      /\ "join" \in Pool /\ "join" \notin Quiet
  BY DEF Interrupted, Working, MainPCs, Pool, Quiet
<1> QED BY <1>1, <1>2, WorkGoto DEF Interrupted, BaseInv

\* In these places no task is at work.
LEMMA NoneBusy ==
    ASSUME Base, NEW p \in Procs, proc[p].pc \notin Pool
    PROVE  \A c \in Chunks : task[p][c].pc \notin Busy
BY DEF Base, ProcBase, TaskBase

LEMMA CheckSourceMove ==
    ASSUME BaseInv, NEW p \in Procs, CheckSource(p)
    PROVE  OwnMove(p) /\ BaseMove(p) /\ Stores(p)
<1>0. TypeOK /\ Base BY DEF BaseInv
<1>1. /\ proc[p].pc \in Working /\ "register" \in MainPCs \cap Working
      /\ proc[p].pc \in Quiet /\ proc[p].pc \notin Pool
  BY DEF CheckSource, Working, MainPCs, Quiet, Pool
<1>2. CASE version = proc[p].ident /\ Goto(p, "register") /\ stored' = stored /\ task' = task
  <2>1. ASSUME Vouched(proc[p].live, body, version), NEW c \in proc[p].live.done
        PROVE  proc[p].live.mac[c] = proc[p].ident
    <3>1. /\ IsState(proc[p].live) /\ proc[p].live.src = proc[p].ident
      BY <1>0, <1>1 DEF Base, ProcBase
    <3>2. proc[p].live \in UploadStates BY <1>0, <3>1, BareTypes DEF TypeOK, ProcRecord
    <3>3. proc[p].live.mac[c] \in version .. version BY <1>2, <2>1, <3>1 DEF Vouched
    <3>4. version \in Nat BY <1>0, VersionTypes DEF TypeOK
    <3> QED BY <1>2, <3>3, <3>4
  <2>2. \A c \in Chunks : task[p][c].pc \in {"none", "returned"} BY <1>0, <1>1 DEF Base, ProcBase
  <2>3. \A c \in Chunks : task[p][c].pc \notin Busy BY <1>0, <1>1, NoneBusy
  <2> QED BY <1>0, <1>1, <1>2, <2>1, <2>2, <2>3, WorkGoto DEF Stores
<1>3. CASE stored' = [stored EXCEPT ![proc[p].path] = Cleared(@)] /\ Over(p)
  <2>1. proc[p].path \in 0 .. NumChunks /\ stored[proc[p].path] \in States
    BY <1>0 DEF TypeOK, ProcRecord
  <2> DEFINE x == Cleared(stored[proc[p].path])
  <2>2. x \in States /\ (x = stored[proc[p].path] \/ ~IsState(x))
    BY <2>1, StateTypes, BareTypes DEF Cleared
  <2>3. stored' = [stored EXCEPT ![proc[p].path] = x] BY <1>3
  <2> HIDE DEF x
  <2>4. Stores(p) BY <2>1, <2>2, <2>3 DEF Stores
  <2> QED BY <1>0, <1>3, <2>4, OverMove
<1>4. CASE Over(p) /\ stored' = stored BY <1>0, <1>4, OverMove DEF Stores
<1> QED BY <1>2, <1>3, <1>4 DEF CheckSource

LEMMA FinishMove ==
    ASSUME BaseInv, NEW p \in Procs, Finish(p)
    PROVE  OwnMove(p) /\ BaseMove(p) /\ Stores(p)
<1>0. TypeOK /\ Base BY DEF BaseInv
<1>1. proc[p].path \in 0 .. NumChunks /\ stored[proc[p].path] \in States
  BY <1>0 DEF TypeOK, ProcRecord
<1> DEFINE x == Cleared(stored[proc[p].path])
<1>2. x \in States /\ (x = stored[proc[p].path] \/ ~IsState(x))
  BY <1>1, StateTypes, BareTypes DEF Cleared
<1>3. stored' = [stored EXCEPT ![proc[p].path] = x] BY DEF Finish
<1> HIDE DEF x
<1>4. Stores(p) BY <1>1, <1>2, <1>3 DEF Stores
<1> QED BY <1>0, <1>4, OverMove DEF Finish

LEMMA RegisterMove ==
    ASSUME BaseInv, NEW p \in Procs, Register(p)
    PROVE  OwnMove(p) /\ BaseMove(p) /\ Stores(p)
<1>0. TypeOK /\ Base BY DEF BaseInv
<1>1. Stores(p) BY DEF Register, Stores
<1>2. CASE Goto(p, "clear") /\ task' = task
  <2>1. /\ proc[p].pc \in Working /\ "clear" \in MainPCs \cap Working
        /\ proc[p].pc \in Quiet /\ proc[p].pc \notin Pool
    BY DEF Register, Working, MainPCs, Quiet, Pool
  <2>2. \A c \in Chunks : task[p][c].pc \in {"none", "returned"} BY <1>0, <2>1 DEF Base, ProcBase
  <2>3. \A c \in Chunks : task[p][c].pc \notin Busy BY <1>0, <2>1, NoneBusy
  <2> QED BY <1>0, <1>1, <1>2, <2>1, <2>2, <2>3, WorkGoto
<1> QED BY <1>0, <1>1, <1>2, OverMove DEF Register

LEMMA SaveStores ==
    ASSUME TypeOK, NEW p \in Procs, NEW s \in States, TokenRule(s),
           Leased => (IsState(s) => Partial(s, proc[p].live)),
           stored' = [stored EXCEPT ![proc[p].path] = Saved(@, s)]
    PROVE  Stores(p)
<1>1. proc[p].path \in 0 .. NumChunks /\ stored[proc[p].path] \in States
  BY DEF TypeOK, ProcRecord
<1> DEFINE x == Saved(stored[proc[p].path], s)
<1>2. x \in States /\ (x = stored[proc[p].path] \/ x = s) BY <1>1, StateTypes DEF Saved
<1>3. stored' = [stored EXCEPT ![proc[p].path] = x] OBVIOUS
<1> HIDE DEF x
<1> QED BY <1>1, <1>2, <1>3 DEF Stores

\* What a process holds while it has a resume state in memory.
LEMMA AtWork ==
    ASSUME TypeOK, Base, NEW p \in Procs, proc[p].pc \in Working
    PROVE  /\ proc[p] \in ProcRecord /\ proc[p].live \in UploadStates /\ IsState(proc[p].live)
           /\ proc[p].live.src = proc[p].ident /\ proc[p].live.size = proc[p].size
           /\ proc[p].ident <= version
           /\ TokenRule(proc[p].live) /\ TokenRule(proc[p].snap)
           /\ task[p] \in [Chunks -> TaskRecord]
           /\ \A c \in Chunks : TaskBase(proc[p], task[p][c], c, version)
<1>1. proc[p] \in ProcRecord /\ task[p] \in [Chunks -> TaskRecord] BY DEF TypeOK
<1>2. ProcBase(proc[p], task[p], version) BY DEF Base
<1>3. proc[p].live \in UploadStates BY <1>1, <1>2, BareTypes DEF ProcBase, ProcRecord
<1> QED BY <1>1, <1>2, <1>3 DEF ProcBase

LEMMA FailSaveMove ==
    ASSUME BaseInv, NEW p \in Procs, FailSave(p)
    PROVE  OwnMove(p) /\ BaseMove(p) /\ Stores(p)
<1>0. TypeOK /\ Base BY DEF BaseInv
<1>1. proc[p].pc \in Working BY DEF FailSave, Working
<1>2. Stores(p)
  <2>1. CASE stored' = stored BY <2>1 DEF Stores
  <2>2. CASE stored' = [stored EXCEPT ![proc[p].path] = Saved(@, proc[p].snap)]
    <3>1. proc[p].snap \in States /\ TokenRule(proc[p].snap) BY <1>0, <1>1, AtWork DEF ProcRecord
    <3>2. Leased => (IsState(proc[p].snap) => Partial(proc[p].snap, proc[p].live))
      BY DEF Leased, ProcLease
    <3> QED BY <1>0, <2>2, <3>1, <3>2, SaveStores
  <2> QED BY <2>1, <2>2 DEF FailSave
<1>3. CASE proc' = [proc EXCEPT ![p].pc = "join", ![p].snap = NoFile] /\ task' = task
  <2> DEFINE r == [proc[p] EXCEPT !.pc = "join", !.snap = NoFile]
  <2>1. proc[p] \in ProcRecord BY <1>0 DEF TypeOK
  <2>2. r \in ProcRecord BY <2>1, BareTypes DEF ProcRecord, MainPCs
  <2>3. proc' = [proc EXCEPT ![p] = r] BY <1>0, <1>3 DEF TypeOK, ProcRecord
  <2>4. /\ r.pc = "join" /\ r.live = proc[p].live /\ r.snap = NoFile /\ r.ident = proc[p].ident
        /\ r.size = proc[p].size /\ r.path = proc[p].path
    BY <2>1 DEF ProcRecord
  <2>5. Same(r.live, proc[p].live) BY <2>4 DEF Same
  <2> HIDE DEF r
  <2>6. r.pc \in Working /\ r.pc \in Pool /\ r.pc \notin Quiet /\ r.pc # "register"
    BY <2>4 DEF Working, Pool, Quiet
  <2> QED BY <1>0, <1>1, <1>2, <1>3, <2>2, <2>3, <2>4, <2>5, <2>6, MainMove
<1> QED BY <1>0, <1>2, <1>3, OverMove DEF FailSave

LEMMA RefreshSaveMove ==
    ASSUME BaseInv, NEW p \in Procs, RefreshSave(p)
    PROVE  OwnMove(p) /\ BaseMove(p) /\ Stores(p)
<1>0. TypeOK /\ Base BY DEF BaseInv
<1>1. proc[p].pc \in Working /\ proc[p].pc \notin Pool BY DEF RefreshSave, Working, Pool
<1>2. CASE /\ stored' = [stored EXCEPT ![proc[p].path] = Saved(@, proc[p].snap)]
           /\ proc' = [proc EXCEPT ![p].pc = "loop", ![p].snap = NoFile] /\ task' = task
  <2> DEFINE r == [proc[p] EXCEPT !.pc = "loop", !.snap = NoFile]
  <2>0. Stores(p)
    <3>1. proc[p].snap \in States /\ TokenRule(proc[p].snap) BY <1>0, <1>1, AtWork DEF ProcRecord
    <3>2. Leased => (IsState(proc[p].snap) => Partial(proc[p].snap, proc[p].live))
      BY DEF Leased, ProcLease
    <3> QED BY <1>0, <1>2, <3>1, <3>2, SaveStores
  <2>1. proc[p] \in ProcRecord BY <1>0 DEF TypeOK
  <2>2. r \in ProcRecord BY <2>1, BareTypes DEF ProcRecord, MainPCs
  <2>3. proc' = [proc EXCEPT ![p] = r] BY <1>0, <1>2 DEF TypeOK, ProcRecord
  <2>4. /\ r.pc = "loop" /\ r.live = proc[p].live /\ r.snap = NoFile /\ r.ident = proc[p].ident
        /\ r.size = proc[p].size /\ r.path = proc[p].path
    BY <2>1 DEF ProcRecord
  <2>5. Same(r.live, proc[p].live) BY <2>4 DEF Same
  <2> HIDE DEF r
  <2>6. r.pc \in Working /\ r.pc \notin Quiet /\ r.pc # "register" BY <2>4 DEF Working, Quiet
  <2>7. \A c \in Chunks : task[p][c].pc \notin Busy BY <1>0, <1>1, NoneBusy
  <2> QED BY <1>0, <1>1, <1>2, <2>0, <2>2, <2>3, <2>4, <2>5, <2>6, <2>7, MainMove
<1>3. CASE Over(p) /\ stored' = stored BY <1>0, <1>3, OverMove DEF Stores
<1> QED BY <1>2, <1>3 DEF RefreshSave

LEMMA SeeFailureMove ==
    ASSUME BaseInv, NEW p \in Procs, SeeFailure(p)
    PROVE  OwnMove(p) /\ BaseMove(p) /\ Stores(p)
<1>0. TypeOK /\ Base BY DEF BaseInv
<1>1. Stores(p) /\ task' = task BY DEF SeeFailure, Stores
<1>2. proc[p].pc \in Working BY DEF SeeFailure, Working
<1>3. proc[p] \in ProcRecord /\ proc[p].live \in UploadStates BY <1>0, <1>2, AtWork
<1>4. CASE proc' = [proc EXCEPT ![p].pc = "refresh", ![p].stop = TRUE]
  <2> DEFINE r == [proc[p] EXCEPT !.pc = "refresh", !.stop = TRUE]
  <2>2. r \in ProcRecord BY <1>3 DEF ProcRecord, MainPCs
  <2>3. proc' = [proc EXCEPT ![p] = r] BY <1>0, <1>4 DEF TypeOK, ProcRecord
  <2>4. /\ r.pc = "refresh" /\ r.live = proc[p].live /\ r.snap = proc[p].snap
        /\ r.ident = proc[p].ident /\ r.size = proc[p].size /\ r.path = proc[p].path
    BY <1>3 DEF ProcRecord
  <2>5. Same(r.live, proc[p].live) BY <2>4 DEF Same
  <2> HIDE DEF r
  <2>6. r.pc \in Working /\ r.pc \in Pool /\ r.pc \notin Quiet /\ r.pc # "register"
    BY <2>4 DEF Working, Pool, Quiet
  <2> QED BY <1>0, <1>1, <1>2, <2>2, <2>3, <2>4, <2>5, <2>6, MainMove
<1>5. CASE proc' = [proc EXCEPT ![p].pc = "failsave", ![p].stop = TRUE,
                                ![p].live = Snapshot(@), ![p].snap = Snapshot(proc[p].live)]
  <2> DEFINE s == Snapshot(proc[p].live)
             r == [proc[p] EXCEPT !.pc = "failsave", !.stop = TRUE, !.live = s, !.snap = s]
  <2>1. s \in UploadStates /\ Same(s, proc[p].live) BY <1>3, SnapshotFacts, SnapshotSame
  <2>2. proc' = [proc EXCEPT ![p].pc = "failsave", ![p].stop = TRUE, ![p].live = s, ![p].snap = s]
    BY <1>5
  <2> HIDE DEF s
  <2>3. r \in ProcRecord BY <1>3, <2>1, BareTypes DEF ProcRecord, MainPCs
  <2>4. proc' = [proc EXCEPT ![p] = r] BY <1>0, <2>2 DEF TypeOK, ProcRecord
  <2>5. /\ r.pc = "failsave" /\ r.live = s /\ r.snap = s
        /\ r.ident = proc[p].ident /\ r.size = proc[p].size /\ r.path = proc[p].path
    BY <1>3 DEF ProcRecord
  <2> HIDE DEF r
  <2>6. r.pc \in Working /\ r.pc \in Pool /\ r.pc \notin Quiet /\ r.pc # "register"
    BY <2>5 DEF Working, Pool, Quiet
  <2> QED BY <1>0, <1>1, <1>2, <2>1, <2>3, <2>4, <2>5, <2>6, MainMove
<1> QED BY <1>4, <1>5 DEF SeeFailure

LEMMA StopMove ==
    ASSUME BaseInv, NEW p \in Procs, Stop(p)
    PROVE  OwnMove(p) /\ BaseMove(p) /\ Stores(p)
<1>0. TypeOK /\ Base BY DEF BaseInv
<1>1. Stores(p) /\ task' = task BY DEF Stop, Stores
<1> DEFINE r == [proc[p] EXCEPT !.stop = TRUE]
<1>2. proc[p] \in ProcRecord BY <1>0 DEF TypeOK
<1>3. r \in ProcRecord BY <1>2 DEF ProcRecord
<1>4. proc' = [proc EXCEPT ![p] = r] BY <1>0 DEF Stop, TypeOK, ProcRecord
<1>5. /\ r.pc = proc[p].pc /\ r.live = proc[p].live /\ r.snap = proc[p].snap
      /\ r.ident = proc[p].ident /\ r.size = proc[p].size /\ r.path = proc[p].path
  BY <1>2 DEF ProcRecord
<1> HIDE DEF r
<1>6. CASE proc[p].pc \notin Working
  <2>1. r.ident <= version /\ Known(r) BY <1>0, <1>5, <1>6, AtRest DEF Base, ProcBase, Known
  <2> QED BY <1>0, <1>1, <1>3, <1>4, <1>5, <1>6, <2>1, RestStep
<1>7. CASE proc[p].pc \in Working
  <2>1. Same(r.live, proc[p].live) BY <1>5 DEF Same
  <2>2. r.pc \in Quiet => \A c \in Chunks : task[p][c].pc \in {"none", "returned"}
    BY <1>0, <1>5 DEF Base, ProcBase
  <2>3. r.pc \in Pool \/ \A c \in Chunks : task[p][c].pc \notin Busy BY <1>0, <1>5, NoneBusy
  <2> QED BY <1>0, <1>1, <1>3, <1>4, <1>5, <1>7, <2>1, <2>2, <2>3, MainMove
<1> QED BY <1>6, <1>7

\* A slot of its own, that holds nothing.
FreshMove(p) ==
    /\ \E r : /\ Steps(p, r, NoTasks) /\ ProcBase(r, NoTasks, version) /\ r.pc # "register"
              /\ IsState(r.live) /\ r.live.slot = slots + 1 /\ r.live.done = {}
              /\ IsState(r.snap) => Partial(r.snap, r.live)
    /\ slots' = slots + 1 /\ stored' = stored /\ body' = body

LEMMA RequestSlotMove ==
    ASSUME BaseInv, NEW p \in Procs, RequestSlot(p)
    PROVE  BaseMove(p) /\ Stores(p) /\ (FreshMove(p) \/ (OwnMove(p) /\ slots' = slots))
<1>0. TypeOK /\ Base BY DEF BaseInv
<1>1. Stores(p) /\ body' = body /\ stored' = stored BY DEF RequestSlot, Stores
<1>2. CASE /\ slots < MaxSlots /\ slots' = slots + 1 /\ task' = task
           /\ proc' = [proc EXCEPT ![p].pc = "loop",
                                   ![p].live = FreshUpload(proc[p].ident, proc[p].size, slots + 1)]
  <2> DEFINE f == FreshUpload(proc[p].ident, proc[p].size, slots + 1)
             r == [proc[p] EXCEPT !.pc = "loop", !.live = f]
  <2>1. proc[p] \in ProcRecord /\ slots \in 0 .. MaxSlots BY <1>0 DEF TypeOK
  <2>2. proc[p].pc \notin Working BY DEF RequestSlot, Working
  <2>3. /\ proc[p].live = NoFile /\ proc[p].snap = NoFile /\ task[p] = NoTasks
        /\ proc[p].ident <= version
    BY <1>0, <2>2, AtRest
  <2>4. proc[p].ident \in Sources /\ proc[p].size \in 1 .. NumChunks
    BY <1>0 DEF Base, ProcBase, RequestSlot, Known
  <2>5. slots + 1 \in Slots BY <1>2, <2>1, UploadAssumption DEF Slots
  <2>6. /\ f \in UploadStates /\ f.src = proc[p].ident /\ f.size = proc[p].size /\ f.done = {}
        /\ f.slot = slots + 1 /\ f.token = 0
    BY <2>4, <2>5, FreshFacts
  <2>7. proc' = [proc EXCEPT ![p].pc = "loop", ![p].live = f] BY <1>2
  <2> HIDE DEF f
  <2>8. f \in States /\ IsState(f) BY <2>6, BareTypes
  <2>9. r \in ProcRecord BY <2>1, <2>8 DEF ProcRecord, MainPCs
  <2>10. proc' = [proc EXCEPT ![p] = r] BY <1>0, <2>7 DEF TypeOK, ProcRecord
  <2>11. /\ r.pc = "loop" /\ r.live = f /\ r.snap = NoFile /\ r.ident = proc[p].ident
         /\ r.size = proc[p].size
    BY <2>1, <2>3 DEF ProcRecord
  <2> HIDE DEF r
  <2>12. task' = [task EXCEPT ![p] = NoTasks] BY <1>0, <1>2, <2>3 DEF TypeOK
  <2>13. Steps(p, r, NoTasks) BY <2>9, <2>10, <2>12, NoTasksType DEF Steps
  <2>14. \A c \in Chunks : TaskBase(r, NoTasks[c], c, version)
    BY BareTypes DEF TaskBase, NoTasks, NoTask, TokenRule, Busy
  <2>15. TokenRule(f) /\ TokenRule(NoFile) BY <2>6, BareTypes DEF TokenRule
  <2>16. ProcBase(r, NoTasks, version)
    BY <2>3, <2>6, <2>8, <2>11, <2>14, <2>15 DEF ProcBase, Working, Quiet, Known
  <2>17. FreshMove(p) BY <1>1, <1>2, <2>6, <2>8, <2>11, <2>13, <2>16, BareTypes DEF FreshMove
  <2> QED BY <1>1, <2>13, <2>16, <2>17 DEF BaseMove
<1>3. CASE Over(p) /\ slots' = slots BY <1>0, <1>1, <1>3, OverMove
<1> QED BY <1>2, <1>3 DEF RequestSlot

LEMMA RefreshMove ==
    ASSUME BaseInv, NEW p \in Procs, Refresh(p)
    PROVE  BaseMove(p) /\ Stores(p) /\ (FreshMove(p) \/ (OwnMove(p) /\ slots' = slots))
<1>0. TypeOK /\ Base BY DEF BaseInv
<1>1. Stores(p) /\ body' = body /\ stored' = stored BY DEF Refresh, Stores
<1>2. proc[p].pc \in Working BY DEF Refresh, Working
<1>3. /\ proc[p] \in ProcRecord /\ proc[p].live \in UploadStates /\ IsState(proc[p].live)
      /\ proc[p].live.src = proc[p].ident /\ proc[p].live.size = proc[p].size
      /\ proc[p].ident <= version
  BY <1>0, <1>2, AtWork
<1>4. CASE /\ proc' = [proc EXCEPT ![p].pc = "refused",
                                   ![p].live = Snapshot(@), ![p].snap = Snapshot(proc[p].live)]
           /\ slots' = slots /\ task' = task
  <2> DEFINE s == Snapshot(proc[p].live)
             r == [proc[p] EXCEPT !.pc = "refused", !.live = s, !.snap = s]
  <2>1. s \in UploadStates /\ Same(s, proc[p].live) BY <1>3, SnapshotFacts, SnapshotSame
  <2>2. proc' = [proc EXCEPT ![p].pc = "refused", ![p].live = s, ![p].snap = s] BY <1>4
  <2> HIDE DEF s
  <2>3. r \in ProcRecord BY <1>3, <2>1, BareTypes DEF ProcRecord, MainPCs
  <2>4. proc' = [proc EXCEPT ![p] = r] BY <1>0, <2>2 DEF TypeOK, ProcRecord
  <2>5. /\ r.pc = "refused" /\ r.live = s /\ r.snap = s
        /\ r.ident = proc[p].ident /\ r.size = proc[p].size /\ r.path = proc[p].path
    BY <1>3 DEF ProcRecord
  <2> HIDE DEF r
  <2>6. r.pc \in Working /\ r.pc \notin Quiet /\ r.pc # "register" BY <2>5 DEF Working, Quiet
  <2>7. \A c \in Chunks : task[p][c].pc \notin Busy BY DEF Refresh, Joined, Busy
  <2>8. OwnMove(p) /\ BaseMove(p) BY <1>0, <1>2, <1>4, <2>1, <2>3, <2>4, <2>5, <2>6, <2>7, MainMove
  <2> QED BY <1>1, <1>4, <2>8
<1>5. CASE /\ slots < MaxSlots /\ slots' = slots + 1
           /\ LET l == Refreshed(proc[p].live, slots + 1) IN
                proc' = [proc EXCEPT ![p].pc = "refreshsave", ![p].refreshed = TRUE,
                                     ![p].live = l, ![p].snap = l]
           /\ task' = [task EXCEPT ![p] = [c \in Chunks |-> NoTask]]
  <2> DEFINE f == Refreshed(proc[p].live, slots + 1)
             r == [proc[p] EXCEPT !.pc = "refreshsave", !.refreshed = TRUE, !.live = f, !.snap = f]
  <2>1. slots \in 0 .. MaxSlots BY <1>0 DEF TypeOK
  <2>2. slots + 1 \in Slots BY <1>5, <2>1, UploadAssumption DEF Slots
  <2>3. /\ f \in UploadStates /\ f.src = proc[p].ident /\ f.size = proc[p].size /\ f.done = {}
        /\ f.slot = slots + 1 /\ f.token = 0
    BY <1>3, <2>2, RefreshedFacts
  <2>4. proc' = [proc EXCEPT ![p].pc = "refreshsave", ![p].refreshed = TRUE,
                             ![p].live = f, ![p].snap = f]
    BY <1>5
  <2> HIDE DEF f
  <2>5. f \in States /\ IsState(f) BY <2>3, BareTypes
  <2>6. r \in ProcRecord BY <1>3, <2>5 DEF ProcRecord, MainPCs
  <2>7. proc' = [proc EXCEPT ![p] = r] BY <1>0, <2>4 DEF TypeOK, ProcRecord
  <2>8. /\ r.pc = "refreshsave" /\ r.live = f /\ r.snap = f /\ r.ident = proc[p].ident
        /\ r.size = proc[p].size
    BY <1>3 DEF ProcRecord
  <2> HIDE DEF r
  <2>9. Steps(p, r, NoTasks) BY <1>5, <2>6, <2>7, NoTasksType DEF Steps, NoTasks
  <2>10. \A c \in Chunks : TaskBase(r, NoTasks[c], c, version)
    BY BareTypes DEF TaskBase, NoTasks, NoTask, TokenRule, Busy
  <2>11. TokenRule(f) /\ Partial(f, f)
    <3>1. f.size \notin f.done BY <2>3
    <3> QED BY <2>3, <2>5, <3>1 DEF TokenRule, Partial
  <2>12. ProcBase(r, NoTasks, version)
    BY <1>3, <2>3, <2>5, <2>8, <2>10, <2>11 DEF ProcBase, Working, Quiet, Known
  <2>13. FreshMove(p) BY <1>1, <1>5, <2>3, <2>5, <2>8, <2>9, <2>11, <2>12 DEF FreshMove
  <2> QED BY <1>1, <2>9, <2>12, <2>13 DEF BaseMove
<1>6. CASE Over(p) /\ slots' = slots BY <1>0, <1>1, <1>6, OverMove
<1> QED BY <1>4, <1>5, <1>6 DEF Refresh

LEMMA SubmitMove ==
    ASSUME BaseInv, NEW p \in Procs, Submit(p)
    PROVE  OwnMove(p) /\ BaseMove(p) /\ Stores(p)
<1>0. TypeOK /\ Base BY DEF BaseInv
<1>1. Stores(p) BY DEF Submit, Stores
<1>2. proc[p].pc \in Working BY DEF Submit, Working
<1>3. /\ proc[p] \in ProcRecord /\ IsState(proc[p].live)
      /\ proc[p].live.src = proc[p].ident /\ proc[p].live.size = proc[p].size
      /\ proc[p].ident <= version /\ TokenRule(proc[p].live) /\ TokenRule(proc[p].snap)
  BY <1>0, <1>2, AtWork
<1> DEFINE r == [proc[p] EXCEPT !.pc = "wait", !.stop = FALSE]
           ts == [c \in Chunks |-> IF c \in ChunksOf(proc[p].size) \ proc[p].live.done
                                     THEN At("queued") ELSE NoTask]
<1>4. r \in ProcRecord BY <1>3 DEF ProcRecord, MainPCs
<1>5. proc' = [proc EXCEPT ![p] = r] BY <1>0 DEF Submit, TypeOK, ProcRecord
<1>6. ts \in [Chunks -> TaskRecord] BY NoTaskType DEF TaskPCs
<1>7. Steps(p, r, ts) BY <1>4, <1>5, <1>6 DEF Submit, Steps
<1>8. \A c \in Chunks : /\ ts[c].pc \in {"queued", "none"} /\ ts[c].snap = NoFile
                        /\ ts[c].pc = "queued" => c \in ChunksOf(proc[p].size) \ proc[p].live.done
  <2> SUFFICES ASSUME NEW c \in Chunks
               PROVE  /\ ts[c].pc \in {"queued", "none"} /\ ts[c].snap = NoFile
                      /\ ts[c].pc = "queued" => c \in ChunksOf(proc[p].size) \ proc[p].live.done
    OBVIOUS
  <2>1. CASE c \in ChunksOf(proc[p].size) \ proc[p].live.done
    <3>1. ts[c] = At("queued") BY <2>1
    <3> QED BY <2>1, <3>1, AtFacts
  <2>2. CASE c \notin ChunksOf(proc[p].size) \ proc[p].live.done
    <3>1. ts[c] = NoTask BY <2>2
    <3> QED BY <3>1 DEF NoTask
  <2> QED BY <2>1, <2>2
<1>9. /\ r.pc = "wait" /\ r.live = proc[p].live /\ r.snap = proc[p].snap
      /\ r.ident = proc[p].ident /\ r.size = proc[p].size /\ r.path = proc[p].path
  BY <1>3 DEF ProcRecord
<1> HIDE DEF r, ts
<1>10. \A c \in Chunks : TaskBase(r, ts[c], c, version)
  BY <1>8, <1>9, BareTypes DEF TaskBase, TokenRule, Busy, Pool
<1>11. ProcBase(r, ts, version) BY <1>3, <1>9, <1>10 DEF ProcBase, Working, Quiet, Known
<1>12. Extends(proc[p], r) BY <1>3, <1>9 DEF Extends, Partial
<1>13. ASSUME ProcLease(proc[p], task[p], body, version, slots)
       PROVE  ProcLease(r, ts, body, version, slots)
  BY <1>8, <1>9, <1>13, BareTypes DEF ProcLease
<1> QED BY <1>1, <1>7, <1>11, <1>12, <1>13 DEF OwnMove, BaseMove

-----------------------------------------------------------------------------
(* The tasks. *)

LEMMA TaskType ==
    ASSUME TypeOK, NEW p \in Procs, NEW c \in Chunks
    PROVE  task[p][c] \in TaskRecord
BY DEF TypeOK

LEMMA BeginMove ==
    ASSUME BaseInv, NEW p \in Procs, NEW c \in Chunks, Begin(p, c)
    PROVE  OwnMove(p) /\ BaseMove(p) /\ Stores(p)
<1>1. At("ready") \in TaskRecord /\ At("ready").pc = "ready" /\ At("ready").snap = NoFile
  BY NoTaskType, AtFacts DEF TaskPCs, Running
<1>2. task[p][c].pc = "queued" /\ "queued" \in Busy BY DEF Begin, Busy
<1>3. Stores(p) /\ proc' = proc /\ task' = [task EXCEPT ![p][c] = At("ready")]
  BY DEF Begin, SetTask, Stores
<1> QED BY <1>1, <1>2, <1>3, TaskMove DEF BaseInv

LEMMA AttemptMove ==
    ASSUME BaseInv, NEW p \in Procs, NEW c \in Chunks, Attempt(p, c)
    PROVE  OwnMove(p) /\ BaseMove(p) /\ Stores(p)
<1>0. TypeOK /\ Base BY DEF BaseInv
<1>1. task[p][c].pc = "ready" /\ "ready" \in Busy BY DEF Attempt, Busy
<1>2. Stores(p) /\ proc' = proc BY DEF Attempt, Stores
<1>3. ASSUME NEW w \in {"returned", "raised"}, SetTask(p, c, At(w)) PROVE OwnMove(p) /\ BaseMove(p)
  <2>1. At(w) \in TaskRecord /\ At(w).pc = w /\ At(w).snap = NoFile
    BY NoTaskType, AtFacts DEF TaskPCs
  <2>2. w \notin Busy /\ w \notin {"post", "mark"} BY DEF Busy
  <2>3. task' = [task EXCEPT ![p][c] = At(w)] BY <1>3 DEF SetTask
  <2> QED BY <1>0, <1>1, <1>2, <2>1, <2>2, <2>3, TaskMove
<1>4. CASE SetTask(p, c, [task[p][c] EXCEPT !.pc = "post", !.got = version])
  <2> DEFINE t == [task[p][c] EXCEPT !.pc = "post", !.got = version]
  <2>1. task[p][c] \in TaskRecord /\ version \in Sources BY <1>0, TaskType DEF TypeOK
  <2>2. /\ t \in TaskRecord /\ t.pc = "post" /\ t.got = version /\ t.snap = task[p][c].snap
    BY <2>1 DEF TaskRecord, TaskPCs, Running
  <2>3. task' = [task EXCEPT ![p][c] = t] BY <1>4 DEF SetTask
  <2>4. proc[p].ident <= version /\ proc[p].ident \in Nat
    BY <1>0, VersionTypes DEF Base, ProcBase, TypeOK, ProcRecord
  <2>5. version \in proc[p].ident .. version BY <2>1, <2>4, VersionTypes
  <2> HIDE DEF t
  <2> QED BY <1>0, <1>1, <1>2, <2>2, <2>3, <2>5, TaskMove
<1> QED BY <1>2, <1>3, <1>4 DEF Attempt

LEMMA TaskSaveMove ==
    ASSUME BaseInv, NEW p \in Procs, NEW c \in Chunks, TaskSave(p, c)
    PROVE  OwnMove(p) /\ BaseMove(p) /\ Stores(p)
<1>0. TypeOK /\ Base BY DEF BaseInv
<1>1. task[p][c].pc = "save" /\ "save" \in Busy BY DEF TaskSave, Busy
<1>2. proc' = proc BY DEF TaskSave
<1>3. PICK w \in {"returned", "raised"} : SetTask(p, c, At(w)) BY DEF TaskSave
<1>4. OwnMove(p) /\ BaseMove(p)
  <2>1. At(w) \in TaskRecord /\ At(w).pc = w /\ At(w).snap = NoFile
    BY NoTaskType, AtFacts DEF TaskPCs
  <2>2. w \notin Busy /\ w \notin {"post", "mark"} BY DEF Busy
  <2>3. task' = [task EXCEPT ![p][c] = At(w)] BY <1>3 DEF SetTask
  <2> QED BY <1>0, <1>1, <1>2, <2>1, <2>2, <2>3, TaskMove
<1>5. Stores(p)
  <2>1. CASE stored' = stored BY <2>1 DEF Stores
  <2>2. CASE stored' = [stored EXCEPT ![proc[p].path] = Saved(@, task[p][c].snap)]
    <3>1. task[p][c].snap \in States BY <1>0, TaskType DEF TaskRecord
    <3>2. TokenRule(task[p][c].snap) BY <1>0 DEF Base, ProcBase, TaskBase
    <3>3. Leased => (IsState(task[p][c].snap) => Partial(task[p][c].snap, proc[p].live))
      BY DEF Leased, ProcLease
    <3> QED BY <1>0, <2>2, <3>1, <3>2, <3>3, SaveStores
  <2> QED BY <2>1, <2>2 DEF TaskSave
<1> QED BY <1>4, <1>5

LEMMA MarkMove ==
    ASSUME BaseInv, NEW p \in Procs, NEW c \in Chunks, Mark(p, c)
    PROVE  OwnMove(p) /\ BaseMove(p) /\ Stores(p)
<1>0. TypeOK /\ Base BY DEF BaseInv
<1>1. Stores(p) BY DEF Mark, Stores
<1>2. task[p][c].pc = "mark" BY DEF Mark
<1> DEFINE f == proc[p].live
           g == Recorded(f, c, task[p][c].got)
           saves == Cardinality(g.done) % SaveEvery = 0 \/ Final(g, c)
           h == IF saves THEN Snapshot(g) ELSE g
           t == IF saves THEN [At("save") EXCEPT !.snap = h] ELSE At("returned")
           r == [proc[p] EXCEPT !.live = h]
           ts == [task[p] EXCEPT ![c] = t]
<1>3. proc[p].pc \in Pool BY <1>0, <1>2 DEF Base, ProcBase, TaskBase, Busy
<1>4. proc[p].pc \in Working /\ proc[p].pc \notin Quiet BY <1>3 DEF Pool, Working, Quiet
<1>5. /\ proc[p] \in ProcRecord /\ f \in UploadStates /\ IsState(f)
      /\ f.src = proc[p].ident /\ f.size = proc[p].size /\ proc[p].ident <= version
      /\ TokenRule(f) /\ TokenRule(proc[p].snap) /\ task[p] \in [Chunks -> TaskRecord]
      /\ \A b \in Chunks : TaskBase(proc[p], task[p][b], b, version)
  BY <1>0, <1>4, AtWork
<1>6. c \notin f.done /\ task[p][c].got \in proc[p].ident .. version
  BY <1>2, <1>5 DEF TaskBase, Busy
<1>7. task[p][c].got \in Sources \cup {NoSource} BY <1>5 DEF TaskRecord
<1>8. /\ g \in UploadStates /\ g.src = f.src /\ g.size = f.size /\ g.slot = f.slot
      /\ g.key = f.key /\ g.done = f.done \cup {c}
      /\ g.mac = [f.mac EXCEPT ![c] = task[p][c].got]
      /\ g.token = IF c = f.size /\ f.token = 0 THEN f.slot ELSE f.token
  BY <1>5, <1>7, RecordedFacts
<1> HIDE DEF f, g
<1>9. Same(h, g) /\ h \in UploadStates BY <1>8, SnapshotFacts, SnapshotSame DEF Same
<1>10. /\ h \in UploadStates /\ IsState(h) /\ IsState(g) /\ h.src = f.src /\ h.size = f.size
       /\ h.slot = f.slot /\ h.key = f.key /\ h.done = f.done \cup {c} /\ h.mac = g.mac
       /\ TokenRule(g) => TokenRule(h)
  <2>1. IsState(g) BY <1>8, BareTypes
  <2> HIDE DEF h
  <2>2. /\ IsState(h) /\ (TokenRule(g) => TokenRule(h))
        /\ h.src = g.src /\ h.size = g.size /\ h.done = g.done /\ h.mac = g.mac
        /\ h.slot = g.slot /\ h.key = g.key
    BY <1>9, <2>1, SameState
  <2> QED BY <1>8, <1>9, <2>1, <2>2
<1>11. h.mac[c] = task[p][c].got /\ \A b \in f.done : h.mac[b] = f.mac[b]
  <2>1. f.mac \in [Chunks -> Sources \cup {NoSource}] /\ f.done \subseteq Chunks
    BY <1>5 DEF UploadStates, f
  <2> QED BY <1>6, <1>8, <1>10, <2>1
<1>12. TokenRule(h)
  <2>1. f.slot \in Slots /\ f.size \in Chunks BY <1>5 DEF UploadStates, Chunks, f
  <2>2. f.token = IF f.size \in f.done THEN f.slot ELSE 0 BY <1>5 DEF TokenRule, f
  <2>3. g.token = IF g.size \in g.done THEN g.slot ELSE 0
    <3>1. CASE c = f.size BY <1>6, <1>8, <2>2, <3>1
    <3>2. CASE c # f.size BY <1>6, <1>8, <2>2, <3>2
    <3> QED BY <3>1, <3>2
  <2> QED BY <1>10, <2>3 DEF TokenRule
<1>13. h.slot = f.slot /\ Partial(f, h) /\ Partial(h, h)
  <2>1. IsState(f) BY <1>5 DEF f
  <2> QED BY <1>10, <1>11, <2>1 DEF Partial
<1> HIDE DEF h
<1>14. /\ t \in TaskRecord /\ t.pc \in {"save", "returned"} /\ t.snap \in {h, NoFile}
  <2>1. h \in States BY <1>10, BareTypes
  <2>2. \A w \in {"save", "returned"} : At(w) \in TaskRecord /\ At(w).pc = w /\ At(w).snap = NoFile
    BY NoTaskType, AtFacts DEF TaskPCs, Running
  <2> QED BY <2>1, <2>2 DEF TaskRecord
<1>15. Steps(p, r, ts)
  <2>1. r \in ProcRecord
    <3>1. h \in States BY <1>10, BareTypes
    <3> QED BY <1>5, <3>1 DEF ProcRecord
  <2>2. proc' = [proc EXCEPT ![p].live = h] BY DEF Mark, f, g, h
  <2>3. proc' = [proc EXCEPT ![p] = r] BY <1>0, <2>2 DEF TypeOK, ProcRecord
  <2>4. task' = [task EXCEPT ![p][c] = t] BY DEF Mark, SetTask, f, g, h
  <2> HIDE DEF t
  <2>5. task' = [task EXCEPT ![p] = ts] BY <1>0, <2>4 DEF TypeOK
  <2>6. ts \in [Chunks -> TaskRecord] BY <1>5, <1>14
  <2> QED BY <2>1, <2>3, <2>5, <2>6 DEF Steps
<1>16. /\ r.pc = proc[p].pc /\ r.live = h /\ r.snap = proc[p].snap
       /\ r.ident = proc[p].ident /\ r.size = proc[p].size /\ r.path = proc[p].path
  BY <1>5 DEF ProcRecord
<1> HIDE DEF t
<1>17. ts[c] = t /\ \A b \in Chunks : b # c => ts[b] = task[p][b] BY <1>5
<1> HIDE DEF r, ts
<1>18. ASSUME NEW b \in Chunks PROVE TaskBase(r, ts[b], b, version)
  <2>1. CASE b = c
    <3>1. TokenRule(t.snap) BY <1>12, <1>14, BareTypes DEF TokenRule
    <3> QED BY <1>3, <1>14, <1>16, <1>17, <2>1, <3>1 DEF TaskBase, Busy
  <2>2. CASE b # c
    <3>1. TaskBase(proc[p], task[p][b], b, version) BY <1>5
    <3> QED BY <1>10, <1>16, <1>17, <2>2, <3>1 DEF TaskBase, f
  <2> QED BY <2>1, <2>2
<1>19. ProcBase(r, ts, version)
  <2>1. Known(r) BY <1>4, <1>16 DEF Known, Working
  <2>2. r.live.src = r.ident /\ r.live.size = r.size BY <1>5, <1>10, <1>16
  <2> QED BY <1>4, <1>5, <1>10, <1>12, <1>16, <1>18, <2>1, <2>2 DEF ProcBase
<1>20. Extends(proc[p], r) BY <1>13, <1>16 DEF Extends, f
<1>21. ASSUME ProcLease(proc[p], task[p], body, version, slots)
       PROVE  ProcLease(r, ts, body, version, slots)
  <2>1. IsState(f) /\ Vouched(f, body, version) /\ f.slot <= slots
    BY <1>5, <1>21 DEF ProcLease, f
  <2>2. body[f.slot][c] = [key |-> f.key, ver |-> task[p][c].got] BY <1>2, <1>21 DEF ProcLease, f
  <2>3. Vouched(h, body, version)
    <3>1. ASSUME NEW b \in h.done
          PROVE  body[h.slot][b] = [key |-> h.key, ver |-> h.mac[b]] /\ h.mac[b] \in h.src .. version
      <4>1. CASE b = c BY <1>5, <1>6, <1>10, <1>11, <2>2, <4>1
      <4>2. CASE b # c
        <5>1. b \in f.done /\ h.mac[b] = f.mac[b] BY <1>10, <1>11, <4>2
        <5> QED BY <1>10, <2>1, <5>1 DEF Vouched
      <4> QED BY <4>1, <4>2
    <3> QED BY <3>1 DEF Vouched
  <2>4. IsState(r.snap) => Partial(r.snap, r.live)
    <3>1. IsState(proc[p].snap) => Partial(proc[p].snap, f) BY <1>21 DEF ProcLease, f
    <3> QED BY <1>13, <1>16, <3>1, PartialFacts
  <2>5. ASSUME NEW b \in Chunks
        PROVE  /\ IsState(ts[b].snap) => Partial(ts[b].snap, r.live)
               /\ ts[b].pc = "mark" =>
                    body[r.live.slot][b] = [key |-> r.live.key, ver |-> ts[b].got]
    <3>1. CASE b = c BY <1>13, <1>14, <1>16, <1>17, <3>1, BareTypes
    <3>2. CASE b # c
      <4>1. /\ IsState(task[p][b].snap) => Partial(task[p][b].snap, f)
            /\ task[p][b].pc = "mark" => body[f.slot][b] = [key |-> f.key, ver |-> task[p][b].got]
        BY <1>21 DEF ProcLease, f
      <4>2. IsState(task[p][b].snap) => Partial(task[p][b].snap, h) BY <1>13, <4>1, PartialFacts
      <4> QED BY <1>10, <1>16, <1>17, <3>2, <4>1, <4>2
    <3> QED BY <3>1, <3>2
  <2>6. r.pc # "register" BY <1>4, <1>16 DEF Quiet
  <2> QED BY <1>10, <1>16, <2>1, <2>3, <2>4, <2>5, <2>6 DEF ProcLease
<1> QED BY <1>1, <1>15, <1>19, <1>20, <1>21 DEF OwnMove, BaseMove

\* The slot takes the chunk; the chunk is not one of those the resume state has.
TakesChunk(p, c) ==
    /\ body' = [body EXCEPT ![proc[p].live.slot][c] =
                  [key |-> proc[p].live.key, ver |-> task[p][c].got]]
    /\ proc' = proc /\ stored' = stored /\ slots' = slots /\ version' = version
    /\ proc[p].pc \in Pool /\ IsState(proc[p].live) /\ c \notin proc[p].live.done
    /\ task[p][c].pc = "post"
    /\ \E t \in TaskRecord : /\ task' = [task EXCEPT ![p][c] = t] /\ t.snap \in {NoFile, task[p][c].snap}
                             /\ t.pc = "mark" => t.got = task[p][c].got

LEMMA RetriedType ==
    ASSUME NEW t \in TaskRecord
    PROVE  /\ Retried(t) \in TaskRecord /\ Retried(t).snap \in {NoFile, t.snap}
           /\ Retried(t).pc \in {"ready", "raised"}
<1>1. CASE t.tries + 1 < Attempts
  <2>1. Retried(t) = [t EXCEPT !.pc = "ready", !.tries = @ + 1] BY <1>1 DEF Retried
  <2>2. t.tries + 1 \in 0 .. (Attempts - 1) BY <1>1, UploadAssumption DEF TaskRecord
  <2> QED BY <2>1, <2>2 DEF TaskRecord, TaskPCs, Running
<1>2. CASE ~(t.tries + 1 < Attempts)
  <2>1. Retried(t) = At("raised") BY <1>2 DEF Retried
  <2> QED BY <2>1, NoTaskType, AtFacts DEF TaskPCs
<1> QED BY <1>1, <1>2

LEMMA PostMove ==
    ASSUME BaseInv, NEW p \in Procs, NEW c \in Chunks, Post(p, c)
    PROVE  /\ BaseMove(p) /\ Stores(p)
           /\ TakesChunk(p, c) \/ (OwnMove(p) /\ body' = body)
<1>0. TypeOK /\ Base BY DEF BaseInv
<1>1. task[p][c].pc = "post" /\ "post" \in Busy BY DEF Post, Busy
<1>2. /\ Stores(p) /\ proc' = proc /\ stored' = stored /\ slots' = slots /\ version' = version
  BY DEF Post, Stores, worldVars
<1>3. task[p][c] \in TaskRecord BY <1>0, TaskType
<1>4. TaskBase(proc[p], task[p][c], c, version) BY <1>0 DEF Base, ProcBase
<1>5. /\ proc[p].pc \in Pool /\ c \notin proc[p].live.done /\ IsState(proc[p].live)
      /\ task[p][c].got \in proc[p].ident .. version
  <2>1. proc[p].pc \in Pool BY <1>1, <1>4 DEF TaskBase
  <2>2. proc[p].pc \in Working BY <2>1 DEF Pool, Working
  <2>3. IsState(proc[p].live) BY <1>0, <2>2, AtWork
  <2> QED BY <1>1, <1>4, <2>1, <2>3 DEF TaskBase
<1>6. PICK t : /\ SetTask(p, c, t)
               /\ t \in {[task[p][c] EXCEPT !.pc = "mark"], Retried(task[p][c]), At("raised"), At("expired")}
               /\ t # [task[p][c] EXCEPT !.pc = "mark"] => t.pc # "mark"
               /\ \/ body' = [body EXCEPT ![proc[p].live.slot][c] =
                                [key |-> proc[p].live.key, ver |-> task[p][c].got]]
                  \/ body' = body /\ t # [task[p][c] EXCEPT !.pc = "mark"]
  <2>1. /\ At("raised").pc # "mark" /\ At("expired").pc # "mark" /\ Retried(task[p][c]).pc # "mark"
    BY <1>3, AtFacts, RetriedType
  <2>2. [task[p][c] EXCEPT !.pc = "mark"].pc = "mark" BY <1>3 DEF TaskRecord
  <2> QED BY <2>1, <2>2 DEF Post
<1>7. /\ t \in TaskRecord /\ t.snap \in {NoFile, task[p][c].snap}
      /\ t.pc \in {"mark", "ready", "raised", "expired"}
      /\ t.pc = "mark" => t.got = task[p][c].got
  <2>1. CASE t = [task[p][c] EXCEPT !.pc = "mark"]
    BY <1>3, <2>1 DEF TaskRecord, TaskPCs, Running
  <2>2. CASE t = Retried(task[p][c]) BY <1>3, <2>2, RetriedType
  <2>3. CASE t \in {At("raised"), At("expired")} BY <2>3, NoTaskType, AtFacts DEF TaskPCs
  <2> QED BY <1>6, <2>1, <2>2, <2>3
<1>8. BaseMove(p) /\ (t.pc # "mark" => OwnMove(p))
  <2>1. task' = [task EXCEPT ![p][c] = t] BY <1>6 DEF SetTask
  <2> QED BY <1>0, <1>1, <1>2, <1>5, <1>7, <2>1, TaskMove
<1>9. CASE body' = body /\ t # [task[p][c] EXCEPT !.pc = "mark"] BY <1>2, <1>6, <1>8, <1>9
<1>10. CASE body' = [body EXCEPT ![proc[p].live.slot][c] =
                       [key |-> proc[p].live.key, ver |-> task[p][c].got]]
  <2>1. TakesChunk(p, c) BY <1>1, <1>2, <1>5, <1>6, <1>7, <1>10 DEF TakesChunk, SetTask
  <2> QED BY <1>2, <1>8, <2>1
<1> QED BY <1>6, <1>9, <1>10

-----------------------------------------------------------------------------
(* What holds with or without the lease, over any step. *)

LEMMA LaterVersion ==
    ASSUME NEW v \in Nat, NEW w \in Nat, v <= w
    PROVE  /\ \A f \in States : \A b : Vouched(f, b, v) => Vouched(f, b, w)
           /\ \A r \in ProcRecord : \A ts : ProcBase(r, ts, v) => ProcBase(r, ts, w)
<1>1. ASSUME NEW i \in Nat, NEW x, x \in i .. v PROVE x \in i .. w BY <1>1
<1>2. ASSUME NEW f \in States, NEW b, Vouched(f, b, v) PROVE Vouched(f, b, w)
  <2>1. ASSUME IsState(f) PROVE f.src \in Nat BY <2>1, BareTypes, VersionTypes DEF UploadStates
  <2> QED BY <1>1, <1>2, <2>1 DEF Vouched
<1>3. ASSUME NEW r \in ProcRecord, NEW ts, ProcBase(r, ts, v) PROVE ProcBase(r, ts, w)
  <2>1. r.ident \in Nat BY VersionTypes DEF ProcRecord
  <2>2. ASSUME NEW c \in Chunks PROVE TaskBase(r, ts[c], c, w)
    <3>1. TaskBase(r, ts[c], c, v) BY <1>3 DEF ProcBase
    <3> QED BY <1>1, <2>1, <3>1 DEF TaskBase
  <2>3. r.ident <= w BY <1>3, <2>1 DEF ProcBase
  <2> QED BY <1>3, <2>2, <2>3 DEF ProcBase
<1> QED BY <1>2, <1>3

\* The world changes the file.
FileChanges == /\ version' \in Sources /\ version' >= version
               /\ proc' = proc /\ task' = task /\ stored' = stored /\ body' = body /\ slots' = slots

LEMMA FileChangesBase == BaseInv /\ FileChanges => Base'
<1> SUFFICES ASSUME BaseInv, FileChanges PROVE Base' OBVIOUS
<1>0. TypeOK /\ Base BY DEF BaseInv
<1>1. version \in Nat /\ version' \in Nat /\ version <= version'
  BY <1>0, VersionTypes DEF TypeOK, FileChanges
<1>2. ASSUME NEW q \in Procs PROVE ProcBase(proc[q], task[q], version')
  BY <1>0, <1>1, LaterVersion DEF Base, TypeOK
<1>3. \A q \in Procs : ProcBase(proc[q], task[q], version)'
  <2> SUFFICES ASSUME NEW q \in Procs PROVE ProcBase(proc[q], task[q], version)' OBVIOUS
  <2>1. ProcBase(proc[q], task[q], version') BY <1>2
  <2>2. proc' = proc /\ task' = task BY DEF FileChanges
  <2> QED BY <2>1, <2>2 DEF ProcBase, TaskBase, TokenRule, IsState, ChunksOf, Known
<1>4. \A n \in 0 .. NumChunks : TokenRule(stored[n])'
  <2>1. stored' = stored BY DEF FileChanges
  <2> QED BY <1>0, <2>1 DEF Base, TokenRule, IsState
<1> QED BY <1>3, <1>4 DEF Base

LEMMA ResumesBase ==
    ASSUME BaseInv, NEW p \in Procs, proc[p].pc = "hashed", Resumes(p)
    PROVE  BaseMove(p) /\ Stores(p)
<1>0. TypeOK /\ Base BY DEF BaseInv
<1>1. PICK n \in 0 .. NumChunks :
        /\ IsState(stored[n]) /\ Resumable(stored[n], p) /\ stored' = stored
        /\ proc' = [proc EXCEPT ![p].pc = "loop", ![p].path = n, ![p].live = stored[n]]
        /\ task' = task
  BY DEF Resumes
<1> DEFINE r == [proc[p] EXCEPT !.pc = "loop", !.path = n, !.live = stored[n]]
<1>2. proc[p] \in ProcRecord /\ stored[n] \in States BY <1>0 DEF TypeOK
<1>3. /\ proc[p].live = NoFile /\ proc[p].snap = NoFile /\ task[p] = NoTasks
      /\ proc[p].ident <= version
  BY <1>0, AtRest DEF Working
<1>4. r \in ProcRecord BY <1>2 DEF ProcRecord, MainPCs
<1>5. proc' = [proc EXCEPT ![p] = r] BY <1>0, <1>1 DEF TypeOK, ProcRecord
<1>6. /\ r.pc = "loop" /\ r.live = stored[n] /\ r.snap = NoFile /\ r.ident = proc[p].ident
      /\ r.size = proc[p].size
  BY <1>2, <1>3 DEF ProcRecord
<1>7. task' = [task EXCEPT ![p] = NoTasks] BY <1>0, <1>1, <1>3 DEF TypeOK
<1> HIDE DEF r
<1>8. Steps(p, r, NoTasks) BY <1>4, <1>5, <1>7, NoTasksType DEF Steps
<1>9. \A c \in Chunks : TaskBase(r, NoTasks[c], c, version)
  BY BareTypes DEF TaskBase, NoTasks, NoTask, TokenRule, Busy
<1>10. TokenRule(r.live) /\ TokenRule(r.snap) BY <1>0, <1>6, BareTypes DEF Base, TokenRule
<1>11. r.live.src = r.ident /\ r.live.size = r.size BY <1>1, <1>6 DEF Resumable
<1>12. ProcBase(r, NoTasks, version)
  BY <1>1, <1>3, <1>6, <1>9, <1>10, <1>11 DEF ProcBase, Working, Quiet, Known
<1> QED BY <1>1, <1>8, <1>12 DEF BaseMove, Stores

\* Every step is one of these.
Moves(p) ==
    /\ BaseMove(p) /\ Stores(p) /\ version' = version
    /\ \/ OwnMove(p) /\ body' = body /\ slots' \in {slots, slots + 1}
       \/ FreshMove(p)
       \/ Resumes(p) /\ proc[p].pc = "hashed" /\ body' = body /\ slots' = slots
       \/ \E c \in Chunks : TakesChunk(p, c)

LEMMA MainStepMoves ==
    ASSUME BaseInv, NEW p \in Procs, MainStep(p)
    PROVE  Moves(p)
<1>0. version' = version
  BY DEF MainStep, TakeSize, Hash, LoadState, RequestSlot, Submit, SeeFailure, SeeReturns, Join,
         Refresh, FailSave, RefreshSave, CheckSource, Register, Finish, EmptySlot, EmptyPost,
         EmptyCheck, EmptyRegister, worldVars
<1>1. CASE TakeSize(p) BY <1>0, <1>1, TakeSizeMove DEF Moves, TakeSize, serverVars
<1>2. CASE Hash(p) BY <1>0, <1>2, HashMove DEF Moves, Hash, serverVars
<1>3. CASE LoadState(p)
  <2>1. proc[p].pc = "hashed" /\ body' = body /\ slots' = slots BY <1>3 DEF LoadState, serverVars
  <2> QED BY <1>0, <1>3, <2>1, LoadStateMove, ResumesBase DEF Moves
<1>4. CASE RequestSlot(p) BY <1>0, <1>4, RequestSlotMove DEF Moves, RequestSlot
<1>5. CASE Submit(p) BY <1>0, <1>5, SubmitMove DEF Moves, Submit, serverVars
<1>6. CASE SeeFailure(p) BY <1>0, <1>6, SeeFailureMove DEF Moves, SeeFailure, serverVars
<1>7. CASE SeeReturns(p) BY <1>0, <1>7, SeeReturnsMove DEF Moves, SeeReturns, serverVars
<1>8. CASE Join(p) BY <1>0, <1>8, JoinMove DEF Moves, Join, serverVars
<1>9. CASE Refresh(p) BY <1>0, <1>9, RefreshMove DEF Moves, Refresh
<1>10. CASE FailSave(p) BY <1>0, <1>10, FailSaveMove DEF Moves, FailSave, serverVars
<1>11. CASE RefreshSave(p) BY <1>0, <1>11, RefreshSaveMove DEF Moves, RefreshSave, serverVars
<1>12. CASE CheckSource(p) BY <1>0, <1>12, CheckSourceMove DEF Moves, CheckSource, serverVars
<1>13. CASE Register(p) BY <1>0, <1>13, RegisterMove DEF Moves, Register
<1>14. CASE Finish(p) BY <1>0, <1>14, FinishMove DEF Moves, Finish, serverVars
<1>15. CASE EmptySlot(p) BY <1>0, <1>15, EmptySlotMove DEF Moves, EmptySlot
<1>16. CASE EmptyPost(p) BY <1>0, <1>16, EmptyPostMove DEF Moves, EmptyPost, serverVars
<1>17. CASE EmptyCheck(p) BY <1>0, <1>17, EmptyCheckMove DEF Moves, EmptyCheck, serverVars
<1>18. CASE EmptyRegister(p) BY <1>0, <1>18, EmptyRegisterMove DEF Moves, EmptyRegister
<1> QED BY <1>1, <1>2, <1>3, <1>4, <1>5, <1>6, <1>7, <1>8, <1>9, <1>10, <1>11, <1>12, <1>13,
           <1>14, <1>15, <1>16, <1>17, <1>18 DEF MainStep

LEMMA TaskStepMoves ==
    ASSUME BaseInv, NEW p \in Procs, NEW c \in Chunks, TaskStep(p, c)
    PROVE  Moves(p)
<1>0. version' = version
  BY DEF TaskStep, Begin, Attempt, Post, Mark, TaskSave, worldVars
<1>1. CASE Begin(p, c) BY <1>0, <1>1, BeginMove DEF Moves, Begin, serverVars
<1>2. CASE Attempt(p, c) BY <1>0, <1>2, AttemptMove DEF Moves, Attempt, serverVars
<1>3. CASE Post(p, c) BY <1>0, <1>3, PostMove DEF Moves, Post
<1>4. CASE Mark(p, c) BY <1>0, <1>4, MarkMove DEF Moves, Mark, serverVars
<1>5. CASE TaskSave(p, c) BY <1>0, <1>5, TaskSaveMove DEF Moves, TaskSave, serverVars
<1> QED BY <1>1, <1>2, <1>3, <1>4, <1>5 DEF TaskStep

LEMMA EveryStep ==
    ASSUME BaseInv, [Next]_vars
    PROVE  \/ \E p \in Procs : Moves(p)
           \/ FileChanges
<1>1. CASE Edit
  <2>1. version' \in Sources /\ version' >= version
    BY <1>1, UploadAssumption, VersionTypes DEF Edit, BaseInv, TypeOK
  <2> QED BY <1>1, <2>1 DEF Edit, FileChanges, serverVars
<1>2. CASE Delete \/ UNCHANGED vars
  <2>1. version \in Sources /\ version >= version BY VersionTypes DEF BaseInv, TypeOK
  <2> QED BY <1>2, <2>1 DEF Delete, vars, worldVars, FileChanges, serverVars
<1>3. ASSUME NEW p \in Procs, Start(p) \/ Interrupted(p) \/ Stop(p) \/ Kill(p) PROVE Moves(p)
  <2>1. version' = version /\ body' = body /\ slots' = slots
    BY <1>3 DEF Start, Interrupted, Stop, Kill, worldVars, serverVars
  <2> QED BY <1>3, <2>1, StartMove, InterruptedMove, StopMove, JoinMove DEF Moves
<1> QED BY <1>1, <1>2, <1>3, MainStepMoves, TaskStepMoves DEF Next

LEMMA CountersType ==
    TypeOK /\ [Next]_vars => /\ there' \in BOOLEAN /\ sessions' \in 0 .. MaxSessions
                             /\ slots' \in 0 .. MaxSlots
<1> SUFFICES ASSUME TypeOK, [Next]_vars
             PROVE  there' \in BOOLEAN /\ sessions' \in 0 .. MaxSessions /\ slots' \in 0 .. MaxSlots
  OBVIOUS
<1> USE UploadAssumption
<1>1. there \in BOOLEAN /\ sessions \in 0 .. MaxSessions /\ slots \in 0 .. MaxSlots BY DEF TypeOK
<1>2. CASE Edit \/ Delete \/ UNCHANGED vars
  BY <1>1, <1>2 DEF Edit, Delete, vars, worldVars, serverVars
<1>3. ASSUME NEW p \in Procs, Start(p) \/ Interrupted(p) \/ Stop(p) \/ Kill(p)
      PROVE  there' \in BOOLEAN /\ sessions' \in 0 .. MaxSessions /\ slots' \in 0 .. MaxSlots
  BY <1>1, <1>3 DEF Start, Interrupted, Stop, Kill, worldVars, serverVars
<1>4. ASSUME NEW p \in Procs, RequestSlot(p) \/ Refresh(p) \/ EmptySlot(p)
      PROVE  there' \in BOOLEAN /\ sessions' \in 0 .. MaxSessions /\ slots' \in 0 .. MaxSlots
  <2>1. there' = there /\ sessions' = sessions
    BY <1>4 DEF RequestSlot, Refresh, EmptySlot, worldVars
  <2>2. slots' = slots \/ (slots < MaxSlots /\ slots' = slots + 1)
    BY <1>4 DEF RequestSlot, Refresh, EmptySlot
  <2> QED BY <1>1, <2>1, <2>2
<1>5. ASSUME NEW p \in Procs, MainStep(p), ~(RequestSlot(p) \/ Refresh(p) \/ EmptySlot(p))
      PROVE  there' = there /\ sessions' = sessions /\ slots' = slots
  BY <1>5 DEF MainStep, TakeSize, Hash, LoadState, Submit, SeeFailure, SeeReturns, Join, FailSave,
              RefreshSave, CheckSource, Register, Finish, EmptyPost, EmptyCheck, EmptyRegister,
              worldVars, serverVars
<1>6. ASSUME NEW p \in Procs, NEW c \in Chunks, TaskStep(p, c)
      PROVE  there' = there /\ sessions' = sessions /\ slots' = slots
  BY <1>6 DEF TaskStep, Begin, Attempt, Post, Mark, TaskSave, worldVars, serverVars
<1> QED BY <1>1, <1>2, <1>3, <1>4, <1>5, <1>6 DEF Next

LEMMA BodyType ==
    ASSUME TypeOK, Base, NEW p \in Procs, NEW c \in Chunks, TakesChunk(p, c)
    PROVE  /\ body' \in [Slots -> [Chunks -> [key : 0 .. MaxSlots, ver : Sources \cup {NoSource}]]]
           /\ proc[p].live.slot \in Slots
           /\ body'[proc[p].live.slot][c] = [key |-> proc[p].live.key, ver |-> task[p][c].got]
           /\ \A s \in Slots, b \in Chunks :
                s # proc[p].live.slot \/ b # c => body'[s][b] = body[s][b]
<1>1. proc[p].pc \in Working BY DEF TakesChunk, Pool, Working
<1>2. proc[p].live \in UploadStates BY <1>1, AtWork
<1>3. proc[p].live.slot \in Slots /\ proc[p].live.key \in 0 .. MaxSlots
  <2>1. proc[p].live.slot \in Slots /\ proc[p].live.key \in Slots BY <1>2 DEF UploadStates
  <2>2. \A k \in Slots : k \in 0 .. MaxSlots BY UploadAssumption DEF Slots
  <2> QED BY <2>1, <2>2
<1>4. task[p][c].got \in Sources \cup {NoSource} BY TaskType DEF TaskRecord
<1>5. body \in [Slots -> [Chunks -> [key : 0 .. MaxSlots, ver : Sources \cup {NoSource}]]]
  BY DEF TypeOK
<1>6. body' = [body EXCEPT ![proc[p].live.slot][c] =
                 [key |-> proc[p].live.key, ver |-> task[p][c].got]]
  BY DEF TakesChunk
<1> QED BY <1>3, <1>4, <1>5, <1>6

LEMMA BaseInvHolds == BaseInv /\ [Next]_vars => BaseInv'
<1> SUFFICES ASSUME BaseInv, [Next]_vars PROVE BaseInv' OBVIOUS
<1>0. TypeOK /\ Base BY DEF BaseInv
<1>1. there' \in BOOLEAN /\ sessions' \in 0 .. MaxSessions /\ slots' \in 0 .. MaxSlots
  BY <1>0, CountersType
<1>2. ASSUME NEW p \in Procs, Moves(p) PROVE BaseInv'
  <2>1. BaseMove(p) /\ Stores(p) /\ version' = version BY <1>2 DEF Moves
  <2>2. Base' BY <1>0, <2>1, OwnBase
  <2>3. proc' \in [Procs -> ProcRecord] /\ task' \in [Procs -> [Chunks -> TaskRecord]]
    BY <1>0, <2>1, StepsApplied DEF BaseMove
  <2>4. stored' \in [0 .. NumChunks -> States] BY <1>0, <2>1, StoresApplied
  <2>5. body' \in [Slots -> [Chunks -> [key : 0 .. MaxSlots, ver : Sources \cup {NoSource}]]]
    <3>1. CASE body' = body BY <1>0, <3>1 DEF TypeOK
    <3>2. CASE \E c \in Chunks : TakesChunk(p, c) BY <1>0, <3>2, BodyType
    <3> QED BY <1>2, <3>1, <3>2 DEF Moves, FreshMove
  <2>6. version' \in Sources BY <1>0, <2>1 DEF TypeOK
  <2> QED BY <1>1, <2>2, <2>3, <2>4, <2>5, <2>6 DEF BaseInv, TypeOK
<1>3. CASE FileChanges
  <2>1. Base' BY <1>3, FileChangesBase
  <2>2. version' \in Sources /\ proc' = proc /\ task' = task /\ stored' = stored /\ body' = body
    BY <1>3 DEF FileChanges
  <2> QED BY <1>0, <1>1, <2>1, <2>2 DEF BaseInv, TypeOK
<1> QED BY <1>2, <1>3, EveryStep

LEMMA InitBase == Init => BaseInv
<1> SUFFICES ASSUME Init PROVE BaseInv OBVIOUS
<1>1. TypeOK BY InitType
<1>2. ASSUME NEW p \in Procs PROVE ProcBase(proc[p], task[p], version)
  <2>1. proc[p] = Idle /\ task[p] = NoTasks BY DEF Init, NoTasks
  <2>2. \A c \in Chunks : TaskBase(Idle, NoTasks[c], c, version)
    BY BareTypes DEF TaskBase, NoTasks, NoTask, TokenRule, Busy
  <2>3. Idle.ident <= version BY VersionTypes DEF Idle, Init
  <2>4. /\ Idle.pc = "off" /\ Idle.live = NoFile /\ Idle.snap = NoFile /\ TokenRule(NoFile)
    BY BareTypes DEF Idle, TokenRule
  <2>5. NoTasks = [c \in Chunks |-> NoTask] BY DEF NoTasks
  <2>6. ProcBase(Idle, NoTasks, version)
    BY <2>2, <2>3, <2>4, <2>5 DEF ProcBase, Working, Quiet, Known
  <2> QED BY <2>1, <2>6
<1>3. \A n \in 0 .. NumChunks : TokenRule(stored[n]) BY BareTypes DEF Init, TokenRule
<1> QED BY <1>1, <1>2, <1>3 DEF BaseInv, Base

LEMMA BaseInvAlways == Spec => []BaseInv
BY InitBase, BaseInvHolds, PTL DEF Spec

(* Every variable keeps its type.                                           *)
THEOREM UploadTypeCorrect == Spec => []TypeOK
BY BaseInvAlways, PTL DEF BaseInv

(* No resume state is a dead end (uploader.py, completion_token): whatever  *)
(* saves fail, whichever uploads share the state, and however the file      *)
(* changes, a state has the token of its own slot exactly when it has the   *)
(* final chunk.                                                             *)
THEOREM TokenComesLast == Spec => []TokenWithFinalChunk
<1>1. BaseInv => TokenWithFinalChunk
  BY DEF BaseInv, Base, TokenRule, IsState, TokenWithFinalChunk
<1> QED BY <1>1, BaseInvAlways, PTL

-----------------------------------------------------------------------------
(* What holds as long as the lease keeps its promise, over any step. *)

LEMMA SlotNumbers ==
    ASSUME TypeOK, Leased
    PROVE  /\ slots \in Nat
           /\ \A q \in Procs : IsState(proc[q].live) =>
                proc[q].live \in UploadStates /\ proc[q].live.slot \in Slots
                /\ proc[q].live.slot \in Nat /\ proc[q].live.slot <= slots
           /\ \A n \in 0 .. NumChunks : IsState(stored[n]) =>
                stored[n] \in UploadStates /\ stored[n].slot \in Slots
                /\ stored[n].slot \in Nat /\ stored[n].slot <= slots
<1>1. slots \in Nat BY DEF TypeOK
<1>2. \A f \in UploadStates : f.slot \in Slots /\ f.slot \in Nat BY DEF UploadStates, Slots
<1>3. ASSUME NEW q \in Procs, IsState(proc[q].live)
      PROVE  proc[q].live \in UploadStates /\ proc[q].live.slot <= slots
  <2>1. proc[q].live \in States BY DEF TypeOK, ProcRecord
  <2> QED BY <1>3, <2>1, BareTypes DEF Leased, ProcLease
<1>4. ASSUME NEW n \in 0 .. NumChunks, IsState(stored[n])
      PROVE  stored[n] \in UploadStates /\ stored[n].slot <= slots
  <2>1. stored[n] \in States BY DEF TypeOK
  <2> QED BY <1>4, <2>1, BareTypes DEF Leased
<1> QED BY <1>1, <1>2, <1>3, <1>4

LEMMA FreshLease ==
    ASSUME TypeOK, Leased, NEW p \in Procs, FreshMove(p), version' = version
    PROVE  Leased'
<1>1. PICK r : /\ Steps(p, r, NoTasks) /\ r.pc # "register"
               /\ IsState(r.live) /\ r.live.slot = slots + 1 /\ r.live.done = {}
               /\ IsState(r.snap) => Partial(r.snap, r.live)
  BY DEF FreshMove
<1>2. /\ proc'[p] = r /\ task'[p] = NoTasks
      /\ \A q \in Procs : q # p => proc'[q] = proc[q] /\ task'[q] = task[q]
  BY <1>1, StepsApplied
<1>3. slots' = slots + 1 /\ stored' = stored /\ body' = body BY DEF FreshMove
<1>4. ASSUME NEW q \in Procs PROVE ProcLease(proc'[q], task'[q], body, version, slots')
  <2>1. CASE q = p
    <3>1. \A c \in Chunks : NoTasks[c].snap = NoFile /\ NoTasks[c].pc = "none"
      BY DEF NoTasks, NoTask
    <3>2. Vouched(r.live, body, version) BY <1>1 DEF Vouched
    <3>3. r.live.slot <= slots' BY <1>1, <1>3, SlotNumbers
    <3> HIDE DEF NoTasks
    <3>4. ProcLease(r, NoTasks, body, version, slots')
      BY <1>1, <3>1, <3>2, <3>3, BareTypes DEF ProcLease
    <3> QED BY <1>2, <2>1, <3>4
  <2>2. CASE q # p
    <3>1. ProcLease(proc[q], task[q], body, version, slots) BY DEF Leased
    <3>2. IsState(proc[q].live) => proc[q].live.slot <= slots' BY <1>3, SlotNumbers
    <3>3. ProcLease(proc[q], task[q], body, version, slots') BY <3>1, <3>2 DEF ProcLease
    <3> QED BY <1>2, <2>2, <3>3
  <2> QED BY <2>1, <2>2
<1>5. (\A q \in Procs : ProcLease(proc[q], task[q], body, version, slots))'
  <2> SUFFICES ASSUME NEW q \in Procs PROVE ProcLease(proc[q], task[q], body, version, slots)' OBVIOUS
  <2>1. ProcLease(proc'[q], task'[q], body, version, slots') BY <1>4
  <2> QED BY <1>3, <2>1 DEF ProcLease, Vouched, Partial, IsState
<1>6. (\A n \in 0 .. NumChunks : /\ IsState(stored[n]) => stored[n].slot <= slots
                                 /\ Vouched(stored[n], body, version))'
  <2> SUFFICES ASSUME NEW n \in 0 .. NumChunks
               PROVE  /\ IsState(stored[n]) => stored[n].slot <= slots'
                      /\ Vouched(stored[n], body, version)
    BY <1>3 DEF Vouched, IsState
  <2> QED BY <1>3, SlotNumbers DEF Leased
<1>7. Apart'
  <2>1. ASSUME NEW q \in Procs, NEW u \in Procs, IsState(proc'[q].live), IsState(proc'[u].live), q # u
        PROVE  proc'[q].live.slot # proc'[u].live.slot
    BY <1>1, <1>2, <2>1, SlotNumbers DEF Leased, Apart
  <2> QED BY <1>3, <2>1 DEF Leased, Apart, IsState
<1>8. Kept'
  <2>1. ASSUME NEW n \in 0 .. NumChunks, NEW q \in Procs, IsState(stored[n]), IsState(proc'[q].live),
               stored[n].slot = proc'[q].live.slot
        PROVE  n = proc'[q].path /\ Partial(stored[n], proc'[q].live)
    <3>1. q # p BY <1>1, <1>2, <2>1, SlotNumbers
    <3> QED BY <1>2, <2>1, <3>1 DEF Leased, Kept
  <2> QED BY <1>3, <2>1 DEF Kept, IsState, Partial
<1> QED BY <1>5, <1>6, <1>7, <1>8 DEF Leased

LEMMA ResumesLease ==
    ASSUME BaseInv, Leased, NEW p \in Procs, proc[p].pc = "hashed", Resumes(p),
           version' = version, body' = body, slots' = slots, OneUploadPerState'
    PROVE  Leased'
<1>0. TypeOK /\ Base BY DEF BaseInv
<1>1. PICK n \in 0 .. NumChunks :
        /\ IsState(stored[n]) /\ stored' = stored /\ task' = task
        /\ proc' = [proc EXCEPT ![p].pc = "loop", ![p].path = n, ![p].live = stored[n]]
  BY DEF Resumes
<1>2. proc[p] \in ProcRecord /\ stored[n] \in States BY <1>0 DEF TypeOK
<1>3. proc[p].live = NoFile /\ proc[p].snap = NoFile /\ task[p] = NoTasks
  BY <1>0, AtRest DEF Working
<1>4. /\ proc'[p].pc = "loop" /\ proc'[p].live = stored[n] /\ proc'[p].snap = NoFile
      /\ proc'[p].path = n /\ proc'[p].ident = proc[p].ident
      /\ \A q \in Procs : q # p => proc'[q] = proc[q]
  BY <1>0, <1>1, <1>2, <1>3 DEF TypeOK, ProcRecord
<1>5. ASSUME NEW q \in Procs, q # p, IsState(proc[q].live)
      PROVE  proc[q].live.slot # stored[n].slot
  <2>1. SUFFICES ASSUME proc[q].live.slot = stored[n].slot PROVE FALSE OBVIOUS
  <2>2. proc[q].path = n BY <1>1, <1>5, <2>1 DEF Leased, Kept
  <2>3. proc'[q].live # NoFile /\ proc'[p].live # NoFile
    BY <1>1, <1>4, <1>5, BareTypes
  <2>4. proc'[q].path = proc'[p].path BY <1>4, <1>5, <2>2
  <2> QED BY <1>5, <2>3, <2>4 DEF OneUploadPerState, Uploading
<1>6. ASSUME NEW q \in Procs PROVE ProcLease(proc'[q], task'[q], body, version, slots)
  <2>1. CASE q = p
    <3>1. \A c \in Chunks : NoTasks[c].snap = NoFile /\ NoTasks[c].pc = "none"
      BY DEF NoTasks, NoTask
    <3>2. Vouched(stored[n], body, version) /\ stored[n].slot <= slots BY <1>1 DEF Leased
    <3>3. task'[p] = NoTasks BY <1>1, <1>3
    <3> HIDE DEF NoTasks
    <3> QED BY <1>4, <2>1, <3>1, <3>2, <3>3, BareTypes DEF ProcLease
  <2>2. CASE q # p BY <1>1, <1>4, <2>2 DEF Leased
  <2> QED BY <2>1, <2>2
<1>7. (\A q \in Procs : ProcLease(proc[q], task[q], body, version, slots))'
  <2> SUFFICES ASSUME NEW q \in Procs PROVE ProcLease(proc[q], task[q], body, version, slots)' OBVIOUS
  <2>1. ProcLease(proc'[q], task'[q], body, version, slots) BY <1>6
  <2> QED BY <2>1 DEF ProcLease, Vouched, Partial, IsState
<1>8. (\A m \in 0 .. NumChunks : /\ IsState(stored[m]) => stored[m].slot <= slots
                                 /\ Vouched(stored[m], body, version))'
  BY <1>1 DEF Leased, Vouched, IsState
<1>9. Apart'
  <2>1. ASSUME NEW q \in Procs, NEW u \in Procs, IsState(proc'[q].live), IsState(proc'[u].live), q # u
        PROVE  proc'[q].live.slot # proc'[u].live.slot
    BY <1>4, <1>5, <2>1 DEF Leased, Apart
  <2> QED BY <1>1, <2>1 DEF Leased, Apart, IsState
<1>10. Kept'
  <2>1. ASSUME NEW m \in 0 .. NumChunks, NEW q \in Procs, IsState(stored[m]), IsState(proc'[q].live),
               stored[m].slot = proc'[q].live.slot
        PROVE  m = proc'[q].path /\ Partial(stored[m], proc'[q].live)
    <3>1. CASE q = p
      <4>1. m = n BY <1>1, <1>4, <2>1, <3>1 DEF Leased, Apart
      <4> QED BY <1>1, <1>4, <3>1, <4>1, PartialFacts
    <3>2. CASE q # p BY <1>4, <2>1, <3>2 DEF Leased, Kept
    <3> QED BY <3>1, <3>2
  <2>2. stored' = stored BY <1>1
  <2> SUFFICES ASSUME NEW m \in 0 .. NumChunks, NEW q \in Procs, IsState(stored[m])',
                      IsState(proc[q].live)', (stored[m].slot = proc[q].live.slot)'
               PROVE  (m = proc[q].path /\ Partial(stored[m], proc[q].live))'
    BY DEF Kept
  <2>3. IsState(stored[m]) /\ IsState(proc'[q].live) /\ stored[m].slot = proc'[q].live.slot
    BY <2>2 DEF IsState
  <2>4. m = proc'[q].path /\ Partial(stored[m], proc'[q].live) BY <2>1, <2>3
  <2> QED BY <2>2, <2>4 DEF Partial, IsState
<1> QED BY <1>7, <1>8, <1>9, <1>10 DEF Leased

LEMMA TakesLease ==
    ASSUME BaseInv, Leased, NEW p \in Procs, NEW c \in Chunks, TakesChunk(p, c)
    PROVE  Leased'
<1>0. TypeOK /\ Base BY DEF BaseInv
<1>1. /\ proc' = proc /\ stored' = stored /\ slots' = slots /\ version' = version
      /\ IsState(proc[p].live) /\ c \notin proc[p].live.done /\ task[p][c].pc = "post"
  BY DEF TakesChunk
<1>2. PICK t \in TaskRecord : /\ task' = [task EXCEPT ![p][c] = t] /\ t.snap \in {NoFile, task[p][c].snap}
                              /\ t.pc = "mark" => t.got = task[p][c].got
  BY DEF TakesChunk
<1>3. task'[p][c] = t /\ \A q \in Procs, b \in Chunks : q # p \/ b # c => task'[q][b] = task[q][b]
  BY <1>0, <1>2 DEF TypeOK
<1>4. /\ proc[p].live.slot \in Slots
      /\ body'[proc[p].live.slot][c] = [key |-> proc[p].live.key, ver |-> task[p][c].got]
      /\ \A s \in Slots, b \in Chunks : s # proc[p].live.slot \/ b # c => body'[s][b] = body[s][b]
  BY <1>0, BodyType
\* Whatever is vouched for is still there.
<1>5. ASSUME NEW f \in UploadStates, Vouched(f, body, version),
             f.slot # proc[p].live.slot \/ f.done \subseteq proc[p].live.done
      PROVE  Vouched(f, body', version)
  <2>1. \A b \in f.done : b \in Chunks BY DEF UploadStates
  <2>2. f.slot \in Slots BY DEF UploadStates
  <2>3. ASSUME NEW b \in f.done PROVE body'[f.slot][b] = body[f.slot][b]
    BY <1>1, <1>4, <1>5, <2>1, <2>2
  <2> QED BY <1>5, <2>3 DEF Vouched
<1>6. ASSUME NEW q \in Procs PROVE Vouched(proc[q].live, body', version)
  <2>1. CASE IsState(proc[q].live)
    <3>1. Vouched(proc[q].live, body, version) BY DEF Leased, ProcLease
    <3>2. q = p \/ proc[q].live.slot # proc[p].live.slot BY <1>1, <2>1 DEF Leased, Apart
    <3>3. proc[q].live \in UploadStates BY <1>0, <2>1, SlotNumbers
    <3> QED BY <1>5, <3>1, <3>2, <3>3
  <2>2. CASE ~IsState(proc[q].live) BY <2>2 DEF Vouched
  <2> QED BY <2>1, <2>2
<1>7. ASSUME NEW n \in 0 .. NumChunks PROVE Vouched(stored[n], body', version)
  <2>1. CASE IsState(stored[n])
    <3>1. Vouched(stored[n], body, version) BY DEF Leased
    <3>2. stored[n].slot # proc[p].live.slot \/ stored[n].done \subseteq proc[p].live.done
      BY <1>1, <2>1 DEF Leased, Kept, Partial
    <3>3. stored[n] \in UploadStates BY <1>0, <2>1, SlotNumbers
    <3> QED BY <1>5, <3>1, <3>2, <3>3
  <2>2. CASE ~IsState(stored[n]) BY <2>2 DEF Vouched
  <2> QED BY <2>1, <2>2
<1>8. ASSUME NEW q \in Procs PROVE ProcLease(proc[q], task'[q], body', version, slots)
  <2>1. ProcLease(proc[q], task[q], body, version, slots) BY DEF Leased
  <2>2. ASSUME NEW b \in Chunks
        PROVE  /\ IsState(task'[q][b].snap) => Partial(task'[q][b].snap, proc[q].live)
               /\ task'[q][b].pc = "mark" =>
                    body'[proc[q].live.slot][b] = [key |-> proc[q].live.key, ver |-> task'[q][b].got]
    <3>1. CASE q = p /\ b = c
      BY <1>2, <1>3, <1>4, <2>1, <3>1, BareTypes DEF ProcLease
    <3>2. CASE q # p \/ b # c
      <4>1. task'[q][b] = task[q][b] BY <1>3, <3>2
      <4>2. ASSUME task[q][b].pc = "mark"
            PROVE  body'[proc[q].live.slot][b] = body[proc[q].live.slot][b]
        <5>1. TaskBase(proc[q], task[q][b], b, version) BY <1>0 DEF Base, ProcBase
        <5>2. proc[q].pc \in Working BY <4>2, <5>1 DEF TaskBase, Busy, Pool, Working
        <5>3. IsState(proc[q].live) /\ proc[q].live.slot \in Slots
          BY <1>0, <5>2, AtWork, SlotNumbers
        <5>4. q = p \/ proc[q].live.slot # proc[p].live.slot BY <1>1, <5>3 DEF Leased, Apart
        <5> QED BY <1>4, <3>2, <5>3, <5>4
      <4> QED BY <2>1, <4>1, <4>2 DEF ProcLease
    <3> QED BY <3>1, <3>2
  <2>3. Vouched(proc[q].live, body', version) BY <1>6
  <2> QED BY <2>1, <2>2, <2>3 DEF ProcLease
<1>9. (\A q \in Procs : ProcLease(proc[q], task[q], body, version, slots))'
  <2> SUFFICES ASSUME NEW q \in Procs PROVE ProcLease(proc[q], task[q], body, version, slots)' OBVIOUS
  <2>1. ProcLease(proc[q], task'[q], body', version, slots) BY <1>8
  <2> QED BY <1>1, <2>1 DEF ProcLease, Vouched, Partial, IsState
<1>10. (\A n \in 0 .. NumChunks : /\ IsState(stored[n]) => stored[n].slot <= slots
                                  /\ Vouched(stored[n], body, version))'
  BY <1>1, <1>7 DEF Leased, Vouched, IsState
<1>11. Apart' /\ Kept' BY <1>1 DEF Leased, Apart, Kept, IsState, Partial
<1> QED BY <1>9, <1>10, <1>11 DEF Leased

LEMMA FileChangesLease ==
    ASSUME TypeOK, Leased, FileChanges
    PROVE  Leased'
<1>1. /\ proc' = proc /\ task' = task /\ stored' = stored /\ body' = body /\ slots' = slots
      /\ version \in Nat /\ version' \in Nat /\ version <= version'
  BY VersionTypes DEF FileChanges, TypeOK
<1>2. ASSUME NEW q \in Procs PROVE ProcLease(proc[q], task[q], body, version', slots)
  <2>1. proc[q].live \in States BY DEF TypeOK, ProcRecord
  <2>2. Vouched(proc[q].live, body, version') BY <1>1, <2>1, LaterVersion DEF Leased, ProcLease
  <2> QED BY <2>2 DEF Leased, ProcLease
<1>3. ASSUME NEW n \in 0 .. NumChunks PROVE Vouched(stored[n], body, version')
  <2>1. stored[n] \in States BY DEF TypeOK
  <2> QED BY <1>1, <2>1, LaterVersion DEF Leased
<1>4. (\A q \in Procs : ProcLease(proc[q], task[q], body, version, slots))'
  <2> SUFFICES ASSUME NEW q \in Procs PROVE ProcLease(proc[q], task[q], body, version, slots)' OBVIOUS
  <2>1. ProcLease(proc[q], task[q], body, version', slots) BY <1>2
  <2> QED BY <1>1, <2>1 DEF ProcLease, Vouched, Partial, IsState
<1>5. (\A n \in 0 .. NumChunks : /\ IsState(stored[n]) => stored[n].slot <= slots
                                 /\ Vouched(stored[n], body, version))'
  BY <1>1, <1>3 DEF Leased, Vouched, IsState
<1>6. Apart' /\ Kept' BY <1>1 DEF Leased, Apart, Kept, IsState, Partial
<1> QED BY <1>4, <1>5, <1>6 DEF Leased

LEMMA LeasedHolds == BaseInv /\ Leased /\ [Next]_vars /\ OneUploadPerState' => Leased'
<1> SUFFICES ASSUME BaseInv, Leased, [Next]_vars, OneUploadPerState' PROVE Leased' OBVIOUS
<1>0. TypeOK BY DEF BaseInv
<1>1. CASE FileChanges BY <1>0, <1>1, FileChangesLease
<1>2. ASSUME NEW p \in Procs, Moves(p) PROVE Leased'
  <2>1. Stores(p) /\ version' = version BY <1>2 DEF Moves
  <2>2. CASE OwnMove(p) /\ body' = body /\ slots' \in {slots, slots + 1}
    <3>1. slots' \in Nat /\ slots' >= slots BY <1>0, <2>2, SlotNumbers
    <3> QED BY <1>0, <2>1, <2>2, <3>1, OwnLease
  <2>3. CASE FreshMove(p) BY <1>0, <2>1, <2>3, FreshLease
  <2>4. CASE Resumes(p) /\ proc[p].pc = "hashed" /\ body' = body /\ slots' = slots
    BY <2>1, <2>4, ResumesLease
  <2>5. CASE \E c \in Chunks : TakesChunk(p, c) BY <2>5, TakesLease
  <2> QED BY <1>2, <2>2, <2>3, <2>4, <2>5 DEF Moves
<1> QED BY <1>1, <1>2, EveryStep

LEMMA InitLeased == Init => Leased
<1> SUFFICES ASSUME Init PROVE Leased OBVIOUS
<1>1. \A n \in 0 .. NumChunks : ~IsState(stored[n]) BY BareTypes DEF Init
<1>2. ASSUME NEW p \in Procs
      PROVE  ~IsState(proc[p].live) /\ ProcLease(proc[p], task[p], body, version, slots)
  <2>1. proc[p] = Idle /\ task[p] = NoTasks BY DEF Init, NoTasks
  <2>2. Idle.pc = "off" /\ Idle.live = NoFile /\ Idle.snap = NoFile BY DEF Idle
  <2>3. \A c \in Chunks : NoTasks[c].snap = NoFile /\ NoTasks[c].pc = "none" BY DEF NoTasks, NoTask
  <2> HIDE DEF NoTasks
  <2>4. ProcLease(Idle, NoTasks, body, version, slots)
    BY <2>2, <2>3, BareTypes DEF ProcLease, Vouched
  <2> QED BY <2>1, <2>2, <2>4, BareTypes
<1> QED BY <1>1, <1>2 DEF Leased, Apart, Kept, Vouched

-----------------------------------------------------------------------------
(* The nodes. *)

LEMMA NodesStep ==
    ASSUME [Next]_vars
    PROVE  \/ nodes' = nodes
           \/ \E p \in Procs : \/ Register(p) /\ ChunksOf(proc[p].size) \subseteq proc[p].live.done
                                  /\ nodes' = nodes \cup {Node(p)}
                               \/ nodes' = nodes \cup {EmptyNode(p)}
<1>1. CASE Edit \/ Delete \/ UNCHANGED vars BY <1>1 DEF Edit, Delete, vars, serverVars
<1>2. ASSUME NEW p \in Procs, Start(p) \/ Interrupted(p) \/ Stop(p) \/ Kill(p)
      PROVE  nodes' = nodes
  BY <1>2 DEF Start, Interrupted, Stop, Kill, serverVars
<1>3. ASSUME NEW p \in Procs, NEW c \in Chunks, TaskStep(p, c) PROVE nodes' = nodes
  BY <1>3 DEF TaskStep, Begin, Attempt, Post, Mark, TaskSave, serverVars
<1>4. ASSUME NEW p \in Procs, MainStep(p), ~Register(p), ~EmptyRegister(p) PROVE nodes' = nodes
  BY <1>4 DEF MainStep, TakeSize, Hash, LoadState, RequestSlot, Submit, SeeFailure, SeeReturns,
              Join, Refresh, FailSave, RefreshSave, CheckSource, Finish, EmptySlot, EmptyPost,
              EmptyCheck, serverVars
<1>5. ASSUME NEW p \in Procs, Register(p)
      PROVE  \/ nodes' = nodes
             \/ /\ ChunksOf(proc[p].size) \subseteq proc[p].live.done
                /\ nodes' = nodes \cup {Node(p)}
  BY <1>5 DEF Register
<1>6. ASSUME NEW p \in Procs, EmptyRegister(p)
      PROVE  nodes' = nodes \/ nodes' = nodes \cup {EmptyNode(p)}
  BY <1>6 DEF EmptyRegister
<1> QED BY <1>1, <1>2, <1>3, <1>4, <1>5, <1>6 DEF Next

OneContent(n) == \A c \in ChunksOf(n.size) : /\ n.body[c] = [key |-> n.key, ver |-> n.src]
                                             /\ n.mac[c] = n.src

LEMMA NodeHolds ==
    ASSUME BaseInv, Leased, NEW p \in Procs, Register(p),
           ChunksOf(proc[p].size) \subseteq proc[p].live.done
    PROVE  OneContent(Node(p))
<1>0. TypeOK /\ Base BY DEF BaseInv
<1>1. proc[p].pc = "register" /\ proc[p].pc \in Working BY DEF Register, Working
<1> DEFINE f == proc[p].live
<1>2. /\ f \in UploadStates /\ IsState(f) /\ f.src = proc[p].ident /\ f.size = proc[p].size
      /\ TokenRule(f)
  BY <1>0, <1>1, AtWork
<1>3. Vouched(f, body, version) /\ \A c \in f.done : f.mac[c] = proc[p].ident
  BY <1>1 DEF Leased, ProcLease
<1>4. f.token = f.slot
  <2>1. f.size \in 1 .. NumChunks BY <1>2 DEF UploadStates
  <2>2. f.size \in ChunksOf(f.size) BY <2>1, StateAssumption DEF ChunksOf
  <2> QED BY <1>2, <2>2 DEF TokenRule
<1>5. /\ Node(p).src = f.src /\ Node(p).size = f.size /\ Node(p).key = f.key
      /\ Node(p).body = body[f.slot] /\ Node(p).mac = f.mac
  BY <1>2, <1>4 DEF Node
<1> HIDE DEF f
<1>6. \A c \in ChunksOf(f.size) : body[f.slot][c] = [key |-> f.key, ver |-> f.src] /\ f.mac[c] = f.src
  BY <1>2, <1>3 DEF Vouched, f
<1> QED BY <1>5, <1>6 DEF OneContent

LEMMA NodesHold == BaseInv /\ LeaseInv /\ [Next]_vars => NodeOfOneContent'
<1> SUFFICES ASSUME BaseInv, LeaseInv, [Next]_vars PROVE NodeOfOneContent' OBVIOUS
<1>1. \A n \in nodes : OneContent(n) BY DEF LeaseInv, NodeOfOneContent, OneContent
<1>2. SUFFICES \A n \in nodes' : OneContent(n) BY DEF NodeOfOneContent, OneContent, ChunksOf
<1>3. ASSUME NEW p \in Procs PROVE OneContent(EmptyNode(p))
  <2>1. EmptyNode(p).size = 0 BY DEF EmptyNode
  <2>2. ChunksOf(0) = {} BY DEF ChunksOf
  <2> QED BY <2>1, <2>2 DEF OneContent
<1>4. ASSUME NEW p \in Procs, Register(p), ChunksOf(proc[p].size) \subseteq proc[p].live.done
      PROVE  OneContent(Node(p))
  BY <1>4, NodeHolds DEF LeaseInv
<1> QED BY <1>1, <1>3, <1>4, NodesStep

LEMMA LeaseInvHolds == BaseInv /\ LeaseInv /\ [Next]_vars /\ OneUploadPerState' => LeaseInv'
BY LeasedHolds, NodesHold DEF LeaseInv

LEMMA LeaseInvAlways == Spec /\ []OneUploadPerState => []LeaseInv
<1>1. Init => LeaseInv BY InitLeased DEF LeaseInv, NodeOfOneContent, Init
<1>2. BaseInv /\ BaseInv' /\ OneUploadPerState /\ OneUploadPerState' /\ LeaseInv /\ [Next]_vars
        => LeaseInv'
  BY LeaseInvHolds
<1> QED BY <1>1, <1>2, BaseInvAlways, PTL DEF Spec

(* uploader.py 454-457: as long as no two uploads work on one resume state, *)
(* whatever else happens to the file, the slots, the saves and the          *)
(* processes, a registered node is of the one content its upload hashed.    *)
THEOREM NodeHasOneContent == Spec /\ []OneUploadPerState => []NodeOfOneContent
BY LeaseInvAlways, PTL DEF LeaseInv

(* Under the same promise a resume state vouches for a chunk only if its    *)
(* own slot holds it, with the bytes the chunk's MAC is of.                 *)
THEOREM SlotVouched == Spec /\ []OneUploadPerState => []StateVouchesForSlot
<1>1. LeaseInv => StateVouchesForSlot
  BY DEF LeaseInv, Leased, Vouched, IsState, StateVouchesForSlot
<1> QED BY <1>1, LeaseInvAlways, PTL

-----------------------------------------------------------------------------
(* The lease. *)

OneSize == \A v, w \in Sources : Size[v] = Size[w]

\* A process at work holds the lease named by the size of the file.
LeaseKept == /\ \A p \in Procs : Live(p) => proc[p].lock = SizeNow
             /\ \A p, q \in Procs : Live(p) /\ Live(q) => p = q

LEMMA LockStep ==
    ASSUME TypeOK, [Next]_vars
    PROVE  \/ \A q \in Procs : Live(q)' => Live(q) /\ proc'[q].lock = proc[q].lock
           \/ \E p \in Procs : /\ \A q \in Procs : q # p => proc'[q] = proc[q]
                               /\ \A q \in Procs : proc[q].lock # SizeNow
                               /\ proc'[p].lock = SizeNow /\ version' = version
<1> DEFINE Keeps == \A q \in Procs : Live(q)' => Live(q) /\ proc'[q].lock = proc[q].lock
<1>0. proc \in [Procs -> ProcRecord] BY DEF TypeOK
<1>1. ASSUME proc' = proc PROVE Keeps BY <1>1 DEF Live
<1>2. ASSUME NEW p \in Procs, Over(p) PROVE Keeps
  <2>1. proc' = [proc EXCEPT ![p] = Idle] /\ Idle.pc = "off" BY <1>2 DEF Over, Idle
  <2> QED BY <1>0, <2>1 DEF Live
<1>3. ASSUME NEW p \in Procs, NEW r \in ProcRecord, proc' = [proc EXCEPT ![p] = r],
             proc[p].pc # "off", r.lock = proc[p].lock
      PROVE  Keeps
  BY <1>0, <1>3 DEF Live
<1>4. ASSUME NEW p \in Procs, proc[p].pc # "off", proc'[p].lock = proc[p].lock,
             \A q \in Procs : q # p => proc'[q] = proc[q]
      PROVE  Keeps
  BY <1>4 DEF Live
<1>5. ASSUME NEW p \in Procs, Start(p)
      PROVE  \/ Keeps
             \/ /\ \A q \in Procs : q # p => proc'[q] = proc[q]
                /\ \A q \in Procs : proc[q].lock # SizeNow
                /\ proc'[p].lock = SizeNow /\ version' = version
  <2>1. CASE proc' = proc BY <1>1, <2>1
  <2>2. CASE /\ \A q \in Procs : proc[q].lock # SizeNow
             /\ proc' = [proc EXCEPT ![p].pc = "leased", ![p].lock = SizeNow]
    <3>1. /\ \A q \in Procs : q # p => proc'[q] = proc[q]
          /\ proc'[p].lock = SizeNow
      BY <1>0, <2>2 DEF ProcRecord
    <3>2. version' = version BY <1>5 DEF Start
    <3> QED BY <2>2, <3>1, <3>2
  <2> QED BY <1>5, <2>1, <2>2 DEF Start
<1>6. ASSUME NEW p \in Procs, MainStep(p) PROVE Keeps
  <2>1. proc[p].pc # "off"
    BY <1>6 DEF MainStep, TakeSize, Hash, LoadState, RequestSlot, Submit, SeeFailure, SeeReturns,
                Join, Refresh, FailSave, RefreshSave, CheckSource, Register, Finish, EmptySlot,
                EmptyPost, EmptyCheck, EmptyRegister
  <2>2. CASE Over(p) BY <1>2, <2>2
  <2>3. CASE ~Over(p)
    <3>1. proc'[p].lock = proc[p].lock /\ \A q \in Procs : q # p => proc'[q] = proc[q]
      <4>1. CASE TakeSize(p) \/ Hash(p) \/ LoadState(p) \/ RequestSlot(p)
        BY <1>0, <2>3, <4>1 DEF TakeSize, Hash, LoadState, RequestSlot, ProcRecord
      <4>2. CASE Submit(p) \/ SeeFailure(p) \/ SeeReturns(p) \/ Join(p)
        BY <1>0, <2>3, <4>2 DEF Submit, SeeFailure, SeeReturns, Join, Goto, ProcRecord
      <4>3. CASE Refresh(p) \/ FailSave(p) \/ RefreshSave(p)
        BY <1>0, <2>3, <4>3 DEF Refresh, FailSave, RefreshSave, ProcRecord
      <4>4. CASE CheckSource(p) \/ Register(p) \/ Finish(p)
        BY <1>0, <2>3, <4>4 DEF CheckSource, Register, Finish, Goto, ProcRecord
      <4>5. CASE EmptySlot(p) \/ EmptyPost(p) \/ EmptyCheck(p) \/ EmptyRegister(p)
        BY <1>0, <2>3, <4>5 DEF EmptySlot, EmptyPost, EmptyCheck, EmptyRegister, Goto, ProcRecord
      <4> QED BY <1>6, <4>1, <4>2, <4>3, <4>4, <4>5 DEF MainStep
    <3> QED BY <1>4, <2>1, <3>1
  <2> QED BY <2>2, <2>3
<1>7. ASSUME NEW p \in Procs, Interrupted(p) \/ Stop(p) PROVE Keeps
  <2>1. /\ proc[p].pc # "off" /\ proc'[p].lock = proc[p].lock
        /\ \A q \in Procs : q # p => proc'[q] = proc[q]
    BY <1>0, <1>7 DEF Interrupted, Stop, Goto, Live, ProcRecord
  <2> QED BY <1>4, <2>1
<1>8. ASSUME NEW p \in Procs, Kill(p) PROVE Keeps BY <1>2, <1>8 DEF Kill
<1>9. ASSUME NEW p \in Procs, NEW c \in Chunks, TaskStep(p, c) PROVE Keeps
  <2>1. CASE Mark(p, c)
    <3>1. PICK x : proc' = [proc EXCEPT ![p].live = x] BY <2>1 DEF Mark
    <3> QED BY <1>0, <3>1 DEF Live, ProcRecord
  <2>2. CASE ~Mark(p, c)
    <3>1. proc' = proc BY <1>9, <2>2 DEF TaskStep, Begin, Attempt, Post, TaskSave
    <3> QED BY <1>1, <3>1
  <2> QED BY <2>1, <2>2
<1>10. CASE Edit \/ Delete \/ UNCHANGED vars BY <1>1, <1>10 DEF Edit, Delete, vars
<1> QED BY <1>5, <1>6, <1>7, <1>8, <1>9, <1>10 DEF Next

LEMMA LeaseKeptHolds == OneSize /\ BaseInv /\ BaseInv' /\ LeaseKept /\ [Next]_vars => LeaseKept'
<1> SUFFICES ASSUME OneSize, BaseInv, BaseInv', LeaseKept, [Next]_vars PROVE LeaseKept' OBVIOUS
<1>1. SizeNow' = SizeNow BY DEF SizeNow, OneSize, BaseInv, TypeOK
<1>2. CASE \A q \in Procs : Live(q)' => Live(q) /\ proc'[q].lock = proc[q].lock
  BY <1>1, <1>2 DEF LeaseKept
<1>3. ASSUME NEW p \in Procs, \A q \in Procs : q # p => proc'[q] = proc[q],
             \A q \in Procs : proc[q].lock # SizeNow, proc'[p].lock = SizeNow
      PROVE  LeaseKept'
  <2>1. \A q \in Procs : ~Live(q) BY <1>3 DEF LeaseKept
  <2>2. \A q \in Procs : Live(q)' => q = p BY <1>3, <2>1 DEF Live
  <2> QED BY <1>1, <1>3, <2>2 DEF LeaseKept
<1> QED BY <1>2, <1>3, LockStep DEF BaseInv

(* _upload_lease (uploader.py 205-217), for a file whose versions are all   *)
(* of one size: lease and resume state then have one name, and no two       *)
(* uploads work on one state.  The run upload_lease shows that the          *)
(* assumption is needed.                                                    *)
THEOREM LeaseKeepsItsPromise == OneSize /\ Spec => []OneUploadPerState
<1>1. Init => LeaseKept BY DEF Init, LeaseKept, Live, Idle
<1>2. LeaseKept /\ BaseInv => OneUploadPerState
  <2> SUFFICES ASSUME LeaseKept, BaseInv PROVE OneUploadPerState OBVIOUS
  <2>1. ASSUME NEW p \in Procs, Uploading(p) PROVE Live(p)
    BY <2>1 DEF BaseInv, Base, ProcBase, Uploading, Live, Working
  <2> QED BY <2>1 DEF LeaseKept, OneUploadPerState
<1> SUFFICES ASSUME OneSize PROVE Spec => []OneUploadPerState OBVIOUS
<1>3. BaseInv /\ BaseInv' /\ LeaseKept /\ [Next]_vars => LeaseKept' BY LeaseKeptHolds
<1> QED BY <1>1, <1>2, <1>3, BaseInvAlways, PTL DEF Spec

(* Together: for a file whose edits keep its size, every node that any      *)
(* process ever registers is of one content, and every resume state can be  *)
(* trusted, whatever is edited, expired, lost, stopped or killed when.      *)
THEOREM OneSizeIsSafe == OneSize /\ Spec => [](NodeOfOneContent /\ StateVouchesForSlot)
BY LeaseKeepsItsPromise, NodeHasOneContent, SlotVouched, PTL
=============================================================================
