--------------------------- MODULE QueueRunProofs ---------------------------
(***************************************************************************)
(* Proofs about QueueRun for any number of runs and jobs, and any lease    *)
(* and grace.  With lock time-outs and failing writes: type correctness,   *)
(* the inductive invariant behind LeaseNeverStolen, OneLeasePerRun and     *)
(* GenerationsDiffer, that the file stays loadable, and that only the      *)
(* holder of a lease ends it.  Without them (~FaultyOp): the invariant     *)
(* CleanInv, by which no two runs hold one job and every row agrees with   *)
(* the file, and the refinement of LeasedWork.                             *)
(***************************************************************************)
EXTENDS QueueRun, TLAPS

-----------------------------------------------------------------------------
(* What the operations of the queue return. *)

LEMMA EntryUpdates ==
    ASSUME NEW e \in Entry, NEW s \in Statuses, NEW r \in Runs \cup {NoRun},
           NEW b \in NoBeat .. (Lease + 1), NEW g \in Nat, NEW f \in BOOLEAN
    PROVE  /\ [e EXCEPT !.status = s, !.run = r, !.beat = b] \in Entry
           /\ [e EXCEPT !.status = s, !.run = r, !.beat = b, !.epoch = g] \in Entry
           /\ [e EXCEPT !.status = s, !.run = r, !.beat = b, !.fin = f] \in Entry
BY DEF Entry

LEMMA BeatUpdate ==
    ASSUME NEW e \in Entry, NEW b \in NoBeat .. (Lease + 1)
    PROVE  [e EXCEPT !.beat = b] \in Entry
BY DEF Entry

LEMMA RecoveredType ==
    ASSUME NEW q \in [Jobs -> Entry] PROVE Recovered(q) \in [Jobs -> Entry]
<1> NoBeat \in NoBeat .. (Lease + 1) BY QueueAssumption DEF NoBeat
<1> SUFFICES ASSUME NEW i \in Jobs, Stale(q, i)
             PROVE  [q[i] EXCEPT !.status = "interrupted", !.run = NoRun, !.beat = NoBeat]
                      \in Entry
  BY DEF Recovered
<1> QED BY EntryUpdates DEF Statuses

LEMMA LeasedType ==
    ASSUME NEW q \in [Jobs -> Entry], NEW r \in Runs, NEW j \in Jobs
    PROVE  Leased(q, j, r) \in [Jobs -> Entry]
<1>1. q[j].epoch + 1 \in Nat BY DEF Entry
<1>2. 0 \in NoBeat .. (Lease + 1) BY QueueAssumption DEF NoBeat
<1>3. [q[j] EXCEPT !.status = "active", !.run = r, !.beat = 0, !.epoch = q[j].epoch + 1] \in Entry
  BY <1>1, <1>2, EntryUpdates DEF Statuses
<1> QED BY <1>3 DEF Leased, Entry

LEMMA TouchedType ==
    ASSUME NEW q \in [Jobs -> Entry], NEW j PROVE Touched(q, j) \in [Jobs -> Entry]
<1>1. 0 \in NoBeat .. (Lease + 1) BY QueueAssumption DEF NoBeat
<1>2. CASE j \in Jobs BY <1>1, <1>2, BeatUpdate DEF Touched
<1>3. CASE j \notin Jobs BY <1>3 DEF Touched
<1> QED BY <1>2, <1>3

LEMMA UpdatedType ==
    ASSUME NEW q \in [Jobs -> Entry], NEW j, NEW s \in Statuses
    PROVE  Updated(q, j, s) \in [Jobs -> Entry]
<1>1. CASE j \in Jobs
  <2>1. NoBeat \in NoBeat .. (Lease + 1) BY QueueAssumption DEF NoBeat
  <2>2. (q[j].fin \/ s \in Terminal) \in BOOLEAN OBVIOUS
  <2>3. [q[j] EXCEPT !.status = s, !.run = NoRun, !.beat = NoBeat,
                     !.fin = q[j].fin \/ s \in Terminal] \in Entry
    BY <1>1, <2>1, <2>2, EntryUpdates
  <2> QED BY <1>1, <2>3 DEF Updated
<1>2. CASE j \notin Jobs BY <1>2 DEF Updated
<1> QED BY <1>1, <1>2

LEMMA AgedType ==
    ASSUME NEW q \in [Jobs -> Entry] PROVE Aged(q) \in [Jobs -> Entry]
<1> SUFFICES ASSUME NEW i \in Jobs, q[i].beat # NoBeat, ~(q[i].beat > Lease)
             PROVE  [q[i] EXCEPT !.beat = q[i].beat + 1] \in Entry
  BY DEF Aged
<1>1. q[i].beat + 1 \in NoBeat .. (Lease + 1)
  BY QueueAssumption DEF Entry, NoBeat
<1> QED BY <1>1, BeatUpdate

LEMMA InitType == Init => TypeOK
<1> SUFFICES ASSUME Init PROVE TypeOK OBVIOUS
<1>1. job \in [Jobs -> Entry]
  <2>1. NoBeat \in NoBeat .. (Lease + 1) BY QueueAssumption DEF NoBeat
  <2>2. Absent(0) \in Entry BY <2>1 DEF Absent, Entry, Statuses
  <2>3. Fresh \in Entry BY <2>1 DEF Fresh, Entry, Statuses
  <2>4. Legacy \in Entry BY <2>1 DEF Legacy, Entry, Statuses
  <2> QED BY <2>2, <2>3, <2>4 DEF Init, QueueInit
<1>2. NoItem \in Items /\ 0 \in 0 .. (Grace + 1) /\ 0 \in 0 .. MaxCommands
  BY QueueAssumption, RunAssumption DEF NoItem, Items
<1> QED BY <1>1, <1>2 DEF Init, TypeOK, QueueInit, QueueTypeOK

LEMMA NextType == TypeOK /\ [Next]_vars => TypeOK'
<1> SUFFICES ASSUME TypeOK, [Next]_vars PROVE TypeOK' OBVIOUS
<1> USE DEF TypeOK, QueueTypeOK
<1> DEFINE PCs == {"off", "loop", "leased", "claimed", "precheck", "armed", "prep", "xfer",
                   "finish", "fail", "release", "ended", "crashed"}
<1>a. NoItem \in Items BY QueueAssumption DEF NoItem, Items
<1>b. 0 \in 0 .. (Grace + 1) BY RunAssumption
<1>q. ASSUME UNCHANGED queueVars PROVE QueueTypeOK' /\ (commands \in 0 .. MaxCommands)'
  BY <1>q DEF queueVars
<1>h. ASSUME UNCHANGED hbVars
      PROVE  (/\ hb_job \in [Runs -> Items] /\ due \in [Runs -> BOOLEAN]
              /\ hb \in [Runs -> {"wait", "touch", "lose", "stop", "dead"}]
              /\ stalled \in [Runs -> 0 .. (Grace + 1)])'
  BY <1>h DEF hbVars
<1>e. ASSUME NEW r \in Runs, NEW how \in {"ended", "crashed"}, Exit(r, how), QueueTypeOK',
             UNCHANGED commands
      PROVE  TypeOK'
  BY <1>a, <1>b, <1>e DEF Exit
<1>x. ASSUME NEW r \in Runs, NEW how \in {"ended", "crashed"}, Exit(r, how), UNCHANGED queueVars
      PROVE  TypeOK'
  <2>1. QueueTypeOK' /\ UNCHANGED commands BY <1>x, <1>q DEF queueVars
  <2> HIDE DEF TypeOK, QueueTypeOK
  <2> QED BY <1>x, <1>e, <2>1
<1>1. ASSUME NEW r \in Runs, Start(r) PROVE TypeOK'
  <2>1. job' \in [Jobs -> Entry] BY <1>1, RecoveredType DEF Start
  <2> QED BY <1>1, <1>h, <2>1 DEF Start
<1>2. ASSUME NEW r \in Runs, MainStep(r) PROVE TypeOK'
  <2>1. CASE StopClaiming(r) BY <2>1, <1>x DEF StopClaiming
  <2>2. CASE Claim(r)
    <3>1. Recovered(job) \in [Jobs -> Entry] BY RecoveredType
    <3>2. CASE \E j \in Jobs : /\ FirstRunnable(Recovered(job), j)
                              /\ job' = Leased(Recovered(job), j, r)
                              /\ item' = [item EXCEPT ![r] =
                                     [id |-> j, epoch |-> Recovered(job)[j].epoch + 1]]
                              /\ pc' = [pc EXCEPT ![r] = "leased"]
                              /\ UNCHANGED <<current_job, current_transfer, lease_lost,
                                             stop_event, row, recorded, hbVars>>
      <4> PICK j \in Jobs : /\ job' = Leased(Recovered(job), j, r)
                            /\ item' = [item EXCEPT ![r] =
                                     [id |-> j, epoch |-> Recovered(job)[j].epoch + 1]]
                            /\ pc' = [pc EXCEPT ![r] = "leased"]
                            /\ UNCHANGED <<current_job, current_transfer, lease_lost,
                                           stop_event, row, recorded, hbVars>>
        BY <3>2
      <4>1. job' \in [Jobs -> Entry] BY <3>1, LeasedType
      <4>2. Recovered(job)[j].epoch + 1 \in Nat BY <3>1 DEF Entry
      <4>3. [id |-> j, epoch |-> Recovered(job)[j].epoch + 1] \in Items
        BY <4>2, QueueAssumption DEF Items, Jobs
      <4> QED BY <2>2, <4>1, <4>3, <1>h DEF Claim
    <3>3. CASE job' = Recovered(job) /\ Exit(r, "ended")
      BY <2>2, <3>1, <3>3, <1>e DEF Claim
    <3> QED BY <2>2, <3>2, <3>3 DEF Claim
  <2>3. CASE ClaimFails(r) BY <2>3, <1>x DEF ClaimFails
  <2>4. CASE Announce(r) BY <2>4, <1>h, <1>q DEF Announce, queueVars
  <2>5. CASE PrecheckFails(r) BY <2>5, <1>h, <1>q DEF PrecheckFails, queueVars
  <2>6. CASE Arm(r) BY <2>6, <1>h, <1>q DEF Arm, queueVars
  <2>7. CASE CheckLease(r) BY <2>7, <1>h, <1>q DEF CheckLease, FinishRow, queueVars
  <2>8. CASE PrepFails(r) BY <2>8, <1>h, <1>q DEF PrepFails, queueVars
  <2>9. CASE Begin(r) BY <2>9, <1>h, <1>q DEF Begin, queueVars
  <2>10. CASE TransferEnds(r) BY <2>10, <1>h, <1>q DEF TransferEnds, queueVars
  <2>11. CASE Finish(r)
    <3>1. job' \in [Jobs -> Entry] BY <2>11, UpdatedType DEF Finish, Statuses
    <3> QED BY <2>11, <3>1, <1>h DEF Finish, FinishRow
  <2>12. CASE Fail(r)
    <3>1. job' \in [Jobs -> Entry] BY <2>12, UpdatedType DEF Fail, Statuses
    <3>2. CASE Exit(r, "ended") BY <2>12, <3>1, <3>2, <1>e DEF Fail
    <3>3. CASE ~Exit(r, "ended") BY <2>12, <3>1, <3>3, <1>h DEF Fail, FinishRow
    <3> QED BY <3>2, <3>3
  <2>13. CASE Release(r) BY <2>13, <1>a, <1>h, <1>q DEF Release, queueVars
  <2> QED BY <1>2, <2>1, <2>2, <2>3, <2>4, <2>5, <2>6, <2>7, <2>8, <2>9, <2>10, <2>11, <2>12,
             <2>13 DEF MainStep
<1>3. ASSUME NEW r \in Runs, Interrupt(r) PROVE TypeOK'
  <2>1. job' \in [Jobs -> Entry] BY <1>3, UpdatedType DEF Interrupt, Statuses
  <2> QED BY <1>3, <2>1, <1>e DEF Interrupt
<1>4. ASSUME NEW r \in Runs, Crash(r) PROVE TypeOK'
  BY <1>4, <1>x DEF Crash
<1>5. ASSUME NEW r \in Runs, HbStep(r) PROVE TypeOK'
  <2> USE DEF runVars
  <2>1. CASE HbRead(r) BY <2>1, <1>b, <1>q DEF HbRead, queueVars
  <2>2. CASE HbTouch(r)
    <3>3. job' \in [Jobs -> Entry] BY <2>2, TouchedType DEF HbTouch
    <3> QED BY <2>2, <3>3, <1>a, <1>b DEF HbTouch
  <2>3. CASE HbLockError(r) BY <2>3, <1>a, <1>q DEF HbLockError, queueVars
  <2>4. CASE HbWriteError(r) BY <2>4, <1>a, <1>q DEF HbWriteError, queueVars
  <2>5. CASE HbLose(r) BY <2>5, <1>q DEF HbLose, queueVars
  <2>6. CASE HbStop(r) BY <2>6, <1>q DEF HbStop, queueVars
  <2> QED BY <1>5, <2>1, <2>2, <2>3, <2>4, <2>5, <2>6 DEF HbStep
<1>6. CASE OperatorCommand
  <2>1. commands' \in 0 .. MaxCommands BY <1>6, RunAssumption DEF OperatorCommand
  <2>2. QueueTypeOK'
    <3>0. NoBeat \in NoBeat .. (Lease + 1) BY QueueAssumption DEF NoBeat
    <3>1. \A e \in Nat : Absent(e) \in Entry BY <3>0 DEF Absent, Entry, Statuses
    <3>2. \A j \in Jobs : job[j].epoch \in Nat BY DEF Entry
    <3>3. CASE Add
      <4>1. Fresh \in Entry BY <3>0 DEF Fresh, Entry, Statuses
      <4>2. added + 1 \in Jobs /\ added' \in 0 .. NumJobs BY <3>3, QueueAssumption DEF Add, Jobs
      <4>3. job' \in [Jobs -> Entry] BY <3>3, <4>1 DEF Add
      <4> QED BY <4>2, <4>3
    <3>4. ASSUME NEW j \in Jobs, Remove(j) PROVE QueueTypeOK'
      BY <3>4, <3>1, <3>2 DEF Remove
    <3>5. ASSUME NEW j \in Jobs, Retry(j) PROVE QueueTypeOK'
      <4>1. [job[j] EXCEPT !.status = "pending", !.run = NoRun, !.beat = NoBeat, !.fin = FALSE]
              \in Entry
        BY <3>0, EntryUpdates DEF Statuses
      <4>2. job' = [job EXCEPT ![j] = [job[j] EXCEPT !.status = "pending", !.run = NoRun,
                                                     !.beat = NoBeat, !.fin = FALSE]]
        BY <3>5 DEF Retry, Entry
      <4>3. job' \in [Jobs -> Entry] BY <4>1, <4>2
      <4> QED BY <3>5, <4>3 DEF Retry
    <3>6. CASE ClearDone BY <3>6, <3>1, <3>2 DEF ClearDone
    <3>7. CASE Reset BY <3>7, <3>1, <3>2 DEF Reset
    <3> QED BY <1>6, <3>3, <3>4, <3>5, <3>6, <3>7 DEF OperatorCommand
  <2> QED BY <1>6, <2>1, <2>2 DEF OperatorCommand, runVars, hbVars
<1>7. CASE Tick
  <2>1. job' \in [Jobs -> Entry] BY <1>7, AgedType DEF Tick
  <2>2. stalled' \in [Runs -> 0 .. (Grace + 1)] BY <1>7, RunAssumption DEF Tick
  <2> QED BY <1>7, <2>1, <2>2 DEF Tick, runVars
<1>8. CASE UNCHANGED vars BY <1>8, <1>q, <1>h DEF vars, queueVars, runVars
<1> QED BY <1>1, <1>2, <1>3, <1>4, <1>5, <1>6, <1>7, <1>8 DEF Next

(* Types hold in every reachable state, for any number of runs and jobs.    *)
THEOREM TypeCorrect == Spec => []TypeOK
BY InitType, NextType, PTL DEF Spec

-----------------------------------------------------------------------------
(* The inductive invariant of the lease.  What a run holds in memory, what  *)
(* the file says, and what the heartbeat thread knows of the time agree.    *)

\* The file: a lease is on an active job with a heartbeat; ids are not reused.
LeaseShape ==
    \A j \in Jobs : /\ job[j].run # NoRun => job[j].status = "active" /\ job[j].beat # NoBeat
                    /\ job[j].status # "absent" => j <= added

\* Memory: the item in hand, and what the heartbeat thread may read of it.
Bookkeeping(r) ==
    /\ pc[r] \in Holding => /\ item[r].id \in Jobs /\ item[r].id <= added
                            /\ item[r].epoch <= job[item[r].id].epoch
    /\ pc[r] \in Holding \ {"leased"} => current_job[r] = item[r]
    /\ current_job[r] # NoItem => current_job[r].id \in Jobs
    /\ hb[r] = "touch" => hb_job[r].id \in Jobs

\* Whoever is written in a job as its owner has it in hand, knows better, or is gone.
OwnerKnown(r) ==
    \A j \in Jobs : job[j].run = r =>
        \/ /\ item[r] = [id |-> j, epoch |-> job[j].epoch]
           /\ pc[r] \in Holding \/ (pc[r] = "release" /\ lease_lost[r])
        \/ pc[r] = "loop" /\ lease_lost[r]
        \/ pc[r] \in {"ended", "crashed"}

\* The heartbeat thread declares the lease lost before `stalled` passes the grace.
StallBounded(r) ==
    ~lease_lost[r] /\ hb[r] # "dead" =>
        /\ hb[r] # "stop"
        /\ stalled[r] <= Grace
        /\ hb[r] = "wait" /\ ~(Live(r) /\ due[r]) => stalled[r] < Grace

\* The lease in hand is no older than the heartbeat thread believes.
HeldFresh(r) ==
    pc[r] \in Holding /\ InFile(item[r].id) /\ ~lease_lost[r] /\ hb[r] # "dead" =>
        /\ Owns(job, item[r].id, r, item[r].epoch)
        /\ job[item[r].id].beat <= (IF pc[r] = "leased" THEN 0 ELSE stalled[r])

LeaseInv ==
    /\ TypeOK /\ LeaseShape /\ OneLeasePerRun /\ GenerationsDiffer
    /\ \A r \in Runs : Bookkeeping(r) /\ OwnerKnown(r) /\ StallBounded(r) /\ HeldFresh(r)

-----------------------------------------------------------------------------
(* How a step may change the file, seen from run r: it gains no lease,      *)
(* generations do not fall, and what is gone stays gone.                    *)
NoGain(r) ==
    /\ added <= added'
    /\ \A j \in Jobs : /\ job'[j].run = r => job[j].run = r /\ job'[j].epoch = job[j].epoch
                       /\ j <= added => /\ job[j].epoch <= job'[j].epoch
                                        /\ job[j].status = "absent" => job'[j].status = "absent"

\* A live lease of r survives, no older, unless the job is removed.
Keeps(r) ==
    \A j \in Jobs : job[j].run = r /\ ~Stale(job, j) =>
        \/ job'[j].status = "absent"
        \/ /\ job'[j].run = r
           /\ job'[j].beat <= job[j].beat

SameLocals(r) ==
    /\ pc'[r] = pc[r] /\ item'[r] = item[r] /\ current_job'[r] = current_job[r]
    /\ lease_lost'[r] = lease_lost[r] /\ hb'[r] = hb[r] /\ hb_job'[r] = hb_job[r]
    /\ stalled'[r] = stalled[r] /\ due'[r] = due[r]

SameHb(r) ==
    /\ lease_lost'[r] = lease_lost[r] /\ hb'[r] = hb[r] /\ hb_job'[r] = hb_job[r]
    /\ stalled'[r] = stalled[r] /\ due'[r] = due[r]

RunInv(r) == Bookkeeping(r) /\ OwnerKnown(r) /\ StallBounded(r) /\ HeldFresh(r)

\* A lease that its run may still trust is active and not up for recovery.
LEMMA HeldNotStale ==
    ASSUME LeaseInv, NEW r \in Runs, pc[r] \in Holding, InFile(item[r].id),
           ~lease_lost[r], hb[r] # "dead"
    PROVE  /\ item[r].id \in Jobs
           /\ job[item[r].id].run = r /\ job[item[r].id].epoch = item[r].epoch
           /\ job[item[r].id].status = "active"
           /\ job[item[r].id].beat # NoBeat
           /\ ~Stale(job, item[r].id)
<1>1. item[r].id \in Jobs BY DEF LeaseInv, Bookkeeping
<1>2. job[item[r].id].run = r /\ job[item[r].id].epoch = item[r].epoch
      /\ job[item[r].id].beat <= (IF pc[r] = "leased" THEN 0 ELSE stalled[r])
  BY DEF LeaseInv, HeldFresh, Owns
<1>3. stalled[r] <= Grace /\ stalled[r] \in 0 .. (Grace + 1)
  BY DEF LeaseInv, StallBounded, TypeOK
<1>4. job[item[r].id].status = "active" /\ job[item[r].id].beat # NoBeat
  BY <1>1, <1>2, QueueAssumption DEF LeaseInv, LeaseShape
<1>5. job[item[r].id].beat \in NoBeat .. (Lease + 1)
  BY <1>1 DEF LeaseInv, TypeOK, QueueTypeOK, Entry
<1>6. ~(job[item[r].id].beat > Lease)
  BY <1>2, <1>3, <1>5, QueueAssumption, RunAssumption DEF NoBeat
<1> QED BY <1>1, <1>2, <1>4, <1>6 DEF Stale

-----------------------------------------------------------------------------
(* What each operation does to the file, seen from a run. *)

LEMMA Numbers ==
    ASSUME TypeOK, NEW j \in Jobs
    PROVE  /\ job[j] \in Entry /\ job[j].epoch \in Nat /\ job[j].beat \in Int
           /\ (job[j].beat # NoBeat => job[j].beat >= 0)
           /\ j \in Int /\ added \in Int
<1>1. job[j] \in Entry BY DEF TypeOK, QueueTypeOK
<1> QED BY <1>1, QueueAssumption DEF TypeOK, QueueTypeOK, Entry, NoBeat, Jobs

LEMMA FileSame ==
    ASSUME LeaseInv, job' = job, added' = added
    PROVE  LeaseShape' /\ \A r \in Runs : NoGain(r) /\ Keeps(r)
<1> USE DEF LeaseInv
<1>1. LeaseShape' BY DEF LeaseShape
<1>2. added <= added' /\ \A j \in Jobs : job[j].epoch <= job'[j].epoch
                                         /\ job'[j].beat <= job[j].beat
  <2>1. added <= added' BY QueueAssumption DEF TypeOK, QueueTypeOK
  <2>2. ASSUME NEW j \in Jobs
        PROVE  job[j].epoch <= job'[j].epoch /\ job'[j].beat <= job[j].beat
    BY Numbers
  <2> QED BY <2>1, <2>2
<1> QED BY <1>1, <1>2 DEF NoGain, Keeps

LEMMA FileRecovered ==
    ASSUME LeaseInv, job' = Recovered(job), added' = added
    PROVE  LeaseShape' /\ \A r \in Runs : NoGain(r) /\ Keeps(r)
<1> USE DEF LeaseInv
<1>1. ASSUME NEW j \in Jobs
      PROVE  /\ job'[j].epoch = job[j].epoch
             /\ IF Stale(job, j)
                  THEN job'[j].status = "interrupted" /\ job'[j].run = NoRun
                  ELSE job'[j] = job[j]
             /\ job[j].status = "absent" <=> job'[j].status = "absent"
             /\ job'[j].beat <= job[j].beat \/ Stale(job, j)
             /\ job[j].epoch <= job'[j].epoch
  <2>1. job'[j] = IF Stale(job, j)
                    THEN [job[j] EXCEPT !.status = "interrupted", !.run = NoRun, !.beat = NoBeat]
                    ELSE job[j]
    BY DEF Recovered
  <2>2. job[j] \in Entry /\ job[j].epoch \in Nat /\ job[j].beat \in Int BY Numbers
  <2> QED BY <2>1, <2>2 DEF Entry, Stale
<1>2. LeaseShape' BY <1>1 DEF LeaseShape
<1>3. added <= added' BY QueueAssumption DEF TypeOK, QueueTypeOK
<1>4. ASSUME NEW r \in Runs PROVE NoGain(r) /\ Keeps(r)
  <2>1. r # NoRun BY QueueAssumption
  <2> QED BY <1>1, <1>3, <2>1 DEF NoGain, Keeps
<1> QED BY <1>2, <1>4

LEMMA FileUpdated ==
    ASSUME LeaseInv, NEW o \in Runs, NEW k \in Jobs, NEW e, MayUpdate(job, k, o, e),
           NEW s \in {"done", "failed", "interrupted"},
           job' = Updated(job, k, s), added' = added
    PROVE  /\ LeaseShape'
           /\ \A r \in Runs : NoGain(r)
           /\ \A r \in Runs : r # o => Keeps(r)
           /\ job'[k].run # o
<1> USE DEF LeaseInv
<1>1. job' \in [Jobs -> Entry] BY UpdatedType DEF TypeOK, QueueTypeOK, Statuses
<1>2. \A j \in Jobs : job[j].epoch = job'[j].epoch /\ (j # k => job'[j] = job[j])
  BY DEF Updated, TypeOK, QueueTypeOK, Entry
<1>3. IF job[k].status = "absent" THEN job'[k] = job[k]
                                  ELSE job'[k].status = s /\ job'[k].run = NoRun
  BY DEF Updated, TypeOK, QueueTypeOK, Entry
<1>4. LeaseShape'
  <2>1. ASSUME NEW j \in Jobs
        PROVE  /\ job'[j].run # NoRun => job'[j].status = "active" /\ job'[j].beat # NoBeat
               /\ job'[j].status # "absent" => j <= added
    BY <1>2, <1>3 DEF LeaseShape
  <2> QED BY <2>1 DEF LeaseShape
<1>5. added <= added' /\ \A j \in Jobs : job[j].epoch <= job'[j].epoch
  <2>1. added <= added' BY QueueAssumption DEF TypeOK, QueueTypeOK
  <2>2. ASSUME NEW j \in Jobs PROVE job[j].epoch <= job'[j].epoch BY <1>2, Numbers
  <2> QED BY <2>1, <2>2
<1>6. job[k].status = "absent" => job[k].run = NoRun BY DEF LeaseShape
<1>7. ASSUME NEW r \in Runs PROVE NoGain(r)
  <2>1. r # NoRun BY QueueAssumption
  <2>2. ASSUME NEW j \in Jobs
        PROVE  /\ job'[j].run = r => job[j].run = r /\ job'[j].epoch = job[j].epoch
               /\ job[j].status = "absent" => job'[j].status = "absent"
    BY <1>2, <1>3, <2>1
  <2> QED BY <1>5, <2>2 DEF NoGain
<1>8. ASSUME NEW r \in Runs, r # o PROVE Keeps(r)
  <2>1. job[k].run # r \/ job[k].status = "absent" BY <1>8 DEF MayUpdate, Owns
  <2>2. job[k].run # r BY <1>6, <2>1, QueueAssumption
  <2>3. ASSUME NEW j \in Jobs, job[j].run = r
        PROVE  job'[j].run = r /\ job'[j].beat <= job[j].beat
    BY <1>2, <2>2, <2>3, Numbers
  <2> QED BY <2>3 DEF Keeps
<1>9. job'[k].run # o BY <1>3, <1>6, QueueAssumption
<1> QED BY <1>4, <1>7, <1>8, <1>9

LEMMA FileTouched ==
    ASSUME LeaseInv, NEW o \in Runs, NEW k \in Jobs, job[k].run = o,
           job' = Touched(job, k), added' = added
    PROVE  /\ LeaseShape' /\ \A r \in Runs : NoGain(r) /\ Keeps(r)
           /\ job'[k] = [job[k] EXCEPT !.beat = 0]
<1> USE DEF LeaseInv
<1>1. /\ \A j \in Jobs : j # k => job'[j] = job[j]
      /\ job'[k] = [job[k] EXCEPT !.beat = 0]
  BY DEF Touched, TypeOK, QueueTypeOK
<1>2. /\ job'[k].status = job[k].status /\ job'[k].run = job[k].run
      /\ job'[k].epoch = job[k].epoch /\ job'[k].beat = 0
  <2>1. job[k] \in Entry BY Numbers
  <2> QED BY <1>1, <2>1 DEF Entry
<1>3. job[k].status = "active" /\ job[k].beat # NoBeat BY QueueAssumption DEF LeaseShape
<1>4. 0 # NoBeat /\ added <= added'
  BY QueueAssumption DEF NoBeat, TypeOK, QueueTypeOK
<1>5. LeaseShape'
  <2>1. ASSUME NEW j \in Jobs
        PROVE  /\ job'[j].run # NoRun => job'[j].status = "active" /\ job'[j].beat # NoBeat
               /\ job'[j].status # "absent" => j <= added
    <3>1. /\ job[j].run # NoRun => job[j].status = "active" /\ job[j].beat # NoBeat
          /\ job[j].status # "absent" => j <= added
      BY DEF LeaseShape
    <3>2. CASE j = k BY <1>2, <1>3, <1>4, <3>1, <3>2
    <3>3. CASE j # k BY <1>1, <3>1, <3>3
    <3> QED BY <3>2, <3>3
  <2> QED BY <2>1 DEF LeaseShape
<1>6. \A j \in Jobs : job[j].epoch <= job'[j].epoch /\ job'[j].beat <= job[j].beat
  <2>1. ASSUME NEW j \in Jobs
        PROVE job[j].epoch <= job'[j].epoch /\ job'[j].beat <= job[j].beat
    <3>1. job[j].epoch \in Nat /\ job[j].beat \in Int /\ (job[j].beat # NoBeat => 0 <= job[j].beat)
      BY Numbers
    <3>2. CASE j = k BY <1>2, <1>3, <3>1, <3>2
    <3>3. CASE j # k BY <1>1, <3>1, <3>3
    <3> QED BY <3>2, <3>3
  <2> QED BY <2>1
<1>7. ASSUME NEW r \in Runs PROVE NoGain(r) /\ Keeps(r)
  <2>1. ASSUME NEW j \in Jobs
        PROVE  /\ job'[j].run = job[j].run /\ job'[j].epoch = job[j].epoch
               /\ job'[j].status = job[j].status
    BY <1>1, <1>2
  <2> QED BY <1>4, <1>6, <2>1 DEF NoGain, Keeps
<1> QED BY <1>1, <1>5, <1>7

LEMMA FileOperator ==
    ASSUME LeaseInv, OperatorCommand
    PROVE  LeaseShape' /\ \A r \in Runs : NoGain(r) /\ Keeps(r)
<1> USE DEF LeaseInv
<1> DEFINE Outcome(j) ==
             \/ job'[j] = job[j] /\ (added' = added \/ added' = added + 1)
             \/ added' = added /\ job'[j] = Absent(job[j].epoch)
             \/ /\ added' = added /\ job[j].status \notin {"absent", "active"}
                /\ job'[j] = [job[j] EXCEPT !.status = "pending", !.run = NoRun,
                                            !.beat = NoBeat, !.fin = FALSE]
             \/ added' = added + 1 /\ j = added + 1 /\ job'[j] = Fresh
<1>1. ASSUME NEW j \in Jobs PROVE Outcome(j)
  <2>1. job \in [Jobs -> Entry] /\ job[j] \in Entry BY DEF TypeOK, QueueTypeOK
  <2>2. CASE Add BY <2>1, <2>2 DEF Add
  <2>3. ASSUME NEW k \in Jobs, Remove(k) PROVE Outcome(j) BY <2>1, <2>3 DEF Remove
  <2>4. ASSUME NEW k \in Jobs, Retry(k) PROVE Outcome(j) BY <2>1, <2>4 DEF Retry, Entry
  <2>5. CASE ClearDone BY <2>1, <2>5 DEF ClearDone
  <2>6. CASE Reset BY <2>1, <2>6 DEF Reset
  <2> QED BY <2>2, <2>3, <2>4, <2>5, <2>6 DEF OperatorCommand
<1>2. ASSUME NEW j \in Jobs
      PROVE  /\ job'[j].run # NoRun => job'[j] = job[j]
             /\ job'[j].status # "absent" => j <= added'
             /\ j <= added => /\ job[j].epoch <= job'[j].epoch
                              /\ job[j].status = "absent" => job'[j].status = "absent"
             /\ job[j].run # NoRun => job'[j].status = "absent" \/ job'[j] = job[j]
             /\ added <= added'
  <2>1. /\ job[j] \in Entry /\ job[j].epoch \in Nat /\ j \in Int /\ added \in Int
    BY Numbers
  <2>2. /\ job[j].run # NoRun => job[j].status = "active"
        /\ job[j].status # "absent" => j <= added
    BY DEF LeaseShape
  <2>3. CASE job'[j] = job[j] /\ (added' = added \/ added' = added + 1)
    BY <2>1, <2>2, <2>3
  <2>4. CASE added' = added /\ job'[j] = Absent(job[j].epoch)
    BY <2>1, <2>2, <2>4 DEF Absent
  <2>5. CASE /\ added' = added /\ job[j].status \notin {"absent", "active"}
             /\ job'[j] = [job[j] EXCEPT !.status = "pending", !.run = NoRun,
                                         !.beat = NoBeat, !.fin = FALSE]
    <3>1. job'[j].status = "pending" /\ job'[j].run = NoRun /\ job'[j].epoch = job[j].epoch
      BY <2>1, <2>5 DEF Entry
    <3> QED BY <2>1, <2>2, <2>5, <3>1
  <2>6. CASE added' = added + 1 /\ j = added + 1 /\ job'[j] = Fresh
    <3>1. ~(j <= added) /\ j <= added' /\ added <= added' BY <2>1, <2>6
    <3>2. job'[j].run = NoRun BY <2>6 DEF Fresh
    <3> QED BY <2>2, <3>1, <3>2
  <2> QED BY <1>1, <2>3, <2>4, <2>5, <2>6
<1>3. LeaseShape' BY <1>2 DEF LeaseShape
<1>4. ASSUME NEW r \in Runs PROVE NoGain(r) /\ Keeps(r)
  <2>1. r # NoRun BY QueueAssumption
  <2>2. added <= added'
    <3>1. added' = added \/ added' = added + 1
      BY DEF OperatorCommand, Add, Remove, Retry, ClearDone, Reset
    <3>2. added \in Int BY QueueAssumption DEF TypeOK, QueueTypeOK
    <3> QED BY <3>1, <3>2
  <2>3. \A j \in Jobs : job[j].run = r => job'[j].status = "absent"
                                          \/ (job'[j].run = r /\ job'[j].beat <= job[j].beat)
    <3>1. ASSUME NEW j \in Jobs, job[j].run = r, job'[j] = job[j]
          PROVE  job'[j].run = r /\ job'[j].beat <= job[j].beat
      BY <3>1, Numbers
    <3> QED BY <1>2, <2>1, <3>1
  <2> QED BY <1>2, <2>1, <2>2, <2>3 DEF NoGain, Keeps
<1> QED BY <1>3, <1>4

-----------------------------------------------------------------------------
(* What each step does to the run itself. *)

\* A run that keeps what it holds, and whose heartbeat thread rests, stays sound.
LEMMA Steady ==
    ASSUME LeaseInv, TypeOK', NEW r \in Runs, SameHb(r), item'[r] = item[r],
           NoGain(r), Keeps(r),
           \/ pc'[r] = pc[r] /\ current_job'[r] = current_job[r]
           \/ /\ pc[r] \in Holding /\ pc'[r] \in Holding \ {"leased"}
              /\ current_job'[r] = item[r]
    PROVE  RunInv(r)'
<1> USE DEF LeaseInv
<1>1. Bookkeeping(r)'
  <2>1. ASSUME pc[r] \in Holding
        PROVE  /\ item[r].id \in Jobs /\ item[r].id <= added'
               /\ item[r].epoch <= job'[item[r].id].epoch
    <3>1. item[r].id \in Jobs /\ item[r].id <= added /\ item[r].epoch <= job[item[r].id].epoch
      BY <2>1 DEF Bookkeeping
    <3>2. added <= added' /\ job[item[r].id].epoch <= job'[item[r].id].epoch
      BY <3>1 DEF NoGain
    <3>3. /\ job[item[r].id].epoch \in Nat /\ added \in Int /\ item[r].id \in Int
          /\ item[r].epoch \in Nat
      BY <3>1, Numbers DEF TypeOK, Items
    <3>4. job'[item[r].id].epoch \in Nat /\ added' \in Int
      BY <3>1 DEF TypeOK, QueueTypeOK, Entry
    <3>5. item[r].id <= added' BY <3>1, <3>2, <3>3, <3>4
    <3>6. item[r].epoch <= job'[item[r].id].epoch BY <3>1, <3>2, <3>3, <3>4
    <3> QED BY <3>1, <3>5, <3>6
  <2>2. current_job[r] # NoItem => current_job[r].id \in Jobs BY DEF Bookkeeping
  <2>3. hb[r] = "touch" => hb_job[r].id \in Jobs BY DEF Bookkeeping
  <2>4. pc'[r] \in Holding => pc[r] \in Holding OBVIOUS
  <2>5. pc'[r] \in Holding \ {"leased"} => current_job'[r] = item[r] BY DEF Bookkeeping
  <2>6. current_job'[r] # NoItem => current_job'[r].id \in Jobs BY <2>1, <2>2
  <2> QED BY <2>1, <2>3, <2>4, <2>5, <2>6 DEF Bookkeeping, SameHb
<1>2. OwnerKnown(r)'
  <2>1. "release" \notin Holding /\ "loop" \notin Holding /\ "ended" \notin Holding
        /\ "crashed" \notin Holding
    BY DEF Holding
  <2> QED BY <2>1 DEF OwnerKnown, SameHb, NoGain
<1>3. StallBounded(r)'
  <2>1. \A p \in Holding : p \notin {"off", "ended", "crashed"} BY DEF Holding
  <2>2. Live(r)' = Live(r) BY <2>1 DEF Live
  <2> QED BY <2>2 DEF StallBounded, SameHb
<1>4. HeldFresh(r)'
  <2> SUFFICES ASSUME pc'[r] \in Holding, job'[item[r].id].status # "absent", ~lease_lost[r],
                      hb[r] # "dead"
               PROVE  /\ job'[item[r].id].run = r /\ job'[item[r].id].epoch = item[r].epoch
                      /\ job'[item[r].id].beat <= (IF pc'[r] = "leased" THEN 0 ELSE stalled[r])
    BY DEF HeldFresh, SameHb, InFile, Owns
  <2>0. pc[r] \in Holding /\ (pc'[r] = "leased" => pc[r] = "leased") OBVIOUS
  <2>1. item[r].id \in Jobs /\ item[r].id <= added BY <2>0 DEF Bookkeeping
  <2>2. InFile(item[r].id) BY <2>1 DEF NoGain, InFile
  <2>3. /\ job[item[r].id].run = r /\ job[item[r].id].epoch = item[r].epoch
        /\ ~Stale(job, item[r].id)
    BY <2>0, <2>2, HeldNotStale
  <2>4. job'[item[r].id].run = r /\ job'[item[r].id].beat <= job[item[r].id].beat
    BY <2>1, <2>3 DEF Keeps
  <2>5. job'[item[r].id].epoch = item[r].epoch BY <2>1, <2>3, <2>4 DEF NoGain
  <2>6. job[item[r].id].beat <= (IF pc[r] = "leased" THEN 0 ELSE stalled[r])
    BY <2>0, <2>2 DEF HeldFresh
  <2>7. job[item[r].id].beat \in Int /\ stalled[r] \in 0 .. (Grace + 1)
    BY <2>1, Numbers DEF TypeOK
  <2>8. job'[item[r].id].beat \in Int
    BY <2>1, QueueAssumption DEF TypeOK, QueueTypeOK, Entry, NoBeat
  <2>9. job'[item[r].id].beat <= (IF pc'[r] = "leased" THEN 0 ELSE stalled[r])
    BY <2>0, <2>4, <2>6, <2>7, <2>8, RunAssumption
  <2> QED BY <2>4, <2>5, <2>9
<1> QED BY <1>1, <1>2, <1>3, <1>4 DEF RunInv

\* Outside Holding little is left to check.
LEMMA NotHolding ==
    ASSUME LeaseInv, NEW r \in Runs, SameHb(r), pc'[r] \notin Holding,
           Live(r)' = Live(r), OwnerKnown(r)',
           current_job'[r] \in {current_job[r], NoItem}
    PROVE  RunInv(r)'
<1> USE DEF LeaseInv
<1>1. Bookkeeping(r)' BY DEF Bookkeeping, SameHb
<1>2. StallBounded(r)' BY DEF StallBounded, SameHb
<1>3. HeldFresh(r)' BY DEF HeldFresh
<1> QED BY <1>1, <1>2, <1>3 DEF RunInv

\* What the end of a process leaves behind is sound, whatever it did last.
LEMMA ExitSound ==
    ASSUME TypeOK, NEW r \in Runs, NEW how \in {"ended", "crashed"}, Exit(r, how)
    PROVE  /\ RunInv(r)' /\ pc'[r] \notin Holding
           /\ \A s \in Runs : s # r => SameLocals(s)
<1> USE DEF TypeOK
<1>1. /\ pc'[r] = how /\ current_job'[r] = NoItem /\ hb'[r] = "wait"
      /\ stalled'[r] = 0 /\ due'[r] = FALSE
  BY DEF Exit
<1>2. pc'[r] \notin Holding BY <1>1 DEF Holding
<1>3. Bookkeeping(r)' BY <1>1, <1>2 DEF Bookkeeping
<1>4. OwnerKnown(r)' BY <1>1 DEF OwnerKnown
<1>5. StallBounded(r)' BY <1>1, RunAssumption DEF StallBounded
<1>6. HeldFresh(r)' BY <1>2 DEF HeldFresh
<1>7. ASSUME NEW s \in Runs, s # r PROVE SameLocals(s) BY <1>7 DEF Exit, SameLocals
<1> QED BY <1>2, <1>3, <1>4, <1>5, <1>6, <1>7 DEF RunInv

(* A step of run r that puts nothing new in anybody's hand keeps the whole  *)
(* invariant, once r itself is sound.                                       *)
LEMMA StepOfOne ==
    ASSUME LeaseInv, TypeOK', NEW r \in Runs, LeaseShape', RunInv(r)',
           \A s \in Runs : NoGain(s),
           \A s \in Runs : s # r => SameLocals(s) /\ Keeps(s),
           pc'[r] \in Holding => pc[r] \in Holding /\ item'[r] = item[r]
    PROVE  LeaseInv'
<1> USE DEF LeaseInv
<1>1. ASSUME NEW s \in Runs PROVE RunInv(s)'
  <2>1. CASE s = r BY <2>1
  <2>2. CASE s # r
    <3>1. SameLocals(s) /\ Keeps(s) /\ NoGain(s) BY <2>2
    <3> QED BY <3>1, Steady DEF SameLocals, SameHb
  <2> QED BY <2>1, <2>2
<1>2. OneLeasePerRun' BY DEF OneLeasePerRun, NoGain
<1>3. \A s \in Runs : pc'[s] \in Holding => pc[s] \in Holding /\ item'[s] = item[s]
  BY DEF SameLocals
<1>4. GenerationsDiffer' BY <1>3 DEF GenerationsDiffer
<1> QED BY <1>1, <1>2, <1>4 DEF RunInv

-----------------------------------------------------------------------------
(* One lemma per kind of step. *)

\* A main thread that moves on with its item in hand.
LEMMA MoveOn ==
    ASSUME LeaseInv, TypeOK', NEW r \in Runs, UNCHANGED <<queueVars, item, lease_lost, hbVars>>,
           pc[r] \in Holding, NEW p \in Holding \ {"leased"}, pc' = [pc EXCEPT ![r] = p],
           \/ UNCHANGED current_job /\ pc[r] # "leased"
           \/ current_job' = [current_job EXCEPT ![r] = item[r]]
    PROVE  LeaseInv'
<1> USE DEF LeaseInv, queueVars, hbVars
<1>1. LeaseShape' /\ \A s \in Runs : NoGain(s) /\ Keeps(s) BY FileSame
<1>2. pc'[r] = p /\ current_job'[r] = item[r] /\ SameHb(r) BY DEF TypeOK, Bookkeeping, SameHb
<1>3. RunInv(r)' BY <1>1, <1>2, Steady
<1>4. \A s \in Runs : s # r => SameLocals(s) BY DEF SameLocals, TypeOK
<1> QED BY <1>1, <1>3, <1>4, StepOfOne

\* A process that ends while the file stays, recovers, or takes its last word.
LEMMA ExitStep ==
    ASSUME LeaseInv, TypeOK', NEW r \in Runs, NEW how \in {"ended", "crashed"}, Exit(r, how),
           LeaseShape', \A s \in Runs : NoGain(s), \A s \in Runs : s # r => Keeps(s)
    PROVE  LeaseInv'
<1>1. /\ RunInv(r)' /\ pc'[r] \notin Holding
      /\ \A s \in Runs : s # r => SameLocals(s)
  BY ExitSound DEF LeaseInv
<1> QED BY <1>1, StepOfOne

LEMMA StartStep ==
    ASSUME LeaseInv, TypeOK', NEW r \in Runs, Start(r) PROVE LeaseInv'
<1> USE DEF LeaseInv
<1>1. LeaseShape' /\ \A s \in Runs : NoGain(s) /\ Keeps(s) BY FileRecovered DEF Start
<1>2. pc[r] = "off" /\ pc'[r] \in {"loop", "ended"} BY DEF Start, TypeOK
<1>3. \A s \in Runs : s # r => SameLocals(s) BY DEF Start, SameLocals, hbVars, TypeOK
<1>4. pc'[r] \notin Holding BY <1>2 DEF Holding
<1>5. SameHb(r) /\ current_job'[r] = current_job[r] BY DEF Start, SameHb, hbVars
<1>6. \A j \in Jobs : job[j].run # r BY <1>2 DEF OwnerKnown, Holding
<1>7. Bookkeeping(r)' BY <1>4, <1>5 DEF Bookkeeping, SameHb
<1>8. OwnerKnown(r)' BY <1>1, <1>6 DEF OwnerKnown, NoGain
<1>9. StallBounded(r)'
  <2>1. ~Live(r) BY <1>2 DEF Live
  <2> QED BY <1>5, <2>1 DEF StallBounded, SameHb
<1>10. HeldFresh(r)' BY <1>4 DEF HeldFresh
<1> QED BY <1>1, <1>3, <1>4, <1>7, <1>8, <1>9, <1>10, StepOfOne DEF RunInv

\* claim_next on the file: one job, nobody's by now, is leased; the stale ones recover.
LEMMA NewLease ==
    ASSUME LeaseInv, NEW r \in Runs, NEW j \in Jobs, FirstRunnable(Recovered(job), j),
           job' = Leased(Recovered(job), j, r), added' = added
    PROVE  /\ job'[j].status = "active" /\ job'[j].run = r /\ job'[j].beat = 0
           /\ job'[j].epoch = job[j].epoch + 1 /\ Recovered(job)[j].epoch = job[j].epoch
           /\ \A i \in Jobs : i # j => job'[i] = job[i] \/ job'[i].run = NoRun
           /\ \A i \in Jobs : i # j => job'[i] = Recovered(job)[i]
           /\ job[j].status # "absent" /\ j <= added
           /\ job[j].status = "active" => Stale(job, j)
           /\ LeaseShape' /\ \A s \in Runs : s # r => NoGain(s) /\ Keeps(s)
<1> USE DEF LeaseInv
<1> DEFINE q == Recovered(job)
<1>0. q \in [Jobs -> Entry] /\ q[j] \in Entry /\ r # NoRun
  BY RecoveredType, QueueAssumption DEF TypeOK, QueueTypeOK
<1>1. /\ job'[j].status = "active" /\ job'[j].run = r /\ job'[j].beat = 0
      /\ job'[j].epoch = q[j].epoch + 1
      /\ \A i \in Jobs : i # j => job'[i] = q[i]
  BY <1>0 DEF Leased, Entry
<1>2. ASSUME NEW i \in Jobs
      PROVE  /\ q[i].epoch = job[i].epoch
             /\ IF Stale(job, i) THEN q[i].status = "interrupted" /\ q[i].run = NoRun
                                 ELSE q[i] = job[i]
  <2>1. q[i] = IF Stale(job, i)
                 THEN [job[i] EXCEPT !.status = "interrupted", !.run = NoRun, !.beat = NoBeat]
                 ELSE job[i]
    BY DEF Recovered
  <2>2. job[i] \in Entry BY Numbers
  <2> QED BY <2>1, <2>2 DEF Entry
<1> HIDE DEF q
<1>3. q[j].status \in {"pending", "interrupted"} BY DEF FirstRunnable, Runnable, q
<1>4. /\ job[j].status \notin {"absent"} /\ j <= added
      /\ Stale(job, j) \/ job[j].run = NoRun
  <2>1. job[j].status # "absent" BY <1>2, <1>3 DEF Stale
  <2>2. ~Stale(job, j) => job[j].status # "active" BY <1>2, <1>3
  <2> QED BY <2>1, <2>2 DEF LeaseShape
<1>5. LeaseShape'
  <2>1. job'[j].beat # NoBeat BY <1>1 DEF NoBeat
  <2>2. ASSUME NEW i \in Jobs, i # j
        PROVE  /\ job'[i].run # NoRun => job'[i].status = "active" /\ job'[i].beat # NoBeat
               /\ job'[i].status # "absent" => i <= added
    BY <1>1, <1>2, <2>2 DEF LeaseShape, Stale
  <2> QED BY <1>1, <1>4, <2>1, <2>2 DEF LeaseShape
<1>6. \A i \in Jobs : job[i].epoch <= job'[i].epoch
  <2>1. ASSUME NEW i \in Jobs PROVE job[i].epoch <= job'[i].epoch
    <3>1. job[i].epoch \in Nat /\ q[i].epoch = job[i].epoch BY <1>2, Numbers
    <3> QED BY <1>1, <3>1
  <2> QED BY <2>1
<1>7. ASSUME NEW s \in Runs, s # r PROVE NoGain(s) /\ Keeps(s)
  <2>0. s # NoRun /\ added <= added' BY QueueAssumption DEF TypeOK, QueueTypeOK
  <2>1. ASSUME NEW i \in Jobs
        PROVE  /\ job'[i].run = s => job[i].run = s /\ job'[i].epoch = job[i].epoch
               /\ job[i].status = "absent" => job'[i].status = "absent"
    BY <1>1, <1>2, <1>4, <1>7, <2>0, <2>1 DEF Stale
  <2>2. NoGain(s) BY <1>6, <2>0, <2>1 DEF NoGain
  <2>3. ASSUME NEW i \in Jobs, job[i].run = s, ~Stale(job, i)
        PROVE  job'[i].run = s /\ job'[i].beat <= job[i].beat
    <3>1. i # j BY <1>4, <2>0, <2>3
    <3>2. job'[i] = job[i] BY <1>1, <1>2, <2>3, <3>1
    <3> QED BY <2>3, <3>2, Numbers
  <2>4. Keeps(s) BY <2>3 DEF Keeps
  <2> QED BY <2>2, <2>4
<1>8. job[j].status = "active" => Stale(job, j) BY <1>2, <1>3
<1>9. \A i \in Jobs : i # j => job'[i] = job[i] \/ job'[i].run = NoRun BY <1>1, <1>2
<1> QED BY <1>1, <1>2, <1>4, <1>5, <1>7, <1>8, <1>9 DEF q

\* A new lease: a new generation, in nobody's hand but r's, and r has no other.
LEMMA LeaseStep ==
    ASSUME LeaseInv, TypeOK', NEW r \in Runs, NEW j \in Jobs, pc[r] = "loop", ~lease_lost[r],
           FirstRunnable(Recovered(job), j), job' = Leased(Recovered(job), j, r), added' = added,
           item' = [item EXCEPT ![r] = [id |-> j, epoch |-> Recovered(job)[j].epoch + 1]],
           pc' = [pc EXCEPT ![r] = "leased"], UNCHANGED <<current_job, lease_lost, hbVars>>
    PROVE  LeaseInv'
<1> USE DEF LeaseInv
<1>0. r # NoRun BY QueueAssumption
<1>1. /\ job'[j].status = "active" /\ job'[j].run = r /\ job'[j].beat = 0
      /\ job'[j].epoch = job[j].epoch + 1 /\ Recovered(job)[j].epoch = job[j].epoch
      /\ \A i \in Jobs : i # j => job'[i] = job[i] \/ job'[i].run = NoRun
  BY NewLease
<1>4. j <= added BY NewLease
<1>5. LeaseShape' BY NewLease
<1>7. ASSUME NEW s \in Runs, s # r PROVE NoGain(s) /\ Keeps(s) /\ SameLocals(s)
  <2>1. NoGain(s) /\ Keeps(s) BY <1>7, NewLease
  <2>2. SameLocals(s) BY <1>7 DEF SameLocals, hbVars, TypeOK
  <2> QED BY <2>1, <2>2
<1>8. /\ item'[r] = [id |-> j, epoch |-> job'[j].epoch] /\ pc'[r] = "leased"
      /\ "leased" \in Holding
  BY <1>1 DEF TypeOK, Holding
<1>9. \A i \in Jobs : job[i].run # r BY DEF OwnerKnown, Holding
<1>10. \A i \in Jobs : i # j => job'[i].run # r BY <1>0, <1>1, <1>9
<1>11. RunInv(r)'
  <2>1. job'[j].epoch \in Nat BY DEF TypeOK, QueueTypeOK, Entry
  <2>2. Bookkeeping(r)' BY <1>4, <1>8, <2>1 DEF Bookkeeping, hbVars
  <2>3. OwnerKnown(r)' BY <1>8, <1>10 DEF OwnerKnown
  <2>4. Live(r) /\ Live(r)' BY <1>8 DEF Live
  <2>5. StallBounded(r)' BY <2>4 DEF StallBounded, hbVars
  <2>6. HeldFresh(r)' BY <1>1, <1>8 DEF HeldFresh, Owns
  <2> QED BY <2>2, <2>3, <2>5, <2>6 DEF RunInv
<1>12. ASSUME NEW s \in Runs PROVE RunInv(s)'
  <2>1. CASE s = r BY <1>11, <2>1
  <2>2. CASE s # r
    <3>1. SameLocals(s) /\ Keeps(s) /\ NoGain(s) BY <1>7, <2>2
    <3> QED BY <3>1, Steady DEF SameLocals, SameHb
  <2> QED BY <2>1, <2>2
<1>13. OneLeasePerRun'
  <2>1. ASSUME NEW s \in Runs, NEW i \in Jobs, NEW k \in Jobs, job'[i].run = s, job'[k].run = s
        PROVE  i = k
    <3>1. CASE s = r BY <1>10, <2>1, <3>1
    <3>2. CASE s # r
      <4>1. job[i].run = s /\ job[k].run = s BY <1>7, <2>1, <3>2 DEF NoGain
      <4> QED BY <4>1 DEF OneLeasePerRun
    <3> QED BY <3>1, <3>2
  <2> QED BY <2>1 DEF OneLeasePerRun
<1>14. GenerationsDiffer'
  <2>1. ASSUME NEW s \in Runs, s # r, pc[s] \in Holding, item[s].id = j
        PROVE  item[s].epoch # job'[j].epoch
    <3>1. item[s].epoch <= job[j].epoch BY <2>1 DEF Bookkeeping
    <3>2. item[s].epoch \in Nat /\ job[j].epoch \in Nat BY Numbers DEF TypeOK, Items
    <3> QED BY <1>1, <3>1, <3>2
  <2>2. \A s \in Runs : s # r => pc'[s] = pc[s] /\ item'[s] = item[s]
    BY <1>7 DEF SameLocals
  <2>3. ASSUME NEW s \in Runs, NEW t \in Runs, s # t, pc'[s] \in Holding, pc'[t] \in Holding,
               item'[s].id = item'[t].id
        PROVE  item'[s].epoch # item'[t].epoch
    <3>1. CASE s # r /\ t # r BY <2>2, <2>3, <3>1 DEF GenerationsDiffer
    <3>2. CASE s = r BY <1>8, <2>1, <2>2, <2>3, <3>2
    <3>3. CASE t = r BY <1>8, <2>1, <2>2, <2>3, <3>3
    <3> QED BY <3>1, <3>2, <3>3
  <2> QED BY <2>3 DEF GenerationsDiffer
<1> QED BY <1>5, <1>12, <1>13, <1>14 DEF RunInv

\* The main thread leaves a job with its lease ended, lost, or not its own.
LEMMA LeaveStep ==
    ASSUME LeaseInv, TypeOK', NEW r \in Runs, pc[r] \in Holding \cup {"release"},
           LeaseShape', \A s \in Runs : NoGain(s), \A s \in Runs : s # r => Keeps(s),
           UNCHANGED <<lease_lost, hbVars>>,
           \A s \in Runs : s # r => pc'[s] = pc[s] /\ item'[s] = item[s]
                                    /\ current_job'[s] = current_job[s],
           current_job'[r] \in {current_job[r], NoItem},
           pc'[r] \in {"release", "loop"}, OwnerKnown(r)'
    PROVE  LeaseInv'
<1>1. SameHb(r) /\ \A s \in Runs : s # r => SameLocals(s) BY DEF SameHb, SameLocals, hbVars
<1>2. pc'[r] \notin Holding BY DEF Holding
<1>3. Live(r)' = Live(r) BY DEF Live, Holding
<1>4. RunInv(r)' BY <1>1, <1>2, <1>3, NotHolding
<1> QED BY <1>1, <1>2, <1>4, StepOfOne

LEMMA MainStepKeeps ==
    ASSUME LeaseInv, TypeOK', NEW r \in Runs, MainStep(r) PROVE LeaseInv'
<1> USE DEF LeaseInv
<1>0. {"claimed", "precheck", "armed", "prep", "xfer", "finish", "fail"} = Holding \ {"leased"}
      /\ "leased" \in Holding
  BY DEF Holding
<1>u. UNCHANGED queueVars => LeaseShape' /\ \A s \in Runs : NoGain(s) /\ Keeps(s)
  BY FileSame DEF queueVars
<1>1. CASE StopClaiming(r) BY <1>1, <1>u, ExitStep DEF StopClaiming
<1>2. CASE Claim(r)
  <2>1. CASE \E j \in Jobs : /\ FirstRunnable(Recovered(job), j)
                            /\ job' = Leased(Recovered(job), j, r)
                            /\ item' = [item EXCEPT ![r] =
                                   [id |-> j, epoch |-> Recovered(job)[j].epoch + 1]]
                            /\ pc' = [pc EXCEPT ![r] = "leased"]
                            /\ UNCHANGED <<current_job, current_transfer, lease_lost,
                                           stop_event, row, recorded, hbVars>>
    BY <1>2, <2>1, LeaseStep DEF Claim
  <2>2. CASE job' = Recovered(job) /\ Exit(r, "ended")
    BY <1>2, <2>2, FileRecovered, ExitStep DEF Claim
  <2> QED BY <1>2, <2>1, <2>2 DEF Claim
<1>3. CASE ClaimFails(r) BY <1>3, <1>u, ExitStep DEF ClaimFails
<1>4. CASE Announce(r) BY <1>0, <1>4, MoveOn DEF Announce
<1>5. CASE PrecheckFails(r) BY <1>0, <1>5, MoveOn DEF PrecheckFails
<1>6. CASE Arm(r) BY <1>0, <1>6, MoveOn DEF Arm
<1>7. CASE CheckLease(r)
  <2>1. CASE ~lease_lost[r] BY <1>0, <1>7, <2>1, MoveOn DEF CheckLease
  <2>2. CASE lease_lost[r]
    <3>1. /\ pc[r] = "armed" /\ pc' = [pc EXCEPT ![r] = "release"] /\ pc'[r] = "release"
          /\ UNCHANGED <<queueVars, item, current_job, lease_lost, hbVars>>
      BY <1>7, <2>2 DEF CheckLease, TypeOK
    <3>2. OwnerKnown(r)' BY <2>2, <3>1 DEF OwnerKnown, queueVars
    <3>3. \A s \in Runs : s # r => pc'[s] = pc[s] BY <3>1 DEF TypeOK
    <3> QED BY <1>0, <1>u, <3>1, <3>2, <3>3, LeaveStep
  <2> QED BY <2>1, <2>2
<1>8. CASE PrepFails(r) BY <1>0, <1>8, MoveOn DEF PrepFails
<1>9. CASE Begin(r) BY <1>0, <1>9, MoveOn DEF Begin
<1>10. CASE TransferEnds(r) BY <1>0, <1>10, MoveOn DEF TransferEnds
<1>e. ASSUME pc[r] \in {"precheck", "fail", "finish"}, UNCHANGED <<item, current_job, lease_lost>>,
             UNCHANGED <<added, hbVars>>, pc' = [pc EXCEPT ![r] = "release"],
             \/ /\ MayUpdate(job, item[r].id, r, item[r].epoch)
                /\ \E s \in {"done", "failed"} : job' = Updated(job, item[r].id, s)
             \/ ~MayUpdate(job, item[r].id, r, item[r].epoch) /\ job' = job
      PROVE  LeaseInv'
  <2>1. pc[r] \in Holding /\ pc'[r] = "release" /\ \A s \in Runs : s # r => pc'[s] = pc[s]
    BY <1>0, <1>e DEF TypeOK
  <2>2. item[r].id \in Jobs BY <2>1 DEF Bookkeeping
  <2>3. ASSUME NEW j \in Jobs, job[j].run = r
        PROVE  item[r].id = j /\ item[r].epoch = job[j].epoch
    <3>1. "release" # pc[r] /\ "loop" # pc[r] /\ pc[r] \notin {"ended", "crashed"} BY <1>e
    <3>2. item[r] = [id |-> j, epoch |-> job[j].epoch] BY <2>3, <3>1 DEF OwnerKnown
    <3> QED BY <3>2
  <2>4. /\ LeaseShape' /\ \A s \in Runs : NoGain(s)
        /\ \A s \in Runs : s # r => Keeps(s)
        /\ job'[item[r].id].run # r
    <3>1. CASE MayUpdate(job, item[r].id, r, item[r].epoch)
      BY <1>e, <2>2, <3>1, FileUpdated
    <3>2. CASE ~MayUpdate(job, item[r].id, r, item[r].epoch)
      <4>1. job[item[r].id].run # r BY <2>2, <2>3, <3>2 DEF MayUpdate, Owns
      <4> QED BY <1>e, <3>2, <4>1, FileSame
    <3> QED BY <3>1, <3>2
  <2>5. \A j \in Jobs : job'[j].run # r
    <3>1. \A j \in Jobs : job'[j].run = r => job[j].run = r BY <2>4 DEF NoGain
    <3> QED BY <2>3, <2>4, <3>1
  <2>6. OwnerKnown(r)' BY <2>5 DEF OwnerKnown
  <2> QED BY <1>e, <2>1, <2>4, <2>6, LeaveStep
<1>11. CASE Finish(r)
  <2>1. CASE pc' = [pc EXCEPT ![r] = "release"] BY <1>11, <1>e, <2>1 DEF Finish, TypeOK
  <2>2. CASE pc' = [pc EXCEPT ![r] = "fail"] /\ UNCHANGED job
    BY <1>0, <1>11, <2>2, MoveOn DEF Finish, queueVars
  <2> QED BY <1>11, <2>1, <2>2 DEF Finish
<1>12. CASE Fail(r)
  <2>1. CASE pc' = [pc EXCEPT ![r] = "release"]
    <3>1. pc'[r] = "release" BY <2>1 DEF TypeOK
    <3>2. /\ UNCHANGED <<item, current_job, lease_lost, hbVars, added>>
          /\ \/ /\ MayUpdate(job, item[r].id, r, item[r].epoch)
                /\ job' = Updated(job, item[r].id, "failed")
             \/ ~MayUpdate(job, item[r].id, r, item[r].epoch) /\ job' = job
      BY <1>12, <3>1 DEF Fail, Exit, TypeOK
    <3>3. pc[r] \in {"precheck", "fail"} BY <1>12 DEF Fail
    <3> QED BY <1>e, <2>1, <3>2, <3>3
  <2>2. CASE /\ pc[r] = "precheck" /\ pc' = [pc EXCEPT ![r] = "fail"]
             /\ UNCHANGED <<queueVars, item, current_job, lease_lost, hbVars>>
    BY <1>0, <2>2, MoveOn
  <2>3. CASE Exit(r, "ended") /\ UNCHANGED queueVars BY <1>u, <2>3, ExitStep
  <2> QED BY <1>12, <2>1, <2>2, <2>3 DEF Fail, queueVars
<1>13. CASE Release(r)
  <2>1. /\ pc[r] = "release" /\ pc' = [pc EXCEPT ![r] = "loop"] /\ pc'[r] = "loop"
        /\ UNCHANGED <<queueVars, lease_lost, hbVars>>
        /\ current_job' = [current_job EXCEPT ![r] = NoItem] /\ current_job'[r] = NoItem
        /\ item' = [item EXCEPT ![r] = NoItem]
    BY <1>13 DEF Release, TypeOK
  <2>2. \A s \in Runs : s # r => pc'[s] = pc[s] /\ item'[s] = item[s]
                                 /\ current_job'[s] = current_job[s]
    BY <2>1 DEF TypeOK
  <2>3. OwnerKnown(r)' BY <2>1 DEF OwnerKnown, queueVars, Holding
  <2> QED BY <1>u, <2>1, <2>2, <2>3, LeaveStep
<1> QED BY <1>1, <1>2, <1>3, <1>4, <1>5, <1>6, <1>7, <1>8, <1>9, <1>10, <1>11, <1>12, <1>13
           DEF MainStep

LEMMA InterruptKeeps ==
    ASSUME LeaseInv, TypeOK', NEW r \in Runs, Interrupt(r) PROVE LeaseInv'
<1> USE DEF LeaseInv
<1>1. pc[r] \in Holding /\ Exit(r, "ended") /\ UNCHANGED <<added, commands>>
  BY DEF Interrupt, TryBody, Holding
<1>2. item[r].id \in Jobs BY <1>1 DEF Bookkeeping
<1>3. CASE /\ MayUpdate(job, item[r].id, r, item[r].epoch)
           /\ job' = Updated(job, item[r].id, "interrupted")
  BY <1>1, <1>2, <1>3, FileUpdated, ExitStep
<1>4. CASE job' = job BY <1>1, <1>4, FileSame, ExitStep
<1> QED BY <1>3, <1>4 DEF Interrupt

LEMMA HeartbeatKeeps ==
    ASSUME LeaseInv, TypeOK', NEW r \in Runs, HbStep(r) PROVE LeaseInv'
<1> USE DEF LeaseInv
<1>1. UNCHANGED <<pc, item, current_job, added>> /\ Live(r)
  BY DEF HbStep, HbRead, HbTouch, HbLockError, HbWriteError, HbLose, HbStop, runVars, queueVars
<1>2. \A s \in Runs : s # r => SameLocals(s)
  BY <1>1 DEF HbStep, HbRead, HbTouch, HbLockError, HbWriteError, HbLose, HbStop, runVars, hbVars,
              queueVars, SameLocals, TypeOK
<1>3. (Live(r) <=> Live(r)') /\ Live(r)' BY <1>1 DEF Live
<1>4. UNCHANGED job => LeaseShape' /\ \A s \in Runs : NoGain(s) /\ Keeps(s)
  BY <1>1, FileSame
\* An action that leaves the file alone has three things to show.
<1>5. ASSUME UNCHANGED job,
             hb'[r] = "touch" => hb_job'[r].id \in Jobs,
             lease_lost[r] => lease_lost'[r],
             StallBounded(r)',
             ~lease_lost'[r] /\ hb'[r] # "dead" /\ pc[r] \in Holding /\ pc[r] # "leased"
               => hb[r] # "dead" /\ stalled'[r] = stalled[r],
             ~lease_lost'[r] /\ hb'[r] # "dead" => ~lease_lost[r] /\ hb[r] # "dead"
      PROVE  LeaseInv'
  <2>1. Bookkeeping(r)' BY <1>1, <1>5 DEF Bookkeeping
  <2>2. OwnerKnown(r)' BY <1>1, <1>5 DEF OwnerKnown
  <2>3. HeldFresh(r)' BY <1>1, <1>5 DEF HeldFresh, InFile, Owns
  <2> QED BY <1>1, <1>2, <1>4, <1>5, <2>1, <2>2, <2>3, StepOfOne DEF RunInv
<1>6. CASE HbRead(r)
  <2>1. /\ hb[r] = "wait" /\ due[r] /\ due'[r] = FALSE /\ UNCHANGED <<job, lease_lost>>
        /\ \/ /\ current_job[r] = NoItem /\ stalled'[r] = 0 /\ hb'[r] = "wait"
           \/ /\ current_job[r] # NoItem /\ stalled'[r] = stalled[r] /\ hb'[r] = "touch"
              /\ hb_job'[r] = current_job[r]
    BY <1>6 DEF HbRead, TypeOK, queueVars, runVars
  <2>2. hb'[r] = "touch" => hb_job'[r].id \in Jobs BY <2>1 DEF Bookkeeping
  <2>3. StallBounded(r)'
    <3>1. 0 <= Grace /\ 0 < Grace BY RunAssumption
    <3> QED BY <2>1, <3>1 DEF StallBounded
  <2>4. pc[r] \in Holding /\ pc[r] # "leased" => current_job[r] # NoItem
    <3>1. NoItem.id \notin Jobs BY QueueAssumption DEF NoItem, Jobs
    <3> QED BY <3>1 DEF Bookkeeping
  <2> QED BY <1>5, <2>1, <2>2, <2>3, <2>4
<1>7. CASE HbTouch(r)
  <2>1. CASE Renewed(r)
    <3>1. /\ hb[r] = "touch" /\ hb'[r] = "wait" /\ stalled'[r] = 0 /\ UNCHANGED <<due, lease_lost>>
          /\ job' = Touched(job, hb_job[r].id) /\ hb_job[r].id \in Jobs
      BY <1>7, <2>1 DEF HbTouch, TypeOK, runVars, Bookkeeping
    <3>2. job[hb_job[r].id].run = r BY <2>1 DEF Renewed, Owns
    <3>3. /\ LeaseShape' /\ \A s \in Runs : NoGain(s) /\ Keeps(s)
          /\ job'[hb_job[r].id] = [job[hb_job[r].id] EXCEPT !.beat = 0]
      BY <1>1, <3>1, <3>2, FileTouched
    <3>4. Bookkeeping(r)'
      <4>1. ASSUME pc[r] \in Holding
            PROVE  /\ item[r].id \in Jobs /\ item[r].id <= added
                   /\ item[r].epoch <= job'[item[r].id].epoch
        <5>1. item[r].id \in Jobs /\ item[r].id <= added
              /\ item[r].epoch <= job[item[r].id].epoch
          BY <4>1 DEF Bookkeeping
        <5>2. job[item[r].id].epoch <= job'[item[r].id].epoch BY <3>3, <5>1 DEF NoGain
        <5>3. item[r].epoch \in Nat /\ job[item[r].id].epoch \in Nat BY <5>1, Numbers DEF TypeOK, Items
        <5>4. job'[item[r].id].epoch \in Nat BY <5>1 DEF TypeOK, QueueTypeOK, Entry
        <5> QED BY <5>1, <5>2, <5>3, <5>4
      <4> QED BY <1>1, <3>1, <4>1 DEF Bookkeeping
    <3>5. OwnerKnown(r)' BY <1>1, <3>1, <3>3 DEF OwnerKnown, NoGain
    <3>6. StallBounded(r)'
      <4>1. 0 <= Grace /\ 0 < Grace BY RunAssumption
      <4> QED BY <3>1, <4>1 DEF StallBounded
    <3>7. HeldFresh(r)'
      <4> SUFFICES ASSUME pc[r] \in Holding, job'[item[r].id].status # "absent", ~lease_lost[r]
                   PROVE  /\ job'[item[r].id].run = r /\ job'[item[r].id].epoch = item[r].epoch
                          /\ job'[item[r].id].beat = 0
        BY <1>1, <3>1 DEF HeldFresh, InFile, Owns
      <4>1. item[r].id \in Jobs /\ item[r].id <= added BY DEF Bookkeeping
      <4>2. InFile(item[r].id) BY <3>3, <4>1 DEF NoGain, InFile
      <4>3. job[item[r].id].run = r /\ job[item[r].id].epoch = item[r].epoch
        BY <3>1, <4>2, HeldNotStale
      <4>4. item[r].id = hb_job[r].id BY <3>1, <3>2, <4>1, <4>3 DEF OneLeasePerRun
      <4>5. job[item[r].id] \in Entry BY <4>1, Numbers
      <4>6. /\ job'[item[r].id].run = job[item[r].id].run
            /\ job'[item[r].id].epoch = job[item[r].id].epoch /\ job'[item[r].id].beat = 0
        BY <3>3, <4>4, <4>5 DEF Entry
      <4> QED BY <4>3, <4>6
    <3>8. RunInv(r)' BY <3>4, <3>5, <3>6, <3>7 DEF RunInv
    <3> QED BY <1>1, <1>2, <3>3, <3>8, StepOfOne
  <2>2. CASE ~Renewed(r)
    <3>1. /\ hb[r] = "touch" /\ hb'[r] = "lose" /\ UNCHANGED <<job, due, lease_lost, stalled>>
      BY <1>7, <2>2 DEF HbTouch, TypeOK, runVars
    <3>2. StallBounded(r)' BY <3>1 DEF StallBounded
    <3> QED BY <1>5, <3>1, <3>2
  <2> QED BY <2>1, <2>2
<1>8. CASE HbLockError(r)
  <2>1. /\ hb[r] = "touch" /\ hb'[r] = (IF stalled[r] >= Grace THEN "lose" ELSE "wait")
        /\ UNCHANGED <<job, due, lease_lost, stalled>>
    BY <1>8 DEF HbLockError, TypeOK, runVars, queueVars
  <2>2. stalled[r] \in Int /\ Grace \in Int BY RunAssumption DEF TypeOK
  <2>3. StallBounded(r)' BY <2>1, <2>2 DEF StallBounded
  <2> QED BY <1>5, <2>1, <2>3
<1>9. CASE HbWriteError(r)
  <2>1. hb'[r] = "dead" /\ UNCHANGED <<job, lease_lost>>
    BY <1>9 DEF HbWriteError, TypeOK, runVars, queueVars
  <2>2. StallBounded(r)' BY <2>1 DEF StallBounded
  <2> QED BY <1>5, <2>1, <2>2
<1>10. CASE HbLose(r)
  <2>1. lease_lost'[r] /\ hb'[r] # "touch" /\ UNCHANGED job
    BY <1>10 DEF HbLose, TypeOK, queueVars
  <2>2. StallBounded(r)' BY <2>1 DEF StallBounded
  <2> QED BY <1>5, <2>1, <2>2
<1>11. CASE HbStop(r)
  <2>1. hb[r] = "stop" /\ hb'[r] = "wait" /\ UNCHANGED <<job, lease_lost>>
    BY <1>11 DEF HbStop, TypeOK, queueVars
  <2>2. lease_lost[r] BY <2>1 DEF StallBounded
  <2>3. StallBounded(r)' BY <2>1, <2>2 DEF StallBounded
  <2> QED BY <1>5, <2>1, <2>2, <2>3
<1> QED BY <1>6, <1>7, <1>8, <1>9, <1>10, <1>11 DEF HbStep

\* Time: no lease grows older than its run's heartbeat thread has stalled.
LEMMA TickKeeps ==
    ASSUME LeaseInv, TypeOK', Tick PROVE LeaseInv'
<1> USE DEF LeaseInv
<1>1. UNCHANGED <<added, runVars, hb, hb_job>> BY DEF Tick
<1>2. ASSUME NEW j \in Jobs
      PROVE  /\ job'[j].status = job[j].status /\ job'[j].run = job[j].run
             /\ job'[j].epoch = job[j].epoch
             /\ job[j].beat # NoBeat => job'[j].beat # NoBeat
             /\ job'[j].beat <= job[j].beat + 1
  <2>1. job'[j] = IF job[j].beat = NoBeat \/ job[j].beat > Lease THEN job[j]
                  ELSE [job[j] EXCEPT !.beat = job[j].beat + 1]
    BY DEF Tick, Aged
  <2>2. job[j] \in Entry /\ job[j].beat \in Int /\ (job[j].beat # NoBeat => job[j].beat >= 0)
    BY Numbers
  <2>3. CASE job'[j] = job[j] BY <2>2, <2>3
  <2>4. CASE job'[j] = [job[j] EXCEPT !.beat = job[j].beat + 1] /\ job[j].beat # NoBeat
    <3>1. /\ job'[j].status = job[j].status /\ job'[j].run = job[j].run
          /\ job'[j].epoch = job[j].epoch /\ job'[j].beat = job[j].beat + 1
      BY <2>2, <2>4 DEF Entry
    <3> QED BY <2>2, <2>4, <3>1 DEF NoBeat
  <2> QED BY <2>1, <2>3, <2>4
<1>3. LeaseShape' BY <1>1, <1>2 DEF LeaseShape
<1>4. OneLeasePerRun' BY <1>2 DEF OneLeasePerRun
<1>5. GenerationsDiffer' BY <1>1 DEF GenerationsDiffer, runVars
<1>6. ASSUME NEW r \in Runs PROVE RunInv(r)'
  <2>1. Bookkeeping(r)' BY <1>1, <1>2 DEF Bookkeeping, runVars
  <2>2. OwnerKnown(r)' BY <1>1, <1>2 DEF OwnerKnown, runVars
  <2>3. /\ Punctual(r) /\ due'[r] = (Live(r) /\ hb[r] # "dead")
        /\ stalled'[r] = IF Live(r) /\ stalled[r] <= Grace THEN stalled[r] + 1 ELSE stalled[r]
        /\ (Live(r) <=> Live(r)')
    BY <1>1 DEF Tick, Live, runVars
  <2>4. ~lease_lost[r] /\ hb[r] # "dead" /\ Live(r) => stalled[r] < Grace
    BY <2>3 DEF Punctual, StallBounded
  <2>5. stalled[r] \in Int /\ Grace \in Int BY RunAssumption DEF TypeOK
  <2>6. StallBounded(r)'
    <3>1. hb'[r] = hb[r] /\ lease_lost'[r] = lease_lost[r] BY <1>1 DEF runVars
    <3>2. CASE Live(r)
      <4> SUFFICES ASSUME ~lease_lost[r], hb[r] # "dead"
                   PROVE  hb[r] = "wait" /\ stalled'[r] <= Grace /\ due'[r] /\ Live(r)'
        BY <3>1 DEF StallBounded
      <4>1. hb[r] = "wait" BY <2>3, <3>2 DEF Punctual
      <4>2. stalled'[r] <= Grace BY <2>3, <2>4, <2>5, <3>2
      <4>3. due'[r] /\ Live(r)' BY <2>3, <3>2
      <4> QED BY <4>1, <4>2, <4>3
    <3>3. CASE ~Live(r) BY <2>3, <3>1, <3>3 DEF StallBounded
    <3> QED BY <3>2, <3>3
  <2>7. HeldFresh(r)'
    <3> SUFFICES ASSUME pc[r] \in Holding, InFile(item[r].id), ~lease_lost[r], hb[r] # "dead"
                 PROVE  /\ pc[r] # "leased"
                        /\ job'[item[r].id].run = r /\ job'[item[r].id].epoch = item[r].epoch
                        /\ job'[item[r].id].beat <= stalled'[r]
      <4>1. pc[r] \in Holding => item[r].id \in Jobs BY DEF Bookkeeping
      <4>2. pc[r] \in Holding /\ InFile(item[r].id)' => InFile(item[r].id)
        BY <1>1, <1>2, <4>1 DEF InFile, runVars
      <4> QED BY <1>1, <4>2 DEF HeldFresh, Owns, runVars
    <3>1. item[r].id \in Jobs /\ job[item[r].id].run = r /\ job[item[r].id].epoch = item[r].epoch
      BY HeldNotStale
    <3>2. Live(r) BY DEF Live, Holding
    <3>3. pc[r] # "leased" BY <2>3, <3>2 DEF Punctual
    <3>4. job[item[r].id].beat <= stalled[r] BY <3>3 DEF HeldFresh
    <3>5. stalled'[r] = stalled[r] + 1 BY <2>3, <2>4, <2>5, <3>2
    <3>6. job[item[r].id].beat \in Int BY <3>1, Numbers
    <3>7. job'[item[r].id].beat \in Int
      BY <3>1, QueueAssumption DEF TypeOK, QueueTypeOK, Entry, NoBeat
    <3>8. job'[item[r].id].beat <= job[item[r].id].beat + 1 BY <1>2, <3>1
    <3>9. job'[item[r].id].beat <= stalled'[r] BY <2>5, <3>4, <3>5, <3>6, <3>7, <3>8
    <3>10. job'[item[r].id].run = r /\ job'[item[r].id].epoch = item[r].epoch BY <1>2, <3>1
    <3> QED BY <3>3, <3>9, <3>10
  <2> QED BY <2>1, <2>2, <2>6, <2>7 DEF RunInv
<1> QED BY <1>3, <1>4, <1>5, <1>6 DEF RunInv

LEMMA InitLease == Init => LeaseInv
<1> SUFFICES ASSUME Init PROVE LeaseInv OBVIOUS
<1>1. TypeOK BY InitType
<1>2. ASSUME NEW j \in Jobs
      PROVE  job[j].run = NoRun /\ (job[j].status # "absent" => j <= added)
  <2>1. job[j] \in {Absent(0), Fresh, Legacy} /\ (job[j] # Absent(0) <=> j <= added)
    BY DEF Init, QueueInit
  <2> QED BY <2>1 DEF Absent, Fresh, Legacy
<1>3. LeaseShape BY <1>2 DEF LeaseShape
<1>4. \A r \in Runs, j \in Jobs : job[j].run # r BY <1>2, QueueAssumption
<1>5. OneLeasePerRun BY <1>4 DEF OneLeasePerRun
<1>6. \A r \in Runs : pc[r] \notin Holding BY DEF Init, Holding
<1>7. GenerationsDiffer BY <1>6 DEF GenerationsDiffer
<1>8. ASSUME NEW r \in Runs
      PROVE  Bookkeeping(r) /\ OwnerKnown(r) /\ StallBounded(r) /\ HeldFresh(r)
  <2>1. Bookkeeping(r) BY <1>6 DEF Init, Bookkeeping
  <2>2. OwnerKnown(r) BY <1>4 DEF OwnerKnown
  <2>3. StallBounded(r) BY RunAssumption DEF Init, StallBounded
  <2>4. HeldFresh(r) BY <1>6 DEF HeldFresh
  <2> QED BY <2>1, <2>2, <2>3, <2>4
<1> QED BY <1>1, <1>3, <1>5, <1>7, <1>8 DEF LeaseInv

LEMMA NextLease == LeaseInv /\ [Next]_vars => LeaseInv'
<1> SUFFICES ASSUME LeaseInv, [Next]_vars PROVE LeaseInv' OBVIOUS
<1>1. TypeOK' BY NextType DEF LeaseInv
<1>2. ASSUME NEW r \in Runs, Start(r) PROVE LeaseInv' BY <1>1, <1>2, StartStep
<1>3. ASSUME NEW r \in Runs, MainStep(r) PROVE LeaseInv' BY <1>1, <1>3, MainStepKeeps
<1>4. ASSUME NEW r \in Runs, Interrupt(r) PROVE LeaseInv' BY <1>1, <1>4, InterruptKeeps
<1>5. ASSUME NEW r \in Runs, Crash(r) PROVE LeaseInv'
  <2>1. LeaseShape' /\ \A s \in Runs : NoGain(s) /\ Keeps(s)
    BY <1>5, FileSame DEF Crash, queueVars
  <2> QED BY <1>1, <1>5, <2>1, ExitStep DEF Crash
<1>6. ASSUME NEW r \in Runs, HbStep(r) PROVE LeaseInv' BY <1>1, <1>6, HeartbeatKeeps
<1>7. ASSUME OperatorCommand \/ UNCHANGED vars PROVE LeaseInv'
  <2>1. LeaseShape' /\ \A r \in Runs : NoGain(r) /\ Keeps(r)
    BY <1>7, FileOperator, FileSame DEF vars, queueVars
  <2>2. UNCHANGED <<runVars, hbVars>> BY <1>7 DEF OperatorCommand, vars
  <2>3. ASSUME NEW r \in Runs PROVE RunInv(r)'
    BY <1>1, <2>1, <2>2, Steady DEF SameHb, runVars, hbVars
  <2>4. OneLeasePerRun' BY <2>1 DEF LeaseInv, OneLeasePerRun, NoGain
  <2>5. GenerationsDiffer' BY <2>2 DEF LeaseInv, GenerationsDiffer, runVars
  <2> QED BY <1>1, <2>1, <2>3, <2>4, <2>5 DEF LeaseInv, RunInv
<1>8. CASE Tick BY <1>1, <1>8, TickKeeps
<1> QED BY <1>2, <1>3, <1>4, <1>5, <1>6, <1>7, <1>8 DEF Next

-----------------------------------------------------------------------------
(* The file, the memory of every run and the time its heartbeat thread has   *)
(* lost always agree.                                                       *)
THEOREM LeaseInvariant == Spec => []LeaseInv
BY InitLease, NextLease, PTL DEF Spec

(* While the heartbeat thread is alive and has not declared the lease lost, *)
(* the job is the run's, for any grace up to the lease (queue_cmd.py 42-47).*)
THEOREM LeaseSafe == Spec => []LeaseNeverStolen
<1>1. LeaseInv => LeaseNeverStolen BY DEF LeaseInv, HeldFresh, LeaseNeverStolen
<1> QED BY <1>1, LeaseInvariant, PTL

(* claim_next never leaves a run with a second job leased to it.            *)
THEOREM OneLease == Spec => []OneLeasePerRun
<1>1. LeaseInv => OneLeasePerRun BY DEF LeaseInv
<1> QED BY <1>1, LeaseInvariant, PTL

(* lease_epoch tells any two holders of a job apart.                        *)
THEOREM Generations == Spec => []GenerationsDiffer
<1>1. LeaseInv => GenerationsDiffer BY DEF LeaseInv
<1> QED BY <1>1, LeaseInvariant, PTL

-----------------------------------------------------------------------------
(* The file can always be loaded again. *)

LoadableEntry(e) == /\ e.status # "active" => e.run = NoRun /\ e.beat = NoBeat
                    /\ e.fin => e.status \in Terminal

LoadableFile(q) == \A j \in Jobs : LoadableEntry(q[j])

LEMMA LoadableInFile == FileStaysLoadable <=> LoadableFile(job)
BY DEF FileStaysLoadable, LoadableFile, LoadableEntry

LEMMA RecoveredLoadable ==
    ASSUME NEW q \in [Jobs -> Entry], LoadableFile(q) PROVE LoadableFile(Recovered(q))
<1> SUFFICES ASSUME NEW j \in Jobs PROVE LoadableEntry(Recovered(q)[j]) BY DEF LoadableFile
<1>1. CASE Stale(q, j)
  <2>1. Recovered(q)[j] = [q[j] EXCEPT !.status = "interrupted", !.run = NoRun, !.beat = NoBeat]
    BY <1>1 DEF Recovered
  <2>2. q[j] \in Entry /\ q[j].status = "active" /\ ~q[j].fin
    BY <1>1 DEF Stale, LoadableFile, LoadableEntry, Terminal, Entry
  <2> QED BY <2>1, <2>2 DEF LoadableEntry, Entry
<1>2. CASE ~Stale(q, j) BY <1>2 DEF Recovered, LoadableFile
<1> QED BY <1>1, <1>2

LEMMA LeasedLoadable ==
    ASSUME NEW q \in [Jobs -> Entry], LoadableFile(q), NEW j \in Runnable(q), NEW r
    PROVE  LoadableFile(Leased(q, j, r))
<1> SUFFICES ASSUME NEW i \in Jobs PROVE LoadableEntry(Leased(q, j, r)[i]) BY DEF LoadableFile
<1>1. CASE i = j
  <2>1. q[j] \in Entry /\ ~q[j].fin
    BY DEF Runnable, LoadableFile, LoadableEntry, Terminal, Entry
  <2>2. Leased(q, j, r)[j] = [q[j] EXCEPT !.status = "active", !.run = r, !.beat = 0,
                                          !.epoch = q[j].epoch + 1]
    BY DEF Leased, Runnable
  <2> QED BY <1>1, <2>1, <2>2 DEF LoadableEntry, Entry
<1>2. CASE i # j BY <1>2 DEF Leased, LoadableFile
<1> QED BY <1>1, <1>2

\* An outcome is only ever written over an active job, which has no finish time.
LEMMA UpdatedLoadable ==
    ASSUME NEW q \in [Jobs -> Entry], LoadableFile(q), NEW j \in Jobs, NEW r \in Runs, NEW e,
           MayUpdate(q, j, r, e), NEW s \in {"done", "failed", "interrupted"}
    PROVE  LoadableFile(Updated(q, j, s))
<1> SUFFICES ASSUME NEW i \in Jobs PROVE LoadableEntry(Updated(q, j, s)[i]) BY DEF LoadableFile
<1>1. CASE q[j].status = "absent" BY <1>1 DEF Updated, LoadableFile
<1>2. CASE q[j].status # "absent" /\ i = j
  <2>1. q[j] \in Entry OBVIOUS
  <2>2. q[j].run = r BY <1>2 DEF MayUpdate, Owns
  <2>3. q[j].run # NoRun BY <2>2, QueueAssumption
  <2>4. q[j].status = "active" BY <2>3 DEF LoadableFile, LoadableEntry
  <2>5. ~q[j].fin BY <2>4 DEF LoadableFile, LoadableEntry, Terminal
  <2>6. Updated(q, j, s)[j] = [q[j] EXCEPT !.status = s, !.run = NoRun, !.beat = NoBeat,
                                          !.fin = q[j].fin \/ s \in Terminal]
    BY <1>2 DEF Updated
  <2> QED BY <1>2, <2>1, <2>5, <2>6 DEF LoadableEntry, Entry
<1>3. CASE q[j].status # "absent" /\ i # j BY <1>3 DEF Updated, LoadableFile
<1> QED BY <1>1, <1>2, <1>3

LEMMA OperatorLoadable ==
    ASSUME LeaseInv, LoadableFile(job), OperatorCommand PROVE LoadableFile(job')
<1> SUFFICES ASSUME NEW i \in Jobs PROVE LoadableEntry(job'[i]) BY DEF LoadableFile
<1>1. job \in [Jobs -> Entry] /\ LoadableEntry(job[i])
  BY DEF LeaseInv, TypeOK, QueueTypeOK, LoadableFile
<1>2. LoadableEntry(Fresh) BY DEF LoadableEntry, Fresh
<1>3. LoadableEntry(Absent(job[i].epoch)) BY DEF LoadableEntry, Absent
<1>4. CASE Add BY <1>1, <1>2, <1>4 DEF Add
<1>5. ASSUME NEW j \in Jobs, Remove(j) PROVE LoadableEntry(job'[i])
  BY <1>1, <1>3, <1>5 DEF Remove
<1>6. ASSUME NEW j \in Jobs, Retry(j) PROVE LoadableEntry(job'[i])
  <2>1. CASE i = j
    <3>1. job'[i] = [job[i] EXCEPT !.status = "pending", !.fin = FALSE, !.run = NoRun,
                                   !.beat = NoBeat]
      BY <1>1, <1>6, <2>1 DEF Retry
    <3> QED BY <1>1, <3>1 DEF LoadableEntry, Entry
  <2>2. CASE i # j BY <1>1, <1>6, <2>2 DEF Retry
  <2> QED BY <2>1, <2>2
<1>7. CASE ClearDone BY <1>1, <1>3, <1>7 DEF ClearDone
<1>8. CASE Reset BY <1>3, <1>8 DEF Reset
<1> QED BY <1>4, <1>5, <1>6, <1>7, <1>8 DEF OperatorCommand

LEMMA OtherStepsKeepFile ==
    ASSUME NEW r \in Runs,
           \/ StopClaiming(r) \/ ClaimFails(r) \/ Announce(r) \/ PrecheckFails(r) \/ Arm(r)
           \/ CheckLease(r) \/ PrepFails(r) \/ Begin(r) \/ TransferEnds(r) \/ Release(r)
           \/ Crash(r) \/ HbRead(r) \/ HbLockError(r) \/ HbWriteError(r) \/ HbLose(r)
           \/ HbStop(r)
    PROVE  job' = job
BY DEF StopClaiming, ClaimFails, Announce, PrecheckFails, Arm, CheckLease, PrepFails, Begin,
       TransferEnds, Release, Crash, HbRead, HbLockError, HbWriteError, HbLose, HbStop, queueVars

LEMMA NextLoadable == LeaseInv /\ LoadableFile(job) /\ [Next]_vars => LoadableFile(job')
<1> SUFFICES ASSUME LeaseInv, LoadableFile(job), [Next]_vars PROVE LoadableFile(job') OBVIOUS
<1>1. job \in [Jobs -> Entry] BY DEF LeaseInv, TypeOK, QueueTypeOK
<1>2. LoadableFile(Recovered(job)) /\ Recovered(job) \in [Jobs -> Entry]
  BY <1>1, RecoveredLoadable, RecoveredType
<1>3. ASSUME NEW r \in Runs, pc[r] \in Holding PROVE item[r].id \in Jobs
  BY <1>3 DEF LeaseInv, Bookkeeping
<1>4. ASSUME NEW r \in Runs, Start(r) PROVE LoadableFile(job') BY <1>2, <1>4 DEF Start
<1>5. ASSUME NEW r \in Runs, Claim(r) PROVE LoadableFile(job')
  <2>1. CASE \E j \in Jobs : FirstRunnable(Recovered(job), j) /\ job' = Leased(Recovered(job), j, r)
    BY <1>2, <2>1, LeasedLoadable DEF FirstRunnable
  <2>2. CASE job' = Recovered(job) BY <1>2, <2>2
  <2> QED BY <1>5, <2>1, <2>2 DEF Claim
<1>6. ASSUME NEW r \in Runs, Finish(r) \/ Fail(r) \/ Interrupt(r) PROVE LoadableFile(job')
  <2>1. item[r].id \in Jobs
    BY <1>3, <1>6 DEF Finish, Fail, Interrupt, Holding, TryBody
  <2>2. \/ job' = job
        \/ /\ MayUpdate(job, item[r].id, r, item[r].epoch)
           /\ \E s \in {"done", "failed", "interrupted"} : job' = Updated(job, item[r].id, s)
    BY <1>6 DEF Finish, Fail, Interrupt
  <2> QED BY <1>1, <2>1, <2>2, UpdatedLoadable
<1>7. ASSUME NEW r \in Runs, HbTouch(r) PROVE LoadableFile(job')
  <2>1. CASE Renewed(r)
    <3>1. job' = [job EXCEPT ![hb_job[r].id].beat = 0] /\ job[hb_job[r].id].status = "active"
      BY <1>7, <2>1 DEF HbTouch, Touched, Renewed
    <3>2. SUFFICES ASSUME NEW i \in Jobs PROVE LoadableEntry(job'[i]) BY DEF LoadableFile
    <3>3. job[i] \in Entry /\ LoadableEntry(job[i]) BY <1>1 DEF LoadableFile
    <3>4. CASE i = hb_job[r].id
      <4>1. job'[i] = [job[i] EXCEPT !.beat = 0] BY <1>1, <3>1, <3>4
      <4> QED BY <3>1, <3>3, <3>4, <4>1 DEF LoadableEntry, Entry
    <3>5. CASE i # hb_job[r].id BY <1>1, <3>1, <3>3, <3>5
    <3> QED BY <3>4, <3>5
  <2>2. CASE ~Renewed(r) BY <1>7, <2>2 DEF HbTouch
  <2> QED BY <2>1, <2>2
<1>8. CASE Tick
  <2>1. SUFFICES ASSUME NEW i \in Jobs PROVE LoadableEntry(job'[i]) BY DEF LoadableFile
  <2>2. job[i] \in Entry /\ LoadableEntry(job[i]) BY <1>1 DEF LoadableFile
  <2>3. job'[i] = job[i] \/ (job[i].beat # NoBeat /\ job'[i] = [job[i] EXCEPT !.beat = @ + 1])
    BY <1>8 DEF Tick, Aged
  <2> QED BY <2>2, <2>3 DEF LoadableEntry, Entry
<1>9. CASE OperatorCommand BY <1>9, OperatorLoadable
<1>10. ASSUME job' = job PROVE LoadableFile(job') BY <1>10
<1> QED BY <1>4, <1>5, <1>6, <1>7, <1>8, <1>9, <1>10, OtherStepsKeepFile
      DEF Next, MainStep, HbStep, vars, queueVars

(* No sequence of claims, heartbeats, outcomes, recoveries and commands of   *)
(* any number of runs writes an entry that validate_raw_item would refuse.  *)
THEOREM Loadable == Spec => []FileStaysLoadable
<1>1. Init => LoadableFile(job)
  <2> SUFFICES ASSUME Init, NEW j \in Jobs PROVE LoadableEntry(job[j]) BY DEF LoadableFile
  <2>1. job[j] \in {Absent(0), Fresh, Legacy} BY DEF Init, QueueInit
  <2> QED BY <2>1 DEF Absent, Fresh, Legacy, LoadableEntry, Terminal
<1>2. LoadableFile(job) => FileStaysLoadable BY LoadableInFile
<1>3. LoadableFile(job)' <=> LoadableFile(job') BY DEF LoadableFile, LoadableEntry
<1> QED BY <1>1, <1>2, <1>3, NextLoadable, LeaseInvariant, PTL DEF Spec

-----------------------------------------------------------------------------
(* Only the holder ends a lease. *)

\* Recovery touches stale leases only, and so does a claim.
LEMMA RecoveryPermitted ==
    ASSUME NEW j \in Jobs, job \in [Jobs -> Entry], job[j].status = "active", ~Stale(job, j)
    PROVE  /\ Recovered(job)[j] = job[j]
           /\ \A i \in Runnable(Recovered(job)), r \in Runs : Leased(Recovered(job), i, r)[j] = job[j]
<1>1. Recovered(job)[j] = job[j] BY DEF Recovered
<1>2. ASSUME NEW i \in Runnable(Recovered(job)), NEW r \in Runs
      PROVE  Leased(Recovered(job), i, r)[j] = job[j]
  <2>1. i # j BY <1>1 DEF Runnable
  <2>2. Recovered(job) \in [Jobs -> Entry] BY RecoveredType
  <2> QED BY <1>1, <2>1, <2>2 DEF Leased
<1> QED BY <1>1, <1>2

LEMMA OperatorPermitted ==
    ASSUME LeaseInv, OperatorCommand, NEW j \in Jobs, LeaseEnds(j) PROVE Permitted(j)
<1>1. job \in [Jobs -> Entry] BY DEF LeaseInv, TypeOK, QueueTypeOK
<1>2. job[j].status = "active" /\ job'[j] # job[j] BY DEF LeaseEnds
<1>3. CASE Add
  <2>1. j <= added /\ added \in Nat
    BY <1>2 DEF LeaseInv, LeaseShape, TypeOK, QueueTypeOK
  <2>2. j # added + 1 BY <2>1 DEF Jobs
  <2> QED BY <1>1, <1>2, <1>3, <2>2 DEF Add
<1>4. ASSUME NEW i \in Jobs, Remove(i) PROVE Permitted(j)
  BY <1>1, <1>2, <1>4 DEF Remove, Absent, Permitted
<1>5. ASSUME NEW i \in Jobs, Retry(i) PROVE Permitted(j)
  BY <1>1, <1>2, <1>5 DEF Retry
<1>6. CASE ClearDone BY <1>1, <1>2, <1>6 DEF ClearDone
<1>7. CASE Reset BY <1>7 DEF Reset, Absent, Permitted
<1> QED BY <1>3, <1>4, <1>5, <1>6, <1>7 DEF OperatorCommand

LEMMA OutcomePermitted ==
    ASSUME LeaseInv, NEW r \in Runs, Finish(r) \/ Fail(r) \/ Interrupt(r),
           NEW j \in Jobs, LeaseEnds(j)
    PROVE  Permitted(j)
<1>1. job \in [Jobs -> Entry] /\ item[r] \in Items /\ pc = [s \in Runs |-> pc[s]]
  BY DEF LeaseInv, TypeOK, QueueTypeOK
<1>2. item[r].id \in Jobs /\ pc[r] \in {"claimed", "precheck", "armed", "prep", "xfer", "finish", "fail"}
  BY DEF LeaseInv, Bookkeeping, Finish, Fail, Interrupt, Holding, TryBody
<1>3. /\ MayUpdate(job, item[r].id, r, item[r].epoch)
      /\ \E s \in {"done", "failed", "interrupted"} : job' = Updated(job, item[r].id, s)
      /\ pc'[r] \in {"release", "ended"}
  <2>1. job' # job BY DEF LeaseEnds
  <2> QED BY <1>1, <2>1 DEF Finish, Fail, Interrupt, Exit
<1>4. job[j].status = "active" /\ job'[j] # job[j] BY DEF LeaseEnds
<1>5. j = item[r].id
  <2> SUFFICES ASSUME j # item[r].id PROVE job'[j] = job[j] BY <1>4
  <2> QED BY <1>1, <1>3 DEF Updated
<1>6. job[j].run = r /\ job[j].epoch = item[r].epoch BY <1>3, <1>4, <1>5 DEF MayUpdate, Owns
<1>7. item[r] = [id |-> j, epoch |-> job[j].epoch] BY <1>1, <1>5, <1>6 DEF Items
<1>8. pc'[r] # pc[r] BY <1>2, <1>3
<1> QED BY <1>6, <1>7, <1>8 DEF Permitted, ByHolder

LEMMA StepPermitted ==
    LeaseInv /\ [Next]_vars => [\A j \in Jobs : LeaseEnds(j) => Permitted(j)]_vars
<1> SUFFICES ASSUME LeaseInv, Next, NEW j \in Jobs, LeaseEnds(j) PROVE Permitted(j) OBVIOUS
<1>1. job \in [Jobs -> Entry] BY DEF LeaseInv, TypeOK, QueueTypeOK
<1>2. job[j].status = "active" /\ job'[j] # job[j] BY DEF LeaseEnds
<1>3. ASSUME NEW r \in Runs, Start(r) \/ Claim(r) PROVE Permitted(j)
  <2>1. CASE Stale(job, j) BY <2>1 DEF Permitted
  <2>2. CASE ~Stale(job, j)
    <3>1. \/ job' = Recovered(job)
          \/ \E i \in Runnable(Recovered(job)) : job' = Leased(Recovered(job), i, r)
      BY <1>3 DEF Start, Claim, FirstRunnable
    <3> QED BY <1>1, <1>2, <2>2, <3>1, RecoveryPermitted
  <2> QED BY <2>1, <2>2
<1>4. ASSUME NEW r \in Runs, Finish(r) \/ Fail(r) \/ Interrupt(r) PROVE Permitted(j)
  BY <1>4, OutcomePermitted
<1>5. ASSUME NEW r \in Runs, HbTouch(r) PROVE Permitted(j)
  <2>1. job' = job \/ job' = [job EXCEPT ![hb_job[r].id].beat = 0]
    BY <1>5 DEF HbTouch, Touched
  <2>2. job'[j] = [job[j] EXCEPT !.beat = 0] BY <1>1, <1>2, <2>1
  <2>3. job[j] \in Entry BY <1>1
  <2> QED BY <1>2, <2>2, <2>3 DEF Permitted, Entry
<1>6. CASE Tick
  <2>1. job'[j] = job[j] \/ job'[j] = [job[j] EXCEPT !.beat = @ + 1] BY <1>6 DEF Tick, Aged
  <2>2. job[j] \in Entry BY <1>1
  <2> QED BY <1>2, <2>1, <2>2 DEF Permitted, Entry
<1>7. CASE OperatorCommand BY <1>7, OperatorPermitted
<1>8. job' # job BY <1>2
<1> QED BY <1>3, <1>4, <1>5, <1>6, <1>7, <1>8, OtherStepsKeepFile DEF Next, MainStep, HbStep

(* A run that lost its lease never writes over the job of the next owner:    *)
(* the fencing of _check_owner and touch.                                   *)
THEOREM EndedByHolder == Spec => LeaseOnlyEndedByHolder
BY StepPermitted, LeaseInvariant, PTL DEF Spec, LeaseOnlyEndedByHolder

-----------------------------------------------------------------------------
(* Without lock time-outs and failing writes: two runs never hold one job.  *)

RunStep(r) == Start(r) \/ MainStep(r) \/ Interrupt(r) \/ Crash(r) \/ HbStep(r)

\* What a step of run r may write, and in whose name.
LEMMA FileShape ==
    ASSUME NEW r \in Runs, RunStep(r)
    PROVE  /\ added' = added
           /\ \/ job' = job
              \/ job' = Recovered(job)
              \/ \E j \in Jobs : /\ FirstRunnable(Recovered(job), j)
                                 /\ job' = Leased(Recovered(job), j, r)
              \/ /\ pc[r] \in Holding /\ MayUpdate(job, item[r].id, r, item[r].epoch)
                 /\ \E s \in {"done", "failed", "interrupted"} : job' = Updated(job, item[r].id, s)
              \/ hb[r] = "touch" /\ Renewed(r) /\ job' = Touched(job, hb_job[r].id)
<1>1. CASE Start(r) BY <1>1 DEF Start
<1>2. CASE Claim(r) BY <1>2 DEF Claim
<1>3. CASE Finish(r) BY <1>3 DEF Finish, Holding
<1>4. CASE Fail(r) BY <1>4 DEF Fail, Holding
<1>5. CASE Interrupt(r) BY <1>5 DEF Interrupt, TryBody, Holding
<1>6. CASE HbTouch(r) BY <1>6 DEF HbTouch
<1>7. CASE \/ StopClaiming(r) \/ ClaimFails(r) \/ Announce(r) \/ PrecheckFails(r) \/ Arm(r)
           \/ CheckLease(r) \/ PrepFails(r) \/ Begin(r) \/ TransferEnds(r) \/ Release(r)
           \/ Crash(r) \/ HbRead(r) \/ HbLockError(r) \/ HbWriteError(r) \/ HbLose(r)
           \/ HbStop(r)
  BY <1>7 DEF StopClaiming, ClaimFails, Announce, PrecheckFails, Arm, CheckLease, PrepFails,
              Begin, TransferEnds, Release, Crash, HbRead, HbLockError, HbWriteError, HbLose,
              HbStop, queueVars
<1> QED BY <1>1, <1>2, <1>3, <1>4, <1>5, <1>6, <1>7 DEF RunStep, MainStep, HbStep

\* What the step of one run leaves to the others, and to itself if it writes no outcome.
LEMMA OthersKept ==
    ASSUME LeaseInv, TypeOK', NEW r \in Runs, RunStep(r)
    PROVE  /\ \A s \in Runs : s # r => NoGain(s) /\ Keeps(s) /\ SameLocals(s)
           /\ job' = job => NoGain(r) /\ Keeps(r)
<1> USE DEF LeaseInv
<1>1. ASSUME NEW s \in Runs, s # r PROVE NoGain(s) /\ Keeps(s)
  <2>0. added' = added BY FileShape
  <2>1. CASE job' = job \/ job' = Recovered(job) BY <2>0, <2>1, FileSame, FileRecovered
  <2>2. CASE \E j \in Jobs : /\ FirstRunnable(Recovered(job), j)
                             /\ job' = Leased(Recovered(job), j, r)
    BY <1>1, <2>0, <2>2, NewLease
  <2>3. CASE /\ pc[r] \in Holding /\ MayUpdate(job, item[r].id, r, item[r].epoch)
             /\ \E o \in {"done", "failed", "interrupted"} : job' = Updated(job, item[r].id, o)
    <3>1. item[r].id \in Jobs BY <2>3 DEF Bookkeeping
    <3> QED BY <1>1, <2>0, <2>3, <3>1, FileUpdated
  <2>4. CASE hb[r] = "touch" /\ Renewed(r) /\ job' = Touched(job, hb_job[r].id)
    <3>1. hb_job[r].id \in Jobs BY <2>4 DEF Bookkeeping
    <3>2. job[hb_job[r].id].run = r BY <2>4 DEF Renewed, Owns
    <3> QED BY <2>0, <2>4, <3>1, <3>2, FileTouched
  <2> QED BY <2>1, <2>2, <2>3, <2>4, FileShape
<1>2. job' = job => NoGain(r) /\ Keeps(r) BY FileShape, FileSame
<1>3. ASSUME NEW s \in Runs, s # r PROVE SameLocals(s)
  <2> USE DEF TypeOK, SameLocals
  <2>1. CASE \E how \in {"ended", "crashed"} : Exit(r, how) BY <1>3, <2>1, ExitSound
  <2>2. CASE Start(r) BY <1>3, <2>2 DEF Start, hbVars
  <2>3. CASE HbStep(r)
    BY <1>3, <2>3 DEF HbStep, HbRead, HbTouch, HbLockError, HbWriteError, HbLose, HbStop, runVars,
                      hbVars, queueVars
  <2>4. CASE /\ ~ \E how \in {"ended", "crashed"} : Exit(r, how)
             /\ MainStep(r)
    <3>1. UNCHANGED <<lease_lost, hbVars>>
      BY <2>4 DEF MainStep, StopClaiming, Claim, ClaimFails, Announce, PrecheckFails, Arm,
                  CheckLease, PrepFails, Begin, TransferEnds, Finish, Fail, Release
    <3>2. pc'[s] = pc[s]
      BY <1>3, <2>4 DEF MainStep, StopClaiming, Claim, ClaimFails, Announce, PrecheckFails, Arm,
                  CheckLease, PrepFails, Begin, TransferEnds, Finish, Fail, Release
    <3>3. item'[s] = item[s] /\ current_job'[s] = current_job[s]
      BY <1>3, <2>4 DEF MainStep, StopClaiming, Claim, ClaimFails, Announce, PrecheckFails, Arm,
                  CheckLease, PrepFails, Begin, TransferEnds, Finish, Fail, Release
    <3> QED BY <3>1, <3>2, <3>3 DEF hbVars
  <2> QED BY <2>1, <2>2, <2>3, <2>4 DEF RunStep, Interrupt, Crash
<1> QED BY <1>1, <1>2, <1>3
\* The next turn of the heartbeat thread will renew the lease in hand.
Awaited(r) == \/ hb[r] = "wait" /\ due[r]
              \/ hb[r] = "touch" /\ hb_job[r] = item[r]

\* A held lease is at most one period old, and then its heartbeat is under way.
CleanHeld(r) ==
    pc[r] \in Holding /\ InFile(item[r].id) =>
        /\ Owns(job, item[r].id, r, item[r].epoch)
        /\ job[item[r].id].beat <= 1
        /\ job[item[r].id].beat = 1 => pc[r] # "leased" /\ Awaited(r)

\* A row that is final tells what this run wrote for its item.
RowTrue(r) ==
    /\ pc[r] \in Holding \ {"leased"} => row[r] = "active"
    /\ pc[r] = "release" => /\ row[r] = "complete" => recorded[r] = "done"
                            /\ row[r] = "failed" => recorded[r] = "failed"

OneHolder ==
    \A r, s \in Runs : pc[r] \in Holding /\ pc[s] \in Holding /\ item[r].id = item[s].id => r = s

CleanInv ==
    /\ LeaseInv /\ OneHolder
    /\ \A r \in Runs : hb[r] # "dead" /\ CleanHeld(r) /\ RowTrue(r)

\* What a run holds is its own, active, and out of recovery's reach.
LEMMA HeldOwn ==
    ASSUME CleanInv, NEW r \in Runs, pc[r] \in Holding
    PROVE  /\ item[r].id \in Jobs /\ item[r].id <= added
           /\ MayUpdate(job, item[r].id, r, item[r].epoch)
           /\ InFile(item[r].id) => /\ job[item[r].id].run = r
                                    /\ job[item[r].id].epoch = item[r].epoch
                                    /\ job[item[r].id].status = "active"
                                    /\ job[item[r].id].beat \in 0 .. 1
                                    /\ ~Stale(job, item[r].id)
<1>1. item[r].id \in Jobs /\ item[r].id <= added BY DEF CleanInv, LeaseInv, Bookkeeping
<1>2. ASSUME InFile(item[r].id)
      PROVE  /\ job[item[r].id].run = r /\ job[item[r].id].epoch = item[r].epoch
             /\ job[item[r].id].status = "active" /\ job[item[r].id].beat \in 0 .. 1
             /\ ~Stale(job, item[r].id)
  <2>1. /\ job[item[r].id].run = r /\ job[item[r].id].epoch = item[r].epoch
        /\ job[item[r].id].beat <= 1
    BY <1>2 DEF CleanInv, CleanHeld, Owns
  <2>2. job[item[r].id].status = "active" /\ job[item[r].id].beat # NoBeat
    BY <1>1, <2>1, QueueAssumption DEF CleanInv, LeaseInv, LeaseShape
  <2>3. job[item[r].id].beat \in Int /\ job[item[r].id].beat >= 0
    BY <1>1, <2>2, Numbers DEF CleanInv, LeaseInv
  <2>4. ~(job[item[r].id].beat > Lease) BY <2>1, <2>3, QueueAssumption, RunAssumption
  <2> QED BY <2>1, <2>2, <2>3, <2>4 DEF Stale
<1> QED BY <1>1, <1>2 DEF MayUpdate, Owns, InFile

\* A run that only moves on keeps what it holds.
LEMMA HeldSteady ==
    ASSUME CleanInv, TypeOK', NEW r \in Runs, NoGain(r), Keeps(r), item'[r] = item[r],
           SameHb(r), pc'[r] \in Holding => pc[r] \in Holding, pc'[r] = "leased" => pc[r] = "leased"
    PROVE  CleanHeld(r)'
<1> DEFINE j == item[r].id
<1> SUFFICES ASSUME pc'[r] \in Holding, job'[j].status # "absent"
             PROVE  /\ job'[j].run = r /\ job'[j].epoch = item[r].epoch /\ job'[j].beat <= 1
                    /\ job'[j].beat = 1 => pc'[r] # "leased" /\ Awaited(r)
  BY DEF CleanHeld, InFile, Owns, SameHb, Awaited
<1>1. pc[r] \in Holding /\ j \in Jobs /\ j <= added BY HeldOwn
<1>2. InFile(j) BY <1>1 DEF NoGain, InFile
<1>3. /\ job[j].run = r /\ job[j].epoch = item[r].epoch /\ job[j].beat \in 0 .. 1
      /\ ~Stale(job, j)
  BY <1>1, <1>2, HeldOwn
<1>4. job'[j].run = r /\ job'[j].beat <= job[j].beat BY <1>1, <1>3 DEF Keeps
<1>5. job'[j].epoch = item[r].epoch BY <1>1, <1>3, <1>4 DEF NoGain
<1>6. job'[j].beat \in Int
  BY <1>1, QueueAssumption DEF TypeOK, QueueTypeOK, Entry, NoBeat
<1>7. job'[j].beat <= 1 /\ (job'[j].beat = 1 => job[j].beat = 1) BY <1>3, <1>4, <1>6
<1>8. job[j].beat = 1 => pc[r] # "leased" /\ Awaited(r) BY <1>1, <1>2 DEF CleanInv, CleanHeld
<1> QED BY <1>4, <1>5, <1>7, <1>8

\* A step of run r keeps the invariant once r itself is sound and takes nothing new.
LEMMA CleanStepOfOne ==
    ASSUME CleanInv, LeaseInv', NEW r \in Runs, RunStep(r), hb'[r] # "dead", CleanHeld(r)',
           RowTrue(r)', \A s \in Runs : s # r => row'[s] = row[s] /\ recorded'[s] = recorded[s],
           \/ pc'[r] \notin Holding
           \/ pc[r] \in Holding /\ item'[r] = item[r]
           \/ \A s \in Runs : s # r /\ pc[s] \in Holding => item[s].id # item'[r].id
    PROVE  CleanInv'
<1>0. LeaseInv /\ TypeOK' BY DEF CleanInv, LeaseInv
<1>1. \A s \in Runs : s # r => NoGain(s) /\ Keeps(s) /\ SameLocals(s) BY <1>0, OthersKept
<1>2. ASSUME NEW s \in Runs, s # r PROVE hb'[s] # "dead" /\ CleanHeld(s)' /\ RowTrue(s)'
  <2>1. CleanHeld(s)' BY <1>0, <1>1, <1>2, HeldSteady DEF SameLocals, SameHb
  <2>2. hb'[s] # "dead" /\ RowTrue(s)' BY <1>1, <1>2 DEF CleanInv, SameLocals, RowTrue
  <2> QED BY <2>1, <2>2
<1>3. OneHolder'
  <2>1. ASSUME NEW s \in Runs, NEW t \in Runs, pc'[s] \in Holding, pc'[t] \in Holding,
               item'[s].id = item'[t].id
        PROVE  s = t
    <3>1. CASE s # r /\ t # r BY <1>1, <2>1, <3>1 DEF CleanInv, OneHolder, SameLocals
    <3>2. CASE s = r /\ t # r BY <1>1, <2>1, <3>2 DEF CleanInv, OneHolder, SameLocals
    <3>3. CASE s # r /\ t = r BY <1>1, <2>1, <3>3 DEF CleanInv, OneHolder, SameLocals
    <3> QED BY <3>1, <3>2, <3>3
  <2> QED BY <2>1 DEF OneHolder
<1> QED BY <1>2, <1>3 DEF CleanInv
LEMMA RowsKept ==
    ASSUME TypeOK, NEW r \in Runs, RunStep(r)
    PROVE  \A s \in Runs : s # r => row'[s] = row[s] /\ recorded'[s] = recorded[s]
<1> SUFFICES ASSUME NEW s \in Runs, s # r PROVE row'[s] = row[s] /\ recorded'[s] = recorded[s]
  OBVIOUS
<1> USE DEF TypeOK
<1>1. CASE Start(r) \/ Interrupt(r) \/ Crash(r) BY <1>1 DEF Start, Interrupt, Crash, Exit
<1>2. CASE HbStep(r)
  BY <1>2 DEF HbStep, HbRead, HbTouch, HbLockError, HbWriteError, HbLose, HbStop, runVars
<1>3. CASE StopClaiming(r) \/ Claim(r) \/ ClaimFails(r) \/ Announce(r) \/ PrecheckFails(r)
  BY <1>3 DEF StopClaiming, Claim, ClaimFails, Announce, PrecheckFails, Exit
<1>4. CASE Arm(r) \/ CheckLease(r) \/ PrepFails(r) \/ Begin(r) \/ TransferEnds(r)
  BY <1>4 DEF Arm, CheckLease, PrepFails, Begin, TransferEnds, FinishRow
<1>5. CASE Finish(r) \/ Fail(r) \/ Release(r)
  BY <1>5 DEF Finish, Fail, Release, FinishRow, Exit
<1> QED BY <1>1, <1>2, <1>3, <1>4, <1>5 DEF RunStep, MainStep

LEMMA CleanMain ==
    ASSUME ~FaultyOp, CleanInv, LeaseInv', NEW r \in Runs, MainStep(r) \/ Start(r)
    PROVE  hb'[r] # "dead" /\ CleanHeld(r)' /\ RowTrue(r)'
<1> USE DEF LeaseInv
<1>0. LeaseInv /\ TypeOK /\ TypeOK' /\ RunStep(r) BY DEF CleanInv, RunStep
<1>1. job' = job => NoGain(r) /\ Keeps(r) BY <1>0, OthersKept
<1>2. hb[r] # "dead" /\ RowTrue(r) BY DEF CleanInv
<1>e. ASSUME Exit(r, "ended") PROVE hb'[r] # "dead" /\ CleanHeld(r)' /\ RowTrue(r)'
  BY <1>0, <1>e DEF Exit, TypeOK, CleanHeld, RowTrue, Holding
\* The main thread moves on with its item in hand.
<1>m. ASSUME UNCHANGED <<queueVars, item, hbVars, lease_lost>>, pc[r] \in Holding,
             pc'[r] \in Holding \ {"leased"}, row'[r] = "active"
      PROVE  hb'[r] # "dead" /\ CleanHeld(r)' /\ RowTrue(r)'
  <2>1. CleanHeld(r)' BY <1>0, <1>1, <1>m, HeldSteady DEF queueVars, hbVars, SameHb
  <2>2. pc'[r] # "release" BY <1>m DEF Holding
  <2> QED BY <1>2, <1>m, <2>1, <2>2 DEF RowTrue, hbVars
\* It is through with the item.
<1>f. ASSUME UNCHANGED hbVars, pc'[r] = "release", row'[r] = "complete" => recorded'[r] = "done",
             row'[r] = "failed" => recorded'[r] = "failed"
      PROVE  hb'[r] # "dead" /\ CleanHeld(r)' /\ RowTrue(r)'
  BY <1>2, <1>f DEF CleanHeld, RowTrue, Holding, hbVars
<1>4. CASE Start(r) BY <1>0, <1>2, <1>4 DEF Start, TypeOK, CleanHeld, RowTrue, Holding, hbVars
<1>5. CASE StopClaiming(r) \/ ClaimFails(r) BY <1>5, <1>e DEF StopClaiming, ClaimFails
<1>6. CASE Claim(r)
  <2>1. CASE Exit(r, "ended") BY <1>e, <2>1
  <2>2. CASE \E j \in Jobs : /\ FirstRunnable(Recovered(job), j)
                            /\ job' = Leased(Recovered(job), j, r)
                            /\ item' = [item EXCEPT ![r] =
                                   [id |-> j, epoch |-> Recovered(job)[j].epoch + 1]]
                            /\ pc' = [pc EXCEPT ![r] = "leased"]
                            /\ UNCHANGED hbVars
    <3>1. PICK j \in Jobs : /\ FirstRunnable(Recovered(job), j)
                            /\ job' = Leased(Recovered(job), j, r)
                            /\ item' = [item EXCEPT ![r] =
                                   [id |-> j, epoch |-> Recovered(job)[j].epoch + 1]]
                            /\ pc' = [pc EXCEPT ![r] = "leased"]
                            /\ UNCHANGED hbVars
      BY <2>2
    <3>2. /\ job'[j].run = r /\ job'[j].beat = 0 /\ job'[j].epoch = job[j].epoch + 1
          /\ Recovered(job)[j].epoch = job[j].epoch
      BY <1>0, <1>6, <3>1, NewLease DEF Claim
    <3>3. item'[r] = [id |-> j, epoch |-> job[j].epoch + 1] /\ pc'[r] = "leased"
      BY <1>0, <3>1, <3>2 DEF TypeOK
    <3>4. CleanHeld(r)' BY <3>2, <3>3 DEF CleanHeld, Owns
    <3> QED BY <1>2, <3>1, <3>3, <3>4 DEF RowTrue, hbVars
  <2> QED BY <1>6, <2>1, <2>2 DEF Claim
<1>7. CASE Announce(r)
  <2>1. row'[r] = "active" /\ pc'[r] = "claimed" BY <1>0, <1>7 DEF Announce, TypeOK
  <2> QED BY <1>7, <1>m, <2>1 DEF Announce, Holding
<1>8. CASE PrecheckFails(r) \/ Arm(r) \/ PrepFails(r) \/ Begin(r) \/ TransferEnds(r)
  <2>1. /\ pc[r] \in Holding \ {"leased"} /\ pc'[r] \in Holding \ {"leased"}
        /\ UNCHANGED <<queueVars, item, hbVars, lease_lost, row>>
    BY <1>0, <1>8 DEF PrecheckFails, Arm, PrepFails, Begin, TransferEnds, TypeOK, Holding
  <2> QED BY <1>2, <1>m, <2>1 DEF RowTrue
<1>9. CASE CheckLease(r)
  <2>1. row[r] = "active" /\ "armed" \in Holding \ {"leased"} BY <1>2, <1>9 DEF CheckLease, RowTrue, Holding
  <2>2. CASE lease_lost[r]
    <3>1. pc'[r] = "release" /\ row'[r] = "canceled"
      BY <1>0, <1>9, <2>1, <2>2 DEF CheckLease, TypeOK, FinishRow
    <3> QED BY <1>9, <1>f, <3>1 DEF CheckLease
  <2>3. CASE ~lease_lost[r]
    <3>1. pc'[r] = "prep" /\ UNCHANGED row BY <1>0, <1>9, <2>3 DEF CheckLease, TypeOK
    <3> QED BY <1>9, <1>m, <2>1, <3>1 DEF CheckLease, Holding
  <2> QED BY <2>2, <2>3
<1>10. CASE Finish(r)
  <2>1. pc[r] = "finish" /\ "finish" \in Holding \ {"leased"} BY <1>10 DEF Finish, Holding
  <2>2. MayUpdate(job, item[r].id, r, item[r].epoch) BY <2>1, HeldOwn
  <2>3. row[r] = "active" BY <1>2, <2>1 DEF RowTrue
  <2>4. pc'[r] = "release" /\ row'[r] = "complete" /\ recorded'[r] = "done"
    BY <1>0, <1>10, <2>2, <2>3 DEF Finish, FinishRow, TypeOK
  <2> QED BY <1>10, <1>f, <2>4 DEF Finish
<1>11. CASE Fail(r)
  <2>1. pc[r] \in Holding \ {"leased"} BY <1>11 DEF Fail, Holding
  <2>2. MayUpdate(job, item[r].id, r, item[r].epoch) BY <2>1, HeldOwn
  <2>3. row[r] = "active" BY <1>2, <2>1 DEF RowTrue
  <2>4. /\ pc'[r] = "release" /\ row'[r] = "failed" /\ recorded'[r] = "failed"
        /\ UNCHANGED hbVars
    BY <1>0, <1>11, <2>2, <2>3 DEF Fail, FinishRow, TypeOK
  <2> QED BY <1>f, <2>4
<1>12. CASE Release(r)
  BY <1>0, <1>2, <1>12 DEF Release, TypeOK, CleanHeld, RowTrue, Holding, hbVars
<1> QED BY <1>4, <1>5, <1>6, <1>7, <1>8, <1>9, <1>10, <1>11, <1>12 DEF MainStep
LEMMA CleanHeartbeat ==
    ASSUME ~FaultyOp, CleanInv, LeaseInv', NEW r \in Runs, HbStep(r)
    PROVE  hb'[r] # "dead" /\ CleanHeld(r)' /\ RowTrue(r)'
<1> USE DEF LeaseInv
<1>0. LeaseInv /\ TypeOK /\ TypeOK' /\ RunStep(r) BY DEF CleanInv, RunStep
<1>1. hb[r] # "dead" /\ CleanHeld(r) /\ RowTrue(r) BY DEF CleanInv
<1>2. UNCHANGED <<pc, item, current_job, row, recorded>>
  BY DEF HbStep, HbRead, HbTouch, HbLockError, HbWriteError, HbLose, HbStop, runVars
<1>3. RowTrue(r)' BY <1>1, <1>2 DEF RowTrue
\* Nothing is due: no thread turn is awaited.
<1>4. ASSUME job' = job, hb'[r] # "dead", ~Awaited(r) \/ Awaited(r)'
      PROVE  hb'[r] # "dead" /\ CleanHeld(r)' /\ RowTrue(r)'
  <2>1. CleanHeld(r)' BY <1>1, <1>2, <1>4 DEF CleanHeld, InFile, Owns
  <2> QED BY <1>3, <1>4, <2>1
<1>5. CASE HbRead(r)
  <2>1. /\ hb[r] = "wait" /\ due[r] /\ job' = job
        /\ \/ current_job[r] = NoItem /\ hb'[r] = "wait"
           \/ current_job[r] # NoItem /\ hb'[r] = "touch" /\ hb_job'[r] = current_job[r]
    BY <1>0, <1>5 DEF HbRead, TypeOK, queueVars
  <2>2. pc[r] \in Holding /\ pc[r] # "leased" => current_job[r] = item[r] /\ item[r] # NoItem
    <3>1. NoItem.id \notin Jobs BY QueueAssumption DEF NoItem, Jobs
    <3> QED BY <1>0, <3>1 DEF Bookkeeping
  <2>3. CleanHeld(r)' BY <1>1, <1>2, <2>1, <2>2 DEF CleanHeld, InFile, Owns, Awaited
  <2> QED BY <1>3, <2>1, <2>3
<1>6. CASE HbTouch(r)
  <2>0. hb[r] = "touch" BY <1>6 DEF HbTouch
  <2>1. CASE Renewed(r)
    <3>1. hb'[r] = "wait" /\ job' = Touched(job, hb_job[r].id) /\ hb_job[r].id \in Jobs
      BY <1>0, <1>6, <2>1 DEF HbTouch, TypeOK, Bookkeeping
    <3>2. \A j \in Jobs : /\ job'[j].status = job[j].status /\ job'[j].run = job[j].run
                          /\ job'[j].epoch = job[j].epoch
                          /\ job'[j].beat = IF j = hb_job[r].id THEN 0 ELSE job[j].beat
      BY <1>0, <3>1 DEF Touched, TypeOK, QueueTypeOK, Entry
    <3>3. ASSUME pc[r] \in Holding, job'[item[r].id].status # "absent"
          PROVE  /\ job'[item[r].id].run = r /\ job'[item[r].id].epoch = item[r].epoch
                 /\ job'[item[r].id].beat = 0
      <4>1. item[r].id \in Jobs /\ InFile(item[r].id) BY <3>2, <3>3, HeldOwn DEF InFile
      <4>2. /\ job[item[r].id].run = r /\ job[item[r].id].epoch = item[r].epoch
            /\ job[item[r].id].beat \in 0 .. 1
            /\ job[item[r].id].beat = 1 => hb_job[r] = item[r]
        BY <1>1, <2>0, <3>3, <4>1, HeldOwn DEF CleanHeld, Awaited
      <4>3. job'[item[r].id].beat = 0 BY <3>2, <4>1, <4>2
      <4> QED BY <3>2, <4>1, <4>2, <4>3
    <3>4. CleanHeld(r)' BY <1>2, <3>3 DEF CleanHeld, InFile, Owns
    <3> QED BY <1>3, <3>1, <3>4
  <2>2. CASE ~Renewed(r)
    <3>1. hb'[r] = "lose" /\ job' = job BY <1>0, <1>6, <2>2 DEF HbTouch, TypeOK
    <3>2. pc[r] \in Holding /\ InFile(item[r].id) => hb_job[r] # item[r]
      BY <2>2, HeldOwn DEF Renewed, Owns
    <3>3. CleanHeld(r)' BY <1>1, <1>2, <2>0, <3>1, <3>2 DEF CleanHeld, InFile, Owns, Awaited
    <3> QED BY <1>3, <3>1, <3>3
  <2> QED BY <2>1, <2>2
<1>7. CASE HbLose(r)
  <2>1. hb[r] = "lose" /\ hb'[r] # "dead" /\ job' = job
    BY <1>0, <1>7 DEF HbLose, TypeOK, queueVars
  <2> QED BY <1>4, <2>1 DEF Awaited
<1>8. CASE HbStop(r)
  <2>1. hb[r] = "stop" /\ hb'[r] # "dead" /\ job' = job
    BY <1>0, <1>8 DEF HbStop, TypeOK, queueVars
  <2> QED BY <1>4, <2>1 DEF Awaited
<1>9. ~HbLockError(r) /\ ~HbWriteError(r) BY DEF FaultyOp, HbLockError, HbWriteError
<1> QED BY <1>5, <1>6, <1>7, <1>8, <1>9 DEF HbStep

\* A period passes only after every heartbeat of the last one.
LEMMA CleanTick == ASSUME CleanInv, LeaseInv', Tick PROVE CleanInv'
<1> USE DEF LeaseInv
<1>0. LeaseInv /\ TypeOK /\ UNCHANGED <<runVars, hb, hb_job>> BY DEF CleanInv, Tick
<1>1. OneHolder' BY <1>0 DEF CleanInv, OneHolder, runVars
<1>2. ASSUME NEW r \in Runs PROVE hb'[r] # "dead" /\ CleanHeld(r)' /\ RowTrue(r)'
  <2>1. hb'[r] # "dead" /\ RowTrue(r)' BY <1>0 DEF CleanInv, RowTrue, runVars
  <2>2. ASSUME pc[r] \in Holding, job'[item[r].id].status # "absent"
        PROVE  /\ job'[item[r].id].run = r /\ job'[item[r].id].epoch = item[r].epoch
               /\ job'[item[r].id].beat <= 1 /\ pc[r] # "leased" /\ hb[r] = "wait" /\ due'[r]
    <3> DEFINE j == item[r].id
    <3>0. j \in Jobs /\ Live(r) BY <2>2, HeldOwn DEF Live, Holding
    <3>1. job[j] \in Entry BY <1>0, <3>0, Numbers
    <3>2. \/ job'[j] = job[j]
          \/ job'[j] = [job[j] EXCEPT !.beat = job[j].beat + 1]
      BY <3>0 DEF Tick, Aged
    <3>3. /\ job'[j].status = job[j].status /\ job'[j].run = job[j].run
          /\ job'[j].epoch = job[j].epoch
          /\ job'[j].beat = job[j].beat \/ job'[j].beat = job[j].beat + 1
      BY <3>1, <3>2 DEF Entry
    <3>4. InFile(j) BY <2>2, <3>3 DEF InFile
    <3>5. pc[r] # "leased" /\ hb[r] = "wait" /\ ~due[r] /\ hb[r] # "dead"
      BY <3>0 DEF Tick, Punctual, CleanInv
    <3>6. job[j].beat \in 0 .. 1 /\ job[j].beat # 1
      BY <2>2, <3>4, <3>5, HeldOwn DEF CleanInv, CleanHeld, Awaited
    <3>7. due'[r] BY <3>0, <3>5 DEF Tick
    <3>8. job[j].run = r /\ job[j].epoch = item[r].epoch BY <2>2, <3>4, HeldOwn
    <3>9. job'[j].beat <= 1 BY <3>3, <3>6
    <3> QED BY <3>3, <3>5, <3>7, <3>8, <3>9
  <2>3. CleanHeld(r)' BY <1>0, <2>2 DEF CleanHeld, InFile, Owns, Awaited, runVars
  <2> QED BY <2>1, <2>3
<1> QED BY <1>1, <1>2 DEF CleanInv

LEMMA InitClean == Init => CleanInv
<1> SUFFICES ASSUME Init PROVE CleanInv OBVIOUS
<1>1. LeaseInv BY InitLease
<1>2. \A r \in Runs : pc[r] = "off" /\ hb[r] = "wait" BY DEF Init
<1>3. "off" \notin Holding /\ "off" # "release" BY DEF Holding
<1> QED BY <1>1, <1>2, <1>3 DEF CleanInv, OneHolder, CleanHeld, RowTrue

LEMMA NextClean == ~FaultyOp /\ CleanInv /\ [Next]_vars => CleanInv'
<1> SUFFICES ASSUME ~FaultyOp, CleanInv, [Next]_vars PROVE CleanInv' OBVIOUS
<1>0. LeaseInv /\ LeaseInv' BY NextLease DEF CleanInv
<1>t. TypeOK /\ TypeOK' BY <1>0 DEF LeaseInv
<1>1. ASSUME NEW r \in Runs, RunStep(r) PROVE CleanInv'
  <2>1. \A s \in Runs : s # r => row'[s] = row[s] /\ recorded'[s] = recorded[s]
    BY <1>1, <1>t, RowsKept
  <2>2. hb'[r] # "dead" /\ CleanHeld(r)' /\ RowTrue(r)'
    <3>1. CASE Interrupt(r) \/ Crash(r)
      BY <1>t, <3>1 DEF Interrupt, Crash, Exit, TypeOK, CleanHeld, RowTrue, Holding
    <3> QED BY <1>0, <1>1, <3>1, CleanMain, CleanHeartbeat DEF RunStep
  <2>3. \/ pc'[r] \notin Holding
        \/ pc[r] \in Holding /\ item'[r] = item[r]
        \/ \A s \in Runs : s # r /\ pc[s] \in Holding => item[s].id # item'[r].id
    <3> USE <1>t DEF TypeOK
    <3>1. CASE \E how \in {"ended", "crashed"} : Exit(r, how) BY <3>1 DEF Exit, Holding
    <3>2. CASE Start(r) \/ Release(r) BY <3>2 DEF Start, Release, Holding
    <3>3. CASE HbStep(r)
      BY <3>3 DEF HbStep, HbRead, HbTouch, HbLockError, HbWriteError, HbLose, HbStop, runVars
    <3>4. CASE \/ Announce(r) \/ PrecheckFails(r) \/ Arm(r) \/ CheckLease(r) \/ PrepFails(r)
               \/ Begin(r) \/ TransferEnds(r) \/ Finish(r)
      BY <3>4 DEF Announce, PrecheckFails, Arm, CheckLease, PrepFails, Begin, TransferEnds,
                  Finish, Holding
    <3>5. CASE Fail(r)
      <4>1. Exit(r, "ended") \/ item' = item BY <3>5 DEF Fail
      <4> QED BY <3>1, <3>5, <4>1 DEF Fail, Holding
    <3>6. CASE \E j \in Jobs : /\ FirstRunnable(Recovered(job), j)
                              /\ job' = Leased(Recovered(job), j, r) /\ added' = added
                              /\ item' = [item EXCEPT ![r] =
                                     [id |-> j, epoch |-> Recovered(job)[j].epoch + 1]]
      <4> PICK j \in Jobs : /\ FirstRunnable(Recovered(job), j)
                            /\ job' = Leased(Recovered(job), j, r) /\ added' = added
                            /\ item' = [item EXCEPT ![r] =
                                   [id |-> j, epoch |-> Recovered(job)[j].epoch + 1]]
        BY <3>6
      <4>1. job[j].status # "absent" /\ (job[j].status = "active" => Stale(job, j))
        BY <1>0, NewLease
      <4>2. item'[r].id = j OBVIOUS
      <4>3. ASSUME NEW s \in Runs, pc[s] \in Holding PROVE item[s].id # j
        BY <4>1, <4>3, HeldOwn DEF InFile
      <4> QED BY <4>2, <4>3
    <3>7. Claim(r) => \/ Exit(r, "ended")
                      \/ \E j \in Jobs : /\ FirstRunnable(Recovered(job), j)
                                         /\ job' = Leased(Recovered(job), j, r) /\ added' = added
                                         /\ item' = [item EXCEPT ![r] =
                                              [id |-> j, epoch |-> Recovered(job)[j].epoch + 1]]
      BY DEF Claim
    <3>8. StopClaiming(r) \/ ClaimFails(r) \/ Interrupt(r) \/ Crash(r)
            => \E how \in {"ended", "crashed"} : Exit(r, how)
      BY DEF StopClaiming, ClaimFails, Interrupt, Crash
    <3> QED BY <1>1, <3>1, <3>2, <3>3, <3>4, <3>5, <3>6, <3>7, <3>8 DEF RunStep, MainStep
  <2> QED BY <1>0, <1>1, <2>1, <2>2, <2>3, CleanStepOfOne
<1>2. CASE OperatorCommand \/ UNCHANGED vars
  <2>1. \A r \in Runs : NoGain(r) /\ Keeps(r) BY <1>0, <1>2, FileOperator, FileSame DEF vars, queueVars
  <2>2. UNCHANGED <<runVars, hbVars>> BY <1>2 DEF OperatorCommand, vars
  <2>3. ASSUME NEW r \in Runs PROVE hb'[r] # "dead" /\ CleanHeld(r)' /\ RowTrue(r)'
    <3>1. CleanHeld(r)' BY <1>t, <2>1, <2>2, HeldSteady DEF SameHb, runVars, hbVars
    <3> QED BY <2>2, <3>1 DEF CleanInv, RowTrue, runVars, hbVars
  <2>4. OneHolder' BY <2>2 DEF CleanInv, OneHolder, runVars
  <2> QED BY <1>0, <2>3, <2>4 DEF CleanInv
<1>3. CASE Tick BY <1>0, <1>3, CleanTick
<1> QED BY <1>1, <1>2, <1>3 DEF Next, RunStep

(* With a working lock and disk, no two runs ever hold one job: claim_next,  *)
(* the heartbeat and recovery between them keep it so, for any number of     *)
(* runs, of jobs and of the operator's commands, and for any lease.          *)
THEOREM OneRunPerJob == ASSUME ~FaultyOp PROVE Spec => [](OneHolder /\ NoOverlap)
<1>1. CleanInv => OneHolder /\ NoOverlap
  <2> SUFFICES ASSUME CleanInv PROVE OneHolder /\ NoOverlap OBVIOUS
  <2>1. OneHolder BY DEF CleanInv
  <2>2. "xfer" \in Holding BY DEF Holding
  <2> QED BY <2>1, <2>2 DEF OneHolder, NoOverlap
<1>2. CleanInv /\ [Next]_vars => CleanInv' BY NextClean
<1> QED BY <1>1, <1>2, InitClean, PTL DEF Spec

(* Every row that shows a final status tells what the queue file was told.   *)
THEOREM RowTellsFile == ASSUME ~FaultyOp PROVE Spec => []RowAgreesWithFile
<1>1. CleanInv => RowAgreesWithFile
  BY DEF CleanInv, RowTrue, RowAgreesWithFile
<1>2. CleanInv /\ [Next]_vars => CleanInv' BY NextClean
<1> QED BY <1>1, <1>2, InitClean, PTL DEF Spec
-----------------------------------------------------------------------------
(* Step by step, the queue is LeasedWork. *)

Xfer(r, j) == pc[r] = "xfer" /\ item[r].id = j

Phases == {"absent", "open", "finished"}

\* WorkerOf names the one run in a transfer of j, if there is one.
LEMMA WorkerKnown ==
    ASSUME OneHolder, NEW j \in Jobs
    PROVE  /\ \A r \in Runs : WorkerOf(j) = r <=> Xfer(r, j)
           /\ WorkerOf(j) = NoRun <=> \A r \in Runs : ~Xfer(r, j)
<1>1. \A r, s \in Runs : Xfer(r, j) /\ Xfer(s, j) => r = s BY DEF OneHolder, Xfer, Holding
<1>2. \A r \in Runs : r # NoRun BY QueueAssumption
<1>3. CASE \E r \in Runs : Xfer(r, j)
  <2>1. WorkerOf(j) = CHOOSE r \in Runs : Xfer(r, j) BY <1>3 DEF WorkerOf, Xfer
  <2>2. WorkerOf(j) \in Runs /\ Xfer(WorkerOf(j), j) BY <1>3, <2>1
  <2> QED BY <1>1, <1>2, <2>2
<1>4. CASE ~ \E r \in Runs : Xfer(r, j) BY <1>2, <1>4 DEF WorkerOf, Xfer
<1> QED BY <1>3, <1>4

LEMMA WorkerKnownNext ==
    ASSUME OneHolder', NEW j \in Jobs
    PROVE  /\ \A r \in Runs : WorkerOf(j)' = r <=> Xfer(r, j)'
           /\ WorkerOf(j)' = NoRun <=> \A r \in Runs : ~Xfer(r, j)'
<1>1. \A r, s \in Runs : Xfer(r, j)' /\ Xfer(s, j)' => r = s BY DEF OneHolder, Xfer, Holding
<1>2. \A r \in Runs : r # NoRun BY QueueAssumption
<1>3. CASE \E r \in Runs : Xfer(r, j)'
  <2>1. WorkerOf(j)' = CHOOSE r \in Runs : Xfer(r, j)' BY <1>3 DEF WorkerOf, Xfer
  <2>2. WorkerOf(j)' \in Runs /\ pc'[WorkerOf(j)'] = "xfer" /\ item'[WorkerOf(j)'].id = j
    BY <1>3, <2>1 DEF Xfer
  <2> QED BY <1>1, <1>2, <2>2 DEF Xfer
<1>4. CASE ~ \E r \in Runs : Xfer(r, j)' BY <1>2, <1>4 DEF WorkerOf, Xfer
<1> QED BY <1>3, <1>4

\* Who transfers what changes only with the run that moves.
LEMMA WorkersSame ==
    ASSUME OneHolder, OneHolder', \A r \in Runs, j \in Jobs : Xfer(r, j)' <=> Xfer(r, j)
    PROVE  [j \in Jobs |-> WorkerOf(j)]' = [j \in Jobs |-> WorkerOf(j)]
<1> SUFFICES ASSUME NEW j \in Jobs PROVE WorkerOf(j)' = WorkerOf(j) OBVIOUS
<1>1. CASE \E r \in Runs : Xfer(r, j) BY <1>1, WorkerKnown, WorkerKnownNext
<1>2. CASE ~ \E r \in Runs : Xfer(r, j) BY <1>2, WorkerKnown, WorkerKnownNext
<1> QED BY <1>1, <1>2

LEMMA PhasesSame ==
    ASSUME \A j \in Jobs : /\ job'[j].status = "absent" <=> job[j].status = "absent"
                           /\ job'[j].status \in Terminal <=> job[j].status \in Terminal
    PROVE  [j \in Jobs |-> PhaseOf(j)]' = [j \in Jobs |-> PhaseOf(j)]
<1> SUFFICES ASSUME NEW j \in Jobs PROVE PhaseOf(j)' = PhaseOf(j) OBVIOUS
<1>1. CASE job[j].status = "absent" BY <1>1 DEF PhaseOf
<1>2. CASE job[j].status # "absent" /\ job[j].status \in Terminal BY <1>2 DEF PhaseOf
<1>3. CASE job[j].status # "absent" /\ job[j].status \notin Terminal BY <1>3 DEF PhaseOf
<1> QED BY <1>1, <1>2, <1>3
Workers == [j \in Jobs |-> WorkerOf(j)]
PhasesOfJobs == [j \in Jobs |-> PhaseOf(j)]

\* The file after a step of a run that writes no outcome.
LEMMA OpenStaysOpen ==
    ASSUME LeaseInv, NEW r \in Runs, RunStep(r), ~Finish(r), ~Fail(r)
    PROVE  UNCHANGED PhasesOfJobs
<1>0. job \in [Jobs -> Entry] BY DEF LeaseInv, TypeOK, QueueTypeOK
<1>1. SUFFICES ASSUME NEW j \in Jobs
               PROVE  /\ job'[j].status = "absent" <=> job[j].status = "absent"
                      /\ job'[j].status \in Terminal <=> job[j].status \in Terminal
  BY PhasesSame DEF PhasesOfJobs
<1>2. CASE job' = job BY <1>2
<1>3. /\ Recovered(job) \in [Jobs -> Entry]
      /\ Recovered(job)[j].status = "absent" <=> job[j].status = "absent"
      /\ Recovered(job)[j].status \in Terminal <=> job[j].status \in Terminal
  <2>1. CASE Stale(job, j)
    <3>1. Recovered(job)[j].status = "interrupted" BY <1>0, <2>1 DEF Recovered, Entry
    <3> QED BY <1>0, <2>1, <3>1, RecoveredType DEF Stale, Terminal
  <2>2. CASE ~Stale(job, j) BY <1>0, <2>2, RecoveredType DEF Recovered
  <2> QED BY <2>1, <2>2
<1>4. ASSUME NEW i \in Jobs, FirstRunnable(Recovered(job), i), job' = Leased(Recovered(job), i, r)
      PROVE  /\ job'[j].status = "absent" <=> job[j].status = "absent"
             /\ job'[j].status \in Terminal <=> job[j].status \in Terminal
  <2>1. Recovered(job)[i].status \in {"pending", "interrupted"}
    BY <1>4 DEF FirstRunnable, Runnable
  <2>2. CASE i = j
    <3>1. job'[j].status = "active" BY <1>3, <1>4, <2>2 DEF Leased, Entry
    <3> QED BY <1>3, <2>1, <2>2, <3>1 DEF Terminal
  <2>3. CASE i # j BY <1>3, <1>4, <2>3 DEF Leased
  <2> QED BY <2>2, <2>3
<1>5. CASE Interrupt(r) /\ job' # job
  <2>1. pc[r] \in Holding /\ MayUpdate(job, item[r].id, r, item[r].epoch)
        /\ job' = Updated(job, item[r].id, "interrupted")
    BY <1>5 DEF Interrupt, TryBody, Holding
  <2>2. item[r].id \in Jobs BY <2>1 DEF LeaseInv, Bookkeeping
  <2>3. job[item[r].id].status \in {"absent", "active"}
    BY <2>1, <2>2, QueueAssumption DEF LeaseInv, LeaseShape, MayUpdate, Owns
  <2>4. CASE j = item[r].id /\ job[j].status # "absent"
    <3>1. job'[j].status = "interrupted" BY <1>0, <2>1, <2>4 DEF Updated, Entry
    <3> QED BY <2>3, <2>4, <3>1 DEF Terminal
  <2>5. CASE j # item[r].id \/ job[j].status = "absent"
    BY <1>0, <2>1, <2>2, <2>3, <2>5 DEF Updated
  <2> QED BY <2>4, <2>5
<1>6. CASE HbTouch(r) /\ Renewed(r)
  <2>1. job' = Touched(job, hb_job[r].id) BY <1>6 DEF HbTouch
  <2>2. job'[j].status = job[j].status BY <1>0, <2>1 DEF Touched, Entry
  <2> QED BY <2>2
<1>7. CASE HbTouch(r) /\ ~Renewed(r) BY <1>2, <1>7 DEF HbTouch
<1>8. CASE Start(r) \/ Claim(r) BY <1>3, <1>4, <1>8 DEF Start, Claim
<1> QED BY <1>2, <1>5, <1>6, <1>7, <1>8, OtherStepsKeepFile DEF RunStep, MainStep, HbStep

\* A run that starts or ends a transfer begins or ends the work of LeasedWork.
LEMMA XferSteps ==
    ASSUME CleanInv, CleanInv', NEW r \in Runs, RunStep(r), UNCHANGED PhasesOfJobs
    PROVE  [LW!LWNext]_<<Workers, PhasesOfJobs>>
<1> USE DEF LeaseInv
<1>0. LeaseInv /\ TypeOK /\ TypeOK' /\ OneHolder /\ OneHolder' BY DEF CleanInv
<1>1. \A s \in Runs, j \in Jobs : s # r => (Xfer(s, j)' <=> Xfer(s, j))
  BY <1>0, OthersKept DEF Xfer, SameLocals
<1>2. CASE pc[r] # "xfer" /\ pc'[r] # "xfer"
  <2>1. \A s \in Runs, j \in Jobs : Xfer(s, j)' <=> Xfer(s, j) BY <1>1, <1>2 DEF Xfer
  <2>2. UNCHANGED Workers BY <1>0, <2>1, WorkersSame DEF Workers
  <2> QED BY <2>2
<1>3. CASE pc[r] = "xfer" /\ pc'[r] = "xfer"
  <2>1. item'[r] = item[r]
    BY <1>0, <1>3 DEF RunStep, Start, Crash, Interrupt, HbStep, HbRead, HbTouch, HbLockError,
              HbWriteError, HbLose, HbStop, runVars, MainStep, StopClaiming, Claim, ClaimFails,
              Announce, PrecheckFails, Arm, CheckLease, PrepFails, Begin, TransferEnds, Finish,
              Fail, Release, Exit, TypeOK
  <2>2. \A s \in Runs, j \in Jobs : Xfer(s, j)' <=> Xfer(s, j) BY <1>1, <1>3, <2>1 DEF Xfer
  <2>3. UNCHANGED Workers BY <1>0, <2>2, WorkersSame DEF Workers
  <2> QED BY <2>3
<1>4. CASE pc[r] # "xfer" /\ pc'[r] = "xfer"
  <2>1. Begin(r)
    BY <1>0, <1>4 DEF RunStep, Start, Crash, Interrupt, HbStep, HbRead, HbTouch, HbLockError,
              HbWriteError, HbLose, HbStop, runVars, MainStep, StopClaiming, Claim, ClaimFails,
              Announce, PrecheckFails, Arm, CheckLease, PrepFails, TransferEnds, Finish,
              Fail, Release, Exit, TypeOK
  <2>2. pc[r] = "prep" /\ item' = item /\ pc[r] \in Holding BY <2>1 DEF Begin, Holding
  <2>3. PICK j \in Jobs : j = item[r].id BY <2>2, HeldOwn
  <2>4. \A s \in Runs : ~Xfer(s, j)
    BY <1>0, <2>2, <2>3 DEF OneHolder, Xfer, Holding
  <2>5. WorkerOf(j) = NoRun BY <1>0, <2>3, <2>4, WorkerKnown
  <2>6. WorkerOf(j)' = r BY <1>0, <1>4, <2>2, <2>3, WorkerKnownNext DEF Xfer
  <2>7. ASSUME NEW i \in Jobs, i # j PROVE WorkerOf(i)' = WorkerOf(i)
    <3>1. \A s \in Runs : Xfer(s, i)' <=> Xfer(s, i) BY <1>1, <1>4, <2>2, <2>3, <2>7 DEF Xfer
    <3>2. CASE \E s \in Runs : Xfer(s, i) BY <1>0, <3>1, <3>2, WorkerKnown, WorkerKnownNext
    <3>3. CASE ~ \E s \in Runs : Xfer(s, i) BY <1>0, <3>1, <3>3, WorkerKnown, WorkerKnownNext
    <3> QED BY <3>2, <3>3
  <2>8. PhaseOf(j) # "finished"
    <3>1. job[j].status = "absent" \/ job[j].status = "active" BY <2>2, <2>3, HeldOwn DEF InFile
    <3> QED BY <3>1 DEF PhaseOf, Terminal
  <2>9. Workers' = [Workers EXCEPT ![j] = r] BY <2>3, <2>6, <2>7 DEF Workers
  <2>10. LW!Begin(r, j)
    BY <2>3, <2>5, <2>8, <2>9 DEF LW!Begin, Workers, PhasesOfJobs
  <2> QED BY <2>3, <2>10 DEF LW!LWNext
<1>5. CASE pc[r] = "xfer" /\ pc'[r] # "xfer"
  <2>1. pc[r] \in Holding BY <1>5 DEF Holding
  <2>2. PICK j \in Jobs : j = item[r].id BY <2>1, HeldOwn
  <2>3. WorkerOf(j) = r BY <1>0, <1>5, <2>2, WorkerKnown DEF Xfer
  <2>4. \A s \in Runs : ~Xfer(s, j)' BY <1>0, <1>1, <1>5, <2>1, <2>2 DEF OneHolder, Xfer, Holding
  <2>5. WorkerOf(j)' = NoRun BY <1>0, <2>2, <2>4, WorkerKnownNext
  <2>6. ASSUME NEW i \in Jobs, i # j PROVE WorkerOf(i)' = WorkerOf(i)
    <3>1. \A s \in Runs : Xfer(s, i)' <=> Xfer(s, i) BY <1>1, <1>5, <2>2, <2>6 DEF Xfer
    <3>2. CASE \E s \in Runs : Xfer(s, i) BY <1>0, <3>1, <3>2, WorkerKnown, WorkerKnownNext
    <3>3. CASE ~ \E s \in Runs : Xfer(s, i) BY <1>0, <3>1, <3>3, WorkerKnown, WorkerKnownNext
    <3> QED BY <3>2, <3>3
  <2>7. Workers' = [Workers EXCEPT ![j] = NoRun] BY <2>2, <2>5, <2>6 DEF Workers
  <2>8. LW!End(r, j) BY <2>2, <2>3, <2>7 DEF LW!End, Workers, PhasesOfJobs
  <2> QED BY <2>2, <2>8 DEF LW!LWNext
<1> QED BY <1>2, <1>3, <1>4, <1>5
\* An outcome finishes a job nobody transfers any more, or one that is withdrawn.
LEMMA OutcomeSteps ==
    ASSUME CleanInv, CleanInv', NEW r \in Runs, Finish(r) \/ Fail(r)
    PROVE  [LW!LWNext]_<<Workers, PhasesOfJobs>>
<1> USE DEF LeaseInv
<1>0. /\ LeaseInv /\ TypeOK /\ TypeOK' /\ OneHolder /\ OneHolder'
      /\ RunStep(r) /\ job \in [Jobs -> Entry]
  BY DEF CleanInv, RunStep, MainStep, TypeOK, QueueTypeOK
<1>1. pc[r] \in Holding /\ pc[r] # "xfer" /\ pc'[r] # "xfer"
  BY <1>0 DEF Finish, Fail, Exit, Holding, TypeOK
<1>2. \A s \in Runs, j \in Jobs : Xfer(s, j)' <=> Xfer(s, j)
  BY <1>0, <1>1, OthersKept DEF Xfer, SameLocals
<1>3. UNCHANGED Workers BY <1>0, <1>2, WorkersSame DEF Workers
<1>4. PICK j \in Jobs : j = item[r].id BY <1>1, HeldOwn
<1>5. CASE job' = job BY <1>3, <1>5, PhasesSame DEF PhasesOfJobs
<1>6. CASE job' # job
  <2>1. PICK o \in {"done", "failed"} : job' = Updated(job, j, o)
    BY <1>4, <1>6 DEF Finish, Fail
  <2>2. job[j].status = "active" BY <1>1, <1>4, <1>6, <2>1, HeldOwn DEF Updated, InFile
  <2>3. job'[j].status = o BY <1>0, <2>1, <2>2 DEF Updated, Entry
  <2>4. \A i \in Jobs : i # j => job'[i] = job[i] BY <1>0, <2>1 DEF Updated
  <2>5. PhaseOf(j) = "open" BY <2>2 DEF PhaseOf, Terminal
  <2>6. PhaseOf(j)' = "finished" BY <2>3 DEF PhaseOf, Terminal
  <2>7. \A i \in Jobs : i # j => PhaseOf(i)' = PhaseOf(i) BY <2>4 DEF PhaseOf
  <2>8. PhasesOfJobs' = [PhasesOfJobs EXCEPT ![j] = "finished"]
    BY <2>6, <2>7 DEF PhasesOfJobs
  <2>9. \A s \in Runs : ~Xfer(s, j) BY <1>0, <1>1, <1>4 DEF OneHolder, Xfer, Holding
  <2>10. WorkerOf(j) = NoRun BY <1>0, <2>9, WorkerKnown
  <2>11. LW!Finish(j) BY <1>3, <2>5, <2>8, <2>10 DEF LW!Finish, Workers, PhasesOfJobs
  <2> QED BY <2>11 DEF LW!LWNext
<1> QED BY <1>5, <1>6

\* The operator opens a job that nobody works on, or withdraws jobs.
LEMMA OperatorSteps ==
    ASSUME CleanInv, CleanInv', OperatorCommand
    PROVE  [LW!LWNext]_<<Workers, PhasesOfJobs>>
<1> USE DEF LeaseInv
<1>0. LeaseInv /\ TypeOK /\ OneHolder /\ OneHolder' /\ job \in [Jobs -> Entry]
  BY DEF CleanInv, TypeOK, QueueTypeOK
<1>1. \A s \in Runs, j \in Jobs : Xfer(s, j)' <=> Xfer(s, j)
  BY DEF OperatorCommand, runVars, Xfer
<1>2. UNCHANGED Workers BY <1>0, <1>1, WorkersSame DEF Workers
\* Opening: j alone goes to the open phase.
<1>3. ASSUME NEW j \in Jobs, \A r \in Runs : ~Xfer(r, j), PhaseOf(j) \in {"absent", "finished"},
             PhaseOf(j)' = "open", \A i \in Jobs : i # j => job'[i] = job[i]
      PROVE  LW!LWNext
  <2>1. \A i \in Jobs : i # j => PhaseOf(i)' = PhaseOf(i) BY <1>3 DEF PhaseOf
  <2>2. PhasesOfJobs' = [PhasesOfJobs EXCEPT ![j] = "open"] BY <1>3, <2>1 DEF PhasesOfJobs
  <2>3. WorkerOf(j) = NoRun BY <1>0, <1>3, WorkerKnown
  <2>4. LW!Open(j) BY <1>2, <1>3, <2>2, <2>3 DEF LW!Open, Workers, PhasesOfJobs
  <2> QED BY <2>4 DEF LW!LWNext
\* Withdrawing: the jobs of S go, the rest stay as they are.
<1>4. ASSUME NEW S \in SUBSET Jobs,
             \A i \in Jobs : job'[i] = IF i \in S THEN Absent(job[i].epoch) ELSE job[i]
      PROVE  LW!LWNext
  <2>1. ASSUME NEW i \in Jobs PROVE PhaseOf(i)' = IF i \in S THEN "absent" ELSE PhaseOf(i)
    <3>1. CASE i \in S
      <4>1. job'[i] = Absent(job[i].epoch) BY <1>4, <3>1
      <4>2. job'[i].status = "absent" BY <4>1 DEF Absent
      <4> QED BY <3>1, <4>2 DEF PhaseOf, Terminal
    <3>2. CASE i \notin S
      <4>1. job'[i] = job[i] BY <1>4, <3>2
      <4> QED BY <3>2, <4>1 DEF PhaseOf
    <3> QED BY <3>1, <3>2
  <2>2. LW!Withdraw(S) BY <1>2, <2>1 DEF LW!Withdraw, Workers, PhasesOfJobs
  <2> QED BY <2>2 DEF LW!LWNext
<1>5. CASE Add
  <2>1. PICK j \in Jobs : j = added + 1 BY <1>0, <1>5, QueueAssumption DEF Add, Jobs, TypeOK, QueueTypeOK
  <2>2. added \in Int /\ ~(j <= added) BY <1>0, <2>1, QueueAssumption DEF TypeOK, QueueTypeOK
  <2>3. job[j].status = "absent" BY <1>0, <2>2 DEF LeaseShape
  <2>4. ASSUME NEW r \in Runs PROVE ~Xfer(r, j)
    <3>1. pc[r] = "xfer" => pc[r] \in Holding BY DEF Holding
    <3> QED BY <2>2, <3>1, HeldOwn DEF Xfer
  <2>5. job' = [job EXCEPT ![j] = Fresh] BY <1>5, <2>1 DEF Add
  <2>6. PhaseOf(j) = "absent" BY <2>3 DEF PhaseOf, Terminal
  <2>7. PhaseOf(j)' = "open" BY <1>0, <2>5 DEF PhaseOf, Fresh, Terminal
  <2> QED BY <1>0, <1>3, <2>4, <2>5, <2>6, <2>7
<1>6. ASSUME NEW j \in Jobs, Remove(j) PROVE LW!LWNext
  <2>1. \A i \in Jobs : job'[i] = IF i \in {j} THEN Absent(job[i].epoch) ELSE job[i]
    BY <1>0, <1>6 DEF Remove
  <2> QED BY <1>4, <2>1
<1>7. ASSUME NEW j \in Jobs, Retry(j) PROVE [LW!LWNext]_<<Workers, PhasesOfJobs>>
  <2>1. job[j].status \in {"failed", "interrupted", "canceled"} BY <1>7 DEF Retry
  <2>2. job'[j].status = "pending" /\ \A i \in Jobs : i # j => job'[i] = job[i]
    BY <1>0, <1>7 DEF Retry, Entry
  <2>3. PhaseOf(j)' = "open" BY <2>2 DEF PhaseOf, Terminal
  <2>4. CASE job[j].status = "interrupted"
    <3>1. ASSUME NEW i \in Jobs
          PROVE  /\ job'[i].status = "absent" <=> job[i].status = "absent"
                 /\ job'[i].status \in Terminal <=> job[i].status \in Terminal
      BY <2>2, <2>4 DEF Terminal
    <3> QED BY <1>2, <3>1, PhasesSame DEF PhasesOfJobs
  <2>5. CASE job[j].status # "interrupted"
    <3>1. PhaseOf(j) = "finished" BY <2>1, <2>5 DEF PhaseOf, Terminal
    <3>2. ASSUME NEW r \in Runs PROVE ~Xfer(r, j)
      <4>1. pc[r] = "xfer" => pc[r] \in Holding BY DEF Holding
      <4> QED BY <2>1, <4>1, HeldOwn DEF Xfer, InFile
    <3> QED BY <1>3, <2>2, <2>3, <3>1, <3>2
  <2> QED BY <2>4, <2>5
<1>8. CASE ClearDone
  <2> DEFINE S == {i \in Jobs : job[i].status \in {"done", "canceled"}}
  <2>1. \A i \in Jobs : job'[i] = IF i \in S THEN Absent(job[i].epoch) ELSE job[i]
    BY <1>8 DEF ClearDone
  <2> QED BY <1>4, <2>1
<1>9. CASE Reset
  <2>1. \A i \in Jobs : job'[i] = IF i \in Jobs THEN Absent(job[i].epoch) ELSE job[i]
    BY <1>9 DEF Reset
  <2> QED BY <1>4, <2>1
<1> QED BY <1>5, <1>6, <1>7, <1>8, <1>9 DEF OperatorCommand

LEMMA InitWork == Init => LW!LWInit
<1> SUFFICES ASSUME Init PROVE LW!LWInit OBVIOUS
<1>1. ASSUME NEW j \in Jobs PROVE WorkerOf(j) = NoRun BY DEF Init, WorkerOf
<1>2. ASSUME NEW j \in Jobs PROVE PhaseOf(j) \in {"absent", "open"}
  <2>1. job[j] \in {Absent(0), Fresh, Legacy} BY DEF Init, QueueInit
  <2>2. job[j].status \in {"absent", "pending", "active"} BY <2>1 DEF Absent, Fresh, Legacy
  <2> QED BY <2>2 DEF PhaseOf, Terminal
<1> QED BY <1>1, <1>2 DEF LW!LWInit

LEMMA NextWork ==
    CleanInv /\ CleanInv' /\ [Next]_vars => [LW!LWNext]_<<Workers, PhasesOfJobs>>
<1> SUFFICES ASSUME CleanInv, CleanInv', [Next]_vars
             PROVE  [LW!LWNext]_<<Workers, PhasesOfJobs>>
  OBVIOUS
<1>0. LeaseInv /\ OneHolder /\ OneHolder' BY DEF CleanInv
<1>1. ASSUME NEW r \in Runs, RunStep(r) PROVE [LW!LWNext]_<<Workers, PhasesOfJobs>>
  BY <1>0, <1>1, OpenStaysOpen, XferSteps, OutcomeSteps
<1>2. CASE OperatorCommand BY <1>2, OperatorSteps
<1>3. CASE Tick \/ UNCHANGED vars
  <2>1. \A s \in Runs, j \in Jobs : Xfer(s, j)' <=> Xfer(s, j)
    BY <1>3 DEF Tick, vars, runVars, Xfer
  <2>2. \A j \in Jobs : job'[j].status = job[j].status
    <3>1. CASE Tick
      <4> SUFFICES ASSUME NEW j \in Jobs PROVE job'[j].status = job[j].status OBVIOUS
      <4>1. job[j] \in Entry BY <1>0 DEF LeaseInv, TypeOK, QueueTypeOK
      <4>2. job'[j] = job[j] \/ job'[j] = [job[j] EXCEPT !.beat = @ + 1]
        BY <3>1 DEF Tick, Aged
      <4> QED BY <4>1, <4>2 DEF Entry
    <3>2. CASE UNCHANGED vars BY <3>2 DEF vars, queueVars
    <3> QED BY <1>3, <3>1, <3>2
  <2> QED BY <1>0, <2>1, <2>2, WorkersSame, PhasesSame DEF Workers, PhasesOfJobs
<1> QED BY <1>1, <1>2, <1>3 DEF Next, RunStep

(* With a working lock and disk, any number of runs, crashes, recoveries and *)
(* operator's commands refine LeasedWork: one run at a time transfers a job, *)
(* a finished job is not begun again unasked, and no job is reported         *)
(* finished while it is transferred (queue_cmd.py 42-47, 416-419).           *)
THEOREM Refinement == ASSUME ~FaultyOp PROVE Spec => ImplementsLeasedWork
<1>1. CleanInv /\ [Next]_vars => CleanInv' BY NextClean
<1>2. CleanInv /\ CleanInv' /\ [Next]_vars => [LW!LWNext]_<<Workers, PhasesOfJobs>>
  BY NextWork
<1>3. Init => LW!LWInit BY InitWork
<1> QED BY <1>1, <1>2, <1>3, InitClean, PTL
       DEF Spec, ImplementsLeasedWork, LW!LWSpec, Workers, PhasesOfJobs
=============================================================================
