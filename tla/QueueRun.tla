------------------------------ MODULE QueueRun ------------------------------
(***************************************************************************)
(* `mb queue run` (commands/queue_cmd.py): any number of processes, each   *)
(* with a main thread that claims and runs jobs and a heartbeat thread     *)
(* that renews the lease of the job in hand, over the shared queue file,   *)
(* beside an operator's commands, with processes that die and a clock.     *)
(*                                                                         *)
(* One Tick is one heartbeat period (_HEARTBEAT_SECONDS = 30).             *)
(***************************************************************************)
EXTENDS TransferQueue

CONSTANTS Grace,        \* _HEARTBEAT_GRACE_SECONDS in heartbeat periods
          ClaimBound,   \* bound: a job is claimed only below this generation
          LockFaults,   \* whether taking the queue lock may time out (QueueLockError)
          WriteFaults,  \* whether replacing queue.json may fail (OSError)
          MaxCommands   \* bound: how many queue add/remove/retry/clear/reset run meanwhile

ASSUME RunAssumption ==
    /\ Grace \in 1 .. Lease
    /\ ClaimBound \in Nat /\ MaxCommands \in Nat
    /\ LockFaults \in BOOLEAN /\ WriteFaults \in BOOLEAN

VARIABLES pc,                \* where the main thread of each run is
          item,              \* its local `item`
          current_job,       \* current_job[0], read by the heartbeat thread
          current_transfer,  \* current_transfer[0] is not None
          lease_lost,        \* the lease_lost event
          stop_event,        \* the transfer's _stop_event
          row,               \* the status of the item's row on the screen
          recorded,          \* the status this run last wrote for its item
          hb,                \* where the heartbeat thread is
          hb_job,            \* its local `job`
          stalled,           \* periods since its last_ok
          due,               \* its wait(_HEARTBEAT_SECONDS) has elapsed
          commands           \* how many operator's commands ran

runVars == <<pc, item, current_job, current_transfer, lease_lost, stop_event, row, recorded>>
hbVars == <<hb, hb_job, stalled, due>>
queueVars == <<job, added, commands>>
vars == <<queueVars, runVars, hbVars>>

NoItem == [id |-> 0, epoch |-> 0]
Items == [id : 0 .. NumJobs, epoch : Nat]

\* The inner try block: KeyboardInterrupt there releases the lease.
TryBody == {"claimed", "precheck", "armed", "prep", "xfer", "finish"}

Live(r) == pc[r] \notin {"off", "ended", "crashed"}

\* Lock time-outs and failing replaces leave the file as it was.
FaultyOp == LockFaults \/ WriteFaults

Init == /\ QueueInit
        /\ commands = 0
        /\ pc = [r \in Runs |-> "off"]
        /\ item = [r \in Runs |-> NoItem]
        /\ current_job = [r \in Runs |-> NoItem]
        /\ current_transfer = [r \in Runs |-> FALSE]
        /\ lease_lost = [r \in Runs |-> FALSE]
        /\ stop_event = [r \in Runs |-> FALSE]
        /\ row = [r \in Runs |-> "none"]
        /\ recorded = [r \in Runs |-> "none"]
        /\ hb = [r \in Runs |-> "wait"]
        /\ hb_job = [r \in Runs |-> NoItem]
        /\ stalled = [r \in Runs |-> 0]
        /\ due = [r \in Runs |-> FALSE]

\* The process ends: what its threads held in memory goes with it.
Exit(r, how) ==
    /\ pc' = [pc EXCEPT ![r] = how]
    /\ item' = [item EXCEPT ![r] = NoItem]
    /\ current_job' = [current_job EXCEPT ![r] = NoItem]
    /\ current_transfer' = [current_transfer EXCEPT ![r] = FALSE]
    /\ lease_lost' = [lease_lost EXCEPT ![r] = FALSE]
    /\ stop_event' = [stop_event EXCEPT ![r] = FALSE]
    /\ row' = [row EXCEPT ![r] = "none"]
    /\ recorded' = [recorded EXCEPT ![r] = "none"]
    /\ hb' = [hb EXCEPT ![r] = "wait"]
    /\ hb_job' = [hb_job EXCEPT ![r] = NoItem]
    /\ stalled' = [stalled EXCEPT ![r] = 0]
    /\ due' = [due EXCEPT ![r] = FALSE]

-----------------------------------------------------------------------------
(* The main thread *)

\* recover_interrupted, then the early return on an empty queue.
Start(r) ==
    /\ pc[r] = "off"
    /\ job' = Recovered(job)
    /\ pc' = [pc EXCEPT ![r] = IF Runnable(job') = {} THEN "ended" ELSE "loop"]
    /\ UNCHANGED <<added, commands, item, current_job, current_transfer, lease_lost, stop_event, row,
                   recorded, hbVars>>

\* Variant (bug): `continue` for `break`.
StopClaimingSpins(r) == pc[r] = "loop" /\ lease_lost[r] /\ UNCHANGED vars

StopClaiming(r) ==
    /\ pc[r] = "loop" /\ lease_lost[r]
    /\ Exit(r, "ended")
    /\ UNCHANGED queueVars

(* claim_next: recover stale jobs and lease the first runnable one, in one  *)
(* step; with nothing to run the loop ends.                                 *)
Claim(r) ==
    /\ pc[r] = "loop" /\ ~lease_lost[r]
    /\ LET q == Recovered(job) IN
         \/ \E j \in Jobs : /\ FirstRunnable(q, j) /\ q[j].epoch < ClaimBound
                            /\ job' = Leased(q, j, r)
                            /\ item' = [item EXCEPT ![r] = [id |-> j, epoch |-> q[j].epoch + 1]]
                            /\ pc' = [pc EXCEPT ![r] = "leased"]
                            /\ UNCHANGED <<current_job, current_transfer, lease_lost, stop_event,
                                           row, recorded, hbVars>>
         \/ /\ Runnable(q) = {}
            /\ job' = q
            /\ Exit(r, "ended")
    /\ UNCHANGED <<added, commands>>

\* The outer `except QueueLockError`, and an OSError that nothing catches.
ClaimFails(r) ==
    /\ FaultyOp
    /\ pc[r] = "loop" /\ ~lease_lost[r]
    /\ Exit(r, "ended")
    /\ UNCHANGED queueVars

\* current_job[0] = item, and the row of the item.
Announce(r) ==
    /\ pc[r] = "leased"
    /\ current_job' = [current_job EXCEPT ![r] = item[r]]
    /\ row' = [row EXCEPT ![r] = "active"]
    /\ pc' = [pc EXCEPT ![r] = "claimed"]
    /\ UNCHANGED <<queueVars, item, current_transfer, lease_lost, stop_event, recorded, hbVars>>

(* No account, no login, no local file, unknown type: _fail is called in    *)
(* the try block ("precheck").  An exception (mkdir) reaches _fail outside. *)
PrecheckFails(r) ==
    /\ pc[r] = "claimed"
    /\ pc' \in {[pc EXCEPT ![r] = "precheck"], [pc EXCEPT ![r] = "fail"]}
    /\ UNCHANGED <<queueVars, item, current_job, current_transfer, lease_lost, stop_event,
                   row, recorded, hbVars>>

Arm(r) ==
    /\ pc[r] = "claimed"
    /\ current_transfer' = [current_transfer EXCEPT ![r] = TRUE]
    /\ pc' = [pc EXCEPT ![r] = "armed"]
    /\ UNCHANGED <<queueVars, item, current_job, lease_lost, stop_event, row, recorded, hbVars>>

\* The row takes only its first final status (finish_item).
FinishRow(r, s) == row' = [row EXCEPT ![r] = IF @ = "active" THEN s ELSE @]

\* The re-check after arming: a lost lease raises QueueLeaseLostError.
CheckLease(r) ==
    /\ pc[r] = "armed"
    /\ IF lease_lost[r] THEN /\ FinishRow(r, "canceled")
                             /\ pc' = [pc EXCEPT ![r] = "release"]
                        ELSE /\ pc' = [pc EXCEPT ![r] = "prep"]
                             /\ UNCHANGED row
    /\ UNCHANGED <<queueVars, item, current_job, current_transfer, lease_lost, stop_event,
                   recorded, hbVars>>

(* Resolving the link or hashing the file may fail (or, in a quota wait,    *)
(* see the stop); then the transfer clears the stop event and starts.       *)
PrepFails(r) ==
    /\ pc[r] = "prep"
    /\ pc' = [pc EXCEPT ![r] = "fail"]
    /\ UNCHANGED <<queueVars, item, current_job, current_transfer, lease_lost, stop_event,
                   row, recorded, hbVars>>

Begin(r) ==
    /\ pc[r] = "prep"
    /\ stop_event' = [stop_event EXCEPT ![r] = FALSE]
    /\ pc' = [pc EXCEPT ![r] = "xfer"]
    /\ UNCHANGED <<queueVars, item, current_job, current_transfer, lease_lost, row, recorded,
                   hbVars>>

(* The transfer ends, complete or with an error.  A stopped transfer may   *)
(* still complete: its last chunk may be committed already.                 *)
TransferEnds(r) ==
    /\ pc[r] = "xfer"
    /\ pc' \in {[pc EXCEPT ![r] = "finish"], [pc EXCEPT ![r] = "fail"]}
    /\ UNCHANGED <<queueVars, item, current_job, current_transfer, lease_lost, stop_event,
                   row, recorded, hbVars>>

\* Variant (bug): the row is finished and the file forgotten.
FinishUnrecorded(r) ==
    /\ pc[r] = "finish"
    /\ FinishRow(r, "complete")
    /\ pc' = [pc EXCEPT ![r] = "release"]
    /\ UNCHANGED <<queueVars, item, current_job, current_transfer, lease_lost, stop_event,
                   recorded, hbVars>>

(* The row becomes complete and DONE is written.  A refused or failed write *)
(* is an exception of the try block: it goes to _fail.                      *)
Finish(r) ==
    /\ pc[r] = "finish"
    /\ FinishRow(r, "complete")
    /\ LET j == item[r].id IN
         \/ /\ MayUpdate(job, j, r, item[r].epoch)
            /\ job' = Updated(job, j, "done")
            /\ recorded' = [recorded EXCEPT ![r] = "done"]
            /\ pc' = [pc EXCEPT ![r] = "release"]
         \/ /\ FaultyOp \/ ~MayUpdate(job, j, r, item[r].epoch)
            /\ pc' = [pc EXCEPT ![r] = "fail"]
            /\ UNCHANGED <<job, recorded>>
    /\ UNCHANGED <<added, commands, item, current_job, current_transfer, lease_lost, stop_event, hbVars>>

\* Variant (bug): a lock time-out while recording the failure is swallowed.
FailSwallowsLockError(r) ==
    /\ pc[r] \in {"precheck", "fail"}
    /\ FinishRow(r, "failed")
    /\ pc' = [pc EXCEPT ![r] = "release"]
    /\ UNCHANGED <<queueVars, item, current_job, current_transfer, lease_lost, stop_event,
                   recorded, hbVars>>

(* _fail: FAILED is written unless another run owns the job by now.  A lock *)
(* time-out in the try block brings _fail again; one in a handler escapes   *)
(* the loop: the row stays as it is and the run ends.                       *)
Fail(r) ==
    /\ pc[r] \in {"precheck", "fail"}
    /\ LET j == item[r].id IN
         \/ /\ \/ /\ MayUpdate(job, j, r, item[r].epoch)
                  /\ job' = Updated(job, j, "failed")
                  /\ recorded' = [recorded EXCEPT ![r] = "failed"]
               \/ /\ ~MayUpdate(job, j, r, item[r].epoch)
                  /\ UNCHANGED <<job, recorded>>
            /\ FinishRow(r, "failed")
            /\ pc' = [pc EXCEPT ![r] = "release"]
            /\ UNCHANGED <<item, current_job, current_transfer, lease_lost, stop_event, hbVars>>
         \/ /\ FaultyOp /\ pc[r] = "precheck"
            /\ pc' = [pc EXCEPT ![r] = "fail"]
            /\ UNCHANGED <<job, recorded, row, item, current_job, current_transfer, lease_lost,
                           stop_event, hbVars>>
         \/ /\ FaultyOp /\ pc[r] = "fail"
            /\ Exit(r, "ended")
            /\ UNCHANGED job
    /\ UNCHANGED <<added, commands>>

\* The finally clause of the job; the row and the loop's `item` are not used again.
Release(r) ==
    /\ pc[r] = "release"
    /\ item' = [item EXCEPT ![r] = NoItem]
    /\ current_job' = [current_job EXCEPT ![r] = NoItem]
    /\ current_transfer' = [current_transfer EXCEPT ![r] = FALSE]
    /\ row' = [row EXCEPT ![r] = "none"]
    /\ recorded' = [recorded EXCEPT ![r] = "none"]
    /\ pc' = [pc EXCEPT ![r] = "loop"]
    /\ UNCHANGED <<queueVars, lease_lost, stop_event, hbVars>>

\* KeyboardInterrupt: give the job back if it is still ours, then leave.
Interrupt(r) ==
    /\ pc[r] \in TryBody
    /\ LET j == item[r].id IN
         \/ /\ MayUpdate(job, j, r, item[r].epoch)
            /\ job' = Updated(job, j, "interrupted")
         \/ /\ FaultyOp \/ ~MayUpdate(job, j, r, item[r].epoch)
            /\ UNCHANGED job
    /\ Exit(r, "ended")
    /\ UNCHANGED <<added, commands>>

\* The process is killed, or the machine goes down.
Crash(r) ==
    /\ Live(r)
    /\ Exit(r, "crashed")
    /\ UNCHANGED queueVars

-----------------------------------------------------------------------------
(* The heartbeat thread *)

HbRead(r) ==
    /\ Live(r) /\ hb[r] = "wait" /\ due[r]
    /\ due' = [due EXCEPT ![r] = FALSE]
    /\ IF current_job[r] = NoItem
         THEN /\ stalled' = [stalled EXCEPT ![r] = 0]
              /\ UNCHANGED <<hb, hb_job>>
         ELSE /\ hb' = [hb EXCEPT ![r] = "touch"]
              /\ hb_job' = [hb_job EXCEPT ![r] = current_job[r]]
              /\ UNCHANGED stalled
    /\ UNCHANGED <<queueVars, runVars>>

Renewed(r) == LET j == hb_job[r].id IN Owns(job, j, r, hb_job[r].epoch) /\ job[j].status = "active"

\* touch under the lock: the lease is renewed, or it is no longer ours.
HbTouch(r) ==
    /\ Live(r) /\ hb[r] = "touch"
    /\ IF Renewed(r)
         THEN /\ job' = Touched(job, hb_job[r].id)
              /\ hb' = [hb EXCEPT ![r] = "wait"]
              /\ stalled' = [stalled EXCEPT ![r] = 0]
         ELSE /\ hb' = [hb EXCEPT ![r] = "lose"]
              /\ UNCHANGED <<job, stalled>>
    /\ hb_job' = [hb_job EXCEPT ![r] = NoItem]
    /\ UNCHANGED <<added, commands, runVars, due>>

\* Variant (bug): the heartbeat keeps trying for ever.
HbLockErrorNoGrace(r) ==
    /\ LockFaults
    /\ Live(r) /\ hb[r] = "touch"
    /\ hb' = [hb EXCEPT ![r] = "wait"]
    /\ hb_job' = [hb_job EXCEPT ![r] = NoItem]
    /\ UNCHANGED <<queueVars, runVars, stalled, due>>

\* touch times out on the lock: the lease is given up once the grace is over.
HbLockError(r) ==
    /\ LockFaults
    /\ Live(r) /\ hb[r] = "touch"
    /\ hb' = [hb EXCEPT ![r] = IF stalled[r] >= Grace THEN "lose" ELSE "wait"]
    /\ hb_job' = [hb_job EXCEPT ![r] = NoItem]
    /\ UNCHANGED <<queueVars, runVars, stalled, due>>

\* touch cannot replace the file: the loop does not catch OSError.
HbWriteError(r) ==
    /\ WriteFaults
    /\ Live(r) /\ hb[r] = "touch" /\ Renewed(r)
    /\ hb' = [hb EXCEPT ![r] = "dead"]
    /\ hb_job' = [hb_job EXCEPT ![r] = NoItem]
    /\ UNCHANGED <<queueVars, runVars, stalled, due>>

\* _lose_lease: set the event once; then stop the transfer, if one is armed.
HbLose(r) ==
    /\ Live(r) /\ hb[r] = "lose"
    /\ hb' = [hb EXCEPT ![r] = IF lease_lost[r] THEN "wait" ELSE "stop"]
    /\ lease_lost' = [lease_lost EXCEPT ![r] = TRUE]
    /\ UNCHANGED <<queueVars, pc, item, current_job, current_transfer, stop_event, row,
                   recorded, hb_job, stalled, due>>

HbStop(r) ==
    /\ Live(r) /\ hb[r] = "stop"
    /\ hb' = [hb EXCEPT ![r] = "wait"]
    /\ stop_event' = [stop_event EXCEPT ![r] = @ \/ current_transfer[r]]
    /\ UNCHANGED <<queueVars, pc, item, current_job, current_transfer, lease_lost, row,
                   recorded, hb_job, stalled, due>>

-----------------------------------------------------------------------------
(* One heartbeat period passes.  A live heartbeat thread has run its body   *)
(* in the last one (the lock time-out is a third of a period), a main       *)
(* thread does not take a period from claim_next to the next assignment,    *)
(* and a transfer that sees its stop event winds down before the next Tick  *)
(* (no worker starts another chunk; a socket read is bounded by `timeout`). *)
Punctual(r) ==
    Live(r) => /\ pc[r] # "leased"
               /\ ~(pc[r] = "xfer" /\ stop_event[r])
               /\ hb[r] = "dead" \/ (hb[r] = "wait" /\ ~due[r])

Tick ==
    /\ \A r \in Runs : Punctual(r)
    /\ job' = Aged(job)
    /\ stalled' = [r \in Runs |-> IF Live(r) /\ stalled[r] <= Grace THEN stalled[r] + 1
                                                                    ELSE stalled[r]]
    /\ due' = [r \in Runs |-> Live(r) /\ hb[r] # "dead"]
    /\ UNCHANGED <<added, commands, runVars, hb, hb_job>>

OperatorCommand ==
    /\ commands < MaxCommands
    /\ commands' = commands + 1
    /\ \/ Add
       \/ \E j \in Jobs : Remove(j) \/ Retry(j)
       \/ ClearDone
       \/ Reset
    /\ UNCHANGED <<runVars, hbVars>>

MainStep(r) ==
    \/ StopClaiming(r) \/ Claim(r) \/ ClaimFails(r) \/ Announce(r) \/ PrecheckFails(r)
    \/ Arm(r) \/ CheckLease(r) \/ PrepFails(r) \/ Begin(r) \/ TransferEnds(r) \/ Finish(r)
    \/ Fail(r) \/ Release(r)

HbStep(r) == HbRead(r) \/ HbTouch(r) \/ HbLockError(r) \/ HbWriteError(r) \/ HbLose(r) \/ HbStop(r)

Next == \/ \E r \in Runs : Start(r) \/ MainStep(r) \/ Interrupt(r) \/ Crash(r) \/ HbStep(r)
        \/ OperatorCommand
        \/ Tick

Spec == Init /\ [][Next]_vars

Fairness == \A r \in Runs : WF_vars(MainStep(r)) /\ WF_vars(HbStep(r))

FairSpec == Spec /\ Fairness

-----------------------------------------------------------------------------
TypeOK ==
    /\ QueueTypeOK
    /\ commands \in 0 .. MaxCommands
    /\ pc \in [Runs -> {"off", "loop", "leased", "claimed", "precheck", "armed", "prep", "xfer",
                        "finish", "fail", "release", "ended", "crashed"}]
    /\ item \in [Runs -> Items] /\ current_job \in [Runs -> Items] /\ hb_job \in [Runs -> Items]
    /\ current_transfer \in [Runs -> BOOLEAN] /\ lease_lost \in [Runs -> BOOLEAN]
    /\ stop_event \in [Runs -> BOOLEAN] /\ due \in [Runs -> BOOLEAN]
    /\ row \in [Runs -> {"none", "active", "complete", "failed", "canceled"}]
    /\ recorded \in [Runs -> {"none", "done", "failed"}]
    /\ hb \in [Runs -> {"wait", "touch", "lose", "stop", "dead"}]
    /\ stalled \in [Runs -> 0 .. (Grace + 1)]

\* Between claim_next and the record of an outcome, the run works on its item.
Holding == {"leased", "claimed", "precheck", "armed", "prep", "xfer", "finish", "fail"}

InFile(j) == job[j].status # "absent"

(* The margin queue_cmd.py chooses between grace and lease: as long as a    *)
(* run's heartbeat thread is alive and has not declared the lease lost,     *)
(* nobody has taken its job, whatever locks time out and whoever else runs. *)
LeaseNeverStolen ==
    \A r \in Runs :
        pc[r] \in Holding /\ InFile(item[r].id) /\ ~lease_lost[r] /\ hb[r] # "dead"
          => Owns(job, item[r].id, r, item[r].epoch)

(* A run never leaves one job leased to itself while it claims another: the *)
(* heartbeat renews only the job in hand, so the first would look alive to  *)
(* nobody and the run's own bookkeeping (`item`) would not cover it.        *)
OneLeasePerRun ==
    \A r \in Runs : \A i, j \in Jobs : job[i].run = r /\ job[j].run = r => i = j

\* A step that changes a leased job, and who may take it.
LeaseEnds(j) == job[j].status = "active" /\ job'[j] # job[j]

ByHolder(j) == \E r \in Runs : /\ job[j].run = r
                              /\ item[r] = [id |-> j, epoch |-> job[j].epoch]
                              /\ pc'[r] # pc[r]

Permitted(j) == \/ job'[j].status = "absent"
                \/ Stale(job, j)
                \/ job'[j].status = "active" /\ job'[j].epoch = job[j].epoch
                \/ ByHolder(j)

(* Fencing: the status of a leased job changes only by the run that holds   *)
(* this very lease, by expiry, or by the operator removing the job.         *)
LeaseOnlyEndedByHolder == [][\A j \in Jobs : LeaseEnds(j) => Permitted(j)]_vars

(* lease_epoch is never reused: two runs that both believe in a lease on    *)
(* one job believe in different generations of it.                          *)
GenerationsDiffer ==
    \A r, s \in Runs : r # s /\ pc[r] \in Holding /\ pc[s] \in Holding /\ item[r].id = item[s].id
                         => item[r].epoch # item[s].epoch

(* queue_cmd.py 42-47: a run stops its transfer before another run may      *)
(* re-claim the job, so the two never overlap.                              *)
NoOverlap ==
    \A r, s \in Runs : pc[r] = "xfer" /\ pc[s] = "xfer" /\ item[r].id = item[s].id => r = s

(* queue_cmd.py 423-425: the visible row and the queue file agree on every  *)
(* outcome of a job that is still in the file.                              *)
RowAgreesWithFile ==
    \A r \in Runs : pc[r] = "release" /\ InFile(item[r].id) /\ row[r] \in {"complete", "failed"}
                     => (row[r] = "complete" <=> recorded[r] = "done")

\* A run always comes to its end: no job, lost lease or failed write makes it spin.
RunEnds == \A r \in Runs : (pc[r] = "loop") ~> (pc[r] \in {"ended", "crashed"})

-----------------------------------------------------------------------------
(* The promise of LeasedWork: who transfers a job, and how far it is.       *)

WorkerOf(j) ==
    IF \E r \in Runs : pc[r] = "xfer" /\ item[r].id = j
      THEN CHOOSE r \in Runs : pc[r] = "xfer" /\ item[r].id = j
      ELSE NoRun

PhaseOf(j) == CASE job[j].status = "absent" -> "absent"
                [] job[j].status \in Terminal -> "finished"
                [] OTHER -> "open"

LW == INSTANCE LeasedWork WITH Job <- Jobs, Run <- Runs,
                               worker <- [j \in Jobs |-> WorkerOf(j)],
                               phase <- [j \in Jobs |-> PhaseOf(j)]

(* With a working lock and disk, any number of runs, crashes and operator   *)
(* commands look like LeasedWork.                                           *)
ImplementsLeasedWork == LW!LWSpec
=============================================================================
