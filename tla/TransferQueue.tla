--------------------------- MODULE TransferQueue ---------------------------
(***************************************************************************)
(* The persistent transfer queue (queue/manager.py, queue/models.py,       *)
(* queue/schema.py): the jobs of queue.json and the operations of          *)
(* QueueManager on them.  Every operation of the code runs under one       *)
(* acquisition of the cross-process file lock and is reload, modify,       *)
(* atomic replace, so an operation is one step here.                       *)
(*                                                                         *)
(* A job is named by its place in the order of `add`: the file keeps that  *)
(* order (add appends, removals keep the order of the rest) and an id is   *)
(* never used again (uuid4).  Clock readings are kept as ages: `beat` is   *)
(* the number of heartbeat periods since heartbeat_iso was written.        *)
(***************************************************************************)
EXTENDS Integers

CONSTANTS NumJobs,   \* jobs that may ever be added (bound)
          Runs,      \* identities of `queue run` processes (run_id)
          NoRun,     \* run_id = None
          Lease      \* LEASE_SECONDS in heartbeat periods

ASSUME QueueAssumption ==
    /\ NumJobs \in Nat
    /\ NoRun \notin Runs
    /\ Lease \in Nat

VARIABLES job,       \* the entry of each job in queue.json
          added      \* how many jobs were ever added

Jobs == 1 .. NumJobs

\* JobStatus, plus "absent" for a job that is not in the file.
Statuses == {"absent", "pending", "active", "done", "failed", "canceled", "interrupted"}

Terminal == {"done", "failed", "canceled"}

Runnable(q) == {j \in Jobs : q[j].status \in {"pending", "interrupted"}}

NoBeat == -1

Entry == [status : Statuses, run : Runs \cup {NoRun}, beat : NoBeat .. (Lease + 1),
          epoch : Nat, fin : BOOLEAN]

Absent(e) == [status |-> "absent", run |-> NoRun, beat |-> NoBeat, epoch |-> e, fin |-> FALSE]

Fresh == [status |-> "pending", run |-> NoRun, beat |-> NoBeat, epoch |-> 0, fin |-> FALSE]

\* An active job with no lease: what files written before leases existed hold.
Legacy == [status |-> "active", run |-> NoRun, beat |-> NoBeat, epoch |-> 0, fin |-> FALSE]

-----------------------------------------------------------------------------
(* Ownership *)

Owns(q, j, r, e) == q[j].run = r /\ q[j].epoch = e

\* Variant (bug): a lease is taken back a period early, while it can still be renewed.
StaleEarly(q, j) == q[j].status = "active" /\ (q[j].beat = NoBeat \/ q[j].beat >= Lease - 1)

\* _recover_interrupted_locked: no heartbeat, or one older than the lease.
Stale(q, j) == q[j].status = "active" /\ (q[j].beat = NoBeat \/ q[j].beat > Lease)

Recovered(q) ==
    [j \in Jobs |-> IF Stale(q, j)
                      THEN [q[j] EXCEPT !.status = "interrupted", !.run = NoRun, !.beat = NoBeat]
                      ELSE q[j]]

-----------------------------------------------------------------------------
(* claim_next: the first runnable job in file order gets a new lease. *)

FirstRunnable(q, j) == j \in Runnable(q) /\ \A i \in Runnable(q) : j <= i

\* Variant (bug): a claim that forgets to start a new generation.
LeasedSameGeneration(q, j, r) ==
    [q EXCEPT ![j].status = "active", ![j].run = r, ![j].beat = 0]

Leased(q, j, r) ==
    [q EXCEPT ![j].status = "active", ![j].run = r, ![j].beat = 0, ![j].epoch = @ + 1]

\* touch: a heartbeat of the run that holds the lease.
Touched(q, j) == [q EXCEPT ![j].beat = 0]

(* update_status: a finish time for a terminal status, and no lease for any *)
(* status but active.  A job that is gone is left alone.                   *)
Updated(q, j, s) ==
    IF q[j].status = "absent" THEN q
    ELSE [q EXCEPT ![j].status = s, ![j].run = NoRun, ![j].beat = NoBeat,
                   ![j].fin = @ \/ s \in Terminal]

\* Variant (bug): no fencing of writes by runs that lost their lease.
MayUpdateUnfenced(q, j, r, e) == TRUE

\* _check_owner: the write of a run is refused unless it still holds the lease.
MayUpdate(q, j, r, e) == q[j].status = "absent" \/ Owns(q, j, r, e)

-----------------------------------------------------------------------------
(* The operator's commands: queue add-*, remove, retry, clear, reset. *)

Add == /\ added < NumJobs
       /\ added' = added + 1
       /\ job' = [job EXCEPT ![added + 1] = Fresh]

Remove(j) == /\ job[j].status # "absent"
             /\ job' = [job EXCEPT ![j] = Absent(job[j].epoch)]
             /\ UNCHANGED added

\* Variant (bug): retry leaves finished_iso behind.
RetryKeepingFinish(j) ==
    /\ job[j].status \in {"failed", "interrupted", "canceled"}
    /\ job' = [job EXCEPT ![j].status = "pending", ![j].run = NoRun, ![j].beat = NoBeat]
    /\ UNCHANGED added

Retry(j) == /\ job[j].status \in {"failed", "interrupted", "canceled"}
            /\ job' = [job EXCEPT ![j].status = "pending", ![j].fin = FALSE,
                                ![j].run = NoRun, ![j].beat = NoBeat]
            /\ UNCHANGED added

ClearDone == /\ \E j \in Jobs : job[j].status \in {"done", "canceled"}
             /\ job' = [j \in Jobs |-> IF job[j].status \in {"done", "canceled"}
                                          THEN Absent(job[j].epoch) ELSE job[j]]
             /\ UNCHANGED added

Reset == /\ job' = [j \in Jobs |-> Absent(job[j].epoch)]
         /\ UNCHANGED added

-----------------------------------------------------------------------------
\* The clock moves by one heartbeat period; readings past the lease are all alike.
Aged(q) == [j \in Jobs |-> IF q[j].beat = NoBeat \/ q[j].beat > Lease THEN q[j]
                             ELSE [q[j] EXCEPT !.beat = @ + 1]]

\* What an earlier session left: pending jobs, or active ones without a lease.
QueueInit == /\ added \in 0 .. NumJobs
             /\ job \in [Jobs -> {Absent(0), Fresh, Legacy}]
             /\ \A j \in Jobs : job[j] # Absent(0) <=> j <= added

QueueTypeOK == /\ job \in [Jobs -> Entry]
               /\ added \in 0 .. NumJobs

-----------------------------------------------------------------------------
(* validate_raw_item accepts an entry only if a lease sits on an active job *)
(* and a finish time on a terminal one.  QueueManager refuses to work on a  *)
(* file with any other entry, so a single bad write stops every command:    *)
(* no sequence of operations of any number of runs may produce one.         *)
FileStaysLoadable ==
    \A j \in Jobs : /\ job[j].status # "active" => job[j].run = NoRun /\ job[j].beat = NoBeat
                    /\ job[j].fin => job[j].status \in Terminal
=============================================================================
