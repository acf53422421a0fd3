----------------------------- MODULE LeasedWork -----------------------------
(***************************************************************************)
(* What the queue promises the user who starts several runs at once: a job *)
(* is transferred by one run at a time, a job that is finished is never    *)
(* transferred again unless somebody asks for it, and a job is not         *)
(* reported finished while it is still being transferred.                  *)
(***************************************************************************)
CONSTANTS Job, Run, NoRun

VARIABLES worker,   \* the run that transfers each job, or NoRun
          phase     \* "absent", "open" (to be run, or running), "finished"

LWInit == /\ worker = [j \in Job |-> NoRun]
          /\ phase \in [Job -> {"absent", "open"}]

\* A run may begin a job that was withdrawn after the run took it.
Begin(r, j) == /\ worker[j] = NoRun /\ phase[j] # "finished"
               /\ worker' = [worker EXCEPT ![j] = r]
               /\ UNCHANGED phase

End(r, j) == /\ worker[j] = r
             /\ worker' = [worker EXCEPT ![j] = NoRun]
             /\ UNCHANGED phase

Finish(j) == /\ worker[j] = NoRun /\ phase[j] = "open"
             /\ phase' = [phase EXCEPT ![j] = "finished"]
             /\ UNCHANGED worker

\* The operator adds a job or sends a finished one round again.
Open(j) == /\ worker[j] = NoRun /\ phase[j] \in {"absent", "finished"}
           /\ phase' = [phase EXCEPT ![j] = "open"]
           /\ UNCHANGED worker

\* The operator drops jobs, whatever happens to them at the time.
Withdraw(S) == /\ phase' = [j \in Job |-> IF j \in S THEN "absent" ELSE phase[j]]
               /\ UNCHANGED worker

LWNext == \/ \E j \in Job : Finish(j) \/ Open(j) \/ \E r \in Run : Begin(r, j) \/ End(r, j)
          \/ \E S \in SUBSET Job : Withdraw(S)

LWSpec == LWInit /\ [][LWNext]_<<worker, phase>>
=============================================================================
