----------------------------- MODULE MCQueueRun -----------------------------
(* Instance of QueueRun for TLC: the .cfg files choose runs, jobs and faults. *)
EXTENDS QueueRun, TLC

RunSymmetry == Permutations(Runs)
=============================================================================
