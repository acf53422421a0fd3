------------------------- MODULE DestinationClaims -------------------------
(***************************************************************************)
(* Transfers of several processes that want the same destination, as the   *)
(* equal names of a folder make them do (core/folder_downloader.py,        *)
(* utils/helpers.py): each claims the first of "name", "name (1)", ... that*)
(* is free, by a registry of its process and by a lock file that all the   *)
(* processes respect.                                                      *)
(***************************************************************************)
EXTENDS Integers, FiniteSets

CONSTANTS Transfers,
          Process,    \* the process of each
          Source,     \* the file it downloads
          MaxNumber   \* bound: the number of the last candidate

Candidates == 0 .. MaxNumber
Unowned == "unowned"

ASSUME ClaimAssumption ==
    /\ DOMAIN Process = Transfers /\ DOMAIN Source = Transfers
    /\ MaxNumber \in Nat /\ Unowned \notin Transfers

VARIABLES
    disk,       \* each candidate: absent, or whose file it is and how far
    registry,   \* the candidates each process has claimed
    locked,     \* the transfer that holds the lock of each candidate
    mutex,      \* the transfer that is claiming, for each process
    doing,      \* what each transfer does
    candidate,  \* the candidate it is at
    done        \* where the transfers that succeeded have put their file

claimVars == <<disk, registry, locked, mutex, doing, candidate, done>>

Processes == {Process[t] : t \in Transfers}
NoFile == [of |-> Unowned, is |-> "absent"]
File(t, how) == [of |-> Source[t], is |-> how]

ClaimInit ==
    /\ disk = [c \in Candidates |-> NoFile]
    /\ registry = [p \in Processes |-> {}]
    /\ locked = [c \in Candidates |-> Unowned]
    /\ mutex = [p \in Processes |-> Unowned]
    /\ doing = [t \in Transfers |-> "start"]
    /\ candidate = [t \in Transfers |-> 0]
    /\ done = [t \in {} |-> 0]

Goes(t, s) == doing' = [doing EXCEPT ![t] = s]

\* A file that exists blocks, unless it is what this very transfer left unfinished.
Blocked(t) ==
    LET f == disk[candidate[t]] IN f # NoFile /\ f # File(t, "partial")

\* The next candidate.
Skip(t) ==
    /\ candidate[t] < MaxNumber
    /\ candidate' = [candidate EXCEPT ![t] = @ + 1]
    /\ Goes(t, "look")

-----------------------------------------------------------------------------
(* claim_destination *)

StartClaim(t) ==
    /\ doing[t] = "start" /\ mutex[Process[t]] = Unowned
    /\ mutex' = [mutex EXCEPT ![Process[t]] = t]
    /\ Goes(t, "look")
    /\ UNCHANGED <<disk, registry, locked, candidate, done>>

LookAtDisk(t) ==
    /\ doing[t] = "look"
    /\ IF candidate[t] \in registry[Process[t]] \/ Blocked(t)
       THEN Skip(t) ELSE Goes(t, "lock") /\ UNCHANGED candidate
    /\ UNCHANGED <<disk, registry, locked, mutex, done>>

\* The lock file is tried, and not waited for.
TryLock(t) ==
    /\ doing[t] = "lock"
    /\ \/ /\ locked[candidate[t]] = Unowned
          /\ locked' = [locked EXCEPT ![candidate[t]] = t]
          /\ Goes(t, "check")
          /\ UNCHANGED candidate
       \/ locked[candidate[t]] # Unowned /\ Skip(t) /\ UNCHANGED locked
    /\ UNCHANGED <<disk, registry, mutex, done>>

\* Variant (bug): what was seen before the lock still holds under it.
CheckSkipped(t) ==
    /\ doing[t] = "check"
    /\ registry' = [registry EXCEPT ![Process[t]] = @ \cup {candidate[t]}]
    /\ mutex' = [mutex EXCEPT ![Process[t]] = Unowned]
    /\ Goes(t, "write")
    /\ UNCHANGED <<disk, locked, candidate, done>>

\* The second look, under the lock.
Check(t) ==
    /\ doing[t] = "check"
    /\ \/ /\ Blocked(t)
          /\ locked' = [locked EXCEPT ![candidate[t]] = Unowned]
          /\ Skip(t)
          /\ UNCHANGED <<registry, mutex>>
       \/ /\ ~Blocked(t)
          /\ registry' = [registry EXCEPT ![Process[t]] = @ \cup {candidate[t]}]
          /\ mutex' = [mutex EXCEPT ![Process[t]] = Unowned]
          /\ Goes(t, "write")
          /\ UNCHANGED <<locked, candidate>>
    /\ UNCHANGED <<disk, done>>

-----------------------------------------------------------------------------
(* The transfer under its claim (_download_owned_file, _run_download) *)

\* The first write, over whatever the claim has found.
WriteSome(t) ==
    /\ doing[t] = "write"
    /\ disk' = [disk EXCEPT ![candidate[t]] = File(t, "partial")]
    /\ Goes(t, "fetch")
    /\ UNCHANGED <<registry, locked, mutex, candidate, done>>

(* The file is whole; or the transfer fails and leaves what it has, with    *)
(* its resume state or without.                                             *)
EndTransfer(t) ==
    /\ doing[t] \in {"write", "fetch"}
    /\ \/ /\ doing[t] = "fetch"
          /\ disk' = [disk EXCEPT ![candidate[t]] = File(t, "whole")]
          /\ done' = [u \in DOMAIN done \cup {t} |-> IF u = t THEN candidate[t] ELSE done[u]]
       \/ UNCHANGED <<disk, done>>
       \/ doing[t] = "fetch" /\ disk' = [disk EXCEPT ![candidate[t]] = File(t, "lost")]
          /\ UNCHANGED done
    /\ Goes(t, "unregister")
    /\ UNCHANGED <<registry, locked, mutex, candidate>>

\* release_destination: out of the registry first, and then the lock.
Unregister(t) ==
    /\ doing[t] = "unregister" /\ mutex[Process[t]] = Unowned
    /\ registry' = [registry EXCEPT ![Process[t]] = @ \ {candidate[t]}]
    /\ Goes(t, "unlock")
    /\ UNCHANGED <<disk, locked, mutex, candidate, done>>

Unlock(t) ==
    /\ doing[t] = "unlock"
    /\ locked' = [locked EXCEPT ![candidate[t]] = Unowned]
    /\ Goes(t, "ended")
    /\ UNCHANGED <<disk, registry, mutex, candidate, done>>

\* A process dies; the system drops its locks.
Die(p) ==
    /\ \E t \in Transfers : Process[t] = p /\ doing[t] # "ended"
    /\ doing' = [t \in Transfers |-> IF Process[t] = p THEN "ended" ELSE doing[t]]
    /\ locked' = [c \in Candidates |->
                     IF locked[c] # Unowned /\ Process[locked[c]] = p THEN Unowned ELSE locked[c]]
    /\ registry' = [registry EXCEPT ![p] = {}]
    /\ mutex' = [mutex EXCEPT ![p] = Unowned]
    /\ UNCHANGED <<disk, candidate, done>>

TransferStep(t) ==
    \/ StartClaim(t) \/ LookAtDisk(t) \/ TryLock(t) \/ Check(t)
    \/ WriteSome(t) \/ EndTransfer(t) \/ Unregister(t) \/ Unlock(t)

ClaimNext == (\E t \in Transfers : TransferStep(t)) \/ (\E p \in Processes : Die(p))

ClaimSpec == ClaimInit /\ [][ClaimNext]_claimVars

-----------------------------------------------------------------------------
(* Properties *)

Writing(t) == doing[t] \in {"write", "fetch"}

(* Type invariant: what the variables hold, for every transfer.             *)
ClaimTypeOK ==
    /\ disk \in [Candidates -> {NoFile} \cup {File(t, how) : t \in Transfers,
                                              how \in {"partial", "whole", "lost"}}]
    /\ registry \in [Processes -> SUBSET Candidates]
    /\ locked \in [Candidates -> Transfers \cup {Unowned}]
    /\ mutex \in [Processes -> Transfers \cup {Unowned}]
    /\ doing \in [Transfers -> {"start", "look", "lock", "check", "write", "fetch", "unregister",
                             "unlock", "ended"}]
    /\ candidate \in [Transfers -> Candidates]

(* No two transfers write one destination, be they threads of one process   *)
(* or of several, and whatever process dies (helpers.py:137-148).           *)
NoTwoWriters ==
    \A t, u \in Transfers :
        t # u /\ Writing(t) /\ Writing(u) => candidate[t] # candidate[u]

(* Without --overwrite a file that was downloaded whole stays as it is: no  *)
(* transfer that looked before it was there writes over it (helpers.py:     *)
(* 171-173, "closes the TOCTOU window").                                    *)
FinishedKept == \A t \in DOMAIN done : disk[done[t]] = File(t, "whole")
=============================================================================
