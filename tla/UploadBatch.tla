---------------------------- MODULE UploadBatch ----------------------------
(***************************************************************************)
(* One "mb upload" of several files (commands/upload_cmd.py): the jobs run   *)
(* in a pool of threads, share one cache of logins and, with                 *)
(* --auto-account, one ledger of free space (upload_support.py) from which   *)
(* each job takes the account it tries next.  The transfer of one file is    *)
(* a single step here; module Upload has its steps.                          *)
(***************************************************************************)
EXTENDS Integers, Sequences, FiniteSets, FiniteSetsExt

CONSTANTS Sizes,        \* the size of each job, in the order they were named
          TreeChoices,  \* which jobs may be directories of a --keep-structure upload
          Accounts,
          Known,        \* the free space of each account by the cached quotas
          Rooms,        \* what the free space may really be
          Parallel,     \* max_parallel_uploads
          NoAccount

Jobs == DOMAIN Sizes

ASSUME BatchAssumption ==
    /\ Sizes \in Seq(Nat) /\ TreeChoices \subseteq SUBSET DOMAIN Sizes
    /\ Known \in [Accounts -> Nat] /\ Rooms \subseteq [Accounts -> Nat]
    /\ Parallel \in Nat \ {0} /\ NoAccount \notin Accounts

VARIABLES
    trees,     \* the jobs that are directories, each in one account
    fixed,     \* the account of all jobs; NoAccount under --auto-account
    ledger,    \* free space of each account that is not reserved
    clients,   \* accounts with a logged-in client
    loginLock, \* the job that holds client_cache_lock
    pc,        \* where each job is
    email,     \* the account it tries
    attempted, \* the accounts it has given up
    live,      \* the free space its quota read saw
    escaped,   \* an exception has left a worker
    main,      \* the thread that waits for the workers

    \* what really happened
    room,      \* free space of each account at MEGA
    landed,    \* how often each job's file was stored
    logins     \* logins to each account that succeeded

batchVars == <<trees, fixed, ledger, clients, loginLock, pc, email, attempted, live, escaped, main,
          room, landed, logins>>
given == <<trees, fixed>>
truth == <<room, landed, logins>>
cache == <<clients, loginLock>>
self == <<email, attempted, live>>

\* can_parallel: trees, and a lone file, go one after another.
Width == IF trees = {} /\ Len(Sizes) > 1 THEN Parallel ELSE 1

Waiting == "waiting"
JobEnded == {"succeeded", "failed", "escaped", "cancelled"}

BatchInit ==
    /\ trees \in TreeChoices
    /\ \/ fixed = NoAccount /\ clients = {}
       \/ \E a \in Accounts : fixed = a /\ clients = {a}
    /\ ledger = Known
    /\ loginLock = 0
    /\ pc = [j \in Jobs |-> Waiting]
    /\ email = [j \in Jobs |-> NoAccount]
    /\ attempted = [j \in Jobs |-> {}]
    /\ live = [j \in Jobs |-> 0]
    /\ escaped = FALSE /\ main = "running"
    /\ room \in Rooms
    /\ landed = [j \in Jobs |-> 0]
    /\ logins = [a \in Accounts |-> IF a \in clients THEN 1 ELSE 0]

AutoAccount == fixed = NoAccount
Goto(j, s) == pc' = [pc EXCEPT ![j] = s]

(* An exception that is no MegaError leaves the worker.  The pool cancels    *)
(* what has not started once the main thread meets it; with one job at a     *)
(* time nothing starts any more.                                             *)
Escape(j) ==
    /\ escaped' = TRUE
    /\ pc' = [i \in Jobs |-> IF i = j THEN "escaped"
                             ELSE IF pc[i] = Waiting /\ Width = 1 THEN "cancelled" ELSE pc[i]]

-----------------------------------------------------------------------------
(* QuotaLedger *)

\* Variant (bug): an account that has failed this file is taken again.
FitsAgain(j) == {a \in Accounts : ledger[a] >= Sizes[j]}

Fits(j) == {a \in Accounts \ attempted[j] : ledger[a] >= Sizes[j]}

\* Variant (bug): the account is chosen, and the balance stays as it was.
ReservedUnbooked(j, a) ==
    /\ a \in Fits(j) /\ \A b \in Fits(j) : ledger[b] <= ledger[a]
    /\ UNCHANGED ledger

\* reserve: the account with the most free space that fits.
Reserved(j, a) ==
    /\ a \in Fits(j) /\ \A b \in Fits(j) : ledger[b] <= ledger[a]
    /\ ledger' = [ledger EXCEPT ![a] = @ - Sizes[j]]

Released(j) ==
    ledger' = IF AutoAccount THEN [ledger EXCEPT ![email[j]] = @ + Sizes[j]] ELSE ledger

\* reconcile_free: downwards only.
Reconciled(a, free) == ledger' = [ledger EXCEPT ![a] = IF free < @ THEN free ELSE @]

-----------------------------------------------------------------------------
(* A job, by its steps (_upload_one_sequential) *)

Running == {j \in Jobs : pc[j] \notin JobEnded \cup {Waiting}}

\* The workers take the jobs in order.
Start(j) ==
    /\ pc[j] = Waiting /\ Cardinality(Running) < Width
    /\ \A i \in Jobs : i < j => pc[i] # Waiting
    /\ Goto(j, "select")
    /\ UNCHANGED <<given, ledger, cache, self, escaped, main, truth>>

(* The account of this attempt; no account that fits is a failure.           *)
SelectAccount(j) ==
    /\ pc[j] = "select"
    /\ \/ /\ AutoAccount
          /\ \E a \in Accounts :
                /\ Reserved(j, a)
                /\ email' = [email EXCEPT ![j] = a]
          /\ Goto(j, "client")
       \/ /\ ~AutoAccount
          /\ email' = [email EXCEPT ![j] = fixed]
          /\ Goto(j, "client")
          /\ UNCHANGED ledger
       \/ /\ AutoAccount /\ Fits(j) = {}
          /\ Goto(j, "failed")
          /\ UNCHANGED <<ledger, email>>
    /\ UNCHANGED <<given, cache, attempted, live, escaped, main, room, landed, logins>>

\* Variant (bug): the cache is looked up before the lock is taken.
ClientUnlocked(j) ==
    /\ pc[j] = "client"
    /\ IF email[j] \in clients THEN Goto(j, "target") ELSE Goto(j, "login")
    /\ UNCHANGED <<given, ledger, cache, self, escaped, main, truth>>

(* _base_for_email: under its lock a cached client is taken, else the login  *)
(* begins; an account that is gone or whose password does not open is none.  *)
Client(j) ==
    /\ pc[j] = "client"
    /\ \/ /\ loginLock = 0 /\ email[j] \in clients
          /\ Goto(j, "target")
          /\ UNCHANGED loginLock
       \/ /\ loginLock = 0 /\ email[j] \notin clients
          /\ loginLock' = j
          /\ Goto(j, "login")
       \/ AutoAccount /\ email[j] \notin clients /\ Goto(j, "noclient") /\ UNCHANGED loginLock
    /\ UNCHANGED <<given, ledger, clients, self, escaped, main, truth>>

\* The login, or the session that is restored in its place.
Login(j) ==
    /\ pc[j] = "login"
    /\ \/ /\ clients' = clients \cup {email[j]}
          /\ logins' = [logins EXCEPT ![email[j]] = @ + 1]
          /\ Goto(j, "target")
          /\ UNCHANGED escaped
       \/ Goto(j, "noclient") /\ UNCHANGED <<clients, logins, escaped>>
       \/ Escape(j) /\ UNCHANGED <<clients, logins>>
    /\ loginLock' = 0
    /\ UNCHANGED <<given, ledger, self, main, room, landed>>

\* An account with no client: the next one.
NoClient(j) ==
    /\ pc[j] = "noclient"
    /\ attempted' = [attempted EXCEPT ![j] = @ \cup {email[j]}]
    /\ Released(j)
    /\ Goto(j, "select")
    /\ UNCHANGED <<given, cache, email, live, escaped, main, truth>>

\* A failure that is no QuotaError gives the reservation back.
FailReleased(j) == Released(j) /\ Goto(j, "failed")

\* resolve_target; only a MegaError of it is caught.
Target(j) ==
    /\ pc[j] = "target"
    /\ \/ Goto(j, "upload") /\ UNCHANGED <<ledger, escaped>>
       \/ FailReleased(j) /\ UNCHANGED escaped
       \/ Escape(j) /\ UNCHANGED ledger
    /\ UNCHANGED <<given, cache, self, main, truth>>

\* What MEGA stores counts against the account.
Stores(j, bytes) == room' = [room EXCEPT ![email[j]] = @ - bytes]

(* A file: stored; refused for its size; failed; or stored though the        *)
(* answer was lost.  Every failure but a refusal gives the reservation back. *)
UploadFile(j) ==
    /\ pc[j] = "upload" /\ j \notin trees
    /\ \/ /\ room[email[j]] >= Sizes[j]
          /\ Stores(j, Sizes[j])
          /\ landed' = [landed EXCEPT ![j] = @ + 1]
          /\ \/ Goto(j, "finalize") /\ UNCHANGED ledger
             \/ FailReleased(j)
          /\ UNCHANGED attempted
       \/ /\ room[email[j]] < Sizes[j]
          /\ attempted' = [attempted EXCEPT ![j] = @ \cup {email[j]}]
          /\ Goto(j, IF AutoAccount THEN "refresh" ELSE "failed")
          /\ UNCHANGED <<ledger, room, landed>>
       \/ FailReleased(j) /\ UNCHANGED <<attempted, room, landed>>
    /\ UNCHANGED <<given, cache, email, live, escaped, main, logins>>

(* A tree is stored whole, or in part: then its space is not given back.     *)
UploadDirectory(j) ==
    /\ pc[j] = "upload" /\ j \in trees
    /\ \/ /\ room[email[j]] >= Sizes[j]
          /\ Stores(j, Sizes[j])
          /\ landed' = [landed EXCEPT ![j] = @ + 1]
          /\ Goto(j, "succeeded")
       \/ /\ \E part \in 0 .. Sizes[j] : part <= room[email[j]] /\ Stores(j, part)
          /\ Goto(j, IF AutoAccount THEN "refresh" ELSE "failed")
          /\ UNCHANGED landed
    /\ UNCHANGED <<given, ledger, cache, self, escaped, main, logins>>

\* Variant (bug): a refused share link counts as a refused upload.
FinalizeRefused(j) ==
    /\ pc[j] = "finalize"
    /\ \/ Goto(j, "succeeded") /\ UNCHANGED <<ledger, attempted>>
       \/ /\ attempted' = [attempted EXCEPT ![j] = @ \cup {email[j]}]
          /\ Goto(j, IF AutoAccount THEN "refresh" ELSE "failed")
          /\ UNCHANGED ledger
    /\ UNCHANGED <<given, cache, email, live, escaped, main, truth>>

(* finalize_upload_success: a MegaError of the share link is only reported;  *)
(* anything else it raises makes the job a failed one, file stored or not.   *)
Finalize(j) ==
    /\ pc[j] = "finalize"
    /\ \/ Goto(j, "succeeded") /\ UNCHANGED ledger
       \/ FailReleased(j)
    /\ UNCHANGED <<given, cache, self, escaped, main, truth>>

(* _refresh_quota_after_error: the live quota, none when MEGA does not say   *)
(* (a MegaError); another exception escapes.                                 *)
Refresh(j) ==
    /\ pc[j] = "refresh" /\ loginLock = 0
    /\ \/ /\ \E free \in {0, room[email[j]]} : live' = [live EXCEPT ![j] = free]
          /\ Goto(j, "reconcile")
          /\ UNCHANGED escaped
       \/ Escape(j) /\ UNCHANGED live
    /\ UNCHANGED <<given, ledger, cache, email, attempted, main, truth>>

(* The balance is corrected and the quota saved, which may fail.  A file is  *)
(* planned again, a tree has failed.                                         *)
Reconcile(j) ==
    /\ pc[j] = "reconcile"
    /\ Reconciled(email[j], live[j])
    /\ \/ Goto(j, IF j \in trees THEN "failed" ELSE "select") /\ UNCHANGED escaped
       \/ Escape(j)
    /\ UNCHANGED <<given, cache, self, main, truth>>

-----------------------------------------------------------------------------
(* The thread that waits for the pool *)

Cancel ==
    /\ escaped /\ main = "running"
    /\ \E j \in Jobs : pc[j] = Waiting
    /\ pc' = [j \in Jobs |-> IF pc[j] = Waiting THEN "cancelled" ELSE pc[j]]
    /\ UNCHANGED <<given, ledger, cache, self, escaped, main, truth>>

(* All workers are done: the hook of the batch runs, unless an exception     *)
(* goes past it.                                                             *)
Finish ==
    /\ main = "running" /\ \A j \in Jobs : pc[j] \in JobEnded
    /\ main' = IF escaped THEN "raised" ELSE "reported"
    /\ UNCHANGED <<given, ledger, cache, pc, self, escaped, truth>>

JobStep(j) ==
    \/ Start(j) \/ SelectAccount(j) \/ Client(j) \/ Login(j) \/ NoClient(j) \/ Target(j)
    \/ UploadFile(j) \/ UploadDirectory(j) \/ Finalize(j) \/ Refresh(j) \/ Reconcile(j)

BatchNext == Finish \/ Cancel \/ \E j \in Jobs : JobStep(j)

\* Requests have time-outs, and the pool runs every thread.
BatchFairness == WF_batchVars(Finish) /\ \A j \in Jobs : WF_batchVars(JobStep(j))

BatchSpec == BatchInit /\ [][BatchNext]_batchVars
FairBatchSpec == BatchSpec /\ BatchFairness

-----------------------------------------------------------------------------
(* Properties *)

(* Type invariant: what the variables hold, for every job and account.       *)
BatchTypeOK ==
    /\ trees \in TreeChoices /\ fixed \in Accounts \cup {NoAccount}
    /\ ledger \in [Accounts -> Nat] /\ room \in [Accounts -> Nat]
    /\ clients \subseteq Accounts /\ loginLock \in Jobs \cup {0}
    /\ pc \in [Jobs -> JobEnded \cup {Waiting, "select", "client", "login", "noclient", "target",
                                   "upload", "finalize", "refresh", "reconcile"}]
    /\ email \in [Jobs -> Accounts \cup {NoAccount}]
    /\ attempted \in [Jobs -> SUBSET Accounts]
    /\ live \in [Jobs -> Nat]
    /\ escaped \in BOOLEAN /\ main \in {"running", "reported", "raised"}

\* The jobs whose reservation on an account is in use, or spent.
Reserving(a) ==
    {j \in Jobs : /\ email[j] = a
                  /\ pc[j] \in {"client", "login", "noclient", "target", "upload", "finalize",
                                "succeeded"}}

(* --auto-account never promises more of an account than was known to be     *)
(* free: what is in use, spent and still on offer stays within it            *)
(* (upload_support.py:101-104, "parallel reservations can never overcommit    *)
(* one account"), whatever fails, is given back or is corrected meanwhile.   *)
NeverOvercommitted ==
    AutoAccount => \A a \in Accounts :
        MapThenSumSet(LAMBDA j : Sizes[j], Reserving(a)) + ledger[a] <= Known[a]

(* A file is stored at most once, though a full account makes the job go on  *)
(* to another, and one that is counted as succeeded is stored.               *)
StoredOnce ==
    \A j \in Jobs : landed[j] <= 1 /\ (pc[j] = "succeeded" => landed[j] = 1)

(* Two jobs that meet on a new account log in once (upload_cmd.py:281-285,   *)
(* "never double-login", for each login may ask for a code).                 *)
OneLoginEach == \A a \in Accounts : logins[a] <= 1

(* The batch comes to its end: every job has an outcome, and the command     *)
(* reports or raises.                                                        *)
BatchEnds == <>(main # "running")
=============================================================================
