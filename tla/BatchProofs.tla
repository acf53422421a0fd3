---------------------------- MODULE BatchProofs ----------------------------
(***************************************************************************)
(* Proofs about the batches.  Of UploadBatch, for any jobs, sizes, accounts *)
(* and quotas: no balance and no account goes below nothing, no file is     *)
(* stored twice, no account is logged in to twice, and the ledger promises  *)
(* no more of an account than was known to be free.  The logins need who    *)
(* holds their lock, and that the account it logs in to has no client yet;  *)
(* the ledger needs what the sum over a set is, which the fold only says of *)
(* one element at a time.  Of DownloadBatch, for any links: the report      *)
(* tells the truth.  That needs which links have been counted at each step, *)
(* and that the failures are those that are no job and those counted.       *)
(***************************************************************************)
EXTENDS UploadBatch, DownloadBatch, TLAPS, FiniteSetTheorems, SequenceTheorems,
        WellFoundedInduction

Active == {"client", "login", "noclient", "target", "upload", "finalize", "refresh", "reconcile"}

\* A job at work has an account; it has stored nothing before its upload is done.
JobInv(j) ==
    /\ pc[j] \in Active => email[j] \in Accounts
    /\ pc[j] \in {Waiting, "select", "refresh", "reconcile"} \cup (Active \ {"finalize"})
          => landed[j] = 0
    /\ pc[j] \in {"finalize", "succeeded"} => landed[j] = 1
    /\ landed[j] \in {0, 1}
    /\ pc[j] = "login" => loginLock = j /\ email[j] \notin clients

LoginInv ==
    /\ loginLock # 0 => pc[loginLock] = "login"
    /\ logins = [a \in Accounts |-> IF a \in clients THEN 1 ELSE 0]

BatchInv ==
    /\ BatchTypeOK
    /\ landed \in [Jobs -> Int]
    /\ \A j \in Jobs : JobInv(j)
    /\ LoginInv

-----------------------------------------------------------------------------

LEMMA SizesAreNat == ASSUME NEW j \in Jobs PROVE Sizes[j] \in Nat /\ j \in Nat /\ j # 0
<1>1. Sizes \in Seq(Nat) BY BatchAssumption
<1>2. Jobs = 1 .. Len(Sizes) /\ Len(Sizes) \in Nat BY <1>1 DEF Jobs
<1>3. j \in 1 .. Len(Sizes) BY <1>2
<1>4. Sizes[j] \in Nat BY <1>1, <1>3
<1> QED BY <1>2, <1>3, <1>4

LEMMA InitBatch == BatchInit => BatchInv
<1> SUFFICES ASSUME BatchInit PROVE BatchInv OBVIOUS
<1>1. BatchTypeOK
  BY BatchAssumption DEF BatchInit, BatchTypeOK, Waiting, JobEnded
<1>2. landed \in [Jobs -> Int] /\ \A j \in Jobs : JobInv(j)
  BY DEF BatchInit, JobInv, Active, Waiting
<1>3. LoginInv BY DEF BatchInit, LoginInv
<1> QED BY <1>1, <1>2, <1>3 DEF BatchInv

\* The steps of a job, and what each leaves alone of another.
LEMMA PcTyped ==
    ASSUME BatchTypeOK, NEW j \in Jobs, Escape(j)
    PROVE  /\ pc'[j] = "escaped"
           /\ \A i \in Jobs \ {j} : pc'[i] = pc[i] \/ (pc[i] = Waiting /\ pc'[i] = "cancelled")
           /\ pc' \in [Jobs -> JobEnded \cup {Waiting, "select", "client", "login", "noclient",
                                           "target", "upload", "finalize", "refresh", "reconcile"}]
  BY DEF BatchTypeOK, Escape, JobEnded

LEMMA ReservedType ==
    ASSUME BatchTypeOK, NEW j \in Jobs, NEW a \in Accounts, Reserved(j, a)
    PROVE  ledger' \in [Accounts -> Nat]
<1>1. Sizes[j] \in Nat /\ ledger \in [Accounts -> Nat] BY SizesAreNat DEF BatchTypeOK
<1>2. ledger[a] >= Sizes[j] BY DEF Reserved, Fits
<1> QED BY <1>1, <1>2 DEF Reserved

LEMMA ReleasedType ==
    ASSUME BatchTypeOK, NEW j \in Jobs, email[j] \in Accounts, Released(j)
    PROVE  ledger' \in [Accounts -> Nat]
<1>1. Sizes[j] \in Nat /\ ledger \in [Accounts -> Nat] BY SizesAreNat DEF BatchTypeOK
<1> QED BY <1>1 DEF Released

LEMMA StoresType ==
    ASSUME BatchTypeOK, NEW j \in Jobs, email[j] \in Accounts, NEW n \in Nat,
           n <= room[email[j]], Stores(j, n)
    PROVE  room' \in [Accounts -> Nat]
BY DEF BatchTypeOK, Stores

LEMMA ReconciledType ==
    ASSUME BatchTypeOK, NEW j \in Jobs, email[j] \in Accounts, Reconciled(email[j], live[j])
    PROVE  ledger' \in [Accounts -> Nat]
BY DEF BatchTypeOK, Reconciled

LEMMA JobType ==
    ASSUME BatchInv, NEW j \in Jobs, JobStep(j) PROVE BatchTypeOK'
<1>0. BatchTypeOK /\ JobInv(j) BY DEF BatchInv
<1>s. Sizes[j] \in Nat BY SizesAreNat
<1>1. CASE Start(j)
  BY <1>0, <1>1 DEF Start, BatchTypeOK, Goto, given, cache, self, truth
<1>2. CASE SelectAccount(j)
  <2>1. ledger' \in [Accounts -> Nat] BY <1>0, <1>2, ReservedType DEF SelectAccount, BatchTypeOK
  <2>2. email' \in [Jobs -> Accounts \cup {NoAccount}] BY <1>0, <1>2 DEF SelectAccount, BatchTypeOK
  <2> QED BY <1>0, <1>2, <2>1, <2>2 DEF SelectAccount, BatchTypeOK, Goto, JobEnded, given, cache
<1>3. CASE Client(j)
  BY <1>0, <1>3 DEF Client, BatchTypeOK, Goto, given, self, truth
<1>4. CASE Login(j)
  <2>1. email[j] \in Accounts BY <1>0, <1>4 DEF Login, JobInv, Active
  <2> QED BY <1>0, <1>4, <2>1, PcTyped DEF Login, BatchTypeOK, Goto, Escape, given, self
<1>5. CASE NoClient(j)
  <2>1. email[j] \in Accounts BY <1>0, <1>5 DEF NoClient, JobInv, Active
  <2>2. ledger' \in [Accounts -> Nat] BY <1>0, <1>5, <2>1, ReleasedType DEF NoClient
  <2> QED BY <1>0, <1>5, <2>1, <2>2 DEF NoClient, BatchTypeOK, Goto, given, cache, truth
<1>6. CASE Target(j)
  <2>1. email[j] \in Accounts BY <1>0, <1>6 DEF Target, JobInv, Active
  <2>2. ledger' \in [Accounts -> Nat]
    BY <1>0, <1>6, <2>1, ReleasedType DEF Target, FailReleased, BatchTypeOK
  <2> QED BY <1>0, <1>6, <2>2, PcTyped
          DEF Target, BatchTypeOK, FailReleased, Goto, JobEnded, Escape, given, cache, self, truth
<1>7. CASE UploadFile(j)
  <2>1. email[j] \in Accounts BY <1>0, <1>7 DEF UploadFile, JobInv, Active
  <2>2. ledger' \in [Accounts -> Nat]
    BY <1>0, <1>7, <2>1, ReleasedType DEF UploadFile, FailReleased, BatchTypeOK
  <2>3. room' \in [Accounts -> Nat] BY <1>0, <1>s, <1>7, <2>1, StoresType DEF UploadFile, BatchTypeOK
  <2> QED BY <1>0, <1>7, <2>1, <2>2, <2>3
          DEF UploadFile, BatchTypeOK, FailReleased, Goto, JobEnded, given, cache
<1>8. CASE UploadDirectory(j)
  <2>1. email[j] \in Accounts BY <1>0, <1>8 DEF UploadDirectory, JobInv, Active
  <2>2. room' \in [Accounts -> Nat]
    BY <1>0, <1>s, <1>8, <2>1, StoresType DEF UploadDirectory, BatchTypeOK
  <2> QED BY <1>0, <1>8, <2>2 DEF UploadDirectory, BatchTypeOK, Goto, JobEnded, given, cache, self
<1>9. CASE Finalize(j)
  <2>1. email[j] \in Accounts BY <1>0, <1>9 DEF Finalize, JobInv, Active
  <2>2. ledger' \in [Accounts -> Nat]
    BY <1>0, <1>9, <2>1, ReleasedType DEF Finalize, FailReleased, BatchTypeOK
  <2> QED BY <1>0, <1>9, <2>2
          DEF Finalize, BatchTypeOK, FailReleased, Goto, JobEnded, given, cache, self, truth
<1>10. CASE Refresh(j)
  <2>1. email[j] \in Accounts BY <1>0, <1>10 DEF Refresh, JobInv, Active
  <2>2. live' \in [Jobs -> Nat] BY <1>0, <1>10, <2>1 DEF Refresh, BatchTypeOK
  <2> QED BY <1>0, <1>10, <2>2, PcTyped DEF Refresh, BatchTypeOK, Goto, Escape, given, cache, truth
<1>11. CASE Reconcile(j)
  <2>1. email[j] \in Accounts BY <1>0, <1>11 DEF Reconcile, JobInv, Active
  <2>2. ledger' \in [Accounts -> Nat] BY <1>0, <1>11, <2>1, ReconciledType DEF Reconcile
  <2> QED BY <1>0, <1>11, <2>2, PcTyped
          DEF Reconcile, BatchTypeOK, Goto, JobEnded, Escape, given, cache, self, truth
<1> QED BY <1>1, <1>2, <1>3, <1>4, <1>5, <1>6, <1>7, <1>8, <1>9, <1>10, <1>11 DEF JobStep

-----------------------------------------------------------------------------
(* The files and the logins *)

\* A step of one job takes another at most from the queue.
LEMMA OtherJobs ==
    ASSUME BatchInv, NEW j \in Jobs, JobStep(j), NEW i \in Jobs, i # j
    PROVE  /\ pc'[i] = pc[i] \/ (pc[i] = Waiting /\ pc'[i] = "cancelled")
           /\ email'[i] = email[i] /\ landed'[i] = landed[i]
<1>0. BatchTypeOK /\ landed \in [Jobs -> Int] BY DEF BatchInv
<1>1. pc'[i] = pc[i] \/ (pc[i] = Waiting /\ pc'[i] = "cancelled")
  <2>1. ASSUME Escape(j) PROVE pc'[i] = pc[i] \/ (pc[i] = Waiting /\ pc'[i] = "cancelled")
    BY <1>0, <2>1, PcTyped
  <2>2. ASSUME NEW s, Goto(j, s) PROVE pc'[i] = pc[i] BY <1>0, <2>2 DEF Goto, BatchTypeOK
  <2> QED BY <2>1, <2>2
          DEF JobStep, Start, SelectAccount, Client, Login, NoClient, Target, UploadFile,
              UploadDirectory, Finalize, Refresh, Reconcile, FailReleased
<1>2. email'[i] = email[i]
  BY <1>0 DEF BatchTypeOK, JobStep, Start, SelectAccount, Client, Login, NoClient, Target, UploadFile,
              UploadDirectory, Finalize, Refresh, Reconcile, self
<1>3. landed'[i] = landed[i]
  BY <1>0 DEF JobStep, Start, SelectAccount, Client, Login, NoClient, Target, UploadFile,
              UploadDirectory, Finalize, Refresh, Reconcile, truth
<1> QED BY <1>1, <1>2, <1>3

\* Who logs in holds the lock, and only a login makes a client.
LEMMA LoginStep ==
    ASSUME BatchInv, NEW j \in Jobs, JobStep(j)
    PROVE  /\ pc[j] # "login" => UNCHANGED <<clients, logins>>
           /\ pc[j] # "login" => loginLock' = loginLock \/ (loginLock = 0 /\ loginLock' = j
                                                            /\ pc'[j] = "login"
                                                            /\ email'[j] \notin clients)
           /\ pc[j] = "login" => /\ loginLock' = 0 /\ pc'[j] # "login"
                                 /\ \/ UNCHANGED <<clients, logins>>
                                    \/ /\ clients' = clients \cup {email[j]}
                                       /\ logins' = [logins EXCEPT ![email[j]] = @ + 1]
<1>0. BatchTypeOK BY DEF BatchInv
<1>1. CASE Login(j)
  <2>1. pc'[j] # "login" BY <1>0, <1>1, PcTyped DEF Login, Goto, BatchTypeOK
  <2> QED BY <1>1, <2>1 DEF Login
<1>2. CASE Client(j) BY <1>0, <1>2 DEF Client, Goto, BatchTypeOK, truth, self
<1>3. CASE ~Login(j) /\ ~Client(j)
  BY <1>3 DEF JobStep, Start, SelectAccount, NoClient, Target, UploadFile,
              UploadDirectory, Finalize, Refresh, Reconcile, cache, truth, Waiting
<1> QED BY <1>1, <1>2, <1>3

LEMMA LoginKept ==
    ASSUME BatchInv, NEW j \in Jobs, JobStep(j), BatchTypeOK' PROVE LoginInv'
<1>0. BatchTypeOK /\ LoginInv /\ JobInv(j) /\ j # 0 BY SizesAreNat DEF BatchInv
<1>1. logins' = [a \in Accounts |-> IF a \in clients' THEN 1 ELSE 0]
  <2>1. CASE UNCHANGED <<clients, logins>> BY <1>0, <2>1 DEF LoginInv
  <2>2. CASE /\ pc[j] = "login" /\ clients' = clients \cup {email[j]}
             /\ logins' = [logins EXCEPT ![email[j]] = @ + 1]
    BY <1>0, <2>2 DEF LoginInv, JobInv, Active
  <2> QED BY <2>1, <2>2, LoginStep
<1>2. loginLock' # 0 => pc'[loginLock'] = "login"
  <2>1. CASE pc[j] = "login" BY <2>1, LoginStep
  <2>2. CASE pc[j] # "login" /\ loginLock' = j /\ pc'[j] = "login" BY <2>2
  <2>3. CASE pc[j] # "login" /\ loginLock' = loginLock /\ loginLock # 0
    <3>1. loginLock \in Jobs /\ pc[loginLock] = "login" /\ loginLock # j
      BY <1>0, <2>3 DEF BatchTypeOK, LoginInv
    <3>2. pc'[loginLock] = pc[loginLock] BY <3>1, OtherJobs DEF Waiting
    <3> QED BY <2>3, <3>1, <3>2
  <2> QED BY <2>1, <2>2, <2>3, LoginStep
<1> QED BY <1>1, <1>2 DEF LoginInv

LEMMA OtherKept ==
    ASSUME BatchInv, NEW j \in Jobs, JobStep(j), NEW i \in Jobs, i # j PROVE JobInv(i)'
<1>0. JobInv(i) /\ JobInv(j) /\ i # 0 BY SizesAreNat DEF BatchInv
<1>1. /\ pc'[i] = pc[i] \/ (pc[i] = Waiting /\ pc'[i] = "cancelled")
      /\ email'[i] = email[i] /\ landed'[i] = landed[i]
  BY OtherJobs
<1>2. CASE pc'[i] = "login"
  <2>1. pc[i] = "login" /\ loginLock = i /\ email[i] \notin clients
    BY <1>0, <1>1, <1>2 DEF JobInv
  <2>2. pc[j] # "login" BY <1>0, <2>1 DEF JobInv
  <2>3. loginLock' = loginLock /\ UNCHANGED clients BY <1>0, <2>1, <2>2, LoginStep
  <2> QED BY <1>0, <1>1, <1>2, <2>1, <2>3 DEF JobInv
<1>3. CASE pc'[i] # "login"
  BY <1>0, <1>1, <1>3 DEF JobInv, Active, Waiting
<1> QED BY <1>2, <1>3

LEMMA SelectedFree ==
    ASSUME NEW j \in Jobs, SelectAccount(j), DOMAIN email = Jobs, AutoAccount, ~Goto(j, "failed")
    PROVE  \E a \in Accounts : email'[j] = a
BY SMT DEF SelectAccount

LEMMA Selected ==
    ASSUME BatchTypeOK, NEW j \in Jobs, SelectAccount(j)
    PROVE  (pc'[j] = "client" /\ email'[j] \in Accounts) \/ pc'[j] = "failed"
<1>1. DOMAIN email = Jobs /\ DOMAIN pc = Jobs /\ (~AutoAccount => fixed \in Accounts)
  BY DEF BatchTypeOK, AutoAccount
<1>2. CASE Goto(j, "failed") BY <1>1, <1>2 DEF Goto
<1>3. CASE ~Goto(j, "failed") /\ AutoAccount
  <2>1. \E a \in Accounts : email'[j] = a BY <1>1, <1>3, SelectedFree
  <2>2. Goto(j, "client") BY <1>3 DEF SelectAccount
  <2> QED BY <1>1, <2>1, <2>2 DEF Goto
<1>4. CASE ~Goto(j, "failed") /\ ~AutoAccount
  <2>1. email'[j] = fixed /\ Goto(j, "client") BY <1>1, <1>4, SMT DEF SelectAccount
  <2> QED BY <1>1, <1>4, <2>1 DEF Goto
<1> QED BY <1>2, <1>3, <1>4

LEMMA OwnKept ==
    ASSUME BatchInv, NEW j \in Jobs, JobStep(j)
    PROVE  JobInv(j)' /\ landed' \in [Jobs -> Int]
<1>0. BatchTypeOK /\ JobInv(j) /\ landed \in [Jobs -> Int] BY DEF BatchInv
<1>1. CASE Start(j)
  BY <1>0, <1>1 DEF Start, JobInv, Active, Waiting, Goto, BatchTypeOK, cache, self, truth
<1>2. CASE SelectAccount(j)
  <2>1. (pc'[j] = "client" /\ email'[j] \in Accounts) \/ pc'[j] = "failed" BY <1>0, <1>2, Selected
  <2> QED BY <1>0, <1>2, <2>1 DEF SelectAccount, JobInv, Active, Waiting
<1>3. CASE Client(j)
  BY <1>0, <1>3 DEF Client, JobInv, Active, Waiting, Goto, BatchTypeOK, self, truth
<1>4. CASE Login(j)
  <2>1. pc'[j] \in {"target", "noclient", "escaped"}
    BY <1>0, <1>4, PcTyped DEF Login, Goto, BatchTypeOK
  <2> QED BY <1>0, <1>4, <2>1 DEF Login, JobInv, Active, Waiting, self
<1>5. CASE NoClient(j)
  BY <1>0, <1>5 DEF NoClient, JobInv, Active, Waiting, Goto, BatchTypeOK, truth
<1>6. CASE Target(j)
  <2>1. pc'[j] \in {"upload", "failed", "escaped"}
    BY <1>0, <1>6, PcTyped DEF Target, FailReleased, Goto, BatchTypeOK
  <2> QED BY <1>0, <1>6, <2>1 DEF Target, JobInv, Active, Waiting, self, truth
<1>7. CASE UploadFile(j)
  <2>1. \/ landed'[j] = 1 /\ pc'[j] \in {"finalize", "failed"}
        \/ landed' = landed /\ pc'[j] \in {"refresh", "failed"}
    BY <1>0, <1>7 DEF UploadFile, FailReleased, Goto, BatchTypeOK, JobInv, Active
  <2>2. landed' \in [Jobs -> Int] BY <1>0, <1>7 DEF UploadFile
  <2> QED BY <1>0, <1>7, <2>1, <2>2 DEF UploadFile, JobInv, Active, Waiting
<1>8. CASE UploadDirectory(j)
  <2>1. \/ landed'[j] = 1 /\ pc'[j] = "succeeded"
        \/ landed' = landed /\ pc'[j] \in {"refresh", "failed"}
    BY <1>0, <1>8 DEF UploadDirectory, Goto, BatchTypeOK, JobInv, Active
  <2>2. landed' \in [Jobs -> Int] BY <1>0, <1>8 DEF UploadDirectory
  <2> QED BY <1>0, <1>8, <2>1, <2>2 DEF UploadDirectory, JobInv, Active, Waiting, self
<1>9. CASE Finalize(j)
  BY <1>0, <1>9 DEF Finalize, FailReleased, JobInv, Active, Waiting, Goto, BatchTypeOK, self, truth
<1>10. CASE Refresh(j)
  <2>1. pc'[j] \in {"reconcile", "escaped"} BY <1>0, <1>10, PcTyped DEF Refresh, Goto, BatchTypeOK
  <2> QED BY <1>0, <1>10, <2>1 DEF Refresh, JobInv, Active, Waiting, truth
<1>11. CASE Reconcile(j)
  <2>1. pc'[j] \in {"failed", "select", "escaped"}
    BY <1>0, <1>11, PcTyped DEF Reconcile, Goto, BatchTypeOK
  <2> QED BY <1>0, <1>11, <2>1 DEF Reconcile, JobInv, Active, Waiting, self, truth
<1> QED BY <1>1, <1>2, <1>3, <1>4, <1>5, <1>6, <1>7, <1>8, <1>9, <1>10, <1>11 DEF JobStep

LEMMA NextBatch == BatchInv /\ [BatchNext]_batchVars => BatchInv'
<1>1. ASSUME BatchInv, NEW j \in Jobs, JobStep(j) PROVE BatchInv'
  <2>1. BatchTypeOK' BY <1>1, JobType
  <2>2. \A i \in Jobs : JobInv(i)' BY <1>1, OwnKept, OtherKept
  <2> QED BY <1>1, <2>1, <2>2, OwnKept, LoginKept DEF BatchInv
<1>2. ASSUME BatchInv, Cancel PROVE BatchInv'
  <2>0. BatchTypeOK /\ LoginInv /\ landed \in [Jobs -> Int] BY <1>2 DEF BatchInv
  <2>1. BatchTypeOK'
    BY <1>2, <2>0 DEF Cancel, BatchTypeOK, JobEnded, given, cache, self, truth
  <2>2. ASSUME NEW i \in Jobs PROVE JobInv(i)'
    <3>1. JobInv(i) /\ pc'[i] \in {pc[i], "cancelled"} BY <1>2 DEF BatchInv, Cancel
    <3> QED BY <1>2, <3>1 DEF Cancel, JobInv, Active, Waiting, cache, self, truth
  <2>3. LoginInv'
    BY <1>2, <2>0 DEF Cancel, LoginInv, BatchTypeOK, cache, truth, Waiting
  <2> QED BY <1>2, <2>0, <2>1, <2>2, <2>3 DEF BatchInv, Cancel, truth
<1>3. ASSUME BatchInv, Finish PROVE BatchInv'
  BY <1>3 DEF Finish, BatchInv, BatchTypeOK, JobInv, LoginInv, given, cache, self, truth
<1>4. ASSUME BatchInv, UNCHANGED batchVars PROVE BatchInv'
  BY <1>4 DEF batchVars, BatchInv, BatchTypeOK, JobInv, LoginInv
<1> QED BY <1>1, <1>2, <1>3, <1>4 DEF BatchNext

LEMMA BatchInvariance == BatchSpec => []BatchInv
BY InitBatch, NextBatch, PTL DEF BatchSpec

(* Type correctness, for any batch: in particular no balance of the ledger  *)
(* goes below nothing (upload_support.py:86-133).                           *)
THEOREM BatchTypeCorrect == BatchSpec => []BatchTypeOK
<1>1. BatchInv => BatchTypeOK BY DEF BatchInv
<1> QED BY <1>1, BatchInvariance, PTL

(* A file is stored at most once, whatever accounts the job tries, and a    *)
(* job that counts as succeeded has stored it, for any batch.               *)
THEOREM FilesStoredOnce == BatchSpec => []StoredOnce
<1>1. BatchInv => StoredOnce BY DEF BatchInv, JobInv, StoredOnce
<1> QED BY <1>1, BatchInvariance, PTL

(* No account is logged in to twice (upload_cmd.py:281-285), for any number *)
(* of jobs, accounts and threads.                                           *)
THEOREM LoginsAreOnce == BatchSpec => []OneLoginEach
<1>1. BatchInv => OneLoginEach BY DEF BatchInv, LoginInv, OneLoginEach
<1> QED BY <1>1, BatchInvariance, PTL

-----------------------------------------------------------------------------
(* Sums over sets of jobs *)

\* The fold of MapThenSumSet: which job it takes next, the recursion it stands for over the
\* subsets of a set, the function that solves it, and the sum itself.
Pick(s) == CHOOSE x \in s : TRUE
Adds(g, S) == g = [s \in SUBSET S |-> IF s = {} THEN 0
                                      ELSE LET x == CHOOSE x \in s : TRUE
                                           IN  Sizes[x] + g[s \ {x}]]
Adder(S) == CHOOSE g : Adds(g, S)
Sum(S) == Adder(S)[S]

\* The fold of the model is this sum.
LEMMA SumIs == ASSUME NEW S PROVE MapThenSumSet(LAMBDA j : Sizes[j], S) = Sum(S)
  BY DEF MapThenSumSet, MapThenFoldSet, Sum, Adder, Adds

\* Of numbers, one is the smallest.
LEMMA SmallestNumber ==
    ASSUME NEW I \in SUBSET Nat, I # {}
    PROVE  \E x \in I : \A y \in I : x <= y
<1>1. PICK x \in I : \A y \in I : ~(<<y, x>> \in OpToRel(<, Nat))
  <2>1. IsWellFoundedOn(OpToRel(<, Nat), Nat) BY NatLessThanWellFounded
  <2> QED BY <2>1, WFMin, Zenon
<1>2. ASSUME NEW y \in I PROVE x <= y
  <2>1. ~(y < x) BY <1>1 DEF OpToRel
  <2> QED BY <2>1
<1> QED BY <1>2

\* Of finite sets, one holds no other.
LEMMA SmallestSet ==
    ASSUME NEW B, B # {}, \A s \in B : IsFiniteSet(s)
    PROVE  \E s \in B : \A t \in SUBSET s : t # s => t \notin B
<1> DEFINE I == {Cardinality(s) : s \in B}
<1>1. I \in SUBSET Nat /\ I # {} BY FS_CardinalityType
<1>2. PICK n \in I : \A m \in I : n <= m BY <1>1, SmallestNumber
<1>3. PICK s \in B : n = Cardinality(s) BY <1>2
<1>4. ASSUME NEW t \in SUBSET s, t # s, t \in B PROVE FALSE
  <2>1. IsFiniteSet(s) /\ Cardinality(s) \in Nat /\ Cardinality(t) \in Nat
    BY <1>4, FS_CardinalityType
  <2>2. Cardinality(t) <= Cardinality(s) /\ Cardinality(t) # Cardinality(s) BY <2>1, <1>4, FS_Subset
  <2>3. Cardinality(s) <= Cardinality(t) BY <1>2, <1>3, <1>4
  <2> QED BY <2>1, <2>2, <2>3
<1> QED BY <1>3, <1>4

\* What the fold says of one set.
LEMMA AddsAt ==
    ASSUME NEW S, NEW g, Adds(g, S), NEW s \in SUBSET S
    PROVE  /\ s = {} => g[s] = 0
           /\ s # {} => Pick(s) \in s /\ g[s] = Sizes[Pick(s)] + g[s \ {Pick(s)}]
<1>1. g[s] = IF s = {} THEN 0 ELSE LET x == CHOOSE x \in s : TRUE IN Sizes[x] + g[s \ {x}]
  BY Zenon DEF Adds
<1> QED BY <1>1 DEF Pick

\* Two solutions agree wherever both are defined.
LEMMA AddersAgree ==
    ASSUME NEW S, NEW T \in SUBSET S, IsFiniteSet(S), NEW g, NEW h, Adds(g, S), Adds(h, T),
           NEW s \in SUBSET T
    PROVE  g[s] = h[s]
<1> DEFINE B == {t \in SUBSET T : g[t] # h[t]}
<1> SUFFICES ASSUME B # {} PROVE FALSE OBVIOUS
<1>1. \A t \in B : IsFiniteSet(t) BY FS_Subset
<1>2. PICK t \in B : \A u \in SUBSET t : u # t => u \notin B BY <1>1, SmallestSet
<1>3. t \in SUBSET T /\ t \in SUBSET S /\ g[t] # h[t] BY <1>2
<1>4. CASE t = {} BY <1>3, <1>4, AddsAt
<1>5. CASE t # {}
  <2>1. Pick(t) \in t /\ g[t] = Sizes[Pick(t)] + g[t \ {Pick(t)}]
        /\ h[t] = Sizes[Pick(t)] + h[t \ {Pick(t)}]
    BY <1>3, <1>5, AddsAt
  <2>2. t \ {Pick(t)} \in SUBSET T /\ t \ {Pick(t)} \in SUBSET t /\ t \ {Pick(t)} # t
    BY <2>1, <1>3
  <2>3. g[t \ {Pick(t)}] = h[t \ {Pick(t)}] BY <2>2, <1>2
  <2> QED BY <2>1, <2>3, <1>3
<1> QED BY <1>4, <1>5

\* The recursion has a solution over every finite set.
LEMMA AdderAdds == ASSUME NEW S, IsFiniteSet(S) PROVE Adds(Adder(S), S)
<1> DEFINE B == {s \in SUBSET S : ~Adds(Adder(s), s)}
<1> SUFFICES ASSUME B # {} PROVE FALSE OBVIOUS
<1>1. \A t \in B : IsFiniteSet(t) BY FS_Subset
<1>2. PICK s \in B : \A t \in SUBSET s : t # s => t \notin B BY <1>1, SmallestSet
<1>3. s \in SUBSET S /\ IsFiniteSet(s) /\ ~Adds(Adder(s), s) BY <1>1, <1>2
<1>4. \A t \in SUBSET s : t # s => Adds(Adder(t), t) /\ IsFiniteSet(t)
  <2>1. \A t \in SUBSET s : t # s => Adds(Adder(t), t) BY <1>2, <1>3
  <2>2. \A t \in SUBSET s : IsFiniteSet(t) BY <1>3, FS_Subset
  <2> QED BY <2>1, <2>2
<1> DEFINE g == [t \in SUBSET s |-> IF t = {} THEN 0
                                    ELSE Sizes[Pick(t)] + Sum(t \ {Pick(t)})]
<1>5. ASSUME NEW t \in SUBSET s, t # s PROVE g[t] = Sum(t)
  <2>0. Adds(Adder(t), t) /\ IsFiniteSet(t) /\ t \in SUBSET t BY <1>4, <1>5
  <2>1. CASE t = {}
    <3>1. Adder(t)[t] = 0 BY <2>0, <2>1, AddsAt
    <3>2. g[t] = 0 BY <2>1
    <3> QED BY <3>1, <3>2 DEF Sum
  <2>2. CASE t # {}
    <3> DEFINE u == t \ {Pick(t)}
    <3>1. Pick(t) \in t /\ Adder(t)[t] = Sizes[Pick(t)] + Adder(t)[u]
      BY <2>0, <2>2, AddsAt
    <3>2. u \in SUBSET t /\ u \in SUBSET u /\ u \in SUBSET s /\ u # s BY <3>1, <1>5
    <3>3. Adds(Adder(u), u) BY <3>2, <1>4
    <3>4. Adder(t)[u] = Adder(u)[u]
      <4> HIDE DEF u
      <4> QED BY <2>0, <3>2, <3>3, AddersAgree
    <3>5. g[t] = Sizes[Pick(t)] + Sum(u) BY <2>2
    <3> QED BY <3>1, <3>4, <3>5 DEF Sum
  <2> QED BY <2>1, <2>2
<1>6. ASSUME NEW t \in SUBSET s, t # {}
      PROVE  LET x == CHOOSE x \in t : TRUE
             IN  Sizes[Pick(t)] + Sum(t \ {Pick(t)}) = Sizes[x] + g[t \ {x}]
  <2>1. Pick(t) \in t BY <1>6 DEF Pick
  <2>2. t \ {Pick(t)} \in SUBSET s /\ t \ {Pick(t)} # s BY <2>1
  <2>3. g[t \ {Pick(t)}] = Sum(t \ {Pick(t)}) BY <2>2, <1>5
  <2> QED BY <2>3 DEF Pick
<1>7. g = [t \in SUBSET s |-> IF t = {} THEN 0
                              ELSE LET x == CHOOSE x \in t : TRUE IN Sizes[x] + g[t \ {x}]]
  <2> DEFINE e(t) == IF t = {} THEN 0
                     ELSE LET x == CHOOSE x \in t : TRUE IN Sizes[x] + g[t \ {x}]
  <2> DEFINE d(t) == IF t = {} THEN 0 ELSE Sizes[Pick(t)] + Sum(t \ {Pick(t)})
  <2>1. \A t \in SUBSET s : d(t) = e(t) BY <1>6
  <2>2. g = [t \in SUBSET s |-> d(t)] OBVIOUS
  <2>3. [t \in SUBSET s |-> d(t)] = [t \in SUBSET s |-> e(t)]
    <3> HIDE DEF d, e
    <3> QED BY <2>1
  <2> QED BY <2>2, <2>3
<1>8. Adds(g, s) BY <1>7, Zenon DEF Adds
<1> HIDE DEF g
<1> QED BY <1>8, <1>3, Zenon DEF Adder

\* The sum over a set, and over it without one of its jobs.
LEMMA SumStep ==
    ASSUME NEW s, IsFiniteSet(s)
    PROVE  /\ s = {} => Sum(s) = 0
           /\ s # {} => Pick(s) \in s /\ Sum(s) = Sizes[Pick(s)] + Sum(s \ {Pick(s)})
<1>1. Adds(Adder(s), s) /\ s \in SUBSET s BY AdderAdds
<1>2. CASE s = {} BY <1>1, <1>2, AddsAt DEF Sum
<1>3. CASE s # {}
  <2> DEFINE u == s \ {Pick(s)}
  <2>1. Pick(s) \in s /\ Adder(s)[s] = Sizes[Pick(s)] + Adder(s)[u] BY <1>1, <1>3, AddsAt
  <2>2. u \in SUBSET s /\ IsFiniteSet(u) /\ u \in SUBSET u BY FS_Subset
  <2>3. Adds(Adder(u), u) BY <2>2, AdderAdds
  <2>4. Adder(s)[u] = Adder(u)[u]
    <3> HIDE DEF u
    <3> QED BY <1>1, <2>2, <2>3, AddersAgree
  <2> QED BY <2>1, <2>4 DEF Sum
<1> QED BY <1>2, <1>3

LEMMA JobsFinite == IsFiniteSet(Jobs)
<1>1. Sizes \in Seq(Nat) BY BatchAssumption
<1>2. Jobs = 1 .. Len(Sizes) /\ Len(Sizes) \in Nat BY <1>1 DEF Jobs
<1>3. IsFiniteSet(1 .. Len(Sizes)) BY <1>2, FS_Interval
<1> QED BY <1>2, <1>3

LEMMA SumIsNat == ASSUME NEW s \in SUBSET Jobs PROVE Sum(s) \in Nat
<1> DEFINE B == {t \in SUBSET Jobs : Sum(t) \notin Nat}
<1> SUFFICES ASSUME B # {} PROVE FALSE OBVIOUS
<1>1. \A t \in SUBSET Jobs : IsFiniteSet(t) BY JobsFinite, FS_Subset
<1>2. PICK t \in B : \A u \in SUBSET t : u # t => u \notin B BY <1>1, SmallestSet
<1>3. t \in SUBSET Jobs /\ Sum(t) \notin Nat /\ IsFiniteSet(t) BY <1>1, <1>2
<1>4. t # {} /\ Pick(t) \in t /\ Sum(t) = Sizes[Pick(t)] + Sum(t \ {Pick(t)})
  <2>1. t = {} => Sum(t) = 0 BY <1>3, SumStep
  <2>2. t # {} BY <2>1, <1>3
  <2> QED BY <2>2, <1>3, SumStep
<1>5. Sizes[Pick(t)] \in Nat BY <1>3, <1>4, SizesAreNat
<1>6. t \ {Pick(t)} \in SUBSET Jobs /\ t \ {Pick(t)} \in SUBSET t /\ t \ {Pick(t)} # t
  BY <1>3, <1>4
<1>7. Sum(t \ {Pick(t)}) \in Nat BY <1>2, <1>6
<1> QED BY <1>3, <1>4, <1>5, <1>7

\* Whichever job is left out, the sum is less by its size.
LEMMA SumWithout ==
    ASSUME NEW s \in SUBSET Jobs, NEW j \in s
    PROVE  Sum(s) = Sizes[j] + Sum(s \ {j})
<1> DEFINE B == {t \in SUBSET Jobs : \E i \in t : Sum(t) # Sizes[i] + Sum(t \ {i})}
<1> SUFFICES ASSUME B # {} PROVE FALSE OBVIOUS
<1>1. \A t \in SUBSET Jobs : IsFiniteSet(t) BY JobsFinite, FS_Subset
<1>2. PICK t \in B : \A u \in SUBSET t : u # t => u \notin B BY <1>1, SmallestSet
<1>3. t \in SUBSET Jobs /\ IsFiniteSet(t) BY <1>1, <1>2
<1>4. PICK i \in t : Sum(t) # Sizes[i] + Sum(t \ {i}) BY <1>2
<1>5. PICK k \in t : k = Pick(t) /\ Sum(t) = Sizes[k] + Sum(t \ {k}) BY <1>3, <1>4, SumStep
<1>6. i # k BY <1>4, <1>5
<1>7. /\ t \ {k} \in SUBSET Jobs /\ t \ {k} \in SUBSET t /\ t \ {k} # t /\ i \in t \ {k}
      /\ t \ {i} \in SUBSET Jobs /\ t \ {i} \in SUBSET t /\ t \ {i} # t /\ k \in t \ {i}
      /\ (t \ {k}) \ {i} = (t \ {i}) \ {k} /\ (t \ {k}) \ {i} \in SUBSET Jobs
  BY <1>3, <1>4, <1>5, <1>6
<1>8. Sum(t \ {k}) = Sizes[i] + Sum((t \ {k}) \ {i}) BY <1>2, <1>7
<1>9. Sum(t \ {i}) = Sizes[k] + Sum((t \ {k}) \ {i})
  <2>1. Sum(t \ {i}) = Sizes[k] + Sum((t \ {i}) \ {k}) BY <1>2, <1>7
  <2> QED BY <2>1, <1>7
<1>10. Sizes[i] \in Nat /\ Sizes[k] \in Nat /\ Sum((t \ {k}) \ {i}) \in Nat
  BY <1>3, <1>4, <1>5, <1>7, SizesAreNat, SumIsNat
<1> QED BY <1>4, <1>5, <1>8, <1>9, <1>10

-----------------------------------------------------------------------------

\* A step of a job moves its reservation and the balance of an account together.
Holds(j, a) ==
    /\ email[j] = a
    /\ pc[j] \in {"client", "login", "noclient", "target", "upload", "finalize", "succeeded"}

Books(j, a) ==
    \/ (Holds(j, a)' <=> Holds(j, a)) /\ ledger'[a] <= ledger[a]
    \/ ~Holds(j, a) /\ Holds(j, a)' /\ ledger'[a] = ledger[a] - Sizes[j]
    \/ Holds(j, a) /\ ~Holds(j, a)' /\ ledger'[a] <= ledger[a] + Sizes[j]

\* What gives a reservation back, and what only drops it.
LEMMA GivesBack ==
    ASSUME BatchTypeOK, AutoAccount, NEW j \in Jobs, NEW a \in Accounts, Released(j),
           email' = email, email[j] \in Accounts,
           pc[j] \in {"noclient", "target", "upload", "finalize"}, NEW s \in {"select", "failed"},
           Goto(j, s)
    PROVE  Books(j, a)
<1>1. ledger' = [ledger EXCEPT ![email[j]] = @ + Sizes[j]] /\ pc'[j] = s
      /\ ledger \in [Accounts -> Nat]
  BY DEF Released, Goto, BatchTypeOK
<1>2. ~Holds(j, a)' BY <1>1 DEF Holds
<1>3. CASE email[j] = a
  <2>1. Holds(j, a) BY <1>3 DEF Holds
  <2>2. ledger'[a] = ledger[a] + Sizes[j] BY <1>1, <1>3
  <2>3. ledger'[a] <= ledger[a] + Sizes[j] BY <2>2, <1>1, SizesAreNat
  <2> QED BY <1>2, <2>1, <2>3 DEF Books
<1>4. CASE email[j] # a
  <2>1. ~Holds(j, a) /\ ledger'[a] = ledger[a] BY <1>1, <1>4 DEF Holds
  <2>2. ledger'[a] <= ledger[a] BY <2>1, <1>1
  <2> QED BY <1>2, <2>1, <2>2 DEF Books
<1> QED BY <1>3, <1>4

LEMMA LeavesAlone ==
    ASSUME BatchTypeOK, BatchTypeOK', NEW j \in Jobs, NEW a \in Accounts, ledger'[a] <= ledger[a],
           Holds(j, a)' => Holds(j, a)
    PROVE  Books(j, a)
<1>1. ledger[a] \in Nat /\ ledger'[a] \in Nat /\ Sizes[j] \in Nat BY SizesAreNat DEF BatchTypeOK
<1>2. CASE Holds(j, a)' BY <1>2 DEF Books
<1>3. CASE ~Holds(j, a)' /\ ~Holds(j, a) BY <1>3 DEF Books
<1>4. CASE ~Holds(j, a)' /\ Holds(j, a)
  <2>1. ledger[a] <= ledger[a] + Sizes[j] BY <1>1
  <2>2. ledger'[a] <= ledger[a] + Sizes[j] BY <1>1, <2>1
  <2> QED BY <2>2, <1>4 DEF Books
<1> QED BY <1>2, <1>3, <1>4

LEMMA EscapeEnds == ASSUME BatchTypeOK, NEW j \in Jobs, Escape(j), NEW a PROVE ~Holds(j, a)'
<1>1. pc'[j] = "escaped" BY PcTyped
<1> QED BY <1>1 DEF Holds

LEMMA SelectBooks ==
    ASSUME BatchTypeOK, BatchTypeOK', AutoAccount, NEW j \in Jobs, NEW a \in Accounts, SelectAccount(j)
    PROVE  Books(j, a)
<1>1. pc[j] = "select" /\ ~Holds(j, a) /\ ledger \in [Accounts -> Nat]
      /\ email \in [Jobs -> Accounts \cup {NoAccount}] /\ DOMAIN pc = Jobs
  BY DEF SelectAccount, Holds, BatchTypeOK
<1>2. CASE \E b \in Accounts : /\ Reserved(j, b) /\ email' = [email EXCEPT ![j] = b]
                               /\ Goto(j, "client")
  <2>1. PICK b \in Accounts : /\ ledger' = [ledger EXCEPT ![b] = @ - Sizes[j]]
                              /\ email' = [email EXCEPT ![j] = b]
                              /\ pc' = [pc EXCEPT ![j] = "client"]
    BY <1>2 DEF Reserved, Goto
  <2>2. email'[j] = b /\ pc'[j] = "client" BY <2>1, <1>1
  <2>3. CASE b = a
    <3>1. Holds(j, a)' BY <2>2, <2>3 DEF Holds
    <3>2. ledger'[a] = ledger[a] - Sizes[j] BY <2>1, <2>3, <1>1
    <3> QED BY <3>1, <3>2, <1>1 DEF Books
  <2>4. CASE b # a
    <3>1. ~Holds(j, a)' BY <2>2, <2>4 DEF Holds
    <3>2. ledger'[a] <= ledger[a] BY <2>1, <2>4, <1>1
    <3> QED BY <3>1, <3>2, LeavesAlone
  <2> QED BY <2>3, <2>4
<1>3. CASE Goto(j, "failed") /\ UNCHANGED ledger
  <2>1. ~Holds(j, a)' BY <1>3, <1>1 DEF Goto, Holds
  <2>2. ledger'[a] <= ledger[a] BY <1>3, <1>1
  <2> QED BY <2>1, <2>2, LeavesAlone
<1> QED BY <1>2, <1>3 DEF SelectAccount

LEMMA JobBooks ==
    ASSUME BatchInv, BatchTypeOK', AutoAccount, NEW j \in Jobs, NEW a \in Accounts, JobStep(j)
    PROVE  Books(j, a)
<1>0. BatchTypeOK /\ JobInv(j) /\ ledger \in [Accounts -> Nat] /\ DOMAIN pc = Jobs
      /\ ledger[a] \in Nat
  BY DEF BatchInv, BatchTypeOK
<1>k. ASSUME UNCHANGED ledger, Holds(j, a)' => Holds(j, a) PROVE Books(j, a)
  <2>1. ledger'[a] <= ledger[a] BY <1>0, <1>k
  <2> QED BY <2>1, <1>0, <1>k, LeavesAlone
<1>r. ASSUME email' = email, Released(j), NEW s \in {"select", "failed"}, Goto(j, s),
             pc[j] \in {"noclient", "target", "upload", "finalize"}
      PROVE  Books(j, a)
  <2>1. email[j] \in Accounts BY <1>0, <1>r DEF JobInv, Active
  <2> QED BY <2>1, <1>0, <1>r, GivesBack
<1>1. CASE Start(j)
  <2>1. UNCHANGED <<ledger, email>> /\ pc'[j] = "select" BY <1>0, <1>1 DEF Start, Goto, self
  <2> QED BY <2>1, <1>k DEF Holds
<1>2. CASE SelectAccount(j) BY <1>0, <1>2, SelectBooks
<1>3. CASE Client(j)
  <2>1. UNCHANGED <<ledger, email>> /\ pc[j] = "client" BY <1>3 DEF Client, self
  <2> QED BY <2>1, <1>k DEF Holds
<1>4. CASE Login(j)
  <2>1. UNCHANGED <<ledger, email>> /\ pc[j] = "login" BY <1>4 DEF Login, self
  <2> QED BY <2>1, <1>k DEF Holds
<1>5. CASE NoClient(j) BY <1>5, <1>r DEF NoClient
<1>6. CASE Target(j)
  <2>1. email' = email /\ pc[j] = "target" BY <1>6 DEF Target, self
  <2>2. CASE FailReleased(j) BY <2>1, <2>2, <1>r DEF FailReleased
  <2>3. CASE UNCHANGED ledger BY <2>1, <2>3, <1>k DEF Holds
  <2> QED BY <1>6, <2>2, <2>3 DEF Target
<1>7. CASE UploadFile(j)
  <2>1. email' = email /\ pc[j] = "upload" BY <1>7 DEF UploadFile
  <2>2. CASE FailReleased(j) BY <2>1, <2>2, <1>r DEF FailReleased
  <2>3. CASE UNCHANGED ledger BY <2>1, <2>3, <1>k DEF Holds
  <2> QED BY <1>7, <2>2, <2>3 DEF UploadFile
<1>8. CASE UploadDirectory(j)
  <2>1. UNCHANGED <<ledger, email>> /\ pc[j] = "upload" BY <1>8 DEF UploadDirectory, self
  <2> QED BY <2>1, <1>k DEF Holds
<1>9. CASE Finalize(j)
  <2>1. email' = email /\ pc[j] = "finalize" BY <1>9 DEF Finalize, self
  <2>2. CASE FailReleased(j) BY <2>1, <2>2, <1>r DEF FailReleased
  <2>3. CASE UNCHANGED ledger BY <2>1, <2>3, <1>k DEF Holds
  <2> QED BY <1>9, <2>2, <2>3 DEF Finalize
<1>10. CASE Refresh(j)
  <2>1. UNCHANGED <<ledger, email>> BY <1>10 DEF Refresh
  <2>2. pc'[j] \in {"reconcile", "escaped"} BY <1>0, <1>10, PcTyped DEF Refresh, Goto
  <2> QED BY <2>1, <2>2, <1>k DEF Holds
<1>11. CASE Reconcile(j)
  <2>1. pc'[j] \in {"failed", "select", "escaped"} BY <1>0, <1>11, PcTyped DEF Reconcile, Goto
  <2>2. ~Holds(j, a)' BY <2>1 DEF Holds
  <2>3. ledger' = [ledger EXCEPT ![email[j]] = IF live[j] < @ THEN live[j] ELSE @]
        /\ live[j] \in Nat
    BY <1>0, <1>11 DEF Reconcile, Reconciled, BatchTypeOK
  <2>4. ledger'[a] <= ledger[a] BY <1>0, <2>3
  <2> QED BY <2>2, <2>4, <1>0, LeavesAlone
<1> QED BY <1>1, <1>2, <1>3, <1>4, <1>5, <1>6, <1>7, <1>8, <1>9, <1>10, <1>11 DEF JobStep

-----------------------------------------------------------------------------
(* What is promised of an account stays within what was known of it. *)

Within(a) == Sum(Reserving(a)) + ledger[a] <= Known[a]
Balanced == AutoAccount => \A a \in Accounts : Within(a)

LEMMA HoldingIs ==
    ASSUME NEW a PROVE /\ Reserving(a) = {j \in Jobs : Holds(j, a)}
                       /\ Reserving(a)' = {j \in Jobs : Holds(j, a)'}
                       /\ Reserving(a) \in SUBSET Jobs
BY DEF Reserving, Holds

LEMMA HeldByOthers ==
    ASSUME BatchInv, NEW j \in Jobs, JobStep(j), NEW i \in Jobs, i # j, NEW a
    PROVE  Holds(i, a)' <=> Holds(i, a)
BY OtherJobs DEF Holds, Waiting

LEMMA StepWithin ==
    ASSUME BatchInv, BatchTypeOK', AutoAccount, NEW j \in Jobs, JobStep(j), NEW a \in Accounts, Within(a)
    PROVE  Within(a)'
<1> DEFINE H == Reserving(a)
<1> DEFINE K == Reserving(a)'
<1>0. ledger[a] \in Nat /\ ledger'[a] \in Nat /\ Known[a] \in Nat /\ Sizes[j] \in Nat
  BY SizesAreNat, BatchAssumption DEF BatchInv, BatchTypeOK
<1>1. H \in SUBSET Jobs /\ K \in SUBSET Jobs /\ Sum(H) \in Nat /\ Sum(K) \in Nat
  <2>1. H \in SUBSET Jobs /\ K \in SUBSET Jobs BY HoldingIs
  <2> HIDE DEF H, K
  <2> QED BY <2>1, SumIsNat
<1>2. Within(a)' <=> Sum(K) + ledger'[a] <= Known[a] BY DEF Within
<1>3. Sum(H) + ledger[a] <= Known[a] BY DEF Within
<1>4. \A i \in Jobs : i # j => (i \in K <=> i \in H) BY HoldingIs, HeldByOthers
<1>5. (j \in H <=> Holds(j, a)) /\ (j \in K <=> Holds(j, a)') BY HoldingIs
<1>6. Books(j, a) BY JobBooks
<1> HIDE DEF H, K
<1>7. CASE (j \in K <=> j \in H) /\ ledger'[a] <= ledger[a]
  <2>1. K = H BY <1>1, <1>4, <1>7
  <2> QED BY <2>1, <1>0, <1>1, <1>2, <1>3, <1>7
<1>8. CASE j \notin H /\ j \in K /\ ledger'[a] = ledger[a] - Sizes[j]
  <2>1. H = K \ {j} BY <1>1, <1>4, <1>8
  <2>2. Sum(K) = Sizes[j] + Sum(H) BY <2>1, <1>1, <1>8, SumWithout
  <2> QED BY <2>2, <1>0, <1>1, <1>2, <1>3, <1>8
<1>9. CASE j \in H /\ j \notin K /\ ledger'[a] <= ledger[a] + Sizes[j]
  <2>1. K = H \ {j} BY <1>1, <1>4, <1>9
  <2>2. Sum(H) = Sizes[j] + Sum(K) BY <2>1, <1>1, <1>9, SumWithout
  <2> QED BY <2>2, <1>0, <1>1, <1>2, <1>3, <1>9
<1> QED BY <1>5, <1>6, <1>7, <1>8, <1>9 DEF Books

LEMMA StillWithin ==
    ASSUME UNCHANGED <<ledger, email>>,
           \A j \in Jobs : pc'[j] # pc[j] => pc[j] = Waiting /\ pc'[j] = "cancelled",
           NEW a, Within(a)
    PROVE  Within(a)'
<1>1. \A j \in Jobs : Holds(j, a)' <=> Holds(j, a) BY DEF Holds, Waiting
<1>2. Reserving(a)' = Reserving(a) BY <1>1, HoldingIs
<1> QED BY <1>2 DEF Within

LEMMA InitBalanced == BatchInit => Balanced
<1> SUFFICES ASSUME BatchInit, NEW a \in Accounts PROVE Within(a) BY DEF Balanced
<1>1. Reserving(a) = {} BY DEF BatchInit, Reserving, Waiting
<1>2. Sum({}) = 0 BY SumStep, FS_EmptySet
<1>3. ledger[a] = Known[a] /\ Known[a] \in Nat BY BatchAssumption DEF BatchInit
<1> QED BY <1>1, <1>2, <1>3 DEF Within

LEMMA NextBalanced ==
    BatchInv /\ BatchInv' /\ Balanced /\ [BatchNext]_batchVars => Balanced'
<1> SUFFICES ASSUME BatchInv, BatchInv', Balanced, [BatchNext]_batchVars, AutoAccount',
                    NEW a \in Accounts
             PROVE  Within(a)'
  BY DEF Balanced
<1>1. UNCHANGED fixed
  BY DEF BatchNext, batchVars, given, JobStep, Start, SelectAccount, Client, Login, NoClient,
         Target, UploadFile, UploadDirectory, Finalize, Refresh, Reconcile, Cancel, Finish
<1>2. AutoAccount /\ Within(a) BY <1>1 DEF Balanced, AutoAccount
<1>3. CASE \E j \in Jobs : JobStep(j) BY <1>2, <1>3, StepWithin DEF BatchInv
<1>4. CASE Cancel
  <2>1. UNCHANGED <<ledger, email>>
        /\ \A j \in Jobs : pc'[j] # pc[j] => pc[j] = Waiting /\ pc'[j] = "cancelled"
    BY <1>4 DEF Cancel, self
  <2> QED BY <2>1, <1>2, StillWithin
<1>5. CASE Finish \/ UNCHANGED batchVars
  <2>1. UNCHANGED <<ledger, email, pc>> BY <1>5 DEF Finish, batchVars, self
  <2> QED BY <2>1, <1>2, StillWithin
<1> QED BY <1>3, <1>4, <1>5 DEF BatchNext

(* --auto-account never promises more of an account than was known to be    *)
(* free (upload_support.py:101-104), for any files, accounts, quotas, threads  *)
(* and failures.                                                            *)
THEOREM LedgerKept == BatchSpec => []NeverOvercommitted
<1>1. Balanced => NeverOvercommitted
  <2>1. \A a \in Accounts :
           MapThenSumSet(LAMBDA j : Sizes[j], Reserving(a)) = Sum(Reserving(a))
    BY SumIs
  <2> QED BY <2>1 DEF Balanced, NeverOvercommitted, Within
<1>2. BatchInit => Balanced BY InitBalanced
<1>3. BatchInv /\ BatchInv' /\ Balanced /\ [BatchNext]_batchVars => Balanced' BY NextBalanced
<1> QED BY <1>1, <1>2, <1>3, BatchInvariance, PTL DEF BatchSpec

-----------------------------------------------------------------------------
(* The batch of downloads *)

Jobless == {i \in DOMAIN links : links[i].sort = "none"}
Failures == Jobless \cup {i \in counted : links[i].is = "failed"}
LinkStates == [sort : {"none", "file", "node", "folder"}, is : {"waiting", "running"} \cup EndedAs]

\* A link that is no job has failed; only a command that was broken off loses one.
LinksInv ==
    /\ links \in Seq(LinkStates)
    /\ \A i \in DOMAIN links :
          /\ links[i].sort = "none" => links[i].is = "failed"
          /\ links[i].is = "lost" => stepNow = "raised"

\* What is counted is a job that has ended, and each failure is counted once.
CountInv ==
    /\ counted \subseteq {i \in DOMAIN links : links[i].sort # "none" /\ links[i].is \in EndedAs}
    /\ stepNow \in {"expand", "classify"} => counted = {}
    /\ failureCount = Cardinality(Failures)

\* What each step of the command leaves behind.
Past(steps) == stepNow \in steps
StepInv ==
    /\ Past({"expand", "classify", "file", "node", "folder", "report", "told", "raised"})
    /\ Past({"classify", "file", "node", "folder", "report", "told"}) => unparsed = <<>>
    /\ Past({"file", "node", "folder", "report", "told"})
          => expanded = <<>> /\ unusable = Cardinality(Jobless)
    /\ Past({"node", "folder", "report", "told"}) => Of("file") \subseteq counted
    /\ Past({"folder", "report", "told"}) => Of("node") \subseteq counted
    /\ Past({"report", "told"}) => Of("folder") \subseteq counted
    /\ Past({"told"}) => told = IF Attempted > 0 THEN <<Attempted - failureCount, failureCount>>
                               ELSE <<>>

ReportInv == LinksInv /\ CountInv /\ StepInv

-----------------------------------------------------------------------------

LEMMA SortsAre ==
    /\ DOMAIN Sorts = {1, 2, 3} /\ Len(Sorts) = 3
    /\ Sorts[1] = "file" /\ Sorts[2] = "node" /\ Sorts[3] = "folder"
    /\ \A k : IsSort(k) <=> k \in {"file", "node", "folder"}
<1>1. DOMAIN Sorts = 1 .. 3 /\ Len(Sorts) = 3
      /\ Sorts[1] = "file" /\ Sorts[2] = "node" /\ Sorts[3] = "folder"
  BY DEF Sorts
<1>2. 1 .. 3 = {1, 2, 3} OBVIOUS
<1> QED BY <1>1, <1>2 DEF IsSort

\* The tallies are of finite sets.
LEMMA TallyShape ==
    ASSUME LinksInv, CountInv
    PROVE  /\ Len(links) \in Nat /\ DOMAIN links = 1 .. Len(links)
           /\ IsFiniteSet(DOMAIN links) /\ Cardinality(DOMAIN links) = Len(links)
           /\ Jobless \subseteq DOMAIN links /\ Failures \subseteq DOMAIN links
           /\ IsFiniteSet(Jobless) /\ IsFiniteSet(Failures)
           /\ Cardinality(Jobless) \in Nat /\ failureCount \in Nat
<1>1. Len(links) \in Nat /\ DOMAIN links = 1 .. Len(links) BY LenProperties DEF LinksInv
<1>2. IsFiniteSet(1 .. Len(links)) /\ Cardinality(1 .. Len(links)) = Len(links)
  <2>1. IsFiniteSet(1 .. Len(links))
        /\ Cardinality(1 .. Len(links)) = IF 1 > Len(links) THEN 0 ELSE Len(links) - 1 + 1
    BY <1>1, FS_Interval
  <2> QED BY <2>1, <1>1
<1>3. Jobless \subseteq DOMAIN links /\ Failures \subseteq DOMAIN links
  BY DEF Jobless, Failures, CountInv
<1>4. IsFiniteSet(Jobless) /\ IsFiniteSet(Failures) BY <1>1, <1>2, <1>3, FS_Subset
<1>5. Cardinality(Jobless) \in Nat /\ Cardinality(Failures) \in Nat
  BY <1>4, FS_CardinalityType
<1> QED BY <1>1, <1>2, <1>3, <1>4, <1>5 DEF CountInv

-----------------------------------------------------------------------------

\* Reading the command line: at most one link is added, and what is past stays empty.
InputStep ==
    /\ stepNow \in {"expand", "classify"}
    /\ \/ NoJob
       \/ \E sort \in {"file", "node", "folder"} : Job(sort)
       \/ UNCHANGED <<links, failureCount>>
    /\ stepNow' \in {stepNow, "raised"}
    /\ stepNow = "classify" => unparsed' = unparsed
    /\ UNCHANGED <<counted, unusable>>

LEMMA BecomesAdds ==
    ASSUME NEW k, Becomes(k)
    PROVE  NoJob \/ \E sort \in {"file", "node", "folder"} : Job(sort)
<1>1. CASE IsSort(k)
  <2>1. k \in {"file", "node", "folder"} /\ Job(k) BY <1>1, SortsAre DEF Becomes
  <2> QED BY <2>1
<1>2. CASE ~IsSort(k) BY <1>2 DEF Becomes
<1> QED BY <1>1, <1>2

LEMMA ParseReads == ASSUME ParseLink PROVE InputStep
  BY DEF ParseLink, InputStep

LEMMA ClassifyReads == ASSUME ClassifyLink PROVE InputStep
<1>1. NoJob \/ \E k : Becomes(k) BY Zenon DEF ClassifyLink
<1>2. NoJob \/ \E sort \in {"file", "node", "folder"} : Job(sort) BY <1>1, BecomesAdds
<1> QED BY <1>2 DEF ClassifyLink, InputStep

LEMMA AskReads == ASSUME AskCrypter PROVE InputStep
  BY DEF AskCrypter, InputStep, tally

LEMMA CrypterReads ==
    ASSUME NEW a, CrypterAnswered(a)
    PROVE  /\ \/ NoJob
              \/ \E sort \in {"file", "node", "folder"} : Job(sort)
              \/ UNCHANGED <<links, failureCount>>
           /\ stepNow' \in {stepNow, "raised"} /\ unparsed' = unparsed
<1>1. unparsed' = unparsed BY DEF CrypterAnswered
<1>2. CASE stepNow' = "raised" /\ UNCHANGED <<links, failureCount>> BY <1>1, <1>2
<1>3. CASE NextMethod BY <1>1, <1>3 DEF NextMethod, Resolves
<1>4. CASE Resolves(Job("file")) BY <1>1, <1>4 DEF Resolves
<1>5. CASE \E k \in Kinds \ {"garbage"} : Resolves(Becomes(k))
  <2>1. PICK k \in Kinds : Resolves(Becomes(k)) BY <1>5
  <2> QED BY <2>1, <1>1, BecomesAdds DEF Resolves
<1> QED BY <1>2, <1>3, <1>4, <1>5 DEF CrypterAnswered

LEMMA HopReads == ASSUME NEW a, Hop(a) PROVE InputStep
<1>1. stepNow \in {"expand", "classify"} /\ UNCHANGED <<counted, unusable>> BY DEF Hop
<1>2. CASE UNCHANGED <<unparsed, expanded, links, failureCount, stepNow>>
  BY <1>1, <1>2 DEF InputStep
<1>3. CASE stepNow = "expand" /\ \E said : ElcAnswered(said)
  BY <1>1, <1>3 DEF InputStep, ElcAnswered
<1>4. CASE stepNow = "classify" /\ \E said : CrypterAnswered(said)
  BY <1>1, <1>4, CrypterReads DEF InputStep
<1>5. \/ UNCHANGED <<unparsed, expanded, links, failureCount, stepNow>>
      \/ stepNow = "expand" /\ \E said : ElcAnswered(said)
      \/ stepNow = "classify" /\ \E said : CrypterAnswered(said)
  BY <1>1 DEF Hop
<1> QED BY <1>2, <1>3, <1>4, <1>5

-----------------------------------------------------------------------------

LEMMA InputKeeps == ASSUME ReportInv, InputStep PROVE ReportInv'
<1> USE DEF ReportInv
<1>0. Len(links) \in Nat /\ DOMAIN links = 1 .. Len(links) /\ counted = {} /\ counted' = {}
      /\ Jobless \subseteq DOMAIN links /\ IsFiniteSet(Jobless) /\ Failures = Jobless
      /\ failureCount = Cardinality(Jobless)
  <2>1. counted = {} /\ counted' = {} BY DEF InputStep, CountInv
  <2>2. Failures = Jobless BY <2>1 DEF Failures
  <2> QED BY <2>1, <2>2, TallyShape DEF CountInv
<1>1. StepInv'
  BY DEF InputStep, StepInv, Past
<1>2. Failures' = Jobless'
  BY <1>0 DEF Failures
<1>3. CASE UNCHANGED <<links, failureCount>>
  <2>1. Jobless' = Jobless BY <1>3 DEF Jobless
  <2>2. LinksInv' BY <1>3 DEF LinksInv, InputStep
  <2>3. CountInv' BY <1>3, <1>0, <1>2, <2>1 DEF CountInv
  <2> QED BY <1>1, <2>2, <2>3
<1>4. ASSUME NEW sort \in {"none", "file", "node", "folder"},
             NEW is \in {"waiting", "failed"},
             links' = Append(links, Link(sort, is)), sort = "none" <=> is = "failed"
      PROVE  /\ LinksInv'
             /\ Jobless' = IF sort = "none" THEN Jobless \cup {Len(links) + 1} ELSE Jobless
             /\ (Len(links) + 1) \notin Jobless
  <2>1. Link(sort, is) \in LinkStates
    BY DEF Link, LinkStates, EndedAs
  <2>2. /\ links' \in Seq(LinkStates) /\ DOMAIN links' = 1 .. Len(links) + 1
        /\ links'[Len(links) + 1] = Link(sort, is)
        /\ \A i \in DOMAIN links : links'[i] = links[i]
    BY <2>1, <1>4, <1>0, AppendProperties DEF LinksInv
  <2>3. DOMAIN links' = DOMAIN links \cup {Len(links) + 1} /\ (Len(links) + 1) \notin DOMAIN links
    BY <2>2, <1>0
  <2>4. links'[Len(links) + 1].sort = sort /\ links'[Len(links) + 1].is = is
    BY <2>2 DEF Link
  <2>5. \A i \in DOMAIN links : links[i].is = "lost" => stepNow' = "raised"
    BY DEF LinksInv, InputStep
  <2>6. LinksInv' BY <2>2, <2>3, <2>4, <2>5, <1>4 DEF LinksInv
  <2>7. Jobless' = IF sort = "none" THEN Jobless \cup {Len(links) + 1} ELSE Jobless
    BY <2>2, <2>3, <2>4 DEF Jobless
  <2> QED BY <2>3, <2>6, <2>7, <1>0
<1>5. CASE NoJob
  <2>1. LinksInv' /\ Jobless' = Jobless \cup {Len(links) + 1} /\ (Len(links) + 1) \notin Jobless
    BY <1>5, <1>4 DEF NoJob
  <2>2. Cardinality(Jobless') = Cardinality(Jobless) + 1 BY <2>1, <1>0, FS_AddElement
  <2>3. CountInv' BY <2>2, <1>0, <1>2, <1>5 DEF CountInv, NoJob
  <2> QED BY <1>1, <2>1, <2>3
<1>6. ASSUME NEW sort \in {"file", "node", "folder"}, Job(sort) PROVE ReportInv'
  <2>1. LinksInv' /\ Jobless' = Jobless BY <1>6, <1>4 DEF Job
  <2>2. CountInv' BY <2>1, <1>0, <1>2, <1>6 DEF CountInv, Job
  <2> QED BY <1>1, <2>1, <2>2
<1> QED BY <1>3, <1>5, <1>6 DEF InputStep

-----------------------------------------------------------------------------

\* What a job at work becomes changes no tally: it has not been counted.
WorkStep(i, is) ==
    /\ i \in DOMAIN links /\ links[i].is \in {"waiting", "running"}
    /\ is \in {"running", "stored", "skipped", "failed"}
    /\ links' = [links EXCEPT ![i].is = is]
    /\ UNCHANGED <<input, tally, interrupted, stepNow, told>>

LEMMA StartWorks == ASSUME NEW i \in DOMAIN links, StartJob(i) PROVE \E is : WorkStep(i, is)
  BY DEF StartJob, WorkStep

LEMMA EndWorks == ASSUME NEW i \in DOMAIN links, EndJob(i) PROVE \E is : WorkStep(i, is)
<1>1. PICK is \in FileEnds \cup FolderEnds : links' = [links EXCEPT ![i].is = is]
  BY DEF EndJob
<1>2. is \in {"running", "stored", "skipped", "failed"} BY DEF FileEnds, FolderEnds
<1> QED BY <1>1, <1>2 DEF EndJob, WorkStep

\* Links that keep their sort keep their place in every account of the sorts.
LEMMA SameSorts ==
    ASSUME DOMAIN links' = DOMAIN links, \A e \in DOMAIN links : links'[e].sort = links[e].sort,
           unusable' = unusable
    PROVE  /\ \A sort : Of(sort)' = Of(sort)
           /\ Jobless' = Jobless /\ Attempted' = Attempted
<1>1. \A sort : Of(sort)' = Of(sort) BY DEF Of
<1>2. Jobless' = Jobless BY DEF Jobless
<1>3. {Of(Sorts[s]) : s \in DOMAIN Sorts}' = {Of(Sorts[s]) : s \in DOMAIN Sorts} BY <1>1
<1>4. Attempted' = Attempted BY <1>3 DEF Attempted
<1> QED BY <1>1, <1>2, <1>4

LEMMA JobKeeps == ASSUME ReportInv, NEW i, NEW is, WorkStep(i, is) PROVE ReportInv'
<1> USE DEF ReportInv
<1>1. /\ Len(links) \in Nat /\ DOMAIN links = 1 .. Len(links) /\ links \in Seq(LinkStates)
      /\ i \in DOMAIN links /\ links[i] \in LinkStates
  BY TallyShape DEF LinksInv, WorkStep
<1>2. /\ links' = [links EXCEPT ![i] = [links[i] EXCEPT !.is = is]]
      /\ [links[i] EXCEPT !.is = is] \in LinkStates
      /\ [links[i] EXCEPT !.is = is].sort = links[i].sort
      /\ [links[i] EXCEPT !.is = is].is = is
  BY <1>1 DEF WorkStep, LinkStates, EndedAs
<1>3. /\ links' \in Seq(LinkStates) /\ DOMAIN links' = DOMAIN links
      /\ \A e \in DOMAIN links : e # i => links'[e] = links[e]
      /\ links'[i].sort = links[i].sort /\ links'[i].is = is
  <2> DEFINE x == [links[i] EXCEPT !.is = is]
  <2>1. links' = [links EXCEPT ![i] = x] /\ x \in LinkStates BY <1>2
  <2>2. links'[i] = x /\ DOMAIN links' = DOMAIN links
        /\ \A e \in DOMAIN links : e # i => links'[e] = links[e]
    <3> HIDE DEF x
    <3> QED BY <2>1, <1>1
  <2>3. links' \in Seq(LinkStates)
    <3> HIDE DEF x
    <3> QED BY <2>1, <1>1, ExceptSeq
  <2> QED BY <2>2, <2>3, <1>2
<1>4. \A e \in DOMAIN links : links'[e].sort = links[e].sort BY <1>3
<1>5. UNCHANGED <<unparsed, expanded, counted, failureCount, unusable, stepNow, told>>
  BY DEF WorkStep, input, tally
<1>6. (\A sort : Of(sort)' = Of(sort)) /\ Jobless' = Jobless /\ Attempted' = Attempted
  BY <1>3, <1>4, <1>5, SameSorts
<1>7. i \notin counted BY DEF CountInv, WorkStep, EndedAs
<1>8. LinksInv'
  <2>1. links[i].sort # "none" /\ is # "lost" BY <1>1 DEF LinksInv, WorkStep
  <2> QED BY <2>1, <1>3, <1>5 DEF LinksInv
<1>9. CountInv'
  <2>1. \A e \in counted : e \in DOMAIN links /\ links'[e] = links[e] BY <1>3, <1>7 DEF CountInv
  <2>2. Failures' = Failures BY <2>1, <1>5, <1>6 DEF Failures
  <2> QED BY <2>1, <2>2, <1>3, <1>5 DEF CountInv
<1>10. StepInv' BY <1>5, <1>6 DEF StepInv, Past
<1> QED BY <1>8, <1>9, <1>10

LEMMA CountKeeps == ASSUME ReportInv, NEW i \in DOMAIN links, CountJob(i) PROVE ReportInv'
<1> USE DEF ReportInv
<1>1. /\ links[i].sort = stepNow /\ links[i].is \in EndedAs /\ i \in DOMAIN links /\ i \notin counted
      /\ counted' = counted \cup {i}
      /\ failureCount' = IF links[i].is = "failed" THEN failureCount + 1 ELSE failureCount
      /\ UNCHANGED <<unparsed, expanded, links, unusable, stepNow, told>>
  BY DEF CountJob, Of, input
<1>2. stepNow \in {"file", "node", "folder"}
  <2>1. links[i] \in LinkStates BY <1>1, TallyShape DEF LinksInv
  <2>2. links[i].sort \in {"none", "file", "node", "folder"} BY <2>1 DEF LinkStates
  <2>3. stepNow # "none" BY DEF StepInv, Past
  <2> QED BY <2>2, <2>3, <1>1
<1>3. LinksInv' BY <1>1 DEF LinksInv
<1>4. (\A sort : Of(sort)' = Of(sort)) /\ Jobless' = Jobless BY <1>1, SameSorts
<1>5. StepInv' BY <1>1, <1>2, <1>4 DEF StepInv, Past
<1>6. i \notin Failures BY <1>1, <1>2 DEF Failures, Jobless
<1>7. Failures' = IF links[i].is = "failed" THEN Failures \cup {i} ELSE Failures
  BY <1>1, <1>4 DEF Failures
<1>8. IsFiniteSet(Failures) /\ failureCount = Cardinality(Failures) BY TallyShape DEF CountInv
<1>9. failureCount' = Cardinality(Failures') BY <1>1, <1>6, <1>7, <1>8, FS_AddElement
<1>10. CountInv' BY <1>1, <1>2, <1>9 DEF CountInv
<1> QED BY <1>3, <1>5, <1>10

\* Ctrl-C loses jobs that were at work, and those have not been counted.
LEMMA CtrlCKeeps == ASSUME ReportInv, CtrlC PROVE ReportInv'
<1> USE DEF ReportInv
<1>1. UNCHANGED <<unparsed, expanded, counted, failureCount, unusable, told>>
  BY DEF CtrlC, input, tally
<1>2. CASE UNCHANGED <<links, stepNow>>
  <2>1. (\A sort : Of(sort)' = Of(sort)) /\ Jobless' = Jobless /\ Attempted' = Attempted
    BY <1>1, <1>2, SameSorts
  <2>2. Failures' = Failures BY <2>1, <1>1, <1>2 DEF Failures
  <2> QED BY <1>1, <1>2, <2>1, <2>2 DEF LinksInv, CountInv, StepInv, Past
<1>3. CASE /\ stepNow' = "raised"
           /\ links' = [e \in DOMAIN links |->
                 IF links[e].is = "running" THEN Link(links[e].sort, "lost") ELSE links[e]]
  <2>1. Len(links) \in Nat /\ DOMAIN links = 1 .. Len(links)
        /\ \A e \in DOMAIN links : links[e] \in LinkStates
    BY TallyShape DEF LinksInv
  <2>2. DOMAIN links' = DOMAIN links BY <1>3
  <2>3. ASSUME NEW e \in DOMAIN links
        PROVE  /\ links'[e] \in LinkStates /\ links'[e].sort = links[e].sort
               /\ links[e].is # "running" => links'[e] = links[e]
    BY <2>1, <1>3 DEF Link, LinkStates, EndedAs
  <2>4. links' \in Seq(LinkStates) BY <2>1, <2>2, <2>3, <1>3, IsASeq
  <2>5. Jobless' = Jobless BY <2>2, <2>3, <1>1, SameSorts
  <2>6. \A e \in counted : e \in DOMAIN links /\ links'[e] = links[e]
    BY <2>3 DEF CountInv, EndedAs
  <2>7. Failures' = Failures BY <2>5, <2>6, <1>1 DEF Failures
  <2>8. LinksInv'
    BY <2>2, <2>3, <2>4, <1>3 DEF LinksInv
  <2>9. CountInv' BY <2>2, <2>6, <2>7, <1>1, <1>3 DEF CountInv
  <2>10. StepInv' BY <1>3 DEF StepInv, Past
  <2> QED BY <2>8, <2>9, <2>10
<1> QED BY <1>2, <1>3 DEF CtrlC

LEMMA StepsKeep ==
    ASSUME ReportInv, LeavePool \/ NextStep \/ Report \/ UNCHANGED downloadBatchVars
    PROVE  ReportInv'
<1> USE DEF ReportInv
<1>1. UNCHANGED <<unparsed, expanded, links, counted, failureCount>>
  BY DEF LeavePool, NextStep, Report, downloadBatchVars, input, tally
<1>2. (\A sort : Of(sort)' = Of(sort)) /\ Jobless' = Jobless /\ Failures' = Failures
  BY <1>1 DEF Of, Jobless, Failures
<1>3. LinksInv /\ stepNow # "raised" => \A e \in DOMAIN links : links[e].is # "lost"
  BY DEF LinksInv
<1>4. stepNow = "raised" => stepNow' = "raised"
  BY SortsAre DEF LeavePool, NextStep, Report, downloadBatchVars
<1>5. LinksInv' BY <1>1, <1>3, <1>4 DEF LinksInv
<1>6. CASE LeavePool
  <2>1. stepNow' = "raised" BY <1>6 DEF LeavePool
  <2> QED BY <2>1, <1>1, <1>2, <1>5 DEF CountInv, StepInv, Past
<1>7. CASE UNCHANGED downloadBatchVars
  <2>1. UNCHANGED <<stepNow, told, unusable>> BY <1>7 DEF downloadBatchVars, tally
  <2>2. Attempted' = Attempted BY <2>1, <1>1, SameSorts
  <2> QED BY <2>1, <2>2, <1>1, <1>2, <1>5 DEF CountInv, StepInv, Past
<1>8. CASE Report
  <2>1. /\ stepNow = "report" /\ stepNow' = "told" /\ unusable' = unusable
        /\ told' = IF Attempted > 0 THEN <<Attempted - failureCount, failureCount>> ELSE <<>>
    BY <1>8 DEF Report, tally
  <2>2. Attempted' = Attempted BY <2>1, <1>1, SameSorts
  <2>3. CountInv' BY <2>1, <1>1, <1>2 DEF CountInv
  <2>4. StepInv' BY <2>1, <2>2, <1>1, <1>2 DEF StepInv, Past
  <2> QED BY <2>3, <2>4, <1>5
<1>9. CASE NextStep
  <2>1. CASE stepNow = "expand" /\ unparsed = <<>> /\ stepNow' = "classify"
    BY <2>1, <1>1, <1>2, <1>5 DEF CountInv, StepInv, Past
  <2>2. CASE /\ stepNow = "classify" /\ expanded = <<>> /\ stepNow' = "file"
             /\ unusable' = failureCount
    <3>1. counted = {} BY <2>2 DEF CountInv
    <3>2. Failures = Jobless BY <3>1 DEF Failures
    <3>3. unusable' = Cardinality(Jobless') BY <3>2, <2>2, <1>2 DEF CountInv
    <3> QED BY <3>1, <3>3, <2>2, <1>1, <1>2, <1>5 DEF CountInv, StepInv, Past
  <2>3. CASE /\ \/ stepNow = "file" /\ stepNow' = "node"
                \/ stepNow = "node" /\ stepNow' = "folder"
                \/ stepNow = "folder" /\ stepNow' = "report"
             /\ Of(stepNow) \subseteq counted /\ unusable' = unusable
    <3>1. CountInv' BY <2>3, <1>1, <1>2 DEF CountInv
    <3>2. StepInv' BY <2>3, <1>1, <1>2 DEF StepInv, Past
    <3> QED BY <3>1, <3>2, <1>5
  <2>4. ASSUME NEW s \in DOMAIN Sorts, stepNow = Sorts[s],
               stepNow' = IF s = Len(Sorts) THEN "report" ELSE Sorts[s + 1]
        PROVE  \/ stepNow = "file" /\ stepNow' = "node"
               \/ stepNow = "node" /\ stepNow' = "folder"
               \/ stepNow = "folder" /\ stepNow' = "report"
    <3>1. CASE s = 1 BY <3>1, <2>4, SortsAre
    <3>2. CASE s = 2 BY <3>2, <2>4, SortsAre
    <3>3. CASE s = 3 BY <3>3, <2>4, SortsAre
    <3> QED BY <3>1, <3>2, <3>3, SortsAre
  <2> QED BY <1>9, <2>1, <2>2, <2>3, <2>4, SortsAre DEF NextStep
<1> QED BY <1>6, <1>7, <1>8, <1>9

-----------------------------------------------------------------------------

LEMMA InitReports == DownloadBatchInit => ReportInv
<1> SUFFICES ASSUME DownloadBatchInit PROVE ReportInv OBVIOUS
<1>1. links = <<>> /\ counted = {} /\ failureCount = 0 /\ stepNow = "expand"
  BY DEF DownloadBatchInit
<1>2. Failures = {} /\ links \in Seq(LinkStates) /\ DOMAIN links = {}
  BY <1>1 DEF Failures, Jobless
<1>3. failureCount = Cardinality(Failures) BY <1>1, <1>2, FS_EmptySet
<1> QED BY <1>1, <1>2, <1>3 DEF ReportInv, LinksInv, CountInv, StepInv, Past

LEMMA NextReports == ASSUME ReportInv, [DownloadBatchNext]_downloadBatchVars PROVE ReportInv'
<1>1. CASE ParseLink \/ ClassifyLink \/ AskCrypter \/ \E a \in HopAnswers : Hop(a)
  BY <1>1, ParseReads, ClassifyReads, AskReads, HopReads, InputKeeps
<1>2. ASSUME NEW i \in DOMAIN links, StartJob(i) \/ EndJob(i) PROVE ReportInv'
  BY <1>2, StartWorks, EndWorks, JobKeeps
<1>3. ASSUME NEW i \in DOMAIN links, CountJob(i) PROVE ReportInv' BY <1>3, CountKeeps
<1>4. CASE CtrlC BY <1>4, CtrlCKeeps
<1>5. CASE LeavePool \/ NextStep \/ Report \/ UNCHANGED downloadBatchVars BY <1>5, StepsKeep
<1> QED BY <1>1, <1>2, <1>3, <1>4, <1>5 DEF DownloadBatchNext

LEMMA ReportInvTells == ReportInv => ReportTellsTruth
<1> SUFFICES ASSUME ReportInv, stepNow = "told"
             PROVE  /\ unparsed = <<>> /\ expanded = <<>>
                    /\ \A i \in DOMAIN links : links[i].is \in {"stored", "skipped", "failed"}
                    /\ told = IF links = <<>> THEN <<>>
                              ELSE <<Cardinality(WentWell), Len(links) - Cardinality(WentWell)>>
                    /\ failureCount = Len(links) - Cardinality(WentWell)
  BY DEF ReportTellsTruth
<1> USE DEF ReportInv
<1>1. /\ unparsed = <<>> /\ expanded = <<>> /\ unusable = Cardinality(Jobless)
      /\ Of("file") \subseteq counted /\ Of("node") \subseteq counted /\ Of("folder") \subseteq counted
      /\ told = IF Attempted > 0 THEN <<Attempted - failureCount, failureCount>> ELSE <<>>
  BY DEF StepInv, Past
<1>2. /\ Len(links) \in Nat /\ IsFiniteSet(DOMAIN links) /\ Cardinality(DOMAIN links) = Len(links)
      /\ Jobless \subseteq DOMAIN links /\ Failures \subseteq DOMAIN links
      /\ IsFiniteSet(Jobless) /\ IsFiniteSet(Failures) /\ failureCount = Cardinality(Failures)
      /\ links \in Seq(LinkStates) /\ \A i \in DOMAIN links : links[i] \in LinkStates
  BY TallyShape DEF CountInv, LinksInv
<1>3. \A i \in DOMAIN links : links[i].sort # "none" => i \in counted
  BY <1>1, <1>2 DEF Of, LinkStates
<1>4. \A i \in DOMAIN links : links[i].is \in {"stored", "skipped", "failed"}
  BY <1>3 DEF LinksInv, CountInv, EndedAs
<1>5. WentWell = DOMAIN links \ Failures
  BY <1>3, <1>4 DEF WentWell, Failures, Jobless, LinksInv
<1>6. Cardinality(WentWell) = Len(links) - failureCount
  <2>1. Cardinality(DOMAIN links \ Failures)
          = Cardinality(DOMAIN links) - Cardinality(DOMAIN links \cap Failures)
    BY <1>2, FS_Difference
  <2>2. DOMAIN links \cap Failures = Failures BY <1>2
  <2> QED BY <2>1, <2>2, <1>2, <1>5
<1>7. Attempted = Len(links)
  <2>1. UNION {Of(Sorts[s]) : s \in DOMAIN Sorts} = Of("file") \cup Of("node") \cup Of("folder")
    BY SortsAre, Zenon
  <2>2. Of("file") \cup Of("node") \cup Of("folder") = DOMAIN links \ Jobless
    BY <1>2 DEF Of, Jobless, LinkStates
  <2>3. Cardinality(DOMAIN links \ Jobless)
          = Cardinality(DOMAIN links) - Cardinality(DOMAIN links \cap Jobless)
    BY <1>2, FS_Difference
  <2>4. DOMAIN links \cap Jobless = Jobless /\ Cardinality(Jobless) \in Nat
    BY <1>2, FS_CardinalityType
  <2>5. Attempted = Cardinality(DOMAIN links \ Jobless) + unusable
    BY <2>1, <2>2 DEF Attempted
  <2>6. Cardinality(DOMAIN links \ Jobless) = Len(links) - Cardinality(Jobless)
    BY <2>3, <2>4, <1>2
  <2> QED BY <2>4, <2>5, <2>6, <1>1, <1>2
<1>8. failureCount \in Nat BY TallyShape
<1>9. links = <<>> <=> ~(Attempted > 0) BY <1>2, <1>7, EmptySeq
<1>10. Attempted - failureCount = Cardinality(WentWell)
       /\ failureCount = Len(links) - Cardinality(WentWell)
  BY <1>2, <1>6, <1>7, <1>8
<1> QED BY <1>1, <1>4, <1>9, <1>10

\* When the hook runs, every link that was given has been attempted and has ended, and each
\* is counted once, on the side it belongs to (download_cmd.py:492-494), for any links,
\* containers, answers of the link services, pool size and moment of Ctrl-C.
THEOREM ReportIsTrue == DownloadBatchSpec => []ReportTellsTruth
<1>1. DownloadBatchInit => ReportInv BY InitReports
<1>2. ReportInv /\ [DownloadBatchNext]_downloadBatchVars => ReportInv' BY NextReports
<1>3. ReportInv => ReportTellsTruth BY ReportInvTells
<1> QED BY <1>1, <1>2, <1>3, PTL DEF DownloadBatchSpec
=============================================================================
