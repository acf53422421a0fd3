------------------------------ MODULE MCStores ------------------------------
(***************************************************************************)
(* What commands leave on disks and at MEGA, for TLC: the vault with the   *)
(* sessions, the configuration, a tree of uploads, a batch of downloads,   *)
(* the plan of a folder of it and the claims of its files.                 *)
(* They share no state, so a behaviour has one of them at work and the     *)
(* others at rest.                                                         *)
(***************************************************************************)
EXTENDS AccountCommands, ConfigStore, UploadTree, DownloadBatch, FolderPlan, DestinationClaims, TLC

CONSTANTS amy, Amy, amy_, bob, home, n1, n2, n3, n4, t1, t2, t3, here, there, fileA, fileB, c1, c2

\* Neither the processes nor the passphrases differ.
Perms == Permutations(Procs) \cup Permutations(Passphrases) \cup Permutations(Writers)

\* One address with a label, in capitals, and with a space after it.
LowerMC == [e \in {amy, Amy, amy_, bob} |-> IF e = Amy THEN amy ELSE e]
CanonicalMC == [n \in {amy, Amy, amy_, bob, home} |-> IF n \in {Amy, amy_} THEN amy ELSE n]
NewLabelsMC == [e \in {amy, Amy, amy_, bob} |-> IF e = bob THEN {} ELSE
                                                IF e = amy THEN {home} ELSE {NoLabel}]

\* No vault yet; an account whose credential is dead, beside a labelled one.
OldVaultsMC ==
    {NoStore} \cup
    {[accounts |-> <<[email |-> amy, label |-> NoLabel, cred |-> Dead],
                     [email |-> bob, label |-> home, cred |-> pass]>>,
      default |-> amy] : pass \in Passphrases}

\* Two transfers of one process with equal names, and the first again in another.
ProcessMC == t1 :> here @@ t2 :> here @@ t3 :> there
SourceMC == t1 :> fileA @@ t2 :> fileB @@ t3 :> fileA

\* Three links of every kind, with one container among them at most.
CommandLinesMC ==
    {c \in [1..3 -> Kinds \ {"enc"}] : Cardinality({i \in 1..3 : c[i] \in {"elc", "crypter"}}) <= 1}
      \cup {<<"enc", "elc">>, <<"node", "node", "node">>}
ContainersMC == {<<>>, <<"garbage", "file">>, <<"elc">>}
OptionsMC == [password : BOOLEAN, select : BOOLEAN]

\* Which handles the files have does not matter, only how many there are.
FilesMC == {{}, {n4}, {n3, n4}, {n2, n3, n4}, Nodes}

(* Nor which of the files, or of the folders, is which: of the listings that *)
(* only differ in that, the one with the least number stands for all.        *)
Number == n1 :> 0 @@ n2 :> 1 @@ n3 :> 2 @@ n4 :> 3 @@ Outside :> 4 @@ NoParent :> 5
NumberOf(q) ==
    LET digit(n) == Number[IF parent[n] \in Nodes THEN q[parent[n]] ELSE parent[n]] * 6^Number[q[n]]
    IN  digit(n1) + digit(n2) + digit(n3) + digit(n4)
OneOfItsKind ==
    /\ isFile \in FilesMC
    /\ \A q \in Permutations(Nodes) :
          {q[n] : n \in isFile} = isFile => NumberOf([n \in Nodes |-> n]) <= NumberOf(q)

VARIABLE part  \* the one at work

TreeAtRest ==
    /\ kind = [e \in Entries |-> "file"] /\ above = [e \in Entries |-> Top]
    /\ walked = Size /\ skippedDirs = {} /\ kept = Entries /\ passed = Size /\ handleFor = {Top}
    /\ failedDirs = {} /\ failures = Entries /\ remote = [e \in Entries |-> Nowhere]

DownloadsAtRest ==
    /\ options = [password |-> FALSE, select |-> FALSE] /\ unparsed = <<>> /\ expanded = <<>>
    /\ asking = Idle /\ links = <<>> /\ counted = {} /\ failureCount = 0 /\ unusable = 0
    /\ interrupted = FALSE /\ stepNow = "told" /\ told = <<>>

PlanAtRest ==
    /\ isFile = {} /\ parent = [n \in Nodes |-> Outside] /\ asked = "share" /\ root = Outside
    /\ depth = [n \in Nodes |-> 1] /\ chain = <<>> /\ pathFor = [n \in Nodes |-> <<n>>]
    /\ jobs = [n \in {} |-> <<>>] /\ stage = "planned"

ClaimsAtRest ==
    /\ disk = [c \in Candidates |-> NoFile] /\ registry = [p \in Processes |-> {}]
    /\ locked = [c \in Candidates |-> Unowned] /\ mutex = [p \in Processes |-> Unowned]
    /\ doing = [t \in Transfers |-> "ended"] /\ candidate = [t \in Transfers |-> 0]
    /\ done = [t \in {} |-> 0]

\* No session yet, or one of the address that is in the vault.
AccountsInit == Init /\ \A k \in Keys \ {amy} : cache[k] = NoSession
AccountsAtRest == Init /\ vault = NoStore /\ owner = <<>>

ConfigAtRest == ConfigInit /\ file = Absent

\* Which of the damaged contents comes first does not matter.
FirstComesFirst == edits = 0 => file' # c2

StoresInit ==
    \/ /\ part = "accounts" /\ AccountsInit /\ ConfigAtRest
       /\ TreeAtRest /\ DownloadsAtRest /\ PlanAtRest /\ ClaimsAtRest
    \/ /\ AccountsAtRest
       /\ \/ /\ part = "config" /\ ConfigInit
             /\ TreeAtRest /\ DownloadsAtRest /\ PlanAtRest /\ ClaimsAtRest
          \/ /\ part = "tree" /\ TreeInit
             /\ ConfigAtRest /\ DownloadsAtRest /\ PlanAtRest /\ ClaimsAtRest
          \/ /\ part = "downloads" /\ DownloadBatchInit
             /\ ConfigAtRest /\ TreeAtRest /\ PlanAtRest /\ ClaimsAtRest
          \/ /\ part = "plan" /\ PlanInit /\ OneOfItsKind
             /\ ConfigAtRest /\ TreeAtRest /\ DownloadsAtRest /\ ClaimsAtRest
          \/ /\ part = "claims" /\ ClaimInit
             /\ ConfigAtRest /\ TreeAtRest /\ DownloadsAtRest /\ PlanAtRest

StoresNext ==
    /\ \/ /\ part = "accounts" /\ Next
          /\ UNCHANGED <<configVars, treeVars, downloadBatchVars, planVars, claimVars>>
       \/ /\ part = "config" /\ ConfigNext /\ FirstComesFirst
          /\ UNCHANGED <<vars, treeVars, downloadBatchVars, planVars, claimVars>>
       \/ /\ part = "tree" /\ TreeNext
          /\ UNCHANGED <<vars, configVars, downloadBatchVars, planVars, claimVars>>
       \/ /\ part = "downloads" /\ DownloadBatchNext
          /\ UNCHANGED <<vars, configVars, treeVars, planVars, claimVars>>
       \/ /\ part = "plan" /\ PlanNext
          /\ UNCHANGED <<vars, configVars, treeVars, downloadBatchVars, claimVars>>
       \/ /\ part = "claims" /\ ClaimNext
          /\ UNCHANGED <<vars, configVars, treeVars, downloadBatchVars, planVars>>
    /\ UNCHANGED part

StoresSpec ==
    /\ StoresInit
    /\ [][StoresNext]_<<part, vars, configVars, treeVars, downloadBatchVars, planVars, claimVars>>
=============================================================================
