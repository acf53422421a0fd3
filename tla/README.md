# MegaBasterd-CLI in TLA+

Models of MegaBasterd-CLI, a command-line client for MEGA: its persistent transfer queue, downloads,
uploads, batches of both, calls to the API of MEGA, local streaming server, configuration and account vault. They are
model-checked with TLC on small instances, and eight of them are proved about with TLAPS for
instances of any size. Paths below are relative to `src/src/megabasterd_cli/`.

## 1. The system

| component | state it keeps | operations | hard behaviour | what makes it correct |
|---|---|---|---|---|
| Transfer queue (`queue/`) | `queue.json`: jobs in order, status, lease (`run_id`, `heartbeat_iso`, `lease_epoch`), finish time | add, remove, retry, clear, reset, claim_next, touch, update_status, recover_interrupted; each is lock, reload, change, atomic replace | lock time-outs, failing replaces, expired leases | a lease has one owner; stale owners write nothing; the file always loads again |
| Queue runner (`commands/queue_cmd.py`) | job in hand, armed transfer, `lease_lost` event, row on the screen | the claim loop; the heartbeat thread; `_fail`; Ctrl-C | two threads per process, several processes, crashes, a clock | a job is transferred by one run at a time and never again once finished; every run ends |
| Resume state (`core/state.py`) | `.mbstate` file: source, chunks done, revision | load, save (flush data, then replace), clear | concurrent snapshots, kills, power failures | the file vouches only for bytes that are on the disk |
| Downloader (`core/downloader.py`, `core/download_*.py`) | destination file, live state, CDN URL and its generation, stop event, thread pool | claim, resume, preallocate, fetch/write/record chunks, refresh URL, verify, clear | worker interleavings, stops, expired URLs, partial failure | "complete" means complete, with the right bytes, on the disk |
| Uploader (`core/uploader.py`, `core/upload_*.py`) | lease, resume state (slot, key, MACs, token), pool | lease, hash, request slot, post chunks, refresh slot, re-check, register | a file edited meanwhile, expired slots, lost answers, two processes | a node is one content of the file under one key |
| Folder download (`core/folder_downloader.py`, `commands/download_cmd.py`, `utils/helpers.py`) | listing, paths, jobs; claimed names and their lock files; outcomes | sort by depth, plan paths, claim, download in parallel, report | equal names, missing and cyclic parents, two processes, Ctrl-C | no two transfers on one file; every link told of once |
| Folder and batch upload (`core/upload_tree.py`, `commands/upload_cmd.py`, `upload_support.py`) | walk, remote folders; ledger of free space, cached logins | walk, make folders, reserve, release, reconcile, log in, finalise | ledger updates in any order, full accounts, two jobs at one login | no account promised more than it has; no file stored twice or in another folder |
| API client (`core/api.py`, `core/hashcash.py`) | sid, sequence number | send, retry, solve a challenge | lost requests and answers, endless challenges | a mutating request is not replayed once it may have been applied; the caller is told the truth |
| Proxies (`proxy/`) | failures and rest of each proxy | pick, report | concurrent reports, errors of MEGA behind a good proxy | only faults of its own put a proxy to rest; force mode never goes direct |
| Streaming (`streaming/server.py`) | permits globally and per client, CDN URL | accept, refuse, serve a range, refresh the URL | permits under failures, skipped bytes, short and long bodies | every permit comes back once; the bytes sent are those asked for |
| Accounts (`accounts/`) | vault file, copy in memory | add, remove, default, quota | processes that save old copies, illegal sequences | the vault loads again, under one passphrase |
| Sessions (`core/session_store.py`, `core/auth.py`, `core/client.py`) | encrypted session file, sid on the transport | restore, prove, remember, forget, log in, log out | dead session, unreachable server | no command works with a session that is not proven |
| Configuration (`config.py`) | `config.json`, copies of damaged contents | set, show, migrate, reset, recover | several processes, damage from outside | no update is lost; a damaged file is copied before it is replaced |
| Cryptography, links, UI, logging, entry points | – | pure functions and I/O | – | tested by example in the repository |

How they interact. `queue run` claims a job from the queue file, makes a downloader or an uploader for
it and hands its `stop` to the heartbeat thread. `download` and `upload` start the same transfers in a pool of
threads. Downloader and uploader keep their resume state through
`core/state.py` and reach the server through the API client, which asks the proxy selector for each
request. The queue file, the resume states, the configuration and the vault are shared between
processes; only the first three use a cross-process lock.

## 2. The modules

| module | models | composed of |
|---|---|---|
| `TransferQueue` | the jobs of `queue.json` and each operation of `QueueManager` | – |
| `QueueRun` | any number of `mb queue run` processes (main and heartbeat thread), operator commands, crashes, clock | EXTENDS `TransferQueue` |
| `LeasedWork` | abstract: one worker per job, finished jobs stay finished | refined by `QueueRun` (`ImplementsLeasedWork`) |
| `ResumeState` | the `.mbstate` file, snapshots and revisions | – |
| `Download` | sessions of one downloader on one destination | EXTENDS `ResumeState` |
| `Upload` | several uploaders of one local file | EXTENDS `ResumeState` |
| `ApiCalls` | calls to the API over a lossy network, challenges, the proxy pool | – |
| `StreamServer` | connections to the streaming server, to the byte | – |
| `Vault` | what `accounts.json` holds and each operation of `AccountManager` | – |
| `AccountCommands` | processes that run account commands and logins on one vault and session cache | EXTENDS `Vault` |
| `ConfigStore` | processes that read and change `config.json` | – |
| `UploadBatch` | one `mb upload` of several files | – |
| `UploadTree` | one `--keep-structure` directory | – |
| `DownloadBatch` | one `mb download` of several links | – |
| `FolderPlan` | where the files of a public folder go | – |
| `DestinationClaims` | transfers that want one destination | – |
| `QueueRunProofs`, `DownloadProofs`, `UploadProofs`, `ApiCallsProofs`, `StreamServerProofs` | theorems about the module of the name | EXTENDS it and TLAPS |
| `StoreProofs` | theorems about `AccountCommands` and `ConfigStore` | EXTENDS both and TLAPS |
| `BatchProofs` | theorems about `UploadBatch` and `DownloadBatch` | EXTENDS both and TLAPS |
| `FolderProofs` | theorems about `DestinationClaims`, `UploadTree` and `FolderPlan` | EXTENDS the three and TLAPS |
| `MCQueueRun`, `MCDownload`, `MCUpload` | values for TLC | – |
| `MCAccounts` | values for TLC | `AccountCommands` |
| `MCServices` | values for TLC | `ApiCalls`, `StreamServer`, `UploadBatch` |
| `MCStores` | values for TLC | `AccountCommands`, `ConfigStore`, `UploadTree`, `DownloadBatch`, `FolderPlan`, `DestinationClaims` |

The components that `MCServices` joins, and those of `MCStores`, share no state. In each behaviour one of them works
while the others are at rest, so a run explores the sum of their state spaces and not the product.

A definition whose comment begins with "Variant (bug)" is not part of the model: it is a plausible
mistake in one definition of it, kept to show that the property named for it in PROJECT.json notices it.

### Queue: state and actions

`job[j]` is the entry of the j-th job ever added: status, `run`, `epoch`, `beat` (age of the
heartbeat in heartbeat periods, −1 for none) and `fin` (a finish time is set). Since every operation
holds the file lock from reload to replace, it is one step. A removed job keeps its `epoch`
in the model so that histories stay comparable; its id is never used again (uuid4).

`pc[r]` walks through `queue_run`: `loop` → claim → `leased` → `current_job` published → `claimed` →
pre-checks or `armed` → lease re-check → `prep` → `_stop_event.clear()` → `xfer` → `finish`/`fail` →
`release` (the `finally`) → `loop`. The heartbeat thread reads `current_job`, then touches the
lease, then either waits again, or declares the lease lost and stops the armed transfer: three separate
steps, as in the code. `Tick` is the passage of one period of 30 s; `Punctual` says what the timing
constants of the code guarantee between two ticks (a lock time-out of 10 s is far below a period, a
stopped transfer winds down within its socket time-out). A heartbeat thread that died on an `OSError`
is not waited for.

### Resume state and download

A state file is absent, corrupt, written by a newer client, or `[src, done, rev]`. `Saved` keeps
a later revision and refuses to touch a newer client's file. `image` is the destination
as programs see it, `synced` as the disk holds it; a flush copies one to the other, and `PowerFails`
leaves any mixture, chunk by chunk. A rename or an unlink is taken to be durable, in order, since the code fsyncs
the state before it renames it; the data needs its flush. Task steps are split where another
thread can come between: look at the stop event and read the URL, fetch, write,
record under the lock (with the snapshot), flush, save. The URL refresh is the double-checked
generation of `_refresh_url`. `Start` is everything from `claim_destination` to the cleared or resumed
state; other sessions are excluded by the claim, so sessions follow each other, with any source and any
settings of `Modes`.

### Upload

The local file is a sequence of `version`s; each edit sets a new mtime, so the identity check
distinguishes versions, and an identity torn by an edit during the hash equals no version. The lease is
named by the size of the file when the upload starts, and the path of the state by its size when the state is
loaded, as the code does. `slots`, `body` and `nodes` are the server's: what the code relies on is that a slot keeps the
last body posted at each offset, and that the answer to the final chunk is the token. A POST
may be taken with the answer lost. A POST that arrives after its request timed out and was repeated is left out.
Empty files take their own path through one slot and one POST.

### Calls to the API, and proxies

`call[c]` is one call: where it is (`pc`), its sends, its posts within one send, the route it took and the solving time
spent. A send picks a route (`Select`: the static proxy, one of the pool that is not at rest, direct, or none under
force mode), posts, and meets one of the outcomes of `Posting`: an answer, one that says "again", an error of MEGA, an
HTTP error, a challenge, a connection that broke before or after the request was applied. `Blame` and `Credit` are what the
selector is told, `Solve` one challenge within the budget, and `Tick` the clock of the rests. Which action mutates is
decided as in `is_mutating`: only what is known to be harmless may be replayed after an ambiguous end. `applied`
and `faults` record what really happened and appear in no guard.

### Streaming server

The accept loop takes a global permit and then one of the client (`AcquireSlot`, `AcquirePeer`, `StartHandler`), or turns
the connection away through a bounded number of closing threads (`TurnAway`, `Refuse`). A handler reads a request,
opens the upstream with a range that begins at a cipher block, may refresh the URL once, and pumps: each piece is
cut to what is still to be skipped and still owed (`SendBlock`). Any step may break off; `ReleasePeer` and `ReleaseSlot` are
the two `finally` blocks. A byte is its offset, so `served` says which bytes were sent and not only how many; the
key stream counts its own position (`feed.cipher`), so a byte deciphered at another place would show. The CDN may answer with
another range, a short or a long body, or call the URL expired.

### Vault, accounts and sessions

`Vault` has the operations of `AccountManager` on a copy in memory and `Loads`, what the validator accepts. An address has spellings:
`Lower` is what the manager compares (letter case only), `Canonical` what the validator compares (the space around a name as well). In
`AccountCommands` a process loads the vault once, when it first needs it, and later saves its whole copy; other
processes do the same in between. A cached session is restored, proved by one request, kept, or forgotten with its
file, and a login follows. The server knows which sessions live and whose they are. `Damage` is a file spoiled from
outside: the saves that follow look at the file first (`Saved`).

### Configuration

Each command loads the file at the start, locks, loads again, and saves, which loads a third time
(`phase`). `Corrupt` and `Restore` change the file from outside at any moment but one: between the last look at the file and the
replace, where the code has no defence. `Look` copies damaged bytes aside once per content; a copy may fail. `expect`
collects what the commands that reported success did to the settings.

### Batches

`UploadBatch` has one job per file. A job selects an account by the ledger and reserves (`SelectAccount`),
takes or makes the client of the account under `client_cache_lock`, reads the quota and reconciles the ledger with it, uploads,
finalises, and on a full account gives the reservation back and goes on to another account. The upload itself is one step with
its possible results; `Upload` has its steps. `UploadTree` walks sorted entries, leaving out what is below a symbolic link
(`Walk`), then makes folders and uploads files (`UploadNext`). `DownloadBatch` expands and classifies links, asks the
MegaCrypter services in turn, runs one pool after the other, and counts outcomes as futures complete. After Ctrl-C a pool still runs what was submitted
(`LeavePool`), what the main thread does itself is broken off, and the command raises: there is no report and no hook.
`FolderPlan` is `_find_folder_root` (`FolderRoots`: a parent that is not listed, or a listed node that names none, folder or
file), what the plan is about (`Planned`: all of a share, or what lies below the folder that was `asked` for),
`_sort_by_depth` with its walk up the parents (`Ascend`), the paths of folders (`Place`) and the jobs of files (`PlanFiles`). `DestinationClaims` is the claim of a name: the
registry of the process under its mutex, the look at the disk, the lock file shared by processes, the second look, and the
numbered alternatives; `Die` kills a process, which frees its locks and leaves its files.

## 3. What is checked

| run | instance | shows |
|---|---|---|
| `queue_clean` | 2 runs, 2 jobs, lease 2, grace 1, 1 operator command; crashes, Ctrl-C; lock and disk work | the file stays loadable; row and file agree; refinement of `LeasedWork`; every run ends |
| `queue_faults` | 2 runs, 2 jobs, any lock acquisition may time out, any replace may fail | no lease is stolen from a run with a live heartbeat; one lease per run; generations differ; stale runs write nothing |
| `queue_write_fault` | 1 job, lease 4, grace 2, replaces may fail | **violation**: the heartbeat thread dies on an `OSError`, the lease expires, two runs transfer one job |
| `download_resume` | 2 sources of 2 chunks and equal size, 2 workers, 2 attempts, 3 sessions, with and without `--overwrite`, corrupt and newer state files, stops, kills, power failures | the state vouches for the disk; complete is complete; one resolution per URL generation; committed chunks are not forgotten |
| `download_faults` | 1 source, 1 session, failing writes, flushes and saves, garbled bodies, with and without verification and kept states | the same under disk faults; the session ends |
| `upload_resume` | 2 processes, 2 uploads, 3 versions of the file (the last one empty), 2 slots, expired slots, lost answers, stops, kills | a node is one content; the state vouches for its slot; a token comes with the final chunk |
| `upload_ends` | 1 process, every failure including failing saves | the upload ends |
| `upload_truncated` | the file grows between two looks at it | **violation**: the node holds only the beginning of the file |
| `upload_lease` | 2 processes, a file that grows | **violation**: two uploads work on one resume state |
| `services` | a mutating and a reading call, 1 proxy, 3 settings, 2 attempts, 2 posts, budget 2; 3 connections of 2 clients, 2 slots, 1 per client, 1 closer, a file of 5 bytes, blocks of 3, 9 requests, pieces of 1 and 3 bytes; 3 uploads of sizes 1, 2, 1 by 2 threads over 2 accounts, one quota stale | nothing applied or stored twice; callers told the truth; a blameless proxy serves; challenges within the budget; bytes served exactly; no account overcommitted, one login each; every call and batch ends; every permit comes back |
| `stores` | 2 processes, 2 commands, 2 logins, 2 addresses, one of them in 3 spellings, a label both may have, 2 passphrases, a fresh vault or one with a dead credential; 2 writers, 2 settings, 2 damaged contents, 3 commands, 2 edits; all trees of 4 entries; 3 links of every kind, 2 slots, 1 redirect; all listings of 4 nodes; 3 transfers of 2 processes, 3 candidates | only two commands spoil the vault; one passphrase opens it; sessions in use are proven; no setting is lost; damaged files are copied first, or left alone; every file in its folder, locally and remotely; the report counts each link once; finished files are not overwritten |
| `vault_unloadable` | 1 process, 2 commands, the accounts of `stores`, one of which may be added with the label of another | **violation**: the vault that was written does not load |

Why the bounds are enough for what is asked. Two runs and two jobs give every pair of owners, and a
run with a job in hand and another to claim; grace 1 and lease 2 keep
the proportion of the code (150 s and 300 s, in periods of 30 s). Two chunks are the fewest for which one is saved while another is
in flight, and two attempts for which a retry can fail again; three sessions let one inherit what the
second made of the first one's state. Two sources of equal size differ in the state file only, which
is the case that could confuse them. Two uploads and two slots suffice for one process to find the state the other left, or to refresh
a slot, though not both more than once. One proxy and two calls let an answer for one call change the route of the other;
two failures put the proxy to rest. A file of 5 bytes with blocks of 3 has a range that begins inside a block, a skip longer
than a piece and a last block that is cut; three connections of two clients meet both caps and the closer.
Two processes give every lost update, two passphrases every mixture. Three jobs on two
accounts make one job find both full; three links, one of them a container, mix every
kind with every other (`mega://enc`, which becomes what it holds, only beside a container); four nodes are enough for a circle
beside a chain of two, and for a stray subtree below a listed root; of the listings that differ only in the names of files or folders `MCStores` takes one. Three spellings give an address that the manager takes for the same and one that
only the validator does. `ClaimBound`, `MaxCommands`,
`MaxSessions`, `NumVersions`, `MaxSlots`, `MaxTicks`, `MaxLogins`, `MaxRuns`, `MaxEdits` and `MaxNumber` bound counters and appear in
guards.

Some choices of values keep known disagreements (section 5) out of the passing runs, where they would hide everything else:

* `upload_resume` keeps the size of a non-empty file constant.
* `RowAgreesWithFile` and the refinement are checked in `queue_clean`, without lock faults.
* `stores` names accounts by address, has sessions of an earlier run only under the address of the vault, and lets a probe end without a
  verdict only by a dropped connection. `vault_unloadable` has one process and two commands.
* `services` has the Python solver (`Native = FALSE`).
* `NeverOvercommitted` is about the free space the cached quota promised, not about a live quota that is lower.

Deadlock is checked in no run but those of the queue: in the other models every transfer, call or command may be over.
In the queue the clock always ticks.

Fairness. Weak fairness is given to each thread that the operating system schedules: the main and heartbeat
step of each run, the main thread and each task of a transfer, each call, each connection, each job of a batch and the thread that
waits for them. None is given to starting, stopping, killing, editing
or the operator. A fetch under fairness answers in some way: the code gives every request a time-out.
A quota wait is bounded by `quota_max_wait_loops` and counts as preparation. The waits of the queue and of pools are for threads
that have fairness themselves.

## 4. What is proved

All theorems hold for any values of the constants that satisfy the named assumptions of the modules
(`QueueAssumption`, `RunAssumption`, `DownloadAssumption`, …), with every fault the module has. Each
proof module splits its inductive invariant into named parts and has a lemma for each action.

| module | type correctness | safety |
|---|---|---|
| `QueueRunProofs` | `TypeCorrect` | `LeaseInvariant`, `LeaseSafe`, `OneLease`, `Generations`, `Loadable`, `EndedByHolder`; without queue faults `OneRunPerJob`, `RowTellsFile`, `Refinement` |
| `DownloadProofs` | `DownloadTypeCorrect` | `StateVouches`, `CompletionSound`, `OneResolution`, `CommittedNeverShrinks` |
| `UploadProofs` | `UploadTypeCorrect` | `TokenComesLast`, `NodeHasOneContent`, `SlotVouched`, `LeaseKeepsItsPromise`, `OneSizeIsSafe` |
| `ApiCallsProofs` | `ApiTypeCorrect` | `NeverAppliedTwice`, `ToldTheTruth`, `BudgetShared`, `ForceHolds`, `BlamelessServe` |
| `StreamServerProofs` | `StreamTypeCorrect` | `PermitsAccounted`, `BytesServedExactly` |
| `StoreProofs` | `AccountTypeCorrect`, `ConfigTypeCorrect` | `DamagedIsKept`, `OneKeyOnly`, `TwoWaysSpoil`, `ProvenSessions`; `UpdatesStick`, `DamageIsKept` |
| `BatchProofs` | `BatchTypeCorrect` | `FilesStoredOnce`, `LoginsAreOnce`, `LedgerKept`; `ReportIsTrue` |
| `FolderProofs` | `ClaimTypeCorrect` | `OneWriterEach`, `FinishedStaysWhole`; `TreeIsMirrored`; `PlanIsMirror` |

Every invariant and every action property that a passing run checks is stated by one of these theorems, for every value of
the constants.

Some theorems have a hypothesis of their own:

* `~FaultyOp` (`OneRunPerJob`, `RowTellsFile`, `Refinement`): the lock of the queue is always had and its writes land. The run
  `queue_write_fault` shows that the first does not hold without it; a run whose outcome could not be written shows a row the file does not know.
* `LabelsOwned` (`ProvenSessions`): no two addresses have a label in common. The code does not look for it (section 5, Accounts), and
  without it a session cached under the label is used for another account.
* `OneUploadPerState`, `OneSize`, the Python solver: see Upload and API calls below.

**Queue.** `LeaseNeverStolen` is not inductive: that a lease is not stale depends on how long ago the
heartbeat renewed it. `LeaseInv` therefore adds `HeldFresh`: as long as the thread lives and has not declared
the lease lost, the heartbeat in the file is no older than the time the thread counts since its
last success (`stalled`); and `StallBounded`: that time does not pass the grace, because the thread gives up there.
Hence `beat` never exceeds the lease and `_recover_interrupted_locked` passes the job over. `Bookkeeping` says what
`current_job` is at each place of the main thread and that the generation in memory is at most the one in the
file; `OwnerKnown`, that whoever the file names as owner has the job in hand, has declared the lease lost, or is gone.
With them `OneLeasePerRun` and `GenerationsDiffer` are preserved by a claim. The steps of other runs are
summarised by `NoGain` and `Keeps` (what a step may do to a lease it does not own), so each action is a lemma about its own
run only. `Loadable` rests on the fencing of `_check_owner`: an outcome is only written over an active job, which has no
finish time.

Without faults more holds. `CleanInv` adds to the lease invariant that every heartbeat thread lives and that what a run holds it
also owns in the file (`CleanHeld`), with a heartbeat at most one tick old, for no tick passes while a thread that is due has not run
(`Punctual`). So recovery passes over every held job, no two runs hold one (`OneHolder`), and once the
outcome is recorded a row with a final status shows that outcome (`RowTrue`). `Refinement` maps each job to its phase and to the run that holds it; `OneHolder` makes that
a function, and each action is then a step of `LeasedWork` or leaves phases and workers alone.

**Download.** What the state file vouches for must be on the disk (`FileVouches`), and it gets there from a snapshot
(`SnapVouches`), which was taken from the live state (`LiveVouches`), to which a task adds its chunk after writing it
(`TasksVouch`); between snapshot and replace lies the flush. `RevisionsAgree` orders the snapshots of a session, so a save
that would forget a chunk is refused. `Covered` carries the completeness test from its evaluation to the end of the session, and `Control` says
which parts are live at each place of the main thread.

**Upload.** That a token comes with the final chunk needs no lease and holds of every behaviour. The other properties need that no two
uploads share a resume state. `NodeHasOneContent` and `SlotVouched` assume just that, as a premise about the behaviour
(`[]OneUploadPerState`); `LeaseKeepsItsPromise` shows that the lease gives it when the size of the file
does not change (`OneSize`), by following the lease from its acquisition to the name of the state; `OneSizeIsSafe` puts the two together. The run
`upload_lease` shows that `OneSize` cannot be dropped.

**API calls.** `TimeInv`, `RouteInv` and `TruthInv` say of each call how much of the budget is gone, that its route fits its settings, and at
which places a request that was applied may still be: only at those from which a mutating call is never sent
again. `BudgetShared` assumes the Python solver.

**Streaming.** The permits in use are as many as the connections at a place that holds one, by cardinalities of those sets; and
the next byte of the body plus what is still to be skipped is the first byte of the range plus what was served.

**Accounts.** Nothing is locked, and every process saves a copy of the whole vault that it loaded some time ago. What can be said of the vault is
therefore said of every copy that some process may save (`KeyInv`, `LabelInv`): a command changes its copy only after a test
against that same copy (`Opens` before an account is added), so the property survives whichever copy is saved last.
`CopiesLoad` says that every copy a process has would load; a command that changes its copy to one that would not is an add under a name that
`Clash`es (`AddedLoads`), or a remove that leaves the default without an account (`RemovedLoads`), and these are the two ways of
`TwoWaysSpoil`, which needs no hypothesis.
`Following` says at which places a process has a copy, and that the account it works on is in it. For sessions, `SessionInv` says that a cached one belongs to
the account its key names, and that the client of a process has the session of the account it works on or none; with labels that two
accounts share a key would name two.

**Configuration.** No command looks, copies or writes without the lock (`Guarded`), so what its holder has read is still there
when it writes (`Current`), damage from outside excepted, which its last look finds (`Seen`).

**Upload batch.** `JobInv` ties each job's place to how often its file has landed, and says that a job at a login holds the lock and that its account
has no client yet; `LoginInv`, that a client is cached exactly for the accounts logged in to. `BatchTypeCorrect` includes that the ledger never becomes
negative. For `LedgerKept` a step of a job moves its reservation and the balance of an account together (`Books`); that the sum over
the holders moves by the size of the job is `SumWithout`, for the fold itself takes the elements in an order of its own.

**Download batch.** `CountInv` says that what is counted is a job that has ended, and that the failures are the links that became
no job and the counted ones that failed; `StepInv`, which sorts have been counted whole at each step. A job that is still at work has not been counted, so its end, or Ctrl-C, changes no
tally.

**Trees and plans.** `Parents` is shown to be the smallest set that holds the folder of an entry and with a folder the one that is in
(`ParentsClosed`, `ParentsSmallest`), so what lies below a folder has that folder's parents among its own. With it `MadeInv` follows: a
folder that was passed has its remote folder, or it or one of its parents has failed. For the plan, `Below` holds with each
node its parent (`BelowClosed`); `_sort_by_depth` gives a node more depth than its parent (`Deeper`, from `ChainInv` over the chain that is being walked);
so the next folder by depth never comes before its parent (`ParentPlaced`), and its path is the parent's and itself (`Leads`). A folder whose
parent is no folder of the plan is `Astray` in the listing itself (`LostIsAstray`): below a folder that was asked for, every other node has its parent in the plan.

**Claims.** From its second look at the disk until its release (or death) a transfer holds the lock of its candidate (`HoldsLock`), and
the file there is its own (`SeesOwn`).

Induction over data. The induction theorems of the library take an operator as a parameter, which the provers cannot instantiate. Where a proof
needs one (the fold over jobs, `Parents`, `Below`), it is a fact about sets: a set of numbers has a smallest member, a set of finite sets one that
holds no other, hence a set with 0 and with each number the next holds them all (`SmallestNumber`, `SmallestSet`, `InductiveSet`). That the
recursive function exists is proved the same way (`AdderAdds`, `ClimbExists`, `SpreadExists`).

Only model-checked: liveness (`RunEnds`, `SessionEnds`, `UploadEnds`, `CallsEnd`, `SlotsComeBack`, `BatchEnds`), since fairness and ENABLED are out of
this prover's reach.

## 5. Disagreements found

Shown by a run:

* `queue_write_fault`: a failing replace ends the heartbeat thread silently (`commands/queue_cmd.py:393` catches two exceptions
  only); comment 44-46 says transfers can never overlap.
* `upload_truncated`: a file that grows between `stat` and hash is uploaded truncated (`core/uploader.py:260`).
* `upload_lease`: the lease is named by the size of the file at the start, the resume state by its size after
  hashing (`core/uploader.py:219` and 283), so a file that changes its size may be uploaded by two processes with one state; the docstring at
  205-211 says the second is refused. With three versions of sizes 1, 2, 2 a node of mixed content can be registered.
* `vault_unloadable`: an account added with a label that another one has makes the vault unloadable (`accounts/manager.py:176`): the validator
  refuses it (`accounts/storage.py:286-289`) and every command is blocked; comment `commands/account_cmd.py:162` says the vault is untouched when
  a field is invalid. `OnlyTwoWaysSpoil` (run `stores`, theorem `TwoWaysSpoil`) says what else does it, and that nothing else does: an address added again
  with space around it, and the removal of a default whose dead credential was repaired under another spelling (186).

Met while modelling and not run:

* Queue. A stop delivered while a transfer prepares is erased by `_stop_event.clear()` (`core/downloader.py:528`,
  `core/uploader.py:389`), which comment 444-446 of `queue_cmd.py` relies on: `NoOverlap` fails with `LockFaults = TRUE`,
  `WriteFaults = FALSE`, lease 4, grace 2, one job. The row is finished before DONE is recorded (`queue_cmd.py:457`); comment 423-425 says both always agree. A
  healthy run can declare its lease lost when its heartbeat reads `current_job` just before DONE is recorded (387).
* Download. A cleared resume state can come back, saved by a task still running (`core/downloader.py:593`); the message at 614-616 says the state
  was kept also when it was cleared.
* Upload. A node may be registered a second time after a crash between registration and clearing (`core/uploader.py:484`).
* API. A native solver that fails lets the Python solver start with the whole time-out again; `HashcashError` is a
  `ValueError` and escapes the handlers of API errors.
* Accounts. `update_quota` saves an old copy of the whole vault and may erase or
  bring back accounts (211). Restoring a session forgets a live one on any error of MEGA; a probe may forget the file another process just
  wrote. Cloud commands cache sessions under the label, so after a remove that crashed and a new use of the label the session of another
  account is used; `account logout` with a label looks for another file. A logout whose answer is lost reports the session ended.
* Configuration. `recover` overwrites a damaged file also when no copy could be written; `effective_pool` copies it without the
  lock.
* Upload batch. An error of finalising that is not a `MegaError` counts a landed upload as failed and gives its reservation back; one that
  leaves login, quota or target resolution ends the batch without the all-finished hook. A release after a reconcile raises
  the balance above the live quota (`upload_support.py:133`).
* Download batch. `ProxyRequiredError` while a MegaCrypter link is resolved ends the command without the hook, though
  `commands/download_cmd.py:492-494` says otherwise. `UnsafeTargetError` is a `ValueError` and makes the link a plain file job
  (`core/link_services.py:585-588`).
* Folder download. With `--overwrite` files of equal names overwrite each other and both count as success; hooks of files that succeeded are not
  run when another file of the folder failed (`docs/CONFIG.md:145`). Where the root is a listed folder, a folder whose parent is missing is put into
  it (`core/folder_downloader.py:429`) and a file whose parent is missing at the top (392); a link to that file alone puts it elsewhere again
  (`_local_path_for_node`).
* Streaming. Of two concurrent refreshes the older answer may stay (`streaming/server.py:571`); an expired URL at the second attempt
  is counted against the proxy.
* Watch folder. After a `QueueLockError` the comment in `commands/watch_cmd.py` says a link copied again is queued again, but the same clipboard text
  is ignored.

## 6. Not modelled

* Cryptography (`core/crypto.py`): pure functions on bytes. The models use what it guarantees, that a MAC names its bytes and its
  key, and do not look into it.
* Splitting, hooks, thumbnails and the watch folder (`core/splitter.py`, `utils/hooks.py`, `core/thumbnail.py`,
  `commands/watch_cmd.py`): sequential file operations and child processes with no state others read; what a batch gives to its hook is
  part of `DownloadBatch`.
* Logging, redaction, prompts, tables, and the entry points with their menus: formatting and I/O.
* Inside modelled components: the encryption of queue entries at rest, the wording of errors, the sizes of MEGA chunks, decoding of links, the
  CONNECT proxy, which only forwards bytes, and the rate limiter. Cloud and share commands are single remote requests: their account and
  session are in `AccountCommands`, their retry in `ApiCalls`.
* Faults left out, each named where it would bite: a POST of an upload that arrives after it timed out and was repeated; an edit of
  `config.json` or damage of the vault between the last look and the replace; a file that cannot be read though it exists; `KeyboardInterrupt` in the accept
  loop of the streaming server after a handler was started.
