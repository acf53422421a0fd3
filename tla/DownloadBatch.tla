--------------------------- MODULE DownloadBatch ---------------------------
(***************************************************************************)
(* One "mb download" of several links (commands/download_cmd.py): links are  *)
(* expanded and resolved one by one, then files, nodes of folders and whole  *)
(* folders are downloaded, the first two in a pool of threads, and at the    *)
(* end the hook and the exit status tell how many went well.                 *)
(***************************************************************************)
EXTENDS Naturals, Sequences, FiniteSets

CONSTANTS CommandLines, \* what may be given: sequences of Kinds
          Containers,   \* what an ELC container may hold: sequences of Kinds
          Slots,        \* max_parallel_downloads
          Options,      \* whether --password and --select may be given
          MaxRedirects  \* MAX_SERVICE_REDIRECTS

\* What parse_link makes of a link; "garbage" is refused.
Kinds == {"garbage", "file", "node", "folder", "password", "enc", "elc", "crypter"}

\* The kinds that become jobs, in the order in which they are worked on.
Sorts == <<"file", "node", "folder">>
IsSort(k) == \E i \in DOMAIN Sorts : Sorts[i] = k

ASSUME DownloadBatchAssumption ==
    /\ CommandLines \subseteq Seq(Kinds) \ {<<>>} /\ Containers \subseteq Seq(Kinds)
    /\ Slots \in Nat \ {0}
    /\ Options \subseteq [password : BOOLEAN, select : BOOLEAN] /\ MaxRedirects \in Nat

VARIABLES
    options,
    unparsed,    \* links of the command line that are still to be parsed
    expanded,    \* links that are still to be classified
    asking,      \* the request for the link at hand: its method and its redirects
    links,       \* what the links have become, and what came of each
    counted,     \* the links whose outcome the main thread has seen
    failureCount, unusable,
    interrupted, \* Ctrl-C was pressed while a pool was at work
    stepNow,     \* "expand", "classify", a sort, "report", "told" or "raised"
    told         \* what the all-finished hook was given

input == <<options, unparsed, expanded, asking>>
tally == <<counted, failureCount, unusable>>
downloadBatchVars == <<input, links, tally, interrupted, stepNow, told>>

Idle == [method |-> 0, hop |-> 0]
Link(sort, is) == [sort |-> sort, is |-> is]
Of(sort) == {i \in DOMAIN links : links[i].sort = sort}

DownloadBatchInit ==
    /\ options \in Options /\ unparsed \in CommandLines /\ expanded = <<>> /\ asking = Idle
    /\ links = <<>> /\ counted = {} /\ failureCount = 0 /\ unusable = 0
    /\ interrupted = FALSE /\ stepNow = "expand" /\ told = <<>>

-----------------------------------------------------------------------------
(* What becomes of one link.                                               *)

NoJob == failureCount' = failureCount + 1 /\ links' = Append(links, Link("none", "failed"))
Job(sort) == links' = Append(links, Link(sort, "waiting")) /\ UNCHANGED failureCount
Becomes(k) == IF IsSort(k) THEN Job(k) ELSE NoJob

Opened == {"file", "folder"}                       \* inside a password link
Inside == {"file", "node", "folder", "password"}   \* inside mega://enc

(* First pass: a link that cannot be parsed is counted, an ELC container is  *)
(* replaced by what it holds, all others are kept.                           *)
ParseLink ==
    /\ stepNow = "expand" /\ asking = Idle /\ unparsed # <<>>
    /\ LET k == Head(unparsed) IN
       \/ /\ k = "elc" /\ asking' = [method |-> 1, hop |-> 0]
          /\ UNCHANGED <<unparsed, expanded, links, failureCount>>
       \/ /\ k \in {"garbage", "elc"} /\ NoJob
          /\ unparsed' = Tail(unparsed) /\ UNCHANGED <<expanded, asking>>
       \/ /\ k \notin {"garbage", "elc"} /\ expanded' = Append(expanded, k)
          /\ unparsed' = Tail(unparsed) /\ UNCHANGED <<asking, links, failureCount>>
    /\ UNCHANGED <<options, counted, unusable, interrupted, stepNow, told>>

(* Second pass: wrappers are resolved and the link becomes a job, or not.    *)
ClassifyLink ==
    /\ stepNow = "classify" /\ asking = Idle /\ expanded # <<>>
    /\ LET k == Head(expanded) IN
       \/ k = "password" /\ options.password /\ \E o \in Opened : Becomes(o)
       \/ k = "password" /\ NoJob
       \/ k = "enc" /\ ((\E o \in Inside : Becomes(o)) \/ NoJob)
       \/ k \in {"garbage", "elc", "file", "node", "folder"} /\ Becomes(k)
    /\ expanded' = Tail(expanded)
    /\ UNCHANGED <<options, unparsed, asking, counted, unusable, interrupted, stepNow, told>>

AskCrypter ==
    /\ stepNow = "classify" /\ asking = Idle /\ expanded # <<>> /\ Head(expanded) = "crypter"
    /\ asking' = [method |-> 1, hop |-> 0]
    /\ UNCHANGED <<options, unparsed, expanded, links, tally, interrupted, stepNow, told>>

ElcAnswered(a) ==
    /\ \/ NoJob /\ UNCHANGED expanded
       \/ /\ a = "replied" /\ \E c \in Containers : expanded' = expanded \o c
          /\ UNCHANGED <<links, failureCount>>
    /\ unparsed' = Tail(unparsed) /\ asking' = Idle /\ UNCHANGED stepNow

(* A refusal to connect without a proxy is passed on and ends the command;   *)
(* one to contact that host is a ValueError, which the command takes for     *)
(* "download it through the server".                                         *)
Resolves(outcome) == outcome /\ asking' = Idle /\ expanded' = Tail(expanded) /\ UNCHANGED stepNow

\* "info", "openlink" and "dl" are asked in turn.
NextMethod ==
    \/ /\ asking.method < 3 /\ asking' = [method |-> asking.method + 1, hop |-> 0]
       /\ UNCHANGED <<expanded, links, failureCount, stepNow>>
    \/ asking.method = 3 /\ Resolves(Job("file"))

CrypterAnswered(a) ==
    /\ \/ /\ a = "noProxy" /\ stepNow' = "raised" /\ asking' = Idle
          /\ UNCHANGED <<expanded, links, failureCount>>
       \/ a = "unsafe" /\ Resolves(Job("file"))
       \/ a \in {"failed", "replied"} /\ NextMethod
       \/ a = "replied" /\ Resolves(Job("file"))
       \/ a = "replied" /\ \E k \in Kinds \ {"garbage"} : Resolves(Becomes(k))
    /\ UNCHANGED unparsed

(* One hop of _post_validated: every target is looked at before a request is *)
(* sent to it, and redirects are followed by hand.                           *)
Hop(a) ==
    /\ asking # Idle /\ stepNow \in {"expand", "classify"}
    /\ IF a = "moved" /\ asking.hop < MaxRedirects
       THEN /\ asking' = [asking EXCEPT !.hop = @ + 1]
            /\ UNCHANGED <<unparsed, expanded, links, failureCount, stepNow>>
       ELSE LET said == IF a = "moved" THEN "failed" ELSE a IN
            IF stepNow = "expand" THEN ElcAnswered(said) ELSE CrypterAnswered(said)
    /\ UNCHANGED <<options, counted, unusable, interrupted, told>>

HopAnswers == {"unsafe", "noProxy", "failed", "moved", "replied"}

-----------------------------------------------------------------------------
(* The downloads.                                                          *)

InPool(sort) ==
    /\ sort # "folder" /\ Slots > 1 /\ Cardinality(Of(sort)) > 1
    /\ ~(sort = "node" /\ options.select)

EndedAs == {"stored", "skipped", "failed", "lost"}

StartJob(i) ==
    /\ i \in Of(stepNow) /\ links[i].is = "waiting"
    /\ \A e \in Of(stepNow) : e < i => links[e].is # "waiting"
    /\ IF InPool(stepNow) THEN Cardinality({e \in Of(stepNow) : links[e].is = "running"}) < Slots
       ELSE \A e \in Of(stepNow) : e < i => e \in counted
    /\ links' = [links EXCEPT ![i].is = "running"]
    /\ UNCHANGED <<input, tally, interrupted, stepNow, told>>

(* Whatever is raised, the answer is yes or no.  One failed file fails its   *)
(* folder; "none" in the picker of --select is a yes.                        *)
FileEnds == {"stored", "failed"}
FolderEnds == FileEnds \cup (IF options.select THEN {"skipped"} ELSE {})

EndJob(i) ==
    /\ links[i].is = "running"
    /\ \E is \in IF links[i].sort = "file" THEN FileEnds ELSE FolderEnds :
          links' = [links EXCEPT ![i].is = is]
    /\ UNCHANGED <<input, tally, interrupted, stepNow, told>>

(* The main thread takes outcomes in the order in which they come.           *)
CountJob(i) ==
    /\ i \in Of(stepNow) \ counted /\ links[i].is \in EndedAs /\ ~interrupted
    /\ counted' = counted \cup {i}
    /\ failureCount' = IF links[i].is = "failed" THEN failureCount + 1 ELSE failureCount
    /\ UNCHANGED <<input, links, unusable, interrupted, stepNow, told>>

(* Ctrl-C: a pool is left only when all its jobs have run, waiting ones too; *)
(* what runs in the main thread is broken off.                               *)
CtrlC ==
    /\ stepNow \in {"expand", "classify", "report"} \/ IsSort(stepNow)
    /\ ~interrupted
    /\ IF InPool(stepNow) THEN interrupted' = TRUE /\ UNCHANGED <<links, stepNow>>
       ELSE /\ stepNow' = "raised" /\ UNCHANGED interrupted
            /\ links' = [i \in DOMAIN links |->
                    IF links[i].is = "running" THEN Link(links[i].sort, "lost") ELSE links[i]]
    /\ UNCHANGED <<input, tally, told>>

LeavePool ==
    /\ interrupted /\ stepNow # "raised"
    /\ \A i \in Of(stepNow) : links[i].is \in EndedAs
    /\ stepNow' = "raised"
    /\ UNCHANGED <<input, links, tally, interrupted, told>>

-----------------------------------------------------------------------------
(* The steps of the command, and its end.                                  *)

NextStep ==
    /\ asking = Idle /\ ~interrupted
    /\ \/ stepNow = "expand" /\ unparsed = <<>> /\ stepNow' = "classify" /\ UNCHANGED unusable
       \/ /\ stepNow = "classify" /\ expanded = <<>> /\ stepNow' = Sorts[1]
          /\ unusable' = failureCount
       \/ /\ \E s \in DOMAIN Sorts :
                /\ stepNow = Sorts[s]
                /\ stepNow' = IF s = Len(Sorts) THEN "report" ELSE Sorts[s + 1]
          /\ Of(stepNow) \subseteq counted /\ UNCHANGED unusable
    /\ UNCHANGED <<input, links, counted, failureCount, interrupted, told>>

\* Variant (bug): links that never became a job are left out.
AttemptedJobs == Cardinality(UNION {Of(Sorts[s]) : s \in DOMAIN Sorts})

Attempted == Cardinality(UNION {Of(Sorts[s]) : s \in DOMAIN Sorts}) + unusable

(* The hook is not run for a batch in which nothing was attempted.           *)
Report ==
    /\ stepNow = "report" /\ stepNow' = "told"
    /\ told' = IF Attempted > 0 THEN <<Attempted - failureCount, failureCount>> ELSE <<>>
    /\ UNCHANGED <<input, links, tally, interrupted>>

DownloadBatchNext ==
    \/ ParseLink \/ ClassifyLink \/ AskCrypter
    \/ \E a \in HopAnswers : Hop(a)
    \/ \E i \in DOMAIN links : StartJob(i) \/ EndJob(i) \/ CountJob(i)
    \/ CtrlC \/ LeavePool \/ NextStep \/ Report

DownloadBatchSpec == DownloadBatchInit /\ [][DownloadBatchNext]_downloadBatchVars

-----------------------------------------------------------------------------
WentWell == {i \in DOMAIN links : links[i].is \in {"stored", "skipped"}}

(* The report tells the truth: when the hook runs, and the exit status is    *)
(* chosen, every link that was given or came out of a container has been     *)
(* attempted, none is still at work, and each is counted once, on the side it *)
(* belongs to (download_cmd.py:492-494, docs/CONFIG.md:146).                  *)
ReportTellsTruth ==
    stepNow = "told" =>
        /\ unparsed = <<>> /\ expanded = <<>>
        /\ \A i \in DOMAIN links : links[i].is \in {"stored", "skipped", "failed"}
        /\ told = IF links = <<>> THEN <<>>
                  ELSE <<Cardinality(WentWell), Len(links) - Cardinality(WentWell)>>
        /\ failureCount = Len(links) - Cardinality(WentWell)
=============================================================================
