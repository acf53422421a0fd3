----------------------------- MODULE MCServices -----------------------------
(***************************************************************************)
(* What must end, for TLC: calls to the API of MEGA, the server that       *)
(* streams to local players, and a batch of uploads over several accounts. *)
(* They share no state, so a behaviour has one of them at work and the     *)
(* others at rest.                                                         *)
(***************************************************************************)
EXTENDS ApiCalls, StreamServer, UploadBatch, TLC

CONSTANTS c1, c2, c3, here, there, a1, a2

\* Forced without --proxy, forced with it, and free to go direct.
SettingsMC == {[static |-> FALSE, force |-> TRUE], [static |-> TRUE, force |-> TRUE],
               [static |-> FALSE, force |-> FALSE]}

\* Two connections of one client and one of another.
PeerMC == [c \in {c1, c2, c3} |-> IF c = c3 THEN there ELSE here]

(* The whole file; a range that begins within a cipher block and ends before *)
(* the file does; its last bytes; ranges that are answered at once.          *)
Whole == [auth |-> TRUE, head |-> FALSE, unit |-> "none", first |-> Open, last |-> Open]
Span(first, last) == [Whole EXCEPT !.unit = "bytes", !.first = first, !.last = last]
RequestsMC ==
    {Whole, Span(2, 3), Span(Open, 2), Span(4, 9), Span(9, Open), Span(3, 2), Span(Open, Open),
     [Whole EXCEPT !.auth = FALSE], [Whole EXCEPT !.head = TRUE]}

SizesMC == <<1, 2, 1>>

\* Flat files, and a directory among files.
TreesMC == {{}, {2}}

\* Cached quotas that are right, and one that is stale.
KnownMC == a1 :> 3 @@ a2 :> 2
RoomsMC == {KnownMC, a1 :> 1 @@ a2 :> 2}

ApiAtRest ==
    /\ client = [static |-> FALSE, force |-> FALSE]
    /\ call = [c \in Calls |-> [NewSend EXCEPT !.pc = "ok"]]
    /\ pool = [p \in Proxies |-> [failures |-> 0, rest |-> 0]]
    /\ ticks = MaxTicks
    /\ applied = [c \in Calls |-> 1] /\ faults = [p \in Proxies |-> 0]

BatchAtRest ==
    /\ trees = {} /\ fixed = NoAccount /\ ledger = Known /\ clients = {} /\ loginLock = 0
    /\ pc = [j \in Jobs |-> "failed"] /\ email = [j \in Jobs |-> NoAccount]
    /\ attempted = [j \in Jobs |-> {}] /\ live = [j \in Jobs |-> 0]
    /\ escaped = FALSE /\ main = "reported"
    /\ room = Known /\ landed = [j \in Jobs |-> 0]
    /\ logins = [a \in Accounts |-> 0]

ServicesInit ==
    /\ StreamInit
    /\ \/ Init /\ BatchAtRest
       \/ ApiAtRest /\ BatchAtRest
       \/ ApiAtRest /\ BatchInit

ServerStep(c) == ApiAtRest /\ BatchAtRest /\ ConnStep(c) /\ UNCHANGED <<vars, batchVars>>

ServicesNext ==
    \/ Next /\ ~ApiAtRest /\ UNCHANGED <<streamVars, batchVars>>
    \/ \E c \in Conns : ServerStep(c)
    \/ BatchNext /\ UNCHANGED <<vars, streamVars>>

ServicesSpec ==
    /\ ServicesInit /\ [][ServicesNext]_<<vars, streamVars, batchVars>>
    /\ Fairness /\ BatchFairness
    /\ \A c \in Conns : WF_<<vars, streamVars, batchVars>>(ServerStep(c))
=============================================================================
