------------------------------ MODULE ApiCalls ------------------------------
(***************************************************************************)
(* Calls to the MEGA API (core/api.py) over a network that loses requests  *)
(* and answers: the retry policy of each kind of command, the hashcash     *)
(* challenges of one send and their common budget (core/hashcash.py), and  *)
(* the proxy that carries each send (proxy/selector.py,                    *)
(* proxy/smart_proxy.py).  The calls run concurrently, each on a client of *)
(* its own (MegaAPIClient.clone), and share the pool.                      *)
(***************************************************************************)
EXTENDS Integers, FiniteSets

CONSTANTS Mutating,     \* calls whose action is not in READ_ONLY_ACTIONS
          Reading,      \* calls whose action is
          Proxies,      \* the pool; empty when there is none or --proxy is given
          Settings,     \* what a client may be built with: --proxy, force_smart_proxy
          Attempts,     \* RETRY_ATTEMPTS
          Posts,        \* requests of one send: the first and its hashcash retries
          Budget,       \* HASHCASH_TOTAL_BUDGET_S, in ticks
          Native,       \* whether a native hashcash solver is installed
          MaxFailures,  \* MAX_FAILURES
          Cooldown,     \* COOLDOWN_SECONDS, in ticks
          MaxTicks      \* bound: ticks of the clock of the pool

Calls == Mutating \cup Reading

\* is_mutating: a call whose actions are not all known to be harmless mutates.
Reads(c) == c \in Reading

StaticProxy == "static"
Direct == "direct"
NoRoute == "none"

ASSUME ApiAssumption ==
    /\ Mutating \cap Reading = {}
    /\ {StaticProxy, Direct, NoRoute} \cap Proxies = {}
    /\ Settings \subseteq [static : BOOLEAN, force : BOOLEAN]
    /\ Attempts \in Nat \ {0} /\ Posts \in Nat \ {0}
    /\ Budget \in Nat /\ Native \in BOOLEAN /\ MaxFailures \in Nat \ {0}
    /\ Cooldown \in Nat \ {0} /\ MaxTicks \in Nat

VARIABLES
    client, \* the settings of the clients
    call,   \* each call: where it is, its sends and posts so far, how it ended
    pool,   \* each proxy: failures counted against it, time left on cool-down
    ticks,  \* ticks of the clock so far

    \* what really happened, which no program sees
    applied,  \* how often the server applied the command of each call
    faults    \* how often each proxy failed to carry a request

vars == <<client, call, pool, ticks, applied, faults>>

Routes == Proxies \cup {StaticProxy, Direct}

Ended == {"ok", "ambiguous", "declined", "unreachable", "lost", "refused",
          "http", "unusable", "error", "challenge", "budget"}
Steps == {"select", "post", "solve"}

NewSend == [pc |-> "select", sends |-> 1, posts |-> 0, route |-> NoRoute, time |-> 0, solving |-> 0]

Init ==
    /\ client \in Settings
    /\ call = [c \in Calls |-> NewSend]
    /\ pool = [p \in Proxies |-> [failures |-> 0, rest |-> 0]]
    /\ ticks = 0
    /\ applied = [c \in Calls |-> 0]
    /\ faults = [p \in Proxies |-> 0]

Ends(c, how) == call' = [call EXCEPT ![c].pc = how]

-----------------------------------------------------------------------------
(* The proxy of a send *)

Available == {p \in Proxies : pool[p].rest = 0}

(* select: a proxy of the pool that is not on cool-down, else the static    *)
(* proxy, else none, which force mode refuses.  The deadline of the         *)
(* hashcash phase starts here.                                              *)
Select(c) ==
    /\ call[c].pc = "select"
    /\ LET takes(r) == call' = [call EXCEPT ![c].pc = "post", ![c].route = r]
       IN  \/ \E p \in Available : takes(p)
           \/ Available = {} /\ client.static /\ takes(StaticProxy)
           \/ Available = {} /\ ~client.static /\ ~client.force /\ takes(Direct)
           \/ Available = {} /\ ~client.static /\ client.force /\ Ends(c, "refused")
    /\ UNCHANGED <<client, pool, ticks, applied, faults>>

\* report_failure of the pool.
Blamed(p) ==
    LET n == pool[p].failures + 1
    IN  [failures |-> n, rest |-> IF n >= MaxFailures THEN Cooldown ELSE pool[p].rest]

\* report_success of the pool.
Credited(p) == [pool[p] EXCEPT !.failures = IF @ > 0 THEN @ - 1 ELSE 0]

\* Only a proxy that was picked from the pool is blamed or credited.
Blame(c) ==
    pool' = IF call[c].route \in Proxies
            THEN [pool EXCEPT ![call[c].route] = Blamed(call[c].route)] ELSE pool

Credit(c) ==
    pool' = IF call[c].route \in Proxies
            THEN [pool EXCEPT ![call[c].route] = Credited(call[c].route)] ELSE pool

\* What really happened is that the proxy failed.
Fault(c) ==
    faults' = IF call[c].route \in Proxies
              THEN [faults EXCEPT ![call[c].route] = @ + 1] ELSE faults

-----------------------------------------------------------------------------
(* What ends a send, and whether the call sends again *)

Again(c) == call' = [call EXCEPT ![c] = [NewSend EXCEPT !.sends = call[c].sends + 1]]

\* Variant (bug): every transport error of a mutating call is retried.
AlwaysRetried(c, why) == why \in {"declined", "unreachable", "lost"}

(* _send_mutating and _send_retrying: -4 and a connection never made are    *)
(* retried in both, a connection lost in flight only if the call reads.     *)
Retried(c, why) ==
    \/ why \in {"declined", "unreachable"}
    \/ why = "lost" /\ Reads(c)

\* Variant (bug): a connection lost in flight passes for one that was never made.
RaisedAsUnsent(c, why) == IF why = "lost" THEN "unreachable" ELSE why

\* The exception that reaches the caller once nothing is retried any more.
Raised(c, why) == IF why = "lost" /\ ~Reads(c) THEN "ambiguous" ELSE why

\* Variant (bug): nothing counts the attempts.
FailsForever(c, why) ==
    IF Retried(c, why)
    THEN call' = [call EXCEPT ![c] = NewSend] ELSE Ends(c, Raised(c, why))

(* tenacity: up to RETRY_ATTEMPTS sends, then the last exception (reraise). *)
Fails(c, why) ==
    IF Retried(c, why) /\ call[c].sends < Attempts
    THEN Again(c) ELSE Ends(c, Raised(c, why))

Apply(c) == applied' = [applied EXCEPT ![c] = @ + 1]

-----------------------------------------------------------------------------
(* One request of a send, and what comes back *)

Posting(c) == call[c].pc = "post"

(* The connection is not made: a proxy that is down, or a server that does  *)
(* not answer.  requests raises ConnectTimeout, and nothing was sent.       *)
ConnectTimeout(c) ==
    /\ Posting(c)
    /\ Blame(c) /\ Fault(c)
    /\ Fails(c, "unreachable")
    /\ UNCHANGED <<client, ticks, applied>>

\* The connection breaks, or the answer is late: the server may have applied the command.
ConnectionLost(c) ==
    /\ Posting(c)
    /\ \/ Apply(c)
       \/ UNCHANGED applied
    /\ Blame(c) /\ Fault(c)
    /\ Fails(c, "lost")
    /\ UNCHANGED <<client, ticks>>

(* HTTP 402 with a challenge: the request was declined.  The challenge is   *)
(* solved even when no request is left for its solution.                    *)
Challenge(c) ==
    /\ Posting(c)
    /\ \E t \in {0, 1} :
         call' = [call EXCEPT ![c].time = @ + t, ![c].posts = @ + 1,
                              ![c].pc = IF call[c].time + t >= Budget THEN "budget" ELSE "solve"]
    /\ UNCHANGED <<client, pool, ticks, applied, faults>>

\* Variant (bug): each challenge has the whole budget.
WholeBudget(c) == Budget

\* What is left of the budget of the send.
TimeLeft(c) == Budget - call[c].time

(* What solving one challenge may take: a native solver that fails leaves    *)
(* the threads of this process the whole time again.                        *)
SolverTime(c) == IF Native THEN 2 * TimeLeft(c) ELSE TimeLeft(c)

Spent(c, t, then) ==
    call' = [call EXCEPT ![c].time = @ + t, ![c].solving = @ + t, ![c].pc = then]

(* build_solution_header.  With no request left for the solution, the send  *)
(* ends with the status of the last one.                                    *)
Solve(c) ==
    /\ call[c].pc = "solve"
    /\ \E t \in 1 .. SolverTime(c) : Spent(c, t, IF call[c].posts < Posts THEN "post" ELSE "http")
    /\ UNCHANGED <<client, pool, ticks, applied, faults>>

\* A challenge that is not solved in time is the end of the budget.
Unsolved(c) ==
    /\ call[c].pc = "solve"
    /\ Spent(c, SolverTime(c), "budget")
    /\ UNCHANGED <<client, pool, ticks, applied, faults>>

\* parse_challenge: a malformed challenge is an error of its own.
BadChallenge(c) ==
    /\ call[c].pc = "solve"
    /\ Ends(c, "challenge")
    /\ UNCHANGED <<client, pool, ticks, applied, faults>>

\* HTTP 407 is the proxy's own refusal.
ProxyRefuses(c) ==
    /\ Posting(c) /\ call[c].route # Direct
    /\ Blame(c) /\ Fault(c)
    /\ Ends(c, "http")
    /\ UNCHANGED <<client, ticks, applied>>

\* Variant (bug): any HTTP error is held against the proxy.
BlamingHttpError(c) ==
    /\ Posting(c)
    /\ \/ Apply(c)
       \/ UNCHANGED applied
    /\ Blame(c)
    /\ Ends(c, "http")
    /\ UNCHANGED <<client, ticks, faults>>

\* Every other HTTP error is the server's, and says nothing about the proxy.
HttpError(c) ==
    /\ Posting(c)
    /\ \/ Apply(c)
       \/ UNCHANGED applied
    /\ Ends(c, "http")
    /\ UNCHANGED <<client, pool, ticks, faults>>

(* The status is 200 and the body is not JSON, or too large: a captive      *)
(* portal between the client and the server, or beyond it.                  *)
UnusableBody(c) ==
    /\ Posting(c)
    /\ \/ Apply(c)
       \/ UNCHANGED applied
    /\ Blame(c) /\ Fault(c)
    /\ Ends(c, "unusable")
    /\ UNCHANGED <<client, ticks>>

\* The connection breaks while the body is read, outside the try that blames the proxy.
BodyLost(c) ==
    /\ Posting(c)
    /\ \/ Apply(c)
       \/ UNCHANGED applied
    /\ Fails(c, "lost")
    /\ UNCHANGED <<client, pool, ticks, faults>>

\* A usable body: the proxy is credited before the code in it is looked at.
RateLimited(c) ==
    /\ Posting(c)
    /\ Credit(c)
    /\ Fails(c, "declined")
    /\ UNCHANGED <<client, ticks, applied, faults>>

ErrorCode(c) ==
    /\ Posting(c)
    /\ Credit(c)
    /\ Ends(c, "error")
    /\ UNCHANGED <<client, ticks, applied, faults>>

Result(c) ==
    /\ Posting(c)
    /\ Credit(c)
    /\ Apply(c)
    /\ Ends(c, "ok")
    /\ UNCHANGED <<client, ticks, faults>>

Answer(c) ==
    \/ ConnectTimeout(c) \/ ConnectionLost(c) \/ Challenge(c)
    \/ ProxyRefuses(c) \/ HttpError(c) \/ UnusableBody(c) \/ BodyLost(c)
    \/ RateLimited(c) \/ ErrorCode(c) \/ Result(c)

\* The clock of the pool: a cool-down runs out.
Tick ==
    /\ ticks < MaxTicks
    /\ ticks' = ticks + 1
    /\ pool' = [p \in Proxies |-> [pool[p] EXCEPT !.rest = IF @ > 0 THEN @ - 1 ELSE 0]]
    /\ UNCHANGED <<client, call, applied, faults>>

CallStep(c) == Select(c) \/ Answer(c) \/ Solve(c) \/ Unsolved(c) \/ BadChallenge(c)

Next == Tick \/ \E c \in Calls : CallStep(c)

Spec == Init /\ [][Next]_vars

\* requests gives every request a time-out, and a solver its deadline.
Fairness == \A c \in Calls : WF_vars(CallStep(c))
FairSpec == Spec /\ Fairness

-----------------------------------------------------------------------------
(* Properties *)

(* Type invariant: what the variables hold, for every call and every proxy. *)
TypeOK ==
    /\ client \in Settings
    /\ call \in [Calls -> [pc : Steps \cup Ended, sends : 1 .. Attempts, posts : 0 .. Posts,
                           route : Routes \cup {NoRoute}, time : Nat, solving : Nat]]
    /\ pool \in [Proxies -> [failures : Nat, rest : 0 .. Cooldown]]
    /\ ticks \in 0 .. MaxTicks
    /\ applied \in [Calls -> Nat] /\ faults \in [Proxies -> Nat]

(* A state-changing command is applied at most once, whatever the network   *)
(* loses and however often the call retries (api.py:314-331: replaying is   *)
(* "how duplicate nodes, double imports and double moves happen").          *)
AppliedAtMostOnce == \A c \in Mutating : applied[c] <= 1

(* The exception tells the truth: a caller that is told that its change was *)
(* declined, was never sent or needs a proxy may repeat it, because nothing *)
(* was applied, and one that has a result had it applied.                   *)
OutcomeTellsTruth ==
    \A c \in Mutating :
        /\ call[c].pc \in {"declined", "unreachable", "refused", "challenge", "budget"}
               => applied[c] = 0
        /\ call[c].pc = "ok" => applied[c] = 1

(* A proxy is put on cool-down only by faults of its own: MEGA-side errors  *)
(* never count against it (api.py:124-129, "three MEGA-side 503s used to    *)
(* put a blameless proxy on a 60s cooldown").                               *)
BlamelessProxyServes ==
    \A p \in Proxies :
        /\ pool[p].failures <= faults[p]
        /\ pool[p].rest > 0 => faults[p] >= MaxFailures

(* All the challenges of one send share one budget (api.py:117-120, "the    *)
(* cap for the whole phase, so extra attempts cost patience, not minutes"). *)
HashcashWithinBudget == \A c \in Calls : call[c].solving <= Budget

(* force_smart_proxy: no request goes out without a proxy, however many of  *)
(* them are on cool-down.                                                   *)
ForcedNeverDirect == client.force => \A c \in Calls : call[c].route # Direct

(* Every call ends, under every policy: retries and challenges are bounded. *)
CallsEnd == \A c \in Calls : <>(call[c].pc \in Ended)
=============================================================================
