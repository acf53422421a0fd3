--------------------------- MODULE ApiCallsProofs ---------------------------
(***************************************************************************)
(* Proofs about ApiCalls for any number of calls and proxies, any number   *)
(* of attempts and any budget: type correctness, that a command is applied *)
(* at most once and its outcome tells the truth, that a proxy rests only   *)
(* for faults of its own, that the challenges of a send share one budget,  *)
(* and that force mode never goes out without a proxy.                     *)
(***************************************************************************)
EXTENDS ApiCalls, TLAPS

CallRecord == [pc : Steps \cup Ended, sends : 1 .. Attempts, posts : 0 .. Posts,
               route : Routes \cup {NoRoute}, time : Nat, solving : Nat]

\* A request is made only while the send has one left.
RequestLeft == \A c \in Calls : call[c].pc \in {"select", "post"} => call[c].posts < Posts

TypeInv == TypeOK /\ RequestLeft

\* Every step but Tick changes one call, and only that one.
LEMMA StepOfOneCall ==
    ASSUME TypeOK, NEW c \in Calls, CallStep(c)
    PROVE  \A d \in Calls : d # c => call'[d] = call[d] /\ applied'[d] = applied[d]
<1> USE DEF TypeOK, Ends, Again, Fails, Apply, Spent
<1>1. CASE Select(c) BY <1>1 DEF Select
<1>2. CASE Answer(c)
  <2> USE DEF Answer
  <2>1. CASE ConnectTimeout(c) BY <2>1 DEF ConnectTimeout
  <2>2. CASE ConnectionLost(c) BY <2>2 DEF ConnectionLost
  <2>3. CASE Challenge(c) BY <2>3 DEF Challenge
  <2>4. CASE ProxyRefuses(c) BY <2>4 DEF ProxyRefuses
  <2>5. CASE HttpError(c) BY <2>5 DEF HttpError
  <2>6. CASE UnusableBody(c) BY <2>6 DEF UnusableBody
  <2>7. CASE BodyLost(c) BY <2>7 DEF BodyLost
  <2>8. CASE RateLimited(c) BY <2>8 DEF RateLimited
  <2>9. CASE ErrorCode(c) BY <2>9 DEF ErrorCode
  <2>10. CASE Result(c) BY <2>10 DEF Result
  <2> QED BY <1>2, <2>1, <2>2, <2>3, <2>4, <2>5, <2>6, <2>7, <2>8, <2>9, <2>10
<1>3. CASE Solve(c) BY <1>3 DEF Solve
<1>4. CASE Unsolved(c) BY <1>4 DEF Unsolved
<1>5. CASE BadChallenge(c) BY <1>5 DEF BadChallenge
<1> QED BY <1>1, <1>2, <1>3, <1>4, <1>5 DEF CallStep

-----------------------------------------------------------------------------
(* Type correctness *)

LEMMA AgainType ==
    ASSUME TypeInv, NEW c \in Calls, call[c].sends < Attempts
    PROVE  [NewSend EXCEPT !.sends = call[c].sends + 1] \in CallRecord
BY ApiAssumption DEF TypeInv, TypeOK, CallRecord, NewSend, Steps

LEMMA NewSendType == NewSend \in CallRecord /\ NewSend.posts < Posts
BY ApiAssumption DEF CallRecord, NewSend, Steps

LEMMA EndType ==
    ASSUME NEW r \in CallRecord, NEW how \in Ended
    PROVE  [r EXCEPT !.pc = how] \in CallRecord
BY DEF CallRecord

\* Whatever ends a send, the call ends or sends again.
LEMMA FailsType ==
    ASSUME TypeInv, NEW c \in Calls, NEW why \in {"declined", "unreachable", "lost"}, Fails(c, why)
    PROVE  /\ call' \in [Calls -> CallRecord]
           /\ call'[c].pc \in {"select", "post"} => call'[c].posts < Posts
<1> USE DEF TypeInv, TypeOK
<1>0. call \in [Calls -> CallRecord] BY DEF CallRecord
<1>1. Raised(c, why) \in Ended /\ Raised(c, why) \notin {"select", "post"} BY DEF Raised, Ended
<1>2. CASE Retried(c, why) /\ call[c].sends < Attempts
  <2>1. call' = [call EXCEPT ![c] = [NewSend EXCEPT !.sends = call[c].sends + 1]]
    BY <1>2 DEF Fails, Again
  <2>2. [NewSend EXCEPT !.sends = call[c].sends + 1] \in CallRecord BY <1>2, AgainType
  <2>3. call' \in [Calls -> CallRecord] BY <1>0, <2>1, <2>2
  <2>4. call'[c].posts = NewSend.posts BY <1>0, <2>1 DEF NewSend
  <2> QED BY <2>3, <2>4, NewSendType
<1>3. CASE ~(Retried(c, why) /\ call[c].sends < Attempts)
  <2>1. call' = [call EXCEPT ![c].pc = Raised(c, why)] BY <1>3 DEF Fails, Ends
  <2>2. [call[c] EXCEPT !.pc = Raised(c, why)] \in CallRecord BY <1>0, <1>1, EndType
  <2>3. call' \in [Calls -> CallRecord] BY <1>0, <2>1, <2>2
  <2>4. call'[c].pc = Raised(c, why) BY <1>0, <2>1 DEF CallRecord
  <2> QED BY <1>1, <2>3, <2>4
<1> QED BY <1>2, <1>3

LEMMA EndsType ==
    ASSUME TypeInv, NEW c \in Calls, NEW how \in Ended, Ends(c, how)
    PROVE  /\ call' \in [Calls -> CallRecord]
           /\ call'[c].pc \in {"select", "post"} => call'[c].posts < Posts
<1>0. call \in [Calls -> CallRecord] BY DEF TypeInv, TypeOK, CallRecord
<1>1. call'[c] = [call[c] EXCEPT !.pc = how] BY <1>0 DEF Ends
<1>2. how \notin {"select", "post"} BY DEF Ended
<1>3. call'[c].pc = how BY <1>0, <1>1 DEF CallRecord
<1>4. [call[c] EXCEPT !.pc = how] \in CallRecord BY <1>0, EndType
<1> QED BY <1>0, <1>2, <1>3, <1>4 DEF Ends

LEMMA PoolType ==
    ASSUME TypeOK, NEW c \in Calls, Blame(c) \/ Credit(c) \/ pool' = pool
    PROVE  pool' \in [Proxies -> [failures : Nat, rest : 0 .. Cooldown]]
<1> USE DEF TypeOK
<1>1. ASSUME NEW p \in Proxies PROVE Blamed(p) \in [failures : Nat, rest : 0 .. Cooldown]
  BY ApiAssumption DEF Blamed
<1>2. ASSUME NEW p \in Proxies PROVE Credited(p) \in [failures : Nat, rest : 0 .. Cooldown]
  BY DEF Credited
<1> QED BY <1>1, <1>2 DEF Blame, Credit

LEMMA CountType ==
    ASSUME TypeOK, NEW c \in Calls
    PROVE  /\ Apply(c) => applied' \in [Calls -> Nat]
           /\ Fault(c) => faults' \in [Proxies -> Nat]
BY DEF TypeOK, Apply, Fault

LEMMA SpentType ==
    ASSUME TypeInv, NEW c \in Calls, NEW t \in Nat, NEW then \in {"post", "http", "budget"},
           Spent(c, t, then), then = "post" => call[c].posts < Posts
    PROVE  /\ call' \in [Calls -> CallRecord]
           /\ call'[c].pc \in {"select", "post"} => call'[c].posts < Posts
<1>0. call \in [Calls -> CallRecord] BY DEF TypeInv, TypeOK, CallRecord
<1>1. call[c].time + t \in Nat /\ call[c].solving + t \in Nat BY <1>0 DEF CallRecord
<1>2. [call[c] EXCEPT !.time = call[c].time + t, !.solving = call[c].solving + t, !.pc = then]
        \in CallRecord
  BY <1>0, <1>1 DEF CallRecord, Steps, Ended
<1>3. call'[c] = [call[c] EXCEPT !.time = call[c].time + t, !.solving = call[c].solving + t,
                                !.pc = then]
  BY <1>0 DEF Spent
<1>4. call'[c].pc = then /\ call'[c].posts = call[c].posts BY <1>0, <1>3 DEF CallRecord
<1>5. call' \in [Calls -> CallRecord] BY <1>0, <1>2 DEF Spent
<1> QED BY <1>4, <1>5

LEMMA TypeInit == Init => TypeInv
<1> SUFFICES ASSUME Init PROVE TypeInv OBVIOUS
<1>1. call \in [Calls -> CallRecord] /\ RequestLeft BY NewSendType DEF Init, RequestLeft
<1>2. pool \in [Proxies -> [failures : Nat, rest : 0 .. Cooldown]] BY ApiAssumption DEF Init
<1>3. ticks \in 0 .. MaxTicks BY ApiAssumption DEF Init
<1> QED BY <1>1, <1>2, <1>3 DEF Init, TypeInv, TypeOK, CallRecord

LEMMA TimeLeftType ==
    ASSUME TypeInv, NEW c \in Calls
    PROVE  TimeLeft(c) \in Int /\ SolverTime(c) \in Int
BY ApiAssumption DEF TypeInv, TypeOK, TimeLeft, SolverTime

\* While a challenge is being solved there is time left.
TimeRemains == \A c \in Calls : call[c].pc = "solve" => call[c].time < Budget

LEMMA TypeNext == TypeInv /\ TimeRemains /\ [Next]_vars => TypeInv'
<1> SUFFICES ASSUME TypeInv, TimeRemains, [Next]_vars PROVE TypeInv' OBVIOUS
<1> DEFINE CallsOK == call' \in [Calls -> CallRecord]
           LeftOK(c) == call'[c].pc \in {"select", "post"} => call'[c].posts < Posts
           OthersOK == /\ client' \in Settings
                       /\ pool' \in [Proxies -> [failures : Nat, rest : 0 .. Cooldown]]
                       /\ ticks' \in 0 .. MaxTicks
                       /\ applied' \in [Calls -> Nat] /\ faults' \in [Proxies -> Nat]
<1>0. TypeOK /\ RequestLeft /\ call \in [Calls -> CallRecord] BY DEF TypeInv, TypeOK, CallRecord
<1>1. ASSUME NEW c \in Calls, CallStep(c) PROVE CallsOK /\ LeftOK(c) /\ OthersOK
  <2> USE <1>0
  <2>a. client \in Settings /\ ticks \in 0 .. MaxTicks /\ applied \in [Calls -> Nat]
        /\ faults \in [Proxies -> Nat]
    BY DEF TypeOK
  <2>1. CASE Select(c)
    <3>1. OthersOK BY <2>1, <2>a, PoolType DEF Select
    <3>2. CASE Ends(c, "refused") BY <3>1, <3>2, EndsType DEF Ended
    <3>3. ASSUME NEW r \in Routes, call' = [call EXCEPT ![c].pc = "post", ![c].route = r]
          PROVE  CallsOK /\ LeftOK(c)
      <4>1. call[c].posts < Posts BY <2>1 DEF Select, RequestLeft
      <4>2. [call[c] EXCEPT !.pc = "post", !.route = r] \in CallRecord
        BY DEF CallRecord, Steps
      <4> QED BY <3>3, <4>1, <4>2 DEF CallRecord
    <3> QED BY <2>1, <3>1, <3>2, <3>3 DEF Select, Available, Routes
  <2>2. CASE ConnectTimeout(c)
    <3> QED BY <2>2, <2>a, FailsType, PoolType, CountType DEF ConnectTimeout
  <2>3. CASE ConnectionLost(c)
    <3> QED BY <2>3, <2>a, FailsType, PoolType, CountType DEF ConnectionLost
  <2>4. CASE Challenge(c)
    <3>1. OthersOK BY <2>4, <2>a, PoolType DEF Challenge
    <3>2. PICK t \in {0, 1} :
            call' = [call EXCEPT ![c].time = @ + t, ![c].posts = @ + 1,
                              ![c].pc = IF call[c].time + t >= Budget THEN "budget" ELSE "solve"]
      BY <2>4 DEF Challenge
    <3>3. call[c].posts < Posts BY <2>4 DEF Challenge, Posting, RequestLeft
    <3>4. call[c].posts + 1 \in 0 .. Posts /\ call[c].time + t \in Nat
      BY <3>3, ApiAssumption DEF CallRecord
    <3>5. [call[c] EXCEPT !.time = call[c].time + t, !.posts = call[c].posts + 1,
             !.pc = IF call[c].time + t >= Budget THEN "budget" ELSE "solve"] \in CallRecord
      BY <3>4 DEF CallRecord, Steps, Ended
    <3> QED BY <3>1, <3>2, <3>5 DEF CallRecord
  <2>5. CASE ProxyRefuses(c)
    BY <2>5, <2>a, EndsType, PoolType, CountType DEF ProxyRefuses, Ended
  <2>6. CASE HttpError(c) BY <2>6, <2>a, EndsType, PoolType, CountType DEF HttpError, Ended
  <2>7. CASE UnusableBody(c)
    BY <2>7, <2>a, EndsType, PoolType, CountType DEF UnusableBody, Ended
  <2>8. CASE BodyLost(c) BY <2>8, <2>a, FailsType, PoolType, CountType DEF BodyLost
  <2>9. CASE RateLimited(c) BY <2>9, <2>a, FailsType, PoolType DEF RateLimited
  <2>10. CASE ErrorCode(c) BY <2>10, <2>a, EndsType, PoolType DEF ErrorCode, Ended
  <2>11. CASE Result(c) BY <2>11, <2>a, EndsType, PoolType, CountType DEF Result, Ended
  <2>12. CASE Solve(c)
    <3>1. OthersOK BY <2>12, <2>a, PoolType DEF Solve
    <3>2. PICK t \in 1 .. SolverTime(c) :
            Spent(c, t, IF call[c].posts < Posts THEN "post" ELSE "http")
      BY <2>12 DEF Solve
    <3>3. t \in Nat BY TimeLeftType
    <3> QED BY <3>1, <3>2, <3>3, SpentType
  <2>13. CASE Unsolved(c)
    <3>1. OthersOK BY <2>13, <2>a, PoolType DEF Unsolved
    <3>2. SolverTime(c) \in Nat
      BY <2>13, ApiAssumption DEF Unsolved, TimeRemains, SolverTime, TimeLeft, CallRecord
    <3> QED BY <2>13, <3>1, <3>2, SpentType DEF Unsolved
  <2>14. CASE BadChallenge(c) BY <2>14, <2>a, EndsType, PoolType DEF BadChallenge, Ended
  <2> QED BY <1>1, <2>1, <2>2, <2>3, <2>4, <2>5, <2>6, <2>7, <2>8, <2>9, <2>10, <2>11, <2>12,
             <2>13, <2>14 DEF CallStep, Answer
<1>2. ASSUME NEW c \in Calls, CallStep(c) PROVE TypeInv'
  <2>1. CallsOK /\ LeftOK(c) /\ OthersOK BY <1>1, <1>2
  <2>2. \A d \in Calls : d # c => call'[d] = call[d] BY <1>0, <1>2, StepOfOneCall
  <2> QED BY <1>0, <2>1, <2>2 DEF TypeInv, TypeOK, RequestLeft, CallRecord
<1>3. CASE Tick
  <2>1. pool' \in [Proxies -> [failures : Nat, rest : 0 .. Cooldown]]
    BY <1>0, <1>3, ApiAssumption DEF Tick, TypeOK
  <2>2. ticks' \in 0 .. MaxTicks BY <1>0, <1>3, ApiAssumption DEF Tick, TypeOK
  <2> QED BY <1>0, <1>3, <2>1, <2>2 DEF Tick, TypeInv, TypeOK, RequestLeft
<1>4. CASE UNCHANGED vars BY <1>0, <1>4 DEF vars, TypeInv, TypeOK, RequestLeft
<1> QED BY <1>2, <1>3, <1>4 DEF Next

-----------------------------------------------------------------------------
(* What a step makes of its call *)

\* Outcomes that say that nothing was applied.
Untouched == {"declined", "unreachable", "refused", "challenge", "budget"}

SameData(c) == /\ call'[c].time = call[c].time /\ call'[c].solving = call[c].solving
               /\ call'[c].route = call[c].route
SameApplied(c) == applied'[c] = applied[c]

Routed(c) == /\ call[c].pc = "select" /\ call'[c].pc = "post"
             /\ call'[c].time = call[c].time /\ call'[c].solving = call[c].solving
             /\ client.force => call'[c].route # Direct
             /\ SameApplied(c)
Repeated(c) == /\ call[c].pc = "post" /\ call'[c].pc = "select"
               /\ call'[c].time = 0 /\ call'[c].solving = 0 /\ call'[c].route = NoRoute
               /\ c \in Mutating => SameApplied(c)
Concluded(c) == /\ call[c].pc \in Steps /\ call'[c].pc \in Ended
                /\ SameData(c)
                /\ applied'[c] \in {applied[c], applied[c] + 1}
                /\ c \in Mutating /\ call'[c].pc \in Untouched => SameApplied(c)
                /\ call'[c].pc = "ok" => applied'[c] = applied[c] + 1
Challenged(c) == /\ call[c].pc = "post" /\ call'[c].pc \in {"solve", "budget"}
                 /\ call'[c].time \in {call[c].time, call[c].time + 1}
                 /\ call'[c].pc = "solve" => call'[c].time < Budget
                 /\ call'[c].solving = call[c].solving /\ call'[c].route = call[c].route
                 /\ SameApplied(c)
Solved(c) == /\ call[c].pc = "solve" /\ call'[c].pc \in {"post", "http", "budget"}
             /\ \E t \in 0 .. SolverTime(c) : /\ call'[c].time = call[c].time + t
                                              /\ call'[c].solving = call[c].solving + t
             /\ call'[c].route = call[c].route
             /\ SameApplied(c)

LEMMA FailsEffect ==
    ASSUME TypeInv, NEW c \in Calls, NEW why \in {"declined", "unreachable", "lost"},
           call[c].pc = "post", Fails(c, why), applied'[c] \in {applied[c], applied[c] + 1},
           why # "lost" => SameApplied(c)
    PROVE  Repeated(c) \/ Concluded(c)
<1>0. call \in [Calls -> CallRecord] BY DEF TypeInv, TypeOK, CallRecord
<1>1. CASE Retried(c, why) /\ call[c].sends < Attempts
  <2>1. call'[c] = [NewSend EXCEPT !.sends = call[c].sends + 1] BY <1>0, <1>1 DEF Fails, Again
  <2>2. /\ call'[c].pc = "select" /\ call'[c].time = 0 /\ call'[c].solving = 0
        /\ call'[c].route = NoRoute
    BY <2>1 DEF NewSend
  <2>3. c \in Mutating => why # "lost" BY <1>1, ApiAssumption DEF Retried, Reads
  <2> QED BY <2>2, <2>3 DEF Repeated
<1>2. CASE ~(Retried(c, why) /\ call[c].sends < Attempts)
  <2>1. call'[c] = [call[c] EXCEPT !.pc = Raised(c, why)] BY <1>0, <1>2 DEF Fails, Ends
  <2>2. call'[c].pc = Raised(c, why) /\ SameData(c) BY <1>0, <2>1 DEF CallRecord, SameData
  <2>3. Raised(c, why) \in Ended /\ Raised(c, why) # "ok" BY DEF Raised, Ended
  <2>4. Raised(c, why) \in Untouched => why # "lost" BY DEF Raised, Untouched
  <2> QED BY <2>2, <2>3, <2>4 DEF Concluded, Steps
<1> QED BY <1>1, <1>2

LEMMA EndsEffect ==
    ASSUME TypeInv, NEW c \in Calls, NEW how \in Ended, call[c].pc \in Steps, Ends(c, how),
           applied'[c] \in {applied[c], applied[c] + 1},
           how \in Untouched => SameApplied(c), how = "ok" => applied'[c] = applied[c] + 1
    PROVE  Concluded(c)
<1>0. call \in [Calls -> CallRecord] BY DEF TypeInv, TypeOK, CallRecord
<1>1. call'[c] = [call[c] EXCEPT !.pc = how] BY <1>0 DEF Ends
<1>2. call'[c].pc = how /\ SameData(c) BY <1>0, <1>1 DEF CallRecord, SameData
<1> QED BY <1>2 DEF Concluded

LEMMA SpentEffect ==
    ASSUME TypeInv, NEW c \in Calls, NEW then \in {"post", "http", "budget"},
           NEW t \in 0 .. SolverTime(c), call[c].pc = "solve", Spent(c, t, then), SameApplied(c)
    PROVE  Solved(c)
<1>0. call \in [Calls -> CallRecord] BY DEF TypeInv, TypeOK, CallRecord
<1>1. call'[c] = [call[c] EXCEPT !.time = call[c].time + t, !.solving = call[c].solving + t,
                                !.pc = then]
  BY <1>0 DEF Spent
<1>2. /\ call'[c].pc = then /\ call'[c].time = call[c].time + t
      /\ call'[c].solving = call[c].solving + t /\ call'[c].route = call[c].route
  BY <1>0, <1>1 DEF CallRecord
<1> QED BY <1>2 DEF Solved

LEMMA StepEffect ==
    ASSUME TypeInv, TimeRemains, NEW c \in Calls, CallStep(c)
    PROVE  Routed(c) \/ Repeated(c) \/ Concluded(c) \/ Challenged(c) \/ Solved(c)
<1>0. /\ call \in [Calls -> CallRecord] /\ applied \in [Calls -> Nat]
  BY DEF TypeInv, TypeOK, CallRecord
<1>a. Apply(c) => applied'[c] = applied[c] + 1 BY <1>0 DEF Apply
<1>b. applied' = applied => SameApplied(c) BY DEF SameApplied
<1>c. call[c].pc = "post" => call[c].pc \in Steps BY DEF Steps
<1>1. CASE Select(c)
  <2>1. CASE Ends(c, "refused")
    BY <1>1, <2>1, <1>b, EndsEffect DEF Select, Ended, Steps, Untouched, SameApplied
  <2>2. ASSUME NEW r \in Routes, call' = [call EXCEPT ![c].pc = "post", ![c].route = r],
               client.force => r # Direct
        PROVE  Routed(c)
    <3>1. call'[c] = [call[c] EXCEPT !.pc = "post", !.route = r] BY <1>0, <2>2
    <3>2. /\ call'[c].pc = "post" /\ call'[c].route = r /\ call'[c].time = call[c].time
          /\ call'[c].solving = call[c].solving
      BY <1>0, <3>1 DEF CallRecord
    <3> QED BY <1>1, <2>2, <3>2 DEF Routed, Select, SameApplied
  <2>3. CASE \E p \in Available : call' = [call EXCEPT ![c].pc = "post", ![c].route = p]
    BY <2>2, <2>3, ApiAssumption DEF Available, Routes
  <2>4. CASE call' = [call EXCEPT ![c].pc = "post", ![c].route = StaticProxy]
    <3>1. StaticProxy \in Routes /\ StaticProxy # Direct BY DEF Routes, StaticProxy, Direct
    <3> QED BY <2>2, <2>4, <3>1
  <2>5. CASE ~client.force /\ call' = [call EXCEPT ![c].pc = "post", ![c].route = Direct]
    BY <2>2, <2>5 DEF Routes
  <2> QED BY <1>1, <2>1, <2>3, <2>4, <2>5 DEF Select
<1>2. CASE ConnectTimeout(c) BY <1>2, <1>b, FailsEffect DEF ConnectTimeout, Posting, SameApplied
<1>3. CASE ConnectionLost(c) BY <1>3, <1>a, FailsEffect DEF ConnectionLost, Posting
<1>4. CASE Challenge(c)
  <2>1. PICK t \in {0, 1} :
          call' = [call EXCEPT ![c].time = @ + t, ![c].posts = @ + 1,
                            ![c].pc = IF call[c].time + t >= Budget THEN "budget" ELSE "solve"]
    BY <1>4 DEF Challenge
  <2>2. call'[c] = [call[c] EXCEPT !.time = call[c].time + t, !.posts = call[c].posts + 1,
                       !.pc = IF call[c].time + t >= Budget THEN "budget" ELSE "solve"]
    BY <1>0, <2>1
  <2>3. /\ call'[c].time = call[c].time + t /\ call'[c].solving = call[c].solving
        /\ call'[c].route = call[c].route
        /\ call'[c].pc = IF call[c].time + t >= Budget THEN "budget" ELSE "solve"
    BY <1>0, <2>2 DEF CallRecord
  <2>4. call[c].time \in Nat BY <1>0 DEF CallRecord
  <2>5. Challenged(c)
    BY <1>4, <2>3, <2>4, ApiAssumption DEF Challenged, Challenge, Posting, SameApplied
  <2> QED BY <2>5
<1>5. CASE ProxyRefuses(c)
  BY <1>5, <1>b, <1>c, EndsEffect DEF ProxyRefuses, Posting, Ended, SameApplied
<1>6. CASE HttpError(c)
  BY <1>6, <1>a, <1>b, <1>c, EndsEffect DEF HttpError, Posting, Ended, Untouched
<1>7. CASE UnusableBody(c)
  BY <1>7, <1>a, <1>b, <1>c, EndsEffect DEF UnusableBody, Posting, Ended, Untouched
<1>8. CASE BodyLost(c) BY <1>8, <1>a, FailsEffect DEF BodyLost, Posting
<1>9. CASE RateLimited(c) BY <1>9, <1>b, FailsEffect DEF RateLimited, Posting, SameApplied
<1>10. CASE ErrorCode(c)
  BY <1>10, <1>b, <1>c, EndsEffect DEF ErrorCode, Posting, Ended, SameApplied
<1>11. CASE Result(c)
  BY <1>11, <1>a, <1>c, EndsEffect DEF Result, Posting, Ended, Untouched
<1>12. CASE Solve(c)
  <2>1. PICK t \in 1 .. SolverTime(c) :
          Spent(c, t, IF call[c].posts < Posts THEN "post" ELSE "http")
    BY <1>12 DEF Solve
  <2>2. t \in 0 .. SolverTime(c) BY TimeLeftType
  <2> QED BY <1>12, <2>1, <2>2, SpentEffect DEF Solve, SameApplied
<1>13. CASE Unsolved(c)
  <2>1. SolverTime(c) \in 0 .. SolverTime(c)
    BY <1>0, <1>13, ApiAssumption DEF Unsolved, TimeRemains, SolverTime, TimeLeft, CallRecord
  <2> QED BY <1>13, <2>1, SpentEffect DEF Unsolved, SameApplied
<1>14. CASE BadChallenge(c)
  BY <1>14, EndsEffect DEF BadChallenge, Ended, Steps, SameApplied
<1> QED BY <1>1, <1>2, <1>3, <1>4, <1>5, <1>6, <1>7, <1>8, <1>9, <1>10, <1>11, <1>12, <1>13, <1>14
        DEF CallStep, Answer

-----------------------------------------------------------------------------
(* The invariants of one call, and of one proxy *)

TimeInv(c) == /\ call[c].pc = "solve" => call[c].time < Budget
              /\ call[c].solving <= call[c].time
              /\ ~Native => call[c].solving <= Budget

TruthInv(c) == /\ applied[c] <= 1
               /\ call[c].pc \in Steps \cup Untouched => applied[c] = 0
               /\ call[c].pc = "ok" => applied[c] = 1

RouteInv(c) == client.force => call[c].route # Direct

HealthInv(p) == /\ pool[p].failures <= faults[p]
                /\ pool[p].rest > 0 => faults[p] >= MaxFailures

CallsInv == /\ \A c \in Calls : TimeInv(c) /\ RouteInv(c)
            /\ \A c \in Mutating : TruthInv(c)

IInv == TypeInv /\ CallsInv

LEMMA CallPreserves ==
    ASSUME IInv, NEW c \in Calls, CallStep(c)
    PROVE  TimeInv(c)' /\ RouteInv(c)' /\ (c \in Mutating => TruthInv(c)')
<1> DEFINE was == call[c]
           is == call'[c]
<1>0. TypeInv /\ TimeRemains /\ call \in [Calls -> CallRecord] /\ applied[c] \in Nat
      /\ TimeInv(c) /\ RouteInv(c) /\ (c \in Mutating => TruthInv(c))
  BY DEF IInv, CallsInv, TypeInv, TypeOK, CallRecord, TimeRemains, TimeInv
<1>f. client' = client
  BY DEF CallStep, Select, Answer, ConnectTimeout, ConnectionLost, Challenge, ProxyRefuses,
         HttpError, UnusableBody, BodyLost, RateLimited, ErrorCode, Result, Solve, Unsolved,
         BadChallenge
<1>t. was.time \in Nat /\ was.solving \in Nat /\ was.pc \in Steps \cup Ended
  BY <1>0 DEF CallRecord
<1>b. Budget \in Nat BY ApiAssumption
<1>s. Steps = {"select", "post", "solve"} BY DEF Steps
<1>1. CASE Routed(c)
  BY <1>0, <1>f, <1>1, <1>t, <1>s
  DEF Routed, SameApplied, TimeInv, RouteInv, TruthInv, Untouched
<1>2. CASE Repeated(c)
  <2>1. NoRoute # Direct BY DEF NoRoute, Direct
  <2> QED BY <1>0, <1>2, <1>b, <1>s, <2>1
          DEF Repeated, SameApplied, TimeInv, RouteInv, TruthInv, Untouched
<1>3. CASE Concluded(c)
  <2>1. is.pc # "solve" /\ is.pc \notin Steps BY <1>3 DEF Concluded, Ended, Steps
  <2>2. TimeInv(c)' /\ RouteInv(c)'
    BY <1>0, <1>f, <1>3, <2>1 DEF Concluded, SameData, TimeInv, RouteInv
  <2>3. c \in Mutating => applied[c] = 0 BY <1>0, <1>3 DEF Concluded, TruthInv
  <2>4. c \in Mutating => TruthInv(c)'
    BY <1>3, <2>1, <2>3 DEF Concluded, SameApplied, TruthInv
  <2> QED BY <2>2, <2>4
<1>4. CASE Challenged(c)
  <2>1. TimeInv(c)' /\ RouteInv(c)'
    BY <1>0, <1>f, <1>4, <1>t, <1>b DEF Challenged, TimeInv, RouteInv
  <2>2. c \in Mutating => TruthInv(c)'
    BY <1>0, <1>4, <1>s DEF Challenged, SameApplied, TruthInv, Untouched
  <2> QED BY <2>1, <2>2
<1>5. CASE Solved(c)
  <2>1. PICK t \in 0 .. SolverTime(c) : is.time = was.time + t /\ is.solving = was.solving + t
    BY <1>5 DEF Solved
  <2>2. SolverTime(c) \in Int /\ (~Native => SolverTime(c) = Budget - was.time)
    BY <1>0, <1>b, <1>t, TimeLeftType DEF SolverTime, TimeLeft
  <2>3. TimeInv(c)'
    BY <1>0, <1>5, <1>t, <1>b, <2>1, <2>2 DEF Solved, TimeInv
  <2>4. RouteInv(c)' BY <1>0, <1>f, <1>5 DEF Solved, RouteInv
  <2>5. c \in Mutating => TruthInv(c)'
    BY <1>0, <1>5, <1>s DEF Solved, SameApplied, TruthInv, Untouched
  <2> QED BY <2>3, <2>4, <2>5
<1> QED BY <1>0, <1>1, <1>2, <1>3, <1>4, <1>5, StepEffect

LEMMA CallsNext == IInv /\ [Next]_vars => IInv'
<1> SUFFICES ASSUME IInv, [Next]_vars PROVE IInv' OBVIOUS
<1>1. TypeOK /\ TimeRemains /\ TypeInv BY DEF IInv, TypeInv, CallsInv, TimeInv, TimeRemains
<1>2. TypeInv' BY <1>1, TypeNext
<1>3. ASSUME NEW c \in Calls, CallStep(c) PROVE CallsInv'
  <2>1. client' = client
    BY <1>3 DEF CallStep, Select, Answer, ConnectTimeout, ConnectionLost, Challenge,
       ProxyRefuses, HttpError, UnusableBody, BodyLost, RateLimited, ErrorCode, Result, Solve,
       Unsolved, BadChallenge
  <2>2. \A d \in Calls : d # c => call'[d] = call[d] /\ applied'[d] = applied[d]
    BY <1>1, <1>3, StepOfOneCall
  <2>3. ASSUME NEW d \in Calls
        PROVE  TimeInv(d)' /\ RouteInv(d)' /\ (d \in Mutating => TruthInv(d)')
    <3>1. CASE d = c BY <1>3, <3>1, CallPreserves
    <3>2. CASE d # c
      BY <2>1, <2>2, <3>2 DEF IInv, CallsInv, TimeInv, RouteInv, TruthInv
    <3> QED BY <3>1, <3>2
  <2>4. Mutating \subseteq Calls BY DEF Calls
  <2> QED BY <2>3, <2>4 DEF CallsInv
<1>4. CASE Tick BY <1>2, <1>4 DEF Tick, IInv, CallsInv, TimeInv, RouteInv, TruthInv
<1>5. CASE UNCHANGED vars BY <1>2, <1>5 DEF vars, IInv, CallsInv, TimeInv, RouteInv, TruthInv
<1> QED BY <1>2, <1>3, <1>4, <1>5 DEF Next, IInv

LEMMA CallsInit == Init => IInv
<1> SUFFICES ASSUME Init PROVE IInv OBVIOUS
<1>1. \A c \in Calls : call[c] = NewSend /\ applied[c] = 0 BY DEF Init
<1>2. /\ NewSend.pc = "select" /\ NewSend.time = 0 /\ NewSend.solving = 0
      /\ NewSend.route = NoRoute
  BY DEF NewSend
<1>3. NoRoute # Direct /\ Budget \in Nat BY ApiAssumption DEF NoRoute, Direct
<1>4. Mutating \subseteq Calls BY DEF Calls
<1>5. CallsInv BY <1>1, <1>2, <1>3, <1>4 DEF CallsInv, TimeInv, RouteInv, TruthInv, Steps
<1> QED BY <1>5, TypeInit DEF IInv

\* What a step may do to the pool: blame for a fault, credit, or let a cool-down run.
LEMMA PoolStep ==
    ASSUME NEW c, CallStep(c)
    PROVE  \/ Blame(c) /\ Fault(c)
           \/ Credit(c) /\ faults' = faults
           \/ pool' = pool /\ faults' = faults
BY DEF CallStep, Select, Answer, ConnectTimeout, ConnectionLost, Challenge, ProxyRefuses,
       HttpError, UnusableBody, BodyLost, RateLimited, ErrorCode, Result, Solve, Unsolved,
       BadChallenge

LEMMA HealthNext ==
    ASSUME TypeOK, \A p \in Proxies : HealthInv(p), [Next]_vars
    PROVE  \A p \in Proxies : HealthInv(p)'
<1> TAKE p \in Proxies
<1>0. /\ pool \in [Proxies -> [failures : Nat, rest : 0 .. Cooldown]]
      /\ faults \in [Proxies -> Nat] /\ MaxFailures \in Nat /\ HealthInv(p)
  BY ApiAssumption DEF TypeOK
<1>1. ASSUME NEW c \in Calls, CallStep(c) PROVE HealthInv(p)'
  <2>1. CASE Blame(c) /\ Fault(c)
    <3>1. CASE call[c].route = p
      <4>1. pool'[p] = Blamed(p) /\ faults'[p] = faults[p] + 1
        BY <1>0, <2>1, <3>1 DEF Blame, Fault
      <4>2. /\ pool'[p].failures = pool[p].failures + 1
            /\ pool'[p].rest > 0 => \/ pool[p].failures + 1 >= MaxFailures
                                    \/ pool[p].rest > 0
        BY <4>1 DEF Blamed
      <4> QED BY <1>0, <4>1, <4>2 DEF HealthInv
    <3>2. CASE call[c].route # p
      <4>1. pool'[p] = pool[p] /\ faults'[p] = faults[p] BY <1>0, <2>1, <3>2 DEF Blame, Fault
      <4> QED BY <1>0, <4>1 DEF HealthInv
    <3> QED BY <3>1, <3>2
  <2>2. CASE Credit(c) /\ faults' = faults
    <3>1. pool'[p].failures <= pool[p].failures /\ pool'[p].rest = pool[p].rest
          /\ pool'[p].failures \in Nat
      BY <1>0, <2>2 DEF Credit, Credited
    <3> QED BY <1>0, <2>2, <3>1 DEF HealthInv
  <2>3. CASE pool' = pool /\ faults' = faults BY <1>0, <2>3 DEF HealthInv
  <2> QED BY <1>1, <2>1, <2>2, <2>3, PoolStep
<1>2. CASE Tick
  <2>1. pool'[p].failures = pool[p].failures /\ (pool'[p].rest > 0 => pool[p].rest > 0)
    BY <1>0, <1>2 DEF Tick
  <2> QED BY <1>0, <1>2, <2>1 DEF HealthInv, Tick
<1>3. CASE UNCHANGED vars BY <1>0, <1>3 DEF vars, HealthInv
<1> QED BY <1>1, <1>2, <1>3 DEF Next

-----------------------------------------------------------------------------
(* Theorems *)

LEMMA Invariance == Spec => []IInv
BY CallsInit, CallsNext, PTL DEF Spec

(* Type correctness of the calls and the pool, for any number of them, of   *)
(* attempts and of requests in one send (api.py:358-470).                   *)
THEOREM ApiTypeCorrect == Spec => []TypeOK
<1>1. IInv => TypeOK BY DEF IInv, TypeInv
<1> QED BY <1>1, Invariance, PTL

(* No command that changes state is applied twice: the retry policy never   *)
(* sends again what may have been applied (api.py:309-346).                 *)
THEOREM NeverAppliedTwice == Spec => []AppliedAtMostOnce
<1>1. IInv => AppliedAtMostOnce BY DEF IInv, CallsInv, TruthInv, AppliedAtMostOnce
<1> QED BY <1>1, Invariance, PTL

(* What the caller is told of a mutating call is what happened to it, as    *)
(* far as it claims to know (api.py:80-85, AmbiguousMutationError).         *)
THEOREM ToldTheTruth == Spec => []OutcomeTellsTruth
<1>1. IInv => OutcomeTellsTruth
  BY DEF IInv, CallsInv, TruthInv, Untouched, OutcomeTellsTruth
<1> QED BY <1>1, Invariance, PTL

(* The challenges of one send share its budget, however many of them there  *)
(* are, when no native solver can fail first (api.py:117-120).              *)
THEOREM BudgetShared ==
    ASSUME ~Native PROVE Spec => []HashcashWithinBudget
<1>1. IInv => HashcashWithinBudget BY DEF IInv, CallsInv, TimeInv, HashcashWithinBudget
<1> QED BY <1>1, Invariance, PTL

(* Force mode never sends a request without a proxy (selector.py:60-91).    *)
THEOREM ForceHolds == Spec => []ForcedNeverDirect
<1>1. IInv => ForcedNeverDirect BY DEF IInv, CallsInv, RouteInv, ForcedNeverDirect
<1> QED BY <1>1, Invariance, PTL

(* A proxy rests only after it has itself failed MAX_FAILURES times         *)
(* (smart_proxy.py:91-102), whatever MEGA answers and however calls         *)
(* interleave.                                                              *)
THEOREM BlamelessServe == Spec => []BlamelessProxyServes
<1> DEFINE Healthy == \A p \in Proxies : HealthInv(p)
<1>1. Init => Healthy BY ApiAssumption DEF Init, HealthInv
<1>2. IInv => TypeOK BY DEF IInv, TypeInv
<1>3. IInv /\ Healthy /\ [Next]_vars => Healthy' BY <1>2, HealthNext
<1>4. Healthy => BlamelessProxyServes BY DEF HealthInv, BlamelessProxyServes
<1> QED BY <1>1, <1>3, <1>4, Invariance, PTL DEF Spec
=============================================================================
