---------------------------- MODULE StreamServer ----------------------------
(***************************************************************************)
(* The local HTTP server that streams one MEGA file                        *)
(* (streaming/server.py): its accept loop hands connections to threads     *)
(* within two caps, and each of them fetches the range it was asked for    *)
(* from the CDN, deciphers it from the cipher block it begins in and sends *)
(* on what was asked for.  A byte is its offset in the file.  The URL of   *)
(* the file is left out: the CDN may call any URL expired at any time.     *)
(***************************************************************************)
EXTENDS Integers, Sequences, FiniteSets

CONSTANTS Conns,        \* connections that clients make
          Peer,         \* the address each comes from
          MaxConns,     \* max_connections
          MaxPerPeer,   \* max_connections_per_client
          MaxClosers,   \* _MAX_REJECT_THREADS
          FileSize,
          Block,        \* bytes of a cipher block
          Requests,     \* what may be asked
          Pieces        \* bytes that iter_content may return at once

Peers == {Peer[c] : c \in Conns}
Open == -1              \* a bound that a Range header leaves out

ASSUME StreamAssumption ==
    /\ DOMAIN Peer = Conns
    /\ MaxConns \in Nat \ {0} /\ MaxPerPeer \in Nat \ {0} /\ MaxClosers \in Nat
    /\ FileSize \in Nat /\ Block \in Nat \ {0} /\ Pieces \subseteq Nat \ {0}
    /\ Requests \subseteq [auth : BOOLEAN, head : BOOLEAN, unit : {"none", "bytes", "other"},
                           first : Nat \cup {Open}, last : Nat \cup {Open}]

VARIABLES
    slots,    \* free permits of _slots
    peers,    \* _peer_counts
    closers,  \* free permits of _reject_slots
    at,       \* where each connection is
    attempt,  \* requests to the CDN
    span,     \* the range promised to the client
    feed,     \* the body: the next byte of the file and of the cipher, the skip
    served    \* what the client was sent

streamVars == <<slots, peers, closers, at, attempt, span, feed, served>>
counts == <<slots, peers, closers>>
transfer == <<attempt, span, feed, served>>

Garbage == -1
NoSpan == [first |-> 0, last |-> -1]
NoFeed == [next |-> 0, cipher |-> 0, skip |-> 0, same |-> TRUE]

StreamInit ==
    /\ slots = MaxConns /\ peers = [p \in Peers |-> 0] /\ closers = MaxClosers
    /\ at = [c \in Conns |-> "away"]
    /\ attempt = [c \in Conns |-> 0]
    /\ span = [c \in Conns |-> NoSpan] /\ feed = [c \in Conns |-> NoFeed]
    /\ served = [c \in Conns |-> <<>>]

Moves(c, s) == at' = [at EXCEPT ![c] = s]

-----------------------------------------------------------------------------
(* The accept loop: process_request, for one connection at a time *)

InHand == {"slot", "starting", "turned", "unstarted", "dropped"}

AcquireSlot(c) ==
    /\ at[c] = "away" /\ \A d \in Conns : at[d] \notin InHand
    /\ IF slots > 0 THEN slots' = slots - 1 /\ Moves(c, "slot")
                    ELSE Moves(c, "turned") /\ UNCHANGED slots
    /\ UNCHANGED <<peers, closers, transfer>>

\* _acquire_peer; without it the slot goes back.
AcquirePeer(c) ==
    /\ at[c] = "slot"
    /\ IF peers[Peer[c]] < MaxPerPeer
       THEN /\ peers' = [peers EXCEPT ![Peer[c]] = @ + 1]
            /\ Moves(c, "starting")
            /\ UNCHANGED slots
       ELSE slots' = slots + 1 /\ Moves(c, "turned") /\ UNCHANGED peers
    /\ UNCHANGED <<closers, transfer>>

\* Variant (bug): only the thread gives back what it was started with.
StartHandlerOnly(c) ==
    /\ at[c] = "starting"
    /\ Moves(c, "request") \/ Moves(c, "gone")
    /\ UNCHANGED <<counts, transfer>>

\* The thread, which may fail to start.
StartHandler(c) ==
    /\ at[c] = "starting"
    /\ Moves(c, "request") \/ Moves(c, "unstarted")
    /\ UNCHANGED <<counts, transfer>>

(* _reject_over_capacity: the refusal goes to a closer; with none left, or   *)
(* no thread for it, the socket is dropped.                                  *)
TurnAway(c) ==
    /\ at[c] = "turned"
    /\ \/ closers > 0 /\ closers' = closers - 1 /\ Moves(c, "refusing")
       \/ Moves(c, "gone") /\ UNCHANGED closers
    /\ UNCHANGED <<slots, peers, transfer>>

Refuse(c) ==
    /\ at[c] = "refusing"
    /\ closers' = closers + 1
    /\ Moves(c, "gone")
    /\ UNCHANGED <<slots, peers, transfer>>

(* _release_peer and then the slot: when the thread ends, and with it what   *)
(* it held of the transfer, or when it did not start.                        *)
ReleasePeer(c) ==
    /\ at[c] \in {"ending", "unstarted"}
    /\ peers' = [peers EXCEPT ![Peer[c]] = IF @ > 1 THEN @ - 1 ELSE 0]
    /\ Moves(c, IF at[c] = "ending" THEN "released" ELSE "dropped")
    /\ attempt' = [attempt EXCEPT ![c] = 0]
    /\ span' = [span EXCEPT ![c] = NoSpan] /\ feed' = [feed EXCEPT ![c] = NoFeed]
    /\ served' = [served EXCEPT ![c] = <<>>]
    /\ UNCHANGED <<slots, closers>>

ReleaseSlot(c) ==
    /\ at[c] \in {"released", "dropped"}
    /\ slots' = slots + 1
    /\ Moves(c, "gone")
    /\ UNCHANGED <<peers, closers, transfer>>

-----------------------------------------------------------------------------
(* The request and its range *)

LastByte == FileSize - 1

\* The range that _parse_range makes of the header.
Parsed(r) ==
    IF r.unit = "none" THEN [first |-> 0, last |-> LastByte]
    ELSE IF r.first = Open
         THEN [first |-> IF r.last < FileSize THEN FileSize - r.last ELSE 0, last |-> LastByte]
         ELSE [first |-> r.first,
               last |-> IF r.last = Open \/ r.last > LastByte THEN LastByte ELSE r.last]

\* ValueError, answered by 400.
Malformed(r) == r.unit = "other" \/ (r.unit = "bytes" /\ r.first = Open /\ r.last = Open)

\* IndexError, answered by 416.
Unsatisfiable(r) ==
    /\ r.unit = "bytes"
    /\ IF r.first = Open THEN r.last = 0
       ELSE (r.last # Open /\ r.last < r.first) \/ r.first > LastByte

\* Nothing of the file is to be sent: 401, HEAD, an empty file, 400 and 416.
Answered(r) == ~r.auth \/ r.head \/ FileSize = 0 \/ Malformed(r) \/ Unsatisfiable(r)

(* The request is read within its deadline, or the connection ends; one that *)
(* asks for bytes goes to the CDN.                                           *)
ReadRequest(c) ==
    /\ at[c] = "request"
    /\ \/ Moves(c, "ending") /\ UNCHANGED <<attempt, span>>
       \/ \E r \in Requests :
             IF Answered(r) THEN Moves(c, "ending") /\ UNCHANGED <<attempt, span>>
             ELSE /\ span' = [span EXCEPT ![c] = Parsed(r)]
                  /\ attempt' = [attempt EXCEPT ![c] = 1]
                  /\ Moves(c, "upstream")
    /\ UNCHANGED <<counts, feed, served>>

-----------------------------------------------------------------------------
(* _open_upstream *)

\* What is asked of the CDN begins with a cipher block.
BlockStart(c) == (span[c].first \div Block) * Block

(* What the CDN, or a proxy, may answer: the status; the range and the size  *)
(* it claims; whether it knows the size, and the body has the length, it     *)
(* says.                                                                     *)
Answers(c) ==
    [status : {200, 206},
     first : {0, BlockStart(c), span[c].first}, last : {span[c].last, LastByte},
     total : {FileSize, FileSize + 1, Open}, lengthOK : BOOLEAN]

(* validate_range_response: 200 only for the whole file, 206 only for the    *)
(* very range of the very file.                                              *)
Honored(c, a) ==
    \/ a.status = 200 /\ BlockStart(c) = 0 /\ span[c].last = LastByte
    \/ /\ a.status = 206
       /\ a.first = BlockStart(c) /\ a.last = span[c].last
       /\ a.total = FileSize /\ a.lengthOK

(* One request to the CDN.  Without a proxy in force mode, on an exception,  *)
(* a bad status, or an answer for another range, the client gets a 502; an   *)
(* expired URL is resolved anew, once.                                       *)
OpenUpstream(c) ==
    /\ at[c] = "upstream"
    /\ \/ Moves(c, "ending") /\ UNCHANGED feed
       \/ attempt[c] = 1 /\ Moves(c, "refresh") /\ UNCHANGED feed
       \/ \E a \in Answers(c) :
             IF Honored(c, a)
             THEN /\ feed' = [feed EXCEPT ![c] =
                                 [next |-> IF a.status = 200 THEN 0 ELSE a.first,
                                  cipher |-> BlockStart(c),
                                  skip |-> span[c].first - BlockStart(c),
                                  same |-> a.status = 200 \/ a.total = FileSize]]
                  /\ Moves(c, "pump")
             ELSE Moves(c, "ending") /\ UNCHANGED feed
    /\ UNCHANGED <<counts, attempt, span, served>>

RefreshUrl(c) ==
    /\ at[c] = "refresh"
    /\ \/ Moves(c, "upstream") /\ attempt' = [attempt EXCEPT ![c] = 2]
       \/ Moves(c, "ending") /\ UNCHANGED attempt
    /\ UNCHANGED <<counts, span, feed, served>>

-----------------------------------------------------------------------------
(* _pump *)

Length(c) == span[c].last - span[c].first + 1
Lesser(m, n) == IF m < n THEN m ELSE n

\* The next n bytes of the body, deciphered: right where the cipher is at their place.
Deciphered(c, n) ==
    [i \in 1 .. n |-> IF feed[c].same /\ feed[c].next = feed[c].cipher
                      THEN feed[c].next + i - 1 ELSE Garbage]

\* Variant (bug): what the first block did not hold of the skip is forgotten.
SkipLeftOnce(c, n) == 0

\* What is left of the skip after a block.
SkipLeft(c, n) == feed[c].skip - Lesser(feed[c].skip, n)

(* One block of the body: the skip is taken from it, what goes past the      *)
(* range is cut off, and the rest is sent.                                   *)
SendBlock(c) ==
    /\ at[c] = "pump"
    /\ \E n \in Pieces :
          LET plain == SubSeq(Deciphered(c, n), Lesser(feed[c].skip, n) + 1, n)
              kept == SubSeq(plain, 1, Lesser(Len(plain), Length(c) - Len(served[c])))
          IN  /\ feed[c].next + n <= FileSize
              /\ feed' = [feed EXCEPT ![c].next = @ + n, ![c].cipher = @ + n,
                                      ![c].skip = SkipLeft(c, n)]
              /\ served' = [served EXCEPT ![c] = @ \o kept]
              /\ Moves(c, IF Len(served[c]) + Len(kept) >= Length(c) THEN "ending" ELSE "pump")
    /\ UNCHANGED <<counts, attempt, span>>

\* The body ends or breaks off, or the client is gone: the connection is dropped.
BreakOff(c) ==
    /\ at[c] = "pump"
    /\ Moves(c, "ending")
    /\ UNCHANGED <<counts, transfer>>

ConnStep(c) ==
    \/ AcquireSlot(c) \/ AcquirePeer(c) \/ StartHandler(c) \/ TurnAway(c) \/ Refuse(c)
    \/ ReleasePeer(c) \/ ReleaseSlot(c)
    \/ ReadRequest(c) \/ OpenUpstream(c) \/ RefreshUrl(c) \/ SendBlock(c) \/ BreakOff(c)

StreamNext == \E c \in Conns : ConnStep(c)

StreamSpec == StreamInit /\ [][StreamNext]_streamVars

\* Sockets have time-outs on both sides, and threads are scheduled.
StreamFairness == \A c \in Conns : WF_streamVars(ConnStep(c))
FairStreamSpec == StreamSpec /\ StreamFairness

-----------------------------------------------------------------------------
(* Properties *)

Handling == {"starting", "unstarted", "request", "upstream", "refresh", "pump", "ending"}
Holding == Handling \cup {"slot", "released", "dropped"}

HoldersOf(p) == {c \in Conns : at[c] \in Handling /\ Peer[c] = p}
Holders == {c \in Conns : at[c] \in Holding}

(* Type invariant: what the variables hold, for every connection.            *)
StreamTypeOK ==
    /\ slots \in 0 .. MaxConns /\ peers \in [Peers -> 0 .. MaxPerPeer]
    /\ closers \in 0 .. MaxClosers
    /\ at \in [Conns -> Holding \cup {"away", "turned", "refusing", "gone"}]

(* The counts are those of the connections at work (server.py:666-671): none *)
(* is lost or given back twice, so neither cap is ever passed or shrinks.    *)
SlotsAccounted ==
    /\ slots + Cardinality(Holders) = MaxConns
    /\ \A p \in Peers : peers[p] = Cardinality(HoldersOf(p)) /\ peers[p] <= MaxPerPeer

(* Every connection ends and gives its slots back (server.py:672-674: "a     *)
(* count left behind would lock that client out permanently"), however its   *)
(* handler ends and although its thread may not start.                       *)
SlotsComeBack ==
    <>[](slots = MaxConns /\ closers = MaxClosers /\ \A p \in Peers : peers[p] = 0)

(* What is served are the bytes that were promised, in their order from the  *)
(* first (server.py:468-478), whatever the CDN or a proxy sends and however  *)
(* it is cut into blocks.                                                    *)
ServedExactly ==
    \A c \in Conns :
        /\ Len(served[c]) <= Length(c)
        /\ \A i \in DOMAIN served[c] : served[c][i] = span[c].first + i - 1
=============================================================================
