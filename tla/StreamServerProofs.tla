------------------------- MODULE StreamServerProofs -------------------------
(***************************************************************************)
(* Proofs about StreamServer, for any number of connections, caps, file,   *)
(* cipher block and way of cutting the body: the permits are accounted for *)
(* (by the cardinalities of the sets of connections that hold them), and   *)
(* a client is sent exactly the bytes it was promised (the next byte of    *)
(* the body and what is left to skip add up to the next byte to send).     *)
(***************************************************************************)
EXTENDS StreamServer, FiniteSetTheorems, SequenceTheorems, TLAPS

Refusing == {c \in Conns : at[c] = "refusing"}

Places == Holding \cup {"away", "turned", "refusing", "gone"}

Accounted ==
    /\ at \in [Conns -> Places]
    /\ slots \in Nat /\ closers \in Nat /\ peers \in [Peers -> 0 .. MaxPerPeer]
    /\ IsFiniteSet(Holders) /\ slots + Cardinality(Holders) = MaxConns
    /\ \A p \in Peers : peers[p] = Cardinality(HoldersOf(p))
    /\ IsFiniteSet(Refusing) /\ closers + Cardinality(Refusing) = MaxClosers

-----------------------------------------------------------------------------
(* The permits *)

LEMMA Caps == MaxConns \in Nat /\ MaxPerPeer \in Nat /\ MaxClosers \in Nat
BY StreamAssumption

LEMMA PeerOf == ASSUME NEW c \in Conns PROVE Peer[c] \in Peers
BY DEF Peers

LEMMA FinitePeers == ASSUME IsFiniteSet(Holders), NEW p \in Peers PROVE IsFiniteSet(HoldersOf(p))
<1>1. HoldersOf(p) \subseteq Holders BY DEF HoldersOf, Holders, Holding
<1> QED BY <1>1, FS_Subset

LEMMA InitAccounted == StreamInit => Accounted
<1> SUFFICES ASSUME StreamInit PROVE Accounted OBVIOUS
<1>1. Holders = {} /\ Refusing = {} /\ \A p \in Peers : HoldersOf(p) = {}
  BY DEF StreamInit, Holders, Refusing, HoldersOf, Holding, Handling
<1>2. at \in [Conns -> Places] BY DEF StreamInit, Places
<1>3. IsFiniteSet({}) /\ Cardinality({}) = 0 BY FS_EmptySet
<1>4. peers \in [Peers -> 0 .. MaxPerPeer] /\ \A p \in Peers : peers[p] = 0
  BY Caps DEF StreamInit
<1>5. slots \in Nat /\ closers \in Nat /\ slots + 0 = MaxConns /\ closers + 0 = MaxClosers
  BY Caps DEF StreamInit
<1>6. IsFiniteSet(Holders) /\ slots + Cardinality(Holders) = MaxConns BY <1>1, <1>3, <1>5
<1>7. IsFiniteSet(Refusing) /\ closers + Cardinality(Refusing) = MaxClosers BY <1>1, <1>3, <1>5
<1>8. \A p \in Peers : peers[p] = Cardinality(HoldersOf(p)) BY <1>1, <1>3, <1>4
<1> QED BY <1>2, <1>4, <1>5, <1>6, <1>7, <1>8 DEF Accounted

\* Whom a move of one connection adds and removes.
LEMMA MoveSets ==
    ASSUME Accounted, NEW c \in Conns, NEW s \in Places, Moves(c, s)
    PROVE  /\ at' \in [Conns -> Places] /\ at'[c] = s
           /\ Holders' = IF s \in Holding THEN Holders \cup {c} ELSE Holders \ {c}
           /\ Refusing' = IF s = "refusing" THEN Refusing \cup {c} ELSE Refusing \ {c}
           /\ \A p \in Peers :
                 HoldersOf(p)' = IF s \in Handling /\ Peer[c] = p
                                 THEN HoldersOf(p) \cup {c} ELSE HoldersOf(p) \ {c}
<1>1. at \in [Conns -> Places] BY DEF Accounted
<1>2. /\ at' \in [Conns -> Places] /\ at'[c] = s
      /\ \A d \in Conns : d # c => at'[d] = at[d]
  BY <1>1 DEF Moves
<1>3. Holders' = IF s \in Holding THEN Holders \cup {c} ELSE Holders \ {c}
  BY <1>2 DEF Holders
<1>4. Refusing' = IF s = "refusing" THEN Refusing \cup {c} ELSE Refusing \ {c}
  BY <1>2 DEF Refusing
<1>5. ASSUME NEW p \in Peers
      PROVE HoldersOf(p)' = IF s \in Handling /\ Peer[c] = p
                            THEN HoldersOf(p) \cup {c} ELSE HoldersOf(p) \ {c}
  BY <1>2 DEF HoldersOf
<1> QED BY <1>2, <1>3, <1>4, <1>5

\* What that does to the number of holders.
LEMMA MoveCounts ==
    ASSUME Accounted, NEW c \in Conns, NEW s \in Places, Moves(c, s)
    PROVE  /\ IsFiniteSet(Holders)' /\ IsFiniteSet(Refusing)'
           /\ Cardinality(Holders') = Cardinality(Holders)
                 + (IF s \in Holding THEN 1 ELSE 0) - (IF at[c] \in Holding THEN 1 ELSE 0)
           /\ Cardinality(Refusing') = Cardinality(Refusing)
                 + (IF s = "refusing" THEN 1 ELSE 0) - (IF at[c] = "refusing" THEN 1 ELSE 0)
           /\ \A p \in Peers : Cardinality(HoldersOf(p)') = Cardinality(HoldersOf(p))
                 + (IF s \in Handling /\ Peer[c] = p THEN 1 ELSE 0)
                 - (IF at[c] \in Handling /\ Peer[c] = p THEN 1 ELSE 0)
<1>0. IsFiniteSet(Holders) /\ IsFiniteSet(Refusing) BY DEF Accounted
<1>1. Cardinality(Holders) \in Nat /\ Cardinality(Refusing) \in Nat BY <1>0, FS_CardinalityType
<1>2. (c \in Holders <=> at[c] \in Holding) /\ (c \in Refusing <=> at[c] = "refusing")
  BY DEF Holders, Refusing
<1>3. /\ IsFiniteSet(Holders)' /\ Cardinality(Holders') = Cardinality(Holders)
            + (IF s \in Holding THEN 1 ELSE 0) - (IF at[c] \in Holding THEN 1 ELSE 0)
  <2>1. CASE s \in Holding
    <3>1. Holders' = Holders \cup {c} BY <2>1, MoveSets
    <3>2. /\ IsFiniteSet(Holders \cup {c})
          /\ Cardinality(Holders \cup {c}) = IF c \in Holders THEN Cardinality(Holders) ELSE Cardinality(Holders) + 1
      BY <1>0, FS_AddElement
    <3> QED BY <1>1, <1>2, <2>1, <3>1, <3>2
  <2>2. CASE s \notin Holding
    <3>1. Holders' = Holders \ {c} BY <2>2, MoveSets
    <3>2. /\ IsFiniteSet(Holders \ {c})
          /\ Cardinality(Holders \ {c}) = IF c \in Holders THEN Cardinality(Holders) - 1 ELSE Cardinality(Holders)
      BY <1>0, FS_RemoveElement
    <3> QED BY <1>1, <1>2, <2>2, <3>1, <3>2
  <2> QED BY <2>1, <2>2
<1>4. /\ IsFiniteSet(Refusing)' /\ Cardinality(Refusing') = Cardinality(Refusing)
            + (IF s = "refusing" THEN 1 ELSE 0) - (IF at[c] = "refusing" THEN 1 ELSE 0)
  <2>1. CASE s = "refusing"
    <3>1. Refusing' = Refusing \cup {c} BY <2>1, MoveSets
    <3>2. /\ IsFiniteSet(Refusing \cup {c})
          /\ Cardinality(Refusing \cup {c}) = IF c \in Refusing THEN Cardinality(Refusing) ELSE Cardinality(Refusing) + 1
      BY <1>0, FS_AddElement
    <3> QED BY <1>1, <1>2, <2>1, <3>1, <3>2
  <2>2. CASE s # "refusing"
    <3>1. Refusing' = Refusing \ {c} BY <2>2, MoveSets
    <3>2. /\ IsFiniteSet(Refusing \ {c})
          /\ Cardinality(Refusing \ {c}) = IF c \in Refusing THEN Cardinality(Refusing) - 1 ELSE Cardinality(Refusing)
      BY <1>0, FS_RemoveElement
    <3> QED BY <1>1, <1>2, <2>2, <3>1, <3>2
  <2> QED BY <2>1, <2>2
<1>5. ASSUME NEW p \in Peers
      PROVE  Cardinality(HoldersOf(p)') = Cardinality(HoldersOf(p))
                 + (IF s \in Handling /\ Peer[c] = p THEN 1 ELSE 0)
                 - (IF at[c] \in Handling /\ Peer[c] = p THEN 1 ELSE 0)
  <2>1. IsFiniteSet(HoldersOf(p)) BY <1>0, FinitePeers
  <2>2. Cardinality(HoldersOf(p)) \in Nat BY <2>1, FS_CardinalityType
  <2>3. c \in HoldersOf(p) <=> at[c] \in Handling /\ Peer[c] = p BY DEF HoldersOf
  <2>4. CASE s \in Handling /\ Peer[c] = p
    <3>1. HoldersOf(p)' = HoldersOf(p) \cup {c} BY <2>4, MoveSets
    <3>2. Cardinality(HoldersOf(p) \cup {c}) = IF c \in HoldersOf(p) THEN Cardinality(HoldersOf(p))
                                               ELSE Cardinality(HoldersOf(p)) + 1
      BY <2>1, FS_AddElement
    <3>3. CASE c \in HoldersOf(p) BY <2>2, <2>3, <2>4, <3>1, <3>2, <3>3
    <3>4. CASE c \notin HoldersOf(p) BY <2>2, <2>3, <2>4, <3>1, <3>2, <3>4
    <3> QED BY <3>3, <3>4
  <2>5. CASE ~(s \in Handling /\ Peer[c] = p)
    <3>1. HoldersOf(p)' = HoldersOf(p) \ {c} BY <2>5, MoveSets
    <3>2. Cardinality(HoldersOf(p) \ {c}) = IF c \in HoldersOf(p) THEN Cardinality(HoldersOf(p)) - 1
                                            ELSE Cardinality(HoldersOf(p))
      BY <2>1, FS_RemoveElement
    <3>3. Cardinality(HoldersOf(p)') = Cardinality(HoldersOf(p))
             - (IF at[c] \in Handling /\ Peer[c] = p THEN 1 ELSE 0)
      BY <2>2, <2>3, <3>1, <3>2
    <3> QED BY <2>2, <2>5, <3>3
  <2> QED BY <2>4, <2>5
<1> QED BY <1>3, <1>4, <1>5

\* A move is accounted for when the counters move as it does.
LEMMA MoveAccounted ==
    ASSUME Accounted, NEW c \in Conns, NEW s \in Places, Moves(c, s),
           slots' \in Nat, closers' \in Nat,
           slots' = slots + (IF at[c] \in Holding THEN 1 ELSE 0) - (IF s \in Holding THEN 1 ELSE 0),
           closers' = closers + (IF at[c] = "refusing" THEN 1 ELSE 0)
                              - (IF s = "refusing" THEN 1 ELSE 0),
           peers' \in [Peers -> 0 .. MaxPerPeer],
           \A p \in Peers : peers'[p] = peers[p] + (IF s \in Handling /\ Peer[c] = p THEN 1 ELSE 0)
                                   - (IF at[c] \in Handling /\ Peer[c] = p THEN 1 ELSE 0)
    PROVE  Accounted'
<1>0. IsFiniteSet(Holders) /\ IsFiniteSet(Refusing) BY DEF Accounted
<1>1. Cardinality(Holders) \in Nat /\ Cardinality(Refusing) \in Nat BY <1>0, FS_CardinalityType
<1>2. at' \in [Conns -> Places] BY MoveSets
<1>3. slots' + Cardinality(Holders') = MaxConns
  BY <1>1, MoveCounts, Caps DEF Accounted
<1>4. closers' + Cardinality(Refusing') = MaxClosers
  BY <1>1, MoveCounts, Caps DEF Accounted
<1>5. ASSUME NEW p \in Peers PROVE peers'[p] = Cardinality(HoldersOf(p)')
  <2>1. peers[p] = Cardinality(HoldersOf(p)) BY DEF Accounted
  <2> QED BY <2>1, MoveCounts
<1> QED BY <1>2, <1>3, <1>4, <1>5, MoveCounts DEF Accounted

\* A move that keeps every permit where it is.
LEMMA MoveWithin ==
    ASSUME Accounted, NEW c \in Conns, NEW s \in Places, Moves(c, s), UNCHANGED counts,
           (s \in Holding <=> at[c] \in Holding) /\ (s \in Handling <=> at[c] \in Handling),
           s # "refusing" /\ at[c] # "refusing"
    PROVE  Accounted'
<1>1. slots \in Nat /\ closers \in Nat /\ peers \in [Peers -> 0 .. MaxPerPeer] BY DEF Accounted
<1>2. \A p \in Peers : peers[p] \in Int BY <1>1
<1> QED BY <1>1, <1>2, MoveAccounted DEF counts

LEMMA StepAccounted == ASSUME Accounted, NEW c \in Conns, ConnStep(c) PROVE Accounted'
<1>0. /\ at[c] \in Places /\ Peer[c] \in Peers
      /\ slots \in Nat /\ closers \in Nat /\ peers \in [Peers -> 0 .. MaxPerPeer]
      /\ MaxPerPeer \in Nat
  BY PeerOf, Caps DEF Accounted
<1>p. \A p \in Peers : peers[p] \in 0 .. MaxPerPeer BY <1>0
<1>1. CASE AcquireSlot(c)
  <2>1. CASE slots' = slots - 1 /\ Moves(c, "slot")
    BY <1>0, <1>p, <1>1, <2>1, MoveAccounted DEF AcquireSlot, Places, Holding, Handling
  <2>2. CASE Moves(c, "turned") /\ UNCHANGED slots
    BY <1>0, <1>p, <1>1, <2>2, MoveAccounted DEF AcquireSlot, Places, Holding, Handling
  <2> QED BY <1>1, <2>1, <2>2 DEF AcquireSlot
<1>2. CASE AcquirePeer(c)
  <2>1. CASE /\ peers[Peer[c]] < MaxPerPeer
             /\ peers' = [peers EXCEPT ![Peer[c]] = @ + 1]
             /\ Moves(c, "starting") /\ UNCHANGED slots
    BY <1>0, <1>p, <1>2, <2>1, MoveAccounted DEF AcquirePeer, Places, Holding, Handling
  <2>2. CASE slots' = slots + 1 /\ Moves(c, "turned") /\ UNCHANGED peers
    BY <1>0, <1>p, <1>2, <2>2, MoveAccounted DEF AcquirePeer, Places, Holding, Handling
  <2> QED BY <1>2, <2>1, <2>2 DEF AcquirePeer
<1>3. CASE StartHandler(c)
  BY <1>3, MoveWithin DEF StartHandler, Places, Holding, Handling
<1>4. CASE TurnAway(c)
  <2>1. CASE closers' = closers - 1 /\ Moves(c, "refusing")
    BY <1>0, <1>p, <1>4, <2>1, MoveAccounted DEF TurnAway, Places, Holding, Handling
  <2>2. CASE Moves(c, "gone") /\ UNCHANGED closers
    BY <1>0, <1>p, <1>4, <2>2, MoveAccounted DEF TurnAway, Places, Holding, Handling
  <2> QED BY <1>4, <2>1, <2>2 DEF TurnAway
<1>5. CASE Refuse(c)
  BY <1>0, <1>p, <1>5, MoveAccounted DEF Refuse, Places, Holding, Handling
<1>6. CASE ReleasePeer(c)
  <2>1. at[c] \in Handling /\ at[c] \in Holding /\ at[c] # "refusing"
    BY <1>6 DEF ReleasePeer, Handling, Holding
  <2>2. peers[Peer[c]] >= 1
    <3>1. IsFiniteSet(HoldersOf(Peer[c])) BY <1>0, FinitePeers DEF Accounted
    <3>2. c \in HoldersOf(Peer[c]) BY <2>1 DEF HoldersOf
    <3>3. Cardinality(HoldersOf(Peer[c])) # 0 BY <3>1, <3>2, FS_EmptySet
    <3>4. peers[Peer[c]] = Cardinality(HoldersOf(Peer[c])) BY <1>0 DEF Accounted
    <3> QED BY <1>p, <1>0, <3>3, <3>4
  <2>3. /\ peers' \in [Peers -> 0 .. MaxPerPeer]
        /\ \A p \in Peers : peers'[p] = peers[p] - (IF Peer[c] = p THEN 1 ELSE 0)
    BY <1>0, <1>p, <1>6, <2>2 DEF ReleasePeer
  <2>4. PICK s \in {"released", "dropped"} : Moves(c, s) BY <1>6 DEF ReleasePeer
  <2>5. s \in Places /\ s \in Holding /\ s \notin Handling /\ s # "refusing"
    BY <2>4 DEF Places, Holding, Handling
  <2> QED BY <1>0, <1>p, <1>6, <2>1, <2>3, <2>4, <2>5, MoveAccounted DEF ReleasePeer
<1>7. CASE ReleaseSlot(c)
  BY <1>0, <1>p, <1>7, MoveAccounted DEF ReleaseSlot, Places, Holding, Handling
<1>8. CASE ReadRequest(c)
  BY <1>8, MoveWithin DEF ReadRequest, Places, Holding, Handling
<1>9. CASE OpenUpstream(c)
  BY <1>9, MoveWithin DEF OpenUpstream, Places, Holding, Handling
<1>10. CASE RefreshUrl(c)
  BY <1>10, MoveWithin DEF RefreshUrl, Places, Holding, Handling
<1>11. CASE SendBlock(c)
  <2>1. \E s \in {"pump", "ending"} : Moves(c, s) BY <1>11 DEF SendBlock
  <2> QED BY <1>11, <2>1, MoveWithin DEF SendBlock, Places, Holding, Handling
<1>12. CASE BreakOff(c)
  BY <1>12, MoveWithin DEF BreakOff, Places, Holding, Handling
<1> QED BY <1>1, <1>2, <1>3, <1>4, <1>5, <1>6, <1>7, <1>8, <1>9, <1>10, <1>11, <1>12 DEF ConnStep

LEMMA NextAccounted == Accounted /\ [StreamNext]_streamVars => Accounted'
<1>1. ASSUME Accounted, UNCHANGED streamVars PROVE Accounted'
  BY <1>1 DEF Accounted, streamVars, Holders, HoldersOf, Refusing
<1> QED BY <1>1, StepAccounted DEF StreamNext

LEMMA AccountedAlways == StreamSpec => []Accounted
BY InitAccounted, NextAccounted, PTL DEF StreamSpec

(* Type correctness, for any connections and caps (server.py).              *)
THEOREM StreamTypeCorrect == StreamSpec => []StreamTypeOK
<1>1. ASSUME Accounted PROVE StreamTypeOK
  <2>1. Cardinality(Holders) \in Nat /\ Cardinality(Refusing) \in Nat
    BY <1>1, FS_CardinalityType DEF Accounted
  <2>2. slots \in Nat /\ slots + Cardinality(Holders) = MaxConns
        /\ closers \in Nat /\ closers + Cardinality(Refusing) = MaxClosers
    BY <1>1 DEF Accounted
  <2>3. slots \in 0 .. MaxConns /\ closers \in 0 .. MaxClosers BY <2>1, <2>2, Caps
  <2> QED BY <1>1, <2>3 DEF Accounted, StreamTypeOK, Places
<1> QED BY <1>1, AccountedAlways, PTL

(* No permit is lost or given back twice and neither cap is ever passed     *)
(* (server.py:666-671), for any connections, peers and caps.                *)
THEOREM PermitsAccounted == StreamSpec => []SlotsAccounted
<1>1. ASSUME Accounted PROVE SlotsAccounted
  <2>1. \A p \in Peers : peers[p] \in 0 .. MaxPerPeer BY <1>1 DEF Accounted
  <2> QED BY <1>1, <2>1, Caps DEF Accounted, SlotsAccounted
<1> QED BY <1>1, AccountedAlways, PTL

-----------------------------------------------------------------------------
(* The bytes *)

Served(c) ==
    /\ served[c] \in Seq(Int) /\ Len(served[c]) <= Length(c)
    /\ \A i \in 1 .. Len(served[c]) : served[c][i] = span[c].first + i - 1

\* A range of the file, of which nothing is sent yet.
Promised(c) ==
    span[c] \in [first : Nat, last : Int] /\ span[c].first <= span[c].last /\ served[c] = <<>>

\* The next byte of the body and what is left to skip lead to the next byte to send.
Aligned(c) ==
    /\ span[c] \in [first : Nat, last : Int]
    /\ feed[c] \in [next : Nat, cipher : Nat, skip : Nat, same : BOOLEAN]
    /\ feed[c].same /\ feed[c].next = feed[c].cipher
    /\ feed[c].next + feed[c].skip = span[c].first + Len(served[c])
    /\ feed[c].skip > 0 => Len(served[c]) = 0

Before == {"away", "slot", "starting", "turned", "refusing", "unstarted", "request"}

BytesInv ==
    /\ DOMAIN at = Conns /\ DOMAIN attempt = Conns /\ DOMAIN span = Conns /\ DOMAIN feed = Conns
    /\ DOMAIN served = Conns
    /\ \A c \in Conns :
          /\ Served(c)
          /\ at[c] \in Before => served[c] = <<>>
          /\ at[c] \in {"upstream", "refresh"} => Promised(c)
          /\ at[c] = "pump" => Aligned(c)

LEMMA EmptyPrefix == <<>> \in Seq(Int) /\ Len(<<>>) = 0
OBVIOUS

LEMMA InitBytes == StreamInit => BytesInv
<1> SUFFICES ASSUME StreamInit PROVE BytesInv OBVIOUS
<1>1. ASSUME NEW c \in Conns PROVE Served(c) /\ served[c] = <<>> /\ at[c] = "away"
  <2>1. served[c] = <<>> /\ span[c] = NoSpan /\ at[c] = "away" BY DEF StreamInit
  <2> QED BY <2>1, EmptyPrefix DEF Served, Length, NoSpan
<1> QED BY <1>1 DEF StreamInit, BytesInv

\* Every range that is not answered at once is a range of bytes in its order.
LEMMA ParsedRange ==
    ASSUME NEW r \in Requests, ~Answered(r)
    PROVE  Parsed(r) \in [first : Nat, last : Int] /\ Parsed(r).first <= Parsed(r).last
<1>1. /\ FileSize \in Nat /\ FileSize # 0
      /\ r.unit \in {"none", "bytes", "other"}
      /\ r.first \in Nat \cup {Open} /\ r.last \in Nat \cup {Open}
  BY StreamAssumption DEF Answered
<1>2. r.unit # "other" /\ ~Malformed(r) /\ ~Unsatisfiable(r) BY DEF Answered, Malformed
<1>3. CASE r.unit = "none" BY <1>1, <1>3 DEF Parsed, LastByte
<1>4. CASE r.unit = "bytes" /\ r.first = Open
  <2>1. r.last \in Nat /\ r.last # 0 BY <1>1, <1>2, <1>4 DEF Malformed, Unsatisfiable
  <2> QED BY <1>1, <1>4, <2>1 DEF Parsed, LastByte
<1>5. CASE r.unit = "bytes" /\ r.first # Open
  <2>1. r.first \in Nat /\ r.first <= LastByte BY <1>1, <1>2, <1>5 DEF Unsatisfiable, LastByte, Open
  <2>2. r.last # Open => r.first <= r.last
    BY <1>1, <1>2, <1>5, <2>1 DEF Unsatisfiable, Open
  <2> QED BY <1>1, <1>5, <2>1, <2>2 DEF Parsed, LastByte
<1> QED BY <1>1, <1>2, <1>3, <1>4, <1>5

LEMMA BlockBefore ==
    ASSUME NEW n \in Nat
    PROVE  (n \div Block) * Block \in Nat /\ (n \div Block) * Block <= n
<1>1. Block \in Nat \ {0} BY StreamAssumption
<1>2. \A b \in Nat \ {0} : (n \div b) * b <= n /\ (n \div b) \in Nat BY SMTT(30)
<1>3. \A a, b \in Nat : a * b \in Nat BY SMTT(30)
<1> QED BY <1>1, <1>2, <1>3

\* A step of one connection touches the bytes of no other.
LEMMA BytesFrame ==
    ASSUME BytesInv, NEW c \in Conns, ConnStep(c), NEW d \in Conns, d # c
    PROVE  /\ at'[d] = at[d] /\ span'[d] = span[d] /\ feed'[d] = feed[d] /\ served'[d] = served[d]
<1>0. DOMAIN at = Conns /\ DOMAIN span = Conns /\ DOMAIN feed = Conns /\ DOMAIN served = Conns
  BY DEF BytesInv
<1>1. at'[d] = at[d]
  BY <1>0 DEF ConnStep, Moves, AcquireSlot, AcquirePeer, StartHandler, TurnAway, Refuse,
              ReleasePeer, ReleaseSlot, ReadRequest, OpenUpstream, RefreshUrl, SendBlock, BreakOff
<1>2. CASE ReleasePeer(c) BY <1>0, <1>1, <1>2 DEF ReleasePeer
<1>3. CASE ReadRequest(c) BY <1>0, <1>1, <1>3 DEF ReadRequest
<1>4. CASE OpenUpstream(c) BY <1>0, <1>1, <1>4 DEF OpenUpstream
<1>5. CASE SendBlock(c) BY <1>0, <1>1, <1>5 DEF SendBlock
<1> QED BY <1>1, <1>2, <1>3, <1>4, <1>5
        DEF ConnStep, AcquireSlot, AcquirePeer, StartHandler, TurnAway, Refuse, ReleaseSlot,
            RefreshUrl, BreakOff, transfer

LEMMA DomainsKept ==
    ASSUME BytesInv, NEW c \in Conns, ConnStep(c)
    PROVE  /\ DOMAIN at' = Conns /\ DOMAIN attempt' = Conns /\ DOMAIN span' = Conns
           /\ DOMAIN feed' = Conns /\ DOMAIN served' = Conns
  BY DEF BytesInv, ConnStep, Moves, AcquireSlot, AcquirePeer, StartHandler, TurnAway, Refuse,
         ReleasePeer, ReleaseSlot, ReadRequest, OpenUpstream, RefreshUrl, SendBlock, BreakOff,
         transfer

\* The bytes of the connection that takes the step.
BytesOf(c) ==
    /\ Served(c)
    /\ at[c] \in Before => served[c] = <<>>
    /\ at[c] \in {"upstream", "refresh"} => Promised(c)
    /\ at[c] = "pump" => Aligned(c)

\* A step that leaves what was sent alone, and does not begin to send.
LEMMA Untouched ==
    ASSUME BytesInv, NEW c \in Conns, NEW s, Moves(c, s),
           s # "pump", span'[c] = span[c], served'[c] = served[c],
           s \in Before => at[c] \in Before,
           s \in {"upstream", "refresh"} => at[c] \in {"upstream", "refresh"}
    PROVE  BytesOf(c)'
<1>1. at'[c] = s BY DEF BytesInv, Moves
<1>2. BytesOf(c) BY DEF BytesInv, BytesOf
<1> QED BY <1>1, <1>2 DEF BytesOf, Served, Promised, Length

LEMMA ReleaseBytes == ASSUME BytesInv, NEW c \in Conns, ReleasePeer(c) PROVE BytesOf(c)'
<1>1. span'[c] = NoSpan /\ served'[c] = <<>> BY DEF BytesInv, ReleasePeer
<1>2. at'[c] \in {"released", "dropped"} BY DEF BytesInv, ReleasePeer, Moves
<1> QED BY <1>1, <1>2, EmptyPrefix DEF BytesOf, Served, Length, NoSpan, Before

LEMMA RequestBytes == ASSUME BytesInv, NEW c \in Conns, ReadRequest(c) PROVE BytesOf(c)'
<1>1. CASE Moves(c, "ending") /\ UNCHANGED span
  BY <1>1, Untouched DEF ReadRequest, Before
<1>2. ASSUME NEW r \in Requests, ~Answered(r), span' = [span EXCEPT ![c] = Parsed(r)],
             Moves(c, "upstream")
      PROVE  BytesOf(c)'
  <2>1. span'[c] = Parsed(r) /\ at'[c] = "upstream" BY <1>2 DEF BytesInv, Moves
  <2>2. served'[c] = <<>> BY DEF ReadRequest, BytesInv, Before
  <2>3. span'[c] \in [first : Nat, last : Int] /\ span'[c].first <= span'[c].last
    BY <1>2, <2>1, ParsedRange
  <2> QED BY <2>1, <2>2, <2>3, EmptyPrefix DEF BytesOf, Served, Promised, Length, Before
<1> QED BY <1>1, <1>2 DEF ReadRequest

LEMMA UpstreamBytes == ASSUME BytesInv, NEW c \in Conns, OpenUpstream(c) PROVE BytesOf(c)'
<1>1. CASE Moves(c, "ending")
  BY <1>1, Untouched DEF OpenUpstream, Before
<1>2. CASE Moves(c, "refresh")
  BY <1>2, Untouched DEF OpenUpstream, Before
<1>3. ASSUME NEW a \in Answers(c), Honored(c, a), Moves(c, "pump"),
             feed' = [feed EXCEPT ![c] = [next |-> IF a.status = 200 THEN 0 ELSE a.first,
                                          cipher |-> BlockStart(c),
                                          skip |-> span[c].first - BlockStart(c),
                                          same |-> a.status = 200 \/ a.total = FileSize]]
      PROVE  BytesOf(c)'
  <2>1. Promised(c) /\ Served(c) BY DEF OpenUpstream, BytesInv
  <2>2. span[c].first \in Nat BY <2>1 DEF Promised
  <2>3. BlockStart(c) \in Nat /\ BlockStart(c) <= span[c].first
    BY <2>2, BlockBefore DEF BlockStart
  <2>4. feed'[c] = [next |-> BlockStart(c), cipher |-> BlockStart(c),
                    skip |-> span[c].first - BlockStart(c), same |-> TRUE]
    <3>1. (IF a.status = 200 THEN 0 ELSE a.first) = BlockStart(c) BY <1>3 DEF Honored
    <3>2. (a.status = 200 \/ a.total = FileSize) = TRUE BY <1>3 DEF Honored
    <3>3. DOMAIN feed = Conns BY DEF BytesInv
    <3> QED BY <1>3, <3>1, <3>2, <3>3
  <2>5. at'[c] = "pump" /\ UNCHANGED <<span, served>> BY <1>3 DEF BytesInv, Moves, OpenUpstream
  <2>6. Served(c)' BY <2>1, <2>5 DEF Served, Length
  <2>7. Aligned(c)'
    <3>1. span[c].first - BlockStart(c) \in Nat BY <2>2, <2>3
    <3>2. feed'[c] \in [next : Nat, cipher : Nat, skip : Nat, same : BOOLEAN] BY <2>3, <2>4, <3>1
    <3>3. Len(served[c]) = 0 BY <2>1, EmptyPrefix DEF Promised
    <3> QED BY <2>1, <2>2, <2>3, <2>4, <2>5, <3>2, <3>3 DEF Aligned, Promised
  <2> QED BY <2>5, <2>6, <2>7 DEF BytesOf, Before
<1> QED BY <1>1, <1>2, <1>3 DEF OpenUpstream

LEMMA BlockBytes == ASSUME BytesInv, NEW c \in Conns, SendBlock(c) PROVE BytesOf(c)'
<1>1. PICK n \in Pieces :
         LET plain == SubSeq(Deciphered(c, n), Lesser(feed[c].skip, n) + 1, n)
             kept == SubSeq(plain, 1, Lesser(Len(plain), Length(c) - Len(served[c])))
         IN  /\ feed' = [feed EXCEPT ![c].next = @ + n, ![c].cipher = @ + n,
                                     ![c].skip = SkipLeft(c, n)]
             /\ served' = [served EXCEPT ![c] = @ \o kept]
             /\ Moves(c, IF Len(served[c]) + Len(kept) >= Length(c) THEN "ending" ELSE "pump")
  BY DEF SendBlock
<1> DEFINE k == Lesser(feed[c].skip, n)
           plain == SubSeq(Deciphered(c, n), k + 1, n)
           m == Lesser(Len(plain), Length(c) - Len(served[c]))
           kept == SubSeq(plain, 1, m)
           sent == Len(served[c])
<1>2. Served(c) /\ Aligned(c) /\ UNCHANGED span BY DEF SendBlock, BytesInv
<1>3. n \in Nat /\ n > 0 BY StreamAssumption
<1>4. /\ feed[c].next \in Nat /\ feed[c].cipher \in Nat /\ feed[c].skip \in Nat
      /\ feed[c].next = feed[c].cipher /\ span[c].first \in Nat /\ span[c].last \in Int
  BY <1>2 DEF Aligned
<1>5. sent \in Nat /\ Length(c) \in Int /\ sent <= Length(c)
  BY <1>2, <1>4, LenProperties DEF Served, Length
<1>6. k \in Nat /\ k <= n /\ k <= feed[c].skip /\ (k = n \/ k = feed[c].skip)
  BY <1>3, <1>4 DEF Lesser
<1>7. \A i \in 1 .. n : Deciphered(c, n)[i] = feed[c].next + i - 1
  BY <1>2, <1>4 DEF Deciphered, Aligned
<1>8. /\ plain \in Seq(Int) /\ Len(plain) = n - k
      /\ \A i \in 1 .. n - k : plain[i] = feed[c].next + k + i - 1
  <2>1. \A i \in k + 1 .. n : Deciphered(c, n)[i] \in Int BY <1>3, <1>4, <1>6, <1>7
  <2>2. k + 1 \in Int /\ n \in Int BY <1>3, <1>6
  <2>3. /\ plain \in Seq(Int)
        /\ Len(plain) = IF k + 1 <= n THEN n - (k + 1) + 1 ELSE 0
        /\ \A i \in 1 .. n - (k + 1) + 1 : plain[i] = Deciphered(c, n)[k + 1 + i - 1]
    BY <2>1, <2>2, SubSeqProperties
  <2>4. Len(plain) = n - k BY <1>3, <1>6, <2>3
  <2>5. ASSUME NEW i \in 1 .. n - k PROVE plain[i] = feed[c].next + k + i - 1
    <3> HIDE DEF k, plain
    <3>1. plain[i] = Deciphered(c, n)[k + i] /\ k + i \in 1 .. n BY <1>3, <1>6, <2>3
    <3>2. Deciphered(c, n)[k + i] = feed[c].next + (k + i) - 1 BY <1>7, <3>1
    <3> QED BY <1>3, <1>4, <1>6, <3>1, <3>2
  <2> QED BY <2>3, <2>4, <2>5
<1>9. /\ m \in Nat /\ m <= n - k /\ sent + m <= Length(c)
      /\ m = n - k \/ sent + m = Length(c)
  <2> HIDE DEF k, plain
  <2>1. Len(plain) = n - k BY <1>8
  <2> QED BY <1>3, <1>5, <1>6, <2>1 DEF Lesser
<1>10. /\ kept \in Seq(Int) /\ Len(kept) = m
       /\ \A i \in 1 .. m : kept[i] = feed[c].next + k + i - 1
  <2> HIDE DEF plain, m
  <2>1. \A i \in 1 .. m : plain[i] = feed[c].next + k + i - 1 BY <1>3, <1>6, <1>8, <1>9
  <2>2. \A i \in 1 .. m : plain[i] \in Int BY <1>4, <1>6, <1>9, <2>1
  <2>3. 1 \in Int /\ m \in Int BY <1>9
  <2>4. /\ kept \in Seq(Int) /\ Len(kept) = IF 1 <= m THEN m - 1 + 1 ELSE 0
        /\ \A i \in 1 .. m - 1 + 1 : kept[i] = plain[1 + i - 1]
    BY <2>2, <2>3, SubSeqProperties
  <2> QED BY <1>9, <2>1, <2>4
<1>11. /\ served'[c] = served[c] \o kept
       /\ feed'[c].next = feed[c].next + n /\ feed'[c].cipher = feed[c].cipher + n
       /\ feed'[c].skip = feed[c].skip - k /\ feed'[c].same = feed[c].same
       /\ feed'[c] \in [next : Nat, cipher : Nat, skip : Nat, same : BOOLEAN]
       /\ at'[c] = IF sent + Len(kept) >= Length(c) THEN "ending" ELSE "pump"
  <2>1. DOMAIN served = Conns /\ DOMAIN feed = Conns /\ DOMAIN at = Conns BY DEF BytesInv
  <2>2. served'[c] = served[c] \o kept BY <1>1, <2>1
  <2>3. at'[c] = IF sent + Len(kept) >= Length(c) THEN "ending" ELSE "pump"
    BY <1>1, <2>1 DEF Moves
  <2>4. feed'[c] = [feed[c] EXCEPT !.next = @ + n, !.cipher = @ + n, !.skip = feed[c].skip - k]
    BY <1>1, <2>1 DEF SkipLeft
  <2>5. feed[c] \in [next : Nat, cipher : Nat, skip : Nat, same : BOOLEAN] BY <1>2 DEF Aligned
  <2> HIDE DEF kept, k, plain, m
  <2>6. /\ feed[c].next + n \in Nat /\ feed[c].cipher + n \in Nat /\ feed[c].skip - k \in Nat
    BY <1>3, <1>4, <1>6
  <2>7. /\ feed'[c].next = feed[c].next + n /\ feed'[c].cipher = feed[c].cipher + n
        /\ feed'[c].skip = feed[c].skip - k /\ feed'[c].same = feed[c].same
        /\ feed'[c] \in [next : Nat, cipher : Nat, skip : Nat, same : BOOLEAN]
    BY <2>4, <2>5, <2>6
  <2> QED BY <2>2, <2>3, <2>7
<1> HIDE DEF kept, k, plain, m
<1>12. k = feed[c].skip \/ m = 0 BY <1>6, <1>9
<1>13. m > 0 => feed[c].next + k = span[c].first + sent
  BY <1>2, <1>12 DEF Aligned
<1>14. /\ served'[c] \in Seq(Int) /\ Len(served'[c]) = sent + m
       /\ \A i \in 1 .. sent + m : served'[c][i] = IF i <= sent THEN served[c][i]
                                                   ELSE kept[i - sent]
  <2>1. served[c] \in Seq(Int) BY <1>2 DEF Served
  <2>2. kept \in Seq(Int) /\ Len(kept) = m BY <1>10
  <2>3. /\ served[c] \o kept \in Seq(Int)
        /\ Len(served[c] \o kept) = Len(served[c]) + Len(kept)
        /\ \A i \in 1 .. Len(served[c]) + Len(kept) :
              (served[c] \o kept)[i] = IF i <= Len(served[c]) THEN served[c][i]
                                       ELSE kept[i - Len(served[c])]
    BY <2>1, <2>2, ConcatProperties
  <2>4. served'[c] = served[c] \o kept BY <1>11
  <2> QED BY <2>2, <2>3, <2>4
<1>15. Served(c)'
  <2>1. \A i \in 1 .. sent + m : served'[c][i] = span[c].first + i - 1
    <3> SUFFICES ASSUME NEW i \in 1 .. sent + m PROVE served'[c][i] = span[c].first + i - 1
      OBVIOUS
    <3>1. CASE i <= sent
      <4>1. served'[c][i] = served[c][i] /\ i \in 1 .. sent BY <1>5, <1>9, <1>14, <3>1
      <4> QED BY <1>2, <4>1 DEF Served
    <3>2. CASE i > sent
      <4>1. i - sent \in 1 .. m /\ m > 0 BY <1>5, <1>9, <3>2
      <4>2. served'[c][i] = kept[i - sent] BY <1>14, <3>2
      <4>3. kept[i - sent] = feed[c].next + k + (i - sent) - 1 BY <1>10, <4>1
      <4>4. feed[c].next + k = span[c].first + sent BY <1>13, <4>1
      <4> HIDE DEF sent
      <4> QED BY <1>4, <1>5, <1>6, <4>2, <4>3, <4>4
    <3> QED BY <1>5, <1>9, <3>1, <3>2
  <2> QED BY <1>2, <1>9, <1>14, <2>1 DEF Served, Length
<1>16. at'[c] = "pump" => Aligned(c)'
  <2> SUFFICES ASSUME at'[c] = "pump" PROVE Aligned(c)' OBVIOUS
  <2>1. sent + m < Length(c) BY <1>5, <1>9, <1>10, <1>11
  <2>2. m = n - k BY <1>5, <1>9, <2>1
  <2>3. feed'[c].next + feed'[c].skip = span[c].first + Len(served'[c])
    <3>1. feed[c].next + feed[c].skip = span[c].first + sent BY <1>2 DEF Aligned
    <3>2. feed'[c].next + feed'[c].skip = feed[c].next + n + (feed[c].skip - k) BY <1>11
    <3>3. Len(served'[c]) = sent + m BY <1>14
    <3>5. /\ feed[c].next \in Int /\ feed[c].skip \in Int /\ span[c].first \in Int
          /\ sent \in Int /\ k \in Int
      BY <1>4, <1>5, <1>6
    <3>6. feed[c].next + n + (feed[c].skip - k) = span[c].first + (sent + (n - k))
      <4> DEFINE x == feed[c].next
                 y == feed[c].skip
                 u == span[c].first
                 v == Len(served[c])
      <4>1. /\ x \in Int /\ y \in Int /\ u \in Int /\ v \in Int /\ k \in Int /\ n \in Int
            /\ x + y = u + v
        BY <1>3, <3>1, <3>5
      <4>2. x + n + (y - k) = u + (v + (n - k))
        <5> HIDE DEF x, y, u, v
        <5> QED BY <4>1
      <4> QED BY <4>2
    <3>7. Len(served'[c]) = sent + (n - k) BY <2>2, <3>3
    <3> QED BY <3>2, <3>6, <3>7
  <2>4. feed'[c].skip > 0 => Len(served'[c]) = 0
    <3>1. feed[c].skip > 0 => sent = 0 BY <1>2 DEF Aligned
    <3> QED BY <1>4, <1>5, <1>6, <1>9, <1>11, <1>14, <2>2, <3>1
  <2> QED BY <1>2, <1>4, <1>11, <2>3, <2>4 DEF Aligned
<1> QED BY <1>11, <1>15, <1>16 DEF BytesOf, Before

LEMMA NextBytes == BytesInv /\ [StreamNext]_streamVars => BytesInv'
<1>1. ASSUME BytesInv, NEW c \in Conns, ConnStep(c) PROVE BytesInv'
  <2>1. BytesOf(c)'
    <3>1. CASE AcquireSlot(c) BY <1>1, <3>1, Untouched DEF AcquireSlot, transfer, Before
    <3>2. CASE AcquirePeer(c) BY <1>1, <3>2, Untouched DEF AcquirePeer, transfer, Before
    <3>3. CASE StartHandler(c) BY <1>1, <3>3, Untouched DEF StartHandler, transfer, Before
    <3>4. CASE TurnAway(c) BY <1>1, <3>4, Untouched DEF TurnAway, transfer, Before
    <3>5. CASE Refuse(c) BY <1>1, <3>5, Untouched DEF Refuse, transfer, Before
    <3>6. CASE ReleaseSlot(c) BY <1>1, <3>6, Untouched DEF ReleaseSlot, transfer, Before
    <3>7. CASE RefreshUrl(c) BY <1>1, <3>7, Untouched DEF RefreshUrl, Before
    <3>8. CASE BreakOff(c) BY <1>1, <3>8, Untouched DEF BreakOff, transfer, Before
    <3> QED BY <1>1, <3>1, <3>2, <3>3, <3>4, <3>5, <3>6, <3>7, <3>8,
               ReleaseBytes, RequestBytes, UpstreamBytes, BlockBytes DEF ConnStep
  <2>2. ASSUME NEW d \in Conns, d # c PROVE BytesOf(d)'
    <3>1. /\ at'[d] = at[d] /\ span'[d] = span[d] /\ feed'[d] = feed[d]
          /\ served'[d] = served[d]
      BY <1>1, <2>2, BytesFrame
    <3>2. BytesOf(d) BY <1>1 DEF BytesInv, BytesOf
    <3> QED BY <3>1, <3>2 DEF BytesOf, Served, Promised, Aligned, Length
  <2> QED BY <1>1, <2>1, <2>2, DomainsKept DEF BytesInv, BytesOf
<1>2. ASSUME BytesInv, UNCHANGED streamVars PROVE BytesInv'
  BY <1>2 DEF BytesInv, streamVars, Served, Promised, Aligned, Length
<1> QED BY <1>1, <1>2 DEF StreamNext

(* A client is sent the bytes it was promised, in their order from the      *)
(* first (server.py:468-478), for any file, cipher block, ranges and way of *)
(* cutting the body into blocks.                                            *)
THEOREM BytesServedExactly == StreamSpec => []ServedExactly
<1>1. BytesInv => ServedExactly
  <2> SUFFICES ASSUME BytesInv, NEW c \in Conns
               PROVE  /\ Len(served[c]) <= Length(c)
                      /\ \A i \in DOMAIN served[c] : served[c][i] = span[c].first + i - 1
    BY DEF ServedExactly
  <2>1. Served(c) BY DEF BytesInv
  <2>2. DOMAIN served[c] = 1 .. Len(served[c]) BY <2>1, LenProperties DEF Served
  <2> QED BY <2>1, <2>2 DEF Served
<1> QED BY <1>1, InitBytes, NextBytes, PTL DEF StreamSpec
=============================================================================
