--------------------------- MODULE FolderProofs ----------------------------
(***************************************************************************)
(* Proofs about what makes and fills folders.  Of DestinationClaims, for any *)
(* number of transfers, processes and candidates: no two transfers write    *)
(* one destination, and a file that was downloaded whole is never written   *)
(* over.                                                                    *)
(* Of UploadTree, for any directory, whatever fails: the remote tree is the *)
(* local one.  Of FolderPlan, for any finite listing: the plan mirrors the  *)
(* share.  Both need what a recursion computes: that it exists, and what    *)
(* holds of its steps, each by an induction that is a statement about a set *)
(* of numbers.                                                              *)
(***************************************************************************)
EXTENDS DestinationClaims, UploadTree, FolderPlan, TLAPS, FiniteSetTheorems, SequenceTheorems,
        WellFoundedInduction

\* What a transfer holds the lock of its candidate for.
Locking == {"check", "write", "fetch", "unregister", "unlock"}

HoldsLock(t) == doing[t] \in Locking => locked[candidate[t]] = t

\* Under the lock nothing but what the second look saw, or the transfer itself wrote.
SeesOwn(t) ==
    /\ doing[t] = "write" => disk[candidate[t]] \in {NoFile, File(t, "partial")}
    /\ doing[t] = "fetch" => disk[candidate[t]] = File(t, "partial")

DoneType == DOMAIN done \subseteq Transfers /\ \A t \in DOMAIN done : done[t] \in Candidates

Claims == \A t \in Transfers : HoldsLock(t) /\ SeesOwn(t)

ClaimInv == ClaimTypeOK /\ DoneType /\ Claims /\ FinishedKept

LEMMA WholeIsWhole ==
    ASSUME NEW t \in Transfers, NEW u \in Transfers
    PROVE  File(t, "whole") # NoFile /\ File(t, "whole") # File(u, "partial")
BY DEF File, NoFile

LEMMA InitClaims == ClaimInit => ClaimInv
<1> SUFFICES ASSUME ClaimInit PROVE ClaimInv OBVIOUS
<1>1. 0 \in Candidates BY ClaimAssumption DEF Candidates
<1>2. ClaimTypeOK BY <1>1 DEF ClaimInit, ClaimTypeOK
<1>3. DoneType /\ FinishedKept BY DEF ClaimInit, DoneType, FinishedKept
<1>4. Claims BY DEF ClaimInit, Claims, HoldsLock, SeesOwn, Locking
<1> QED BY <1>2, <1>3, <1>4 DEF ClaimInv

LEMMA SkipType ==
    ASSUME ClaimTypeOK, NEW t \in Transfers, Skip(t)
    PROVE  /\ candidate' \in [Transfers -> Candidates]
           /\ doing' = [doing EXCEPT ![t] = "look"]
<1>1. candidate[t] + 1 \in Candidates BY ClaimAssumption DEF ClaimTypeOK, Skip, Candidates
<1> QED BY <1>1 DEF ClaimTypeOK, Skip, Goes

LEMMA NextType ==
    ASSUME ClaimTypeOK, DoneType, ClaimNext PROVE ClaimTypeOK' /\ DoneType'
<1> DEFINE Places == {"start", "look", "lock", "check", "write", "fetch", "unregister",
                      "unlock", "ended"}
           Files == {NoFile} \cup {File(t, how) : t \in Transfers,
                                   how \in {"partial", "whole", "lost"}}
<1>0. /\ disk \in [Candidates -> Files] /\ registry \in [Processes -> SUBSET Candidates]
      /\ locked \in [Candidates -> Transfers \cup {Unowned}]
      /\ mutex \in [Processes -> Transfers \cup {Unowned}]
      /\ doing \in [Transfers -> Places] /\ candidate \in [Transfers -> Candidates]
  BY DEF ClaimTypeOK
<1>p. \A t \in Transfers : Process[t] \in Processes BY DEF Processes
<1>1. ASSUME NEW t \in Transfers, TransferStep(t) PROVE ClaimTypeOK' /\ DoneType'
  <2>1. CASE StartClaim(t)
    BY <1>0, <1>p, <2>1 DEF StartClaim, Goes, ClaimTypeOK, DoneType
  <2>2. CASE LookAtDisk(t)
    <3>1. CASE Skip(t) BY <1>0, <2>2, <3>1, SkipType DEF LookAtDisk, ClaimTypeOK, DoneType
    <3>2. CASE Goes(t, "lock") /\ UNCHANGED candidate
      BY <1>0, <2>2, <3>2 DEF LookAtDisk, Goes, ClaimTypeOK, DoneType
    <3> QED BY <2>2, <3>1, <3>2 DEF LookAtDisk
  <2>3. CASE TryLock(t)
    <3>1. CASE locked' = [locked EXCEPT ![candidate[t]] = t] /\ Goes(t, "check")
               /\ UNCHANGED candidate
      BY <1>0, <2>3, <3>1 DEF TryLock, Goes, ClaimTypeOK, DoneType
    <3>2. CASE Skip(t) /\ UNCHANGED locked
      BY <1>0, <2>3, <3>2, SkipType DEF TryLock, ClaimTypeOK, DoneType
    <3> QED BY <2>3, <3>1, <3>2 DEF TryLock
  <2>4. CASE Check(t)
    <3>1. CASE locked' = [locked EXCEPT ![candidate[t]] = Unowned] /\ Skip(t)
               /\ UNCHANGED <<registry, mutex>>
      BY <1>0, <2>4, <3>1, SkipType DEF Check, ClaimTypeOK, DoneType
    <3>2. CASE /\ registry' = [registry EXCEPT ![Process[t]] = @ \cup {candidate[t]}]
               /\ mutex' = [mutex EXCEPT ![Process[t]] = Unowned]
               /\ Goes(t, "write")
               /\ UNCHANGED <<locked, candidate>>
      BY <1>0, <1>p, <2>4, <3>2 DEF Check, Goes, ClaimTypeOK, DoneType
    <3> QED BY <2>4, <3>1, <3>2 DEF Check
  <2>5. CASE WriteSome(t)
    <3>1. File(t, "partial") \in Files OBVIOUS
    <3> QED BY <1>0, <2>5, <3>1 DEF WriteSome, Goes, ClaimTypeOK, DoneType
  <2>6. CASE EndTransfer(t)
    <3>1. File(t, "whole") \in Files /\ File(t, "lost") \in Files OBVIOUS
    <3>2. disk' \in [Candidates -> Files] BY <1>0, <2>6, <3>1 DEF EndTransfer
    <3>3. doing' \in [Transfers -> Places] BY <1>0, <2>6 DEF EndTransfer, Goes
    <3>4. DoneType' BY <1>0, <2>6 DEF EndTransfer, DoneType
    <3> QED BY <1>0, <2>6, <3>2, <3>3, <3>4 DEF EndTransfer, ClaimTypeOK
  <2>7. CASE Unregister(t)
    BY <1>0, <1>p, <2>7 DEF Unregister, Goes, ClaimTypeOK, DoneType
  <2>8. CASE Unlock(t) BY <1>0, <2>8 DEF Unlock, Goes, ClaimTypeOK, DoneType
  <2> QED BY <1>1, <2>1, <2>2, <2>3, <2>4, <2>5, <2>6, <2>7, <2>8 DEF TransferStep
<1>2. ASSUME NEW p \in Processes, Die(p) PROVE ClaimTypeOK' /\ DoneType'
  BY <1>0, <1>2 DEF Die, ClaimTypeOK, DoneType
<1> QED BY <1>1, <1>2 DEF ClaimNext

LEMMA NextClaims == ClaimInv /\ [ClaimNext]_claimVars => ClaimInv'
<1> SUFFICES ASSUME ClaimInv, [ClaimNext]_claimVars PROVE ClaimInv' OBVIOUS
<1>0. /\ disk \in [Candidates -> {NoFile} \cup {File(t, how) : t \in Transfers,
                                                how \in {"partial", "whole", "lost"}}]
      /\ locked \in [Candidates -> Transfers \cup {Unowned}]
      /\ doing \in [Transfers -> {"start", "look", "lock", "check", "write", "fetch", "unregister",
                               "unlock", "ended"}]
      /\ candidate \in [Transfers -> Candidates]
      /\ ClaimTypeOK /\ DoneType /\ Claims /\ FinishedKept
  BY DEF ClaimInv, ClaimTypeOK
<1>a. \A u \in Transfers : u # Unowned BY ClaimAssumption
\* A transfer that holds no lock after its step keeps the claims of the others.
<1>b. ASSUME NEW t \in Transfers, disk' = disk, done' = done,
             \A u \in Transfers : u # t => doing'[u] = doing[u] /\ candidate'[u] = candidate[u],
             \A u \in Transfers : u # t /\ doing[u] \in Locking
                                    => locked'[candidate[u]] = locked[candidate[u]],
             HoldsLock(t)' /\ SeesOwn(t)'
      PROVE  Claims' /\ FinishedKept'
  <2>1. ASSUME NEW u \in Transfers, u # t PROVE HoldsLock(u)' /\ SeesOwn(u)'
    BY <1>0, <1>b, <2>1 DEF Claims, HoldsLock, SeesOwn
  <2> QED BY <1>0, <1>b, <2>1 DEF Claims, FinishedKept
<1>1. ASSUME NEW t \in Transfers, TransferStep(t) PROVE Claims' /\ FinishedKept'
  <2>h. HoldsLock(t) /\ SeesOwn(t) BY <1>0 DEF Claims
  <2>o. \A u \in Transfers : u # t /\ doing[u] \in Locking => locked[candidate[u]] = u
    BY <1>0 DEF Claims, HoldsLock
  <2>1. CASE StartClaim(t)
    BY <1>0, <1>b, <2>1 DEF StartClaim, Goes, HoldsLock, SeesOwn, Locking
  <2>2. CASE LookAtDisk(t)
    <3>1. CASE Skip(t) BY <1>0, <1>b, <2>2, <3>1 DEF LookAtDisk, Skip, Goes, HoldsLock, SeesOwn, Locking
    <3>2. CASE Goes(t, "lock") /\ UNCHANGED candidate
      BY <1>0, <1>b, <2>2, <3>2 DEF LookAtDisk, Goes, HoldsLock, SeesOwn, Locking
    <3> QED BY <2>2, <3>1, <3>2 DEF LookAtDisk
  <2>3. CASE TryLock(t)
    <3>1. CASE /\ locked[candidate[t]] = Unowned
               /\ locked' = [locked EXCEPT ![candidate[t]] = t]
               /\ Goes(t, "check")
               /\ UNCHANGED candidate
      <4>1. \A u \in Transfers : u # t /\ doing[u] \in Locking
                                   => locked'[candidate[u]] = locked[candidate[u]]
        BY <1>0, <1>a, <2>o, <3>1
      <4>2. HoldsLock(t)' /\ SeesOwn(t)'
        BY <1>0, <2>3, <3>1 DEF Goes, HoldsLock, SeesOwn
      <4> QED BY <1>0, <1>b, <2>3, <3>1, <4>1, <4>2 DEF TryLock, Goes
    <3>2. CASE Skip(t) /\ UNCHANGED locked
      BY <1>0, <1>b, <2>3, <3>2 DEF TryLock, Skip, Goes, HoldsLock, SeesOwn, Locking
    <3> QED BY <2>3, <3>1, <3>2 DEF TryLock
  <2>4. CASE Check(t)
    <3>0. locked[candidate[t]] = t BY <2>h, <2>4 DEF Check, HoldsLock, Locking
    <3>1. CASE locked' = [locked EXCEPT ![candidate[t]] = Unowned] /\ Skip(t)
      <4>1. \A u \in Transfers : u # t /\ doing[u] \in Locking
                                   => locked'[candidate[u]] = locked[candidate[u]]
        BY <1>0, <2>o, <3>0, <3>1
      <4>2. HoldsLock(t)' /\ SeesOwn(t)'
        BY <1>0, <3>1 DEF Skip, Goes, HoldsLock, SeesOwn, Locking
      <4> QED BY <1>0, <1>b, <2>4, <3>1, <4>1, <4>2 DEF Check, Skip, Goes
    <3>2. CASE ~Blocked(t) /\ Goes(t, "write") /\ UNCHANGED <<locked, candidate>>
      <4>1. disk[candidate[t]] \in {NoFile, File(t, "partial")} BY <3>2 DEF Blocked
      <4>2. HoldsLock(t)' /\ SeesOwn(t)'
        BY <1>0, <2>4, <3>0, <3>2, <4>1 DEF Check, Goes, HoldsLock, SeesOwn, NoFile, File
      <4> QED BY <1>0, <1>b, <2>4, <3>2, <4>2 DEF Check, Goes
    <3> QED BY <2>4, <3>1, <3>2 DEF Check
  <2>5. CASE WriteSome(t)
    <3>1. locked[candidate[t]] = t /\ disk[candidate[t]] \in {NoFile, File(t, "partial")}
      BY <2>h, <2>5 DEF WriteSome, HoldsLock, SeesOwn, Locking
    <3>2. \A u \in Transfers : u # t /\ doing[u] \in Locking => candidate[u] # candidate[t]
      BY <2>o, <3>1
    <3>3. Claims'
      BY <1>0, <2>5, <3>1, <3>2 DEF WriteSome, Goes, Claims, HoldsLock, SeesOwn, Locking
    <3>4. \A u \in DOMAIN done : done[u] # candidate[t]
      BY <1>0, <3>1, WholeIsWhole DEF FinishedKept, DoneType
    <3>5. FinishedKept'
      BY <1>0, <2>5, <3>4 DEF WriteSome, FinishedKept, DoneType, File
    <3> QED BY <3>3, <3>5
  <2>6. CASE EndTransfer(t)
    <3>1. locked[candidate[t]] = t
      BY <2>h, <2>6 DEF EndTransfer, HoldsLock, Locking
    <3>2. \A u \in Transfers : u # t /\ doing[u] \in Locking => candidate[u] # candidate[t]
      BY <2>o, <3>1
    <3>3. Claims'
      BY <1>0, <2>6, <3>1, <3>2 DEF EndTransfer, Goes, Claims, HoldsLock, SeesOwn, Locking
    <3>4. CASE UNCHANGED <<disk, done>> BY <1>0, <3>3, <3>4 DEF FinishedKept, File
    <3>5. ASSUME doing[t] = "fetch" PROVE \A u \in DOMAIN done : done[u] # candidate[t]
      <4>1. disk[candidate[t]] = File(t, "partial") BY <2>h, <3>5 DEF SeesOwn
      <4> QED BY <1>0, <4>1, WholeIsWhole DEF FinishedKept, DoneType
    <3>6. CASE doing[t] = "fetch" /\ disk' = [disk EXCEPT ![candidate[t]] = File(t, "lost")]
               /\ UNCHANGED done
      <4>1. ASSUME NEW u \in DOMAIN done PROVE disk'[done[u]] = disk[done[u]]
        <5>1. done[u] # candidate[t] /\ done[u] \in Candidates BY <1>0, <3>5, <3>6 DEF DoneType
        <5> QED BY <1>0, <3>6, <5>1
      <4> QED BY <1>0, <3>3, <3>6, <4>1 DEF FinishedKept, File
    <3>7. CASE /\ doing[t] = "fetch"
               /\ disk' = [disk EXCEPT ![candidate[t]] = File(t, "whole")]
               /\ done' = [u \in DOMAIN done \cup {t} |-> IF u = t THEN candidate[t] ELSE done[u]]
      <4> SUFFICES ASSUME NEW u \in DOMAIN done' PROVE disk'[done'[u]] = File(u, "whole")
        BY <3>3 DEF FinishedKept, File
      <4>1. CASE u = t BY <1>0, <3>7, <4>1
      <4>2. CASE u # t
        <5>1. u \in DOMAIN done /\ done'[u] = done[u] BY <3>7, <4>2
        <5>2. done[u] # candidate[t] /\ done[u] \in Candidates BY <1>0, <3>5, <3>7, <5>1 DEF DoneType
        <5> QED BY <1>0, <3>7, <5>1, <5>2 DEF FinishedKept
      <4> QED BY <4>1, <4>2
    <3> QED BY <2>6, <3>3, <3>4, <3>6, <3>7 DEF EndTransfer
  <2>7. CASE Unregister(t)
    BY <1>0, <1>b, <2>h, <2>7 DEF Unregister, Goes, HoldsLock, SeesOwn, Locking
  <2>8. CASE Unlock(t)
    <3>1. locked[candidate[t]] = t BY <2>h, <2>8 DEF Unlock, HoldsLock, Locking
    <3>2. \A u \in Transfers : u # t /\ doing[u] \in Locking
                                 => locked'[candidate[u]] = locked[candidate[u]]
      BY <1>0, <2>o, <2>8, <3>1 DEF Unlock
    <3>3. HoldsLock(t)' /\ SeesOwn(t)'
      BY <1>0, <2>8 DEF Unlock, Goes, HoldsLock, SeesOwn, Locking
    <3> QED BY <1>0, <1>b, <2>8, <3>2, <3>3 DEF Unlock, Goes
  <2> QED BY <1>1, <2>1, <2>2, <2>3, <2>4, <2>5, <2>6, <2>7, <2>8 DEF TransferStep
<1>2. ASSUME NEW p \in Processes, Die(p) PROVE Claims' /\ FinishedKept'
  <2>1. ASSUME NEW u \in Transfers PROVE HoldsLock(u)' /\ SeesOwn(u)'
    <3>1. CASE Process[u] = p BY <1>0, <1>2, <3>1 DEF Die, HoldsLock, SeesOwn, Locking
    <3>2. CASE Process[u] # p
      <4>1. doing'[u] = doing[u] /\ candidate'[u] = candidate[u] BY <1>0, <1>2, <3>2 DEF Die
      <4>2. doing[u] \in Locking => locked'[candidate[u]] = u
        BY <1>0, <1>2, <3>2 DEF Die, Claims, HoldsLock
      <4> QED BY <1>0, <1>2, <4>1, <4>2 DEF Die, Claims, HoldsLock, SeesOwn, NoFile, File
    <3> QED BY <3>1, <3>2
  <2> QED BY <1>0, <1>2, <2>1 DEF Die, Claims, FinishedKept, File
<1>3. CASE ClaimNext
  <2>1. ClaimTypeOK' /\ DoneType' BY <1>0, <1>3, NextType
  <2> QED BY <1>1, <1>2, <1>3, <2>1 DEF ClaimNext, ClaimInv
<1>4. CASE UNCHANGED claimVars
  BY <1>0, <1>4 DEF claimVars, ClaimInv, ClaimTypeOK, DoneType, Claims, HoldsLock, SeesOwn,
                    FinishedKept, File, NoFile
<1> QED BY <1>3, <1>4

LEMMA ClaimInvariance == ClaimSpec => []ClaimInv
BY InitClaims, NextClaims, PTL DEF ClaimSpec

(* Type correctness of the claims, for any transfers and candidates         *)
(* (helpers.py:104-201).                                                    *)
THEOREM ClaimTypeCorrect == ClaimSpec => []ClaimTypeOK
<1>1. ClaimInv => ClaimTypeOK BY DEF ClaimInv
<1> QED BY <1>1, ClaimInvariance, PTL

(* Two transfers of any processes never write one destination at a time:    *)
(* each writes under the lock of its candidate (helpers.py:161-177).        *)
THEOREM OneWriterEach == ClaimSpec => []NoTwoWriters
<1>1. ClaimInv => NoTwoWriters
  <2> SUFFICES ASSUME ClaimInv, NEW t \in Transfers, NEW u \in Transfers, t # u,
                      Writing(t), Writing(u), candidate[t] = candidate[u]
               PROVE  FALSE
    BY DEF NoTwoWriters
  <2> QED BY DEF ClaimInv, Claims, HoldsLock, Writing, Locking
<1> QED BY <1>1, ClaimInvariance, PTL

(* A file that was downloaded whole stays as it is, whoever claims its name *)
(* next and whatever they saw before they had the lock (helpers.py:168-174).*)
THEOREM FinishedStaysWhole == ClaimSpec => []FinishedKept
<1>1. ClaimInv => FinishedKept BY DEF ClaimInv
<1> QED BY <1>1, ClaimInvariance, PTL

-----------------------------------------------------------------------------
(* Induction, as a fact about sets *)

LEMMA SmallestNumber ==
    ASSUME NEW I \in SUBSET Nat, I # {}
    PROVE  \E x \in I : \A y \in I : x <= y
<1>1. PICK x \in I : \A y \in I : ~(<<y, x>> \in OpToRel(<, Nat))
  <2>1. IsWellFoundedOn(OpToRel(<, Nat), Nat) BY NatLessThanWellFounded
  <2> QED BY <2>1, WFMin, Zenon
<1>2. ASSUME NEW y \in I PROVE x <= y
  <2>1. ~(y < x) BY <1>1 DEF OpToRel
  <2> QED BY <2>1
<1> QED BY <1>2

\* A set that holds 0, and with a number the next one, holds all of them.
LEMMA InductiveSet ==
    ASSUME NEW S, 0 \in S, \A n \in Nat : n \in S => n + 1 \in S
    PROVE  Nat \subseteq S
<1> DEFINE I == Nat \ S
<1> SUFFICES ASSUME I # {} PROVE FALSE OBVIOUS
<1>1. PICK n \in I : \A m \in I : n <= m BY SmallestNumber
<1>2. n \in Nat /\ n \notin S /\ n # 0 BY <1>1
<1>3. n - 1 \in Nat /\ ~(n <= n - 1) BY <1>2
<1>4. n - 1 \in S BY <1>1, <1>3
<1>5. (n - 1) + 1 \in S BY <1>3, <1>4
<1> QED BY <1>2, <1>5

-----------------------------------------------------------------------------
(* The tree of an upload *)

\* Neither a symlink nor below one.
Clean(e) == kind[e] # "link" /\ \A f \in Parents(e) \ {Top} : kind[f] # "link"

GivenTree ==
    /\ kind \in [Entries -> {"file", "folder", "link"}]
    /\ above \in [Entries -> Entries \cup {Top}]
    /\ \A e \in Entries : above[e] < e /\ (above[e] # Top => kind[above[e]] # "file")

\* The walk has met the symlinks so far, and kept what is clean.
WalkInv ==
    /\ walked \in 0 .. Size /\ passed \in 0 .. Size /\ (passed > 0 => walked = Size)
    /\ skippedDirs = {e \in 1 .. walked : kind[e] = "link"}
    /\ kept = {e \in 1 .. walked : Clean(e)}

\* A folder that was passed has its remote folder, or it or a parent of it has failed; whatever
\* was made is in the folder made for its parent.
MadeInv ==
    /\ Top \in handleFor
    /\ \A h \in handleFor \ {Top} : h \in Entries /\ remote[h] # Nowhere
    /\ \A e \in 1 .. passed : e \in kept /\ kind[e] = "folder"
          => e \in handleFor \/ e \in failedDirs \/ Parents(e) \cap failedDirs # {}
    /\ remote \in [Entries -> Entries \cup {Top, Nowhere}]
    /\ \A e \in Entries : remote[e] # Nowhere
          => e \in kept /\ remote[e] = above[e] /\ above[e] \in handleFor

TreeInv == GivenTree /\ WalkInv /\ MadeInv

-----------------------------------------------------------------------------
(* The parents of an entry *)

\* The recursion of Parents, as far as some number of steps.
Climbs(g, e, m) ==
    g = [n \in 0 .. m |-> IF n = 0 THEN {above[e]}
                          ELSE g[n - 1] \cup {above[f] : f \in g[n - 1] \ {Top}}]
Climb(e, m) == CHOOSE g : Climbs(g, e, m)

LEMMA ClimbsAt ==
    ASSUME NEW g, NEW e, NEW m \in Nat, Climbs(g, e, m), NEW n \in 0 .. m
    PROVE  /\ n = 0 => g[n] = {above[e]}
           /\ n # 0 => g[n] = g[n - 1] \cup {above[f] : f \in g[n - 1] \ {Top}}
<1>1. g[n] = IF n = 0 THEN {above[e]} ELSE g[n - 1] \cup {above[f] : f \in g[n - 1] \ {Top}}
  BY Zenon DEF Climbs
<1> QED BY <1>1, Zenon

LEMMA ClimbExists == ASSUME NEW e, NEW m \in Nat PROVE Climbs(Climb(e, m), e, m)
<1> DEFINE S == {k \in Nat : \E g : Climbs(g, e, k)}
<1>1. 0 \in S
  <2> DEFINE g == [n \in 0 .. 0 |-> {above[e]}]
  <2> DEFINE h == [n \in 0 .. 0 |-> IF n = 0 THEN {above[e]}
                                    ELSE g[n - 1] \cup {above[f] : f \in g[n - 1] \ {Top}}]
  <2>1. g = h OBVIOUS
  <2>2. Climbs(g, e, 0) BY <2>1, Zenon DEF Climbs
  <2> QED BY <2>2
<1>2. ASSUME NEW k \in Nat, k \in S PROVE k + 1 \in S
  <2>1. PICK g : Climbs(g, e, k) BY <1>2
  <2> DEFINE next(x) == x \cup {above[f] : f \in x \ {Top}}
  <2> DEFINE h == [n \in 0 .. k + 1 |-> IF n = k + 1 THEN next(g[k]) ELSE g[n]]
  <2>2. ASSUME NEW n \in 0 .. k + 1
        PROVE  h[n] = IF n = 0 THEN {above[e]} ELSE next(h[n - 1])
    <3>0. k + 1 # 0 /\ h[n] = IF n = k + 1 THEN next(g[k]) ELSE g[n] OBVIOUS
    <3>1. CASE n = k + 1
      <4>1. n - 1 = k /\ k \in 0 .. k + 1 /\ k # k + 1 BY <3>1
      <4>2. h[n - 1] = g[k] BY <4>1
      <4> HIDE DEF h, next
      <4> QED BY <3>0, <3>1, <4>2
    <3>2. CASE n # k + 1
      <4>1. n \in 0 .. k /\ (n # 0 => n - 1 \in 0 .. k + 1 /\ n - 1 # k + 1) BY <3>2
      <4>2. n # 0 => h[n - 1] = g[n - 1] BY <4>1
      <4>3. /\ n = 0 => g[n] = {above[e]}
            /\ n # 0 => g[n] = g[n - 1] \cup {above[f] : f \in g[n - 1] \ {Top}}
        <5> HIDE DEF next, h
        <5> QED BY <2>1, <4>1, ClimbsAt
      <4>4. g[n] = IF n = 0 THEN {above[e]} ELSE next(g[n - 1])
        <5> HIDE DEF h
        <5> QED BY <4>3, Zenon
      <4> HIDE DEF h, next
      <4> QED BY <3>0, <3>2, <4>2, <4>4
    <3> QED BY <3>1, <3>2
  <2>3. h = [n \in 0 .. k + 1 |-> IF n = 0 THEN {above[e]} ELSE next(h[n - 1])]
    <3> DEFINE d(n) == IF n = k + 1 THEN next(g[k]) ELSE g[n]
    <3> DEFINE c(n) == IF n = 0 THEN {above[e]} ELSE next(h[n - 1])
    <3>1. \A n \in 0 .. k + 1 : d(n) = c(n) BY <2>2
    <3>2. h = [n \in 0 .. k + 1 |-> d(n)] OBVIOUS
    <3>3. [n \in 0 .. k + 1 |-> d(n)] = [n \in 0 .. k + 1 |-> c(n)]
      <4> HIDE DEF c, d
      <4> QED BY <3>1
    <3> QED BY <3>2, <3>3
  <2>4. Climbs(h, e, k + 1) BY <2>3, Zenon DEF Climbs
  <2> HIDE DEF h
  <2> QED BY <2>4, <1>2
<1>3. m \in S
  <2> HIDE DEF S
  <2> QED BY <1>1, <1>2, InductiveSet
<1> QED BY <1>3, Zenon DEF Climb

LEMMA ParentsClimb == ASSUME NEW e PROVE Parents(e) = Climb(e, Size)[Size]
  BY DEF Parents, Climb, Climbs

\* The parents of an entry come before it; they hold the folder it is in, and with a folder the
\* one that is in.
LEMMA ParentsClosed ==
    ASSUME GivenTree, NEW e \in Entries
    PROVE  /\ Parents(e) \subseteq 0 .. e - 1 /\ above[e] \in Parents(e)
           /\ \A f \in Parents(e) \ {Top} : above[f] \in Parents(e)
<1> DEFINE g == Climb(e, Size)
<1>0. Size \in Nat /\ e \in Nat /\ e # 0 /\ e <= Size BY TreeAssumption DEF Entries
<1>1. \A n \in 0 .. Size :
         /\ n = 0 => g[n] = {above[e]}
         /\ n # 0 => g[n] = g[n - 1] \cup {above[f] : f \in g[n - 1] \ {Top}}
  <2>1. Climbs(g, e, Size) BY <1>0, ClimbExists
  <2> HIDE DEF g
  <2> QED BY <2>1, <1>0, ClimbsAt
<1>2. Parents(e) = g[Size] BY ParentsClimb
<1> DEFINE Good(n) == /\ g[n] \subseteq 0 .. e - 1 /\ above[e] \in g[n]
                      /\ \A f \in g[n] \ {Top} : above[f] \in g[n] \/ f <= e - 1 - n
<1> DEFINE S == {n \in Nat : n <= Size => Good(n)}
<1>3. \A f \in Entries : above[f] \in 0 .. f - 1 BY DEF GivenTree, Entries, Top
<1>4. \A f \in (0 .. e - 1) \ {Top} : f \in Entries BY <1>0 DEF Entries, Top
<1> HIDE DEF g
<1>5. 0 \in S
  <2>1. g[0] = {above[e]} BY <1>0, <1>1
  <2>2. above[e] \in 0 .. e - 1 BY <1>3
  <2>3. Good(0) BY <2>1, <2>2, <1>0
  <2> QED BY <2>3
<1>6. ASSUME NEW n \in Nat, n \in S PROVE n + 1 \in S
  <2> SUFFICES ASSUME n + 1 <= Size PROVE Good(n + 1) OBVIOUS
  <2>1. Good(n) /\ n + 1 \in 0 .. Size /\ n + 1 # 0 /\ (n + 1) - 1 = n BY <1>0, <1>6
  <2>2. g[n + 1] = g[n] \cup {above[f] : f \in g[n] \ {Top}} BY <1>1, <2>1
  <2>3. \A f \in g[n] \ {Top} : f \in Entries /\ f \in Int /\ above[f] \in 0 .. f - 1 /\ f <= e - 1
    BY <2>1, <1>3, <1>4 DEF Entries
  <2>4. g[n + 1] \subseteq 0 .. e - 1 /\ above[e] \in g[n + 1]
    <3>1. \A f \in g[n] \ {Top} : above[f] \in 0 .. e - 1 BY <2>3, <1>0
    <3> QED BY <2>1, <2>2, <3>1
  <2>5. ASSUME NEW f \in g[n + 1] \ {Top} PROVE above[f] \in g[n + 1] \/ f <= e - 1 - (n + 1)
    <3>1. CASE f \in g[n] BY <3>1, <2>2, <2>5
    <3>2. CASE f \notin g[n]
      <4>1. PICK h \in g[n] \ {Top} : f = above[h] BY <3>2, <2>2, <2>5
      <4>2. h <= e - 1 - n BY <4>1, <3>2, <2>1
      <4>3. h \in Int /\ f \in 0 .. h - 1 BY <4>1, <2>3
      <4> QED BY <4>2, <4>3, <1>0
    <3> QED BY <3>1, <3>2
  <2> QED BY <2>4, <2>5
<1>7. Good(Size)
  <2>1. Size \in S
    <3> HIDE DEF S
    <3> QED BY <1>0, <1>5, <1>6, InductiveSet
  <2> QED BY <2>1, <1>0
<1>8. \A f \in g[Size] \ {Top} : above[f] \in g[Size]
  <2> SUFFICES ASSUME NEW f \in g[Size] \ {Top}, f <= e - 1 - Size PROVE FALSE BY <1>7
  <2>1. f \in 0 .. e - 1 /\ f # 0 BY <1>7 DEF Top
  <2> QED BY <2>1, <1>0
<1> QED BY <1>2, <1>7, <1>8

\* What holds the folder of an entry, and with a folder the one that is in, holds its parents.
LEMMA ParentsSmallest ==
    ASSUME NEW e, NEW C, above[e] \in C, \A f \in C \ {Top} : above[f] \in C
    PROVE  Parents(e) \subseteq C
<1> DEFINE g == Climb(e, Size)
<1>0. Size \in Nat BY TreeAssumption
<1>1. \A n \in 0 .. Size :
         /\ n = 0 => g[n] = {above[e]}
         /\ n # 0 => g[n] = g[n - 1] \cup {above[f] : f \in g[n - 1] \ {Top}}
  <2>1. Climbs(g, e, Size) BY <1>0, ClimbExists
  <2> HIDE DEF g
  <2> QED BY <2>1, <1>0, ClimbsAt
<1>2. Parents(e) = g[Size] BY ParentsClimb
<1> DEFINE S == {n \in Nat : n <= Size => g[n] \subseteq C}
<1> HIDE DEF g
<1>3. 0 \in S BY <1>0, <1>1
<1>4. ASSUME NEW n \in Nat, n \in S PROVE n + 1 \in S
  <2> SUFFICES ASSUME n + 1 <= Size PROVE g[n + 1] \subseteq C OBVIOUS
  <2>1. g[n] \subseteq C /\ n + 1 \in 0 .. Size /\ n + 1 # 0 /\ (n + 1) - 1 = n BY <1>0, <1>4
  <2>2. g[n + 1] = g[n] \cup {above[f] : f \in g[n] \ {Top}} BY <1>1, <2>1
  <2> QED BY <2>1, <2>2
<1>5. Size \in S
  <2> HIDE DEF S
  <2> QED BY <1>0, <1>3, <1>4, InductiveSet
<1> QED BY <1>0, <1>2, <1>5

LEMMA ParentsOfParent ==
    ASSUME GivenTree, NEW e \in Entries, NEW f \in Parents(e) \ {Top}
    PROVE  f \in Entries /\ f < e /\ Parents(f) \subseteq Parents(e)
<1>1. Parents(e) \subseteq 0 .. e - 1 /\ \A h \in Parents(e) \ {Top} : above[h] \in Parents(e)
  BY ParentsClosed
<1>2. f \in Entries /\ f < e BY <1>1, TreeAssumption DEF Entries, Top
<1>3. Parents(f) \subseteq Parents(e) BY <1>1, ParentsSmallest
<1> QED BY <1>2, <1>3
-----------------------------------------------------------------------------
(* The walk and the pass *)

LEMMA SameTree ==
    ASSUME UNCHANGED tree
    PROVE  /\ kind' = kind /\ above' = above
           /\ \A e : Parents(e)' = Parents(e) /\ (Clean(e)' <=> Clean(e))
           /\ GivenTree => GivenTree'
<1>1. kind' = kind /\ above' = above BY DEF tree
<1>2. \A e : Parents(e)' = Parents(e) BY <1>1 DEF Parents
<1>3. \A e : Clean(e)' <=> Clean(e) BY <1>1, <1>2 DEF Clean
<1>4. GivenTree => GivenTree' BY <1>1 DEF GivenTree
<1> QED BY <1>1, <1>2, <1>3, <1>4

LEMMA InitTree == TreeInit => TreeInv
<1> SUFFICES ASSUME TreeInit PROVE TreeInv OBVIOUS
<1>1. GivenTree BY DEF TreeInit, GivenTree
<1>2. WalkInv BY TreeAssumption DEF TreeInit, WalkInv
<1>3. MadeInv BY DEF TreeInit, MadeInv
<1> QED BY <1>1, <1>2, <1>3 DEF TreeInv

LEMMA WalkKeeps == ASSUME TreeInv, Walk PROVE TreeInv'
<1> DEFINE e == walked + 1
<1>1. /\ walked \in 0 .. Size /\ passed = 0 /\ Size \in Nat /\ e \in Entries /\ e \in 1 .. e
      /\ walked' = e /\ e \in 0 .. Size /\ 1 .. e = (1 .. walked) \cup {e} /\ e \notin 1 .. walked
      /\ 0 .. e - 1 = 0 .. walked
  BY TreeAssumption DEF Walk, TreeInv, WalkInv, Entries
<1>2. UNCHANGED <<tree, passed, handleFor, failedDirs, failures, remote>> BY DEF Walk
<1>3. GivenTree /\ GivenTree' /\ kind' = kind /\ above' = above
      /\ \A f : Parents(f)' = Parents(f) /\ (Clean(f)' <=> Clean(f))
  BY <1>2, SameTree DEF TreeInv
<1>4. kind[e] # "link" => (Parents(e) \cap skippedDirs = {} <=> Clean(e))
  <2>1. Parents(e) \subseteq 0 .. walked BY <1>1, <1>3, ParentsClosed
  <2>2. Parents(e) \ {Top} \subseteq 1 .. walked BY <2>1, <1>1 DEF Top
  <2>3. skippedDirs = {f \in 1 .. walked : kind[f] = "link"} /\ Top \notin skippedDirs
    BY DEF TreeInv, WalkInv, Top
  <2> HIDE DEF e
  <2> QED BY <2>2, <2>3 DEF Clean
<1>5. skippedDirs' = {f \in 1 .. e : kind[f] = "link"}
  <2>1. skippedDirs' = IF kind[e] = "link" THEN skippedDirs \cup {e} ELSE skippedDirs BY DEF Walk
  <2> HIDE DEF e
  <2> QED BY <2>1, <1>1 DEF TreeInv, WalkInv
<1>6. kept' = {f \in 1 .. e : Clean(f)}
  <2>1. kept' = IF kind[e] # "link" /\ Parents(e) \cap skippedDirs = {} THEN kept \cup {e} ELSE kept
    BY DEF Walk
  <2>2. kept' = IF Clean(e) THEN kept \cup {e} ELSE kept BY <2>1, <1>4 DEF Clean
  <2> HIDE DEF e
  <2> QED BY <2>2, <1>1 DEF TreeInv, WalkInv
<1>7. WalkInv'
  <2> HIDE DEF e
  <2> QED BY <1>1, <1>2, <1>3, <1>5, <1>6 DEF WalkInv
<1>8. kept \subseteq kept'
  <2> HIDE DEF e
  <2> QED BY <1>1, <1>6 DEF TreeInv, WalkInv
<1>9. MadeInv'
  <2> HIDE DEF e
  <2>1. 1 .. passed = {} BY <1>1
  <2> QED BY <2>1, <1>2, <1>3, <1>8 DEF TreeInv, MadeInv
<1> QED BY <1>3, <1>7, <1>9 DEF TreeInv

\* A kept entry with no failed parent goes into the folder made for the one it is in.
LEMMA FolderIsMade ==
    ASSUME TreeInv, NEW e \in kept, e = passed + 1, walked = Size,
           Parents(e) \cap failedDirs = {}
    PROVE  above[e] \in handleFor /\ FolderOf(e) = above[e]
<1>1. e \in Entries /\ Clean(e) /\ GivenTree /\ kept = {f \in 1 .. Size : Clean(f)}
  BY DEF TreeInv, WalkInv, Entries
<1>2. above[e] \in handleFor
  <2>1. CASE above[e] = Top BY <2>1 DEF TreeInv, MadeInv
  <2>2. CASE above[e] # Top
    <3> DEFINE p == above[e]
    <3>1. p \in Parents(e) \ {Top} BY <1>1, <2>2, ParentsClosed
    <3>2. p \in Entries /\ p < e /\ Parents(p) \subseteq Parents(e) BY <1>1, <3>1, ParentsOfParent
    <3>3. kind[p] # "link" /\ kind[p] # "file" /\ kind[p] \in {"file", "folder", "link"}
      BY <1>1, <2>2, <3>1, <3>2 DEF Clean, GivenTree
    <3>4. Clean(p) BY <1>1, <3>2, <3>3 DEF Clean
    <3>5. p \in kept /\ p \in 1 .. passed
      BY <1>1, <3>2, <3>4, TreeAssumption DEF Entries, TreeInv, WalkInv
    <3>6. p \in handleFor \/ p \in failedDirs \/ Parents(p) \cap failedDirs # {}
      <4> HIDE DEF p
      <4> QED BY <3>3, <3>5 DEF TreeInv, MadeInv
    <3> HIDE DEF p
    <3> QED BY <3>1, <3>2, <3>6 DEF p
  <2> QED BY <2>1, <2>2
<1> QED BY <1>2 DEF FolderOf

LEMMA PassKeeps == ASSUME TreeInv, UploadNext PROVE TreeInv'
<1> DEFINE e == passed + 1
<1>1. /\ passed \in 0 .. Size /\ Size \in Nat /\ walked = Size /\ e \in Entries
      /\ passed' = e /\ e \in 0 .. Size /\ 1 .. e = (1 .. passed) \cup {e} /\ e \in Nat /\ e # 0
      /\ e # Nowhere
  BY TreeAssumption DEF UploadNext, TreeInv, WalkInv, Entries, Nowhere
<1>2. UNCHANGED <<tree, walked, skippedDirs, kept>> BY DEF UploadNext
<1>3. GivenTree /\ GivenTree' /\ kind' = kind /\ above' = above
      /\ \A f : Parents(f)' = Parents(f) /\ (Clean(f)' <=> Clean(f))
  BY <1>2, SameTree DEF TreeInv
<1>4. WalkInv'
  <2> HIDE DEF e
  <2> QED BY <1>1, <1>2, <1>3 DEF TreeInv, WalkInv
<1>5. MadeInv BY DEF TreeInv
<1>6. CASE e \notin kept
  <2>1. UNCHANGED <<handleFor, failedDirs, failures, remote>> BY <1>6 DEF UploadNext
  <2> HIDE DEF e
  <2>2. MadeInv' BY <2>1, <1>1, <1>2, <1>3, <1>5, <1>6 DEF MadeInv
  <2> QED BY <2>2, <1>3, <1>4 DEF TreeInv
<1>7. CASE e \in kept
  <2>0. UploadEntry(e) /\ e \in kept' BY <1>2, <1>7 DEF UploadNext
  \* What a pass adds to the failed folders and to the handles.
  <2>1. ASSUME handleFor \subseteq handleFor', failedDirs \subseteq failedDirs',
               \A h \in handleFor' \ handleFor : h = e,
               e \in handleFor' => remote'[e] # Nowhere,
               kind[e] = "folder" => \/ e \in handleFor' \/ e \in failedDirs'
                                     \/ Parents(e) \cap failedDirs' # {},
               \/ remote' = remote
               \/ remote' = [remote EXCEPT ![e] = above[e]] /\ above[e] \in handleFor
        PROVE  MadeInv'
    <3> HIDE DEF e
    <3>0. above[e] \in Entries \cup {Top} /\ above[e] # Nowhere /\ remote \in [Entries -> Entries \cup {Top, Nowhere}]
      BY <1>1, <1>3, <1>5 DEF GivenTree, MadeInv, Entries, Top, Nowhere
    <3>1. remote' \in [Entries -> Entries \cup {Top, Nowhere}] BY <2>1, <3>0
    <3>2. ASSUME NEW h \in handleFor' \ {Top} PROVE h \in Entries /\ remote'[h] # Nowhere
      <4>1. CASE h = e BY <4>1, <3>2, <2>1, <1>1
      <4>2. CASE h # e
        <5>1. h \in handleFor /\ h \in Entries /\ remote[h] # Nowhere BY <4>2, <3>2, <2>1, <1>5 DEF MadeInv
        <5> QED BY <5>1, <4>2, <2>1, <3>0
      <4> QED BY <4>1, <4>2
    <3>3. ASSUME NEW f \in 1 .. e, f \in kept, kind[f] = "folder"
          PROVE  f \in handleFor' \/ f \in failedDirs' \/ Parents(f) \cap failedDirs' # {}
      <4>1. CASE f = e BY <4>1, <3>3, <2>1
      <4>2. CASE f # e
        <5>1. f \in handleFor \/ f \in failedDirs \/ Parents(f) \cap failedDirs # {}
          BY <4>2, <3>3, <1>1, <1>5 DEF MadeInv
        <5> QED BY <5>1, <2>1
      <4> QED BY <4>1, <4>2
    <3>4. ASSUME NEW f \in Entries, remote'[f] # Nowhere
          PROVE  f \in kept /\ remote'[f] = above[f] /\ above[f] \in handleFor'
      <4>1. CASE remote[f] # Nowhere /\ f # e
        <5>1. f \in kept /\ remote[f] = above[f] /\ above[f] \in handleFor BY <4>1, <1>5 DEF MadeInv
        <5> QED BY <5>1, <4>1, <2>1, <3>0
      <4>2. CASE f = e
        <5>1. CASE remote' = remote
          <6>1. remote[f] # Nowhere BY <5>1, <3>4
          <6> QED BY <6>1, <5>1, <2>1, <1>5 DEF MadeInv
        <5>2. CASE remote' = [remote EXCEPT ![e] = above[e]] /\ above[e] \in handleFor
          BY <5>2, <4>2, <3>0, <1>1, <1>7, <2>1
        <5> QED BY <5>1, <5>2, <2>1
      <4>3. CASE remote[f] = Nowhere /\ f # e BY <4>3, <3>4, <2>1, <3>0
      <4> QED BY <4>1, <4>2, <4>3
    <3>5. Top \in handleFor' BY <2>1, <1>5 DEF MadeInv
    <3> QED BY <3>1, <3>2, <3>3, <3>4, <3>5, <1>1, <1>2, <1>3 DEF MadeInv
  <2>2. CASE /\ Parents(e) \cap failedDirs = {} /\ remote' = [remote EXCEPT ![e] = FolderOf(e)]
             /\ \/ /\ handleFor' = IF kind[e] = "folder" THEN handleFor \cup {e} ELSE handleFor
                   /\ UNCHANGED <<failedDirs, failures>>
                \/ /\ failedDirs' = IF kind[e] = "folder" THEN failedDirs \cup {e} ELSE failedDirs
                   /\ UNCHANGED handleFor
    <3>1. above[e] \in handleFor /\ FolderOf(e) = above[e] BY <2>2, <1>1, <1>7, FolderIsMade
    <3>2. remote' = [remote EXCEPT ![e] = above[e]] /\ remote'[e] # Nowhere
      <4>1. above[e] # Nowhere /\ DOMAIN remote = Entries
        BY <1>1, <1>3, <1>5 DEF GivenTree, MadeInv, Entries, Top, Nowhere
      <4> HIDE DEF e
      <4> QED BY <4>1, <3>1, <2>2, <1>1
    <3>3. CASE /\ handleFor' = IF kind[e] = "folder" THEN handleFor \cup {e} ELSE handleFor
               /\ UNCHANGED <<failedDirs, failures>>
      <4> HIDE DEF e
      <4> QED BY <3>1, <3>2, <3>3, <2>1, <1>3, <1>4, <1>5 DEF TreeInv, MadeInv
    <3>4. CASE /\ failedDirs' = IF kind[e] = "folder" THEN failedDirs \cup {e} ELSE failedDirs
               /\ UNCHANGED handleFor
      <4> HIDE DEF e
      <4> QED BY <3>1, <3>2, <3>4, <2>1, <1>3, <1>4, <1>5 DEF TreeInv, MadeInv
    <3> QED BY <2>2, <3>3, <3>4
  <2>3. CASE /\ failedDirs' = IF kind[e] = "folder" /\ Parents(e) \cap failedDirs = {}
                              THEN failedDirs \cup {e} ELSE failedDirs
             /\ UNCHANGED <<handleFor, remote>>
    <3>1. e \in handleFor' => remote'[e] # Nowhere
      <4>1. e # Top BY <1>1 DEF Top
      <4> HIDE DEF e
      <4> QED BY <4>1, <2>3, <1>5 DEF MadeInv
    <3> HIDE DEF e
    <3> QED BY <3>1, <2>3, <2>1, <1>3, <1>4 DEF TreeInv
  <2> QED BY <2>0, <2>2, <2>3 DEF UploadEntry
<1> QED BY <1>6, <1>7

LEMMA NextTree == TreeInv /\ [TreeNext]_treeVars => TreeInv'
<1>1. ASSUME TreeInv, UNCHANGED treeVars PROVE TreeInv'
  <2>1. UNCHANGED <<tree, walked, skippedDirs, kept, passed, handleFor, failedDirs, remote>>
    BY <1>1 DEF treeVars, tree
  <2>2. GivenTree' /\ kind' = kind /\ above' = above
        /\ \A f : Parents(f)' = Parents(f) /\ (Clean(f)' <=> Clean(f))
    BY <1>1, <2>1, SameTree DEF TreeInv
  <2>3. WalkInv' BY <1>1, <2>1, <2>2 DEF TreeInv, WalkInv
  <2>4. MadeInv' BY <1>1, <2>1, <2>2 DEF TreeInv, MadeInv
  <2> QED BY <2>2, <2>3, <2>4 DEF TreeInv
<1> QED BY <1>1, WalkKeeps, PassKeeps DEF TreeNext

(* The remote tree is the local one (upload_tree.py:28-73), for any         *)
(* directory, whatever fails: what is made lies in the folder of its own    *)
(* parent, which was made, and it is no symlink nor below one.              *)
THEOREM TreeIsMirrored == TreeSpec => []TreeMirrored
<1>1. TreeInv => TreeMirrored
  <2> SUFFICES ASSUME TreeInv, NEW e \in Entries, remote[e] # Nowhere
               PROVE  /\ remote[e] = above[e]
                      /\ remote[e] # Top => remote[remote[e]] # Nowhere
                      /\ kind[e] # "link" /\ \A f \in Parents(e) \ {Top} : kind[f] # "link"
    BY DEF TreeMirrored
  <2>1. e \in kept /\ remote[e] = above[e] /\ above[e] \in handleFor BY DEF TreeInv, MadeInv
  <2>2. Clean(e) BY <2>1 DEF TreeInv, WalkInv
  <2> QED BY <2>1, <2>2 DEF Clean, TreeInv, MadeInv
<1> QED BY <1>1, InitTree, NextTree, PTL DEF TreeSpec

-----------------------------------------------------------------------------
(* The plan of a folder *)

GivenListing ==
    /\ isFile \in SUBSET Nodes /\ parent \in [Nodes -> Nodes \cup {Outside, NoParent}]
    /\ asked \in {"share", "folder"}
    /\ asked = "folder" => root \in Nodes \ isFile

\* A known depth is more than that of the parent, which is known.
Deeper(n) ==
    depth[n] # Unknown /\ parent[n] \in Planned
        => depth[parent[n]] # Unknown /\ depth[parent[n]] < depth[n]

DepthInv ==
    /\ depth \in [Nodes -> Nat \cup {Unknown}]
    /\ root \in Nodes => depth[root] # Unknown
    /\ \A n \in Planned \ {root} : Deeper(n)

\* The chain goes from a node to its parents, none of which has a depth yet.
ChainInv ==
    /\ chain \in Seq(Planned)
    /\ \A i \in DOMAIN chain : depth[chain[i]] = Unknown
    /\ \A i, j \in DOMAIN chain : chain[i] = chain[j] => i = j
    /\ \A i \in DOMAIN chain : i + 1 \in DOMAIN chain => parent[chain[i]] = chain[i + 1]

\* The folders above a node, from the root, or one astray, down to the node itself.
Leads(path, n) ==
    /\ path \in Seq(Nodes) /\ path # <<>> /\ path[Len(path)] = n
    /\ path[1] = root \/ (root \notin Folders /\ Astray(path[1]))
    /\ \A i \in 2 .. Len(path) :
         \/ parent[path[i]] = path[i - 1]
         \/ i = 2 /\ path[1] = root /\ Astray(path[2])

PathInv ==
    /\ \A n \in Planned : depth[n] # Unknown
    /\ DOMAIN pathFor = Nodes
    /\ root \in Folders => pathFor[root] # <<>>
    /\ \A n \in Nodes : pathFor[n] # <<>> => Leads(pathFor[n], n)

PlanInv ==
    /\ GivenListing /\ DepthInv
    /\ stage \in {"sort", "place", "planned", "refused"}
    /\ stage = "sort" => ChainInv
    /\ stage = "place" => PathInv
    /\ PlanMirrorsTree
-----------------------------------------------------------------------------
(* The nodes of the folder asked for *)

\* The recursion of Below, as far as some number of steps.
Spreads(g, m) ==
    g = [n \in 0 .. m |-> IF n = 0 THEN {root}
                          ELSE g[n - 1] \cup {f \in Nodes : parent[f] \in g[n - 1]}]
Spread(m) == CHOOSE g : Spreads(g, m)

LEMMA SpreadsAt ==
    ASSUME NEW g, NEW m \in Nat, Spreads(g, m), NEW n \in 0 .. m
    PROVE  /\ n = 0 => g[n] = {root}
           /\ n # 0 => g[n] = g[n - 1] \cup {f \in Nodes : parent[f] \in g[n - 1]}
<1>1. g[n] = IF n = 0 THEN {root} ELSE g[n - 1] \cup {f \in Nodes : parent[f] \in g[n - 1]}
  BY Zenon DEF Spreads
<1> QED BY <1>1, Zenon

LEMMA SpreadExists == ASSUME NEW m \in Nat PROVE Spreads(Spread(m), m)
<1> DEFINE S == {k \in Nat : \E g : Spreads(g, k)}
<1>1. 0 \in S
  <2> DEFINE g == [n \in 0 .. 0 |-> {root}]
  <2> DEFINE h == [n \in 0 .. 0 |-> IF n = 0 THEN {root}
                                    ELSE g[n - 1] \cup {f \in Nodes : parent[f] \in g[n - 1]}]
  <2>1. g = h OBVIOUS
  <2>2. Spreads(g, 0) BY <2>1, Zenon DEF Spreads
  <2> QED BY <2>2
<1>2. ASSUME NEW k \in Nat, k \in S PROVE k + 1 \in S
  <2>1. PICK g : Spreads(g, k) BY <1>2
  <2> DEFINE next(x) == x \cup {f \in Nodes : parent[f] \in x}
  <2> DEFINE h == [n \in 0 .. k + 1 |-> IF n = k + 1 THEN next(g[k]) ELSE g[n]]
  <2>2. ASSUME NEW n \in 0 .. k + 1
        PROVE  h[n] = IF n = 0 THEN {root} ELSE next(h[n - 1])
    <3>0. k + 1 # 0 /\ h[n] = IF n = k + 1 THEN next(g[k]) ELSE g[n] OBVIOUS
    <3>1. CASE n = k + 1
      <4>1. n - 1 = k /\ k \in 0 .. k + 1 /\ k # k + 1 BY <3>1
      <4>2. h[n - 1] = g[k] BY <4>1
      <4> HIDE DEF h, next
      <4> QED BY <3>0, <3>1, <4>2
    <3>2. CASE n # k + 1
      <4>1. n \in 0 .. k /\ (n # 0 => n - 1 \in 0 .. k + 1 /\ n - 1 # k + 1) BY <3>2
      <4>2. n # 0 => h[n - 1] = g[n - 1] BY <4>1
      <4>3. /\ n = 0 => g[n] = {root}
            /\ n # 0 => g[n] = g[n - 1] \cup {f \in Nodes : parent[f] \in g[n - 1]}
        <5> HIDE DEF next, h
        <5> QED BY <2>1, <4>1, SpreadsAt
      <4>4. g[n] = IF n = 0 THEN {root} ELSE next(g[n - 1])
        <5> HIDE DEF h
        <5> QED BY <4>3, Zenon
      <4> HIDE DEF h, next
      <4> QED BY <3>0, <3>2, <4>2, <4>4
    <3> QED BY <3>1, <3>2
  <2>3. h = [n \in 0 .. k + 1 |-> IF n = 0 THEN {root} ELSE next(h[n - 1])]
    <3> DEFINE d(n) == IF n = k + 1 THEN next(g[k]) ELSE g[n]
    <3> DEFINE c(n) == IF n = 0 THEN {root} ELSE next(h[n - 1])
    <3>1. \A n \in 0 .. k + 1 : d(n) = c(n) BY <2>2
    <3>2. h = [n \in 0 .. k + 1 |-> d(n)] OBVIOUS
    <3>3. [n \in 0 .. k + 1 |-> d(n)] = [n \in 0 .. k + 1 |-> c(n)]
      <4> HIDE DEF c, d
      <4> QED BY <3>1
    <3> QED BY <3>2, <3>3
  <2>4. Spreads(h, k + 1) BY <2>3, Zenon DEF Spreads
  <2> HIDE DEF h
  <2> QED BY <2>4, <1>2
<1>3. m \in S
  <2> HIDE DEF S
  <2> QED BY <1>1, <1>2, InductiveSet
<1> QED BY <1>3, Zenon DEF Spread

LEMMA BelowSpread == Below = Spread(Cardinality(Nodes))[Cardinality(Nodes)]
  BY DEF Below, Spread, Spreads

\* The folder asked for is below itself, and so is the parent of all else that is.
LEMMA BelowClosed ==
    /\ root \in Below
    /\ \A n \in Below : n = root \/ (n \in Nodes /\ parent[n] \in Below)
<1> DEFINE N == Cardinality(Nodes)
<1> DEFINE g == Spread(N)
<1>0. N \in Nat BY ListingAssumption, FS_CardinalityType
<1>1. \A n \in 0 .. N :
         /\ n = 0 => g[n] = {root}
         /\ n # 0 => g[n] = g[n - 1] \cup {f \in Nodes : parent[f] \in g[n - 1]}
  <2>1. Spreads(g, N) BY <1>0, SpreadExists
  <2> HIDE DEF g, N
  <2> QED BY <2>1, <1>0, SpreadsAt
<1>2. Below = g[N] BY BelowSpread
<1> DEFINE Good(n) == /\ root \in g[n]
                      /\ \A f \in g[n] : f = root \/ (f \in Nodes /\ parent[f] \in g[n])
<1> DEFINE S == {n \in Nat : n <= N => Good(n)}
<1> HIDE DEF g, N
<1>3. 0 \in S BY <1>0, <1>1
<1>4. ASSUME NEW n \in Nat, n \in S PROVE n + 1 \in S
  <2> SUFFICES ASSUME n + 1 <= N PROVE Good(n + 1) OBVIOUS
  <2>1. Good(n) /\ n + 1 \in 0 .. N /\ n + 1 # 0 /\ (n + 1) - 1 = n BY <1>0, <1>4
  <2>2. g[n + 1] = g[n] \cup {f \in Nodes : parent[f] \in g[n]} BY <1>1, <2>1
  <2> QED BY <2>1, <2>2
<1>5. N \in S
  <2> HIDE DEF S
  <2> QED BY <1>0, <1>3, <1>4, InductiveSet
<1> QED BY <1>0, <1>2, <1>5

\* Of a folder that was asked for, the parent of any other planned node is planned.
LEMMA PlannedParent ==
    ASSUME GivenListing, NEW n \in Planned
    PROVE  /\ n \in Nodes /\ Planned \subseteq Nodes
           /\ asked = "folder" /\ n # root => parent[n] \in Planned
<1>1. CASE asked = "share" BY <1>1 DEF Planned, GivenListing
<1>2. CASE asked = "folder"
  <2>1. root \in Nodes \ isFile /\ Planned = Below \cap Nodes BY <1>2 DEF GivenListing, Planned
  <2>2. n # root => parent[n] \in Below BY <2>1, BelowClosed
  <2>3. Below \subseteq Nodes BY <2>1, BelowClosed
  <2> QED BY <2>1, <2>2, <2>3
<1> QED BY <1>1, <1>2 DEF GivenListing

\* A planned node whose parent is no planned folder is astray.
LEMMA LostIsAstray ==
    ASSUME GivenListing, NEW n \in Planned, asked = "folder" => n # root, parent[n] \notin Folders
    PROVE  Astray(n)
<1>1. CASE asked = "share" BY <1>1 DEF Astray
<1>2. CASE asked = "folder"
  <2>1. parent[n] \in Planned BY <1>2, PlannedParent
  <2> QED BY <1>2, <2>1 DEF Astray, Folders
<1> QED BY <1>1, <1>2 DEF GivenListing

LEMMA SameListing ==
    ASSUME UNCHANGED listing
    PROVE  /\ isFile' = isFile /\ parent' = parent /\ asked' = asked /\ root' = root
           /\ Planned' = Planned /\ Folders' = Folders
           /\ GivenListing' = GivenListing
           /\ \A n : Astray(n)' <=> Astray(n)
<1>1. isFile' = isFile /\ parent' = parent /\ asked' = asked /\ root' = root BY DEF listing
<1>2. Below' = Below BY <1>1 DEF Below
<1> QED BY <1>1, <1>2 DEF Planned, Folders, GivenListing, Astray

-----------------------------------------------------------------------------
(* The depths *)

LEMMA InitPlan == PlanInit => PlanInv
<1> SUFFICES ASSUME PlanInit PROVE PlanInv OBVIOUS
<1>1. GivenListing BY DEF PlanInit, GivenListing
<1>2. \A n \in Planned \ {root} : Deeper(n)
  <2>1. ASSUME NEW n \in Planned \ {root} PROVE n \in Nodes BY <1>1, PlannedParent
  <2> QED BY <2>1 DEF PlanInit, Deeper
<1>3. DepthInv BY <1>1, <1>2 DEF PlanInit, DepthInv, GivenListing, Unknown
<1>4. ChainInv BY DEF PlanInit, ChainInv
<1>5. stage = "sort" BY DEF PlanInit
<1> QED BY <1>1, <1>3, <1>4, <1>5 DEF PlanInv, PlanMirrorsTree

LEMMA TakeKeeps == ASSUME PlanInv, NEW n \in Nodes, Take(n) PROVE PlanInv'
<1>1. /\ stage = "sort" /\ stage' = "sort" /\ n \in Planned /\ depth[n] = Unknown /\ chain' = <<n>>
      /\ UNCHANGED <<listing, depth>>
  BY DEF Take
<1>2. /\ isFile' = isFile /\ parent' = parent /\ asked' = asked /\ root' = root
      /\ Planned' = Planned /\ GivenListing'
  BY <1>1, SameListing DEF PlanInv
<1>3. ChainInv'
  <2>1. DOMAIN chain' = {1} /\ chain'[1] = n /\ chain' \in Seq(Planned) BY <1>1
  <2>2. 1 + 1 \notin DOMAIN chain' BY <2>1
  <2> QED BY <2>1, <2>2, <1>1, <1>2 DEF ChainInv
<1>4. DepthInv' BY <1>1, <1>2 DEF PlanInv, DepthInv, Deeper
<1> QED BY <1>1, <1>2, <1>3, <1>4 DEF PlanInv, PlanMirrorsTree

LEMMA ChainShape ==
    ASSUME PlanInv, stage = "sort", chain # <<>>
    PROVE  /\ ChainInv /\ GivenListing /\ DepthInv
           /\ Len(chain) \in Nat /\ Len(chain) # 0 /\ DOMAIN chain = 1 .. Len(chain)
           /\ Len(chain) \in DOMAIN chain
           /\ \A i \in DOMAIN chain : chain[i] \in Planned /\ chain[i] \in Nodes
           /\ LastLink \in Planned
<1>1. ChainInv /\ GivenListing /\ DepthInv BY DEF PlanInv
<1>2. Len(chain) \in Nat /\ DOMAIN chain = 1 .. Len(chain) /\ Len(chain) # 0
  BY <1>1, LenProperties, EmptySeq DEF ChainInv
<1>3. Len(chain) \in DOMAIN chain BY <1>2
<1>4. \A i \in DOMAIN chain : chain[i] \in Planned
  <2>1. chain \in Seq(Planned) BY <1>1 DEF ChainInv
  <2> QED BY <2>1, <1>2, ElementOfSeq
<1>5. \A i \in DOMAIN chain : chain[i] \in Nodes BY <1>1, <1>4, PlannedParent
<1> QED BY <1>1, <1>2, <1>3, <1>4, <1>5 DEF LastLink

LEMMA ChainGrows ==
    ASSUME PlanInv, stage = "sort", chain # <<>>, UNCHANGED <<listing, depth, stage>>,
           NEW p \in Planned, p = parent[LastLink], depth[p] = Unknown, ~InChain(p),
           chain' = Append(chain, p)
    PROVE  PlanInv'
<1>1. /\ isFile' = isFile /\ parent' = parent /\ asked' = asked /\ root' = root
      /\ Planned' = Planned /\ GivenListing'
  BY SameListing DEF PlanInv
<1> DEFINE L == Len(chain)
<1>2. /\ chain \in Seq(Planned) /\ L \in Nat /\ L # 0 /\ DOMAIN chain = 1 .. L
      /\ ChainInv
  BY ChainShape DEF ChainInv
<1>3. /\ chain' \in Seq(Planned) /\ DOMAIN chain' = 1 .. L + 1 /\ chain'[L + 1] = p
      /\ \A i \in DOMAIN chain : chain'[i] = chain[i]
  BY <1>2, AppendProperties
<1>4. DOMAIN chain' = DOMAIN chain \cup {L + 1} /\ (L + 1) \notin DOMAIN chain BY <1>2, <1>3
<1>5. \A i \in DOMAIN chain : chain[i] # p BY DEF InChain
<1>6. \A i \in DOMAIN chain' : depth[chain'[i]] = Unknown BY <1>2, <1>3, <1>4 DEF ChainInv
<1>7. \A i, j \in DOMAIN chain' : chain'[i] = chain'[j] => i = j
  BY <1>2, <1>3, <1>4, <1>5 DEF ChainInv
<1>8. ASSUME NEW i \in DOMAIN chain', i + 1 \in DOMAIN chain'
      PROVE  parent[chain'[i]] = chain'[i + 1]
  <2>1. CASE i + 1 \in DOMAIN chain
    <3>1. i \in DOMAIN chain BY <2>1, <1>2, <1>3, <1>8
    <3> QED BY <3>1, <2>1, <1>2, <1>3 DEF ChainInv
  <2>2. CASE i + 1 \notin DOMAIN chain
    <3>1. i = L /\ L \in DOMAIN chain BY <2>2, <1>2, <1>3, <1>8
    <3> QED BY <3>1, <1>3 DEF LastLink
  <2> QED BY <2>1, <2>2
<1>9. ChainInv'
  <2> HIDE DEF L
  <2> QED BY <1>1, <1>3, <1>6, <1>7, <1>8 DEF ChainInv
<1>10. DepthInv' BY <1>1 DEF PlanInv, DepthInv, Deeper
<1> QED BY <1>1, <1>9, <1>10 DEF PlanInv, PlanMirrorsTree

\* The depths of a whole chain: each more than that of the next.
LEMMA ChainSettles ==
    ASSUME PlanInv, stage = "sort", chain # <<>>, UNCHANGED <<listing, stage>>, chain' = <<>>,
           NEW p, p = parent[LastLink], NEW base \in Nat,
           p \in Planned => depth[p] # Unknown /\ base = depth[p],
           depth' = [n \in Nodes |-> IF InChain(n)
                                     THEN base + Len(chain) + 1
                                          - (CHOOSE i \in DOMAIN chain : chain[i] = n)
                                     ELSE depth[n]]
    PROVE  PlanInv'
<1>1. /\ isFile' = isFile /\ parent' = parent /\ asked' = asked /\ root' = root
      /\ Planned' = Planned /\ GivenListing' /\ GivenListing
  BY SameListing DEF PlanInv
<1> DEFINE L == Len(chain)
<1>2. /\ L \in Nat /\ L # 0 /\ DOMAIN chain = 1 .. L /\ ChainInv /\ DepthInv
      /\ \A i \in DOMAIN chain : chain[i] \in Planned /\ chain[i] \in Nodes
  BY ChainShape
<1>3. ASSUME NEW i \in DOMAIN chain
      PROVE  depth'[chain[i]] = base + L + 1 - i /\ depth'[chain[i]] \in Nat \ {0}
  <2>1. InChain(chain[i]) /\ chain[i] \in Nodes BY <1>2 DEF InChain
  <2>2. (CHOOSE k \in DOMAIN chain : chain[k] = chain[i]) = i BY <1>2 DEF ChainInv
  <2>3. depth'[chain[i]] = base + L + 1 - i
    <3>1. depth'[chain[i]] = base + L + 1 - (CHOOSE k \in DOMAIN chain : chain[k] = chain[i])
      BY <2>1
    <3> QED BY <2>2, <3>1
  <2> QED BY <2>3, <1>2
<1>4. ASSUME NEW n \in Nodes, ~InChain(n) PROVE depth'[n] = depth[n] BY <1>4
<1>5. \A n : InChain(n) => \E i \in DOMAIN chain : n = chain[i] BY DEF InChain
<1>6. \A n \in Nodes : depth[n] # Unknown => ~InChain(n) /\ depth'[n] = depth[n]
  BY <1>2, <1>4, <1>5 DEF ChainInv
<1>7. depth' \in [Nodes -> Nat \cup {Unknown}]
  <2>1. \A n \in Nodes : depth'[n] \in Nat \cup {Unknown}
    BY <1>2, <1>3, <1>4, <1>5 DEF DepthInv
  <2>2. depth' = [n \in Nodes |-> depth'[n]] OBVIOUS
  <2> QED BY <2>1, <2>2
<1>8. root \in Nodes => depth'[root] # Unknown BY <1>2, <1>6 DEF DepthInv
<1>9. ASSUME NEW n \in Planned \ {root}, depth'[n] # Unknown, parent[n] \in Planned
      PROVE  depth'[parent[n]] # Unknown /\ depth'[parent[n]] < depth'[n]
  <2>0. n \in Nodes /\ parent[n] \in Nodes BY <1>1, <1>9, PlannedParent
  <2>1. CASE ~InChain(n)
    <3>1. depth'[n] = depth[n] /\ depth[n] # Unknown BY <2>0, <2>1, <1>4, <1>9
    <3>2. depth[parent[n]] # Unknown /\ depth[parent[n]] < depth[n]
      BY <3>1, <1>2, <1>9 DEF DepthInv, Deeper
    <3>3. depth'[parent[n]] = depth[parent[n]] BY <2>0, <3>2, <1>6
    <3> QED BY <3>1, <3>2, <3>3
  <2>2. ASSUME NEW i \in DOMAIN chain, n = chain[i], i # L
        PROVE  depth'[parent[n]] # Unknown /\ depth'[parent[n]] < depth'[n]
    <3>1. i \in Int /\ i + 1 \in DOMAIN chain BY <2>2, <1>2
    <3>2. parent[n] = chain[i + 1] BY <2>2, <3>1, <1>2 DEF ChainInv
    <3>3. depth'[parent[n]] = base + L + 1 - (i + 1) /\ depth'[parent[n]] \in Nat \ {0}
      BY <3>1, <3>2, <1>3
    <3>4. depth'[n] = base + L + 1 - i BY <2>2, <1>3
    <3> HIDE DEF L
    <3> QED BY <3>1, <3>3, <3>4, <1>2 DEF Unknown
  <2>3. CASE n = chain[L]
    <3>1. p = parent[n] /\ L \in DOMAIN chain BY <2>3, <1>2 DEF LastLink
    <3>2. depth[p] # Unknown /\ base = depth[p] BY <3>1, <1>9
    <3>3. depth'[p] = base BY <2>0, <3>1, <3>2, <1>6
    <3>4. depth'[n] = base + L + 1 - L BY <2>3, <3>1, <1>3
    <3> HIDE DEF L
    <3> QED BY <3>1, <3>3, <3>4, <1>2 DEF Unknown
  <2> QED BY <2>1, <2>2, <2>3, <1>5
<1>10. DepthInv'
  <2>1. \A n \in Planned \ {root} : Deeper(n)' BY <1>1, <1>9 DEF Deeper
  <2> QED BY <2>1, <1>1, <1>7, <1>8 DEF DepthInv
<1>11. ChainInv' BY DEF ChainInv
<1> QED BY <1>1, <1>10, <1>11 DEF PlanInv, PlanMirrorsTree

LEMMA AscendKeeps == ASSUME PlanInv, Ascend PROVE PlanInv'
<1> DEFINE p == parent[LastLink]
<1> DEFINE known == p \in Planned /\ depth[p] # Unknown
<1> DEFINE base == IF known THEN depth[p] ELSE 0
<1>0. stage = "sort" /\ chain # <<>> /\ UNCHANGED listing BY DEF Ascend
<1>1. CASE /\ p \in Planned /\ ~known /\ ~InChain(p)
           /\ chain' = Append(chain, p) /\ UNCHANGED <<depth, stage>>
  <2> HIDE DEF p
  <2> QED BY <1>0, <1>1, ChainGrows DEF p
<1>2. CASE stage' = "refused" /\ UNCHANGED <<depth, chain>>
  <2>1. /\ isFile' = isFile /\ parent' = parent /\ asked' = asked /\ root' = root
        /\ Planned' = Planned /\ GivenListing'
    BY <1>0, SameListing DEF PlanInv
  <2>2. DepthInv' BY <2>1, <1>2 DEF PlanInv, DepthInv, Deeper
  <2> QED BY <2>1, <2>2, <1>2 DEF PlanInv, PlanMirrorsTree
<1>3. CASE /\ known \/ p \notin Planned
           /\ depth' = [n \in Nodes |-> IF InChain(n)
                                        THEN base + Len(chain) + 1
                                             - (CHOOSE i \in DOMAIN chain : chain[i] = n)
                                        ELSE depth[n]]
           /\ chain' = <<>> /\ UNCHANGED stage
  <2>1. base \in Nat /\ (p \in Planned => depth[p] # Unknown /\ base = depth[p])
    <3>1. known => p \in Nodes BY PlannedParent DEF PlanInv
    <3> QED BY <3>1, <1>3 DEF PlanInv, DepthInv
  <2> HIDE DEF p, base, known
  <2> QED BY <2>1, <1>0, <1>3, ChainSettles DEF p
<1> QED BY <1>1, <1>2, <1>3 DEF Ascend

-----------------------------------------------------------------------------
(* The paths *)

LEMMA SortedKeeps == ASSUME PlanInv, Sorted PROVE PlanInv'
<1>1. /\ stage' = "place" /\ \A n \in Planned : depth[n] # Unknown
      /\ pathFor' = [n \in Nodes |-> IF n = root THEN RootPath ELSE <<>>]
      /\ UNCHANGED <<listing, depth>>
  BY DEF Sorted
<1>2. /\ isFile' = isFile /\ parent' = parent /\ asked' = asked /\ root' = root
      /\ Planned' = Planned /\ Folders' = Folders /\ GivenListing' /\ GivenListing
  BY <1>1, SameListing DEF PlanInv
<1>3. DepthInv' BY <1>1, <1>2 DEF PlanInv, DepthInv, Deeper
<1>4. ASSUME NEW n \in Nodes, pathFor'[n] # <<>> PROVE Leads(pathFor[n], n)'
  <2>1. n = root /\ pathFor'[n] = RootPath BY <1>1, <1>4
  <2>2. pathFor'[n] = <<n>> BY <2>1, <1>4 DEF RootPath
  <2>3. <<n>> \in Seq(Nodes) /\ <<n>> # <<>> /\ Len(<<n>>) = 1 /\ <<n>>[1] = n /\ 2 .. 1 = {}
    OBVIOUS
  <2> QED BY <2>1, <2>2, <2>3, <1>2 DEF Leads
<1>5. root \in Folders => pathFor'[root] # <<>>
  <2>1. root \in Folders => root \in Nodes BY <1>2, PlannedParent DEF Folders
  <2> QED BY <2>1, <1>1 DEF RootPath
<1>6. PathInv' BY <1>1, <1>2, <1>4, <1>5 DEF PathInv
<1> QED BY <1>1, <1>2, <1>3, <1>6 DEF PlanInv, PlanMirrorsTree

\* By depth, a folder that has no path yet comes after its parent.
LEMMA ParentPlaced ==
    ASSUME PlanInv, stage = "place", NEW n \in Folders \ Placed,
           \A m \in Folders \ Placed : depth[n] <= depth[m]
    PROVE  parent[n] \in Folders => parent[n] \in Placed
<1> SUFFICES ASSUME parent[n] \in Folders \ Placed PROVE FALSE OBVIOUS
<1>1. n \in Planned /\ parent[n] \in Planned /\ n \in Nodes /\ parent[n] \in Nodes
  BY PlannedParent DEF PlanInv, Folders
<1>2. n # root
  <2>1. n \in Folders /\ pathFor[n] = <<>> BY DEF Placed
  <2> QED BY <2>1 DEF PlanInv, PathInv
<1>3. depth[n] # Unknown BY <1>1 DEF PlanInv, PathInv
<1>4. depth[parent[n]] # Unknown /\ depth[parent[n]] < depth[n]
  BY <1>1, <1>2, <1>3 DEF PlanInv, DepthInv, Deeper
<1>5. depth[n] \in Nat /\ depth[parent[n]] \in Nat BY <1>1, <1>3, <1>4 DEF PlanInv, DepthInv
<1>6. depth[n] <= depth[parent[n]] OBVIOUS
<1> QED BY <1>4, <1>5, <1>6

LEMMA LeadsFurther ==
    ASSUME NEW n \in Nodes, NEW path, Leads(path, parent[n])
    PROVE  Leads(Append(path, n), n)
<1> DEFINE L == Len(path)
<1> DEFINE q == Append(path, n)
<1>1. path \in Seq(Nodes) /\ L \in Nat /\ L # 0 /\ path[L] = parent[n] /\ DOMAIN path = 1 .. L
  BY LenProperties, EmptySeq DEF Leads
<1>2. /\ q \in Seq(Nodes) /\ Len(q) = L + 1 /\ q[L + 1] = n /\ q # <<>>
      /\ \A i \in 1 .. L : q[i] = path[i]
  BY <1>1, AppendProperties
<1> HIDE DEF q, L
<1>3. ASSUME NEW i \in 2 .. L + 1
      PROVE  parent[q[i]] = q[i - 1] \/ (i = 2 /\ q[1] = root /\ Astray(q[2]))
  <2>1. i - 1 \in 1 .. L BY <1>1
  <2>2. CASE i = L + 1 BY <2>1, <2>2, <1>1, <1>2
  <2>3. CASE i # L + 1
    <3>1. i \in 2 .. L /\ i \in 1 .. L BY <2>3, <1>1
    <3>2. \/ parent[path[i]] = path[i - 1]
          \/ i = 2 /\ path[1] = root /\ Astray(path[2])
      BY <3>1 DEF Leads, L
    <3>3. q[i] = path[i] /\ q[i - 1] = path[i - 1] /\ q[1] = path[1] BY <2>1, <3>1, <1>1, <1>2
    <3> QED BY <3>2, <3>3
  <2> QED BY <2>2, <2>3
<1>4. q[1] = path[1] BY <1>1, <1>2
<1> QED BY <1>2, <1>3, <1>4 DEF Leads, q

LEMMA StartsPath ==
    ASSUME NEW n \in Nodes, n = root \/ (root \notin Folders /\ Astray(n))
    PROVE  Leads(<<n>>, n)
<1>1. <<n>> \in Seq(Nodes) /\ <<n>> # <<>> /\ Len(<<n>>) = 1 /\ <<n>>[1] = n /\ 2 .. 1 = {}
  OBVIOUS
<1> QED BY <1>1 DEF Leads

\* A folder astray is put in the root.
LEMMA StrayPath ==
    ASSUME NEW n \in Nodes, root \in Nodes, Astray(n) PROVE Leads(Append(<<root>>, n), n)
<1> DEFINE q == Append(<<root>>, n)
<1>1. <<root>> \in Seq(Nodes) /\ Len(<<root>>) = 1 /\ <<root>>[1] = root OBVIOUS
<1>2. q \in Seq(Nodes) /\ q # <<>> /\ Len(q) = 2 /\ q[1] = root /\ q[2] = n
  BY <1>1, AppendProperties
<1>3. 2 .. 2 = {2} OBVIOUS
<1> HIDE DEF q
<1>4. Leads(q, n) BY <1>2, <1>3 DEF Leads
<1> QED BY <1>4 DEF q

LEMMA PlaceKeeps == ASSUME PlanInv, NEW n \in Nodes, Place(n) PROVE PlanInv'
<1>1. /\ stage = "place" /\ stage' = "place" /\ n \in Folders \ Placed
      /\ \A m \in Folders \ Placed : depth[n] <= depth[m]
      /\ pathFor' = [pathFor EXCEPT ![n] = Append(PathOf(parent[n]), n)]
      /\ UNCHANGED <<listing, depth>>
  BY DEF Place
<1>2. /\ isFile' = isFile /\ parent' = parent /\ asked' = asked /\ root' = root
      /\ Planned' = Planned /\ Folders' = Folders /\ GivenListing' /\ GivenListing
  BY <1>1, SameListing DEF PlanInv
<1>3. DepthInv' BY <1>1, <1>2 DEF PlanInv, DepthInv, Deeper
<1>4. PathInv BY <1>1 DEF PlanInv
<1>5. n \in Planned /\ pathFor[n] = <<>> /\ n # root
  <2>1. n \in Planned /\ pathFor[n] = <<>> BY <1>1 DEF Folders, Placed
  <2> QED BY <2>1, <1>1, <1>4 DEF PathInv
<1>6. Leads(Append(PathOf(parent[n]), n), n)
  <2>1. CASE parent[n] \in Placed
    <3>1. parent[n] \in Nodes /\ pathFor[parent[n]] # <<>> /\ PathOf(parent[n]) = pathFor[parent[n]]
      BY <2>1, <1>2, <1>5, PlannedParent DEF Placed, Folders, PathOf
    <3>2. Leads(pathFor[parent[n]], parent[n]) BY <3>1, <1>4 DEF PathInv
    <3> QED BY <3>1, <3>2, LeadsFurther
  <2>2. CASE parent[n] \notin Placed
    <3>1. parent[n] \notin Folders BY <1>1, <2>2, ParentPlaced
    <3>2. Astray(n) BY <3>1, <1>2, <1>5, LostIsAstray
    <3>3. CASE root \in Folders
      <4>1. root \in Nodes BY <3>3, <1>2, PlannedParent DEF Folders
      <4>2. PathOf(parent[n]) = <<root>> BY <2>2, <3>3, Zenon DEF PathOf, RootPath
      <4> QED BY <3>2, <4>1, <4>2, StrayPath
    <3>4. CASE root \notin Folders
      <4>1. Append(PathOf(parent[n]), n) = <<n>> BY <2>2, <3>4 DEF PathOf, RootPath
      <4> QED BY <3>2, <3>4, <4>1, StartsPath
    <3> QED BY <3>3, <3>4
  <2> QED BY <2>1, <2>2
<1>8. ASSUME NEW m \in Nodes, pathFor'[m] # <<>> PROVE Leads(pathFor[m], m)'
  <2>1. CASE m = n
    <3>1. pathFor'[m] = Append(PathOf(parent[n]), n) BY <2>1, <1>1, <1>4 DEF PathInv
    <3>2. Leads(pathFor'[m], m) BY <3>1, <2>1, <1>6
    <3> QED BY <3>2, <1>2 DEF Leads, Astray
  <2>2. CASE m # n
    <3>1. pathFor'[m] = pathFor[m] BY <2>2, <1>1, <1>4 DEF PathInv
    <3>2. Leads(pathFor'[m], m) BY <3>1, <1>4, <1>8 DEF PathInv
    <3> QED BY <3>2, <1>2 DEF Leads, Astray
  <2> QED BY <2>1, <2>2
<1>9. root \in Folders => pathFor'[root] # <<>> BY <1>1, <1>4, <1>5 DEF PathInv
<1>10. PathInv' BY <1>1, <1>2, <1>4, <1>8, <1>9 DEF PathInv
<1> QED BY <1>1, <1>2, <1>3, <1>10 DEF PlanInv, PlanMirrorsTree

LEMMA PlanFilesKeeps == ASSUME PlanInv, PlanFiles PROVE PlanInv'
<1>1. /\ stage = "place" /\ stage' = "planned" /\ Folders = Placed
      /\ jobs' = [f \in Planned \cap isFile |->
                     IF parent[f] \in Placed THEN pathFor[parent[f]] ELSE <<>>]
      /\ UNCHANGED <<listing, depth>>
  BY DEF PlanFiles
<1>2. /\ isFile' = isFile /\ parent' = parent /\ asked' = asked /\ root' = root
      /\ Planned' = Planned /\ Folders' = Folders /\ GivenListing' /\ GivenListing
  BY <1>1, SameListing DEF PlanInv
<1>3. DepthInv' BY <1>1, <1>2 DEF PlanInv, DepthInv, Deeper
<1>4. PathInv BY <1>1 DEF PlanInv
<1>5. ASSUME NEW f \in Planned \cap isFile, NEW path, path = jobs'[f]
      PROVE  \/ path = <<>> /\ Astray(f)
             \/ /\ path # <<>> /\ parent[f] = path[Len(path)]
                /\ path[1] = root \/ (root \notin Folders /\ Astray(path[1]))
                /\ \A i \in 2 .. Len(path) :
                     \/ parent[path[i]] = path[i - 1]
                     \/ i = 2 /\ path[1] = root /\ Astray(path[2])
  <2>1. CASE parent[f] \in Placed
    <3>1. path = pathFor[parent[f]] /\ parent[f] \in Nodes /\ path # <<>>
      BY <2>1, <1>1, <1>2, <1>5, PlannedParent DEF Placed, Folders
    <3>2. Leads(path, parent[f]) BY <3>1, <1>4 DEF PathInv
    <3> QED BY <3>1, <3>2 DEF Leads
  <2>2. CASE parent[f] \notin Placed
    <3>1. path = <<>> /\ parent[f] \notin Folders BY <2>2, <1>1, <1>5
    <3>2. asked = "folder" => f # root BY <1>2 DEF GivenListing
    <3> QED BY <3>1, <3>2, <1>2, <1>5, LostIsAstray
  <2> QED BY <2>1, <2>2
<1>6. DOMAIN jobs' = Planned \cap isFile BY <1>1
<1>7. PlanMirrorsTree'
  BY <1>2, <1>5, <1>6 DEF PlanMirrorsTree, Astray
<1> QED BY <1>1, <1>2, <1>3, <1>7 DEF PlanInv

LEMMA NextPlan == PlanInv /\ [PlanNext]_planVars => PlanInv'
<1>1. ASSUME PlanInv, UNCHANGED planVars PROVE PlanInv'
  <2>1. UNCHANGED <<listing, depth, chain, pathFor, jobs, stage>> BY <1>1 DEF planVars, listing
  <2>2. /\ isFile' = isFile /\ parent' = parent /\ asked' = asked /\ root' = root
        /\ Planned' = Planned /\ Folders' = Folders /\ GivenListing'
    BY <1>1, <2>1, SameListing DEF PlanInv
  <2>3. DepthInv' /\ (ChainInv => ChainInv')
    BY <1>1, <2>1, <2>2 DEF PlanInv, DepthInv, Deeper, ChainInv
  <2>4. PathInv => PathInv' BY <2>1, <2>2 DEF PathInv, Leads, Astray
  <2>5. PlanMirrorsTree' BY <1>1, <2>1, <2>2 DEF PlanInv, PlanMirrorsTree, Astray
  <2> QED BY <1>1, <2>1, <2>2, <2>3, <2>4, <2>5 DEF PlanInv
<1> QED BY <1>1, AscendKeeps, SortedKeeps, PlanFilesKeeps, TakeKeeps, PlaceKeeps DEF PlanNext

(* The plan mirrors the share (folder_downloader.py:366-437), for any finite *)
(* listing in any order: with parents that are missing, empty, files, or go  *)
(* round in a circle, and whatever root such a listing leads to, the folders *)
(* of a path are a file's own parents, up to the root or to where the        *)
(* listing loses the trail.                                                  *)
THEOREM PlanIsMirror == PlanSpec => []PlanMirrorsTree
<1>1. PlanInv => PlanMirrorsTree BY DEF PlanInv
<1> QED BY <1>1, InitPlan, NextPlan, PTL DEF PlanSpec
=============================================================================
