---------------------------- MODULE StoreProofs ----------------------------
(***************************************************************************)
(* Proofs about the two stores that every command opens, for any number of   *)
(* processes, accounts, labels, passphrases, settings and contents.          *)
(*                                                                           *)
(* Vault and sessions (AccountCommands): what holds of the vault holds of    *)
(* every copy of it that some process may save, and what holds of a session  *)
(* in use holds of every session that is cached.  These are the invariants.  *)
(*                                                                           *)
(* Configuration (ConfigStore): no update is lost, and no damaged file is    *)
(* written over unseen.  What a process holds in memory is worth something   *)
(* only while it holds the lock, and only for the file it has looked at.     *)
(***************************************************************************)
EXTENDS AccountCommands, ConfigStore, TLAPS, SequenceTheorems, WellFoundedInduction

-----------------------------------------------------------------------------
(* What holds of vault and commands *)

Names == Emails \cup Labels

AccountTypeOK ==
    /\ vault \in Stores /\ junk \in BOOLEAN
    /\ begun \in Nat
    /\ pc \in [Procs -> Steps] /\ cmd \in [Procs -> Commands]
    /\ mem \in [Procs -> Stores] /\ todo \in [Procs -> Seq(Names)]
    /\ owner \in Seq(Emails) /\ live \in SUBSET (1 .. Len(owner))
    /\ cache \in [Keys -> [sid : 0 .. Len(owner), pass : Passphrases \cup {Dead}]]
    /\ client \in [Procs -> [session : 0 .. Len(owner), sid : 0 .. Len(owner)]]

\* Whether an account of the list is being used.
InUse(p) ==
    \/ pc[p] \in {"probe", "forget", "login", "using", "record"}
    \/ pc[p] = "remember" /\ cmd[p].op # "add"

(* What the step of a process says of its command, of the copy it holds and  *)
(* of the accounts it has yet to use.                                        *)
Known(p, x) == Find(mem[p], x) # 0

Following(p) ==
    /\ cmd[p].op = "add" => pc[p] \in {"verify", "load", "add", "remember"}
    /\ pc[p] \in {"verify", "add"} => cmd[p].op = "add"
    /\ pc[p] \in {"remove", "default"} => cmd[p].op = pc[p] /\ Known(p, cmd[p].id)
    /\ pc[p] = "forgetall" => cmd[p].op = "remove" /\ Known(p, cmd[p].id)
    /\ pc[p] = "next" \/ InUse(p) =>
         /\ cmd[p].op \in {"use", "all"}
         /\ \A i \in DOMAIN todo[p] : Known(p, todo[p][i])
    /\ InUse(p) => todo[p] # <<>>
    /\ pc[p] = "logout" => cmd[p].op \in {"logout", "end"}

\* The session of its client is one of the account it works on.
Session(p) ==
    /\ client[p].sid = client[p].session
    /\ client[p].session # 0 => owner[client[p].session] = Lower[LoginEmail(p)]
    /\ pc[p] \in {"probe", "using", "remember"} => client[p].session # 0
    /\ pc[p] \in {"probe", "using", "remember", "load", "add"} \/ client[p].session = 0
    /\ cmd[p].op # "add" => pc[p] \in {"probe", "using", "remember"} \/ client[p].session = 0

\* A label of the address e, or of another spelling of it.
LabelOf(label, e) == \E f \in Emails : Same(f, e) /\ label \in NewLabels[f]

Labelled(st) ==
    \A i \in DOMAIN st.accounts :
        st.accounts[i].label # NoLabel => LabelOf(st.accounts[i].label, st.accounts[i].email)

\* A session cached under a key is one of the account the key names.
Belongs(k, s) ==
    \E e \in Emails : owner[s] = Lower[e] /\ (k = Lower[e] \/ k \in NewLabels[e])

Cached == \A k \in Keys : cache[k].sid # 0 => Belongs(k, cache[k].sid)

(* No two addresses have a label in common.                                  *)
LabelsOwned ==
    /\ \A e, f \in Emails : ~Same(e, f) => NewLabels[e] \cap NewLabels[f] \subseteq {NoLabel}
    /\ \A st \in OldVaults : Labelled(st)

CommandInv ==
    /\ AccountTypeOK
    /\ \A p \in Procs : Following(p)

KeyInv == OneKey(vault) /\ \A p \in Procs : OneKey(mem[p])

\* Whatever is in the vault, no process holds a copy that does not load.
CopiesLoad == \A p \in Procs : Loads(mem[p])

-----------------------------------------------------------------------------
(* Sequences and stores *)

LEMMA SmallestIndex ==
    ASSUME NEW I \in SUBSET Nat, I # {}
    PROVE  \E x \in I : \A y \in I : x <= y
<1>1. PICK x \in I : \A y \in I : ~(<<y, x>> \in OpToRel(<, Nat))
  <2>1. IsWellFoundedOn(OpToRel(<, Nat), Nat) BY NatLessThanWellFounded
  <2> QED BY <2>1, WFMin, Zenon
<1>2. ASSUME NEW y \in I PROVE x <= y
  <2>1. ~(y < x) BY <1>1 DEF OpToRel
  <2> QED BY <2>1
<1> QED BY <1>2

LEMMA StoreShape ==
    ASSUME NEW st \in Stores
    PROVE  /\ st.accounts \in Seq(Accounts) /\ Len(st.accounts) \in Nat
           /\ DOMAIN st.accounts = 1 .. Len(st.accounts)
           /\ \A i \in DOMAIN st.accounts :
                /\ st.accounts[i] \in Accounts
                /\ st.accounts[i].email \in Emails
                /\ st.accounts[i].label \in Labels \cup {NoLabel}
                /\ st.accounts[i].cred \in Passphrases \cup {Dead}
           /\ st.default \in Emails \cup {NoEmail}
<1>1. st.accounts \in Seq(Accounts) /\ st.default \in Emails \cup {NoEmail} BY DEF Stores
<1>2. Len(st.accounts) \in Nat /\ DOMAIN st.accounts = 1 .. Len(st.accounts) BY <1>1, LenProperties
<1>3. \A i \in DOMAIN st.accounts : st.accounts[i] \in Accounts BY <1>1, <1>2, ElementOfSeq
<1>4. \A a \in Accounts : a.email \in Emails /\ a.label \in Labels \cup {NoLabel}
                          /\ a.cred \in Passphrases \cup {Dead}
  BY DEF Accounts
<1> QED BY <1>1, <1>2, <1>3, <1>4

LEMMA NoStoreProps ==
    /\ NoStore \in Stores /\ Loads(NoStore) /\ OneKey(NoStore) /\ Labelled(NoStore)
    /\ DOMAIN NoStore.accounts = {}
<1>1. NoStore \in Stores BY EmptySeq DEF NoStore, Stores
<1>2. DOMAIN NoStore.accounts = {} /\ NoStore.default = NoEmail BY DEF NoStore
<1> QED BY <1>1, <1>2 DEF Loads, OneKey, Labelled

\* get_account finds the account that is named, if there is one.
LEMMA FindProps ==
    ASSUME NEW st \in Stores, NEW id
    PROVE  /\ Find(st, id) = 0 <=> \A i \in DOMAIN st.accounts : ~Matches(st.accounts[i], id)
           /\ Find(st, id) # 0 => /\ Find(st, id) \in DOMAIN st.accounts
                                  /\ Matches(st.accounts[Find(st, id)], id)
<1> DEFINE I == {i \in 1 .. Len(st.accounts) : Matches(st.accounts[i], id)}
<1>1. DOMAIN st.accounts = 1 .. Len(st.accounts) /\ Len(st.accounts) \in Nat BY StoreShape
<1>2. Find(st, id) = IF I # {} THEN CHOOSE x \in I : \A y \in I : x <= y ELSE 0
  BY DEF Find, SelectInSeq, Min
<1>3. I \in SUBSET Nat /\ 0 \notin I BY <1>1
<1>4. I # {} => (CHOOSE x \in I : \A y \in I : x <= y) \in I BY <1>3, SmallestIndex
<1>5. Find(st, id) # 0 => Find(st, id) \in I BY <1>2, <1>4
<1>6. Find(st, id) = 0 <=> I = {} BY <1>2, <1>3, <1>4
<1>7. I = {} <=> \A i \in DOMAIN st.accounts : ~Matches(st.accounts[i], id) BY <1>1
<1> HIDE DEF I
<1> QED BY <1>1, <1>5, <1>6, <1>7 DEF I

\* An account that is named is one of its address, or of its label.
LEMMA FoundAccount ==
    ASSUME NEW st \in Stores, NEW id, Find(st, id) # 0
    PROVE  /\ Find(st, id) \in DOMAIN st.accounts
           /\ st.accounts[Find(st, id)] \in Accounts
           /\ st.accounts[Find(st, id)].email \in Emails
           /\ id \in Emails => Same(st.accounts[Find(st, id)].email, id)
           /\ id \notin Emails => st.accounts[Find(st, id)].label = id
<1>1. Find(st, id) \in DOMAIN st.accounts /\ Matches(st.accounts[Find(st, id)], id) BY FindProps
<1>2. st.accounts[Find(st, id)] \in Accounts /\ st.accounts[Find(st, id)].email \in Emails
  BY <1>1, StoreShape
<1> QED BY <1>1, <1>2 DEF Matches

\* The first readable account decides.
LEMMA OpensProps ==
    ASSUME NEW st \in Stores, NEW pass, OneKey(st), Opens(st, pass)
    PROVE  \A i \in DOMAIN st.accounts : Readable(st.accounts[i]) => st.accounts[i].cred = pass
<1> DEFINE I == {i \in 1 .. Len(st.accounts) : Readable(st.accounts[i])}
<1> DEFINE f == IF I # {} THEN CHOOSE x \in I : \A y \in I : x <= y ELSE 0
<1>1. DOMAIN st.accounts = 1 .. Len(st.accounts) /\ Len(st.accounts) \in Nat BY StoreShape
<1>2. f # 0 => st.accounts[f].cred = pass BY DEF Opens, SelectInSeq, Min
<1>3. I \in SUBSET Nat /\ 0 \notin I BY <1>1
<1>4. I # {} => f \in I BY <1>3, SmallestIndex
<1> SUFFICES ASSUME NEW i \in DOMAIN st.accounts, Readable(st.accounts[i])
             PROVE  st.accounts[i].cred = pass
  OBVIOUS
<1>5. i \in I BY <1>1
<1>6. f \in I BY <1>4, <1>5
<1>7. f \in DOMAIN st.accounts /\ Readable(st.accounts[f]) /\ f # 0 BY <1>1, <1>3, <1>6
<1> HIDE DEF f
<1>8. st.accounts[i].cred = st.accounts[f].cred BY <1>7 DEF OneKey
<1> QED BY <1>2, <1>7, <1>8

\* The new elements are old ones, but for one: g says where each stood.
OldOnes(new, old, i, g) ==
    /\ \A j \in DOMAIN new : new[j] = old[g[j]] /\ g[j] # i
    /\ \A j, k \in DOMAIN new : j # k => g[j] # g[k]
    /\ \A k \in DOMAIN old : k # i => \E j \in DOMAIN new : g[j] = k

LEMMA RemovedOne ==
    ASSUME NEW S, NEW s \in Seq(S), NEW i \in DOMAIN s
    PROVE  /\ RemoveAt(s, i) \in Seq(S)
           /\ \E g \in [DOMAIN RemoveAt(s, i) -> DOMAIN s] : OldOnes(RemoveAt(s, i), s, i, g)
<1> DEFINE a == SubSeq(s, 1, i - 1)
           b == SubSeq(s, i + 1, Len(s))
           r == RemoveAt(s, i)
           n == Len(s)
<1>1. n \in Nat /\ DOMAIN s = 1 .. n /\ i \in 1 .. n BY LenProperties
<1>2. \A k \in 1 .. n : s[k] \in S BY ElementOfSeq
<1>3. a \in Seq(S) /\ Len(a) = i - 1 /\ \A k \in 1 .. i - 1 : a[k] = s[k]
  <2>1. 1 \in Int /\ i - 1 \in Int /\ \A k \in 1 .. i - 1 : s[k] \in S BY <1>1, <1>2
  <2>2. /\ SubSeq(s, 1, i - 1) \in Seq(S)
        /\ Len(SubSeq(s, 1, i - 1)) = IF 1 <= i - 1 THEN (i - 1) - 1 + 1 ELSE 0
        /\ \A k \in 1 .. (i - 1) - 1 + 1 : SubSeq(s, 1, i - 1)[k] = s[1 + k - 1]
    BY <2>1, SubSeqProperties
  <2> QED BY <1>1, <2>2
<1>4. b \in Seq(S) /\ Len(b) = n - i /\ \A k \in 1 .. n - i : b[k] = s[k + i]
  <2>1. i + 1 \in Int /\ n \in Int /\ \A k \in (i + 1) .. n : s[k] \in S BY <1>1, <1>2
  <2>2. /\ SubSeq(s, i + 1, n) \in Seq(S)
        /\ Len(SubSeq(s, i + 1, n)) = IF i + 1 <= n THEN n - (i + 1) + 1 ELSE 0
        /\ \A k \in 1 .. n - (i + 1) + 1 : SubSeq(s, i + 1, n)[k] = s[(i + 1) + k - 1]
    BY <2>1, SubSeqProperties
  <2> QED BY <1>1, <2>2
<1>5. r = a \o b BY DEF RemoveAt
<1> HIDE DEF a, b, r, n
<1>6. /\ r \in Seq(S) /\ Len(r) = Len(a) + Len(b)
      /\ \A k \in 1 .. Len(a) + Len(b) : r[k] = IF k <= Len(a) THEN a[k] ELSE b[k - Len(a)]
  BY <1>3, <1>4, <1>5, ConcatProperties
<1>7. DOMAIN r = 1 .. n - 1 BY <1>1, <1>3, <1>4, <1>6, LenProperties
<1>8. \A k \in 1 .. n - 1 : r[k] = IF k < i THEN s[k] ELSE s[k + 1]
  <2> SUFFICES ASSUME NEW k \in 1 .. n - 1 PROVE r[k] = IF k < i THEN s[k] ELSE s[k + 1] OBVIOUS
  <2>1. r[k] = IF k <= i - 1 THEN a[k] ELSE b[k - (i - 1)] BY <1>1, <1>3, <1>4, <1>6
  <2>2. CASE k < i BY <2>1, <2>2, <1>1, <1>3
  <2>3. CASE ~(k < i)
    <3>1. k - (i - 1) \in 1 .. n - i /\ (k - (i - 1)) + i = k + 1 BY <1>1, <2>3
    <3>2. b[k - (i - 1)] = s[(k - (i - 1)) + i] BY <3>1, <1>4
    <3>3. ~(k <= i - 1) BY <1>1, <2>3
    <3>4. r[k] = s[k + 1] BY <2>1, <3>1, <3>2, <3>3
    <3> QED BY <2>3, <3>4
  <2> QED BY <2>2, <2>3
<1> DEFINE g == [j \in 1 .. n - 1 |-> IF j < i THEN j ELSE j + 1]
<1>9. g \in [DOMAIN r -> DOMAIN s] BY <1>1, <1>7
<1>10. \A j \in DOMAIN r : r[j] = s[g[j]] /\ g[j] # i BY <1>1, <1>7, <1>8
<1>11. \A j, k \in DOMAIN r : j # k => g[j] # g[k] BY <1>1, <1>7
<1>12. \A k \in DOMAIN s : k # i => \E j \in DOMAIN r : g[j] = k
  <2> SUFFICES ASSUME NEW k \in 1 .. n, k # i PROVE \E j \in 1 .. n - 1 : g[j] = k BY <1>1, <1>7
  <2>1. CASE k < i
    <3>1. k \in 1 .. n - 1 /\ g[k] = k BY <1>1, <2>1
    <3> QED BY <3>1
  <2>2. CASE k > i
    <3>1. k - 1 \in 1 .. n - 1 /\ g[k - 1] = k BY <1>1, <2>2
    <3> QED BY <3>1
  <2> QED BY <1>1, <2>1, <2>2
<1> HIDE DEF g
<1>13. OldOnes(r, s, i, g) BY <1>10, <1>11, <1>12 DEF OldOnes
<1> QED BY <1>6, <1>9, <1>13 DEF r

-----------------------------------------------------------------------------
(* What the operations make of a store *)

Left(st, id) == IF Find(st, id) = 0 THEN st.accounts ELSE RemoveAt(st.accounts, Find(st, id))

LEMMA LeftProps ==
    ASSUME NEW st \in Stores, NEW id
    PROVE  /\ Left(st, id) \in Seq(Accounts)
           /\ \E g \in [DOMAIN Left(st, id) -> DOMAIN st.accounts] :
                 OldOnes(Left(st, id), st.accounts, Find(st, id), g)
<1>1. st.accounts \in Seq(Accounts) /\ 0 \notin DOMAIN st.accounts BY StoreShape
<1>2. CASE Find(st, id) = 0
  <2>1. Left(st, id) = st.accounts BY <1>2 DEF Left
  <2>2. [j \in DOMAIN st.accounts |-> j] \in [DOMAIN st.accounts -> DOMAIN st.accounts] OBVIOUS
  <2>3. OldOnes(st.accounts, st.accounts, 0, [j \in DOMAIN st.accounts |-> j])
    BY <1>1 DEF OldOnes
  <2> QED BY <1>1, <1>2, <2>1, <2>2, <2>3
<1>3. CASE Find(st, id) # 0
  <2>1. Left(st, id) = RemoveAt(st.accounts, Find(st, id)) BY <1>3 DEF Left
  <2>2. Find(st, id) \in DOMAIN st.accounts BY <1>3, FindProps
  <2> QED BY <1>1, <2>1, <2>2, RemovedOne
<1> QED BY <1>2, <1>3

LEMMA AddedProps ==
    ASSUME NEW st \in Stores, NEW email \in Emails, NEW label \in Labels \cup {NoLabel},
           NEW pass \in Passphrases, NEW d \in BOOLEAN
    PROVE  LET t == Added(st, email, label, pass, d)
               rest == Left(st, email)
               name == t.accounts[Len(rest) + 1].label
           IN  /\ t \in Stores /\ Len(rest) \in Nat
               /\ DOMAIN rest = 1 .. Len(rest) /\ DOMAIN t.accounts = 1 .. Len(rest) + 1
               /\ \A j \in DOMAIN rest : t.accounts[j] = rest[j]
               /\ t.accounts[Len(rest) + 1] \in Accounts
               /\ t.accounts[Len(rest) + 1].email = email
               /\ t.accounts[Len(rest) + 1].cred = pass
               /\ \/ name = label
                  \/ Find(st, email) # 0 /\ name = st.accounts[Find(st, email)].label
               /\ t.default = IF d \/ st.default = NoEmail THEN email ELSE st.default
<1> DEFINE i == Find(st, email)
           name == IF label = NoLabel /\ i # 0 THEN st.accounts[i].label ELSE label
           new == [email |-> email, label |-> name, cred |-> pass]
           rest == Left(st, email)
           t == Added(st, email, label, pass, d)
<1>1. rest \in Seq(Accounts) BY LeftProps
<1>2. Len(rest) \in Nat /\ DOMAIN rest = 1 .. Len(rest) BY <1>1, LenProperties
<1>3. name \in Labels \cup {NoLabel}
  <2>1. i # 0 => i \in DOMAIN st.accounts BY FindProps
  <2>2. i # 0 => st.accounts[i].label \in Labels \cup {NoLabel} BY <2>1, StoreShape
  <2> QED BY <2>2
<1>4. new \in Accounts BY <1>3 DEF Accounts
<1>5. t = [accounts |-> Append(rest, new),
           default |-> IF d \/ st.default = NoEmail THEN email ELSE st.default]
  BY DEF Added, Left
<1>6. t.accounts = Append(rest, new)
      /\ t.default = (IF d \/ st.default = NoEmail THEN email ELSE st.default)
  BY <1>5
<1>7. new.email = email /\ new.cred = pass /\ new.label = name OBVIOUS
<1> HIDE DEF new, name, rest
<1>8. /\ Append(rest, new) \in Seq(Accounts) /\ Len(Append(rest, new)) = Len(rest) + 1
      /\ \A j \in 1 .. Len(rest) : Append(rest, new)[j] = rest[j]
      /\ Append(rest, new)[Len(rest) + 1] = new
  BY <1>1, <1>4, AppendProperties
<1>9. DOMAIN Append(rest, new) = 1 .. Len(rest) + 1 BY <1>8, LenProperties
<1>10. t \in Stores BY <1>5, <1>8, StoreShape DEF Stores
<1>11. name = label \/ (i # 0 /\ name = st.accounts[i].label) BY DEF name
<1> QED BY <1>2, <1>4, <1>6, <1>7, <1>8, <1>9, <1>10, <1>11 DEF rest

LEMMA RemovedProps ==
    ASSUME NEW st \in Stores, NEW id, Find(st, id) # 0
    PROVE  LET t == Removed(st, id)
               gone == st.accounts[Find(st, id)].email
           IN  /\ t \in Stores /\ t.accounts = Left(st, id)
               /\ \/ st.default # gone /\ t.default = st.default
                  \/ t.default = NoEmail
                  \/ 1 \in DOMAIN t.accounts /\ t.default = t.accounts[1].email
<1> DEFINE left == Left(st, id)
           gone == st.accounts[Find(st, id)].email
           new == CASE st.default # gone -> st.default
                    [] left = <<>> -> NoEmail
                    [] OTHER -> left[1].email
<1>1. left \in Seq(Accounts) BY LeftProps
<1>2. left # <<>> => 1 \in DOMAIN left
  <2>1. Len(left) \in Nat /\ DOMAIN left = 1 .. Len(left) BY <1>1, LenProperties
  <2>2. left # <<>> => Len(left) \in Nat \ {0} BY <1>1, EmptySeq
  <2> QED BY <2>1, <2>2
<1>3. Removed(st, id) = [accounts |-> left, default |-> new] BY DEF Removed, Left
<1>4. \/ st.default # gone /\ new = st.default
      \/ new = NoEmail
      \/ 1 \in DOMAIN left /\ new = left[1].email
  BY <1>2
<1>5. 1 \in DOMAIN left => left[1].email \in Emails
  <2>1. \A a \in Accounts : a.email \in Emails BY DEF Accounts
  <2>2. 1 \in DOMAIN left => left[1] \in Accounts BY <1>1, LenProperties, ElementOfSeq
  <2> QED BY <2>1, <2>2
<1> HIDE DEF left, gone, new
<1>6. new \in Emails \cup {NoEmail} BY <1>4, <1>5, StoreShape
<1>7. Removed(st, id) \in Stores BY <1>1, <1>3, <1>6 DEF Stores
<1> QED BY <1>3, <1>4, <1>7 DEF left, gone

LEMMA DefaultedProps ==
    ASSUME NEW st \in Stores, NEW id, Find(st, id) # 0
    PROVE  /\ Defaulted(st, id) \in Stores
           /\ Defaulted(st, id).accounts = st.accounts
           /\ Find(st, id) \in DOMAIN st.accounts
           /\ Defaulted(st, id).default = st.accounts[Find(st, id)].email
<1>1. Find(st, id) \in DOMAIN st.accounts /\ st.accounts[Find(st, id)].email \in Emails
  BY FoundAccount
<1> QED BY <1>1 DEF Defaulted, Stores

-----------------------------------------------------------------------------
(* One passphrase, labels of their own, and a store that loads *)

LEMMA AddedKey ==
    ASSUME NEW st \in Stores, NEW email \in Emails, NEW label \in Labels \cup {NoLabel},
           NEW pass \in Passphrases, NEW d \in BOOLEAN, OneKey(st), Opens(st, pass)
    PROVE  OneKey(Added(st, email, label, pass, d))
<1> DEFINE t == Added(st, email, label, pass, d)
           rest == Left(st, email)
<1>1. /\ Len(rest) \in Nat /\ DOMAIN rest = 1 .. Len(rest) /\ DOMAIN t.accounts = 1 .. Len(rest) + 1
      /\ \A j \in DOMAIN rest : t.accounts[j] = rest[j]
      /\ t.accounts[Len(rest) + 1].cred = pass
  BY AddedProps
<1>2. PICK g \in [DOMAIN rest -> DOMAIN st.accounts] :
         OldOnes(rest, st.accounts, Find(st, email), g)
  BY LeftProps
<1>3. \A j \in DOMAIN rest : rest[j] = st.accounts[g[j]] /\ g[j] \in DOMAIN st.accounts
  BY <1>2 DEF OldOnes
<1> HIDE DEF t, rest
<1>4. ASSUME NEW j \in DOMAIN t.accounts, Readable(t.accounts[j]) PROVE t.accounts[j].cred = pass
  <2>1. CASE j \in DOMAIN rest BY <1>1, <1>3, <1>4, <2>1, OpensProps
  <2>2. CASE j = Len(rest) + 1 BY <1>1, <2>2
  <2> QED BY <1>1, <2>1, <2>2
<1> QED BY <1>4 DEF OneKey, t

LEMMA RemovedKey ==
    ASSUME NEW st \in Stores, NEW id, Find(st, id) # 0, OneKey(st)
    PROVE  OneKey(Removed(st, id))
<1>1. PICK g \in [DOMAIN Left(st, id) -> DOMAIN st.accounts] :
         OldOnes(Left(st, id), st.accounts, Find(st, id), g)
  BY LeftProps
<1>2. Removed(st, id).accounts = Left(st, id) BY RemovedProps
<1> QED BY <1>1, <1>2 DEF OneKey, OldOnes

LEMMA AddedLabelled ==
    ASSUME NEW st \in Stores, NEW email \in Emails, NEW label \in Labels \cup {NoLabel},
           NEW pass \in Passphrases, NEW d \in BOOLEAN, Labelled(st), label \in NewLabels[email]
    PROVE  Labelled(Added(st, email, label, pass, d))
<1> DEFINE t == Added(st, email, label, pass, d)
           rest == Left(st, email)
           f == Find(st, email)
           last == t.accounts[Len(rest) + 1]
<1>1. /\ Len(rest) \in Nat /\ DOMAIN rest = 1 .. Len(rest) /\ DOMAIN t.accounts = 1 .. Len(rest) + 1
      /\ \A j \in DOMAIN rest : t.accounts[j] = rest[j]
      /\ last.email = email
      /\ last.label = label \/ (f # 0 /\ last.label = st.accounts[f].label)
  BY AddedProps
<1>2. PICK g \in [DOMAIN rest -> DOMAIN st.accounts] : OldOnes(rest, st.accounts, f, g)
  BY LeftProps
<1>3. \A j \in DOMAIN rest : rest[j] = st.accounts[g[j]] /\ g[j] \in DOMAIN st.accounts
  BY <1>2 DEF OldOnes
<1>4. f # 0 => f \in DOMAIN st.accounts /\ Same(st.accounts[f].email, email)
  BY FoundAccount
<1> HIDE DEF t, rest, f
<1>5. ASSUME NEW j \in DOMAIN t.accounts, t.accounts[j].label # NoLabel
      PROVE  LabelOf(t.accounts[j].label, t.accounts[j].email)
  <2>1. CASE j \in DOMAIN rest BY <1>1, <1>3, <1>5, <2>1 DEF Labelled
  <2>2. CASE j = Len(rest) + 1 /\ last.label = label
    <3>1. Same(email, email) BY DEF Same
    <3> QED BY <1>1, <2>2, <3>1 DEF LabelOf
  <2>3. CASE j = Len(rest) + 1 /\ f # 0 /\ last.label = st.accounts[f].label
    <3>1. LabelOf(st.accounts[f].label, st.accounts[f].email) BY <1>4, <1>5, <2>3 DEF Labelled
    <3> QED BY <1>1, <1>4, <2>3, <3>1 DEF LabelOf, Same
  <2> QED BY <1>1, <2>1, <2>2, <2>3
<1> QED BY <1>5 DEF Labelled, t

LEMMA RemovedLabelled ==
    ASSUME NEW st \in Stores, NEW id, Find(st, id) # 0, Labelled(st)
    PROVE  Labelled(Removed(st, id))
<1>1. PICK g \in [DOMAIN Left(st, id) -> DOMAIN st.accounts] :
         OldOnes(Left(st, id), st.accounts, Find(st, id), g)
  BY LeftProps
<1>2. Removed(st, id).accounts = Left(st, id) BY RemovedProps
<1> QED BY <1>1, <1>2 DEF Labelled, OldOnes

LEMMA ClashBoth == ASSUME NEW a, NEW b PROVE Clash(a, b) <=> Clash(b, a)
BY DEF Clash, Alike

LEMMA SameIsAlike == ASSUME NEW e \in Emails, NEW f \in Emails, Same(e, f) PROVE Alike(e, f)
BY VaultAssumption DEF Same, Alike

\* Whether a name that is added is another account's to the validator only.
Taken(st, email, label) ==
    \E i \in DOMAIN st.accounts :
        /\ ~Same(st.accounts[i].email, email)
        /\ Clash(st.accounts[i], [email |-> email, label |-> label])

LEMMA AddedLoads ==
    ASSUME NEW st \in Stores, NEW email \in Emails, NEW label \in Labels \cup {NoLabel},
           NEW pass \in Passphrases, NEW d \in BOOLEAN, Loads(st), ~Taken(st, email, label)
    PROVE  Loads(Added(st, email, label, pass, d))
<1> DEFINE t == Added(st, email, label, pass, d)
           rest == Left(st, email)
           f == Find(st, email)
           n == Len(rest)
           last == t.accounts[n + 1]
<1>1. /\ n \in Nat /\ DOMAIN rest = 1 .. n /\ DOMAIN t.accounts = 1 .. n + 1
      /\ \A j \in DOMAIN rest : t.accounts[j] = rest[j]
      /\ last.email = email
      /\ last.label = label \/ (f # 0 /\ last.label = st.accounts[f].label)
      /\ t.default = IF d \/ st.default = NoEmail THEN email ELSE st.default
  BY AddedProps
<1>2. PICK g \in [DOMAIN rest -> DOMAIN st.accounts] : OldOnes(rest, st.accounts, f, g)
  BY LeftProps
<1>3. \A j \in DOMAIN rest : rest[j] = st.accounts[g[j]] /\ g[j] \in DOMAIN st.accounts /\ g[j] # f
  BY <1>2 DEF OldOnes
<1>4. \A j, k \in DOMAIN rest : j # k => g[j] # g[k] BY <1>2 DEF OldOnes
<1>5. \A k \in DOMAIN st.accounts : k # f => \E j \in DOMAIN rest : g[j] = k BY <1>2 DEF OldOnes
<1>6. f # 0 => f \in DOMAIN st.accounts /\ Same(st.accounts[f].email, email)
  BY FoundAccount
<1>7. \A k \in DOMAIN st.accounts : st.accounts[k].email \in Emails BY StoreShape
<1>8. f = 0 => \A k \in DOMAIN st.accounts : ~Same(st.accounts[k].email, email)
  BY FindProps DEF Matches
<1>e. f # 0 => Alike(st.accounts[f].email, email) BY <1>6, <1>7, SameIsAlike
<1> HIDE DEF t, rest, f, n
\* No account that stays clashes with the new one.
<1>9. ASSUME NEW j \in DOMAIN rest PROVE ~Clash(t.accounts[j], last)
  <2>1. t.accounts[j] = st.accounts[g[j]] /\ g[j] \in DOMAIN st.accounts /\ g[j] # f
    BY <1>1, <1>3
  <2>2. f # 0 => ~Clash(st.accounts[g[j]], st.accounts[f]) BY <1>6, <2>1 DEF Loads
  <2>3. ~Same(st.accounts[g[j]].email, email)
    <3> SUFFICES ASSUME Same(st.accounts[g[j]].email, email) PROVE FALSE OBVIOUS
    <3>1. Alike(st.accounts[g[j]].email, email) BY <1>7, <2>1, SameIsAlike
    <3>2. f # 0 BY <1>8, <2>1
    <3>3. Alike(st.accounts[g[j]].email, st.accounts[f].email) BY <1>e, <3>1, <3>2 DEF Alike
    <3> QED BY <2>2, <3>2, <3>3 DEF Clash
  <2>4. ~Clash(st.accounts[g[j]], [email |-> email, label |-> label]) BY <2>1, <2>3 DEF Taken
  <2> QED BY <1>1, <2>1, <2>2, <2>4 DEF Clash
<1>10. ASSUME NEW i \in DOMAIN t.accounts, NEW j \in DOMAIN t.accounts, i # j
       PROVE  ~Clash(t.accounts[i], t.accounts[j])
  <2>1. CASE i \in DOMAIN rest /\ j \in DOMAIN rest
    <3>1. t.accounts[i] = st.accounts[g[i]] /\ t.accounts[j] = st.accounts[g[j]]
          /\ g[i] \in DOMAIN st.accounts /\ g[j] \in DOMAIN st.accounts /\ g[i] # g[j]
      BY <1>1, <1>3, <1>4, <1>10, <2>1
    <3> QED BY <3>1 DEF Loads
  <2>2. CASE i \in DOMAIN rest /\ j = n + 1 BY <1>9, <2>2
  <2>3. CASE i = n + 1 /\ j \in DOMAIN rest BY <1>9, <2>3, ClashBoth
  <2> QED BY <1>1, <1>10, <2>1, <2>2, <2>3
<1>11. \/ t.default = NoEmail
       \/ \E i \in DOMAIN t.accounts : Alike(t.accounts[i].email, t.default)
  <2>1. CASE t.default = email
    <3>1. n + 1 \in DOMAIN t.accounts BY <1>1
    <3>2. Alike(last.email, t.default) BY <1>1, <2>1 DEF Alike
    <3> QED BY <3>1, <3>2
  <2>2. CASE t.default # email
    <3>1. t.default = st.default /\ st.default # NoEmail BY <1>1, <2>2
    <3>2. PICK k \in DOMAIN st.accounts : Alike(st.accounts[k].email, st.default)
      BY <3>1 DEF Loads
    <3>3. CASE k = f
      <4>1. f # 0 BY <3>3, StoreShape
      <4>2. Alike(last.email, t.default) BY <1>1, <1>e, <3>1, <3>2, <3>3, <4>1 DEF Alike
      <4>3. n + 1 \in DOMAIN t.accounts BY <1>1
      <4> QED BY <4>2, <4>3
    <3>4. CASE k # f
      <4>1. PICK j \in DOMAIN rest : g[j] = k BY <1>5, <3>4
      <4>2. j \in DOMAIN t.accounts /\ t.accounts[j] = st.accounts[k] BY <1>1, <1>3, <4>1
      <4> QED BY <3>1, <3>2, <4>2
    <3> QED BY <3>3, <3>4
  <2> QED BY <2>1, <2>2
<1>12. Loads(t) BY <1>10, <1>11 DEF Loads
<1> QED BY <1>12 DEF t

\* Whether an account is the default, in another spelling.
Respelled(st, id) ==
    /\ st.default # NoEmail /\ st.accounts[Find(st, id)].email # st.default
    /\ Alike(st.accounts[Find(st, id)].email, st.default)

LEMMA RemovedLoads ==
    ASSUME NEW st \in Stores, NEW id, Find(st, id) # 0, Loads(st), ~Respelled(st, id)
    PROVE  Loads(Removed(st, id))
<1> DEFINE t == Removed(st, id)
           f == Find(st, id)
<1>1. PICK g \in [DOMAIN Left(st, id) -> DOMAIN st.accounts] :
         OldOnes(Left(st, id), st.accounts, f, g)
  BY LeftProps
<1>2. /\ t.accounts = Left(st, id) /\ t \in Stores
      /\ \/ st.default # st.accounts[f].email /\ t.default = st.default
         \/ t.default = NoEmail
         \/ 1 \in DOMAIN t.accounts /\ t.default = t.accounts[1].email
  BY RemovedProps
<1>3. \/ st.default = NoEmail \/ st.accounts[f].email = st.default
      \/ ~Alike(st.accounts[f].email, st.default)
  BY DEF Respelled
<1> HIDE DEF t, f
<1>4. ASSUME NEW i \in DOMAIN t.accounts, NEW j \in DOMAIN t.accounts, i # j
      PROVE  ~Clash(t.accounts[i], t.accounts[j])
  <2>1. /\ t.accounts[i] = st.accounts[g[i]] /\ t.accounts[j] = st.accounts[g[j]]
        /\ g[i] \in DOMAIN st.accounts /\ g[j] \in DOMAIN st.accounts /\ g[i] # g[j]
    BY <1>1, <1>2, <1>4 DEF OldOnes
  <2> QED BY <2>1 DEF Loads
<1>5. \/ t.default = NoEmail
      \/ \E i \in DOMAIN t.accounts : Alike(t.accounts[i].email, t.default)
  <2>1. CASE st.default # st.accounts[f].email /\ t.default = st.default /\ st.default # NoEmail
    <3>1. PICK k \in DOMAIN st.accounts : Alike(st.accounts[k].email, st.default)
      BY <2>1 DEF Loads
    <3>2. k # f BY <1>3, <2>1, <3>1
    <3>3. PICK j \in DOMAIN t.accounts : g[j] = k BY <1>1, <1>2, <3>2 DEF OldOnes
    <3>4. t.accounts[j] = st.accounts[k] BY <1>1, <1>2, <3>3 DEF OldOnes
    <3> QED BY <2>1, <3>1, <3>3, <3>4
  <2>2. CASE 1 \in DOMAIN t.accounts /\ t.default = t.accounts[1].email
    <3>1. Alike(t.accounts[1].email, t.default) BY <2>2 DEF Alike
    <3> QED BY <2>2, <3>1
  <2> QED BY <1>2, <2>1, <2>2
<1>6. Loads(t) BY <1>4, <1>5 DEF Loads
<1> QED BY <1>6 DEF t

LEMMA DefaultedKeeps ==
    ASSUME NEW st \in Stores, NEW id, Find(st, id) # 0
    PROVE  /\ OneKey(st) => OneKey(Defaulted(st, id))
           /\ Labelled(st) => Labelled(Defaulted(st, id))
           /\ Loads(st) => Loads(Defaulted(st, id))
<1> DEFINE t == Defaulted(st, id)
<1>1. t.accounts = st.accounts /\ Find(st, id) \in DOMAIN st.accounts
      /\ t.default = st.accounts[Find(st, id)].email
  BY DefaultedProps
<1> HIDE DEF t
<1>2. Alike(t.accounts[Find(st, id)].email, t.default) BY <1>1 DEF Alike
<1>3. Loads(st) => Loads(t) BY <1>1, <1>2 DEF Loads
<1>4. (OneKey(st) => OneKey(t)) /\ (Labelled(st) => Labelled(t)) BY <1>1 DEF OneKey, Labelled
<1> QED BY <1>3, <1>4 DEF t

-----------------------------------------------------------------------------
(* Commands: their types, and what a step leaves to the others *)

LEMMA CommandKinds ==
    ASSUME NEW c \in Commands
    PROVE  /\ c.op \in {"add", "remove", "default", "use", "logout", "all", "end", "none"}
           /\ c.op = "add" => /\ c.id \in Emails /\ c.label \in Labels \cup {NoLabel}
                              /\ c.pass \in Passphrases /\ c.makeDefault \in BOOLEAN
           /\ c.op \in {"remove", "default", "use", "logout"} => c.id \in Ids
           /\ c.op \in {"use", "logout", "all", "end"} => c.pass \in Passphrases
BY DEF Commands

LEMMA NoneIsCommand == [op |-> "none"] \in Commands
BY DEF Commands

\* A step of p changes nothing of the other processes.
Alone(p) ==
    \A q \in Procs \ {p} : /\ pc'[q] = pc[q] /\ cmd'[q] = cmd[q] /\ mem'[q] = mem[q]
                           /\ todo'[q] = todo[q] /\ client'[q] = client[q]

ProcTypes ==
    /\ pc \in [Procs -> Steps] /\ cmd \in [Procs -> Commands]
    /\ mem \in [Procs -> Stores] /\ todo \in [Procs -> Seq(Names)]
    /\ client \in [Procs -> [session : 0 .. Len(owner), sid : 0 .. Len(owner)]]

FileTypes ==
    /\ vault \in Stores /\ junk \in BOOLEAN
    /\ owner \in Seq(Emails) /\ live \in SUBSET (1 .. Len(owner))
    /\ cache \in [Keys -> [sid : 0 .. Len(owner), pass : Passphrases \cup {Dead}]]

LEMMA TypeParts == AccountTypeOK <=> ProcTypes /\ FileTypes /\ begun \in Nat
BY DEF AccountTypeOK, ProcTypes, FileTypes

LEMMA OthersFollow ==
    ASSUME CommandInv, NEW p \in Procs, Alone(p), Following(p)'
    PROVE  \A q \in Procs : Following(q)'
<1> SUFFICES ASSUME NEW q \in Procs, q # p PROVE Following(q)' OBVIOUS
<1>1. /\ pc'[q] = pc[q] /\ cmd'[q] = cmd[q] /\ mem'[q] = mem[q] /\ todo'[q] = todo[q]
  BY DEF Alone
<1>2. Following(q) BY DEF CommandInv
<1> QED BY <1>1, <1>2 DEF Following, InUse, Known

\* What holds of a process that has ended.
LEMMA Exited ==
    ASSUME ProcTypes, NEW p \in Procs, Exit(p), Len(owner') = Len(owner), Len(owner) \in Nat
    PROVE  /\ ProcTypes' /\ Alone(p) /\ Following(p)'
           /\ pc'[p] = "off" /\ cmd'[p].op = "none" /\ mem'[p] = NoStore /\ client'[p] = NoClient
<1>1. "off" \in Steps /\ <<>> \in Seq(Names) /\ NoStore \in Stores /\ [op |-> "none"] \in Commands
  BY NoStoreProps, NoneIsCommand, EmptySeq DEF Steps
<1>2. NoClient \in [session : 0 .. Len(owner), sid : 0 .. Len(owner)] BY DEF NoClient
<1>3. ProcTypes' BY <1>1, <1>2 DEF ProcTypes, Exit
<1>4. pc'[p] = "off" /\ cmd'[p] = [op |-> "none"] /\ mem'[p] = NoStore /\ client'[p] = NoClient
  BY DEF ProcTypes, Exit
<1>5. Alone(p) BY DEF ProcTypes, Exit, Alone
<1>6. Following(p)' BY <1>4 DEF Following, InUse
<1> QED BY <1>3, <1>4, <1>5, <1>6

\* What a command names is an address or a label, unless it names nothing.
LEMMA NamedType ==
    ASSUME NEW st \in Stores, NEW id \in Ids
    PROVE  /\ Resolved(st, id) # NoEmail => Resolved(st, id) \in Names
           /\ Find(st, Resolved(st, id)) # 0 => Resolved(st, id) \in Names
<1>1. id \in Emails \cup Labels \cup {NoEmail} BY CommandAssumption
<1>2. st.default \in Emails \cup {NoEmail} BY StoreShape
<1>3. Resolved(st, id) # NoEmail => Resolved(st, id) \in Names BY <1>1, <1>2 DEF Resolved, Names
<1>4. Find(st, NoEmail) = 0
  <2> SUFFICES ASSUME Find(st, NoEmail) # 0 PROVE FALSE OBVIOUS
  <2>1. NoEmail \notin Emails \cup Labels \cup {NoLabel} BY VaultAssumption
  <2>2. Find(st, NoEmail) \in DOMAIN st.accounts /\ st.accounts[Find(st, NoEmail)].label = NoEmail
    BY <2>1, FoundAccount
  <2>3. st.accounts[Find(st, NoEmail)].label \in Labels \cup {NoLabel} BY <2>2, StoreShape
  <2> QED BY <2>1, <2>2, <2>3
<1> QED BY <1>3, <1>4

\* Every account of a store is found by its address.
LEMMA EmailsFound ==
    ASSUME NEW st \in Stores, NEW i \in DOMAIN st.accounts
    PROVE  Find(st, st.accounts[i].email) # 0
<1>1. st.accounts[i].email \in Emails BY StoreShape
<1>2. Matches(st.accounts[i], st.accounts[i].email) BY <1>1 DEF Matches, Same
<1> QED BY <1>2, FindProps

EmailsOf(st) == [i \in DOMAIN st.accounts |-> st.accounts[i].email]

LEMMA EmailsOfProps ==
    ASSUME NEW st \in Stores
    PROVE  /\ EmailsOf(st) \in Seq(Names)
           /\ \A i \in DOMAIN EmailsOf(st) : Find(st, EmailsOf(st)[i]) # 0
<1>1. DOMAIN st.accounts = 1 .. Len(st.accounts) /\ Len(st.accounts) \in Nat BY StoreShape
<1>2. \A i \in DOMAIN st.accounts : st.accounts[i].email \in Names BY StoreShape DEF Names
<1>3. EmailsOf(st) \in [1 .. Len(st.accounts) -> Names] BY <1>1, <1>2 DEF EmailsOf
<1>4. EmailsOf(st) \in Seq(Names) BY <1>1, <1>3
<1> QED BY <1>4, EmailsFound DEF EmailsOf

\* The account at the head of the list.
LEMMA HeadAccount ==
    ASSUME CommandInv, NEW p \in Procs, pc[p] = "next" \/ InUse(p), todo[p] # <<>>
    PROVE  /\ Head(todo[p]) \in Names /\ Known(p, Head(todo[p]))
           /\ mem[p] \in Stores /\ Account(p) \in Accounts /\ Account(p).email \in Emails
           /\ Head(todo[p]) \in Emails => Same(Account(p).email, Head(todo[p]))
           /\ Head(todo[p]) \notin Emails => Account(p).label = Head(todo[p])
           /\ Find(mem[p], Head(todo[p])) \in DOMAIN mem[p].accounts
<1>1. todo[p] \in Seq(Names) /\ mem[p] \in Stores BY DEF CommandInv, AccountTypeOK
<1>2. Len(todo[p]) \in Nat \ {0} /\ DOMAIN todo[p] = 1 .. Len(todo[p])
  BY <1>1, EmptySeq, LenProperties
<1>3. Head(todo[p]) = todo[p][1] BY <1>1
<1>4. 1 \in DOMAIN todo[p] BY <1>2
<1>5. Following(p) BY DEF CommandInv
<1>6. Known(p, todo[p][1]) BY <1>4, <1>5 DEF Following
<1>7. Head(todo[p]) \in Names BY <1>1, HeadTailProperties
<1>8. Find(mem[p], Head(todo[p])) # 0 BY <1>3, <1>6 DEF Known
<1> QED BY <1>1, <1>7, <1>8, FoundAccount DEF Account, Known

\* When the first account is done with, the others are still known.
LEMMA TailKnown ==
    ASSUME CommandInv, NEW p \in Procs, pc[p] = "next" \/ InUse(p), todo[p] # <<>>
    PROVE  /\ Tail(todo[p]) \in Seq(Names)
           /\ \A i \in DOMAIN Tail(todo[p]) : Known(p, Tail(todo[p])[i])
<1>1. todo[p] \in Seq(Names) BY DEF CommandInv, AccountTypeOK
<1>2. Len(todo[p]) \in Nat \ {0} /\ DOMAIN todo[p] = 1 .. Len(todo[p])
  BY <1>1, EmptySeq, LenProperties
<1>3. /\ Tail(todo[p]) \in Seq(Names) /\ Len(Tail(todo[p])) = Len(todo[p]) - 1
      /\ \A i \in 1 .. Len(Tail(todo[p])) : Tail(todo[p])[i] = todo[p][i + 1]
  BY <1>1, HeadTailProperties
<1>4. DOMAIN Tail(todo[p]) = 1 .. Len(todo[p]) - 1 BY <1>3, LenProperties
<1>5. \A i \in DOMAIN todo[p] : Known(p, todo[p][i]) BY DEF CommandInv, Following
<1>6. ASSUME NEW i \in DOMAIN Tail(todo[p]) PROVE Known(p, Tail(todo[p])[i])
  <2>1. i + 1 \in DOMAIN todo[p] /\ Tail(todo[p])[i] = todo[p][i + 1] BY <1>2, <1>3, <1>4
  <2> QED BY <1>5, <2>1
<1> QED BY <1>3, <1>6

-----------------------------------------------------------------------------
(* Each step keeps the types, and what it says of its command *)

Stays(p) == ProcTypes' /\ Alone(p) /\ Following(p)'

LEMMA BeginKeeps ==
    ASSUME CommandInv, NEW p \in Procs, NEW c \in Commands, Sensible(c), Begin(p, c)
    PROVE  Stays(p)
<1> USE DEF CommandInv
<1>1. pc'[p] \in {"verify", "load"} /\ pc'[p] \in Steps /\ (pc'[p] = "verify" => c.op = "add")
  BY DEF AccountTypeOK, Begin, Goto, Steps
<1>2. ProcTypes' BY <1>1 DEF AccountTypeOK, ProcTypes, Begin, Goto, server
<1>3. Alone(p) BY DEF AccountTypeOK, Begin, Goto, Alone
<1>4. cmd'[p] = c BY DEF AccountTypeOK, Begin
<1>5. Following(p)' BY <1>1, <1>4 DEF Following, InUse
<1> QED BY <1>2, <1>3, <1>5 DEF Stays

\* Loading a copy of the vault.
LEMMA LoadKeeps ==
    ASSUME CommandInv, NEW p \in Procs, Load(p)
    PROVE  Stays(p) /\ mem'[p] \in {NoStore, vault} /\ (mem'[p] = vault => Loads(vault))
<1> DEFINE st == IF junk \/ ~Loads(vault) THEN NoStore ELSE vault
           c == cmd[p]
<1>1. AccountTypeOK /\ Following(p) BY DEF CommandInv
<1>2. st \in Stores /\ st \in {NoStore, vault} /\ (st = vault => Loads(vault))
  BY <1>1, NoStoreProps DEF AccountTypeOK
<1>3. c \in Commands BY <1>1 DEF AccountTypeOK
<1>4. owner' = owner /\ Len(owner) \in Nat BY <1>1, LenProperties DEF Load, AccountTypeOK, server
<1>5. ASSUME NEW step \in {"add", "remove", "default", "next", "logout"}, NEW ids \in Seq(Names),
             mem' = [mem EXCEPT ![p] = st], todo' = [todo EXCEPT ![p] = ids],
             Goto(p, step), UNCHANGED <<cmd, client>>,
             step \in {"add", "remove", "default"} => c.op = step,
             step \in {"remove", "default"} => Find(st, c.id) # 0,
             step = "next" => c.op \in {"use", "all"} /\ \A i \in DOMAIN ids : Find(st, ids[i]) # 0,
             step = "logout" => c.op \in {"logout", "end"}
      PROVE  Stays(p) /\ mem'[p] = st
  <2> HIDE DEF st
  <2>1. pc'[p] = step /\ cmd'[p] = c /\ mem'[p] = st /\ todo'[p] = ids
    BY <1>1, <1>5 DEF AccountTypeOK, Goto
  <2>2. ProcTypes' BY <1>1, <1>2, <1>4, <1>5 DEF AccountTypeOK, ProcTypes, Goto, Steps
  <2>3. Alone(p) BY <1>1, <1>5 DEF AccountTypeOK, Goto, Alone
  <2>4. Following(p)'
    <3>1. c.op = "add" => step = "add" BY <1>3, <1>5, CommandKinds
    <3> QED BY <1>5, <2>1, <3>1 DEF Following, InUse, Known
  <2> QED BY <2>1, <2>2, <2>3, <2>4 DEF Stays
<1>6. CASE Exit(p)
  <2>1. ProcTypes BY <1>1, TypeParts
  <2>2. Stays(p) /\ mem'[p] = NoStore BY <1>4, <1>6, <2>1, Exited DEF Stays
  <2> QED BY <2>2, <1>2
<1>7. <<>> \in Seq(Names) BY EmptySeq
<1>8. CASE c.op = "add" /\ mem' = [mem EXCEPT ![p] = st] /\ todo' = [todo EXCEPT ![p] = <<>>]
           /\ Goto(p, "add") /\ UNCHANGED <<cmd, client>>
  BY <1>2, <1>5, <1>7, <1>8
<1>9. CASE c.op \in {"remove", "default"} /\ Find(st, c.id) # 0
           /\ mem' = [mem EXCEPT ![p] = st] /\ todo' = [todo EXCEPT ![p] = <<>>]
           /\ Goto(p, c.op) /\ UNCHANGED <<cmd, client>>
  BY <1>2, <1>5, <1>7, <1>9
<1>10. CASE /\ c.op = "use" /\ Find(st, Resolved(st, c.id)) # 0
            /\ mem' = [mem EXCEPT ![p] = st]
            /\ todo' = [todo EXCEPT ![p] = <<Resolved(st, c.id)>>]
            /\ Goto(p, "next") /\ UNCHANGED <<cmd, client>>
  <2> DEFINE x == Resolved(st, c.id)
  <2>1. c.id \in Ids BY <1>3, <1>10, CommandKinds
  <2>2. x \in Names BY <1>2, <1>10, <2>1, NamedType
  <2>3. x \in Names /\ Find(st, x) # 0 BY <1>10, <2>2
  <2> HIDE DEF x, st
  <2>4. <<x>> \in Seq(Names) /\ \A i \in DOMAIN <<x>> : Find(st, <<x>>[i]) # 0 BY <2>3
  <2> QED BY <1>2, <1>5, <1>10, <2>4 DEF x
<1>11. CASE /\ c.op = "all"
            /\ mem' = [mem EXCEPT ![p] = st] /\ todo' = [todo EXCEPT ![p] = EmailsOf(st)]
            /\ Goto(p, "next") /\ UNCHANGED <<cmd, client>>
  BY <1>2, <1>5, <1>11, EmailsOfProps
<1>12. CASE /\ c.op = "logout" /\ Resolved(st, c.id) # NoEmail
            /\ mem' = [mem EXCEPT ![p] = st]
            /\ todo' = [todo EXCEPT ![p] = <<Resolved(st, c.id)>>]
            /\ Goto(p, "logout") /\ UNCHANGED <<cmd, client>>
  <2> DEFINE x == Resolved(st, c.id)
  <2>1. c.id \in Ids BY <1>3, <1>12, CommandKinds
  <2>2. x \in Names BY <1>2, <1>12, <2>1, NamedType
  <2>3. <<x>> \in Seq(Names) BY <2>2
  <2> HIDE DEF st
  <2> QED BY <1>2, <1>5, <1>12, <2>3
<1>13. CASE /\ c.op = "end"
            /\ mem' = [mem EXCEPT ![p] = st] /\ todo' = [todo EXCEPT ![p] = EmailsOf(st)]
            /\ Goto(p, "logout") /\ UNCHANGED <<cmd, client>>
  BY <1>2, <1>5, <1>13, EmailsOfProps
<1>14. \/ Exit(p)
       \/ c.op = "add" /\ mem' = [mem EXCEPT ![p] = st] /\ todo' = [todo EXCEPT ![p] = <<>>]
          /\ Goto(p, "add") /\ UNCHANGED <<cmd, client>>
       \/ c.op \in {"remove", "default"} /\ Find(st, c.id) # 0
          /\ mem' = [mem EXCEPT ![p] = st] /\ todo' = [todo EXCEPT ![p] = <<>>]
          /\ Goto(p, c.op) /\ UNCHANGED <<cmd, client>>
       \/ /\ c.op = "use" /\ Find(st, Resolved(st, c.id)) # 0
          /\ mem' = [mem EXCEPT ![p] = st]
          /\ todo' = [todo EXCEPT ![p] = <<Resolved(st, c.id)>>]
          /\ Goto(p, "next") /\ UNCHANGED <<cmd, client>>
       \/ /\ c.op = "all"
          /\ mem' = [mem EXCEPT ![p] = st] /\ todo' = [todo EXCEPT ![p] = EmailsOf(st)]
          /\ Goto(p, "next") /\ UNCHANGED <<cmd, client>>
       \/ /\ c.op = "logout" /\ Resolved(st, c.id) # NoEmail
          /\ mem' = [mem EXCEPT ![p] = st]
          /\ todo' = [todo EXCEPT ![p] = <<Resolved(st, c.id)>>]
          /\ Goto(p, "logout") /\ UNCHANGED <<cmd, client>>
       \/ /\ c.op = "end"
          /\ mem' = [mem EXCEPT ![p] = st] /\ todo' = [todo EXCEPT ![p] = EmailsOf(st)]
          /\ Goto(p, "logout") /\ UNCHANGED <<cmd, client>>
  BY Zenon DEF Load, EmailsOf
<1> HIDE DEF st, c
<1> QED BY <1>6, <1>8, <1>9, <1>10, <1>11, <1>12, <1>13, <1>14

\* A step that goes on, or fails to save and ends.
LEMMA GoesOn ==
    ASSUME CommandInv, NEW p \in Procs, NEW s \in Steps, Goto(p, s),
           UNCHANGED <<cmd, mem, todo, client, owner>>,
           cmd[p].op = "add" => s \in {"verify", "load", "add", "remember"},
           s \in {"verify", "add"} => cmd[p].op = "add",
           s \notin {"remove", "default", "logout"},
           s = "forgetall" => cmd[p].op = "remove" /\ Known(p, cmd[p].id),
           s \in {"next", "probe", "forget", "login", "using", "record"} =>
              pc[p] = "next" \/ InUse(p),
           s \in {"probe", "forget", "login", "using", "record"} => todo[p] # <<>>,
           s = "remember" => cmd[p].op = "add" \/ InUse(p)
    PROVE  Stays(p)
<1>1. AccountTypeOK /\ Following(p) BY DEF CommandInv
<1>2. ProcTypes' BY <1>1 DEF AccountTypeOK, ProcTypes, Goto
<1>3. Alone(p) /\ pc'[p] = s BY <1>1 DEF AccountTypeOK, Goto, Alone
<1>4. Following(p)'
  BY <1>1, <1>3 DEF Following, InUse, Known
<1> QED BY <1>2, <1>3, <1>4 DEF Stays

LEMMA EndKeeps ==
    ASSUME CommandInv, NEW p \in Procs, Exit(p), owner' = owner
    PROVE  Stays(p) /\ mem'[p] = NoStore
<1>1. ProcTypes /\ Len(owner) \in Nat
  BY TypeParts, LenProperties DEF CommandInv, AccountTypeOK
<1> QED BY <1>1, Exited DEF Stays

\* What a step makes of the vault and of the copies of it.
StoreStep(p) ==
    /\ mem'[p] = mem[p] \/ mem'[p] = NoStore \/ (mem'[p] = vault /\ Loads(vault))
    /\ \/ vault' = vault
       \/ /\ ~junk
          /\ \/ /\ pc[p] = "add" /\ Opens(mem[p], cmd[p].pass)
                /\ vault' = Added(mem[p], cmd[p].id, cmd[p].label, cmd[p].pass, cmd[p].makeDefault)
             \/ pc[p] = "remove" /\ vault' = Removed(mem[p], cmd[p].id)
             \/ pc[p] = "default" /\ vault' = Defaulted(mem[p], cmd[p].id)
             \/ pc[p] = "record" /\ vault' = mem[p]

LEMMA AddKeeps ==
    ASSUME CommandInv, NEW p \in Procs, Add(p)
    PROVE  Stays(p) /\ StoreStep(p)
<1> DEFINE c == cmd[p]
           new == Added(mem[p], c.id, c.label, c.pass, c.makeDefault)
           on == Goto(p, "remember") /\ UNCHANGED <<cmd, mem, todo, client>>
<1>1. AccountTypeOK /\ Following(p) /\ c.op = "add" BY DEF CommandInv, Add, Following
<1>2. owner' = owner BY DEF Add, server
<1>3. /\ Exit(p) \/ on
      /\ vault' = vault \/ (~junk /\ Opens(mem[p], c.pass) /\ vault' = new)
  BY DEF Add, Saved
<1>4. pc[p] = "add" BY DEF Add
<1> HIDE DEF new
<1>5. Stays(p) /\ mem'[p] \in {mem[p], NoStore}
  <2>1. CASE Exit(p) BY <1>2, <2>1, EndKeeps
  <2>2. CASE on
    <3>1. "remember" \in Steps BY DEF Steps
    <3>2. Stays(p) BY <1>1, <1>2, <2>2, <3>1, GoesOn
    <3>3. mem' = mem BY <2>2
    <3> QED BY <3>2, <3>3
  <2> QED BY <1>3, <2>1, <2>2
<1> QED BY <1>3, <1>4, <1>5 DEF StoreStep, new

LEMMA RemoveKeeps ==
    ASSUME CommandInv, NEW p \in Procs, RemoveAccount(p)
    PROVE  Stays(p) /\ StoreStep(p)
<1> DEFINE on == Goto(p, "forgetall") /\ UNCHANGED <<cmd, mem, todo, client>>
<1>1. pc[p] = "remove" /\ cmd[p].op = "remove" /\ Known(p, cmd[p].id)
  BY DEF CommandInv, RemoveAccount, Following
<1>2. owner' = owner BY DEF RemoveAccount, server
<1>3. /\ Exit(p) \/ on
      /\ vault' = vault \/ (~junk /\ vault' = Removed(mem[p], cmd[p].id))
  BY DEF RemoveAccount, Saved
<1>4. Stays(p) /\ mem'[p] \in {mem[p], NoStore}
  <2>1. CASE Exit(p) BY <1>2, <2>1, EndKeeps
  <2>2. CASE on
    <3>1. "forgetall" \in Steps BY DEF Steps
    <3>2. Stays(p) BY <1>1, <1>2, <2>2, <3>1, GoesOn
    <3>3. mem' = mem BY <2>2
    <3> QED BY <3>2, <3>3
  <2> QED BY <1>3, <2>1, <2>2
<1> QED BY <1>1, <1>3, <1>4 DEF StoreStep

LEMMA ForgetAllKeeps ==
    ASSUME CommandInv, NEW p \in Procs, ForgetAll(p)
    PROVE  Stays(p) /\ StoreStep(p)
<1>1. Exit(p) /\ owner' = owner /\ vault' = vault BY DEF ForgetAll, server
<1>2. Stays(p) /\ mem'[p] = NoStore BY <1>1, EndKeeps
<1> QED BY <1>1, <1>2 DEF StoreStep

LEMMA SetDefaultKeeps ==
    ASSUME CommandInv, NEW p \in Procs, SetDefault(p)
    PROVE  Stays(p) /\ StoreStep(p)
<1>1. pc[p] = "default" BY DEF SetDefault
<1>2. owner' = owner BY DEF SetDefault, server
<1>3. /\ Exit(p)
      /\ vault' = vault \/ (~junk /\ vault' = Defaulted(mem[p], cmd[p].id))
  BY DEF SetDefault, Saved
<1>4. Stays(p) /\ mem'[p] = NoStore BY <1>2, <1>3, EndKeeps
<1> QED BY <1>1, <1>3, <1>4 DEF StoreStep

\* A step of a process that goes on with its list of accounts.
ListStep(p, s, ids, cl) ==
    /\ pc[p] = "next" \/ InUse(p)
    /\ s \in {"next", "probe", "forget", "login", "remember", "using", "record"}
    /\ ids = todo[p] \/ (ids = Tail(todo[p]) /\ todo[p] # <<>>)
    /\ s # "next" => todo[p] # <<>> /\ ids = todo[p]
    /\ cl \in [session : 0 .. Len(owner'), sid : 0 .. Len(owner')]
    /\ Len(owner) \in Nat /\ Len(owner') \in Nat /\ Len(owner) <= Len(owner')
    /\ pc' = [pc EXCEPT ![p] = s] /\ todo' = [todo EXCEPT ![p] = ids]
    /\ client' = [client EXCEPT ![p] = cl] /\ cmd' = cmd /\ mem' = mem

LEMMA ListKeeps ==
    ASSUME CommandInv, NEW p \in Procs, NEW s, NEW ids, NEW cl, ListStep(p, s, ids, cl)
    PROVE  /\ Stays(p) /\ client'[p] = cl /\ pc'[p] = s
           /\ vault' = vault \/ (~junk /\ pc[p] = "record" /\ vault' = mem[p]) => StoreStep(p)
<1> USE DEF ListStep
<1>1. AccountTypeOK /\ Following(p) BY DEF CommandInv
<1>2. ids \in Seq(Names) /\ \A i \in DOMAIN ids : Known(p, ids[i])
  <2>1. CASE ids = todo[p] BY <1>1, <2>1 DEF Following, AccountTypeOK
  <2>2. CASE ids = Tail(todo[p]) /\ todo[p] # <<>> BY <2>2, TailKnown
  <2> QED BY <2>1, <2>2
<1>3. pc'[p] = s /\ todo'[p] = ids /\ client'[p] = cl BY <1>1 DEF AccountTypeOK
<1>4. ProcTypes'
  <2>1. s \in Steps BY DEF Steps
  <2>2. pc' \in [Procs -> Steps] /\ cmd' \in [Procs -> Commands]
        /\ mem' \in [Procs -> Stores] /\ todo' \in [Procs -> Seq(Names)]
    BY <1>1, <1>2, <2>1 DEF AccountTypeOK
  <2>3. \A q \in Procs : client[q] \in [session : 0 .. Len(owner), sid : 0 .. Len(owner)]
    BY <1>1 DEF AccountTypeOK
  <2>4. \A q \in Procs : client[q] \in [session : 0 .. Len(owner'), sid : 0 .. Len(owner')]
    BY <2>3
  <2>5. client' \in [Procs -> [session : 0 .. Len(owner'), sid : 0 .. Len(owner')]]
    BY <1>1, <2>4 DEF AccountTypeOK
  <2> QED BY <2>2, <2>5 DEF ProcTypes
<1>5. Alone(p) BY <1>1 DEF AccountTypeOK, Alone
<1>6. Following(p)'
  <2>1. cmd[p].op \in {"use", "all"} BY <1>1 DEF Following
  <2>2. s # "next" => ids # <<>> OBVIOUS
  <2>3. \A x : Known(p, x)' <=> Known(p, x) BY DEF Known
  <2> QED BY <1>2, <1>3, <2>1, <2>2, <2>3 DEF Following, InUse
<1> QED BY <1>3, <1>4, <1>5, <1>6 DEF Stays, StoreStep

LEMMA OwnerType ==
    ASSUME CommandInv
    PROVE  /\ Len(owner) \in Nat /\ owner \in Seq(Emails)
           /\ \A p \in Procs : client[p] \in [session : 0 .. Len(owner), sid : 0 .. Len(owner)]
           /\ \A k \in Keys : cache[k] \in [sid : 0 .. Len(owner), pass : Passphrases \cup {Dead}]
           /\ NoClient \in [session : 0 .. Len(owner), sid : 0 .. Len(owner)]
<1>1. owner \in Seq(Emails) BY DEF CommandInv, AccountTypeOK
<1>2. Len(owner) \in Nat BY <1>1, LenProperties
<1> QED BY <1>1, <1>2 DEF CommandInv, AccountTypeOK, NoClient

\* What a process has that does not change.
LEMMA Unmoved ==
    ASSUME CommandInv, NEW p \in Procs
    PROVE  /\ pc = [pc EXCEPT ![p] = pc[p]] /\ todo = [todo EXCEPT ![p] = todo[p]]
           /\ client = [client EXCEPT ![p] = client[p]]
BY DEF CommandInv, AccountTypeOK

\* Where the server hands out nothing, the sessions that a client may have stay the same.
LEMMA SameOwner ==
    ASSUME CommandInv, owner' = owner
    PROVE  /\ Len(owner) \in Nat /\ Len(owner') \in Nat /\ Len(owner) <= Len(owner')
           /\ NoClient \in [session : 0 .. Len(owner'), sid : 0 .. Len(owner')]
           /\ \A p \in Procs : client[p] \in [session : 0 .. Len(owner'), sid : 0 .. Len(owner')]
BY OwnerType

LEMMA NextAccountKeeps ==
    ASSUME CommandInv, NEW p \in Procs, NextAccount(p)
    PROVE  Stays(p) /\ StoreStep(p)
<1>1. pc[p] = "next" /\ owner' = owner /\ vault' = vault BY DEF NextAccount, server, files
<1>2. /\ Len(owner) \in Nat
      /\ client[p] \in [session : 0 .. Len(owner), sid : 0 .. Len(owner)]
      /\ NoClient \in [session : 0 .. Len(owner), sid : 0 .. Len(owner)]
  BY OwnerType
<1>3. CASE Exit(p)
  <2>1. Stays(p) /\ mem'[p] = NoStore BY <1>1, <1>3, EndKeeps
  <2> QED BY <1>1, <2>1 DEF StoreStep
<1>4. CASE todo[p] # <<>> /\ todo' = [todo EXCEPT ![p] = Tail(@)]
           /\ UNCHANGED <<pc, cmd, mem, client>>
  <2>1. pc' = [pc EXCEPT ![p] = "next"] /\ client' = [client EXCEPT ![p] = client[p]]
        /\ todo' = [todo EXCEPT ![p] = Tail(todo[p])]
    BY <1>1, <1>4, Unmoved
  <2>2. ListStep(p, "next", Tail(todo[p]), client[p]) 
    BY <1>1, <1>4, <2>1, SameOwner, Zenon DEF ListStep
  <2> QED BY <1>1, <2>2, ListKeeps
<1>5. ASSUME NEW s \in {"probe", "login"}, todo[p] # <<>>, Goto(p, s),
             NEW cl \in [session : 0 .. Len(owner), sid : 0 .. Len(owner)],
             client' = [client EXCEPT ![p] = cl], UNCHANGED <<cmd, mem, todo>>
      PROVE  Stays(p) /\ StoreStep(p)
  <2>1. pc' = [pc EXCEPT ![p] = s] /\ todo' = [todo EXCEPT ![p] = todo[p]]
    BY <1>5, Unmoved DEF Goto
  <2>2. ListStep(p, s, todo[p], cl)
    <3>1. cl \in [session : 0 .. Len(owner'), sid : 0 .. Len(owner')] BY <1>1, <1>5
    <3>2. s \in {"next", "probe", "forget", "login", "remember", "using", "record"} BY <1>5
    <3>3. s # "next" BY <1>5
    <3> QED BY <1>1, <1>5, <2>1, <3>1, <3>2, SameOwner, Zenon DEF ListStep
  <2> QED BY <1>1, <2>2, ListKeeps
<1>6. CASE todo[p] # <<>> /\ Account(p).cred = cmd[p].pass
  <2> DEFINE f == cache[SessionKey(p)]
             opens == f.sid # 0 /\ f.pass = cmd[p].pass
             cl == IF opens THEN [session |-> f.sid, sid |-> f.sid] ELSE NoClient
             s == IF opens THEN "probe" ELSE "login"
  <2>1. SessionKey(p) \in Keys
    <3>1. Head(todo[p]) \in Names BY <1>1, <1>6, HeadAccount
    <3> QED BY <3>1 DEF SessionKey, KeyOf, Keys, Names
  <2>2. f.sid \in 0 .. Len(owner) BY <2>1, OwnerType
  <2>3. cl \in [session : 0 .. Len(owner), sid : 0 .. Len(owner)] BY <1>2, <2>2
  <2>4. s \in {"probe", "login"} OBVIOUS
  <2>5. CASE Goto(p, s) /\ client' = [client EXCEPT ![p] = cl] /\ UNCHANGED <<cmd, mem, todo>>
    <3> HIDE DEF cl, s
    <3> QED BY <1>5, <1>6, <2>3, <2>4, <2>5
  <2>6. \/ Goto(p, s) /\ client' = [client EXCEPT ![p] = cl] /\ UNCHANGED <<cmd, mem, todo>>
        \/ Exit(p) /\ todo[p] = <<>>
    BY <1>6, Zenon DEF NextAccount
  <2> QED BY <1>6, <2>5, <2>6
<1>7. \/ todo[p] = <<>> /\ Exit(p)
      \/ todo[p] # <<>> /\ todo' = [todo EXCEPT ![p] = Tail(@)] /\ UNCHANGED <<pc, cmd, mem, client>>
      \/ todo[p] # <<>> /\ Account(p).cred = cmd[p].pass
  BY DEF NextAccount
<1> QED BY <1>3, <1>4, <1>6, <1>7

LEMMA ProbeKeeps ==
    ASSUME CommandInv, NEW p \in Procs, Probe(p)
    PROVE  /\ Stays(p) /\ StoreStep(p) /\ pc'[p] \in {"using", "forget", "login"}
           /\ client'[p] = IF pc'[p] = "using" THEN client[p] ELSE NoClient
<1>1. pc[p] = "probe" /\ owner' = owner /\ vault' = vault /\ UNCHANGED <<cmd, mem, todo>>
  BY DEF Probe, server, files
<1>2. todo[p] # <<>> /\ InUse(p) BY <1>1 DEF CommandInv, Following, InUse
<1>3. todo' = [todo EXCEPT ![p] = todo[p]] BY <1>1, Unmoved
<1>4. \/ Goto(p, "using") /\ UNCHANGED client
      \/ \E s \in {"forget", "login"} : Goto(p, s) /\ client' = [client EXCEPT ![p] = NoClient]
  BY DEF Probe, WithoutSession
<1>5. CASE Goto(p, "using") /\ UNCHANGED client
  <2>1. pc' = [pc EXCEPT ![p] = "using"] /\ client' = [client EXCEPT ![p] = client[p]]
    BY <1>5, Unmoved DEF Goto
  <2>2. ListStep(p, "using", todo[p], client[p])
    BY <1>1, <1>2, <1>3, <2>1, SameOwner, Zenon DEF ListStep
  <2> QED BY <1>1, <2>2, ListKeeps
<1>6. ASSUME NEW s \in {"forget", "login"}, Goto(p, s), client' = [client EXCEPT ![p] = NoClient]
      PROVE  Stays(p) /\ StoreStep(p) /\ pc'[p] = s /\ client'[p] = NoClient
  <2>1. pc' = [pc EXCEPT ![p] = s] BY <1>6 DEF Goto
  <2>2. ListStep(p, s, todo[p], NoClient)
    BY <1>1, <1>2, <1>3, <1>6, <2>1, SameOwner, Zenon DEF ListStep
  <2> QED BY <1>1, <2>2, ListKeeps
<1> QED BY <1>4, <1>5, <1>6

LEMMA ForgetKeeps ==
    ASSUME CommandInv, NEW p \in Procs, Forget(p)
    PROVE  Stays(p) /\ StoreStep(p) /\ pc'[p] = "login" /\ client'[p] = client[p]
<1>1. pc[p] = "forget" /\ owner' = owner /\ vault' = vault /\ UNCHANGED <<cmd, mem, todo, client>>
  BY DEF Forget, server
<1>2. todo[p] # <<>> /\ InUse(p) BY <1>1 DEF CommandInv, Following, InUse
<1>3. /\ pc' = [pc EXCEPT ![p] = "login"] /\ todo' = [todo EXCEPT ![p] = todo[p]]
      /\ client' = [client EXCEPT ![p] = client[p]]
  BY <1>1, Unmoved DEF Forget, Goto
<1>4. ListStep(p, "login", todo[p], client[p])
  BY <1>1, <1>2, <1>3, SameOwner, Zenon DEF ListStep
<1> QED BY <1>1, <1>4, ListKeeps

LEMMA UseKeeps ==
    ASSUME CommandInv, NEW p \in Procs, Use(p)
    PROVE  /\ Stays(p) /\ StoreStep(p)
           /\ pc'[p] \in {"record", "next"} /\ client'[p] = NoClient
<1>1. pc[p] = "using" /\ owner' = owner /\ vault' = vault /\ UNCHANGED <<cmd, mem>>
      /\ client' = [client EXCEPT ![p] = NoClient]
  BY DEF Use, server, files
<1>2. todo[p] # <<>> /\ InUse(p) BY <1>1 DEF CommandInv, Following, InUse
<1>3. CASE Goto(p, "record") /\ UNCHANGED todo
  <2>1. pc' = [pc EXCEPT ![p] = "record"] /\ todo' = [todo EXCEPT ![p] = todo[p]]
    BY <1>3, Unmoved DEF Goto
  <2>2. ListStep(p, "record", todo[p], NoClient)
    BY <1>1, <1>2, <2>1, SameOwner, Zenon DEF ListStep
  <2> QED BY <1>1, <2>2, ListKeeps
<1>4. CASE Goto(p, "next") /\ todo' = [todo EXCEPT ![p] = Tail(@)]
  <2>1. pc' = [pc EXCEPT ![p] = "next"] /\ todo' = [todo EXCEPT ![p] = Tail(todo[p])]
    BY <1>4 DEF Goto
  <2>2. ListStep(p, "next", Tail(todo[p]), NoClient)
    BY <1>1, <1>2, <2>1, SameOwner, Zenon DEF ListStep
  <2> QED BY <1>1, <2>2, ListKeeps
<1> QED BY <1>3, <1>4 DEF Use

LEMMA RecordKeeps ==
    ASSUME CommandInv, NEW p \in Procs, Record(p)
    PROVE  /\ Stays(p) /\ StoreStep(p)
           /\ Exit(p) \/ (pc'[p] = "next" /\ client'[p] = client[p])
<1>1. pc[p] = "record" /\ owner' = owner BY DEF Record, server
<1>2. todo[p] # <<>> /\ InUse(p) BY <1>1 DEF CommandInv, Following, InUse
<1>3. CASE Exit(p) /\ vault' = vault
  <2>1. Stays(p) /\ mem'[p] = NoStore BY <1>1, <1>3, EndKeeps
  <2> QED BY <1>3, <2>1 DEF StoreStep
<1>4. CASE ~junk /\ vault' = mem[p] /\ Goto(p, "next") /\ todo' = [todo EXCEPT ![p] = Tail(@)]
           /\ UNCHANGED <<cmd, mem, client>>
  <2>1. /\ pc' = [pc EXCEPT ![p] = "next"] /\ todo' = [todo EXCEPT ![p] = Tail(todo[p])]
        /\ client' = [client EXCEPT ![p] = client[p]]
    BY <1>4, Unmoved DEF Goto
  <2>2. ListStep(p, "next", Tail(todo[p]), client[p])
    BY <1>1, <1>2, <1>4, <2>1, SameOwner, Zenon DEF ListStep
  <2> QED BY <1>1, <1>4, <2>2, ListKeeps
<1> QED BY <1>3, <1>4 DEF Record, Saved

\* login: one session more, and it is of the account whose password was sent.
LEMMA LoggedInProps ==
    ASSUME CommandInv, NEW p \in Procs, LoggedIn(p), LoginEmail(p) \in Emails
    PROVE  LET n == Len(owner) + 1
           IN  /\ owner' \in Seq(Emails) /\ Len(owner') = n /\ Len(owner) \in Nat
               /\ \A s \in 1 .. Len(owner) : owner'[s] = owner[s]
               /\ owner'[n] = Lower[LoginEmail(p)]
               /\ live' \in SUBSET (1 .. Len(owner'))
               /\ client' = [client EXCEPT ![p] = [session |-> n, sid |-> n]]
               /\ [session |-> n, sid |-> n] \in [session : 0 .. Len(owner'), sid : 0 .. Len(owner')]
<1> DEFINE n == Len(owner) + 1
<1>1. owner \in Seq(Emails) /\ Len(owner) \in Nat BY OwnerType
<1>2. Lower[LoginEmail(p)] \in Emails BY VaultAssumption
<1>3. /\ owner' = Append(owner, Lower[LoginEmail(p)]) /\ live' = live \cup {n}
      /\ client' = [client EXCEPT ![p] = [session |-> n, sid |-> n]]
  BY DEF LoggedIn
<1>4. /\ owner' \in Seq(Emails) /\ Len(owner') = n
      /\ \A s \in 1 .. Len(owner) : owner'[s] = owner[s]
      /\ owner'[n] = Lower[LoginEmail(p)]
  BY <1>1, <1>2, <1>3, AppendProperties
<1>5. live \in SUBSET (1 .. Len(owner)) BY DEF CommandInv, AccountTypeOK
<1>6. live' \in SUBSET (1 .. Len(owner')) BY <1>1, <1>3, <1>4, <1>5
<1>7. [session |-> n, sid |-> n] \in [session : 0 .. Len(owner'), sid : 0 .. Len(owner')]
  BY <1>1, <1>4
<1> QED BY <1>1, <1>3, <1>4, <1>6, <1>7

LEMMA LoginEmailType ==
    ASSUME CommandInv, NEW p \in Procs, cmd[p].op = "add" \/ InUse(p)
    PROVE  LoginEmail(p) \in Emails
<1>1. cmd[p] \in Commands BY DEF CommandInv, AccountTypeOK
<1>2. CASE cmd[p].op = "add" BY <1>1, <1>2, CommandKinds DEF LoginEmail
<1>3. CASE cmd[p].op # "add"
  <2>1. InUse(p) BY <1>3
  <2>2. todo[p] # <<>> BY <2>1 DEF CommandInv, Following
  <2>3. Account(p).email \in Emails BY <2>1, <2>2, HeadAccount
  <2> QED BY <1>3, <2>3 DEF LoginEmail
<1> QED BY <1>2, <1>3

LEMMA LoginKeeps ==
    ASSUME CommandInv, NEW p \in Procs, Login(p)
    PROVE  /\ Stays(p) /\ StoreStep(p)
           /\ \/ LoggedIn(p) /\ LoginEmail(p) \in Emails /\ UNCHANGED todo /\ pc'[p] = "remember"
              \/ UNCHANGED <<client, server>> /\ pc'[p] = "next"
<1>1. pc[p] = "login" /\ vault' = vault /\ UNCHANGED <<cmd, mem>> BY DEF Login, files
<1>2. todo[p] # <<>> /\ InUse(p) BY <1>1 DEF CommandInv, Following, InUse
<1>3. CASE LoggedIn(p) /\ Goto(p, "remember") /\ UNCHANGED todo
  <2> DEFINE n == Len(owner) + 1
  <2>1. LoginEmail(p) \in Emails BY <1>2, LoginEmailType
  <2>2. /\ Len(owner') = n /\ Len(owner) \in Nat
        /\ client' = [client EXCEPT ![p] = [session |-> n, sid |-> n]]
        /\ [session |-> n, sid |-> n] \in [session : 0 .. Len(owner'), sid : 0 .. Len(owner')]
    BY <1>3, <2>1, LoggedInProps
  <2>3. pc' = [pc EXCEPT ![p] = "remember"] /\ todo' = [todo EXCEPT ![p] = todo[p]]
    BY <1>3, Unmoved DEF Goto
  <2>4. Len(owner') \in Nat /\ Len(owner) <= Len(owner') BY <2>2
  <2> HIDE DEF n
  <2>5. ListStep(p, "remember", todo[p], [session |-> n, sid |-> n])
    BY <1>1, <1>2, <2>2, <2>3, <2>4, Zenon DEF ListStep
  <2>6. Stays(p) /\ StoreStep(p) /\ pc'[p] = "remember" BY <1>1, <2>5, ListKeeps
  <2> QED BY <1>3, <2>1, <2>6
<1>4. CASE todo' = [todo EXCEPT ![p] = Tail(@)] /\ Goto(p, "next") /\ UNCHANGED <<client, server>>
  <2>1. owner' = owner BY <1>4 DEF server
  <2>2. /\ pc' = [pc EXCEPT ![p] = "next"] /\ todo' = [todo EXCEPT ![p] = Tail(todo[p])]
        /\ client' = [client EXCEPT ![p] = client[p]]
    BY <1>4, Unmoved DEF Goto
  <2>3. ListStep(p, "next", Tail(todo[p]), client[p])
    BY <1>1, <1>2, <2>1, <2>2, SameOwner, Zenon DEF ListStep
  <2>4. Stays(p) /\ StoreStep(p) /\ pc'[p] = "next" BY <1>1, <2>3, ListKeeps
  <2> QED BY <1>4, <2>4
<1> QED BY <1>3, <1>4 DEF Login

LEMMA VerifyKeeps ==
    ASSUME CommandInv, NEW p \in Procs, Verify(p)
    PROVE  /\ Stays(p) /\ StoreStep(p) /\ cmd[p].op = "add" /\ pc[p] = "verify"
           /\ \/ /\ LoggedIn(p) /\ LoginEmail(p) \in Emails
                 /\ pc'[p] = "load" /\ UNCHANGED <<cmd, mem, todo>>
              \/ pc'[p] = "load" /\ UNCHANGED <<cmd, mem, todo, client, server>>
              \/ Exit(p) /\ UNCHANGED server
<1>1. pc[p] = "verify" /\ vault' = vault BY DEF Verify, files
<1>2. AccountTypeOK /\ cmd[p].op = "add" BY <1>1 DEF CommandInv, Following
<1>3. LoginEmail(p) \in Emails BY <1>2, LoginEmailType
<1>4. CASE Exit(p) /\ UNCHANGED server
  <2>1. owner' = owner BY <1>4 DEF server
  <2>2. Stays(p) /\ mem'[p] = NoStore BY <1>4, <2>1, EndKeeps
  <2> QED BY <1>1, <1>2, <1>4, <2>2 DEF StoreStep
<1>5. CASE Goto(p, "load") /\ UNCHANGED <<cmd, mem, todo, client, server>>
  <2>1. owner' = owner /\ "load" \in Steps BY <1>5 DEF server, Steps
  <2>2. Stays(p) BY <1>2, <1>5, <2>1, GoesOn
  <2>3. mem' = mem /\ pc'[p] = "load" BY <1>2, <1>5 DEF Goto, AccountTypeOK
  <2> QED BY <1>1, <1>2, <1>5, <2>2, <2>3 DEF StoreStep
<1>6. CASE LoggedIn(p) /\ Goto(p, "load") /\ UNCHANGED <<cmd, mem, todo>>
  <2> DEFINE n == Len(owner) + 1
             cl == [session |-> n, sid |-> n]
  <2>1. /\ Len(owner') = n /\ Len(owner) \in Nat /\ client' = [client EXCEPT ![p] = cl]
        /\ cl \in [session : 0 .. Len(owner'), sid : 0 .. Len(owner')]
    BY <1>3, <1>6, LoggedInProps
  <2>2. \A q \in Procs : client[q] \in [session : 0 .. Len(owner), sid : 0 .. Len(owner)]
    BY OwnerType
  <2>3. \A q \in Procs : client[q] \in [session : 0 .. Len(owner'), sid : 0 .. Len(owner')]
    BY <2>1, <2>2
  <2> HIDE DEF cl
  <2>4. client' \in [Procs -> [session : 0 .. Len(owner'), sid : 0 .. Len(owner')]]
    BY <1>2, <2>1, <2>3 DEF AccountTypeOK
  <2>5. "load" \in Steps BY DEF Steps
  <2>6. ProcTypes' BY <1>2, <1>6, <2>4, <2>5 DEF AccountTypeOK, ProcTypes, Goto
  <2>7. Alone(p) BY <1>2, <1>6, <2>1 DEF AccountTypeOK, Goto, Alone
  <2>8. pc'[p] = "load" /\ mem' = mem BY <1>2, <1>6 DEF AccountTypeOK, Goto
  <2>9. Following(p)' BY <1>2, <1>6, <2>8 DEF Following, InUse
  <2> QED BY <1>1, <1>2, <1>3, <1>6, <2>6, <2>7, <2>8, <2>9 DEF Stays, StoreStep
<1> QED BY <1>4, <1>5, <1>6 DEF Verify

LEMMA RememberKeeps ==
    ASSUME CommandInv, NEW p \in Procs, Remember(p)
    PROVE  /\ Stays(p) /\ StoreStep(p)
           /\ IF cmd[p].op = "add" THEN Exit(p)
              ELSE pc'[p] = "using" /\ UNCHANGED <<cmd, mem, todo, client>>
<1>1. pc[p] = "remember" /\ vault' = vault /\ owner' = owner BY DEF Remember, server
<1>2. CASE cmd[p].op = "add"
  <2>1. Exit(p) BY <1>2 DEF Remember
  <2>2. Stays(p) /\ mem'[p] = NoStore BY <1>1, <2>1, EndKeeps
  <2> QED BY <1>1, <1>2, <2>1, <2>2 DEF StoreStep
<1>3. CASE cmd[p].op # "add"
  <2>1. Goto(p, "using") /\ UNCHANGED <<cmd, mem, todo, client>> BY <1>3 DEF Remember
  <2>2. InUse(p) BY <1>1, <1>3 DEF InUse
  <2>3. todo[p] # <<>> BY <2>2 DEF CommandInv, Following
  <2>4. /\ pc' = [pc EXCEPT ![p] = "using"] /\ todo' = [todo EXCEPT ![p] = todo[p]]
        /\ client' = [client EXCEPT ![p] = client[p]]
    BY <2>1, Unmoved DEF Goto
  <2>5. ListStep(p, "using", todo[p], client[p])
    BY <1>1, <2>1, <2>2, <2>3, <2>4, SameOwner, Zenon DEF ListStep
  <2>6. Stays(p) /\ StoreStep(p) /\ pc'[p] = "using" BY <1>1, <2>5, ListKeeps
  <2> QED BY <1>3, <2>1, <2>6
<1> QED BY <1>2, <1>3

LEMMA LogoutKeeps ==
    ASSUME CommandInv, NEW p \in Procs, Logout(p)
    PROVE  /\ Stays(p) /\ StoreStep(p)
           /\ Exit(p) \/ (pc' = pc /\ cmd' = cmd /\ mem' = mem /\ client' = client)
<1>1. pc[p] = "logout" /\ vault' = vault /\ owner' = owner BY DEF Logout
<1>2. AccountTypeOK /\ Following(p) BY DEF CommandInv
<1>3. CASE Exit(p)
  <2>1. Stays(p) /\ mem'[p] = NoStore BY <1>1, <1>3, EndKeeps
  <2> QED BY <1>1, <1>3, <2>1 DEF StoreStep
<1>4. CASE todo[p] # <<>> /\ todo' = [todo EXCEPT ![p] = Tail(@)] /\ UNCHANGED <<pc, cmd, mem, client>>
  <2>1. Tail(todo[p]) \in Seq(Names)
    <3>1. todo[p] \in Seq(Names) BY <1>2 DEF AccountTypeOK
    <3> QED BY <1>4, <3>1, HeadTailProperties
  <2>2. ProcTypes' BY <1>1, <1>2, <1>4, <2>1 DEF AccountTypeOK, ProcTypes
  <2>3. Alone(p) BY <1>2, <1>4 DEF AccountTypeOK, Alone
  <2>4. Following(p)' BY <1>1, <1>2, <1>4 DEF Following, InUse
  <2>5. mem' = mem BY <1>4
  <2> QED BY <1>1, <1>4, <2>2, <2>3, <2>4, <2>5 DEF Stays, StoreStep
<1> QED BY <1>3, <1>4 DEF Logout

-----------------------------------------------------------------------------
(* What a step makes of the sessions *)

RememberKey(p) == IF cmd[p].op = "add" THEN KeyOf(cmd[p].id) ELSE SessionKey(p)

SessionStep(p) ==
    /\ \/ owner' = owner /\ live' \subseteq live
       \/ LoggedIn(p) /\ LoginEmail(p) \in Emails
    /\ cache' = [k \in Keys |-> cache'[k]]
    /\ \A k \in Keys :
         \/ cache'[k] = cache[k] \/ cache'[k] = NoSession
         \/ /\ pc[p] = "remember" /\ k = RememberKey(p)
            /\ cache'[k] = [sid |-> client[p].session, pass |-> cmd[p].pass]

LEMMA StepParts ==
    ASSUME CommandInv, NEW p \in Procs, ProcStep(p)
    PROVE  Stays(p) /\ StoreStep(p) /\ SessionStep(p)
<1>1. cache = [k \in Keys |-> cache[k]] BY DEF CommandInv, AccountTypeOK
<1>2. cache' = cache /\ owner' = owner /\ live' \subseteq live => SessionStep(p)
  BY <1>1 DEF SessionStep
<1>3. CASE Load(p)
  <2>1. Stays(p) /\ StoreStep(p)
    <3>1. vault' = vault BY <1>3 DEF Load, files
    <3> QED BY <1>3, <3>1, LoadKeeps DEF StoreStep
  <2>2. cache' = cache /\ owner' = owner /\ live' = live BY <1>3 DEF Load, files, server
  <2> QED BY <1>2, <2>1, <2>2
<1>4. CASE Add(p)
  <2>1. cache' = cache /\ owner' = owner /\ live' = live BY <1>4 DEF Add, server
  <2> QED BY <1>2, <1>4, <2>1, AddKeeps
<1>5. CASE RemoveAccount(p)
  <2>1. cache' = cache /\ owner' = owner /\ live' = live BY <1>5 DEF RemoveAccount, server
  <2> QED BY <1>2, <1>5, <2>1, RemoveKeeps
<1>6. CASE ForgetAll(p)
  <2>1. owner' = owner /\ live' = live /\ cache' = [k \in Keys |-> cache'[k]]
        /\ \A k \in Keys : cache'[k] = cache[k] \/ cache'[k] = NoSession
    BY <1>6 DEF ForgetAll, server
  <2> QED BY <1>6, <2>1, ForgetAllKeeps DEF SessionStep
<1>7. CASE SetDefault(p)
  <2>1. cache' = cache /\ owner' = owner /\ live' = live BY <1>7 DEF SetDefault, server
  <2> QED BY <1>2, <1>7, <2>1, SetDefaultKeeps
<1>8. CASE NextAccount(p)
  <2>1. cache' = cache /\ owner' = owner /\ live' = live BY <1>8 DEF NextAccount, files, server
  <2> QED BY <1>2, <1>8, <2>1, NextAccountKeeps
<1>9. CASE Probe(p)
  <2>1. cache' = cache /\ owner' = owner /\ live' = live BY <1>9 DEF Probe, files, server
  <2> QED BY <1>2, <1>9, <2>1, ProbeKeeps
<1>10. CASE Forget(p)
  <2>1. owner' = owner /\ live' = live /\ cache' = [k \in Keys |-> cache'[k]]
        /\ \A k \in Keys : cache'[k] = cache[k] \/ cache'[k] = NoSession
    BY <1>1, <1>10 DEF Forget, server
  <2> QED BY <1>10, <2>1, ForgetKeeps DEF SessionStep
<1>11. CASE Verify(p)
  <2>1. Stays(p) /\ StoreStep(p) /\ cache' = cache BY <1>11, VerifyKeeps DEF Verify, files
  <2>2. CASE LoggedIn(p) /\ LoginEmail(p) \in Emails BY <1>1, <2>1, <2>2 DEF SessionStep
  <2>3. CASE UNCHANGED server
    <3>1. owner' = owner /\ live' = live BY <2>3 DEF server
    <3> QED BY <1>2, <2>1, <3>1
  <2> QED BY <1>11, <2>2, <2>3, VerifyKeeps
<1>12. CASE Login(p)
  <2>1. Stays(p) /\ StoreStep(p) /\ cache' = cache BY <1>12, LoginKeeps DEF Login, files
  <2>2. CASE LoggedIn(p) /\ LoginEmail(p) \in Emails BY <1>1, <2>1, <2>2 DEF SessionStep
  <2>3. CASE UNCHANGED server
    <3>1. owner' = owner /\ live' = live BY <2>3 DEF server
    <3> QED BY <1>2, <2>1, <3>1
  <2> QED BY <1>12, <2>2, <2>3, LoginKeeps
<1>13. CASE Remember(p)
  <2> DEFINE new == [sid |-> client[p].session, pass |-> cmd[p].pass]
  <2>1. /\ owner' = owner /\ live' = live /\ pc[p] = "remember"
        /\ cache' = cache \/ cache' = [cache EXCEPT ![RememberKey(p)] = new]
    BY <1>13 DEF Remember, server, RememberKey
  <2> HIDE DEF new
  <2>2. cache' = [k \in Keys |-> cache'[k]]
        /\ \A k \in Keys : cache'[k] = cache[k] \/ (k = RememberKey(p) /\ cache'[k] = new)
    BY <1>1, <2>1
  <2> QED BY <1>13, <2>1, <2>2, RememberKeeps DEF SessionStep, new
<1>14. CASE Use(p)
  <2>1. cache' = cache /\ owner' = owner /\ live' = live BY <1>14 DEF Use, files, server
  <2> QED BY <1>2, <1>14, <2>1, UseKeeps
<1>15. CASE Record(p)
  <2>1. cache' = cache /\ owner' = owner /\ live' = live BY <1>15 DEF Record, server
  <2> QED BY <1>2, <1>15, <2>1, RecordKeeps
<1>16. CASE Logout(p)
  <2>1. owner' = owner /\ live' \subseteq live
        /\ (cache' = cache \/ cache' = [cache EXCEPT ![SessionKey(p)] = NoSession])
    BY <1>16 DEF Logout
  <2>2. cache' = [k \in Keys |-> cache'[k]]
        /\ \A k \in Keys : cache'[k] = cache[k] \/ cache'[k] = NoSession
    BY <1>1, <2>1
  <2> QED BY <1>16, <2>1, <2>2, LogoutKeeps DEF SessionStep
<1> QED BY <1>3, <1>4, <1>5, <1>6, <1>7, <1>8, <1>9, <1>10, <1>11, <1>12, <1>13, <1>14,
           <1>15, <1>16 DEF ProcStep

\* What is known of the command and the copy when the vault is written.
LEMMA Writing ==
    ASSUME CommandInv, NEW p \in Procs
    PROVE  /\ mem[p] \in Stores /\ cmd[p] \in Commands
           /\ pc[p] = "add" => /\ cmd[p].op = "add"
                               /\ cmd[p].id \in Emails /\ cmd[p].label \in Labels \cup {NoLabel}
                               /\ cmd[p].pass \in Passphrases /\ cmd[p].makeDefault \in BOOLEAN
           /\ pc[p] \in {"remove", "default"} => Find(mem[p], cmd[p].id) # 0
<1>1. mem[p] \in Stores /\ cmd[p] \in Commands /\ Following(p) BY DEF CommandInv, AccountTypeOK
<1>2. pc[p] = "add" => cmd[p].op = "add" BY <1>1 DEF Following
<1>3. pc[p] \in {"remove", "default"} => Find(mem[p], cmd[p].id) # 0 BY <1>1 DEF Following, Known
<1> QED BY <1>1, <1>2, <1>3, CommandKinds

LEMMA FilesKept ==
    ASSUME CommandInv, NEW p \in Procs, StoreStep(p), SessionStep(p), junk' \in BOOLEAN
    PROVE  FileTypes'
<1>1. AccountTypeOK BY DEF CommandInv
<1>2. vault' \in Stores
  <2>1. pc[p] = "add" => Added(mem[p], cmd[p].id, cmd[p].label, cmd[p].pass, cmd[p].makeDefault) \in Stores
    BY Writing, AddedProps
  <2>2. pc[p] = "remove" => Removed(mem[p], cmd[p].id) \in Stores BY Writing, RemovedProps
  <2>3. pc[p] = "default" => Defaulted(mem[p], cmd[p].id) \in Stores BY Writing, DefaultedProps
  <2>4. vault \in Stores /\ mem[p] \in Stores BY <1>1, Writing DEF AccountTypeOK
  <2> QED BY <2>1, <2>2, <2>3, <2>4 DEF StoreStep
<1>3. /\ owner' \in Seq(Emails) /\ live' \in SUBSET (1 .. Len(owner'))
      /\ Len(owner) \in Nat /\ Len(owner') \in Nat /\ Len(owner) <= Len(owner')
  <2>1. CASE owner' = owner /\ live' \subseteq live BY <1>1, <2>1, OwnerType DEF AccountTypeOK
  <2>2. CASE LoggedIn(p) /\ LoginEmail(p) \in Emails
    <3>1. /\ owner' \in Seq(Emails) /\ Len(owner') = Len(owner) + 1 /\ Len(owner) \in Nat
          /\ live' \in SUBSET (1 .. Len(owner'))
      BY <2>2, LoggedInProps
    <3> QED BY <3>1
  <2> QED BY <2>1, <2>2 DEF SessionStep
<1>4. \A k \in Keys : cache'[k] \in [sid : 0 .. Len(owner'), pass : Passphrases \cup {Dead}]
  <2> SUFFICES ASSUME NEW k \in Keys
               PROVE  cache'[k] \in [sid : 0 .. Len(owner'), pass : Passphrases \cup {Dead}]
    OBVIOUS
  <2>1. CASE cache'[k] = cache[k]
    <3>1. cache[k] \in [sid : 0 .. Len(owner), pass : Passphrases \cup {Dead}] BY OwnerType
    <3> QED BY <1>3, <2>1, <3>1
  <2>2. CASE cache'[k] = NoSession BY <1>3, <2>2 DEF NoSession
  <2>3. CASE pc[p] = "remember" /\ cache'[k] = [sid |-> client[p].session, pass |-> cmd[p].pass]
    <3>1. client[p].session \in 0 .. Len(owner) BY OwnerType
    <3>2. cmd[p].op \in {"add", "use", "all"} BY <2>3 DEF CommandInv, Following, InUse
    <3>3. cmd[p].pass \in Passphrases BY <1>1, <3>2, CommandKinds DEF AccountTypeOK
    <3> QED BY <1>3, <2>3, <3>1, <3>3
  <2> QED BY <2>1, <2>2, <2>3 DEF SessionStep
<1>5. cache' \in [Keys -> [sid : 0 .. Len(owner'), pass : Passphrases \cup {Dead}]]
  BY <1>4 DEF SessionStep
<1> QED BY <1>2, <1>3, <1>5 DEF FileTypes

LEMMA JunkSame ==
    ASSUME NEW p \in Procs, ProcStep(p) PROVE junk' = junk
BY DEF ProcStep, Load, Add, RemoveAccount, ForgetAll, SetDefault, NextAccount, Probe, Forget,
       Verify, Login, Remember, Use, Record, Logout, Saved, files

LEMMA BegunSame ==
    ASSUME NEW p \in Procs, ProcStep(p) PROVE begun' = begun
BY DEF ProcStep, Load, Add, RemoveAccount, ForgetAll, SetDefault, NextAccount, Probe, Forget,
       Verify, Login, Remember, Use, Record, Logout

\* What a session that ends and a file that is damaged leave alone.
LEMMA OutsideStep ==
    ASSUME CommandInv, (\E s \in Sids : Expire(s)) \/ Damage \/ UNCHANGED vars
    PROVE  /\ UNCHANGED <<vault, cache, begun, pc, cmd, mem, todo, client, owner>>
           /\ junk' \in BOOLEAN /\ live' \subseteq live
<1>1. junk \in BOOLEAN BY DEF CommandInv, AccountTypeOK
<1> QED BY <1>1 DEF Expire, Damage, vars, files, server

-----------------------------------------------------------------------------
(* Types and commands *)

LEMMA InitCommand == Init => CommandInv
<1> SUFFICES ASSUME Init PROVE CommandInv OBVIOUS
<1> USE DEF Init
<1>1. vault \in Stores BY CommandAssumption
<1>2. <<>> \in Seq(Names) /\ NoStore \in Stores /\ [op |-> "none"] \in Commands
  BY EmptySeq, NoStoreProps, NoneIsCommand
<1>3. /\ owner \in Seq(Emails) /\ live \in SUBSET (1 .. Len(owner)) /\ Len(owner) \in Nat
      /\ cache \in [Keys -> [sid : 0 .. Len(owner), pass : Passphrases \cup {Dead}]]
  <2>1. CASE cache = [k \in Keys |-> NoSession] /\ owner = <<>> /\ live = {}
    <3>1. <<>> \in Seq(Emails) /\ Len(<<>>) = 0 BY EmptySeq
    <3> QED BY <2>1, <3>1 DEF NoSession
  <2>2. ASSUME NEW e \in Emails, NEW pass \in Passphrases,
               cache = [[k \in Keys |-> NoSession] EXCEPT ![Lower[e]] = [sid |-> 1, pass |-> pass]],
               owner = <<Lower[e]>>, live \in {{}, {1}}
        PROVE  /\ owner \in Seq(Emails) /\ live \in SUBSET (1 .. Len(owner)) /\ Len(owner) \in Nat
               /\ cache \in [Keys -> [sid : 0 .. Len(owner), pass : Passphrases \cup {Dead}]]
    <3>1. Lower[e] \in Emails /\ Lower[e] \in Keys BY VaultAssumption DEF Keys
    <3>2. owner \in Seq(Emails) /\ Len(owner) = 1 BY <2>2, <3>1
    <3>3. cache \in [Keys -> [sid : 0 .. 1, pass : Passphrases \cup {Dead}]]
      BY <2>2, <3>1 DEF NoSession
    <3> QED BY <2>2, <3>2, <3>3
  <2> QED BY <2>1, <2>2
<1>4. client \in [Procs -> [session : 0 .. Len(owner), sid : 0 .. Len(owner)]]
  BY <1>3 DEF NoClient
<1>5. AccountTypeOK BY <1>1, <1>2, <1>3, <1>4 DEF AccountTypeOK, Steps
<1>6. ASSUME NEW p \in Procs PROVE Following(p)
  <2>1. pc[p] = "off" /\ cmd[p].op = "none" OBVIOUS
  <2> QED BY <2>1 DEF Following, InUse
<1> QED BY <1>5, <1>6 DEF CommandInv

LEMMA NextCommand == CommandInv /\ [Next]_vars => CommandInv'
<1> SUFFICES ASSUME CommandInv, [Next]_vars PROVE CommandInv' OBVIOUS
<1>1. AccountTypeOK BY DEF CommandInv
<1>2. ASSUME NEW p \in Procs, ProcStep(p) PROVE CommandInv'
  <2>1. Stays(p) /\ StoreStep(p) /\ SessionStep(p) BY <1>2, StepParts
  <2>2. junk' \in BOOLEAN /\ begun' \in Nat BY <1>1, <1>2, JunkSame, BegunSame DEF AccountTypeOK
  <2>3. FileTypes' BY <2>1, <2>2, FilesKept
  <2>4. ProcTypes' /\ Alone(p) /\ Following(p)' BY <2>1 DEF Stays
  <2>5. AccountTypeOK' BY <2>2, <2>3, <2>4 DEF AccountTypeOK, ProcTypes, FileTypes
  <2>6. \A q \in Procs : Following(q)' BY <2>4, OthersFollow
  <2> QED BY <2>5, <2>6 DEF CommandInv
<1>3. ASSUME NEW p \in Procs, NEW c \in Commands, Sensible(c), Begin(p, c) PROVE CommandInv'
  <2>1. Stays(p) BY <1>3, BeginKeeps
  <2>2. ProcTypes' /\ Alone(p) /\ Following(p)' BY <2>1 DEF Stays
  <2>3. begun' \in Nat /\ FileTypes'
    BY <1>1, <1>3 DEF AccountTypeOK, FileTypes, Begin, files, server
  <2>4. AccountTypeOK' BY <2>2, <2>3 DEF AccountTypeOK, ProcTypes, FileTypes
  <2>5. \A q \in Procs : Following(q)' BY <2>2, OthersFollow
  <2> QED BY <2>4, <2>5 DEF CommandInv
<1>4. CASE (\E s \in Sids : Expire(s)) \/ Damage \/ UNCHANGED vars
  <2>1. /\ UNCHANGED <<vault, cache, begun, pc, cmd, mem, todo, client, owner>>
        /\ junk' \in BOOLEAN /\ live' \subseteq live
    BY <1>4, OutsideStep
  <2>2. AccountTypeOK' BY <1>1, <2>1 DEF AccountTypeOK
  <2>3. \A q \in Procs : Following(q)' BY <2>1 DEF CommandInv, Following, InUse, Known
  <2> QED BY <2>2, <2>3 DEF CommandInv
<1> QED BY <1>2, <1>3, <1>4 DEF Next

LEMMA CommandInvariance == Spec => []CommandInv
BY InitCommand, NextCommand, PTL DEF Spec

(* Vault, sessions and what each process holds have their types, and a       *)
(* process works only on accounts that are in the copy it loaded             *)
(* (commands/account_cmd.py), whatever the others do.                        *)
THEOREM AccountTypeCorrect == Spec => []AccountTypeOK
<1>1. CommandInv => AccountTypeOK BY DEF CommandInv
<1> QED BY <1>1, CommandInvariance, PTL

(* No command writes over a vault that is damaged (storage.py:387-406).      *)
THEOREM DamagedIsKept == Spec => DamagedVaultKept
<1>1. CommandInv /\ [Next]_vars => [junk => vault' = vault]_vars
  <2> SUFFICES ASSUME CommandInv, [Next]_vars, junk PROVE vault' = vault OBVIOUS
  <2>1. ASSUME NEW p \in Procs, ProcStep(p) PROVE vault' = vault
    BY <2>1, StepParts DEF StoreStep
  <2>2. ASSUME NEW p \in Procs, NEW c \in Commands, Begin(p, c) PROVE vault' = vault
    BY <2>2 DEF Begin, files
  <2>3. CASE (\E s \in Sids : Expire(s)) \/ Damage \/ UNCHANGED vars BY <2>3, OutsideStep
  <2> QED BY <2>1, <2>2, <2>3 DEF Next
<1> QED BY <1>1, CommandInvariance, PTL DEF Spec, DamagedVaultKept

-----------------------------------------------------------------------------
(* One passphrase *)

LEMMA MoveCopies ==
    ASSUME CommandInv, NEW p \in Procs, ProcStep(p)
    PROVE  /\ StoreStep(p)
           /\ \A q \in Procs : mem'[q] = mem[q] \/ mem'[q] = NoStore
                               \/ (mem'[q] = vault /\ Loads(vault))
<1>1. Stays(p) /\ StoreStep(p) BY StepParts
<1> QED BY <1>1 DEF Stays, StoreStep, Alone

LEMMA InitKey == Init => KeyInv
BY CommandAssumption, NoStoreProps DEF Init, KeyInv

LEMMA NextKey == CommandInv /\ KeyInv /\ [Next]_vars => KeyInv'
<1> SUFFICES ASSUME CommandInv, KeyInv, [Next]_vars PROVE KeyInv' OBVIOUS
<1>1. OneKey(vault) /\ \A q \in Procs : OneKey(mem[q]) BY DEF KeyInv
<1>2. ASSUME NEW p \in Procs, ProcStep(p) PROVE KeyInv'
  <2>1. StoreStep(p) BY <1>2, MoveCopies
  <2>2. \A q \in Procs : OneKey(mem'[q]) BY <1>1, <1>2, MoveCopies, NoStoreProps
  <2>3. OneKey(vault')
    <3>1. CASE pc[p] = "add" /\ Opens(mem[p], cmd[p].pass)
               /\ vault' = Added(mem[p], cmd[p].id, cmd[p].label, cmd[p].pass, cmd[p].makeDefault)
      BY <1>1, <3>1, Writing, AddedKey
    <3>2. CASE pc[p] = "remove" /\ vault' = Removed(mem[p], cmd[p].id)
      BY <1>1, <3>2, Writing, RemovedKey
    <3>3. CASE pc[p] = "default" /\ vault' = Defaulted(mem[p], cmd[p].id)
      BY <1>1, <3>3, Writing, DefaultedKeeps
    <3> QED BY <1>1, <2>1, <3>1, <3>2, <3>3 DEF StoreStep
  <2> QED BY <2>2, <2>3 DEF KeyInv
<1>3. CASE vault' = vault /\ mem' = mem BY <1>1, <1>3 DEF KeyInv
<1>4. ASSUME NEW p \in Procs, NEW c \in Commands, Begin(p, c) PROVE vault' = vault /\ mem' = mem
  BY <1>4 DEF Begin, files
<1>5. CASE (\E s \in Sids : Expire(s)) \/ Damage \/ UNCHANGED vars BY <1>3, <1>5, OutsideStep
<1> QED BY <1>2, <1>3, <1>4, <1>5 DEF Next

(* One passphrase opens all that any opens (manager.py:98-181): a command    *)
(* that adds tests it against the copy it will save, so the copies of two    *)
(* processes never mix.                                                      *)
THEOREM OneKeyOnly == Spec => []OnePassphrase
<1>1. KeyInv => OnePassphrase BY DEF KeyInv, OnePassphrase
<1> QED BY <1>1, CommandInvariance, InitKey, NextKey, PTL DEF Spec

-----------------------------------------------------------------------------
(* Labels, and a vault that loads *)

LabelInv ==
    /\ Labelled(vault) /\ \A p \in Procs : Labelled(mem[p])
    /\ \A p \in Procs : cmd[p].op = "add" => cmd[p].label \in NewLabels[cmd[p].id]

LEMMA InitLabel == ASSUME LabelsOwned PROVE Init => LabelInv
BY NoStoreProps DEF Init, LabelInv, LabelsOwned

\* A process keeps its command to the end.
LEMMA CommandSame ==
    ASSUME CommandInv, NEW p \in Procs, ProcStep(p)
    PROVE  \A q \in Procs : cmd'[q] = cmd[q] \/ cmd'[q].op = "none"
<1>1. Stays(p) BY StepParts
<1>2. cmd'[p] = cmd[p] \/ cmd'[p].op = "none"
  <2>1. CASE Exit(p) BY <2>1 DEF Exit, CommandInv, AccountTypeOK
  <2>2. CASE cmd' = cmd BY <2>2
  <2>3. Exit(p) \/ cmd' = cmd
    BY DEF ProcStep, Load, Add, RemoveAccount, ForgetAll, SetDefault, NextAccount, Probe, Forget,
           Verify, Login, Remember, Use, Record, Logout, Saved
  <2> QED BY <2>1, <2>2, <2>3
<1> QED BY <1>1, <1>2 DEF Stays, Alone

LEMMA NextLabel == CommandInv /\ LabelInv /\ [Next]_vars => LabelInv'
<1> SUFFICES ASSUME CommandInv, LabelInv, [Next]_vars PROVE LabelInv' OBVIOUS
<1>1. /\ Labelled(vault) /\ \A q \in Procs : Labelled(mem[q])
      /\ \A q \in Procs : cmd[q].op = "add" => cmd[q].label \in NewLabels[cmd[q].id]
  BY DEF LabelInv
<1>2. ASSUME NEW p \in Procs, ProcStep(p) PROVE LabelInv'
  <2>1. StoreStep(p) BY <1>2, MoveCopies
  <2>2. \A q \in Procs : Labelled(mem'[q]) BY <1>1, <1>2, MoveCopies, NoStoreProps
  <2>3. Labelled(vault')
    <3>1. CASE pc[p] = "add"
               /\ vault' = Added(mem[p], cmd[p].id, cmd[p].label, cmd[p].pass, cmd[p].makeDefault)
      BY <1>1, <3>1, Writing, AddedLabelled
    <3>2. CASE pc[p] = "remove" /\ vault' = Removed(mem[p], cmd[p].id)
      BY <1>1, <3>2, Writing, RemovedLabelled
    <3>3. CASE pc[p] = "default" /\ vault' = Defaulted(mem[p], cmd[p].id)
      BY <1>1, <3>3, Writing, DefaultedKeeps
    <3> QED BY <1>1, <2>1, <3>1, <3>2, <3>3 DEF StoreStep
  <2>4. \A q \in Procs : cmd'[q].op = "add" => cmd'[q].label \in NewLabels[cmd'[q].id]
    <3>1. \A q \in Procs : cmd'[q] = cmd[q] \/ cmd'[q].op = "none" BY <1>2, CommandSame
    <3> QED BY <1>1, <3>1
  <2> QED BY <2>2, <2>3, <2>4 DEF LabelInv
<1>3. CASE vault' = vault /\ mem' = mem /\ cmd' = cmd BY <1>1, <1>3 DEF LabelInv
<1>4. ASSUME NEW p \in Procs, NEW c \in Commands, Sensible(c), Begin(p, c) PROVE LabelInv'
  <2>1. vault' = vault /\ mem' = mem /\ cmd' = [cmd EXCEPT ![p] = c] BY <1>4 DEF Begin, files
  <2>2. \A q \in Procs : cmd'[q] = IF q = p THEN c ELSE cmd[q]
    BY <2>1 DEF CommandInv, AccountTypeOK
  <2>3. c.op = "add" => c.label \in NewLabels[c.id] BY <1>4 DEF Sensible
  <2> QED BY <1>1, <2>1, <2>2, <2>3 DEF LabelInv
<1>5. CASE (\E s \in Sids : Expire(s)) \/ Damage \/ UNCHANGED vars BY <1>3, <1>5, OutsideStep
<1> QED BY <1>2, <1>3, <1>4, <1>5 DEF Next

LEMMA InitLoad == Init => CopiesLoad
BY NoStoreProps DEF Init, CopiesLoad

LEMMA NextLoad == CommandInv /\ CopiesLoad /\ [Next]_vars => CopiesLoad'
<1> SUFFICES ASSUME CommandInv, CopiesLoad, [Next]_vars PROVE CopiesLoad' OBVIOUS
<1>1. ASSUME NEW p \in Procs, ProcStep(p) PROVE CopiesLoad'
  BY <1>1, MoveCopies, NoStoreProps DEF CopiesLoad
<1>2. CASE mem' = mem BY <1>2 DEF CopiesLoad
<1>3. ASSUME NEW p \in Procs, NEW c \in Commands, Begin(p, c) PROVE mem' = mem
  BY <1>3 DEF Begin
<1>4. CASE (\E s \in Sids : Expire(s)) \/ Damage \/ UNCHANGED vars BY <1>2, <1>4, OutsideStep
<1> QED BY <1>1, <1>2, <1>3, <1>4 DEF Next

\* A command that writes the vault goes on, or ends.
LEMMA WriterMoves ==
    ASSUME CommandInv, NEW p \in Procs, ProcStep(p), pc[p] \in {"add", "remove"}, vault' # vault
    PROVE  pc'[p] # pc[p]
<1>1. Add(p) \/ RemoveAccount(p)
  BY DEF ProcStep, Load, ForgetAll, SetDefault, NextAccount, Probe, Forget, Verify, Login,
         Remember, Use, Record, Logout
<1>2. Exit(p) \/ Goto(p, "remember") \/ Goto(p, "forgetall")
  BY <1>1 DEF Add, RemoveAccount, Saved
<1> QED BY <1>2 DEF Exit, Goto, CommandInv, AccountTypeOK

\* What a process writes loads, unless it adds a taken name or removes a respelled default.
LEMMA WritesLoading ==
    ASSUME CommandInv, CopiesLoad, NEW p \in Procs, ProcStep(p), Loads(vault), ~Loads(vault')
    PROVE  AddsTakenName(p) \/ RemovesRespelled(p)
<1>1. StoreStep(p) /\ Loads(mem[p]) BY MoveCopies DEF CopiesLoad
<1>2. CASE pc[p] = "add"
           /\ vault' = Added(mem[p], cmd[p].id, cmd[p].label, cmd[p].pass, cmd[p].makeDefault)
  <2>1. Taken(mem[p], cmd[p].id, cmd[p].label) BY <1>1, <1>2, Writing, AddedLoads
  <2> QED BY <1>2, <2>1 DEF Taken, AddsTakenName
<1>3. CASE pc[p] = "remove" /\ vault' = Removed(mem[p], cmd[p].id)
  <2>1. Respelled(mem[p], cmd[p].id) BY <1>1, <1>3, Writing, RemovedLoads
  <2> QED BY <1>3, <2>1 DEF Respelled, RemovesRespelled
<1>4. CASE pc[p] = "default" /\ vault' = Defaulted(mem[p], cmd[p].id)
  BY <1>1, <1>4, Writing, DefaultedKeeps
<1> QED BY <1>1, <1>2, <1>3, <1>4 DEF StoreStep

(* A vault that loads stays one that does (storage.py:224-320), whatever the *)
(* commands do at once, but for two of them: the code does not look for a    *)
(* name that only the validator takes for another's, nor for a default in    *)
(* another spelling (manager.py:153-188).                                    *)
THEOREM TwoWaysSpoil == Spec => OnlyTwoWaysSpoil
<1>1. CommandInv /\ CopiesLoad /\ [Next]_vars =>
        [Loads(vault) /\ ~Loads(vault')
           => \E p \in Procs : /\ AddsTakenName(p) \/ RemovesRespelled(p)
                               /\ pc'[p] # pc[p]]_vars
  <2> SUFFICES ASSUME CommandInv, CopiesLoad, [Next]_vars, Loads(vault), ~Loads(vault')
               PROVE  \E p \in Procs : /\ AddsTakenName(p) \/ RemovesRespelled(p)
                                       /\ pc'[p] # pc[p]
    OBVIOUS
  <2>1. vault' # vault OBVIOUS
  <2>2. ASSUME NEW p \in Procs, ProcStep(p)
        PROVE  (AddsTakenName(p) \/ RemovesRespelled(p)) /\ pc'[p] # pc[p]
    <3>1. AddsTakenName(p) \/ RemovesRespelled(p) BY <2>2, WritesLoading
    <3>2. pc[p] \in {"add", "remove"} BY <3>1 DEF AddsTakenName, RemovesRespelled
    <3> QED BY <2>1, <2>2, <3>1, <3>2, WriterMoves
  <2>3. ASSUME NEW p \in Procs, NEW c \in Commands, Begin(p, c) PROVE vault' = vault
    BY <2>3 DEF Begin, files
  <2>4. CASE (\E s \in Sids : Expire(s)) \/ Damage \/ UNCHANGED vars BY <2>1, <2>4, OutsideStep
  <2> QED BY <2>1, <2>2, <2>3, <2>4 DEF Next
<1> QED BY <1>1, CommandInvariance, InitLoad, NextLoad, PTL DEF Spec, OnlyTwoWaysSpoil

-----------------------------------------------------------------------------
(* Sessions *)

SessionInv == Cached /\ \A p \in Procs : Session(p)

LEMMA KeyIsLower ==
    ASSUME NEW e \in Emails
    PROVE  KeyOf(e) = Lower[e] /\ Lower[e] \in Keys /\ Lower[e] \in Emails /\ Lower[e] \notin Labels
BY VaultAssumption DEF KeyOf, Keys

\* A session cached under the name of an account is one of that account ...
LEMMA CachedIsOwn ==
    ASSUME CommandInv, LabelInv, LabelsOwned, NEW p \in Procs, pc[p] = "next" \/ InUse(p),
           todo[p] # <<>>, NEW s, Belongs(SessionKey(p), s)
    PROVE  owner[s] = Lower[Account(p).email]
<1> DEFINE id == Head(todo[p])
           a == Account(p)
<1>1. /\ id \in Names /\ a.email \in Emails
      /\ id \in Emails => Same(a.email, id)
      /\ id \notin Emails => a.label = id
      /\ Find(mem[p], id) \in DOMAIN mem[p].accounts /\ a = mem[p].accounts[Find(mem[p], id)]
  BY HeadAccount DEF Account
<1>2. PICK e \in Emails : owner[s] = Lower[e] /\ (KeyOf(id) = Lower[e] \/ KeyOf(id) \in NewLabels[e])
  BY DEF Belongs, SessionKey
<1> HIDE DEF id, a
<1>3. CASE id \in Emails
  <2>1. KeyOf(id) = Lower[id] /\ Lower[id] \in Emails BY <1>3, KeyIsLower
  <2>2. KeyOf(id) \notin NewLabels[e] BY <2>1, VaultAssumption, CommandAssumption
  <2>3. Lower[a.email] = Lower[id] BY <1>1, <1>3 DEF Same
  <2>4. owner[s] = Lower[a.email] BY <1>2, <2>1, <2>2, <2>3
  <2> QED BY <2>4 DEF a
<1>4. CASE id \notin Emails
  <2>1. id \in Labels /\ KeyOf(id) = id BY <1>1, <1>4 DEF Names, KeyOf
  <2>2. id # Lower[e] BY <2>1, KeyIsLower
  <2>3. id \in NewLabels[e] /\ id # NoLabel BY <1>2, <2>1, <2>2, VaultAssumption
  <2>4. LabelOf(id, a.email)
    <3>1. Labelled(mem[p]) BY DEF LabelInv
    <3> QED BY <1>1, <1>4, <2>3, <3>1 DEF Labelled
  <2>5. PICK f \in Emails : Same(f, a.email) /\ id \in NewLabels[f] BY <2>4 DEF LabelOf
  <2>6. Same(e, f) BY <2>3, <2>5 DEF LabelsOwned
  <2>7. owner[s] = Lower[a.email] BY <1>2, <2>5, <2>6 DEF Same
  <2> QED BY <2>7 DEF a
<1> QED BY <1>3, <1>4

\* ... and one of an account may be cached under the name it was used by.
LEMMA OwnIsCached ==
    ASSUME CommandInv, LabelInv, NEW p \in Procs, cmd[p].op = "add" \/ InUse(p),
           NEW s, owner[s] = Lower[LoginEmail(p)]
    PROVE  Belongs(RememberKey(p), s)
<1>1. CASE cmd[p].op = "add"
  <2>1. LoginEmail(p) = cmd[p].id /\ RememberKey(p) = KeyOf(cmd[p].id)
    BY <1>1 DEF LoginEmail, RememberKey
  <2>2. cmd[p].id \in Emails BY <1>1, CommandKinds DEF CommandInv, AccountTypeOK
  <2>3. KeyOf(cmd[p].id) = Lower[cmd[p].id] BY <2>2, KeyIsLower
  <2> QED BY <2>1, <2>2, <2>3 DEF Belongs
<1>2. CASE cmd[p].op # "add"
  <2> DEFINE id == Head(todo[p])
             a == Account(p)
  <2>1. InUse(p) /\ LoginEmail(p) = a.email /\ RememberKey(p) = KeyOf(id)
    BY <1>2 DEF LoginEmail, RememberKey, SessionKey
  <2>2. todo[p] # <<>> BY <2>1 DEF CommandInv, Following
  <2>3. /\ id \in Names /\ a.email \in Emails
        /\ id \in Emails => Same(a.email, id)
        /\ id \notin Emails => a.label = id
        /\ Find(mem[p], id) \in DOMAIN mem[p].accounts /\ a = mem[p].accounts[Find(mem[p], id)]
    BY <2>1, <2>2, HeadAccount DEF Account
  <2> HIDE DEF id, a
  <2>4. CASE id \in Emails
    <3>1. KeyOf(id) = Lower[id] BY <2>4, KeyIsLower
    <3>2. owner[s] = Lower[id] BY <2>1, <2>3, <2>4 DEF Same
    <3> QED BY <2>1, <2>4, <3>1, <3>2 DEF Belongs
  <2>5. CASE id \notin Emails
    <3>1. id \in Labels /\ KeyOf(id) = id BY <2>3, <2>5 DEF Names, KeyOf
    <3>2. id # NoLabel BY <3>1, VaultAssumption
    <3>3. Labelled(mem[p]) BY DEF LabelInv
    <3>4. LabelOf(id, a.email) BY <2>3, <2>5, <3>2, <3>3 DEF Labelled
    <3>5. PICK f \in Emails : Same(f, a.email) /\ id \in NewLabels[f] BY <3>4 DEF LabelOf
    <3>6. owner[s] = Lower[f] BY <2>1, <3>5 DEF Same
    <3> QED BY <2>1, <3>1, <3>5, <3>6 DEF Belongs
  <2> QED BY <2>4, <2>5
<1> QED BY <1>1, <1>2

\* Sessions handed out keep their accounts.
LEMMA OwnersStay ==
    ASSUME CommandInv, NEW p \in Procs, SessionStep(p)
    PROVE  /\ \A s \in 1 .. Len(owner) : owner'[s] = owner[s]
           /\ Len(owner) \in Nat
BY OwnerType, LoggedInProps DEF SessionStep

LEMMA CachedStays ==
    ASSUME CommandInv, LabelInv, SessionInv, NEW p \in Procs, ProcStep(p)
    PROVE  Cached'
<1>1. SessionStep(p) BY StepParts
<1> SUFFICES ASSUME NEW k \in Keys, cache'[k].sid # 0 PROVE Belongs(k, cache[k].sid)'
  BY DEF Cached
<1>2. \A s \in 1 .. Len(owner) : owner'[s] = owner[s] BY <1>1, OwnersStay
<1>3. \A s \in 1 .. Len(owner) : Belongs(k, s) => Belongs(k, s)' BY <1>2 DEF Belongs
<1>4. CASE cache'[k] = cache[k]
  <2>1. cache[k].sid \in 1 .. Len(owner) BY <1>4, OwnerType
  <2>2. Belongs(k, cache[k].sid) BY <1>4 DEF SessionInv, Cached
  <2>3. PICK s \in 1 .. Len(owner) : s = cache'[k].sid /\ Belongs(k, s) BY <1>4, <2>1, <2>2
  <2>4. Belongs(k, s)' BY <1>3, <2>3
  <2> QED BY <2>3, <2>4 DEF Belongs
<1>5. CASE pc[p] = "remember" /\ k = RememberKey(p)
           /\ cache'[k] = [sid |-> client[p].session, pass |-> cmd[p].pass]
  <2>1. cmd[p].op = "add" \/ InUse(p) BY <1>5 DEF InUse
  <2>2. /\ client[p].session # 0 /\ owner[client[p].session] = Lower[LoginEmail(p)]
    BY <1>5 DEF SessionInv, Session
  <2>3. client[p].session \in 1 .. Len(owner) BY <2>2, OwnerType
  <2>4. PICK s \in 1 .. Len(owner) : s = client[p].session BY <2>3
  <2>5. Belongs(k, s) BY <1>5, <2>1, <2>2, <2>4, OwnIsCached
  <2>6. Belongs(k, s)' /\ cache'[k].sid = s BY <1>3, <1>5, <2>4, <2>5
  <2> QED BY <2>6 DEF Belongs
<1> QED BY <1>1, <1>4, <1>5 DEF SessionStep, NoSession

\* A step of p leaves the others with the sessions they had.
LEMMA OthersSession ==
    ASSUME CommandInv, SessionInv, NEW p \in Procs, Alone(p),
           \A s \in 1 .. Len(owner) : owner'[s] = owner[s], NEW q \in Procs, q # p
    PROVE  Session(q)'
<1>1. /\ pc'[q] = pc[q] /\ cmd'[q] = cmd[q] /\ mem'[q] = mem[q] /\ todo'[q] = todo[q]
      /\ client'[q] = client[q]
  BY DEF Alone
<1>2. Session(q) BY DEF SessionInv
<1>3. client[q].session \in 0 .. Len(owner) /\ Len(owner) \in Nat BY OwnerType
<1>4. LoginEmail(q)' = LoginEmail(q) BY <1>1 DEF LoginEmail, Account
<1>5. client[q].session # 0 => owner'[client[q].session] = owner[client[q].session] BY <1>3
<1> QED BY <1>1, <1>2, <1>4, <1>5 DEF Session

\* A process without a session.
LEMMA NoneSession ==
    ASSUME NEW p \in Procs, client'[p] = NoClient, pc'[p] \notin {"probe", "using", "remember"}
    PROVE  Session(p)'
BY DEF Session, NoClient

LEMMA ExitSession ==
    ASSUME CommandInv, NEW p \in Procs, Exit(p) PROVE Session(p)'
<1>1. client'[p] = NoClient /\ pc'[p] = "off" BY DEF Exit, CommandInv, AccountTypeOK
<1> QED BY <1>1, NoneSession

\* A step that keeps the session where it may be.
LEMMA SameSession ==
    ASSUME CommandInv, SessionInv, NEW p \in Procs, owner' = owner,
           cmd' = cmd, mem' = mem, todo' = todo, client' = client,
           \/ pc[p] \in {"probe", "remember"} /\ pc'[p] = "using" /\ InUse(p)
           \/ cmd[p].op = "add" /\ pc'[p] = "load"
           \/ cmd[p].op = "add" /\ pc'[p] = "remember" /\ client[p].session # 0
    PROVE  Session(p)'
<1>1. Session(p) BY DEF SessionInv
<1>2. LoginEmail(p)' = LoginEmail(p) BY DEF LoginEmail, Account
<1>3. cmd[p] \in Commands /\ Following(p) BY DEF CommandInv, AccountTypeOK
<1>4. InUse(p) => cmd[p].op # "add" BY <1>3 DEF Following
<1> QED BY <1>1, <1>2, <1>4 DEF Session, InUse

LEMMA StepSession ==
    ASSUME CommandInv, LabelInv, SessionInv, LabelsOwned, NEW p \in Procs, ProcStep(p)
    PROVE  Session(p)'
<1>1. AccountTypeOK /\ Following(p) /\ Session(p) BY DEF CommandInv, SessionInv
<1>2. client[p].sid = client[p].session
      /\ client[p] \in [session : 0 .. Len(owner), sid : 0 .. Len(owner)]
  BY <1>1, OwnerType DEF Session
<1>3. client[p].session = 0 => client[p] = NoClient BY <1>2 DEF NoClient
<1>4. CASE Load(p)
  <2>1. pc[p] = "load" BY <1>4 DEF Load
  <2>2. CASE Exit(p) BY <2>2, ExitSession
  <2>3. CASE /\ cmd' = cmd /\ client' = client
             /\ pc'[p] = "add" /\ cmd[p].op = "add" /\ owner' = owner
    BY <1>1, <2>1, <2>3 DEF Session, LoginEmail
  <2>4. CASE client' = client /\ cmd[p].op # "add" /\ pc'[p] \in {"remove", "default", "next", "logout"}
    <3>1. client[p].session = 0 BY <1>1, <2>1, <2>4 DEF Session
    <3> QED BY <1>3, <2>4, <3>1, NoneSession
  <2>5. owner' = owner BY <1>4 DEF Load, server
  <2>6. pc \in [Procs -> Steps] BY <1>1 DEF AccountTypeOK
  <2>7. \/ Exit(p)
        \/ /\ cmd' = cmd /\ client' = client
           /\ pc'[p] = "add" /\ cmd[p].op = "add"
        \/ client' = client /\ cmd[p].op # "add" /\ pc'[p] \in {"remove", "default", "next", "logout"}
    BY <1>4, <2>6 DEF Load, Goto
  <2> QED BY <2>2, <2>3, <2>4, <2>5, <2>7
<1>5. CASE Add(p)
  <2>1. cmd[p].op = "add" /\ owner' = owner BY <1>1, <1>5 DEF Add, Following, server
  <2>2. \/ Exit(p)
        \/ Goto(p, "remember") /\ UNCHANGED <<cmd, mem, todo, client>> /\ client[p].session # 0
    BY <1>5 DEF Add, Saved
  <2>3. CASE Goto(p, "remember") /\ UNCHANGED <<cmd, mem, todo, client>> /\ client[p].session # 0
    <3>1. pc'[p] = "remember" BY <1>1, <2>3 DEF AccountTypeOK, Goto
    <3> QED BY <2>1, <2>3, <3>1, SameSession
  <2> QED BY <2>2, <2>3, ExitSession
<1>6. CASE RemoveAccount(p) \/ ForgetAll(p) \/ SetDefault(p)
  <2>1. pc[p] \in {"remove", "forgetall", "default"} BY <1>6 DEF RemoveAccount, ForgetAll, SetDefault
  <2>2. client[p].session = 0 BY <1>1, <2>1 DEF Session
  <2>3. Exit(p) \/ (Goto(p, "forgetall") /\ client' = client)
    BY <1>6 DEF RemoveAccount, ForgetAll, SetDefault, Saved
  <2>4. CASE Goto(p, "forgetall") /\ client' = client
    <3>1. pc'[p] = "forgetall" BY <1>1, <2>4 DEF AccountTypeOK, Goto
    <3> QED BY <1>3, <2>2, <2>4, <3>1, NoneSession
  <2> QED BY <2>3, <2>4, ExitSession
<1>7. CASE NextAccount(p)
  <2>1. pc[p] = "next" /\ owner' = owner BY <1>7 DEF NextAccount, server
  <2>2. client[p].session = 0 BY <1>1, <2>1 DEF Session
  <2>3. CASE Exit(p) BY <2>3, ExitSession
  <2>4. CASE UNCHANGED <<pc, cmd, mem, client>> BY <1>3, <2>1, <2>2, <2>4, NoneSession
  <2>5. CASE todo[p] # <<>> /\ Account(p).cred = cmd[p].pass
    <3> DEFINE f == cache[SessionKey(p)]
               opens == f.sid # 0 /\ f.pass = cmd[p].pass
    <3>1. \/ Exit(p)
          \/ /\ client' = [client EXCEPT ![p] = IF opens THEN [session |-> f.sid, sid |-> f.sid]
                                                ELSE NoClient]
             /\ Goto(p, IF opens THEN "probe" ELSE "login")
             /\ UNCHANGED <<cmd, mem, todo>>
      BY <1>7, <2>5, Zenon DEF NextAccount
    <3>2. CASE /\ ~opens /\ client' = [client EXCEPT ![p] = NoClient] /\ Goto(p, "login")
      <4>1. client'[p] = NoClient /\ pc'[p] = "login" BY <1>1, <3>2 DEF AccountTypeOK, Goto
      <4> QED BY <4>1, NoneSession
    <3>3. CASE /\ opens /\ client' = [client EXCEPT ![p] = [session |-> f.sid, sid |-> f.sid]]
               /\ Goto(p, "probe") /\ UNCHANGED <<cmd, mem, todo>>
      <4>1. client'[p] = [session |-> f.sid, sid |-> f.sid] /\ pc'[p] = "probe"
        BY <1>1, <3>3 DEF AccountTypeOK, Goto
      <4>2. SessionKey(p) \in Keys
        <5>1. Head(todo[p]) \in Names BY <2>1, <2>5, HeadAccount
        <5> QED BY <5>1 DEF SessionKey, KeyOf, Keys, Names
      <4>3. Belongs(SessionKey(p), f.sid) BY <3>3, <4>2 DEF SessionInv, Cached
      <4>4. owner[f.sid] = Lower[Account(p).email] BY <2>1, <2>5, <4>3, CachedIsOwn
      <4>5. cmd[p].op # "add" BY <1>1, <2>1 DEF Following
      <4>6. LoginEmail(p)' = Account(p).email BY <3>3, <4>5 DEF LoginEmail, Account
      <4>7. f.sid # 0 BY <3>3
      <4> HIDE DEF f
      <4>8. client'[p].session = f.sid /\ client'[p].sid = f.sid BY <4>1
      <4> QED BY <2>1, <4>1, <4>4, <4>6, <4>7, <4>8 DEF Session
    <3> HIDE DEF f
    <3> QED BY <3>1, <3>2, <3>3, ExitSession
  <2>6. \/ Exit(p)
        \/ UNCHANGED <<pc, cmd, mem, client>>
        \/ todo[p] # <<>> /\ Account(p).cred = cmd[p].pass
    BY <1>7 DEF NextAccount
  <2> QED BY <2>3, <2>4, <2>5, <2>6
<1>8. CASE Probe(p)
  <2>1. pc[p] = "probe" /\ owner' = owner /\ UNCHANGED <<cmd, mem, todo>>
    BY <1>8 DEF Probe, server
  <2>2. CASE pc'[p] = "using" /\ client' = client
    <3>1. InUse(p) BY <2>1 DEF InUse
    <3> QED BY <2>1, <2>2, <3>1, SameSession
  <2>3. CASE pc'[p] \in {"forget", "login"} /\ client'[p] = NoClient
    BY <2>3, NoneSession
  <2>4. \/ pc'[p] = "using" /\ client' = client
        \/ pc'[p] \in {"forget", "login"} /\ client'[p] = NoClient
    BY <1>1, <1>8 DEF Probe, WithoutSession, Goto, AccountTypeOK
  <2> QED BY <2>2, <2>3, <2>4
<1>9. CASE Forget(p)
  <2>1. client[p].session = 0 BY <1>1, <1>9 DEF Session, Forget
  <2>2. pc'[p] = "login" /\ client'[p] = client[p] BY <1>9, ForgetKeeps
  <2> QED BY <1>3, <2>1, <2>2, NoneSession
<1>10. CASE Verify(p)
  <2>1. pc[p] = "verify" /\ cmd[p].op = "add" BY <1>10, VerifyKeeps
  <2>2. client[p].session = 0 BY <1>1, <2>1 DEF Session
  <2>3. CASE Exit(p) BY <2>3, ExitSession
  <2>4. CASE pc'[p] = "load" /\ UNCHANGED <<cmd, mem, todo, client, server>>
    BY <1>3, <2>2, <2>4, NoneSession
  <2>5. CASE /\ LoggedIn(p) /\ LoginEmail(p) \in Emails
             /\ pc'[p] = "load" /\ UNCHANGED <<cmd, mem, todo>>
    <3> DEFINE n == Len(owner) + 1
    <3>1. /\ client' = [client EXCEPT ![p] = [session |-> n, sid |-> n]]
          /\ owner'[n] = Lower[LoginEmail(p)]
      BY <2>5, LoggedInProps
    <3>2. client'[p] = [session |-> n, sid |-> n] BY <1>1, <3>1 DEF AccountTypeOK
    <3>3. LoginEmail(p)' = LoginEmail(p) BY <2>5 DEF LoginEmail, Account
    <3> HIDE DEF n
    <3>4. client'[p].session = n /\ client'[p].sid = n BY <3>2
    <3> QED BY <2>1, <2>5, <3>1, <3>3, <3>4 DEF Session
  <2> QED BY <1>10, <2>3, <2>4, <2>5, VerifyKeeps
<1>11. CASE Login(p)
  <2>1. pc[p] = "login" /\ UNCHANGED <<cmd, mem>> BY <1>11 DEF Login
  <2>2. client[p].session = 0 /\ cmd[p].op # "add" BY <1>1, <2>1 DEF Session, Following
  <2>3. CASE UNCHANGED <<client, server>> /\ pc'[p] = "next"
    BY <1>3, <2>2, <2>3, NoneSession
  <2>4. CASE LoggedIn(p) /\ LoginEmail(p) \in Emails /\ UNCHANGED todo /\ pc'[p] = "remember"
    <3> DEFINE n == Len(owner) + 1
    <3>1. /\ client' = [client EXCEPT ![p] = [session |-> n, sid |-> n]]
          /\ owner'[n] = Lower[LoginEmail(p)] /\ Len(owner) \in Nat
      BY <2>4, LoggedInProps
    <3>2. client'[p] = [session |-> n, sid |-> n] BY <1>1, <3>1 DEF AccountTypeOK
    <3>3. LoginEmail(p)' = LoginEmail(p) BY <2>1, <2>4 DEF LoginEmail, Account
    <3>4. n # 0 BY <3>1
    <3> HIDE DEF n
    <3>5. client'[p].session = n /\ client'[p].sid = n BY <3>2
    <3> QED BY <2>4, <3>1, <3>3, <3>4, <3>5 DEF Session
  <2> QED BY <1>11, <2>3, <2>4, LoginKeeps
<1>12. CASE Remember(p)
  <2>1. pc[p] = "remember" /\ owner' = owner BY <1>12 DEF Remember, server
  <2>2. CASE cmd[p].op = "add" BY <1>12, <2>2, RememberKeeps, ExitSession
  <2>3. CASE cmd[p].op # "add"
    <3>1. pc'[p] = "using" /\ UNCHANGED <<cmd, mem, todo, client>> BY <1>12, <2>3, RememberKeeps
    <3>2. InUse(p) BY <2>1, <2>3 DEF InUse
    <3> QED BY <2>1, <3>1, <3>2, SameSession
  <2> QED BY <2>2, <2>3
<1>13. CASE Use(p)
  <2>1. pc'[p] \in {"record", "next"} /\ client'[p] = NoClient BY <1>13, UseKeeps
  <2> QED BY <2>1, NoneSession
<1>14. CASE Record(p)
  <2>1. client[p].session = 0 BY <1>1, <1>14 DEF Session, Record
  <2>2. Exit(p) \/ (pc'[p] = "next" /\ client'[p] = client[p]) BY <1>14, RecordKeeps
  <2> QED BY <1>3, <2>1, <2>2, ExitSession, NoneSession
<1>15. CASE Logout(p)
  <2>1. pc[p] = "logout" /\ client[p].session = 0 BY <1>1, <1>15 DEF Session, Logout
  <2>2. Exit(p) \/ (pc' = pc /\ client' = client) BY <1>15, LogoutKeeps
  <2> QED BY <1>3, <2>1, <2>2, ExitSession, NoneSession
<1> QED BY <1>4, <1>5, <1>6, <1>7, <1>8, <1>9, <1>10, <1>11, <1>12, <1>13, <1>14, <1>15
        DEF ProcStep

LEMMA InitSession == Init => SessionInv
<1> SUFFICES ASSUME Init PROVE SessionInv OBVIOUS
<1> USE DEF Init
<1>1. ASSUME NEW p \in Procs PROVE Session(p) BY DEF Session, NoClient
<1>2. Cached
  <2>1. CASE cache = [k \in Keys |-> NoSession] BY <2>1 DEF Cached, NoSession
  <2>2. ASSUME NEW e \in Emails, NEW pass \in Passphrases, owner = <<Lower[e]>>,
               cache = [[k \in Keys |-> NoSession] EXCEPT ![Lower[e]] = [sid |-> 1, pass |-> pass]]
        PROVE  Cached
    <3> SUFFICES ASSUME NEW k \in Keys, cache[k].sid # 0 PROVE Belongs(k, cache[k].sid) BY DEF Cached
    <3>1. k = Lower[e] /\ cache[k].sid = 1 BY <2>2 DEF NoSession
    <3>2. owner[1] = Lower[e] BY <2>2
    <3> QED BY <3>1, <3>2 DEF Belongs
  <2> QED BY <2>1, <2>2
<1> QED BY <1>1, <1>2 DEF SessionInv

LEMMA NextSession ==
    ASSUME LabelsOwned
    PROVE  CommandInv /\ LabelInv /\ SessionInv /\ [Next]_vars => SessionInv'
<1> SUFFICES ASSUME CommandInv, LabelInv, SessionInv, [Next]_vars PROVE SessionInv' OBVIOUS
<1>1. ASSUME NEW p \in Procs, ProcStep(p) PROVE SessionInv'
  <2>1. Stays(p) /\ SessionStep(p) BY <1>1, StepParts
  <2>2. Alone(p) /\ \A s \in 1 .. Len(owner) : owner'[s] = owner[s] BY <2>1, OwnersStay DEF Stays
  <2>3. Session(p)' BY <1>1, StepSession
  <2>4. \A q \in Procs : Session(q)' BY <2>2, <2>3, OthersSession
  <2>5. Cached' BY <1>1, CachedStays
  <2> QED BY <2>4, <2>5 DEF SessionInv
<1>2. ASSUME NEW p \in Procs, NEW c \in Commands, Sensible(c), Begin(p, c) PROVE SessionInv'
  <2>1. /\ cache' = cache /\ owner' = owner /\ client' = client /\ pc[p] = "off"
        /\ Stays(p) /\ Alone(p)
    BY <1>2, BeginKeeps DEF Begin, files, server, Stays
  <2>2. pc'[p] \in {"verify", "load"}
    BY <1>2 DEF Begin, Goto, CommandInv, AccountTypeOK
  <2>3. client[p].sid = 0 /\ client[p].session = 0 BY <2>1 DEF SessionInv, Session
  <2>4. Session(p)' BY <2>1, <2>2, <2>3 DEF Session
  <2>5. \A q \in Procs : Session(q)' BY <2>1, <2>4, OthersSession
  <2>6. Cached' BY <2>1 DEF SessionInv, Cached, Belongs
  <2> QED BY <2>5, <2>6 DEF SessionInv
<1>3. CASE (\E s \in Sids : Expire(s)) \/ Damage \/ UNCHANGED vars
  <2>1. UNCHANGED <<vault, cache, begun, pc, cmd, mem, todo, client, owner>> BY <1>3, OutsideStep
  <2> QED BY <2>1 DEF SessionInv, Session, Cached, Belongs, LoginEmail, Account
<1> QED BY <1>1, <1>2, <1>3 DEF Next

LEMMA SessionsProven ==
    ASSUME CommandInv, SessionInv PROVE OnlyProvenSessions
<1> SUFFICES ASSUME NEW p \in Procs
             PROVE  /\ pc[p] = "using" =>
                         /\ client[p].session # 0 /\ client[p].sid = client[p].session
                         /\ owner[client[p].session] = Lower[Account(p).email]
                    /\ pc[p] = "login" => client[p].sid = 0
  BY DEF OnlyProvenSessions
<1>1. Session(p) /\ Following(p) BY DEF CommandInv, SessionInv
<1>2. pc[p] = "using" => cmd[p].op # "add" BY <1>1 DEF Following
<1> QED BY <1>1, <1>2 DEF Session, LoginEmail

(* A session is used for the account it was handed out for, and no login     *)
(* goes out with a sid on the transport (session_store.py:61-121), where no  *)
(* two addresses have a label in common.                                     *)
THEOREM ProvenSessions == ASSUME LabelsOwned PROVE Spec => []OnlyProvenSessions
<1>1. CommandInv /\ SessionInv => OnlyProvenSessions BY SessionsProven
<1> QED BY <1>1, CommandInvariance, InitLabel, NextLabel, InitSession, NextSession, PTL DEF Spec

-----------------------------------------------------------------------------
(* The configuration *)

Unlocked == {"off", "load", "guard", "loaded", "lock"}

\* What a command makes of the settings.
Effect(o, settings) ==
    CASE o.what = "set" -> [settings EXCEPT ![o.key] = o.value]
      [] o.what \in {"reset", "recover"} -> Defaults
      [] OTHER -> settings

\* From its second load on, a process is under the lock.
Guarded(p) ==
    /\ at[p] \notin Unlocked => lock = p
    /\ phase[p] # 0 /\ at[p] # "lock" => lock = p
    /\ phase[p] # 0 => at[p] \notin {"off", "guard"} /\ op[p].what # "show"
    /\ at[p] \in {"lock", "write"} => phase[p] # 0
    /\ at[p] = "lock" => phase[p] = 1
    /\ at[p] = "write" /\ phase[p] = 1 => op[p].what = "recover"
    /\ phase[p] = 2 => op[p].what # "recover"
    /\ at[p] \in {"guard", "look", "copy"} => bad[p] # NoContent

\* What it has in memory then is what is expected, or comes to nothing.
Current(p) ==
    /\ phase[p] = 1 /\ at[p] \in {"look", "copy", "loaded"} /\ op[p].what # "recover"
          => (bad[p] = NoContent /\ conf[p] = expect) \/ file \in Contents
    /\ phase[p] = 2 /\ at[p] = "load" => file \in Contents \/ conf[p] = Effect(op[p], expect)
    /\ phase[p] = 2 /\ at[p] \in {"look", "copy", "loaded"}
          => bad[p] # NoContent \/ conf[p] = Effect(op[p], expect)
    /\ at[p] = "write" => conf[p] = Effect(op[p], expect)

Kept(c) == backups[c] > 0 \/ c \in failed

\* Who is about to replace the file has seen what it holds.
Seen(p) ==
    Committed(p) => /\ at[p] \in {"look", "copy"} => file = bad[p]
                    /\ at[p] \in {"loaded", "write"} /\ file \in Contents => Kept(file)

ConfigInv ==
    /\ ConfigTypeOK
    /\ SettingsStick
    /\ \A p \in Writers : Guarded(p) /\ Current(p) /\ Seen(p)

-----------------------------------------------------------------------------

LEMMA DefaultsAreSettings == Defaults \in Settings
BY ConfigAssumption DEF Defaults, Settings

LEMMA ParsedIsSettings ==
    ASSUME ConfigTypeOK, file \notin Contents PROVE Parsed \in Settings
BY DefaultsAreSettings DEF ConfigTypeOK, Parsed

LEMMA OpKinds ==
    ASSUME NEW o \in Ops
    PROVE  /\ o.what \in {"set", "show", "migrate", "reset", "recover"}
           /\ o.what = "set" => o.key \in SettingKeys /\ o.value \in Values
BY DEF Ops

LEMMA ShowIsOp == [what |-> "show"] \in Ops
BY DEF Ops

LEMMA EffectCases ==
    ASSUME NEW o, NEW st
    PROVE  /\ o.what = "set" => Effect(o, st) = [st EXCEPT ![o.key] = o.value]
           /\ o.what \in {"reset", "recover"} => Effect(o, st) = Defaults
           /\ o.what = "migrate" => Effect(o, st) = st
BY Zenon DEF Effect

LEMMA EffectIsSettings ==
    ASSUME NEW o \in Ops, NEW st \in Settings PROVE Effect(o, st) \in Settings
<1>1. CASE o.what = "set"
  <2>1. o.key \in SettingKeys /\ o.value \in Values BY <1>1, OpKinds
  <2>2. Effect(o, st) = [st EXCEPT ![o.key] = o.value] BY <1>1, EffectCases
  <2> QED BY <2>1, <2>2 DEF Settings
<1>2. CASE o.what # "set" BY <1>2, DefaultsAreSettings DEF Effect
<1> QED BY <1>1, <1>2

LEMMA InitConfig == ConfigInit => ConfigInv
<1> SUFFICES ASSUME ConfigInit PROVE ConfigInv OBVIOUS
<1>1. ConfigTypeOK
  BY ConfigAssumption, DefaultsAreSettings, ShowIsOp DEF ConfigInit, ConfigTypeOK
<1>2. SettingsStick
  BY ConfigAssumption, DefaultsAreSettings DEF ConfigInit, SettingsStick, Parsed
<1>3. \A p \in Writers : Guarded(p) /\ Current(p) /\ Seen(p)
  BY DEF ConfigInit, Guarded, Current, Seen, Committed, Unlocked
<1> QED BY <1>1, <1>2, <1>3 DEF ConfigInv

-----------------------------------------------------------------------------
(* Type correctness *)

LEMMA QuitType ==
    ASSUME ConfigTypeOK, NEW p \in Writers, Quit(p)
    PROVE  /\ at' \in [Writers -> {"off", "load", "guard", "look", "copy", "loaded", "lock", "write"}]
           /\ op' \in [Writers -> Ops] /\ phase' \in [Writers -> 0 .. 2]
           /\ conf' \in [Writers -> Settings] /\ bad' \in [Writers -> Contents \cup {NoContent}]
           /\ lock' \in Writers \cup {Nobody}
<1>1. [what |-> "show"] \in Ops /\ Defaults \in Settings BY ShowIsOp, DefaultsAreSettings
<1> QED BY <1>1 DEF ConfigTypeOK, Quit, Go

LEMMA ProceedType ==
    ASSUME ConfigTypeOK, NEW p \in Writers, Proceed(p) PROVE ConfigTypeOK'
<1>q. CASE Quit(p) BY <1>q, QuitType DEF Proceed, ConfigTypeOK, shared
<1>o. op[p] \in Ops BY DEF ConfigTypeOK
<1>1. CASE /\ phase' = [phase EXCEPT ![p] = 1] /\ bad' = [bad EXCEPT ![p] = NoContent]
           /\ Go(p, "lock") /\ UNCHANGED <<op, conf>>
           /\ lock' = IF lock = p THEN Nobody ELSE lock
  BY <1>1 DEF Proceed, ConfigTypeOK, Go, shared
<1>2. CASE Go(p, "write") /\ UNCHANGED <<lock, op, phase, bad>>
           /\ (UNCHANGED conf \/ conf' = [conf EXCEPT ![p] = Defaults])
  BY <1>2, DefaultsAreSettings DEF Proceed, ConfigTypeOK, Go, shared
<1>3. CASE /\ phase' = [phase EXCEPT ![p] = 2] /\ bad' = [bad EXCEPT ![p] = NoContent]
           /\ Go(p, "load") /\ UNCHANGED <<op, lock>>
           /\ conf' = [conf EXCEPT ![p] = CASE op[p].what = "set" -> [@ EXCEPT ![op[p].key] = op[p].value]
                                            [] op[p].what = "reset" -> Defaults
                                            [] OTHER -> @]
  <2>1. conf[p] \in Settings BY DEF ConfigTypeOK
  <2>2. op[p].what = "set" => [conf[p] EXCEPT ![op[p].key] = op[p].value] \in Settings
    BY <1>o, <2>1, OpKinds DEF Settings
  <2>3. conf' \in [Writers -> Settings]
    BY <1>3, <2>1, <2>2, DefaultsAreSettings DEF ConfigTypeOK
  <2> QED BY <1>3, <2>3 DEF Proceed, ConfigTypeOK, Go, shared
<1> QED BY <1>q, <1>1, <1>2, <1>3 DEF Proceed, own

LEMMA WriterType ==
    ASSUME ConfigInv, NEW p \in Writers, WriterStep(p) PROVE ConfigTypeOK'
<1>0. ConfigTypeOK /\ Guarded(p) BY DEF ConfigInv
<1>q. CASE Quit(p) /\ UNCHANGED <<shared, ran, edits>>
  BY <1>0, <1>q, QuitType DEF ConfigTypeOK, shared
<1>1. CASE ReadFile(p)
  <2>1. (IF file \in Contents THEN Defaults ELSE Parsed) \in Settings
    BY <1>0, ParsedIsSettings, DefaultsAreSettings
  <2>2. conf' \in [Writers -> Settings] BY <1>0, <1>1, <2>1 DEF ReadFile, ConfigTypeOK
  <2> QED BY <1>0, <1>1, <2>2 DEF ReadFile, ConfigTypeOK, Go, shared
<1>2. CASE Lock(p)
  <2>1. CASE at[p] = "lock" /\ Quit(p) BY <1>q, <1>2, <2>1 DEF Lock
  <2>2. CASE /\ Go(p, IF at[p] = "guard" THEN "look" ELSE "load") \/ Go(p, "loaded")
             /\ lock' = p \/ UNCHANGED lock
             /\ UNCHANGED own
    BY <1>0, <1>2, <2>2 DEF Lock, ConfigTypeOK, Go, shared, own
  <2> QED BY <1>2, <2>1, <2>2 DEF Lock, own
<1>3. CASE Look(p) BY <1>0, <1>3 DEF Look, ConfigTypeOK, Go, shared, own
<1>4. CASE Copy(p)
  <2>1. bad[p] \in Contents BY <1>0, <1>4 DEF Copy, Guarded, ConfigTypeOK
  <2>2. backups' \in [Contents -> Nat] /\ failed' \subseteq Contents
    BY <1>0, <1>4, <2>1 DEF Copy, ConfigTypeOK
  <2> QED BY <1>0, <1>4, <2>2 DEF Copy, ConfigTypeOK, Go, own
<1>5. CASE Proceed(p) BY <1>0, <1>5, ProceedType
<1>6. CASE Replace(p)
  <2>1. file' \in {Absent} \cup Settings \cup Contents BY <1>0, <1>6 DEF Replace, ConfigTypeOK
  <2>2. expect' \in Settings
    <3>1. expect' = Effect(op[p], expect) \/ expect' = expect BY <1>6 DEF Replace, Effect
    <3>2. op[p] \in Ops /\ expect \in Settings BY <1>0 DEF ConfigTypeOK
    <3> QED BY <3>1, <3>2, EffectIsSettings
  <2> QED BY <1>0, <1>6, <2>1, <2>2, QuitType DEF Replace, ConfigTypeOK
<1>7. CASE Kill(p) BY <1>q, <1>7 DEF Kill
<1> QED BY <1>1, <1>2, <1>3, <1>4, <1>5, <1>6, <1>7 DEF WriterStep

LEMMA NextType == ASSUME ConfigInv, ConfigNext PROVE ConfigTypeOK'
<1>0. ConfigTypeOK BY DEF ConfigInv
<1>1. ASSUME NEW p \in Writers, WriterStep(p) PROVE ConfigTypeOK' BY <1>1, WriterType
<1>2. ASSUME NEW p \in Writers, NEW o \in Ops, Run(p, o) PROVE ConfigTypeOK'
  BY <1>0, <1>2, ConfigAssumption DEF Run, ConfigTypeOK, Go, shared
<1>3. ASSUME NEW c \in Contents, Corrupt(c) PROVE ConfigTypeOK'
  BY <1>0, <1>3, ConfigAssumption DEF Corrupt, ConfigTypeOK, own
<1>4. CASE Restore BY <1>0, <1>4 DEF Restore, ConfigTypeOK, own
<1> QED BY <1>1, <1>2, <1>3, <1>4 DEF ConfigNext

-----------------------------------------------------------------------------
(* What the others do to a process *)

\* A step leaves the others alone, and takes from nobody the lock.
LEMMA Frame ==
    ASSUME ConfigTypeOK, NEW p \in Writers, WriterStep(p), NEW q \in Writers, q # p
    PROVE  /\ at'[q] = at[q] /\ op'[q] = op[q] /\ phase'[q] = phase[q]
           /\ conf'[q] = conf[q] /\ bad'[q] = bad[q]
           /\ lock = q => lock' = q
<1>q. CASE Quit(p) BY <1>q DEF ConfigTypeOK, Quit, Go
<1>1. CASE ReadFile(p) BY <1>1 DEF ReadFile, ConfigTypeOK, Go
<1>2. CASE Lock(p) BY <1>2, <1>q, ConfigAssumption DEF Lock, ConfigTypeOK, Go, own
<1>3. CASE Look(p) BY <1>3 DEF Look, ConfigTypeOK, Go, own
<1>4. CASE Copy(p) BY <1>4 DEF Copy, ConfigTypeOK, Go, own
<1>5. CASE Proceed(p) BY <1>5, <1>q DEF Proceed, ConfigTypeOK, Go, own
<1>6. CASE Replace(p) BY <1>6, <1>q DEF Replace
<1>7. CASE Kill(p) BY <1>7, <1>q DEF Kill
<1> QED BY <1>1, <1>2, <1>3, <1>4, <1>5, <1>6, <1>7 DEF WriterStep

\* Without the lock nothing shared is changed.
LEMMA OnlyUnderLock ==
    ASSUME NEW p \in Writers, Guarded(p), WriterStep(p), lock # p PROVE UNCHANGED shared
<1>1. at[p] \notin {"look", "copy", "write"} BY DEF Guarded, Unlocked
<1> QED BY <1>1 DEF WriterStep, ReadFile, Lock, Look, Copy, Proceed, Replace, Kill

LEMMA OthersKept ==
    ASSUME ConfigInv, NEW p \in Writers, WriterStep(p), NEW q \in Writers, q # p
    PROVE  Guarded(q)' /\ Current(q)' /\ Seen(q)'
<1>0. ConfigTypeOK /\ Guarded(p) /\ Guarded(q) /\ Current(q) /\ Seen(q) BY DEF ConfigInv
<1>1. /\ at'[q] = at[q] /\ op'[q] = op[q] /\ phase'[q] = phase[q]
      /\ conf'[q] = conf[q] /\ bad'[q] = bad[q]
      /\ lock = q => lock' = q
  BY <1>0, Frame
<1>2. Guarded(q)' BY <1>0, <1>1 DEF Guarded, Unlocked
<1>3. CASE lock = q
  <2>1. UNCHANGED shared BY <1>0, <1>3, OnlyUnderLock
  <2> QED BY <1>0, <1>1, <1>2, <2>1 DEF Current, Seen, Committed, Kept, shared
<1>4. CASE lock # q
  <2>1. phase[q] = 0 \/ at[q] = "lock" BY <1>0, <1>4 DEF Guarded
  <2>2. at[q] # "write" BY <1>0, <1>4 DEF Guarded, Unlocked
  <2>3. phase[q] = 0 \/ at[q] \notin {"look", "copy", "loaded", "write", "load"} BY <2>1
  <2> QED BY <1>1, <1>2, <2>2, <2>3 DEF Current, Seen, Committed
<1> QED BY <1>3, <1>4

-----------------------------------------------------------------------------
(* What its own steps do *)

LEMMA QuitKept ==
    ASSUME ConfigTypeOK, NEW p \in Writers, Quit(p)
    PROVE  Guarded(p)' /\ Current(p)' /\ Seen(p)'
<1>1. at'[p] = "off" /\ phase'[p] = 0 BY DEF ConfigTypeOK, Quit, Go
<1> QED BY <1>1 DEF Guarded, Current, Seen, Committed, Unlocked

LEMMA ReadKept ==
    ASSUME ConfigInv, NEW p \in Writers, ReadFile(p)
    PROVE  Guarded(p)' /\ Current(p)' /\ Seen(p)'
<1>0. ConfigTypeOK /\ SettingsStick /\ Guarded(p) /\ Current(p) BY DEF ConfigInv
<1>1. /\ at[p] = "load" /\ UNCHANGED <<file, expect, lock, op, phase>>
      /\ at' = [at EXCEPT ![p] = IF file \notin Contents THEN "loaded"
                                 ELSE IF lock = p THEN "look" ELSE "guard"]
      /\ bad'[p] = IF file \in Contents THEN file ELSE NoContent
  BY <1>0 DEF ReadFile, Go, shared, ConfigTypeOK
<1>2. at'[p] = IF file \notin Contents THEN "loaded" ELSE IF lock = p THEN "look" ELSE "guard"
  BY <1>0, <1>1 DEF ConfigTypeOK
<1>3. phase[p] # 2 /\ file \notin Contents => conf'[p] = expect
  BY <1>0 DEF ReadFile, SettingsStick, ConfigTypeOK
<1>4. phase[p] = 2 => conf' = conf BY DEF ReadFile
<1>5. phase[p] # 0 => lock = p BY <1>0, <1>1 DEF Guarded
<1>6. NoContent \notin Contents BY ConfigAssumption
<1>7. Guarded(p)' BY <1>0, <1>1, <1>2, <1>5, <1>6 DEF Guarded, Unlocked
<1>8. Current(p)' BY <1>0, <1>1, <1>2, <1>3, <1>4, <1>6 DEF Current
<1>9. Seen(p)' BY <1>1, <1>2, <1>6 DEF Seen, Committed
<1> QED BY <1>7, <1>8, <1>9

LEMMA LockKept ==
    ASSUME ConfigInv, NEW p \in Writers, Lock(p)
    PROVE  Guarded(p)' /\ Current(p)' /\ Seen(p)'
<1>0. ConfigTypeOK /\ SettingsStick /\ Guarded(p) /\ Current(p) BY DEF ConfigInv
<1>1. CASE Quit(p) BY <1>0, <1>1, QuitKept
<1>2. CASE lock' = p /\ Go(p, IF at[p] = "guard" THEN "look" ELSE "load") /\ UNCHANGED own
  BY <1>0, <1>2
  DEF Lock, Go, own, ConfigTypeOK, Guarded, Current, Seen, Committed, Unlocked
<1>3. CASE at[p] = "guard" /\ Go(p, "loaded") /\ UNCHANGED <<lock, own>>
  BY <1>0, <1>3
  DEF Lock, Go, own, ConfigTypeOK, Guarded, Current, Seen, Committed, Unlocked
<1> QED BY <1>1, <1>2, <1>3 DEF Lock

LEMMA BackupKept ==
    ASSUME ConfigInv, NEW p \in Writers, Look(p) \/ Copy(p)
    PROVE  Guarded(p)' /\ Current(p)' /\ Seen(p)'
<1>0. ConfigTypeOK /\ Guarded(p) /\ Current(p) /\ Seen(p) BY DEF ConfigInv
<1>1. CASE Look(p)
  <2>1. Guarded(p)' /\ Current(p)'
    BY <1>0, <1>1 DEF Look, Go, own, shared, ConfigTypeOK, Guarded, Current, Unlocked
  <2>2. Seen(p)'
    BY <1>0, <1>1 DEF Look, Go, own, shared, ConfigTypeOK, Seen, Committed, Kept
  <2> QED BY <2>1, <2>2
<1>2. CASE Copy(p)
  <2>1. Guarded(p)' /\ Current(p)'
    BY <1>0, <1>2 DEF Copy, Go, own, ConfigTypeOK, Guarded, Current, Unlocked
  <2>2. bad[p] \in Contents BY <1>0, <1>2 DEF Copy, Guarded, ConfigTypeOK
  <2>3. Kept(bad[p])' BY <1>0, <1>2, <2>2 DEF Copy, own, Kept, ConfigTypeOK
  <2>4. Seen(p)'
    BY <1>0, <1>2, <2>3 DEF Copy, Go, own, ConfigTypeOK, Seen, Committed, Kept
  <2> QED BY <2>1, <2>4
<1> QED BY <1>1, <1>2

LEMMA ProceedKept ==
    ASSUME ConfigInv, NEW p \in Writers, Proceed(p)
    PROVE  Guarded(p)' /\ Current(p)' /\ Seen(p)'
<1>0. ConfigTypeOK /\ SettingsStick /\ Guarded(p) /\ Current(p) /\ Seen(p) BY DEF ConfigInv
<1>q. CASE Quit(p) BY <1>0, <1>q, QuitKept
<1>l. at[p] = "loaded" /\ UNCHANGED <<file, backups, failed, expect>> BY DEF Proceed, shared
<1>o. op[p] \in Ops BY <1>0 DEF ConfigTypeOK
<1>1. CASE phase[p] = 0 /\ op[p].what # "show" /\ phase' = [phase EXCEPT ![p] = 1]
           /\ Go(p, "lock") /\ UNCHANGED op
  BY <1>0, <1>1 DEF Go, ConfigTypeOK, Guarded, Current, Seen, Committed, Unlocked
<1>2. CASE /\ phase[p] = 1 /\ op[p].what = "recover" /\ conf' = [conf EXCEPT ![p] = Defaults]
           /\ Go(p, "write") /\ UNCHANGED <<lock, op, phase, bad>>
  <2>1. conf'[p] = Effect(op[p], expect)' BY <1>0, <1>l, <1>2, EffectCases DEF ConfigTypeOK
  <2>2. at'[p] = "write" BY <1>0, <1>2 DEF Go, ConfigTypeOK
  <2>3. Guarded(p)' /\ Current(p)'
    BY <1>0, <1>l, <1>2, <2>1, <2>2 DEF Guarded, Current, Unlocked
  <2>4. Seen(p)' BY <1>0, <1>l, <1>2, <2>2 DEF Seen, Committed, Kept
  <2> QED BY <2>3, <2>4
<1>3. CASE /\ phase[p] = 2 /\ bad[p] = NoContent /\ Go(p, "write") /\ UNCHANGED <<lock, own>>
  <2>1. conf'[p] = Effect(op[p], expect)' BY <1>0, <1>l, <1>3 DEF Current, own
  <2>2. at'[p] = "write" BY <1>0, <1>3 DEF Go, ConfigTypeOK
  <2>3. Guarded(p)' /\ Current(p)'
    BY <1>0, <1>l, <1>3, <2>1, <2>2 DEF Guarded, Current, Unlocked, own
  <2>4. Seen(p)' BY <1>0, <1>l, <1>3, <2>2 DEF Seen, Committed, Kept, own
  <2> QED BY <2>3, <2>4
<1>4. CASE /\ phase[p] = 1 /\ op[p].what # "recover"
           /\ phase' = [phase EXCEPT ![p] = 2] /\ bad' = [bad EXCEPT ![p] = NoContent]
           /\ Go(p, "load") /\ UNCHANGED <<op, lock>>
           /\ conf' = [conf EXCEPT ![p] = CASE op[p].what = "set" -> [@ EXCEPT ![op[p].key] = op[p].value]
                                            [] op[p].what = "reset" -> Defaults
                                            [] OTHER -> @]
  <2>1. op[p].what \in {"set", "migrate", "reset"}
    BY <1>0, <1>o, <1>4, OpKinds DEF Guarded
  <2>2. conf'[p] = CASE op[p].what = "set" -> [conf[p] EXCEPT ![op[p].key] = op[p].value]
                     [] op[p].what = "reset" -> Defaults
                     [] OTHER -> conf[p]
    BY <1>0, <1>4, Zenon DEF ConfigTypeOK
  <2>3. conf'[p] = Effect(op[p], conf[p])
    <3>1. CASE op[p].what = "set" BY <2>2, <3>1, EffectCases, Zenon
    <3>2. CASE op[p].what = "reset" BY <2>2, <3>2, EffectCases, Zenon
    <3>3. CASE op[p].what = "migrate" BY <2>2, <3>3, EffectCases, Zenon
    <3> QED BY <2>1, <3>1, <3>2, <3>3
  <2>4. file \in Contents \/ conf'[p] = Effect(op[p], expect)
    BY <1>0, <1>l, <1>4, <2>3 DEF Current
  <2>5. at'[p] = "load" /\ phase'[p] = 2 BY <1>0, <1>4 DEF Go, ConfigTypeOK
  <2>6. Guarded(p)' BY <1>0, <1>l, <1>4, <2>5 DEF Guarded, Unlocked
  <2>7. Current(p)' /\ Seen(p)'
    BY <1>l, <1>4, <2>4, <2>5 DEF Current, Seen, Committed
  <2> QED BY <2>6, <2>7
<1> QED BY <1>q, <1>1, <1>2, <1>3, <1>4 DEF Proceed

LEMMA OwnKept ==
    ASSUME ConfigInv, NEW p \in Writers, WriterStep(p)
    PROVE  Guarded(p)' /\ Current(p)' /\ Seen(p)'
<1>0. ConfigTypeOK BY DEF ConfigInv
<1>1. CASE Replace(p) \/ Kill(p) BY <1>0, <1>1, QuitKept DEF Replace, Kill
<1> QED BY <1>1, ReadKept, LockKept, BackupKept, ProceedKept DEF WriterStep

LEMMA WriterSticks ==
    ASSUME ConfigInv, NEW p \in Writers, WriterStep(p) PROVE SettingsStick'
<1>0. ConfigTypeOK /\ SettingsStick /\ Guarded(p) /\ Current(p) BY DEF ConfigInv
<1>1. CASE UNCHANGED <<file, expect>> BY <1>0, <1>1 DEF SettingsStick, Parsed
<1>2. CASE Replace(p) /\ ~UNCHANGED <<file, expect>>
  <2>1. at[p] = "write" /\ file' = conf[p] BY <1>2 DEF Replace
  <2>2. expect' = Effect(op[p], expect) BY <1>2 DEF Replace, Effect
  <2>3. conf[p] = Effect(op[p], expect) BY <1>0, <2>1 DEF Current
  <2>4. conf[p] # Absent BY <1>0, ConfigAssumption DEF ConfigTypeOK
  <2> QED BY <2>1, <2>2, <2>3, <2>4 DEF SettingsStick, Parsed
<1> QED BY <1>1, <1>2 DEF WriterStep, ReadFile, Lock, Look, Copy, Proceed, Kill, shared

-----------------------------------------------------------------------------
(* The whole invariant *)

LEMMA NextConfig == ConfigInv /\ [ConfigNext]_configVars => ConfigInv'
<1> SUFFICES ASSUME ConfigInv, [ConfigNext]_configVars PROVE ConfigInv' OBVIOUS
<1>0. ConfigTypeOK /\ SettingsStick /\ \A q \in Writers : Guarded(q) /\ Current(q) /\ Seen(q)
  BY DEF ConfigInv
<1>1. ASSUME NEW p \in Writers, WriterStep(p) PROVE ConfigInv'
  <2>1. ConfigTypeOK' /\ SettingsStick' BY <1>1, WriterType, WriterSticks
  <2>2. \A q \in Writers : Guarded(q)' /\ Current(q)' /\ Seen(q)'
    BY <1>1, OwnKept, OthersKept
  <2> QED BY <2>1, <2>2 DEF ConfigInv
<1>2. ASSUME NEW p \in Writers, NEW o \in Ops, Run(p, o) PROVE ConfigInv'
  <2>1. ConfigTypeOK' BY <1>2, NextType DEF ConfigNext
  <2>2. SettingsStick' BY <1>0, <1>2 DEF Run, SettingsStick, Parsed, shared
  <2>3. ASSUME NEW q \in Writers PROVE Guarded(q)' /\ Current(q)' /\ Seen(q)'
    <3>1. CASE q = p
      BY <1>0, <1>2, <3>1 DEF Run, Go, ConfigTypeOK, Guarded, Current, Seen, Committed, Unlocked
    <3>2. CASE q # p
      <4>1. at'[q] = at[q] /\ op'[q] = op[q] BY <1>0, <1>2, <3>2 DEF Run, Go, ConfigTypeOK
      <4> QED BY <1>0, <1>2, <4>1
              DEF Run, Guarded, Current, Seen, Committed, Kept, Unlocked, shared
    <3> QED BY <3>1, <3>2
  <2> QED BY <2>1, <2>2, <2>3 DEF ConfigInv
<1>3. ASSUME NEW c \in Contents, Corrupt(c) PROVE ConfigInv'
  <2>1. ConfigTypeOK' BY <1>3, NextType DEF ConfigNext
  <2> QED BY <1>0, <1>3, <2>1
          DEF Corrupt, own, ConfigInv, SettingsStick, Guarded, Current, Seen, Committed, Unlocked
<1>4. CASE Restore
  <2>1. ConfigTypeOK' BY <1>4, NextType DEF ConfigNext
  <2>2. SettingsStick'
    BY <1>0, <1>4, ConfigAssumption DEF Restore, SettingsStick, Parsed, ConfigTypeOK
  <2>3. ASSUME NEW q \in Writers PROVE Guarded(q)' /\ Current(q)' /\ Seen(q)'
    <3>1. lock # q BY <1>4, ConfigAssumption DEF Restore
    <3>2. (phase[q] = 0 \/ at[q] = "lock") /\ at[q] # "write"
      BY <1>0, <3>1 DEF Guarded, Unlocked
    <3> QED BY <1>0, <1>4, <3>2
            DEF Restore, own, Guarded, Current, Seen, Committed, Unlocked
  <2> QED BY <2>1, <2>2, <2>3 DEF ConfigInv
<1>5. CASE UNCHANGED configVars
  BY <1>0, <1>5 DEF configVars, ConfigInv, ConfigTypeOK, SettingsStick, Parsed, Guarded, Current,
                    Seen, Committed, Kept
<1> QED BY <1>1, <1>2, <1>3, <1>4, <1>5 DEF ConfigNext

LEMMA ConfigInvariance == ConfigSpec => []ConfigInv
BY InitConfig, NextConfig, PTL DEF ConfigSpec

(* Type correctness, for any processes, settings, values and contents       *)
(* (config.py).                                                             *)
THEOREM ConfigTypeCorrect == ConfigSpec => []ConfigTypeOK
<1>1. ConfigInv => ConfigTypeOK BY DEF ConfigInv
<1> QED BY <1>1, ConfigInvariance, PTL

(* No update is lost (config.py:325-333), be there any number of processes, *)
(* settings and damages from outside.                                       *)
THEOREM UpdatesStick == ConfigSpec => []SettingsStick
<1>1. ConfigInv => SettingsStick BY DEF ConfigInv
<1> QED BY <1>1, ConfigInvariance, PTL

(* A damaged file is written over only once its content is in a backup or   *)
(* could not be copied (config.py:407-411).                                 *)
THEOREM DamageIsKept == ConfigSpec => DamageKept
<1>1. ASSUME ConfigInv, [ConfigNext]_configVars, NEW p \in Writers, NEW c \in Contents,
             at[p] = "write", file = c, file' # c
      PROVE  backups[c] > 0 \/ c \in failed
  <2>1. Guarded(p) /\ Seen(p) BY <1>1 DEF ConfigInv
  <2>2. Committed(p)
    <3>1. phase[p] \in 0 .. 2 BY <1>1 DEF ConfigInv, ConfigTypeOK
    <3> QED BY <1>1, <2>1, <3>1 DEF Guarded, Committed
  <2> QED BY <1>1, <2>1, <2>2 DEF Seen, Kept
<1>2. ConfigInv /\ [ConfigNext]_configVars
      => [\A p \in Writers, c \in Contents :
            at[p] = "write" /\ file = c /\ file' # c => backups[c] > 0 \/ c \in failed]_configVars
  BY <1>1
<1> QED BY <1>2, ConfigInvariance, PTL DEF ConfigSpec, DamageKept
=============================================================================
