-------------------------- MODULE AccountCommands --------------------------
(***************************************************************************)
(* Processes that run account commands (commands/account_cmd.py) and the     *)
(* logins of the other commands (commands/cloud_cmd.py, upload_cmd.py,       *)
(* queue_cmd.py) on one vault and one cache of sessions                      *)
(* (core/session_store.py, core/auth.py).  No lock guards either file.       *)
(* A process loads the vault once and saves the copy it has changed.         *)
(***************************************************************************)
EXTENDS Vault, FiniteSets

CONSTANTS Procs,
          Ids,          \* what commands name accounts by; NoEmail for the default
          OldVaults,    \* what earlier commands left in the vault
          NewLabels,    \* the labels each address is added with
          Silences,     \* how a probe may end without a verdict: "dropped", "garbled"
          MaxCommands,  \* bound: commands begun
          MaxLogins     \* bound: sessions the server hands out

ASSUME CommandAssumption ==
    /\ Ids \subseteq Emails \cup Labels \cup {NoEmail}
    /\ \A st \in OldVaults : st \in Stores /\ Loads(st) /\ OneKey(st)
    /\ NewLabels \in [Emails -> SUBSET (Labels \cup {NoLabel})]
    /\ Silences \subseteq {"dropped", "garbled"}
    /\ MaxCommands \in Nat /\ MaxLogins \in Nat \ {0}

VARIABLES
    vault,    \* accounts.json
    junk,     \* whether it was damaged by something else than this program
    cache,    \* the session file of each account id
    begun,    \* commands begun
    pc,       \* what each process does
    cmd,      \* its command
    mem,      \* the copy of the vault it loaded
    todo,     \* the accounts it has yet to use, or to log out
    client,   \* the session of its client, and the sid on the transport

    \* the server's
    live,     \* sessions that are good
    owner     \* the account of each session handed out

vars == <<vault, junk, cache, begun, pc, cmd, mem, todo, client, live, owner>>
files == <<vault, junk, cache>>
server == <<live, owner>>

Keys == {Lower[e] : e \in Emails} \cup Labels
KeyOf(id) == IF id \in Emails THEN Lower[id] ELSE id

NoSession == [sid |-> 0, pass |-> Dead]
NoClient == [session |-> 0, sid |-> 0]
Sids == 1 .. MaxLogins

Commands ==
    [op : {"add"}, id : Emails, label : Labels \cup {NoLabel}, pass : Passphrases,
     makeDefault : BOOLEAN, verify : BOOLEAN]
    \cup [op : {"remove", "default"}, id : Ids]
    \cup [op : {"use", "logout"}, id : Ids, pass : Passphrases]
    \cup [op : {"all", "end"}, pass : Passphrases]   \* refresh-all, logout --all
    \cup [op : {"none"}]

Steps == {"off", "verify", "load", "add", "remember", "remove", "forgetall", "default",
          "next", "probe", "forget", "login", "using", "record", "logout", "end"}

(* Some commands may have run before: a vault they left, and a session that  *)
(* is still good or not.                                                     *)
Init ==
    /\ vault \in OldVaults
    /\ junk = FALSE
    /\ begun = 0
    /\ pc = [p \in Procs |-> "off"]
    /\ cmd = [p \in Procs |-> [op |-> "none"]]
    /\ mem = [p \in Procs |-> NoStore]
    /\ todo = [p \in Procs |-> <<>>]
    /\ client = [p \in Procs |-> NoClient]
    /\ \/ cache = [k \in Keys |-> NoSession] /\ owner = <<>> /\ live = {}
       \/ \E e \in Emails, pass \in Passphrases :
             /\ cache = [[k \in Keys |-> NoSession] EXCEPT ![Lower[e]] = [sid |-> 1, pass |-> pass]]
             /\ owner = <<Lower[e]>> /\ live \in {{}, {1}}

Goto(p, s) == pc' = [pc EXCEPT ![p] = s]

\* The process ends, and what it held in memory with it.
Exit(p) ==
    /\ pc' = [pc EXCEPT ![p] = "off"]
    /\ cmd' = [cmd EXCEPT ![p] = [op |-> "none"]]
    /\ mem' = [mem EXCEPT ![p] = NoStore]
    /\ todo' = [todo EXCEPT ![p] = <<>>]
    /\ client' = [client EXCEPT ![p] = NoClient]

-----------------------------------------------------------------------------
(* A command begins and loads the vault *)

Begin(p, c) ==
    /\ pc[p] = "off" /\ begun < MaxCommands
    /\ begun' = begun + 1
    /\ cmd' = [cmd EXCEPT ![p] = c]
    /\ Goto(p, IF c.op = "add" /\ c.verify THEN "verify" ELSE "load")
    /\ UNCHANGED <<files, mem, todo, client, server>>

(* AccountManager: a vault that does not load is taken for an empty one in   *)
(* memory.  Only "add" goes on with no account; what is to be used or        *)
(* logged out is settled here.                                               *)
Load(p) ==
    /\ pc[p] = "load"
    /\ LET st == IF junk \/ ~Loads(vault) THEN NoStore ELSE vault
           emails == [i \in DOMAIN st.accounts |-> st.accounts[i].email]
           goes(step, ids) == /\ mem' = [mem EXCEPT ![p] = st]
                              /\ todo' = [todo EXCEPT ![p] = ids]
                              /\ Goto(p, step)
                              /\ UNCHANGED <<cmd, client>>
           c == cmd[p]
       IN  \/ c.op = "add" /\ goes("add", <<>>)
           \/ c.op \in {"remove", "default"} /\ Find(st, c.id) # 0 /\ goes(c.op, <<>>)
           \/ c.op = "use" /\ Find(st, Resolved(st, c.id)) # 0
              /\ goes("next", <<Resolved(st, c.id)>>)
           \/ c.op = "all" /\ emails # <<>> /\ goes("next", emails)
           \/ c.op = "logout" /\ Resolved(st, c.id) # NoEmail
              /\ goes("logout", <<Resolved(st, c.id)>>)
           \/ c.op = "end" /\ goes("logout", emails)
           \/ /\ \/ c.op \in {"remove", "default"} /\ Find(st, c.id) = 0
                 \/ c.op = "use" /\ Find(st, Resolved(st, c.id)) = 0
                 \/ c.op = "all" /\ emails = <<>>
                 \/ c.op = "logout" /\ Resolved(st, c.id) = NoEmail
              /\ Exit(p)
    /\ UNCHANGED <<files, begun, server>>

\* Variant (bug): the vault that was loaded is saved over whatever is there now.
SavedUnlooked(p, st, then) == vault' = st /\ junk' = FALSE /\ then

(* AccountStorage.save: the file is looked at again, only to refuse to       *)
(* write over one that does not load.                                        *)
Saved(p, st, then) ==
    \/ /\ ~junk /\ Loads(vault)
       /\ vault' = st
       /\ then
       /\ UNCHANGED junk
    \/ /\ junk \/ ~Loads(vault)
       /\ Exit(p)
       /\ UNCHANGED <<vault, junk>>

(* add_account; a readable account of that address stays as it is, and its   *)
(* session is cached all the same.                                           *)
Add(p) ==
    /\ pc[p] = "add"
    /\ LET c == cmd[p]
           after == IF client[p].session = 0
                    THEN Exit(p)
                    ELSE Goto(p, "remember") /\ UNCHANGED <<cmd, mem, todo, client>>
       IN  \/ ~Opens(mem[p], c.pass) /\ Exit(p) /\ UNCHANGED <<vault, junk>>
           \/ Opens(mem[p], c.pass) /\ Exists(mem[p], c.id) /\ after /\ UNCHANGED <<vault, junk>>
           \/ /\ Opens(mem[p], c.pass) /\ ~Exists(mem[p], c.id)
              /\ Saved(p, Added(mem[p], c.id, c.label, c.pass, c.makeDefault), after)
    /\ UNCHANGED <<cache, begun, server>>

RemoveAccount(p) ==
    /\ pc[p] = "remove"
    /\ Saved(p, Removed(mem[p], cmd[p].id),
             Goto(p, "forgetall") /\ UNCHANGED <<cmd, mem, todo, client>>)
    /\ UNCHANGED <<cache, begun, server>>

\* account_remove: the sessions under the id, the address and the label.
ForgetAll(p) ==
    /\ pc[p] = "forgetall"
    /\ LET a == mem[p].accounts[Find(mem[p], cmd[p].id)]
       IN  cache' = [k \in Keys |-> IF k \in {KeyOf(cmd[p].id), Lower[a.email], a.label}
                                    THEN NoSession ELSE cache[k]]
    /\ Exit(p)
    /\ UNCHANGED <<vault, junk, begun, server>>

SetDefault(p) ==
    /\ pc[p] = "default"
    /\ Saved(p, Defaulted(mem[p], cmd[p].id), Exit(p))
    /\ UNCHANGED <<cache, begun, server>>

-----------------------------------------------------------------------------
(* Sessions *)

Account(p) == mem[p].accounts[Find(mem[p], Head(todo[p]))]

(* The key a session is cached under: account commands, uploads and the      *)
(* queue take the address from the vault, cloud commands the id as given.    *)
SessionKey(p) == KeyOf(Head(todo[p]))

(* The next account of the command: its password must open.  restore_session *)
(* puts a cached session that opens on the client, and proves it.            *)
NextAccount(p) ==
    /\ pc[p] = "next"
    /\ \/ todo[p] = <<>> /\ Exit(p)
       \/ /\ todo[p] # <<>> /\ Account(p).cred # cmd[p].pass
          /\ todo' = [todo EXCEPT ![p] = Tail(@)]
          /\ UNCHANGED <<pc, cmd, mem, client>>
       \/ /\ todo[p] # <<>> /\ Account(p).cred = cmd[p].pass
          /\ LET f == cache[SessionKey(p)]
                 opens == f.sid # 0 /\ f.pass = cmd[p].pass
             IN  /\ client' = [client EXCEPT ![p] = IF opens THEN [session |-> f.sid, sid |-> f.sid]
                                                    ELSE NoClient]
                 /\ Goto(p, IF opens THEN "probe" ELSE "login")
          /\ UNCHANGED <<cmd, mem, todo>>
    /\ UNCHANGED <<files, begun, server>>

\* Variant (bug): the sid stays on the transport.
WithoutSessionOnly(p) == client' = [client EXCEPT ![p].session = 0]

\* A session that is not proven leaves neither the client nor the transport with it.
WithoutSession(p) == client' = [client EXCEPT ![p] = NoClient]

(* The probe: a live session answers, a dead one is refused and its file     *)
(* will go, and a connection that drops keeps the file.  Any other MegaError *)
(* counts as a refusal, whatever the server would have said.                 *)
Probe(p) ==
    /\ pc[p] = "probe"
    /\ \/ client[p].sid \in live /\ Goto(p, "using") /\ UNCHANGED client
       \/ client[p].sid \notin live /\ Goto(p, "forget") /\ WithoutSession(p)
       \/ "dropped" \in Silences /\ Goto(p, "login") /\ WithoutSession(p)
       \/ "garbled" \in Silences /\ Goto(p, "forget") /\ WithoutSession(p)
    /\ UNCHANGED <<files, begun, cmd, mem, todo, server>>

Forget(p) ==
    /\ pc[p] = "forget"
    /\ cache' = [cache EXCEPT ![SessionKey(p)] = NoSession]
    /\ Goto(p, "login")
    /\ UNCHANGED <<vault, junk, begun, cmd, mem, todo, client, server>>

\* What the account is whose password is sent.
LoginEmail(p) == IF cmd[p].op = "add" THEN cmd[p].id ELSE Account(p).email

(* login: the server hands out a session, unless the sid that is still on    *)
(* the transport spoils the request.                                         *)
LoggedIn(p) ==
    /\ Len(owner) < MaxLogins /\ client[p].sid = 0
    /\ owner' = Append(owner, Lower[LoginEmail(p)])
    /\ live' = live \cup {Len(owner) + 1}
    /\ client' = [client EXCEPT ![p] = [session |-> Len(owner) + 1, sid |-> Len(owner) + 1]]

(* account_add --verify; after a failed login the user may add the account   *)
(* anyway.                                                                   *)
Verify(p) ==
    /\ pc[p] = "verify"
    /\ \/ LoggedIn(p) /\ Goto(p, "load") /\ UNCHANGED <<cmd, mem, todo>>
       \/ Goto(p, "load") /\ UNCHANGED <<cmd, mem, todo, client, server>>
       \/ Exit(p) /\ UNCHANGED server
    /\ UNCHANGED <<files, begun>>

\* A login that fails ends the use of this account.
Login(p) ==
    /\ pc[p] = "login"
    /\ \/ LoggedIn(p) /\ Goto(p, "remember") /\ UNCHANGED todo
       \/ /\ todo' = [todo EXCEPT ![p] = Tail(@)]
          /\ Goto(p, "next")
          /\ UNCHANGED <<client, server>>
    /\ UNCHANGED <<files, begun, cmd, mem>>

\* remember_session, which may fail and is never fatal.
Remember(p) ==
    /\ pc[p] = "remember"
    /\ LET key == IF cmd[p].op = "add" THEN KeyOf(cmd[p].id) ELSE SessionKey(p)
       IN  \/ cache' = [cache EXCEPT ![key] = [sid |-> client[p].session, pass |-> cmd[p].pass]]
           \/ UNCHANGED cache
    /\ IF cmd[p].op = "add" THEN Exit(p) ELSE Goto(p, "using") /\ UNCHANGED <<cmd, mem, todo, client>>
    /\ UNCHANGED <<vault, junk, begun, server>>

\* The account is used, the transport is closed, and the quota read may fail.
Use(p) ==
    /\ pc[p] = "using"
    /\ client' = [client EXCEPT ![p] = NoClient]
    /\ \/ Goto(p, "record") /\ UNCHANGED todo
       \/ Goto(p, "next") /\ todo' = [todo EXCEPT ![p] = Tail(@)]
    /\ UNCHANGED <<files, begun, cmd, mem, server>>

\* update_quota saves the copy the process loaded, whatever others saved since.
Record(p) ==
    /\ pc[p] = "record"
    /\ Saved(p, mem[p], /\ Goto(p, "next")
                        /\ todo' = [todo EXCEPT ![p] = Tail(@)]
                        /\ UNCHANGED <<cmd, mem, client>>)
    /\ UNCHANGED <<cache, begun, server>>

(* account_logout, for each id with a cached session: a file that does not   *)
(* open is only removed; else the server is told, which it may not hear      *)
(* (a MegaError is passed over), and the file goes.  An error of the         *)
(* transport ends the command with the file in place.                        *)
Logout(p) ==
    /\ pc[p] = "logout"
    /\ LET key == SessionKey(p)
           next == todo' = [todo EXCEPT ![p] = Tail(@)] /\ UNCHANGED <<pc, cmd, mem, client>>
       IN  \/ todo[p] = <<>> /\ Exit(p) /\ UNCHANGED <<cache, live>>
           \/ todo[p] # <<>> /\ cache[key].sid = 0 /\ next /\ UNCHANGED <<cache, live>>
           \/ /\ todo[p] # <<>> /\ cache[key].sid # 0
              /\ \/ /\ cache' = [cache EXCEPT ![key] = NoSession]
                    /\ \/ live' = live \ {cache[key].sid} /\ cache[key].pass = cmd[p].pass
                       \/ UNCHANGED live
                    /\ next
                 \/ /\ cache[key].pass = cmd[p].pass
                    /\ Exit(p)
                    /\ UNCHANGED <<cache, live>>
    /\ UNCHANGED <<vault, junk, begun, owner>>

-----------------------------------------------------------------------------
(* What others do *)

\* MEGA expires a session, or it is ended from elsewhere.
Expire(s) ==
    /\ s \in live
    /\ live' = live \ {s}
    /\ UNCHANGED <<files, begun, pc, cmd, mem, todo, client, owner>>

\* The file is damaged, or put right by the user.
Damage ==
    /\ junk' = ~junk
    /\ UNCHANGED <<vault, cache, begun, pc, cmd, mem, todo, client, server>>

ProcStep(p) ==
    \/ Load(p) \/ Add(p) \/ RemoveAccount(p) \/ ForgetAll(p) \/ SetDefault(p)
    \/ NextAccount(p) \/ Probe(p) \/ Forget(p) \/ Verify(p) \/ Login(p)
    \/ Remember(p) \/ Use(p) \/ Record(p) \/ Logout(p)

Sensible(c) == c.op # "none" /\ (c.op = "add" => c.label \in NewLabels[c.id])

Next ==
    \/ \E p \in Procs : ProcStep(p) \/ \E c \in Commands : Sensible(c) /\ Begin(p, c)
    \/ \E s \in Sids : Expire(s)
    \/ Damage

Spec == Init /\ [][Next]_vars

-----------------------------------------------------------------------------
(* Properties *)

(* What the program saved, it loads again: account_cmd.py:162 says of an add *)
(* with a duplicate or an invalid field, "the vault is untouched either      *)
(* way".  But the validator (storage.py:224-320) knows more than add_account *)
(* and remove_account look for (manager.py:149-188).                         *)
VaultLoads == Loads(vault)

(* The address or the label that is being added is another account's to the  *)
(* validator, and not to add_account.                                        *)
AddsTakenName(p) ==
    /\ pc[p] = "add"
    /\ \E i \in DOMAIN mem[p].accounts :
          LET a == mem[p].accounts[i]
          IN  ~Same(a.email, cmd[p].id) /\ Clash(a, [email |-> cmd[p].id, label |-> cmd[p].label])

\* The account that is being removed is the default, in another spelling.
RemovesRespelled(p) ==
    /\ pc[p] = "remove" /\ mem[p].default # NoEmail
    /\ LET gone == mem[p].accounts[Find(mem[p], cmd[p].id)].email
       IN  gone # mem[p].default /\ Alike(gone, mem[p].default)

(* Only two commands write a vault that the next load refuses: an add of an  *)
(* address that differs by the space around it, or with a label in use       *)
(* (manager.py:153-176), and a remove of a default that was added again in   *)
(* another spelling (186).  No other command does, dead credentials, stale   *)
(* copies of several processes and whoever saves last included.              *)
OnlyTwoWaysSpoil ==
    [][Loads(vault) /\ ~Loads(vault')
          => \E p \in Procs : /\ AddsTakenName(p) \/ RemovesRespelled(p)
                              /\ pc'[p] # pc[p]]_vars

(* One passphrase opens every account that any passphrase opens              *)
(* (manager.py:98-181), although accounts come and go and two processes      *)
(* may both add the first one.                                               *)
OnePassphrase == OneKey(vault)

(* An account is used only with a session that was handed out for it, and    *)
(* a login goes out with no sid on the transport (session_store.py:61-121:   *)
(* a stale cache "turned into a hard login failure").                        *)
OnlyProvenSessions ==
    \A p \in Procs :
        /\ pc[p] = "using" => /\ client[p].session # 0 /\ client[p].sid = client[p].session
                              /\ owner[client[p].session] = Lower[Account(p).email]
        /\ pc[p] = "login" => client[p].sid = 0

(* A vault that was damaged while a command held a copy of it, or before,    *)
(* is left for the user: no command writes over it (storage.py:387-406).     *)
DamagedVaultKept == [][junk => vault' = vault]_vars
=============================================================================
