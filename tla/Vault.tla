------------------------------- MODULE Vault -------------------------------
(***************************************************************************)
(* The account vault (accounts/storage.py, accounts/manager.py): what        *)
(* accounts.json holds, when it loads, and what each operation of            *)
(* AccountManager makes of the copy in memory.  Quota figures, dates, notes  *)
(* and names that are blank are left out.                                    *)
(***************************************************************************)
EXTENDS Integers, Sequences, SequencesExt

CONSTANTS Emails,       \* addresses as they are spelled
          Lower,        \* each in lower case, as the manager compares them
          Labels,
          Canonical,    \* each name in lower case and stripped, as the validator does
          NoLabel,
          Passphrases,
          Dead          \* a credential in a format no passphrase opens

NoEmail == "no default"

ASSUME VaultAssumption ==
    /\ NoLabel \notin Emails \cup Labels /\ Dead \notin Passphrases
    /\ NoEmail \notin Emails \cup Labels \cup {NoLabel} /\ Emails \cap Labels = {}
    /\ Lower \in [Emails -> Emails]
    /\ Canonical \in [Emails \cup Labels -> Emails \cup Labels]
    /\ \A e, f \in Emails : Lower[e] = Lower[f] => Canonical[e] = Canonical[f]

Accounts == [email : Emails, label : Labels \cup {NoLabel}, cred : Passphrases \cup {Dead}]
Stores == [accounts : Seq(Accounts), default : Emails \cup {NoEmail}]

NoStore == [accounts |-> <<>>, default |-> NoEmail]

Same(e, f) == Lower[e] = Lower[f]
Alike(m, n) == Canonical[m] = Canonical[n]

\* Two accounts of one address or of one label.
Clash(a, b) ==
    \/ Alike(a.email, b.email)
    \/ a.label # NoLabel /\ b.label # NoLabel /\ Alike(a.label, b.label)

(* validate_account_document: no two accounts clash, and the default names   *)
(* an account.                                                               *)
Loads(st) ==
    /\ \A i, j \in DOMAIN st.accounts : i # j => ~Clash(st.accounts[i], st.accounts[j])
    /\ \/ st.default = NoEmail
       \/ \E i \in DOMAIN st.accounts : Alike(st.accounts[i].email, st.default)

\* get_account: the account an address or a label names; 0 for none.
Matches(a, id) == IF id \in Emails THEN Same(a.email, id) ELSE a.label = id
Find(st, id) == SelectInSeq(st.accounts, LAMBDA a : Matches(a, id))

\* is_readable_format, which needs no passphrase.
Readable(a) == a.cred \in Passphrases

\* All the credentials that open do so with one passphrase.
OneKey(st) ==
    \A i, j \in DOMAIN st.accounts :
        Readable(st.accounts[i]) /\ Readable(st.accounts[j])
            => st.accounts[i].cred = st.accounts[j].cred

\* Variant (bug): the first account decides, even one no passphrase opens.
OpensFirst(st, pass) ==
    st.accounts # <<>> /\ Readable(st.accounts[1]) => st.accounts[1].cred = pass

(* The passphrase check of add_account: the first readable credential        *)
(* decides, and with none there is nothing to be consistent with.            *)
Opens(st, pass) ==
    LET i == SelectInSeq(st.accounts, Readable)
    IN  i # 0 => st.accounts[i].cred = pass

\* A readable account of that address is in the way.
Exists(st, email) == \E i \in DOMAIN st.accounts : Same(st.accounts[i].email, email) /\ Readable(st.accounts[i])

(* add_account past its checks: an account whose credential is dead is       *)
(* replaced and leaves its label; the first account becomes the default.     *)
Added(st, email, label, pass, makeDefault) ==
    LET i == Find(st, email)
        rest == IF i = 0 THEN st.accounts ELSE RemoveAt(st.accounts, i)
        name == IF label = NoLabel /\ i # 0 THEN st.accounts[i].label ELSE label
    IN  [accounts |-> Append(rest, [email |-> email, label |-> name, cred |-> pass]),
         default |-> IF makeDefault \/ st.default = NoEmail THEN email ELSE st.default]

\* Variant (bug): the default still names the account that is gone.
RemovedOnly(st, id) == [st EXCEPT !.accounts = RemoveAt(@, Find(st, id))]

(* remove_account: the default moves to the first account left.  The code    *)
(* keeps the accounts of another address: all but this one, for a store that *)
(* loads has no address twice.                                               *)
Removed(st, id) ==
    LET gone == st.accounts[Find(st, id)].email
        left == RemoveAt(st.accounts, Find(st, id))
    IN  [accounts |-> left,
         default |-> CASE st.default # gone -> st.default
                       [] left = <<>> -> NoEmail
                       [] OTHER -> left[1].email]

\* set_default
Defaulted(st, id) == [st EXCEPT !.default = st.accounts[Find(st, id)].email]

\* resolve_account_id of a command without --account, and no default in the configuration.
Resolved(st, id) == IF id = NoEmail THEN st.default ELSE id
=============================================================================
