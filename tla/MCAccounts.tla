----------------------------- MODULE MCAccounts -----------------------------
(***************************************************************************)
(* Account commands alone, for TLC: one address in three spellings,        *)
(* another that may come with the label of the first, and passphrases of   *)
(* which one opens what is stored.                                         *)
(***************************************************************************)
EXTENDS AccountCommands

CONSTANTS amy, Amy, amy_, bob, home

LowerMC == [e \in {amy, Amy, amy_, bob} |-> IF e = Amy THEN amy ELSE e]
CanonicalMC == [n \in {amy, Amy, amy_, bob, home} |-> IF n \in {Amy, amy_} THEN amy ELSE n]
NewLabelsMC == [e \in {amy, Amy, amy_, bob} |-> IF e = bob THEN {NoLabel, home} ELSE {NoLabel}]

\* No vault yet; a labelled account whose credential is dead; one that is readable.
OldVaultsMC ==
    {NoStore} \cup
    {[accounts |-> <<[email |-> amy, label |-> home, cred |-> cred]>>, default |-> amy] :
        cred \in {Dead} \cup Passphrases}
=============================================================================
