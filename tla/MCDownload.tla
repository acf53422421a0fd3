----------------------------- MODULE MCDownload -----------------------------
(* Values for model checking Download. *)
EXTENDS Download

CONSTANTS s1, s2

\* Two sources of the same size: only the state file tells their bytes apart.
TwoAlike == [s \in {s1, s2} |-> 2]

OneSource == [s \in {s1} |-> 2]

\* Settings that trust the resume state, with and without --overwrite.
Trusting == {[overwrite |-> o, keep |-> TRUE, verify |-> FALSE, resume |-> TRUE] : o \in BOOLEAN}

\* Settings that matter when servers send wrong bytes.
Checking == [overwrite : {TRUE}, keep : BOOLEAN, verify : BOOLEAN, resume : {TRUE}]
=============================================================================
