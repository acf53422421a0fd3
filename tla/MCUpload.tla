------------------------------ MODULE MCUpload ------------------------------
(* Values for model checking Upload. *)
EXTENDS Upload, TLC

CONSTANTS p1, p2

ProcSymmetry == Permutations({p1, p2})

Versions == 1 .. NumVersions

\* The file is edited in place, then emptied.
EditedThenEmptied == <<2, 2, 0>>

\* The file grows.
Growing == <<1, 2>>
=============================================================================
