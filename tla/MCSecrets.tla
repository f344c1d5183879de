----------------------------- MODULE MCSecrets -----------------------------
(***************************************************************************)
(* Instances of Secrets for TLC.                                           *)
(***************************************************************************)
EXTENDS Secrets, TLC

Symmetry == Permutations(Profile) \cup
    Permutations(Account) \cup Permutations(Factor) \cup Permutations(Code)

\* Bound: references with a row, a value or an interrupted service at a time.
FewReferences == Cardinality(RowRefs \cup entries \cup unsettled) <= 3
=============================================================================
