----------------------------- MODULE MCRecords -----------------------------
(* Instance of Records for TLC.  Ids, names, notes and times are           *)
(* interchangeable: no action and no property tells two of them apart.     *)
EXTENDS Records, TLC

Symmetry ==
    Permutations(Profile) \cup Permutations(Account) \cup Permutations(Code)
      \cup Permutations(Name) \cup Permutations(Note) \cup Permutations(Time)
=============================================================================
