----------------------------- MODULE MCSessions -----------------------------
(***************************************************************************)
(* Instance of Sessions for TLC: the launch in progress meets a running    *)
(* session of another profile.                                             *)
(***************************************************************************)
EXTENDS Sessions, TLC

Symmetry == Permutations(Profile)
=============================================================================
