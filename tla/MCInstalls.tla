----------------------------- MODULE MCInstalls -----------------------------
(***************************************************************************)
(* Instances of Installs for TLC.                                          *)
(***************************************************************************)
EXTENDS Installs, TLC

Symmetry == Permutations(Version) \cup Permutations(Installer)
=============================================================================
