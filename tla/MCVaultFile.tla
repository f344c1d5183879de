---------------------------- MODULE MCVaultFile ----------------------------
(***************************************************************************)
(* Instance of VaultFile for TLC.  Two passwords and two payloads tell a   *)
(* rotation from a save; five headers are one more than the files and the  *)
(* memory can hold at once, so a fresh one always exists.                  *)
(***************************************************************************)
EXTENDS VaultFile, TLC

Symmetry == Permutations(Password) \cup Permutations(Header)
=============================================================================
