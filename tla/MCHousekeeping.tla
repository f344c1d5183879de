--------------------------- MODULE MCHousekeeping ---------------------------
(* Housekeeping with small bounds; the secrets are interchangeable. *)
EXTENDS Housekeeping, TLC

MCThresholds == {1}
MCDelays == {1, 2}
OneDelay == {1}
Symmetry == Permutations(Secret)
=============================================================================
