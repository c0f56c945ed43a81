------------------------------ MODULE MCDevice ------------------------------
(* Instance of Device for TLC.                                             *)
EXTENDS Device, TLC

CONSTANTS r1, r2

Releases == {r1, r2}
Symmetry == Permutations(Releases)
=============================================================================
