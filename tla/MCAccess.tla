------------------------------ MODULE MCAccess ------------------------------
EXTENDS Access, TLC

CONSTANTS a1, a2, d1, d2

\* Two devices with one agent each; the second one gets only one
\* token, without faults.
OwnerOfEach == (a1 :> d1) @@ (a2 :> d2)
FewFaults == (d1 :> 2) @@ (d2 :> 0)
FewSecrets == (d1 :> 3) @@ (d2 :> 1)

SymmetricCodes == Permutations(Code)
=============================================================================
