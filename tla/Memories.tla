------------------------------ MODULE Memories ------------------------------
(***************************************************************************)
(* Stored memories, named by their backend reference ("gbrain:fact:n").     *)
(***************************************************************************)
EXTENDS Naturals, FiniteSets

CONSTANT
    Memory      \* backend references
=============================================================================
