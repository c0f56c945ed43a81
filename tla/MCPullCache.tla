---------------------------- MODULE MCPullCache -----------------------------
(* Instances of PullCache for TLC: who sees which memories.                  *)
EXTENDS PullCache

CONSTANTS m1, m2, m3, a1, a2

\* All agents see everything.
SeeAll == [a \in Agent |-> Memory]
=============================================================================
