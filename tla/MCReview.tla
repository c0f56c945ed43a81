------------------------------ MODULE MCReview ------------------------------
EXTENDS Review, TLC

\* Memories and candidates are interchangeable.
SymmetricNames == Permutations(Memory) \cup Permutations(Candidate) \cup Permutations(Key)
=============================================================================
