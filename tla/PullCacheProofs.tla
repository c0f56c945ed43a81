-------------------------- MODULE PullCacheProofs ---------------------------
(***************************************************************************)
(* Proofs about PullCache: no entry outlives its epochs, the position moves *)
(* only forward, and a page that was read in one piece is complete up to    *)
(* its end, whatever the page size.                                         *)
(***************************************************************************)
EXTENDS PullCache, FiniteSetTheorems, FunctionTheorems, WellFoundedInduction, TLAPS

USE PullAssumption
-----------------------------------------------------------------------------
(* Least and greatest numbers, and the first elements of a set of changes.  *)

LEMMA Least ==
    ASSUME NEW T \in SUBSET Nat, T # {}
    PROVE  \E x \in T : \A y \in T : x <= y
<1> DEFINE R == {ss \in Nat \X Nat : ss[1] < ss[2]}
<1>1. IsWellFoundedOn(R, Nat)
  BY NatLessThanWellFounded DEF OpToRel
<1>2. PICK x \in T : \A y \in T : ~(<<y, x>> \in R)
  <2> HIDE DEF R
  <2>1. QED
    BY <1>1, WFMin
<1>3. \A y \in T : ~(y < x)
  BY <1>2
<1>4. QED
  BY <1>3

LEMMA Greatest ==
    ASSUME NEW T \in SUBSET Nat, T # {}, NEW b \in Nat, \A y \in T : y <= b
    PROVE  \E x \in T : \A y \in T : y <= x
<1> DEFINE U == {n \in Nat : \E y \in T : n = b - y}
<1>1. U \in SUBSET Nat
  OBVIOUS
<1>2. U # {}
  <2>1. PICK y \in T : TRUE
    OBVIOUS
  <2>2. b - y \in Nat
    OBVIOUS
  <2>3. QED
    BY <2>2
<1>3. PICK u \in U : \A v \in U : u <= v
  BY <1>1, <1>2, Least
<1>4. PICK x \in T : u = b - x
  OBVIOUS
<1>5. \A y \in T : b - y \in U
  OBVIOUS
<1>6. QED
  BY <1>3, <1>4, <1>5

\* The elements of a set of changes that come before c.
Below(S, c) == {d \in S : d.key < c.key}

LEMMA BelowFacts ==
    ASSUME NEW S, IsFiniteSet(S), NEW c
    PROVE  /\ IsFiniteSet(Below(S, c)) /\ Cardinality(Below(S, c)) \in Nat
           /\ \A T \in SUBSET Below(S, c) : Cardinality(T) <= Cardinality(Below(S, c))
<1>1. Below(S, c) \subseteq S
  BY DEF Below
<1>2. IsFiniteSet(Below(S, c))
  BY <1>1, FS_Subset
<1>3. QED
  BY <1>2, FS_Subset, FS_CardinalityType

LEMMA FirstFacts ==
    ASSUME NEW S, NEW n
    PROVE  /\ First(S, n) \subseteq S
           /\ \A c : c \in First(S, n) <=> c \in S /\ Cardinality(Below(S, c)) < n
BY DEF First, Below

\* If c comes after the first n elements of S, then n of them come before c.
LEMMA FirstReaches ==
    ASSUME NEW S \in SUBSET Change, IsFiniteSet(S), NEW c \in S, NEW n \in Nat, c \notin First(S, n)
    PROVE  Cardinality(Below(First(S, n), c)) >= n
<1> DEFINE F == Below(First(S, n), c)
           R == Below(S, c) \ F
<1>1. \A d \in S : d.key \in Nat
  BY DEF Change
<1>2. IsFiniteSet(First(S, n))
  BY FirstFacts, FS_Subset
<1>3. Cardinality(F) \in Nat /\ \A T \in SUBSET F : Cardinality(T) <= Cardinality(F)
  BY <1>2, BelowFacts
<1>4. SUFFICES ASSUME Cardinality(F) < n PROVE FALSE
  BY <1>3
<1>5. Cardinality(Below(S, c)) \in Nat /\ Cardinality(Below(S, c)) >= n
  BY BelowFacts, FirstFacts
<1>6. R # {}
  <2>1. SUFFICES ASSUME Below(S, c) \in SUBSET F PROVE FALSE
    OBVIOUS
  <2>2. Cardinality(Below(S, c)) <= Cardinality(F)
    BY <1>3, <2>1
  <2>3. QED
    BY <1>3, <1>4, <1>5, <2>2
<1>7. R \subseteq S
  BY DEF Below
<1> HIDE DEF F, R
<1>8. PICK d \in R : \A e \in R : d.key <= e.key
  <2> DEFINE K == {e.key : e \in R}
  <2>1. K \in SUBSET Nat /\ K # {}
    BY <1>1, <1>6, <1>7
  <2>2. PICK k \in K : \A j \in K : k <= j
    <3> HIDE DEF K
    <3>1. QED
      BY <2>1, Least
  <2>3. QED
    BY <2>2
<1>9. Below(S, d) \in SUBSET F
  <2>1. SUFFICES ASSUME NEW e \in Below(S, d), e \notin F PROVE FALSE
    OBVIOUS
  <2>2. e \in S /\ e.key < d.key /\ d \in S /\ d.key < c.key
    BY <1>8, <2>1 DEF R, Below
  <2>3. e \in R
    BY <1>1, <2>1, <2>2 DEF R, Below
  <2>4. QED
    BY <1>1, <1>8, <2>2, <2>3
<1>10. Cardinality(Below(S, d)) < n
  <2>1. Cardinality(Below(S, d)) \in Nat
    BY BelowFacts
  <2>2. QED
    BY <1>3, <1>4, <1>9, <2>1
<1>11. d \in First(S, n)
  BY <1>7, <1>8, <1>10, FirstFacts
<1>12. QED
  BY <1>8, <1>11 DEF F, R, Below

\* Two sets of changes are read separately, each up to n + 1 rows.  The first n rows of
\* both together lack no change that comes before one of them.
LEMMA PageHasNoGaps ==
    ASSUME NEW A \in SUBSET Change, IsFiniteSet(A), NEW B \in SUBSET Change, IsFiniteSet(B), NEW n \in Nat,
           NEW U, U = First(A, n + 1) \cup First(B, n + 1),
           NEW p \in First(U, n), NEW c \in A \cup B, c.key <= p.key
    PROVE  c \in First(U, n)
<1>1. U \in SUBSET Change /\ IsFiniteSet(U)
  <2>1. First(A, n + 1) \in SUBSET A /\ First(B, n + 1) \in SUBSET B
    BY FirstFacts
  <2>2. IsFiniteSet(First(A, n + 1)) /\ IsFiniteSet(First(B, n + 1))
    BY <2>1, FS_Subset
  <2>3. QED
    BY <2>1, <2>2, FS_Union
<1>2. p \in U /\ Cardinality(Below(U, p)) < n /\ Cardinality(Below(U, p)) \in Nat
  BY <1>1, FirstFacts, BelowFacts
<1>3. c.key \in Nat /\ p.key \in Nat
  BY <1>1, <1>2 DEF Change
<1>4. ASSUME NEW S \in SUBSET Change, IsFiniteSet(S), First(S, n + 1) \subseteq U, c \in S
      PROVE  c \in First(S, n + 1)
  <2>1. SUFFICES ASSUME c \notin First(S, n + 1) PROVE FALSE
    OBVIOUS
  <2>2. Cardinality(Below(First(S, n + 1), c)) >= n + 1
    BY <1>4, <2>1, FirstReaches
  <2>3. Below(First(S, n + 1), c) \in SUBSET Below(U, p)
    BY <1>1, <1>3, <1>4 DEF Below, Change
  <2>4. Cardinality(Below(First(S, n + 1), c)) <= Cardinality(Below(U, p))
    BY <1>1, <2>3, BelowFacts
  <2>5. IsFiniteSet(First(S, n + 1))
    BY <1>4, FirstFacts, FS_Subset
  <2>6. Cardinality(Below(First(S, n + 1), c)) \in Nat
    BY <2>5, BelowFacts
  <2>7. QED
    BY <1>2, <2>2, <2>4, <2>6
<1>5. c \in U
  BY <1>4
<1>6. Below(U, c) \in SUBSET Below(U, p)
  BY <1>1, <1>3 DEF Below, Change
<1>7. Cardinality(Below(U, c)) <= Cardinality(Below(U, p)) /\ Cardinality(Below(U, c)) \in Nat
  BY <1>1, <1>6, BelowFacts
<1>8. QED
  BY <1>2, <1>5, <1>7, FirstFacts
-----------------------------------------------------------------------------
(* Rows of pages.                                                           *)

LEMMA Halves ==
    ASSUME NEW k \in Nat
    PROVE  (2 * k) \div 2 = k /\ (2 * k + 1) \div 2 = k /\ k \div 2 \in Nat
OBVIOUS

LEMMA ChangeFacts ==
    ASSUME LifecycleTypeOK, NEW m \in Memory
    PROVE  /\ MemoryChange(m) \in Change /\ MemoryChange(m).mem = m /\ ~MemoryChange(m).dead
           /\ MemoryChange(m).key = 2 * memRev[m] /\ RevisionOf(MemoryChange(m)) = memRev[m]
           /\ Tombstone(m) \in Change /\ Tombstone(m).mem = m /\ Tombstone(m).dead
           /\ Tombstone(m).key = 2 * tombRev[m] + 1 /\ RevisionOf(Tombstone(m)) = tombRev[m]
<1>1. memRev[m] \in Nat /\ tombRev[m] \in Nat
  BY DEF LifecycleTypeOK
<1>2. QED
  BY <1>1, Halves DEF MemoryChange, Tombstone, Change, RevisionOf

\* What the two queries can return.
LEMMA QueryFacts ==
    ASSUME TypeOK, who \in Agent
    PROVE  /\ NewMemories \in SUBSET Change /\ IsFiniteSet(NewMemories)
           /\ NewTombstones \in SUBSET Change /\ IsFiniteSet(NewTombstones)
           /\ \A c \in NewMemories : \E m \in Sees[who] \cap Active : c = MemoryChange(m) /\ memRev[m] > seen
           /\ \A c \in NewTombstones : \E m \in Sees[who] : c = Tombstone(m) /\ tombRev[m] > seen
           /\ Sees[who] \subseteq Memory
<1>0. Sees[who] \subseteq Memory /\ LifecycleTypeOK
  BY DEF TypeOK
<1> DEFINE M == {n \in Sees[who] \cap Active : memRev[n] > seen}
           T == {n \in Sees[who] : tombRev[n] > seen}
<1>1. M \in SUBSET Memory /\ T \in SUBSET Memory
  BY <1>0
<1>2. IsFiniteSet(M) /\ IsFiniteSet(T)
  BY <1>1, FS_Subset
<1>3. NewMemories = {MemoryChange(m) : m \in M} /\ NewTombstones = {Tombstone(m) : m \in T}
  BY DEF NewMemories, NewTombstones
<1>4. IsFiniteSet(NewMemories)
  <2> HIDE DEF M
  <2>1. [m \in M |-> MemoryChange(m)] \in Surjection(M, NewMemories)
    BY <1>3 DEF Surjection
  <2>2. QED
    BY <1>2, <2>1, FS_Surjection
<1>5. IsFiniteSet(NewTombstones)
  <2> HIDE DEF T
  <2>1. [m \in T |-> Tombstone(m)] \in Surjection(T, NewTombstones)
    BY <1>3 DEF Surjection
  <2>2. QED
    BY <1>2, <2>1, FS_Surjection
<1>6. NewMemories \in SUBSET Change /\ NewTombstones \in SUBSET Change
  BY <1>0, <1>1, <1>3, ChangeFacts
<1>7. QED
  BY <1>0, <1>3, <1>4, <1>5, <1>6

\* The end of a page is the greatest revision in it.
LEMMA PageFacts ==
    ASSUME TypeOK, RevisionsInv, FoundInv
    PROVE  /\ Page \subseteq found
           /\ \A c \in Page : RevisionOf(c) \in Nat /\ RevisionOf(c) <= PageEnd /\ c.mem \in Memory
           /\ Page = {} => PageEnd = seen
           /\ Page # {} => \E c \in Page : PageEnd = RevisionOf(c)
           /\ PageEnd \in Nat /\ seen <= PageEnd /\ PageEnd <= revision
<1>1. Page \subseteq found
  BY FirstFacts DEF Page
<1>2. \A c \in found : /\ RevisionOf(c) \in Nat /\ c.mem \in Memory
                       /\ RevisionOf(c) <= revision /\ seen < RevisionOf(c)
  <2>1. SUFFICES ASSUME NEW c \in found
                 PROVE  /\ RevisionOf(c) \in Nat /\ c.mem \in Memory
                        /\ RevisionOf(c) <= revision /\ seen < RevisionOf(c)
    OBVIOUS
  <2>2. c.key \in Nat /\ c.mem \in Memory
    BY DEF TypeOK, Change
  <2>3. RevisionOf(c) \in Nat
    BY <2>2, Halves DEF RevisionOf
  <2>4. memRev[c.mem] \in Nat /\ revision \in Nat
    BY <2>2 DEF TypeOK, LifecycleTypeOK
  <2>5. QED
    BY <2>2, <2>3, <2>4 DEF RevisionsInv, FoundInv
<1>3. seen \in Nat /\ revision \in Nat /\ seen <= revision
  BY DEF TypeOK, LifecycleTypeOK, RevisionsInv
<1>4. CASE Page = {}
  BY <1>3, <1>4 DEF PageEnd
<1>5. CASE Page # {}
  <2> DEFINE K == {RevisionOf(c) : c \in Page}
  <2>1. K \in SUBSET Nat /\ K # {} /\ \A k \in K : k <= revision
    BY <1>1, <1>2, <1>5
  <2>2. \E k \in K : \A j \in K : j <= k
    <3> HIDE DEF K
    <3>1. QED
      BY <1>3, <2>1, Greatest
  <2>3. \E k \in K : \A c \in Page : RevisionOf(c) <= k
    BY <2>2
  <2>4. PageEnd = CHOOSE k \in K : \A c \in Page : RevisionOf(c) <= k
    BY <1>5 DEF PageEnd
  <2>5. PageEnd \in K /\ \A c \in Page : RevisionOf(c) <= PageEnd
    <3> HIDE DEF K
    <3>1. QED
      BY <2>3, <2>4
  <2>6. QED
    BY <1>1, <1>2, <1>3, <1>5, <2>5
<1>6. QED
  BY <1>1, <1>4, <1>5

LEMMA LiveFacts ==
    ASSUME NEW m \in Memory, Live(m)
    PROVE  \E c \in Page : ~c.dead /\ c.mem = m /\ LiveRevision(m) = RevisionOf(c)
<1> DEFINE P(c) == ~c.dead /\ c.mem = m
<1>1. \E c \in Page : P(c)
  BY DEF Live
<1>2. LiveRevision(m) = RevisionOf(CHOOSE c \in Page : P(c))
  BY DEF LiveRevision
<1>3. (CHOOSE c \in Page : P(c)) \in Page /\ P(CHOOSE c \in Page : P(c))
  <2> HIDE DEF P
  <2>1. QED
    BY <1>1
<1>4. QED
  BY <1>2, <1>3
-----------------------------------------------------------------------------
(* The lifecycle index.                                                     *)

\* Every operation takes one revision and gives it to all that it changes.
LEMMA IndexMoves ==
    ASSUME TypeOK, ChangeCommits
    PROVE  /\ LifecycleTypeOK' /\ revision' = revision + 1
           /\ \A m \in Memory :
                 \/ memRev'[m] = memRev[m] /\ memStatus'[m] = memStatus[m] /\ tombRev'[m] = tombRev[m]
                 \/ /\ memRev'[m] = revision + 1 /\ memStatus'[m] # "none"
                    /\ tombRev'[m] \in {0, tombRev[m], revision + 1}
<1>0. LifecycleTypeOK
  BY DEF TypeOK
<1>1. ASSUME NEW m \in Memory, NEW how \in {"auto", "confirm"}, Activate(m, how)
      PROVE  LifecycleTypeOK' /\ \A x \in Memory :
                 \/ memRev'[x] = memRev[x] /\ memStatus'[x] = memStatus[x] /\ tombRev'[x] = tombRev[x]
                 \/ /\ memRev'[x] = revision + 1 /\ memStatus'[x] # "none"
                    /\ tombRev'[x] \in {0, tombRev[x], revision + 1}
  BY <1>0, <1>1 DEF Activate, NextRevision, LifecycleTypeOK, MemStatus, Origin
<1>2. ASSUME NEW m \in Memory, Forget(m) \/ RevertConfirm(m)
      PROVE  LifecycleTypeOK' /\ \A x \in Memory :
                 \/ memRev'[x] = memRev[x] /\ memStatus'[x] = memStatus[x] /\ tombRev'[x] = tombRev[x]
                 \/ /\ memRev'[x] = revision + 1 /\ memStatus'[x] # "none"
                    /\ tombRev'[x] \in {0, tombRev[x], revision + 1}
  BY <1>0, <1>2 DEF Forget, RevertConfirm, WriteRevertConfirm, NextRevision, LifecycleTypeOK, MemStatus, Origin
<1>3. ASSUME NEW m \in Memory, NEW t \in Memory, Supersede(m, t)
      PROVE  LifecycleTypeOK' /\ \A x \in Memory :
                 \/ memRev'[x] = memRev[x] /\ memStatus'[x] = memStatus[x] /\ tombRev'[x] = tombRev[x]
                 \/ /\ memRev'[x] = revision + 1 /\ memStatus'[x] # "none"
                    /\ tombRev'[x] \in {0, tombRev[x], revision + 1}
  BY <1>0, <1>3 DEF Supersede, NextRevision, LifecycleTypeOK, MemStatus, Origin
<1>4. ASSUME NEW m \in Memory, NEW t \in Memory, RevertSupersede(m, t)
      PROVE  LifecycleTypeOK' /\ \A x \in Memory :
                 \/ memRev'[x] = memRev[x] /\ memStatus'[x] = memStatus[x] /\ tombRev'[x] = tombRev[x]
                 \/ /\ memRev'[x] = revision + 1 /\ memStatus'[x] # "none"
                    /\ tombRev'[x] \in {0, tombRev[x], revision + 1}
  BY <1>0, <1>4 DEF RevertSupersede, WriteRevertSupersede, NextRevision, LifecycleTypeOK, MemStatus, Origin
<1>5. revision' = revision + 1
  BY DEF ChangeCommits, Activate, Forget, RevertConfirm, WriteRevertConfirm, Supersede, RevertSupersede,
         WriteRevertSupersede, NextRevision
<1>6. QED
  BY <1>1, <1>2, <1>3, <1>4, <1>5 DEF ChangeCommits

\* The effect of applying a page to one entry of the cache.
LEMMA ApplyEffect ==
    ASSUME TypeOK, RevisionsInv, FoundInv, ApplyPage, NEW m \in Memory
    PROVE  \/ Dead(m) /\ cache'[m] = 0
           \/ ~Dead(m) /\ cache'[m] = cache[m] /\ stamp'[m] = stamp[m]
              /\ \A c \in Page : ~c.dead /\ c.mem = m => \E d \in Page : ~d.dead /\ d.mem = m /\ RevisionOf(d) < cache[m]
           \/ ~Dead(m) /\ stamp'[m] = answer
              /\ \E c \in Page : ~c.dead /\ c.mem = m /\ cache'[m] = RevisionOf(c)
<1>1. CASE Dead(m)
  BY <1>1 DEF ApplyPage
<1>2. CASE ~Dead(m) /\ Live(m)
  <2>1. PICK c \in Page : ~c.dead /\ c.mem = m /\ LiveRevision(m) = RevisionOf(c)
    BY <1>2, LiveFacts
  <2>2. RevisionOf(c) \in Nat /\ cache[m] \in Nat
    BY PageFacts DEF TypeOK
  <2>3. CASE LiveRevision(m) >= cache[m]
    BY <1>2, <2>1, <2>3 DEF ApplyPage
  <2>4. CASE ~(LiveRevision(m) >= cache[m])
    <3>1. cache'[m] = cache[m] /\ stamp'[m] = stamp[m]
      BY <1>2, <2>4 DEF ApplyPage
    <3>2. RevisionOf(c) < cache[m]
      BY <2>1, <2>2, <2>4
    <3>3. QED
      BY <1>2, <2>1, <3>1, <3>2
  <2>5. QED
    BY <2>3, <2>4
<1>3. CASE ~Dead(m) /\ ~Live(m)
  BY <1>3 DEF ApplyPage, Live
<1>4. QED
  BY <1>1, <1>2, <1>3
-----------------------------------------------------------------------------
(* The general invariant.                                                   *)

LEMMA PullStarts == Init => PullInv
<1> SUFFICES ASSUME Init PROVE PullInv
  OBVIOUS
<1>1. TypeOK
  BY DEF Init, LifecycleInit, TypeOK, LifecycleTypeOK, MemStatus, Origin
<1>2. RevisionsInv /\ FoundInv
  BY DEF Init, LifecycleInit, RevisionsInv, FoundInv
<1>3. EpochsInv /\ NoStaleEntries
  BY DEF Init, EpochsInv, NoStaleEntries
<1>4. QED
  BY <1>1, <1>2, <1>3 DEF PullInv

\* A change of the index leaves the cache behind, and never ahead.
LEMMA ChangeCommitsInv ==
    ASSUME PullInv, ChangeCommits
    PROVE  PullInv'
<1>0. TypeOK /\ RevisionsInv /\ FoundInv /\ EpochsInv /\ NoStaleEntries
  BY DEF PullInv
<1>1. UNCHANGED <<srvEpoch, authEpoch, cache, stamp, seen, epochs, who, pc, found, answer>>
  BY DEF ChangeCommits, cacheVars, handlerVars
<1>2. /\ revision' = revision + 1 /\ revision \in Nat /\ seen \in Nat
      /\ \A m \in Memory :
            /\ memRev[m] \in Nat /\ tombRev[m] \in Nat /\ cache[m] \in Nat
            /\ \/ memRev'[m] = memRev[m] /\ memStatus'[m] = memStatus[m] /\ tombRev'[m] = tombRev[m]
               \/ /\ memRev'[m] = revision + 1 /\ memStatus'[m] # "none"
                  /\ tombRev'[m] \in {0, tombRev[m], revision + 1}
  BY <1>0, IndexMoves DEF TypeOK, LifecycleTypeOK
<1>3. TypeOK'
  BY <1>0, <1>1, IndexMoves DEF TypeOK
<1>4. RevisionsInv'
  BY <1>0, <1>1, <1>2 DEF RevisionsInv
<1>5. FoundInv'
  <2>1. \A c \in found : c.mem \in Memory /\ RevisionOf(c) \in Nat
    BY <1>0, Halves DEF TypeOK, Change, RevisionOf
  <2>2. \A m \in Memory : memRev[m] <= memRev'[m] /\ memRev'[m] \in Nat
    BY <1>0, <1>2 DEF RevisionsInv
  <2>3. \A c \in found : seen < RevisionOf(c) /\ RevisionOf(c) <= memRev'[c.mem]
    BY <1>0, <1>2, <2>1, <2>2 DEF FoundInv
  <2>4. QED
    BY <1>0, <1>1, <2>3 DEF FoundInv, RevisionOf
<1>6. EpochsInv' /\ NoStaleEntries'
  BY <1>0, <1>1 DEF EpochsInv, NoStaleEntries
<1>7. QED
  BY <1>3, <1>4, <1>5, <1>6 DEF PullInv

LEMMA ClearCacheInv ==
    ASSUME PullInv, NEW e \in Nat, ClearCache(e), UNCHANGED <<lifecycleVars, srvEpoch, authEpoch>>
    PROVE  /\ LifecycleTypeOK' /\ srvEpoch' \in Nat /\ authEpoch' \in [Agent -> Nat]
           /\ cache' \in [Memory -> Nat] /\ stamp' \in [Memory -> Nat \X Nat] /\ seen' \in Nat
           /\ epochs' \in Nat \X Nat
           /\ RevisionsInv' /\ NoStaleEntries' /\ \A m \in Memory : cache'[m] = 0
<1>1. UNCHANGED <<revision, memStatus, memRev, supersededBy, origin, tombRev>>
  BY DEF lifecycleVars
<1>2. LifecycleTypeOK' /\ srvEpoch' \in Nat /\ authEpoch' \in [Agent -> Nat]
  BY <1>1 DEF PullInv, TypeOK, LifecycleTypeOK
<1>3. /\ cache' \in [Memory -> Nat] /\ stamp' \in [Memory -> Nat \X Nat] /\ seen' = 0
      /\ epochs' \in Nat \X Nat /\ \A m \in Memory : cache'[m] = 0
  BY DEF ClearCache
<1>4. RevisionsInv'
  BY <1>1, <1>3 DEF PullInv, TypeOK, LifecycleTypeOK, RevisionsInv
<1>5. QED
  BY <1>2, <1>3, <1>4 DEF NoStaleEntries

LEMMA ReadEpochInv ==
    ASSUME PullInv, ReadEpoch
    PROVE  PullInv'
<1>0. TypeOK /\ RevisionsInv /\ FoundInv /\ EpochsInv /\ NoStaleEntries
  BY DEF PullInv
<1>1. pc = "send" /\ who \in Agent /\ found = {} /\ UNCHANGED <<lifecycleVars, srvEpoch, authEpoch, who, found>>
  BY <1>0 DEF ReadEpoch, FoundInv
<1>2. CASE ClearCache(srvEpoch) /\ UNCHANGED <<pc, answer>>
  <2>1. srvEpoch \in Nat
    BY <1>0 DEF TypeOK
  <2>2. /\ LifecycleTypeOK' /\ srvEpoch' \in Nat /\ authEpoch' \in [Agent -> Nat]
        /\ cache' \in [Memory -> Nat] /\ stamp' \in [Memory -> Nat \X Nat] /\ seen' \in Nat
        /\ epochs' \in Nat \X Nat
        /\ RevisionsInv' /\ NoStaleEntries' /\ \A m \in Memory : cache'[m] = 0
    BY <1>1, <1>2, <2>1, ClearCacheInv
  <2>3. TypeOK'
    BY <1>0, <1>1, <1>2, <2>2 DEF TypeOK
  <2>4. FoundInv' /\ EpochsInv'
    BY <1>0, <1>1, <1>2, <2>2 DEF FoundInv, EpochsInv
  <2>5. QED
    BY <2>2, <2>3, <2>4 DEF PullInv
<1>3. CASE /\ epochs[1] \in {0, srvEpoch} /\ answer' = <<srvEpoch, authEpoch[who]>> /\ pc' = "memories"
           /\ UNCHANGED cacheVars
  <2>1. UNCHANGED <<revision, memStatus, memRev, supersededBy, origin, tombRev, cache, stamp, seen, epochs>>
    BY <1>1, <1>3 DEF lifecycleVars, cacheVars
  <2>2. srvEpoch \in Nat /\ authEpoch[who] \in Nat /\ srvEpoch > 0 /\ authEpoch[who] > 0
    BY <1>0, <1>1 DEF TypeOK, EpochsInv
  <2>3. TypeOK'
    BY <1>0, <1>1, <1>3, <2>1, <2>2 DEF TypeOK, LifecycleTypeOK
  <2>4. RevisionsInv' /\ NoStaleEntries'
    BY <1>0, <2>1 DEF RevisionsInv, NoStaleEntries
  <2>5. FoundInv'
    BY <1>1, <1>3 DEF FoundInv
  <2>6. EpochsInv'
    BY <1>0, <1>1, <1>3, <2>1, <2>2 DEF EpochsInv
  <2>7. QED
    BY <2>3, <2>4, <2>5, <2>6 DEF PullInv
<1>4. QED
  BY <1>2, <1>3 DEF ReadEpoch

\* The queries return changes after the position.
LEMMA QueriesInv ==
    ASSUME PullInv, ReadMemories \/ ReadTombstones
    PROVE  PullInv'
<1>0. TypeOK /\ RevisionsInv /\ FoundInv /\ EpochsInv /\ NoStaleEntries
  BY DEF PullInv
<1>1. /\ pc \in {"memories", "tombstones"} /\ pc' \in {"tombstones", "answer"}
      /\ UNCHANGED <<lifecycleVars, srvEpoch, authEpoch, cacheVars, who, answer>>
  BY DEF ReadMemories, ReadTombstones
<1>2. UNCHANGED <<revision, memStatus, memRev, supersededBy, origin, tombRev, cache, stamp, seen, epochs>>
  BY <1>1 DEF lifecycleVars, cacheVars
<1>3. who \in Agent
  BY <1>0, <1>1 DEF FoundInv
<1>4. \A c \in NewMemories \cup NewTombstones :
          c \in Change /\ seen < RevisionOf(c) /\ RevisionOf(c) <= memRev[c.mem]
  <2>1. SUFFICES ASSUME NEW c \in NewMemories \cup NewTombstones
                 PROVE  c \in Change /\ seen < RevisionOf(c) /\ RevisionOf(c) <= memRev[c.mem]
    OBVIOUS
  <2>2. PICK m \in Memory : \/ c = MemoryChange(m) /\ memRev[m] > seen
                            \/ c = Tombstone(m) /\ tombRev[m] > seen
    BY <1>0, <1>3, QueryFacts
  <2>3. memRev[m] \in Nat /\ tombRev[m] \in Nat /\ seen \in Nat /\ tombRev[m] <= memRev[m]
    BY <1>0 DEF TypeOK, LifecycleTypeOK, RevisionsInv
  <2>4. QED
    BY <1>0, <2>2, <2>3, ChangeFacts DEF TypeOK
<1>5. found' \subseteq found \cup NewMemories \cup NewTombstones
  BY FirstFacts DEF ReadMemories, ReadTombstones
<1>6. TypeOK'
  BY <1>0, <1>1, <1>2, <1>4, <1>5 DEF TypeOK, LifecycleTypeOK
<1>7. FoundInv'
  BY <1>0, <1>1, <1>2, <1>3, <1>4, <1>5 DEF FoundInv, RevisionOf
<1>8. RevisionsInv' /\ NoStaleEntries'
  BY <1>0, <1>2 DEF RevisionsInv, NoStaleEntries
<1>9. EpochsInv'
  BY <1>0, <1>1, <1>2 DEF EpochsInv
<1>10. QED
  BY <1>6, <1>7, <1>8, <1>9 DEF PullInv

\* A page is applied only to a cache of the same epochs, and moves the position to a
\* revision that the index has reached.
LEMMA ReceivePageInv ==
    ASSUME PullInv, ReceivePage
    PROVE  PullInv'
<1>0. TypeOK /\ RevisionsInv /\ FoundInv /\ EpochsInv /\ NoStaleEntries
  BY DEF PullInv
<1>1. /\ pc = "answer" /\ found' = {} /\ answer' = <<0, 0>> /\ UNCHANGED <<lifecycleVars, srvEpoch, authEpoch>>
      /\ who \in Agent /\ answer[1] > 0 /\ answer[2] > 0 /\ epochs[1] \in {0, answer[1]}
      /\ answer \in Nat \X Nat /\ epochs \in Nat \X Nat
  BY <1>0 DEF ReceivePage, FoundInv, EpochsInv, TypeOK
<1>2. UNCHANGED <<revision, memStatus, memRev, supersededBy, origin, tombRev>>
  BY <1>1 DEF lifecycleVars
<1>3. CASE ClearCache(answer[1]) /\ pc' = "send" /\ UNCHANGED who
  <2>1. answer[1] \in Nat
    BY <1>1
  <2>2. /\ LifecycleTypeOK' /\ srvEpoch' \in Nat /\ authEpoch' \in [Agent -> Nat]
        /\ cache' \in [Memory -> Nat] /\ stamp' \in [Memory -> Nat \X Nat] /\ seen' \in Nat
        /\ epochs' \in Nat \X Nat
        /\ RevisionsInv' /\ NoStaleEntries' /\ \A m \in Memory : cache'[m] = 0
    BY <1>1, <1>3, <2>1, ClearCacheInv
  <2>3. TypeOK'
    BY <1>0, <1>1, <1>3, <2>2 DEF TypeOK
  <2>4. FoundInv' /\ EpochsInv'
    BY <1>0, <1>1, <1>3, <2>2 DEF FoundInv, EpochsInv
  <2>5. QED
    BY <2>2, <2>3, <2>4 DEF PullInv
<1>4. CASE /\ ~AuthChanged /\ ApplyPage
           /\ pc' = (IF HasMore THEN "send" ELSE "idle") /\ who' = IF HasMore THEN who ELSE NoAgent
  <2>1. seen' = PageEnd /\ epochs' = answer
    BY <1>4 DEF ApplyPage
  <2>2. /\ Page \subseteq found /\ PageEnd \in Nat /\ PageEnd <= revision
        /\ \A c \in Page : RevisionOf(c) \in Nat /\ RevisionOf(c) <= memRev[c.mem]
    BY <1>0, PageFacts DEF FoundInv
  <2>3. \A m \in Memory : cache'[m] \in Nat /\ cache'[m] <= memRev[m] /\ stamp'[m] \in Nat \X Nat
    <3>1. SUFFICES ASSUME NEW m \in Memory
                   PROVE  cache'[m] \in Nat /\ cache'[m] <= memRev[m] /\ stamp'[m] \in Nat \X Nat
      OBVIOUS
    <3>2. cache[m] \in Nat /\ cache[m] <= memRev[m] /\ memRev[m] \in Nat
      BY <1>0 DEF TypeOK, LifecycleTypeOK, RevisionsInv
    <3>3. cache'[m] \in Nat /\ cache'[m] <= memRev[m]
      BY <1>0, <1>4, <2>2, <3>2, ApplyEffect
    <3>4. stamp'[m] \in Nat \X Nat
      BY <1>0, <1>1, <1>4 DEF ApplyPage, TypeOK
    <3>5. QED
      BY <3>3, <3>4
  <2>4. cache' \in [Memory -> Nat] /\ stamp' \in [Memory -> Nat \X Nat]
    BY <1>4, <2>3 DEF ApplyPage
  <2>5. TypeOK'
    BY <1>0, <1>1, <1>2, <1>4, <2>1, <2>2, <2>4 DEF TypeOK, LifecycleTypeOK
  <2>6. RevisionsInv'
    BY <1>0, <1>2, <2>1, <2>2, <2>3 DEF RevisionsInv
  <2>7. FoundInv'
    BY <1>1, <1>4 DEF FoundInv
  <2>8. EpochsInv'
    BY <1>0, <1>1, <1>4, <2>1 DEF EpochsInv
  <2>9. NoStaleEntries'
    <3>1. SUFFICES ASSUME NEW m \in Memory, cache'[m] # 0
                   PROVE  stamp'[m] = answer
      BY <2>1 DEF NoStaleEntries
    <3>2. CASE cache'[m] = cache[m] /\ stamp'[m] = stamp[m]
      <4>1. stamp[m] = epochs /\ epochs[1] > 0 /\ epochs[2] > 0
        BY <1>0, <3>1, <3>2 DEF NoStaleEntries, EpochsInv
      <4>2. epochs[1] = answer[1] /\ epochs[2] = answer[2]
        BY <1>1, <1>4, <4>1 DEF AuthChanged
      <4>3. QED
        BY <1>1, <3>2, <4>1, <4>2
    <3>3. QED
      BY <1>0, <1>4, <3>1, <3>2, ApplyEffect
  <2>10. QED
    BY <2>5, <2>6, <2>7, <2>8, <2>9 DEF PullInv
<1>5. QED
  BY <1>3, <1>4 DEF ReceivePage

\* The other steps leave the index and the cache alone.
LEMMA OtherStepsInv ==
    ASSUME PullInv, UNCHANGED <<lifecycleVars, cacheVars>>,
           \/ NewEpoch \/ PullFails \/ UNCHANGED vars
           \/ \E a \in Agent : NewAuthorisation(a) \/ PullCall(a)
    PROVE  PullInv'
<1>0. TypeOK /\ RevisionsInv /\ FoundInv /\ EpochsInv /\ NoStaleEntries
  BY DEF PullInv
<1>1. UNCHANGED <<revision, memStatus, memRev, supersededBy, origin, tombRev, cache, stamp, seen, epochs>>
  BY DEF lifecycleVars, cacheVars
<1>2. RevisionsInv' /\ NoStaleEntries'
  BY <1>0, <1>1 DEF RevisionsInv, NoStaleEntries
<1>3. CASE NewEpoch
  <2>1. srvEpoch' = srvEpoch + 1 /\ UNCHANGED <<authEpoch, who, pc, found, answer>>
    BY <1>3 DEF NewEpoch, handlerVars
  <2>2. TypeOK' /\ FoundInv' /\ EpochsInv'
    BY <1>0, <1>1, <2>1 DEF TypeOK, LifecycleTypeOK, FoundInv, EpochsInv, RevisionOf
  <2>3. QED
    BY <1>2, <2>2 DEF PullInv
<1>4. CASE PullFails
  <2>1. pc' = "idle" /\ who' = NoAgent /\ found' = {} /\ answer' = <<0, 0>> /\ UNCHANGED <<srvEpoch, authEpoch>>
    BY <1>4 DEF PullFails
  <2>2. TypeOK' /\ FoundInv' /\ EpochsInv'
    BY <1>0, <1>1, <2>1 DEF TypeOK, LifecycleTypeOK, FoundInv, EpochsInv
  <2>3. QED
    BY <1>2, <2>2 DEF PullInv
<1>5. CASE UNCHANGED vars
  <2>1. UNCHANGED <<srvEpoch, authEpoch, who, pc, found, answer>>
    BY <1>5 DEF vars, handlerVars
  <2>2. TypeOK' /\ FoundInv' /\ EpochsInv'
    BY <1>0, <1>1, <2>1 DEF TypeOK, LifecycleTypeOK, FoundInv, EpochsInv, RevisionOf
  <2>3. QED
    BY <1>2, <2>2 DEF PullInv
<1>6. ASSUME NEW a \in Agent, NewAuthorisation(a)
      PROVE  PullInv'
  <2>1. authEpoch' = [authEpoch EXCEPT ![a] = 2] /\ UNCHANGED <<srvEpoch, who, pc, found, answer>>
    BY <1>6 DEF NewAuthorisation, handlerVars
  <2>2. TypeOK' /\ FoundInv' /\ EpochsInv'
    BY <1>0, <1>1, <2>1 DEF TypeOK, LifecycleTypeOK, FoundInv, EpochsInv, RevisionOf
  <2>3. QED
    BY <1>2, <2>2 DEF PullInv
<1>7. ASSUME NEW a \in Agent, PullCall(a)
      PROVE  PullInv'
  <2>1. pc = "idle" /\ pc' = "send" /\ who' = a /\ UNCHANGED <<srvEpoch, authEpoch, found, answer>>
    BY <1>7 DEF PullCall, handlerVars
  <2>2. TypeOK' /\ FoundInv' /\ EpochsInv'
    BY <1>0, <1>1, <2>1 DEF TypeOK, LifecycleTypeOK, FoundInv, EpochsInv, RevisionOf
  <2>3. QED
    BY <1>2, <2>2 DEF PullInv
<1>8. QED
  BY <1>3, <1>4, <1>5, <1>6, <1>7

\* The steps, with those that leave the index and the cache alone together.
LEMMA PullCases ==
    ASSUME [Next]_vars
    PROVE  \/ ChangeCommits \/ ReadEpoch \/ ReadMemories \/ ReadTombstones \/ ReceivePage
           \/ /\ UNCHANGED <<lifecycleVars, cacheVars>>
              /\ \/ NewEpoch \/ PullFails \/ UNCHANGED vars
                 \/ \E a \in Agent : NewAuthorisation(a) \/ PullCall(a)
BY DEF Next, PullStep, NewEpoch, PullFails, NewAuthorisation, PullCall, vars

LEMMA PullInvStep ==
    ASSUME PullInv, [Next]_vars
    PROVE  PullInv'
BY PullCases, ChangeCommitsInv, ReadEpochInv, QueriesInv, ReceivePageInv, OtherStepsInv

\* The position moves forward, or the cache is emptied.
LEMMA PositionStep ==
    ASSUME PullInv, [Next]_vars
    PROVE  /\ seen' <= revision
           /\ seen' < seen => \A m \in Memory : cache'[m] = 0
<1>0. seen \in Nat /\ revision \in Nat /\ seen <= revision
  BY DEF PullInv, TypeOK, LifecycleTypeOK, RevisionsInv
<1>1. CASE UNCHANGED seen
  BY <1>0, <1>1
<1>2. CASE \E e : ClearCache(e)
  BY <1>0, <1>2 DEF ClearCache
<1>3. CASE ApplyPage
  <2>1. seen' = PageEnd /\ seen <= PageEnd /\ PageEnd <= revision /\ PageEnd \in Nat
    BY <1>3, PageFacts DEF ApplyPage, PullInv
  <2>2. QED
    BY <1>0, <2>1
<1>4. QED
  BY <1>1, <1>2, <1>3, PullCases DEF ChangeCommits, ReadEpoch, ReadMemories, ReadTombstones, ReceivePage, cacheVars
-----------------------------------------------------------------------------
(* The theorems.                                                            *)

\* The general invariant holds whatever the scopes, the page size and the operations on
\* the index are, and whatever commits between the two queries.
THEOREM PullInvariant == Spec => []PullInv
BY PullStarts, PullInvStep, PTL DEF Spec

\* The lifecycle index, the cache and the handler keep their types.
THEOREM PullTypeCorrect == Spec => []TypeOK
<1>1. PullInv => TypeOK
  BY DEF PullInv
<1>2. QED
  BY <1>1, PullInvariant, PTL

\* No cached entry outlives the sync epoch or the authorisation that it was fetched
\* under (apply_pull_page, clear_cache).
THEOREM EntriesKeepTheirEpochs == Spec => []NoStaleEntries
<1>1. PullInv => NoStaleEntries
  BY DEF PullInv
<1>2. QED
  BY <1>1, PullInvariant, PTL

\* last_seen_revision never runs ahead of the gateway and goes back only together with
\* the entries (apply_pull_page, clear_cache).
THEOREM PositionIsMonotonic == Spec => PositionMoves
<1>1. ASSUME PullInv, [Next]_vars
      PROVE  [/\ seen' <= revision
              /\ seen' < seen => \A m \in Memory : cache'[m] = 0]_vars
  BY <1>1, PositionStep
<1>2. QED
  BY <1>1, PullInvariant, PTL DEF Spec, PositionMoves
-----------------------------------------------------------------------------
(* Completeness, without supersession and without a commit between the two  *)
(* queries, for agents of the same scopes.                                  *)

Plain == ~Supersession /\ ~Concurrent /\ \A a, b \in Agent : Sees[a] = Sees[b]

\* One operation changes one memory: it becomes active, or is archived for good.
LEMMA PlainMoves ==
    ASSUME Plain, CompleteInv, ChangeCommits
    PROVE  /\ pc # "tombstones"
           /\ \E m \in Memory :
                 /\ memRev'[m] = revision + 1
                 /\ \/ memStatus[m] = "none" /\ memStatus'[m] = "active" /\ tombRev'[m] = 0
                    \/ memStatus[m] # "none" /\ memStatus'[m] = "archived" /\ tombRev'[m] = revision + 1
                 /\ \A x \in Memory \ {m} :
                       memRev'[x] = memRev[x] /\ memStatus'[x] = memStatus[x] /\ tombRev'[x] = tombRev[x]
                   /\ origin'[x] = origin[x]
                       /\ origin'[x] = origin[x]
<1>0. LifecycleTypeOK /\ PlainInv
  BY DEF CompleteInv, PullInv, TypeOK
<1>1. ASSUME NEW m \in Memory, NEW how \in {"auto", "confirm"}, Activate(m, how)
      PROVE  /\ memRev'[m] = revision + 1
             /\ memStatus[m] = "none" /\ memStatus'[m] = "active" /\ tombRev'[m] = 0
             /\ \A x \in Memory \ {m} :
                   memRev'[x] = memRev[x] /\ memStatus'[x] = memStatus[x] /\ tombRev'[x] = tombRev[x]
                   /\ origin'[x] = origin[x]
  BY <1>0, <1>1 DEF Activate, LifecycleTypeOK, PlainInv
<1>2. ASSUME NEW m \in Memory, memStatus[m] # "none", Forget(m) \/ RevertConfirm(m)
      PROVE  /\ memRev'[m] = revision + 1
             /\ memStatus'[m] = "archived" /\ tombRev'[m] = revision + 1
             /\ \A x \in Memory \ {m} :
                   memRev'[x] = memRev[x] /\ memStatus'[x] = memStatus[x] /\ tombRev'[x] = tombRev[x]
                   /\ origin'[x] = origin[x]
  BY <1>0, <1>2 DEF Forget, RevertConfirm, WriteRevertConfirm, LifecycleTypeOK
<1>3. ASSUME NEW m \in Memory, Forget(m) \/ RevertConfirm(m)
      PROVE  memStatus[m] # "none"
  BY <1>0, <1>3 DEF Forget, RevertConfirm, PlainInv
<1>4. pc # "tombstones"
  BY DEF ChangeCommits, Plain
<1>5. QED
  BY <1>1, <1>2, <1>3, <1>4 DEF ChangeCommits, Plain

LEMMA ActiveFacts ==
    ASSUME NEW m \in Memory
    PROVE  (m \in Active <=> memStatus[m] = "active") /\ (m \in Active' <=> memStatus'[m] = "active")
BY DEF Active

\* A change of the index is not before the position, and not on a page under way.
LEMMA ChangeCommitsComplete ==
    ASSUME Plain, CompleteInv, ChangeCommits
    PROVE  CompleteInv'
<1>0. /\ PullInv /\ PlainInv /\ PageInv /\ SeenIsComplete /\ PullInv' /\ TypeOK
      /\ RevisionsInv /\ FoundInv
  BY ChangeCommitsInv DEF CompleteInv, PullInv
<1>1. UNCHANGED <<cache, seen, who, pc, found>> /\ revision \in Nat /\ seen \in Nat
  BY <1>0 DEF ChangeCommits, cacheVars, handlerVars, TypeOK, LifecycleTypeOK
<1>2. PICK m \in Memory :
          /\ memRev'[m] = revision + 1
          /\ \/ memStatus[m] = "none" /\ memStatus'[m] = "active" /\ tombRev'[m] = 0
             \/ memStatus[m] # "none" /\ memStatus'[m] = "archived" /\ tombRev'[m] = revision + 1
          /\ \A x \in Memory \ {m} :
                memRev'[x] = memRev[x] /\ memStatus'[x] = memStatus[x] /\ tombRev'[x] = tombRev[x]
                /\ origin'[x] = origin[x]
  BY PlainMoves
<1>3. \A x \in Memory : memRev[x] \in Nat /\ memRev[x] <= revision /\ (memRev[x] = 0 <=> memStatus[x] = "none")
  BY <1>0 DEF TypeOK, LifecycleTypeOK, RevisionsInv
<1>4. PlainInv'
  BY <1>0, <1>1, <1>2, <1>3 DEF PlainInv
<1>5. SeenIsComplete'
  <2>1. SUFFICES ASSUME NEW a \in Agent, NEW x \in Sees[a], memRev'[x] <= seen
                 PROVE  cache[x] = IF x \in Active' THEN memRev'[x] ELSE 0
    BY <1>1 DEF SeenIsComplete
  <2>2. x \in Memory
    OBVIOUS
  <2>3. x # m
    BY <1>0, <1>1, <1>2, <2>1 DEF RevisionsInv
  <2>4. memRev[x] <= seen /\ memRev'[x] = memRev[x] /\ (x \in Active' <=> x \in Active)
    BY <1>2, <2>1, <2>2, <2>3, ActiveFacts
  <2>5. QED
    BY <1>0, <2>1, <2>4 DEF SeenIsComplete
<1>6. UNCHANGED Page
  BY <1>1 DEF Page, First
<1>7. PageInv'
  <2>1. pc' # "tombstones"
    BY <1>1, PlainMoves
  <2>2. ASSUME pc' = "answer", NEW c \in Page, NEW x \in Sees[who], seen < memRev'[x], memRev'[x] <= RevisionOf(c)
        PROVE  LastChange(x)' \in Page
    <3>1. who \in Agent /\ x \in Memory
      BY <1>0, <1>1, <2>2 DEF FoundInv
    <3>2. x # m
      <4>1. RevisionOf(c) \in Nat /\ RevisionOf(c) <= PageEnd /\ PageEnd \in Nat /\ PageEnd <= revision
        BY <1>0, PageFacts
      <4>2. QED
        BY <1>1, <1>2, <2>2, <4>1
    <3>3. memRev'[x] = memRev[x] /\ tombRev'[x] = tombRev[x] /\ (x \in Active' <=> x \in Active)
      BY <1>2, <3>1, <3>2, ActiveFacts
    <3>4. LastChange(x)' = LastChange(x)
      BY <3>3 DEF LastChange, MemoryChange, Tombstone
    <3>5. LastChange(x) \in Page
      BY <1>0, <1>1, <2>2, <3>3 DEF PageInv
    <3>6. QED
      BY <3>4, <3>5
  <2>3. ASSUME NEW c \in found, c.mem \in Active'
        PROVE  ~c.dead /\ c.key = 2 * memRev'[c.mem]
    <3>1. c.mem \in Memory /\ 0 < memRev[c.mem]
      <4>1. c.mem \in Memory /\ RevisionOf(c) \in Nat
        BY <1>0, Halves DEF TypeOK, Change, RevisionOf
      <4>2. QED
        BY <1>0, <1>1, <1>3, <4>1 DEF FoundInv
    <3>2. c.mem # m
      BY <1>2, <1>3, <2>3, <3>1, ActiveFacts
    <3>3. memRev'[c.mem] = memRev[c.mem] /\ c.mem \in Active
      BY <1>2, <2>3, <3>1, <3>2, ActiveFacts
    <3>4. QED
      BY <1>0, <3>3 DEF PageInv
  <2>4. QED
    BY <1>1, <1>6, <2>1, <2>2, <2>3 DEF PageInv, RevisionOf
<1>8. QED
  BY <1>0, <1>4, <1>5, <1>7 DEF CompleteInv

\* The tombstone query completes the page.
LEMMA ReadTombstonesComplete ==
    ASSUME Plain, CompleteInv, ReadTombstones
    PROVE  CompleteInv'
<1>0. /\ PullInv /\ PlainInv /\ PageInv /\ SeenIsComplete /\ PullInv' /\ TypeOK
      /\ RevisionsInv /\ FoundInv
  BY QueriesInv DEF CompleteInv, PullInv
<1>1. /\ pc = "tombstones" /\ pc' = "answer" /\ who \in Agent
      /\ found = First(NewMemories, Limit + 1) /\ found' = found \cup First(NewTombstones, Limit + 1)
      /\ UNCHANGED <<lifecycleVars, cacheVars, who>>
  BY <1>0 DEF ReadTombstones, FoundInv, PageInv
<1>2. UNCHANGED <<revision, memStatus, memRev, supersededBy, origin, tombRev, cache, stamp, seen, epochs>>
  BY <1>1 DEF lifecycleVars, cacheVars
<1>3. PlainInv' /\ SeenIsComplete'
  BY <1>0, <1>2 DEF PlainInv, SeenIsComplete, Active
<1>4. \A m \in Memory : memRev[m] \in Nat /\ tombRev[m] \in Nat /\ seen \in Nat
  BY <1>0 DEF TypeOK, LifecycleTypeOK
<1>5. /\ NewMemories \in SUBSET Change /\ IsFiniteSet(NewMemories)
      /\ NewTombstones \in SUBSET Change /\ IsFiniteSet(NewTombstones)
      /\ Sees[who] \subseteq Memory
  BY <1>0, <1>1, QueryFacts
<1>6. ASSUME NEW m \in Sees[who], seen < memRev[m]
      PROVE  /\ LastChange(m) \in NewMemories \cup NewTombstones /\ LastChange(m).mem = m
             /\ LastChange(m).key \in {2 * memRev[m], 2 * memRev[m] + 1}
  <2>1. m \in Memory /\ memStatus[m] \in {"active", "archived"} /\ (memStatus[m] = "archived" => tombRev[m] = memRev[m])
    BY <1>0, <1>4, <1>5, <1>6 DEF PlainInv, RevisionsInv
  <2>2. CASE m \in Active
    BY <1>0, <1>6, <2>1, <2>2, ChangeFacts DEF LastChange, NewMemories, TypeOK
  <2>3. CASE m \notin Active
    BY <1>0, <1>6, <2>1, <2>3, ChangeFacts, ActiveFacts DEF LastChange, NewTombstones, TypeOK
  <2>4. QED
    BY <2>2, <2>3
<1>7. \A c \in NewMemories \cup NewTombstones :
          /\ c.mem \in Sees[who] /\ c.key \in Nat
          /\ c.mem \in Active => ~c.dead /\ c.key = 2 * memRev[c.mem]
          /\ c.key \in {2 * memRev[c.mem], 2 * memRev[c.mem] + 1} /\ seen < memRev[c.mem]
  <2>1. ASSUME NEW c \in NewMemories
        PROVE  /\ c.mem \in Sees[who] \cap Active /\ ~c.dead /\ c.key = 2 * memRev[c.mem] /\ seen < memRev[c.mem]
    <3>1. PICK m \in Sees[who] \cap Active : c = MemoryChange(m) /\ memRev[m] > seen
      BY <1>0, <1>1, QueryFacts
    <3>2. QED
      BY <1>0, <1>4, <1>5, <3>1, ChangeFacts DEF TypeOK
  <2>2. ASSUME NEW c \in NewTombstones
        PROVE  /\ c.mem \in Sees[who] /\ c.mem \notin Active /\ c.key = 2 * memRev[c.mem] + 1 /\ seen < memRev[c.mem]
    <3>1. PICK m \in Sees[who] : c = Tombstone(m) /\ tombRev[m] > seen
      BY <1>0, <1>1, QueryFacts
    <3>2. memStatus[m] = "archived" /\ tombRev[m] = memRev[m]
      BY <1>0, <1>4, <1>5, <3>1 DEF PlainInv
    <3>3. QED
      BY <1>0, <1>4, <1>5, <3>1, <3>2, ChangeFacts, ActiveFacts DEF TypeOK
  <2>3. QED
    BY <1>5, <2>1, <2>2 DEF Change
<1>8. found' \subseteq NewMemories \cup NewTombstones
  BY <1>1, FirstFacts
<1>9. ASSUME NEW p \in Page', NEW m \in Sees[who], seen < memRev[m], memRev[m] <= RevisionOf(p)
      PROVE  LastChange(m) \in Page'
  <2> DEFINE c == LastChange(m)
  <2>1. Page' = First(found', Limit)
    BY DEF Page, First
  <2>2. p \in found' /\ p.mem \in Memory /\ m \in Memory
    BY <1>5, <1>7, <1>8, <2>1, FirstFacts
  <2>3. /\ c.key \in {2 * memRev[m], 2 * memRev[m] + 1} /\ c.mem = m
        /\ p.key \in {2 * memRev[p.mem], 2 * memRev[p.mem] + 1}
        /\ c \in NewMemories \cup NewTombstones
    BY <1>6, <1>7, <1>8, <1>9, <2>2
  <2>4. RevisionOf(p) = memRev[p.mem] /\ memRev[p.mem] \in Nat /\ memRev[m] \in Nat
    BY <1>4, <2>2, <2>3, Halves DEF RevisionOf
  <2>5. CASE memRev[m] = memRev[p.mem]
    <3>1. m = p.mem
      BY <1>0, <1>4, <1>9, <2>2, <2>5 DEF PlainInv
    <3>2. c.key = p.key
      <4>1. CASE m \in Active
        BY <1>7, <1>8, <2>2, <2>3, <3>1, <4>1
      <4>2. CASE m \notin Active
        <5>1. ASSUME NEW d \in NewMemories \cup NewTombstones, d.mem = m
              PROVE  d.key = 2 * memRev[m] + 1
          <6>1. d \in NewTombstones
            BY <1>0, <1>1, <1>5, <4>2, <5>1, QueryFacts, ChangeFacts DEF TypeOK
          <6>2. PICK n \in Sees[who] : d = Tombstone(n) /\ tombRev[n] > seen
            BY <1>0, <1>1, <6>1, QueryFacts
          <6>3. n = m /\ d.key = 2 * tombRev[m] + 1
            BY <1>0, <1>5, <5>1, <6>2, ChangeFacts DEF TypeOK
          <6>4. tombRev[m] = memRev[m]
            BY <1>0, <1>4, <2>2, <6>2, <6>3 DEF PlainInv
          <6>5. QED
            BY <6>3, <6>4
        <5>2. QED
          BY <1>8, <2>2, <2>3, <3>1, <5>1
      <4>3. QED
        BY <4>1, <4>2
    <3>3. c.key <= p.key
      BY <2>3, <2>4, <3>2
    <3>4. QED
      BY <1>1, <1>5, <2>1, <2>2, <2>3, <3>3, <1>9, PageHasNoGaps
  <2>6. CASE memRev[m] < memRev[p.mem]
    <3>1. c.key <= p.key
      BY <2>3, <2>4, <2>6
    <3>2. QED
      BY <1>1, <1>5, <2>1, <2>2, <2>3, <3>1, <1>9, PageHasNoGaps
  <2>7. QED
    BY <1>9, <2>4, <2>5, <2>6
<1>10. PageInv'
  <2>1. \A m \in Memory : LastChange(m)' = LastChange(m)
    BY <1>2 DEF LastChange, MemoryChange, Tombstone, Active
  <2>2. \A c \in found' : c.mem \in Active' => ~c.dead /\ c.key = 2 * memRev'[c.mem]
    BY <1>2, <1>7, <1>8 DEF Active
  <2>3. \A c \in Page' : \A m \in Sees[who'] :
            seen' < memRev'[m] /\ memRev'[m] <= RevisionOf(c) => LastChange(m)' \in Page'
    BY <1>1, <1>2, <1>5, <1>9, <2>1
  <2>4. QED
    BY <1>1, <2>2, <2>3 DEF PageInv, RevisionOf
<1>11. QED
  BY <1>0, <1>3, <1>10 DEF CompleteInv

\* An empty cache at position 0 is complete.
LEMMA EmptyIsComplete ==
    ASSUME PullInv, NEW e, ClearCache(e), UNCHANGED lifecycleVars
    PROVE  SeenIsComplete'
<1>1. seen' = 0 /\ (\A m \in Memory : cache'[m] = 0) /\ UNCHANGED <<memStatus, memRev>>
  BY DEF ClearCache, lifecycleVars
<1>2. \A m \in Memory : memRev[m] \in Nat /\ (memRev[m] = 0 => memStatus[m] = "none")
  BY DEF PullInv, TypeOK, LifecycleTypeOK, RevisionsInv
<1>3. SUFFICES ASSUME NEW m \in Memory, memRev'[m] <= seen'
               PROVE  cache'[m] = IF m \in Active' THEN memRev'[m] ELSE 0
  BY DEF SeenIsComplete
<1>4. m \notin Active'
  BY <1>1, <1>2, <1>3, ActiveFacts
<1>5. QED
  BY <1>1, <1>4

LEMMA IndexKept ==
    ASSUME CompleteInv, UNCHANGED lifecycleVars
    PROVE  PlainInv' /\ (UNCHANGED cacheVars => SeenIsComplete')
<1>1. UNCHANGED <<memStatus, memRev, origin, tombRev>>
  BY DEF lifecycleVars
<1>2. QED
  BY <1>1 DEF CompleteInv, PlainInv, SeenIsComplete, Active, cacheVars

LEMMA ReadEpochComplete ==
    ASSUME CompleteInv, ReadEpoch
    PROVE  CompleteInv'
<1>1. PullInv' /\ PlainInv'
  BY ReadEpochInv, IndexKept DEF CompleteInv, ReadEpoch
<1>2. SeenIsComplete'
  BY EmptyIsComplete, IndexKept DEF CompleteInv, ReadEpoch
<1>3. PageInv'
  <2>1. pc' \in {"send", "memories"} /\ found' = {}
    BY DEF ReadEpoch, CompleteInv, PullInv, FoundInv
  <2>2. QED
    BY <2>1 DEF PageInv
<1>4. QED
  BY <1>1, <1>2, <1>3 DEF CompleteInv

LEMMA ReadMemoriesComplete ==
    ASSUME CompleteInv, ReadMemories
    PROVE  CompleteInv'
<1>0. TypeOK /\ FoundInv
  BY DEF CompleteInv, PullInv
<1>1. PullInv' /\ PlainInv' /\ SeenIsComplete'
  BY QueriesInv, IndexKept DEF CompleteInv, ReadMemories
<1>2. /\ pc' = "tombstones" /\ found' = First(NewMemories, Limit + 1) /\ who \in Agent
      /\ UNCHANGED <<memStatus, memRev, who, seen>>
  BY <1>0 DEF ReadMemories, lifecycleVars, cacheVars, FoundInv
<1>3. NewMemories' = NewMemories
  BY <1>2 DEF NewMemories, MemoryChange, Active
<1>4. \A c \in found' : c.mem \in Active' => ~c.dead /\ c.key = 2 * memRev'[c.mem]
  <2>1. SUFFICES ASSUME NEW c \in found' PROVE ~c.dead /\ c.key = 2 * memRev[c.mem]
    BY <1>2
  <2>2. c \in NewMemories
    BY <1>2, FirstFacts
  <2>3. PICK m \in Memory : c = MemoryChange(m)
    BY <1>0, <1>2, <2>2, QueryFacts
  <2>4. QED
    BY <1>0, <2>3, ChangeFacts DEF TypeOK
<1>5. PageInv'
  <2>1. First(NewMemories, Limit + 1)' = First(NewMemories, Limit + 1)
    BY <1>3 DEF First
  <2>2. QED
    BY <1>2, <1>4, <2>1 DEF PageInv, First
<1>6. QED
  BY <1>1, <1>5 DEF CompleteInv

\* A page that lacks no last change up to its end brings the cache to its end.
LEMMA ReceivePageComplete ==
    ASSUME Plain, CompleteInv, ReceivePage
    PROVE  CompleteInv'
<1>0. TypeOK /\ RevisionsInv /\ FoundInv /\ PageInv /\ PlainInv /\ SeenIsComplete
  BY DEF CompleteInv, PullInv
<1>1. PullInv' /\ PlainInv'
  BY ReceivePageInv, IndexKept DEF CompleteInv, ReceivePage
<1>2. PageInv'
  <2>1. pc' \in {"send", "idle"} /\ found' = {}
    BY DEF ReceivePage
  <2>2. QED
    BY <2>1 DEF PageInv
<1>3. ASSUME ApplyPage
      PROVE  SeenIsComplete'
  <2>1. seen' = PageEnd /\ pc = "answer" /\ who \in Agent /\ UNCHANGED <<memStatus, memRev>>
    BY <1>0, <1>3 DEF ApplyPage, ReceivePage, lifecycleVars, FoundInv
  <2>2. SUFFICES ASSUME NEW a \in Agent, NEW m \in Sees[a], memRev[m] <= PageEnd
                 PROVE  cache'[m] = IF m \in Active THEN memRev[m] ELSE 0
    BY <2>1 DEF SeenIsComplete, Active
  <2>3. /\ m \in Memory /\ m \in Sees[who] /\ memRev[m] \in Nat /\ seen \in Nat
        /\ cache[m] \in Nat /\ cache[m] <= memRev[m]
    BY <1>0, <2>1, <2>2 DEF Plain, TypeOK, LifecycleTypeOK, RevisionsInv
  <2>4. \A c \in Page : /\ c \in found /\ RevisionOf(c) \in Nat /\ seen < RevisionOf(c)
                        /\ RevisionOf(c) <= memRev[c.mem]
    BY <1>0, PageFacts DEF FoundInv
  <2>5. CASE memRev[m] <= seen
    <3>1. \A c \in Page : c.mem # m
      BY <2>3, <2>4, <2>5
    <3>2. cache'[m] = cache[m]
      BY <1>0, <1>3, <2>3, <3>1, ApplyEffect DEF Dead
    <3>3. QED
      BY <1>0, <2>2, <2>5, <3>2 DEF SeenIsComplete
  <2>6. CASE seen < memRev[m]
    <3>1. PICK p \in Page : PageEnd = RevisionOf(p)
      BY <1>0, <2>2, <2>3, <2>6, PageFacts
    <3>2. LastChange(m) \in Page
      BY <1>0, <2>1, <2>2, <2>3, <2>6, <3>1 DEF PageInv
    <3>3. CASE m \in Active
      <4>1. MemoryChange(m) \in Page /\ ~MemoryChange(m).dead /\ MemoryChange(m).mem = m
        BY <1>0, <2>3, <3>2, <3>3, ChangeFacts DEF LastChange, TypeOK
      <4>2. ~Dead(m)
        BY <1>0, <2>4, <3>3 DEF Dead, PageInv
      <4>3. \A c \in Page : c.mem = m => RevisionOf(c) = memRev[m]
        BY <1>0, <2>3, <2>4, <3>3, Halves DEF PageInv, RevisionOf
      <4>4. \A c \in Page : c.mem = m => ~(RevisionOf(c) < cache[m])
        BY <2>3, <4>3
      <4>5. cache'[m] = memRev[m]
        BY <1>0, <1>3, <2>3, <4>1, <4>2, <4>3, <4>4, ApplyEffect
      <4>6. QED
        BY <3>3, <4>5
    <3>4. CASE m \notin Active
      <4>1. Dead(m)
        BY <1>0, <2>3, <3>2, <3>4, ChangeFacts DEF LastChange, Dead, TypeOK
      <4>2. QED
        BY <1>0, <1>3, <2>3, <3>4, <4>1, ApplyEffect
    <3>5. QED
      BY <3>3, <3>4
  <2>7. QED
    BY <2>3, <2>5, <2>6
<1>4. SeenIsComplete'
  BY <1>3, EmptyIsComplete DEF ReceivePage, CompleteInv
<1>5. QED
  BY <1>1, <1>2, <1>4 DEF CompleteInv

LEMMA OtherStepsComplete ==
    ASSUME CompleteInv, UNCHANGED <<lifecycleVars, cacheVars>>,
           \/ NewEpoch \/ PullFails \/ UNCHANGED vars
           \/ \E a \in Agent : NewAuthorisation(a) \/ PullCall(a)
    PROVE  CompleteInv'
<1>1. PullInv' /\ PlainInv' /\ SeenIsComplete'
  BY OtherStepsInv, IndexKept DEF CompleteInv
<1>2. CASE UNCHANGED <<who, pc, found>>
  <2>1. UNCHANGED <<memStatus, memRev, tombRev, seen>>
    BY DEF lifecycleVars, cacheVars
  <2>2. PageInv'
    <3>1. UNCHANGED <<Active, Page, NewMemories>>
      BY <1>2, <2>1 DEF Active, Page, First, NewMemories, MemoryChange
    <3>2. First(NewMemories, Limit + 1)' = First(NewMemories, Limit + 1)
      BY <3>1 DEF First
    <3>3. \A m \in Memory : LastChange(m)' = LastChange(m)
      BY <2>1, <3>1 DEF LastChange, MemoryChange, Tombstone
    <3>4. PageInv /\ (pc # "idle" => Sees[who] \subseteq Memory)
      BY DEF CompleteInv, PullInv, FoundInv
    <3>5. QED
      BY <1>2, <2>1, <3>1, <3>2, <3>3, <3>4 DEF PageInv, RevisionOf
  <2>3. QED
    BY <1>1, <2>2 DEF CompleteInv
<1>3. CASE pc' \in {"idle", "send"} /\ found' = {}
  BY <1>1, <1>3 DEF CompleteInv, PageInv
<1>4. QED
  BY <1>2, <1>3 DEF NewEpoch, PullFails, NewAuthorisation, PullCall, vars, handlerVars, CompleteInv, PullInv, FoundInv

LEMMA CompleteStarts == Init => CompleteInv
<1> SUFFICES ASSUME Init PROVE CompleteInv
  OBVIOUS
<1>1. PlainInv /\ PageInv
  BY DEF Init, LifecycleInit, PlainInv, PageInv
<1>2. SeenIsComplete
  BY DEF Init, LifecycleInit, SeenIsComplete, Active
<1>3. QED
  BY <1>1, <1>2, PullStarts DEF CompleteInv

\* Pages of any size, failures at any point and resets lose no change: if nothing
\* commits between the two queries of a pull, no memory supersedes another and the
\* agents of the device have the same scopes, then the cache is exact for all that is
\* not after the position (pull, apply_pull_page).
THEOREM CompleteUpToPosition ==
    ASSUME Plain
    PROVE  Spec => []SeenIsComplete
<1>1. ASSUME CompleteInv, [Next]_vars
      PROVE  CompleteInv'
  BY <1>1, PullCases, ChangeCommitsComplete, ReadEpochComplete, ReadMemoriesComplete, ReadTombstonesComplete,
     ReceivePageComplete, OtherStepsComplete
<1>2. CompleteInv => SeenIsComplete
  BY DEF CompleteInv
<1>3. QED
  BY <1>1, <1>2, CompleteStarts, PTL DEF Spec
=============================================================================
