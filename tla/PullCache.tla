----------------------------- MODULE PullCache ------------------------------
(***************************************************************************)
(* How a device's cache of one workspace follows the lifecycle index: the   *)
(* paged pull of sync_service.py and the cache of outbox.py, driven by      *)
(* _pull_workspace of sidecar_client.py.  The handler reads active memories *)
(* and tombstones with two queries of one READ COMMITTED transaction, so a  *)
(* change may commit between them.  The cache and its position are kept per *)
(* workspace and shared by all agents of the device.                        *)
(***************************************************************************)
EXTENDS Lifecycle

CONSTANTS
    Agent,         \* agents of the device
    NoAgent,       \* no pull is running
    Sees,          \* [Agent -> SUBSET Memory], what the scopes let an agent see
    Limit,         \* changes per page (50 in the code)
    Supersession,  \* BOOLEAN: do users let one memory supersede another
    Concurrent,    \* BOOLEAN: may a change commit between the two queries
    MaxRevision,   \* bound on the server revision
    MaxResets      \* bound on changes of sync epoch and authorisation

ASSUME PullAssumption ==
    /\ IsFiniteSet(Memory)
    /\ NoAgent \notin Agent
    /\ Sees \in [Agent -> SUBSET Memory]
    /\ Limit \in Nat \ {0}
    /\ Supersession \in BOOLEAN
    /\ Concurrent \in BOOLEAN
    /\ MaxRevision \in Nat
    /\ MaxResets \in Nat

VARIABLES
    srvEpoch,   \* gateway_state.sync_epoch
    authEpoch,  \* [Agent -> Nat], authorisation epoch of the agent
    cache,      \* [Memory -> Nat], cached server_revision, 0: not cached
    stamp,      \* [Memory -> epochs the cached entry was fetched under]
    seen,       \* last_seen_revision of the workspace; the cursor equals it
    epochs,     \* <<sync epoch, authorisation epoch>> of the cache, 0: none
    who,        \* the agent that pulls
    pc,         \* "idle", "send", "memories", "tombstones" or "answer"
    found,      \* changes the handler has read so far
    answer      \* <<sync epoch, authorisation epoch>> that the answer carries

cacheVars == <<cache, stamp, seen, epochs>>
handlerVars == <<found, answer>>
vars == <<lifecycleVars, srvEpoch, authEpoch, cacheVars, who, pc, handlerVars>>

\* A change is a row of a page; "key" is its place in the order of
\* (revision, kind), in which a memory comes before a tombstone.
MemoryChange(m) == [mem |-> m, key |-> 2 * memRev[m], dead |-> FALSE]
Tombstone(m) == [mem |-> m, key |-> 2 * tombRev[m] + 1, dead |-> TRUE]
RevisionOf(c) == c.key \div 2

Change == [mem : Memory, key : Nat, dead : BOOLEAN]

\* The first n of a set of changes, in order.
First(S, n) == {c \in S : Cardinality({d \in S : d.key < c.key}) < n}

TypeOK ==
    /\ LifecycleTypeOK
    /\ srvEpoch \in Nat
    /\ authEpoch \in [Agent -> Nat]
    /\ cache \in [Memory -> Nat]
    /\ stamp \in [Memory -> Nat \X Nat]
    /\ seen \in Nat
    /\ epochs \in Nat \X Nat
    /\ who \in Agent \cup {NoAgent}
    /\ pc \in {"idle", "send", "memories", "tombstones", "answer"}
    /\ found \in SUBSET Change
    /\ answer \in Nat \X Nat

Init ==
    /\ LifecycleInit
    /\ srvEpoch = 1
    /\ authEpoch = [a \in Agent |-> 1]
    /\ cache = [m \in Memory |-> 0]
    /\ stamp = [m \in Memory |-> <<0, 0>>]
    /\ seen = 0
    /\ epochs = <<0, 0>>
    /\ who = NoAgent
    /\ pc = "idle"
    /\ found = {}
    /\ answer = <<0, 0>>

-----------------------------------------------------------------------------
(* The gateway's side.                                                      *)

\* A change of the lifecycle index commits.
ChangeCommits ==
    /\ revision < MaxRevision
    /\ Concurrent \/ pc # "tombstones"
    /\ \/ \E m \in Memory, how \in {"auto", "confirm"} : Activate(m, how)
       \/ \E m \in Memory : Forget(m) \/ RevertConfirm(m)
       \/ Supersession /\ \E m, t \in Memory : Supersede(m, t) \/ RevertSupersede(m, t)
    /\ UNCHANGED <<srvEpoch, authEpoch, cacheVars, who, pc, handlerVars>>

Resets == (srvEpoch - 1) + Cardinality({a \in Agent : authEpoch[a] > 1})

\* An operator starts a new sync epoch; an agent is revoked and paired again, or a
\* replayed refresh credential changes the authorisation of the device.
NewEpoch ==
    /\ Resets < MaxResets
    /\ srvEpoch' = srvEpoch + 1
    /\ UNCHANGED <<lifecycleVars, authEpoch, cacheVars, who, pc, handlerVars>>

NewAuthorisation(a) ==
    /\ Resets < MaxResets
    /\ authEpoch[a] = 1
    /\ authEpoch' = [authEpoch EXCEPT ![a] = 2]
    /\ UNCHANGED <<lifecycleVars, srvEpoch, cacheVars, who, pc, handlerVars>>

\* Mutant: the position goes back, the entries stay.
ClearCacheKeepsEntries(e) ==
    /\ UNCHANGED <<cache, stamp>>
    /\ seen' = 0
    /\ epochs' = <<e, 0>>

\* Forget the cache of the workspace and adopt the epoch e (clear_cache).
ClearCache(e) ==
    /\ cache' = [m \in Memory |-> 0]
    /\ stamp' = [m \in Memory |-> <<0, 0>>]
    /\ seen' = 0
    /\ epochs' = <<e, 0>>

\* pull(), first transaction: the epoch.  A sidecar of another epoch is told to
\* reset, and asks again.
ReadEpoch ==
    /\ pc = "send"
    /\ \/ /\ epochs[1] \notin {0, srvEpoch}
          /\ ClearCache(srvEpoch)
          /\ UNCHANGED <<pc, answer>>
       \/ /\ epochs[1] \in {0, srvEpoch}
          /\ answer' = <<srvEpoch, authEpoch[who]>>
          /\ pc' = "memories"
          /\ UNCHANGED cacheVars
    /\ UNCHANGED <<lifecycleVars, srvEpoch, authEpoch, who, found>>

\* What the two queries look for: active memories and tombstones in force, after the
\* position.
NewMemories == {MemoryChange(m) : m \in {n \in Sees[who] \cap Active : memRev[n] > seen}}
NewTombstones == {Tombstone(m) : m \in {n \in Sees[who] : tombRev[n] > seen}}

\* The first query, at most Limit + 1 rows.
ReadMemories ==
    /\ pc = "memories"
    /\ found' = First(NewMemories, Limit + 1)
    /\ pc' = "tombstones"
    /\ UNCHANGED <<lifecycleVars, srvEpoch, authEpoch, cacheVars, who, answer>>

\* The second query, at most Limit + 1 rows.
ReadTombstones ==
    /\ pc = "tombstones"
    /\ found' = found \cup First(NewTombstones, Limit + 1)
    /\ pc' = "answer"
    /\ UNCHANGED <<lifecycleVars, srvEpoch, authEpoch, cacheVars, who, answer>>

-----------------------------------------------------------------------------
(* The sidecar's side.                                                      *)

PullCall(a) ==
    /\ pc = "idle"
    /\ who' = a
    /\ pc' = "send"
    /\ UNCHANGED <<lifecycleVars, srvEpoch, authEpoch, cacheVars, handlerVars>>

\* The page that goes into the answer, and the position after it.
Page == First(found, Limit)
HasMore == Cardinality(found) > Limit

\* Mutants: the position jumps to the server's revision, or stops one short.
PageEndIsNewest == revision
PageEndOneShort == IF Page = {} THEN seen - 1
                   ELSE CHOOSE r \in {RevisionOf(c) - 1 : c \in Page} : \A c \in Page : RevisionOf(c) <= r + 1

PageEnd == IF Page = {} THEN seen
           ELSE CHOOSE r \in {RevisionOf(c) : c \in Page} : \A c \in Page : RevisionOf(c) <= r

Dead(m) == \E c \in Page : c.dead /\ c.mem = m
Live(m) == \E c \in Page : ~c.dead /\ c.mem = m
LiveRevision(m) == RevisionOf(CHOOSE c \in Page : ~c.dead /\ c.mem = m)

\* apply_pull_page: memories first (an older revision never replaces a newer
\* one), then tombstones, then the position, in one transaction.
ApplyPage ==
    /\ cache' = [m \in Memory |->
            IF Dead(m) THEN 0
            ELSE IF Live(m) /\ LiveRevision(m) >= cache[m] THEN LiveRevision(m)
            ELSE cache[m]]
    /\ stamp' = [m \in Memory |->
            IF Dead(m) THEN <<0, 0>>
            ELSE IF Live(m) /\ LiveRevision(m) >= cache[m] THEN answer
            ELSE stamp[m]]
    /\ seen' = PageEnd
    /\ epochs' = answer

\* Mutant: only the sync epoch clears the cache.
AuthChangeIgnored == FALSE

\* The authorisation the cache was filled under differs from the answer's.
AuthChanged == epochs[2] > 0 /\ epochs[2] # answer[2]

\* One round of _pull_workspace after the answer has arrived.
ReceivePage ==
    /\ pc = "answer"
    /\ \/ /\ AuthChanged
          /\ ClearCache(answer[1])
          /\ pc' = "send"
          /\ UNCHANGED who
       \/ /\ ~AuthChanged
          /\ ApplyPage
          /\ pc' = IF HasMore THEN "send" ELSE "idle"
          /\ who' = IF HasMore THEN who ELSE NoAgent
    /\ found' = {}
    /\ answer' = <<0, 0>>
    /\ UNCHANGED <<lifecycleVars, srvEpoch, authEpoch>>

\* No answer, an error answer, or the end of the sidecar process: what was
\* applied so far stays.
PullFails ==
    /\ pc # "idle"
    /\ pc' = "idle"
    /\ who' = NoAgent
    /\ found' = {}
    /\ answer' = <<0, 0>>
    /\ UNCHANGED <<lifecycleVars, srvEpoch, authEpoch, cacheVars>>

-----------------------------------------------------------------------------
PullStep == ReadEpoch \/ ReadMemories \/ ReadTombstones \/ ReceivePage

Next ==
    \/ ChangeCommits
    \/ NewEpoch
    \/ \E a \in Agent : NewAuthorisation(a) \/ PullCall(a)
    \/ PullStep
    \/ PullFails

Spec == Init /\ [][Next]_vars

\* The heartbeat pulls every 300 s, the handler runs on, and pulls do not fail
\* for ever.
FairSpec ==
    /\ Spec
    /\ WF_vars(\E a \in Agent : PullCall(a))
    /\ SF_vars(ReadEpoch)
    /\ SF_vars(ReadMemories)
    /\ SF_vars(ReadTombstones)
    /\ SF_vars(ReceivePage)

-----------------------------------------------------------------------------
(* What the cache promises.                                                 *)

\* The position is honest: for every memory that an agent of the device may see
\* and whose last change is not after the position, the cache holds the memory
\* at that very revision if it is active, and does not hold it if it was
\* superseded, forgotten or reverted.  A pull asks only for what comes after
\* the position, so a change it has passed is never fetched again.
SeenIsComplete ==
    \A a \in Agent : \A m \in Sees[a] : memRev[m] <= seen =>
        cache[m] = IF m \in Active THEN memRev[m] ELSE 0

\* No entry outlives the sync epoch or the authorisation it was fetched under
\* (clear_cache before a page of another epoch is applied).
NoStaleEntries ==
    \A m \in Memory : cache[m] # 0 => stamp[m] = epochs

\* The position never claims a revision that has not been handed out, and moves
\* back only when the cache is emptied.
PositionMoves ==
    [][/\ seen' <= revision
       /\ seen' < seen => \A m \in Memory : cache'[m] = 0]_vars

\* Once changes stop, the cache comes to hold exactly the active memories.
CacheConverges ==
    <>[](\A m \in Memory : cache[m] # 0 <=> m \in Active)
-----------------------------------------------------------------------------
(* The inductive invariants behind the safety properties.                   *)

\* Revisions are handed out in order, to the index first and then to the caches.
RevisionsInv ==
    /\ seen <= revision
    /\ \A m \in Memory :
          /\ memRev[m] <= revision /\ tombRev[m] <= memRev[m]
          /\ memStatus[m] = "none" <=> memRev[m] = 0
          /\ cache[m] <= memRev[m]

\* What the handler has found is newer than the position and not newer than the index.
FoundInv ==
    /\ pc \notin {"tombstones", "answer"} => found = {}
    /\ pc # "idle" => who \in Agent
    /\ \A c \in found : seen < RevisionOf(c) /\ RevisionOf(c) <= memRev[c.mem]

\* Entries are fetched under real epochs, and the answer of a running pull is of the
\* sync epoch of the cache.
EpochsInv ==
    /\ srvEpoch > 0 /\ \A a \in Agent : authEpoch[a] > 0
    /\ pc \in {"memories", "tombstones", "answer"} =>
          answer[1] > 0 /\ answer[2] > 0 /\ epochs[1] \in {0, answer[1]}
    /\ \A m \in Memory : cache[m] # 0 => epochs[1] > 0 /\ epochs[2] > 0

PullInv == TypeOK /\ RevisionsInv /\ FoundInv /\ EpochsInv /\ NoStaleEntries

\* Without supersession every revision belongs to one memory, and what is archived has
\* its tombstone at the revision of its last change.
PlainInv ==
    /\ \A m \in Memory :
          /\ memStatus[m] \in {"none", "active", "archived"}
          /\ memStatus[m] = "none" => origin[m] = "none"
          /\ IF memStatus[m] = "archived" THEN tombRev[m] = memRev[m] ELSE tombRev[m] = 0
    /\ \A m, n \in Memory : memRev[m] = memRev[n] /\ memRev[m] # 0 => m = n

\* The last change of a memory, as a row of a page.
LastChange(m) == IF m \in Active THEN MemoryChange(m) ELSE Tombstone(m)

\* Nothing commits between the queries, so the page holds every last change up to its
\* end; what it says of a memory that is still active is still true.
PageInv ==
    /\ pc = "tombstones" => found = First(NewMemories, Limit + 1)
    /\ pc = "answer" => \A c \in Page : \A m \in Sees[who] :
                            seen < memRev[m] /\ memRev[m] <= RevisionOf(c) => LastChange(m) \in Page
    /\ \A c \in found : c.mem \in Active => ~c.dead /\ c.key = 2 * memRev[c.mem]

CompleteInv == PullInv /\ PlainInv /\ PageInv /\ SeenIsComplete
=============================================================================
