------------------------------- MODULE Review -------------------------------
(***************************************************************************)
(* Review operations (review_service.py), crystals (crystal_service.py) and *)
(* the memory backend they write.  An operation runs inside one transaction *)
(* of the metadata database that holds row locks, calls the backend, which  *)
(* commits on its own, and then commits or is rolled back.  Requests are    *)
(* named by their idempotency keys; a client that got no answer, or an      *)
(* error, may send the same request again, or another under a new key.      *)
(* One workspace, one crystal scope; nothing ever pins a memory.            *)
(***************************************************************************)
EXTENDS Lifecycle, Backend

CONSTANTS
    Candidate,  \* review candidates; each comes from one event
    NoOne,      \* no candidate, no key
    Overlap,    \* BOOLEAN: may a revert call the backend while another one, running
                \*   or failed, is between its backend call and its commit
    MaxStored,  \* bound on memories that the worker stores without review
    MaxRevision,\* bound on the server revision up to which clients repeat requests
    MaxOpen     \* bound on requests that are under way at the same time

ASSUME ReviewAssumption ==
    /\ NoOne \notin Candidate \cup Key
    /\ Key \cap Memory = {}
    /\ Overlap \in BOOLEAN
    /\ MaxStored \in Nat
    /\ MaxRevision \in Nat
    /\ MaxOpen \in Nat \ {0}

VARIABLES
    candStatus,  \* [Candidate -> status]
    candRev,     \* [Candidate -> Nat], review_candidates.revision
    lastOp,      \* [Candidate -> Key or NoOne], last_operation_id
    recorded,    \* keys in review_operations
    source,      \* [Memory -> Candidate or NoOne], source event of an index row
    keyed,       \* memories that have the entity and attribute key
    req,         \* [Key -> Request], what the client asks for
    stage,       \* [Key -> Stage]
    held,        \* [Key -> SUBSET Memory], index rows locked by the transaction
    crystal,     \* memory_crystals: status, revision, source_refs, page
    plan         \* crystal_rebuild_candidates.status of the crystal's scope

reviewVars == <<candStatus, candRev, lastOp, recorded, source, keyed>>
requestVars == <<req, stage, held>>
crystalVars == <<crystal, plan>>
vars == <<lifecycleVars, backendVars, reviewVars, requestVars, crystalVars>>

\* "closed": archived or rejected.
CandStatus == {"pending", "confirmed", "closed"}

\* "sent": on its way; "begun": checked and locked; "created": the fact exists
\* in the backend; "backed": the backend has done all its part.
Stage == {"unused", "sent", "begun", "created", "backed", "failed", "done", "refused"}
Running == {k \in Key : stage[k] \in {"begun", "created", "backed"}}

\* The actions of resolve, with confirm_edit as a confirm that may choose its
\* own keys, and archive and reject as one; revert names the operation it
\* compensates.
Op == {"confirm", "retain_both", "supersede", "close", "revert", "forget", "rebuild"}
Confirming == {"confirm", "retain_both", "supersede"}
Request == [op : Op, cand : Candidate \cup {NoOne}, rev : Nat, keys : BOOLEAN,
            mem : SUBSET Memory, of : Key \cup {NoOne}]
NoRequest == [op |-> "confirm", cand |-> NoOne, rev |-> 0, keys |-> FALSE, mem |-> {}, of |-> NoOne]

NoCrystal == [status |-> "none", gen |-> 0, refs |-> {}, page |-> {}]

TypeOK ==
    /\ LifecycleTypeOK
    /\ BackendTypeOK
    /\ candStatus \in [Candidate -> CandStatus]
    /\ candRev \in [Candidate -> Nat \ {0}]
    /\ lastOp \in [Candidate -> Key \cup {NoOne}]
    /\ recorded \in SUBSET Key
    /\ source \in [Memory -> Candidate \cup {NoOne}]
    /\ keyed \in SUBSET Memory
    /\ req \in [Key -> Request]
    /\ stage \in [Key -> Stage]
    /\ held \in [Key -> SUBSET Memory]
    /\ crystal \in [status : {"none", "ready", "stale"}, gen : Nat, refs : SUBSET Memory,
                    page : SUBSET Memory]
    /\ plan \in {"none", "pending", "rebuilt"}

Init ==
    /\ LifecycleInit
    /\ BackendInit
    /\ candStatus = [c \in Candidate |-> "pending"]
    /\ candRev = [c \in Candidate |-> 1]
    /\ lastOp = [c \in Candidate |-> NoOne]
    /\ recorded = {}
    /\ source = [m \in Memory |-> NoOne]
    /\ keyed = {}
    /\ req = [k \in Key |-> NoRequest]
    /\ stage = [k \in Key |-> "unused"]
    /\ held = [k \in Key |-> {}]
    /\ crystal = NoCrystal
    /\ plan = "none"
-----------------------------------------------------------------------------
(* Clients *)

\* A client looks at the candidates, the memories and the operations and sends
\* a request about them; expected_revision is the revision it saw.
Wish(r) ==
    \/ /\ r.op \in Op \ {"revert", "forget", "rebuild"}
       /\ r.cand \in Candidate /\ candStatus[r.cand] = "pending"
       /\ r.rev = candRev[r.cand]
       /\ r.of = NoOne
       /\ IF r.op = "supersede" THEN r.keys /\ \E t \in Active : r.mem = {t} ELSE r.mem = {}
       /\ r.op \in Confirming \/ ~r.keys
       /\ r.op = "retain_both" => r.keys /\ Active \cap keyed # {}
    \/ /\ r.op = "revert"
       /\ r.cand \in Candidate /\ r.rev = candRev[r.cand]
       /\ r.of # NoOne /\ r.of = lastOp[r.cand]
       /\ r.mem = {} /\ ~r.keys
    \/ /\ r.op = "forget" /\ \E m \in Active : r.mem = {m}
       /\ r.cand = NoOne /\ r.rev = 0 /\ ~r.keys /\ r.of = NoOne
    \/ /\ r.op = "rebuild" /\ r.mem = {}
       /\ r.cand = NoOne /\ r.rev = 0 /\ ~r.keys /\ r.of = NoOne

\* The requests that are worth enumerating in a state.
Wishes ==
    {r \in [op : Op, cand : Candidate \cup {NoOne}, rev : {0} \cup {candRev[c] : c \in Candidate},
            keys : BOOLEAN, mem : {{}} \cup {{m} : m \in Active},
            of : {NoOne} \cup {lastOp[c] : c \in Candidate}] : Wish(r)}

Open == {k \in Key : stage[k] \in {"sent", "begun", "created", "backed"}}

Submit(k) ==
    /\ stage[k] = "unused"
    /\ Cardinality(Open) < MaxOpen
    /\ \E r \in Wishes : req' = [req EXCEPT ![k] = r]
    /\ stage' = [stage EXCEPT ![k] = "sent"]
    /\ UNCHANGED <<lifecycleVars, backendVars, reviewVars, held, crystalVars>>

\* An error came back, or no answer: the client repeats the request.
Resend(k) ==
    /\ stage[k] \in {"failed", "done"}
    /\ revision < MaxRevision
    /\ Cardinality(Open) < MaxOpen
    /\ stage' = [stage EXCEPT ![k] = "sent"]
    /\ UNCHANGED <<lifecycleVars, backendVars, reviewVars, req, held, crystalVars>>
-----------------------------------------------------------------------------
(* The transaction of a request *)

\* Rows that other transactions have locked.
LockedRows(k) == UNION {held[j] : j \in Key \ {k}}
LockedCandidates(k) == {req[j].cand : j \in Running \ {k}} \ {NoOne}

\* _find_conflicts: active memories with the same keys.
Conflicts(r) == IF r.keys THEN Active \cap keyed ELSE {}

\* _existing_operation: the key has a recorded result.
Known(k) == k \in recorded

\* The operation that a revert compensates: what it made, and what it replaced.
RefOf(k) == made[req[k].of]
TargetOf(k) == req[req[k].of].mem

\* The rows that the checks of a request lock FOR UPDATE.
Rows(r) ==
    CASE r.op \in Confirming \cup {"close"} -> Conflicts(r)
      [] r.op = "forget" -> r.mem
      [] r.op = "rebuild" -> Active
      [] OTHER -> {}

\* Mutant: a revert does not ask for the revision and the last operation.
AcceptableStale(k) ==
    LET r == req[k] IN
    CASE r.op = "rebuild" -> Cardinality(Active) >= 2
      [] r.op = "forget" -> r.mem \subseteq Active
      [] r.op = "revert" -> ~Known(k) /\ req[r.of].op # "revert"
      [] OTHER ->
            /\ ~Known(k)
            /\ candRev[r.cand] = r.rev
            /\ candStatus[r.cand] = "pending"
            /\ r.op = "confirm" => Conflicts(r) = {}
            /\ r.op = "supersede" => r.mem \subseteq Conflicts(r)

\* The checks of resolve, revert, forget and rebuild.
Acceptable(k) ==
    LET r == req[k] IN
    CASE r.op = "rebuild" -> Cardinality(Active) >= 2
      [] r.op = "forget" -> r.mem \subseteq Active
      [] r.op = "revert" ->
            /\ ~Known(k)
            /\ candRev[r.cand] = r.rev
            /\ lastOp[r.cand] = r.of
            /\ req[r.of].op # "revert"
      [] OTHER ->
            /\ ~Known(k)
            /\ candRev[r.cand] = r.rev
            /\ candStatus[r.cand] = "pending"
            /\ r.op = "confirm" => Conflicts(r) = {}
            /\ r.op = "supersede" => r.mem \subseteq Conflicts(r)

LocksFree(k) ==
    /\ req[k].cand \notin LockedCandidates(k)
    /\ Rows(req[k]) \cap LockedRows(k) = {}

\* Lock the rows and check.  Refused requests end without an effect; a key that
\* is recorded is answered with the recorded result.
Begin(k) ==
    /\ stage[k] = "sent"
    /\ LocksFree(k)
    /\ IF Acceptable(k)
       THEN /\ stage' = [stage EXCEPT ![k] = "begun"]
            /\ held' = [held EXCEPT ![k] = Rows(req[k])]
       ELSE /\ stage' = [stage EXCEPT ![k] = IF Known(k) THEN "done" ELSE "refused"]
            /\ UNCHANGED held
    /\ UNCHANGED <<lifecycleVars, backendVars, reviewVars, req, crystalVars>>

\* Any error before the commit, in the backend or the metadata database, and
\* the choice as the victim of a deadlock: the transaction is rolled back, what
\* the backend has committed stays.
Fail(k) ==
    /\ k \in Running
    /\ stage' = [stage EXCEPT ![k] = "failed"]
    /\ held' = [held EXCEPT ![k] = {}]
    /\ UNCHANGED <<lifecycleVars, backendVars, reviewVars, req, crystalVars>>

\* _confirm calls upsert_confirmed.
CreateFact(k) ==
    /\ stage[k] = "begun"
    /\ req[k].op \in Confirming
    /\ \E m \in Memory : UpsertConfirmed(k, m)
    /\ stage' = [stage EXCEPT ![k] = IF req[k].op = "supersede" THEN "created" ELSE "backed"]
    /\ UNCHANGED <<lifecycleVars, reviewVars, req, held, crystalVars>>

\* Reverts that the backend has done and the metadata database has not.
HalfReverted == {j \in Key : req[j].op = "revert" /\ j \in bdone \ recorded}

\* The other calls of the backend.  A state conflict is an error: see Fail.
CallBackend(k) ==
    /\ Overlap \/ req[k].op # "revert" \/ HalfReverted \subseteq {k}
    /\ \/ /\ stage[k] = "created"
          /\ \E t \in req[k].mem, m \in made[k] : SupersedeFact(k, t, m)
       \/ /\ stage[k] = "begun" /\ req[k].op = "forget"
          /\ \E m \in req[k].mem : ArchiveFact(m, m)
       \/ /\ stage[k] = "begun" /\ req[k].op = "revert" /\ req[req[k].of].op = "supersede"
          /\ \E m \in RefOf(k), t \in TargetOf(k) : RestoreSuperseded(k, t, m)
       \/ /\ stage[k] = "begun" /\ req[k].op = "revert"
          /\ req[req[k].of].op \in Confirming \ {"supersede"}
          /\ \E m \in RefOf(k) : ArchiveFact(k, m)
       \/ /\ stage[k] = "begun" /\ req[k].op = "rebuild"
          /\ RebuildPage(k, held[k])
    /\ stage' = [stage EXCEPT ![k] = "backed"]
    /\ UNCHANGED <<lifecycleVars, reviewVars, req, held, crystalVars>>

\* Mutant: a change of a memory leaves the crystal as it is.
MarkNothing == UNCHANGED crystal

\* mark_crystal_stale
MarkStale ==
    crystal' = IF crystal.status = "ready" THEN [crystal EXCEPT !.status = "stale"] ELSE crystal

\* _record_operation and the update of the candidate.
RecordOperation(k, status) ==
    LET c == req[k].cand IN
    /\ recorded' = recorded \cup {k}
    /\ candStatus' = [candStatus EXCEPT ![c] = status]
    /\ candRev' = [candRev EXCEPT ![c] = @ + 1]
    /\ lastOp' = [lastOp EXCEPT ![c] = k]

\* _confirm.  The index allows one row per source event (UNIQUE), so a candidate
\* that had a row before cannot get another.
CommitConfirm(k) ==
    /\ stage[k] = "backed" /\ req[k].op \in Confirming
    /\ \A n \in Memory : source[n] # req[k].cand
    /\ \E m \in made[k] :
         /\ IF req[k].op = "supersede" THEN \E t \in req[k].mem : Supersede(m, t)
                                        ELSE Activate(m, "confirm")
         /\ source' = [source EXCEPT ![m] = req[k].cand]
         /\ keyed' = IF req[k].keys THEN keyed \cup {m} ELSE keyed
    /\ RecordOperation(k, "confirmed")
    /\ MarkStale /\ UNCHANGED plan

\* Mutant: the action itself is stored as the status.
CommitCloseAction(k) ==
    /\ stage[k] = "begun" /\ req[k].op = "close"
    /\ OtherOperation
    /\ RecordOperation(k, req[k].op)
    /\ UNCHANGED <<source, keyed, crystalVars>>

\* _close_without_fact
CommitClose(k) ==
    /\ stage[k] = "begun" /\ req[k].op = "close"
    /\ OtherOperation
    /\ RecordOperation(k, "closed")
    /\ UNCHANGED <<source, keyed, crystalVars>>

\* _revert_operation: the candidate is pending again.  Its updates of the index
\* wait for rows that other transactions have locked.
CommitRevert(k) ==
    /\ req[k].op = "revert"
    /\ LET of == req[req[k].of] IN
       \/ /\ stage[k] = "backed" /\ of.op = "supersede"
          /\ \E m \in RefOf(k), t \in TargetOf(k) :
               /\ {m, t} \cap LockedRows(k) = {}
               /\ tombRev[t] # 0                 \* SUPERSEDE_TOMBSTONE_MISSING
               /\ WriteRevertSupersede(m, t)
          /\ MarkStale
       \/ /\ stage[k] = "backed" /\ of.op \in Confirming \ {"supersede"}
          /\ \E m \in RefOf(k) \ LockedRows(k) : WriteRevertConfirm(m)
          /\ MarkStale
       \/ /\ stage[k] = "begun" /\ of.op = "close"
          /\ OtherOperation
          /\ UNCHANGED crystal
    /\ RecordOperation(k, "pending")
    /\ UNCHANGED <<source, keyed, plan>>

\* The end of forget.
CommitForget(k) ==
    /\ stage[k] = "backed" /\ req[k].op = "forget"
    /\ \E m \in req[k].mem : Forget(m)
    /\ MarkStale
    /\ UNCHANGED <<reviewVars, plan>>

\* The end of rebuild: no check that the sources are still all there are.
CommitRebuild(k) ==
    /\ stage[k] = "backed" /\ req[k].op = "rebuild"
    /\ OtherOperation
    /\ crystal' = [status |-> "ready", gen |-> revision + 1, refs |-> held[k], page |-> built[k]]
    /\ plan' = IF plan = "pending" THEN "rebuilt" ELSE plan
    /\ UNCHANGED reviewVars

Commit(k) ==
    /\ CommitConfirm(k) \/ CommitClose(k) \/ CommitRevert(k) \/ CommitForget(k) \/ CommitRebuild(k)
    /\ stage' = [stage EXCEPT ![k] = "done"]
    /\ held' = [held EXCEPT ![k] = {}]
    /\ UNCHANGED <<backendVars, req>>
-----------------------------------------------------------------------------
(* The worker *)

\* An event is stored without review (Reconciler), which adds a row to the index
\* while no row lock of another transaction can stop it.
StoreFact(m) ==
    /\ Cardinality({n \in Memory : origin[n] = "auto"}) < MaxStored
    /\ fact[m] = "none"
    /\ fact' = [fact EXCEPT ![m] = "live"]
    /\ Activate(m, "auto")
    /\ keyed' = keyed \cup {m}
    /\ MarkStale
    /\ UNCHANGED <<heir, made, bdone, built>>
    /\ UNCHANGED <<candStatus, candRev, lastOp, recorded, source, requestVars, plan>>

\* PostgresCrystalCandidatePlanner.plan for the one scope: the crystal is missing
\* or stale, or a memory in force has changed since it was built.
LastChange == CHOOSE n \in {memRev[m] : m \in Active} : \A m \in Active : memRev[m] <= n

PlanCrystal ==
    /\ Cardinality(Active) >= 2
    /\ crystal.status # "ready" \/ LastChange > crystal.gen
    /\ plan' = "pending"
    /\ UNCHANGED <<lifecycleVars, backendVars, reviewVars, requestVars, crystal>>
-----------------------------------------------------------------------------
Next ==
    \/ \E k \in Key : Submit(k) \/ Resend(k) \/ Begin(k) \/ Fail(k) \/ CreateFact(k) \/ CallBackend(k)
                       \/ Commit(k)
    \/ \E m \in Memory : StoreFact(m)
    \/ PlanCrystal

Spec == Init /\ [][Next]_vars
-----------------------------------------------------------------------------
(* Properties *)

\* An operation on m that the backend has done and the metadata database has not.
Unfinished(m) ==
    \/ m \in bdone /\ memStatus[m] = "active"
    \/ \E k \in bdone \cap (Key \ recorded) :
          \/ req[k].op = "supersede" /\ m \in req[k].mem
          \/ req[k].op = "revert" /\ m \in RefOf(k) \cup TargetOf(k)

\* The index and the backend agree on which memories are in force, except for the
\* memories of an operation whose second half failed: nothing else, no order of
\* operations and retries, makes the two databases disagree.
IndexMatchesBackend ==
    \A m \in Memory : memStatus[m] # "none" =>
        \/ (memStatus[m] = "active") <=> Readable(m)
        \/ Unfinished(m)

\* The memory of a candidate that is open again or was turned down is not in
\* force, whatever is restored or reverted around it.
OnlyConfirmedInForce ==
    \A m \in Active : source[m] # NoOne => candStatus[source[m]] = "confirmed"

\* The sources of a ready crystal are in force: rebuild locks them, and whoever
\* changes one of them afterwards marks the crystal stale.
ReadySourcesInForce == crystal.status = "ready" => crystal.refs \subseteq Active
-----------------------------------------------------------------------------
(* The inductive invariants behind the safety properties.                   *)

\* A request that was sent is about a candidate, a memory or a recorded operation on
\* its own candidate.
WellFormed(k) ==
    LET r == req[k] IN
    /\ r.op \in Confirming \cup {"close"} => r.cand \in Candidate
    /\ IF r.op \in {"supersede", "forget"} THEN \E m \in Memory : r.mem = {m} ELSE r.mem = {}
    /\ r.op = "revert" => r.cand \in Candidate /\ r.of \in recorded /\ req[r.of].cand = r.cand
    /\ r.op \in {"forget", "rebuild"} => r.cand = NoOne

RequestInv ==
    \A k \in Key :
        IF stage[k] = "unused" THEN k \notin recorded \cup bdone /\ made[k] = {} ELSE WellFormed(k)

\* A transaction under way has the row of its candidate and the rows of the index that
\* it has checked to itself, and they are still as it found them.
LockInv ==
    /\ \A k \in Key \ Running : held[k] = {}
    /\ \A k \in Running :
          /\ held[k] \subseteq Active
          /\ req[k].op \in {"supersede", "forget"} => req[k].mem \subseteq held[k]
          /\ req[k].op \in Confirming \cup {"close"} => k \notin recorded /\ candStatus[req[k].cand] = "pending"
          /\ req[k].op = "revert" =>
                k \notin recorded /\ lastOp[req[k].cand] = req[k].of /\ req[req[k].of].op # "revert"
    /\ \A j, k \in Running : j # k =>
          held[j] \cap held[k] = {} /\ (req[j].cand # NoOne => req[j].cand # req[k].cand)

\* The last operation of a candidate is a recorded one.
LastInv ==
    \A c \in Candidate : lastOp[c] # NoOne => lastOp[c] \in recorded /\ req[lastOp[c]].cand = c

LocksInv == TypeOK /\ RequestInv /\ LastInv /\ LockInv /\ ReadySourcesInForce

\* The last operation of a candidate explains its status.
RecordInv ==
    /\ \A k \in recorded : req[k].op \notin {"forget", "rebuild"}
    /\ \A c \in Candidate :
          candStatus[c] = "confirmed" <=> (lastOp[c] # NoOne /\ req[lastOp[c]].op \in Confirming)

\* How far the backend is.
StageInv ==
    \A k \in Key :
        /\ stage[k] = "created" => req[k].op = "supersede" /\ made[k] # {}
        /\ stage[k] = "backed" =>
              /\ req[k].op \in Confirming => made[k] # {}
              /\ req[k].op \in {"supersede", "revert"} => k \in bdone
              /\ req[k].op = "forget" => req[k].mem \subseteq bdone

\* A confirming operation makes one fact of its own, which gets its row in the index
\* when the operation is recorded and is undone when it is reverted.
MadeInv ==
    /\ \A k \in Key : \A m \in made[k] :
          /\ req[k].op \in Confirming /\ fact[m] # "none"
          /\ req[k].op = "supersede" => m \notin req[k].mem
          /\ \A n \in made[k] : n = m
          /\ \A j \in Key : m \in made[j] => j = k
          /\ k \notin recorded => memStatus[m] = "none" /\ Readable(m)
          /\ k \in recorded =>
                /\ memStatus[m] # "none" /\ source[m] = req[k].cand
                /\ origin[m] = IF lastOp[req[k].cand] # k THEN "undone"
                               ELSE IF req[k].op = "supersede" THEN "supersede" ELSE "confirm"
    /\ \A k \in recorded : req[k].op \in Confirming => made[k] # {}
    /\ \A m \in Memory :
          /\ fact[m] = "none" => memStatus[m] = "none" /\ heir[m] = {}
          /\ source[m] # NoOne => \E k \in recorded : m \in made[k]

\* What the backend has done stays done.
DoneInv ==
    /\ \A m \in bdone \cap Memory : fact[m] = "expired"
    /\ \A k \in bdone \cap Key :
          /\ req[k].op = "supersede" => made[k] # {} /\ (k \notin recorded => \A t \in req[k].mem : heir[t] = made[k])
          /\ req[k].op = "revert" => req[req[k].of].op \in Confirming /\ \A m \in RefOf(k) : fact[m] = "expired"

\* Of a revert that the backend has done and the metadata database has not, everything
\* is still as the commit needs it.  There is at most one.
HalfInv ==
    \A k \in HalfReverted :
        /\ \A j \in HalfReverted : j = k
        /\ lastOp[req[k].cand] = req[k].of
        /\ req[req[k].of].op = "supersede" => \A t \in TargetOf(k) :
              memStatus[t] = "superseded" /\ supersededBy[t] = RefOf(k) /\ Readable(t)

\* Where the rows of the index stand, and what the backend says of them: an archived
\* fact has expired, a row in force or replaced was not undone;
StandingInv ==
    \A m \in Memory :
        /\ memStatus[m] = "archived" => fact[m] = "expired"
        /\ memStatus[m] \in {"active", "superseded"} => origin[m] # "undone"

\* a replaced row has a supersession that is still its candidate's last word;
ReplacedInv ==
    \A m \in Memory : memStatus[m] = "superseded" =>
        \E j \in recorded :
            /\ req[j].op = "supersede" /\ req[j].mem = {m} /\ lastOp[req[j].cand] = j
            /\ heir[m] = made[j] \/ (\E k \in HalfReverted : req[k].of = j)

\* and what such a supersession replaced is still replaced by what it made, or archived.
ReplacingInv ==
    \A j \in recorded : req[j].op = "supersede" /\ lastOp[req[j].cand] = j => \A t \in req[j].mem :
        memStatus[t] = "archived" \/ (memStatus[t] = "superseded" /\ supersededBy[t] = made[j])

RowsInv == StandingInv /\ ReplacedInv /\ ReplacingInv

\* What holds of the two databases when no two reverts are half done at the same time.
AgreeInv ==
    /\ RecordInv /\ MadeInv /\ DoneInv /\ HalfInv /\ RowsInv
    /\ OnlyConfirmedInForce /\ IndexMatchesBackend

ReviewInv == LocksInv /\ StageInv /\ AgreeInv
=============================================================================
