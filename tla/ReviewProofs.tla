---------------------------- MODULE ReviewProofs ----------------------------
(***************************************************************************)
(* Proofs about Review: the sources of a ready crystal are in force, and,   *)
(* as long as no two reverts are half done at the same time, the index      *)
(* agrees with the backend, only confirmed memories are in force, and the   *)
(* operations implement the lifecycle index of module Lifecycle.            *)
(***************************************************************************)
EXTENDS Review, TLAPS

USE ReviewAssumption

\* The steps of Next, sorted by what they write.
LEMMA ReviewCases ==
    ASSUME [Next]_vars
    PROVE  \/ \E k \in Key : Submit(k)
           \/ \E k \in Key : Resend(k) \/ Begin(k) \/ Fail(k)
           \/ \E k \in Key : CreateFact(k)
           \/ \E k \in Key : CallBackend(k)
           \/ \E k \in Key : Commit(k)
           \/ \E m \in Memory : StoreFact(m)
           \/ PlanCrystal
           \/ UNCHANGED vars
BY DEF Next

LEMMA OpsApart ==
    /\ Op = Confirming \cup {"close", "revert", "forget", "rebuild"}
    /\ "close" \notin Confirming /\ "revert" \notin Confirming
    /\ "forget" \notin Confirming /\ "rebuild" \notin Confirming
    /\ "supersede" \in Confirming
BY DEF Op, Confirming

LEMMA RequestFields ==
    ASSUME TypeOK, NEW k \in Key
    PROVE  /\ req[k].op \in Op /\ req[k].cand \in Candidate \cup {NoOne} /\ req[k].rev \in Nat
           /\ req[k].keys \in BOOLEAN /\ req[k].mem \in SUBSET Memory /\ req[k].of \in Key \cup {NoOne}
<1>1. req[k] \in Request
  BY DEF TypeOK
<1>2. QED
  BY <1>1 DEF Request

LEMMA WishesAreRequests ==
    ASSUME TypeOK, NEW r \in Wishes
    PROVE  r \in Request /\ Wish(r)
<1>1. {candRev[c] : c \in Candidate} \subseteq Nat /\ {lastOp[c] : c \in Candidate} \subseteq Key \cup {NoOne}
  BY DEF TypeOK
<1>2. Active \subseteq Memory
  BY DEF Active
<1>3. QED
  BY <1>1, <1>2 DEF Wishes, Request

\* What the checks of Begin establish.
LEMMA AcceptedRows ==
    ASSUME TypeOK, NEW k \in Key, WellFormed(k), Acceptable(k)
    PROVE  /\ Rows(req[k]) \subseteq Active
           /\ req[k].op \in {"supersede", "forget"} => req[k].mem \subseteq Rows(req[k])
           /\ req[k].op \in Confirming \cup {"close"} =>
                 k \notin recorded /\ candStatus[req[k].cand] = "pending"
           /\ req[k].op = "revert" =>
                 k \notin recorded /\ lastOp[req[k].cand] = req[k].of /\ req[req[k].of].op # "revert"
<1>1. req[k].op \in Op
  BY RequestFields
<1>2. CASE req[k].op \in Confirming \cup {"close"}
  BY <1>1, <1>2 DEF Op, Confirming, Rows, Acceptable, Conflicts, Known
<1>3. CASE req[k].op = "revert"
  BY <1>1, <1>3 DEF Op, Confirming, Rows, Acceptable, Conflicts, Known
<1>4. CASE req[k].op = "forget"
  BY <1>1, <1>4 DEF Op, Confirming, Rows, Acceptable, Conflicts, Known
<1>5. CASE req[k].op = "rebuild"
  BY <1>1, <1>5 DEF Op, Confirming, Rows, Acceptable, Conflicts, Known
<1>6. QED
  BY <1>1, <1>2, <1>3, <1>4, <1>5, OpsApart

\* The crystal that a change of a memory leaves behind.
LEMMA StaleCrystal ==
    ASSUME TypeOK, MarkStale
    PROVE  /\ crystal' \in [status : {"none", "ready", "stale"}, gen : Nat, refs : SUBSET Memory,
                            page : SUBSET Memory]
           /\ crystal'.status # "ready"
BY DEF TypeOK, MarkStale
-----------------------------------------------------------------------------
(* Type correctness.                                                        *)

LEMMA RecordTypes ==
    ASSUME TypeOK, NEW k \in Key, NEW s \in CandStatus, RecordOperation(k, s)
    PROVE  /\ candStatus' \in [Candidate -> CandStatus]
           /\ candRev' \in [Candidate -> Nat \ {0}]
           /\ lastOp' \in [Candidate -> Key \cup {NoOne}]
           /\ recorded' \in SUBSET Key
<1> DEFINE c == req[k].cand
<1>1. candStatus' = [candStatus EXCEPT ![c] = s] /\ lastOp' = [lastOp EXCEPT ![c] = k] /\ recorded' = recorded \cup {k}
  BY DEF RecordOperation
<1>2. candRev' = [candRev EXCEPT ![c] = candRev[c] + 1]
  BY DEF RecordOperation
<1>3. c \in Candidate => candRev[c] + 1 \in Nat \ {0}
  BY DEF TypeOK
<1> HIDE DEF c
<1>4. QED
  BY <1>1, <1>2, <1>3 DEF TypeOK

\* The parts of Commit keep the types of what they write.
LEMMA CommitTypes ==
    ASSUME TypeOK, NEW k \in Key, req[k].op = "revert" => req[k].of \in Key,
           CommitConfirm(k) \/ CommitClose(k) \/ CommitRevert(k) \/ CommitForget(k) \/ CommitRebuild(k)
    PROVE  /\ LifecycleTypeOK'
           /\ candStatus' \in [Candidate -> CandStatus]
           /\ candRev' \in [Candidate -> Nat \ {0}]
           /\ lastOp' \in [Candidate -> Key \cup {NoOne}]
           /\ recorded' \in SUBSET Key
           /\ source' \in [Memory -> Candidate \cup {NoOne}]
           /\ keyed' \in SUBSET Memory
           /\ crystal' \in [status : {"none", "ready", "stale"}, gen : Nat, refs : SUBSET Memory,
                            page : SUBSET Memory]
           /\ plan' \in {"none", "pending", "rebuilt"}
<1>0. {"pending", "confirmed", "closed"} = CandStatus
  BY DEF CandStatus
<1>1. CASE CommitConfirm(k)
  <2>1. PICK m \in made[k] :
           /\ IF req[k].op = "supersede" THEN \E t \in req[k].mem : Supersede(m, t) ELSE Activate(m, "confirm")
           /\ source' = [source EXCEPT ![m] = req[k].cand]
           /\ keyed' = IF req[k].keys THEN keyed \cup {m} ELSE keyed
    BY <1>1 DEF CommitConfirm
  <2>2. m \in Memory /\ req[k].mem \subseteq Memory /\ req[k].cand \in Candidate \cup {NoOne}
    BY RequestFields DEF TypeOK, BackendTypeOK
  <2>3. LifecycleTypeOK'
    <3>1. Activate(m, "confirm") => LifecycleTypeOK'
      BY <2>2 DEF TypeOK, LifecycleTypeOK, Activate, NextRevision, MemStatus, Origin
    <3>2. ASSUME NEW t \in Memory, Supersede(m, t) PROVE LifecycleTypeOK'
      BY <2>2, <3>2 DEF TypeOK, LifecycleTypeOK, Supersede, NextRevision, MemStatus, Origin
    <3>3. QED
      BY <2>1, <2>2, <3>1, <3>2
  <2>4. source' \in [Memory -> Candidate \cup {NoOne}] /\ keyed' \in SUBSET Memory
    BY <2>1, <2>2 DEF TypeOK
  <2>5. QED
    BY <1>0, <1>1, <2>3, <2>4, RecordTypes, StaleCrystal DEF CommitConfirm, TypeOK
<1>2. CASE CommitClose(k)
  BY <1>0, <1>2, RecordTypes DEF CommitClose, TypeOK, LifecycleTypeOK, OtherOperation, NextRevision, crystalVars
<1>3. CASE CommitRevert(k)
  <2>1. made[req[k].of] \subseteq Memory /\ req[req[k].of].mem \subseteq Memory
    BY <1>3, RequestFields DEF CommitRevert, TypeOK, BackendTypeOK
  <2>2. LifecycleTypeOK'
    <3>1. ASSUME NEW m \in Memory, NEW t \in Memory, WriteRevertSupersede(m, t) PROVE LifecycleTypeOK'
      BY <3>1 DEF TypeOK, LifecycleTypeOK, WriteRevertSupersede, NextRevision, MemStatus, Origin
    <3>2. ASSUME NEW m \in Memory, WriteRevertConfirm(m) PROVE LifecycleTypeOK'
      BY <3>2 DEF TypeOK, LifecycleTypeOK, WriteRevertConfirm, NextRevision, MemStatus, Origin
    <3>3. OtherOperation => LifecycleTypeOK'
      BY DEF TypeOK, LifecycleTypeOK, OtherOperation, NextRevision
    <3>4. QED
      BY <1>3, <2>1, <3>1, <3>2, <3>3 DEF CommitRevert, RefOf, TargetOf
  <2>3. crystal' = crystal \/ MarkStale
    BY <1>3 DEF CommitRevert
  <2>4. RecordOperation(k, "pending") /\ UNCHANGED <<source, keyed, plan>>
    BY <1>3 DEF CommitRevert
  <2>5. QED
    BY <1>0, <2>2, <2>3, <2>4, RecordTypes, StaleCrystal DEF TypeOK
<1>4. CASE CommitForget(k)
  <2>1. req[k].mem \subseteq Memory
    BY RequestFields
  <2>2. LifecycleTypeOK'
    BY <1>4, <2>1 DEF CommitForget, TypeOK, LifecycleTypeOK, Forget, NextRevision, MemStatus
  <2>3. QED
    BY <1>4, <2>2, StaleCrystal DEF CommitForget, TypeOK, reviewVars
<1>5. CASE CommitRebuild(k)
  BY <1>5 DEF CommitRebuild, TypeOK, LifecycleTypeOK, BackendTypeOK, OtherOperation, NextRevision, reviewVars
<1>6. QED
  BY <1>1, <1>2, <1>3, <1>4, <1>5

LEMMA TypeStep ==
    ASSUME TypeOK, RequestInv, [Next]_vars
    PROVE  TypeOK'
<1>1. ASSUME NEW k \in Key, Submit(k) PROVE TypeOK'
  <2>1. PICK r \in Wishes : req' = [req EXCEPT ![k] = r]
    BY <1>1 DEF Submit
  <2>2. r \in Request
    BY WishesAreRequests
  <2>3. QED
    BY <1>1, <2>1, <2>2 DEF Submit, TypeOK, LifecycleTypeOK, BackendTypeOK, Stage, lifecycleVars,
       backendVars, reviewVars, crystalVars
<1>2. ASSUME NEW k \in Key, Resend(k) \/ Begin(k) \/ Fail(k) PROVE TypeOK'
  <2>1. Rows(req[k]) \subseteq Memory
    <3>1. req[k].op \in Op /\ req[k].mem \subseteq Memory
      BY RequestFields
    <3>2. QED
      BY <3>1 DEF Rows, Conflicts, Active
  <2>2. stage' \in [Key -> Stage] /\ held' \in [Key -> SUBSET Memory]
    BY <1>2, <2>1 DEF Resend, Begin, Fail, TypeOK, Stage
  <2>3. UNCHANGED <<lifecycleVars, backendVars, reviewVars, req, crystalVars>>
    BY <1>2 DEF Resend, Begin, Fail
  <2>4. QED
    BY <2>2, <2>3 DEF TypeOK, LifecycleTypeOK, BackendTypeOK, lifecycleVars, backendVars, reviewVars, crystalVars
<1>3. ASSUME NEW k \in Key, CreateFact(k) PROVE TypeOK'
  BY <1>3 DEF CreateFact, UpsertConfirmed, TypeOK, LifecycleTypeOK, BackendTypeOK, FactState, Stage,
     lifecycleVars, reviewVars, crystalVars
<1>4. ASSUME NEW k \in Key, CallBackend(k) PROVE TypeOK'
  <2>1. req[k].mem \subseteq Memory /\ (req[k].op = "revert" => req[k].of \in Key)
    BY <1>4, RequestFields DEF CallBackend, RequestInv, WellFormed, TypeOK, Stage
  <2>2. req[k].op = "revert" => RefOf(k) \subseteq Memory /\ TargetOf(k) \subseteq Memory
    BY <2>1, RequestFields DEF RefOf, TargetOf, TypeOK, BackendTypeOK
  <2>3. BackendTypeOK'
    <3>1. made[k] \subseteq Memory /\ held[k] \subseteq Memory
      BY DEF TypeOK, BackendTypeOK
    <3>2. QED
      BY <1>4, <2>1, <2>2, <3>1 DEF CallBackend, TypeOK, BackendTypeOK, SupersedeFact, ArchiveFact,
         RestoreSuperseded, RebuildPage, Note, FactState
  <2>4. QED
    BY <1>4, <2>3 DEF CallBackend, TypeOK, LifecycleTypeOK, Stage, lifecycleVars, reviewVars, crystalVars
<1>5. ASSUME NEW k \in Key, Commit(k) PROVE TypeOK'
  <2>1. req[k].op = "revert" => req[k].of \in Key
    <3>1. stage[k] # "unused"
      BY <1>5 DEF Commit, CommitConfirm, CommitClose, CommitRevert, CommitForget, CommitRebuild
    <3>2. QED
      BY <3>1 DEF RequestInv, WellFormed, TypeOK
  <2>2. stage' \in [Key -> Stage] /\ held' \in [Key -> SUBSET Memory] /\ UNCHANGED <<backendVars, req>>
    BY <1>5 DEF Commit, TypeOK, Stage
  <2>3. CommitConfirm(k) \/ CommitClose(k) \/ CommitRevert(k) \/ CommitForget(k) \/ CommitRebuild(k)
    BY <1>5 DEF Commit
  <2>4. BackendTypeOK' /\ req' \in [Key -> Request]
    BY <2>2 DEF TypeOK, BackendTypeOK, backendVars
  <2>5. QED
    BY <2>1, <2>2, <2>3, <2>4, CommitTypes DEF TypeOK
<1>6. ASSUME NEW m \in Memory, StoreFact(m) PROVE TypeOK'
  <2>1. LifecycleTypeOK' /\ BackendTypeOK'
    BY <1>6 DEF StoreFact, TypeOK, LifecycleTypeOK, BackendTypeOK, Activate, NextRevision, MemStatus, Origin,
       FactState
  <2>2. QED
    BY <1>6, <2>1, StaleCrystal DEF StoreFact, TypeOK, requestVars
<1>7. PlanCrystal => TypeOK'
  BY DEF PlanCrystal, TypeOK, LifecycleTypeOK, BackendTypeOK, lifecycleVars, backendVars, reviewVars, requestVars
<1>8. UNCHANGED vars => TypeOK'
  BY DEF vars, TypeOK, LifecycleTypeOK, BackendTypeOK, lifecycleVars, backendVars, reviewVars, requestVars,
     crystalVars
<1>9. QED
  BY <1>1, <1>2, <1>3, <1>4, <1>5, <1>6, <1>7, <1>8, ReviewCases
-----------------------------------------------------------------------------
(* Requests, locks and crystals.                                            *)

\* What a commit does to the candidates and to the operations.
LEMMA CommitRecords ==
    ASSUME TypeOK, RequestInv, NEW k \in Key, Commit(k)
    PROVE  /\ k \in Running
           /\ stage' = [stage EXCEPT ![k] = "done"] /\ held' = [held EXCEPT ![k] = {}]
           /\ UNCHANGED <<fact, heir, made, bdone, built, req>>
           /\ IF req[k].op \in {"forget", "rebuild"}
              THEN UNCHANGED <<candStatus, candRev, lastOp, recorded, source, keyed>>
              ELSE /\ req[k].cand \in Candidate
                   /\ recorded' = recorded \cup {k}
                   /\ lastOp' = [lastOp EXCEPT ![req[k].cand] = k]
                   /\ candStatus' = [candStatus EXCEPT ![req[k].cand] =
                        IF req[k].op = "revert" THEN "pending" ELSE IF req[k].op = "close" THEN "closed" ELSE "confirmed"]
<1>1. k \in Running
  BY DEF Commit, CommitConfirm, CommitClose, CommitRevert, CommitForget, CommitRebuild, Running
<1>2. WellFormed(k)
  BY <1>1 DEF RequestInv, Running
<1>3. /\ stage' = [stage EXCEPT ![k] = "done"] /\ held' = [held EXCEPT ![k] = {}]
      /\ UNCHANGED <<fact, heir, made, bdone, built, req>>
  BY DEF Commit, backendVars
<1>4. CASE CommitConfirm(k)
  BY <1>1, <1>2, <1>3, <1>4 DEF CommitConfirm, RecordOperation, WellFormed, Confirming
<1>5. CASE CommitClose(k)
  BY <1>1, <1>2, <1>3, <1>5 DEF CommitClose, RecordOperation, WellFormed, Confirming
<1>6. CASE CommitRevert(k)
  BY <1>1, <1>2, <1>3, <1>6 DEF CommitRevert, RecordOperation, WellFormed, Confirming
<1>7. CASE CommitForget(k) \/ CommitRebuild(k)
  BY <1>1, <1>2, <1>3, <1>7 DEF CommitForget, CommitRebuild, reviewVars
<1>8. QED
  BY <1>4, <1>5, <1>6, <1>7 DEF Commit

LEMMA ReqStays ==
    ASSUME TypeOK, RequestInv, NEW k \in Key, Submit(k)
    PROVE  /\ stage[k] = "unused" /\ stage' = [stage EXCEPT ![k] = "sent"]
           /\ k \notin recorded /\ k \notin bdone /\ made[k] = {}
           /\ \A j \in Key \ {k} : req'[j] = req[j]
           /\ \A j \in Key \ {k} : stage[j] # "unused" /\ req[j].op = "revert" => req[j].of \in Key \ {k}
<1>1. /\ stage[k] = "unused" /\ stage' = [stage EXCEPT ![k] = "sent"]
      /\ \A j \in Key \ {k} : req'[j] = req[j]
  BY DEF Submit, TypeOK
<1>2. k \notin recorded /\ k \notin bdone /\ made[k] = {}
  BY <1>1 DEF RequestInv
<1>3. QED
  BY <1>1, <1>2 DEF RequestInv, WellFormed, TypeOK

LEMMA RequestStep ==
    ASSUME TypeOK, RequestInv, LastInv, [Next]_vars
    PROVE  RequestInv' /\ LastInv'
<1>1. ASSUME NEW k \in Key, Submit(k) PROVE RequestInv' /\ LastInv'
  <2>1. PICK r \in Wishes : req' = [req EXCEPT ![k] = r]
    BY <1>1 DEF Submit
  <2>2. r \in Request /\ Wish(r) /\ req'[k] = r
    BY <2>1, WishesAreRequests DEF TypeOK
  <2>3. UNCHANGED <<lastOp, recorded, bdone, made>>
    BY <1>1 DEF Submit, reviewVars, backendVars
  <2>4. WellFormed(k)'
    <3>1. r.op = "revert" => r.cand \in Candidate /\ r.of \in recorded /\ req[r.of].cand = r.cand
      BY <2>2, OpsApart DEF Wish, LastInv
    <3>2. r.op = "revert" => req'[r.of] = req[r.of]
      BY <1>1, <3>1, ReqStays DEF TypeOK
    <3>3. IF r.op \in {"supersede", "forget"} THEN \E m \in Memory : r.mem = {m} ELSE r.mem = {}
      BY <2>2 DEF Wish, Active
    <3>4. r.op \in Confirming \cup {"close"} => r.cand \in Candidate
      BY <2>2 DEF Wish, Confirming
    <3>5. r.op \in {"forget", "rebuild"} => r.cand = NoOne
      BY <2>2 DEF Wish
    <3>6. QED
      BY <2>2, <2>3, <3>1, <3>2, <3>3, <3>4, <3>5 DEF WellFormed
  <2>5. ASSUME NEW j \in Key \ {k}, stage[j] # "unused" PROVE WellFormed(j)'
    BY <1>1, <2>3, <2>5, ReqStays DEF RequestInv, WellFormed, TypeOK
  <2>6. RequestInv'
    BY <1>1, <2>3, <2>4, <2>5, ReqStays DEF RequestInv, TypeOK
  <2>7. LastInv'
    BY <1>1, <2>3, ReqStays DEF LastInv, TypeOK
  <2>8. QED
    BY <2>6, <2>7
<1>2. ASSUME UNCHANGED req, recorded \subseteq recorded',
             \A j \in Key : stage'[j] = "unused" <=> stage[j] = "unused",
             \A j \in Key : stage[j] = "unused" => j \notin recorded' \cup bdone' /\ made'[j] = {}
      PROVE  RequestInv'
  BY <1>2 DEF RequestInv, WellFormed
<1>3. ASSUME UNCHANGED <<req, recorded, lastOp>> PROVE LastInv'
  BY <1>3 DEF LastInv
<1>4. ASSUME NEW k \in Key, Resend(k) \/ Begin(k) \/ Fail(k) PROVE RequestInv' /\ LastInv'
  <2>1. UNCHANGED <<req, recorded, lastOp, bdone, made>>
    BY <1>4 DEF Resend, Begin, Fail, reviewVars, backendVars
  <2>2. \A j \in Key : stage'[j] = "unused" <=> stage[j] = "unused"
    <3>1. stage[k] # "unused"
      BY <1>4 DEF Resend, Begin, Fail, Running
    <3>2. \E s \in Stage \ {"unused"} : stage' = [stage EXCEPT ![k] = s]
      BY <1>4 DEF Resend, Begin, Fail, Stage
    <3>3. QED
      BY <3>1, <3>2 DEF TypeOK
  <2>3. QED
    BY <1>2, <1>3, <2>1, <2>2 DEF RequestInv
<1>5. ASSUME NEW k \in Key, CreateFact(k) PROVE RequestInv' /\ LastInv'
  <2>1. UNCHANGED <<req, recorded, lastOp, bdone>>
    BY <1>5 DEF CreateFact, UpsertConfirmed, reviewVars
  <2>2. \A j \in Key : (stage'[j] = "unused" <=> stage[j] = "unused") /\ (stage[j] = "unused" => made'[j] = made[j])
    BY <1>5 DEF CreateFact, UpsertConfirmed, TypeOK, BackendTypeOK
  <2>3. QED
    BY <1>2, <1>3, <2>1, <2>2 DEF RequestInv
<1>6. ASSUME NEW k \in Key, CallBackend(k) PROVE RequestInv' /\ LastInv'
  <2>1. UNCHANGED <<req, recorded, lastOp, made>>
    BY <1>6 DEF CallBackend, SupersedeFact, ArchiveFact, RestoreSuperseded, RebuildPage, reviewVars
  <2>2. \A j \in Key : (stage'[j] = "unused" <=> stage[j] = "unused") /\ (stage[j] = "unused" => j # k)
    BY <1>6 DEF CallBackend, TypeOK
  <2>3. bdone' \subseteq bdone \cup {k} \cup Memory
    BY <1>6, RequestFields DEF CallBackend, SupersedeFact, ArchiveFact, RestoreSuperseded, RebuildPage, Note
  <2>4. QED
    BY <1>2, <1>3, <2>1, <2>2, <2>3 DEF RequestInv
<1>7. ASSUME NEW k \in Key, Commit(k) PROVE RequestInv' /\ LastInv'
  <2>1. /\ k \in Running /\ UNCHANGED <<req, bdone, made>>
        /\ stage' = [stage EXCEPT ![k] = "done"]
        /\ (recorded' = recorded /\ lastOp' = lastOp)
           \/ (recorded' = recorded \cup {k} /\ req[k].cand \in Candidate /\ lastOp' = [lastOp EXCEPT ![req[k].cand] = k])
    BY <1>7, CommitRecords
  <2>2. \A j \in Key : (stage'[j] = "unused" <=> stage[j] = "unused") /\ (stage[j] = "unused" => j # k)
    BY <2>1 DEF TypeOK, Running
  <2>3. RequestInv'
    BY <1>2, <2>1, <2>2 DEF RequestInv
  <2>4. LastInv'
    BY <2>1 DEF LastInv, TypeOK
  <2>5. QED
    BY <2>3, <2>4
<1>8. ASSUME NEW m \in Memory, StoreFact(m) PROVE RequestInv' /\ LastInv'
  BY <1>2, <1>3, <1>8 DEF StoreFact, requestVars, RequestInv
<1>9. PlanCrystal \/ UNCHANGED vars => RequestInv' /\ LastInv'
  BY <1>2, <1>3 DEF PlanCrystal, vars, requestVars, reviewVars, backendVars, RequestInv
<1>10. QED
  BY <1>1, <1>4, <1>5, <1>6, <1>7, <1>8, <1>9, ReviewCases

\* A commit leaves the rows that other transactions have locked in force, and marks
\* the crystal stale or builds it from rows that are in force.
LEMMA CommitKeepsLocked ==
    ASSUME TypeOK, RequestInv, LockInv, ReadySourcesInForce, NEW k \in Key, Commit(k)
    PROVE  /\ \A j \in Key \ {k} : held[j] \subseteq Active'
           /\ ReadySourcesInForce'
<1>1. k \in Running
  BY CommitRecords
<1>2. \A j \in Key \ {k} : held[j] \subseteq Active /\ held[j] \cap held[k] = {} /\ held[j] \subseteq LockedRows(k)
  BY <1>1 DEF LockInv, LockedRows
<1>3. held[k] \subseteq Active /\ (req[k].op \in {"supersede", "forget"} => req[k].mem \subseteq held[k])
  BY <1>1 DEF LockInv
<1>4. CASE CommitConfirm(k)
  <2>1. PICK m \in made[k] : IF req[k].op = "supersede" THEN \E t \in req[k].mem : Supersede(m, t)
                                                       ELSE Activate(m, "confirm")
    BY <1>4 DEF CommitConfirm
  <2>2. \A n \in Active : n \notin held[k] => n \in Active'
    BY <1>3, <2>1 DEF Supersede, Activate, Active, TypeOK, LifecycleTypeOK
  <2>3. MarkStale
    BY <1>4 DEF CommitConfirm
  <2>4. QED
    BY <1>2, <2>2, <2>3, StaleCrystal DEF ReadySourcesInForce
<1>5. CASE CommitClose(k)
  <2>1. Active' = Active /\ crystal' = crystal
    BY <1>5 DEF CommitClose, OtherOperation, crystalVars, Active
  <2>2. QED
    BY <1>2, <2>1 DEF ReadySourcesInForce
<1>6. CASE CommitRevert(k)
  <2>1. CASE UNCHANGED memStatus /\ UNCHANGED crystal
    BY <1>2, <2>1 DEF ReadySourcesInForce, Active
  <2>2. CASE MarkStale /\ \E m \in RefOf(k), t \in TargetOf(k) :
                             {m, t} \cap LockedRows(k) = {} /\ WriteRevertSupersede(m, t)
    <3>1. PICK m \in RefOf(k), t \in TargetOf(k) : {m, t} \cap LockedRows(k) = {} /\ WriteRevertSupersede(m, t)
      BY <2>2
    <3>2. \A n \in Active \cap LockedRows(k) : n \in Active'
      BY <3>1 DEF WriteRevertSupersede, Active, TypeOK, LifecycleTypeOK
    <3>3. QED
      BY <1>2, <2>2, <3>2, StaleCrystal DEF ReadySourcesInForce
  <2>3. CASE MarkStale /\ \E m \in RefOf(k) \ LockedRows(k) : WriteRevertConfirm(m)
    <3>1. \A n \in Active \cap LockedRows(k) : n \in Active'
      BY <2>3 DEF WriteRevertConfirm, Active, TypeOK, LifecycleTypeOK
    <3>2. QED
      BY <1>2, <2>3, <3>1, StaleCrystal DEF ReadySourcesInForce
  <2>4. QED
    BY <1>6, <2>1, <2>2, <2>3 DEF CommitRevert, OtherOperation
<1>7. CASE CommitForget(k)
  <2>1. \A n \in Active : n \notin held[k] => n \in Active'
    BY <1>3, <1>7 DEF CommitForget, Forget, Active, TypeOK, LifecycleTypeOK
  <2>2. QED
    BY <1>2, <1>7, <2>1, StaleCrystal DEF CommitForget, ReadySourcesInForce
<1>8. CASE CommitRebuild(k)
  <2>1. Active' = Active /\ crystal'.refs = held[k]
    BY <1>8 DEF CommitRebuild, OtherOperation, Active
  <2>2. QED
    BY <1>2, <1>3, <2>1 DEF ReadySourcesInForce
<1>9. QED
  BY <1>4, <1>5, <1>6, <1>7, <1>8 DEF Commit

\* A transaction that takes a new stage and keeps its locks.
LEMMA SameLocks ==
    ASSUME LockInv, Running' = Running, UNCHANGED <<req, held, recorded, candStatus, lastOp>>, Active \subseteq Active'
    PROVE  LockInv'
BY DEF LockInv

LEMMA LockStep ==
    ASSUME LocksInv, [Next]_vars
    PROVE  LockInv' /\ ReadySourcesInForce'
<1>0. TypeOK /\ RequestInv /\ LastInv /\ LockInv /\ ReadySourcesInForce
  BY DEF LocksInv
<1>1. ASSUME NEW k \in Key, Submit(k) PROVE LockInv' /\ ReadySourcesInForce'
  <2>1. UNCHANGED <<held, recorded, candStatus, lastOp, crystal, memStatus>>
    BY <1>1 DEF Submit, reviewVars, crystalVars, lifecycleVars
  <2>2. Running' = Running /\ k \notin Running
    BY <1>0, <1>1, ReqStays DEF Running, TypeOK
  <2>3. Active' = Active
    BY <2>1 DEF Active
  <2>4. \A j \in Running : j \in Key /\ req'[j] = req[j] /\ (req[j].op = "revert" => req'[req[j].of] = req[req[j].of])
    BY <1>0, <1>1, <2>2, ReqStays DEF Running
  <2>5. LockInv'
    BY <1>0, <2>1, <2>2, <2>3, <2>4 DEF LockInv
  <2>6. QED
    BY <1>0, <2>1, <2>3, <2>5 DEF ReadySourcesInForce
<1>2. ASSUME NEW k \in Key, Resend(k) PROVE LockInv' /\ ReadySourcesInForce'
  <2>1. UNCHANGED <<req, held, recorded, candStatus, lastOp, crystal, memStatus>>
    BY <1>2 DEF Resend, reviewVars, crystalVars, lifecycleVars
  <2>2. Running' = Running /\ Active' = Active
    BY <1>0, <1>2, <2>1 DEF Resend, Running, Active, TypeOK
  <2>3. QED
    BY <1>0, <2>1, <2>2, SameLocks DEF ReadySourcesInForce
<1>3. ASSUME NEW k \in Key, Begin(k) PROVE LockInv' /\ ReadySourcesInForce'
  <2>1. UNCHANGED <<req, recorded, candStatus, lastOp, crystal, memStatus>>
    BY <1>3 DEF Begin, reviewVars, crystalVars, lifecycleVars
  <2>2. Active' = Active /\ WellFormed(k) /\ k \notin Running
    BY <1>0, <1>3, <2>1 DEF Begin, Running, Active, RequestInv
  <2>3. CASE Acceptable(k)
    <3>1. Running' = Running \cup {k} /\ held' = [held EXCEPT ![k] = Rows(req[k])]
      BY <1>0, <1>3, <2>3 DEF Begin, Running, TypeOK
    <3>2. /\ held'[k] = Rows(req[k]) /\ \A j \in Key \ {k} : held'[j] = held[j]
      BY <1>0, <3>1 DEF TypeOK
    <3>3. \A j \in Running : held[j] \cap Rows(req[k]) = {} /\ (req[j].cand # NoOne => req[j].cand # req[k].cand)
      BY <1>3, <2>2 DEF Begin, LocksFree, LockedRows, LockedCandidates, Running
    <3>4. /\ Rows(req[k]) \subseteq Active
          /\ req[k].op \in {"supersede", "forget"} => req[k].mem \subseteq Rows(req[k])
          /\ req[k].op \in Confirming \cup {"close"} => k \notin recorded /\ candStatus[req[k].cand] = "pending"
          /\ req[k].op = "revert" =>
                k \notin recorded /\ lastOp[req[k].cand] = req[k].of /\ req[req[k].of].op # "revert"
      BY <1>0, <2>2, <2>3, AcceptedRows
    <3>5. \A j \in Key \ Running' : held'[j] = {}
      BY <1>0, <3>1, <3>2 DEF LockInv
    <3>6. ASSUME NEW j \in Running'
          PROVE /\ held'[j] \subseteq Active'
                /\ req'[j].op \in {"supersede", "forget"} => req'[j].mem \subseteq held'[j]
                /\ req'[j].op \in Confirming \cup {"close"} => j \notin recorded' /\ candStatus'[req'[j].cand] = "pending"
                /\ req'[j].op = "revert" =>
                     j \notin recorded' /\ lastOp'[req'[j].cand] = req'[j].of /\ req'[req'[j].of].op # "revert"
      <4>1. CASE j = k
        BY <2>1, <2>2, <3>2, <3>4, <4>1
      <4>2. CASE j # k
        BY <1>0, <2>1, <2>2, <3>1, <3>2, <4>2 DEF LockInv, Running
      <4>3. QED
        BY <4>1, <4>2
    <3>7. ASSUME NEW i \in Running', NEW j \in Running', i # j
          PROVE  held'[i] \cap held'[j] = {} /\ (req'[i].cand # NoOne => req'[i].cand # req'[j].cand)
      <4>1. CASE i = k
        BY <2>1, <3>1, <3>2, <3>3, <3>7, <4>1 DEF Running
      <4>2. CASE j = k
        BY <2>1, <3>1, <3>2, <3>3, <3>7, <4>2 DEF Running
      <4>3. CASE i # k /\ j # k
        BY <1>0, <2>1, <3>1, <3>2, <3>7, <4>3 DEF LockInv, Running
      <4>4. QED
        BY <4>1, <4>2, <4>3
    <3>8. LockInv'
      BY <3>5, <3>6, <3>7 DEF LockInv
    <3>9. QED
      BY <1>0, <2>1, <2>2, <3>8 DEF ReadySourcesInForce
  <2>4. CASE ~Acceptable(k)
    <3>1. Running' = Running /\ held' = held
      BY <1>0, <1>3, <2>4 DEF Begin, Running, TypeOK
    <3>2. QED
      BY <1>0, <2>1, <2>2, <3>1, SameLocks DEF ReadySourcesInForce
  <2>5. QED
    BY <2>3, <2>4
<1>4. ASSUME NEW k \in Key, Fail(k) PROVE LockInv' /\ ReadySourcesInForce'
  <2>1. UNCHANGED <<req, recorded, candStatus, lastOp, crystal, memStatus>>
    BY <1>4 DEF Fail, reviewVars, crystalVars, lifecycleVars
  <2>2. Active' = Active /\ Running' = Running \ {k}
    BY <1>0, <1>4, <2>1 DEF Fail, Running, Active, TypeOK
  <2>3. held'[k] = {} /\ \A j \in Key \ {k} : held'[j] = held[j]
    BY <1>0, <1>4 DEF Fail, TypeOK
  <2>4. LockInv'
    BY <1>0, <2>1, <2>2, <2>3 DEF LockInv, Running
  <2>5. QED
    BY <1>0, <2>1, <2>2, <2>4 DEF ReadySourcesInForce
<1>5. ASSUME NEW k \in Key, CreateFact(k) \/ CallBackend(k) PROVE LockInv' /\ ReadySourcesInForce'
  <2>1. UNCHANGED <<req, held, recorded, candStatus, lastOp, crystal, memStatus>>
    BY <1>5 DEF CreateFact, CallBackend, reviewVars, crystalVars, lifecycleVars
  <2>2. stage[k] \in {"begun", "created"} /\ stage' \in {[stage EXCEPT ![k] = s] : s \in {"created", "backed"}}
    BY <1>5 DEF CreateFact, CallBackend
  <2>3. Running' = Running /\ Active' = Active
    BY <1>0, <2>1, <2>2 DEF Running, Active, TypeOK
  <2>4. QED
    BY <1>0, <2>1, <2>3, SameLocks DEF ReadySourcesInForce
<1>6. ASSUME NEW k \in Key, Commit(k) PROVE LockInv' /\ ReadySourcesInForce'
  <2>1. \A j \in Key \ {k} : held[j] \subseteq Active'
    BY <1>0, <1>6, CommitKeepsLocked
  <2>2. ReadySourcesInForce'
    BY <1>0, <1>6, CommitKeepsLocked
  <2>3. /\ k \in Running /\ UNCHANGED req
        /\ stage' = [stage EXCEPT ![k] = "done"] /\ held' = [held EXCEPT ![k] = {}]
    BY <1>0, <1>6, CommitRecords
  <2>4. Running' = Running \ {k} /\ held'[k] = {} /\ \A j \in Key \ {k} : held'[j] = held[j]
    BY <1>0, <2>3 DEF Running, TypeOK
  <2>5. /\ recorded' \subseteq recorded \cup {k}
        /\ \A c \in Candidate \ {req[k].cand} : candStatus'[c] = candStatus[c] /\ lastOp'[c] = lastOp[c]
    BY <1>0, <1>6, CommitRecords DEF TypeOK
  <2>6. \A j \in Running' : /\ j \in Running /\ j \in Key /\ j # k
                            /\ (req[j].op \in Confirming \cup {"close", "revert"} => req[j].cand \in Candidate \ {req[k].cand})
    BY <1>0, <2>3, <2>4 DEF LockInv, RequestInv, WellFormed, Running
  <2>7. LockInv'
    BY <1>0, <2>1, <2>3, <2>4, <2>5, <2>6 DEF LockInv
  <2>8. QED
    BY <2>2, <2>7
<1>7. ASSUME NEW m \in Memory, StoreFact(m) PROVE LockInv' /\ ReadySourcesInForce'
  <2>1. UNCHANGED <<req, held, stage, recorded, candStatus, lastOp>> /\ MarkStale
    BY <1>7 DEF StoreFact, requestVars
  <2>2. Active \subseteq Active'
    BY <1>0, <1>7 DEF StoreFact, Activate, Active, TypeOK, LifecycleTypeOK
  <2>3. Running' = Running
    BY <2>1 DEF Running
  <2>4. QED
    BY <1>0, <2>1, <2>2, <2>3, SameLocks, StaleCrystal DEF ReadySourcesInForce
<1>8. ASSUME PlanCrystal \/ UNCHANGED vars PROVE LockInv' /\ ReadySourcesInForce'
  <2>1. UNCHANGED <<req, held, stage, recorded, candStatus, lastOp, crystal, memStatus>>
    BY <1>8 DEF PlanCrystal, vars, requestVars, reviewVars, lifecycleVars, crystalVars
  <2>2. Running' = Running /\ Active' = Active
    BY <2>1 DEF Running, Active
  <2>3. QED
    BY <1>0, <2>1, <2>2, SameLocks DEF ReadySourcesInForce
<1>9. QED
  BY <1>1, <1>2, <1>3, <1>4, <1>5, <1>6, <1>7, <1>8, ReviewCases

LEMMA LocksInit == Init => LocksInv
<1>1. ASSUME Init PROVE TypeOK
  <2>1. NoRequest \in Request
    BY DEF NoRequest, Request, Op
  <2>2. QED
    BY <1>1, <2>1 DEF Init, LifecycleInit, BackendInit, TypeOK, LifecycleTypeOK, BackendTypeOK, MemStatus, Origin,
       FactState, CandStatus, Stage, NoCrystal
<1>2. ASSUME Init PROVE RequestInv /\ LastInv /\ LockInv /\ ReadySourcesInForce
  BY <1>2 DEF Init, BackendInit, RequestInv, LastInv, LockInv, ReadySourcesInForce, Running, NoCrystal
<1>3. QED
  BY <1>1, <1>2 DEF LocksInv

\* The types of the tables, the requests that are under way, their locks and the sources
\* of a ready crystal keep their relations in every step, whatever the order of calls,
\* failures and repetitions.
THEOREM LocksInvariant == Spec => []LocksInv
<1>1. LocksInv /\ [Next]_vars => LocksInv'
  BY TypeStep, RequestStep, LockStep DEF LocksInv
<1>2. QED
  BY <1>1, LocksInit, PTL DEF Spec

\* Every table of the review service, the index and the backend keeps its type.
THEOREM ReviewTypeCorrect == Spec => []TypeOK
<1>1. LocksInv => TypeOK
  BY DEF LocksInv
<1>2. QED
  BY <1>1, LocksInvariant, PTL

\* The sources of a crystal that is ready are in force: rebuild commits only rows that
\* it has locked, and every other commit that takes a row out of force marks it stale.
THEOREM ReadySourcesStayInForce == Spec => []ReadySourcesInForce
<1>1. LocksInv => ReadySourcesInForce
  BY DEF LocksInv
<1>2. QED
  BY <1>1, LocksInvariant, PTL
-----------------------------------------------------------------------------
(* The index and the backend.                                               *)

\* Requests that have left a trace are well formed, and so is what a revert is about.
LEMMA TraceOfRequest ==
    ASSUME LocksInv, NEW k \in Key, stage[k] # "unused" \/ k \in recorded \/ k \in bdone \/ made[k] # {}
    PROVE  /\ stage[k] # "unused" /\ WellFormed(k)
           /\ req[k].op = "revert" =>
                 /\ req[k].of \in recorded /\ req[k].of \in Key /\ req[k].cand \in Candidate
                 /\ req[req[k].of].cand = req[k].cand /\ WellFormed(req[k].of)
<1>1. stage[k] # "unused" /\ WellFormed(k)
  BY DEF LocksInv, RequestInv
<1>2. req[k].op = "revert" => req[k].of \in recorded /\ req[k].of \in Key /\ req[k].cand \in Candidate
                              /\ req[req[k].of].cand = req[k].cand
  BY <1>1 DEF WellFormed, LocksInv, TypeOK
<1>3. QED
  BY <1>1, <1>2 DEF LocksInv, RequestInv

\* A step that only moves requests.
LEMMA QuietStep ==
    ASSUME AgreeInv,
           UNCHANGED <<memStatus, supersededBy, origin, fact, heir, made, bdone, candStatus, lastOp, recorded,
                       source, req>>
    PROVE  AgreeInv'
<1>1. HalfReverted' = HalfReverted
  BY DEF HalfReverted
<1>2. RecordInv' /\ DoneInv' /\ OnlyConfirmedInForce'
  BY DEF AgreeInv, RecordInv, DoneInv, OnlyConfirmedInForce, Active, RefOf
<1>3. MadeInv'
  BY DEF AgreeInv, MadeInv, Readable
<1>4. HalfInv' /\ RowsInv'
  <2>1. HalfInv'
    BY <1>1 DEF AgreeInv, HalfInv, Readable, RefOf, TargetOf
  <2>2. RowsInv'
    BY <1>1 DEF AgreeInv, RowsInv, StandingInv, ReplacedInv, ReplacingInv
  <2>3. QED
    BY <2>1, <2>2
<1>5. IndexMatchesBackend'
  BY DEF AgreeInv, IndexMatchesBackend, Unfinished, Readable, RefOf, TargetOf
<1>6. QED
  BY <1>2, <1>3, <1>4, <1>5 DEF AgreeInv

\* How far the backend is with a request.
LEMMA StageStep ==
    ASSUME ReviewInv, [Next]_vars
    PROVE  StageInv'
<1>0. TypeOK /\ RequestInv /\ StageInv /\ LocksInv
  BY DEF ReviewInv, LocksInv
<1>1. ASSUME NEW k \in Key, Submit(k) PROVE StageInv'
  <2>1. UNCHANGED <<made, bdone>>
    BY <1>1 DEF Submit, backendVars
  <2>2. QED
    BY <1>0, <1>1, <2>1, ReqStays DEF StageInv, TypeOK
<1>2. ASSUME NEW k \in Key, Resend(k) \/ Begin(k) \/ Fail(k) PROVE StageInv'
  <2>1. UNCHANGED <<made, bdone, req>>
    BY <1>2 DEF Resend, Begin, Fail, backendVars
  <2>2. \E s \in Stage \ {"created", "backed"} : stage' = [stage EXCEPT ![k] = s]
    BY <1>2 DEF Resend, Begin, Fail, Stage
  <2>3. QED
    BY <1>0, <2>1, <2>2 DEF StageInv, TypeOK
<1>3. ASSUME NEW k \in Key, CreateFact(k) PROVE StageInv'
  <2>1. UNCHANGED <<bdone, req>> /\ made'[k] # {} /\ \A j \in Key \ {k} : made'[j] = made[j]
    <3>1. PICK m \in Memory : UpsertConfirmed(k, m)
      BY <1>3 DEF CreateFact
    <3>2. (m \in made[k] /\ made' = made) \/ made' = [made EXCEPT ![k] = {m}]
      BY <3>1 DEF UpsertConfirmed
    <3>3. UNCHANGED <<bdone, req>>
      BY <1>3, <3>1 DEF CreateFact, UpsertConfirmed
    <3>4. made \in [Key -> SUBSET Memory]
      BY <1>0 DEF TypeOK, BackendTypeOK
    <3>5. m \in made'[k] /\ \A j \in Key \ {k} : made'[j] = made[j]
      BY <3>2, <3>4
    <3>6. QED
      BY <3>3, <3>5
  <2>2. /\ stage' = [stage EXCEPT ![k] = IF req[k].op = "supersede" THEN "created" ELSE "backed"]
        /\ req[k].op \in Confirming
    BY <1>3 DEF CreateFact
  <2>3. QED
    BY <1>0, <2>1, <2>2, OpsApart DEF StageInv, TypeOK
<1>4. ASSUME NEW k \in Key, CallBackend(k) PROVE StageInv'
  <2>1. UNCHANGED <<made, req>> /\ bdone \subseteq bdone' /\ stage' = [stage EXCEPT ![k] = "backed"]
    BY <1>4 DEF CallBackend, SupersedeFact, ArchiveFact, RestoreSuperseded, RebuildPage, Note
  <2>2. WellFormed(k)
    BY <1>0, <1>4 DEF CallBackend, RequestInv
  <2>3. /\ req[k].op \in Confirming => made[k] # {}
        /\ req[k].op \in {"supersede", "revert"} => k \in bdone'
        /\ req[k].op = "forget" => req[k].mem \subseteq bdone'
    BY <1>0, <1>4, <2>2, OpsApart DEF CallBackend, SupersedeFact, ArchiveFact, RestoreSuperseded, RebuildPage, Note,
       StageInv, WellFormed
  <2>4. QED
    BY <1>0, <2>1, <2>3 DEF StageInv, TypeOK
<1>5. ASSUME NEW k \in Key, Commit(k) PROVE StageInv'
  <2>1. UNCHANGED <<made, bdone, req>> /\ stage' = [stage EXCEPT ![k] = "done"]
    BY <1>0, <1>5, CommitRecords
  <2>2. QED
    BY <1>0, <2>1 DEF StageInv, TypeOK
<1>6. ASSUME (\E m \in Memory : StoreFact(m)) \/ PlanCrystal \/ UNCHANGED vars PROVE StageInv'
  BY <1>0, <1>6 DEF StageInv, StoreFact, PlanCrystal, vars, requestVars, backendVars
<1>7. QED
  BY <1>1, <1>2, <1>3, <1>4, <1>5, <1>6, ReviewCases

\* A new request is nobody's business yet.
LEMMA SubmitAgrees ==
    ASSUME ReviewInv, NEW k \in Key, Submit(k)
    PROVE  AgreeInv'
<1>0. TypeOK /\ RequestInv /\ LastInv /\ LocksInv /\ AgreeInv
  BY DEF ReviewInv, LocksInv
<1>1. UNCHANGED <<memStatus, supersededBy, origin, fact, heir, made, bdone, candStatus, lastOp, recorded, source>>
  BY DEF Submit, lifecycleVars, backendVars, reviewVars
<1>2. k \notin recorded /\ k \notin bdone /\ made[k] = {} /\ \A j \in Key \ {k} : req'[j] = req[j]
  BY <1>0, ReqStays
<1>3. \A j \in recorded : j \in Key /\ j # k
  BY <1>0, <1>2 DEF TypeOK
<1>4. \A j \in bdone \cap Key : j # k /\ (req[j].op = "revert" => req[j].of \in recorded)
  BY <1>0, <1>2, TraceOfRequest
<1>5. HalfReverted' = HalfReverted
  BY <1>1, <1>2 DEF HalfReverted
<1>6. HalfReverted \subseteq bdone \cap Key /\ \A j \in HalfReverted : req[j].op = "revert"
  BY DEF HalfReverted
<1>7. RecordInv'
  BY <1>0, <1>1, <1>2, <1>3 DEF AgreeInv, RecordInv, LastInv
<1>8. MadeInv'
  BY <1>0, <1>1, <1>2, <1>3 DEF AgreeInv, MadeInv, Readable
<1>9. DoneInv'
  BY <1>0, <1>1, <1>2, <1>3, <1>4 DEF AgreeInv, DoneInv, RefOf
<1>10. HalfInv'
  BY <1>0, <1>1, <1>2, <1>3, <1>4, <1>5, <1>6 DEF AgreeInv, HalfInv, RefOf, TargetOf, Readable
<1>11. RowsInv'
  BY <1>0, <1>1, <1>2, <1>3, <1>4, <1>5, <1>6 DEF AgreeInv, RowsInv, StandingInv, ReplacedInv, ReplacingInv
<1>12. OnlyConfirmedInForce'
  BY <1>0, <1>1 DEF AgreeInv, OnlyConfirmedInForce, Active
<1>13. IndexMatchesBackend'
  <2>1. ASSUME NEW m \in Memory PROVE Unfinished(m)' <=> Unfinished(m)
    BY <1>1, <1>2, <1>3, <1>4 DEF Unfinished, RefOf, TargetOf
  <2>2. QED
    BY <1>0, <1>1, <2>1 DEF AgreeInv, IndexMatchesBackend, Readable
<1>14. QED
  BY <1>7, <1>8, <1>9, <1>10, <1>11, <1>12, <1>13 DEF AgreeInv

\* What an operation has made.
LEMMA MadeFacts ==
    ASSUME TypeOK, MadeInv, NEW k \in Key, NEW m \in made[k]
    PROVE  /\ m \in Memory /\ made[k] = {m} /\ req[k].op \in Confirming /\ fact[m] # "none"
           /\ req[k].op = "supersede" => m \notin req[k].mem
           /\ \A j \in Key : m \in made[j] => j = k
           /\ k \notin recorded => memStatus[m] = "none" /\ fact[m] = "live" /\ heir[m] = {}
           /\ k \in recorded => memStatus[m] # "none" /\ source[m] = req[k].cand
BY DEF TypeOK, BackendTypeOK, MadeInv, Readable

\* A fact that did not exist is in nobody's way.
LEMMA NewFact ==
    ASSUME TypeOK, MadeInv, DoneInv, NEW m \in Memory, fact[m] = "none"
    PROVE  /\ memStatus[m] = "none" /\ heir[m] = {} /\ source[m] = NoOne
           /\ \A j \in Key : m \notin made[j]
           /\ m \notin bdone
<1>1. memStatus[m] = "none" /\ heir[m] = {} /\ m \notin bdone /\ \A j \in Key : m \notin made[j]
  BY DEF MadeInv, DoneInv
<1>2. source[m] = NoOne
  BY <1>1 DEF MadeInv, TypeOK
<1>3. QED
  BY <1>1, <1>2

\* upsert_confirmed: the new fact waits for its row.
LEMMA CreateFactAgrees ==
    ASSUME ReviewInv, NEW k \in Key, CreateFact(k)
    PROVE  AgreeInv'
<1>0. TypeOK /\ LocksInv /\ AgreeInv /\ MadeInv /\ DoneInv
  BY DEF ReviewInv, LocksInv, AgreeInv
<1>1. UNCHANGED <<memStatus, supersededBy, origin, heir, bdone, candStatus, lastOp, recorded, source, req>>
  BY DEF CreateFact, UpsertConfirmed, lifecycleVars, reviewVars
<1>2. CASE UNCHANGED <<fact, made>>
  BY <1>0, <1>1, <1>2, QuietStep
<1>3. ASSUME NEW m \in Memory, made[k] = {}, fact[m] = "none",
             fact' = [fact EXCEPT ![m] = "live"], made' = [made EXCEPT ![k] = {m}]
      PROVE  AgreeInv'
  <2>1. fact'[m] = "live" /\ \A n \in Memory \ {m} : fact'[n] = fact[n]
    BY <1>0, <1>3 DEF TypeOK, BackendTypeOK
  <2>2. made'[k] = {m} /\ \A j \in Key \ {k} : made'[j] = made[j]
    BY <1>0, <1>3 DEF TypeOK, BackendTypeOK
  <2>3. memStatus[m] = "none" /\ heir[m] = {} /\ source[m] = NoOne /\ m \notin bdone /\ \A j \in Key : m \notin made[j]
    BY <1>0, <1>3, NewFact
  <2>4. /\ k \in Running /\ req[k].op \in Confirming /\ k \notin recorded
        /\ req[k].op = "supersede" => m \notin req[k].mem
    <3>1. k \in Running /\ req[k].op \in Confirming
      BY DEF CreateFact, Running
    <3>2. k \notin recorded /\ (req[k].op = "supersede" => req[k].mem \subseteq Active)
      BY <1>0, <3>1 DEF LocksInv, LockInv
    <3>3. QED
      BY <2>3, <3>1, <3>2 DEF Active
  <2>5. \A j \in recorded : j \in Key \ {k}
    BY <1>0, <2>4 DEF TypeOK
  <2>6. \A j \in bdone \cap Key : req[j].op = "revert" => req[j].of \in Key \ {k}
    BY <1>0, <2>5, TraceOfRequest
  <2>7. HalfReverted' = HalfReverted
    BY <1>1 DEF HalfReverted
  <2>8. HalfReverted \subseteq bdone \cap Key /\ \A j \in HalfReverted : req[j].op = "revert"
    BY DEF HalfReverted
  <2>9. \A j \in Key \ {k} : made[j] \subseteq Memory \ {m}
    BY <1>0, <2>3 DEF TypeOK, BackendTypeOK
  <2>10. RecordInv'
    BY <1>0, <1>1 DEF AgreeInv, RecordInv
  <2>11. MadeInv'
    <3>1. ASSUME NEW j \in Key, NEW n \in made'[j]
          PROVE  /\ req'[j].op \in Confirming /\ fact'[n] # "none"
                 /\ req'[j].op = "supersede" => n \notin req'[j].mem
                 /\ \A o \in made'[j] : o = n
                 /\ \A i \in Key : n \in made'[i] => i = j
                 /\ j \notin recorded' => memStatus'[n] = "none" /\ fact'[n] = "live" /\ heir'[n] = {}
                 /\ j \in recorded' =>
                       /\ memStatus'[n] # "none" /\ source'[n] = req'[j].cand
                       /\ origin'[n] = IF lastOp'[req'[j].cand] # j THEN "undone"
                               ELSE IF req'[j].op = "supersede" THEN "supersede" ELSE "confirm"
      <4>1. CASE j = k
        BY <1>1, <2>1, <2>2, <2>3, <2>4, <2>9, <4>1
      <4>2. CASE j # k
        <5>1. n \in made[j] /\ n \in Memory \ {m} /\ n \notin made'[k] /\ fact'[n] = fact[n]
          BY <2>1, <2>2, <2>9, <4>2
        <5>2. QED
          BY <1>0, <1>1, <2>2, <4>2, <5>1 DEF MadeInv, Readable
      <4>3. QED
        BY <4>1, <4>2
    <3>2. \A j \in recorded' : req'[j].op \in Confirming => made'[j] # {}
      BY <1>0, <1>1, <2>2, <2>5 DEF MadeInv
    <3>3. ASSUME NEW n \in Memory
          PROVE  /\ fact'[n] = "none" => memStatus'[n] = "none" /\ heir'[n] = {}
                 /\ source'[n] # NoOne => \E j \in recorded' : n \in made'[j]
      BY <1>0, <1>1, <2>1, <2>2, <2>3, <2>5 DEF MadeInv
    <3>4. QED
      BY <3>1, <3>2, <3>3 DEF MadeInv, Readable
  <2>12. DoneInv'
    <3>1. \A n \in bdone' \cap Memory : fact'[n] = "expired"
      BY <1>0, <1>1, <2>1, <2>3 DEF DoneInv
    <3>2. ASSUME NEW j \in bdone' \cap Key, req'[j].op = "supersede"
          PROVE  made'[j] # {} /\ (j \notin recorded' => \A t \in req'[j].mem : heir'[t] = made'[j])
      BY <1>0, <1>1, <1>3, <2>2, <3>2 DEF DoneInv
    <3>3. ASSUME NEW j \in bdone' \cap Key, req'[j].op = "revert"
          PROVE  req'[req'[j].of].op \in Confirming /\ \A n \in made'[req'[j].of] : fact'[n] = "expired"
      BY <1>0, <1>1, <2>1, <2>2, <2>6, <2>9, <3>3 DEF DoneInv, RefOf
    <3>4. QED
      BY <3>1, <3>2, <3>3 DEF DoneInv, RefOf
  <2>13. HalfInv'
    <3>1. \A j \in HalfReverted : made'[req[j].of] = made[req[j].of] /\ TargetOf(j) \subseteq Memory
      BY <1>0, <2>2, <2>6, <2>8, RequestFields DEF TargetOf
    <3>2. QED
      BY <1>0, <1>1, <2>1, <2>3, <2>7, <3>1 DEF AgreeInv, HalfInv, RefOf, TargetOf, Readable
  <2>14. RowsInv'
    <3>1. \A n \in Memory : fact[n] = "expired" => fact'[n] = "expired"
      BY <1>3, <2>1
    <3>2. \A j \in recorded : made'[j] = made[j]
      BY <2>2, <2>5
    <3>3. QED
      BY <1>0, <1>1, <2>7, <3>1, <3>2 DEF AgreeInv, RowsInv, StandingInv, ReplacedInv, ReplacingInv
  <2>15. OnlyConfirmedInForce'
    BY <1>0, <1>1 DEF AgreeInv, OnlyConfirmedInForce, Active
  <2>16. IndexMatchesBackend'
    <3>1. ASSUME NEW n \in Memory, Unfinished(n) PROVE Unfinished(n)'
      BY <1>1, <2>2, <2>6, <3>1 DEF Unfinished, RefOf, TargetOf
    <3>2. QED
      BY <1>0, <1>1, <2>1, <2>3, <3>1 DEF AgreeInv, IndexMatchesBackend, Readable
  <2>17. QED
    BY <2>10, <2>11, <2>12, <2>13, <2>14, <2>15, <2>16 DEF AgreeInv
<1>4. QED
  BY <1>2, <1>3 DEF CreateFact, UpsertConfirmed

\* A call of the backend that changes only facts with a row and leaves their operation
\* unfinished.
LEMMA BackendCall ==
    ASSUME TypeOK, AgreeInv,
           UNCHANGED <<memStatus, supersededBy, origin, made, candStatus, lastOp, recorded, source, req>>,
           bdone \subseteq bdone',
           \A n \in Memory : fact'[n] = "none" => fact[n] = "none" /\ heir'[n] = heir[n],
           \A n \in Memory : fact'[n] # fact[n] \/ heir'[n] # heir[n] => memStatus[n] # "none" /\ Unfinished(n)'
    PROVE  RecordInv' /\ MadeInv' /\ OnlyConfirmedInForce' /\ IndexMatchesBackend'
<1>1. RecordInv' /\ OnlyConfirmedInForce'
  BY DEF AgreeInv, RecordInv, OnlyConfirmedInForce, Active
<1>2. MadeInv'
  <2>1. ASSUME NEW j \in Key, NEW n \in made[j]
        PROVE  /\ fact'[n] # "none" /\ (memStatus[n] = "none" /\ Readable(n) => fact'[n] = "live" /\ heir'[n] = {})
    BY MadeFacts DEF AgreeInv, Readable
  <2>2. ASSUME NEW j \in Key, NEW n \in made[j], j \notin recorded
        PROVE  memStatus[n] = "none" /\ fact'[n] = "live" /\ heir'[n] = {}
    BY <2>1, <2>2 DEF AgreeInv, MadeInv
  <2>3. QED
    BY <2>1, <2>2 DEF AgreeInv, MadeInv, Readable
<1>3. IndexMatchesBackend'
  <2>1. ASSUME NEW n \in Memory, Unfinished(n) PROVE Unfinished(n)'
    BY <2>1 DEF Unfinished, RefOf, TargetOf
  <2>2. QED
    BY <2>1 DEF AgreeInv, IndexMatchesBackend, Readable
<1>4. QED
  BY <1>1, <1>2, <1>3

\* supersede: the old fact gets its heir.
LEMMA SupersedeAgrees ==
    ASSUME ReviewInv, NEW k \in Key, stage[k] = "created", NEW t \in req[k].mem, NEW m \in made[k],
           SupersedeFact(k, t, m), k \notin bdone,
           UNCHANGED <<memStatus, supersededBy, origin, candStatus, lastOp, recorded, source, req>>
    PROVE  AgreeInv'
<1>0. TypeOK /\ LocksInv /\ AgreeInv /\ MadeInv /\ DoneInv /\ StageInv
  BY DEF ReviewInv, LocksInv, AgreeInv
<1>1. k \in Running /\ req[k].op = "supersede"
  BY <1>0 DEF Running, StageInv
<1>2. k \notin recorded /\ t \in Memory /\ memStatus[t] = "active" /\ req[k].mem = {t} /\ made[k] = {m}
  <2>1. k \notin recorded /\ req[k].mem \subseteq Active
    BY <1>0, <1>1, OpsApart DEF LocksInv, LockInv
  <2>2. WellFormed(k)
    BY <1>0, TraceOfRequest
  <2>3. QED
    BY <1>0, <1>1, <2>1, <2>2, MadeFacts DEF WellFormed, Active
<1>3. /\ fact[t] = "live" /\ heir[t] = {} /\ heir' = [heir EXCEPT ![t] = {m}] /\ bdone' = bdone \cup {k}
      /\ UNCHANGED <<fact, made>>
  BY DEF SupersedeFact, CanSupersede, Repeated, Readable, Note
<1>4. heir'[t] = {m} /\ \A n \in Memory \ {t} : heir'[n] = heir[n]
  BY <1>0, <1>2, <1>3 DEF TypeOK, BackendTypeOK
<1>5. HalfReverted' = HalfReverted
  BY <1>1, <1>3 DEF HalfReverted
<1>6. Unfinished(t)'
  BY <1>1, <1>2, <1>3 DEF Unfinished
<1>7. RecordInv' /\ MadeInv' /\ OnlyConfirmedInForce' /\ IndexMatchesBackend'
  BY <1>0, <1>2, <1>3, <1>4, <1>6, BackendCall
<1>8. DoneInv'
  <2>1. \A n \in bdone' \cap Memory : fact'[n] = "expired"
    BY <1>0, <1>3 DEF DoneInv
  <2>2. ASSUME NEW j \in bdone' \cap Key, req[j].op = "supersede"
        PROVE  made[j] # {} /\ (j \notin recorded => \A s \in req[j].mem : heir'[s] = made[j])
    <3>1. CASE j = k
      BY <1>2, <1>4, <3>1
    <3>2. CASE j # k
      <4>1. made[j] # {} /\ (j \notin recorded => \A s \in req[j].mem : heir[s] = made[j])
        BY <1>0, <1>3, <2>2, <3>2 DEF DoneInv
      <4>2. req[j].mem \subseteq Memory
        BY <1>0, RequestFields
      <4>3. QED
        BY <1>3, <1>4, <4>1, <4>2
    <3>3. QED
      BY <3>1, <3>2
  <2>3. ASSUME NEW j \in bdone' \cap Key, req[j].op = "revert"
        PROVE  req[req[j].of].op \in Confirming /\ \A n \in made[req[j].of] : fact[n] = "expired"
    BY <1>0, <1>1, <1>3, <2>3 DEF DoneInv, RefOf
  <2>4. QED
    BY <1>3, <2>1, <2>2, <2>3 DEF DoneInv, RefOf
<1>9. HalfInv'
  <2>1. \A j \in HalfReverted : TargetOf(j) \subseteq Memory
    BY <1>0, TraceOfRequest, RequestFields DEF TargetOf, HalfReverted
  <2>2. QED
    BY <1>0, <1>2, <1>3, <1>4, <1>5, <2>1 DEF AgreeInv, HalfInv, RefOf, TargetOf, Readable
<1>10. RowsInv'
  BY <1>0, <1>2, <1>3, <1>4, <1>5 DEF AgreeInv, RowsInv, StandingInv, ReplacedInv, ReplacingInv
<1>11. QED
  BY <1>7, <1>8, <1>9, <1>10 DEF AgreeInv

\* archive, called by forget under the key of the memory.
LEMMA ForgetAgrees ==
    ASSUME ReviewInv, NEW k \in Key, stage[k] = "begun", req[k].op = "forget", NEW m \in req[k].mem,
           ArchiveFact(m, m), m \notin bdone,
           UNCHANGED <<memStatus, supersededBy, origin, candStatus, lastOp, recorded, source, req>>
    PROVE  AgreeInv'
<1>0. TypeOK /\ LocksInv /\ AgreeInv /\ MadeInv /\ DoneInv
  BY DEF ReviewInv, LocksInv, AgreeInv
<1>1. m \in Memory /\ memStatus[m] = "active" /\ m \notin Key
  BY <1>0, RequestFields DEF LocksInv, LockInv, Running, Active
<1>2. fact' = [fact EXCEPT ![m] = "expired"] /\ bdone' = bdone \cup {m} /\ UNCHANGED <<heir, made>>
  BY DEF ArchiveFact, Repeated, Note
<1>3. fact'[m] = "expired" /\ \A n \in Memory \ {m} : fact'[n] = fact[n]
  BY <1>0, <1>1, <1>2 DEF TypeOK, BackendTypeOK
<1>4. HalfReverted' = HalfReverted
  BY <1>1, <1>2 DEF HalfReverted
<1>5. Unfinished(m)'
  BY <1>1, <1>2 DEF Unfinished
<1>6. RecordInv' /\ MadeInv' /\ OnlyConfirmedInForce' /\ IndexMatchesBackend'
  BY <1>0, <1>1, <1>2, <1>3, <1>5, BackendCall
<1>7. \A n \in Memory : fact[n] = "expired" => fact'[n] = "expired"
  BY <1>3
<1>8. DoneInv'
  <2>1. \A j \in bdone \cap Key : req[j].op = "revert" => made[req[j].of] \subseteq Memory
    BY <1>0, TraceOfRequest DEF TypeOK, BackendTypeOK
  <2>2. \A n \in bdone' \cap Memory : fact'[n] = "expired"
    BY <1>0, <1>2, <1>3, <1>7 DEF DoneInv
  <2>3. bdone' \cap Key = bdone \cap Key
    BY <1>1, <1>2
  <2>4. QED
    BY <1>0, <1>2, <1>7, <2>1, <2>2, <2>3 DEF DoneInv, RefOf
<1>9. HalfInv'
  <2>1. \A j \in HalfReverted : TargetOf(j) \subseteq Memory
    BY <1>0, TraceOfRequest, RequestFields DEF TargetOf, HalfReverted
  <2>2. QED
    BY <1>0, <1>1, <1>2, <1>3, <1>4, <2>1 DEF AgreeInv, HalfInv, RefOf, TargetOf, Readable
<1>10. RowsInv'
  <2>1. StandingInv'
    BY <1>0, <1>7 DEF AgreeInv, RowsInv, StandingInv
  <2>2. ReplacedInv'
    BY <1>0, <1>2, <1>4 DEF AgreeInv, RowsInv, ReplacedInv
  <2>3. ReplacingInv'
    BY <1>0, <1>2 DEF AgreeInv, RowsInv, ReplacingInv
  <2>4. QED
    BY <2>1, <2>2, <2>3 DEF RowsInv
<1>11. QED
  BY <1>6, <1>8, <1>9, <1>10 DEF AgreeInv

\* The calls of a revert: it becomes the one revert that is half done.
LEMMA RevertAgrees ==
    ASSUME ReviewInv, NEW k \in Key, stage[k] = "begun", req[k].op = "revert", req[req[k].of].op \in Confirming,
           HalfReverted \subseteq {k}, k \notin bdone, bdone' = bdone \cup {k},
           NEW m \in made[req[k].of], fact' = [fact EXCEPT ![m] = "expired"],
           \/ heir' = heir /\ req[req[k].of].op # "supersede"
           \/ \E t \in req[req[k].of].mem : /\ fact[t] = "live" /\ heir[t] = {m} /\ heir' = [heir EXCEPT ![t] = {}]
                                            /\ req[req[k].of].op = "supersede",
           UNCHANGED <<memStatus, supersededBy, origin, made, candStatus, lastOp, recorded, source, req>>
    PROVE  AgreeInv'
<1> DEFINE of == req[k].of
<1>0. TypeOK /\ LocksInv /\ AgreeInv /\ MadeInv /\ DoneInv
  BY DEF ReviewInv, LocksInv, AgreeInv
<1>1. of \in recorded /\ of \in Key /\ req[of].cand = req[k].cand /\ WellFormed(of)
  BY <1>0, TraceOfRequest
<1>2. k \notin recorded /\ lastOp[req[k].cand] = of
  BY <1>0 DEF LocksInv, LockInv, Running
<1>3. /\ m \in Memory /\ made[of] = {m} /\ fact[m] # "none" /\ memStatus[m] # "none"
      /\ \A j \in Key : m \in made[j] => j = of
      /\ req[of].op = "supersede" => m \notin req[of].mem
  BY <1>0, <1>1, MadeFacts
<1> HIDE DEF of
<1>4. HalfReverted = {} /\ HalfReverted' = {k}
  BY <1>2 DEF HalfReverted
<1>5. fact'[m] = "expired" /\ \A n \in Memory \ {m} : fact'[n] = fact[n]
  BY <1>0, <1>3 DEF TypeOK, BackendTypeOK
<1>6. Unfinished(m)' /\ \A t \in req[of].mem : Unfinished(t)'
  BY <1>2, <1>3 DEF Unfinished, RefOf, TargetOf, of
<1>7. req[of].op = "supersede" =>
        \E t \in Memory : /\ req[of].mem = {t} /\ t # m /\ fact[t] = "live" /\ heir[t] = {m} /\ heir'[t] = {}
                          /\ memStatus[t] = "superseded" /\ supersededBy[t] = {m}
                          /\ \A n \in Memory \ {t} : heir'[n] = heir[n]
  <2>1. SUFFICES ASSUME req[of].op = "supersede"
                 PROVE \E t \in Memory : /\ req[of].mem = {t} /\ t # m /\ fact[t] = "live" /\ heir[t] = {m} /\ heir'[t] = {}
                          /\ memStatus[t] = "superseded" /\ supersededBy[t] = {m}
                          /\ \A n \in Memory \ {t} : heir'[n] = heir[n]
    OBVIOUS
  <2>2. PICK t \in req[of].mem : fact[t] = "live" /\ heir[t] = {m} /\ heir' = [heir EXCEPT ![t] = {}]
    BY <2>1 DEF of
  <2>3. t \in Memory /\ req[of].mem = {t} /\ t # m
    BY <1>1, <1>3, <2>1, <2>2 DEF WellFormed
  <2>4. heir'[t] = {} /\ \A n \in Memory \ {t} : heir'[n] = heir[n]
    BY <1>0, <2>2, <2>3 DEF TypeOK, BackendTypeOK
  <2>5. memStatus[t] = "superseded" /\ supersededBy[t] = {m}
    BY <1>0, <1>1, <1>2, <1>3, <2>1, <2>2, <2>3 DEF AgreeInv, RowsInv, StandingInv, ReplacedInv, ReplacingInv
  <2>6. QED
    BY <2>2, <2>3, <2>4, <2>5
<1>8. req[of].op # "supersede" => heir' = heir
  BY DEF of
<1>9. \A n \in Memory : heir'[n] # heir[n] => memStatus[n] = "superseded" /\ fact[n] = "live" /\ n # m /\ Unfinished(n)'
  BY <1>6, <1>7, <1>8
<1>10. RecordInv' /\ MadeInv' /\ OnlyConfirmedInForce' /\ IndexMatchesBackend'
  <2>1. \A n \in Memory : fact'[n] = "none" => fact[n] = "none" /\ heir'[n] = heir[n]
    BY <1>5, <1>9
  <2>2. \A n \in Memory : fact'[n] # fact[n] \/ heir'[n] # heir[n] => memStatus[n] # "none" /\ Unfinished(n)'
    BY <1>3, <1>5, <1>6, <1>9
  <2>3. QED
    BY <1>0, <2>1, <2>2, BackendCall
<1>11. \A n \in Memory : fact[n] = "expired" => fact'[n] = "expired"
  BY <1>5
<1>12. DoneInv'
  <2>1. \A n \in bdone' \cap Memory : fact'[n] = "expired"
    BY <1>0, <1>11 DEF DoneInv
  <2>2. ASSUME NEW j \in bdone' \cap Key, req[j].op = "supersede"
        PROVE  made[j] # {} /\ (j \notin recorded => \A s \in req[j].mem : heir'[s] = made[j])
    <3>1. made[j] # {} /\ (j \notin recorded => \A s \in req[j].mem : heir[s] = made[j])
      BY <1>0, <2>2 DEF DoneInv
    <3>2. \A s \in Memory : heir[s] # heir'[s] => heir[s] = made[of]
      BY <1>3, <1>7, <1>8
    <3>3. j \notin recorded => made[j] # made[of]
      BY <1>1, <1>3
    <3>4. req[j].mem \subseteq Memory
      BY <1>0, RequestFields
    <3>5. QED
      BY <3>1, <3>2, <3>3, <3>4
  <2>3. ASSUME NEW j \in bdone' \cap Key, req[j].op = "revert"
        PROVE  req[req[j].of].op \in Confirming /\ \A n \in made[req[j].of] : fact'[n] = "expired"
    <3>1. CASE j = k
      BY <1>3, <1>5, <3>1 DEF of
    <3>2. CASE j # k
      <4>1. made[req[j].of] \subseteq Memory
        BY <1>0, <2>3, <3>2, TraceOfRequest DEF TypeOK, BackendTypeOK
      <4>2. QED
        BY <1>0, <1>11, <2>3, <3>2, <4>1 DEF DoneInv, RefOf
    <3>3. QED
      BY <3>1, <3>2
  <2>4. QED
    BY <2>1, <2>2, <2>3 DEF DoneInv, RefOf
<1>13. HalfInv'
  <2>1. req[of].op = "supersede" => \A t \in req[of].mem :
           memStatus[t] = "superseded" /\ supersededBy[t] = made[of] /\ fact'[t] = "live" /\ heir'[t] = {}
    BY <1>3, <1>5, <1>7
  <2>2. QED
    BY <1>2, <1>4, <2>1 DEF HalfInv, RefOf, TargetOf, Readable, of
<1>14. RowsInv'
  <2>1. ASSUME NEW n \in Memory, memStatus[n] = "superseded"
        PROVE  \E j \in recorded :
                 /\ req[j].op = "supersede" /\ req[j].mem = {n} /\ lastOp[req[j].cand] = j
                 /\ heir'[n] = made[j] \/ of = j
    <3>1. CASE req[of].op = "supersede" /\ req[of].mem = {n}
      BY <1>1, <1>2, <3>1 DEF of
    <3>2. CASE ~(req[of].op = "supersede" /\ req[of].mem = {n})
      <4>1. heir'[n] = heir[n]
        BY <1>7, <1>8, <3>2
      <4>2. \E j \in recorded : /\ req[j].op = "supersede" /\ req[j].mem = {n} /\ lastOp[req[j].cand] = j
                                /\ heir[n] = made[j] \/ (\E i \in HalfReverted : req[i].of = j)
        BY <1>0, <2>1 DEF AgreeInv, RowsInv, StandingInv, ReplacedInv, ReplacingInv
      <4>3. QED
        BY <1>4, <4>1, <4>2
    <3>3. QED
      BY <3>1, <3>2
  <2>2. \A n \in Memory : /\ memStatus[n] = "archived" => fact'[n] = "expired"
                          /\ memStatus[n] \in {"active", "superseded"} => origin[n] # "undone"
    BY <1>0, <1>11 DEF AgreeInv, RowsInv, StandingInv, ReplacedInv, ReplacingInv
  <2>3. \A j \in recorded : req[j].op = "supersede" /\ lastOp[req[j].cand] = j => \A t \in req[j].mem :
           memStatus[t] = "archived" \/ (memStatus[t] = "superseded" /\ supersededBy[t] = made[j])
    BY <1>0 DEF AgreeInv, RowsInv, StandingInv, ReplacedInv, ReplacingInv
  <2>4. \A j \in recorded : of = j => \E i \in HalfReverted' : req[i].of = j
    BY <1>4 DEF of
  <2>5. ASSUME NEW n \in Memory, memStatus'[n] = "superseded"
        PROVE  \E j \in recorded' :
                 /\ req'[j].op = "supersede" /\ req'[j].mem = {n} /\ lastOp'[req'[j].cand] = j
                 /\ heir'[n] = made'[j] \/ (\E i \in HalfReverted' : req'[i].of = j)
    <3>1. PICK j \in recorded : /\ req[j].op = "supersede" /\ req[j].mem = {n} /\ lastOp[req[j].cand] = j
                                /\ heir'[n] = made[j] \/ of = j
      BY <2>1, <2>5
    <3>2. QED
      BY <2>4, <3>1
  <2>6. StandingInv' /\ ReplacedInv'
    BY <2>2, <2>5 DEF StandingInv, ReplacedInv
  <2>7. ReplacingInv'
    BY <2>3 DEF ReplacingInv
  <2>8. QED
    BY <2>6, <2>7 DEF RowsInv
<1>15. QED
  BY <1>10, <1>12, <1>13, <1>14 DEF AgreeInv

\* rebuild_crystal: no fact changes.
LEMMA RebuildAgrees ==
    ASSUME ReviewInv, NEW k \in Key, req[k].op = "rebuild", RebuildPage(k, held[k]),
           UNCHANGED <<memStatus, supersededBy, origin, candStatus, lastOp, recorded, source, req>>
    PROVE  AgreeInv'
<1>0. TypeOK /\ AgreeInv
  BY DEF ReviewInv, LocksInv
<1>1. bdone' = bdone \cup {k} /\ UNCHANGED <<fact, heir, made>>
  BY DEF RebuildPage, Note
<1>2. RecordInv' /\ MadeInv' /\ OnlyConfirmedInForce' /\ IndexMatchesBackend'
  BY <1>0, <1>1, BackendCall
<1>3. HalfReverted' = HalfReverted
  BY <1>1 DEF HalfReverted
<1>4. DoneInv'
  <2>1. bdone' \cap Memory = bdone \cap Memory
    BY <1>1
  <2>2. \A j \in bdone' \cap Key : req[j].op \in {"supersede", "revert"} => j \in bdone \cap Key
    BY <1>1
  <2>3. QED
    BY <1>0, <1>1, <2>1, <2>2 DEF AgreeInv, DoneInv, RefOf
<1>5. HalfInv'
  BY <1>0, <1>1, <1>3 DEF AgreeInv, HalfInv, RefOf, TargetOf, Readable
<1>6. RowsInv'
  BY <1>0, <1>1, <1>3 DEF AgreeInv, RowsInv, StandingInv, ReplacedInv, ReplacingInv
<1>7. QED
  BY <1>2, <1>4, <1>5, <1>6 DEF AgreeInv

LEMMA CallBackendAgrees ==
    ASSUME ~Overlap, ReviewInv, NEW k \in Key, CallBackend(k)
    PROVE  AgreeInv'
<1>0. AgreeInv /\ StageInv
  BY DEF ReviewInv
<1>1. UNCHANGED <<memStatus, supersededBy, origin, candStatus, lastOp, recorded, source, req>>
  BY DEF CallBackend, lifecycleVars, reviewVars
<1>2. CASE stage[k] = "created" /\ \E t \in req[k].mem, m \in made[k] : SupersedeFact(k, t, m)
  <2>1. CASE k \in bdone
    <3>1. UNCHANGED <<fact, heir, made, bdone>>
      BY <1>2, <2>1 DEF SupersedeFact, Repeated, Note
    <3>2. QED
      BY <1>0, <1>1, <3>1, QuietStep
  <2>2. CASE k \notin bdone
    BY <1>1, <1>2, <2>2, SupersedeAgrees
  <2>3. QED
    BY <2>1, <2>2
<1>3. CASE stage[k] = "begun" /\ req[k].op = "forget" /\ \E m \in req[k].mem : ArchiveFact(m, m)
  <2>1. PICK m \in req[k].mem : ArchiveFact(m, m)
    BY <1>3
  <2>2. CASE m \in bdone
    <3>1. UNCHANGED <<fact, heir, made, bdone>>
      BY <2>1, <2>2 DEF ArchiveFact, Repeated, Note
    <3>2. QED
      BY <1>0, <1>1, <3>1, QuietStep
  <2>3. CASE m \notin bdone
    BY <1>1, <1>3, <2>1, <2>3, ForgetAgrees
  <2>4. QED
    BY <2>2, <2>3
<1>4. CASE /\ stage[k] = "begun" /\ req[k].op = "revert" /\ req[req[k].of].op = "supersede"
           /\ \E m \in RefOf(k), t \in TargetOf(k) : RestoreSuperseded(k, t, m)
  <2>1. PICK m \in RefOf(k), t \in TargetOf(k) : RestoreSuperseded(k, t, m)
    BY <1>4
  <2>2. CASE k \in bdone
    <3>1. UNCHANGED <<fact, heir, made, bdone>>
      BY <2>1, <2>2 DEF RestoreSuperseded, Repeated, Note
    <3>2. QED
      BY <1>0, <1>1, <3>1, QuietStep
  <2>3. CASE k \notin bdone
    <3>1. /\ bdone' = bdone \cup {k} /\ made' = made /\ fact' = [fact EXCEPT ![m] = "expired"]
          /\ fact[t] = "live" /\ heir[t] = {m} /\ heir' = [heir EXCEPT ![t] = {}]
      BY <2>1, <2>3 DEF RestoreSuperseded, CanRestore, Repeated, Note
    <3>2. HalfReverted \subseteq {k}
      BY <1>4 DEF CallBackend
    <3>3. m \in made[req[k].of] /\ t \in req[req[k].of].mem
      BY DEF RefOf, TargetOf
    <3>4. QED
      BY <1>1, <1>4, <2>3, <3>1, <3>2, <3>3, RevertAgrees, OpsApart
  <2>4. QED
    BY <2>2, <2>3
<1>5. CASE /\ stage[k] = "begun" /\ req[k].op = "revert" /\ req[req[k].of].op \in Confirming \ {"supersede"}
           /\ \E m \in RefOf(k) : ArchiveFact(k, m)
  <2>1. PICK m \in RefOf(k) : ArchiveFact(k, m)
    BY <1>5
  <2>2. CASE k \in bdone
    <3>1. UNCHANGED <<fact, heir, made, bdone>>
      BY <2>1, <2>2 DEF ArchiveFact, Repeated, Note
    <3>2. QED
      BY <1>0, <1>1, <3>1, QuietStep
  <2>3. CASE k \notin bdone
    <3>1. bdone' = bdone \cup {k} /\ fact' = [fact EXCEPT ![m] = "expired"] /\ UNCHANGED <<heir, made>>
      BY <2>1, <2>3 DEF ArchiveFact, Repeated, Note
    <3>2. HalfReverted \subseteq {k}
      BY <1>5 DEF CallBackend
    <3>3. m \in made[req[k].of]
      BY DEF RefOf
    <3>4. QED
      BY <1>1, <1>5, <2>3, <3>1, <3>2, <3>3, RevertAgrees
  <2>4. QED
    BY <2>2, <2>3
<1>6. CASE stage[k] = "begun" /\ req[k].op = "rebuild" /\ RebuildPage(k, held[k])
  BY <1>1, <1>6, RebuildAgrees
<1>7. QED
  BY <1>2, <1>3, <1>4, <1>5, <1>6 DEF CallBackend

\* A memory that the worker stores without review.
LEMMA StoreFactAgrees ==
    ASSUME ReviewInv, NEW m \in Memory, StoreFact(m)
    PROVE  AgreeInv'
<1>0. TypeOK /\ LocksInv /\ AgreeInv /\ MadeInv /\ DoneInv
  BY DEF ReviewInv, LocksInv, AgreeInv
<1>1. /\ UNCHANGED <<supersededBy, heir, made, bdone, candStatus, lastOp, recorded, source, req>>
      /\ fact[m] = "none" /\ fact' = [fact EXCEPT ![m] = "live"]
      /\ memStatus' = [memStatus EXCEPT ![m] = "active"] /\ origin' = [origin EXCEPT ![m] = "auto"]
  BY DEF StoreFact, Activate, requestVars
<1>2. /\ fact'[m] = "live" /\ memStatus'[m] = "active" /\ origin'[m] = "auto"
      /\ \A n \in Memory \ {m} : fact'[n] = fact[n] /\ memStatus'[n] = memStatus[n] /\ origin'[n] = origin[n]
  BY <1>0, <1>1 DEF TypeOK, BackendTypeOK, LifecycleTypeOK
<1>3. memStatus[m] = "none" /\ heir[m] = {} /\ source[m] = NoOne /\ m \notin bdone /\ \A j \in Key : m \notin made[j]
  BY <1>0, <1>1, NewFact
<1>4. HalfReverted' = HalfReverted
  BY <1>1 DEF HalfReverted
<1>5. \A j \in Key : made[j] \subseteq Memory \ {m} /\ req[j].mem \subseteq Memory
  BY <1>0, <1>3, RequestFields DEF TypeOK, BackendTypeOK
<1>6. recorded \subseteq Key /\ \A j \in bdone \cap Key : req[j].op = "revert" => req[j].of \in Key
  BY <1>0, TraceOfRequest DEF TypeOK
<1>7. HalfReverted \subseteq bdone \cap Key /\ \A j \in HalfReverted : req[j].op = "revert"
  BY DEF HalfReverted
<1>8. RecordInv'
  BY <1>0, <1>1 DEF AgreeInv, RecordInv
<1>9. MadeInv'
  <2>1. \A j \in Key : \A n \in made[j] : n \in Memory /\ n # m
    BY <1>5
  <2>2. \A n \in Memory : fact'[n] = "none" => n # m
    BY <1>2
  <2>3. QED
    BY <1>0, <1>1, <1>2, <2>1, <2>2 DEF MadeInv, Readable
<1>10. DoneInv'
  BY <1>0, <1>1, <1>2, <1>3, <1>5, <1>6 DEF DoneInv, RefOf
<1>11. HalfInv'
  <2>1. \A j \in HalfReverted : TargetOf(j) \subseteq Memory
    BY <1>5, <1>6, <1>7 DEF TargetOf
  <2>2. QED
    BY <1>0, <1>1, <1>2, <1>3, <1>4, <2>1 DEF AgreeInv, HalfInv, RefOf, TargetOf, Readable
<1>12. RowsInv'
  <2>1. \A n \in Memory : memStatus'[n] = "superseded" => n # m
    BY <1>2
  <2>2. \A n \in Memory : /\ memStatus'[n] = "archived" => fact'[n] = "expired"
                          /\ memStatus'[n] \in {"active", "superseded"} => origin'[n] # "undone"
    BY <1>0, <1>2 DEF AgreeInv, RowsInv, StandingInv, ReplacedInv, ReplacingInv
  <2>3. ASSUME NEW n \in Memory, memStatus'[n] = "superseded"
        PROVE  \E j \in recorded' :
                 /\ req'[j].op = "supersede" /\ req'[j].mem = {n} /\ lastOp'[req'[j].cand] = j
                 /\ heir'[n] = made'[j] \/ (\E i \in HalfReverted' : req'[i].of = j)
    BY <1>0, <1>1, <1>2, <1>4, <2>1, <2>3 DEF AgreeInv, RowsInv, StandingInv, ReplacedInv, ReplacingInv
  <2>4. \A j \in recorded : \A t \in req[j].mem : memStatus[t] \in {"archived", "superseded"} => memStatus'[t] = memStatus[t]
    BY <1>2, <1>3, <1>5, <1>6
  <2>5. \A j \in recorded : req[j].op = "supersede" /\ lastOp[req[j].cand] = j => \A t \in req[j].mem :
           memStatus'[t] = "archived" \/ (memStatus'[t] = "superseded" /\ supersededBy[t] = made[j])
    BY <1>0, <2>4 DEF AgreeInv, RowsInv, StandingInv, ReplacedInv, ReplacingInv
  <2>6. StandingInv' /\ ReplacedInv'
    BY <2>2, <2>3 DEF StandingInv, ReplacedInv
  <2>7. ReplacingInv'
    BY <1>1, <2>5 DEF ReplacingInv
  <2>8. QED
    BY <2>6, <2>7 DEF RowsInv
<1>13. OnlyConfirmedInForce'
  BY <1>0, <1>1, <1>2, <1>3 DEF AgreeInv, OnlyConfirmedInForce, Active
<1>14. IndexMatchesBackend'
  <2>1. ASSUME NEW n \in Memory, n # m, Unfinished(n) PROVE Unfinished(n)'
    BY <1>1, <1>2, <2>1 DEF Unfinished, RefOf, TargetOf
  <2>2. QED
    BY <1>0, <1>1, <1>2, <1>3, <2>1 DEF AgreeInv, IndexMatchesBackend, Readable
<1>15. QED
  BY <1>8, <1>9, <1>10, <1>11, <1>12, <1>13, <1>14 DEF AgreeInv
-----------------------------------------------------------------------------
(* The commits.                                                             *)

\* Nothing in force, and nothing half done, rests on a candidate whose last operation did
\* not confirm it.
LEMMA IdleCandidate ==
    ASSUME LocksInv, AgreeInv, NEW c \in Candidate, ~(lastOp[c] # NoOne /\ req[lastOp[c]].op \in Confirming)
    PROVE  /\ \A j \in HalfReverted : req[j].cand \in Candidate \ {c}
           /\ \A j \in recorded : req[j].op \in Confirming => lastOp[c] # j
           /\ \A n \in Memory : memStatus[n] \in {"active", "superseded"} => source[n] # c
<1>1. \A j \in recorded : req[j].op \in Confirming => lastOp[c] # j
  BY DEF LocksInv, TypeOK
<1>2. ASSUME NEW j \in HalfReverted PROVE req[j].cand \in Candidate \ {c}
  <2>1. j \in bdone \cap Key /\ req[j].op = "revert"
    BY DEF HalfReverted
  <2>2. req[j].of \in recorded /\ req[j].cand \in Candidate
    BY <2>1, TraceOfRequest
  <2>3. lastOp[req[j].cand] = req[j].of /\ req[req[j].of].op \in Confirming
    BY <2>1 DEF AgreeInv, HalfInv, DoneInv
  <2>4. QED
    BY <1>1, <2>2, <2>3
<1>3. ASSUME NEW n \in Memory, memStatus[n] \in {"active", "superseded"}, source[n] = c PROVE FALSE
  <2>1. origin[n] # "undone" /\ source[n] # NoOne
    BY <1>3 DEF AgreeInv, RowsInv, StandingInv, ReplacedInv, ReplacingInv
  <2>2. PICK j \in recorded : n \in made[j]
    BY <2>1 DEF AgreeInv, MadeInv
  <2>3. j \in Key
    BY DEF LocksInv, TypeOK
  <2>4. req[j].op \in Confirming /\ source[n] = req[j].cand /\ lastOp[req[j].cand] = j
    BY <2>1, <2>2, <2>3 DEF AgreeInv, MadeInv
  <2>5. QED
    BY <1>1, <1>3, <2>4
<1>4. QED
  BY <1>1, <1>2, <1>3

\* A commit that leaves the index alone: close, and the reversal of a close.
LEMMA IdleCommitAgrees ==
    ASSUME ReviewInv, NEW k \in Key, req[k].op \in {"close", "revert"}, req[k].op = "revert" => k \notin bdone,
           k \notin recorded, req[k].cand \in Candidate,
           ~(lastOp[req[k].cand] # NoOne /\ req[lastOp[req[k].cand]].op \in Confirming),
           recorded' = recorded \cup {k}, lastOp' = [lastOp EXCEPT ![req[k].cand] = k],
           NEW s \in {"pending", "closed"}, candStatus' = [candStatus EXCEPT ![req[k].cand] = s],
           UNCHANGED <<memStatus, supersededBy, origin, fact, heir, made, bdone, source, req>>
    PROVE  AgreeInv'
<1> DEFINE c == req[k].cand
<1>0. TypeOK /\ LocksInv /\ AgreeInv /\ MadeInv /\ LastInv
  BY DEF ReviewInv, LocksInv, AgreeInv
<1>1. c \in Candidate /\ k # NoOne /\ recorded \subseteq Key
  BY <1>0 DEF TypeOK
<1>2. /\ \A j \in HalfReverted : req[j].cand \in Candidate \ {c}
      /\ \A j \in recorded : req[j].op \in Confirming => lastOp[c] # j
      /\ \A n \in Memory : memStatus[n] \in {"active", "superseded"} => source[n] # c
  BY <1>0, IdleCandidate
<1>3. /\ lastOp'[c] = k /\ candStatus'[c] = s
      /\ \A d \in Candidate \ {c} : lastOp'[d] = lastOp[d] /\ candStatus'[d] = candStatus[d]
  BY <1>0 DEF TypeOK
<1>4. req[k].op \notin Confirming /\ req[k].op \notin {"forget", "rebuild"} /\ made[k] = {} /\ req[k].cand = c
  BY <1>0, OpsApart DEF MadeInv
<1> HIDE DEF c
<1>5. \A j \in recorded : j # k /\ (req[j].op \in Confirming => req[j].cand \in Candidate)
  <2>1. \A j \in recorded : WellFormed(j)
    BY <1>0, <1>1, TraceOfRequest
  <2>2. QED
    BY <2>1 DEF WellFormed
<1>6. HalfReverted' = HalfReverted
  BY <1>4 DEF HalfReverted
<1>7. \A j \in recorded : req[j].op \in Confirming => (lastOp'[req[j].cand] = j <=> lastOp[req[j].cand] = j)
  BY <1>2, <1>3, <1>5
<1>8. RecordInv'
  BY <1>0, <1>1, <1>3, <1>4 DEF AgreeInv, RecordInv, LastInv
<1>9. MadeInv'
  <2>1. \A j \in Key : made[j] # {} => j # k /\ req[j].op \in Confirming
    BY <1>0, <1>4 DEF MadeInv
  <2>2. QED
    BY <1>0, <1>4, <1>7, <2>1 DEF MadeInv, Readable
<1>10. DoneInv'
  BY <1>0 DEF AgreeInv, DoneInv, RefOf
<1>11. HalfInv'
  BY <1>0, <1>2, <1>3, <1>6 DEF AgreeInv, HalfInv, RefOf, TargetOf, Readable
<1>12. RowsInv'
  <2>1. \A j \in recorded : req[j].op = "supersede" => (lastOp'[req[j].cand] = j <=> lastOp[req[j].cand] = j)
    BY <1>7, OpsApart
  <2>2. \A n \in Memory : /\ memStatus'[n] = "archived" => fact'[n] = "expired"
                          /\ memStatus'[n] \in {"active", "superseded"} => origin'[n] # "undone"
    BY <1>0 DEF AgreeInv, RowsInv, StandingInv, ReplacedInv, ReplacingInv
  <2>3. ASSUME NEW n \in Memory, memStatus'[n] = "superseded"
        PROVE  \E j \in recorded' :
                 /\ req'[j].op = "supersede" /\ req'[j].mem = {n} /\ lastOp'[req'[j].cand] = j
                 /\ heir'[n] = made'[j] \/ (\E i \in HalfReverted' : req'[i].of = j)
    <3>1. PICK j \in recorded : /\ req[j].op = "supersede" /\ req[j].mem = {n} /\ lastOp[req[j].cand] = j
                                /\ heir[n] = made[j] \/ (\E i \in HalfReverted : req[i].of = j)
      BY <1>0, <2>3 DEF AgreeInv, RowsInv, StandingInv, ReplacedInv, ReplacingInv
    <3>2. QED
      BY <1>6, <2>1, <3>1
  <2>4. \A j \in recorded' : req'[j].op = "supersede" /\ lastOp'[req'[j].cand] = j =>
           j \in recorded /\ req[j].op = "supersede" /\ lastOp[req[j].cand] = j
    BY <1>4, <2>1, OpsApart
  <2>5. \A j \in recorded : req[j].op = "supersede" /\ lastOp[req[j].cand] = j => \A t \in req[j].mem :
           memStatus[t] = "archived" \/ (memStatus[t] = "superseded" /\ supersededBy[t] = made[j])
    BY <1>0 DEF AgreeInv, RowsInv, StandingInv, ReplacedInv, ReplacingInv
  <2>6. StandingInv' /\ ReplacedInv'
    BY <2>2, <2>3 DEF StandingInv, ReplacedInv
  <2>7. ReplacingInv'
    BY <2>4, <2>5 DEF ReplacingInv
  <2>8. QED
    BY <2>6, <2>7 DEF RowsInv
<1>13. OnlyConfirmedInForce'
  BY <1>0, <1>2, <1>3 DEF AgreeInv, OnlyConfirmedInForce, Active, TypeOK
<1>14. IndexMatchesBackend'
  <2>1. ASSUME NEW n \in Memory, Unfinished(n) PROVE Unfinished(n)'
    BY <1>4, <2>1 DEF Unfinished, RefOf, TargetOf
  <2>2. QED
    BY <1>0, <2>1 DEF AgreeInv, IndexMatchesBackend, Readable
<1>15. QED
  BY <1>8, <1>9, <1>10, <1>11, <1>12, <1>13, <1>14 DEF AgreeInv

\* forget archives the row of a fact that has expired.
LEMMA CommitForgetAgrees ==
    ASSUME ReviewInv, NEW k \in Key, Commit(k), CommitForget(k)
    PROVE  AgreeInv'
<1>0. TypeOK /\ LocksInv /\ AgreeInv /\ MadeInv /\ DoneInv /\ StageInv /\ RequestInv
  BY DEF ReviewInv, LocksInv, AgreeInv
<1>1. PICK m \in req[k].mem : Forget(m)
  BY DEF CommitForget
<1>2. UNCHANGED <<fact, heir, made, bdone, candStatus, lastOp, recorded, source, req>>
  BY <1>0, CommitRecords DEF CommitForget, reviewVars
<1>3. m \in Memory /\ memStatus[m] = "active" /\ UNCHANGED <<supersededBy, origin>>
  BY <1>0, <1>1, RequestFields DEF Forget
<1>4. memStatus'[m] = "archived" /\ \A n \in Memory \ {m} : memStatus'[n] = memStatus[n]
  BY <1>0, <1>1, <1>3 DEF Forget, TypeOK, LifecycleTypeOK
<1>5. fact[m] = "expired"
  BY <1>0, <1>3 DEF CommitForget, StageInv, DoneInv
<1>6. HalfReverted' = HalfReverted
  BY <1>2 DEF HalfReverted
<1>7. \A j \in Key : req[j].mem \subseteq Memory /\ made[j] \subseteq Memory
  BY <1>0, RequestFields DEF TypeOK, BackendTypeOK
<1>8. RecordInv' /\ DoneInv'
  BY <1>0, <1>2 DEF AgreeInv, RecordInv, DoneInv, RefOf
<1>9. MadeInv'
  <2>1. \A n \in Memory : memStatus'[n] = "none" <=> memStatus[n] = "none"
    BY <1>3, <1>4
  <2>2. QED
    BY <1>0, <1>2, <1>3, <1>7, <2>1 DEF MadeInv, Readable
<1>10. HalfInv'
  <2>1. \A j \in HalfReverted : TargetOf(j) \subseteq Memory
    BY <1>0, TraceOfRequest, RequestFields DEF TargetOf, HalfReverted
  <2>2. QED
    BY <1>0, <1>2, <1>3, <1>4, <1>6, <2>1 DEF AgreeInv, HalfInv, RefOf, TargetOf, Readable
<1>11. RowsInv'
  <2>1. recorded \subseteq Key
    BY <1>0 DEF TypeOK
  <2>2. \A n \in Memory : /\ memStatus'[n] = "superseded" <=> memStatus[n] = "superseded"
                          /\ memStatus[n] = "archived" => memStatus'[n] = "archived"
                          /\ memStatus'[n] = "active" => memStatus[n] = "active"
                          /\ memStatus'[n] = "archived" => memStatus[n] = "archived" \/ n = m
    BY <1>3, <1>4
  <2>3. QED
    BY <1>0, <1>2, <1>3, <1>5, <1>6, <1>7, <2>1, <2>2 DEF AgreeInv, RowsInv, StandingInv, ReplacedInv, ReplacingInv
<1>12. OnlyConfirmedInForce'
  BY <1>0, <1>2, <1>3, <1>4 DEF AgreeInv, OnlyConfirmedInForce, Active
<1>13. IndexMatchesBackend'
  <2>1. ASSUME NEW n \in Memory, n # m, Unfinished(n) PROVE Unfinished(n)'
    BY <1>2, <1>4, <2>1 DEF Unfinished, RefOf, TargetOf
  <2>2. QED
    BY <1>0, <1>2, <1>4, <1>5, <2>1 DEF AgreeInv, IndexMatchesBackend, Readable
<1>14. QED
  BY <1>8, <1>9, <1>10, <1>11, <1>12, <1>13 DEF AgreeInv

\* What the commit of a confirmation writes; T is what it replaces.
LEMMA ConfirmWrites ==
    ASSUME ReviewInv, NEW k \in Key, Commit(k), CommitConfirm(k)
    PROVE  \E m \in Memory, T \in SUBSET Memory :
              /\ made[k] = {m} /\ m \notin T /\ T = IF req[k].op = "supersede" THEN req[k].mem ELSE {}
              /\ memStatus[m] = "none" /\ fact[m] = "live" /\ heir[m] = {}
              /\ \A j \in Key : m \in made[j] => j = k
              /\ memStatus'[m] = "active" /\ source'[m] = req[k].cand
              /\ origin'[m] = IF req[k].op = "supersede" THEN "supersede" ELSE "confirm"
              /\ \A n \in Memory \ {m} : source'[n] = source[n] /\ origin'[n] = origin[n]
              /\ \A n \in T : /\ memStatus[n] = "active" /\ memStatus'[n] = "superseded"
                              /\ supersededBy'[n] = {m} /\ heir[n] = {m}
              /\ \A n \in Memory \ (T \cup {m}) : memStatus'[n] = memStatus[n]
              /\ \A n \in Memory \ T : supersededBy'[n] = supersededBy[n]
              /\ req[k].op = "supersede" => \E t \in Memory : T = {t} /\ req[k].mem = {t}
<1>0. TypeOK /\ LocksInv /\ MadeInv /\ DoneInv /\ StageInv /\ RequestInv
  BY DEF ReviewInv, LocksInv, AgreeInv
<1>1. PICK m \in made[k] :
         /\ IF req[k].op = "supersede" THEN \E t \in req[k].mem : Supersede(m, t) ELSE Activate(m, "confirm")
         /\ source' = [source EXCEPT ![m] = req[k].cand]
  BY DEF CommitConfirm
<1>2. k \in Running /\ req[k].op \in Confirming /\ k \notin recorded /\ WellFormed(k)
  <2>1. k \in Running /\ req[k].op \in Confirming
    BY <1>0, CommitRecords DEF CommitConfirm
  <2>2. QED
    BY <1>0, <2>1, TraceOfRequest DEF LocksInv, LockInv, Running
<1>3. /\ m \in Memory /\ made[k] = {m} /\ memStatus[m] = "none" /\ fact[m] = "live" /\ heir[m] = {}
      /\ \A j \in Key : m \in made[j] => j = k
      /\ req[k].op = "supersede" => m \notin req[k].mem
  BY <1>0, <1>2, MadeFacts
<1>4. source'[m] = req[k].cand /\ \A n \in Memory \ {m} : source'[n] = source[n]
  BY <1>0, <1>1, <1>3 DEF TypeOK
<1>5. CASE req[k].op = "supersede"
  <2>1. PICK t \in req[k].mem : Supersede(m, t)
    BY <1>1, <1>5
  <2>2. t \in Memory /\ req[k].mem = {t} /\ t # m
    BY <1>2, <1>3, <1>5, <2>1 DEF WellFormed
  <2>3. heir[t] = {m}
    BY <1>0, <1>2, <1>3, <1>5, <2>2 DEF CommitConfirm, StageInv, DoneInv
  <2>4. /\ memStatus[t] = "active" /\ memStatus'[m] = "active" /\ memStatus'[t] = "superseded"
        /\ \A n \in Memory \ {m, t} : memStatus'[n] = memStatus[n]
    BY <1>0, <1>3, <2>1, <2>2 DEF Supersede, TypeOK, LifecycleTypeOK
  <2>5. /\ origin'[m] = "supersede" /\ \A n \in Memory \ {m} : origin'[n] = origin[n]
        /\ supersededBy'[t] = {m} /\ \A n \in Memory \ {t} : supersededBy'[n] = supersededBy[n]
    BY <1>0, <1>3, <2>1, <2>2 DEF Supersede, TypeOK, LifecycleTypeOK
  <2>6. QED
    BY <1>3, <1>4, <1>5, <2>2, <2>3, <2>4, <2>5
<1>6. CASE req[k].op # "supersede"
  <2>1. Activate(m, "confirm")
    BY <1>1, <1>6
  <2>2. /\ memStatus'[m] = "active" /\ \A n \in Memory \ {m} : memStatus'[n] = memStatus[n]
        /\ origin'[m] = "confirm" /\ \A n \in Memory \ {m} : origin'[n] = origin[n]
        /\ supersededBy' = supersededBy
    BY <1>0, <1>3, <2>1 DEF Activate, TypeOK, LifecycleTypeOK
  <2>3. QED
    BY <1>3, <1>4, <1>6, <2>2
<1>7. QED
  BY <1>5, <1>6

LEMMA CommitConfirmAgrees ==
    ASSUME ReviewInv, NEW k \in Key, Commit(k), CommitConfirm(k)
    PROVE  AgreeInv'
<1> DEFINE c == req[k].cand
<1>0. TypeOK /\ LocksInv /\ AgreeInv /\ MadeInv /\ LastInv /\ RequestInv
  BY DEF ReviewInv, LocksInv, AgreeInv
<1>1. PICK m \in Memory, T \in SUBSET Memory :
              /\ made[k] = {m} /\ m \notin T /\ T = IF req[k].op = "supersede" THEN req[k].mem ELSE {}
              /\ memStatus[m] = "none" /\ fact[m] = "live" /\ heir[m] = {}
              /\ \A j \in Key : m \in made[j] => j = k
              /\ memStatus'[m] = "active" /\ source'[m] = req[k].cand
              /\ origin'[m] = IF req[k].op = "supersede" THEN "supersede" ELSE "confirm"
              /\ \A n \in Memory \ {m} : source'[n] = source[n] /\ origin'[n] = origin[n]
              /\ \A n \in T : /\ memStatus[n] = "active" /\ memStatus'[n] = "superseded"
                              /\ supersededBy'[n] = {m} /\ heir[n] = {m}
              /\ \A n \in Memory \ (T \cup {m}) : memStatus'[n] = memStatus[n]
              /\ \A n \in Memory \ T : supersededBy'[n] = supersededBy[n]
              /\ req[k].op = "supersede" => \E t \in Memory : T = {t} /\ req[k].mem = {t}
  BY ConfirmWrites
<1>2. k \in Running /\ req[k].op \in Confirming /\ UNCHANGED <<fact, heir, made, bdone, req>>
  BY <1>0, CommitRecords DEF CommitConfirm
<1>3. /\ c \in Candidate /\ recorded' = recorded \cup {k} /\ lastOp' = [lastOp EXCEPT ![c] = k]
      /\ candStatus' = [candStatus EXCEPT ![c] = "confirmed"]
  BY <1>0, <1>2, CommitRecords, OpsApart
<1>4. /\ lastOp'[c] = k /\ candStatus'[c] = "confirmed"
      /\ \A d \in Candidate \ {c} : lastOp'[d] = lastOp[d] /\ candStatus'[d] = candStatus[d]
  BY <1>0, <1>3 DEF TypeOK
<1>5. k \notin recorded /\ candStatus[c] = "pending" /\ \A n \in Memory : source[n] # c
  BY <1>0, <1>2 DEF LocksInv, LockInv, CommitConfirm
<1>6. /\ \A j \in HalfReverted : req[j].cand \in Candidate \ {c}
      /\ \A j \in recorded : req[j].op \in Confirming => lastOp[c] # j
  BY <1>0, <1>3, <1>5, IdleCandidate DEF AgreeInv, RecordInv
<1>7. c = req[k].cand /\ k # NoOne /\ recorded \subseteq Key /\ \A j \in recorded : j # k
  BY <1>0, <1>5 DEF TypeOK
<1> HIDE DEF c
<1>8. \A j \in recorded : req[j].op \in Confirming => req[j].cand \in Candidate
  <2>1. \A j \in recorded : WellFormed(j)
    BY <1>0, <1>7, TraceOfRequest
  <2>2. QED
    BY <2>1 DEF WellFormed
<1>9. HalfReverted' = HalfReverted
  BY <1>2, <1>3, OpsApart DEF HalfReverted
<1>10. \A j \in recorded : req[j].op \in Confirming => (lastOp'[req[j].cand] = j <=> lastOp[req[j].cand] = j)
  BY <1>4, <1>6, <1>7, <1>8
<1>11. RecordInv'
  <2>1. \A j \in recorded' : req'[j].op \notin {"forget", "rebuild"}
    BY <1>0, <1>2, <1>3, OpsApart DEF AgreeInv, RecordInv
  <2>2. \A d \in Candidate : candStatus'[d] = "confirmed" <=> (lastOp'[d] # NoOne /\ req'[lastOp'[d]].op \in Confirming)
    BY <1>0, <1>2, <1>4, <1>7 DEF AgreeInv, RecordInv
  <2>3. QED
    BY <2>1, <2>2 DEF RecordInv
<1>12. MadeInv'
  <2>1. ASSUME NEW j \in Key, NEW n \in made[j]
        PROVE  /\ j \notin recorded' => memStatus'[n] = "none"
               /\ j \in recorded' =>
                       /\ memStatus'[n] # "none" /\ source'[n] = req[j].cand
                       /\ origin'[n] = IF lastOp'[req[j].cand] # j THEN "undone"
                               ELSE IF req[j].op = "supersede" THEN "supersede" ELSE "confirm"
    <3>1. CASE j = k
      BY <1>1, <1>3, <1>4, <1>7, <3>1
    <3>2. CASE j # k
      <4>1. n \in Memory /\ n # m /\ req[j].op \in Confirming
        BY <1>0, <1>1, <3>2, MadeFacts
      <4>2. CASE j \notin recorded
        <5>1. memStatus[n] = "none"
          BY <1>0, <4>2 DEF MadeInv
        <5>2. QED
          BY <1>1, <1>3, <3>2, <4>1, <4>2, <5>1
      <4>3. CASE j \in recorded
        <5>1. /\ memStatus[n] # "none" /\ source[n] = req[j].cand
              /\ origin[n] = IF lastOp[req[j].cand] # j THEN "undone"
                               ELSE IF req[j].op = "supersede" THEN "supersede" ELSE "confirm"
          BY <1>0, <4>3 DEF MadeInv
        <5>2. QED
          BY <1>1, <1>3, <1>10, <4>1, <4>3, <5>1
      <4>4. QED
        BY <4>2, <4>3
    <3>3. QED
      BY <3>1, <3>2
  <2>2. ASSUME NEW n \in Memory
        PROVE  /\ fact[n] = "none" => memStatus'[n] = "none"
               /\ source'[n] # NoOne => \E j \in recorded' : n \in made[j]
    <3>1. CASE n = m
      BY <1>1, <1>3, <3>1
    <3>2. CASE n # m
      BY <1>0, <1>1, <1>3, <3>2 DEF MadeInv
    <3>3. QED
      BY <3>1, <3>2
  <2>3. \A j \in recorded' : req[j].op \in Confirming => made[j] # {}
    BY <1>0, <1>1, <1>3 DEF MadeInv
  <2>4. ASSUME NEW j \in Key, NEW n \in made[j]
        PROVE  /\ req[j].op \in Confirming /\ fact[n] # "none"
               /\ req[j].op = "supersede" => n \notin req[j].mem
               /\ \A o \in made[j] : o = n
               /\ \A i \in Key : n \in made[i] => i = j
               /\ j \notin recorded' => fact[n] = "live" /\ heir[n] = {}
    BY <1>0, <1>3 DEF MadeInv, Readable
  <2>5. \A n \in Memory : fact[n] = "none" => heir[n] = {}
    BY <1>0 DEF MadeInv
  <2>6. QED
    BY <1>2, <2>1, <2>2, <2>3, <2>4, <2>5 DEF MadeInv, Readable
<1>13. DoneInv'
  BY <1>0, <1>2, <1>3 DEF AgreeInv, DoneInv, RefOf
<1>14. HalfInv'
  <2>1. \A j \in HalfReverted : TargetOf(j) \subseteq Memory
    BY <1>0, TraceOfRequest, RequestFields DEF TargetOf, HalfReverted
  <2>2. \A n \in Memory : memStatus[n] = "superseded" => memStatus'[n] = "superseded" /\ supersededBy'[n] = supersededBy[n]
    BY <1>1
  <2>3. QED
    BY <1>0, <1>2, <1>4, <1>6, <1>9, <2>1, <2>2 DEF AgreeInv, HalfInv, RefOf, TargetOf, Readable
<1>15. RowsInv'
  <2>0. StandingInv /\ ReplacedInv /\ ReplacingInv
    BY <1>0 DEF AgreeInv, RowsInv
  <2>1. StandingInv'
    <3>1. \A n \in Memory : memStatus'[n] = "archived" => memStatus[n] = "archived"
      BY <1>1
    <3>2. \A n \in Memory \ {m} : memStatus'[n] \in {"active", "superseded"} => memStatus[n] \in {"active", "superseded"}
      BY <1>1
    <3>3. QED
      BY <1>1, <1>2, <2>0, <3>1, <3>2 DEF StandingInv
  <2>2. ASSUME NEW n \in Memory, memStatus'[n] = "superseded"
        PROVE  \E j \in recorded' :
                 /\ req[j].op = "supersede" /\ req[j].mem = {n} /\ lastOp'[req[j].cand] = j
                 /\ heir[n] = made[j] \/ (\E i \in HalfReverted : req[i].of = j)
    <3>1. CASE n \in T
      <4>1. req[k].op = "supersede" /\ req[k].mem = {n} /\ heir[n] = made[k]
        BY <1>1, <3>1
      <4>2. QED
        BY <1>3, <1>4, <1>7, <4>1
    <3>2. CASE n \notin T
      <4>1. memStatus[n] = "superseded"
        BY <1>1, <2>2, <3>2
      <4>2. PICK j \in recorded : /\ req[j].op = "supersede" /\ req[j].mem = {n} /\ lastOp[req[j].cand] = j
                                  /\ heir[n] = made[j] \/ (\E i \in HalfReverted : req[i].of = j)
        BY <2>0, <4>1 DEF ReplacedInv
      <4>3. QED
        BY <1>3, <1>10, <4>2, OpsApart
    <3>3. QED
      BY <3>1, <3>2
  <2>3. ReplacedInv'
    BY <1>2, <1>9, <2>2 DEF ReplacedInv
  <2>4. ASSUME NEW j \in recorded', req[j].op = "supersede", lastOp'[req[j].cand] = j, NEW t \in req[j].mem
        PROVE  memStatus'[t] = "archived" \/ (memStatus'[t] = "superseded" /\ supersededBy'[t] = made[j])
    <3>1. CASE j = k
      BY <1>1, <2>4, <3>1
    <3>2. CASE j # k
      <4>1. memStatus[t] = "archived" \/ (memStatus[t] = "superseded" /\ supersededBy[t] = made[j])
        BY <1>3, <1>10, <2>0, <2>4, <3>2, OpsApart DEF ReplacingInv
      <4>2. t \in Memory
        BY <1>0, <1>3, <1>7, <3>2, RequestFields
      <4>3. QED
        BY <1>1, <4>1, <4>2
    <3>3. QED
      BY <3>1, <3>2
  <2>5. ReplacingInv'
    BY <1>2, <2>4 DEF ReplacingInv
  <2>6. QED
    BY <2>1, <2>3, <2>5 DEF RowsInv
<1>16. OnlyConfirmedInForce'
  <2>1. ASSUME NEW n \in Memory, memStatus'[n] = "active", source'[n] # NoOne
        PROVE  candStatus'[source'[n]] = "confirmed"
    <3>1. CASE n = m
      BY <1>1, <1>4, <1>7, <3>1
    <3>2. CASE n # m
      <4>1. memStatus[n] = "active" /\ source'[n] = source[n]
        BY <1>1, <2>1, <3>2
      <4>2. source[n] \in Candidate \ {c} /\ candStatus[source[n]] = "confirmed"
        BY <1>0, <1>5, <2>1, <4>1 DEF AgreeInv, OnlyConfirmedInForce, Active, TypeOK
      <4>3. QED
        BY <1>4, <4>1, <4>2
    <3>3. QED
      BY <3>1, <3>2
  <2>2. QED
    BY <2>1 DEF OnlyConfirmedInForce, Active
<1>17. IndexMatchesBackend'
  <2>1. ASSUME NEW n \in Memory \ (T \cup {m}), Unfinished(n) PROVE Unfinished(n)'
    <3>1. memStatus'[n] = memStatus[n]
      BY <1>1
    <3>2. req[k].op = "supersede" => n \notin req[k].mem
      BY <1>1
    <3>3. req[k].op # "revert"
      BY <1>2, OpsApart
    <3>4. QED
      BY <1>2, <1>3, <2>1, <3>1, <3>2, <3>3 DEF Unfinished, RefOf, TargetOf
  <2>2. ASSUME NEW n \in Memory, memStatus'[n] # "none"
        PROVE  ((memStatus'[n] = "active") <=> Readable(n)') \/ Unfinished(n)'
    <3>1. CASE n = m
      BY <1>1, <1>2, <3>1 DEF Readable
    <3>2. CASE n \in T
      BY <1>1, <1>2, <3>2 DEF Readable
    <3>3. CASE n \notin T \cup {m}
      <4>1. memStatus'[n] = memStatus[n]
        BY <1>1, <3>3
      <4>2. ((memStatus[n] = "active") <=> Readable(n)) \/ Unfinished(n)
        BY <1>0, <2>2, <4>1 DEF AgreeInv, IndexMatchesBackend
      <4>3. QED
        BY <1>2, <2>1, <3>3, <4>1, <4>2 DEF Readable
    <3>4. QED
      BY <3>1, <3>2, <3>3
  <2>3. QED
    BY <2>2 DEF IndexMatchesBackend
<1>18. QED
  BY <1>11, <1>12, <1>13, <1>14, <1>15, <1>16, <1>17 DEF AgreeInv

\* What comes back into force when the operation that k reverts is undone.
Restored(k) == IF req[req[k].of].op = "supersede" THEN TargetOf(k) ELSE {}

\* What the commit of a revert whose operation had confirmed something writes.  Whatever
\* happened since, the index still says that m replaced what comes back.
LEMMA RevertWrites ==
    ASSUME ReviewInv, NEW k \in Key, Commit(k), CommitRevert(k), req[req[k].of].op \in Confirming
    PROVE  /\ k \in HalfReverted /\ k \notin recorded /\ req[k].of \in recorded
           /\ lastOp[req[k].cand] = req[k].of /\ req[req[k].of].cand = req[k].cand /\ req[k].cand \in Candidate
           /\ Restored(k) \subseteq Memory /\ Restored(k) = TargetOf(k)
           /\ \E m \in Memory :
                 /\ made[req[k].of] = {m} /\ m \notin Restored(k) /\ fact[m] = "expired"
                 /\ \A j \in Key : m \in made[j] => j = req[k].of
                 /\ req[req[k].of].op = "supersede" => \E t \in Memory : RevertSupersede(m, t)
                 /\ req[req[k].of].op # "supersede" => RevertConfirm(m)
                 /\ memStatus'[m] = "archived" /\ origin'[m] = "undone"
                 /\ \A n \in Memory \ {m} : origin'[n] = origin[n]
                 /\ \A n \in Restored(k) : /\ memStatus[n] = "superseded" /\ supersededBy[n] = {m} /\ memStatus'[n] = "active"
                                 /\ fact[n] = "live" /\ heir[n] = {}
                 /\ \A n \in Memory \ (Restored(k) \cup {m}) : memStatus'[n] = memStatus[n]
                 /\ \A n \in Memory \ Restored(k) : supersededBy'[n] = supersededBy[n]
<1> DEFINE of == req[k].of
<1>0. TypeOK /\ LocksInv /\ AgreeInv /\ MadeInv /\ DoneInv /\ StageInv /\ HalfInv /\ RequestInv
  BY DEF ReviewInv, LocksInv, AgreeInv
<1>1. k \in Running /\ stage[k] = "backed" /\ req[k].op = "revert"
  BY <1>0, CommitRecords, OpsApart DEF CommitRevert
<1>2. k \notin recorded /\ k \in bdone /\ k \in HalfReverted
  BY <1>0, <1>1 DEF LocksInv, LockInv, StageInv, HalfReverted
<1>3. of \in recorded /\ of \in Key /\ req[of].cand = req[k].cand /\ WellFormed(of) /\ req[k].cand \in Candidate
  BY <1>0, <1>1, <1>2, TraceOfRequest
<1>4. lastOp[req[k].cand] = of
  BY <1>0, <1>2 DEF HalfInv
<1>5. PICK m \in Memory : made[of] = {m}
  BY <1>0, <1>3, MadeFacts DEF MadeInv
<1>6. /\ \A j \in Key : m \in made[j] => j = of
      /\ req[of].op = "supersede" => m \notin req[of].mem
  BY <1>0, <1>3, <1>5, MadeFacts
<1>7. fact[m] = "expired"
  BY <1>0, <1>1, <1>2, <1>5 DEF DoneInv, RefOf
<1>8. origin[m] = IF req[of].op = "supersede" THEN "supersede" ELSE "confirm"
  BY <1>0, <1>3, <1>4, <1>5 DEF MadeInv
<1>9. CASE req[of].op = "supersede"
  <2>1. PICK t \in Memory : req[of].mem = {t}
    BY <1>3, <1>9 DEF WellFormed
  <2>2. WriteRevertSupersede(m, t)
    BY <1>5, <1>9, <2>1, OpsApart DEF CommitRevert, RefOf, TargetOf
  <2>3. memStatus[t] = "superseded" /\ supersededBy[t] = {m} /\ fact[t] = "live" /\ heir[t] = {} /\ t # m
    BY <1>0, <1>2, <1>5, <1>6, <1>9, <2>1 DEF HalfInv, RefOf, TargetOf, Readable
  <2>4. RevertSupersede(m, t)
    BY <1>8, <1>9, <2>2, <2>3 DEF RevertSupersede
  <2>5. /\ memStatus'[m] = "archived" /\ memStatus'[t] = "active"
        /\ \A n \in Memory \ {m, t} : memStatus'[n] = memStatus[n]
    BY <1>0, <2>2, <2>3 DEF WriteRevertSupersede, TypeOK, LifecycleTypeOK
  <2>6. /\ origin'[m] = "undone" /\ \A n \in Memory \ {m} : origin'[n] = origin[n]
        /\ \A n \in Memory \ {t} : supersededBy'[n] = supersededBy[n]
    BY <1>0, <2>2 DEF WriteRevertSupersede, TypeOK, LifecycleTypeOK
  <2>7. Restored(k) = {t} /\ TargetOf(k) = {t}
    BY <1>9, <2>1 DEF Restored, TargetOf
  <2>8. QED
    BY <1>2, <1>3, <1>4, <1>5, <1>6, <1>7, <1>9, <2>3, <2>4, <2>5, <2>6, <2>7
<1>10. CASE req[of].op # "supersede"
  <2>1. WriteRevertConfirm(m)
    BY <1>5, <1>10, OpsApart DEF CommitRevert, RefOf
  <2>2. RevertConfirm(m)
    BY <1>8, <1>10, <2>1 DEF RevertConfirm
  <2>3. /\ memStatus'[m] = "archived" /\ \A n \in Memory \ {m} : memStatus'[n] = memStatus[n]
        /\ origin'[m] = "undone" /\ \A n \in Memory \ {m} : origin'[n] = origin[n]
        /\ supersededBy' = supersededBy
    BY <1>0, <2>1 DEF WriteRevertConfirm, TypeOK, LifecycleTypeOK
  <2>4. Restored(k) = {} /\ TargetOf(k) = {}
    BY <1>3, <1>10, OpsApart DEF Restored, TargetOf, WellFormed
  <2>5. QED
    BY <1>2, <1>3, <1>4, <1>5, <1>6, <1>7, <1>10, <2>2, <2>3, <2>4
<1>11. QED
  BY <1>9, <1>10

LEMMA CommitRevertAgrees ==
    ASSUME ReviewInv, NEW k \in Key, Commit(k), CommitRevert(k), req[req[k].of].op \in Confirming
    PROVE  AgreeInv'
<1> DEFINE c == req[k].cand
           of == req[k].of
           T == Restored(k)
<1>0. TypeOK /\ LocksInv /\ AgreeInv /\ MadeInv /\ LastInv /\ RequestInv
  BY DEF ReviewInv, LocksInv, AgreeInv
<1>1. PICK m \in Memory :
                 /\ made[of] = {m} /\ m \notin T /\ fact[m] = "expired"
                 /\ \A j \in Key : m \in made[j] => j = of
                 /\ req[of].op = "supersede" => \E t \in Memory : RevertSupersede(m, t)
                 /\ req[of].op # "supersede" => RevertConfirm(m)
                 /\ memStatus'[m] = "archived" /\ origin'[m] = "undone"
                 /\ \A n \in Memory \ {m} : origin'[n] = origin[n]
                 /\ \A n \in T : /\ memStatus[n] = "superseded" /\ supersededBy[n] = {m} /\ memStatus'[n] = "active"
                                 /\ fact[n] = "live" /\ heir[n] = {}
                 /\ \A n \in Memory \ (T \cup {m}) : memStatus'[n] = memStatus[n]
                 /\ \A n \in Memory \ T : supersededBy'[n] = supersededBy[n]
  BY RevertWrites
<1>2. /\ k \in HalfReverted /\ k \notin recorded /\ of \in recorded /\ c \in Candidate
      /\ lastOp[c] = of /\ req[of].cand = c /\ req[of].op \in Confirming /\ req[k].cand = c /\ req[k].of = of
      /\ T \subseteq Memory /\ T = req[of].mem
  BY RevertWrites DEF TargetOf
<1>3. req[k].op = "revert" /\ UNCHANGED <<fact, heir, made, bdone, req, source>>
  BY <1>0, CommitRecords DEF CommitRevert
<1>4. /\ recorded' = recorded \cup {k} /\ lastOp' = [lastOp EXCEPT ![c] = k]
      /\ candStatus' = [candStatus EXCEPT ![c] = "pending"]
  BY <1>0, <1>3, CommitRecords
<1>5. /\ lastOp'[c] = k /\ candStatus'[c] = "pending"
      /\ \A d \in Candidate \ {c} : lastOp'[d] = lastOp[d] /\ candStatus'[d] = candStatus[d]
  BY <1>0, <1>2, <1>4 DEF TypeOK
<1>6. k # NoOne /\ recorded \subseteq Key /\ (\A j \in recorded : j # k) /\ "revert" \notin Confirming
  BY <1>0, <1>2, OpsApart DEF TypeOK
<1>7. HalfReverted = {k} /\ HalfReverted' = {}
  <2>1. HalfReverted = {k}
    BY <1>0, <1>2 DEF AgreeInv, HalfInv
  <2>2. HalfReverted' \subseteq HalfReverted \ {k}
    BY <1>3, <1>4 DEF HalfReverted
  <2>3. QED
    BY <2>1, <2>2
<1> HIDE DEF c, of, T
<1>8. \A j \in recorded : req[j].op \in Confirming => req[j].cand \in Candidate
  <2>1. \A j \in recorded : WellFormed(j)
    BY <1>0, <1>6, TraceOfRequest
  <2>2. QED
    BY <2>1 DEF WellFormed
<1>9. \A j \in recorded \ {of} : req[j].op \in Confirming => (lastOp'[req[j].cand] = j <=> lastOp[req[j].cand] = j)
  BY <1>2, <1>5, <1>6, <1>8
<1>10. RecordInv'
  <2>1. \A j \in recorded' : req'[j].op \notin {"forget", "rebuild"}
    BY <1>0, <1>3, <1>4 DEF AgreeInv, RecordInv
  <2>2. \A d \in Candidate : candStatus'[d] = "confirmed" <=> (lastOp'[d] # NoOne /\ req'[lastOp'[d]].op \in Confirming)
    BY <1>0, <1>3, <1>5, <1>6 DEF AgreeInv, RecordInv
  <2>3. QED
    BY <2>1, <2>2 DEF RecordInv
<1>11. MadeInv'
  <2>1. ASSUME NEW j \in Key, NEW n \in made[j]
        PROVE  /\ j # k
               /\ j \notin recorded => memStatus'[n] = "none"
               /\ j \in recorded =>
                       /\ memStatus'[n] # "none" /\ source[n] = req[j].cand
                       /\ origin'[n] = IF lastOp'[req[j].cand] # j THEN "undone"
                               ELSE IF req[j].op = "supersede" THEN "supersede" ELSE "confirm"
    <3>0. n \in Memory /\ req[j].op \in Confirming /\ j # k
      BY <1>0, <1>3, <1>6, MadeFacts
    <3>1. CASE j = of
      <4>1. n = m
        BY <1>1, <3>1
      <4>2. source[n] = req[j].cand
        BY <1>0, <1>2, <3>1 DEF MadeInv
      <4>3. QED
        BY <1>1, <1>2, <1>5, <1>6, <3>0, <3>1, <4>1, <4>2
    <3>2. CASE j # of
      <4>1. n # m
        BY <1>1, <3>2
      <4>2. CASE j \notin recorded
        <5>1. memStatus[n] = "none"
          BY <1>0, <4>2 DEF MadeInv
        <5>2. QED
          BY <1>1, <3>0, <4>1, <4>2, <5>1
      <4>3. CASE j \in recorded
        <5>1. /\ memStatus[n] # "none" /\ source[n] = req[j].cand
              /\ origin[n] = IF lastOp[req[j].cand] # j THEN "undone"
                               ELSE IF req[j].op = "supersede" THEN "supersede" ELSE "confirm"
          BY <1>0, <4>3 DEF MadeInv
        <5>2. QED
          BY <1>1, <1>9, <3>0, <3>2, <4>1, <4>3, <5>1
      <4>4. QED
        BY <4>2, <4>3
    <3>3. QED
      BY <3>1, <3>2
  <2>2. \A n \in Memory : fact[n] = "none" => memStatus'[n] = "none" /\ heir[n] = {}
    BY <1>0, <1>1 DEF MadeInv
  <2>3. \A n \in Memory : source[n] # NoOne => \E j \in recorded' : n \in made[j]
    BY <1>0, <1>4 DEF MadeInv
  <2>4. \A j \in recorded' : req[j].op \in Confirming => made[j] # {}
    BY <1>0, <1>3, <1>4, <1>6 DEF MadeInv
  <2>5. ASSUME NEW j \in Key, NEW n \in made[j]
        PROVE  /\ req[j].op \in Confirming /\ fact[n] # "none"
               /\ req[j].op = "supersede" => n \notin req[j].mem
               /\ \A o \in made[j] : o = n
               /\ \A i \in Key : n \in made[i] => i = j
               /\ j \notin recorded => fact[n] = "live" /\ heir[n] = {}
    BY <1>0 DEF MadeInv, Readable
  <2>6. QED
    BY <1>3, <1>4, <2>1, <2>2, <2>3, <2>4, <2>5 DEF MadeInv, Readable
<1>12. DoneInv'
  BY <1>0, <1>3, <1>4 DEF AgreeInv, DoneInv, RefOf
<1>13. HalfInv'
  BY <1>7 DEF HalfInv
<1>14. RowsInv'
  <2>0. StandingInv /\ ReplacedInv /\ ReplacingInv
    BY <1>0 DEF AgreeInv, RowsInv
  <2>1. StandingInv'
    <3>1. \A n \in Memory : memStatus'[n] = "archived" => memStatus[n] = "archived" \/ n = m
      BY <1>1
    <3>2. \A n \in Memory : memStatus'[n] \in {"active", "superseded"} =>
             n # m /\ memStatus[n] \in {"active", "superseded"}
      BY <1>1
    <3>3. QED
      BY <1>1, <1>3, <2>0, <3>1, <3>2 DEF StandingInv
  <2>2. ASSUME NEW n \in Memory, memStatus'[n] = "superseded"
        PROVE  \E j \in recorded' :
                 /\ req[j].op = "supersede" /\ req[j].mem = {n} /\ lastOp'[req[j].cand] = j
                 /\ heir[n] = made[j]
    <3>1. memStatus[n] = "superseded" /\ n \notin T
      BY <1>1, <2>2
    <3>2. PICK j \in recorded : /\ req[j].op = "supersede" /\ req[j].mem = {n} /\ lastOp[req[j].cand] = j
                                /\ heir[n] = made[j] \/ (\E i \in HalfReverted : req[i].of = j)
      BY <2>0, <3>1 DEF ReplacedInv
    <3>3. j # of
      BY <1>1, <1>2, <3>1, <3>2
    <3>4. heir[n] = made[j]
      BY <1>2, <1>7, <3>2, <3>3
    <3>5. QED
      BY <1>4, <1>9, <3>2, <3>3, <3>4, OpsApart
  <2>3. ReplacedInv'
    BY <1>3, <2>2 DEF ReplacedInv
  <2>4. ASSUME NEW j \in recorded', req[j].op = "supersede", lastOp'[req[j].cand] = j, NEW t \in req[j].mem
        PROVE  memStatus'[t] = "archived" \/ (memStatus'[t] = "superseded" /\ supersededBy'[t] = made[j])
    <3>1. j \in recorded /\ j # of
      BY <1>2, <1>3, <1>4, <1>5, <1>6, <2>4
    <3>2. memStatus[t] = "archived" \/ (memStatus[t] = "superseded" /\ supersededBy[t] = made[j])
      BY <1>9, <2>0, <2>4, <3>1, OpsApart DEF ReplacingInv
    <3>3. t \in Memory
      BY <1>0, <1>6, <3>1, RequestFields
    <3>4. t \notin T
      BY <1>1, <1>6, <3>1, <3>2
    <3>5. QED
      BY <1>1, <3>2, <3>3, <3>4
  <2>5. ReplacingInv'
    BY <1>3, <2>4 DEF ReplacingInv
  <2>6. QED
    BY <2>1, <2>3, <2>5 DEF RowsInv
<1>15. OnlyConfirmedInForce'
  <2>1. ASSUME NEW n \in Memory, memStatus'[n] = "active", source[n] # NoOne
        PROVE  candStatus'[source[n]] = "confirmed"
    <3>1. n # m /\ memStatus[n] \in {"active", "superseded"}
      BY <1>1, <2>1
    <3>2. PICK j \in recorded : n \in made[j]
      BY <1>0, <2>1 DEF MadeInv
    <3>3. origin[n] # "undone"
      BY <1>0, <3>1 DEF AgreeInv, RowsInv, StandingInv
    <3>4. j \in Key /\ source[n] = req[j].cand /\ lastOp[req[j].cand] = j /\ req[j].op \in Confirming
      BY <1>0, <1>6, <3>2, <3>3 DEF MadeInv
    <3>5. j # of
      BY <1>1, <3>1, <3>2
    <3>6. source[n] \in Candidate \ {c}
      BY <1>2, <1>8, <3>4, <3>5
    <3>7. candStatus[source[n]] = "confirmed"
      BY <1>0, <1>6, <3>4, <3>6 DEF AgreeInv, RecordInv
    <3>8. QED
      BY <1>5, <3>6, <3>7
  <2>2. QED
    BY <1>3, <2>1 DEF OnlyConfirmedInForce, Active
<1>16. IndexMatchesBackend'
  <2>1. ASSUME NEW n \in Memory \ (T \cup {m}), Unfinished(n) PROVE Unfinished(n)'
    <3>1. memStatus'[n] = memStatus[n]
      BY <1>1
    <3>2. n \notin made[req[k].of] /\ n \notin req[req[k].of].mem
      BY <1>1, <1>2
    <3>3. QED
      BY <1>2, <1>3, <1>4, <2>1, <3>1, <3>2 DEF Unfinished, RefOf, TargetOf
  <2>2. ASSUME NEW n \in Memory, memStatus'[n] # "none"
        PROVE  ((memStatus'[n] = "active") <=> Readable(n)') \/ Unfinished(n)'
    <3>1. CASE n = m
      BY <1>1, <1>3, <3>1 DEF Readable
    <3>2. CASE n \in T
      BY <1>1, <1>3, <3>2 DEF Readable
    <3>3. CASE n \notin T \cup {m}
      <4>1. memStatus'[n] = memStatus[n]
        BY <1>1, <3>3
      <4>2. ((memStatus[n] = "active") <=> Readable(n)) \/ Unfinished(n)
        BY <1>0, <2>2, <4>1 DEF AgreeInv, IndexMatchesBackend
      <4>3. QED
        BY <1>3, <2>1, <3>3, <4>1, <4>2 DEF Readable
    <3>4. QED
      BY <3>1, <3>2, <3>3
  <2>3. QED
    BY <2>2 DEF IndexMatchesBackend
<1>17. QED
  BY <1>10, <1>11, <1>12, <1>13, <1>14, <1>15, <1>16 DEF AgreeInv

LEMMA CommitAgrees ==
    ASSUME ReviewInv, NEW k \in Key, Commit(k)
    PROVE  AgreeInv'
<1>0. TypeOK /\ RequestInv /\ LocksInv /\ AgreeInv
  BY DEF ReviewInv, LocksInv
<1>1. /\ k \in Running /\ UNCHANGED <<fact, heir, made, bdone, req>>
      /\ req[k].op \in {"close", "revert"} =>
            /\ req[k].cand \in Candidate /\ recorded' = recorded \cup {k}
            /\ lastOp' = [lastOp EXCEPT ![req[k].cand] = k]
            /\ candStatus' = [candStatus EXCEPT ![req[k].cand] = IF req[k].op = "revert" THEN "pending" ELSE "closed"]
  BY <1>0, CommitRecords
<1>2. CASE CommitConfirm(k)
  BY <1>2, CommitConfirmAgrees
<1>3. CASE CommitClose(k)
  <2>1. req[k].op = "close" /\ UNCHANGED <<memStatus, supersededBy, origin, source>>
    BY <1>3 DEF CommitClose, OtherOperation
  <2>2. k \notin recorded /\ candStatus[req[k].cand] = "pending" /\ req[k].cand \in Candidate
    BY <1>0, <1>1, <2>1 DEF LocksInv, LockInv
  <2>3. ~(lastOp[req[k].cand] # NoOne /\ req[lastOp[req[k].cand]].op \in Confirming)
    BY <1>0, <2>2 DEF AgreeInv, RecordInv
  <2>4. candStatus' = [candStatus EXCEPT ![req[k].cand] = "closed"]
    BY <1>1, <2>1
  <2>5. QED
    BY <1>1, <2>1, <2>2, <2>3, <2>4, IdleCommitAgrees
<1>4. CASE CommitRevert(k) /\ req[req[k].of].op \in Confirming
  BY <1>4, CommitRevertAgrees
<1>5. CASE CommitRevert(k) /\ req[req[k].of].op \notin Confirming
  <2>1. req[k].op = "revert" /\ req[req[k].of].op = "close" /\ UNCHANGED <<memStatus, supersededBy, origin, source>>
    BY <1>5, OpsApart DEF CommitRevert, OtherOperation
  <2>2. k \notin recorded /\ lastOp[req[k].cand] = req[k].of /\ req[k].cand \in Candidate
    BY <1>0, <1>1, <2>1 DEF LocksInv, LockInv
  <2>3. ~(lastOp[req[k].cand] # NoOne /\ req[lastOp[req[k].cand]].op \in Confirming)
    BY <2>1, <2>2, OpsApart
  <2>4. k \notin bdone
    BY <1>0, <2>1, OpsApart DEF AgreeInv, DoneInv
  <2>5. candStatus' = [candStatus EXCEPT ![req[k].cand] = "pending"]
    BY <1>1, <2>1
  <2>6. QED
    BY <1>1, <2>1, <2>2, <2>3, <2>4, <2>5, IdleCommitAgrees
<1>6. CASE CommitForget(k)
  BY <1>6, CommitForgetAgrees
<1>7. CASE CommitRebuild(k)
  <2>1. UNCHANGED <<memStatus, supersededBy, origin, candStatus, lastOp, recorded, source>>
    BY <1>7 DEF CommitRebuild, OtherOperation, reviewVars
  <2>2. QED
    BY <1>0, <1>1, <2>1, QuietStep
<1>8. QED
  BY <1>2, <1>3, <1>4, <1>5, <1>6, <1>7 DEF Commit

LEMMA AgreeStep ==
    ASSUME ~Overlap, ReviewInv, [Next]_vars
    PROVE  AgreeInv'
<1>0. AgreeInv
  BY DEF ReviewInv
<1>1. ASSUME NEW k \in Key, Resend(k) \/ Begin(k) \/ Fail(k) PROVE AgreeInv'
  <2>1. UNCHANGED <<memStatus, supersededBy, origin, fact, heir, made, bdone, candStatus, lastOp, recorded, source, req>>
    BY <1>1 DEF Resend, Begin, Fail, lifecycleVars, backendVars, reviewVars
  <2>2. QED
    BY <1>0, <2>1, QuietStep
<1>2. ASSUME PlanCrystal \/ UNCHANGED vars PROVE AgreeInv'
  <2>1. UNCHANGED <<memStatus, supersededBy, origin, fact, heir, made, bdone, candStatus, lastOp, recorded, source, req>>
    BY <1>2 DEF PlanCrystal, vars, lifecycleVars, backendVars, reviewVars, requestVars
  <2>2. QED
    BY <1>0, <2>1, QuietStep
<1>3. QED
  BY <1>1, <1>2, ReviewCases, SubmitAgrees, CreateFactAgrees, CallBackendAgrees, CommitAgrees, StoreFactAgrees

LEMMA ReviewInit == Init => ReviewInv
<1>1. ASSUME Init PROVE AgreeInv
  <2>1. HalfReverted = {}
    BY <1>1 DEF HalfReverted, Init, BackendInit
  <2>2. RecordInv /\ MadeInv /\ DoneInv
    BY <1>1 DEF Init, BackendInit, LifecycleInit, RecordInv, MadeInv, DoneInv
  <2>3. HalfInv /\ StandingInv /\ ReplacedInv /\ ReplacingInv
    BY <1>1, <2>1 DEF Init, LifecycleInit, HalfInv, StandingInv, ReplacedInv, ReplacingInv
  <2>4. OnlyConfirmedInForce /\ IndexMatchesBackend
    BY <1>1 DEF Init, LifecycleInit, OnlyConfirmedInForce, IndexMatchesBackend, Active
  <2>5. QED
    BY <2>2, <2>3, <2>4 DEF AgreeInv, RowsInv
<1>2. ASSUME Init PROVE StageInv
  BY <1>2 DEF Init, StageInv
<1>3. QED
  BY <1>1, <1>2, LocksInit DEF ReviewInv

LEMMA ReviewStep ==
    ASSUME ~Overlap, ReviewInv, [Next]_vars
    PROVE  ReviewInv'
BY TypeStep, RequestStep, LockStep, StageStep, AgreeStep DEF ReviewInv, LocksInv

\* The whole inductive invariant, as long as no revert calls the backend while another one
\* is between its call and its commit.
THEOREM ReviewInvariant == ASSUME ~Overlap PROVE Spec => []ReviewInv
<1>1. ReviewInv /\ [Next]_vars => ReviewInv'
  BY ReviewStep
<1>2. QED
  BY <1>1, ReviewInit, PTL DEF Spec

\* The memory of a candidate that is open again, or that was turned down, is not in force.
THEOREM OnlyConfirmedStaysInForce == ASSUME ~Overlap PROVE Spec => []OnlyConfirmedInForce
<1>1. ReviewInv => OnlyConfirmedInForce
  BY DEF ReviewInv, AgreeInv
<1>2. QED
  BY <1>1, ReviewInvariant, PTL

\* The index and the backend agree on what is in force, except for what an operation whose
\* second half is missing is about.
THEOREM IndexAlwaysMatchesBackend == ASSUME ~Overlap PROVE Spec => []IndexMatchesBackend
<1>1. ReviewInv => IndexMatchesBackend
  BY DEF ReviewInv, AgreeInv
<1>2. QED
  BY <1>1, ReviewInvariant, PTL

\* The operations with their locks, calls, failures and repetitions do nothing to the index
\* that the six operations of Lifecycle do not do; in particular a revert finds the row that
\* it brings back superseded by the memory that it takes out, although it does not ask.
THEOREM ReviewImplementsLifecycle == ASSUME ~Overlap PROVE Spec => LifecycleSpec
<1>1. Init => LifecycleInit
  BY DEF Init
<1>2. ASSUME ReviewInv, [Next]_vars PROVE [LifecycleNext]_lifecycleVars
  <2>0. TypeOK /\ RequestInv
    BY <1>2 DEF ReviewInv, LocksInv
  <2>1. ASSUME NEW k \in Key, Submit(k) \/ Resend(k) \/ Begin(k) \/ Fail(k) \/ CreateFact(k) \/ CallBackend(k)
        PROVE  UNCHANGED lifecycleVars
    BY <2>1 DEF Submit, Resend, Begin, Fail, CreateFact, CallBackend
  <2>2. ASSUME NEW k \in Key, Commit(k) PROVE LifecycleNext
    <3>1. CASE CommitConfirm(k)
      <4>1. PICK m \in made[k] : IF req[k].op = "supersede" THEN \E t \in req[k].mem : Supersede(m, t)
                                                           ELSE Activate(m, "confirm")
        BY <3>1 DEF CommitConfirm
      <4>2. m \in Memory /\ req[k].mem \subseteq Memory
        BY <2>0, RequestFields DEF TypeOK, BackendTypeOK
      <4>3. QED
        BY <4>1, <4>2 DEF LifecycleNext
    <3>2. CASE CommitClose(k) \/ CommitRebuild(k)
      BY <3>2 DEF CommitClose, CommitRebuild, LifecycleNext
    <3>3. CASE CommitRevert(k) /\ req[req[k].of].op \in Confirming
      <4>1. \E m \in Memory : (\E t \in Memory : RevertSupersede(m, t)) \/ RevertConfirm(m)
        BY <1>2, <2>2, <3>3, RevertWrites
      <4>2. QED
        BY <4>1 DEF LifecycleNext
    <3>4. CASE CommitRevert(k) /\ req[req[k].of].op \notin Confirming
      BY <3>4, OpsApart DEF CommitRevert, LifecycleNext
    <3>5. CASE CommitForget(k)
      <4>1. req[k].mem \subseteq Memory
        BY <2>0, RequestFields
      <4>2. QED
        BY <3>5, <4>1 DEF CommitForget, LifecycleNext
    <3>6. QED
      BY <2>2, <3>1, <3>2, <3>3, <3>4, <3>5 DEF Commit
  <2>3. ASSUME NEW m \in Memory, StoreFact(m) PROVE LifecycleNext
    BY <2>3 DEF StoreFact, LifecycleNext
  <2>4. PlanCrystal \/ UNCHANGED vars => UNCHANGED lifecycleVars
    BY DEF PlanCrystal, vars
  <2>5. QED
    BY <1>2, <2>1, <2>2, <2>3, <2>4, ReviewCases
<1>3. QED
  BY <1>1, <1>2, ReviewInvariant, PTL DEF Spec, LifecycleSpec
=============================================================================
