-------------------------- MODULE ReconcilerProofs --------------------------
(***************************************************************************)
(* Proofs about the reconciliation workers: for any number of workers,      *)
(* events and sources, and with faults at any time, RecInv is an invariant; *)
(* the properties that TLC checks on small instances follow from it.        *)
(***************************************************************************)
EXTENDS Reconciler, FiniteSetTheorems, TLAPS

\* The order number of the next event is a natural number.
LEMMA NextPosition == Cardinality(Recorded) + 1 \in Nat
<1>1. IsFiniteSet(Recorded)
  BY FiniteAssumption, FS_Subset DEF Recorded
<1>2. QED
  BY <1>1, FS_CardinalityType

\* The initial databases satisfy the invariant.
LEMMA RecInitInv == LedgerInit /\ WorkerInit => RecInv
<1> SUFFICES ASSUME LedgerInit, WorkerInit PROVE RecInv
  OBVIOUS
<1> USE DEF LedgerInit, WorkerInit
<1>1. RecTypeOK
  BY DEF RecTypeOK, LedgerTypeOK, WorkerTypeOK, LedgerStatus, ResultCode, Stage
<1>2. LockInv
  BY DEF LockInv, OneWorkerPerEvent
<1>3. EffectInv
  BY DEF EffectInv
<1>4. SourceInv
  BY DEF SourceInv
<1>5. QED
  BY <1>1, <1>2, <1>3, <1>4 DEF RecInv

\* Recording an event (record_proposed_event) keeps the invariant.
LEMMA RecordKeeps ==
    ASSUME RecInv, NEW e \in Event, NEW n \in Nat,
           RecordProposedEvent(e, n), UNCHANGED workerVars
    PROVE  RecInv'
<1> USE DEF RecInv, workerVars, gbrainVars
<1>1. CASE UNCHANGED ledgerVars
  BY <1>1 DEF ledgerVars, RecTypeOK, LedgerTypeOK, WorkerTypeOK, LockInv, OneWorkerPerEvent,
              EffectInv, SourceInv
<1>2. CASE ~UNCHANGED ledgerVars
  <2>1. /\ status[e] = "none"
        /\ status' = [status EXCEPT ![e] = "pending"]
        /\ ledgerSeq' = [ledgerSeq EXCEPT ![e] = n]
        /\ receivedAt' = [receivedAt EXCEPT ![e] = Cardinality(Recorded) + 1]
        /\ UNCHANGED <<fixedReceipt, contiguous>>
    BY <1>2 DEF RecordProposedEvent
  <2>2. RecTypeOK'
    BY <2>1, NextPosition DEF RecTypeOK, LedgerTypeOK, WorkerTypeOK, LedgerStatus
  <2>3. LockInv'
    BY <2>1 DEF LockInv, OneWorkerPerEvent, RecTypeOK, LedgerTypeOK, WorkerTypeOK
  <2>4. EffectInv'
    BY <2>1 DEF EffectInv, RecTypeOK, LedgerTypeOK
  <2>5. SourceInv'
    BY <2>1 DEF SourceInv
  <2>6. QED
    BY <2>2, <2>3, <2>4, <2>5
<1>3. QED
  BY <1>1, <1>2

\* A worker takes a row.
LEMMA TakeKeeps ==
    ASSUME RecInv, NEW w \in Worker, NEW e \in Event, WorkerTake(w, e)
    PROVE  RecInv'
<1> USE DEF RecInv, WorkerTake, gbrainVars, ledgerVars
<1>1. RecTypeOK'
  BY DEF RecTypeOK, LedgerTypeOK, WorkerTypeOK, Stage
<1>2. LockInv'
  BY NoEventAssumption DEF LockInv, OneWorkerPerEvent, RecTypeOK, WorkerTypeOK, Takeable
<1>3. EffectInv' /\ SourceInv'
  BY DEF EffectInv, SourceInv
<1>4. QED
  BY <1>1, <1>2, <1>3

\* What a worker that holds a row knows.
LEMMA Holding ==
    ASSUME RecInv, NEW w \in Worker, stage[w] # "idle"
    PROVE  /\ lock[w] \in Event
           /\ status[lock[w]] \in {"pending", "retryable_failed"}
           /\ fixedReceipt[lock[w]] = "none"
           /\ \A v \in Worker : v # w => lock[v] # lock[w]
<1>1. lock[w] \in Event
  BY DEF RecInv, LockInv, RecTypeOK, WorkerTypeOK
<1>2. status[lock[w]] \in {"pending", "retryable_failed"} /\ \A v \in Worker : v # w => lock[v] # lock[w]
  BY DEF RecInv, LockInv, OneWorkerPerEvent, RecTypeOK, WorkerTypeOK
<1>3. QED
  BY <1>1, <1>2 DEF RecInv, EffectInv

\* A worker lets go of a row, and the row is closed or still open.
LEMMA ReleaseKeeps ==
    ASSUME RecInv, NEW w \in Worker, stage[w] # "idle", Release(w),
           NEW st \in LedgerStatus, status' = [status EXCEPT ![lock[w]] = st],
           factKeys \subseteq factKeys', bound \subseteq bound'
    PROVE  LockInv'
<1>1. /\ lock[w] \in Event
      /\ \A v \in Worker : v # w => lock[v] # lock[w]
  BY Holding
<1> USE DEF RecInv, RecTypeOK, LedgerTypeOK, WorkerTypeOK, LockInv, Release
<1>2. (\A v \in Worker : lock[v] = NoEvent <=> stage[v] = "idle")'
  OBVIOUS
<1>3. OneWorkerPerEvent'
  BY <1>1, NoEventAssumption DEF OneWorkerPerEvent
<1>4. (\A v \in Worker : stage[v] = "upserted" => lock[v] \in factKeys)'
  OBVIOUS
<1>5. (\A v \in Worker : stage[v] = "duplicate" => SourceOf[lock[v]] \in bound)'
  OBVIOUS
<1>6. QED
  BY <1>2, <1>3, <1>4, <1>5

\* An event is applied with a result code that its route and the backend
\* allow, and its source is bound or was bound before.
LEMMA ApplyKeeps ==
    ASSUME RecInv, NEW w \in Worker, stage[w] # "idle", Release(w),
           NEW code \in ResultCode, Applied(lock[w], code),
           UNCHANGED <<retryWait, gbrainVars>>,
           bound' = bound \/ RegisterBinding(lock[w]),
           candidates' = [candidates EXCEPT ![lock[w]] = IF code = "candidate_created" THEN @ + 1 ELSE @],
           code = "candidate_created" => Route[lock[w]] = "review",
           code = "candidate_confirmed" => lock[w] \in factKeys,
           code = "source_duplicate" => bound' = bound /\ SourceOf[lock[w]] \in bound
    PROVE  RecInv'
<1> DEFINE e == lock[w]
<1>1. /\ e \in Event
      /\ status[e] \in {"pending", "retryable_failed"}
      /\ fixedReceipt[e] = "none"
  BY Holding
<1>2. /\ status' = [status EXCEPT ![e] = "applied"]
      /\ fixedReceipt' = [fixedReceipt EXCEPT ![e] = code]
      /\ UNCHANGED <<ledgerSeq, receivedAt, contiguous>>
  BY <1>1 DEF Applied, RecInv, RecTypeOK, LedgerTypeOK
<1>3. /\ bound \subseteq bound'
      /\ bound' \subseteq bound \cup ({SourceOf[e]} \cap Source)
  BY DEF RegisterBinding
<1>4. RecTypeOK'
  <2>1. LedgerTypeOK'
    BY <1>1, <1>2 DEF RecInv, RecTypeOK, LedgerTypeOK, LedgerStatus
  <2>2. WorkerTypeOK'
    BY <1>1, <1>3 DEF RecInv, RecTypeOK, WorkerTypeOK, Release, Stage, gbrainVars
  <2>3. QED
    BY <2>1, <2>2 DEF RecTypeOK
<1>5. LockInv'
  BY <1>2, <1>3, ReleaseKeeps DEF gbrainVars, LedgerStatus
<1>6. EffectInv'
  <2> SUFFICES ASSUME NEW f \in Event
               PROVE  /\ status'[f] = "applied" <=> fixedReceipt'[f] # "none"
                      /\ facts'[f] = IF f \in factKeys' THEN 1 ELSE 0
                      /\ candidates'[f] = IF fixedReceipt'[f] = "candidate_created" THEN 1 ELSE 0
                      /\ f \in factKeys' => Route[f] = "explicit"
                      /\ fixedReceipt'[f] = "candidate_created" => Route[f] = "review"
                      /\ fixedReceipt'[f] = "candidate_confirmed" => f \in factKeys'
                      /\ status'[f] = "dead_letter" => Route[f] \in {"corrupt", "unsafe"}
    BY DEF EffectInv
  <2> USE DEF RecInv, EffectInv, RecTypeOK, LedgerTypeOK, WorkerTypeOK, gbrainVars
  <2>1. CASE f # e
    BY <1>1, <1>2, <2>1
  <2>2. CASE f = e
    BY <1>1, <1>2, <2>2 DEF ResultCode
  <2>3. QED
    BY <2>1, <2>2
<1>7. SourceInv'
  <2>1. ASSUME NEW p \in bound'
        PROVE  \E f \in Event : SourceOf[f] = p
                   /\ fixedReceipt'[f] \in {"candidate_confirmed", "candidate_created"}
    <3>1. CASE p \in bound
      <4>1. PICK f \in Event : SourceOf[f] = p
                   /\ fixedReceipt[f] \in {"candidate_confirmed", "candidate_created"}
        BY <3>1 DEF RecInv, SourceInv
      <4>2. fixedReceipt'[f] = fixedReceipt[f]
        BY <4>1, <1>1, <1>2 DEF RecInv, RecTypeOK, LedgerTypeOK
      <4>3. QED
        BY <4>1, <4>2
    <3>2. CASE p \notin bound
      <4>1. p = SourceOf[e] /\ code # "source_duplicate"
        BY <3>2, <2>1, <1>3
      <4>2. fixedReceipt'[e] \in {"candidate_confirmed", "candidate_created"}
        BY <4>1, <1>1, <1>2 DEF ResultCode, RecInv, RecTypeOK, LedgerTypeOK
      <4>3. QED
        BY <4>1, <4>2, <1>1
    <3>3. QED
      BY <3>1, <3>2
  <2>2. ASSUME NEW f \in Event, fixedReceipt'[f] = "source_duplicate"
        PROVE  SourceOf[f] \in bound'
    <3>1. CASE f = e
      BY <3>1, <2>2, <1>1, <1>2, <1>3 DEF RecInv, RecTypeOK, LedgerTypeOK
    <3>2. CASE f # e
      BY <3>2, <2>2, <1>1, <1>2, <1>3 DEF RecInv, SourceInv, RecTypeOK, LedgerTypeOK
    <3>3. QED
      BY <3>1, <3>2
  <2>3. QED
    BY <2>1, <2>2 DEF SourceInv
<1>8. QED
  BY <1>4, <1>5, <1>6, <1>7 DEF RecInv

\* The three ways in which an event is applied.
LEMMA DuplicateKeeps ==
    ASSUME RecInv, NEW w \in Worker, CompleteSourceDuplicate(w)
    PROVE  RecInv'
<1>1. stage[w] # "idle" /\ SourceOf[lock[w]] \in bound /\ lock[w] \in Event
  BY Holding DEF CompleteSourceDuplicate, RecInv, LockInv
<1>2. candidates' = [candidates EXCEPT ![lock[w]] = IF "source_duplicate" = "candidate_created" THEN @ + 1 ELSE @]
  BY <1>1 DEF CompleteSourceDuplicate, RecInv, RecTypeOK, WorkerTypeOK
<1>3. QED
  BY <1>1, <1>2, ApplyKeeps DEF CompleteSourceDuplicate, ResultCode

\* Queueing for review is an application with "candidate_created".
LEMMA CandidateKeeps ==
    ASSUME RecInv, NEW w \in Worker, CreateReviewCandidate(w)
    PROVE  RecInv'
<1>1. candidates' = [candidates EXCEPT ![lock[w]] = IF "candidate_created" = "candidate_created" THEN @ + 1 ELSE @]
  BY DEF CreateReviewCandidate
<1>2. QED
  BY <1>1, ApplyKeeps DEF CreateReviewCandidate, ResultCode

\* The metadata commit is an application with "candidate_confirmed".
LEMMA CommitKeeps ==
    ASSUME RecInv, NEW w \in Worker, CommitApplied(w)
    PROVE  RecInv'
<1>1. stage[w] # "idle" /\ lock[w] \in factKeys /\ lock[w] \in Event
  BY Holding DEF CommitApplied, RecInv, LockInv
<1>2. candidates' = [candidates EXCEPT ![lock[w]] = IF "candidate_confirmed" = "candidate_created" THEN @ + 1 ELSE @]
  BY <1>1 DEF CommitApplied, RecInv, RecTypeOK, WorkerTypeOK
<1>3. QED
  BY <1>1, <1>2, ApplyKeeps DEF CommitApplied, ResultCode

\* The backend's commit: one fact per key, and only for an explicit event.
LEMMA UpsertEffects ==
    ASSUME RecInv, NEW e \in Event, Route[e] = "explicit", UpsertConfirmed(e),
           UNCHANGED <<candidates, fixedReceipt>>,
           \A f \in Event : f # e => status'[f] = status[f],
           status[e] # "applied", status'[e] \in {"pending", "retryable_failed"}
    PROVE  /\ EffectInv'
           /\ facts' \in [Event -> Nat]
           /\ factKeys' \in SUBSET Event
           /\ factKeys \subseteq factKeys'
           /\ e \in factKeys'
<1> USE DEF RecInv, RecTypeOK, LedgerTypeOK, WorkerTypeOK, UpsertConfirmed
<1>1. /\ facts' \in [Event -> Nat]
      /\ factKeys' \in SUBSET Event
      /\ factKeys \subseteq factKeys'
      /\ e \in factKeys'
  OBVIOUS
<1>2. EffectInv'
  BY DEF EffectInv
<1>3. QED
  BY <1>1, <1>2

\* The commit of the backend alone keeps the invariant (upsert_confirmed).
LEMMA UpsertKeeps ==
    ASSUME RecInv, NEW w \in Worker, Upsert(w)
    PROVE  RecInv'
<1>1. /\ lock[w] \in Event
      /\ status[lock[w]] \in {"pending", "retryable_failed"}
  BY Holding DEF Upsert
<1>2. /\ EffectInv'
      /\ facts' \in [Event -> Nat]
      /\ factKeys' \in SUBSET Event
      /\ factKeys \subseteq factKeys'
      /\ lock[w] \in factKeys'
  BY <1>1, UpsertEffects DEF Upsert, ledgerVars
<1>3. RecTypeOK'
  BY <1>2 DEF Upsert, RecInv, RecTypeOK, LedgerTypeOK, WorkerTypeOK, ledgerVars, Stage
<1>4. LockInv'
  BY <1>1, <1>2, NoEventAssumption
     DEF Upsert, RecInv, LockInv, OneWorkerPerEvent, RecTypeOK, WorkerTypeOK, ledgerVars
<1>5. SourceInv'
  BY DEF Upsert, RecInv, SourceInv, ledgerVars
<1>6. QED
  BY <1>2, <1>3, <1>4, <1>5 DEF RecInv

\* An attempt that fails, with or without a fact left behind in the backend.
LEMMA RetryKeeps ==
    ASSUME RecInv, NEW w \in Worker, stage[w] = "fresh", Route[lock[w]] = "explicit",
           MarkEventRetryable(lock[w]), Release(w), UNCHANGED <<bound, candidates>>,
           UpsertConfirmed(lock[w]) \/ UNCHANGED gbrainVars
    PROVE  RecInv'
<1> DEFINE e == lock[w]
<1>1. e \in Event /\ status[e] \in {"pending", "retryable_failed"}
  BY Holding
<1>2. /\ EffectInv'
      /\ facts' \in [Event -> Nat]
      /\ factKeys' \in SUBSET Event
      /\ factKeys \subseteq factKeys'
  <2>1. /\ \A f \in Event : f # e => status'[f] = status[f]
        /\ status'[e] = "retryable_failed"
        /\ UNCHANGED fixedReceipt
    BY <1>1 DEF MarkEventRetryable, RecInv, RecTypeOK, LedgerTypeOK
  <2>2. CASE UpsertConfirmed(e)
    BY <1>1, <2>1, <2>2, UpsertEffects
  <2>3. CASE UNCHANGED gbrainVars
    BY <1>1, <2>1, <2>3 DEF gbrainVars, RecInv, EffectInv, RecTypeOK, WorkerTypeOK
  <2>4. QED
    BY <2>2, <2>3
<1>3. RecTypeOK'
  BY <1>1, <1>2 DEF MarkEventRetryable, Release, RecInv, RecTypeOK, LedgerTypeOK, WorkerTypeOK,
                    LedgerStatus, Stage
<1>4. LockInv'
  BY <1>2, ReleaseKeeps DEF MarkEventRetryable, LedgerStatus
<1>5. SourceInv'
  BY DEF MarkEventRetryable, RecInv, SourceInv
<1>6. QED
  BY <1>2, <1>3, <1>4, <1>5 DEF RecInv

\* Giving an event up keeps the invariant (_mark_dead_letter).
LEMMA DeadLetterKeeps ==
    ASSUME RecInv, NEW w \in Worker, MarkEventDeadLetter(w)
    PROVE  RecInv'
<1> USE DEF MarkEventDeadLetter, gbrainVars
<1>1. lock[w] \in Event /\ fixedReceipt[lock[w]] = "none"
  BY Holding
<1>2. RecTypeOK'
  BY <1>1 DEF Release, RecInv, RecTypeOK, LedgerTypeOK, WorkerTypeOK, LedgerStatus, Stage
<1>3. LockInv'
  BY ReleaseKeeps DEF LedgerStatus
<1>4. EffectInv'
  BY <1>1 DEF RecInv, EffectInv, RecTypeOK, LedgerTypeOK
<1>5. SourceInv'
  BY DEF RecInv, SourceInv
<1>6. QED
  BY <1>2, <1>3, <1>4, <1>5 DEF RecInv

\* A rolled back metadata transaction keeps the invariant.
LEMMA CrashKeeps ==
    ASSUME RecInv, NEW w \in Worker, WorkerCrash(w)
    PROVE  RecInv'
<1> USE DEF WorkerCrash, gbrainVars, ledgerVars
<1>1. RecTypeOK'
  BY DEF Release, RecInv, RecTypeOK, LedgerTypeOK, WorkerTypeOK, Stage
<1>2. LockInv'
  BY NoEventAssumption DEF Release, RecInv, LockInv, OneWorkerPerEvent, RecTypeOK, WorkerTypeOK
<1>3. EffectInv' /\ SourceInv'
  BY DEF RecInv, EffectInv, SourceInv
<1>4. QED
  BY <1>1, <1>2, <1>3 DEF RecInv

\* Time, and steps that leave the two databases alone.
LEMMA TimeKeeps ==
    ASSUME RecInv, NEW e \in Event, RetryElapses(e)
    PROVE  RecInv'
BY DEF RetryElapses, gbrainVars, ledgerVars, RecInv, RecTypeOK, LedgerTypeOK, WorkerTypeOK,
       LockInv, OneWorkerPerEvent, EffectInv, SourceInv

\* Steps of other components keep the invariant.
LEMMA StutterKeeps ==
    ASSUME RecInv, UNCHANGED <<ledgerVars, workerVars>>
    PROVE  RecInv'
BY DEF gbrainVars, ledgerVars, workerVars, RecInv, RecTypeOK, LedgerTypeOK, WorkerTypeOK,
       LockInv, OneWorkerPerEvent, EffectInv, SourceInv

\* Every step of a worker, and every fault of one, keeps the invariant.
LEMMA WorkerKeeps ==
    ASSUME RecInv, NEW w \in Worker,
           WorkerStep(w) \/ UpsertFails(w) \/ UpsertAnswerLost(w) \/ WorkerCrash(w)
    PROVE  RecInv'
<1>1. CASE WorkerStep(w)
  BY <1>1, TakeKeeps, DuplicateKeeps, CandidateKeeps, UpsertKeeps, CommitKeeps, DeadLetterKeeps
     DEF WorkerStep
<1>2. CASE UpsertFails(w)
  BY <1>2, RetryKeeps DEF UpsertFails
<1>3. CASE UpsertAnswerLost(w)
  BY <1>3, RetryKeeps DEF UpsertAnswerLost
<1>4. CASE WorkerCrash(w)
  BY <1>4, CrashKeeps
<1>5. QED
  BY <1>1, <1>2, <1>3, <1>4
-----------------------------------------------------------------------------
\* RecInv is an invariant of the reconciler on its own, whatever the workers,
\* the backend and the network do.
THEOREM ReconcilerInvariant == WorkerSpec => []RecInv
<1>1. LedgerInit /\ WorkerInit => RecInv
  BY RecInitInv
<1>2. RecInv /\ [WorkerNext]_reconcilerVars => RecInv'
  <2> SUFFICES ASSUME RecInv, [WorkerNext]_reconcilerVars PROVE RecInv'
    OBVIOUS
  <2>1. CASE \E e \in Event : Arrives(e)
    BY <2>1, NextPosition, RecordKeeps DEF Arrives
  <2>2. CASE \E e \in Event : RetryElapses(e)
    BY <2>2, TimeKeeps
  <2>3. CASE \E w \in Worker : WorkerStep(w) \/ UpsertFails(w) \/ UpsertAnswerLost(w) \/ WorkerCrash(w)
    BY <2>3, WorkerKeeps
  <2>4. CASE UNCHANGED reconcilerVars
    BY <2>4, StutterKeeps DEF reconcilerVars
  <2>5. QED
    BY <2>1, <2>2, <2>3, <2>4 DEF WorkerNext
<1>3. QED
  BY <1>1, <1>2, PTL DEF WorkerSpec, RecInit

\* What the invariant says about effects, in the words of the properties.
LEMMA InvGivesEffects == RecInv => ExactlyOnceEffect
<1> SUFFICES ASSUME RecInv, NEW e \in Event
             PROVE  /\ Effects(e) <= 1
                    /\ fixedReceipt[e] = "candidate_confirmed" => facts[e] = 1
                    /\ fixedReceipt[e] = "candidate_created" <=> candidates[e] = 1
                    /\ status[e] = "dead_letter" => Effects(e) = 0
  BY DEF ExactlyOnceEffect
<1> USE DEF RecInv, EffectInv, Effects
<1>1. CASE e \in factKeys
  BY <1>1
<1>2. CASE e \notin factKeys
  BY <1>2
<1>3. QED
  BY <1>1, <1>2

\* Behind a duplicate there is an original.
LEMMA InvGivesOriginal == RecInv => DuplicateHasOriginal
<1> SUFFICES ASSUME RecInv, NEW e \in Event, fixedReceipt[e] = "source_duplicate"
             PROVE  \E f \in Event \ {e} :
                       SourceOf[f] = SourceOf[e] /\ status[f] = "applied" /\ Effects(f) = 1
  BY DEF DuplicateHasOriginal
<1>1. PICK f \in Event : SourceOf[f] = SourceOf[e]
                 /\ fixedReceipt[f] \in {"candidate_confirmed", "candidate_created"}
  BY DEF RecInv, SourceInv
<1>2. f # e /\ status[f] = "applied" /\ Effects(f) = 1
  BY <1>1 DEF RecInv, EffectInv, Effects
<1>3. QED
  BY <1>1, <1>2

\* At most one fact or candidate per event, receipts that are true, and nothing
\* left behind by an event that was given up: across two databases without a
\* common transaction, for any number of workers and any sequence of failures
\* (reconcile_once, upsert_confirmed).
THEOREM ExactlyOnce == WorkerSpec => []ExactlyOnceEffect
BY ReconcilerInvariant, InvGivesEffects, PTL

\* No two workers on one event, and none on a closed one (the row lock of
\* reconcile_once).
THEOREM WorkersExclude == WorkerSpec => []OneWorkerPerEvent
<1>1. RecInv => OneWorkerPerEvent
  BY DEF RecInv, LockInv
<1>2. QED
  BY <1>1, ReconcilerInvariant, PTL

\* Behind every answer "source_duplicate" there is a stored memory or candidate
\* of the same source (_existing_external_binding).
THEOREM DuplicatesAreSafe == WorkerSpec => []DuplicateHasOriginal
BY ReconcilerInvariant, InvGivesOriginal, PTL

\* A worker's step changes the status and the receipt of one event only, and
\* that event was open.
LEMMA ClosedStay ==
    ASSUME RecInv, NEW w \in Worker,
           WorkerStep(w) \/ UpsertFails(w) \/ UpsertAnswerLost(w) \/ WorkerCrash(w),
           NEW e \in Event, status[e] \in {"applied", "dead_letter"}
    PROVE  status'[e] = status[e] /\ fixedReceipt'[e] = fixedReceipt[e]
<1>1. CASE stage[w] # "idle" /\ ~UNCHANGED ledgerVars
  <2>1. lock[w] \in Event /\ lock[w] # e
    BY <1>1, Holding
  <2>2. \/ \E code \in ResultCode : Applied(lock[w], code)
        \/ MarkEventRetryable(lock[w])
        \/ MarkEventDeadLetter(w)
    BY <1>1 DEF WorkerStep, WorkerTake, CompleteSourceDuplicate, CreateReviewCandidate, Upsert,
                CommitApplied, UpsertFails, UpsertAnswerLost, WorkerCrash, ResultCode
  <2>3. QED
    BY <2>1, <2>2 DEF Applied, MarkEventRetryable, MarkEventDeadLetter,
                      RecInv, RecTypeOK, LedgerTypeOK
<1>2. CASE stage[w] = "idle"
  <2>1. UNCHANGED ledgerVars
    BY <1>2 DEF WorkerStep, WorkerTake, CompleteSourceDuplicate, CreateReviewCandidate, Upsert,
                CommitApplied, MarkEventDeadLetter, UpsertFails, UpsertAnswerLost, WorkerCrash
  <2>2. QED
    BY <2>1 DEF ledgerVars
<1>3. CASE UNCHANGED ledgerVars
  BY <1>3 DEF ledgerVars
<1>4. QED
  BY <1>1, <1>2, <1>3

\* Applied and dead-lettered events are final, with their receipts: no retry and
\* no late worker reopens them (reconcile_once).
THEOREM ClosedIsFinal == WorkerSpec => ClosedEventsStay
<1> DEFINE Stay == \A e \in Event : status[e] \in {"applied", "dead_letter"} =>
                        status'[e] = status[e] /\ fixedReceipt'[e] = fixedReceipt[e]
<1>1. RecInv /\ [WorkerNext]_reconcilerVars => [Stay]_ledgerVars
  <2> SUFFICES ASSUME RecInv, [WorkerNext]_reconcilerVars PROVE Stay
    OBVIOUS
  <2>1. CASE \E e \in Event : Arrives(e)
    BY <2>1 DEF Arrives, RecordProposedEvent, ledgerVars, RecInv, RecTypeOK, LedgerTypeOK
  <2>2. CASE \E e \in Event : RetryElapses(e)
    BY <2>2 DEF RetryElapses, ledgerVars
  <2>3. CASE \E w \in Worker : WorkerStep(w) \/ UpsertFails(w) \/ UpsertAnswerLost(w) \/ WorkerCrash(w)
    BY <2>3, ClosedStay
  <2>4. CASE UNCHANGED reconcilerVars
    BY <2>4 DEF reconcilerVars, ledgerVars
  <2>5. QED
    BY <2>1, <2>2, <2>3, <2>4 DEF WorkerNext
<1>2. QED
  BY <1>1, ReconcilerInvariant, PTL DEF WorkerSpec, RecInit, ClosedEventsStay
=============================================================================
