-------------------------- MODULE EventSyncProofs ---------------------------
(***************************************************************************)
(* Proofs about the whole path from a device to the long-term store: SyncInv *)
(* is an invariant of EventSync for any number of events, agents, request   *)
(* slots and workers and any mixture of faults.  RecInv, its part about the *)
(* reconciler, is carried over step by step from ReconcilerProofs.          *)
(***************************************************************************)
EXTENDS EventSync, ReconcilerProofs

\* Actions that touch neither the ledger nor the memory backend.
Elsewhere ==
    \/ \E e \in Event : Remember(e) \/ Backoff(e)
    \/ \E a \in Agent : SyncCall(a)
    \/ Sidecar
    \/ AnswerTruncated
    \/ Cleanup
    \/ SidecarCrash
    \/ \E s \in Slot : Admit(s) \/ DropAnswer(s) \/ PushBusy(s) \/ PushFatal(s)
    \/ GatewayCrash
    \/ NewEpoch

\* Every step is one of these or a step of the ledger or of a worker.
LEMMA NextCases ==
    ASSUME Next
    PROVE  \/ Elsewhere
           \/ \E s \in Slot, e \in Event : RecordNext(s, e)
           \/ \E s \in Slot : FinishPush(s)
           \/ \E w \in Worker : Reconcile(w) \/ ReconcileFault(w)
           \/ \E e \in Event : RetryDue(e)
BY DEF Next, Elsewhere, Gateway

\* They leave the ledger and the workers alone.
LEMMA ElsewhereLeaves ==
    ASSUME Elsewhere
    PROVE  UNCHANGED <<ledgerVars, workerVars>>
BY DEF Elsewhere, Remember, Backoff, SyncCall, Sidecar, RememberEnqueue, StartPush, Post,
       ReceiveAnswer, TransportFails, ApplyVerdict, FinishApply, Pull, AnswerTruncated, Cleanup,
       SidecarCrash, Admit, DropAnswer, PushBusy, PushFatal, GatewayCrash, NewEpoch

\* The contiguous sequence advances to a natural number.
LEMMA AdvanceKeeps ==
    ASSUME RecInv, AdvanceContiguous, UNCHANGED workerVars
    PROVE  RecInv'
<1>1. contiguous' \in Nat
  BY DEF AdvanceContiguous, RecInv, RecTypeOK, LedgerTypeOK, Recorded
<1>2. QED
  BY <1>1 DEF AdvanceContiguous, workerVars, gbrainVars, RecInv, RecTypeOK, LedgerTypeOK,
              WorkerTypeOK, LockInv, OneWorkerPerEvent, EffectInv, SourceInv

\* The reconciler's invariant holds in the composition.
LEMMA SyncKeepsRec ==
    ASSUME TypeOK, RecInv, [Next]_vars
    PROVE  RecInv'
<1>1. CASE Elsewhere
  BY <1>1, ElsewhereLeaves, StutterKeeps
<1>2. ASSUME NEW s \in Slot, NEW e \in Event, RecordNext(s, e)
      PROVE  RecInv'
  <2>1. CASE UNCHANGED ledgerVars
    BY <1>2, <2>1, StutterKeeps DEF RecordNext
  <2>2. CASE RecordProposedEvent(e, hseq[s][e])
    <3>1. hseq[s][e] \in Nat
      BY DEF TypeOK, GatewayTypeOK
    <3>2. QED
      BY <1>2, <2>2, <3>1, RecordKeeps DEF RecordNext
  <2>3. QED
    BY <1>2, <2>1, <2>2 DEF RecordNext
<1>3. ASSUME NEW s \in Slot, FinishPush(s)
      PROVE  RecInv'
  BY <1>3, AdvanceKeeps DEF FinishPush
<1>4. ASSUME NEW w \in Worker, Reconcile(w) \/ ReconcileFault(w)
      PROVE  RecInv'
  BY <1>4, WorkerKeeps DEF Reconcile, ReconcileFault
<1>5. ASSUME NEW e \in Event, RetryDue(e)
      PROVE  RecInv'
  BY <1>5, TimeKeeps DEF RetryDue
<1>6. CASE UNCHANGED vars
  BY <1>6, StutterKeeps DEF vars
<1>7. QED
  BY <1>1, <1>2, <1>3, <1>4, <1>5, <1>6, NextCases

\* A fixed receipt, once there, stays.
LEMMA ReceiptStays ==
    ASSUME RecInv, [Next]_vars, NEW e \in Event, fixedReceipt[e] # "none"
    PROVE  fixedReceipt'[e] = fixedReceipt[e]
<1>0. status[e] = "applied"
  BY DEF RecInv, EffectInv
<1>1. CASE Elsewhere
  BY <1>1, ElsewhereLeaves DEF ledgerVars
<1>2. CASE \E s \in Slot, f \in Event : RecordNext(s, f)
  BY <1>2 DEF RecordNext, RecordProposedEvent, ledgerVars
<1>3. CASE \E s \in Slot : FinishPush(s)
  BY <1>3 DEF FinishPush, AdvanceContiguous
<1>4. CASE \E w \in Worker : Reconcile(w) \/ ReconcileFault(w)
  BY <1>0, <1>4, ClosedStay DEF Reconcile, ReconcileFault
<1>5. CASE \E f \in Event : RetryDue(f)
  BY <1>5 DEF RetryDue, RetryElapses, ledgerVars
<1>6. CASE UNCHANGED vars
  BY <1>6 DEF vars, ledgerVars
<1>7. QED
  BY <1>1, <1>2, <1>3, <1>4, <1>5, <1>6, NextCases
-----------------------------------------------------------------------------
(* Types.                                                                    *)

\* Every operation on the outbox keeps its types.
LEMMA OutboxTypes ==
    ASSUME OutboxTypeOK, NEW e \in Event, NEW n \in Nat, NEW B \in SUBSET Event,
           NEW r \in ResultCode \cup {"rejected"}, NEW b \in BOOLEAN,
           \/ PrepareEvent \/ Enqueue(e, n) \/ MarkInFlight(B) \/ MarkRetryable(e, b)
           \/ MarkTerminal(e, r) \/ MarkDeadLetter(e) \/ CleanupAcked \/ Reopen
           \/ BackoffElapses(e)
    PROVE  OutboxTypeOK'
<1> USE DEF OutboxTypeOK, RowState, LocalReceipt
<1>1. CASE PrepareEvent
  BY <1>1 DEF PrepareEvent
<1>2. CASE Enqueue(e, n)
  BY <1>2 DEF Enqueue
<1>3. CASE MarkInFlight(B)
  BY <1>3 DEF MarkInFlight
<1>4. CASE MarkRetryable(e, b)
  BY <1>4 DEF MarkRetryable
<1>5. CASE MarkTerminal(e, r)
  BY <1>5 DEF MarkTerminal
<1>6. CASE MarkDeadLetter(e)
  BY <1>6 DEF MarkDeadLetter
<1>7. CASE CleanupAcked
  BY <1>7 DEF CleanupAcked
<1>8. CASE Reopen
  BY <1>8 DEF Reopen
<1>9. CASE BackoffElapses(e)
  BY <1>9 DEF BackoffElapses
<1>10. QED
  BY <1>1, <1>2, <1>3, <1>4, <1>5, <1>6, <1>7, <1>8, <1>9

\* Steps of other components keep the types of the outbox.
LEMMA OutboxStutter ==
    ASSUME OutboxTypeOK, UNCHANGED outboxVars PROVE OutboxTypeOK'
BY DEF OutboxTypeOK, outboxVars

\* What a settled row looks like (the loop of _push_workspace).
LEMMA SettleTypes ==
    ASSUME OutboxTypeOK, NEW e \in Event, NEW v \in Verdict, Settle(e, v)
    PROVE  OutboxTypeOK'
<1>1. \/ v \in ResultCode \cup {"rejected"} /\ MarkTerminal(e, v)
      \/ MarkRetryable(e, FALSE)
      \/ MarkRetryable(e, TRUE)
      \/ MarkDeadLetter(e)
  BY DEF Settle
<1>2. QED
  BY <1>1, OutboxTypes

\* The budget of faults stays a natural number.
LEMMA HappensType == ASSUME budget \in Nat, NEW k, Happens(k) PROVE budget' \in Nat
BY DEF Happens

\* Types of the steps of the sidecar.
LEMMA SidecarTypes ==
    ASSUME TypeOK, ControlInv,
           \/ \E e \in Event : Remember(e) \/ Backoff(e)
           \/ \E a \in Agent : SyncCall(a)
           \/ Sidecar \/ AnswerTruncated \/ Cleanup \/ SidecarCrash
    PROVE  OutboxTypeOK' /\ SidecarTypeOK' /\ GatewayTypeOK' /\ budget' \in Nat
<1> USE DEF TypeOK, SidecarTypeOK, clientVars, handlerVars
<1>s. ASSUME UNCHANGED handlerVars PROVE GatewayTypeOK'
  BY <1>s DEF GatewayTypeOK
<1>f. ASSUME NEW S \in SUBSET Slot, FreeSlots(S) PROVE GatewayTypeOK'
  BY <1>f DEF FreeSlots, GatewayTypeOK, Same, Verdict
<1>n. ASSUME EndCall
      PROVE  /\ pc' = "idle" /\ who' \in Agent \cup {NoAgent} /\ prepared' = NoEvent
             /\ todo' = {} /\ cur' = NoSlot /\ resp' \in [Event -> Verdict]
  BY <1>n DEF EndCall, Same, Verdict
<1>1. ASSUME NEW e \in Event, Remember(e)
      PROVE  OutboxTypeOK' /\ SidecarTypeOK' /\ GatewayTypeOK' /\ budget' \in Nat
  <2>1. OutboxTypeOK'
    BY <1>1, OutboxTypes DEF Remember
  <2>2. QED
    BY <1>1, <2>1, <1>s, SyncAssumption DEF Remember
<1>2. ASSUME NEW e \in Event, Backoff(e)
      PROVE  OutboxTypeOK' /\ SidecarTypeOK' /\ GatewayTypeOK' /\ budget' \in Nat
  <2>1. OutboxTypeOK'
    BY <1>2, OutboxTypes DEF Backoff
  <2>2. QED
    BY <1>2, <2>1, <1>s DEF Backoff
<1>3. ASSUME NEW a \in Agent, SyncCall(a)
      PROVE  OutboxTypeOK' /\ SidecarTypeOK' /\ GatewayTypeOK' /\ budget' \in Nat
  BY <1>3, <1>s, OutboxStutter DEF SyncCall
<1>4. CASE RememberEnqueue
  <2>1. OutboxTypeOK'
    <3>1. deviceSeq \in Nat /\ prepared \in Event
      BY <1>4 DEF OutboxTypeOK, RememberEnqueue, ControlInv
    <3>2. QED
      BY <1>4, <3>1, OutboxTypes, OutboxStutter DEF RememberEnqueue
  <2>2. SidecarTypeOK'
    BY <1>4, <1>n DEF RememberEnqueue, ControlInv
  <2>3. QED
    BY <1>4, <2>1, <2>2, <1>s DEF RememberEnqueue
<1>5. CASE StartPush
  <2>1. FirstBatch \in SUBSET Event
    BY DEF FirstBatch, Sendable
  <2>2. OutboxTypeOK'
    BY <1>5 DEF StartPush, MarkInFlight, OutboxTypeOK, RowState
  <2>3. QED
    BY <1>5, <2>1, <2>2, <1>s DEF StartPush
<1>6. CASE Post
  <2>1. OutboxTypeOK'
    BY <1>6, OutboxStutter DEF Post
  <2>2. SidecarTypeOK'
    BY <1>6 DEF Post, Same, Verdict
  <2>3. GatewayTypeOK'
    <3>1. [e \in Event |-> IF e \in todo THEN rowSeq[e] ELSE 0] \in [Event -> Nat]
      BY DEF OutboxTypeOK
    <3>2. Same("none") \in [Event -> Verdict]
      BY DEF Same, Verdict
    <3>3. CASE UNCHANGED handlerVars
      BY <3>3, <1>s
    <3>4. CASE ~UNCHANGED handlerVars
      <4>1. PICK s \in Slot :
              /\ hpc' = [hpc EXCEPT ![s] = "arrived"]
              /\ hwho' = [hwho EXCEPT ![s] = who]
              /\ hepoch' = [hepoch EXCEPT ![s] = cliEpoch]
              /\ hseq' = [hseq EXCEPT ![s] = [e \in Event |-> IF e \in todo THEN rowSeq[e] ELSE 0]]
              /\ htodo' = [htodo EXCEPT ![s] = todo]
              /\ hres' = [hres EXCEPT ![s] = Same("none")]
              /\ UNCHANGED <<srvEpoch, denied>>
        BY <1>6, <3>4 DEF Post
      <4>2. hseq' \in [Slot -> [Event -> Nat]]
        BY <4>1, <3>1 DEF GatewayTypeOK
      <4>3. hres' \in [Slot -> [Event -> Verdict]]
        BY <4>1, <3>2 DEF GatewayTypeOK
      <4>4. QED
        BY <4>1, <4>2, <4>3 DEF GatewayTypeOK
    <3>5. QED
      BY <3>3, <3>4
  <2>4. QED
    BY <1>6, <2>1, <2>2, <2>3 DEF Post
<1>7. CASE ReceiveAnswer
  <2>1. cur \in Slot
    BY <1>7 DEF ReceiveAnswer, ControlInv
  <2>2. SidecarTypeOK'
    BY <1>7, <2>1 DEF ReceiveAnswer, GatewayTypeOK
  <2>3. QED
    BY <1>7, <2>1, <2>2, <1>f, OutboxStutter DEF ReceiveAnswer
<1>8. CASE TransportFails
  <2>1. budget' \in Nat
    BY <1>8, HappensType DEF TransportFails
  <2>2. SidecarTypeOK'
    BY <1>8 DEF TransportFails, Same, Verdict
  <2>3. QED
    BY <1>8, <2>1, <2>2, <1>s, OutboxStutter DEF TransportFails
<1>9. ASSUME NEW e \in Event, ApplyVerdict(e)
      PROVE  OutboxTypeOK' /\ SidecarTypeOK' /\ GatewayTypeOK' /\ budget' \in Nat
  <2>1. OutboxTypeOK'
    BY <1>9, SettleTypes DEF ApplyVerdict
  <2>2. QED
    BY <1>9, <2>1, <1>s DEF ApplyVerdict
<1>10. CASE FinishApply
  <2>1. SidecarTypeOK'
    BY <1>10 DEF FinishApply, Same, Verdict
  <2>2. QED
    BY <1>10, <2>1, <1>s, OutboxStutter DEF FinishApply
<1>11. CASE Pull
  <2>1. budget' \in Nat
    BY <1>11, HappensType DEF Pull
  <2>2. SidecarTypeOK'
    BY <1>11, <1>n DEF Pull, GatewayTypeOK
  <2>3. QED
    BY <1>11, <2>1, <2>2, <1>s, OutboxStutter DEF Pull
<1>12. CASE AnswerTruncated
  <2>1. cur \in Slot
    BY <1>12 DEF AnswerTruncated, ControlInv
  <2>2. SidecarTypeOK' /\ budget' \in Nat
    BY <1>12, <1>n, HappensType DEF AnswerTruncated
  <2>3. QED
    BY <1>12, <2>1, <2>2, <1>f, OutboxStutter DEF AnswerTruncated
<1>13. CASE Cleanup
  <2>1. OutboxTypeOK'
    <3>1. PICK e \in Event : rowState[e] = "acked"
      BY <1>13 DEF Cleanup
    <3>2. QED
      BY <1>13, <3>1, OutboxTypes DEF Cleanup
  <2>2. QED
    BY <1>13, <2>1, <1>s DEF Cleanup
<1>14. CASE SidecarCrash
  <2>1. OutboxTypeOK'
    BY <1>14 DEF SidecarCrash, Reopen, OutboxTypeOK, RowState
  <2>2. SidecarTypeOK' /\ budget' \in Nat
    BY <1>14, <1>n, HappensType DEF SidecarCrash
  <2>3. QED
    BY <1>14, <2>1, <2>2, <1>s DEF SidecarCrash
<1>15. QED
  BY <1>1, <1>2, <1>3, <1>4, <1>5, <1>6, <1>7, <1>8, <1>9, <1>10, <1>11, <1>12, <1>13, <1>14
     DEF Sidecar

\* The ledger's answer to a recorded event is a verdict.
LEMMA AnswerType ==
    ASSUME RecInv, NEW e \in Event, NEW n PROVE Answer(e, n) \in Verdict
<1>1. status[e] = "applied" => fixedReceipt[e] \in ResultCode
  BY DEF RecInv, EffectInv, RecTypeOK, LedgerTypeOK
<1>2. QED
  BY <1>1 DEF RecInv, RecTypeOK, LedgerTypeOK, LedgerStatus, Answer, Verdict

\* Types of the steps of the gateway and of the workers.
LEMMA GatewayTypes ==
    ASSUME TypeOK, RecInv,
           \/ \E s \in Slot : Gateway(s) \/ PushBusy(s) \/ PushFatal(s)
           \/ GatewayCrash \/ NewEpoch
    PROVE  OutboxTypeOK' /\ SidecarTypeOK' /\ GatewayTypeOK' /\ budget' \in Nat
<1>s. UNCHANGED <<outboxVars, clientVars>>
  BY DEF Gateway, Admit, RecordNext, FinishPush, DropAnswer, PushBusy, PushFatal, GatewayCrash, NewEpoch
<1>o. OutboxTypeOK' /\ SidecarTypeOK'
  BY <1>s, OutboxStutter DEF TypeOK, SidecarTypeOK, clientVars
<1> USE DEF TypeOK, GatewayTypeOK
<1>a. ASSUME NEW s \in Slot, NEW v \in Verdict, AnswerAll(s, v),
             hepoch' \in [Slot -> Nat], srvEpoch' \in Nat, denied' \in SUBSET Event
      PROVE  GatewayTypeOK'
  <2>1. [e \in Event |-> IF e \in Batch(s) THEN v ELSE "none"] \in [Event -> Verdict]
    BY DEF Verdict
  <2>2. hres' \in [Slot -> [Event -> Verdict]]
    BY <1>a, <2>1 DEF AnswerAll
  <2>3. QED
    BY <1>a, <2>2 DEF AnswerAll
<1>f. ASSUME NEW S \in SUBSET Slot, FreeSlots(S) PROVE GatewayTypeOK'
  BY <1>f DEF FreeSlots, Same, Verdict
<1>1. ASSUME NEW s \in Slot, Admit(s) PROVE GatewayTypeOK' /\ budget' \in Nat
  <2>1. CASE AnswerAll(s, "reset") /\ hepoch' = [hepoch EXCEPT ![s] = srvEpoch]
    <3>1. hepoch' \in [Slot -> Nat] /\ srvEpoch' \in Nat /\ denied' \in SUBSET Event /\ "reset" \in Verdict
      BY <1>1, <2>1 DEF Admit, Verdict
    <3>2. QED
      BY <1>1, <2>1, <3>1, <1>a DEF Admit
  <2>2. CASE hpc' = [hpc EXCEPT ![s] = "running"] /\ UNCHANGED <<hwho, hepoch, hseq, htodo, hres>>
    BY <1>1, <2>2 DEF Admit
  <2>3. QED
    BY <1>1, <2>1, <2>2 DEF Admit
<1>2. ASSUME NEW s \in Slot, NEW e \in Event, RecordNext(s, e) PROVE GatewayTypeOK' /\ budget' \in Nat
  <2>1. PICK v \in Verdict : hres' = [hres EXCEPT ![s][e] = v]
    BY <1>2, AnswerType DEF RecordNext, Verdict
  <2>2. budget' \in Nat /\ denied' \in SUBSET Event
    BY <1>2, HappensType DEF RecordNext
  <2>3. QED
    BY <1>2, <2>1, <2>2 DEF RecordNext
<1>3. ASSUME NEW s \in Slot, FinishPush(s) PROVE GatewayTypeOK' /\ budget' \in Nat
  BY <1>3 DEF FinishPush
<1>4. ASSUME NEW s \in Slot, DropAnswer(s) PROVE GatewayTypeOK' /\ budget' \in Nat
  BY <1>4, <1>f DEF DropAnswer
<1>5. ASSUME NEW s \in Slot, PushBusy(s) PROVE GatewayTypeOK' /\ budget' \in Nat
  <2>1. "busy" \in Verdict /\ hepoch' \in [Slot -> Nat] /\ srvEpoch' \in Nat /\ denied' \in SUBSET Event
    BY <1>5 DEF PushBusy, Verdict
  <2>2. QED
    BY <1>5, <2>1, <1>a, HappensType DEF PushBusy
<1>6. ASSUME NEW s \in Slot, PushFatal(s) PROVE GatewayTypeOK' /\ budget' \in Nat
  <2>1. "fatal" \in Verdict /\ hepoch' \in [Slot -> Nat] /\ srvEpoch' \in Nat /\ denied' \in SUBSET Event
    BY <1>6 DEF PushFatal, Verdict, Batch
  <2>2. QED
    BY <1>6, <2>1, <1>a, HappensType DEF PushFatal
<1>7. CASE GatewayCrash
  <2>1. FreeSlots(Slot) /\ budget' \in Nat
    BY <1>7, HappensType DEF GatewayCrash
  <2>2. QED
    BY <1>o, <2>1, <1>f
<1>8. CASE NewEpoch
  <2>1. srvEpoch' = srvEpoch + 1 /\ UNCHANGED <<hpc, hwho, hepoch, hseq, htodo, hres, denied>>
    BY <1>8 DEF NewEpoch
  <2>2. budget' \in Nat
    BY <1>8, HappensType DEF NewEpoch
  <2>3. QED
    BY <1>o, <2>1, <2>2
<1>9. QED
  BY <1>o, <1>1, <1>2, <1>3, <1>4, <1>5, <1>6, <1>7, <1>8 DEF Gateway

\* Every step of the composition keeps the types.
LEMMA SyncKeepsTypes ==
    ASSUME TypeOK, RecInv, ControlInv, [Next]_vars
    PROVE  TypeOK'
<1>1. RecTypeOK'
  BY SyncKeepsRec DEF RecInv
<1>2. CASE \/ \E e \in Event : Remember(e) \/ Backoff(e)
           \/ \E a \in Agent : SyncCall(a)
           \/ Sidecar \/ AnswerTruncated \/ Cleanup \/ SidecarCrash
  BY <1>1, <1>2, SidecarTypes DEF TypeOK
<1>3. CASE \/ \E s \in Slot : Gateway(s) \/ PushBusy(s) \/ PushFatal(s)
           \/ GatewayCrash \/ NewEpoch
  BY <1>1, <1>3, GatewayTypes DEF TypeOK
<1>4. CASE \/ \E w \in Worker : Reconcile(w) \/ ReconcileFault(w)
           \/ \E e \in Event : RetryDue(e)
           \/ UNCHANGED vars
  <2>1. UNCHANGED <<outboxVars, clientVars, handlerVars>>
    BY <1>4 DEF Reconcile, ReconcileFault, RetryDue, vars
  <2>2. budget' \in Nat
    BY <1>4, HappensType DEF Reconcile, ReconcileFault, RetryDue, vars, TypeOK
  <2>3. QED
    BY <1>1, <2>1, <2>2, OutboxStutter
       DEF TypeOK, SidecarTypeOK, GatewayTypeOK, clientVars, handlerVars
<1>5. QED
  BY <1>2, <1>3, <1>4 DEF Next
-----------------------------------------------------------------------------
(* Control, answers and rows.                                                *)

\* Every step of the sidecar keeps its control state consistent.
LEMMA SyncKeepsControl ==
    ASSUME TypeOK, ControlInv, [Next]_vars
    PROVE  ControlInv'
<1> USE DEF ControlInv, TypeOK, SidecarTypeOK
<1>1. CASE UNCHANGED clientVars
  BY <1>1 DEF clientVars
<1>2. CASE \E e \in Event : Remember(e)
  BY <1>2, SyncAssumption DEF Remember
<1>3. CASE \E a \in Agent : SyncCall(a)
  BY <1>3 DEF SyncCall
<1>4. CASE Sidecar
  <2>1. CASE RememberEnqueue
    BY <2>1 DEF RememberEnqueue, EndCall
  <2>2. CASE StartPush
    BY <2>2 DEF StartPush
  <2>3. CASE Post
    BY <2>3 DEF Post
  <2>4. CASE ReceiveAnswer \/ TransportFails \/ FinishApply
    BY <2>4 DEF ReceiveAnswer, TransportFails, FinishApply
  <2>5. CASE \E e \in Event : ApplyVerdict(e)
    BY <2>5 DEF ApplyVerdict
  <2>6. CASE Pull
    BY <2>6 DEF Pull, EndCall
  <2>7. QED
    BY <1>4, <2>1, <2>2, <2>3, <2>4, <2>5, <2>6 DEF Sidecar
<1>5. CASE AnswerTruncated \/ SidecarCrash
  BY <1>5 DEF AnswerTruncated, SidecarCrash, EndCall
<1>6. QED
  BY <1>1, <1>2, <1>3, <1>4, <1>5
     DEF Next, Cleanup, Backoff, Gateway, Admit, RecordNext, FinishPush, DropAnswer, PushBusy,
         PushFatal, GatewayCrash, NewEpoch, Reconcile, ReconcileFault, RetryDue, vars

\* What settling a row does to the receipts.
LEMMA SettleReceipt ==
    ASSUME OutboxTypeOK, NEW e \in Event, NEW v \in Verdict, Settle(e, v), NEW f \in Event,
           receipt'[f] \in ResultCode
    PROVE  receipt'[f] = receipt[f] \/ (f = e /\ receipt'[f] = v)
<1> USE DEF OutboxTypeOK
<1>1. CASE v \in ResultCode \cup {"rejected"} /\ MarkTerminal(e, v)
  BY <1>1 DEF MarkTerminal
<1>2. CASE MarkRetryable(e, TRUE) \/ MarkRetryable(e, FALSE)
  BY <1>2 DEF MarkRetryable
<1>3. CASE MarkDeadLetter(e)
  BY <1>3 DEF MarkDeadLetter, ResultCode
<1>4. QED
  BY <1>1, <1>2, <1>3 DEF Settle

\* A result code in an answer of the ledger is the fixed receipt of the event.
LEMMA AnswerTrue ==
    ASSUME RecInv, NEW e \in Event, NEW n, Answer(e, n) \in ResultCode
    PROVE  fixedReceipt[e] = Answer(e, n)
BY DEF Answer, ResultCode, RecInv, RecTypeOK, LedgerTypeOK, LedgerStatus

\* Answers are true wherever they are: every code in the next state was there
\* before, in the hands of somebody, or was just read from the ledger.
LEMMA SyncKeepsAnswers ==
    ASSUME TypeOK, RecInv, ControlInv, AnswersTrue, [Next]_vars
    PROVE  AnswersTrue'
<1> SUFFICES ASSUME NEW e \in Event
             PROVE  /\ \A s \in Slot : hres'[s][e] \in ResultCode => fixedReceipt[e] = hres'[s][e]
                    /\ resp'[e] \in ResultCode => fixedReceipt[e] = resp'[e]
                    /\ receipt'[e] \in ResultCode => fixedReceipt[e] = receipt'[e]
  <2>1. \A f \in Event : fixedReceipt[f] \in ResultCode => fixedReceipt'[f] = fixedReceipt[f]
    BY ReceiptStays DEF ResultCode
  <2>2. QED
    BY <2>1 DEF AnswersTrue
<1> USE DEF TypeOK, SidecarTypeOK, GatewayTypeOK, AnswersTrue
<1>0. \A c \in {"none", "busy", "fatal", "reset", "transport", "rejected", "retryable_failed"} : c \notin ResultCode
  BY DEF ResultCode
<1>h. ASSUME UNCHANGED handlerVars
      PROVE  \A s \in Slot : hres'[s][e] \in ResultCode => fixedReceipt[e] = hres'[s][e]
  BY <1>h DEF handlerVars
<1>f. ASSUME NEW S \in SUBSET Slot, FreeSlots(S)
      PROVE  \A s \in Slot : hres'[s][e] \in ResultCode => fixedReceipt[e] = hres'[s][e]
  BY <1>f, <1>0 DEF FreeSlots, Same
<1>a. ASSUME NEW s \in Slot, NEW v \in {"busy", "fatal", "reset"}, AnswerAll(s, v)
      PROVE  \A t \in Slot : hres'[t][e] \in ResultCode => fixedReceipt[e] = hres'[t][e]
  <2>1. v \notin ResultCode /\ "none" \notin ResultCode
    BY <1>a, <1>0
  <2>2. \A t \in Slot : hres'[t][e] \in {hres[t][e], v, "none"}
    BY <1>a DEF AnswerAll
  <2>3. QED
    BY <2>1, <2>2
<1>n. ASSUME EndCall PROVE resp'[e] \notin ResultCode
  BY <1>n, <1>0 DEF EndCall, Same
<1>1. CASE UNCHANGED <<clientVars, handlerVars, receipt>>
  BY <1>1, <1>h DEF clientVars
<1>2. CASE \/ \E g \in Event : Remember(g)
           \/ \E a \in Agent : SyncCall(a)
           \/ StartPush
  BY <1>2, <1>h DEF Remember, PrepareEvent, SyncCall, StartPush, MarkInFlight, outboxVars
<1>3. CASE RememberEnqueue
  BY <1>3, <1>h, <1>n DEF RememberEnqueue, Enqueue, outboxVars
<1>4. CASE Post
  <2>1. \A s \in Slot : hres'[s][e] \in ResultCode => fixedReceipt[e] = hres'[s][e]
    <3>1. UNCHANGED hres \/ \E r \in Slot : hres' = [hres EXCEPT ![r] = Same("none")]
      BY <1>4, Zenon DEF Post
    <3>2. \A s \in Slot : hres'[s][e] \in {hres[s][e], "none"}
      BY <3>1 DEF Same
    <3>3. QED
      BY <1>0, <3>2
  <2>2. resp'[e] \in ResultCode => fixedReceipt[e] = resp'[e]
    BY <1>4, <1>0 DEF Post, Same
  <2>3. QED
    BY <1>4, <2>1, <2>2 DEF Post, outboxVars
<1>5. CASE ReceiveAnswer
  BY <1>5, <1>f DEF ReceiveAnswer, ControlInv, outboxVars
<1>6. CASE TransportFails
  BY <1>6, <1>h, <1>0 DEF TransportFails, Same, outboxVars
<1>7. ASSUME NEW g \in Event, ApplyVerdict(g)
      PROVE  /\ \A s \in Slot : hres'[s][e] \in ResultCode => fixedReceipt[e] = hres'[s][e]
             /\ resp'[e] \in ResultCode => fixedReceipt[e] = resp'[e]
             /\ receipt'[e] \in ResultCode => fixedReceipt[e] = receipt'[e]
  <2>1. receipt'[e] \in ResultCode => receipt'[e] = receipt[e] \/ (e = g /\ receipt'[e] = resp[g])
    BY <1>7, SettleReceipt DEF ApplyVerdict
  <2>2. QED
    BY <1>7, <2>1, <1>h DEF ApplyVerdict
<1>8. CASE FinishApply
  BY <1>8, <1>h, <1>0 DEF FinishApply, Same, outboxVars
<1>9. CASE Pull
  BY <1>9, <1>h, <1>n DEF Pull, outboxVars
<1>10. CASE AnswerTruncated
  BY <1>10, <1>f, <1>n DEF AnswerTruncated, ControlInv, outboxVars
<1>11. CASE SidecarCrash
  BY <1>11, <1>h, <1>n DEF SidecarCrash, Reopen
<1>12. ASSUME NEW s \in Slot, Admit(s) \/ PushBusy(s) \/ PushFatal(s) \/ DropAnswer(s) \/ FinishPush(s)
       PROVE  /\ \A t \in Slot : hres'[t][e] \in ResultCode => fixedReceipt[e] = hres'[t][e]
              /\ resp'[e] \in ResultCode => fixedReceipt[e] = resp'[e]
              /\ receipt'[e] \in ResultCode => fixedReceipt[e] = receipt'[e]
  <2>1. UNCHANGED <<outboxVars, clientVars>>
    BY <1>12 DEF Admit, PushBusy, PushFatal, DropAnswer, FinishPush
  <2>2. \/ hres' = hres
        \/ \E v \in {"busy", "fatal", "reset"} : AnswerAll(s, v)
        \/ FreeSlots({s})
    BY <1>12 DEF Admit, PushBusy, PushFatal, DropAnswer, FinishPush
  <2>3. QED
    BY <2>1, <2>2, <1>a, <1>f DEF outboxVars, clientVars
<1>13. ASSUME NEW s \in Slot, NEW g \in Event, RecordNext(s, g)
       PROVE  /\ \A t \in Slot : hres'[t][e] \in ResultCode => fixedReceipt[e] = hres'[t][e]
              /\ resp'[e] \in ResultCode => fixedReceipt[e] = resp'[e]
              /\ receipt'[e] \in ResultCode => fixedReceipt[e] = receipt'[e]
  <2>1. UNCHANGED <<outboxVars, clientVars>>
    BY <1>13 DEF RecordNext
  <2>2. PICK v \in {"rejected", "retryable_failed", Answer(g, hseq[s][g])} : hres' = [hres EXCEPT ![s][g] = v]
    BY <1>13 DEF RecordNext
  <2>3. v \in ResultCode => fixedReceipt[g] = v
    BY <2>2, <1>0, AnswerTrue
  <2>4. QED
    BY <2>1, <2>2, <2>3 DEF outboxVars, clientVars
<1>14. CASE GatewayCrash
  <2>1. FreeSlots(Slot) /\ UNCHANGED <<outboxVars, clientVars>>
    BY <1>14 DEF GatewayCrash
  <2>2. QED
    BY <2>1, <1>f DEF outboxVars, clientVars
<1>15. CASE NewEpoch
  BY <1>15 DEF NewEpoch, outboxVars, clientVars
<1>16. CASE Cleanup \/ \E g \in Event : Backoff(g)
  BY <1>16, <1>1 DEF Cleanup, CleanupAcked, Backoff, BackoffElapses
<1>17. CASE \/ \E w \in Worker : Reconcile(w) \/ ReconcileFault(w)
            \/ \E g \in Event : RetryDue(g)
            \/ UNCHANGED vars
  BY <1>17, <1>1 DEF Reconcile, ReconcileFault, RetryDue, vars, outboxVars
<1>18. QED
  BY <1>2, <1>3, <1>4, <1>5, <1>6, <1>7, <1>8, <1>9, <1>10, <1>11, <1>12, <1>13, <1>14, <1>15,
     <1>16, <1>17 DEF Next, Sidecar, Gateway

\* Operations on rows give up no accepted event without a receipt.
LEMMA SyncKeepsRows ==
    ASSUME TypeOK, ControlInv, NoSilentLoss, [Next]_vars
    PROVE  NoSilentLoss'
<1> USE DEF TypeOK, OutboxTypeOK, SidecarTypeOK, NoSilentLoss
<1>1. CASE UNCHANGED <<rowState, receipt, accepted>>
  BY <1>1
<1>2. CASE RememberEnqueue
  BY <1>2 DEF RememberEnqueue, Enqueue, ControlInv, outboxVars
<1>3. CASE StartPush
  BY <1>3 DEF StartPush, MarkInFlight
<1>4. ASSUME NEW e \in Event, ApplyVerdict(e)
      PROVE  NoSilentLoss'
  <2>1. CASE resp[e] \in ResultCode \cup {"rejected"} /\ MarkTerminal(e, resp[e])
    BY <1>4, <2>1 DEF ApplyVerdict, MarkTerminal, ResultCode
  <2>2. CASE MarkRetryable(e, TRUE) \/ MarkRetryable(e, FALSE)
    BY <1>4, <2>2 DEF ApplyVerdict, MarkRetryable
  <2>3. CASE MarkDeadLetter(e)
    BY <1>4, <2>3 DEF ApplyVerdict, MarkDeadLetter
  <2>4. QED
    BY <1>4, <2>1, <2>2, <2>3 DEF ApplyVerdict, Settle
<1>5. CASE Cleanup
  BY <1>5 DEF Cleanup, CleanupAcked, clientVars
<1>6. CASE SidecarCrash
  BY <1>6 DEF SidecarCrash, Reopen
<1>7. QED
  BY <1>1, <1>2, <1>3, <1>4, <1>5, <1>6
     DEF Next, Remember, PrepareEvent, Backoff, BackoffElapses, RetryDue, SyncCall, Sidecar, Post,
         ReceiveAnswer, TransportFails, FinishApply, Pull, AnswerTruncated, Gateway, Admit,
         RecordNext, FinishPush, DropAnswer, PushBusy, PushFatal, GatewayCrash, NewEpoch,
         Reconcile, ReconcileFault, vars, clientVars, outboxVars

\* A recorded event stays recorded, with its number.
LEMMA RecordedStays ==
    ASSUME RecInv, [Next]_vars, NEW e \in Recorded
    PROVE  e \in Recorded' /\ ledgerSeq'[e] = ledgerSeq[e]
<1> USE DEF Recorded, RecInv, RecTypeOK, LedgerTypeOK
<1>1. CASE Elsewhere
  BY <1>1, ElsewhereLeaves DEF ledgerVars
<1>2. CASE \E s \in Slot, f \in Event : RecordNext(s, f)
  BY <1>2 DEF RecordNext, RecordProposedEvent, ledgerVars
<1>3. CASE \E s \in Slot : FinishPush(s)
  BY <1>3 DEF FinishPush, AdvanceContiguous
<1>4. ASSUME NEW w \in Worker, Reconcile(w) \/ ReconcileFault(w)
      PROVE  e \in Recorded' /\ ledgerSeq'[e] = ledgerSeq[e]
  <2>1. UNCHANGED ledgerSeq
    BY <1>4 DEF Reconcile, ReconcileFault, WorkerStep, WorkerTake, CompleteSourceDuplicate,
                CreateReviewCandidate, Upsert, CommitApplied, MarkEventDeadLetter, UpsertFails,
                UpsertAnswerLost, WorkerCrash, Applied, MarkEventRetryable, ledgerVars
  <2>2. \/ UNCHANGED status
        \/ \E st \in {"applied", "retryable_failed", "dead_letter"} :
              status' = [status EXCEPT ![lock[w]] = st]
    BY <1>4 DEF Reconcile, ReconcileFault, WorkerStep, WorkerTake, CompleteSourceDuplicate,
                CreateReviewCandidate, Upsert, CommitApplied, MarkEventDeadLetter, UpsertFails,
                UpsertAnswerLost, WorkerCrash, Applied, MarkEventRetryable, ledgerVars
  <2>3. QED
    BY <2>1, <2>2
<1>5. CASE \E f \in Event : RetryDue(f)
  BY <1>5 DEF RetryDue, RetryElapses, ledgerVars
<1>6. CASE UNCHANGED vars
  BY <1>6 DEF vars, ledgerVars
<1>7. QED
  BY <1>1, <1>2, <1>3, <1>4, <1>5, <1>6, NextCases

\* Only _advance_contiguous_sequence moves the contiguous number, and it moves
\* it over received numbers only.
LEMMA SyncKeepsPrefix ==
    ASSUME RecInv, ContiguousPrefix, [Next]_vars
    PROVE  ContiguousPrefix'
<1>1. \A k : Received(k) => Received(k)'
  BY RecordedStays DEF Received
<1>2. CASE contiguous' = contiguous
  BY <1>1, <1>2 DEF ContiguousPrefix
<1>3. CASE \E s \in Slot : FinishPush(s)
  <2>1. /\ \A k \in (contiguous + 1) .. contiguous' : Received(k)
        /\ contiguous \in Nat /\ contiguous' \in Nat
    BY <1>3 DEF FinishPush, AdvanceContiguous, RecInv, RecTypeOK, LedgerTypeOK, Recorded
  <2>2. \A k \in 1 .. contiguous' : k \in 1 .. contiguous \/ k \in (contiguous + 1) .. contiguous'
    BY <2>1
  <2>3. QED
    BY <1>1, <2>1, <2>2 DEF ContiguousPrefix
<1>4. CASE Elsewhere
  BY <1>4, <1>2, ElsewhereLeaves DEF ledgerVars
<1>5. CASE \E w \in Worker : Reconcile(w) \/ ReconcileFault(w)
  BY <1>5, <1>2 DEF Reconcile, ReconcileFault, WorkerStep, WorkerTake, CompleteSourceDuplicate,
        CreateReviewCandidate, Upsert, CommitApplied, MarkEventDeadLetter, UpsertFails,
        UpsertAnswerLost, WorkerCrash, Applied, MarkEventRetryable, ledgerVars
<1>6. CASE \/ \E s \in Slot, e \in Event : RecordNext(s, e)
           \/ \E e \in Event : RetryDue(e)
           \/ UNCHANGED vars
  BY <1>6, <1>2 DEF RecordNext, RecordProposedEvent, RetryDue, RetryElapses, vars, ledgerVars
<1>7. QED
  BY <1>3, <1>4, <1>5, <1>6, NextCases
-----------------------------------------------------------------------------
\* The initial state satisfies the invariant.
LEMMA SyncInitInv == Init => SyncInv
<1> SUFFICES ASSUME Init PROVE SyncInv
  OBVIOUS
<1> USE DEF Init
<1>1. RecInv
  BY RecInitInv
<1>2. OutboxTypeOK
  BY DEF OutboxInit, OutboxTypeOK, RowState, LocalReceipt
<1>3. SidecarTypeOK
  BY DEF SidecarTypeOK, Same, Verdict
<1>4. GatewayTypeOK
  BY DEF GatewayTypeOK, Same, Verdict
<1>5. budget \in Nat
  BY SyncAssumption
<1>6. ControlInv
  BY DEF ControlInv
<1>7. AnswersTrue
  BY DEF AnswersTrue, Same, OutboxInit, ResultCode
<1>8. NoSilentLoss
  BY DEF NoSilentLoss
<1>9. ContiguousPrefix
  BY DEF ContiguousPrefix, LedgerInit
<1>10. QED
  BY <1>1, <1>2, <1>3, <1>4, <1>5, <1>6, <1>7, <1>8, <1>9 DEF SyncInv, TypeOK, RecInv

\* SyncInv is an invariant of the composition of sidecar, gateway and workers.
THEOREM SyncInvariant == Spec => []SyncInv
<1>1. SyncInv /\ [Next]_vars => SyncInv'
  BY SyncKeepsRec, SyncKeepsTypes, SyncKeepsControl, SyncKeepsAnswers, SyncKeepsRows,
     SyncKeepsPrefix DEF SyncInv
<1>2. QED
  BY <1>1, SyncInitInv, PTL DEF Spec

\* Type correctness of the composition.
THEOREM TypeCorrect == Spec => []TypeOK
<1>1. SyncInv => TypeOK
  BY DEF SyncInv
<1>2. QED
  BY <1>1, SyncInvariant, PTL

\* What the device was told is true: a receipt "stored", "in review" or
\* "already known" is the ledger's own fixed receipt, for any number of slots,
\* late threads, lost answers, retries and crashes (mark_terminal,
\* record_proposed_event).
THEOREM ConfirmationsAreTrue == Spec => []ConfirmedMeansApplied
<1>1. SyncInv => ConfirmedMeansApplied
  BY DEF SyncInv, AnswersTrue, ConfirmedMeansApplied, RecInv, EffectInv, ResultCode
<1>2. QED
  BY <1>1, SyncInvariant, PTL

\* One fact or candidate per event holds in the composition as well, where
\* pushes repeat and overlap (reconcile_once, upsert_confirmed).
THEOREM ExactlyOnceEndToEnd == Spec => []ExactlyOnceEffect
<1>1. SyncInv => ExactlyOnceEffect
  BY InvGivesEffects DEF SyncInv
<1>2. QED
  BY <1>1, SyncInvariant, PTL

\* No accepted write leaves the outbox without a receipt (enqueue,
\* mark_terminal, mark_dead_letter, cleanup_acked, _init_schema).
THEOREM NothingLostSilently == Spec => []NoSilentLoss
<1>1. SyncInv => NoSilentLoss
  BY DEF SyncInv
<1>2. QED
  BY <1>1, SyncInvariant, PTL

\* The contiguous sequence claims received numbers only
\* (_advance_contiguous_sequence).
THEOREM PrefixIsReceived == Spec => []ContiguousPrefix
<1>1. SyncInv => ContiguousPrefix
  BY DEF SyncInv
<1>2. QED
  BY <1>1, SyncInvariant, PTL

-----------------------------------------------------------------------------
(* The rows of the outbox and their numbers: a row that a push works on is  *)
(* in flight, so a final row never changes again; and a number belongs to   *)
(* one event wherever it is.                                                *)

\* Actions that leave the rows of the outbox alone.
RowsAside ==
    \/ \E e \in Event : RetryDue(e)
    \/ \E a \in Agent : SyncCall(a)
    \/ Post \/ ReceiveAnswer \/ TransportFails \/ FinishApply \/ Pull \/ AnswerTruncated
    \/ \E s \in Slot : Gateway(s) \/ PushBusy(s) \/ PushFatal(s)
    \/ GatewayCrash \/ NewEpoch
    \/ \E w \in Worker : Reconcile(w) \/ ReconcileFault(w)
    \/ UNCHANGED vars

\* They do leave them alone.
LEMMA RowsAsideLeave == ASSUME RowsAside PROVE UNCHANGED outboxVars
BY DEF RowsAside, RetryDue, SyncCall, Post, ReceiveAnswer, TransportFails, FinishApply, Pull,
       AnswerTruncated, Gateway, Admit, RecordNext, FinishPush, DropAnswer, PushBusy, PushFatal,
       GatewayCrash, NewEpoch, Reconcile, ReconcileFault, vars

\* Every step is one of these or an operation on the outbox.
LEMMA RowCases ==
    ASSUME [Next]_vars
    PROVE  \/ RowsAside
           \/ \E e \in Event : Remember(e) \/ Backoff(e) \/ ApplyVerdict(e)
           \/ RememberEnqueue \/ StartPush \/ Cleanup \/ SidecarCrash
BY DEF Next, Sidecar, RowsAside

\* A settled row was in flight and is so no longer; the other rows stay.
LEMMA SettleRow ==
    ASSUME OutboxTypeOK, NEW e \in Event, NEW v, Settle(e, v), rowState[e] = "in_flight"
    PROVE  /\ rowState'[e] \in {"acked", "retryable_failed", "dead_letter"}
           /\ \A f \in Event \ {e} : rowState'[f] = rowState[f]
           /\ UNCHANGED <<deviceSeq, rowSeq>>
BY DEF Settle, MarkTerminal, MarkRetryable, MarkDeadLetter, OutboxTypeOK

\* The rows of the current push stay in flight until they are settled.
LEMMA TodoKeeps ==
    ASSUME TypeOK, TodoInv, [Next]_vars
    PROVE  TodoInv'
<1> USE DEF TypeOK, OutboxTypeOK, SidecarTypeOK, TodoInv
<1>1. CASE RowsAside
  <2>1. UNCHANGED rowState
    BY <1>1, RowsAsideLeave DEF outboxVars
  <2>2. \/ todo' = {}
        \/ /\ todo' = todo
           /\ pc' \notin {"post", "wait", "apply"} => pc' = pc \/ pc \notin {"post", "wait", "apply"}
    BY <1>1 DEF RowsAside, RetryDue, SyncCall, Post, ReceiveAnswer, TransportFails, FinishApply,
                Pull, EndCall, AnswerTruncated, Gateway, Admit, RecordNext, FinishPush, DropAnswer,
                PushBusy, PushFatal, GatewayCrash, NewEpoch, Reconcile, ReconcileFault, vars,
                clientVars
  <2>3. QED
    BY <2>1, <2>2
<1>2. CASE \E e \in Event : Remember(e) \/ Backoff(e)
  BY <1>2 DEF Remember, PrepareEvent, Backoff, BackoffElapses, clientVars
<1>3. ASSUME NEW e \in Event, ApplyVerdict(e)
      PROVE  TodoInv'
  <2>1. /\ e \in todo /\ todo' = todo \ {e} /\ pc' = "apply"
        /\ \A f \in Event \ {e} : rowState'[f] = rowState[f]
    BY <1>3, SettleRow DEF ApplyVerdict
  <2>2. QED
    BY <2>1
<1>4. CASE RememberEnqueue
  BY <1>4 DEF RememberEnqueue, EndCall
<1>5. CASE StartPush
  <2>1. \A e \in FirstBatch : rowState[e] \in {"pending", "retryable_failed"}
    BY DEF FirstBatch, Sendable
  <2>2. FirstBatch \subseteq Event
    BY DEF FirstBatch, Sendable
  <2>3. QED
    BY <1>5, <2>1, <2>2 DEF StartPush, MarkInFlight
<1>6. CASE Cleanup
  BY <1>6 DEF Cleanup, CleanupAcked, clientVars
<1>7. CASE SidecarCrash
  BY <1>7 DEF SidecarCrash, EndCall
<1>8. QED
  BY <1>1, <1>2, <1>3, <1>4, <1>5, <1>6, <1>7, RowCases

\* Final rows stay final in every step.
LEMMA FinalStep ==
    ASSUME TypeOK, TodoInv, [Next]_vars, NEW e \in Event
    PROVE  /\ rowState[e] = "acked" => rowState'[e] \in {"acked", "none"}
           /\ rowState[e] = "dead_letter" => rowState'[e] = "dead_letter"
<1> USE DEF TypeOK, OutboxTypeOK, SidecarTypeOK, TodoInv
<1>1. CASE RowsAside
  BY <1>1, RowsAsideLeave DEF outboxVars
<1>2. CASE \E f \in Event : Remember(f) \/ Backoff(f)
  BY <1>2 DEF Remember, PrepareEvent, Backoff, BackoffElapses
<1>3. ASSUME NEW f \in Event, ApplyVerdict(f)
      PROVE  rowState[e] \in {"acked", "dead_letter"} => rowState'[e] = rowState[e]
  <2>1. rowState[f] = "in_flight"
    BY <1>3 DEF ApplyVerdict
  <2>2. \A g \in Event \ {f} : rowState'[g] = rowState[g]
    BY <1>3, <2>1, SettleRow DEF ApplyVerdict
  <2>3. QED
    BY <2>1, <2>2
<1>4. CASE RememberEnqueue
  BY <1>4 DEF RememberEnqueue, Enqueue, CanEnqueue, outboxVars
<1>5. CASE StartPush
  BY <1>5 DEF StartPush, MarkInFlight
<1>6. CASE Cleanup
  BY <1>6 DEF Cleanup, CleanupAcked
<1>7. CASE SidecarCrash
  BY <1>7 DEF SidecarCrash, Reopen
<1>8. QED
  BY <1>1, <1>2, <1>3, <1>4, <1>5, <1>6, <1>7, RowCases
-----------------------------------------------------------------------------
(* Numbers.                                                                  *)

\* The counter moves by one, and only when an event is prepared.
LEMMA CounterMoves ==
    ASSUME TypeOK, [Next]_vars
    PROVE  \/ deviceSeq' = deviceSeq + 1
           \/ deviceSeq' = deviceSeq /\ (pc' = "prepared" => pc = "prepared")
<1>1. CASE RowsAside
  <2>1. UNCHANGED deviceSeq
    BY <1>1, RowsAsideLeave DEF outboxVars
  <2>2. pc' = "prepared" => pc = "prepared"
    BY <1>1 DEF RowsAside, RetryDue, SyncCall, Post, ReceiveAnswer, TransportFails, FinishApply,
                Pull, EndCall, AnswerTruncated, Gateway, Admit, RecordNext, FinishPush, DropAnswer,
                PushBusy, PushFatal, GatewayCrash, NewEpoch, Reconcile, ReconcileFault, vars,
                clientVars
  <2>3. QED
    BY <2>1, <2>2
<1>2. CASE \E e \in Event : Remember(e)
  BY <1>2 DEF Remember, PrepareEvent
<1>3. CASE \E e \in Event : Backoff(e)
  BY <1>3 DEF Backoff, BackoffElapses, clientVars
<1>4. CASE \E e \in Event : ApplyVerdict(e)
  BY <1>4 DEF ApplyVerdict, Settle, MarkTerminal, MarkRetryable, MarkDeadLetter
<1>5. CASE RememberEnqueue \/ StartPush \/ Cleanup \/ SidecarCrash
  BY <1>5 DEF RememberEnqueue, Enqueue, EndCall, StartPush, MarkInFlight, Cleanup, CleanupAcked,
              SidecarCrash, Reopen, clientVars, outboxVars
<1>6. QED
  BY <1>1, <1>2, <1>3, <1>4, <1>5, RowCases

\* A row keeps its number as long as it exists; a new row has the number that
\* was prepared for it.
LEMMA RowNumber ==
    ASSUME TypeOK, [Next]_vars, NEW e \in Event
    PROVE  \/ rowSeq'[e] = rowSeq[e] /\ (rowState'[e] # "none" => rowState[e] # "none")
           \/ rowSeq'[e] = 0 /\ rowState'[e] = "none"
           \/ /\ pc = "prepared" /\ pc' = "sync" /\ e = prepared
              /\ rowSeq'[e] = deviceSeq /\ deviceSeq' = deviceSeq
<1> USE DEF TypeOK, OutboxTypeOK
<1>1. CASE RowsAside
  BY <1>1, RowsAsideLeave DEF outboxVars
<1>2. CASE \E f \in Event : Remember(f) \/ Backoff(f)
  BY <1>2 DEF Remember, PrepareEvent, Backoff, BackoffElapses
<1>3. ASSUME NEW f \in Event, ApplyVerdict(f)
      PROVE  rowSeq'[e] = rowSeq[e] /\ (rowState'[e] # "none" => rowState[e] # "none")
  BY <1>3 DEF ApplyVerdict, Settle, MarkTerminal, MarkRetryable, MarkDeadLetter
<1>4. CASE RememberEnqueue
  BY <1>4 DEF RememberEnqueue, Enqueue, outboxVars
<1>5. CASE StartPush
  BY <1>5 DEF StartPush, MarkInFlight
<1>6. CASE Cleanup
  BY <1>6 DEF Cleanup, CleanupAcked
<1>7. CASE SidecarCrash
  BY <1>7 DEF SidecarCrash, Reopen
<1>8. QED
  BY <1>1, <1>2, <1>3, <1>4, <1>5, <1>6, <1>7, RowCases

\* A recorded event has the number it was recorded with, which is the number of
\* the request.
LEMMA LedgerNumber ==
    ASSUME TypeOK, RecInv, [Next]_vars, NEW e \in Event
    PROVE  \/ ledgerSeq'[e] = ledgerSeq[e] /\ (e \in Recorded' => e \in Recorded)
           \/ \E s \in Slot : e \in htodo[s] /\ ledgerSeq'[e] = hseq[s][e]
<1> USE DEF Recorded, RecInv, RecTypeOK, LedgerTypeOK
<1>1. CASE Elsewhere
  BY <1>1, ElsewhereLeaves DEF ledgerVars
<1>2. ASSUME NEW s \in Slot, NEW f \in Event, RecordNext(s, f)
      PROVE  \/ ledgerSeq'[e] = ledgerSeq[e] /\ (e \in Recorded' => e \in Recorded)
             \/ \E r \in Slot : e \in htodo[r] /\ ledgerSeq'[e] = hseq[r][e]
  BY <1>2 DEF RecordNext, RecordProposedEvent, ledgerVars
<1>3. CASE \E s \in Slot : FinishPush(s)
  BY <1>3 DEF FinishPush, AdvanceContiguous
<1>4. ASSUME NEW w \in Worker, Reconcile(w) \/ ReconcileFault(w)
      PROVE  ledgerSeq'[e] = ledgerSeq[e] /\ (e \in Recorded' => e \in Recorded)
  <2>1. UNCHANGED ledgerSeq
    BY <1>4 DEF Reconcile, ReconcileFault, WorkerStep, WorkerTake, CompleteSourceDuplicate,
                CreateReviewCandidate, Upsert, CommitApplied, MarkEventDeadLetter, UpsertFails,
                UpsertAnswerLost, WorkerCrash, Applied, MarkEventRetryable, ledgerVars
  <2>2. \/ UNCHANGED status
        \/ stage[w] # "idle" /\ \E st : status' = [status EXCEPT ![lock[w]] = st]
    BY <1>4 DEF Reconcile, ReconcileFault, WorkerStep, WorkerTake, CompleteSourceDuplicate,
                CreateReviewCandidate, Upsert, CommitApplied, MarkEventDeadLetter, UpsertFails,
                UpsertAnswerLost, WorkerCrash, Applied, MarkEventRetryable, ledgerVars
  <2>3. stage[w] # "idle" => status[lock[w]] \in {"pending", "retryable_failed"}
    BY DEF LockInv, OneWorkerPerEvent
  <2>4. QED
    BY <2>1, <2>2, <2>3
<1>5. CASE \E f \in Event : RetryDue(f)
  BY <1>5 DEF RetryDue, RetryElapses, ledgerVars
<1>6. CASE UNCHANGED vars
  BY <1>6 DEF vars, ledgerVars
<1>7. QED
  BY <1>1, <1>2, <1>3, <1>4, <1>5, <1>6, NextCases

\* A request carries the numbers of the rows it was made from.
LEMMA RequestNumber ==
    ASSUME TypeOK, [Next]_vars, NEW s \in Slot, NEW e \in Event
    PROVE  \/ hseq'[s][e] = hseq[s][e] /\ (e \in htodo'[s] => e \in htodo[s])
           \/ hseq'[s][e] = 0 /\ e \notin htodo'[s]
           \/ hseq'[s][e] = rowSeq[e] /\ e \in todo
<1> USE DEF TypeOK, GatewayTypeOK
<1>1. CASE UNCHANGED <<hseq, htodo>>
  BY <1>1
<1>2. CASE Post
  <2>1. CASE UNCHANGED <<hseq, htodo>>
    BY <2>1
  <2>2. ASSUME NEW r \in Slot,
               hseq' = [hseq EXCEPT ![r] = [f \in Event |-> IF f \in todo THEN rowSeq[f] ELSE 0]],
               htodo' = [htodo EXCEPT ![r] = todo]
        PROVE  \/ hseq'[s][e] = hseq[s][e] /\ (e \in htodo'[s] => e \in htodo[s])
               \/ hseq'[s][e] = 0 /\ e \notin htodo'[s]
               \/ hseq'[s][e] = rowSeq[e] /\ e \in todo
    <3>1. CASE r = s
      BY <2>2, <3>1
    <3>2. CASE r # s
      BY <2>2, <3>2
    <3>3. QED
      BY <3>1, <3>2
  <2>3. \/ UNCHANGED <<hseq, htodo>>
        \/ \E r \in Slot :
             /\ hseq' = [hseq EXCEPT ![r] = [f \in Event |-> IF f \in todo THEN rowSeq[f] ELSE 0]]
             /\ htodo' = [htodo EXCEPT ![r] = todo]
    BY <1>2, Zenon DEF Post
  <2>4. QED
    BY <2>1, <2>2, <2>3
<1>3. ASSUME NEW S, FreeSlots(S)
      PROVE  \/ hseq'[s][e] = hseq[s][e] /\ (e \in htodo'[s] => e \in htodo[s])
             \/ hseq'[s][e] = 0 /\ e \notin htodo'[s]
  BY <1>3 DEF FreeSlots, Same
<1>4. CASE ReceiveAnswer \/ AnswerTruncated \/ GatewayCrash \/ \E r \in Slot : DropAnswer(r)
  BY <1>3, <1>4 DEF ReceiveAnswer, AnswerTruncated, GatewayCrash, DropAnswer
<1>5. ASSUME NEW r \in Slot, Admit(r) \/ PushBusy(r) \/ PushFatal(r) \/ \E f \in Event : RecordNext(r, f)
      PROVE  hseq'[s][e] = hseq[s][e] /\ (e \in htodo'[s] => e \in htodo[s])
  BY <1>5 DEF Admit, PushBusy, PushFatal, AnswerAll, RecordNext
<1>6. QED
  BY <1>1, <1>2, <1>4, <1>5
     DEF Next, Remember, Backoff, RetryDue, SyncCall, Sidecar, RememberEnqueue, StartPush,
         TransportFails, ApplyVerdict, FinishApply, Pull, Cleanup, SidecarCrash, Gateway,
         FinishPush, NewEpoch, Reconcile, ReconcileFault, vars, handlerVars

\* Rows, requests and recorded events keep having numbers.
LEMMA HasNumberKeeps ==
    ASSUME TypeOK, RecInv, ControlInv, TodoInv, HasNumber, [Next]_vars
    PROVE  HasNumber'
<1> USE DEF HasNumber
<1>1. deviceSeq \in Nat
  BY DEF TypeOK, OutboxTypeOK
<1>2. pc' = "prepared" => deviceSeq' # 0
  BY <1>1, CounterMoves
<1>3. \A e \in Event : rowState'[e] # "none" => rowSeq'[e] # 0
  BY RowNumber
<1>4. \A e \in Recorded' : ledgerSeq'[e] # 0
  BY LedgerNumber DEF Recorded
<1>5. ASSUME NEW s \in Slot, NEW e \in htodo'[s]
      PROVE  hseq'[s][e] # 0
  <2>1. e \in Event
    BY SyncKeepsTypes, <1>5 DEF TypeOK, GatewayTypeOK
  <2>2. e \in todo => rowSeq[e] # 0
    BY <2>1 DEF TodoInv
  <2>3. QED
    BY <1>5, <2>1, <2>2, RequestNumber
<1>6. QED
  BY <1>2, <1>3, <1>4, <1>5

\* Where the number of an event comes from: it had it before, or its row has
\* just been made with the number that was prepared.
LEMMA NumberedBefore ==
    ASSUME TypeOK, RecInv, [Next]_vars, NEW e \in Event, NEW n \in Nat \ {0}, Numbered(e, n)'
    PROVE  \/ Numbered(e, n)
           \/ pc = "prepared" /\ pc' = "sync" /\ e = prepared /\ n = deviceSeq /\ deviceSeq' = deviceSeq
<1>1. CASE rowSeq'[e] = n
  BY <1>1, RowNumber DEF Numbered
<1>2. CASE ledgerSeq'[e] = n
  BY <1>2, LedgerNumber DEF Numbered
<1>3. ASSUME NEW s \in Slot, hseq'[s][e] = n
      PROVE  Numbered(e, n)
  BY <1>3, RequestNumber DEF Numbered
<1>4. QED
  BY <1>1, <1>2, <1>3 DEF Numbered

\* A number keeps its one owner.
LEMMA NumberOwnedKeeps ==
    ASSUME TypeOK, RecInv, NumberOwned, [Next]_vars
    PROVE  NumberOwned'
<1>1. deviceSeq \in Nat
  BY DEF TypeOK, OutboxTypeOK
<1>2. SUFFICES ASSUME NEW e \in Event, NEW n \in Nat \ {0}, Numbered(e, n)'
               PROVE  /\ n <= deviceSeq'
                      /\ pc' = "prepared" => n # deviceSeq'
                      /\ \A f \in Event : Numbered(f, n)' => f = e
  BY DEF NumberOwned
<1>3. CASE Numbered(e, n)
  <2>1. /\ n <= deviceSeq
        /\ pc = "prepared" => n # deviceSeq
        /\ \A f \in Event : Numbered(f, n) => f = e
    BY <1>3 DEF NumberOwned
  <2>2. n <= deviceSeq' /\ (pc' = "prepared" => n # deviceSeq')
    BY <1>1, <2>1, CounterMoves
  <2>3. \A f \in Event : Numbered(f, n)' => f = e
    BY <2>1, NumberedBefore
  <2>4. QED
    BY <2>2, <2>3
<1>4. CASE pc = "prepared" /\ pc' = "sync" /\ e = prepared /\ n = deviceSeq /\ deviceSeq' = deviceSeq
  <2>1. \A f \in Event : ~Numbered(f, n)
    BY <1>4 DEF NumberOwned
  <2>2. \A f \in Event : Numbered(f, n)' => f = e
    BY <1>4, <2>1, NumberedBefore
  <2>3. QED
    BY <1>1, <1>4, <2>2
<1>5. QED
  BY <1>2, <1>3, <1>4, NumberedBefore
-----------------------------------------------------------------------------
\* RowsInv is an invariant of the composition.
THEOREM RowsInvariant == Spec => []RowsInv
<1>1. Init => RowsInv
  BY DEF Init, OutboxInit, LedgerInit, Same, RowsInv, TodoInv, HasNumber, NumberOwned, Numbered,
         Recorded
<1>2. SyncInv /\ RowsInv /\ [Next]_vars => RowsInv'
  BY TodoKeeps, HasNumberKeeps, NumberOwnedKeeps DEF RowsInv, SyncInv
<1>3. QED
  BY <1>1, <1>2, SyncInvariant, PTL DEF Spec

\* A sequence number identifies one recorded event, whatever crashes fall
\* between prepare_event and enqueue and however late a request is recorded.
THEOREM NumbersAreUnique == Spec => []DeviceSeqUnique
<1>1. SyncInv /\ RowsInv => DeviceSeqUnique
  <2> SUFFICES ASSUME SyncInv, RowsInv, NEW e \in Recorded, NEW f \in Recorded,
                      ledgerSeq[e] = ledgerSeq[f]
               PROVE  e = f
    BY DEF DeviceSeqUnique
  <2>1. e \in Event /\ f \in Event
    BY DEF Recorded
  <2>2. ledgerSeq[e] \in Nat \ {0}
    BY <2>1 DEF SyncInv, RecInv, RecTypeOK, LedgerTypeOK, RowsInv, HasNumber
  <2>3. Numbered(e, ledgerSeq[e]) /\ Numbered(f, ledgerSeq[e])
    BY DEF Numbered
  <2>4. QED
    BY <2>1, <2>2, <2>3 DEF RowsInv, NumberOwned
<1>2. QED
  BY <1>1, SyncInvariant, RowsInvariant, PTL

\* A row with a final answer is never sent again, although mark_retryable and
\* mark_terminal do not look at the state they overwrite.
THEOREM FinalIsFinal == Spec => FinalRowsStay
<1>1. SyncInv /\ RowsInv /\ [Next]_vars =>
        [\A e \in Event :
            /\ rowState[e] = "acked" => rowState'[e] \in {"acked", "none"}
            /\ rowState[e] = "dead_letter" => rowState'[e] = "dead_letter"]_rowState
  BY FinalStep DEF SyncInv, RowsInv
<1>2. QED
  BY <1>1, SyncInvariant, RowsInvariant, PTL DEF Spec, FinalRowsStay
-----------------------------------------------------------------------------
(* Refusals and dead letters.                                                *)

\* Where a verdict in a handler's answer comes from.
LEMMA HandlerVerdict ==
    ASSUME TypeOK, [Next]_vars, NEW s \in Slot, NEW e \in Event
    PROVE  \/ hres'[s][e] \in {hres[s][e], "none", "busy", "reset", "retryable_failed"}
           \/ hres'[s][e] \in {"fatal", "rejected"} /\ e \in denied'
           \/ hres'[s][e] = Answer(e, hseq[s][e]) /\ e \in htodo[s]
<1> DEFINE Goal == \/ hres'[s][e] \in {hres[s][e], "none", "busy", "reset", "retryable_failed"}
                   \/ hres'[s][e] \in {"fatal", "rejected"} /\ e \in denied'
                   \/ hres'[s][e] = Answer(e, hseq[s][e]) /\ e \in htodo[s]
<1> USE DEF TypeOK, GatewayTypeOK
<1>1. CASE UNCHANGED hres
  BY <1>1
<1>2. CASE Post
  BY <1>2 DEF Post, Same
<1>3. ASSUME NEW S, FreeSlots(S) PROVE Goal
  BY <1>3 DEF FreeSlots, Same
<1>4. CASE ReceiveAnswer \/ AnswerTruncated \/ GatewayCrash \/ \E r \in Slot : DropAnswer(r)
  BY <1>3, <1>4 DEF ReceiveAnswer, AnswerTruncated, GatewayCrash, DropAnswer
<1>5. ASSUME NEW r \in Slot, NEW v, AnswerAll(r, v)
      PROVE  hres'[s][e] \in {hres[s][e], "none"} \/ (hres'[s][e] = v /\ r = s /\ e \in Batch(r))
  BY <1>5 DEF AnswerAll
<1>6. ASSUME NEW r \in Slot, Admit(r) \/ PushBusy(r) \/ PushFatal(r) PROVE Goal
  <2>1. \/ UNCHANGED hres \/ AnswerAll(r, "reset") \/ AnswerAll(r, "busy")
        \/ AnswerAll(r, "fatal") /\ denied' = denied \cup Batch(r)
    BY <1>6 DEF Admit, PushBusy, PushFatal
  <2>2. QED
    BY <2>1, <1>1, <1>5
<1>7. ASSUME NEW r \in Slot, NEW f \in Event, RecordNext(r, f) PROVE Goal
  <2>1. PICK v : /\ hres' = [hres EXCEPT ![r][f] = v] /\ f \in htodo[r]
                 /\ \/ v = "rejected" /\ f \in denied'
                    \/ v = Answer(f, hseq[r][f])
                    \/ v = "retryable_failed"
    BY <1>7 DEF RecordNext
  <2>2. CASE r = s /\ f = e
    <3>1. hres'[s][e] = v
      BY <2>1, <2>2
    <3>2. QED
      BY <2>1, <2>2, <3>1
  <2>3. CASE ~(r = s /\ f = e)
    <3>1. hres'[s][e] = hres[s][e]
      BY <2>1, <2>3
    <3>2. QED
      BY <3>1
  <2>4. QED
    BY <2>2, <2>3
<1>8. QED
  BY <1>1, <1>2, <1>4, <1>6, <1>7
     DEF Next, Remember, Backoff, RetryDue, SyncCall, Sidecar, RememberEnqueue, StartPush,
         TransportFails, ApplyVerdict, FinishApply, Pull, Cleanup, SidecarCrash, Gateway,
         FinishPush, NewEpoch, Reconcile, ReconcileFault, vars, handlerVars

\* Where a verdict in the sidecar's hands comes from.
LEMMA SidecarVerdict ==
    ASSUME TypeOK, ControlInv, [Next]_vars, NEW e \in Event
    PROVE  resp'[e] \in {resp[e], "none", "busy", "transport"} \/ \E s \in Slot : resp'[e] = hres[s][e]
<1>1. CASE UNCHANGED resp
  BY <1>1
<1>2. CASE EndCall
  BY <1>2 DEF EndCall, Same
<1>3. CASE Post \/ TransportFails \/ FinishApply
  BY <1>3 DEF Post, TransportFails, FinishApply, Same
<1>4. CASE ReceiveAnswer
  BY <1>4 DEF ReceiveAnswer, ControlInv
<1>5. QED
  BY <1>1, <1>2, <1>3, <1>4
     DEF Next, Remember, Backoff, RetryDue, SyncCall, Sidecar, RememberEnqueue, StartPush,
         AnswerTruncated, ApplyVerdict, Pull, Cleanup, SidecarCrash, Gateway, Admit, RecordNext, FinishPush,
         DropAnswer, PushBusy, PushFatal, GatewayCrash, NewEpoch, Reconcile, ReconcileFault, vars, clientVars

\* What becomes of a row and its receipt follows from the verdict.
LEMMA SettledRow ==
    ASSUME TypeOK, [Next]_vars, NEW e \in Event
    PROVE  \/ receipt'[e] = receipt[e] /\ (rowState'[e] = "dead_letter" => rowState[e] = "dead_letter")
           \/ receipt'[e] = resp[e] /\ rowState'[e] # "dead_letter"
           \/ resp[e] \in {"dead_letter", "fatal"}
<1> USE DEF TypeOK, OutboxTypeOK
<1>1. CASE RowsAside
  BY <1>1, RowsAsideLeave DEF outboxVars
<1>2. CASE \E f \in Event : Remember(f) \/ Backoff(f)
  BY <1>2 DEF Remember, PrepareEvent, Backoff, BackoffElapses
<1>3. ASSUME NEW f \in Event, ApplyVerdict(f)
      PROVE  \/ receipt'[e] = receipt[e] /\ (rowState'[e] = "dead_letter" => rowState[e] = "dead_letter")
             \/ receipt'[e] = resp[e] /\ rowState'[e] # "dead_letter"
             \/ resp[e] \in {"dead_letter", "fatal"}
  <2>1. CASE MarkTerminal(f, resp[f])
    BY <2>1 DEF MarkTerminal
  <2>2. CASE MarkRetryable(f, TRUE) \/ MarkRetryable(f, FALSE)
    BY <2>2 DEF MarkRetryable
  <2>3. CASE resp[f] \in {"dead_letter", "fatal"} /\ MarkDeadLetter(f)
    BY <2>3 DEF MarkDeadLetter
  <2>4. QED
    BY <1>3, <2>1, <2>2, <2>3 DEF ApplyVerdict, Settle
<1>4. CASE RememberEnqueue
  BY <1>4 DEF RememberEnqueue, Enqueue, outboxVars
<1>5. CASE StartPush
  BY <1>5 DEF StartPush, MarkInFlight
<1>6. CASE Cleanup
  BY <1>6 DEF Cleanup, CleanupAcked
<1>7. CASE SidecarCrash
  BY <1>7 DEF SidecarCrash, Reopen
<1>8. QED
  BY <1>1, <1>2, <1>3, <1>4, <1>5, <1>6, <1>7, RowCases

\* An event that the ledger has given up stays given up.
LEMMA GivenUpStays ==
    ASSUME RecInv, [Next]_vars, NEW e \in Event, status[e] = "dead_letter"
    PROVE  status'[e] = "dead_letter"
<1>1. CASE Elsewhere
  BY <1>1, ElsewhereLeaves DEF ledgerVars
<1>2. CASE \E s \in Slot, f \in Event : RecordNext(s, f)
  BY <1>2 DEF RecordNext, RecordProposedEvent, ledgerVars, RecInv, RecTypeOK, LedgerTypeOK
<1>3. CASE \E s \in Slot : FinishPush(s)
  BY <1>3 DEF FinishPush, AdvanceContiguous
<1>4. CASE \E w \in Worker : Reconcile(w) \/ ReconcileFault(w)
  BY <1>4, ClosedStay DEF Reconcile, ReconcileFault
<1>5. CASE \E f \in Event : RetryDue(f)
  BY <1>5 DEF RetryDue, RetryElapses, ledgerVars
<1>6. CASE UNCHANGED vars
  BY <1>6 DEF vars, ledgerVars
<1>7. QED
  BY <1>1, <1>2, <1>3, <1>4, <1>5, <1>6, NextCases

\* What an answer of the ledger can be.
LEMMA AnswerWords ==
    ASSUME RecInv, NEW e \in Event, NEW n
    PROVE  /\ Answer(e, n) # "fatal"
           /\ Answer(e, n) = "dead_letter" => status[e] = "dead_letter"
           /\ Answer(e, n) = "rejected" => Route[e] = "invalid" \/ (e \in Recorded /\ ledgerSeq[e] # n)
BY DEF Answer, RecInv, RecTypeOK, LedgerTypeOK, LedgerStatus, ResultCode, Recorded

\* A push that was denied stays denied.
LEMMA DeniedGrows == ASSUME [Next]_vars PROVE denied \subseteq denied'
BY DEF Next, Remember, Backoff, RetryDue, SyncCall, Sidecar, RememberEnqueue, StartPush, Post, ReceiveAnswer,
       TransportFails, ApplyVerdict, FinishApply, Pull, AnswerTruncated, Cleanup, SidecarCrash, Gateway, Admit,
       RecordNext, FinishPush, DropAnswer, PushBusy, PushFatal, GatewayCrash, NewEpoch, Reconcile, ReconcileFault,
       FreeSlots, vars, handlerVars

LEMMA GivenUpKeeps ==
    ASSUME SyncInv, GivenUpInv, [Next]_vars
    PROVE  GivenUpInv'
<1>1. TypeOK /\ RecInv /\ ControlInv
  BY DEF SyncInv
<1>2. SUFFICES ASSUME NEW e \in Event
               PROVE  /\ \A s \in Slot : GivesUpOnlyWithLedger(e, hres[s][e])'
                      /\ GivesUpOnlyWithLedger(e, resp[e])'
                      /\ rowState'[e] = "dead_letter" => status'[e] = "dead_letter" \/ e \in denied'
  BY DEF GivenUpInv
<1>3. /\ status[e] = "dead_letter" => status'[e] = "dead_letter"
      /\ e \in denied => e \in denied'
  BY <1>1, GivenUpStays, DeniedGrows
<1>4. ASSUME NEW s \in Slot PROVE GivesUpOnlyWithLedger(e, hres[s][e])'
  <2>1. /\ hres[s][e] = "fatal" => e \in denied
        /\ hres[s][e] = "dead_letter" => status[e] = "dead_letter"
    BY DEF GivenUpInv, GivesUpOnlyWithLedger
  <2>2. /\ hres'[s][e] = "fatal" => e \in denied'
        /\ hres'[s][e] = "dead_letter" => status[e] = "dead_letter"
    BY <1>1, <1>3, <2>1, HandlerVerdict, AnswerWords
  <2>3. QED
    BY <1>3, <2>2 DEF GivesUpOnlyWithLedger
<1>5. /\ resp[e] = "fatal" => e \in denied
      /\ resp[e] = "dead_letter" => status[e] = "dead_letter"
  BY DEF GivenUpInv, GivesUpOnlyWithLedger
<1>6. GivesUpOnlyWithLedger(e, resp[e])'
  <2>1. \A s \in Slot : /\ hres[s][e] = "fatal" => e \in denied
                        /\ hres[s][e] = "dead_letter" => status[e] = "dead_letter"
    BY DEF GivenUpInv, GivesUpOnlyWithLedger
  <2>2. /\ resp'[e] = "fatal" => e \in denied
        /\ resp'[e] = "dead_letter" => status[e] = "dead_letter"
    BY <1>1, <1>5, <2>1, SidecarVerdict
  <2>3. QED
    BY <1>3, <2>2 DEF GivesUpOnlyWithLedger
<1>7. rowState'[e] = "dead_letter" => status'[e] = "dead_letter" \/ e \in denied'
  BY <1>1, <1>3, <1>5, SettledRow DEF GivenUpInv
<1>8. QED
  BY <1>4, <1>6, <1>7

\* DeadLetterAgrees, for every mixture of faults: the device gives an event up only if the
\* ledger has given it up, or a push was denied with it (the loop of _push_workspace).
THEOREM DeadLettersAgree == Spec => []DeadLetterAgrees
<1>1. Init => GivenUpInv
  <2>1. ASSUME Init, NEW e \in Event
        PROVE  resp[e] = "none" /\ rowState[e] = "none" /\ \A s \in Slot : hres[s][e] = "none"
    BY <2>1 DEF Init, OutboxInit, Same
  <2>2. QED
    BY <2>1 DEF GivenUpInv, GivesUpOnlyWithLedger
<1>2. SyncInv /\ GivenUpInv /\ [Next]_vars => GivenUpInv'
  BY GivenUpKeeps
<1>3. GivenUpInv => DeadLetterAgrees
  BY DEF GivenUpInv, DeadLetterAgrees
<1>4. QED
  BY <1>1, <1>2, <1>3, SyncInvariant, PTL DEF Spec

\* What was accepted stays accepted.
LEMMA AcceptedGrows == ASSUME [Next]_vars PROVE accepted \subseteq accepted'
BY DEF Next, Remember, Backoff, RetryDue, SyncCall, Sidecar, RememberEnqueue, StartPush, Post, ReceiveAnswer,
       TransportFails, ApplyVerdict, FinishApply, Pull, AnswerTruncated, Cleanup, SidecarCrash, Gateway, Admit,
       RecordNext, FinishPush, DropAnswer, PushBusy, PushFatal, GatewayCrash, NewEpoch, Reconcile, ReconcileFault,
       vars, clientVars

\* An id that is not reusable is accepted with its one number.
LEMMA OneNumberKeeps ==
    ASSUME SyncInv, OneNumber, [Next]_vars
    PROVE  OneNumber'
<1>1. TypeOK /\ RecInv /\ ControlInv
  BY DEF SyncInv
<1>2. accepted \subseteq accepted'
  BY AcceptedGrows
<1>3. ASSUME pc' = "prepared"
      PROVE  prepared' \in Event /\ (prepared' \notin Reusable => prepared' \notin accepted')
  <2>1. CASE \E e \in Event : Remember(e)
    BY <2>1 DEF Remember
  <2>2. CASE ~\E e \in Event : Remember(e)
    <3>1. pc = "prepared" /\ UNCHANGED <<prepared, accepted>>
      BY <1>3, <2>2 DEF Next, Backoff, RetryDue, SyncCall, Sidecar, RememberEnqueue, StartPush, Post, ReceiveAnswer,
         TransportFails, ApplyVerdict, FinishApply, Pull, AnswerTruncated, Cleanup, SidecarCrash, Gateway, Admit,
         RecordNext, FinishPush, DropAnswer, PushBusy, PushFatal, GatewayCrash, NewEpoch, Reconcile, ReconcileFault,
         vars, clientVars, EndCall
    <3>2. QED
      BY <3>1 DEF OneNumber
  <2>3. QED
    BY <2>1, <2>2
<1>4. ASSUME pc = "prepared", pc' = "sync" PROVE accepted' = accepted \cup {prepared}
  BY <1>4 DEF Next, Remember, Backoff, RetryDue, SyncCall, Sidecar, RememberEnqueue, StartPush, Post, ReceiveAnswer,
         TransportFails, ApplyVerdict, FinishApply, Pull, AnswerTruncated, Cleanup, SidecarCrash, Gateway, Admit,
         RecordNext, FinishPush, DropAnswer, PushBusy, PushFatal, GatewayCrash, NewEpoch, Reconcile, ReconcileFault,
         vars, clientVars, EndCall
<1>5. ASSUME NEW e \in Event \ Reusable, NEW m \in Nat \ {0}, Numbered(e, m)'
      PROVE  e \in accepted' /\ \A n \in Nat \ {0} : Numbered(e, n)' => m = n
  <2>1. \A n \in Nat \ {0} : Numbered(e, n)' =>
            Numbered(e, n) \/ (pc = "prepared" /\ pc' = "sync" /\ e = prepared /\ n = deviceSeq)
    BY <1>1, NumberedBefore
  <2>2. CASE pc = "prepared" /\ pc' = "sync" /\ e = prepared
    <3>1. e \notin accepted
      BY <2>2 DEF OneNumber
    <3>2. \A n \in Nat \ {0} : ~Numbered(e, n)
      BY <3>1 DEF OneNumber
    <3>3. QED
      BY <1>4, <1>5, <2>1, <2>2, <3>2
  <2>3. CASE ~(pc = "prepared" /\ pc' = "sync" /\ e = prepared)
    <3>1. \A n \in Nat \ {0} : Numbered(e, n)' => Numbered(e, n)
      BY <2>1, <2>3
    <3>2. Numbered(e, m)
      BY <1>5, <3>1
    <3>3. e \in accepted /\ \A n \in Nat \ {0} : Numbered(e, n) => m = n
      BY <3>2 DEF OneNumber
    <3>4. QED
      BY <1>2, <3>1, <3>3
  <2>4. QED
    BY <2>2, <2>3
<1>6. QED
  BY <1>3, <1>5 DEF OneNumber

-----------------------------------------------------------------------------
(* The promise of module Delivery.                                           *)

\* The ledger is left as it is, an open event stays open, or one is decided.
Opens(f) ==
    /\ Route[f] # "invalid" /\ status[f] \notin {"applied", "dead_letter"}
    /\ \E v \in {"pending", "retryable_failed"} : status' = [status EXCEPT ![f] = v]
    /\ UNCHANGED <<fixedReceipt, receipt, accepted>>

Closes(f) ==
    /\ status[f] \in {"pending", "retryable_failed"}
    /\ \/ status' = [status EXCEPT ![f] = "dead_letter"] /\ UNCHANGED fixedReceipt
       \/ \E code \in ResultCode : /\ status' = [status EXCEPT ![f] = "applied"]
                                   /\ fixedReceipt' = [fixedReceipt EXCEPT ![f] = code]
    /\ UNCHANGED <<receipt, accepted>>

LEMMA LedgerStep ==
    ASSUME RecInv, [Next]_vars
    PROVE  UNCHANGED <<status, fixedReceipt>> \/ \E f \in Event : Opens(f) \/ Closes(f)
<1> USE DEF RecInv, RecTypeOK, LedgerTypeOK, WorkerTypeOK
<1>1. CASE Elsewhere
  BY <1>1, ElsewhereLeaves DEF ledgerVars
<1>2. ASSUME NEW s \in Slot, NEW f \in Event, RecordNext(s, f)
      PROVE  UNCHANGED <<status, fixedReceipt>> \/ Opens(f)
  BY <1>2 DEF RecordNext, RecordProposedEvent, ledgerVars, outboxVars, clientVars, Opens
<1>3. CASE \E s \in Slot : FinishPush(s)
  BY <1>3 DEF FinishPush, AdvanceContiguous
<1>4. CASE \E f \in Event : RetryDue(f)
  BY <1>4 DEF RetryDue, RetryElapses, ledgerVars
<1>5. ASSUME NEW w \in Worker, stage[w] # "idle"
      PROVE  /\ lock[w] \in Event /\ status[lock[w]] \in {"pending", "retryable_failed"}
             /\ fixedReceipt[lock[w]] = "none"
  <2>1. lock[w] \in Event /\ lock[w] # NoEvent
    BY <1>5 DEF LockInv
  <2>2. QED
    BY <2>1 DEF LockInv, OneWorkerPerEvent, EffectInv
<1>6. ASSUME NEW w \in Worker, NEW code \in ResultCode, stage[w] # "idle", Applied(lock[w], code), UNCHANGED <<receipt, accepted>>
      PROVE  Closes(lock[w])
  BY <1>5, <1>6 DEF Applied, Closes
<1>7. ASSUME NEW w \in Worker, Reconcile(w)
      PROVE  UNCHANGED <<status, fixedReceipt>> \/ \E f \in Event : Closes(f)
  <2>1. UNCHANGED <<receipt, accepted>>
    BY <1>7 DEF Reconcile, outboxVars, clientVars
  <2>2. CASE (\E e \in Event : WorkerTake(w, e)) \/ Upsert(w)
    BY <2>2 DEF WorkerTake, Upsert, ledgerVars
  <2>3. CASE CompleteSourceDuplicate(w) \/ CreateReviewCandidate(w) \/ CommitApplied(w)
    BY <2>1, <2>3, <1>5, <1>6 DEF CompleteSourceDuplicate, CreateReviewCandidate, CommitApplied, ResultCode
  <2>4. CASE MarkEventDeadLetter(w)
    BY <2>1, <2>4, <1>5 DEF MarkEventDeadLetter, Closes
  <2>5. QED
    BY <1>7, <2>2, <2>3, <2>4 DEF Reconcile, WorkerStep
<1>8. ASSUME NEW w \in Worker, ReconcileFault(w)
      PROVE  UNCHANGED <<status, fixedReceipt>> \/ \E f \in Event : Opens(f)
  <2>1. UNCHANGED <<receipt, accepted>>
    BY <1>8 DEF ReconcileFault, outboxVars, clientVars
  <2>2. CASE UpsertFails(w) \/ UpsertAnswerLost(w)
    BY <2>1, <2>2, <1>5 DEF UpsertFails, UpsertAnswerLost, MarkEventRetryable, Opens
  <2>3. CASE WorkerCrash(w)
    BY <2>3 DEF WorkerCrash, ledgerVars
  <2>4. QED
    BY <1>8, <2>2, <2>3 DEF ReconcileFault
<1>9. CASE UNCHANGED vars
  BY <1>9 DEF vars, ledgerVars
<1>10. QED
  BY <1>1, <1>2, <1>3, <1>4, <1>7, <1>8, <1>9, NextCases

\* "rejected" is said of an event of one number only when its own content is refused, the
\* ledger has given it up, or a push was denied with it.
LEMMA DecidedKeeps ==
    ASSUME SyncInv, RowsInv, GivenUpInv, OneNumber, DecidedInv, [Next]_vars
    PROVE  DecidedInv'
<1>1. TypeOK /\ RecInv /\ ControlInv /\ HasNumber
  BY DEF SyncInv, RowsInv
<1>2. ASSUME NEW e \in Event, Route[e] = "invalid" PROVE status'[e] = "none"
  <2>1. status[e] = "none" /\ status \in [Event -> LedgerStatus]
    BY <1>1, <1>2 DEF DecidedInv, RecInv, RecTypeOK, LedgerTypeOK
  <2>2. QED
    BY <1>1, <1>2, <2>1, LedgerStep DEF Opens, Closes
<1>3. ASSUME NEW e \in Event, Route[e] # "invalid", e \notin Reusable
      PROVE  /\ resp'[e] = "rejected" => e \in denied'
             /\ \A s \in Slot : hres'[s][e] = "rejected" => e \in denied'
             /\ receipt'[e] = "rejected" => status'[e] = "dead_letter" \/ e \in denied'
  <2>1. /\ resp[e] = "rejected" => e \in denied
        /\ \A s \in Slot : hres[s][e] = "rejected" => e \in denied
        /\ receipt[e] = "rejected" => status[e] = "dead_letter" \/ e \in denied
    BY <1>3 DEF DecidedInv
  <2>2. /\ e \in denied => e \in denied'
        /\ status[e] = "dead_letter" => status'[e] = "dead_letter"
    BY <1>1, DeniedGrows, GivenUpStays
  <2>3. ASSUME NEW s \in Slot, hres'[s][e] = "rejected" PROVE e \in denied'
    <3>1. CASE Answer(e, hseq[s][e]) = "rejected" /\ e \in htodo[s]
      <4>1. e \in Recorded /\ ledgerSeq[e] # hseq[s][e]
        BY <1>1, <1>3, <3>1, AnswerWords
      <4>2. ledgerSeq[e] \in Nat \ {0} /\ hseq[s][e] \in Nat \ {0}
        BY <1>1, <3>1, <4>1 DEF HasNumber, TypeOK, RecTypeOK, LedgerTypeOK, GatewayTypeOK
      <4>3. Numbered(e, ledgerSeq[e]) /\ Numbered(e, hseq[s][e])
        BY DEF Numbered
      <4>4. QED
        BY <1>3, <4>1, <4>2, <4>3 DEF OneNumber
    <3>2. QED
      BY <1>1, <2>1, <2>2, <2>3, <3>1, HandlerVerdict
  <2>4. resp'[e] = "rejected" => e \in denied'
    BY <1>1, <2>1, <2>2, SidecarVerdict
  <2>5. /\ resp[e] = "fatal" => e \in denied
        /\ resp[e] = "dead_letter" => status[e] = "dead_letter"
    BY DEF GivenUpInv, GivesUpOnlyWithLedger
  <2>6. receipt'[e] = "rejected" => status'[e] = "dead_letter" \/ e \in denied'
    BY <1>1, <2>1, <2>2, <2>5, SettledRow
  <2>7. QED
    BY <2>3, <2>4, <2>6
<1>4. QED
  BY <1>2, <1>3 DEF DecidedInv

\* The invariants about refusals hold at the start.
LEMMA RefusalInits == ASSUME Init PROVE GivenUpInv /\ OneNumber /\ DecidedInv /\ ToldInv
<1>1. ASSUME NEW e \in Event
      PROVE  /\ receipt[e] = "none" /\ status[e] = "none" /\ resp[e] = "none" /\ rowState[e] = "none"
             /\ rowSeq[e] = 0 /\ ledgerSeq[e] = 0
             /\ \A s \in Slot : hres[s][e] = "none" /\ hseq[s][e] = 0
  BY DEF Init, OutboxInit, LedgerInit, Same
<1>2. GivenUpInv /\ DecidedInv
  BY <1>1 DEF GivenUpInv, GivesUpOnlyWithLedger, DecidedInv
<1>3. OneNumber
  BY <1>1 DEF Init, OneNumber, Numbered
<1>4. ToldInv
  BY <1>1 DEF ToldInv
<1>5. QED
  BY <1>2, <1>3, <1>4

\* ValidNotRejected, for every mixture of faults: an event that passes every check and whose
\* id does not come back is told to be rejected only if a push was denied with it; the
\* ledger never gives it up, and no late or repeated answer turns it down.
THEOREM ValidIsNeverRejected == Spec => []ValidNotRejected
<1>1. Init => GivenUpInv /\ OneNumber /\ DecidedInv
  BY RefusalInits
<1>2. SyncInv /\ RowsInv /\ GivenUpInv /\ OneNumber /\ DecidedInv /\ [Next]_vars => GivenUpInv' /\ OneNumber' /\ DecidedInv'
  BY GivenUpKeeps, OneNumberKeeps, DecidedKeeps
<1>3. SyncInv /\ DecidedInv => ValidNotRejected
  <2> SUFFICES ASSUME SyncInv, DecidedInv, NEW e \in Valid, receipt[e] = "rejected", e \notin Reusable
               PROVE  e \in denied
    BY DEF ValidNotRejected
  <2>1. e \in Event /\ Route[e] \in {"explicit", "review"}
    BY DEF Valid
  <2>2. status[e] # "dead_letter"
    BY <2>1 DEF SyncInv, RecInv, EffectInv
  <2>3. QED
    BY <2>1, <2>2 DEF DecidedInv
<1>4. QED
  BY <1>1, <1>2, <1>3, SyncInvariant, RowsInvariant, PTL DEF Spec

\* What a push works on, what a request carries and what is recorded was accepted.
LEMMA InCustody ==
    ASSUME TypeOK, RowsInv, OneNumber, NEW e \in Event \ Reusable,
           e \in todo \/ status[e] # "none" \/ \E s \in Slot : hseq[s][e] # 0
    PROVE  e \in accepted
<1>1. CASE e \in todo
  <2>1. rowSeq[e] \in Nat \ {0}
    BY <1>1 DEF RowsInv, TodoInv, HasNumber, TypeOK, OutboxTypeOK
  <2>2. Numbered(e, rowSeq[e])
    BY DEF Numbered
  <2>3. QED
    BY <2>1, <2>2 DEF OneNumber
<1>2. CASE status[e] # "none"
  <2>1. ledgerSeq[e] \in Nat \ {0}
    BY <1>2 DEF RowsInv, HasNumber, Recorded, TypeOK, RecTypeOK, LedgerTypeOK
  <2>2. Numbered(e, ledgerSeq[e])
    BY DEF Numbered
  <2>3. QED
    BY <2>1, <2>2 DEF OneNumber
<1>3. ASSUME NEW s \in Slot, hseq[s][e] # 0 PROVE e \in accepted
  <2>1. hseq[s][e] \in Nat \ {0} /\ Numbered(e, hseq[s][e])
    BY <1>3 DEF TypeOK, GatewayTypeOK, Numbered
  <2>2. QED
    BY <2>1 DEF OneNumber
<1>4. QED
  BY <1>1, <1>2, <1>3

\* Only the verdict on a row of the current push changes a receipt, and it closes the row.
LEMMA ReceiptChanges ==
    ASSUME TypeOK, TodoInv, [Next]_vars, NEW e \in Event, receipt'[e] # receipt[e]
    PROVE  e \in todo /\ rowState'[e] \in {"acked", "dead_letter"}
<1> USE DEF TypeOK, OutboxTypeOK
<1>1. CASE RowsAside
  BY <1>1, RowsAsideLeave DEF outboxVars
<1>2. ASSUME NEW f \in Event, ApplyVerdict(f)
      PROVE  e \in todo /\ rowState'[e] \in {"acked", "dead_letter"}
  BY <1>2 DEF ApplyVerdict, Settle, MarkTerminal, MarkRetryable, MarkDeadLetter, TodoInv
<1>3. CASE \/ \E f \in Event : Remember(f) \/ Backoff(f)
           \/ RememberEnqueue \/ StartPush \/ Cleanup \/ SidecarCrash
  BY <1>3 DEF Remember, PrepareEvent, Backoff, BackoffElapses, RememberEnqueue, Enqueue, StartPush,
              MarkInFlight, Cleanup, CleanupAcked, SidecarCrash, Reopen, outboxVars
<1>4. QED
  BY <1>1, <1>2, <1>3, RowCases

\* A receipt is written when its row is closed; an id that does not come back gets no row again.
LEMMA ToldKeeps ==
    ASSUME SyncInv, RowsInv, OneNumber, ToldInv, [Next]_vars
    PROVE  ToldInv'
<1>1. TypeOK /\ TodoInv
  BY DEF SyncInv, RowsInv
<1>2. accepted \subseteq accepted'
  BY AcceptedGrows
<1>3. ASSUME NEW e \in Event \ Reusable, receipt'[e] # "none"
      PROVE  e \in accepted' /\ rowState'[e] \in {"none", "acked", "dead_letter"}
  <2>1. CASE receipt'[e] = receipt[e]
    <3>1. e \in accepted /\ rowState[e] \in {"none", "acked", "dead_letter"}
      BY <1>3, <2>1 DEF ToldInv
    <3>2. ~(pc = "prepared" /\ e = prepared)
      BY <3>1 DEF OneNumber
    <3>3. rowState[e] = "none" => rowState'[e] = "none"
      BY <1>1, <3>2, RowNumber
    <3>4. QED
      BY <1>1, <1>2, <3>1, <3>3, FinalStep
  <2>2. CASE receipt'[e] # receipt[e]
    BY <1>1, <1>2, <2>2, ReceiptChanges, InCustody
  <2>3. QED
    BY <2>1, <2>2
<1>4. QED
  BY <1>3 DEF ToldInv

\* A push is denied of accepted events only, in a step that decides and tells nothing.
LEMMA DenyStep ==
    ASSUME TypeOK, RowsInv, OneNumber, Reusable = {}, [Next]_vars
    PROVE  \/ UNCHANGED denied
           \/ /\ UNCHANGED <<receipt, accepted, status, fixedReceipt>>
              /\ \E S \in SUBSET accepted : denied' = denied \cup S
<1>1. ASSUME NEW s \in Slot, NEW e \in Event, RecordNext(s, e), ~UNCHANGED denied
      PROVE  /\ UNCHANGED <<receipt, accepted, status, fixedReceipt>>
             /\ \E S \in SUBSET accepted : denied' = denied \cup S
  <2>1. denied' = denied \cup {e} /\ UNCHANGED <<receipt, accepted, status, fixedReceipt>>
    BY <1>1 DEF RecordNext, ledgerVars, outboxVars, clientVars
  <2>2. hseq[s][e] # 0
    BY <1>1 DEF RecordNext, RowsInv, HasNumber
  <2>3. e \in accepted
    BY <2>2, InCustody
  <2>4. QED
    BY <2>1, <2>3
<1>2. ASSUME NEW s \in Slot, PushFatal(s)
      PROVE  /\ UNCHANGED <<receipt, accepted, status, fixedReceipt>>
             /\ \E S \in SUBSET accepted : denied' = denied \cup S
  <2>1. denied' = denied \cup Batch(s) /\ UNCHANGED <<receipt, accepted, status, fixedReceipt>>
    BY <1>2 DEF PushFatal, ledgerVars, outboxVars, clientVars
  <2>2. Batch(s) \subseteq accepted
    BY InCustody DEF Batch
  <2>3. QED
    BY <2>1, <2>2
<1>3. QED
  BY <1>1, <1>2
     DEF Next, Remember, Backoff, RetryDue, SyncCall, Sidecar, RememberEnqueue, StartPush, Post, ReceiveAnswer,
         TransportFails, ApplyVerdict, FinishApply, Pull, AnswerTruncated, Cleanup, SidecarCrash, Gateway, Admit,
         FinishPush, DropAnswer, PushBusy, GatewayCrash, NewEpoch, Reconcile, ReconcileFault, FreeSlots, vars,
         handlerVars

\* A step that leaves verdicts on the device alone, or works on one of them.
LEMMA DeviceStep ==
    ASSUME TypeOK, ControlInv, [Next]_vars
    PROVE  \/ UNCHANGED <<receipt, accepted>>
           \/ /\ UNCHANGED <<receipt, status, fixedReceipt>>
              /\ \E e \in Event : accepted' = accepted \cup {e}
           \/ /\ UNCHANGED <<accepted, status, fixedReceipt>>
              /\ \E e \in todo : /\ receipt' = [receipt EXCEPT ![e] = receipt'[e]]
                                 /\ \/ receipt'[e] = receipt[e]
                                    \/ receipt'[e] = resp[e] /\ resp[e] \in ResultCode \cup {"rejected"}
                                    \/ receipt'[e] = "rejected" /\ resp[e] \in {"dead_letter", "fatal"}
<1> USE DEF TypeOK, OutboxTypeOK, SidecarTypeOK
<1>1. CASE RowsAside
  <2>1. UNCHANGED receipt
    BY <1>1, RowsAsideLeave DEF outboxVars
  <2>2. UNCHANGED accepted
    BY <1>1 DEF RowsAside, RetryDue, SyncCall, Post, ReceiveAnswer, TransportFails, FinishApply,
                Pull, AnswerTruncated, Gateway, Admit, RecordNext, FinishPush, DropAnswer,
                PushBusy, PushFatal, GatewayCrash, NewEpoch, Reconcile, ReconcileFault, vars,
                clientVars
  <2>3. QED
    BY <2>1, <2>2
<1>2. CASE \E f \in Event : Remember(f) \/ Backoff(f)
  BY <1>2 DEF Remember, PrepareEvent, Backoff, BackoffElapses, clientVars
<1>3. ASSUME NEW e \in Event, ApplyVerdict(e)
      PROVE  /\ UNCHANGED <<accepted, status, fixedReceipt>> /\ e \in todo
             /\ receipt' = [receipt EXCEPT ![e] = receipt'[e]]
             /\ \/ receipt'[e] = receipt[e]
                \/ receipt'[e] = resp[e] /\ resp[e] \in ResultCode \cup {"rejected"}
                \/ receipt'[e] = "rejected" /\ resp[e] \in {"dead_letter", "fatal"}
  <2>1. UNCHANGED <<accepted, status, fixedReceipt>> /\ e \in todo /\ Settle(e, resp[e])
    BY <1>3 DEF ApplyVerdict, ledgerVars
  <2>2. CASE resp[e] \in ResultCode \cup {"rejected"} /\ MarkTerminal(e, resp[e])
    BY <2>1, <2>2 DEF MarkTerminal
  <2>3. CASE MarkRetryable(e, TRUE) \/ MarkRetryable(e, FALSE)
    BY <2>1, <2>3 DEF MarkRetryable
  <2>4. CASE resp[e] \in {"dead_letter", "fatal"} /\ MarkDeadLetter(e)
    BY <2>1, <2>4 DEF MarkDeadLetter
  <2>5. QED
    BY <2>1, <2>2, <2>3, <2>4 DEF Settle
<1>4. CASE RememberEnqueue
  <2>1. UNCHANGED <<receipt, status, fixedReceipt>>
    BY <1>4 DEF RememberEnqueue, Enqueue, outboxVars, ledgerVars
  <2>2. UNCHANGED accepted \/ accepted' = accepted \cup {prepared}
    BY <1>4 DEF RememberEnqueue
  <2>3. prepared \in Event
    BY <1>4 DEF RememberEnqueue, ControlInv
  <2>4. QED
    BY <2>1, <2>2, <2>3
<1>5. CASE StartPush \/ Cleanup \/ SidecarCrash
  BY <1>5 DEF StartPush, MarkInFlight, Cleanup, CleanupAcked, SidecarCrash, Reopen, clientVars
<1>6. QED
  BY <1>1, <1>2, <1>3, <1>4, <1>5, RowCases

\* Every step of the push path is a step of the abstract specification.
LEMMA PromiseStep ==
    ASSUME Reusable = {}, SyncInv, RowsInv, GivenUpInv, OneNumber, DecidedInv, ToldInv, [Next]_vars
    PROVE  [Abstract!Next]_<<accepted, denied, Decision, Told>>
<1>1. TypeOK /\ RecInv /\ ControlInv /\ AnswersTrue /\ EffectInv /\ TodoInv
  BY DEF SyncInv, RecInv, RowsInv
<1>2. /\ status \in [Event -> LedgerStatus] /\ fixedReceipt \in [Event -> ResultCode \cup {"none"}]
      /\ DOMAIN receipt = Event /\ todo \subseteq Event
  BY <1>1 DEF TypeOK, RecInv, RecTypeOK, LedgerTypeOK, OutboxTypeOK, SidecarTypeOK
<1>3. \A e \in Event : status[e] = "applied" => fixedReceipt[e] \in ResultCode
  BY <1>1, <1>2 DEF EffectInv
<1>d. CASE /\ UNCHANGED <<receipt, accepted, status, fixedReceipt>>
           /\ \E S \in SUBSET accepted : denied' = denied \cup S
  <2>1. UNCHANGED <<Decision, Told>>
    BY <1>d DEF Decision, Told
  <2>2. QED
    BY <1>d, <2>1 DEF Abstract!Next, Abstract!Deny
<1>4. CASE UNCHANGED <<receipt, accepted, denied>>
  <2>1. UNCHANGED Told
    BY <1>4 DEF Told
  <2>2. CASE UNCHANGED <<status, fixedReceipt>>
    BY <1>4, <2>1, <2>2 DEF Decision
  <2>3. ASSUME NEW f \in Event, Opens(f) PROVE UNCHANGED Decision
    <3>1. \A e \in Event : /\ status'[e] = "applied" <=> status[e] = "applied"
                           /\ status'[e] = "dead_letter" <=> status[e] = "dead_letter"
      BY <1>2, <2>3 DEF Opens
    <3>2. fixedReceipt' = fixedReceipt /\ receipt' = receipt
      BY <2>3 DEF Opens
    <3>3. QED
      BY <3>1, <3>2 DEF Decision
  <2>4. ASSUME NEW f \in Event, Closes(f) PROVE Abstract!Decide(f)
    <3>1. f \in accepted
      BY <1>1, <2>4, InCustody DEF Closes
    <3>2. Route[f] # "invalid"
      BY <2>4 DEF Closes, DecidedInv
    <3>3. Decision[f] = "none"
      BY <2>4, <3>2 DEF Closes, Decision
    <3>4. PICK o \in ResultCode \cup {"rejected"} :
            /\ o = IF status'[f] = "applied" THEN fixedReceipt'[f] ELSE "rejected"
            /\ status'[f] \in {"applied", "dead_letter"}
      BY <1>2, <2>4 DEF Closes
    <3>5. \A e \in Event \ {f} : status'[e] = status[e] /\ fixedReceipt'[e] = fixedReceipt[e]
      BY <1>2, <2>4 DEF Closes
    <3>6. Decision' = [Decision EXCEPT ![f] = o]
      BY <1>4, <3>4, <3>5 DEF Decision
    <3>7. QED
      BY <1>4, <2>1, <3>1, <3>3, <3>6 DEF Abstract!Decide, Abstract!Outcome, Abstract!ResultCode, ResultCode
  <2>5. QED
    BY <1>1, <1>4, <2>1, <2>2, <2>3, <2>4, LedgerStep DEF Abstract!Next
<1>5. CASE /\ UNCHANGED <<receipt, status, fixedReceipt, denied>>
           /\ \E e \in Event : accepted' = accepted \cup {e}
  <2>1. UNCHANGED <<Decision, Told>>
    BY <1>5 DEF Decision, Told
  <2>2. QED
    BY <1>5, <2>1 DEF Abstract!Next, Abstract!Accept
<1>6. ASSUME UNCHANGED <<accepted, status, fixedReceipt, denied>>, NEW e \in todo,
             receipt' = [receipt EXCEPT ![e] = receipt'[e]],
             \/ receipt'[e] = receipt[e]
             \/ receipt'[e] = resp[e] /\ resp[e] \in ResultCode \cup {"rejected"}
             \/ receipt'[e] = "rejected" /\ resp[e] \in {"dead_letter", "fatal"}
      PROVE  [Abstract!Next]_<<accepted, denied, Decision, Told>>
  <2>1. e \in Event /\ e \in accepted
    BY <1>1, <1>2, InCustody
  <2>2. \A f \in Event \ {e} : receipt'[f] = receipt[f]
    BY <1>2, <1>6
  <2>3. Told' = [Told EXCEPT ![e] = receipt'[e]]
    BY <2>1, <2>2 DEF Told
  <2>4. \A f \in Event \ {e} : Decision'[f] = Decision[f]
    BY <1>6, <2>2 DEF Decision
  <2>5. Told[e] = "none" /\ receipt[e] = "none"
    BY <1>1, <2>1 DEF TodoInv, ToldInv, Told
  <2>6. CASE receipt'[e] = receipt[e]
    <3>1. \A f \in Event : receipt'[f] = receipt[f]
      BY <2>2, <2>6
    <3>2. UNCHANGED <<Decision, Told>>
      BY <1>6, <3>1 DEF Decision, Told
    <3>3. QED
      BY <1>6, <3>2
  <2>7. CASE receipt'[e] = resp[e] /\ resp[e] \in ResultCode
    <3>1. status[e] = "applied" /\ fixedReceipt[e] = resp[e]
      BY <1>1, <2>1, <2>7 DEF AnswersTrue, EffectInv, ResultCode
    <3>2. Decision[e] = resp[e] /\ Decision'[e] = resp[e]
      BY <1>6, <2>1, <3>1 DEF Decision
    <3>3. UNCHANGED Decision
      BY <2>4, <3>2 DEF Decision
    <3>4. Abstract!Tell(e)
      BY <1>6, <2>3, <2>5, <2>7, <3>2, <3>3 DEF Abstract!Tell, ResultCode
    <3>5. QED
      BY <2>1, <3>4 DEF Abstract!Next
  <2>8. CASE receipt'[e] = "rejected" /\ Route[e] = "invalid"
    <3>1. status[e] = "none"
      BY <2>1, <2>8 DEF DecidedInv
    <3>2. Decision[e] = "none" /\ Decision'[e] = "rejected"
      BY <1>6, <2>1, <2>5, <2>8, <3>1 DEF Decision
    <3>3. Decision' = [Decision EXCEPT ![e] = "rejected"]
      BY <2>1, <2>4, <3>2 DEF Decision
    <3>4. Abstract!Refuse(e)
      BY <1>6, <2>1, <2>3, <2>5, <2>8, <3>2, <3>3 DEF Abstract!Refuse
    <3>5. QED
      BY <2>1, <3>4 DEF Abstract!Next
  <2>9. CASE receipt'[e] = "rejected" /\ Route[e] # "invalid" /\ resp[e] \in {"rejected", "fatal"}
    <3>1. e \in denied
      BY <2>1, <2>9 DEF DecidedInv, GivenUpInv, GivesUpOnlyWithLedger
    <3>2. Decision'[e] = Decision[e]
      BY <1>6, <2>1, <2>9 DEF Decision
    <3>3. UNCHANGED Decision
      BY <2>4, <3>2 DEF Decision
    <3>4. Abstract!Dismiss(e)
      BY <1>6, <2>3, <2>5, <2>9, <3>1, <3>3 DEF Abstract!Dismiss
    <3>5. QED
      BY <2>1, <3>4 DEF Abstract!Next
  <2>10. CASE receipt'[e] = "rejected" /\ resp[e] = "dead_letter"
    <3>1. status[e] = "dead_letter"
      BY <2>1, <2>10 DEF GivenUpInv, GivesUpOnlyWithLedger
    <3>2. Decision[e] = "rejected" /\ Decision'[e] = "rejected"
      BY <1>6, <2>1, <3>1 DEF Decision
    <3>3. UNCHANGED Decision
      BY <2>4, <3>2 DEF Decision
    <3>4. Abstract!Tell(e)
      BY <1>6, <2>3, <2>5, <2>10, <3>2, <3>3 DEF Abstract!Tell
    <3>5. QED
      BY <2>1, <3>4 DEF Abstract!Next
  <2>11. QED
    BY <1>6, <2>6, <2>7, <2>8, <2>9, <2>10
<1>7. CASE UNCHANGED denied
  BY <1>1, <1>4, <1>5, <1>6, <1>7, DeviceStep
<1>8. QED
  BY <1>1, <1>d, <1>7, DenyStep DEF SyncInv

\* The push path keeps the promise of module Delivery, for every mixture of faults and any
\* number of agents: an accepted write is decided once and for ever, and the device is told
\* that decision and no other, or "rejected" if a push was denied with the write; on a device
\* whose ids do not come back.
THEOREM PromiseIsKept ==
    ASSUME Reusable = {}
    PROVE  Spec => DeliveryPromise
<1> DEFINE Inv == GivenUpInv /\ OneNumber /\ DecidedInv /\ ToldInv
<1>1. ASSUME Init
      PROVE  Inv /\ Abstract!Init
  <2>1. Inv
    BY <1>1, RefusalInits
  <2>2. /\ receipt = Same("none") /\ status = Same("none") /\ accepted = {} /\ denied = {}
    BY <1>1 DEF Init, OutboxInit, LedgerInit, Same
  <2>3. Abstract!Init
    BY <2>2 DEF Same, Abstract!Init, Decision, Told
  <2>4. QED
    BY <2>1, <2>3
<1>2. SyncInv /\ RowsInv /\ Inv /\ [Next]_vars => Inv'
  BY GivenUpKeeps, OneNumberKeeps, DecidedKeeps, ToldKeeps
<1>3. SyncInv /\ RowsInv /\ Inv /\ [Next]_vars => [Abstract!Next]_<<accepted, denied, Decision, Told>>
  BY PromiseStep
<1>4. QED
  BY <1>1, <1>2, <1>3, SyncInvariant, RowsInvariant, PTL DEF Spec, DeliveryPromise, Abstract!Spec
=============================================================================
