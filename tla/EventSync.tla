----------------------------- MODULE EventSync ------------------------------
(***************************************************************************)
(* How a memory written on a device reaches the long-term store: the        *)
(* sidecar (sidecar_client.py, sidecar_daemon.py) with its Outbox, the push *)
(* handler of the gateway (gateway.py, sync_service.py) with its            *)
(* EventLedger, and the Reconciler.  The sidecar serialises its operations  *)
(* (operation_lock), so it is one sequential process; the gateway runs one  *)
(* thread per request slot, and a thread keeps working on a push whose      *)
(* client has already given up.  Each step below is one transaction or one  *)
(* message, so that a crash or a lost answer can fall between any two.      *)
(***************************************************************************)
EXTENDS Outbox, Reconciler

CONSTANTS
    Agent,       \* agents that share the sidecar of this device
    NoAgent,     \* "nobody's token": between two operations
    AuthorOf,    \* [Event -> Agent], the agent that submits the event
    Reusable,    \* ids a caller may submit again (importer, memory_os_share)
    Slot,        \* request slots of the gateway (max_concurrent_requests)
    NoSlot,      \* "the sidecar waits for no answer"
    Fault,       \* kinds of fault that happen, a subset of FaultKind
    Persistent,  \* kinds of fault that may happen without end
    MaxFaults,   \* how often faults of the other kinds may happen in all
    MaxSeq       \* how many sequence numbers are handed out

FaultKind == {"transport", "truncated", "busy", "event_busy", "unbound", "fatal", "epoch",
              "sidecar_crash", "gateway_crash", "worker_crash", "backend", "lost_answer"}

ASSUME SyncAssumption ==
    /\ AuthorOf \in [Event -> Agent]
    /\ NoAgent \notin Agent
    /\ Reusable \in SUBSET Event
    /\ NoSlot \notin Slot
    /\ Fault \in SUBSET FaultKind
    /\ Persistent \in SUBSET Fault
    /\ MaxFaults \in Nat
    /\ MaxSeq \in Nat

VARIABLES
    \* the sidecar process
    pc,        \* where it is
    who,       \* the agent whose token and id it uses (client.token, client.agent_id)
    prepared,  \* the event that has a number but no row yet
    todo,      \* the pushed events whose rows it has not yet updated
    cur,       \* the request slot whose answer it waits for
    resp,      \* [Event -> Verdict], the answer it works through
    cliEpoch,  \* the sync epoch it knows, 0 before the first pull
    \* the gateway
    hpc,       \* [Slot -> {"free", "arrived", "running", "done"}]
    hwho,      \* [Slot -> Agent], the principal of the request
    hepoch,    \* [Slot -> Nat], the epoch the request carried
    hseq,      \* [Slot -> [Event -> Nat]], device_seq of each event of the batch
    htodo,     \* [Slot -> SUBSET Event], events of the batch not yet recorded
    hres,      \* [Slot -> [Event -> Verdict]], the answer so far
    srvEpoch,  \* gateway_state.sync_epoch
    \* bookkeeping of the model
    accepted,  \* events that enqueue has taken over from a caller
    denied,    \* events that a push was turned away with, for who sent them or as
               \*   a part of the whole push, and not for what they are
    budget     \* faults still to come

clientVars == <<pc, who, prepared, todo, cur, resp, cliEpoch, accepted>>
handlerVars == <<hpc, hwho, hepoch, hseq, htodo, hres, srvEpoch, denied>>
vars == <<outboxVars, ledgerVars, workerVars, clientVars, handlerVars, budget>>

\* One event's answer.  "busy", "fatal" and "transport" are answers to the
\* whole push: a retryable HTTP error, any other HTTP error, and none at all.
Verdict == ResultCode \cup {"none", "pending", "retryable_failed", "dead_letter",
                            "rejected", "reset", "busy", "fatal", "transport"}

SidecarTypeOK ==
    /\ pc \in {"idle", "prepared", "sync", "post", "wait", "apply", "pull"}
    /\ who \in Agent \cup {NoAgent}
    /\ prepared \in Event \cup {NoEvent}
    /\ todo \in SUBSET Event
    /\ cur \in Slot \cup {NoSlot}
    /\ resp \in [Event -> Verdict]
    /\ cliEpoch \in Nat
    /\ accepted \in SUBSET Event

GatewayTypeOK ==
    /\ hpc \in [Slot -> {"free", "arrived", "running", "done"}]
    /\ hwho \in [Slot -> Agent \cup {NoAgent}]
    /\ hepoch \in [Slot -> Nat]
    /\ hseq \in [Slot -> [Event -> Nat]]
    /\ htodo \in [Slot -> SUBSET Event]
    /\ hres \in [Slot -> [Event -> Verdict]]
    /\ srvEpoch \in Nat
    /\ denied \in SUBSET Event

TypeOK ==
    /\ OutboxTypeOK
    /\ RecTypeOK
    /\ SidecarTypeOK
    /\ GatewayTypeOK
    /\ budget \in Nat

Same(v) == [e \in Event |-> v]

\* The end of a sidecar operation: the token of the caller is taken back, the
\* locals of the call are gone.
EndCall ==
    /\ pc' = "idle"
    /\ who' = NoAgent
    /\ prepared' = NoEvent
    /\ todo' = {}
    /\ cur' = NoSlot
    /\ resp' = Same("none")

\* The threads of the slots in S are gone, with their locals.
FreeSlots(S) ==
    /\ hpc' = [s \in Slot |-> IF s \in S THEN "free" ELSE hpc[s]]
    /\ hwho' = [s \in Slot |-> IF s \in S THEN NoAgent ELSE hwho[s]]
    /\ hepoch' = [s \in Slot |-> IF s \in S THEN 0 ELSE hepoch[s]]
    /\ hseq' = [s \in Slot |-> IF s \in S THEN Same(0) ELSE hseq[s]]
    /\ htodo' = [s \in Slot |-> IF s \in S THEN {} ELSE htodo[s]]
    /\ hres' = [s \in Slot |-> IF s \in S THEN Same("none") ELSE hres[s]]
    /\ UNCHANGED <<srvEpoch, denied>>

Init ==
    /\ OutboxInit
    /\ LedgerInit
    /\ WorkerInit
    /\ pc = "idle"
    /\ who = NoAgent
    /\ prepared = NoEvent
    /\ todo = {}
    /\ cur = NoSlot
    /\ resp = Same("none")
    /\ cliEpoch = 0
    /\ hpc = [s \in Slot |-> "free"]
    /\ hwho = [s \in Slot |-> NoAgent]
    /\ hepoch = [s \in Slot |-> 0]
    /\ hseq = [s \in Slot |-> Same(0)]
    /\ htodo = [s \in Slot |-> {}]
    /\ hres = [s \in Slot |-> Same("none")]
    /\ srvEpoch = 1
    /\ accepted = {}
    /\ denied = {}
    /\ budget = MaxFaults

\* A fault of kind k happens now.
Happens(k) ==
    /\ k \in Fault
    /\ IF k \in Persistent THEN UNCHANGED budget
       ELSE budget > 0 /\ budget' = budget - 1

-----------------------------------------------------------------------------
(* The sidecar.                                                             *)

\* remember(), first transaction: the agent of e calls, the event gets a number.
Remember(e) ==
    /\ pc = "idle"
    /\ e \notin accepted \/ e \in Reusable
    /\ deviceSeq < MaxSeq
    /\ PrepareEvent
    /\ who' = AuthorOf[e]
    /\ prepared' = e
    /\ pc' = "prepared"
    /\ UNCHANGED <<todo, cur, resp, cliEpoch, accepted>>
    /\ UNCHANGED <<ledgerVars, workerVars, handlerVars, budget>>

\* remember(), second transaction; the sync that follows is in the same call.
RememberEnqueue ==
    /\ pc = "prepared"
    /\ \/ /\ Enqueue(prepared, deviceSeq)
          /\ accepted' = accepted \cup {prepared}
          /\ pc' = "sync"
          /\ prepared' = NoEvent
          /\ UNCHANGED <<who, todo, cur, resp>>
       \/ /\ ~CanEnqueue(prepared, deviceSeq)      \* OutboxError
          /\ EndCall
          /\ UNCHANGED <<outboxVars, accepted>>
    /\ UNCHANGED cliEpoch
    /\ UNCHANGED <<ledgerVars, workerVars, handlerVars, budget>>

\* An agent's sync call or the heartbeat thread: it runs under that agent's token.
SyncCall(a) ==
    /\ pc = "idle"
    /\ who' = a
    /\ pc' = "sync"
    /\ UNCHANGED <<prepared, todo, cur, resp, cliEpoch, accepted>>
    /\ UNCHANGED <<outboxVars, ledgerVars, workerVars, handlerVars, budget>>

\* sync(): list the due rows, take the batch, mark it in flight.
StartPush ==
    /\ pc = "sync"
    /\ MarkInFlight(FirstBatch)
    /\ todo' = FirstBatch
    /\ pc' = IF FirstBatch = {} THEN "pull" ELSE "post"
    /\ UNCHANGED <<who, prepared, cur, resp, cliEpoch, accepted>>
    /\ UNCHANGED <<ledgerVars, workerVars, handlerVars, budget>>

\* _post: the request takes a free slot of the gateway, or is turned away
\* (_reject_over_capacity).
Post ==
    /\ pc = "post"
    /\ \/ \E s \in Slot :
            /\ hpc[s] = "free"
            /\ hpc' = [hpc EXCEPT ![s] = "arrived"]
            /\ hwho' = [hwho EXCEPT ![s] = who]
            /\ hepoch' = [hepoch EXCEPT ![s] = cliEpoch]
            /\ hseq' = [hseq EXCEPT ![s] = [e \in Event |-> IF e \in todo THEN rowSeq[e] ELSE 0]]
            /\ htodo' = [htodo EXCEPT ![s] = todo]
            /\ hres' = [hres EXCEPT ![s] = Same("none")]
            /\ cur' = s
            /\ pc' = "wait"
            /\ UNCHANGED resp
       \/ /\ \A s \in Slot : hpc[s] # "free"
          /\ resp' = Same("busy")
          /\ pc' = "apply"
          /\ UNCHANGED <<cur, hpc, hwho, hepoch, hseq, htodo, hres>>
    /\ UNCHANGED <<who, prepared, todo, cliEpoch, accepted, srvEpoch, denied>>
    /\ UNCHANGED <<outboxVars, ledgerVars, workerVars, budget>>

\* The answer arrives; a reset answer clears the cache and adopts its epoch.
ReceiveAnswer ==
    /\ pc = "wait"
    /\ hpc[cur] = "done"
    /\ resp' = hres[cur]
    /\ cliEpoch' = IF \E e \in todo : hres[cur][e] = "reset" THEN hepoch[cur] ELSE cliEpoch
    /\ FreeSlots({cur})
    /\ cur' = NoSlot
    /\ pc' = "apply"
    /\ UNCHANGED <<who, prepared, todo, accepted>>
    /\ UNCHANGED <<outboxVars, ledgerVars, workerVars, budget>>

\* No answer: the 8 s timeout, a broken connection, or a gateway that died.
\* The handler thread, if there is one, keeps its slot.
TransportFails ==
    /\ pc = "wait"
    /\ \/ hpc[cur] = "free" /\ UNCHANGED budget
       \/ hpc[cur] # "free" /\ Happens("transport")
    /\ resp' = Same("transport")
    /\ cur' = NoSlot
    /\ pc' = "apply"
    /\ UNCHANGED <<who, prepared, todo, cliEpoch, accepted>>
    /\ UNCHANGED <<outboxVars, ledgerVars, workerVars, handlerVars>>

\* The connection breaks inside the body of a good answer: read() or
\* json.loads raises something _post does not catch, and the exception leaves
\* sync() with the batch still in flight.
AnswerTruncated ==
    /\ pc = "wait"
    /\ hpc[cur] = "done"
    /\ Happens("truncated")
    /\ FreeSlots({cur})
    /\ EndCall
    /\ UNCHANGED <<cliEpoch, accepted>>
    /\ UNCHANGED <<outboxVars, ledgerVars, workerVars>>

\* Mutants: a missing "retryable" field is read as false; the answer to an old
\* epoch is taken as final.
SettlePendingIsFinal(e, v) ==
    \/ v \in ResultCode \cup {"rejected"} /\ MarkTerminal(e, v)
    \/ v \in {"none", "retryable_failed", "busy", "transport"} /\ MarkRetryable(e, FALSE)
    \/ v = "reset" /\ MarkRetryable(e, TRUE)
    \/ v \in {"dead_letter", "fatal", "pending"} /\ MarkDeadLetter(e)

SettleResetIsFinal(e, v) ==
    \/ v \in ResultCode \cup {"rejected"} /\ MarkTerminal(e, v)
    \/ v \in {"none", "pending", "retryable_failed", "busy", "transport"}
            /\ MarkRetryable(e, FALSE)
    \/ v = "reset" /\ MarkTerminal(e, "rejected")
    \/ v \in {"dead_letter", "fatal"} /\ MarkDeadLetter(e)

\* What _push_workspace does to the row of e for verdict v.
Settle(e, v) ==
    \/ v \in ResultCode \cup {"rejected"} /\ MarkTerminal(e, v)
    \/ v \in {"none", "pending", "retryable_failed", "busy", "transport"}
            /\ MarkRetryable(e, FALSE)
    \/ v = "reset" /\ MarkRetryable(e, TRUE)
    \/ v \in {"dead_letter", "fatal"} /\ MarkDeadLetter(e)

\* The loop over the batch, one transaction per row, in device_seq order.
ApplyVerdict(e) ==
    /\ pc = "apply"
    /\ e \in todo
    /\ \A f \in todo : rowSeq[e] <= rowSeq[f]
    /\ Settle(e, resp[e])
    /\ todo' = todo \ {e}
    /\ UNCHANGED <<pc, who, prepared, cur, resp, cliEpoch, accepted>>
    /\ UNCHANGED <<ledgerVars, workerVars, handlerVars, budget>>

FinishApply ==
    /\ pc = "apply"
    /\ todo = {}
    /\ pc' = "pull"
    /\ resp' = Same("none")
    /\ UNCHANGED <<who, prepared, todo, cur, cliEpoch, accepted>>
    /\ UNCHANGED <<outboxVars, ledgerVars, workerVars, handlerVars, budget>>

\* _pull_workspace (its own module models the pages): it ends the call, and a
\* pull that succeeds leaves the sidecar with the gateway's epoch.
Pull ==
    /\ pc = "pull"
    /\ \/ cliEpoch' = srvEpoch /\ UNCHANGED budget
       \/ Happens("transport") /\ UNCHANGED cliEpoch
    /\ EndCall
    /\ UNCHANGED accepted
    /\ UNCHANGED <<outboxVars, ledgerVars, workerVars, handlerVars>>

\* cleanup_confirmed, on a user's confirmation.
Cleanup ==
    /\ pc = "idle"
    /\ \E e \in Event : rowState[e] = "acked"
    /\ CleanupAcked
    /\ UNCHANGED <<clientVars, ledgerVars, workerVars, handlerVars, budget>>

Backoff(e) ==
    /\ BackoffElapses(e)
    /\ UNCHANGED <<clientVars, ledgerVars, workerVars, handlerVars, budget>>

\* The sidecar process dies and is started again on the same file.
SidecarCrash ==
    /\ Happens("sidecar_crash")
    /\ Reopen
    /\ EndCall
    /\ UNCHANGED <<cliEpoch, accepted>>
    /\ UNCHANGED <<ledgerVars, workerVars, handlerVars>>

-----------------------------------------------------------------------------
(* The gateway's push handler, one thread per slot.                         *)

\* The events of the request in slot s.
Batch(s) == {e \in Event : hseq[s][e] # 0}

\* The thread answers the whole push with one verdict.
AnswerAll(s, v) ==
    /\ hpc' = [hpc EXCEPT ![s] = "done"]
    /\ htodo' = [htodo EXCEPT ![s] = {}]
    /\ hres' = [hres EXCEPT ![s] = [e \in Event |-> IF e \in Batch(s) THEN v ELSE "none"]]
    /\ UNCHANGED <<hwho, hseq>>

\* push(), up to the epoch check: a request of an older epoch is answered with
\* a reset, before anything is recorded.
Admit(s) ==
    /\ hpc[s] = "arrived"
    /\ \/ /\ hepoch[s] # 0 /\ hepoch[s] # srvEpoch
          /\ AnswerAll(s, "reset")
          /\ hepoch' = [hepoch EXCEPT ![s] = srvEpoch]
       \/ /\ hepoch[s] = 0 \/ hepoch[s] = srvEpoch
          /\ hpc' = [hpc EXCEPT ![s] = "running"]
          /\ UNCHANGED <<hwho, hepoch, hseq, htodo, hres>>
    /\ UNCHANGED <<srvEpoch, denied, budget>>
    /\ UNCHANGED <<outboxVars, ledgerVars, workerVars, clientVars>>

\* The loop of push(): the next event in device_seq order, validated against
\* the principal of the request and recorded in a transaction of its own, which
\* looks for the binding and the capability once more.  An AuthError is answered
\* as final, whatever the ledger may already have of the event.
RecordNext(s, e) ==
    /\ hpc[s] = "running"
    /\ e \in htodo[s]
    /\ \A f \in htodo[s] : hseq[s][e] <= hseq[s][f]
    /\ \/ /\ \/ AuthorOf[e] # hwho[s] /\ UNCHANGED budget       \* IDENTITY_MISMATCH
             \/ /\ AuthorOf[e] = hwho[s] /\ Route[e] # "invalid"
                /\ Happens("unbound")              \* PRINCIPAL_BINDING_FORBIDDEN
          /\ hres' = [hres EXCEPT ![s][e] = "rejected"]
          /\ denied' = denied \cup {e}
          /\ UNCHANGED ledgerVars
       \/ /\ AuthorOf[e] = hwho[s]
          /\ RecordProposedEvent(e, hseq[s][e])
          /\ hres' = [hres EXCEPT ![s][e] = Answer(e, hseq[s][e])]
          /\ UNCHANGED <<denied, budget>>
       \/ /\ AuthorOf[e] = hwho[s]
          /\ Happens("event_busy")                 \* DatabasePoolBusy
          /\ hres' = [hres EXCEPT ![s][e] = "retryable_failed"]
          /\ UNCHANGED <<ledgerVars, denied>>
    /\ htodo' = [htodo EXCEPT ![s] = @ \ {e}]
    /\ UNCHANGED <<hpc, hwho, hepoch, hseq, srvEpoch>>
    /\ UNCHANGED <<outboxVars, workerVars, clientVars>>

\* The end of push(): the contiguous sequence, then the answer.
FinishPush(s) ==
    /\ hpc[s] = "running"
    /\ htodo[s] = {}
    /\ AdvanceContiguous
    /\ hpc' = [hpc EXCEPT ![s] = "done"]
    /\ UNCHANGED <<hwho, hepoch, hseq, htodo, hres, srvEpoch, denied, budget>>
    /\ UNCHANGED <<outboxVars, workerVars, clientVars>>

\* DatabasePoolBusy outside the loop: in authentication, in the epoch check or
\* in _advance_contiguous_sequence; answered 503, retryable.
PushBusy(s) ==
    /\ hpc[s] = "arrived" \/ (hpc[s] = "running" /\ htodo[s] = {})
    /\ Happens("busy")
    /\ AnswerAll(s, "busy")
    /\ UNCHANGED <<hepoch, srvEpoch, denied>>
    /\ UNCHANGED <<outboxVars, ledgerVars, workerVars, clientVars>>

\* An error without a "retryable" field: 401 or 403 before the loop, or 500
\* from any other exception, also between two events of the batch.
PushFatal(s) ==
    /\ hpc[s] \in {"arrived", "running"}
    /\ Happens("fatal")
    /\ AnswerAll(s, "fatal")
    /\ denied' = denied \cup Batch(s)
    /\ UNCHANGED <<hepoch, srvEpoch>>
    /\ UNCHANGED <<outboxVars, ledgerVars, workerVars, clientVars>>

\* A finished thread whose client has gone drops its answer.
DropAnswer(s) ==
    /\ hpc[s] = "done"
    /\ cur # s
    /\ FreeSlots({s})
    /\ UNCHANGED budget
    /\ UNCHANGED <<outboxVars, ledgerVars, workerVars, clientVars>>

\* The gateway process dies with all its threads and is started again.
GatewayCrash ==
    /\ \E s \in Slot : hpc[s] # "free"
    /\ Happens("gateway_crash")
    /\ FreeSlots(Slot)
    /\ UNCHANGED <<outboxVars, ledgerVars, workerVars, clientVars>>

\* An operator gives the metadata database a new sync epoch.
NewEpoch ==
    /\ Happens("epoch")
    /\ srvEpoch' = srvEpoch + 1
    /\ UNCHANGED <<hpc, hwho, hepoch, hseq, htodo, hres, denied>>
    /\ UNCHANGED <<outboxVars, ledgerVars, workerVars, clientVars>>

-----------------------------------------------------------------------------
(* The reconciler.                                                          *)

Reconcile(w) ==
    /\ WorkerStep(w)
    /\ UNCHANGED <<outboxVars, clientVars, handlerVars, budget>>

ReconcileFault(w) ==
    /\ \/ UpsertFails(w) /\ Happens("backend")
       \/ UpsertAnswerLost(w) /\ Happens("lost_answer")
       \/ WorkerCrash(w) /\ Happens("worker_crash")
    /\ UNCHANGED <<outboxVars, clientVars, handlerVars>>

RetryDue(e) ==
    /\ RetryElapses(e)
    /\ UNCHANGED <<outboxVars, clientVars, handlerVars, budget>>

-----------------------------------------------------------------------------
Sidecar ==
    \/ RememberEnqueue
    \/ StartPush
    \/ Post
    \/ ReceiveAnswer
    \/ TransportFails
    \/ \E e \in Event : ApplyVerdict(e)
    \/ FinishApply
    \/ Pull

Gateway(s) ==
    \/ Admit(s)
    \/ \E e \in Event : RecordNext(s, e)
    \/ FinishPush(s)
    \/ DropAnswer(s)

Next ==
    \/ \E e \in Event : Remember(e) \/ Backoff(e) \/ RetryDue(e)
    \/ \E a \in Agent : SyncCall(a)
    \/ Sidecar
    \/ AnswerTruncated
    \/ Cleanup
    \/ SidecarCrash
    \/ \E s \in Slot : Gateway(s) \/ PushBusy(s) \/ PushFatal(s)
    \/ GatewayCrash
    \/ NewEpoch
    \/ \E w \in Worker : Reconcile(w) \/ ReconcileFault(w)

Spec == Init /\ [][Next]_vars

\* Fairness.  The heartbeat thread syncs every 300 s whatever the agents do,
\* the sidecar and the gateway threads run on, clocks advance, and the worker
\* polls without end.  Nothing is assumed of remember, cleanup or a fault.
Fairness ==
    /\ WF_vars(Sidecar)
    /\ WF_vars(\E a \in Agent : SyncCall(a))
    /\ \A e \in Event : WF_vars(Backoff(e)) /\ WF_vars(RetryDue(e))
    /\ \A s \in Slot : WF_vars(Gateway(s))
    /\ \A w \in Worker : WF_vars(Reconcile(w))

FairSpec == Spec /\ Fairness
-----------------------------------------------------------------------------
(* What the composition promises.                                           *)

\* A receipt that says "stored", "in review" or "already known" is true: the
\* ledger has applied the event with that very result, whatever answers were
\* lost, late, repeated or dropped on the way (mark_terminal, the duplicate
\* branch of record_proposed_event).
ConfirmedMeansApplied ==
    \A e \in Event : receipt[e] \in ResultCode =>
        status[e] = "applied" /\ fixedReceipt[e] = receipt[e]

\* The outbox gives an accepted event up only after it has stored a final
\* receipt for it: no crash or cleanup loses a write without a trace.
NoSilentLoss ==
    \A e \in accepted : rowState[e] \in {"none", "acked", "dead_letter"} => receipt[e] # "none"

\* No device sequence number is ever used for two recorded events, so the
\* UNIQUE (device_id, device_seq) index never fails a push, although numbers
\* are committed before rows and a crash may fall in between.
DeviceSeqUnique ==
    \A e, f \in Recorded : ledgerSeq[e] = ledgerSeq[f] => e = f

\* last_contiguous_event_seq claims no number that was not received.
ContiguousPrefix ==
    \A k \in 1 .. contiguous : Received(k)

\* A row with a final answer never becomes sendable again (mark_retryable and
\* mark_terminal do not look at the state they overwrite); it may only be
\* cleaned up.
FinalRowsStay ==
    [][\A e \in Event :
        /\ rowState[e] = "acked" => rowState'[e] \in {"acked", "none"}
        /\ rowState[e] = "dead_letter" => rowState'[e] = "dead_letter"]_rowState

\* Valid content, which neither the gateway's nor the backend's check refuses.
Valid == {e \in Event : Route[e] \in {"explicit", "review"}}

\* A write that passes every check, and whose id does not come back, is told to be
\* rejected only after a push of it was denied: no lost, late or repeated answer, no
\* reset, crash or error that may be retried turns it down (_push_workspace).
ValidNotRejected ==
    \A e \in Valid : receipt[e] = "rejected" => e \in denied \cup Reusable

\* A valid write that the outbox has accepted is applied by the gateway, and
\* the device learns so, once faults stop.
OfflineWritesArrive ==
    \A e \in Valid : (e \in accepted) ~> (receipt[e] \in ResultCode)

\* A row enters the dead-letter state only for an event that the gateway's ledger has
\* given up as well, or that a push was denied with; while the ledger can still process
\* any other event, the device keeps retrying.
DeadLetterAgrees ==
    \A e \in Event : rowState[e] = "dead_letter" => status[e] = "dead_letter" \/ e \in denied

\* The promise of module Delivery: an accepted write is decided once, and the device is
\* told once, exactly what was decided, or "rejected" when a push of the write was denied.
Told == [e \in Event |-> receipt[e]]
Decision ==
    [e \in Event |->
        IF status[e] = "applied" THEN fixedReceipt[e]
        ELSE IF status[e] = "dead_letter" \/ (Route[e] = "invalid" /\ receipt[e] = "rejected")
        THEN "rejected" ELSE "none"]
Abstract == INSTANCE Delivery WITH custody <- accepted, decision <- Decision, told <- Told
DeliveryPromise == Abstract!Spec

-----------------------------------------------------------------------------
(* The inductive invariant behind the safety properties.                     *)

\* The sidecar waits only for a request it has sent, and prepares a real event.
ControlInv ==
    /\ pc = "wait" => cur \in Slot
    /\ pc = "prepared" => prepared \in Event
    /\ pc # "idle" => who \in Agent

\* Every result code on its way to the device, wherever it is, is the fixed
\* receipt of its event: in a handler's answer, in the sidecar's hands, and in
\* the stored receipt.
AnswersTrue ==
    \A e \in Event :
        /\ \A s \in Slot : hres[s][e] \in ResultCode => fixedReceipt[e] = hres[s][e]
        /\ resp[e] \in ResultCode => fixedReceipt[e] = resp[e]
        /\ receipt[e] \in ResultCode => fixedReceipt[e] = receipt[e]

SyncInv == TypeOK /\ RecInv /\ ControlInv /\ AnswersTrue /\ NoSilentLoss /\ ContiguousPrefix

\* A row that a push works on is in flight until its verdict is applied.
TodoInv ==
    /\ \A e \in todo : rowState[e] = "in_flight"
    /\ pc \notin {"post", "wait", "apply"} => todo = {}

\* Event e carries or has carried the number n: in its row, in a request, or in
\* the ledger.
Numbered(e, n) ==
    \/ rowSeq[e] = n
    \/ ledgerSeq[e] = n
    \/ \E s \in Slot : hseq[s][e] = n

\* Rows, requests and recorded events have numbers.
HasNumber ==
    /\ pc = "prepared" => deviceSeq # 0
    /\ \A e \in Event : rowState[e] # "none" => rowSeq[e] # 0
    /\ \A e \in Recorded : ledgerSeq[e] # 0
    /\ \A s \in Slot : \A e \in htodo[s] : hseq[s][e] # 0

\* A number in use has been handed out, is not the one that waits for its row,
\* and belongs to one event.
NumberOwned ==
    \A e \in Event : \A n \in Nat \ {0} : Numbered(e, n) =>
        /\ n <= deviceSeq
        /\ pc = "prepared" => n # deviceSeq
        /\ \A f \in Event : Numbered(f, n) => f = e

RowsInv == TodoInv /\ HasNumber /\ NumberOwned

\* An answer that gives an event up repeats what the ledger has decided, or denies the push.
GivesUpOnlyWithLedger(e, v) ==
    /\ v = "fatal" => e \in denied
    /\ v = "dead_letter" => status[e] = "dead_letter"
GivenUpInv ==
    \A e \in Event :
        /\ \A s \in Slot : GivesUpOnlyWithLedger(e, hres[s][e])
        /\ GivesUpOnlyWithLedger(e, resp[e])
        /\ rowState[e] = "dead_letter" => status[e] = "dead_letter" \/ e \in denied

\* An id that never comes back gets one number, when it is accepted.
OneNumber ==
    /\ pc = "prepared" => prepared \in Event /\ (prepared \notin Reusable => prepared \notin accepted)
    /\ \A e \in Event \ Reusable : \A m \in Nat \ {0} : Numbered(e, m) =>
         e \in accepted /\ \A n \in Nat \ {0} : Numbered(e, n) => m = n

\* "rejected" is said only of events that the gateway's own checks refuse, which it never
\* records, that the ledger has given up, or that a push was denied with.
DecidedInv ==
    \A e \in Event :
        IF Route[e] = "invalid" THEN status[e] = "none"
        ELSE e \notin Reusable =>
             /\ resp[e] = "rejected" => e \in denied
             /\ \A s \in Slot : hres[s][e] = "rejected" => e \in denied
             /\ receipt[e] = "rejected" => status[e] = "dead_letter" \/ e \in denied

\* Nothing is told before a write is accepted, nor while its row can still be sent.
ToldInv ==
    \A e \in Event \ Reusable : receipt[e] # "none" =>
        e \in accepted /\ rowState[e] \in {"none", "acked", "dead_letter"}
=============================================================================
