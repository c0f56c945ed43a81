---------------------------- MODULE EventLedger -----------------------------
(***************************************************************************)
(* The gateway's event ledger for one device (metadata_store.py, the        *)
(* gateway_events and event_receipts tables, and the contiguous sequence    *)
(* that sync_service.py keeps on the device row).  Each operation is one    *)
(* PostgreSQL transaction.                                                  *)
(***************************************************************************)
EXTENDS MemoryEvents, Naturals, FiniteSets

ASSUME FiniteAssumption == IsFiniteSet(Event)

VARIABLES
    status,        \* [Event -> LedgerStatus], gateway_events.status
    ledgerSeq,     \* [Event -> Nat], gateway_events.device_seq; the payload hash
                   \*   covers it, so it also tells two payloads of one id apart
    receivedAt,    \* [Event -> Nat], gateway_events.received_at as an order
    fixedReceipt,  \* [Event -> ResultCode or "none"], event_receipts.result_code
    contiguous     \* devices.last_contiguous_event_seq

ledgerVars == <<status, ledgerSeq, receivedAt, fixedReceipt, contiguous>>

LedgerStatus == {"none", "pending", "retryable_failed", "applied", "dead_letter"}

LedgerTypeOK ==
    /\ status \in [Event -> LedgerStatus]
    /\ ledgerSeq \in [Event -> Nat]
    /\ receivedAt \in [Event -> Nat]
    /\ fixedReceipt \in [Event -> ResultCode \cup {"none"}]
    /\ contiguous \in Nat

LedgerInit ==
    /\ status = [e \in Event |-> "none"]
    /\ ledgerSeq = [e \in Event |-> 0]
    /\ receivedAt = [e \in Event |-> 0]
    /\ fixedReceipt = [e \in Event |-> "none"]
    /\ contiguous = 0

Recorded == {e \in Event : status[e] # "none"}

\* Mutants: a recorded event counts as applied; the duplicate answer carries a
\* fixed code instead of the stored receipt.
AnswerTooEarly(e, n) ==
    IF Route[e] = "invalid" THEN "rejected"
    ELSE IF status[e] = "none" THEN "pending"
    ELSE IF ledgerSeq[e] # n THEN "rejected"
    ELSE IF status[e] \in {"applied", "pending"} THEN "candidate_confirmed"
    ELSE status[e]

AnswerWithoutReceipt(e, n) ==
    IF Route[e] = "invalid" THEN "rejected"
    ELSE IF status[e] = "none" THEN "pending"
    ELSE IF ledgerSeq[e] # n THEN "rejected"
    ELSE IF status[e] = "applied" THEN "candidate_confirmed"
    ELSE status[e]

\* The answer record_proposed_event gives for event e sent with number n.  An
\* applied event is answered "duplicate" together with its fixed receipt; the
\* model returns the receipt's result code.
Answer(e, n) ==
    IF Route[e] = "invalid" THEN "rejected"
    ELSE IF status[e] = "none" THEN "pending"
    ELSE IF ledgerSeq[e] # n THEN "rejected"          \* EVENT_ID_REUSE
    ELSE IF status[e] = "applied" THEN fixedReceipt[e]
    ELSE status[e]

\* record_proposed_event: insert the event as pending unless its id is known.
RecordProposedEvent(e, n) ==
    IF Route[e] # "invalid" /\ status[e] = "none"
    THEN /\ status' = [status EXCEPT ![e] = "pending"]
         /\ ledgerSeq' = [ledgerSeq EXCEPT ![e] = n]
         /\ receivedAt' = [receivedAt EXCEPT ![e] = Cardinality(Recorded) + 1]
         /\ UNCHANGED <<fixedReceipt, contiguous>>
    ELSE UNCHANGED ledgerVars

\* Received n: some recorded event carries the number n.
Received(n) == \E e \in Recorded : ledgerSeq[e] = n

\* Mutant: gaps are not looked for.
AdvanceOverGaps ==
    /\ contiguous' \in {contiguous} \cup {ledgerSeq[e] : e \in Recorded}
    /\ contiguous' >= contiguous
    /\ \A e \in Recorded : ledgerSeq[e] <= contiguous'
    /\ UNCHANGED <<status, ledgerSeq, receivedAt, fixedReceipt>>

\* _advance_contiguous_sequence: follow the recorded numbers up to the first
\* gap.  The scan of at most 1001 numbers is not bounded here.
AdvanceContiguous ==
    /\ contiguous' \in {contiguous} \cup {ledgerSeq[e] : e \in Recorded}
    /\ contiguous' >= contiguous
    /\ \A k \in (contiguous + 1) .. contiguous' : Received(k)
    /\ ~Received(contiguous' + 1)
    /\ UNCHANGED <<status, ledgerSeq, receivedAt, fixedReceipt>>
=============================================================================
