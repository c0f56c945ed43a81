------------------------------- MODULE Outbox -------------------------------
(***************************************************************************)
(* The encrypted outbox of one device's sidecar (outbox.py): a SQLite file  *)
(* that a single process holds, with one row per queued memory event, one   *)
(* receipt per event that got a final answer, and the device sequence       *)
(* counter.  Every operation below is one SQLite transaction of the code;   *)
(* a crash falls between two of them, never inside one.  Payloads, ciphers, *)
(* error codes and timestamps are left out; the retry time of a row is the  *)
(* Boolean "due".                                                           *)
(***************************************************************************)
EXTENDS MemoryEvents, Naturals, FiniteSets

CONSTANT
    BatchMax    \* rows one push may carry (100 in the code)

ASSUME BatchMaxAssumption == BatchMax \in Nat \ {0}

VARIABLES
    deviceSeq,  \* outbox_state.device_seq, the last number handed out
    rowState,   \* [Event -> RowState], outbox_events_v3.state
    rowSeq,     \* [Event -> Nat], outbox_events_v3.device_seq (0: no row)
    rowDue,     \* [Event -> BOOLEAN], next_attempt_at is NULL or has passed
    receipt     \* [Event -> LocalReceipt], event_receipts_v1

outboxVars == <<deviceSeq, rowState, rowSeq, rowDue, receipt>>

RowState == {"none", "pending", "in_flight", "retryable_failed", "acked", "dead_letter"}

\* What the device remembers of the final answer; a receipt that carries a
\* result code has status "applied" or "duplicate".
LocalReceipt == {"none", "rejected"} \cup ResultCode

OutboxTypeOK ==
    /\ deviceSeq \in Nat
    /\ rowState \in [Event -> RowState]
    /\ rowSeq \in [Event -> Nat]
    /\ rowDue \in [Event -> BOOLEAN]
    /\ receipt \in [Event -> LocalReceipt]

OutboxInit ==
    /\ deviceSeq = 0
    /\ rowState = [e \in Event |-> "none"]
    /\ rowSeq = [e \in Event |-> 0]
    /\ rowDue = [e \in Event |-> FALSE]
    /\ receipt = [e \in Event |-> "none"]

-----------------------------------------------------------------------------
(* Operations.  Each constrains the outbox variables only.                  *)

\* Mutant: the number is derived from the rows instead of a stored counter, and
\* starts again when the outbox is empty.
PrepareEventRestarts ==
    /\ deviceSeq' = IF \A e \in Event : rowState[e] = "none" THEN 1 ELSE deviceSeq + 1
    /\ UNCHANGED <<rowState, rowSeq, rowDue, receipt>>

\* prepare_event: hand out the next device sequence number.
PrepareEvent ==
    /\ deviceSeq' = deviceSeq + 1
    /\ UNCHANGED <<rowState, rowSeq, rowDue, receipt>>

\* enqueue succeeds only when neither the id nor the number has a row.
CanEnqueue(e, n) ==
    /\ rowState[e] = "none"
    /\ \A f \in Event : rowState[f] # "none" => rowSeq[f] # n

Enqueue(e, n) ==
    /\ CanEnqueue(e, n)
    /\ rowState' = [rowState EXCEPT ![e] = "pending"]
    /\ rowSeq' = [rowSeq EXCEPT ![e] = n]
    /\ rowDue' = [rowDue EXCEPT ![e] = TRUE]
    /\ UNCHANGED <<deviceSeq, receipt>>

\* list_events: the rows a sync may send now.
Sendable == {e \in Event : rowState[e] \in {"pending", "retryable_failed"} /\ rowDue[e]}

\* The first BatchMax of them in device_seq order.
FirstBatch ==
    {e \in Sendable : Cardinality({f \in Sendable : rowSeq[f] < rowSeq[e]}) < BatchMax}

MarkInFlight(B) ==
    /\ rowState' = [e \in Event |->
            IF e \in B /\ rowState[e] \in {"pending", "retryable_failed"}
            THEN "in_flight" ELSE rowState[e]]
    /\ UNCHANGED <<deviceSeq, rowSeq, rowDue, receipt>>

\* mark_retryable has no guard on the state of the row; "at_once" is a
\* retry_after of zero seconds.
MarkRetryable(e, at_once) ==
    /\ IF rowState[e] = "none"
       THEN UNCHANGED <<rowState, rowDue>>
       ELSE /\ rowState' = [rowState EXCEPT ![e] = "retryable_failed"]
            /\ rowDue' = [rowDue EXCEPT ![e] = at_once]
    /\ UNCHANGED <<deviceSeq, rowSeq, receipt>>

\* Mutant: the row is acknowledged without the receipt.
MarkTerminalNoReceipt(e, r) ==
    /\ rowState' = [rowState EXCEPT ![e] = IF @ = "none" THEN "none" ELSE "acked"]
    /\ UNCHANGED <<deviceSeq, rowSeq, rowDue, receipt>>

\* mark_terminal: the row, if it is still there, and the receipt together.
MarkTerminal(e, r) ==
    /\ rowState' = [rowState EXCEPT ![e] = IF @ = "none" THEN "none" ELSE "acked"]
    /\ receipt' = [receipt EXCEPT ![e] = r]
    /\ UNCHANGED <<deviceSeq, rowSeq, rowDue>>

\* Mutant: the receipt is given a status that no reader of receipts knows.
MarkDeadLetterOwnStatus(e) ==
    /\ rowState' = [rowState EXCEPT ![e] = IF @ = "none" THEN "none" ELSE "dead_letter"]
    /\ receipt' = [receipt EXCEPT ![e] = IF rowState[e] = "none" THEN @ ELSE "dead_letter"]
    /\ UNCHANGED <<deviceSeq, rowSeq, rowDue>>

\* mark_dead_letter writes the receipt only if the row was there.
MarkDeadLetter(e) ==
    /\ rowState' = [rowState EXCEPT ![e] = IF @ = "none" THEN "none" ELSE "dead_letter"]
    /\ receipt' = [receipt EXCEPT ![e] = IF rowState[e] = "none" THEN @ ELSE "rejected"]
    /\ UNCHANGED <<deviceSeq, rowSeq, rowDue>>

\* cleanup_acked and remove: only acknowledged rows leave the outbox.
CleanupAcked ==
    /\ rowState' = [e \in Event |-> IF rowState[e] = "acked" THEN "none" ELSE rowState[e]]
    /\ rowSeq' = [e \in Event |-> IF rowState[e] = "acked" THEN 0 ELSE rowSeq[e]]
    /\ rowDue' = [e \in Event |-> IF rowState[e] = "acked" THEN FALSE ELSE rowDue[e]]
    /\ UNCHANGED <<deviceSeq, receipt>>

\* Mutants: opening the file leaves rows in flight, or takes back every row
\* that has been sent.
ReopenKeepsInFlight == UNCHANGED outboxVars

ReopenTakesAllBack ==
    /\ rowState' = [e \in Event |->
            IF rowState[e] \in {"in_flight", "acked"} THEN "retryable_failed" ELSE rowState[e]]
    /\ rowDue' = [e \in Event |-> rowDue[e] \/ rowState[e] = "in_flight"]
    /\ UNCHANGED <<deviceSeq, rowSeq, receipt>>

\* The tail of _init_schema: what opening the file does to rows that a dead
\* process left in flight.
Reopen ==
    /\ rowState' = [e \in Event |->
            IF rowState[e] = "in_flight" THEN "retryable_failed" ELSE rowState[e]]
    /\ rowDue' = [e \in Event |-> rowDue[e] \/ rowState[e] = "in_flight"]
    /\ UNCHANGED <<deviceSeq, rowSeq, receipt>>

\* Time passes next_attempt_at of a row that waits for a retry.
BackoffElapses(e) ==
    /\ rowState[e] = "retryable_failed"
    /\ ~rowDue[e]
    /\ rowDue' = [rowDue EXCEPT ![e] = TRUE]
    /\ UNCHANGED <<deviceSeq, rowState, rowSeq, receipt>>
=============================================================================
