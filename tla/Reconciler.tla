----------------------------- MODULE Reconciler -----------------------------
(***************************************************************************)
(* The reconciliation worker (reconcile.py) between two databases that      *)
(* share no transaction: the metadata database with the event ledger, and   *)
(* the long-term memory backend (gbrain_backend.py).  A worker holds a row  *)
(* lock on one ledger event (FOR UPDATE SKIP LOCKED) from WorkerTake until  *)
(* its metadata transaction commits or is rolled back; the backend commits  *)
(* on its own in between.                                                   *)
(***************************************************************************)
EXTENDS EventLedger

CONSTANTS
    Worker,     \* worker processes
    NoEvent     \* "this worker holds no row"

ASSUME NoEventAssumption == NoEvent \notin Event

VARIABLES
    lock,        \* [Worker -> Event or NoEvent], the locked ledger row
    stage,       \* [Worker -> Stage], where the worker is with it
    retryWait,   \* events whose next_retry_at has not come
    bound,       \* sources with a row in external_memory_bindings
    candidates,  \* [Event -> Nat], rows of review_candidates
    facts,       \* [Event -> Nat], facts of the backend made for the event
    factKeys     \* events whose key is in memory_gateway_bindings

gbrainVars == <<facts, factKeys>>
workerVars == <<lock, stage, retryWait, bound, candidates, gbrainVars>>

\* "fresh": no binding was found for its source; "duplicate": one was found;
\* "upserted": the backend has answered, the metadata commit is still to come.
Stage == {"idle", "fresh", "duplicate", "upserted"}

WorkerTypeOK ==
    /\ lock \in [Worker -> Event \cup {NoEvent}]
    /\ stage \in [Worker -> Stage]
    /\ retryWait \in SUBSET Event
    /\ bound \in SUBSET Source
    /\ candidates \in [Event -> Nat]
    /\ facts \in [Event -> Nat]
    /\ factKeys \in SUBSET Event

WorkerInit ==
    /\ lock = [w \in Worker |-> NoEvent]
    /\ stage = [w \in Worker |-> "idle"]
    /\ retryWait = {}
    /\ bound = {}
    /\ candidates = [e \in Event |-> 0]
    /\ facts = [e \in Event |-> 0]
    /\ factKeys = {}

-----------------------------------------------------------------------------
\* Mutant: the row is read without FOR UPDATE.
TakeableUnlocked ==
    {e \in Event : /\ status[e] \in {"pending", "retryable_failed"}
                   /\ e \notin retryWait}

\* Rows a worker may take: open, due, and not locked by another worker.
Takeable ==
    {e \in Event : /\ status[e] \in {"pending", "retryable_failed"}
                   /\ e \notin retryWait
                   /\ \A v \in Worker : lock[v] # e}

\* The head of reconcile_once: lock the oldest takeable row, decrypt it, and
\* look for a binding of its source.  An event that cannot be decrypted never
\* gets as far as the binding.
WorkerTake(w, e) ==
    /\ lock[w] = NoEvent
    /\ e \in Takeable
    /\ \A f \in Takeable : receivedAt[e] <= receivedAt[f]
    /\ lock' = [lock EXCEPT ![w] = e]
    /\ stage' = [stage EXCEPT ![w] =
            IF Route[e] # "corrupt" /\ SourceOf[e] \in bound THEN "duplicate" ELSE "fresh"]
    /\ UNCHANGED <<retryWait, bound, candidates, gbrainVars>>
    /\ UNCHANGED ledgerVars

\* The commit or rollback that ends the worker's metadata transaction.
Release(w) ==
    /\ lock' = [lock EXCEPT ![w] = NoEvent]
    /\ stage' = [stage EXCEPT ![w] = "idle"]

\* The part every successful outcome shares: status applied, the fixed receipt
\* (ON CONFLICT DO NOTHING) and the binding of the source.
Applied(e, code) ==
    /\ status' = [status EXCEPT ![e] = "applied"]
    /\ fixedReceipt' = [fixedReceipt EXCEPT ![e] = IF @ = "none" THEN code ELSE @]
    /\ UNCHANGED <<ledgerSeq, receivedAt, contiguous>>

RegisterBinding(e) ==
    bound' = bound \cup ({SourceOf[e]} \cap Source)

\* _complete_source_duplicate
CompleteSourceDuplicate(w) ==
    /\ stage[w] = "duplicate"
    /\ Applied(lock[w], "source_duplicate")
    /\ Release(w)
    /\ UNCHANGED <<retryWait, bound, candidates, gbrainVars>>

\* _create_review_candidate
CreateReviewCandidate(w) ==
    /\ stage[w] = "fresh"
    /\ Route[lock[w]] = "review"
    /\ candidates' = [candidates EXCEPT ![lock[w]] = @ + 1]
    /\ Applied(lock[w], "candidate_created")
    /\ RegisterBinding(lock[w])
    /\ Release(w)
    /\ UNCHANGED <<retryWait, gbrainVars>>

\* Mutant: the backend does not look for the idempotency key.
UpsertWithoutKey(e) ==
    /\ factKeys' = factKeys \cup {e}
    /\ facts' = [facts EXCEPT ![e] = @ + 1]

\* upsert_confirmed of the backend: one fact per idempotency key.
UpsertConfirmed(e) ==
    /\ factKeys' = factKeys \cup {e}
    /\ facts' = [facts EXCEPT ![e] = IF e \in factKeys THEN @ ELSE @ + 1]

\* The backend commits and the worker gets its reference.
Upsert(w) ==
    /\ stage[w] = "fresh"
    /\ Route[lock[w]] = "explicit"
    /\ UpsertConfirmed(lock[w])
    /\ stage' = [stage EXCEPT ![w] = "upserted"]
    /\ UNCHANGED <<lock, retryWait, bound, candidates>>
    /\ UNCHANGED ledgerVars

\* The tail of reconcile_once: the metadata commit after the backend's.
CommitApplied(w) ==
    /\ stage[w] = "upserted"
    /\ Applied(lock[w], "candidate_confirmed")
    /\ RegisterBinding(lock[w])
    /\ Release(w)
    /\ UNCHANGED <<retryWait, candidates, gbrainVars>>

\* _mark_retryable, after an error of the backend.
MarkEventRetryable(e) ==
    /\ status' = [status EXCEPT ![e] = "retryable_failed"]
    /\ retryWait' = retryWait \cup {e}
    /\ UNCHANGED <<ledgerSeq, receivedAt, fixedReceipt, contiguous>>

\* Mutant: the source is bound although nothing was stored.
UpsertFailsButBinds(w) ==
    /\ stage[w] = "fresh"
    /\ Route[lock[w]] = "explicit"
    /\ MarkEventRetryable(lock[w])
    /\ RegisterBinding(lock[w])
    /\ Release(w)
    /\ UNCHANGED <<candidates, gbrainVars>>

\* The backend is not reached, or refuses before it commits.
UpsertFails(w) ==
    /\ stage[w] = "fresh"
    /\ Route[lock[w]] = "explicit"
    /\ MarkEventRetryable(lock[w])
    /\ Release(w)
    /\ UNCHANGED <<bound, candidates, gbrainVars>>

\* The backend commits, but its answer is lost (a timeout, a broken connection).
UpsertAnswerLost(w) ==
    /\ stage[w] = "fresh"
    /\ Route[lock[w]] = "explicit"
    /\ UpsertConfirmed(lock[w])
    /\ MarkEventRetryable(lock[w])
    /\ Release(w)
    /\ UNCHANGED <<bound, candidates>>

\* _mark_dead_letter: EVENT_DECRYPT_FAILED or GBRAIN_SECURITY_REJECTED.
MarkEventDeadLetter(w) ==
    /\ stage[w] = "fresh"
    /\ Route[lock[w]] \in {"corrupt", "unsafe"}
    /\ status' = [status EXCEPT ![lock[w]] = "dead_letter"]
    /\ Release(w)
    /\ UNCHANGED <<ledgerSeq, receivedAt, fixedReceipt, contiguous>>
    /\ UNCHANGED <<retryWait, bound, candidates, gbrainVars>>

\* The worker dies or loses the metadata database: PostgreSQL rolls its
\* transaction back and drops the row lock.
WorkerCrash(w) ==
    /\ lock[w] # NoEvent
    /\ Release(w)
    /\ UNCHANGED <<retryWait, bound, candidates, gbrainVars>>
    /\ UNCHANGED ledgerVars

\* now() reaches next_retry_at.
RetryElapses(e) ==
    /\ e \in retryWait
    /\ retryWait' = retryWait \ {e}
    /\ UNCHANGED <<lock, stage, bound, candidates, gbrainVars>>
    /\ UNCHANGED ledgerVars

\* One step of a worker that is not a fault.
WorkerStep(w) ==
    \/ \E e \in Event : WorkerTake(w, e)
    \/ CompleteSourceDuplicate(w)
    \/ CreateReviewCandidate(w)
    \/ Upsert(w)
    \/ CommitApplied(w)
    \/ MarkEventDeadLetter(w)

-----------------------------------------------------------------------------
(* The reconciler on its own: events arrive, any number of workers process  *)
(* them, and every fault may happen at any time and without end.            *)

\* A push has recorded e; its number is the number of events so far.
Arrives(e) ==
    /\ status[e] = "none"
    /\ RecordProposedEvent(e, Cardinality(Recorded) + 1)
    /\ UNCHANGED workerVars

WorkerNext ==
    \/ \E e \in Event : Arrives(e) \/ RetryElapses(e)
    \/ \E w \in Worker : \/ WorkerStep(w)
                         \/ UpsertFails(w)
                         \/ UpsertAnswerLost(w)
                         \/ WorkerCrash(w)

reconcilerVars == <<ledgerVars, workerVars>>

RecInit == LedgerInit /\ WorkerInit

WorkerSpec == RecInit /\ [][WorkerNext]_reconcilerVars

\* The number of facts and candidates that event e has made.
Effects(e) == facts[e] + candidates[e]

\* Row locks exclude: two workers never work on one event, and nobody works
\* on an event that has reached a final state, so no event is applied twice or
\* applied after it was given up (FOR UPDATE SKIP LOCKED in reconcile_once).
OneWorkerPerEvent ==
    \A w \in Worker : lock[w] # NoEvent =>
        /\ status[lock[w]] \in {"pending", "retryable_failed"}
        /\ \A v \in Worker : lock[v] = lock[w] => v = w

\* However often an event is pushed, retried, interrupted or taken up again
\* after a crash between the two databases, it makes at most one fact or one
\* review candidate; a receipt that names a fact or a candidate is true, no
\* candidate exists without its receipt, and an event that was given up has
\* left nothing behind (reconcile_once, upsert_confirmed, _mark_dead_letter).
ExactlyOnceEffect ==
    \A e \in Event :
        /\ Effects(e) <= 1
        /\ fixedReceipt[e] = "candidate_confirmed" => facts[e] = 1
        /\ fixedReceipt[e] = "candidate_created" <=> candidates[e] = 1
        /\ status[e] = "dead_letter" => Effects(e) = 0

\* A final state is final: no retry, crash or late worker reopens an applied or
\* dead-lettered event or changes its receipt.
ClosedEventsStay ==
    [][\A e \in Event : status[e] \in {"applied", "dead_letter"} =>
            status'[e] = status[e] /\ fixedReceipt'[e] = fixedReceipt[e]]_ledgerVars

\* Every source that was answered "source_duplicate" has a fact or a candidate
\* that came from that source: a duplicate is never dropped in favour of
\* something that was not stored (_existing_external_binding).
DuplicateHasOriginal ==
    \A e \in Event : fixedReceipt[e] = "source_duplicate" =>
        \E f \in Event \ {e} : SourceOf[f] = SourceOf[e] /\ status[f] = "applied" /\ Effects(f) = 1

-----------------------------------------------------------------------------
(* The inductive invariant behind the safety properties.                     *)

RecTypeOK == LedgerTypeOK /\ WorkerTypeOK

\* A worker that holds a row knows what it needs to know about it.
LockInv ==
    /\ \A w \in Worker : lock[w] = NoEvent <=> stage[w] = "idle"
    /\ OneWorkerPerEvent
    /\ \A w \in Worker : stage[w] = "upserted" => lock[w] \in factKeys
    /\ \A w \in Worker : stage[w] = "duplicate" => SourceOf[lock[w]] \in bound

\* What receipts and routes say about facts and candidates.
EffectInv ==
    \A e \in Event :
        /\ status[e] = "applied" <=> fixedReceipt[e] # "none"
        /\ facts[e] = IF e \in factKeys THEN 1 ELSE 0
        /\ candidates[e] = IF fixedReceipt[e] = "candidate_created" THEN 1 ELSE 0
        /\ e \in factKeys => Route[e] = "explicit"
        /\ fixedReceipt[e] = "candidate_created" => Route[e] = "review"
        /\ fixedReceipt[e] = "candidate_confirmed" => e \in factKeys
        /\ status[e] = "dead_letter" => Route[e] \in {"corrupt", "unsafe"}

\* A bound source has an applied original; a duplicate has a bound source.
SourceInv ==
    /\ \A p \in bound : \E f \in Event :
            SourceOf[f] = p /\ fixedReceipt[f] \in {"candidate_confirmed", "candidate_created"}
    /\ \A e \in Event : fixedReceipt[e] = "source_duplicate" => SourceOf[e] \in bound

RecInv == RecTypeOK /\ LockInv /\ EffectInv /\ SourceInv
=============================================================================
