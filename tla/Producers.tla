------------------------------ MODULE Producers ------------------------------
(***************************************************************************)
(* The programs that feed existing memories into the system: the importer  *)
(* of a previewed batch (importer.py), the Memory OS share job             *)
(* (memory_os_share.py) and the local providers of the sidecar             *)
(* (local_provider.py).  Each keeps its own log of what it has submitted,  *)
(* apart from the outbox, and calls the sidecar over a loopback RPC.       *)
(*                                                                         *)
(* The push path is EventSync's; here a sync hands any queued events to    *)
(* the ledger and collects the answers it has, in one step, because the    *)
(* daemon serialises its calls.  An event id is a record and a number: the *)
(* importer and the share job derive one id from a record, a local         *)
(* provider makes a new one each time.                                     *)
(***************************************************************************)
EXTENDS Naturals, Sequences, FiniteSets

CONSTANTS
  Import, Share, Local,   \* records of the three producers; numbers order the preview
  Jobs,                   \* the sets of records that a behaviour may be about
  Route,                  \* [Record -> "explicit", "review" or "unsafe"]
  Text,                   \* [Record -> its text]
  MaxIds,                 \* bound: event ids a local provider makes for a record
  MaxFaults               \* bound: lost answers and crashes

Record == Import \cup Share \cup Local
Event == (Import \cup Share) \X {1} \cup Local \X (1..MaxIds)

ASSUME ProducersAssumption ==
  /\ Import \subseteq Nat
  /\ (Import \cup Share) \cap Local = {}
  /\ Jobs \subseteq SUBSET Record
  /\ Route \in [Record -> {"explicit", "review", "unsafe"}]
  /\ Record \subseteq DOMAIN Text
  /\ MaxIds \in Nat \ {0} /\ MaxFaults \in Nat

VARIABLES
  jobs,      \* the records of this behaviour
  outbox,    \* [Event -> RowState], rows of the sidecar
  receipt,   \* [Event -> Result], event_receipts_v1
  ledger,    \* [Event -> Result], gateway_events
  bound,     \* [Record -> SUBSET Event], external_memory_bindings, at most one
  mem,       \* [Event -> "none", "active", "archived"], the memory an event made
  file,      \* the importer's state file: exists, and an entry for each record
  run,       \* the importer's running command
  report,    \* what its last command to finish reported
  log,       \* [Share -> LogStatus], share_log
  share,     \* the share job's transaction
  kept,      \* memories that Memory OS has not forgotten
  marks,     \* local_provider_shares
  faults     \* faults so far

gateway == <<ledger, bound, mem>>
sidecar == <<outbox, receipt>>
importer == <<file, run, report>>
memoryOs == <<log, share, kept>>
vars == <<jobs, sidecar, gateway, importer, memoryOs, marks, faults>>

-----------------------------------------------------------------------------
(* The sidecar and the gateway behind it                                   *)

\* The answer to a push, and the receipt kept of it.  "pending" and "retry"
\* (retryable_failed, with an error code) are not final.
Applied == {"candidate_confirmed", "candidate_created", "source_duplicate"}
Final == Applied \cup {"rejected"}
Result == [code : {"none", "pending", "retry"} \cup Final, ref : SUBSET Event]
Plain(code) == [code |-> code, ref |-> {}]

\* "requeued": the ledger has the id already, under another device_seq.
RowState == {"none", "queued", "requeued", "acked", "dead"}
Queued == {e \in Event : outbox[e] \in {"queued", "requeued"}}

\* record_proposed_event: an id that comes back with another device_seq has
\* another payload hash, EVENT_ID_REUSE.
Answer(e, box) ==
  IF box[e] = "requeued" THEN Plain("rejected")
  ELSE IF ledger[e].code = "none" THEN Plain("pending") ELSE ledger[e]

\* sync pushes the events of D.  A dead letter has no receipt at the gateway; the
\* sidecar keeps its row and the rejection.
Push(D, box) ==
  LET closed == {e \in D : Answer(e, box).code \in Final}
      row(e) == IF ledger[e].code = "rejected" /\ box[e] = "queued" THEN "dead" ELSE "acked"
  IN /\ ledger' = [e \in Event |-> IF e \in D /\ ledger[e].code = "none" THEN Plain("pending") ELSE ledger[e]]
     /\ outbox' = [e \in Event |-> IF e \in closed THEN row(e) ELSE box[e]]
     /\ receipt' = [e \in Event |-> IF e \in closed THEN Answer(e, box) ELSE receipt[e]]
     /\ UNCHANGED <<bound, mem>>

\* Offline, or before the back-off has passed, nothing is pushed.
Sync(D) == D \subseteq Queued /\ Push(D, outbox)

\* remember raises if the id is still in the outbox.
Refuses(e) == outbox[e] # "none"

Enqueued(e) == [outbox EXCEPT ![e] = IF ledger[e].code = "none" THEN "queued" ELSE "requeued"]

\* remember: enqueue, then sync.
Remember(e, D) == ~Refuses(e) /\ D \subseteq Queued \cup {e} /\ Push(D, Enqueued(e))

\* What remember returns: the answer of its own sync, or "queued".
Returned(e, D) == IF e \in D THEN Answer(e, Enqueued(e)) ELSE Plain("none")

\* The heartbeat, or another agent of the device, syncs.
Heartbeat(D) ==
  /\ D # {} /\ Sync(D)
  /\ UNCHANGED <<jobs, importer, memoryOs, marks, faults>>

\* cleanup_confirmed
Cleanup ==
  /\ \E e \in Event : outbox[e] = "acked"
  /\ outbox' = [e \in Event |-> IF outbox[e] = "acked" THEN "none" ELSE outbox[e]]
  /\ UNCHANGED <<jobs, receipt, gateway, importer, memoryOs, marks, faults>>

Open(e) == ledger[e].code \in {"pending", "retry"}
Decides(e, v) == ledger' = [ledger EXCEPT ![e] = v]
OnlyGateway == UNCHANGED <<jobs, sidecar, importer, memoryOs, marks, faults>>

\* Mutant: the bindings of external sources are not looked at.
DecideAlways(e) ==
  LET r == e[1] IN
  /\ Open(e)
  /\ Decides(e, [code |-> "candidate_confirmed", ref |-> {e}])
  /\ mem' = [mem EXCEPT ![e] = "active"]
  /\ bound' = [bound EXCEPT ![r] = {e}]
  /\ OnlyGateway

\* The worker closes an event (Reconciler): a known source is a duplicate, the
\* backend refuses unsafe text, and the rest is stored or becomes a candidate.
Decide(e) ==
  LET r == e[1] IN
  /\ Open(e)
  /\ \/ /\ bound[r] # {}
        /\ Decides(e, [code |-> "source_duplicate", ref |-> {b \in bound[r] : mem[b] # "none"}])
        /\ UNCHANGED <<bound, mem>>
     \/ /\ bound[r] = {} /\ Route[r] = "unsafe"
        /\ Decides(e, Plain("rejected"))
        /\ UNCHANGED <<bound, mem>>
     \/ /\ bound[r] = {} /\ Route[r] = "review"
        /\ Decides(e, Plain("candidate_created"))
        /\ bound' = [bound EXCEPT ![r] = {e}] /\ mem' = mem
     \/ /\ bound[r] = {} /\ Route[r] = "explicit"
        /\ Decides(e, [code |-> "candidate_confirmed", ref |-> {e}])
        /\ bound' = [bound EXCEPT ![r] = {e}] /\ mem' = [mem EXCEPT ![e] = "active"]
  /\ OnlyGateway

\* The backend is not available: GBRAIN_UNAVAILABLE.  (The case that it stores the
\* fact and its answer is lost is Reconciler's.)
Retry(e) ==
  /\ ledger[e].code = "pending" /\ Decides(e, Plain("retry"))
  /\ UNCHANGED <<bound, mem>> /\ OnlyGateway

\* A reviewer confirms the candidate of an event.  No receipt changes.
Confirm(e) ==
  /\ ledger[e].code = "candidate_created" /\ mem[e] = "none"
  /\ mem' = [mem EXCEPT ![e] = "active"]
  /\ UNCHANGED <<ledger, bound>> /\ OnlyGateway

\* forget of the review service: an archived memory is reported as archived.
ForgetMemory(e) == mem' = [mem EXCEPT ![e] = "archived"] /\ UNCHANGED <<ledger, bound>>

Fault == faults < MaxFaults /\ faults' = faults + 1

-----------------------------------------------------------------------------
(* The importer                                                            *)

\* An entry of the state file: what is known of the event of a record.
NoEntry == [there |-> FALSE, ref |-> {}, result |-> "none", error |-> FALSE, archived |-> FALSE]
Idle == [cmd |-> "none", at |-> "none", work |-> [r \in Import |-> NoEntry],
         refs |-> [r \in Import |-> {}], todo |-> {}, bad |-> FALSE]
Id(r) == <<r, 1>>
Batch == jobs \cap Import

\* backend_ref and error of an answer; neither is ever taken back.
Noted(en, v) ==
  [en EXCEPT !.ref = IF v.ref # {} THEN v.ref ELSE @, !.error = @ \/ v.code \in {"rejected", "retry"}]

\* The same with the result code, from a durable receipt.
NotedReceipt(en, v) ==
  [Noted(en, v) EXCEPT !.result = IF v.code \in Applied THEN v.code ELSE @]

\* The memory of an entry was archived.
Archived(en, ref) == [en EXCEPT !.ref = ref, !.archived = TRUE]

ImporterCalls == UNCHANGED <<jobs, memoryOs, marks>>
OnlyImporter == UNCHANGED <<jobs, sidecar, gateway, memoryOs, marks>>

\* apply_preview: IMPORT_STATE_EXISTS without --resume.
ApplyStart(resume) ==
  /\ run = Idle /\ Batch # {}
  /\ file.exists => resume
  /\ file' = [file EXCEPT !.exists = TRUE]
  /\ run' = [Idle EXCEPT !.cmd = "apply", !.at = "records", !.work = file.entries]
  /\ report' = "none"
  /\ OnlyImporter /\ UNCHANGED faults

Missing == {r \in Batch : ~run.work[r].there}

\* The next record of the preview that has no entry.
IsNext(r) == run.cmd = "apply" /\ run.at = "records" /\ r \in Missing /\ \A q \in Missing : r <= q

ApplyRecord(r, D) ==
  /\ IsNext(r)
  /\ Remember(Id(r), D)
  /\ \/ /\ run' = [run EXCEPT !.at = "write",
                     !.work = [@ EXCEPT ![r] = Noted([NoEntry EXCEPT !.there = TRUE], Returned(Id(r), D))]]
        /\ faults' = faults
     \/ Fault /\ run' = Idle          \* killed, or the answer is lost
  /\ ImporterCalls /\ UNCHANGED <<file, report>>

\* LOCAL_INTERNAL_ERROR ends the command; so does an RPC that fails.
ApplyRefused(r) ==
  /\ IsNext(r) /\ Refuses(Id(r))
  /\ run' = Idle
  /\ OnlyImporter /\ UNCHANGED <<file, report, faults>>

\* _atomic_write_json
WriteState ==
  /\ run.at = "write"
  /\ file' = [file EXCEPT !.entries = run.work]
  /\ run' = [run EXCEPT !.at = IF run.cmd = "apply" THEN "records" ELSE "entries"]
  /\ OnlyImporter /\ UNCHANGED <<report, faults>>

\* sync, and its answers.
ImportSync(D) ==
  /\ \/ run.cmd = "apply" /\ run.at = "records" /\ Missing = {}
     \/ run.cmd = "rollback" /\ run.at = "sync"
  /\ Sync(D)
  /\ run' = [run EXCEPT !.at = "receipts",
               !.work = IF run.cmd = "rollback" THEN @
                        ELSE [r \in Import |-> IF Id(r) \in D /\ @[r].there THEN Noted(@[r], Answer(Id(r), outbox))
                                               ELSE @[r]]]
  /\ ImporterCalls /\ UNCHANGED <<file, report, faults>>

Entries(w) == {r \in Import : w[r].there}

\* Mutant: what has no answer yet is taken for done.
ReportOptimist(w) ==
  IF \E r \in Entries(w) : w[r].error THEN "completed_with_errors"
  ELSE IF \E r \in Entries(w) : w[r].result = "candidate_created" THEN "review_pending"
  ELSE "completed"

\* The status that apply returns.
Report(w) ==
  IF \E r \in Entries(w) : w[r].error THEN "completed_with_errors"
  ELSE IF \E r \in Entries(w) : w[r].result = "candidate_created" THEN "review_pending"
  ELSE IF \E r \in Entries(w) : w[r].ref = {} /\ w[r].result # "source_duplicate" THEN "sync_pending"
  ELSE "completed"

\* Mutant: only the answers of the importer's own sync count.
ReceiptsIgnored ==
  /\ run.cmd = "apply" /\ run.at = "receipts"
  /\ file' = [file EXCEPT !.entries = run.work]
  /\ report' = Report(run.work)
  /\ run' = Idle
  /\ OnlyImporter /\ UNCHANGED faults

\* event_receipts, the last write of the state file, and the report.
ApplyReceipts ==
  /\ run.cmd = "apply" /\ run.at = "receipts"
  /\ LET w == [r \in Import |-> IF run.work[r].there /\ receipt[Id(r)].code # "none"
                                THEN NotedReceipt(run.work[r], receipt[Id(r)]) ELSE run.work[r]]
     IN file' = [file EXCEPT !.entries = w] /\ report' = Report(w)
  /\ run' = Idle
  /\ OnlyImporter /\ UNCHANGED faults

\* rollback_batch
RollbackStart ==
  /\ run = Idle /\ file.exists
  /\ run' = [Idle EXCEPT !.cmd = "rollback", !.at = "sync", !.work = file.entries]
  /\ report' = "none"
  /\ OnlyImporter /\ UNCHANGED <<file, faults>>

\* event_receipts: only their references count, not those of the state file.
RollbackReceipts ==
  /\ run.cmd = "rollback" /\ run.at = "receipts"
  /\ LET open == {r \in Entries(run.work) : ~run.work[r].archived}
         known == {r \in open : receipt[Id(r)].ref # {}}
     IN run' = [run EXCEPT !.at = "entries", !.todo = known, !.bad = known # open,
                  !.refs = [r \in Import |-> receipt[Id(r)].ref]]
  /\ OnlyImporter /\ UNCHANGED <<file, report, faults>>

RollbackEntry(r) ==
  /\ run.at = "entries" /\ r \in run.todo
  /\ \E e \in run.refs[r] : ForgetMemory(e)
  /\ \/ /\ run' = [run EXCEPT !.at = "write", !.todo = @ \ {r},
                     !.work = [@ EXCEPT ![r] = Archived(run.work[r], run.refs[r])]]
        /\ faults' = faults
     \/ Fault /\ run' = Idle
  /\ ImporterCalls /\ UNCHANGED <<sidecar, file, report>>

RollbackEnd ==
  /\ run.at = "entries" /\ run.todo = {}
  /\ report' = IF run.bad THEN "rollback_pending" ELSE "rolled_back"
  /\ run' = Idle
  /\ OnlyImporter /\ UNCHANGED <<file, faults>>

\* The command is killed, or a call of the sidecar fails.
ImportStops ==
  /\ run # Idle /\ Fault /\ run' = Idle
  /\ OnlyImporter /\ UNCHANGED <<file, report>>

-----------------------------------------------------------------------------
(* The share job of Memory OS                                              *)

\* "confirmed": applied or duplicate; "failed": any status that is never looked
\* at again.
LogStatus == {"none", "pending", "confirmed", "failed", "forgotten"}
NoShare == [at |-> "none", todo |-> {}, log |-> [s \in Share |-> "none"]]
InFlight == {s \in Share : log[s] = "pending"}
ShareCalls == UNCHANGED <<jobs, importer, marks>>

\* _candidates: active memories without a row in the log.
ShareStart ==
  /\ share = NoShare /\ jobs \cap Share # {}
  /\ share' = [at |-> "reconcile", todo |-> {s \in jobs \cap kept : log[s] = "none"}, log |-> log]
  /\ ShareCalls /\ UNCHANGED <<sidecar, gateway, log, kept, faults>>

\* reconcile_receipts: the answers of this very sync, then commit.
ReconcileShares(D) ==
  /\ share.at = "reconcile"
  /\ D = {} \/ InFlight # {}
  /\ Sync(D)
  /\ log' = [s \in Share |-> IF s \in InFlight /\ Id(s) \in D /\ Answer(Id(s), outbox).code \in Applied
                             THEN "confirmed" ELSE log[s]]
  /\ share' = [share EXCEPT !.at = "push", !.log = log']
  /\ ShareCalls /\ UNCHANGED <<kept, faults>>

\* remember, and the mark of its status; no answer is a failure like any other.
ShareOne(s, D) ==
  /\ share.at = "push" /\ s \in share.todo
  /\ Remember(Id(s), D)
  /\ \/ /\ share' = [share EXCEPT !.todo = @ \ {s},
                       !.log = [@ EXCEPT ![s] =
                                  CASE Returned(Id(s), D).code \in Applied -> "confirmed"
                                    [] Returned(Id(s), D).code \in {"none", "pending"} -> "pending"
                                    [] OTHER -> "failed"]]
        /\ faults' = faults
     \/ Fault /\ share' = [share EXCEPT !.todo = @ \ {s}, !.log = [@ EXCEPT ![s] = "failed"]]
  /\ ShareCalls /\ UNCHANGED <<log, kept>>

\* Nothing is sent: remember raises, or the scan of the text finds something
\* sensitive ("skipped").
ShareRefused(s) ==
  /\ share.at = "push" /\ s \in share.todo
  /\ Refuses(Id(s)) \/ Route[s] = "unsafe"
  /\ share' = [share EXCEPT !.todo = @ \ {s}, !.log = [@ EXCEPT ![s] = "failed"]]
  /\ ShareCalls /\ UNCHANGED <<sidecar, gateway, log, kept, faults>>

\* The one commit of all marks.
ShareCommit ==
  /\ share.at = "push" /\ share.todo = {}
  /\ log' = share.log /\ share' = NoShare
  /\ ShareCalls /\ UNCHANGED <<sidecar, gateway, kept, faults>>

ShareStops ==
  /\ share # NoShare /\ Fault /\ share' = NoShare
  /\ ShareCalls /\ UNCHANGED <<sidecar, gateway, log, kept>>

\* Memory OS forgets s, and forget_shared looks for its text among the memories
\* in force: a copy, or one of another source with the same text, or nothing.
ForgetShared(s) ==
  /\ s \in jobs \cap kept /\ share = NoShare
  /\ kept' = kept \ {s}
  /\ \/ UNCHANGED <<gateway, log, faults>>
     \/ /\ log[s] # "none"
        /\ \E e \in Event : mem[e] = "active" /\ Text[e[1]] = Text[s] /\ ForgetMemory(e)
        /\ \/ log' = [log EXCEPT ![s] = "forgotten"] /\ faults' = faults
           \/ Fault /\ log' = log              \* forget_failed
  /\ ShareCalls /\ UNCHANGED <<sidecar, share>>

-----------------------------------------------------------------------------
(* Local providers, inside the sidecar                                     *)

LocalCalls == UNCHANGED <<jobs, importer, memoryOs>>

\* provider_share_event and record_provider_share
Marked(r) == r \in marks
Mark(r) == marks' = marks \cup {r}

\* Mutant: the mark is written before the event.
ShareLocalMarkFirst(r, e, D) ==
  /\ r \in jobs \cap Local /\ ~Marked(r)
  /\ e \in Event /\ e[1] = r /\ outbox[e] = "none" /\ ledger[e].code = "none"
  /\ Mark(r)
  /\ \/ Remember(e, D) /\ faults' = faults
     \/ Fault /\ UNCHANGED <<sidecar, gateway>>
  /\ LocalCalls

\* _share_records: the event under a new id, then the mark unless the answer is rejected;
\* the daemon can be killed between the two.  (Here a new id is at worst pending: what the
\* gateway refuses before it is in the ledger is EventSync's.)
ShareLocal(r, e, D) ==
  /\ r \in jobs \cap Local /\ ~Marked(r)
  /\ e \in Event /\ e[1] = r /\ outbox[e] = "none" /\ ledger[e].code = "none"
  /\ Remember(e, D)
  /\ \/ (IF Returned(e, D).code = "rejected" THEN marks' = marks ELSE Mark(r)) /\ faults' = faults
     \/ marks' = marks /\ Fault
  /\ LocalCalls

-----------------------------------------------------------------------------

Init ==
  /\ jobs \in Jobs
  /\ outbox = [e \in Event |-> "none"]
  /\ receipt = [e \in Event |-> Plain("none")]
  /\ ledger = [e \in Event |-> Plain("none")]
  /\ bound = [r \in Record |-> {}] /\ mem = [e \in Event |-> "none"]
  /\ file = [exists |-> FALSE, entries |-> [r \in Import |-> NoEntry]]
  /\ run = Idle /\ report = "none"
  /\ log = [s \in Share |-> "none"] /\ share = NoShare /\ kept = Share
  /\ marks = {} /\ faults = 0

\* What the importer does by itself once it was started.
ImportStep ==
  \/ \E r \in Import : ApplyRefused(r) \/ RollbackEntry(r)
  \/ \E r \in Import : \E D \in SUBSET (Queued \cup {Id(r)}) : ApplyRecord(r, D)
  \/ \E D \in SUBSET Queued : ImportSync(D)
  \/ WriteState \/ ApplyReceipts \/ RollbackReceipts \/ RollbackEnd

Next ==
  \/ ImportStep
  \/ \E resume \in BOOLEAN : ApplyStart(resume)
  \/ RollbackStart \/ ImportStops
  \/ \E D \in SUBSET Queued : Heartbeat(D) \/ ReconcileShares(D)
  \/ \E s \in Share : \E D \in SUBSET (Queued \cup {Id(s)}) : ShareOne(s, D)
  \/ \E s \in Share : ShareRefused(s) \/ ForgetShared(s)
  \/ \E e \in Event : \E D \in SUBSET (Queued \cup {e}) : ShareLocal(e[1], e, D)
  \/ \E e \in Event : Decide(e) \/ Retry(e) \/ Confirm(e)
  \/ ShareStart \/ ShareCommit \/ ShareStops
  \/ Cleanup

Spec == Init /\ [][Next]_vars

\* The daemon syncs and the worker runs; a command that was started goes on, and
\* the user repeats apply --resume as long as it has not completed.
Fairness ==
  /\ WF_vars(Heartbeat(Queued))
  /\ \A e \in Event : WF_vars(Decide(e))
  /\ WF_vars(ImportStep)
  /\ SF_vars(ApplyStart(TRUE))

FairSpec == Spec /\ Fairness

-----------------------------------------------------------------------------
(* Properties                                                              *)

Entry == [there : BOOLEAN, ref : SUBSET Event, result : {"none"} \cup Applied, error : BOOLEAN,
          archived : BOOLEAN]
Run == [cmd : {"none", "apply", "rollback"}, at : {"none", "records", "write", "sync", "receipts", "entries"},
        work : [Import -> Entry], refs : [Import -> SUBSET Event], todo : SUBSET Import, bad : BOOLEAN]

TypeOK ==
  /\ jobs \in Jobs /\ marks \subseteq Local /\ kept \subseteq Share /\ faults \in 0..MaxFaults
  /\ outbox \in [Event -> RowState]
  /\ receipt \in [Event -> Result] /\ ledger \in [Event -> Result]
  /\ bound \in [Record -> SUBSET Event] /\ mem \in [Event -> {"none", "active", "archived"}]
  /\ file \in [exists : BOOLEAN, entries : [Import -> Entry]] /\ run \in Run
  /\ report \in {"none", "completed", "completed_with_errors", "review_pending", "sync_pending",
                 "rolled_back", "rollback_pending"}
  /\ log \in [Share -> LogStatus]
  /\ share \in [at : {"none", "reconcile", "push"}, todo : SUBSET Share, log : [Share -> LogStatus]]

\* No record is stored twice, however often a producer is killed, loses an
\* answer, starts again or makes a new event id for it, as long as the worker gets
\* the backend's answers (_existing_external_binding).
OneMemoryPerRecord ==
  \A r \in Record : Cardinality({e \in Event : e[1] = r /\ mem[e] # "none"}) <= 1

Submitted(e) == outbox[e] # "none" \/ ledger[e].code # "none"

\* The three logs are well formed and true, wherever a producer was killed: what a
\* log has as submitted, and will not submit again, is in the hands of the sidecar
\* or the gateway, and a share that is called confirmed was accepted for good.
LogsAreTrue ==
  /\ TypeOK
  /\ \A r \in Import : file.entries[r].there => Submitted(Id(r))
  /\ \A s \in Share : log[s] \in {"pending", "confirmed"} => Submitted(Id(s))
  /\ \A s \in Share : log[s] = "confirmed" => ledger[Id(s)].code \in Applied
  /\ \A r \in marks : \E e \in Event : e[1] = r /\ Submitted(e)

\* An import that reports completed has stored every record of the batch, and a
\* rollback that reports rolled_back leaves no memory of a recorded entry in force,
\* whatever earlier tries archived, lost or could not find.
ReportsAreTrue ==
  /\ report = "completed" => \A r \in Batch : mem[Id(r)] # "none"
  /\ report = "rolled_back" => \A r \in Entries(file.entries) : mem[Id(r)] # "active"

\* No import runs, and a submitted record is missing from the state file.
CutOff == run = Idle /\ \E r \in Batch : Submitted(Id(r)) /\ ~file.entries[r].there

Settled(en) == en.error \/ en.ref # {} \/ en.result \in {"candidate_created", "source_duplicate"}
AllSettled == \A r \in Entries(file.entries) : Settled(file.entries[r])

\* Unless the import was cut off between a submission and the state file, every
\* entry gets its final answer, even if it is another caller's sync that collects it.
ImportsSettle == []<>(AllSettled \/ CutOff)

\* After an interruption, the import can be run again with --resume.
ResumeGoesOn == \A r \in Import : ~(IsNext(r) /\ Refuses(Id(r)))
-----------------------------------------------------------------------------
(* The inductive invariant behind the safety properties.                   *)

Stored == {"candidate_created", "candidate_confirmed"}

\* A record is bound to the one event that was stored for it.
BoundInv ==
  /\ \A e \in Event : ledger[e].code \in Stored => bound[e[1]] = {e}
  /\ \A e \in Event : mem[e] # "none" => ledger[e].code \in Stored
  /\ \A r \in Record : \A e \in bound[r] : e[1] = r /\ ledger[e].code \in Stored

\* An answer names memories of its own record only, and an event with the only id of its
\* record is never a duplicate.
Honest(e, v) ==
  /\ v.ref \subseteq {b \in Event : b[1] = e[1] /\ mem[b] # "none"}
  /\ e[1] \notin Local => v.code # "source_duplicate"
AnswersInv == \A e \in Event : Honest(e, ledger[e]) /\ Honest(e, receipt[e])

\* A row that was pushed, or comes back, is known to the ledger.
PushedInv == \A e \in Event : outbox[e] \in {"requeued", "acked", "dead"} => ledger[e].code # "none"

\* What an entry of the state file says of its record is true.
TrueEntry(r, en) ==
  /\ en.there => Submitted(Id(r))
  /\ en.ref \subseteq {Id(r)} /\ (en.ref # {} => mem[Id(r)] # "none")
  /\ en.result # "source_duplicate"
  /\ en.archived => mem[Id(r)] = "archived"
EntriesInv ==
  \A r \in Import :
    /\ TrueEntry(r, file.entries[r]) /\ TrueEntry(r, run.work[r])
    /\ run.refs[r] \subseteq {Id(r)} /\ (run.refs[r] # {} => mem[Id(r)] # "none")

\* How far the importer's command is.
RunInv ==
  /\ report # "none" => run = Idle
  /\ run.at = "receipts" /\ run.cmd = "apply" => Batch \subseteq Entries(run.work)
  /\ (run.at = "entries" => run.cmd = "rollback") /\ (run.at = "write" => run.cmd # "none")
  /\ run.cmd = "rollback" /\ run.at # "write" => file.entries = run.work
  /\ run.cmd = "rollback" /\ run.at \in {"entries", "write"} =>
       /\ run.bad \/ \A r \in Entries(run.work) : run.work[r].archived \/ r \in run.todo
       /\ \A r \in run.todo : run.refs[r] # {}
ReportInv ==
  /\ report = "completed" => \A r \in Batch : mem[Id(r)] # "none"
  /\ report = "rolled_back" => \A r \in Entries(file.entries) : mem[Id(r)] = "archived"

\* What the share log and the local marks say is true, and so is what the share job is
\* about to write.
TrueLog(l) ==
  \A s \in Share :
    /\ l[s] \in {"pending", "confirmed"} => Submitted(Id(s))
    /\ l[s] = "confirmed" => ledger[Id(s)].code \in Applied
SharesInv == TrueLog(log) /\ TrueLog(share.log)
MarksInv == \A r \in marks : \E e \in Event : e[1] = r /\ Submitted(e)

ProducersInv ==
  TypeOK /\ BoundInv /\ AnswersInv /\ PushedInv /\ EntriesInv /\ RunInv /\ ReportInv /\ SharesInv /\ MarksInv
=============================================================================
