# A TLA+ verification of the agent memory gateway

Agents on several devices write memories; a gateway collects them and moves them into a
long-term memory store; people review them; devices keep a cache of what is stored so that they
can answer while they are offline. This directory holds TLA+ models of these paths, of the
identities that may use them and of the tools that install and feed a device, the TLC
configurations that check them on small instances, and proofs that TLAPS checks for every
instance. All source paths below are relative to `src/agent_memory_gateway/`; `PROJECT.json`
gives the lines that each definition models.

## 1. The system

| Component | State it keeps | Operations | Hard parts |
|---|---|---|---|
| Outbox (`outbox.py`) | SQLite file of one process: queued events with a state, device sequence number, receipts, pull cache with position and epochs | prepare, enqueue, list, mark in flight / retryable / terminal / dead letter, cleanup, apply a page, clear the cache, reopen | a crash between two transactions; updates that do not look at the state they overwrite |
| Sidecar (`sidecar_client.py`, `sidecar_daemon.py`) | token and identity of the current caller | remember, sync (push, then pull), cleanup, heartbeat | one lock serialises all calls, but all agents of a device share one outbox and one cache; answers are lost, late, cut off |
| Gateway process (`gateway.py`, `db_pool.py`, `rate_limit.py`) | request slots, two connection pools with queues, admission windows | accept, dispatch, take and return connections, admit | slots taken in one thread and returned in another; nested connections; a clock read outside the lock |
| Push and pull (`sync_service.py`) | none of its own | push a batch, pull pages | a thread keeps working for a client that has gone; errors that are or are not marked retryable; per-event transactions inside one request |
| Event ledger (`metadata_store.py`, `event_contract.py`) | `gateway_events`, `event_receipts`, contiguous sequence of a device | record an event, answer a duplicate | ids and numbers may come again |
| Reconciler (`reconcile.py`) | row lock during one transaction | take the oldest open event; store, queue for review, drop as duplicate, retry, give up | writes two databases that share no transaction; several workers |
| Backend (`gbrain_backend.py`) | facts, idempotency keys, crystal pages | upsert, supersede, archive, restore, rebuild a page | commits on its own; its answer may be lost |
| Review (`review_service.py`) | candidates, operations, lifecycle rows, tombstones, server revision | resolve, forget, revert | partial failure between two databases; retries under the same or a new key; chains of replacements |
| Crystals (`crystal_service.py`) | a summary per scope with a stale mark, a plan | plan, rebuild, mark stale | a rebuild racing a change of its sources |
| Identity (`identity_service.py`, `auth.py`, `sidecar_auth.py`, `device_pair.py`) | devices, agents, epochs, bindings, pairing codes, refresh credentials; the device's stored secret and cached tokens | pair, refresh, revoke, bind, register, authenticate | rotation whose answer is lost; replay window; late requests; tokens that outlive a revocation |
| Administration (`admin_service.py`, `identity_cli.py`) | none of its own | update a binding, revoke | a page that is out of date; managers who act at once |
| Device tool (`device_runtime.py`, `device_lifecycle.py`) | `runtime.json`, MCP files, service definition, keys, program directories | install, resume, upgrade, rollback, repair, uninstall | a kill or a failure between any two files; files of others |
| Producers (`importer.py`, `memory_os_share.py`, `local_provider.py`) | a log each: state file, share log, share marks | apply, resume, roll back; share, reconcile, forget; share | three logs beside the outbox that must not contradict it |
| Query, retrieval, feedback, scanning, encryption, migrations, MCP, console pages | mostly none of their own | reads, pure functions | see section 8 |

A write goes: agent → sidecar `remember` → outbox row → `push` → ledger row → worker →
backend fact or review candidate → fixed receipt → answer to a later `push` of the same row →
receipt in the outbox. The first push is answered "pending"; the device pushes the row again
until the ledger can answer with the fixed receipt. A candidate is resolved by a reviewer,
which changes the backend and the lifecycle index. A change of a stored memory goes: lifecycle
row or tombstone at a new server revision → `pull` in pages → cache. Every request carries an
access token that the sidecar got for its refresh secret, takes a slot of the gateway process
and one or two database connections.

What makes each part correct:

* the outbox loses no accepted event without a receipt, and a final row stays final;
* the ledger and the worker apply an event once, whatever is repeated, lost or interrupted;
* a receipt on the device says what was really decided;
* index and backend agree on what is in force, but for operations that stopped half-way;
* the cache has everything that its position claims, and nothing from before a reset;
* a device does not lose its access by a lost answer, and nobody regains revoked access;
* slots and connections come back, and no threads wait for each other;
* a device tool killed anywhere leaves files it can go on from, and never touches others';
* what a producer's log or report says is true;
* an accepted valid write arrives once faults stop.

## 2. The modules

| Module | Models | Extends |
|---|---|---|
| `MemoryEvents` | events, how their content is treated, result codes | |
| `Outbox` | event rows, receipts and counter of `outbox.py` | `MemoryEvents` |
| `EventLedger` | the ledger of one device | `MemoryEvents` |
| `Reconciler` | workers, bindings, candidates, the backend's facts; also a specification of its own | `EventLedger` |
| `EventSync` | sidecar, push handler, and the composition of all of the above | `Outbox`, `Reconciler` |
| `Delivery` | abstract specification: a write is accepted, decided once, and the device is told once, that decision or, if it was denied a delivery of the write, a rejection | `MemoryEvents` |
| `Memories` | the names of stored memories | |
| `Lifecycle` | lifecycle rows, tombstones and revisions; also the abstract specification of the index | `Memories` |
| `PullCache` | pull handler, paging, the cache and its position | `Lifecycle` |
| `Backend` | facts and the table of operations of `gbrain_backend.py` | `Memories` |
| `Review` | review operations and crystals, over both databases; implements `LifecycleSpec` | `Lifecycle`, `Backend` |
| `Identity` | identity tables, one operator per transaction | |
| `Access` | token provider, network, console and command line over `Identity` | `Identity` |
| `Device` | the commands of the device tool | |
| `RateLimit` | the sliding-window limiter as a value | |
| `Gateway` | request threads, pools, limits | `RateLimit` |
| `Producers` | importer, share job and local providers over a condensed push path | |
| `MC…` | values of the constants for TLC | |
| `ReconcilerProofs`, `EventSyncProofs` | theorems and proofs of the push path | each other, in this order |
| `PullCacheProofs`, `ReviewProofs`, `AccessProofs`, `GatewayProofs`, `ProducersProofs`, `DeviceProofs` | theorems and proofs of one module each | that module |

An inductive invariant is at the end of the module it is about, so that TLC can check it as well;
the proof module holds the lemmas, one per action or group of actions, and the theorems.

Operators whose comment starts with "Mutant" are deliberately wrong variants of the definition
that follows them. No specification uses them; substituting one for its original makes the
property named in `PROJECT.json` fail, which shows that the property can fail.

### State and actions against the code

*Outbox.* `rowState`, `rowSeq`, `rowDue` are the columns `state`, `device_seq` and "is
`next_attempt_at` null or past" of `outbox_events_v3`; `receipt` is `event_receipts_v1`. Each
operation is one SQLite transaction of the same name. `Reopen` is the tail of `_init_schema`.

*EventLedger.* `status`, `ledgerSeq`, `receivedAt` are columns of `gateway_events`,
`fixedReceipt` is `event_receipts`, `contiguous` is `devices.last_contiguous_event_seq`.
`Answer` is what `record_proposed_event` returns. The payload hash covers `device_seq`, so one
id with two numbers is two payloads: `ledgerSeq[e] # n` stands for EVENT_ID_REUSE. An event
that cannot be parsed, or that the gateway's scan refuses, has the route "invalid".

*Reconciler.* A worker's transaction is split where another process can observe or interrupt
it: `WorkerTake` (lock, decrypt, look for the binding), then one of the outcomes. The
backend's commit is a step of its own (`Upsert`), as are its failure before commit
(`UpsertFails`) and its failure after commit (`UpsertAnswerLost`). `WorkerCrash` rolls the
metadata transaction back.

*EventSync.* The sidecar is one sequential process (`pc`), since `operation_lock` covers each
RPC and each heartbeat. `Remember` and `RememberEnqueue` are the two transactions of
`remember`; `StartPush`, `Post`, `ReceiveAnswer`, `ApplyVerdict`, `FinishApply` and `Pull`
are `sync`. `Settle` is the decision table of `_push_workspace` and `_acknowledge`. A gateway
thread lives in a slot: `Admit` (checks before the loop), `RecordNext` (one event),
`FinishPush` (contiguous sequence), and stays there when the client has gone, until
`DropAnswer`. `PushBusy` and `PushFatal` are the error answers with and without
`retryable: true`. `RecordNext` is `push`'s loop body with the transaction of
`record_proposed_event`, which looks for the binding and the capability again: a right that was
removed after the request was admitted (the fault "unbound") makes the gateway answer the event
"rejected" and not retryable, even if the ledger has it from an earlier push. `denied` is history:
the events that a push was turned away with for a reason that is not in the event (the sender, a
removed right, an error of the whole push).

*Delivery.* `Deny` and `Dismiss` are that case as an observer sees it: the device may take a denied
write for rejected, while the gateway may still decide otherwise. Everything else the device is
told must be what was decided.

*Lifecycle and PullCache.* `memRev` and `tombRev` are `updated_server_revision` and
`deleted_revision`; a revoked tombstone counts as none. `ReadEpoch`, `ReadMemories` and
`ReadTombstones` are the three reads of `pull`, each with its own snapshot (READ COMMITTED).
`ReceivePage` is one round of the loop of `_pull_workspace`. The limit of 100 rounds ends a
pull like an error does, which `PullFails` allows at any time. The cursor always equals the
stored position and is not a variable.

*Backend and Review.* A request is named by its idempotency key, as in `review_operations` and
`memory_gateway_operations`. Its transaction is cut where the backend commits: `Begin` (row locks
and all checks, or refusal), `CreateFact` (`upsert_confirmed`), `CallBackend` (supersede, archive,
restore, rebuild), `Commit…` (index, operation row, candidate, stale mark, in one). `Fail` ends it
at any point, keeping what the backend has done; `Resend` is the client's retry with the same key,
and another `Submit` one with a new key, which is what `sidecar_mcp.py` always sends. `held` are
the rows locked FOR UPDATE; a request whose rows are locked waits. `forget` derives its backend
key from the memory, so a memory stands for that key in `bdone`. archive and reject are one
action ("close"), since they differ in a label only.

*Identity and Access.* A refresh secret is a number; the row keeps the current and the previous
one and whether the replay window is open. `AskToken`, `HandleRefresh` and `SaveAnswer` are the
three parts of a refresh: the request leaves the sidecar, the gateway's transaction, and the write
to the credential store. `GiveUp` covers timeout, lost answer, failed write and crash; the request
may then still be in `net` and be handled late. A console request is authenticated in `Admit` and
carried out in `CommitAdmin`, which compares the state with what the page showed. Signatures and
ciphers are perfect: a token is its claims.

*Device.* The file texts are functions of the program they name, so a file's value is that
program, `Foreign` (not ours), `Torn` (half written) or `None`. A command is a sequence of steps
computed from the state when it starts, as the code computes its plan; a step does its own checks
(`Blocked`; repair passes over an MCP file it finds, `Skipped`), can fail without effect, or do its
part. A step inside a `try` carries the configuration to go back to, from which `Recovery` computes
the handler's steps. `StopIgnored` and `ReloadFails` are the calls of the service manager with
`check=False` and `check=True`: after the first the old process may go on running, and the command
goes on too. `platform` is "linux" (systemd) or "macos" (launchd). They differ in what
`write_service_definition` looks at (`SlotTaken`): launchd is asked for a loaded service; systemd only
for the path of a definition, which it no longer has once the file is deleted and the manager has
reloaded, even if the process runs. Only systemd is told to reload. The Windows task is not modelled
(section 8).

*RateLimit and Gateway.* A route is the script of the connections its handler opens and returns;
an exception replaces the rest of the script by the returns of the open `with` blocks. A waiting
thread gets its connection from the thread that returns one, in order. `ReadClock` and the
limiter's critical section are separate steps. `admitted` is history: the time of every request
the overall limiter let through, in the order of its lock.

*Producers.* A local provider marks a record as shared unless the answer is final and unfavourable
(`ShareLocal`). `Remember` and `Sync` condense the push path into one step each, because the daemon
serialises its calls and `EventSync` has the details; what is kept is who collects an answer, what
is not pushed yet, the refusal of an id whose row exists, and the reuse of an id after cleanup. The
importer is a process with its working copy of the state file and the file itself, the share job a
transaction with its working copy of the log. An answer that is lost and a kill are the same fault:
the producer stops, the sidecar has done its part.

*Abstractions.* One workspace; one device except in `Access`. Payloads, ciphers, error texts,
audit rows, timestamps and the lengths of back-offs are left out; a back-off is a Boolean that
time may set. `Reconciler` and `Backend` each have the part of the backend that their callers see.

## 3. What is checked

| Run | Instance | Shows |
|---|---|---|
| `SyncOneEvent` | 1 event, id reusable, 2 agents, 2 slots, any 2 faults of all 12 kinds, 3 numbers | `TypeOK`, `ConfirmedMeansApplied`, `NoSilentLoss`, `FinalRowsStay` |
| `SyncDelivery` | 2 events of 2 agents in a batch, one of them unsafe, 2 slots, 2 faults: lost answer, right removed in the middle of a push, error of the whole push, new epoch, sidecar crash, gateway crash | `ValidNotRejected`, `DeadLetterAgrees`, `DeviceSeqUnique`, `ContiguousPrefix`, and the refinement `DeliveryPromise` |
| `SyncLive` | 2 events, 1 slot, batches of 1, 1 fault of any crash or transport kind | `OfflineWritesArrive` |
| `Reconcile` | 3 events of different routes, 2 of one source, 2 workers, faults without bound | `ExactlyOnceEffect`, `DuplicateHasOriginal`, `ClosedEventsStay` |
| `PullPaged` | 3 memories, 2 agents, pages of 1 change, 4 revisions, 1 reset | `TypeOK`, `SeenIsComplete`, `NoStaleEntries`, `PositionMoves` |
| `PullLive` | 2 memories, supersession and reversal, 4 revisions, 1 reset | `CacheConverges` |
| `Review` | 2 memories, 2 candidates, 4 requests, 2 at a time, 1 memory stored without review, retries up to revision 3 | `TypeOK`, `OnlyConfirmedInForce`, `IndexMatchesBackend`, `ReadySourcesInForce`, and the refinement `LifecycleSpec` |
| `Access` | 2 devices with an agent each, 2 codes, 1 console request at a time; on one device 3 secrets and 2 faults | `TypeOK`, `SidecarKeepsUp`, `NoFalseAlarm`, `DeadTokensStayDead`, `ConsoleKeepsManager` |
| `Device` | Linux or macOS, 2 MCP files, 2 releases, 2 failing steps, 2 kills, 2 edits | `Consistent`, `FailedChangeRestoresFiles`, `OnlySwitchesSpoil`, `SuccessIsComplete`, `ForeignUntouched` |
| `Gateway` | 3 mixes of up to 3 requests, 3 slots, pools of 1 with a queue of 1, limit 1 in a window of 3 ticks | `Accounted`, `WindowHolds`, `RequestsEnd` |
| `Producers` | 5 mixes of two records each, all routes and equal texts among them, 2 faults | `OneMemoryPerRecord`, `LogsAreTrue`, `ReportsAreTrue`, `ImportsSettle` |
| `ImportResume` | the same with 1 fault | finds a violation of `ResumeGoesOn` (section 4) |

`Consistent` is `TypeOK` with `ServiceMatchesRuntime`, `RemainsHaveRuntime` and `CredentialHasKey`;
`Accounted` is `TypeOK` with `NothingLeaks` and `WithinLimits`; `LogsAreTrue` contains the
`TypeOK` of `Producers`; `SuccessIsComplete` is `FilesComplete` with `SwitchReplacesProcess`. What
the runs show in words, where the names do not say it:

* `SyncDelivery`: `ValidNotRejected`, `DeadLetterAgrees` and `DeliveryPromise` hold although agents
  push each other's rows, rights are removed and pushes fail as a whole, because they say what
  these do: a valid write is told to be rejected, or given up, only if a push of it was denied, or
  the ledger has given it up. What they exclude is that anything else (an answer that is lost, late
  or repeated, a new epoch, a crash, an error that may be retried) turns down a valid write or
  tells the device something that was not decided.
* `Review`: whatever is confirmed, replaced, forgotten and reverted, and wherever operations fail
  and are repeated, index and backend disagree on a memory only while an operation on it is half
  done; a candidate that is open again has no memory in force; a ready crystal has only sources
  in force; and every change of the index is one that `Lifecycle`, and with it the pull, knows.
* `Access`: while a device's row is in use, the secret in its store is at most one rotation behind,
  which is what it takes to be given a lost answer again while the replay window is open; after the
  window a device that is one behind is locked out (section 4). The alarm for reuse is raised
  against a sidecar only after a fault; a token that was refused once stays refused.
* `Device`: a service definition never names another program than `runtime.json`, so a reboot in
  the middle of a switch is harmless; everything an uninstall or install leaves can be reached
  again; a switch that failed once has put all files back; only a switch or repair that was cut
  short can leave files that later commands refuse. On macOS, a switch that returns normally has
  also ended the old process, because no definition is written beside a loaded service.
* `Gateway`: nothing leaks on any path; requests end even if no waiting thread ever times out,
  because every route that holds two connections took them in the same order.
* `Producers`: the three logs never claim more than the sidecar and the gateway have; a record is
  stored once although local providers make new ids; reports are true.

Some instances leave things out on purpose, because each breaks a property and is described in
section 4: `SyncDelivery` ids that come back; `SyncLive` a second agent, removed rights, errors that
are not retryable and answers that are cut off; `PullPaged` supersession, and both pull runs a
change between the two queries; `Review` a revert that starts while another one is half done
(`Overlap = FALSE`); `Access` administrators who act at once (`Overlap = FALSE`).
`OneMemoryPerRecord` assumes that the backend's answers reach the worker; the lost answer is in
`Reconciler`. Commands of `Device` do not overlap.

Deadlock is allowed where the system may stop: in `Reconcile` when every event is closed, in
`Review` when all requests are done or refused, in `Access` when everything is revoked and expired,
and in `Producers` when there is nothing left to import or share.

*Bounds.* Two slots let a late thread and its retry overlap; two faults allow a fault during
the recovery from another. Two events are enough for a batch that is half done, a number that
is skipped and one that is reused. Two workers meet on one row, and two events share a source.
Three memories with pages of one change need several pages, and four revisions allow a change
of an entry that is already cached. Four review requests are a confirmation, a replacement of what
it made, the reversal of that, and a rival; two memories are a replaced one and its heir, and with
one of them stored by the worker also a conflict. Three secrets are two rotations, the first of
which can be lost and the second repeated; a second device is needed for a second manager. Two
failing steps are a failure and one in its handler, two kills one in the recovery from the other;
two MCP files can differ from each other, and two releases are an upgrade of an upgrade. With three
threads, one holds, one waits and one is turned away. Two producers' records can be of one text or
of two routes. Counters are bounded by `MaxSeq`, `MaxFaults`, `MaxRevision`, `MaxResets`,
`MaxStored`, `MaxOpen`, `MaxMinted`, `MaxLate`, `MaxCrashes`, `MaxEdits`, `MaxTime` and `MaxIds`;
`Stall` bounds how long a thread may sit between its clock reading and the limiter's lock, and
`WindowHolds` is stated for the window less that time.

*Symmetry.* `SyncDelivery` (slots), `Review` (memories, candidates, keys), `Access` (codes) and the
run of `Device` (releases) are checked up to permutation; these runs have no liveness property and
the values occur in no ordering or constant function.

*Fairness.* `SyncLive` assumes weak fairness of the steps of the sidecar and of each gateway
thread (running processes), of some agent's sync (the heartbeat every 300 s), of clocks, and
of each worker (`--forever`). Nothing is assumed of faults, `remember` or cleanup. `PullLive`
assumes strong fairness of the steps of a pull: a pull may fail any number of times, but not
every time it gets to a step. `Gateway` assumes weak fairness of each thread's own steps (threads
run, socket reads and statements end by their time-outs), and none of the time-out of a waiting
thread, of failures or of new requests. `Producers` assumes weak fairness of the heartbeat, of the
worker's decision on each event and of the running import command, and strong fairness of the
user's `apply --resume`, which `docs/en/importing-existing-memory.md` asks for.

## 4. Where code and documents disagree

`ImportResume` finds a counterexample, and the finding in `PROJECT.json` quotes the document: the
importer is killed, or its call of the sidecar times out, after `remember` has queued a record and
before the state file says so. Every `--resume` then submits the same id, `enqueue` refuses it
because the row exists, and the command ends at this record, until the row is confirmed and cleaned
up; after that, the id goes out with a new sequence number and is rejected as a reuse.

The following were found with the same models; where one of them shows it, the text says what to
change.

* *Shared outbox.* Whichever agent syncs first pushes the queued rows of all agents of the device
  under its own identity; the gateway refuses the others' events for good (`sync_service.py:123`),
  although `docs/en/design-v2.md:84` lets several agents share a sidecar. In `SyncLive`, set
  `Agent = {a1, a2}`, `AuthorOf <- TwoAuthors` and `Route <- RoutesValid`: `OfflineWritesArrive` fails
  without any fault.
* *Truncated answer.* An answer cut off inside its body raises an exception that `_post` does not
  catch. The rows stay `in_flight`, which no later sync looks at, until the process restarts. Add
  "truncated" to the faults of `SyncLive`: `OfflineWritesArrive` fails.
* *Ignored stop.* On Linux the order to stop the old service may fail and nobody looks
  (`device_lifecycle.py:916`). Its definition is deleted, the slot check finds no path, the new
  definition is written, `enable --now` does nothing for a unit that is active, the health check is
  answered by the old process, and the upgrade reports success. The new program runs from the next
  restart of the service. Take `platform = "macos"` out of `SwitchReplacesProcess` and
  `SuccessIsComplete` fails in `Device`. On Windows the slot check also asks only for the task,
  which has been deleted by then.
* *Removed right.* A binding or capability that is taken away between the admission of a push and
  the transaction of one of its events, or that is missing for one push only, makes the gateway
  answer a valid event "rejected" for good, even if the ledger has it already and a worker applies it
  later: the memory is stored, and the device says it was rejected. The properties of `SyncDelivery`
  allow this through `denied`, and `OfflineWritesArrive` assumes that the device keeps its rights:
  add "unbound" to the faults of `SyncLive` and it fails.
* *Errors without `retryable`.* An HTTP error without that field and a status other than 429, 502,
  503 or 504 turns the whole batch into dead letters, whatever the ledger has of it. The properties
  allow this through `denied` too; add "fatal" to the faults of `SyncLive`: `OfflineWritesArrive`
  fails.
* *Resubmitted id.* After cleanup, an id that is submitted again gets a new sequence number, is
  answered EVENT_ID_REUSE, and the rejection replaces the receipt of the stored memory. Set
  `Reusable = {e1}` and `MaxSeq = 3` in `SyncDelivery`: `DeliveryPromise` fails, because the device
  is told two different decisions.
* *Source bindings.* The backend's answer is lost, a second event of the same source finds no
  binding and is stored, and two memories of one source remain (reachable in `Reconcile`, which
  therefore checks `DuplicateHasOriginal` and not uniqueness).
* *Split page.* A supersession writes a memory and a tombstone at one revision; if the page ends
  between them, the position passes the tombstone and the old memory stays cached. Set
  `Limit = 1` in `PullLive`: `CacheConverges` fails, and `SeenIsComplete` in `PullPaged` with
  `Supersession = TRUE`.
* *Two snapshots.* A memory that commits between the two queries of a pull is skipped when a
  later tombstone moves the position past it. Set `Concurrent = TRUE` in `PullPaged`:
  `SeenIsComplete` fails.
* *Shared position.* The position of the cache is moved by the pull of an agent that cannot see
  everything another agent of the device can (give the agents of `PullPaged`
  different `Sees` in place of `SeeAll`).
* *Overlapping reverts.* Memory m1 was confirmed and then replaced by m2. One reviewer reverts the
  replacement, another the confirmation of m1, at the same time; the reverts lock their own
  candidates, not the memories. The backend first restores m1 and then archives it; the metadata
  transactions commit in the other order, and the index has m1 in force again although its
  candidate is pending and its fact is archived. With `Overlap = TRUE` in `Review`,
  `OnlyConfirmedInForce` fails. The same happens when the first revert fails between its two
  databases and is repeated later.
* *Confirmed again.* A reverted candidate is pending again, but the index has a row for its source
  event and allows only one, so that no later confirmation of it can commit, while each try leaves
  a fact in the backend (`CommitConfirm` in `Review`).
* *Two managers.* `update_binding` is documented to keep the console from locking itself out
  (`admin_service.py:420`), and checks the caller only. Two managers who remove each other's
  capability at once leave none: `ConsoleKeepsManager` fails in `Access` with `Overlap = TRUE` and
  two slots.
* *Replay window.* The window is 30 s and the heartbeat comes every 300 s: a device whose refresh
  answer is lost, and whose next call is the heartbeat, is locked out as if its secret had been
  stolen (`NoFalseAlarm` allows this after a fault, and `SidecarKeepsUp` says how far behind the
  device is, not that it gets the answer again).
* *Lost pairing answer.* The code is spent and the device registered; pairing again is refused, and
  only the command line can register a new credential.
* *Failed switch.* `docs/en/development.md:75` says "A failure restores the previous service,
  runtime configuration, and MCP files." It does not when `daemon-reload` fails before the `try`
  block (the service is gone), nor when an MCP file is missing, which passes the checks before the
  switch, fails in it, and fails again in the restoration.
* *Share job.* The head of `memory_os_share.py` says that a changed content is bound anew; a memory
  that is in the share log is never looked at again. A share whose answer the heartbeat collects
  stays pending.
* *Importer.* An error in an entry of the state file is never cleared, so a batch that met one
  retryable failure reports `completed_with_errors` for ever; the rollback of a record that became
  a candidate stays `rollback_pending`, since no receipt gets a reference when it is confirmed.
* *Back-off.* The reconciler retries without a limit although `docs/en/design-v2.md:137` promises a
  dead-letter queue after one.

## 5. What is proved

`ReconcilerProofs` proves that `RecInv` is inductive, for any finite set of events and any set
of workers and sources, with every fault possible at every time:

* `LockInv`: a worker holds a row exactly when it is busy, no two hold the same row, a held row
  is open, and a worker at "upserted" or "duplicate" has what that stage claims. Without the
  last part, the final commit could not be shown to name an existing fact.
* `EffectInv`: receipts and facts determine each other through the route of the event. The
  number of facts is 1 exactly if the backend has the key. This is what carries exactly-once
  over a crash between the two databases, where a fact exists and no receipt does.
* `SourceInv`: a bound source has an applied original.

From it follow `ExactlyOnce`, `WorkersExclude`, `DuplicatesAreSafe` and the action property
`ClosedIsFinal`.

`EventSyncProofs` proves `SyncInvariant` for the composition, for every value of its
constants: types, `RecInv` (each step of the composition is a step of the reconciler, the
recording of an event, or leaves ledger and workers alone), `ControlInv`, `AnswersTrue`,
`NoSilentLoss` and `ContiguousPrefix`. `AnswersTrue` is the strengthening that makes the truth
of receipts inductive: a result code is right wherever it is under way, in a late thread's
answer, in the hands of the sidecar, or in the outbox; since a fixed receipt never changes, a
late answer cannot become false. From it follow `TypeCorrect`, `ConfirmationsAreTrue`,
`ExactlyOnceEndToEnd`, `NothingLostSilently` and `PrefixIsReceived`.

It then adds `RowsInv`, inductive on top of `SyncInv`:

* `TodoInv`: the rows a push works on are in flight until their verdict is applied. The SQL of
  `mark_terminal` and `mark_retryable` does not look at the state it overwrites, so this is the
  only reason why a final row stays final (`FinalIsFinal`, i.e. `FinalRowsStay`).
* `HasNumber` and `NumberOwned`: a number other than 0 in a row, in a request under way or in
  the ledger belongs to one event, is at most `deviceSeq`, and is not the number that is
  prepared and waits for its row. The request has to be included because it may be recorded
  after the row has gone. From it follows `NumbersAreUnique`, i.e. `DeviceSeqUnique`.

* `GivenUpInv`: wherever a verdict is under way, "dead_letter" is said only of an event that the
  ledger has given up, and the error of a whole push only of denied events. From it follows
  `DeadLettersAgree`, without any assumption.
* `DecidedInv`: an event that the gateway's checks refuse is never recorded; "rejected" is said of
  another event, whose id does not come back, only if a push of it was denied, and stored only then
  or when the ledger has given it up. It needs `OneNumber` (an id that does not come back has one
  sequence number, so the ledger never finds another payload under it). From it follows
  `ValidIsNeverRejected`, for any agents, rights and faults.
* `ToldInv`: an answer is stored only for an accepted event, and a row whose event has one is not
  sent again. With it every step of the push path is a step of `Delivery` or leaves it alone: a
  worker's commit is `Decide`, an enqueue is `Accept`, a refusal that is not in the event is `Deny`, a
  verdict applied to a row is `Tell`, `Refuse` (an invalid event) or `Dismiss` (a denied one). What
  `Decide` and `Refuse` demand, that the event is in custody and undecided, comes from `OneNumber`
  and from the row locks. This is the refinement `PromiseIsKept`, i.e. `DeliveryPromise`; its only
  assumption is that no id comes back (`Reusable = {}`).

`PullCacheProofs` proves, for every value of the constants, that the position and the entries of the
cache stay within what the gateway has handed out (`PositionIsMonotonic`) and that no entry outlives
its epochs (`EntriesKeepTheirEpochs`). `CompleteUpToPosition` is the statement that pages, failures
and resets lose no change. Its invariant adds `PageInv`: the page that is under way holds the last
change of every visible memory up to its end, which is true because a page is the smallest changes
of a finite set (`First`) and because nothing commits between the two queries. It holds under
`Plain`: no supersession, no commit between the queries, and agents with equal scopes. Each of the
three is needed (section 4).

`ReviewProofs` proves in two layers. `LocksInv` (types, requests, row locks, a ready crystal's
sources) is inductive with any overlap of requests, and gives `ReadySourcesStayInForce`.
`ReviewInv` adds, for `~Overlap`, how far the backend is (`StageInv`), what a confirming operation
has made (`MadeInv`), what a half-done revert will find when it commits (`HalfInv`), and where rows
of the index stand relative to the backend's facts and to the operation that replaced them
(`RowsInv`). The last part is what makes a revert sound: it does not look at the row it brings
back, so the invariant must say that this row is still the replaced one. From it follow
`OnlyConfirmedStaysInForce`, `IndexAlwaysMatchesBackend`, and the refinement
`ReviewImplementsLifecycle`: every step of `Review` is a step of the abstract index or leaves it
alone.

`AccessProofs` proves, for any number of devices, secrets, late requests and crashes, that the
stored secret is the current or the previous one of a row in use (`SidecarKeepsUpAlways`; that the
previous one is still accepted is so only while the replay window is open), that the alarm is raised
only after a fault (`NoFalseAlarmEver`), and that a token stays dead (`DeadTokensNeverReturn`).
`SecretsInv` and `NetInv` order the secrets in the row, in the store and in requests; `TokensInv`
says that issued epochs are of the past and that epochs only grow. `ConsoleKeepsItsManager` assumes
`~Overlap`, i.e. administrators who act one by one.

`GatewayProofs` proves `Accounted` for any number of threads and clients and pools, queues and
tables of any size. The counting invariants are not inductive by themselves: to know that a
returned connection was held, and that a held one will be returned, `Alternates` says of the steps
a thread has left that those on one pool alternate, beginning with a return exactly if the thread
holds a connection. That every script alternates, that an exception's unwinding does, and that each
step keeps it are lemmas about sequences. For the queue: it holds the waiting threads, each once,
and is empty unless the pool is exhausted; for the client table: `make_room` always finds a bucket
to discard. `WindowAlwaysHolds` proves `WindowHolds` for every limit, window and stall shorter than
the window. Its strengthening `WindowInv` ties the limiter's queue to the history: the stamps kept
are those of the last requests let through, in that order and at most a stall early, and what was
dropped is out of the window, although `popleft` stops at the first live stamp and stamps may be
out of order; a script reads the clock right before it asks the limiter (`AfterClock`), so the
reading a thread brings to the lock is at most a stall old (`Clocked`).

`ProducersProofs` proves `ProducersInv`, for any records, ids and faults: a record is bound to the
one event that was stored for it (`BoundInv`), answers anywhere are honest about the ledger
(`AnswersInv`), and entries, the running command, reports, the share log and the marks follow from
answers that were really given. From it follow `OneMemoryPerRecordEver`, `LogsStayTrue` and
`ReportsStayTrue`.

`DeviceProofs` proves the properties of the device tool for any number of MCP files and releases,
with failures, kills and edits at any time. None of them is inductive: whether the files may
be as they are depends on what the command has still to do. `DeviceInv` therefore says what the
steps that are left (`Pending`) imply:

* `OpType`, `ScriptInv`: the steps are in the order of `Rank`, are the ones of their command, and
  all but those that stop the service work with one configuration. The lemmas before the first
  action show this of every script, of the except block and of the switch back.
* `OrderInv`: before `runtime.json` is replaced or deleted no service definition is there, or it is
  still to be removed; MCP files and the service are made with the configuration that
  `runtime.json` has or will have got; with it `Consistent` is kept wherever a command stops.
* `SecretsInv`: keys are made before, and deleted after, the credential.
* `RestoreInv`: until a switch has raised, each step knows the old configuration, and
  none of the steps that raise outside the `try` block comes after a change; after it, what is not
  as it was has still a step that puts it back. A missing MCP file stays missing in both
  directions. This gives `FailedChangesAreUndone`.
* `CompleteInv`: until a command has raised, a file is in agreement or has a step to come that makes
  it so. Under launchd, until a switch has raised, the old process is gone or there is still a
  definition to be written, which is refused while it is loaded. Both give `SuccessMeansComplete`.
* `ForeignInv`: the commands that replace or delete start with no foreign MCP file, and
  `clear_service`, which alone does not look at the text it removes, is never reached with a
  foreign definition in place. This gives the action property `ForeignTextStays`. `enable` needs the
  same: the service manager would start whatever is there.
* `SpoilInv`: between commands and during install and uninstall no MCP file disagrees
  (`InstallNeverSpoils`).

A step is proved once for all commands: `Advances` and `Effect` say what any step does to the script
and to the files, each part of the invariant has a lemma from them, and each action is shown to have
such an effect.

The assumptions on constants are those named in the modules: sets are finite where they are
counted, the "no such" values are not members of their sets, numbers are numbers, the limits of the
gateway are positive, records of local providers are none of the importer or the share job, and
the values for a missing, a foreign and a half-written file differ from each other, from programs
and from configurations.

*Only model-checked:* the liveness properties `CacheConverges`, `ImportsSettle`,
`OfflineWritesArrive` and `RequestsEnd` (TLAPS 1.4.5 has no support for fairness). Every other
property of a passing run is stated by a theorem, some under the hypotheses named above.

## 6. Order of the work

1. The push path: `MemoryEvents`, `Outbox`, `EventLedger`, `Reconciler`, `EventSync`, the
   abstract `Delivery`, and their proofs (done).
2. The pull path: `Lifecycle`, `PullCache` (done).
3. Review operations and crystals over the two databases, `Backend` and `Review`, as an
   implementation of the index of `Lifecycle` (done).
4. Identities: `Identity` and `Access` (done).
5. The gateway process (`Gateway`, `RateLimit`) and the producers (`Producers`) (done).
6. The device tool (`Device`) (done).
7. The refinement of `Delivery` by the push path, step by step (done).

## 7. Running it

    tlc -workers 2 -config SyncDelivery.cfg MCEventSync
    tlapm EventSyncProofs.tla
    tlapm DeviceProofs.tla
    tlapm GatewayProofs.tla

The module of each configuration is listed in `PROJECT.json`. The longest runs, `Review` (1.2
million states) and `SyncDelivery`, take about two minutes each; the others about a minute or less.

## 8. Not modelled

* Query, hybrid retrieval and scoring only read; `Gateway` has the order of their connections.
  Feedback stores a record in one transaction, and only the ranking reads it.
* The console's pages, listings and graph, status, diagnosis and the desktop supervisor, which
  report and control processes; the single-host store, a separate prototype.
* Scanning and encryption are pure functions on text and bytes; their verdicts appear as the
  routes of events. Keys and certificates are assumed to work.
* The Windows part of the device tool: a service is a scheduled task there, ended and deleted by name,
  and its definition file, kept beside it, is deleted without a comparison of its text.
* Migrations and bootstrap run once, in order, in a maintenance window.
* The splitting of source files by importer and local providers; work checkpoints; audit rows.
* A second workspace: `sync_state` selects its keys with LIKE and an unescaped workspace id
  (`outbox.py:878`), which is a question of text.
