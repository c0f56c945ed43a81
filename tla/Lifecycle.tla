----------------------------- MODULE Lifecycle ------------------------------
(***************************************************************************)
(* The lifecycle index of confirmed memories in the metadata database       *)
(* (memory_lifecycle, memory_tombstones and the server revision), as        *)
(* reconcile.py and review_service.py write it.  Each operation is one      *)
(* transaction; it takes the row lock of the revision counter before it     *)
(* writes and keeps it until it commits, so revisions become visible in     *)
(* order.  Only operations that succeed are modelled here; Review shows     *)
(* that the full operations do nothing else to the index.                   *)
(***************************************************************************)
EXTENDS Memories

VARIABLES
    revision,      \* gateway_state.server_revision
    memStatus,     \* [Memory -> MemStatus], memory_lifecycle.status
    memRev,        \* [Memory -> Nat], updated_server_revision
    supersededBy,  \* [Memory -> SUBSET Memory], at most one element
    origin,        \* [Memory -> Origin], the operation that made it
    tombRev        \* [Memory -> Nat], deleted_revision of the tombstone that is
                   \*   in force; 0: none, or revoked

lifecycleVars == <<revision, memStatus, memRev, supersededBy, origin, tombRev>>

MemStatus == {"none", "active", "superseded", "archived"}

\* "auto": stored without review; "undone": the confirming operation of the
\* review was reverted.
Origin == {"none", "auto", "confirm", "supersede", "undone"}

LifecycleTypeOK ==
    /\ revision \in Nat
    /\ memStatus \in [Memory -> MemStatus]
    /\ memRev \in [Memory -> Nat]
    /\ supersededBy \in [Memory -> SUBSET Memory]
    /\ origin \in [Memory -> Origin]
    /\ tombRev \in [Memory -> Nat]

LifecycleInit ==
    /\ revision = 0
    /\ memStatus = [m \in Memory |-> "none"]
    /\ memRev = [m \in Memory |-> 0]
    /\ supersededBy = [m \in Memory |-> {}]
    /\ origin = [m \in Memory |-> "none"]
    /\ tombRev = [m \in Memory |-> 0]

Active == {m \in Memory : memStatus[m] = "active"}

\* _next_revision: every operation takes one number for all it writes.
NextRevision == revision' = revision + 1

\* _register_active_lifecycle and _insert_confirmed_lifecycle.
Activate(m, how) ==
    /\ memStatus[m] = "none"
    /\ how \in {"auto", "confirm"}
    /\ NextRevision
    /\ memStatus' = [memStatus EXCEPT ![m] = "active"]
    /\ memRev' = [memRev EXCEPT ![m] = revision + 1]
    /\ origin' = [origin EXCEPT ![m] = how]
    /\ UNCHANGED <<supersededBy, tombRev>>

\* _confirm with a target, and _mark_superseded: the new memory and the
\* tombstone of the old one carry the same revision.
Supersede(m, t) ==
    /\ memStatus[m] = "none"
    /\ memStatus[t] = "active"
    /\ NextRevision
    /\ memStatus' = [memStatus EXCEPT ![m] = "active", ![t] = "superseded"]
    /\ memRev' = [memRev EXCEPT ![m] = revision + 1, ![t] = revision + 1]
    /\ origin' = [origin EXCEPT ![m] = "supersede"]
    /\ supersededBy' = [supersededBy EXCEPT ![t] = {m}]
    /\ tombRev' = [tombRev EXCEPT ![t] = revision + 1]

\* forget: archive and tombstone an active memory.
Forget(m) ==
    /\ memStatus[m] = "active"
    /\ NextRevision
    /\ memStatus' = [memStatus EXCEPT ![m] = "archived"]
    /\ memRev' = [memRev EXCEPT ![m] = revision + 1]
    /\ tombRev' = [tombRev EXCEPT ![m] = revision + 1]
    /\ UNCHANGED <<supersededBy, origin>>

\* What _revert_operation of a plain confirmation writes: whatever became of the
\* memory in the meantime, it is archived now.
WriteRevertConfirm(m) ==
    /\ NextRevision
    /\ memStatus' = [memStatus EXCEPT ![m] = "archived"]
    /\ memRev' = [memRev EXCEPT ![m] = revision + 1]
    /\ tombRev' = [tombRev EXCEPT ![m] = revision + 1]
    /\ origin' = [origin EXCEPT ![m] = "undone"]
    /\ UNCHANGED supersededBy

RevertConfirm(m) == origin[m] = "confirm" /\ WriteRevertConfirm(m)

\* Mutant: the restored memory keeps the revision it was last changed at.
RevertSupersedeOldRevision(m, t) ==
    /\ origin[m] = "supersede"
    /\ memStatus[t] = "superseded"
    /\ supersededBy[t] = {m}
    /\ NextRevision
    /\ memStatus' = [memStatus EXCEPT ![m] = "archived", ![t] = "active"]
    /\ memRev' = [memRev EXCEPT ![m] = revision + 1]
    /\ tombRev' = [tombRev EXCEPT ![m] = revision + 1, ![t] = 0]
    /\ origin' = [origin EXCEPT ![m] = "undone"]
    /\ supersededBy' = [supersededBy EXCEPT ![t] = {}]

\* What _revert_operation of a supersession writes: m is archived with a
\* tombstone, t comes back at the same revision and its tombstone is revoked.
WriteRevertSupersede(m, t) ==
    /\ NextRevision
    /\ memStatus' = [memStatus EXCEPT ![m] = "archived", ![t] = "active"]
    /\ memRev' = [memRev EXCEPT ![m] = revision + 1, ![t] = revision + 1]
    /\ tombRev' = [tombRev EXCEPT ![m] = revision + 1, ![t] = 0]
    /\ origin' = [origin EXCEPT ![m] = "undone"]
    /\ supersededBy' = [supersededBy EXCEPT ![t] = {}]

\* The backend refuses it (GBRAIN_STATE_CONFLICT) unless t is still superseded by
\* m and not archived.
RevertSupersede(m, t) ==
    /\ origin[m] = "supersede"
    /\ memStatus[t] = "superseded"
    /\ supersededBy[t] = {m}
    /\ WriteRevertSupersede(m, t)

\* Operations that take a revision and leave the index alone: a candidate that
\* is archived or rejected, the reversal of that, a crystal.
OtherOperation ==
    /\ NextRevision
    /\ UNCHANGED <<memStatus, memRev, supersededBy, origin, tombRev>>

\* What may ever happen to the index.
LifecycleNext ==
    \/ \E m \in Memory, how \in {"auto", "confirm"} : Activate(m, how)
    \/ \E m \in Memory : Forget(m) \/ RevertConfirm(m)
    \/ \E m, t \in Memory : Supersede(m, t) \/ RevertSupersede(m, t)
    \/ OtherOperation

LifecycleSpec == LifecycleInit /\ [][LifecycleNext]_lifecycleVars
=============================================================================
