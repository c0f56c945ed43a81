------------------------------ MODULE Backend -------------------------------
(***************************************************************************)
(* The long-term memory store as gbrain_backend.py drives it: facts, and    *)
(* the table of operations that makes a repeated call with the same         *)
(* idempotency key return its first result.  Each operator is one           *)
(* transaction of the store, which commits on its own.  reactivate and      *)
(* tombstone have no caller and are left out.                               *)
(***************************************************************************)
EXTENDS Memories

CONSTANT
    Key        \* idempotency keys of client requests

VARIABLES
    fact,      \* [Memory -> FactState]: no row, or expired_at is null or set
    heir,      \* [Memory -> SUBSET Memory], superseded_by, at most one element
    made,      \* [Key -> SUBSET Memory], memory_gateway_bindings
    bdone,     \* keys in memory_gateway_operations; a memory stands for the
               \*   key that forget derives from it
    built      \* [Key -> SUBSET Memory], sources of the page a rebuild returned

backendVars == <<fact, heir, made, bdone, built>>

FactState == {"none", "live", "expired"}

BackendTypeOK ==
    /\ fact \in [Memory -> FactState]
    /\ heir \in [Memory -> SUBSET Memory]
    /\ made \in [Key -> SUBSET Memory]
    /\ bdone \in SUBSET (Key \cup Memory)
    /\ built \in [Key -> SUBSET Memory]

BackendInit ==
    /\ fact = [m \in Memory |-> "none"]
    /\ heir = [m \in Memory |-> {}]
    /\ made = [k \in Key |-> {}]
    /\ bdone = {}
    /\ built = [k \in Key |-> {}]

\* _existing_operation: a repeated call is answered from the table, and
\* _insert_operation: the key is noted with the effect.
Repeated(k) == k \in bdone
Note(k) == bdone' = bdone \cup {k}

\* What get_by_refs and search return.
Readable(m) == fact[m] = "live" /\ heir[m] = {}

\* upsert_confirmed: m is the fact of key k, a new one unless k has been here.
UpsertConfirmed(k, m) ==
    /\ \/ m \in made[k] /\ UNCHANGED <<fact, made>>
       \/ /\ made[k] = {} /\ fact[m] = "none"
          /\ fact' = [fact EXCEPT ![m] = "live"]
          /\ made' = [made EXCEPT ![k] = {m}]
    /\ UNCHANGED <<heir, bdone, built>>

\* supersede: GBRAIN_STATE_CONFLICT unless both facts are live and have no heir.
CanSupersede(k, old, new) == Repeated(k) \/ (Readable(old) /\ Readable(new))

SupersedeFact(k, old, new) ==
    /\ CanSupersede(k, old, new)
    /\ heir' = IF Repeated(k) THEN heir ELSE [heir EXCEPT ![old] = {new}]
    /\ Note(k)
    /\ UNCHANGED <<fact, made, built>>

\* archive: whatever the state of the fact.
ArchiveFact(k, m) ==
    /\ fact' = IF Repeated(k) THEN fact ELSE [fact EXCEPT ![m] = "expired"]
    /\ Note(k)
    /\ UNCHANGED <<heir, made, built>>

\* Mutant: an archived fact may be restored.
CanRestoreArchived(k, old, new) == Repeated(k) \/ heir[old] = {new}

\* restore_superseded: the old fact must be live and superseded by this one.
CanRestore(k, old, new) == Repeated(k) \/ (fact[old] = "live" /\ heir[old] = {new})

\* Mutant: the fact that had replaced the old one stays in force.
RestoreKeepsNew(k, old, new) ==
    /\ CanRestore(k, old, new)
    /\ heir' = IF Repeated(k) THEN heir ELSE [heir EXCEPT ![old] = {}]
    /\ Note(k)
    /\ UNCHANGED <<fact, made, built>>

RestoreSuperseded(k, old, new) ==
    /\ CanRestore(k, old, new)
    /\ IF Repeated(k) THEN UNCHANGED <<fact, heir>>
       ELSE /\ heir' = [heir EXCEPT ![old] = {}]
            /\ fact' = [fact EXCEPT ![new] = "expired"]
    /\ Note(k)
    /\ UNCHANGED <<made, built>>

\* rebuild_crystal: compile the page of the sources S, which must be readable.
CanRebuild(k, S) == Repeated(k) \/ \A m \in S : Readable(m)

RebuildPage(k, S) ==
    /\ CanRebuild(k, S)
    /\ built' = IF Repeated(k) THEN built ELSE [built EXCEPT ![k] = S]
    /\ Note(k)
    /\ UNCHANGED <<fact, heir, made>>
=============================================================================
