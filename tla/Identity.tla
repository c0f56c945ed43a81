------------------------------ MODULE Identity ------------------------------
(***************************************************************************)
(* Devices, agents, workspace bindings, pairing codes and refresh           *)
(* credentials in the metadata database (identity_service.py), and the      *)
(* check of access tokens against them (auth.py).  Each operator is one     *)
(* transaction.  One tenant, one user and one workspace, all active; a      *)
(* device's credentials are the row that was inserted last, because another *)
(* row is inserted only when no earlier one can be used any more.           *)
(***************************************************************************)
EXTENDS Naturals, FiniteSets

CONSTANTS
    Device,
    Agent,
    Owner,       \* [Agent -> Device]: the device an agent is installed on
    Code,        \* pairing codes
    Grant        \* the sets of capabilities that administrators give

Manage == "memory.manage"
Cap == UNION Grant

ASSUME IdentityAssumption ==
    /\ Owner \in [Agent -> Device]
    /\ {} \notin Grant

VARIABLES
    code,        \* [Code -> status of the pairing code]
    devStatus,   \* [Device -> Status]
    devEpoch,    \* [Device -> Nat], devices.auth_epoch
    agStatus,    \* [Agent -> Status]
    agEpoch,     \* [Agent -> Nat], agent_installations.auth_epoch
    caps,        \* [Agent -> SUBSET Cap], the binding; {}: no binding
    row,         \* [Device -> Row], refresh_credentials
    minted       \* [Device -> Nat], refresh secrets made so far for a device

identityVars == <<code, devStatus, devEpoch, agStatus, agEpoch, caps, row, minted>>

Status == {"none", "active", "revoked"}

\* A refresh secret is a number, 0 is none.  prev is the secret that was replaced
\* last; while the window is open, the encrypted replacement is kept for it.  A row
\* that is revoked or expired is dead: nothing reads its other fields.
Row == [status : {"none", "live", "dead"}, epoch : Nat, cur : Nat, prev : Nat, open : BOOLEAN]
DeadRow == [status |-> "dead", epoch |-> 0, cur |-> 0, prev |-> 0, open |-> FALSE]
NoRow == [status |-> "none", epoch |-> 0, cur |-> 0, prev |-> 0, open |-> FALSE]

IdentityTypeOK ==
    /\ code \in [Code -> {"none", "open", "spent"}]
    /\ devStatus \in [Device -> Status]
    /\ devEpoch \in [Device -> Nat]
    /\ agStatus \in [Agent -> Status]
    /\ agEpoch \in [Agent -> Nat]
    /\ caps \in [Agent -> SUBSET Cap]
    /\ row \in [Device -> Row]
    /\ minted \in [Device -> Nat]

IdentityInit ==
    /\ code = [c \in Code |-> "none"]
    /\ devStatus = [d \in Device |-> "none"]
    /\ devEpoch = [d \in Device |-> 0]
    /\ agStatus = [a \in Agent |-> "none"]
    /\ agEpoch = [a \in Agent |-> 0]
    /\ caps = [a \in Agent |-> {}]
    /\ row = [d \in Device |-> NoRow]
    /\ minted = [d \in Device |-> 0]

AgentsOf(d) == {a \in Agent : Owner[a] = d}
-----------------------------------------------------------------------------
(* Pairing *)

\* create_pairing_code; the code expires after its lifetime unless it was used.
CreatePairingCode(c) ==
    /\ code[c] = "none"
    /\ code' = [code EXCEPT ![c] = "open"]
    /\ UNCHANGED <<devStatus, devEpoch, agStatus, agEpoch, caps, row, minted>>

ExpireCode(c) ==
    /\ code[c] = "open"
    /\ code' = [code EXCEPT ![c] = "spent"]
    /\ UNCHANGED <<devStatus, devEpoch, agStatus, agEpoch, caps, row, minted>>

\* Mutant: the row gets the status of its device.
FreshActive(d, epoch) ==
    [status |-> "active", epoch |-> epoch, cur |-> minted[d] + 1, prev |-> 0, open |-> FALSE]

\* The row of a secret that was just made.
Fresh(d, epoch) ==
    [status |-> "live", epoch |-> epoch, cur |-> minted[d] + 1, prev |-> 0, open |-> FALSE]

\* pair: refused (PAIRING_CODE_*, DEVICE_ID_CONFLICT, AGENT_INSTALLATION_ID_CONFLICT)
\* unless the code is open and the device is not registered.
CanPair(d, c) == code[c] = "open" /\ devStatus[d] = "none"

\* The agents get the binding G that the code carries, if it carries one.
Pair(d, c, G) ==
    /\ CanPair(d, c)
    /\ code' = [code EXCEPT ![c] = "spent"]
    /\ devStatus' = [devStatus EXCEPT ![d] = "active"]
    /\ devEpoch' = [devEpoch EXCEPT ![d] = 1]
    /\ agStatus' = [a \in Agent |-> IF a \in AgentsOf(d) THEN "active" ELSE agStatus[a]]
    /\ agEpoch' = [a \in Agent |-> IF a \in AgentsOf(d) THEN 1 ELSE agEpoch[a]]
    /\ caps' = [a \in Agent |-> IF a \in AgentsOf(d) THEN G ELSE caps[a]]
    /\ row' = [row EXCEPT ![d] = Fresh(d, 1)]
    /\ minted' = [minted EXCEPT ![d] = @ + 1]
-----------------------------------------------------------------------------
(* Administration from the command line *)

\* bind_workspace adds a binding and never changes one.
BindWorkspace(a, G) ==
    /\ devStatus[Owner[a]] = "active" /\ agStatus[a] = "active"
    /\ caps[a] = {}
    /\ caps' = [caps EXCEPT ![a] = G]
    /\ UNCHANGED <<code, devStatus, devEpoch, agStatus, agEpoch, row, minted>>

\* Mutant: a new credential starts the epochs of its device again.
RegisterRestartsEpoch(d) ==
    /\ devStatus[d] = "active"
    /\ row[d].status # "live"
    /\ row' = [row EXCEPT ![d] = Fresh(d, 1)]
    /\ minted' = [minted EXCEPT ![d] = @ + 1]
    /\ devEpoch' = [devEpoch EXCEPT ![d] = 1]
    /\ agEpoch' = [a \in Agent |-> IF Owner[a] = d THEN 1 ELSE agEpoch[a]]
    /\ UNCHANGED <<code, devStatus, agStatus, caps>>

\* register_bootstrap_credential: ACTIVE_REFRESH_EXISTS while a row is in use.
RegisterCredential(d) ==
    /\ devStatus[d] = "active"
    /\ row[d].status # "live"
    /\ row' = [row EXCEPT ![d] = Fresh(d, devEpoch[d])]
    /\ minted' = [minted EXCEPT ![d] = @ + 1]
    /\ UNCHANGED <<code, devStatus, devEpoch, agStatus, agEpoch, caps>>

\* revoke_device: the device, its agents and its credentials.
RevokeDevice(d) ==
    /\ devStatus[d] = "active"
    /\ devStatus' = [devStatus EXCEPT ![d] = "revoked"]
    /\ devEpoch' = [devEpoch EXCEPT ![d] = @ + 1]
    /\ LET hit == {a \in AgentsOf(d) : agStatus[a] # "revoked"} IN
       /\ agStatus' = [a \in Agent |-> IF a \in hit THEN "revoked" ELSE agStatus[a]]
       /\ agEpoch' = [a \in Agent |-> IF a \in hit THEN agEpoch[a] + 1 ELSE agEpoch[a]]
    /\ row' = [row EXCEPT ![d] = IF @.status = "live" THEN DeadRow ELSE @]
    /\ UNCHANGED <<code, caps, minted>>

\* revoke_agent
RevokeAgent(a) ==
    /\ agStatus[a] = "active"
    /\ agStatus' = [agStatus EXCEPT ![a] = "revoked"]
    /\ agEpoch' = [agEpoch EXCEPT ![a] = @ + 1]
    /\ UNCHANGED <<code, devStatus, devEpoch, caps, row, minted>>
-----------------------------------------------------------------------------
(* Refresh *)

\* The row and the device admit a refresh at all.
RowUsable(d) == row[d].status = "live" /\ devStatus[d] = "active" /\ row[d].epoch = devEpoch[d]

\* The presented secret is the one that was replaced last, and the window in
\* which its replacement is given out again is closed.
IsReuse(d, s) == RowUsable(d) /\ s # 0 /\ s = row[d].prev /\ ~row[d].open

IsReplay(d, s) == RowUsable(d) /\ s # 0 /\ s = row[d].prev /\ row[d].open

IsCurrent(d, s) == RowUsable(d) /\ s = row[d].cur

\* refresh, reuse_detected: the row is revoked, and all tokens of the device with it.
DetectReuse(d) ==
    /\ row' = [row EXCEPT ![d] = DeadRow]
    /\ devEpoch' = [devEpoch EXCEPT ![d] = @ + 1]
    /\ agEpoch' = [a \in Agent |-> IF Owner[a] = d THEN agEpoch[a] + 1 ELSE agEpoch[a]]
    /\ UNCHANGED <<code, devStatus, agStatus, caps, minted>>

\* refresh, the normal case: a new secret, and the window for the old one opens.
Rotate(d) ==
    /\ row' = [row EXCEPT ![d] = [@ EXCEPT !.prev = row[d].cur, !.cur = minted[d] + 1, !.open = TRUE]]
    /\ minted' = [minted EXCEPT ![d] = @ + 1]
    /\ UNCHANGED <<code, devStatus, devEpoch, agStatus, agEpoch, caps>>

\* Mutant: a repeated refresh makes yet another secret.
ReplayRotates(d) == Rotate(d)

\* refresh, replayed: the same answer again, nothing changes.
Replay(d) == UNCHANGED identityVars

\* replay_until passes.
CloseWindow(d) ==
    /\ row[d].open
    /\ row' = [row EXCEPT ![d] = [@ EXCEPT !.open = FALSE]]
    /\ UNCHANGED <<code, devStatus, devEpoch, agStatus, agEpoch, caps, minted>>

\* expires_at of the row passes; rotation never moves it.
ExpireRow(d) ==
    /\ row[d].status = "live"
    /\ row' = [row EXCEPT ![d] = DeadRow]
    /\ UNCHANGED <<code, devStatus, devEpoch, agStatus, agEpoch, caps, minted>>
-----------------------------------------------------------------------------
(* Access tokens *)

\* The claims of a token of agent a that is issued now.
Claims(a) == [agent |-> a, dev |-> devEpoch[Owner[a]], ag |-> agEpoch[a]]

\* authenticate: the status and the epochs are read from the database each time.
Admissible(t) ==
    /\ devStatus[Owner[t.agent]] = "active" /\ devEpoch[Owner[t.agent]] = t.dev
    /\ agStatus[t.agent] = "active" /\ agEpoch[t.agent] = t.ag

Managers == {a \in Agent : agStatus[a] = "active" /\ devStatus[Owner[a]] = "active" /\ Manage \in caps[a]}
=============================================================================
