------------------------------- MODULE Access -------------------------------
(***************************************************************************)
(* Who may use the gateway: the sidecar's token provider (sidecar_auth.py), *)
(* which trades the refresh secret it has stored for access tokens over a   *)
(* network that loses answers and delays requests, and the administrators   *)
(* who change and revoke identities from the console (admin_service.py) and *)
(* from the command line (identity_cli.py), all on the tables of Identity.  *)
(***************************************************************************)
EXTENDS Identity

CONSTANTS
    Slot,       \* console requests that can be under way
    NoOne,      \* no agent, no request
    Overlap,    \* BOOLEAN: may administrators act at the same time
    MaxMinted,  \* [Device -> Nat]: bound on the secrets of a device up to which its
                \*   tokens are renewed and its credentials registered again
    MaxFaults,  \* [Device -> Nat]: bound on timeouts, lost answers, failed writes and
                \*   crashes of its sidecar
    MaxLate     \* bound on requests of which the sidecar has given up the answer

ASSUME AccessAssumption ==
    /\ NoOne \notin Agent
    /\ Overlap \in BOOLEAN
    /\ MaxMinted \in [Device -> Nat]
    /\ MaxFaults \in [Device -> Nat]
    /\ MaxLate \in Nat

VARIABLES
    saved,      \* [Device -> Nat], the refresh secret in the device's credential store
    asked,      \* [Device -> Ask], the call of _refresh that the provider's lock protects
    net,        \* refresh requests that the gateway has not handled
    tokens,     \* access tokens that have not expired
    cache,      \* [Agent -> set of at most one token], _tokens of the provider
    adm,        \* [Slot -> console request], authenticated and not yet committed
    faults      \* [Device -> Nat], faults so far

clientVars == <<saved, asked, net, tokens, cache, faults>>
vars == <<identityVars, clientVars, adm>>

Token == [agent : Agent, dev : Nat, ag : Nat]

\* agent = NoOne: no call.  An answer is a new secret and a token; secret = 0 with
\* done: an error.
Ask == [agent : Agent \cup {NoOne}, with : Nat, done : BOOLEAN, secret : Nat, token : SUBSET Token]
NoAsk == [agent |-> NoOne, with |-> 0, done |-> FALSE, secret |-> 0, token |-> {}]

\* A refresh request; late: the sidecar no longer waits for the answer.
Message == [dev : Device, agent : Agent, with : Nat, late : BOOLEAN]

NoRequest == [op |-> "none"]
AdminRequest ==
    {NoRequest}
    \cup [op : {"update_binding"}, actor : Agent, agent : Agent, seen : SUBSET Cap, caps : Grant]
    \cup [op : {"revoke_agent"}, actor : Agent, agent : Agent, seen : Nat]
    \cup [op : {"revoke_device"}, actor : Agent, dev : Device, seen : Nat]

TypeOK ==
    /\ IdentityTypeOK
    /\ saved \in [Device -> Nat]
    /\ asked \in [Device -> Ask]
    /\ net \subseteq Message
    /\ tokens \subseteq Token
    /\ cache \in [Agent -> SUBSET Token]
    /\ adm \in [Slot -> AdminRequest]
    /\ faults \in [Device -> Nat]

Init ==
    /\ IdentityInit
    /\ saved = [d \in Device |-> 0]
    /\ asked = [d \in Device |-> NoAsk]
    /\ net = {}
    /\ tokens = {}
    /\ cache = [a \in Agent |-> {}]
    /\ adm = [q \in Slot |-> NoRequest]
    /\ faults = [d \in Device |-> 0]

Fault(d) == faults[d] < MaxFaults[d] /\ faults' = [faults EXCEPT ![d] = @ + 1]
-----------------------------------------------------------------------------
(* Pairing and credentials *)

\* pair_device: the gateway registers the device and the answer is written to the
\* credential store; or it is lost, and no second try can succeed.
PairDevice(d, c, G) ==
    /\ saved[d] = 0
    /\ Pair(d, c, G)
    /\ \/ saved' = [saved EXCEPT ![d] = minted[d] + 1] /\ UNCHANGED faults
       \/ Fault(d) /\ UNCHANGED saved
    /\ UNCHANGED <<asked, net, tokens, cache, adm>>

\* The administrator registers a secret that is already in the device's store.
Register(d) ==
    /\ minted[d] < MaxMinted[d]
    /\ RegisterCredential(d)
    /\ saved' = [saved EXCEPT ![d] = minted[d] + 1]
    /\ UNCHANGED <<asked, net, tokens, cache, faults, adm>>
-----------------------------------------------------------------------------
(* The token provider *)

\* access_token: no token of a is cached, so the stored secret is sent.
AskToken(d, a) ==
    /\ Owner[a] = d
    /\ saved[d] # 0
    /\ asked[d] = NoAsk
    /\ cache[a] = {}
    /\ asked' = [asked EXCEPT ![d] = [NoAsk EXCEPT !.agent = a, !.with = saved[d]]]
    /\ net' = net \cup {[dev |-> d, agent |-> a, with |-> saved[d], late |-> FALSE]}
    /\ UNCHANGED <<identityVars, saved, tokens, cache, faults, adm>>

\* What the sidecar is told, if it still waits.
AnswerTo(m, secret, token) ==
    asked' = IF m.late THEN asked
             ELSE [asked EXCEPT ![m.dev] = [@ EXCEPT !.done = TRUE, !.secret = secret, !.token = token]]

\* The gateway handles a refresh request.
HandleRefresh(m) ==
    /\ m \in net
    /\ net' = net \ {m}
    /\ LET granted == agStatus[m.agent] = "active" /\ (IsReplay(m.dev, m.with) \/ IsCurrent(m.dev, m.with))
           token == {Claims(m.agent)}
       IN
       \/ /\ IsReuse(m.dev, m.with)
          /\ DetectReuse(m.dev)
          /\ AnswerTo(m, 0, {})
          /\ UNCHANGED tokens
       \/ /\ granted
          /\ IF IsReplay(m.dev, m.with) THEN Replay(m.dev) ELSE Rotate(m.dev)
          /\ AnswerTo(m, row'[m.dev].cur, token)
          /\ tokens' = IF m.late THEN tokens ELSE tokens \cup token
       \/ /\ ~granted /\ ~IsReuse(m.dev, m.with)
          /\ AnswerTo(m, 0, {})
          /\ UNCHANGED <<identityVars, tokens>>
    /\ UNCHANGED <<saved, cache, faults, adm>>

\* Mutant: the token is cached and the new secret is not written.
SaveTokenOnly(d) ==
    /\ asked[d].done
    /\ asked' = [asked EXCEPT ![d] = NoAsk]
    /\ cache' = [cache EXCEPT ![asked[d].agent] = asked[d].token]
    /\ UNCHANGED <<identityVars, saved, net, tokens, faults, adm>>

\* The answer is there: replace_credential, if the store still holds the secret that
\* was sent (REFRESH_CREDENTIAL_ROTATION_CONFLICT otherwise), then cache the token.
SaveAnswer(d) ==
    /\ asked[d].done
    /\ LET good == asked[d].secret # 0 /\ saved[d] = asked[d].with IN
       /\ saved' = IF good THEN [saved EXCEPT ![d] = asked[d].secret] ELSE saved
       /\ cache' = IF good THEN [cache EXCEPT ![asked[d].agent] = asked[d].token] ELSE cache
    /\ asked' = [asked EXCEPT ![d] = NoAsk]
    /\ UNCHANGED <<identityVars, net, tokens, faults, adm>>

\* The sidecar gives up: a timeout, an answer that is lost or cannot be written, or
\* a crash, after which no token is cached.  The gateway may still handle the request.
GiveUp(d) ==
    /\ asked[d] # NoAsk
    /\ Fault(d)
    /\ Cardinality({m \in net : m.late}) < MaxLate
    /\ asked' = [asked EXCEPT ![d] = NoAsk]
    /\ net' = {m \in net : m.dev # d \/ m.late} \cup
                 {[m EXCEPT !.late = TRUE] : m \in {n \in net : n.dev = d}}
    /\ cache' \in {cache, [a \in Agent |-> IF Owner[a] = d THEN {} ELSE cache[a]]}
    /\ UNCHANGED <<identityVars, saved, tokens, adm>>

\* A request of which nobody waits for the answer is lost.
LoseLate(m) ==
    /\ m \in net /\ m.late
    /\ net' = net \ {m}
    /\ UNCHANGED <<identityVars, saved, asked, tokens, cache, faults, adm>>

\* refresh_after passes; then the token itself expires.
CacheRunsOut(a) ==
    /\ cache[a] # {}
    /\ minted[Owner[a]] < MaxMinted[Owner[a]]
    /\ cache' = [cache EXCEPT ![a] = {}]
    /\ UNCHANGED <<identityVars, saved, asked, net, tokens, faults, adm>>

ExpireToken(t) ==
    /\ t \in tokens /\ t \notin cache[t.agent]
    /\ tokens' = tokens \ {t}
    /\ UNCHANGED <<identityVars, saved, asked, net, cache, faults, adm>>
-----------------------------------------------------------------------------
(* The administrators *)

\* Nobody else is in the middle of an administrative request.
Alone == Overlap \/ \A q \in Slot : adm[q] = NoRequest

\* What the console offers to the manager a; seen is what its page shows.  To set
\* the capabilities that are there already changes nothing.
ConsoleRequests(a) ==
    {r \in {[op |-> "update_binding", actor |-> a, agent |-> b, seen |-> caps[b], caps |-> G] :
                b \in {c \in Agent : caps[c] # {}}, G \in Grant} : r.caps # r.seen}
    \cup {[op |-> "revoke_agent", actor |-> a, agent |-> b, seen |-> agEpoch[b]] :
            b \in {c \in Agent : caps[c] # {}}}
    \cup {[op |-> "revoke_device", actor |-> a, dev |-> d, seen |-> devEpoch[d]] :
            d \in {Owner[c] : c \in {e \in Agent : caps[e] # {}}}}

\* Mutant: only the capabilities are protected, not the caller's own device.
LocksItselfOutOnce(r) ==
    r.op = "update_binding" /\ r.agent = r.actor /\ Manage \notin r.caps

\* ADMIN_SELF_LOCKOUT_FORBIDDEN and ADMIN_SELF_REVOKE_FORBIDDEN
LocksItselfOut(r) ==
    \/ r.op = "update_binding" /\ r.agent = r.actor /\ Manage \notin r.caps
    \/ r.op = "revoke_agent" /\ r.agent = r.actor
    \/ r.op = "revoke_device" /\ r.dev = Owner[r.actor]

\* The handler authenticates the token, checks the capability of the route and
\* refuses a request that turns against its caller.
Admit(q, t) ==
    /\ adm[q] = NoRequest /\ Alone
    /\ t \in tokens /\ Admissible(t)
    /\ Manage \in caps[t.agent]
    /\ \E r \in ConsoleRequests(t.agent) : ~LocksItselfOut(r) /\ adm' = [adm EXCEPT ![q] = r]
    /\ UNCHANGED <<identityVars, clientVars>>

\* update_binding: ADMIN_STATE_CHANGED, ADMIN_TARGET_INACTIVE
UpdateBinding(r) ==
    /\ r.op = "update_binding"
    /\ caps[r.agent] = r.seen
    /\ devStatus[Owner[r.agent]] = "active" /\ agStatus[r.agent] = "active"
    /\ caps' = [caps EXCEPT ![r.agent] = r.caps]
    /\ UNCHANGED <<code, devStatus, devEpoch, agStatus, agEpoch, row, minted>>

\* revoke_agent of the console
ConsoleRevokeAgent(r) ==
    /\ r.op = "revoke_agent"
    /\ agEpoch[r.agent] = r.seen
    /\ devStatus[Owner[r.agent]] = "active"
    /\ RevokeAgent(r.agent)

\* revoke_device of the console
ConsoleRevokeDevice(r) ==
    /\ r.op = "revoke_device"
    /\ devEpoch[r.dev] = r.seen
    /\ RevokeDevice(r.dev)

\* The request is carried out, with the caller as it was when it was authenticated.
CommitAdmin(q) ==
    /\ adm[q] # NoRequest
    /\ UpdateBinding(adm[q]) \/ ConsoleRevokeAgent(adm[q]) \/ ConsoleRevokeDevice(adm[q])
    /\ adm' = [adm EXCEPT ![q] = NoRequest]
    /\ UNCHANGED clientVars

\* It is refused, or fails.
DropAdmin(q) ==
    /\ adm[q] # NoRequest
    /\ adm' = [adm EXCEPT ![q] = NoRequest]
    /\ UNCHANGED <<identityVars, clientVars>>

\* The command line, which can do anything to any identity.
CommandLine ==
    /\ Alone
    /\ \/ \E c \in Code : CreatePairingCode(c)
       \/ \E a \in Agent, G \in Grant : BindWorkspace(a, G)
       \/ \E d \in Device : RevokeDevice(d)
       \/ \E a \in Agent : RevokeAgent(a)
    /\ UNCHANGED <<clientVars, adm>>

\* Time passes in the database.
Clock ==
    /\ \/ \E c \in Code : ExpireCode(c)
       \/ \E d \in Device : CloseWindow(d) \/ ExpireRow(d)
    /\ UNCHANGED <<clientVars, adm>>
-----------------------------------------------------------------------------
Next ==
    \/ \E d \in Device, c \in Code, G \in Grant \cup {{}} : PairDevice(d, c, G)
    \/ \E d \in Device : Register(d) \/ SaveAnswer(d) \/ GiveUp(d)
    \/ \E d \in Device, a \in Agent : AskToken(d, a)
    \/ \E m \in net : HandleRefresh(m) \/ LoseLate(m)
    \/ \E a \in Agent : CacheRunsOut(a)
    \/ \E t \in tokens : ExpireToken(t)
    \/ \E q \in Slot : CommitAdmin(q) \/ DropAdmin(q)
    \/ \E q \in Slot, t \in tokens : Admit(q, t)
    \/ CommandLine
    \/ Clock

Spec == Init /\ [][Next]_vars
-----------------------------------------------------------------------------
(* Properties *)

\* The secret in the device's store is never more than one rotation behind a row in
\* use, whatever is lost, delayed or repeated.  A sidecar that has missed an answer can
\* therefore be given it again for as long as the replay window is open; once the window
\* is closed, its next request is taken for a reuse (identity_service.py, refresh) and
\* this property promises it nothing.
SidecarKeepsUp ==
    \A d \in Device : row[d].status = "live" /\ saved[d] # 0 => saved[d] \in {row[d].cur, row[d].prev}

\* The alarm for a reused secret (identity_service.py, reuse_detected), which raises
\* the epoch of a device that stays active, is never raised against the device's own
\* sidecar unless a request was delayed, or an answer lost or not written.
NoFalseAlarm ==
    \A d \in Device : devStatus[d] = "active" /\ devEpoch[d] > 1 => faults[d] > 0

\* A token that is no longer admitted is never admitted again: no later pairing,
\* registration or change of bindings gives a revoked token its rights back.
DeadTokensStayDead ==
    [][\A t \in tokens \cap tokens' : ~Admissible(t) => ~Admissible(t)']_vars

\* The console cannot lock out all managers ("prevents the administration from
\* locking itself out", update_binding), as long as administrators act one by one.
ConsoleKeepsManager ==
    [][(\E q \in Slot : CommitAdmin(q)) /\ Managers # {} => Managers' # {}]_vars
-----------------------------------------------------------------------------
(* The inductive invariant behind the safety properties.                    *)

Live(d) == row[d].status = "live"

\* Secrets are numbered in the order in which they are made; a row in use holds the
\* newest one.  An answer that the sidecar is about to write is newer than what it
\* sent and, unless the store was changed meanwhile, the newest.
SecretsInv ==
    \A d \in Device :
        /\ saved[d] <= minted[d]
        /\ Live(d) => row[d].cur = minted[d] /\ row[d].prev < row[d].cur
        /\ asked[d].with <= saved[d]
        /\ asked[d].secret <= minted[d]
        /\ asked[d].secret # 0 =>
              /\ 0 < asked[d].with /\ asked[d].with < asked[d].secret
              /\ Live(d) /\ saved[d] = asked[d].with => asked[d].secret = row[d].cur

\* A request carries a secret that was once in the store; one that is not late is
\* the call for which the sidecar waits.
NetInv ==
    \A m \in net :
        /\ Owner[m.agent] = m.dev
        /\ 0 < m.with /\ m.with <= saved[m.dev]
        /\ ~m.late => asked[m.dev].agent = m.agent /\ asked[m.dev].with = m.with /\ ~asked[m.dev].done

\* Without faults the store is up to date, or the answer that makes it so is there.
AlarmInv ==
    \A d \in Device : faults[d] = 0 =>
        /\ \A m \in net : m.dev = d => ~m.late /\ (Live(d) => m.with = row[d].cur \/ row[d].prev = 0)
        /\ Live(d) =>
              \/ saved[d] = row[d].cur
              \/ asked[d].done /\ asked[d].secret = row[d].cur /\ saved[d] = asked[d].with

\* Agents are registered with their device, and tokens are issued to registered
\* agents, with epochs that only grow afterwards.
TokensInv ==
    /\ \A a \in Agent : agStatus[a] = "none" <=> devStatus[Owner[a]] = "none"
    /\ \A t \in tokens :
          /\ agStatus[t.agent] # "none"
          /\ t.dev <= devEpoch[Owner[t.agent]] /\ t.ag <= agEpoch[t.agent]

\* If administrators act one by one, whoever was authenticated is still a manager
\* when the request is carried out, and the request does not turn against its caller.
AdminInv ==
    ~Overlap => \A q \in Slot : adm[q] # NoRequest =>
        /\ adm[q].actor \in Managers
        /\ ~LocksItselfOut(adm[q])
        /\ \A p \in Slot : adm[p] # NoRequest => p = q

AccessInv ==
    TypeOK /\ SecretsInv /\ NetInv /\ SidecarKeepsUp /\ AlarmInv /\ NoFalseAlarm /\ TokensInv /\ AdminInv
=============================================================================
