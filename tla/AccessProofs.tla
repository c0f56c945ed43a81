---------------------------- MODULE AccessProofs ----------------------------
(***************************************************************************)
(* Proofs about Access: the device's secret and the gateway's row stay      *)
(* within one rotation of each other, no alarm is raised without a fault,   *)
(* revoked tokens stay dead, and the console keeps a manager.               *)
(***************************************************************************)
EXTENDS Access, TLAPS

USE IdentityAssumption, AccessAssumption

\* The steps of Next, sorted by what they touch.
LEMMA AccessCases ==
    ASSUME [Next]_vars
    PROVE  \/ \E d \in Device, c \in Code, G \in Grant \cup {{}} : PairDevice(d, c, G)
           \/ \E d \in Device : Register(d) \/ SaveAnswer(d) \/ GiveUp(d)
           \/ \E d \in Device, a \in Agent : AskToken(d, a)
           \/ \E m \in net : HandleRefresh(m) \/ LoseLate(m)
           \/ \E a \in Agent : CacheRunsOut(a)
           \/ \E t \in tokens : ExpireToken(t)
           \/ \E q \in Slot : CommitAdmin(q) \/ DropAdmin(q)
           \/ \E q \in Slot, t \in tokens : Admit(q, t)
           \/ CommandLine \/ Clock
           \/ UNCHANGED vars
BY DEF Next
-----------------------------------------------------------------------------
(* The identity tables.                                                     *)

LEMMA GrantsAreCaps == Grant \subseteq SUBSET Cap /\ {} \in SUBSET Cap
BY DEF Cap

LEMMA FreshIsRow ==
    ASSUME IdentityTypeOK, NEW d \in Device, NEW n \in Nat
    PROVE  Fresh(d, n) \in Row /\ DeadRow \in Row
BY DEF IdentityTypeOK, Fresh, DeadRow, Row

\* What a rotation and the end of a window make of the row.
LEMMA RotatedRow ==
    ASSUME IdentityTypeOK, NEW d \in Device
    PROVE  /\ Rotate(d) =>
                 /\ row' \in [Device -> Row]
                 /\ row'[d].status = row[d].status /\ row'[d].epoch = row[d].epoch
                 /\ row'[d].cur = minted[d] + 1 /\ row'[d].prev = row[d].cur /\ row'[d].open
                 /\ \A e \in Device \ {d} : row'[e] = row[e]
           /\ CloseWindow(d) =>
                 /\ row' \in [Device -> Row]
                 /\ row'[d].status = row[d].status /\ row'[d].epoch = row[d].epoch
                 /\ row'[d].cur = row[d].cur /\ row'[d].prev = row[d].prev /\ ~row'[d].open
                 /\ \A e \in Device \ {d} : row'[e] = row[e]
<1> DEFINE r == row[d]
           rot == [r EXCEPT !.prev = r.cur, !.cur = minted[d] + 1, !.open = TRUE]
           cls == [r EXCEPT !.open = FALSE]
<1>1. r \in Row /\ minted[d] + 1 \in Nat
  BY DEF IdentityTypeOK
<1>2. /\ rot \in Row /\ rot.status = r.status /\ rot.epoch = r.epoch
      /\ rot.cur = minted[d] + 1 /\ rot.prev = r.cur /\ rot.open
  BY <1>1 DEF Row
<1>3. /\ cls \in Row /\ cls.status = r.status /\ cls.epoch = r.epoch
      /\ cls.cur = r.cur /\ cls.prev = r.prev /\ ~cls.open
  BY <1>1 DEF Row
<1>4. Rotate(d) => row' = [row EXCEPT ![d] = rot]
  BY DEF Rotate
<1>5. CloseWindow(d) => row' = [row EXCEPT ![d] = cls]
  BY DEF CloseWindow
<1> HIDE DEF rot, cls
<1>6. QED
  BY <1>2, <1>3, <1>4, <1>5 DEF IdentityTypeOK

\* Every transaction of the identity service keeps the types of its tables.
LEMMA IdentityTypes ==
    ASSUME IdentityTypeOK
    PROVE  /\ \A d \in Device, c \in Code, G \in Grant \cup {{}} : Pair(d, c, G) => IdentityTypeOK'
           /\ \A c \in Code : CreatePairingCode(c) \/ ExpireCode(c) => IdentityTypeOK'
           /\ \A a \in Agent, G \in Grant : BindWorkspace(a, G) => IdentityTypeOK'
           /\ \A d \in Device :
                RegisterCredential(d) \/ RevokeDevice(d) \/ DetectReuse(d) \/ Rotate(d) \/ CloseWindow(d)
                \/ ExpireRow(d) => IdentityTypeOK'
           /\ \A a \in Agent : RevokeAgent(a) => IdentityTypeOK'
           /\ UNCHANGED identityVars => IdentityTypeOK'
<1>1. ASSUME NEW d \in Device, NEW c \in Code, NEW G \in Grant \cup {{}}, Pair(d, c, G)
      PROVE  IdentityTypeOK'
  BY <1>1, GrantsAreCaps, FreshIsRow DEF Pair, IdentityTypeOK, Status
<1>2. ASSUME NEW c \in Code, CreatePairingCode(c) \/ ExpireCode(c)
      PROVE  IdentityTypeOK'
  BY <1>2 DEF CreatePairingCode, ExpireCode, IdentityTypeOK
<1>3. ASSUME NEW a \in Agent, NEW G \in Grant, BindWorkspace(a, G)
      PROVE  IdentityTypeOK'
  BY <1>3, GrantsAreCaps DEF BindWorkspace, IdentityTypeOK
<1>4. ASSUME NEW d \in Device, RegisterCredential(d)
      PROVE  IdentityTypeOK'
  BY <1>4, FreshIsRow DEF RegisterCredential, IdentityTypeOK
<1>5. ASSUME NEW d \in Device, RevokeDevice(d)
      PROVE  IdentityTypeOK'
  BY <1>5, FreshIsRow DEF RevokeDevice, IdentityTypeOK, Status
<1>6. ASSUME NEW d \in Device, DetectReuse(d)
      PROVE  IdentityTypeOK'
  BY <1>6, FreshIsRow DEF DetectReuse, IdentityTypeOK
<1>7. ASSUME NEW d \in Device, Rotate(d) \/ CloseWindow(d)
      PROVE  IdentityTypeOK'
  <2>1. row' \in [Device -> Row]
    BY <1>7, RotatedRow
  <2>2. minted' \in [Device -> Nat] /\ UNCHANGED <<code, devStatus, devEpoch, agStatus, agEpoch, caps>>
    BY <1>7 DEF IdentityTypeOK, Rotate, CloseWindow
  <2>3. QED
    BY <2>1, <2>2 DEF IdentityTypeOK
<1>8. ASSUME NEW d \in Device, ExpireRow(d)
      PROVE  IdentityTypeOK'
  BY <1>8, FreshIsRow DEF ExpireRow, IdentityTypeOK
<1>9. ASSUME NEW a \in Agent, RevokeAgent(a)
      PROVE  IdentityTypeOK'
  BY <1>9 DEF RevokeAgent, IdentityTypeOK, Status
<1>10. UNCHANGED identityVars => IdentityTypeOK'
  BY DEF identityVars, IdentityTypeOK
<1>11. QED
  BY <1>1, <1>2, <1>3, <1>4, <1>5, <1>6, <1>7, <1>8, <1>9, <1>10
-----------------------------------------------------------------------------
(* The client's variables.                                                  *)

LEMMA ClaimsAreToken ==
    ASSUME IdentityTypeOK, NEW a \in Agent
    PROVE  Claims(a) \in Token
BY DEF IdentityTypeOK, Claims, Token

LEMMA NoAskFields ==
    /\ NoAsk \in Ask
    /\ NoAsk.agent = NoOne /\ NoAsk.with = 0 /\ ~NoAsk.done /\ NoAsk.secret = 0
BY DEF NoAsk, Ask

\* The record of a call that is sent.
LEMMA SentAsk ==
    ASSUME NEW a \in Agent, NEW n \in Nat
    PROVE  LET r == [NoAsk EXCEPT !.agent = a, !.with = n] IN
           r \in Ask /\ r.agent = a /\ r.with = n /\ ~r.done /\ r.secret = 0
BY DEF NoAsk, Ask

\* What an answer changes in the calls under way.
LEMMA AnswerEffect ==
    ASSUME asked \in [Device -> Ask], NEW m \in Message, NEW n \in Nat, NEW T \in SUBSET Token,
           AnswerTo(m, n, T)
    PROVE  /\ asked' \in [Device -> Ask]
           /\ m.late => asked' = asked
           /\ ~m.late =>
                 /\ asked'[m.dev].agent = asked[m.dev].agent /\ asked'[m.dev].with = asked[m.dev].with
                 /\ asked'[m.dev].done /\ asked'[m.dev].secret = n
           /\ \A e \in Device \ {m.dev} : asked'[e] = asked[e]
<1> DEFINE r == [asked[m.dev] EXCEPT !.done = TRUE, !.secret = n, !.token = T]
<1>1. m.dev \in Device /\ asked[m.dev] \in Ask
  BY DEF Message
<1>2. r \in Ask /\ r.agent = asked[m.dev].agent /\ r.with = asked[m.dev].with /\ r.done /\ r.secret = n
  BY <1>1 DEF Ask
<1>3. asked' = IF m.late THEN asked ELSE [asked EXCEPT ![m.dev] = r]
  BY DEF AnswerTo
<1> HIDE DEF r
<1>4. QED
  BY <1>1, <1>2, <1>3

\* What the sidecar does when it gives up: all its requests are late.
LEMMA GiveUpEffect ==
    ASSUME TypeOK, NEW d \in Device, GiveUp(d)
    PROVE  /\ net' \subseteq Message
           /\ \A m \in net' :
                 /\ m.dev = d => m.late
                 /\ \E n \in net : n.dev = m.dev /\ n.agent = m.agent /\ n.with = m.with
                 /\ m.dev # d => m \in net
<1>1. SUFFICES ASSUME NEW m \in net'
               PROVE  /\ m \in Message
                      /\ m.dev = d => m.late
                      /\ \E n \in net : n.dev = m.dev /\ n.agent = m.agent /\ n.with = m.with
                      /\ m.dev # d => m \in net
  OBVIOUS
<1>2. CASE m \in net /\ (m.dev # d \/ m.late)
  BY <1>2 DEF TypeOK
<1>3. CASE \E n \in net : n.dev = d /\ m = [n EXCEPT !.late = TRUE]
  <2>1. PICK n \in net : n.dev = d /\ m = [n EXCEPT !.late = TRUE]
    BY <1>3
  <2>2. n \in Message
    BY DEF TypeOK
  <2>3. m \in Message /\ m.dev = n.dev /\ m.agent = n.agent /\ m.with = n.with /\ m.late
    BY <2>1, <2>2 DEF Message
  <2>4. QED
    BY <2>1, <2>3
<1>4. QED
  BY <1>1, <1>2, <1>3 DEF GiveUp

\* The requests that the console offers are requests.
LEMMA ConsoleRequestTypes ==
    ASSUME TypeOK, NEW a \in Agent, NEW r \in ConsoleRequests(a)
    PROVE  r \in AdminRequest /\ r.actor = a /\ r # NoRequest
<1>1. CASE \E b \in Agent, G \in Grant :
             r = [op |-> "update_binding", actor |-> a, agent |-> b, seen |-> caps[b], caps |-> G]
  BY <1>1 DEF TypeOK, IdentityTypeOK, AdminRequest, NoRequest
<1>2. CASE \E b \in Agent : r = [op |-> "revoke_agent", actor |-> a, agent |-> b, seen |-> agEpoch[b]]
  BY <1>2 DEF TypeOK, IdentityTypeOK, AdminRequest, NoRequest
<1>3. CASE \E d \in Device : r = [op |-> "revoke_device", actor |-> a, dev |-> d, seen |-> devEpoch[d]]
  BY <1>3 DEF TypeOK, IdentityTypeOK, AdminRequest, NoRequest
<1>4. QED
  BY <1>1, <1>2, <1>3 DEF ConsoleRequests

\* What a refresh does to the tables, and what the sidecar is told.
LEMMA RefreshCases ==
    ASSUME TypeOK, NEW m \in net, HandleRefresh(m)
    PROVE  /\ m \in Message
           /\ net' = net \ {m} /\ UNCHANGED <<saved, cache, faults, adm>>
           /\ \/ /\ IsReuse(m.dev, m.with) /\ DetectReuse(m.dev)
                 /\ AnswerTo(m, 0, {}) /\ UNCHANGED tokens
              \/ /\ agStatus[m.agent] = "active"
                 /\ IsReplay(m.dev, m.with) /\ UNCHANGED identityVars
                 /\ AnswerTo(m, row[m.dev].cur, {Claims(m.agent)})
                 /\ tokens' \in {tokens, tokens \cup {Claims(m.agent)}}
              \/ /\ agStatus[m.agent] = "active"
                 /\ IsCurrent(m.dev, m.with) /\ ~IsReplay(m.dev, m.with) /\ Rotate(m.dev)
                 /\ AnswerTo(m, row'[m.dev].cur, {Claims(m.agent)})
                 /\ tokens' \in {tokens, tokens \cup {Claims(m.agent)}}
              \/ /\ AnswerTo(m, 0, {})
                 /\ UNCHANGED <<identityVars, tokens>>
<1>1. m \in Message
  BY DEF TypeOK
<1>2. CASE IsReplay(m.dev, m.with) /\ UNCHANGED identityVars
  <2>1. row'[m.dev].cur = row[m.dev].cur
    BY <1>2 DEF identityVars
  <2>2. QED
    BY <1>1, <1>2, <2>1 DEF HandleRefresh, Replay
<1>3. CASE ~(IsReplay(m.dev, m.with) /\ UNCHANGED identityVars)
  BY <1>1, <1>3 DEF HandleRefresh, Replay
<1>4. QED
  BY <1>2, <1>3

LEMMA AccessTypes ==
    ASSUME TypeOK, [Next]_vars
    PROVE  TypeOK'
<1>0. IdentityTypeOK
  BY DEF TypeOK
<1>1. ASSUME NEW d \in Device, NEW c \in Code, NEW G \in Grant \cup {{}}, PairDevice(d, c, G)
      PROVE  TypeOK'
  <2>1. IdentityTypeOK'
    BY <1>0, <1>1, IdentityTypes DEF PairDevice
  <2>2. saved' \in [Device -> Nat] /\ faults' \in [Device -> Nat]
    BY <1>1 DEF PairDevice, Fault, TypeOK, IdentityTypeOK
  <2>3. QED
    BY <1>1, <2>1, <2>2 DEF PairDevice, TypeOK
<1>2. ASSUME NEW d \in Device, Register(d)
      PROVE  TypeOK'
  <2>1. IdentityTypeOK'
    BY <1>0, <1>2, IdentityTypes DEF Register
  <2>2. saved' \in [Device -> Nat]
    BY <1>2 DEF Register, TypeOK, IdentityTypeOK
  <2>3. QED
    BY <1>2, <2>1, <2>2 DEF Register, TypeOK
<1>3. ASSUME NEW d \in Device, SaveAnswer(d)
      PROVE  TypeOK'
  <2>1. IdentityTypeOK'
    BY <1>0, <1>3, IdentityTypes DEF SaveAnswer, identityVars
  <2>2. asked[d].secret \in Nat /\ asked[d].token \in SUBSET Token
    BY DEF TypeOK, Ask
  <2>3. saved' \in [Device -> Nat] /\ asked' \in [Device -> Ask]
    BY <1>3, <2>2, NoAskFields DEF SaveAnswer, TypeOK
  <2>4. cache' \in [Agent -> SUBSET Token]
    BY <1>3, <2>2 DEF SaveAnswer, TypeOK
  <2>5. QED
    BY <1>3, <2>1, <2>3, <2>4 DEF SaveAnswer, TypeOK
<1>4. ASSUME NEW d \in Device, GiveUp(d)
      PROVE  TypeOK'
  <2>1. IdentityTypeOK'
    BY <1>0, <1>4, IdentityTypes DEF GiveUp, identityVars
  <2>2. faults' \in [Device -> Nat] /\ asked' \in [Device -> Ask] /\ net' \subseteq Message
    <3>1. net' \subseteq Message
      BY <1>4, GiveUpEffect
    <3>2. QED
      BY <1>4, <3>1, NoAskFields DEF GiveUp, Fault, TypeOK
  <2>3. cache' \in [Agent -> SUBSET Token]
    BY <1>4 DEF GiveUp, TypeOK
  <2>4. QED
    BY <1>4, <2>1, <2>2, <2>3 DEF GiveUp, TypeOK
<1>5. ASSUME NEW d \in Device, NEW a \in Agent, AskToken(d, a)
      PROVE  TypeOK'
  <2>1. IdentityTypeOK'
    BY <1>0, <1>5, IdentityTypes DEF AskToken, identityVars
  <2>2. saved[d] \in Nat
    BY DEF TypeOK
  <2>3. asked' \in [Device -> Ask] /\ net' \subseteq Message
    <3>1. [NoAsk EXCEPT !.agent = a, !.with = saved[d]] \in Ask
      BY <2>2, SentAsk
    <3>2. [dev |-> d, agent |-> a, with |-> saved[d], late |-> FALSE] \in Message
      BY <2>2 DEF Message
    <3>3. QED
      BY <1>5, <3>1, <3>2 DEF AskToken, TypeOK
  <2>4. QED
    BY <1>5, <2>1, <2>3 DEF AskToken, TypeOK
<1>6. ASSUME NEW m \in net, HandleRefresh(m)
      PROVE  TypeOK'
  <2>1. m \in Message /\ m.dev \in Device /\ m.agent \in Agent
    BY DEF TypeOK, Message
  <2>2. IdentityTypeOK'
    BY <1>0, <1>6, <2>1, RefreshCases, IdentityTypes
  <2>3. Claims(m.agent) \in Token
    BY <1>0, <2>1, ClaimsAreToken
  <2>4. row[m.dev].cur \in Nat /\ row'[m.dev].cur \in Nat
    BY <1>0, <2>1, <2>2 DEF IdentityTypeOK, Row
  <2>5. asked' \in [Device -> Ask]
    <3>1. \E n \in Nat, T \in SUBSET Token : AnswerTo(m, n, T)
      BY <1>6, <2>3, <2>4, RefreshCases
    <3>2. QED
      BY <2>1, <3>1, AnswerEffect DEF TypeOK
  <2>6. tokens' \subseteq Token
    BY <1>6, <2>3, RefreshCases DEF TypeOK
  <2>7. net' \subseteq Message /\ UNCHANGED <<saved, cache, faults, adm>>
    BY <1>6, RefreshCases DEF TypeOK
  <2>8. QED
    BY <2>2, <2>5, <2>6, <2>7 DEF TypeOK
<1>7. ASSUME NEW m \in net, LoseLate(m)
      PROVE  TypeOK'
  BY <1>0, <1>7, IdentityTypes DEF LoseLate, identityVars, TypeOK
<1>8. ASSUME NEW a \in Agent, CacheRunsOut(a)
      PROVE  TypeOK'
  BY <1>0, <1>8, IdentityTypes DEF CacheRunsOut, identityVars, TypeOK
<1>9. ASSUME NEW t \in tokens, ExpireToken(t)
      PROVE  TypeOK'
  BY <1>0, <1>9, IdentityTypes DEF ExpireToken, identityVars, TypeOK
<1>10. ASSUME NEW q \in Slot, CommitAdmin(q)
       PROVE  TypeOK'
  <2>1. adm[q] \in AdminRequest
    BY DEF TypeOK
  <2>2. CASE UpdateBinding(adm[q])
    <3>1. adm[q].caps \in Grant /\ adm[q].agent \in Agent
      BY <2>1, <2>2 DEF UpdateBinding, AdminRequest, NoRequest
    <3>2. IdentityTypeOK'
      BY <1>0, <2>2, <3>1, GrantsAreCaps DEF UpdateBinding, IdentityTypeOK
    <3>3. QED
      BY <1>10, <3>2 DEF CommitAdmin, clientVars, TypeOK, AdminRequest
  <2>3. CASE ConsoleRevokeAgent(adm[q])
    <3>1. adm[q].agent \in Agent
      BY <2>1, <2>3 DEF ConsoleRevokeAgent, AdminRequest, NoRequest
    <3>2. IdentityTypeOK'
      BY <1>0, <2>3, <3>1, IdentityTypes DEF ConsoleRevokeAgent
    <3>3. QED
      BY <1>10, <3>2 DEF CommitAdmin, clientVars, TypeOK, AdminRequest
  <2>4. CASE ConsoleRevokeDevice(adm[q])
    <3>1. adm[q].dev \in Device
      BY <2>1, <2>4 DEF ConsoleRevokeDevice, AdminRequest, NoRequest
    <3>2. IdentityTypeOK'
      BY <1>0, <2>4, <3>1, IdentityTypes DEF ConsoleRevokeDevice
    <3>3. QED
      BY <1>10, <3>2 DEF CommitAdmin, clientVars, TypeOK, AdminRequest
  <2>5. QED
    BY <1>10, <2>2, <2>3, <2>4 DEF CommitAdmin
<1>11. ASSUME NEW q \in Slot, DropAdmin(q)
       PROVE  TypeOK'
  BY <1>0, <1>11, IdentityTypes DEF DropAdmin, clientVars, TypeOK, AdminRequest
<1>12. ASSUME NEW q \in Slot, NEW t \in tokens, Admit(q, t)
       PROVE  TypeOK'
  <2>1. t.agent \in Agent
    BY DEF TypeOK, Token
  <2>2. adm' \in [Slot -> AdminRequest]
    BY <1>12, <2>1, ConsoleRequestTypes DEF Admit, TypeOK
  <2>3. IdentityTypeOK' /\ UNCHANGED clientVars
    BY <1>0, <1>12, IdentityTypes DEF Admit
  <2>4. QED
    BY <2>2, <2>3 DEF clientVars, TypeOK
<1>13. CASE CommandLine \/ Clock
  <2>1. IdentityTypeOK'
    BY <1>0, <1>13, IdentityTypes DEF CommandLine, Clock
  <2>2. QED
    BY <1>13, <2>1 DEF CommandLine, Clock, clientVars, TypeOK
<1>14. CASE UNCHANGED vars
  BY <1>0, <1>14, IdentityTypes DEF vars, clientVars, TypeOK
<1>15. QED
  BY <1>1, <1>2, <1>3, <1>4, <1>5, <1>6, <1>7, <1>8, <1>9, <1>10, <1>11, <1>12, <1>13, <1>14, AccessCases
-----------------------------------------------------------------------------
(* The secrets.                                                             *)

SecretPart == SecretsInv /\ NetInv /\ SidecarKeepsUp /\ AlarmInv

LEMMA SecretTypes ==
    ASSUME TypeOK
    PROVE  /\ \A d \in Device :
                 /\ saved[d] \in Nat /\ minted[d] \in Nat /\ faults[d] \in Nat
                 /\ row[d].cur \in Nat /\ row[d].prev \in Nat
                 /\ asked[d].with \in Nat /\ asked[d].secret \in Nat
           /\ \A m \in net : m.dev \in Device /\ m.agent \in Agent /\ m.with \in Nat /\ m.late \in BOOLEAN
BY DEF TypeOK, IdentityTypeOK, Row, Ask, Message

\* At most one request is waited for.
LEMMA OneRequest ==
    ASSUME TypeOK, NetInv, NEW m \in net, NEW n \in net, m.dev = n.dev, ~m.late, ~n.late
    PROVE  m = n
<1>1. m.agent = n.agent /\ m.with = n.with
  BY DEF NetInv
<1>2. m \in Message /\ n \in Message
  BY DEF TypeOK
<1>3. m.late = n.late
  BY <1>2 DEF Message
<1>4. QED
  BY <1>1, <1>2, <1>3 DEF Message

\* Transactions that leave the secrets alone, or end a row.
LEMMA RowKept ==
    ASSUME TypeOK, SecretPart, UNCHANGED <<minted, saved, asked, net, faults>>,
           \A d \in Device : row'[d].status = "live" =>
                /\ row[d].status = "live"
                /\ row'[d].cur = row[d].cur /\ row'[d].prev = row[d].prev
    PROVE  SecretPart'
<1>1. SecretsInv'
  BY DEF SecretPart, SecretsInv, Live
<1>2. NetInv'
  BY DEF SecretPart, NetInv
<1>3. SidecarKeepsUp'
  BY DEF SecretPart, SidecarKeepsUp
<1>4. AlarmInv'
  BY DEF SecretPart, AlarmInv, Live
<1>5. QED
  BY <1>1, <1>2, <1>3, <1>4 DEF SecretPart

LEMMA FreshFields ==
    ASSUME NEW d \in Device, NEW n \in Nat
    PROVE  /\ Fresh(d, n).status = "live" /\ Fresh(d, n).cur = minted[d] + 1 /\ Fresh(d, n).prev = 0
           /\ DeadRow.status = "dead"
BY DEF Fresh, DeadRow

\* A new credential: the secret that the gateway stores and, unless the answer is
\* lost, the one in the device's store.
LEMMA FreshSecret ==
    ASSUME TypeOK, SecretPart, NEW d \in Device, NEW n \in Nat,
           row' = [row EXCEPT ![d] = Fresh(d, n)],
           minted' = [minted EXCEPT ![d] = @ + 1],
           \/ saved' = [saved EXCEPT ![d] = minted[d] + 1] /\ UNCHANGED faults
           \/ saved[d] = 0 /\ UNCHANGED saved /\ faults' = [faults EXCEPT ![d] = @ + 1],
           UNCHANGED <<asked, net>>
    PROVE  SecretPart'
<1>1. /\ row'[d].status = "live" /\ row'[d].cur = minted[d] + 1 /\ row'[d].prev = 0
      /\ \A e \in Device \ {d} : row'[e] = row[e] /\ minted'[e] = minted[e] /\ saved'[e] = saved[e]
                                  /\ faults'[e] = faults[e]
      /\ minted'[d] = minted[d] + 1
      /\ saved'[d] = minted[d] + 1 \/ (saved'[d] = 0 /\ saved[d] = 0 /\ faults'[d] # 0)
  <2>1. row'[d] = Fresh(d, n) /\ \A e \in Device \ {d} : row'[e] = row[e]
    BY DEF TypeOK, IdentityTypeOK
  <2>2. minted'[d] = minted[d] + 1 /\ \A e \in Device \ {d} : minted'[e] = minted[e]
    BY DEF TypeOK, IdentityTypeOK
  <2>3. /\ \A e \in Device \ {d} : saved'[e] = saved[e] /\ faults'[e] = faults[e]
        /\ saved'[d] = minted[d] + 1 \/ (saved'[d] = 0 /\ saved[d] = 0 /\ faults'[d] = faults[d] + 1)
    <3>1. CASE saved' = [saved EXCEPT ![d] = minted[d] + 1] /\ UNCHANGED faults
      BY <3>1 DEF TypeOK
    <3>2. CASE saved[d] = 0 /\ UNCHANGED saved /\ faults' = [faults EXCEPT ![d] = @ + 1]
      BY <3>2 DEF TypeOK
    <3>3. QED
      BY <3>1, <3>2
  <2>4. faults[d] \in Nat
    BY DEF TypeOK
  <2>5. QED
    BY <2>1, <2>2, <2>3, <2>4, FreshFields
<1>2. SecretsInv'
  BY <1>1, SecretTypes DEF SecretPart, SecretsInv, Live
<1>3. NetInv'
  BY <1>1, SecretTypes DEF SecretPart, SecretsInv, NetInv
<1>4. SidecarKeepsUp'
  BY <1>1 DEF SecretPart, SidecarKeepsUp
<1>5. AlarmInv'
  BY <1>1, SecretTypes DEF SecretPart, AlarmInv, Live
<1>6. QED
  BY <1>2, <1>3, <1>4, <1>5 DEF SecretPart

\* The sidecar sends the secret that it has stored.
LEMMA AskTokenSecrets ==
    ASSUME TypeOK, SecretPart, NEW d \in Device, NEW a \in Agent, AskToken(d, a)
    PROVE  SecretPart'
<1> DEFINE m == [dev |-> d, agent |-> a, with |-> saved[d], late |-> FALSE]
<1>1. saved[d] \in Nat /\ saved[d] # 0 /\ Owner[a] = d
  BY DEF AskToken, TypeOK
<1>2. /\ asked[d].agent = NoOne /\ ~asked[d].done
      /\ asked'[d].agent = a /\ asked'[d].with = saved[d] /\ ~asked'[d].done /\ asked'[d].secret = 0
      /\ \A e \in Device \ {d} : asked'[e] = asked[e]
  <2> DEFINE r == [NoAsk EXCEPT !.agent = a, !.with = saved[d]]
  <2>1. asked' = [asked EXCEPT ![d] = r] /\ asked[d] = NoAsk
    BY DEF AskToken
  <2>2. r.agent = a /\ r.with = saved[d] /\ ~r.done /\ r.secret = 0
    BY <1>1 DEF NoAsk
  <2> HIDE DEF r
  <2>3. QED
    BY <2>1, <2>2, NoAskFields DEF TypeOK
<1>3. net' = net \cup {m} /\ m.dev = d /\ m.agent = a /\ m.with = saved[d] /\ ~m.late
  BY DEF AskToken
<1>4. UNCHANGED <<row, minted, saved, faults>>
  BY DEF AskToken, identityVars
<1>5. \A n \in net : n.dev = d => n.late
  BY <1>2, SecretTypes DEF SecretPart, NetInv
<1> HIDE DEF m
<1>6. SecretsInv'
  BY <1>1, <1>2, <1>4, SecretTypes DEF SecretPart, SecretsInv, Live
<1>7. NetInv'
  BY <1>1, <1>2, <1>3, <1>4, <1>5, SecretTypes DEF SecretPart, NetInv
<1>8. SidecarKeepsUp'
  BY <1>4 DEF SecretPart, SidecarKeepsUp
<1>9. AlarmInv'
  BY <1>1, <1>2, <1>3, <1>4, SecretTypes DEF SecretPart, AlarmInv, Live
<1>10. QED
  BY <1>6, <1>7, <1>8, <1>9 DEF SecretPart

\* The answer is written to the store, or not.
LEMMA SaveAnswerSecrets ==
    ASSUME TypeOK, SecretPart, NEW d \in Device, SaveAnswer(d)
    PROVE  SecretPart'
<1>1. /\ asked'[d].with = 0 /\ ~asked'[d].done /\ asked'[d].secret = 0
      /\ \A e \in Device \ {d} : asked'[e] = asked[e] /\ saved'[e] = saved[e]
      /\ asked[d].done
      /\ UNCHANGED <<row, minted, net, faults>>
  BY NoAskFields DEF SaveAnswer, TypeOK, identityVars
<1>2. \/ asked[d].secret # 0 /\ saved[d] = asked[d].with /\ saved'[d] = asked[d].secret
      \/ ~(asked[d].secret # 0 /\ saved[d] = asked[d].with) /\ saved'[d] = saved[d]
  BY DEF SaveAnswer, TypeOK
<1>3. \A n \in net : n.dev = d => n.late
  BY <1>1 DEF SecretPart, NetInv
<1>4. saved[d] <= saved'[d] /\ saved'[d] \in Nat
  BY <1>2, SecretTypes DEF SecretPart, SecretsInv
<1>5. SecretsInv'
  BY <1>1, <1>2, <1>4, SecretTypes DEF SecretPart, SecretsInv, Live
<1>6. NetInv'
  BY <1>1, <1>3, <1>4, SecretTypes DEF SecretPart, NetInv
<1>7. SidecarKeepsUp'
  BY <1>1, <1>2, SecretTypes DEF SecretPart, SidecarKeepsUp, SecretsInv, Live
<1>8. AlarmInv'
  BY <1>1, <1>2, SecretTypes DEF SecretPart, AlarmInv, SecretsInv, Live
<1>9. QED
  BY <1>5, <1>6, <1>7, <1>8 DEF SecretPart

\* The sidecar gives up.
LEMMA GiveUpSecrets ==
    ASSUME TypeOK, SecretPart, NEW d \in Device, GiveUp(d)
    PROVE  SecretPart'
<1>1. /\ asked'[d].with = 0 /\ ~asked'[d].done /\ asked'[d].secret = 0
      /\ \A e \in Device \ {d} : asked'[e] = asked[e] /\ faults'[e] = faults[e]
      /\ UNCHANGED <<row, minted, saved>>
  BY NoAskFields DEF GiveUp, Fault, TypeOK, identityVars
<1>2. faults'[d] # 0
  BY DEF GiveUp, Fault, TypeOK
<1>3. \A m \in net' :
          /\ m.dev = d => m.late
          /\ \E n \in net : n.dev = m.dev /\ n.agent = m.agent /\ n.with = m.with
          /\ m.dev # d => m \in net
  BY GiveUpEffect
<1>4. SecretsInv'
  BY <1>1, SecretTypes DEF SecretPart, SecretsInv, Live
<1>5. NetInv'
  BY <1>1, <1>3, SecretTypes DEF SecretPart, NetInv
<1>6. SidecarKeepsUp'
  BY <1>1 DEF SecretPart, SidecarKeepsUp
<1>7. AlarmInv'
  BY <1>1, <1>2, <1>3 DEF SecretPart, AlarmInv, Live
<1>8. QED
  BY <1>4, <1>5, <1>6, <1>7 DEF SecretPart

\* The gateway handles a refresh: a reuse ends the row, a replay gives the current
\* secret out again, a rotation is waited for or its sender has the current secret.
LEMMA RefreshSecrets ==
    ASSUME TypeOK, SecretPart, NEW m \in net, HandleRefresh(m)
    PROVE  SecretPart'
<1> DEFINE d == m.dev
<1>1. m \in Message /\ d \in Device /\ m.agent \in Agent /\ m.with \in Nat /\ m.late \in BOOLEAN
  BY DEF TypeOK, Message
<1>2. net' = net \ {m} /\ UNCHANGED <<saved, faults>>
  BY RefreshCases
<1>3. 0 < m.with /\ m.with <= saved[d] /\ (~m.late => asked[d].with = m.with /\ ~asked[d].done)
  BY DEF SecretPart, NetInv
<1>4. \A n \in net' : n \in net /\ (n.dev = d /\ ~m.late => n.late)
  BY <1>2, OneRequest DEF SecretPart
<1>5. faults[d] = 0 => ~m.late /\ (Live(d) => m.with = row[d].cur \/ row[d].prev = 0)
  BY <1>1 DEF SecretPart, AlarmInv
<1>6. Claims(m.agent) \in Token
  BY <1>1, ClaimsAreToken DEF TypeOK
<1>7. ASSUME NEW n \in Nat, NEW T \in SUBSET Token, AnswerTo(m, n, T)
      PROVE  /\ m.late => asked' = asked
             /\ ~m.late =>
                   /\ asked'[d].agent = asked[d].agent /\ asked'[d].with = m.with
                   /\ asked'[d].done /\ asked'[d].secret = n
             /\ \A e \in Device \ {d} : asked'[e] = asked[e]
  BY <1>1, <1>3, <1>7, AnswerEffect DEF TypeOK
<1>8. TypeOK'
  BY AccessTypes DEF Next
<1>9. NetInv'
  <2>1. \E n \in Nat, T \in SUBSET Token : AnswerTo(m, n, T)
    <3>1. row'[d].cur \in Nat /\ row[d].cur \in Nat
      BY <1>1, <1>8, SecretTypes DEF TypeOK, IdentityTypeOK, Row
    <3>2. QED
      BY <1>6, <3>1, RefreshCases
  <2>2. \A n \in net' : n.late \/ n.dev # d \/ asked' = asked
    BY <1>1, <1>4, <1>7, <2>1
  <2>3. \A e \in Device \ {d} : asked'[e] = asked[e]
    BY <1>7, <2>1
  <2>4. QED
    BY <1>2, <1>4, <2>2, <2>3, SecretTypes DEF SecretPart, NetInv
<1>10. CASE AnswerTo(m, 0, {}) /\ UNCHANGED identityVars
  <2>1. UNCHANGED <<row, minted>>
    BY <1>10 DEF identityVars
  <2>2. /\ m.late => asked' = asked
        /\ ~m.late => asked'[d].with = m.with /\ asked'[d].secret = 0
        /\ \A e \in Device \ {d} : asked'[e] = asked[e]
    BY <1>7, <1>10
  <2>3. SecretsInv'
    BY <1>1, <1>2, <1>3, <2>1, <2>2, SecretTypes DEF SecretPart, SecretsInv, Live
  <2>4. SidecarKeepsUp'
    BY <1>2, <2>1 DEF SecretPart, SidecarKeepsUp
  <2>5. AlarmInv'
    BY <1>1, <1>2, <1>3, <1>4, <1>5, <2>1, <2>2 DEF SecretPart, AlarmInv, Live
  <2>6. QED
    BY <1>9, <2>3, <2>4, <2>5 DEF SecretPart
<1>11. CASE IsReuse(d, m.with) /\ DetectReuse(d) /\ AnswerTo(m, 0, {})
  <2>1. /\ UNCHANGED minted
        /\ row'[d].status = "dead" /\ \A e \in Device \ {d} : row'[e] = row[e]
    BY <1>1, <1>11, FreshFields DEF DetectReuse, TypeOK, IdentityTypeOK, DeadRow
  <2>2. /\ m.late => asked' = asked
        /\ ~m.late => asked'[d].with = m.with /\ asked'[d].secret = 0
        /\ \A e \in Device \ {d} : asked'[e] = asked[e]
    BY <1>7, <1>11
  <2>3. SecretsInv'
    BY <1>1, <1>2, <1>3, <2>1, <2>2, SecretTypes DEF SecretPart, SecretsInv, Live
  <2>4. SidecarKeepsUp'
    BY <1>2, <2>1 DEF SecretPart, SidecarKeepsUp
  <2>5. AlarmInv'
    BY <1>1, <1>2, <1>4, <1>5, <2>1, <2>2 DEF SecretPart, AlarmInv, Live
  <2>6. QED
    BY <1>9, <2>3, <2>4, <2>5 DEF SecretPart
<1>12. CASE IsReplay(d, m.with) /\ UNCHANGED identityVars /\ AnswerTo(m, row[d].cur, {Claims(m.agent)})
  <2>1. UNCHANGED <<row, minted>> /\ Live(d) /\ m.with = row[d].prev
    BY <1>12 DEF identityVars, IsReplay, RowUsable, Live
  <2>2. row[d].cur \in Nat
    BY <1>1, SecretTypes
  <2>3. /\ m.late => asked' = asked
        /\ ~m.late => asked'[d].with = m.with /\ asked'[d].secret = row[d].cur
        /\ \A e \in Device \ {d} : asked'[e] = asked[e]
    BY <1>6, <1>7, <1>12, <2>2
  <2>4. SecretsInv'
    BY <1>1, <1>2, <1>3, <2>1, <2>3, SecretTypes DEF SecretPart, SecretsInv, Live
  <2>5. SidecarKeepsUp'
    BY <1>2, <2>1 DEF SecretPart, SidecarKeepsUp
  <2>6. faults[d] # 0
    BY <1>1, <1>3, <1>5, <2>1, SecretTypes DEF SecretPart, SecretsInv
  <2>7. AlarmInv'
    BY <1>1, <1>2, <2>1, <2>3, <2>6 DEF SecretPart, AlarmInv, Live
  <2>8. QED
    BY <1>9, <2>4, <2>5, <2>7 DEF SecretPart
<1>13. CASE IsCurrent(d, m.with) /\ Rotate(d) /\ AnswerTo(m, row'[d].cur, {Claims(m.agent)})
  <2>1. /\ Live(d) /\ m.with = row[d].cur
        /\ minted'[d] = minted[d] + 1 /\ \A e \in Device \ {d} : minted'[e] = minted[e]
    BY <1>1, <1>13 DEF IsCurrent, RowUsable, Live, Rotate, TypeOK, IdentityTypeOK
  <2>2. /\ row'[d].cur = minted[d] + 1 /\ row'[d].prev = row[d].cur
        /\ \A e \in Device \ {d} : row'[e] = row[e]
    BY <1>1, <1>13, RotatedRow DEF TypeOK
  <2>3. row'[d].cur \in Nat
    BY <1>1, <2>2, SecretTypes
  <2>4. /\ m.late => asked' = asked
        /\ ~m.late => asked'[d].with = m.with /\ asked'[d].done /\ asked'[d].secret = row'[d].cur
        /\ \A e \in Device \ {d} : asked'[e] = asked[e]
    BY <1>6, <1>7, <1>13, <2>3
  <2>5. saved[d] = row[d].cur /\ row[d].cur = minted[d]
    <3>1. saved[d] <= minted[d] /\ row[d].cur = minted[d]
      BY <1>1, <2>1 DEF SecretPart, SecretsInv
    <3>2. saved[d] \in Nat /\ minted[d] \in Nat
      BY <1>1, SecretTypes
    <3>3. QED
      BY <1>1, <1>3, <2>1, <3>1, <3>2
  <2>6. SecretsInv'
    BY <1>1, <1>2, <1>3, <2>1, <2>2, <2>4, <2>5, SecretTypes DEF SecretPart, SecretsInv, Live
  <2>7. SidecarKeepsUp'
    BY <1>2, <2>2, <2>5 DEF SecretPart, SidecarKeepsUp
  <2>8. AlarmInv'
    BY <1>1, <1>2, <1>4, <1>5, <2>1, <2>2, <2>4, <2>5 DEF SecretPart, AlarmInv, Live
  <2>9. QED
    BY <1>9, <2>6, <2>7, <2>8 DEF SecretPart
<1>14. QED
  BY <1>10, <1>11, <1>12, <1>13, RefreshCases

\* Revocation, expiry and the end of a window bring no row to life.
LEMMA RowEnds ==
    ASSUME TypeOK, NEW d \in Device, RevokeDevice(d) \/ ExpireRow(d) \/ CloseWindow(d)
    PROVE  /\ UNCHANGED minted
           /\ \A e \in Device : row'[e].status = "live" =>
                /\ row[e].status = "live"
                /\ row'[e].cur = row[e].cur /\ row'[e].prev = row[e].prev
<1>1. CASE RevokeDevice(d)
  BY <1>1, FreshFields DEF RevokeDevice, TypeOK, IdentityTypeOK, DeadRow
<1>2. CASE ExpireRow(d)
  BY <1>2, FreshFields DEF ExpireRow, TypeOK, IdentityTypeOK, DeadRow
<1>3. CASE CloseWindow(d)
  <2>1. UNCHANGED minted
    BY <1>3 DEF CloseWindow
  <2>2. QED
    BY <1>3, <2>1, RotatedRow DEF TypeOK
<1>4. QED
  BY <1>1, <1>2, <1>3

\* The console's request is one of three transactions.
LEMMA CommitCases ==
    ASSUME TypeOK, NEW q \in Slot, CommitAdmin(q)
    PROVE  /\ UNCHANGED clientVars /\ adm[q] # NoRequest /\ adm' = [adm EXCEPT ![q] = NoRequest]
           /\ \/ adm[q].agent \in Agent /\ adm[q].caps \in Grant /\ UpdateBinding(adm[q])
              \/ adm[q].agent \in Agent /\ ConsoleRevokeAgent(adm[q])
              \/ adm[q].dev \in Device /\ ConsoleRevokeDevice(adm[q])
<1>1. adm[q] \in AdminRequest
  BY DEF TypeOK
<1>2. UpdateBinding(adm[q]) => adm[q].agent \in Agent /\ adm[q].caps \in Grant
  BY <1>1 DEF UpdateBinding, AdminRequest, NoRequest
<1>3. ConsoleRevokeAgent(adm[q]) => adm[q].agent \in Agent
  BY <1>1 DEF ConsoleRevokeAgent, AdminRequest, NoRequest
<1>4. ConsoleRevokeDevice(adm[q]) => adm[q].dev \in Device
  BY <1>1 DEF ConsoleRevokeDevice, AdminRequest, NoRequest
<1>5. QED
  BY <1>2, <1>3, <1>4 DEF CommitAdmin

LEMMA SecretStep ==
    ASSUME TypeOK, SecretPart, [Next]_vars
    PROVE  SecretPart'
<1>1. ASSUME NEW d \in Device, NEW c \in Code, NEW G \in Grant \cup {{}}, PairDevice(d, c, G)
      PROVE  SecretPart'
  <2>1. /\ row' = [row EXCEPT ![d] = Fresh(d, 1)] /\ minted' = [minted EXCEPT ![d] = @ + 1]
        /\ UNCHANGED <<asked, net>>
    BY <1>1 DEF PairDevice, Pair
  <2>2. \/ saved' = [saved EXCEPT ![d] = minted[d] + 1] /\ UNCHANGED faults
        \/ saved[d] = 0 /\ UNCHANGED saved /\ faults' = [faults EXCEPT ![d] = @ + 1]
    BY <1>1 DEF PairDevice, Fault
  <2>3. QED
    BY <2>1, <2>2, FreshSecret
<1>2. ASSUME NEW d \in Device, Register(d)
      PROVE  SecretPart'
  <2>1. devEpoch[d] \in Nat
    BY DEF TypeOK, IdentityTypeOK
  <2>2. /\ row' = [row EXCEPT ![d] = Fresh(d, devEpoch[d])] /\ minted' = [minted EXCEPT ![d] = @ + 1]
        /\ saved' = [saved EXCEPT ![d] = minted[d] + 1] /\ UNCHANGED <<asked, net, faults>>
    BY <1>2 DEF Register, RegisterCredential
  <2>3. QED
    BY <2>1, <2>2, FreshSecret
<1>3. ASSUME NEW m \in net, LoseLate(m)
      PROVE  SecretPart'
  <2>1. net' \subseteq net /\ UNCHANGED <<row, minted, saved, asked, faults>>
    BY <1>3 DEF LoseLate, identityVars
  <2>2. SecretsInv' /\ SidecarKeepsUp'
    BY <2>1 DEF SecretPart, SecretsInv, SidecarKeepsUp, Live
  <2>3. NetInv'
    BY <2>1 DEF SecretPart, NetInv
  <2>4. AlarmInv'
    BY <2>1 DEF SecretPart, AlarmInv, Live
  <2>5. QED
    BY <2>2, <2>3, <2>4 DEF SecretPart
<1>4. CASE UNCHANGED <<row, minted, saved, asked, net, faults>>
  BY <1>4, RowKept
<1>5. ASSUME NEW q \in Slot, CommitAdmin(q)
      PROVE  SecretPart'
  <2>1. UNCHANGED <<saved, asked, net, faults>>
    BY <1>5 DEF CommitAdmin, clientVars
  <2>2. CASE UpdateBinding(adm[q]) \/ ConsoleRevokeAgent(adm[q])
    BY <1>4, <2>1, <2>2 DEF UpdateBinding, ConsoleRevokeAgent, RevokeAgent
  <2>3. CASE adm[q].dev \in Device /\ ConsoleRevokeDevice(adm[q])
    BY <2>1, <2>3, RowEnds, RowKept DEF ConsoleRevokeDevice
  <2>4. QED
    BY <1>5, <2>2, <2>3, CommitCases
<1>6. CASE CommandLine
  <2>1. UNCHANGED <<saved, asked, net, faults>>
    BY <1>6 DEF CommandLine, clientVars
  <2>2. CASE \E d \in Device : RevokeDevice(d)
    BY <2>1, <2>2, RowEnds, RowKept
  <2>3. CASE \/ \E c \in Code : CreatePairingCode(c)
             \/ \E a \in Agent, G \in Grant : BindWorkspace(a, G)
             \/ \E a \in Agent : RevokeAgent(a)
    BY <1>4, <2>1, <2>3 DEF CreatePairingCode, BindWorkspace, RevokeAgent
  <2>4. QED
    BY <1>6, <2>2, <2>3 DEF CommandLine
<1>7. CASE Clock
  <2>1. UNCHANGED <<saved, asked, net, faults>>
    BY <1>7 DEF Clock, clientVars
  <2>2. CASE \E d \in Device : CloseWindow(d) \/ ExpireRow(d)
    BY <2>1, <2>2, RowEnds, RowKept
  <2>3. CASE \E c \in Code : ExpireCode(c)
    BY <1>4, <2>1, <2>3 DEF ExpireCode
  <2>4. QED
    BY <1>7, <2>2, <2>3 DEF Clock
<1>8. ASSUME NEW a \in Agent, CacheRunsOut(a)
      PROVE  SecretPart'
  BY <1>4, <1>8 DEF CacheRunsOut, identityVars
<1>9. ASSUME NEW t \in tokens, ExpireToken(t)
      PROVE  SecretPart'
  BY <1>4, <1>9 DEF ExpireToken, identityVars
<1>10. ASSUME NEW q \in Slot, DropAdmin(q)
       PROVE  SecretPart'
  BY <1>4, <1>10 DEF DropAdmin, identityVars, clientVars
<1>11. ASSUME NEW q \in Slot, NEW t \in tokens, Admit(q, t)
       PROVE  SecretPart'
  BY <1>4, <1>11 DEF Admit, identityVars, clientVars
<1>12. CASE UNCHANGED vars
  BY <1>4, <1>12 DEF vars, identityVars, clientVars
<1>13. QED
  BY <1>1, <1>2, <1>3, <1>5, <1>6, <1>7, <1>8, <1>9, <1>10, <1>11, <1>12, AccessCases,
     AskTokenSecrets, SaveAnswerSecrets, GiveUpSecrets, RefreshSecrets
-----------------------------------------------------------------------------
(* Status and epochs.                                                       *)

\* The steps by what they do to the status and the epochs.
LEMMA StatusCases ==
    ASSUME TypeOK, [Next]_vars
    PROVE  \/ \E d \in Device, c \in Code, G \in Grant \cup {{}} : PairDevice(d, c, G)
           \/ \E d \in Device : RevokeDevice(d) /\ UNCHANGED clientVars
           \/ \E a \in Agent : RevokeAgent(a) /\ UNCHANGED clientVars
           \/ \E m \in net : HandleRefresh(m) /\ IsReuse(m.dev, m.with) /\ DetectReuse(m.dev) /\ UNCHANGED tokens
           \/ UNCHANGED <<devStatus, devEpoch, agStatus, agEpoch>>
<1> DEFINE Same == UNCHANGED <<devStatus, devEpoch, agStatus, agEpoch>>
<1>1. ASSUME NEW m \in net, HandleRefresh(m)
      PROVE  Same \/ (IsReuse(m.dev, m.with) /\ DetectReuse(m.dev) /\ UNCHANGED tokens)
  BY <1>1, RefreshCases DEF Rotate, identityVars
<1>2. ASSUME NEW q \in Slot, CommitAdmin(q)
      PROVE  \/ \E d \in Device : RevokeDevice(d) /\ UNCHANGED clientVars
             \/ \E a \in Agent : RevokeAgent(a) /\ UNCHANGED clientVars
             \/ Same
  BY <1>2, CommitCases DEF UpdateBinding, ConsoleRevokeAgent, ConsoleRevokeDevice
<1>3. CASE CommandLine
  BY <1>3 DEF CommandLine, CreatePairingCode, BindWorkspace
<1>4. CASE Clock
  BY <1>4 DEF Clock, ExpireCode, CloseWindow, ExpireRow
<1>5. ASSUME NEW d \in Device, Register(d) \/ SaveAnswer(d) \/ GiveUp(d)
      PROVE  Same
  BY <1>5 DEF Register, RegisterCredential, SaveAnswer, GiveUp, identityVars
<1>6. ASSUME NEW d \in Device, NEW a \in Agent, AskToken(d, a)
      PROVE  Same
  BY <1>6 DEF AskToken, identityVars
<1>7. ASSUME NEW m \in net, LoseLate(m)
      PROVE  Same
  BY <1>7 DEF LoseLate, identityVars
<1>8. ASSUME NEW a \in Agent, CacheRunsOut(a)
      PROVE  Same
  BY <1>8 DEF CacheRunsOut, identityVars
<1>9. ASSUME NEW t \in tokens, ExpireToken(t)
      PROVE  Same
  BY <1>9 DEF ExpireToken, identityVars
<1>10. ASSUME NEW q \in Slot, DropAdmin(q)
       PROVE  Same
  BY <1>10 DEF DropAdmin, identityVars
<1>11. ASSUME NEW q \in Slot, NEW t \in tokens, Admit(q, t)
       PROVE  Same
  BY <1>11 DEF Admit, identityVars
<1>12. UNCHANGED vars => Same
  BY DEF vars, identityVars
<1>13. QED
  BY <1>1, <1>2, <1>3, <1>4, <1>5, <1>6, <1>7, <1>8, <1>9, <1>10, <1>11, <1>12, AccessCases

\* A registered agent stays registered, what is revoked stays revoked, and epochs only
\* grow.
LEMMA StatusMoves ==
    ASSUME TypeOK, TokensInv, [Next]_vars
    PROVE  /\ \A a \in Agent : agStatus'[a] = "none" <=> devStatus'[Owner[a]] = "none"
           /\ \A a \in Agent : agStatus[a] # "none" =>
                 /\ agStatus'[a] # "none"
                 /\ agEpoch[a] <= agEpoch'[a] /\ devEpoch[Owner[a]] <= devEpoch'[Owner[a]]
                 /\ agStatus[a] = "revoked" => agStatus'[a] = "revoked"
                 /\ devStatus[Owner[a]] = "revoked" => devStatus'[Owner[a]] = "revoked"
<1>0. /\ \A a \in Agent : Owner[a] \in Device /\ agEpoch[a] \in Nat
      /\ \A d \in Device : devEpoch[d] \in Nat
      /\ \A a \in Agent : agStatus[a] = "none" <=> devStatus[Owner[a]] = "none"
  BY DEF TypeOK, IdentityTypeOK, TokensInv
<1>1. ASSUME NEW d \in Device, NEW c \in Code, NEW G \in Grant \cup {{}}, PairDevice(d, c, G)
      PROVE  /\ devStatus[d] = "none" /\ devStatus'[d] = "active"
             /\ \A e \in Device \ {d} : devStatus'[e] = devStatus[e] /\ devEpoch'[e] = devEpoch[e]
             /\ \A a \in Agent : IF Owner[a] = d THEN agStatus'[a] = "active"
                                 ELSE agStatus'[a] = agStatus[a] /\ agEpoch'[a] = agEpoch[a]
  BY <1>1 DEF PairDevice, Pair, CanPair, AgentsOf, TypeOK, IdentityTypeOK
<1>2. ASSUME NEW d \in Device, RevokeDevice(d)
      PROVE  /\ devStatus[d] = "active" /\ devStatus'[d] = "revoked" /\ devEpoch'[d] = devEpoch[d] + 1
             /\ \A e \in Device \ {d} : devStatus'[e] = devStatus[e] /\ devEpoch'[e] = devEpoch[e]
             /\ \A a \in Agent :
                   /\ agStatus'[a] = IF Owner[a] = d THEN "revoked" ELSE agStatus[a]
                   /\ agEpoch'[a] \in {agEpoch[a], agEpoch[a] + 1}
  BY <1>2 DEF RevokeDevice, AgentsOf, TypeOK, IdentityTypeOK
<1>3. ASSUME NEW b \in Agent, RevokeAgent(b)
      PROVE  /\ agStatus[b] = "active" /\ agStatus'[b] = "revoked"
             /\ \A a \in Agent \ {b} : agStatus'[a] = agStatus[a]
             /\ \A a \in Agent : agEpoch'[a] \in {agEpoch[a], agEpoch[a] + 1}
             /\ UNCHANGED <<devStatus, devEpoch>>
  BY <1>3 DEF RevokeAgent, TypeOK, IdentityTypeOK
<1>4. ASSUME NEW d \in Device, DetectReuse(d)
      PROVE  /\ UNCHANGED <<devStatus, agStatus>>
             /\ \A e \in Device : devEpoch'[e] \in {devEpoch[e], devEpoch[e] + 1}
             /\ \A a \in Agent : agEpoch'[a] \in {agEpoch[a], agEpoch[a] + 1}
  BY <1>4 DEF DetectReuse, TypeOK, IdentityTypeOK
<1>5. CASE \E d \in Device, c \in Code, G \in Grant \cup {{}} : PairDevice(d, c, G)
  BY <1>0, <1>1, <1>5
<1>6. CASE \E d \in Device : RevokeDevice(d)
  BY <1>0, <1>2, <1>6
<1>7. CASE \E a \in Agent : RevokeAgent(a)
  BY <1>0, <1>3, <1>7
<1>8. CASE \E m \in net : DetectReuse(m.dev)
  BY <1>0, <1>4, <1>8, SecretTypes
<1>9. CASE UNCHANGED <<devStatus, devEpoch, agStatus, agEpoch>>
  BY <1>0, <1>9
<1>10. QED
  BY <1>5, <1>6, <1>7, <1>8, <1>9, StatusCases

\* A new token is issued to an active agent, with the epochs of the moment.
LEMMA TokenSteps ==
    ASSUME TypeOK, [Next]_vars
    PROVE  \A t \in tokens' : t \in tokens \/
              (/\ t.agent \in Agent /\ agStatus[t.agent] = "active"
               /\ t.dev = devEpoch[Owner[t.agent]] /\ t.ag = agEpoch[t.agent]
               /\ UNCHANGED <<devStatus, devEpoch, agStatus, agEpoch>>)
<1>1. ASSUME NEW m \in net, HandleRefresh(m), tokens' # tokens
      PROVE  /\ m.agent \in Agent /\ agStatus[m.agent] = "active"
             /\ tokens' = tokens \cup {Claims(m.agent)}
             /\ UNCHANGED <<devStatus, devEpoch, agStatus, agEpoch>>
  BY <1>1, RefreshCases DEF Rotate, identityVars, Message
<1>2. ASSUME NEW m \in net, HandleRefresh(m), tokens' # tokens, NEW t \in tokens', t \notin tokens
      PROVE  /\ t.agent \in Agent /\ agStatus[t.agent] = "active"
             /\ t.dev = devEpoch[Owner[t.agent]] /\ t.ag = agEpoch[t.agent]
             /\ UNCHANGED <<devStatus, devEpoch, agStatus, agEpoch>>
  BY <1>1, <1>2 DEF Claims
<1>3. ASSUME NEW m \in net, HandleRefresh(m)
      PROVE  \A t \in tokens' : t \in tokens \/
                (/\ t.agent \in Agent /\ agStatus[t.agent] = "active"
                 /\ t.dev = devEpoch[Owner[t.agent]] /\ t.ag = agEpoch[t.agent]
                 /\ UNCHANGED <<devStatus, devEpoch, agStatus, agEpoch>>)
  BY <1>2, <1>3
<1>4. (\E m \in net : HandleRefresh(m)) \/ tokens' \subseteq tokens
  BY AccessCases DEF PairDevice, Register, SaveAnswer, GiveUp, AskToken, LoseLate, CacheRunsOut, ExpireToken,
     CommitAdmin, DropAdmin, Admit, CommandLine, Clock, clientVars, vars
<1>5. QED
  BY <1>3, <1>4

LEMMA TokensStep ==
    ASSUME TypeOK, TokensInv, [Next]_vars
    PROVE  TokensInv'
<1>1. TypeOK'
  BY AccessTypes
<1>2. ASSUME NEW t \in tokens'
      PROVE  /\ agStatus'[t.agent] # "none"
             /\ t.dev <= devEpoch'[Owner[t.agent]] /\ t.ag <= agEpoch'[t.agent]
  <2>1. /\ t.agent \in Agent /\ Owner[t.agent] \in Device /\ t.dev \in Nat /\ t.ag \in Nat
        /\ devEpoch[Owner[t.agent]] \in Nat /\ devEpoch'[Owner[t.agent]] \in Nat
        /\ agEpoch[t.agent] \in Nat /\ agEpoch'[t.agent] \in Nat
    BY <1>1, <1>2 DEF TypeOK, IdentityTypeOK, Token
  <2>2. CASE t \in tokens
    <3>1. /\ agStatus[t.agent] # "none"
          /\ t.dev <= devEpoch[Owner[t.agent]] /\ t.ag <= agEpoch[t.agent]
      BY <2>2 DEF TokensInv
    <3>2. QED
      BY <2>1, <3>1, StatusMoves
  <2>3. CASE t \notin tokens
    BY <1>2, <2>1, <2>3, TokenSteps
  <2>4. QED
    BY <2>2, <2>3
<1>3. QED
  BY <1>2, StatusMoves DEF TokensInv

\* A token that is not admitted never is again.
LEMMA DeadTokensStep ==
    ASSUME TypeOK, TokensInv, [Next]_vars, NEW t \in tokens \cap tokens', ~Admissible(t)
    PROVE  ~Admissible(t)'
<1>1. /\ t.agent \in Agent /\ Owner[t.agent] \in Device /\ t.dev \in Nat /\ t.ag \in Nat
      /\ devEpoch[Owner[t.agent]] \in Nat /\ devEpoch'[Owner[t.agent]] \in Nat
      /\ agEpoch[t.agent] \in Nat /\ agEpoch'[t.agent] \in Nat
      /\ agStatus[t.agent] \in Status /\ devStatus[Owner[t.agent]] \in Status
  BY AccessTypes DEF TypeOK, IdentityTypeOK, Token
<1>2. /\ agStatus[t.agent] # "none" /\ devStatus[Owner[t.agent]] # "none"
      /\ t.dev <= devEpoch[Owner[t.agent]] /\ t.ag <= agEpoch[t.agent]
  BY <1>1 DEF TokensInv
<1>3. QED
  BY <1>1, <1>2, StatusMoves DEF Admissible, Status

\* An alarm needs a request with a secret that is not the current one any more, and
\* without a fault there is none.
LEMMA AlarmStep ==
    ASSUME TypeOK, SecretPart, NoFalseAlarm, [Next]_vars
    PROVE  NoFalseAlarm'
<1>1. \A d \in Device : faults'[d] \in Nat /\ faults[d] \in Nat /\ faults[d] <= faults'[d]
  <2>1. TypeOK'
    BY AccessTypes
  <2>2. \A d \in Device : faults'[d] \in {faults[d], faults[d] + 1}
    BY AccessCases, RefreshCases DEF PairDevice, Register, SaveAnswer, GiveUp, AskToken, LoseLate, CacheRunsOut,
       ExpireToken, CommitAdmin, DropAdmin, Admit, CommandLine, Clock, clientVars, vars, Fault, TypeOK
  <2>3. QED
    BY <2>1, <2>2 DEF TypeOK
<1>2. CASE \E d \in Device, c \in Code, G \in Grant \cup {{}} : PairDevice(d, c, G)
  <2>1. PICK d \in Device, c \in Code, G \in Grant \cup {{}} : PairDevice(d, c, G)
    BY <1>2
  <2>2. devEpoch'[d] = 1 /\ \A e \in Device \ {d} : devEpoch'[e] = devEpoch[e] /\ devStatus'[e] = devStatus[e]
    BY <2>1 DEF PairDevice, Pair, TypeOK, IdentityTypeOK
  <2>3. QED
    BY <1>1, <2>2 DEF NoFalseAlarm
<1>3. CASE \E d \in Device : RevokeDevice(d)
  <2>1. PICK d \in Device : RevokeDevice(d)
    BY <1>3
  <2>2. devStatus'[d] = "revoked" /\ \A e \in Device \ {d} : devEpoch'[e] = devEpoch[e] /\ devStatus'[e] = devStatus[e]
    BY <2>1 DEF RevokeDevice, TypeOK, IdentityTypeOK
  <2>3. QED
    BY <1>1, <2>2 DEF NoFalseAlarm
<1>4. CASE UNCHANGED <<devStatus, devEpoch>>
  BY <1>1, <1>4 DEF NoFalseAlarm
<1>5. CASE \E m \in net : IsReuse(m.dev, m.with) /\ DetectReuse(m.dev)
  <2>1. PICK m \in net : IsReuse(m.dev, m.with) /\ DetectReuse(m.dev)
    BY <1>5
  <2>2. m.dev \in Device
    BY SecretTypes
  <2>3. Live(m.dev) /\ m.with # 0 /\ m.with = row[m.dev].prev
    BY <2>1 DEF IsReuse, RowUsable, Live
  <2>4. row[m.dev].prev < row[m.dev].cur /\ row[m.dev].prev \in Nat /\ row[m.dev].cur \in Nat
    BY <2>2, <2>3, SecretTypes DEF SecretPart, SecretsInv
  <2>5. faults[m.dev] # 0
    BY <2>2, <2>3, <2>4 DEF SecretPart, AlarmInv
  <2>6. \A e \in Device \ {m.dev} : devEpoch'[e] = devEpoch[e] /\ devStatus'[e] = devStatus[e]
    BY <2>1 DEF DetectReuse, TypeOK, IdentityTypeOK
  <2>7. QED
    BY <1>1, <2>2, <2>5, <2>6 DEF NoFalseAlarm
<1>6. QED
  BY <1>2, <1>3, <1>4, <1>5, StatusCases DEF RevokeAgent
-----------------------------------------------------------------------------
(* The administrators.                                                      *)

LEMMA AdminStep ==
    ASSUME TypeOK, AdminInv, [Next]_vars
    PROVE  AdminInv'
<1> SUFFICES ASSUME ~Overlap
             PROVE  \A q \in Slot : adm'[q] # NoRequest =>
                        /\ adm'[q].actor \in Managers'
                        /\ ~LocksItselfOut(adm'[q])
                        /\ \A p \in Slot : adm'[p] # NoRequest => p = q
  BY DEF AdminInv, LocksItselfOut
<1>1. CASE /\ UNCHANGED adm
           /\ \A a \in Managers : a \in Managers'
  BY <1>1 DEF AdminInv
<1>2. CASE UNCHANGED <<adm, devStatus, agStatus, caps>>
  BY <1>1, <1>2 DEF Managers
<1>3. ASSUME NEW d \in Device, NEW c \in Code, NEW G \in Grant \cup {{}}, PairDevice(d, c, G)
      PROVE  UNCHANGED adm /\ \A a \in Managers : a \in Managers'
  <2>1. /\ UNCHANGED adm /\ devStatus[d] = "none"
        /\ \A e \in Device \ {d} : devStatus'[e] = devStatus[e]
        /\ \A a \in Agent : Owner[a] # d => agStatus'[a] = agStatus[a] /\ caps'[a] = caps[a]
    BY <1>3 DEF PairDevice, Pair, CanPair, AgentsOf, TypeOK, IdentityTypeOK
  <2>2. QED
    BY <2>1 DEF Managers
<1>4. ASSUME NEW q \in Slot, CommitAdmin(q)
      PROVE  \A p \in Slot : adm'[p] = NoRequest
  <2>1. adm[q] # NoRequest /\ adm'[q] = NoRequest /\ \A p \in Slot \ {q} : adm'[p] = adm[p]
    BY <1>4 DEF CommitAdmin, TypeOK
  <2>2. QED
    BY <2>1 DEF AdminInv
<1>5. ASSUME NEW q \in Slot, DropAdmin(q)
      PROVE  \A p \in Slot : adm'[p] = NoRequest
  <2>1. adm[q] # NoRequest /\ adm'[q] = NoRequest /\ \A p \in Slot \ {q} : adm'[p] = adm[p]
    BY <1>5 DEF DropAdmin, TypeOK
  <2>2. QED
    BY <2>1 DEF AdminInv
<1>6. CASE CommandLine
  BY <1>6 DEF CommandLine, Alone
<1>7. ASSUME NEW q \in Slot, NEW t \in tokens, Admit(q, t)
      PROVE  \A p \in Slot : adm'[p] # NoRequest =>
                /\ adm'[p].actor \in Managers' /\ ~LocksItselfOut(adm'[p]) /\ p = q
  <2>1. t.agent \in Agent
    BY DEF TypeOK, Token
  <2>2. PICK r \in ConsoleRequests(t.agent) : ~LocksItselfOut(r) /\ adm' = [adm EXCEPT ![q] = r]
    BY <1>7 DEF Admit
  <2>3. r.actor = t.agent
    BY <2>1, ConsoleRequestTypes
  <2>4. t.agent \in Managers'
    BY <1>7, <2>1 DEF Admit, Admissible, Managers, identityVars
  <2>5. \A p \in Slot : adm[p] = NoRequest
    BY <1>7 DEF Admit, Alone
  <2>6. adm'[q] = r /\ \A p \in Slot \ {q} : adm'[p] = NoRequest
    BY <2>2, <2>5 DEF TypeOK
  <2>7. QED
    BY <2>2, <2>3, <2>4, <2>6
<1>8. ASSUME NEW d \in Device, Register(d) \/ SaveAnswer(d) \/ GiveUp(d)
      PROVE  UNCHANGED <<adm, devStatus, agStatus, caps>>
  BY <1>8 DEF Register, RegisterCredential, SaveAnswer, GiveUp, identityVars
<1>9. ASSUME NEW d \in Device, NEW a \in Agent, AskToken(d, a)
      PROVE  UNCHANGED <<adm, devStatus, agStatus, caps>>
  BY <1>9 DEF AskToken, identityVars
<1>10. ASSUME NEW m \in net, HandleRefresh(m) \/ LoseLate(m)
       PROVE  UNCHANGED <<adm, devStatus, agStatus, caps>>
  BY <1>10, RefreshCases DEF Rotate, DetectReuse, LoseLate, identityVars
<1>11. ASSUME NEW a \in Agent, CacheRunsOut(a)
       PROVE  UNCHANGED <<adm, devStatus, agStatus, caps>>
  BY <1>11 DEF CacheRunsOut, identityVars
<1>12. ASSUME NEW t \in tokens, ExpireToken(t)
       PROVE  UNCHANGED <<adm, devStatus, agStatus, caps>>
  BY <1>12 DEF ExpireToken, identityVars
<1>13. CASE Clock
  BY <1>2, <1>13 DEF Clock, ExpireCode, CloseWindow, ExpireRow
<1>14. CASE UNCHANGED vars
  BY <1>2, <1>14 DEF vars, identityVars
<1>15. QED
  BY <1>1, <1>2, <1>3, <1>4, <1>5, <1>6, <1>7, <1>8, <1>9, <1>10, <1>11, <1>12, <1>13, <1>14, AccessCases

\* The request of a manager that does not turn against its caller leaves the caller a
\* manager.
LEMMA ManagerStep ==
    ASSUME TypeOK, AdminInv, ~Overlap, NEW q \in Slot, CommitAdmin(q)
    PROVE  adm[q].actor \in Managers'
<1> DEFINE r == adm[q]
           a == r.actor
<1>1. a \in Managers /\ ~LocksItselfOut(r)
  BY DEF AdminInv, CommitAdmin
<1>2. /\ a \in Agent /\ Owner[a] \in Device /\ agStatus[a] = "active" /\ devStatus[Owner[a]] = "active"
      /\ Manage \in caps[a]
  BY <1>1 DEF Managers
<1>3. CASE r.agent \in Agent /\ r.caps \in Grant /\ UpdateBinding(r)
  <2>1. r.agent = a => Manage \in r.caps
    BY <1>1, <1>3 DEF LocksItselfOut, UpdateBinding
  <2>2. UNCHANGED <<devStatus, agStatus>> /\ caps' = [caps EXCEPT ![r.agent] = r.caps]
    BY <1>3 DEF UpdateBinding
  <2>3. QED
    BY <1>2, <2>1, <2>2 DEF Managers, TypeOK, IdentityTypeOK
<1>4. CASE r.agent \in Agent /\ ConsoleRevokeAgent(r)
  <2>1. r.agent # a
    BY <1>1, <1>4 DEF LocksItselfOut, ConsoleRevokeAgent
  <2>2. UNCHANGED <<devStatus, caps>> /\ agStatus' = [agStatus EXCEPT ![r.agent] = "revoked"]
    BY <1>4 DEF ConsoleRevokeAgent, RevokeAgent
  <2>3. QED
    BY <1>2, <2>1, <2>2 DEF Managers, TypeOK, IdentityTypeOK
<1>5. CASE r.dev \in Device /\ ConsoleRevokeDevice(r)
  <2>1. r.dev # Owner[a]
    BY <1>1, <1>5 DEF LocksItselfOut, ConsoleRevokeDevice
  <2>2. /\ UNCHANGED caps /\ devStatus' = [devStatus EXCEPT ![r.dev] = "revoked"]
        /\ agStatus'[a] = agStatus[a]
    BY <1>2, <1>5, <2>1 DEF ConsoleRevokeDevice, RevokeDevice, AgentsOf
  <2>3. QED
    BY <1>2, <2>1, <2>2 DEF Managers, TypeOK, IdentityTypeOK
<1>6. QED
  BY <1>3, <1>4, <1>5, CommitCases
-----------------------------------------------------------------------------
(* The theorems.                                                            *)

LEMMA AccessStarts == Init => AccessInv
<1> SUFFICES ASSUME Init PROVE AccessInv
  OBVIOUS
<1> USE DEF Init, IdentityInit
<1>1. TypeOK
  <2>1. NoRow \in Row
    BY DEF NoRow, Row
  <2>2. IdentityTypeOK
    BY <2>1, GrantsAreCaps DEF IdentityTypeOK, Status
  <2>3. QED
    BY <2>2, NoAskFields DEF TypeOK, AdminRequest
<1>2. SecretsInv /\ NetInv
  BY NoAskFields DEF SecretsInv, NetInv, NoRow, Live
<1>3. SidecarKeepsUp /\ AlarmInv
  BY DEF SidecarKeepsUp, AlarmInv, NoRow, Live
<1>4. NoFalseAlarm /\ TokensInv
  BY DEF NoFalseAlarm, TokensInv
<1>5. AdminInv
  BY DEF AdminInv
<1>6. QED
  BY <1>1, <1>2, <1>3, <1>4, <1>5 DEF AccessInv

\* The inductive invariant: the secrets, the requests and the answers under way are in
\* step, tokens carry epochs of the past, and whoever is authenticated is a manager.
THEOREM AccessInvariant == Spec => []AccessInv
<1>1. ASSUME AccessInv, [Next]_vars
      PROVE  AccessInv'
  BY <1>1, AccessTypes, SecretStep, AlarmStep, TokensStep, AdminStep DEF AccessInv, SecretPart
<1>2. QED
  BY <1>1, AccessStarts, PTL DEF Spec

\* The tables of the identity service and the sidecar's variables keep their types.
THEOREM AccessTypeCorrect == Spec => []TypeOK
<1>1. AccessInv => TypeOK
  BY DEF AccessInv
<1>2. QED
  BY <1>1, AccessInvariant, PTL

\* However many answers are lost and requests delayed, the secret in the device's store
\* is the current one of a row in use or the one before it (refresh, replace_credential):
\* the one before it is enough while the replay window is open, and not after.
THEOREM SidecarKeepsUpAlways == Spec => []SidecarKeepsUp
<1>1. AccessInv => SidecarKeepsUp
  BY DEF AccessInv
<1>2. QED
  BY <1>1, AccessInvariant, PTL

\* The alarm for a reused secret is never raised against a sidecar that met no fault
\* (refresh, reuse_detected).
THEOREM NoFalseAlarmEver == Spec => []NoFalseAlarm
<1>1. AccessInv => NoFalseAlarm
  BY DEF AccessInv
<1>2. QED
  BY <1>1, AccessInvariant, PTL

\* A token that is not admitted is never admitted again (authenticate, revoke_device,
\* revoke_agent, reuse_detected).
THEOREM DeadTokensNeverReturn == Spec => DeadTokensStayDead
<1>1. ASSUME AccessInv, [Next]_vars
      PROVE  [\A t \in tokens \cap tokens' : ~Admissible(t) => ~Admissible(t)']_vars
  BY <1>1, DeadTokensStep DEF AccessInv
<1>2. QED
  BY <1>1, AccessInvariant, PTL DEF Spec, DeadTokensStayDead

\* As long as administrators act one by one, no request of the console leaves the
\* gateway without a manager (update_binding, revoke_agent, revoke_device).
THEOREM ConsoleKeepsItsManager ==
    ASSUME ~Overlap
    PROVE  Spec => ConsoleKeepsManager
<1>1. ASSUME AccessInv, [Next]_vars
      PROVE  [(\E q \in Slot : CommitAdmin(q)) /\ Managers # {} => Managers' # {}]_vars
  BY <1>1, ManagerStep DEF AccessInv
<1>2. QED
  BY <1>1, AccessInvariant, PTL DEF Spec, ConsoleKeepsManager
=============================================================================
