-------------------------- MODULE ProducersProofs ---------------------------
(***************************************************************************)
(* Proofs about Producers: no record is stored twice, the three logs are    *)
(* true, and so are the importer's reports, wherever a producer is killed   *)
(* and whoever collects the answers.                                        *)
(***************************************************************************)
EXTENDS Producers, FiniteSetTheorems, TLAPS

USE ProducersAssumption

\* The steps of Next, sorted by what they write.
LEMMA ProducersCases ==
    ASSUME [Next]_vars
    PROVE  \/ \E r \in Import, D \in SUBSET Event : ApplyRecord(r, D)
           \/ \E r \in Import : ApplyRefused(r) \/ RollbackEntry(r)
           \/ \E D \in SUBSET Event : ImportSync(D) \/ Heartbeat(D) \/ ReconcileShares(D)
           \/ \E s \in Share, D \in SUBSET Event : ShareOne(s, D)
           \/ \E s \in Share : ShareRefused(s) \/ ForgetShared(s)
           \/ \E e \in Event, D \in SUBSET Event : ShareLocal(e[1], e, D)
           \/ \E e \in Event : Decide(e) \/ Retry(e) \/ Confirm(e)
           \/ WriteState \/ ApplyReceipts \/ RollbackReceipts \/ RollbackEnd
           \/ (\E resume \in BOOLEAN : ApplyStart(resume)) \/ RollbackStart \/ ImportStops
           \/ ShareStart \/ ShareCommit \/ ShareStops \/ Cleanup
           \/ UNCHANGED vars
<1>1. Queued \subseteq Event /\ \A r \in Import \cup Share : Id(r) \in Event
  BY DEF Queued, Event, Id
<1>2. \A e \in Event : SUBSET (Queued \cup {e}) \subseteq SUBSET Event
  BY <1>1
<1>3. SUBSET Queued \subseteq SUBSET Event /\ \A r \in Import \cup Share : SUBSET (Queued \cup {Id(r)}) \subseteq SUBSET Event
  BY <1>1
<1>4. QED
  BY <1>2, <1>3 DEF Next, ImportStep
-----------------------------------------------------------------------------
(* Events and answers.                                                      *)

LEMMA EventRecords ==
    /\ \A e \in Event : e[1] \in Record /\ (e[1] \notin Local => e = Id(e[1]))
    /\ \A r \in Import \cup Share : Id(r) \in Event /\ Id(r)[1] = r /\ r \in Record /\ r \notin Local
BY DEF Event, Record, Id

LEMMA PlainResults ==
    /\ \A c \in {"none", "pending", "retry"} \cup Final : Plain(c) \in Result
    /\ \A c : Plain(c).code = c /\ Plain(c).ref = {}
BY DEF Plain, Result

LEMMA CodesApart ==
    /\ Final = Stored \cup {"source_duplicate", "rejected"} /\ Applied = Stored \cup {"source_duplicate"}
    /\ "none" \notin Final /\ "pending" \notin Final /\ "retry" \notin Final /\ "rejected" \notin Applied
    /\ "rejected" \notin Stored /\ "source_duplicate" \notin Stored /\ Applied \subseteq Final
BY DEF Final, Applied, Stored

LEMMA ResultFields ==
    ASSUME NEW v \in Result
    PROVE  v.code \in {"none", "pending", "retry"} \cup Final /\ v.ref \in SUBSET Event
BY DEF Result

\* An answer is a refusal, a promise, or what the ledger has.
LEMMA AnswerIs ==
    ASSUME TypeOK, NEW e \in Event, NEW box
    PROVE  /\ Answer(e, box) \in Result
           /\ Answer(e, box) \in {Plain("rejected"), Plain("pending"), ledger[e]}
           /\ Answer(e, box) = Plain("rejected") => box[e] = "requeued" \/ Plain("rejected") = ledger[e]
           /\ Answer(e, box).code \in Applied => Answer(e, box) = ledger[e] /\ ledger[e].code \in Applied
           /\ Answer(e, box).code \in Final => Answer(e, box) = ledger[e] \/ (box[e] = "requeued" /\ Answer(e, box) = Plain("rejected"))
<1>1. ledger[e] \in Result
  BY DEF TypeOK
<1>2. CASE box[e] = "requeued"
  BY <1>2, PlainResults, CodesApart DEF Answer
<1>3. CASE box[e] # "requeued" /\ ledger[e].code = "none"
  BY <1>3, PlainResults, CodesApart DEF Answer
<1>4. CASE box[e] # "requeued" /\ ledger[e].code # "none"
  BY <1>1, <1>4, PlainResults, CodesApart DEF Answer
<1>5. QED
  BY <1>2, <1>3, <1>4

\* What never is undone: known ids, final answers, stored memories and archived ones.
Later ==
    /\ \A e \in Event : /\ ledger[e].code # "none" => ledger'[e].code # "none"
                        /\ ledger[e].code \in Final => ledger'[e] = ledger[e]
    /\ \A e \in Event : mem[e] # "none" => mem'[e] # "none"
    /\ \A e \in Event : mem[e] = "archived" => mem'[e] = "archived"
    /\ \A e \in Event : Submitted(e) => Submitted(e)'

LEMMA HonestLater ==
    ASSUME Later, NEW e \in Event, NEW v, Honest(e, v)
    PROVE  /\ v.ref \subseteq {b \in Event : b[1] = e[1] /\ mem'[b] # "none"}
           /\ e[1] \notin Local => v.code # "source_duplicate"
BY DEF Later, Honest

Core ==
    /\ outbox \in [Event -> RowState]
    /\ receipt \in [Event -> Result] /\ ledger \in [Event -> Result]
    /\ bound \in [Record -> SUBSET Event] /\ mem \in [Event -> {"none", "active", "archived"}]
    /\ BoundInv /\ AnswersInv /\ PushedInv
-----------------------------------------------------------------------------
(* The sidecar and the gateway.                                             *)

\* A push of the rows D of box, where box has at least the rows of the outbox.
Pushable(D, box) ==
    /\ box \in [Event -> RowState]
    /\ \A e \in Event : outbox[e] # "none" => box[e] = outbox[e]
    /\ \A e \in Event : box[e] \in {"requeued", "acked", "dead"} => ledger[e].code # "none"
    /\ D \subseteq {e \in Event : box[e] \in {"queued", "requeued"}}

LEMMA PushEffects ==
    ASSUME TypeOK, NEW D, NEW box, Pushable(D, box), Push(D, box)
    PROVE  /\ \A e \in Event :
                 \/ ledger'[e] = ledger[e]
                 \/ ledger[e].code = "none" /\ ledger'[e] = Plain("pending")
           /\ \A e \in D : ledger'[e].code # "none"
           /\ \A e \in Event :
                 \/ receipt'[e] = receipt[e] /\ outbox'[e] = box[e]
                 \/ /\ outbox'[e] \in {"acked", "dead"} /\ ledger[e].code # "none"
                    /\ receipt'[e] \in {ledger[e], Plain("rejected")}
           /\ outbox' \in [Event -> RowState] /\ receipt' \in [Event -> Result] /\ ledger' \in [Event -> Result]
           /\ UNCHANGED <<bound, mem>>
<1> DEFINE closed == {e \in D : Answer(e, box).code \in Final}
           row(e) == IF ledger[e].code = "rejected" /\ box[e] = "queued" THEN "dead" ELSE "acked"
<1>1. /\ ledger' = [e \in Event |-> IF e \in D /\ ledger[e].code = "none" THEN Plain("pending") ELSE ledger[e]]
      /\ outbox' = [e \in Event |-> IF e \in closed THEN row(e) ELSE box[e]]
      /\ receipt' = [e \in Event |-> IF e \in closed THEN Answer(e, box) ELSE receipt[e]]
      /\ UNCHANGED <<bound, mem>>
  BY DEF Push
<1>2. \A e \in Event : row(e) \in {"acked", "dead"}
  OBVIOUS
<1>3. ASSUME NEW e \in closed
      PROVE  ledger[e].code # "none" /\ Answer(e, box) \in {ledger[e], Plain("rejected")} /\ Answer(e, box) \in Result
  <2>1. e \in Event /\ Answer(e, box).code \in Final
    BY DEF Pushable
  <2>2. QED
    BY <2>1, AnswerIs, CodesApart DEF Pushable
<1> HIDE DEF closed, row
<1>4. Plain("pending") \in Result /\ Plain("pending").code = "pending" /\ receipt \in [Event -> Result] /\ ledger \in [Event -> Result]
  BY PlainResults DEF TypeOK
<1>5. D \subseteq Event
  BY DEF Pushable
<1>6. outbox' \in [Event -> RowState] /\ receipt' \in [Event -> Result] /\ ledger' \in [Event -> Result]
  BY <1>1, <1>2, <1>3, <1>4 DEF Pushable, RowState
<1>7. QED
  BY <1>1, <1>2, <1>3, <1>4, <1>5, <1>6

LEMMA PushKeepsCore ==
    ASSUME TypeOK, BoundInv, AnswersInv, PushedInv, NEW D, NEW box, Pushable(D, box), Push(D, box)
    PROVE  /\ Core' /\ Later
           /\ \A e \in Event : box[e] # "none" => outbox'[e] # "none"
<1>1. /\ \A e \in Event : \/ ledger'[e] = ledger[e]
                          \/ ledger[e].code = "none" /\ ledger'[e] = Plain("pending")
      /\ \A e \in Event : \/ receipt'[e] = receipt[e] /\ outbox'[e] = box[e]
                          \/ /\ outbox'[e] \in {"acked", "dead"} /\ ledger[e].code # "none"
                             /\ receipt'[e] \in {ledger[e], Plain("rejected")}
      /\ outbox' \in [Event -> RowState] /\ receipt' \in [Event -> Result] /\ ledger' \in [Event -> Result]
      /\ UNCHANGED <<bound, mem>>
  BY PushEffects
<1>2. Plain("pending").code = "pending" /\ Plain("pending").ref = {} /\ Plain("rejected").code = "rejected" /\ Plain("rejected").ref = {}
  BY PlainResults
<1>3. \A e \in Event : /\ ledger'[e].code \in Stored <=> ledger[e].code \in Stored
                       /\ ledger[e].code # "none" => ledger'[e] = ledger[e]
  BY <1>1, <1>2 DEF Stored
<1>4. \A e \in Event : ledger[e].code \in Final => ledger'[e] = ledger[e]
  BY <1>3, CodesApart
<1>5. \A e \in Event : box[e] # "none" => outbox'[e] # "none"
  BY <1>1
<1>6. Later
  <2>1. \A e \in Event : Submitted(e) => Submitted(e)'
    BY <1>3, <1>5 DEF Submitted, Pushable
  <2>2. QED
    BY <1>1, <1>3, <1>4, <2>1 DEF Later
<1>7. BoundInv'
  <2>1. \A r \in Record : bound[r] \subseteq Event
    BY DEF TypeOK
  <2>2. QED
    BY <1>1, <1>3, <2>1 DEF BoundInv
<1>8. AnswersInv'
  <2>1. ASSUME NEW e \in Event PROVE Honest(e, ledger'[e]) /\ Honest(e, receipt'[e])
    BY <1>1, <1>2 DEF AnswersInv, Honest
  <2>2. QED
    BY <1>1, <2>1 DEF AnswersInv, Honest
<1>9. PushedInv'
  BY <1>1, <1>3 DEF PushedInv, Pushable
<1>10. Core'
  BY <1>1, <1>7, <1>8, <1>9 DEF Core, TypeOK
<1>11. QED
  BY <1>5, <1>6, <1>10

\* sync, and remember of a new event, are such pushes.
LEMMA SyncKeepsCore ==
    ASSUME TypeOK, BoundInv, AnswersInv, PushedInv, NEW D, Sync(D)
    PROVE  Core' /\ Later /\ D \subseteq Event
<1>1. Pushable(D, outbox)
  BY DEF Sync, Queued, Pushable, TypeOK, PushedInv
<1>2. Push(D, outbox) /\ D \subseteq Event
  BY DEF Sync, Queued
<1>3. QED
  BY <1>1, <1>2, PushKeepsCore

LEMMA RememberKeepsCore ==
    ASSUME TypeOK, BoundInv, AnswersInv, PushedInv, NEW e \in Event, NEW D, Remember(e, D)
    PROVE  Core' /\ Later /\ outbox'[e] # "none" /\ D \subseteq Event
<1> DEFINE box == Enqueued(e)
<1>1. outbox[e] = "none" /\ D \subseteq Queued \cup {e} /\ Push(D, box)
  BY DEF Remember, Refuses
<1>2. box \in [Event -> RowState] /\ box[e] = (IF ledger[e].code = "none" THEN "queued" ELSE "requeued")
      /\ \A d \in Event \ {e} : box[d] = outbox[d]
  BY DEF Enqueued, TypeOK, RowState
<1> HIDE DEF box
<1>3. D \subseteq Event
  BY <1>1 DEF Queued
<1>4. Pushable(D, box)
  <2>1. \A d \in D : box[d] \in {"queued", "requeued"}
    BY <1>1, <1>2 DEF Queued
  <2>2. QED
    BY <1>1, <1>2, <1>3, <2>1 DEF Pushable, PushedInv
<1>5. Core' /\ Later /\ \A d \in Event : box[d] # "none" => outbox'[d] # "none"
  BY <1>1, <1>4, PushKeepsCore
<1>6. QED
  BY <1>2, <1>3, <1>5

\* The worker's decision: v for an open event.
LEMMA DecidedLater ==
    ASSUME TypeOK, NEW e \in Event, NEW v \in Result, Open(e), Decides(e, v), v.code # "none",
           UNCHANGED <<outbox, receipt>>,
           \A d \in Event : mem'[d] = mem[d] \/ (d = e /\ mem[d] = "none" /\ mem'[d] # "none")
    PROVE  /\ Later
           /\ ledger' \in [Event -> Result] /\ ledger'[e] = v /\ \A d \in Event \ {e} : ledger'[d] = ledger[d]
<1>1. ledger' \in [Event -> Result] /\ ledger'[e] = v /\ \A d \in Event \ {e} : ledger'[d] = ledger[d]
  BY DEF Decides, TypeOK
<1>2. ledger[e].code \notin Final
  BY CodesApart DEF Open
<1>3. \A d \in Event : Submitted(d) => Submitted(d)'
  BY <1>1 DEF Submitted
<1>4. \A d \in Event : /\ ledger[d].code # "none" => ledger'[d].code # "none"
                       /\ ledger[d].code \in Final => ledger'[d] = ledger[d]
  BY <1>1, <1>2
<1>5. QED
  BY <1>1, <1>3, <1>4 DEF Later

LEMMA DecideKeepsCore ==
    ASSUME TypeOK, BoundInv, AnswersInv, PushedInv, NEW e \in Event, Decide(e)
    PROVE  Core' /\ Later
<1> DEFINE r == e[1]
<1>1. /\ r \in Record /\ (r \notin Local => e = Id(r)) /\ Open(e) /\ UNCHANGED <<outbox, receipt>>
      /\ ledger[e].code \notin Final /\ ledger[e].code \notin Stored /\ mem[e] = "none"
  BY EventRecords, CodesApart DEF Decide, OnlyGateway, sidecar, Open, BoundInv
<1>2. bound[r] \subseteq Event /\ bound \in [Record -> SUBSET Event] /\ mem \in [Event -> {"none", "active", "archived"}]
      /\ outbox \in [Event -> RowState] /\ receipt \in [Event -> Result] /\ \A q \in Record : bound[q] \subseteq Event
  BY <1>1 DEF TypeOK
<1>3. CASE /\ bound[r] # {}
           /\ Decides(e, [code |-> "source_duplicate", ref |-> {b \in bound[r] : mem[b] # "none"}])
           /\ UNCHANGED <<bound, mem>>
  <2> DEFINE v == [code |-> "source_duplicate", ref |-> {b \in bound[r] : mem[b] # "none"}]
  <2>1. v \in Result /\ v.code = "source_duplicate" /\ v.ref = {b \in bound[r] : mem[b] # "none"} /\ Decides(e, v)
    BY <1>2, <1>3, CodesApart DEF Result
  <2> HIDE DEF v
  <2>2. /\ Later
        /\ ledger' \in [Event -> Result] /\ ledger'[e] = v /\ \A d \in Event \ {e} : ledger'[d] = ledger[d]
    BY <1>1, <1>3, <2>1, DecidedLater
  <2>3. BoundInv'
    BY <1>1, <1>2, <1>3, <2>1, <2>2, CodesApart DEF BoundInv
  <2>4. r \in Local
    <3>1. PICK b \in bound[r] : TRUE
      BY <1>3
    <3>2. b \in Event /\ b[1] = r /\ ledger[b].code \in Stored
      BY <1>1, <1>2 DEF BoundInv
    <3>3. b # e
      BY <3>2, <1>1
    <3>4. QED
      BY <3>2, <3>3, <1>1, EventRecords
  <2>5. Honest(e, v)
    BY <1>1, <1>2, <2>1, <2>4 DEF Honest, BoundInv
  <2>6. AnswersInv'
    BY <1>1, <1>3, <2>2, <2>5 DEF AnswersInv, Honest
  <2>7. PushedInv'
    BY <1>1, <2>2 DEF PushedInv, Later
  <2>8. QED
    BY <1>1, <1>2, <1>3, <2>2, <2>3, <2>6, <2>7 DEF Core
<1>4. CASE /\ bound[r] = {} /\ Decides(e, Plain("rejected")) /\ UNCHANGED <<bound, mem>>
  <2>1. Plain("rejected") \in Result /\ Plain("rejected").code = "rejected" /\ Plain("rejected").ref = {}
    BY PlainResults, CodesApart
  <2>2. /\ Later
        /\ ledger' \in [Event -> Result] /\ ledger'[e] = Plain("rejected") /\ \A d \in Event \ {e} : ledger'[d] = ledger[d]
    BY <1>1, <1>4, <2>1, DecidedLater
  <2>3. BoundInv'
    BY <1>1, <1>2, <1>4, <2>1, <2>2, CodesApart DEF BoundInv
  <2>6. AnswersInv'
    BY <1>1, <1>4, <2>1, <2>2 DEF AnswersInv, Honest
  <2>7. PushedInv'
    BY <1>1, <2>2 DEF PushedInv, Later
  <2>8. QED
    BY <1>1, <1>2, <1>4, <2>2, <2>3, <2>6, <2>7 DEF Core
<1>5. CASE \E v \in Result : /\ bound[r] = {} /\ Decides(e, v) /\ v.code \in Stored /\ v.ref \subseteq {e}
                             /\ bound' = [bound EXCEPT ![r] = {e}]
                             /\ (v.ref = {} /\ mem' = mem) \/ mem' = [mem EXCEPT ![e] = "active"]
  <2>1. PICK v \in Result : /\ bound[r] = {} /\ Decides(e, v) /\ v.code \in Stored /\ v.ref \subseteq {e}
                            /\ bound' = [bound EXCEPT ![r] = {e}]
                            /\ (v.ref = {} /\ mem' = mem) \/ mem' = [mem EXCEPT ![e] = "active"]
    BY <1>5
  <2>2. /\ mem' \in [Event -> {"none", "active", "archived"}]
        /\ \A d \in Event : mem'[d] = mem[d] \/ (d = e /\ mem[d] = "none" /\ mem'[d] # "none")
        /\ v.ref # {} => mem'[e] # "none"
    BY <1>1, <1>2, <2>1
  <2>3. /\ bound' \in [Record -> SUBSET Event] /\ bound'[r] = {e} /\ \A q \in Record \ {r} : bound'[q] = bound[q]
    BY <1>1, <1>2, <2>1
  <2>4. v.code # "none"
    BY <2>1 DEF Stored
  <2>5. /\ Later
        /\ ledger' \in [Event -> Result] /\ ledger'[e] = v /\ \A d \in Event \ {e} : ledger'[d] = ledger[d]
    BY <1>1, <2>1, <2>2, <2>4, DecidedLater
  <2>6. \A d \in Event : d # e /\ ledger[d].code \in Stored => d[1] # r
    BY <2>1 DEF BoundInv
  <2>7. BoundInv'
    <3>1. \A d \in Event : ledger'[d].code \in Stored => bound'[d[1]] = {d}
      BY <2>3, <2>5, <2>6, EventRecords DEF BoundInv
    <3>2. \A d \in Event : mem'[d] # "none" => ledger'[d].code \in Stored
      BY <2>1, <2>2, <2>5 DEF BoundInv
    <3>3. \A q \in Record : \A d \in bound'[q] : d[1] = q /\ ledger'[d].code \in Stored
      <4>1. TAKE q \in Record
      <4>2. TAKE d \in bound'[q]
      <4>3. CASE q = r
        BY <4>3, <2>1, <2>3, <2>5
      <4>4. CASE q # r
        <5>1. d \in bound[q] /\ d \in Event /\ d[1] = q /\ ledger[d].code \in Stored
          BY <4>4, <2>3, <1>2 DEF BoundInv
        <5>2. QED
          BY <5>1, <4>4, <2>5
      <4>5. QED
        BY <4>3, <4>4
    <3>4. QED
      BY <3>1, <3>2, <3>3 DEF BoundInv
  <2>8. AnswersInv'
    <3>1. ASSUME NEW d \in Event PROVE /\ ledger'[d].ref \subseteq {b \in Event : b[1] = d[1] /\ mem'[b] # "none"}
                                       /\ d[1] \notin Local => ledger'[d].code # "source_duplicate"
      <4>1. CASE d = e
        BY <4>1, <2>1, <2>2, <2>5, CodesApart
      <4>2. CASE d # e
        <5>1. Honest(d, ledger[d])
          BY DEF AnswersInv
        <5>2. QED
          BY <4>2, <5>1, <2>5, HonestLater
      <4>3. QED
        BY <4>1, <4>2
    <3>2. ASSUME NEW d \in Event PROVE /\ receipt'[d].ref \subseteq {b \in Event : b[1] = d[1] /\ mem'[b] # "none"}
                                       /\ d[1] \notin Local => receipt'[d].code # "source_duplicate"
      <4>1. Honest(d, receipt[d])
        BY DEF AnswersInv
      <4>2. QED
        BY <4>1, <1>1, <2>5, HonestLater
    <3>3. QED
      BY <3>1, <3>2 DEF AnswersInv, Honest
  <2>9. PushedInv'
    BY <1>1, <2>5 DEF PushedInv, Later
  <2>10. QED
    BY <1>1, <1>2, <2>2, <2>3, <2>5, <2>7, <2>8, <2>9 DEF Core
<1>6. Decides(e, Plain("candidate_created")) /\ bound[r] = {} /\ bound' = [bound EXCEPT ![r] = {e}] /\ mem' = mem => Core' /\ Later
  <2>1. Plain("candidate_created") \in Result /\ Plain("candidate_created").code \in Stored /\ Plain("candidate_created").ref = {}
    BY PlainResults, CodesApart DEF Stored
  <2>2. QED
    BY <1>5, <2>1
<1>7. Decides(e, [code |-> "candidate_confirmed", ref |-> {e}]) /\ bound[r] = {} /\ bound' = [bound EXCEPT ![r] = {e}]
      /\ mem' = [mem EXCEPT ![e] = "active"] => Core' /\ Later
  <2> DEFINE v == [code |-> "candidate_confirmed", ref |-> {e}]
  <2>1. v \in Result /\ v.code \in Stored /\ v.ref \subseteq {e}
    BY CodesApart DEF Stored, Result
  <2> HIDE DEF v
  <2>2. Decides(e, v) /\ bound[r] = {} /\ bound' = [bound EXCEPT ![r] = {e}]
        /\ mem' = [mem EXCEPT ![e] = "active"] => Core' /\ Later
    BY <1>5, <2>1
  <2>3. QED
    BY <2>2 DEF v
<1>8. QED
  BY <1>3, <1>4, <1>6, <1>7 DEF Decide

LEMMA RetryKeepsCore ==
    ASSUME TypeOK, BoundInv, AnswersInv, PushedInv, NEW e \in Event, Retry(e)
    PROVE  Core' /\ Later
<1>1. Plain("retry") \in Result /\ Plain("retry").code = "retry" /\ Plain("retry").ref = {}
  BY PlainResults
<1>2. Open(e) /\ Decides(e, Plain("retry")) /\ UNCHANGED <<outbox, receipt, bound, mem>> /\ ledger[e].code = "pending"
  BY DEF Retry, Open, OnlyGateway, sidecar
<1>3. /\ Later
      /\ ledger' \in [Event -> Result] /\ ledger'[e] = Plain("retry") /\ \A d \in Event \ {e} : ledger'[d] = ledger[d]
  BY <1>1, <1>2, DecidedLater
<1>4. \A q \in Record : bound[q] \subseteq Event
  BY DEF TypeOK
<1>5. \A d \in Event : ledger'[d].code \in Stored <=> ledger[d].code \in Stored
  BY <1>1, <1>2, <1>3, CodesApart DEF Stored
<1>6. BoundInv'
  BY <1>2, <1>4, <1>5 DEF BoundInv
<1>7. AnswersInv'
  BY <1>1, <1>2, <1>3 DEF AnswersInv, Honest
<1>8. PushedInv'
  BY <1>2, <1>3 DEF PushedInv, Later
<1>9. QED
  BY <1>2, <1>3, <1>6, <1>7, <1>8 DEF Core, TypeOK

\* A reviewer confirms, or a memory is archived: one memory of a stored event changes.
LEMMA MemoryKeepsCore ==
    ASSUME TypeOK, BoundInv, AnswersInv, PushedInv, NEW e \in Event,
           NEW c \in {"active", "archived"}, ledger[e].code \in Stored,
           mem' = [mem EXCEPT ![e] = c], mem[e] = "archived" => c = "archived",
           UNCHANGED <<outbox, receipt, ledger, bound>>
    PROVE  Core' /\ Later
<1>1. /\ mem' \in [Event -> {"none", "active", "archived"}] /\ mem'[e] = c
      /\ \A d \in Event \ {e} : mem'[d] = mem[d]
  BY DEF TypeOK
<1>2. Later
  BY <1>1 DEF Later, Submitted
<1>3. BoundInv'
  <2>1. \A d \in Event : mem'[d] # "none" => ledger[d].code \in Stored
    BY <1>1 DEF BoundInv
  <2>2. QED
    BY <2>1 DEF BoundInv
<1>4. AnswersInv'
  <2>1. ASSUME NEW d \in Event, NEW v, Honest(d, v)
        PROVE  /\ v.ref \subseteq {b \in Event : b[1] = d[1] /\ mem'[b] # "none"}
               /\ d[1] \notin Local => v.code # "source_duplicate"
    BY <1>2, <2>1, HonestLater
  <2>2. QED
    BY <2>1 DEF AnswersInv, Honest
<1>5. PushedInv'
  BY DEF PushedInv
<1>6. QED
  BY <1>1, <1>2, <1>3, <1>4, <1>5 DEF Core, TypeOK

LEMMA CleanupKeepsCore ==
    ASSUME TypeOK, BoundInv, AnswersInv, PushedInv, Cleanup
    PROVE  Core' /\ Later
<1>1. /\ \A e \in Event : outbox'[e] = IF outbox[e] = "acked" THEN "none" ELSE outbox[e]
      /\ UNCHANGED <<receipt, ledger, bound, mem>> /\ outbox' \in [Event -> RowState]
  BY DEF Cleanup, gateway, TypeOK, RowState
<1>2. \A e \in Event : Submitted(e) => Submitted(e)'
  BY <1>1 DEF Submitted, PushedInv
<1>3. Later
  BY <1>1, <1>2 DEF Later
<1>4. PushedInv'
  BY <1>1 DEF PushedInv
<1>5. BoundInv' /\ AnswersInv'
  BY <1>1 DEF BoundInv, AnswersInv, Honest
<1>6. QED
  BY <1>1, <1>3, <1>4, <1>5 DEF Core, TypeOK

LEMMA IdleKeepsCore ==
    ASSUME TypeOK, BoundInv, AnswersInv, PushedInv, UNCHANGED <<sidecar, gateway>>
    PROVE  Core' /\ Later
<1>1. UNCHANGED <<outbox, receipt, ledger, bound, mem>>
  BY DEF sidecar, gateway
<1>2. Later
  BY <1>1 DEF Later, Submitted
<1>3. BoundInv' /\ AnswersInv' /\ PushedInv'
  BY <1>1 DEF BoundInv, AnswersInv, PushedInv, Honest
<1>4. QED
  BY <1>1, <1>2, <1>3 DEF Core, TypeOK

LEMMA CoreStep ==
    ASSUME ProducersInv, [Next]_vars
    PROVE  Core' /\ Later
<1>1. TypeOK /\ BoundInv /\ AnswersInv /\ PushedInv /\ EntriesInv /\ RunInv
  BY DEF ProducersInv
<1>2. \A r \in Import \cup Share : Id(r) \in Event
  BY EventRecords
<1>3. ASSUME NEW r \in Import \cup Share, NEW D, Remember(Id(r), D) PROVE Core' /\ Later
  BY <1>1, <1>2, <1>3, RememberKeepsCore
<1>4. ASSUME NEW r \in Import, NEW D, ApplyRecord(r, D) PROVE Core' /\ Later
  BY <1>3, <1>4 DEF ApplyRecord
<1>5. ASSUME NEW s \in Share, NEW D, ShareOne(s, D) PROVE Core' /\ Later
  BY <1>3, <1>5 DEF ShareOne
<1>6. ASSUME NEW e \in Event, NEW D, ShareLocal(e[1], e, D) PROVE Core' /\ Later
  BY <1>1, <1>6, RememberKeepsCore DEF ShareLocal
<1>7. ASSUME NEW D, ImportSync(D) \/ Heartbeat(D) \/ ReconcileShares(D) PROVE Core' /\ Later
  <2>1. Sync(D)
    BY <1>7 DEF ImportSync, Heartbeat, ReconcileShares
  <2>2. QED
    BY <1>1, <2>1, SyncKeepsCore
<1>8. ASSUME NEW r \in Import, RollbackEntry(r) PROVE Core' /\ Later
  <2>1. PICK e \in run.refs[r] : ForgetMemory(e)
    BY <1>8 DEF RollbackEntry
  <2>2. e = Id(r) /\ e \in Event /\ mem[e] # "none"
    BY <1>1, <1>2 DEF EntriesInv
  <2>3. ledger[e].code \in Stored
    BY <1>1, <2>2 DEF BoundInv
  <2>4. mem' = [mem EXCEPT ![e] = "archived"] /\ UNCHANGED <<outbox, receipt, ledger, bound>>
    BY <1>8, <2>1 DEF RollbackEntry, ForgetMemory, sidecar
  <2>5. QED
    BY <1>1, <2>2, <2>3, <2>4, MemoryKeepsCore
<1>9. ASSUME NEW s \in Share, ForgetShared(s) PROVE Core' /\ Later
  <2>1. UNCHANGED sidecar /\ \/ UNCHANGED gateway
                             \/ \E e \in Event : mem[e] = "active" /\ ForgetMemory(e)
    BY <1>9 DEF ForgetShared
  <2>2. CASE UNCHANGED gateway
    BY <1>1, <2>1, <2>2, IdleKeepsCore
  <2>3. ASSUME NEW e \in Event, mem[e] = "active", ForgetMemory(e) PROVE Core' /\ Later
    <3>1. ledger[e].code \in Stored
      BY <1>1, <2>3 DEF BoundInv
    <3>2. mem' = [mem EXCEPT ![e] = "archived"] /\ UNCHANGED <<outbox, receipt, ledger, bound>>
      BY <2>1, <2>3 DEF ForgetMemory, sidecar
    <3>3. QED
      BY <1>1, <2>3, <3>1, <3>2, MemoryKeepsCore
  <2>4. QED
    BY <2>1, <2>2, <2>3
<1>10. ASSUME NEW e \in Event, Confirm(e) PROVE Core' /\ Later
  <2>1. /\ ledger[e].code \in Stored /\ mem[e] # "archived"
        /\ mem' = [mem EXCEPT ![e] = "active"] /\ UNCHANGED <<outbox, receipt, ledger, bound>>
    BY <1>10 DEF Confirm, OnlyGateway, sidecar, Stored
  <2>2. QED
    BY <1>1, <2>1, MemoryKeepsCore
<1>11. ASSUME NEW e \in Event, Decide(e) \/ Retry(e) PROVE Core' /\ Later
  BY <1>1, <1>11, DecideKeepsCore, RetryKeepsCore
<1>12. (\E r \in Import : ApplyRefused(r)) \/ (\E s \in Share : ShareRefused(s))
       \/ WriteState \/ ApplyReceipts \/ RollbackReceipts \/ RollbackEnd
       \/ (\E resume \in BOOLEAN : ApplyStart(resume)) \/ RollbackStart \/ ImportStops
       \/ ShareStart \/ ShareCommit \/ ShareStops \/ UNCHANGED vars => UNCHANGED <<sidecar, gateway>>
  BY DEF ApplyRefused, ShareRefused, WriteState, ApplyReceipts, RollbackReceipts, RollbackEnd, ApplyStart, RollbackStart,
         ImportStops, ShareStart, ShareCommit, ShareStops, vars, OnlyImporter
<1>13. UNCHANGED <<sidecar, gateway>> => Core' /\ Later
  BY <1>1, IdleKeepsCore
<1>14. Cleanup => Core' /\ Later
  BY <1>1, CleanupKeepsCore
<1>15. QED
  BY <1>4, <1>5, <1>6, <1>7, <1>8, <1>9, <1>10, <1>11, <1>12, <1>13, <1>14, ProducersCases
-----------------------------------------------------------------------------
(* The importer.                                                            *)

\* An entry that is true after the step.
TrueNext(r, en) ==
    /\ en.there => outbox'[Id(r)] # "none" \/ ledger'[Id(r)].code # "none"
    /\ en.ref \subseteq {Id(r)} /\ (en.ref # {} => mem'[Id(r)] # "none")
    /\ en.result # "source_duplicate"
    /\ en.archived => mem'[Id(r)] = "archived"

LEMMA TrueLater ==
    ASSUME Later, NEW r \in Import, NEW en, TrueEntry(r, en)
    PROVE  TrueNext(r, en)
BY EventRecords DEF Later, TrueEntry, TrueNext, Submitted

\* An honest answer about the record, noted in an entry that is true.
LEMMA NotedTrue ==
    ASSUME Later, NEW r \in Import, NEW en \in Entry, TrueNext(r, en), NEW v \in Result, Honest(Id(r), v)
    PROVE  /\ Noted(en, v) \in Entry /\ NotedReceipt(en, v) \in Entry
           /\ TrueNext(r, Noted(en, v)) /\ TrueNext(r, NotedReceipt(en, v))
           /\ Noted(en, v).there = en.there /\ NotedReceipt(en, v).there = en.there
<1>1. /\ v.ref \subseteq {b \in Event : b[1] = r /\ mem'[b] # "none"} /\ v.code # "source_duplicate"
      /\ v.ref \in SUBSET Event
  BY EventRecords, HonestLater, ResultFields
<1>2. v.ref \subseteq {Id(r)} /\ (v.ref # {} => mem'[Id(r)] # "none")
  BY <1>1, EventRecords
<1> DEFINE n == Noted(en, v)
           m == NotedReceipt(en, v)
<1>3. /\ n \in Entry /\ n.there = en.there /\ n.ref \in {en.ref, v.ref} /\ n.result = en.result /\ n.archived = en.archived
  BY <1>1 DEF Noted, Entry
<1>4. m = [n EXCEPT !.result = IF v.code \in Applied THEN v.code ELSE @]
  BY DEF NotedReceipt
<1> HIDE DEF n, m
<1>5. /\ m \in Entry /\ m.there = n.there /\ m.ref = n.ref /\ m.result \in {n.result, v.code} /\ m.archived = n.archived
  BY <1>3, <1>4 DEF Entry
<1>6. TrueNext(r, n)
  BY <1>2, <1>3 DEF TrueNext
<1>7. TrueNext(r, m)
  BY <1>1, <1>5, <1>6 DEF TrueNext
<1>8. QED
  BY <1>3, <1>5, <1>6, <1>7 DEF n, m

LEMMA AnswersHonest ==
    ASSUME TypeOK, AnswersInv, NEW e \in Event
    PROVE  /\ Honest(e, receipt[e]) /\ receipt[e] \in Result /\ Honest(e, Plain("none")) /\ Plain("none") \in Result
           /\ \A box : Honest(e, Answer(e, box)) /\ Answer(e, box) \in Result
<1>1. \A c \in {"none", "pending", "rejected"} : Honest(e, Plain(c))
  BY PlainResults DEF Honest
<1>2. \A box : Honest(e, Answer(e, box)) /\ Answer(e, box) \in Result
  BY <1>1, AnswerIs DEF AnswersInv
<1>3. QED
  BY <1>1, <1>2, PlainResults DEF AnswersInv, TypeOK

LEMMA IdleRun ==
    /\ Idle \in Run /\ Idle.cmd = "none" /\ Idle.at = "none" /\ Idle.todo = {} /\ Idle.bad = FALSE
    /\ \A r \in Import : Idle.work[r] = NoEntry /\ Idle.refs[r] = {}
    /\ NoEntry \in Entry /\ NoEntry.there = FALSE /\ \A r \in Import : TrueNext(r, NoEntry)
<1>1. NoEntry \in Entry /\ NoEntry.there = FALSE /\ NoEntry.ref = {} /\ NoEntry.result = "none" /\ NoEntry.archived = FALSE
  BY DEF NoEntry, Entry
<1>2. \A r \in Import : TrueNext(r, NoEntry)
  BY <1>1 DEF TrueNext, Entry
<1>3. QED
  BY <1>1, <1>2 DEF Idle, Run

ImporterTypes ==
    /\ file \in [exists : BOOLEAN, entries : [Import -> Entry]] /\ run \in Run
    /\ report \in {"none", "completed", "completed_with_errors", "review_pending", "sync_pending",
                   "rolled_back", "rollback_pending"}
ImporterInv == ImporterTypes /\ EntriesInv /\ RunInv /\ ReportInv

\* What the importer knows stays true, whoever takes the step.
LEMMA ImporterLater ==
    ASSUME ImporterInv, Later
    PROVE  /\ \A r \in Import : /\ TrueNext(r, file.entries[r]) /\ TrueNext(r, run.work[r])
                                /\ run.refs[r] \subseteq {Id(r)} /\ (run.refs[r] # {} => mem'[Id(r)] # "none")
           /\ file.entries \in [Import -> Entry] /\ run.work \in [Import -> Entry] /\ run.refs \in [Import -> SUBSET Event]
           /\ run.todo \subseteq Import /\ run.bad \in BOOLEAN /\ file.exists \in BOOLEAN
<1>1. \A r \in Import : TrueNext(r, file.entries[r]) /\ TrueNext(r, run.work[r])
  BY TrueLater DEF ImporterInv, EntriesInv
<1>2. \A r \in Import : run.refs[r] \subseteq {Id(r)} /\ (run.refs[r] # {} => mem'[Id(r)] # "none")
  BY EventRecords DEF ImporterInv, EntriesInv, Later
<1>3. QED
  BY <1>1, <1>2 DEF ImporterInv, ImporterTypes, Run

LEMMA EntriesNext ==
    ASSUME \A r \in Import : /\ TrueNext(r, file'.entries[r]) /\ TrueNext(r, run'.work[r])
                             /\ run'.refs[r] \subseteq {Id(r)} /\ (run'.refs[r] # {} => mem'[Id(r)] # "none")
    PROVE  EntriesInv'
BY DEF EntriesInv, TrueEntry, TrueNext, Submitted, Id

LEMMA ImporterWaits ==
    ASSUME ImporterInv, Later, UNCHANGED <<jobs, file, run, report>>
    PROVE  ImporterInv'
<1>1. EntriesInv'
  BY ImporterLater, EntriesNext
<1>2. ReportInv'
  BY EventRecords DEF ImporterInv, ReportInv, Later, Batch, Entries, Id
<1>3. RunInv'
  BY DEF ImporterInv, RunInv, Batch, Entries
<1>4. QED
  BY <1>1, <1>2, <1>3 DEF ImporterInv, ImporterTypes

\* The command ends without a report.
LEMMA ImporterStops ==
    ASSUME ImporterInv, Later, run # Idle, run' = Idle, UNCHANGED <<jobs, file, report>>
    PROVE  ImporterInv'
<1>1. report = "none"
  BY DEF ImporterInv, RunInv
<1>2. EntriesInv'
  BY ImporterLater, IdleRun, EntriesNext
<1>3. RunInv' /\ ReportInv'
  BY <1>1, IdleRun DEF RunInv, ReportInv
<1>4. QED
  BY <1>2, <1>3, IdleRun DEF ImporterInv, ImporterTypes

LEMMA StartKeepsImporter ==
    ASSUME ImporterInv, Later, (\E resume \in BOOLEAN : ApplyStart(resume)) \/ RollbackStart
    PROVE  ImporterInv'
<1>1. /\ run = Idle /\ report' = "none" /\ UNCHANGED jobs
      /\ file' = [file EXCEPT !.exists = TRUE] \/ file' = file
      /\ \/ run' = [Idle EXCEPT !.cmd = "apply", !.at = "records", !.work = file.entries]
         \/ run' = [Idle EXCEPT !.cmd = "rollback", !.at = "sync", !.work = file.entries]
  BY DEF ApplyStart, RollbackStart, OnlyImporter
<1>2. /\ file' \in [exists : BOOLEAN, entries : [Import -> Entry]] /\ file'.entries = file.entries
      /\ run' \in Run /\ run'.work = file.entries /\ run'.refs = Idle.refs /\ run'.at \in {"records", "sync"}
      /\ run'.cmd = "apply" => run'.at = "records"
  BY <1>1, ImporterLater, IdleRun DEF ImporterInv, ImporterTypes, Run
<1>3. EntriesInv'
  BY <1>2, ImporterLater, IdleRun, EntriesNext
<1>4. RunInv'
  BY <1>1, <1>2 DEF RunInv
<1>5. ReportInv'
  BY <1>1 DEF ReportInv
<1>6. QED
  BY <1>1, <1>2, <1>3, <1>4, <1>5 DEF ImporterInv, ImporterTypes

LEMMA ApplyRecordKeepsImporter ==
    ASSUME ProducersInv, ImporterInv, Later, NEW r \in Import, NEW D, ApplyRecord(r, D)
    PROVE  ImporterInv'
<1>1. run # Idle /\ run.cmd = "apply" /\ run.at = "records" /\ UNCHANGED <<jobs, file, report>> /\ Remember(Id(r), D)
  BY IdleRun DEF ApplyRecord, IsNext, ImporterCalls
<1>2. CASE run' = Idle
  BY <1>1, <1>2, ImporterStops
<1> DEFINE en == [NoEntry EXCEPT !.there = TRUE]
           v == Returned(Id(r), D)
<1>3. CASE run' = [run EXCEPT !.at = "write", !.work = [@ EXCEPT ![r] = Noted(en, v)]]
  <2>1. Id(r) \in Event /\ outbox'[Id(r)] # "none"
    BY <1>1, EventRecords, RememberKeepsCore DEF ProducersInv
  <2>2. en \in Entry /\ en.there /\ en.ref = {} /\ en.result = "none" /\ ~en.archived
    BY DEF NoEntry, Entry
  <2>3. v \in Result /\ Honest(Id(r), v)
    BY <2>1, AnswersHonest DEF Returned, ProducersInv
  <2> HIDE DEF en, v
  <2>4. TrueNext(r, en)
    BY <2>1, <2>2 DEF TrueNext
  <2>5. Noted(en, v) \in Entry /\ TrueNext(r, Noted(en, v))
    BY <2>2, <2>3, <2>4, NotedTrue
  <2>6. /\ run' \in Run /\ run'.cmd = "apply" /\ run'.at = "write" /\ run'.refs = run.refs
        /\ run'.work[r] = Noted(en, v) /\ \A q \in Import \ {r} : run'.work[q] = run.work[q]
    BY <1>1, <1>3, <2>5, ImporterLater DEF ImporterInv, ImporterTypes, Run
  <2>7. EntriesInv'
    BY <1>1, <2>5, <2>6, ImporterLater, EntriesNext
  <2>8. report = "none"
    BY <1>1 DEF ImporterInv, RunInv
  <2>9. RunInv' /\ ReportInv'
    BY <1>1, <2>6, <2>8 DEF RunInv, ReportInv
  <2>10. QED
    BY <1>1, <2>6, <2>7, <2>9 DEF ImporterInv, ImporterTypes
<1>4. QED
  BY <1>2, <1>3 DEF ApplyRecord

LEMMA WriteKeepsImporter ==
    ASSUME ImporterInv, Later, WriteState
    PROVE  ImporterInv'
<1>1. /\ run # Idle /\ run.at = "write" /\ UNCHANGED <<jobs, report>> /\ file' = [file EXCEPT !.entries = run.work]
      /\ run' = [run EXCEPT !.at = IF run.cmd = "apply" THEN "records" ELSE "entries"] /\ report = "none"
  BY IdleRun DEF WriteState, OnlyImporter, ImporterInv, RunInv
<1>2. /\ file' \in [exists : BOOLEAN, entries : [Import -> Entry]] /\ file'.entries = run.work
      /\ run' \in Run /\ run'.work = run.work /\ run'.refs = run.refs /\ run'.cmd = run.cmd /\ run'.todo = run.todo
      /\ run'.at = (IF run.cmd = "apply" THEN "records" ELSE "entries") /\ run'.bad = run.bad
  BY <1>1, ImporterLater DEF ImporterInv, ImporterTypes, Run
<1>3. EntriesInv'
  BY <1>2, ImporterLater, EntriesNext
<1>4. run.cmd # "apply" => run.cmd = "rollback"
  BY <1>1 DEF ImporterInv, ImporterTypes, Run, RunInv
<1>5. RunInv'
  BY <1>1, <1>2, <1>4 DEF ImporterInv, RunInv, Entries
<1>6. ReportInv'
  BY <1>1 DEF ReportInv
<1>7. QED
  BY <1>1, <1>2, <1>3, <1>5, <1>6 DEF ImporterInv, ImporterTypes

LEMMA ImportSyncKeepsImporter ==
    ASSUME ProducersInv, ImporterInv, Later, NEW D, ImportSync(D)
    PROVE  ImporterInv'
<1> DEFINE w == [r \in Import |-> IF Id(r) \in D /\ run.work[r].there THEN Noted(run.work[r], Answer(Id(r), outbox))
                                  ELSE run.work[r]]
<1>1. /\ UNCHANGED <<jobs, file, report>>
      /\ \/ run.cmd = "apply" /\ Missing = {} /\ run' = [run EXCEPT !.at = "receipts", !.work = w]
         \/ run.cmd = "rollback" /\ run.at = "sync" /\ run' = [run EXCEPT !.at = "receipts", !.work = @]
  BY DEF ImportSync, ImporterCalls
<1>2. report = "none" /\ run # Idle
  BY <1>1, IdleRun DEF ImporterInv, RunInv
<1>3. ASSUME NEW r \in Import PROVE w[r] \in Entry /\ TrueNext(r, w[r]) /\ w[r].there = run.work[r].there
  <2>1. run.work[r] \in Entry /\ TrueNext(r, run.work[r])
    BY ImporterLater
  <2>2. Honest(Id(r), Answer(Id(r), outbox)) /\ Answer(Id(r), outbox) \in Result
    BY EventRecords, AnswersHonest DEF ProducersInv
  <2>3. QED
    BY <2>1, <2>2, NotedTrue
<1>4. w \in [Import -> Entry]
  BY <1>3
<1> HIDE DEF w
<1>5. CASE run.cmd = "apply" /\ Missing = {} /\ run' = [run EXCEPT !.at = "receipts", !.work = w]
  <2>1. run' \in Run /\ run'.cmd = "apply" /\ run'.at = "receipts" /\ run'.work = w /\ run'.refs = run.refs
    BY <1>4, <1>5, ImporterLater DEF ImporterInv, ImporterTypes, Run
  <2>2. EntriesInv'
    BY <1>1, <1>3, <2>1, ImporterLater, EntriesNext
  <2>3. Batch' \subseteq Entries(w)
    BY <1>1, <1>3, <1>5 DEF Batch, Entries, Missing
  <2>4. RunInv'
    BY <1>1, <1>2, <2>1, <2>3 DEF RunInv, Entries
  <2>5. ReportInv'
    BY <1>1, <1>2 DEF ReportInv
  <2>6. QED
    BY <1>1, <2>1, <2>2, <2>4, <2>5 DEF ImporterInv, ImporterTypes
<1>6. CASE run.cmd = "rollback" /\ run.at = "sync" /\ run' = [run EXCEPT !.at = "receipts", !.work = @]
  <2>1. run' \in Run /\ run'.cmd = "rollback" /\ run'.at = "receipts" /\ run'.work = run.work /\ run'.refs = run.refs
    BY <1>6, ImporterLater DEF ImporterInv, ImporterTypes, Run
  <2>2. EntriesInv'
    BY <1>1, <2>1, ImporterLater, EntriesNext
  <2>3. file.entries = run.work
    BY <1>6 DEF ImporterInv, RunInv
  <2>4. RunInv'
    BY <1>1, <1>2, <2>1, <2>3 DEF RunInv
  <2>5. ReportInv'
    BY <1>1, <1>2 DEF ReportInv
  <2>6. QED
    BY <1>1, <2>1, <2>2, <2>4, <2>5 DEF ImporterInv, ImporterTypes
<1>7. QED
  BY <1>1, <1>5, <1>6

\* The report is "completed" only if every entry names the memory of its record.
LEMMA CompletedReport ==
    ASSUME NEW w, Report(w) = "completed", NEW r \in Entries(w), TrueNext(r, w[r])
    PROVE  mem'[Id(r)] # "none"
BY DEF Report, TrueNext

LEMMA ApplyReceiptsKeepsImporter ==
    ASSUME ProducersInv, ImporterInv, Later, ApplyReceipts
    PROVE  ImporterInv'
<1> DEFINE w == [r \in Import |-> IF run.work[r].there /\ receipt[Id(r)].code # "none"
                                  THEN NotedReceipt(run.work[r], receipt[Id(r)]) ELSE run.work[r]]
<1>1. /\ run.cmd = "apply" /\ run.at = "receipts" /\ run' = Idle /\ UNCHANGED jobs
      /\ file' = [file EXCEPT !.entries = w] /\ report' = Report(w)
  BY DEF ApplyReceipts, OnlyImporter
<1>2. ASSUME NEW r \in Import PROVE w[r] \in Entry /\ TrueNext(r, w[r]) /\ w[r].there = run.work[r].there
  <2>1. run.work[r] \in Entry /\ TrueNext(r, run.work[r])
    BY ImporterLater
  <2>2. Honest(Id(r), receipt[Id(r)]) /\ receipt[Id(r)] \in Result
    BY EventRecords, AnswersHonest DEF ProducersInv
  <2>3. QED
    BY <2>1, <2>2, NotedTrue
<1>3. w \in [Import -> Entry]
  BY <1>2
<1> HIDE DEF w
<1>4. file' \in [exists : BOOLEAN, entries : [Import -> Entry]] /\ file'.entries = w
  BY <1>1, <1>3, ImporterLater DEF ImporterInv, ImporterTypes
<1>5. report' \in {"completed", "completed_with_errors", "review_pending", "sync_pending"}
  BY <1>1 DEF Report
<1>6. Batch \subseteq Entries(run.work)
  BY <1>1 DEF ImporterInv, RunInv
<1>7. Batch \subseteq Entries(w)
  BY <1>2, <1>6 DEF Entries
<1>8. report' = "completed" => \A r \in Batch : mem'[Id(r)] # "none"
  <2>1. \A r \in Batch : r \in Import
    BY DEF Batch
  <2>2. QED
    BY <1>1, <1>2, <1>7, <2>1, CompletedReport
<1>9. EntriesInv'
  BY <1>1, <1>2, <1>4, IdleRun, EntriesNext
<1>10. RunInv'
  BY <1>1, IdleRun DEF RunInv
<1>11. ReportInv'
  BY <1>1, <1>5, <1>8 DEF ReportInv, Batch, Id
<1>12. QED
  BY <1>1, <1>4, <1>5, <1>9, <1>10, <1>11, IdleRun DEF ImporterInv, ImporterTypes

LEMMA RollbackReceiptsKeepsImporter ==
    ASSUME ProducersInv, ImporterInv, Later, RollbackReceipts
    PROVE  ImporterInv'
<1> DEFINE open == {r \in Entries(run.work) : ~run.work[r].archived}
           known == {r \in open : receipt[Id(r)].ref # {}}
           refs == [r \in Import |-> receipt[Id(r)].ref]
<1>1. /\ run.cmd = "rollback" /\ run.at = "receipts" /\ UNCHANGED <<jobs, file, report>> /\ report = "none"
      /\ run' = [run EXCEPT !.at = "entries", !.todo = known, !.bad = known # open, !.refs = refs]
      /\ file.entries = run.work
  BY IdleRun DEF RollbackReceipts, OnlyImporter, ImporterInv, RunInv
<1>2. ASSUME NEW r \in Import
      PROVE  refs[r] \in SUBSET Event /\ refs[r] \subseteq {Id(r)} /\ (refs[r] # {} => mem'[Id(r)] # "none")
  <2>1. Honest(Id(r), receipt[Id(r)]) /\ receipt[Id(r)] \in Result /\ refs[r] = receipt[Id(r)].ref
    BY EventRecords, AnswersHonest DEF ProducersInv
  <2>2. /\ refs[r] \subseteq {b \in Event : b[1] = r /\ mem'[b] # "none"}
    BY <2>1, EventRecords, HonestLater
  <2>3. QED
    BY <2>2, EventRecords
<1>3. refs \in [Import -> SUBSET Event]
  BY <1>2
<1>4. known \subseteq Import /\ \A r \in known : refs[r] # {}
  BY DEF Entries
<1>5. known = open => \A r \in Entries(run.work) : run.work[r].archived \/ r \in known
  OBVIOUS
<1> HIDE DEF known, refs, open
<1>6. /\ run' \in Run /\ run'.cmd = "rollback" /\ run'.at = "entries" /\ run'.work = run.work /\ run'.refs = refs
      /\ run'.todo = known /\ run'.bad = (known # open)
  BY <1>1, <1>3, <1>4, ImporterLater DEF ImporterInv, ImporterTypes, Run
<1>7. EntriesInv'
  BY <1>1, <1>2, <1>6, ImporterLater, EntriesNext
<1>8. RunInv'
  BY <1>1, <1>4, <1>5, <1>6 DEF RunInv, Entries
<1>9. ReportInv'
  BY <1>1 DEF ReportInv
<1>10. QED
  BY <1>1, <1>6, <1>7, <1>8, <1>9 DEF ImporterInv, ImporterTypes

LEMMA RollbackEntryKeepsImporter ==
    ASSUME ProducersInv, ImporterInv, Later, NEW r \in Import, RollbackEntry(r)
    PROVE  ImporterInv'
<1>1. /\ run # Idle /\ run.at = "entries" /\ run.cmd = "rollback" /\ UNCHANGED <<jobs, file, report>> /\ report = "none"
      /\ r \in run.todo
  BY IdleRun DEF RollbackEntry, ImporterCalls, ImporterInv, RunInv
<1>2. CASE run' = Idle
  BY <1>1, <1>2, ImporterStops
<1> DEFINE en == Archived(run.work[r], run.refs[r])
<1>3. CASE run' = [run EXCEPT !.at = "write", !.todo = @ \ {r}, !.work = [@ EXCEPT ![r] = en]]
  <2>1. mem'[Id(r)] = "archived"
    <3>1. PICK e \in run.refs[r] : ForgetMemory(e)
      BY DEF RollbackEntry
    <3>2. e = Id(r) /\ e \in Event
      BY EventRecords DEF ImporterInv, EntriesInv
    <3>3. QED
      BY <3>1, <3>2 DEF ForgetMemory, ProducersInv, TypeOK
  <2>2. run.work[r] \in Entry /\ TrueNext(r, run.work[r]) /\ run.refs[r] \subseteq {Id(r)} /\ run.refs[r] \in SUBSET Event
    BY ImporterLater
  <2>3. en \in Entry /\ en.there = run.work[r].there /\ en.ref = run.refs[r] /\ en.result = run.work[r].result /\ en.archived = TRUE
    BY <2>2 DEF Entry, Archived
  <2> HIDE DEF en
  <2>5. TrueNext(r, en)
    BY <2>1, <2>2, <2>3 DEF TrueNext
  <2>6. /\ run' \in Run /\ run'.cmd = "rollback" /\ run'.at = "write" /\ run'.refs = run.refs /\ run'.todo = run.todo \ {r}
        /\ run'.bad = run.bad /\ run'.work[r] = en /\ \A q \in Import \ {r} : run'.work[q] = run.work[q]
    BY <1>1, <1>3, <2>3, ImporterLater DEF ImporterInv, ImporterTypes, Run
  <2>7. EntriesInv'
    BY <1>1, <2>5, <2>6, ImporterLater, EntriesNext
  <2>8. RunInv'
    <3>1. /\ run.bad \/ \A q \in Entries(run.work) : run.work[q].archived \/ q \in run.todo
          /\ \A q \in run.todo : run.refs[q] # {}
      BY <1>1 DEF ImporterInv, RunInv
    <3>2. run'.bad \/ \A q \in Entries(run'.work) : run'.work[q].archived \/ q \in run'.todo
      BY <3>1, <2>3, <2>6 DEF Entries
    <3>3. QED
      BY <1>1, <2>6, <3>1, <3>2 DEF RunInv, Entries
  <2>9. ReportInv'
    BY <1>1 DEF ReportInv
  <2>10. QED
    BY <1>1, <2>6, <2>7, <2>8, <2>9 DEF ImporterInv, ImporterTypes
<1>4. QED
  BY <1>2, <1>3 DEF RollbackEntry

LEMMA RollbackEndKeepsImporter ==
    ASSUME ImporterInv, Later, RollbackEnd
    PROVE  ImporterInv'
<1>1. /\ run.at = "entries" /\ run.cmd = "rollback" /\ run.todo = {} /\ file.entries = run.work
      /\ UNCHANGED <<jobs, file>> /\ run' = Idle /\ report' = (IF run.bad THEN "rollback_pending" ELSE "rolled_back")
  BY DEF RollbackEnd, OnlyImporter, ImporterInv, RunInv
<1>2. run.bad \/ \A r \in Entries(run.work) : run.work[r].archived
  BY <1>1 DEF ImporterInv, RunInv
<1>3. \A r \in Entries(run.work) : TrueNext(r, run.work[r])
  BY ImporterLater DEF Entries
<1>4. report' = "rolled_back" => \A r \in Entries(file.entries) : mem'[Id(r)] = "archived"
  BY <1>1, <1>2, <1>3 DEF TrueNext
<1>5. ReportInv'
  BY <1>1, <1>4 DEF ReportInv, Entries, Id
<1>6. EntriesInv'
  BY <1>1, ImporterLater, IdleRun, EntriesNext
<1>7. RunInv'
  BY <1>1, IdleRun DEF RunInv
<1>8. QED
  BY <1>1, <1>5, <1>6, <1>7, IdleRun DEF ImporterInv, ImporterTypes

LEMMA ImporterStep ==
    ASSUME ProducersInv, [Next]_vars
    PROVE  ImporterInv'
<1>1. ImporterInv /\ Later
  BY CoreStep DEF ProducersInv, TypeOK, ImporterInv, ImporterTypes
<1>2. ASSUME NEW r \in Import PROVE (\E D \in SUBSET Event : ApplyRecord(r, D)) \/ RollbackEntry(r) \/ ApplyRefused(r) => ImporterInv'
  <2>1. ApplyRefused(r) => ImporterInv'
    <3>1. ApplyRefused(r) => run # Idle /\ run' = Idle /\ UNCHANGED <<jobs, file, report>>
      BY IdleRun DEF ApplyRefused, IsNext, OnlyImporter
    <3>2. QED
      BY <1>1, <3>1, ImporterStops
  <2>2. QED
    BY <1>1, <2>1, ApplyRecordKeepsImporter, RollbackEntryKeepsImporter
<1>3. ASSUME NEW D PROVE ImportSync(D) => ImporterInv'
  BY <1>1, ImportSyncKeepsImporter
<1>4. ImportStops => ImporterInv'
  <2>1. ImportStops => run # Idle /\ run' = Idle /\ UNCHANGED <<jobs, file, report>>
    BY DEF ImportStops, OnlyImporter
  <2>2. QED
    BY <1>1, <2>1, ImporterStops
<1>5. WriteState \/ ApplyReceipts \/ RollbackReceipts \/ RollbackEnd \/ (\E resume \in BOOLEAN : ApplyStart(resume)) \/ RollbackStart
      => ImporterInv'
  BY <1>1, WriteKeepsImporter, ApplyReceiptsKeepsImporter, RollbackReceiptsKeepsImporter, RollbackEndKeepsImporter, StartKeepsImporter
<1>6. UNCHANGED <<jobs, file, run, report>> => ImporterInv'
  BY <1>1, ImporterWaits
<1>7. /\ \A D : Heartbeat(D) \/ ReconcileShares(D) => UNCHANGED <<jobs, file, run, report>>
      /\ \A s, D : ShareOne(s, D) => UNCHANGED <<jobs, file, run, report>>
      /\ \A s : ShareRefused(s) \/ ForgetShared(s) => UNCHANGED <<jobs, file, run, report>>
      /\ \A r, e, D : ShareLocal(r, e, D) => UNCHANGED <<jobs, file, run, report>>
      /\ \A e : Decide(e) \/ Retry(e) \/ Confirm(e) => UNCHANGED <<jobs, file, run, report>>
      /\ ShareStart \/ ShareCommit \/ ShareStops \/ Cleanup \/ UNCHANGED vars => UNCHANGED <<jobs, file, run, report>>
  BY DEF Heartbeat, ReconcileShares, ShareOne, ShareRefused, ForgetShared, ShareLocal, Decide, Retry, Confirm,
         ShareStart, ShareCommit, ShareStops, Cleanup, vars, importer, ShareCalls, LocalCalls, OnlyGateway
<1>8. QED
  BY <1>2, <1>3, <1>4, <1>5, <1>6, <1>7, ProducersCases
-----------------------------------------------------------------------------
(* The share job and the local providers.                                   *)

TrueLogNext(l) ==
    \A s \in Share :
      /\ l[s] \in {"pending", "confirmed"} => outbox'[Id(s)] # "none" \/ ledger'[Id(s)].code # "none"
      /\ l[s] = "confirmed" => ledger'[Id(s)].code \in Applied

LEMMA LogLater ==
    ASSUME Later, NEW l, TrueLog(l)
    PROVE  TrueLogNext(l)
BY EventRecords, CodesApart DEF Later, TrueLog, TrueLogNext, Submitted

ShareTypes ==
    /\ log \in [Share -> LogStatus]
    /\ share \in [at : {"none", "reconcile", "push"}, todo : SUBSET Share, log : [Share -> LogStatus]]

LEMMA SharesNext ==
    ASSUME TrueLogNext(log'), TrueLogNext(share'.log)
    PROVE  SharesInv'
BY DEF TrueLogNext, SharesInv, TrueLog, Submitted, Id

\* What the job is about to write is extended by one mark.
LEMMA MarkedLog ==
    ASSUME NEW l \in [Share -> LogStatus], TrueLogNext(l), NEW s \in Share, NEW c \in LogStatus,
           c \in {"pending", "confirmed"} => outbox'[Id(s)] # "none" \/ ledger'[Id(s)].code # "none",
           c = "confirmed" => ledger'[Id(s)].code \in Applied
    PROVE  [l EXCEPT ![s] = c] \in [Share -> LogStatus] /\ TrueLogNext([l EXCEPT ![s] = c])
<1> DEFINE m == [l EXCEPT ![s] = c]
<1>1. m \in [Share -> LogStatus] /\ m[s] = c /\ \A q \in Share \ {s} : m[q] = l[q]
  OBVIOUS
<1> HIDE DEF m
<1>2. TrueLogNext(m)
  BY <1>1 DEF TrueLogNext
<1>3. QED
  BY <1>1, <1>2 DEF m

LEMMA ShareOneKeepsLogs ==
    ASSUME ProducersInv, Later, NEW s \in Share, NEW D, ShareOne(s, D)
    PROVE  ShareTypes' /\ SharesInv'
<1>1. /\ log \in [Share -> LogStatus] /\ share.log \in [Share -> LogStatus] /\ share.todo \subseteq Share
      /\ TrueLogNext(log) /\ TrueLogNext(share.log)
      /\ share \in [at : {"none", "reconcile", "push"}, todo : SUBSET Share, log : [Share -> LogStatus]]
  BY LogLater DEF ProducersInv, TypeOK, SharesInv
<1>2. Id(s) \in Event /\ outbox'[Id(s)] # "none" /\ UNCHANGED log
  <2>1. Id(s) \in Event /\ Remember(Id(s), D) /\ UNCHANGED log
    BY EventRecords DEF ShareOne
  <2>2. QED
    BY <2>1, RememberKeepsCore DEF ProducersInv
<1> DEFINE c == CASE Returned(Id(s), D).code \in Applied -> "confirmed"
                  [] Returned(Id(s), D).code \in {"none", "pending"} -> "pending"
                  [] OTHER -> "failed"
<1>3. c \in LogStatus /\ (c = "confirmed" => Returned(Id(s), D).code \in Applied)
  BY DEF LogStatus
<1>4. Returned(Id(s), D).code \in Applied => ledger'[Id(s)].code \in Applied
  <2>1. ASSUME Returned(Id(s), D).code \in Applied PROVE Returned(Id(s), D) = Answer(Id(s), Enqueued(Id(s)))
    BY <2>1, PlainResults DEF Returned, Applied
  <2>2. ASSUME Returned(Id(s), D).code \in Applied PROVE ledger[Id(s)].code \in Applied
    BY <1>2, <2>1, <2>2, AnswerIs DEF ProducersInv
  <2>3. QED
    BY <1>2, <2>2, CodesApart DEF Later
<1> HIDE DEF c
<1>5. PICK m \in {c, "failed"} : share' = [share EXCEPT !.todo = @ \ {s}, !.log = [@ EXCEPT ![s] = m]]
  BY DEF ShareOne, c
<1> DEFINE l == [share.log EXCEPT ![s] = m]
<1>6. l \in [Share -> LogStatus] /\ TrueLogNext(l)
  <2>1. m \in LogStatus /\ (m = "confirmed" => ledger'[Id(s)].code \in Applied)
    BY <1>3, <1>4, <1>5 DEF LogStatus
  <2>2. QED
    BY <1>1, <1>2, <2>1, MarkedLog
<1>7. share' = [share EXCEPT !.todo = @ \ {s}, !.log = l]
  BY <1>5
<1> HIDE DEF l
<1>8. share' \in [at : {"none", "reconcile", "push"}, todo : SUBSET Share, log : [Share -> LogStatus]] /\ share'.log = l
  BY <1>1, <1>6, <1>7
<1>9. QED
  BY <1>1, <1>2, <1>6, <1>8, SharesNext DEF ShareTypes

LEMMA ReconcileKeepsLogs ==
    ASSUME ProducersInv, Later, NEW D, ReconcileShares(D)
    PROVE  ShareTypes' /\ SharesInv'
<1>1. /\ log \in [Share -> LogStatus] /\ TrueLogNext(log)
      /\ share \in [at : {"none", "reconcile", "push"}, todo : SUBSET Share, log : [Share -> LogStatus]]
  BY LogLater DEF ProducersInv, TypeOK, SharesInv
<1>2. /\ share' = [share EXCEPT !.at = "push", !.log = log']
      /\ log' = [s \in Share |-> IF s \in InFlight /\ Id(s) \in D /\ Answer(Id(s), outbox).code \in Applied
                                 THEN "confirmed" ELSE log[s]]
  BY DEF ReconcileShares
<1>3. log' \in [Share -> LogStatus]
  BY <1>1, <1>2 DEF LogStatus
<1>4. ASSUME NEW s \in Share, Answer(Id(s), outbox).code \in Applied
      PROVE  ledger'[Id(s)].code \in Applied /\ ledger'[Id(s)].code # "none"
  <2>1. Id(s) \in Event /\ ledger[Id(s)].code \in Applied
    BY <1>4, EventRecords, AnswerIs DEF ProducersInv
  <2>2. QED
    BY <2>1, CodesApart DEF Later
<1>5. TrueLogNext(log')
  BY <1>1, <1>2, <1>4 DEF TrueLogNext
<1>6. share' \in [at : {"none", "reconcile", "push"}, todo : SUBSET Share, log : [Share -> LogStatus]] /\ share'.log = log'
  BY <1>1, <1>2, <1>3
<1>7. QED
  BY <1>3, <1>5, <1>6, SharesNext DEF ShareTypes

LEMMA ShareStep ==
    ASSUME ProducersInv, [Next]_vars
    PROVE  ShareTypes' /\ SharesInv'
<1>1. Later
  BY CoreStep
<1>2. /\ log \in [Share -> LogStatus] /\ share.log \in [Share -> LogStatus] /\ share.todo \subseteq Share
      /\ TrueLogNext(log) /\ TrueLogNext(share.log)
      /\ share \in [at : {"none", "reconcile", "push"}, todo : SUBSET Share, log : [Share -> LogStatus]]
  BY <1>1, LogLater DEF ProducersInv, TypeOK, SharesInv
<1>3. NoShare \in [at : {"none", "reconcile", "push"}, todo : SUBSET Share, log : [Share -> LogStatus]]
      /\ TrueLogNext(NoShare.log)
  BY DEF NoShare, LogStatus, TrueLogNext
<1>4. UNCHANGED <<log, share>> => ShareTypes' /\ SharesInv'
  BY <1>2, SharesNext DEF ShareTypes
<1>5. ASSUME NEW s \in Share, ShareRefused(s) PROVE ShareTypes' /\ SharesInv'
  <2> DEFINE l == [share.log EXCEPT ![s] = "failed"]
  <2>1. l \in [Share -> LogStatus] /\ TrueLogNext(l)
    BY <1>2, MarkedLog DEF LogStatus
  <2>2. share' = [share EXCEPT !.todo = @ \ {s}, !.log = l] /\ UNCHANGED log
    BY <1>5 DEF ShareRefused
  <2> HIDE DEF l
  <2>3. share' \in [at : {"none", "reconcile", "push"}, todo : SUBSET Share, log : [Share -> LogStatus]] /\ share'.log = l
    BY <1>2, <2>1, <2>2
  <2>4. QED
    BY <1>2, <2>1, <2>2, <2>3, SharesNext DEF ShareTypes
<1>6. ASSUME NEW s \in Share, ForgetShared(s) PROVE ShareTypes' /\ SharesInv'
  <2>1. share' = share /\ (log' = log \/ log' = [log EXCEPT ![s] = "forgotten"])
    BY <1>6 DEF ForgetShared
  <2>2. [log EXCEPT ![s] = "forgotten"] \in [Share -> LogStatus] /\ TrueLogNext([log EXCEPT ![s] = "forgotten"])
    BY <1>2, MarkedLog DEF LogStatus
  <2>3. log' \in [Share -> LogStatus] /\ TrueLogNext(log')
    BY <1>2, <2>1, <2>2
  <2>4. QED
    BY <1>2, <2>1, <2>3, SharesNext DEF ShareTypes
<1>7. ShareStart => ShareTypes' /\ SharesInv'
  <2>1. ASSUME ShareStart
        PROVE  /\ share' \in [at : {"none", "reconcile", "push"}, todo : SUBSET Share, log : [Share -> LogStatus]]
               /\ share'.log = log /\ UNCHANGED log
    BY <1>2, <2>1 DEF ShareStart, ProducersInv, TypeOK
  <2>2. QED
    BY <1>2, <2>1, SharesNext DEF ShareTypes
<1>8. ShareCommit \/ ShareStops => ShareTypes' /\ SharesInv'
  <2>1. ShareCommit \/ ShareStops => share' = NoShare /\ (log' = log \/ log' = share.log)
    BY DEF ShareCommit, ShareStops
  <2>2. QED
    BY <1>2, <1>3, <2>1, SharesNext DEF ShareTypes
<1>9. /\ \A r, D : ApplyRecord(r, D) => UNCHANGED <<log, share>>
      /\ \A r : ApplyRefused(r) \/ RollbackEntry(r) => UNCHANGED <<log, share>>
      /\ \A D : ImportSync(D) \/ Heartbeat(D) => UNCHANGED <<log, share>>
      /\ \A r, e, D : ShareLocal(r, e, D) => UNCHANGED <<log, share>>
      /\ \A e : Decide(e) \/ Retry(e) \/ Confirm(e) => UNCHANGED <<log, share>>
      /\ WriteState \/ ApplyReceipts \/ RollbackReceipts \/ RollbackEnd => UNCHANGED <<log, share>>
      /\ \A resume : ApplyStart(resume) => UNCHANGED <<log, share>>
      /\ RollbackStart \/ ImportStops \/ Cleanup \/ UNCHANGED vars => UNCHANGED <<log, share>>
  BY DEF ApplyRecord, ApplyRefused, RollbackEntry, ImportSync, Heartbeat, ShareLocal, Decide, Retry, Confirm, WriteState,
         ApplyReceipts, RollbackReceipts, RollbackEnd, ApplyStart, RollbackStart, ImportStops, Cleanup, vars, memoryOs,
         ImporterCalls, OnlyImporter, LocalCalls, OnlyGateway
<1>10. QED
  BY <1>1, <1>4, <1>5, <1>6, <1>7, <1>8, <1>9, ShareOneKeepsLogs, ReconcileKeepsLogs, ProducersCases

\* A local mark is written after its event.
LEMMA MarksStep ==
    ASSUME ProducersInv, [Next]_vars
    PROVE  MarksInv' /\ marks' \subseteq Local
<1>1. Later /\ marks \subseteq Local /\ MarksInv
  BY CoreStep DEF ProducersInv, TypeOK
<1>2. ASSUME NEW r \in marks PROVE \E e \in Event : e[1] = r /\ Submitted(e)'
  <2>1. PICK e \in Event : e[1] = r /\ Submitted(e)
    BY <1>1 DEF MarksInv
  <2>2. QED
    BY <1>1, <2>1 DEF Later
<1>3. UNCHANGED marks => MarksInv' /\ marks' \subseteq Local
  BY <1>1, <1>2 DEF MarksInv
<1>4. ASSUME NEW e \in Event, NEW D, ShareLocal(e[1], e, D) PROVE MarksInv' /\ marks' \subseteq Local
  <2>1. Remember(e, D) /\ e[1] \in Local /\ (marks' = marks \/ marks' = marks \cup {e[1]})
    BY <1>4 DEF ShareLocal, Mark
  <2>2. outbox'[e] # "none"
    BY <2>1, RememberKeepsCore DEF ProducersInv
  <2>3. Submitted(e)'
    BY <2>2 DEF Submitted
  <2>4. \A r \in marks' : \E d \in Event : d[1] = r /\ Submitted(d)'
    BY <1>2, <2>1, <2>3
  <2>5. QED
    BY <1>1, <2>1, <2>4 DEF MarksInv
<1>5. /\ \A r, D : ApplyRecord(r, D) => UNCHANGED marks
      /\ \A r : ApplyRefused(r) \/ RollbackEntry(r) => UNCHANGED marks
      /\ \A D : ImportSync(D) \/ Heartbeat(D) \/ ReconcileShares(D) => UNCHANGED marks
      /\ \A s, D : ShareOne(s, D) => UNCHANGED marks
      /\ \A s : ShareRefused(s) \/ ForgetShared(s) => UNCHANGED marks
      /\ \A e : Decide(e) \/ Retry(e) \/ Confirm(e) => UNCHANGED marks
      /\ WriteState \/ ApplyReceipts \/ RollbackReceipts \/ RollbackEnd => UNCHANGED marks
      /\ \A resume : ApplyStart(resume) => UNCHANGED marks
      /\ RollbackStart \/ ImportStops \/ ShareStart \/ ShareCommit \/ ShareStops \/ Cleanup \/ UNCHANGED vars => UNCHANGED marks
  BY DEF ApplyRecord, ApplyRefused, RollbackEntry, ImportSync, Heartbeat, ReconcileShares, ShareOne, ShareRefused,
         ForgetShared, Decide, Retry, Confirm, WriteState, ApplyReceipts, RollbackReceipts, RollbackEnd, ApplyStart,
         RollbackStart, ImportStops, ShareStart, ShareCommit, ShareStops, Cleanup, vars,
         ImporterCalls, OnlyImporter, ShareCalls, OnlyGateway
<1>6. QED
  BY <1>3, <1>4, <1>5, ProducersCases

LEMMA CountersStep ==
    ASSUME ProducersInv, [Next]_vars
    PROVE  jobs' \in Jobs /\ kept' \subseteq Share /\ faults' \in 0..MaxFaults
<1>1. jobs \in Jobs /\ kept \subseteq Share /\ faults \in 0..MaxFaults
  BY DEF ProducersInv, TypeOK
<1>2. Fault => faults' \in 0..MaxFaults
  BY <1>1 DEF Fault
<1>3. UNCHANGED jobs
  BY ProducersCases DEF ApplyRecord, ApplyRefused, RollbackEntry, ImportSync, Heartbeat, ReconcileShares, ShareOne,
         ShareRefused, ForgetShared, ShareLocal, Decide, Retry, Confirm, WriteState, ApplyReceipts, RollbackReceipts,
         RollbackEnd, ApplyStart, RollbackStart, ImportStops, ShareStart, ShareCommit, ShareStops, Cleanup, vars,
         ImporterCalls, OnlyImporter, ShareCalls, LocalCalls, OnlyGateway
<1>4. kept' \subseteq kept
  BY ProducersCases DEF ApplyRecord, ApplyRefused, RollbackEntry, ImportSync, Heartbeat, ReconcileShares, ShareOne,
         ShareRefused, ForgetShared, ShareLocal, Decide, Retry, Confirm, WriteState, ApplyReceipts, RollbackReceipts,
         RollbackEnd, ApplyStart, RollbackStart, ImportStops, ShareStart, ShareCommit, ShareStops, Cleanup, vars,
         ImporterCalls, OnlyImporter, ShareCalls, LocalCalls, OnlyGateway, memoryOs
<1>5. faults' = faults \/ Fault
  BY ProducersCases DEF ApplyRecord, ApplyRefused, RollbackEntry, ImportSync, Heartbeat, ReconcileShares, ShareOne,
         ShareRefused, ForgetShared, ShareLocal, Decide, Retry, Confirm, WriteState, ApplyReceipts, RollbackReceipts,
         RollbackEnd, ApplyStart, RollbackStart, ImportStops, ShareStart, ShareCommit, ShareStops, Cleanup, vars,
         OnlyGateway
<1>6. QED
  BY <1>1, <1>2, <1>3, <1>4, <1>5
-----------------------------------------------------------------------------
(* The theorems.                                                            *)

LEMMA ProducersInit ==
    ASSUME Init
    PROVE  ProducersInv
<1>1. Plain("none") \in Result /\ Plain("none").code = "none" /\ Plain("none").ref = {}
  BY PlainResults
<1>2. NoEntry \in Entry /\ NoEntry.there = FALSE /\ NoEntry.ref = {} /\ NoEntry.result = "none" /\ NoEntry.archived = FALSE
  BY DEF NoEntry, Entry
<1>3. /\ file \in [exists : BOOLEAN, entries : [Import -> Entry]] /\ run \in Run
      /\ \A r \in Import : file.entries[r] = NoEntry /\ run.work[r] = NoEntry /\ run.refs[r] = {}
      /\ run.cmd = "none" /\ run.at = "none" /\ run = Idle /\ report = "none"
  BY <1>2, IdleRun DEF Init
<1>4. /\ share \in [at : {"none", "reconcile", "push"}, todo : SUBSET Share, log : [Share -> LogStatus]]
      /\ log \in [Share -> LogStatus] /\ \A s \in Share : log[s] = "none" /\ share.log[s] = "none"
  BY DEF Init, NoShare, LogStatus
<1>5. TypeOK
  BY <1>1, <1>3, <1>4 DEF Init, TypeOK, RowState
<1>6. BoundInv /\ AnswersInv /\ PushedInv
  BY <1>1 DEF Init, BoundInv, AnswersInv, PushedInv, Honest, Stored
<1>7. EntriesInv
  BY <1>2, <1>3 DEF EntriesInv, TrueEntry
<1>8. RunInv /\ ReportInv
  BY <1>3 DEF RunInv, ReportInv
<1>9. SharesInv
  BY <1>4 DEF SharesInv, TrueLog
<1>10. MarksInv
  BY DEF Init, MarksInv
<1>11. QED
  BY <1>5, <1>6, <1>7, <1>8, <1>9, <1>10 DEF ProducersInv

\* The inductive invariant: bindings, answers, entries, the running command, reports, logs
\* and marks agree, in every step of the three producers, the sidecar and the gateway.
THEOREM ProducersInvariant == Spec => []ProducersInv
<1>1. Init => ProducersInv
  BY ProducersInit
<1>2. ProducersInv /\ [Next]_vars => ProducersInv'
  <2> SUFFICES ASSUME ProducersInv, [Next]_vars PROVE ProducersInv'
    OBVIOUS
  <2>1. Core' /\ ImporterInv' /\ ShareTypes' /\ SharesInv' /\ MarksInv' /\ marks' \subseteq Local
    BY CoreStep, ImporterStep, ShareStep, MarksStep
  <2>2. TypeOK'
    BY <2>1, CountersStep DEF TypeOK, Core, ImporterInv, ImporterTypes, ShareTypes
  <2>3. QED
    BY <2>1, <2>2 DEF ProducersInv, Core, ImporterInv
<1>3. QED
  BY <1>1, <1>2, PTL DEF Spec

\* OneMemoryPerRecord, for any number of records, ids, faults and producers: the binding of
\* a record to the event that was stored for it (_existing_external_binding) makes a second
\* memory impossible.
THEOREM OneMemoryPerRecordEver == Spec => []OneMemoryPerRecord
<1>1. ProducersInv => OneMemoryPerRecord
  <2> SUFFICES ASSUME ProducersInv, NEW r \in Record
               PROVE  Cardinality({e \in Event : e[1] = r /\ mem[e] # "none"}) <= 1
    BY DEF OneMemoryPerRecord
  <2> DEFINE M == {e \in Event : e[1] = r /\ mem[e] # "none"}
  <2>1. \A e \in M : bound[r] = {e}
    BY DEF ProducersInv, BoundInv
  <2>2. M = {} => Cardinality(M) = 0
    BY FS_EmptySet
  <2>3. ASSUME NEW e \in M PROVE Cardinality(M) = 1
    <3>1. M = {e}
      BY <2>1
    <3>2. QED
      BY <3>1, FS_Singleton
  <2>4. Cardinality(M) \in {0, 1}
    BY <2>2, <2>3
  <2>5. QED
    BY <2>4
<1>2. QED
  BY <1>1, ProducersInvariant, PTL

\* LogsAreTrue: the state file of the importer, the share log and the marks of the local
\* providers never claim a submission that the sidecar and the gateway do not have.
THEOREM LogsStayTrue == Spec => []LogsAreTrue
<1>1. ProducersInv => LogsAreTrue
  <2> SUFFICES ASSUME ProducersInv PROVE LogsAreTrue
    OBVIOUS
  <2>1. \A r \in Import : file.entries[r].there => Submitted(Id(r))
    BY DEF ProducersInv, EntriesInv, TrueEntry
  <2>2. /\ \A s \in Share : log[s] \in {"pending", "confirmed"} => Submitted(Id(s))
        /\ \A s \in Share : log[s] = "confirmed" => ledger[Id(s)].code \in Applied
    BY DEF ProducersInv, SharesInv, TrueLog
  <2>3. TypeOK /\ \A r \in marks : \E e \in Event : e[1] = r /\ Submitted(e)
    BY DEF ProducersInv, MarksInv
  <2>4. QED
    BY <2>1, <2>2, <2>3 DEF LogsAreTrue
<1>2. QED
  BY <1>1, ProducersInvariant, PTL

\* ReportsAreTrue: "completed" means stored and "rolled_back" means not in force, also when
\* the answers came with another caller's sync, and after any earlier try.
THEOREM ReportsStayTrue == Spec => []ReportsAreTrue
<1>1. ProducersInv => ReportsAreTrue
  BY DEF ProducersInv, ReportInv, ReportsAreTrue
<1>2. QED
  BY <1>1, ProducersInvariant, PTL
=============================================================================
