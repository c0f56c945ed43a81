------------------------------- MODULE Gateway -------------------------------
(***************************************************************************)
(* The gateway process (gateway.py, db_pool.py): request threads under a   *)
(* bounded semaphore, two connection pools with bounded waiting queues,    *)
(* and the rate limits of the pairing and refresh routes.  What a handler  *)
(* does with its connections is in the other modules; here it is a script  *)
(* of connections taken and returned, any step of which can raise.         *)
(***************************************************************************)
EXTENDS RateLimit, SequencesExt

CONSTANTS
  Request, Client,     \* connections to the gateway, client addresses (numbers)
  Traffic,             \* the mixes of routes considered: the requests made, each with its kind
  MaxConcurrent,       \* MEMORY_HTTP_MAX_CONCURRENT_REQUESTS
  PoolSize, MaxWaiting,   \* of either pool
  GlobalLimit, ClientLimit, Window, MaxKeys,   \* AUTH_RATE_LIMITS, max_keys
  Stall,               \* bound: ticks between a thread's clock reading and its lock
  MaxTime              \* bound: the clock

AllKinds == {"auth", "plain", "query", "review", "probe"}

ASSUME GatewayAssumption ==
  /\ (\A m \in Traffic : m \in [DOMAIN m -> AllKinds] /\ DOMAIN m \subseteq Request) /\ Client \subseteq Nat
  /\ {MaxConcurrent, PoolSize, MaxWaiting, GlobalLimit, ClientLimit, Window, MaxKeys} \subseteq Nat \ {0}
  /\ Stall \in 0..(Window - 1) /\ MaxTime \in Nat

VARIABLES
  mix,        \* the route each request of this behaviour is for
  req,        \* each request: phase, steps to do, client, clock reading
  slots,      \* the request semaphore
  held,       \* who holds a connection of each pool
  queue,      \* who waits for one, in order
  clock,
  overall, clients,   \* the two rate limiters
  admitted    \* history: when the overall limiter let a request through, in that order

vars == <<mix, req, slots, held, queue, clock, overall, clients, admitted>>
pools == <<held, queue>>
limits == <<mix, clock, overall, clients, admitted>>

Pool == {"metadata", "gbrain"}

-----------------------------------------------------------------------------
(* Scripts of the routes: authenticate opens and returns one metadata      *)
(* connection, the service opens its own.                                  *)

Take(p) == [do |-> "take", pool |-> p]
Give(p) == [do |-> "give", pool |-> p]
Use(p) == <<Take(p), Give(p)>>
Authenticate == Use("metadata")

\* A limiter reads the clock before it takes its lock.
Limit(which) == <<[do |-> "clock", pool |-> which], [do |-> which, pool |-> which]>>

\* Mutant: queries open their backend connection before the metadata one.
ScriptBackendFirst(k) ==
  CASE k = "auth" -> Limit("overall") \o Limit("client") \o Use("metadata")
    [] k = "plain" -> Authenticate \o Use("metadata")
    [] k = "query" -> Authenticate \o <<Take("gbrain")>> \o Use("metadata") \o <<Give("gbrain")>>
    [] k = "review" -> Authenticate \o <<Take("metadata")>> \o Use("gbrain") \o <<Give("metadata")>>
    [] k = "probe" -> Use("metadata") \o Use("gbrain")

\* pair and refresh; ledger, sync, feedback and admin; search and context
\* (metadata returned before the backend is read, context writes the recall);
\* review, forget and crystal (backend called inside the metadata
\* transaction); the readiness probe.
Script(k) ==
  CASE k = "auth" -> Limit("overall") \o Limit("client") \o Use("metadata")
    [] k = "plain" -> Authenticate \o Use("metadata")
    [] k = "query" -> Authenticate \o Use("metadata") \o Use("gbrain") \o Use("metadata")
    [] k = "review" -> Authenticate \o <<Take("metadata")>> \o Use("gbrain") \o <<Give("metadata")>>
    [] k = "probe" -> Use("metadata") \o Use("gbrain")

-----------------------------------------------------------------------------
(* Threads                                                                 *)

Nobody == [phase |-> "idle", todo |-> << >>, client |-> 0, now |-> 0]
Goes(r, phase) == req' = [req EXCEPT ![r].phase = phase]

\* process_request: without a slot the connection is answered 503 and closed.
Accept(r) ==
  /\ r \in DOMAIN mix /\ req[r] = Nobody /\ slots > 0
  /\ slots' = slots - 1
  /\ Goes(r, "starting")
  /\ UNCHANGED <<pools, limits>>

StartThread(r) ==
  /\ req[r].phase = "starting" /\ Goes(r, "reading")
  /\ UNCHANGED <<slots, pools, limits>>

\* Mutant: the slot of a thread that could not start stays taken.
StartFailsKeepsSlot(r) ==
  /\ req[r].phase = "starting"
  /\ req' = [req EXCEPT ![r] = Nobody]
  /\ UNCHANGED <<slots, pools, limits>>

StartFails(r) ==
  /\ req[r].phase = "starting"
  /\ req' = [req EXCEPT ![r] = Nobody]
  /\ slots' = slots + 1
  /\ UNCHANGED <<pools, limits>>

\* _read_json and the choice of route; a body that is late, too large or
\* not an object, an unknown route or a missing capability has no script.
ReadRequest(r) ==
  /\ req[r].phase = "reading"
  /\ \E c \in IF mix[r] = "auth" THEN Client ELSE {0} :
       req' = [req EXCEPT ![r] = [phase |-> "working", todo |-> Script(mix[r]), client |-> c, now |-> 0]]
  /\ UNCHANGED <<slots, pools, limits>>

ReadFails(r) ==
  /\ req[r].phase = "reading" /\ Goes(r, "working")
  /\ UNCHANGED <<slots, pools, limits>>

\* The response is written (a broken pipe is ignored) and
\* process_request_thread returns the slot.
Finish(r) ==
  /\ req[r].phase = "working" /\ req[r].todo = << >>
  /\ req' = [req EXCEPT ![r] = Nobody]
  /\ slots' = slots + 1
  /\ UNCHANGED <<pools, limits>>

-----------------------------------------------------------------------------
(* Connections                                                             *)

Doing(r, what) == req[r].phase = "working" /\ req[r].todo # << >> /\ Head(req[r].todo).do = what
Its(r) == Head(req[r].todo).pool
Rest(s, r) == [s EXCEPT ![r].phase = "working", ![r].todo = Tail(@)]
Past(s, r) == [s EXCEPT ![r].now = 0, ![r].client = IF Doing(r, "client") THEN 0 ELSE @]

\* What is left after an exception: the with blocks return their connections.
Unwind(r) ==
  LET out(p) == IF r \in held[p] THEN <<Give(p)>> ELSE << >>
  IN [req EXCEPT ![r].phase = "working", ![r].todo = out("gbrain") \o out("metadata")]

\* connection(): a free connection at once, or a place in the queue; a full
\* queue raises TooManyRequests, which becomes DatabasePoolBusy.
TakeFree(r) ==
  /\ Doing(r, "take")
  /\ Cardinality(held[Its(r)]) < PoolSize
  /\ held' = [held EXCEPT ![Its(r)] = @ \cup {r}]
  /\ req' = Rest(req, r)
  /\ UNCHANGED <<slots, queue, limits>>

Queue(r) ==
  /\ Doing(r, "take")
  /\ Cardinality(held[Its(r)]) = PoolSize /\ Len(queue[Its(r)]) < MaxWaiting
  /\ queue' = [queue EXCEPT ![Its(r)] = Append(@, r)]
  /\ Goes(r, "waiting")
  /\ UNCHANGED <<slots, held, limits>>

TooMany(r) ==
  /\ Doing(r, "take")
  /\ Cardinality(held[Its(r)]) = PoolSize /\ Len(queue[Its(r)]) = MaxWaiting
  /\ req' = Unwind(r)
  /\ UNCHANGED <<slots, pools, limits>>

\* PoolTimeout.
TimeOut(r) ==
  /\ req[r].phase = "waiting"
  /\ \E i \in DOMAIN queue[Its(r)] :
       queue[Its(r)][i] = r /\ queue' = [queue EXCEPT ![Its(r)] = RemoveAt(@, i)]
  /\ req' = Unwind(r)
  /\ UNCHANGED <<slots, held, limits>>

\* A returned connection goes to the first in the queue.
GiveBack(r) ==
  /\ Doing(r, "give")
  /\ LET p == Its(r)
         first == IF queue[p] = << >> THEN {} ELSE {Head(queue[p])}
     IN /\ held' = [held EXCEPT ![p] = (@ \ {r}) \cup first]
        /\ queue' = [queue EXCEPT ![p] = IF @ = << >> THEN @ ELSE Tail(@)]
        /\ req' = [q \in Request |-> IF q \in first \cup {r} THEN Rest(req, q)[q] ELSE req[q]]
  /\ UNCHANGED <<slots, limits>>

\* Any other step of the handler raises: an AuthError, a rejected payload, a
\* failing statement.
HandlerRaises(r) ==
  /\ Doing(r, "take") \/ Doing(r, "give")
  /\ req' = Unwind(r) /\ req' # req
  /\ UNCHANGED <<slots, pools, limits>>

-----------------------------------------------------------------------------
(* _allow_auth_request                                                     *)

ReadClock(r) ==
  /\ Doing(r, "clock")
  /\ req' = [Rest(req, r) EXCEPT ![r].now = clock]
  /\ UNCHANGED <<slots, pools, limits>>

\* A refusal is an AuthError (429): nothing is held yet.
After(r, ok) == req' = Past(IF ok THEN Rest(req, r) ELSE Unwind(r), r)

OverallLimit(r) ==
  /\ Doing(r, "overall")
  /\ LET a == Allow(overall, 0, req[r].now, GlobalLimit, Window, 4)
     IN /\ overall' = a.lim
        /\ After(r, a.ok)
        /\ admitted' = IF a.ok THEN Append(admitted, clock) ELSE admitted
  /\ UNCHANGED <<mix, slots, pools, clock, clients>>

ClientLimited(r) ==
  /\ Doing(r, "client")
  /\ LET a == Allow(clients, req[r].client, req[r].now, ClientLimit, Window, MaxKeys)
     IN clients' = a.lim /\ After(r, a.ok)
  /\ UNCHANGED <<mix, slots, pools, clock, overall, admitted>>

\* No thread sits on a clock reading for more than Stall ticks.
Tick ==
  /\ clock < MaxTime
  /\ \A r \in Request :
       Doing(r, "overall") \/ Doing(r, "client") => clock < req[r].now + Stall
  /\ clock' = clock + 1
  /\ UNCHANGED <<mix, req, slots, pools, overall, clients, admitted>>

-----------------------------------------------------------------------------

Init ==
  /\ mix \in Traffic
  /\ req = [r \in Request |-> Nobody]
  /\ slots = MaxConcurrent
  /\ held = [p \in Pool |-> {}] /\ queue = [p \in Pool |-> << >>]
  /\ clock = 0 /\ overall = NoBuckets /\ clients = NoBuckets /\ admitted = << >>

\* What a thread does by itself, failures and time-outs aside.
Progress(r) ==
  \/ StartThread(r) \/ ReadRequest(r) \/ Finish(r)
  \/ TakeFree(r) \/ Queue(r) \/ TooMany(r) \/ GiveBack(r)
  \/ ReadClock(r) \/ OverallLimit(r) \/ ClientLimited(r)

Next ==
  \/ \E r \in Request :
       Progress(r) \/ Accept(r) \/ StartFails(r) \/ ReadFails(r) \/ TimeOut(r) \/ HandlerRaises(r)
  \/ Tick

\* Threads run, a socket read ends (its time-out), statements return; no
\* waiting thread is assumed to time out.
Fairness == \A r \in Request : WF_vars(Progress(r))

Spec == Init /\ [][Next]_vars /\ Fairness

-----------------------------------------------------------------------------
(* Properties                                                              *)

TypeOK ==
  /\ mix \in Traffic /\ slots \in 0..MaxConcurrent
  /\ held \in [Pool -> SUBSET Request]
  /\ \A p \in Pool : queue[p] \in Seq(Request)
  /\ \A r \in Request :
       /\ req[r].phase \in {"idle", "starting", "reading", "working", "waiting"}
       /\ req[r].client \in Client \cup {0} /\ req[r].now \in 0..MaxTime
  /\ clock \in 0..MaxTime /\ admitted \in Seq(0..MaxTime)

Threads == {r \in Request : req[r].phase # "idle"}

\* Slots and connections are never leaked nor returned twice, whichever step
\* of whichever thread raises, times out or cannot start: the semaphore plus
\* the live threads make up the limit, and whoever holds a connection is
\* still going to return it.
NothingLeaks ==
  /\ slots + Cardinality(Threads) = MaxConcurrent
  /\ \A p \in Pool : \A r \in held[p] :
       r \in Threads /\ \E i \in DOMAIN req[r].todo : req[r].todo[i] = Give(p)

\* Pools, their queues and the table of client buckets stay within their
\* sizes, and no connection is free while a thread waits for one.
WithinLimits ==
  /\ \A p \in Pool :
       /\ Cardinality(held[p]) <= PoolSize /\ Len(queue[p]) <= MaxWaiting
       /\ queue[p] # << >> => Cardinality(held[p]) = PoolSize
       /\ {queue[p][i] : i \in DOMAIN queue[p]} =
            {r \in Request : req[r].phase = "waiting" /\ Its(r) = p}
  /\ Cardinality(DOMAIN clients.ev) <= MaxKeys

\* Slots, connections and places in the queues are accounted for in every state.
Accounted == TypeOK /\ NothingLeaks /\ WithinLimits

\* The inductive strengthening of Accounted.  Of the steps a thread has left,
\* those on one pool alternate: every take is followed by its give, and the
\* first is a give exactly if the thread holds a connection of that pool.
Steps ==
  [do : {"take", "give"}, pool : Pool]
    \cup [do : {"clock", "overall", "client"}, pool : {"overall", "client"}]
Thread ==
  [phase : {"idle", "starting", "reading", "working", "waiting"}, todo : Seq(Steps),
   client : Client \cup {0}, now : 0..MaxTime]

Quiet(s, p, i, j) == \A k \in DOMAIN s : i < k /\ k < j => s[k] \notin {Take(p), Give(p)}

Alternates(s, p, has) ==
  /\ \A i \in DOMAIN s : s[i] = Take(p) =>
       \E j \in DOMAIN s : i < j /\ s[j] = Give(p) /\ Quiet(s, p, i, j)
  /\ \A i \in DOMAIN s : s[i] = Give(p) =>
       \/ has /\ Quiet(s, p, 0, i)
       \/ \E j \in DOMAIN s : j < i /\ s[j] = Take(p) /\ Quiet(s, p, j, i)
  /\ has => \E i \in DOMAIN s : s[i] = Give(p) /\ Quiet(s, p, 0, i)

Waits(r, p) == req[r].phase = "waiting" /\ Its(r) = p

TypeInv ==
  /\ mix \in Traffic /\ slots \in Nat /\ clock \in 0..MaxTime /\ admitted \in Seq(0..MaxTime)
  /\ req \in [Request -> Thread] /\ held \in [Pool -> SUBSET Request]
  /\ queue \in [Pool -> Seq(Request)]

Orderly(r) ==
  /\ req[r].phase # "idle" => r \in DOMAIN mix
  /\ req[r].phase \notin {"working", "waiting"} => req[r].todo = << >>
  /\ req[r].phase = "waiting" => req[r].todo # << >> /\ Head(req[r].todo).do = "take"
  /\ \A p \in Pool : Alternates(req[r].todo, p, r \in held[p])

ThreadInv ==
  /\ IsFiniteSet(Threads) /\ slots + Cardinality(Threads) = MaxConcurrent
  /\ \A r \in Request : Orderly(r)

PoolInv ==
  \A p \in Pool :
    /\ IsFiniteSet(held[p]) /\ Cardinality(held[p]) <= PoolSize /\ Len(queue[p]) <= MaxWaiting
    /\ queue[p] # << >> => Cardinality(held[p]) = PoolSize
    /\ \A i \in DOMAIN queue[p] : Waits(queue[p][i], p)
    /\ \A r \in Request : Waits(r, p) => \E i \in DOMAIN queue[p] : queue[p][i] = r
    /\ \A i, j \in DOMAIN queue[p] : queue[p][i] = queue[p][j] => i = j

Table(l) ==
  /\ IsFiniteSet(DOMAIN l.ev) /\ DOMAIN l.ev \subseteq Nat
  /\ DOMAIN l.exp = DOMAIN l.ev /\ \A k \in DOMAIN l.exp : l.exp[k] \in Nat

LimiterInv == Table(clients) /\ Cardinality(DOMAIN clients.ev) <= MaxKeys

GatewayInv == TypeInv /\ ThreadInv /\ PoolInv /\ LimiterInv

\* However the threads interleave between reading the clock and taking the
\* limiter's lock, no span shorter than the window by the longest stall sees
\* more than the overall limit of pairing or refresh requests let through: of
\* one more than the limit in a row, the last comes a window less a stall
\* after the first.
WindowHolds ==
  \A i, j \in DOMAIN admitted : i + GlobalLimit <= j => admitted[i] + Window <= admitted[j] + Stall

\* The inductive strengthening of WindowHolds.  The stamps the limiter has
\* kept are those of the last requests let through, each at most a stall
\* early; what it dropped is out of the window.  A thread about to take the
\* limiter's lock has just read the clock.
Stamps == IF 0 \in DOMAIN overall.ev THEN overall.ev[0] ELSE << >>

StampInv ==
  /\ DOMAIN overall.ev \subseteq {0} /\ Stamps \in Seq(Nat) /\ Len(Stamps) <= Len(admitted)
  /\ \A k \in DOMAIN Stamps : admitted[Len(admitted) - Len(Stamps) + k] <= Stamps[k] + Stall
  /\ \A i \in 1..(Len(admitted) - Len(Stamps)) : admitted[i] + Window <= clock + Stall

AfterClock(s) == \A i \in DOMAIN s : s[i].do = "overall" => i = 1 \/ s[i - 1].do = "clock"

Clocked(r) ==
  /\ AfterClock(req[r].todo)
  /\ req[r].todo # << >> /\ Head(req[r].todo).do = "overall" =>
       req[r].now <= clock /\ clock <= req[r].now + Stall

WindowInv == StampInv /\ WindowHolds /\ \A r \in Request : Clocked(r)

\* Every accepted request ends and gives its slot back, even if no waiting
\* thread ever times out: threads never wait for each other in a circle.
RequestsEnd == \A r \in Request : (req[r].phase # "idle") ~> (req[r].phase = "idle")
=============================================================================
