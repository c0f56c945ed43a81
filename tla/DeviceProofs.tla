---------------------------- MODULE DeviceProofs ----------------------------
(***************************************************************************)
(* Proofs about the device tool: wherever a command is killed and          *)
(* whichever step raises, the files can be gone on from, a failed switch   *)
(* is undone, a command that returns has made all of its files, and on     *)
(* macOS a switch has also ended the old process.                          *)
(***************************************************************************)
EXTENDS Device, SequenceTheorems, TLAPS

-----------------------------------------------------------------------------
(* Scripts as sets of steps                                                *)

\* The steps left after the first one, and how they stand to it.
LEMMA TailMembers ==
  ASSUME NEW S, NEW todo \in Seq(S), todo # << >>
  PROVE  /\ Tail(todo) \in Seq(S) /\ Head(todo) \in S
         /\ Members(todo) = {Head(todo)} \cup Members(Tail(todo))
         /\ Ordered(todo) => /\ Ordered(Tail(todo))
                             /\ \A t \in Members(Tail(todo)) : MayPrecede(Head(todo), t)
<1>1. /\ Tail(todo) \in Seq(S) /\ Head(todo) = todo[1] /\ Head(todo) \in S
      /\ Len(todo) \in Nat \ {0} /\ DOMAIN todo = 1..Len(todo) /\ DOMAIN Tail(todo) = 1..(Len(todo) - 1)
      /\ \A i \in 1..(Len(todo) - 1) : Tail(todo)[i] = todo[i + 1]
  OBVIOUS
<1>2. Members(todo) = {Head(todo)} \cup Members(Tail(todo))
  <2>1. ASSUME NEW x \in Members(todo) PROVE x \in {Head(todo)} \cup Members(Tail(todo))
    <3>1. PICK k \in 1..Len(todo) : x = todo[k]
      BY <1>1 DEF Members
    <3>2. CASE k = 1
      BY <1>1, <3>1, <3>2
    <3>3. CASE k # 1
      <4>1. k - 1 \in 1..(Len(todo) - 1) /\ Tail(todo)[k - 1] = x
        BY <1>1, <3>1, <3>3
      <4> QED
        BY <1>1, <4>1 DEF Members
    <3> QED
      BY <3>2, <3>3
  <2>2. ASSUME NEW x \in Members(Tail(todo)) PROVE x \in Members(todo)
    <3>1. PICK k \in 1..(Len(todo) - 1) : x = Tail(todo)[k]
      BY <1>1 DEF Members
    <3>2. k + 1 \in 1..Len(todo) /\ x = todo[k + 1]
      BY <1>1, <3>1
    <3> QED
      BY <1>1, <3>2 DEF Members
  <2>3. Head(todo) \in Members(todo)
    BY <1>1 DEF Members
  <2> QED
    BY <2>1, <2>2, <2>3
<1>3. ASSUME Ordered(todo) PROVE Ordered(Tail(todo)) /\ \A t \in Members(Tail(todo)) : MayPrecede(Head(todo), t)
  <2>1. ASSUME NEW i \in DOMAIN Tail(todo), NEW j \in DOMAIN Tail(todo), i < j
        PROVE  MayPrecede(Tail(todo)[i], Tail(todo)[j])
    <3>1. i + 1 \in DOMAIN todo /\ j + 1 \in DOMAIN todo /\ i + 1 < j + 1
      BY <1>1, <2>1
    <3> QED
      BY <3>1, <1>1, <1>3 DEF Ordered
  <2>2. ASSUME NEW j \in DOMAIN Tail(todo) PROVE MayPrecede(Head(todo), Tail(todo)[j])
    <3>1. 1 \in DOMAIN todo /\ j + 1 \in DOMAIN todo /\ 1 < j + 1
      BY <1>1
    <3> QED
      BY <3>1, <1>1, <1>3 DEF Ordered
  <2> QED
    BY <2>1, <2>2 DEF Ordered, Members
<1> QED
  BY <1>1, <1>2, <1>3

\* One script after another.
LEMMA ConcatMembers ==
  ASSUME NEW S, NEW a \in Seq(S), NEW b \in Seq(S)
  PROVE  /\ a \o b \in Seq(S)
         /\ Members(a \o b) = Members(a) \cup Members(b)
         /\ Ordered(a) /\ Ordered(b) /\ (\A x \in Members(a), y \in Members(b) : MayPrecede(x, y))
              => Ordered(a \o b)
<1> DEFINE c == a \o b
<1>1. /\ c \in Seq(S) /\ Len(a) \in Nat /\ Len(b) \in Nat /\ Len(c) = Len(a) + Len(b)
      /\ DOMAIN a = 1..Len(a) /\ DOMAIN b = 1..Len(b) /\ DOMAIN c = 1..(Len(a) + Len(b))
      /\ \A k \in 1..(Len(a) + Len(b)) : c[k] = IF k <= Len(a) THEN a[k] ELSE b[k - Len(a)]
  OBVIOUS
<1> HIDE DEF c
<1>2. ASSUME NEW k \in DOMAIN c
      PROVE  \/ k \in DOMAIN a /\ c[k] = a[k]
             \/ k - Len(a) \in DOMAIN b /\ c[k] = b[k - Len(a)] /\ k > Len(a)
  BY <1>1
<1>3. ASSUME NEW k \in DOMAIN a PROVE k \in DOMAIN c /\ c[k] = a[k]
  BY <1>1
<1>4. ASSUME NEW k \in DOMAIN b PROVE k + Len(a) \in DOMAIN c /\ c[k + Len(a)] = b[k]
  BY <1>1
<1>5. Members(c) = Members(a) \cup Members(b)
  <2>1. Members(c) \subseteq Members(a) \cup Members(b)
    BY <1>2 DEF Members
  <2>2. Members(a) \subseteq Members(c)
    BY <1>3 DEF Members
  <2>3. Members(b) \subseteq Members(c)
    BY <1>4 DEF Members
  <2> QED
    BY <2>1, <2>2, <2>3
<1>6. ASSUME Ordered(a), Ordered(b), \A x \in Members(a), y \in Members(b) : MayPrecede(x, y)
      PROVE  Ordered(c)
  <2>1. SUFFICES ASSUME NEW i \in DOMAIN c, NEW j \in DOMAIN c, i < j PROVE MayPrecede(c[i], c[j])
    BY DEF Ordered
  <2>2. i \in Nat /\ j \in Nat /\ Len(a) \in Nat
    BY <1>1
  <2>3. CASE i \in DOMAIN a /\ j \in DOMAIN a
    BY <2>1, <2>3, <1>3, <1>6 DEF Ordered
  <2>4. CASE i \in DOMAIN a /\ j \notin DOMAIN a
    <3>1. c[i] \in Members(a) /\ c[j] \in Members(b)
      BY <2>4, <1>2, <1>3 DEF Members
    <3> QED
      BY <3>1, <1>6
  <2>5. CASE i \notin DOMAIN a
    <3>1. i - Len(a) \in DOMAIN b /\ c[i] = b[i - Len(a)] /\ i > Len(a)
      BY <2>5, <1>2
    <3>2. j \notin DOMAIN a /\ j - Len(a) \in DOMAIN b /\ c[j] = b[j - Len(a)]
      BY <3>1, <1>1, <1>2, <2>1, <2>2
    <3>3. i - Len(a) < j - Len(a)
      BY <2>1, <2>2
    <3> QED
      BY <3>1, <3>2, <3>3, <1>6 DEF Ordered
  <2> QED
    BY <2>3, <2>4, <2>5
<1> QED
  BY <1>1, <1>5, <1>6 DEF c

\* Scripts of one and of two steps, and of none.
LEMMA ShortScripts ==
  ASSUME NEW S
  PROVE  /\ << >> \in Seq(S) /\ Members(<< >>) = {} /\ Ordered(<< >>)
         /\ \A x \in S : <<x>> \in Seq(S) /\ Members(<<x>>) = {x} /\ Ordered(<<x>>)
         /\ \A x, y \in S : /\ <<x, y>> \in Seq(S) /\ Members(<<x, y>>) = {x, y}
                            /\ MayPrecede(x, y) => Ordered(<<x, y>>)
<1>1. << >> \in Seq(S) /\ Members(<< >>) = {} /\ Ordered(<< >>)
  BY DEF Members, Ordered
<1>2. ASSUME NEW x \in S PROVE <<x>> \in Seq(S) /\ Members(<<x>>) = {x} /\ Ordered(<<x>>)
  <2>1. <<x>> \in Seq(S) /\ DOMAIN <<x>> = {1} /\ <<x>>[1] = x
    OBVIOUS
  <2> QED
    BY <2>1 DEF Members, Ordered
<1>3. ASSUME NEW x \in S, NEW y \in S
      PROVE  <<x, y>> \in Seq(S) /\ Members(<<x, y>>) = {x, y} /\ (MayPrecede(x, y) => Ordered(<<x, y>>))
  <2>1. <<x, y>> \in Seq(S) /\ DOMAIN <<x, y>> = {1, 2} /\ <<x, y>>[1] = x /\ <<x, y>>[2] = y
    OBVIOUS
  <2> QED
    BY <2>1 DEF Members, Ordered
<1> QED
  BY <1>1, <1>2, <1>3

\* The order of the kinds of steps.
LEMMA Ranks ==
  /\ \A d \in {"program", "backup", "sidecar_key", "device_key", "pair"} : Rank(d) = 1
  /\ \A d \in {"credential", "remove_service", "clear_service"} : Rank(d) = 2
  /\ \A d \in {"replace_runtime", "create_runtime"} : Rank(d) = 3
  /\ \A d \in {"replace_mcp", "create_mcp", "open_mcp", "fill_mcp", "unlink_mcp"} : Rank(d) = 4
  /\ \A d \in {"write_unit", "write_unit_only", "verify_unit", "unlink_credential"} : Rank(d) = 5
  /\ \A d \in {"enable", "unlink_device_key", "unlink_sidecar_key", "remove_data"} : Rank(d) = 6
  /\ \A d \in {"health", "ready", "unlink_runtime"} : Rank(d) = 7
BY DEF Rank

\* One step for each MCP file.
LEMMA EachMembers ==
  ASSUME NEW what \in OnMcp, NEW run \in Runtime
  PROVE  /\ DoEach(what, run) \in Seq(StepType)
         /\ Ordered(DoEach(what, run))
         /\ Members(DoEach(what, run)) = {[do |-> what, run |-> run, n |-> i, undo |-> None] : i \in Clients}
<1> DEFINE e(i) == [do |-> what, run |-> run, n |-> i, undo |-> None]
           T == DoEach(what, run)
<1>1. NClients \in Nat /\ Clients = 1..NClients
  BY DeviceAssumption DEF Clients
<1>2. T = [i \in 1..NClients |-> e(i)]
  <2>1. \A i \in 1..NClients : [Do(what, run) EXCEPT !.n = i] = e(i)
    BY DEF Do
  <2>2. T = [i \in 1..NClients |-> [Do(what, run) EXCEPT !.n = i]]
    BY <1>1 DEF DoEach
  <2> HIDE DEF T
  <2> QED
    BY <2>1, <2>2
<1>3. \A i \in 1..NClients : e(i) \in StepType
  BY <1>1 DEF StepType, Kinds, OnMcp, WritesMcp, SwitchSteps, InstallKinds, RepairKinds, UninstallKinds
<1>4. T \in Seq(StepType) /\ DOMAIN T = 1..NClients /\ \A i \in 1..NClients : T[i] = e(i)
  <2> HIDE DEF e, T
  <2> QED
    BY <1>1, <1>2, <1>3
<1>5. Members(T) = {e(i) : i \in Clients}
  <2> HIDE DEF e, T
  <2> QED
    BY <1>1, <1>4 DEF Members
<1>6. Ordered(T)
  <2>1. SUFFICES ASSUME NEW i \in 1..NClients, NEW j \in 1..NClients, i < j
                 PROVE  MayPrecede(T[i], T[j])
    BY <1>4 DEF Ordered
  <2>2. T[i].do = what /\ T[j].do = what /\ T[i].n = i /\ T[j].n = j
    BY <1>4
  <2>3. Rank(what) \in Nat
    BY Ranks DEF OnMcp, WritesMcp
  <2> HIDE DEF T
  <2> QED
    BY <2>1, <2>2, <2>3 DEF MayPrecede
<1> QED
  BY <1>4, <1>5, <1>6

\* The same steps with a configuration to go back to.
LEMMA UndoingMembers ==
  ASSUME NEW todo \in Seq(StepType), NEW back \in Runtime
  PROVE  /\ Undoing(todo, back) \in Seq(StepType)
         /\ Ordered(todo) => Ordered(Undoing(todo, back))
         /\ Members(Undoing(todo, back)) = {[s EXCEPT !.undo = back] : s \in Members(todo)}
<1> DEFINE T == Undoing(todo, back)
<1>1. \A s \in StepType : /\ [s EXCEPT !.undo = back] \in StepType
                          /\ [s EXCEPT !.undo = back].do = s.do /\ [s EXCEPT !.undo = back].n = s.n
  BY DEF StepType
<1>2. /\ Len(todo) \in Nat /\ DOMAIN todo = 1..Len(todo) /\ \A k \in 1..Len(todo) : todo[k] \in StepType
      /\ T = [k \in 1..Len(todo) |-> [todo[k] EXCEPT !.undo = back]]
  BY DEF Undoing
<1>3. T \in Seq(StepType) /\ DOMAIN T = 1..Len(todo) /\ \A k \in 1..Len(todo) : T[k] = [todo[k] EXCEPT !.undo = back]
  <2> DEFINE f(k) == [todo[k] EXCEPT !.undo = back]
  <2>1. \A k \in 1..Len(todo) : f(k) \in StepType
    BY <1>1, <1>2
  <2>2. T = [k \in 1..Len(todo) |-> f(k)]
    BY <1>2
  <2>3. T \in Seq(StepType) /\ DOMAIN T = 1..Len(todo) /\ \A k \in 1..Len(todo) : T[k] = f(k)
    <3> HIDE DEF f, T
    <3> QED
      BY <1>2, <2>1, <2>2
  <2> QED
    BY <2>3
<1> HIDE DEF T
<1>4. Members(T) = {[s EXCEPT !.undo = back] : s \in Members(todo)}
  BY <1>2, <1>3 DEF Members
<1>5. ASSUME Ordered(todo) PROVE Ordered(T)
  <2>1. SUFFICES ASSUME NEW i \in 1..Len(todo), NEW j \in 1..Len(todo), i < j
                 PROVE  MayPrecede(T[i], T[j])
    BY <1>3 DEF Ordered
  <2>2. MayPrecede(todo[i], todo[j])
    BY <1>2, <1>5, <2>1 DEF Ordered
  <2>3. T[i].do = todo[i].do /\ T[j].do = todo[j].do /\ T[i].n = todo[i].n /\ T[j].n = todo[j].n
    BY <1>1, <1>2, <1>3
  <2> QED
    BY <2>2, <2>3 DEF MayPrecede
<1> QED
  BY <1>3, <1>4, <1>5 DEF T

\* A step made by Do.
LEMMA DoType ==
  ASSUME NEW what \in Kinds, NEW run \in Runtime
  PROVE  /\ Do(what, run) \in StepType
         /\ Do(what, run).do = what /\ Do(what, run).run = run /\ Do(what, run).n = 0 /\ Do(what, run).undo = None
BY DEF Do, StepType

-----------------------------------------------------------------------------
(* The scripts of the commands                                             *)

\* An ordered script of steps of the given kinds.
Script(todo, K) == todo \in Seq(StepType) /\ Ordered(todo) /\ \A s \in Members(todo) : s.do \in K

\* All steps work with one configuration, and go back to one.
With(todo, run, back) ==
  \A s \in Members(todo) : s.run = run /\ s.undo = back /\ (s.do \in OnMcp => s.n \in Clients)

Includes(todo, K) == \E s \in Members(todo) : s.do \in K
IncludesEach(todo, K) == \A i \in Clients : \E s \in Members(todo) : s.do \in K /\ s.n = i

\* A script follows another when its kinds do.
LEMMA Join ==
  ASSUME NEW a, NEW b, NEW J, NEW K, Script(a, J), Script(b, K),
         \A d \in J, e \in K : Rank(d) <= Rank(e), "open_mcp" \notin K
  PROVE  Script(a \o b, J \cup K) /\ Members(a \o b) = Members(a) \cup Members(b)
<1>1. a \in Seq(StepType) /\ b \in Seq(StepType) /\ Ordered(a) /\ Ordered(b)
  BY DEF Script
<1>2. a \o b \in Seq(StepType) /\ Members(a \o b) = Members(a) \cup Members(b)
  BY <1>1, ConcatMembers
<1>3. \A x \in Members(a), y \in Members(b) : MayPrecede(x, y)
  BY DEF Script, MayPrecede
<1>4. Ordered(a \o b)
  BY <1>1, <1>3, ConcatMembers
<1>5. \A s \in Members(a) \cup Members(b) : s.do \in J \cup K
  BY DEF Script
<1> QED
  BY <1>2, <1>4, <1>5 DEF Script

\* What joined scripts have in common they still have.
LEMMA JoinWith ==
  ASSUME NEW a, NEW b, NEW c, NEW run, NEW back, With(a, run, back), With(b, run, back),
         Members(c) = Members(a) \cup Members(b)
  PROVE  With(c, run, back)
BY DEF With

\* A script of one step.
LEMMA OneStep ==
  ASSUME NEW what \in Kinds \ OnMcp, NEW run \in Runtime
  PROVE  /\ Script(<<Do(what, run)>>, {what}) /\ With(<<Do(what, run)>>, run, None)
         /\ Members(<<Do(what, run)>>) = {Do(what, run)}
<1>1. Do(what, run) \in StepType /\ Do(what, run).do = what /\ Do(what, run).run = run /\ Do(what, run).undo = None
  BY DoType
<1>2. /\ <<Do(what, run)>> \in Seq(StepType) /\ Members(<<Do(what, run)>>) = {Do(what, run)}
      /\ Ordered(<<Do(what, run)>>)
  BY <1>1, ShortScripts
<1> QED
  BY <1>1, <1>2 DEF Script, With

\* A script of two steps.
LEMMA TwoSteps ==
  ASSUME NEW what \in Kinds \ OnMcp, NEW next \in Kinds \ OnMcp, NEW run \in Runtime, Rank(what) <= Rank(next)
  PROVE  /\ Script(<<Do(what, run), Do(next, run)>>, {what, next})
         /\ With(<<Do(what, run), Do(next, run)>>, run, None)
         /\ Members(<<Do(what, run), Do(next, run)>>) = {Do(what, run), Do(next, run)}
<1>1. /\ Do(what, run) \in StepType /\ Do(what, run).do = what /\ Do(what, run).run = run /\ Do(what, run).undo = None
      /\ Do(next, run) \in StepType /\ Do(next, run).do = next /\ Do(next, run).run = run /\ Do(next, run).undo = None
  BY DoType
<1>2. MayPrecede(Do(what, run), Do(next, run))
  BY <1>1 DEF MayPrecede, OnMcp, WritesMcp
<1>3. /\ <<Do(what, run), Do(next, run)>> \in Seq(StepType)
      /\ Members(<<Do(what, run), Do(next, run)>>) = {Do(what, run), Do(next, run)}
      /\ Ordered(<<Do(what, run), Do(next, run)>>)
  BY <1>1, <1>2, ShortScripts
<1> QED
  BY <1>1, <1>3 DEF Script, With

\* A step for each MCP file.
LEMMA EachStep ==
  ASSUME NEW what \in OnMcp, NEW run \in Runtime
  PROVE  /\ Script(DoEach(what, run), {what}) /\ With(DoEach(what, run), run, None)
         /\ IncludesEach(DoEach(what, run), {what})
<1> DEFINE e(i) == [do |-> what, run |-> run, n |-> i, undo |-> None]
<1>1. /\ DoEach(what, run) \in Seq(StepType) /\ Ordered(DoEach(what, run))
      /\ Members(DoEach(what, run)) = {e(i) : i \in Clients}
  BY EachMembers
<1>2. \A i \in Clients : e(i).do = what /\ e(i).run = run /\ e(i).n = i /\ e(i).undo = None
  OBVIOUS
<1> HIDE DEF e
<1> QED
  BY <1>1, <1>2 DEF Script, With, IncludesEach

\* The files of one configuration and then the service: the body of
\* _activate_program_runtime and of its except block.
LEMMA BodySteps ==
  ASSUME NEW run \in Runtime
  PROVE  LET body == ReplaceFiles(run) \o WriteService(run)
         IN /\ Script(body, {"replace_runtime", "replace_mcp", "write_unit", "enable"})
            /\ With(body, run, None)
            /\ Includes(body, {"replace_runtime"}) /\ Includes(body, {"write_unit"})
            /\ IncludesEach(body, {"replace_mcp"})
<1> DEFINE a == <<Do("replace_runtime", run)>>
           b == DoEach("replace_mcp", run)
           c == WriteService(run)
           K == {"replace_runtime"} \cup {"replace_mcp"}
           L == {"write_unit", "enable"}
<1>1. Script(a, {"replace_runtime"}) /\ With(a, run, None) /\ Members(a) = {Do("replace_runtime", run)}
  <2>1. "replace_runtime" \in Kinds \ OnMcp
    BY DEF Kinds, SwitchSteps, OnMcp, WritesMcp
  <2> QED
    BY <2>1, OneStep
<1>2. Script(b, {"replace_mcp"}) /\ With(b, run, None) /\ IncludesEach(b, {"replace_mcp"})
  <2>1. "replace_mcp" \in OnMcp
    BY DEF OnMcp, WritesMcp
  <2> QED
    BY <2>1, EachStep
<1>3. Script(c, L) /\ With(c, run, None) /\ Members(c) = {Do("write_unit", run), Do("enable", run)}
  <2>1. "write_unit" \in Kinds \ OnMcp /\ "enable" \in Kinds \ OnMcp
    BY DEF Kinds, SwitchSteps, OnMcp, WritesMcp
  <2>2. Rank("write_unit") <= Rank("enable")
    BY Ranks
  <2> QED
    BY <2>1, <2>2, TwoSteps DEF WriteService
<1> HIDE DEF a, b, c
<1>4. Script(a \o b, K) /\ Members(a \o b) = Members(a) \cup Members(b)
  <2> DEFINE J == {"replace_runtime"}
             M == {"replace_mcp"}
  <2>1. (\A d \in J, e \in M : Rank(d) <= Rank(e)) /\ "open_mcp" \notin M
    BY Ranks
  <2>2. Script(a, J) /\ Script(b, M) /\ K = J \cup M
    BY <1>1, <1>2
  <2> HIDE DEF J, K, M
  <2> QED
    BY <2>1, <2>2, Join
<1>5. Script((a \o b) \o c, K \cup L) /\ Members((a \o b) \o c) = Members(a \o b) \cup Members(c)
  <2>1. (\A d \in K, e \in L : Rank(d) <= Rank(e)) /\ "open_mcp" \notin L
    BY Ranks
  <2>2. Script(a \o b, K) /\ Script(c, L)
    BY <1>3, <1>4
  <2> HIDE DEF K, L
  <2> QED
    BY <2>1, <2>2, Join
<1>6. With((a \o b) \o c, run, None)
  BY <1>1, <1>2, <1>3, <1>4, <1>5 DEF With
<1>7. Do("replace_runtime", run).do = "replace_runtime" /\ Do("write_unit", run).do = "write_unit"
  BY DEF Do
<1>8. /\ Includes((a \o b) \o c, {"replace_runtime"}) /\ Includes((a \o b) \o c, {"write_unit"})
      /\ IncludesEach((a \o b) \o c, {"replace_mcp"})
  BY <1>1, <1>2, <1>3, <1>4, <1>5, <1>7 DEF Includes, IncludesEach
<1>9. K \cup L = {"replace_runtime", "replace_mcp", "write_unit", "enable"}
  OBVIOUS
<1>10. ReplaceFiles(run) \o WriteService(run) = (a \o b) \o c
  BY DEF ReplaceFiles, a, b, c
<1> QED
  BY <1>5, <1>6, <1>8, <1>9, <1>10

\* The steps of a script are the same, in the same order, whatever they go back to.
LEMMA UndoingScript ==
  ASSUME NEW todo, NEW K, Script(todo, K), NEW run, With(todo, run, None), NEW back \in Runtime
  PROVE  /\ Script(Undoing(todo, back), K) /\ With(Undoing(todo, back), run, back)
         /\ \A J : Includes(todo, J) => Includes(Undoing(todo, back), J)
         /\ \A J : IncludesEach(todo, J) => IncludesEach(Undoing(todo, back), J)
<1> DEFINE e(s) == [s EXCEPT !.undo = back]
<1>1. todo \in Seq(StepType) /\ Ordered(todo) /\ Members(todo) \subseteq StepType
  BY DEF Script, Members
<1>2. /\ Undoing(todo, back) \in Seq(StepType) /\ Ordered(Undoing(todo, back))
      /\ Members(Undoing(todo, back)) = {e(s) : s \in Members(todo)}
  BY <1>1, UndoingMembers
<1>3. \A s \in StepType : e(s).do = s.do /\ e(s).run = s.run /\ e(s).n = s.n /\ e(s).undo = back
  BY DEF StepType
<1> HIDE DEF e
<1> QED
  BY <1>1, <1>2, <1>3 DEF Script, With, Includes, IncludesEach

\* A script that switches to a configuration.
IsSwitch(todo, K, new, back) ==
  /\ Script(todo, K)
  /\ \A s \in Members(todo) : /\ s.do \notin Stops => s.run = new
                              /\ s.undo = IF s.do \in Stops \cup {"program"} THEN None ELSE back
                              /\ s.do \in OnMcp => s.n \in Clients
  /\ Includes(todo, {"replace_runtime"}) /\ Includes(todo, {"write_unit"}) /\ IncludesEach(todo, {"replace_mcp"})
  /\ Includes(todo, Stops)

BodyKinds == {"replace_runtime", "replace_mcp", "write_unit", "enable"}

\* A step put before a script.
LEMMA Prefixed ==
  ASSUME NEW what \in Kinds \ OnMcp, NEW run \in Runtime, NEW todo, NEW K, Script(todo, K),
         \A e \in K : Rank(what) <= Rank(e), "open_mcp" \notin K
  PROVE  /\ Script(<<Do(what, run)>> \o todo, {what} \cup K)
         /\ Members(<<Do(what, run)>> \o todo) = {Do(what, run)} \cup Members(todo)
<1>1. Script(<<Do(what, run)>>, {what}) /\ Members(<<Do(what, run)>>) = {Do(what, run)}
  BY OneStep
<1> DEFINE J == {what}
<1>2. \A d \in J, e \in K : Rank(d) <= Rank(e)
  OBVIOUS
<1>3. Script(<<Do(what, run)>>, J)
  BY <1>1
<1> HIDE DEF J
<1>4. /\ Script(<<Do(what, run)>> \o todo, J \cup K)
      /\ Members(<<Do(what, run)>> \o todo) = Members(<<Do(what, run)>>) \cup Members(todo)
  BY <1>2, <1>3, Join
<1> QED
  BY <1>1, <1>4 DEF J

\* The old service goes, then the files change, then the new service comes.
LEMMA ActivateScript ==
  ASSUME NEW old \in Runtime, NEW new \in Runtime
  PROVE  /\ IsSwitch(Activate(old, new), {"remove_service"} \cup BodyKinds, new, old)
         /\ Includes(Activate(old, new), {"remove_service"})
<1> DEFINE body == ReplaceFiles(new) \o WriteService(new)
           todo == Undoing(body, old)
<1>1. /\ Script(body, BodyKinds) /\ With(body, new, None) /\ Includes(body, {"replace_runtime"})
      /\ Includes(body, {"write_unit"}) /\ IncludesEach(body, {"replace_mcp"})
  BY BodySteps DEF BodyKinds
<1> HIDE DEF body
<1>2. /\ Script(todo, BodyKinds) /\ With(todo, new, old) /\ Includes(todo, {"replace_runtime"})
      /\ Includes(todo, {"write_unit"}) /\ IncludesEach(todo, {"replace_mcp"})
  BY <1>1, UndoingScript
<1>3. "remove_service" \in Kinds \ OnMcp /\ "open_mcp" \notin BodyKinds /\ \A e \in BodyKinds : Rank("remove_service") <= Rank(e)
  BY Ranks DEF Kinds, SwitchSteps, OnMcp, WritesMcp, BodyKinds
<1> HIDE DEF todo
<1>4. /\ Script(<<Do("remove_service", old)>> \o todo, {"remove_service"} \cup BodyKinds)
      /\ Members(<<Do("remove_service", old)>> \o todo) = {Do("remove_service", old)} \cup Members(todo)
  BY <1>2, <1>3, Prefixed
<1>5. Activate(old, new) = <<Do("remove_service", old)>> \o todo
  BY DEF Activate, todo, body
<1>6. Do("remove_service", old).do = "remove_service" /\ Do("remove_service", old).undo = None
  BY DEF Do
<1>7. \A s \in Members(todo) : s.do \in BodyKinds /\ s.run = new /\ s.undo = old /\ (s.do \in OnMcp => s.n \in Clients)
  BY <1>2 DEF Script, With
<1>8. /\ "remove_service" \in Stops /\ "remove_service" \notin OnMcp
      /\ \A d \in BodyKinds : d \notin Stops \cup {"program"}
  BY DEF Stops, OnMcp, WritesMcp, BodyKinds
<1> QED
  BY <1>2, <1>4, <1>5, <1>6, <1>7, <1>8 DEF IsSwitch, Includes, IncludesEach

\* The except block clears the service and brings the old files and service back.
LEMMA RestoreScript ==
  ASSUME NEW old \in Runtime, NEW new \in Runtime
  PROVE  IsSwitch(Restore(new, old), {"clear_service"} \cup BodyKinds, old, None)
<1> DEFINE body == ReplaceFiles(old) \o WriteService(old)
<1>1. /\ Script(body, BodyKinds) /\ With(body, old, None) /\ Includes(body, {"replace_runtime"})
      /\ Includes(body, {"write_unit"}) /\ IncludesEach(body, {"replace_mcp"})
  BY BodySteps DEF BodyKinds
<1>2. Restore(new, old) = <<Do("clear_service", new)>> \o body
  <2> DEFINE a == <<Do("clear_service", new)>>
             b == ReplaceFiles(old)
             c == WriteService(old)
  <2>1. a \in Seq(StepType) /\ b \in Seq(StepType) /\ c \in Seq(StepType)
    <3>1. \A d \in {"clear_service", "replace_runtime", "write_unit", "enable"}, r \in Runtime : Do(d, r) \in StepType
      BY DoType DEF Kinds, SwitchSteps
    <3>2. DoEach("replace_mcp", old) \in Seq(StepType)
      BY EachMembers DEF OnMcp, WritesMcp
    <3>3. <<Do("replace_runtime", old)>> \in Seq(StepType) /\ a \in Seq(StepType) /\ c \in Seq(StepType)
      BY <3>1 DEF WriteService
    <3>4. b \in Seq(StepType)
      BY <3>2, <3>3, ConcatMembers DEF ReplaceFiles
    <3> QED
      BY <3>3, <3>4
  <2>2. Restore(new, old) = (a \o b) \o c
    BY DEF Restore
  <2> HIDE DEF a, b, c
  <2>3. (a \o b) \o c = a \o (b \o c)
    BY <2>1, ConcatAssociative
  <2> QED
    BY <2>2, <2>3 DEF a, b, c
<1> HIDE DEF body
<1>3. "clear_service" \in Kinds \ OnMcp /\ "open_mcp" \notin BodyKinds /\ \A e \in BodyKinds : Rank("clear_service") <= Rank(e)
  BY Ranks DEF Kinds, SwitchSteps, OnMcp, WritesMcp, BodyKinds
<1>4. /\ Script(<<Do("clear_service", new)>> \o body, {"clear_service"} \cup BodyKinds)
      /\ Members(<<Do("clear_service", new)>> \o body) = {Do("clear_service", new)} \cup Members(body)
  BY <1>1, <1>3, Prefixed
<1>6. Do("clear_service", new).do = "clear_service" /\ Do("clear_service", new).undo = None
  BY DEF Do
<1>7. \A s \in Members(body) : s.do \in BodyKinds /\ s.run = old /\ s.undo = None /\ (s.do \in OnMcp => s.n \in Clients)
  BY <1>1 DEF Script, With
<1>8. /\ "clear_service" \in Stops /\ "clear_service" \notin OnMcp
      /\ \A d \in BodyKinds : d \notin Stops \cup {"program"}
  BY DEF Stops, OnMcp, WritesMcp, BodyKinds
<1> QED
  BY <1>1, <1>2, <1>4, <1>6, <1>7, <1>8 DEF IsSwitch, Includes, IncludesEach

\* The switch and the health check after it.
LEMMA SwitchScript ==
  ASSUME NEW old \in Runtime, NEW new \in Runtime
  PROVE  /\ IsSwitch(Switch(old, new), {"remove_service"} \cup BodyKinds \cup {"health"}, new, old)
         /\ Includes(Switch(old, new), {"remove_service"})
<1> DEFINE a == Activate(old, new)
           h == <<Do("health", new)>>
           b == Undoing(h, old)
           J == {"remove_service"} \cup BodyKinds
           K == {"health"}
<1>1. IsSwitch(a, J, new, old) /\ Includes(a, {"remove_service"})
  BY ActivateScript
<1>2. Script(h, K) /\ With(h, new, None)
  <2>1. "health" \in Kinds \ OnMcp
    BY DEF Kinds, SwitchSteps, OnMcp, WritesMcp
  <2> QED
    BY <2>1, OneStep
<1>3. "health" \notin Stops \cup {"program"} \cup OnMcp
  BY DEF Stops, OnMcp, WritesMcp
<1>4. (\A d \in J, e \in K : Rank(d) <= Rank(e)) /\ "open_mcp" \notin K
  BY Ranks DEF BodyKinds
<1> HIDE DEF a, h, K, J
<1>5. Script(b, K) /\ With(b, new, old)
  BY <1>2, UndoingScript
<1> HIDE DEF b
<1>6. Script(a \o b, J \cup K) /\ Members(a \o b) = Members(a) \cup Members(b)
  BY <1>1, <1>4, <1>5, Join DEF IsSwitch
<1>7. \A s \in Members(b) : s.do = "health" /\ s.run = new /\ s.undo = old
  BY <1>5 DEF Script, With, K
<1>8. IsSwitch(a \o b, J \cup K, new, old) /\ Includes(a \o b, {"remove_service"})
  BY <1>1, <1>3, <1>6, <1>7 DEF IsSwitch, Includes, IncludesEach
<1> QED
  BY <1>8 DEF Switch, a, b, h, J, K

\* An upgrade installs the program first.
LEMMA UpgradeScript ==
  ASSUME NEW old \in Runtime, NEW new \in Runtime
  PROVE  /\ IsSwitch(<<Do("program", new)>> \o Switch(old, new), SwitchSteps \ {"clear_service"}, new, old)
         /\ Includes(<<Do("program", new)>> \o Switch(old, new), {"remove_service"})
<1> DEFINE a == Switch(old, new)
           p == Do("program", new)
           K == {"remove_service"} \cup BodyKinds \cup {"health"}
<1>1. IsSwitch(a, K, new, old) /\ Includes(a, {"remove_service"})
  BY SwitchScript
<1>2. "program" \in Kinds \ OnMcp /\ "open_mcp" \notin K /\ \A e \in K : Rank("program") <= Rank(e)
  BY Ranks DEF Kinds, SwitchSteps, OnMcp, WritesMcp, BodyKinds
<1>3. p.do = "program" /\ p.run = new /\ p.undo = None /\ "program" \notin OnMcp
  BY DEF Do, OnMcp, WritesMcp
<1>4. {"program"} \cup K = SwitchSteps \ {"clear_service"}
  BY DEF SwitchSteps, BodyKinds
<1> HIDE DEF a, K
<1>5. Script(<<p>> \o a, {"program"} \cup K) /\ Members(<<p>> \o a) = {p} \cup Members(a)
  BY <1>1, <1>2, Prefixed DEF IsSwitch
<1> HIDE DEF p
<1>6. IsSwitch(<<p>> \o a, {"program"} \cup K, new, old) /\ Includes(<<p>> \o a, {"remove_service"})
  BY <1>1, <1>3, <1>5 DEF IsSwitch, Includes, IncludesEach
<1> QED
  BY <1>4, <1>6 DEF a, p

\* A script of three steps.
LEMMA ThreeSteps ==
  ASSUME NEW a \in Kinds \ OnMcp, NEW b \in Kinds \ OnMcp, NEW c \in Kinds \ OnMcp, NEW run \in Runtime,
         Rank(a) <= Rank(b), Rank(a) <= Rank(c), Rank(b) <= Rank(c)
  PROVE  LET todo == <<Do(a, run), Do(b, run), Do(c, run)>>
         IN Script(todo, {a, b, c}) /\ With(todo, run, None) /\ Members(todo) = {Do(a, run), Do(b, run), Do(c, run)}
<1> DEFINE x == Do(a, run)
           y == Do(b, run)
           z == Do(c, run)
           todo == <<x, y, z>>
<1>1. /\ x \in StepType /\ x.do = a /\ x.run = run /\ x.undo = None
      /\ y \in StepType /\ y.do = b /\ y.run = run /\ y.undo = None
      /\ z \in StepType /\ z.do = c /\ z.run = run /\ z.undo = None
  BY DoType
<1> HIDE DEF x, y, z
<1>2. todo \in Seq(StepType) /\ DOMAIN todo = {1, 2, 3} /\ todo[1] = x /\ todo[2] = y /\ todo[3] = z
  BY <1>1
<1>3. MayPrecede(x, y) /\ MayPrecede(x, z) /\ MayPrecede(y, z)
  BY <1>1 DEF MayPrecede, OnMcp, WritesMcp
<1> HIDE DEF todo
<1>4. Members(todo) = {x, y, z} /\ Ordered(todo)
  BY <1>2, <1>3 DEF Members, Ordered
<1>5. Script(todo, {a, b, c}) /\ With(todo, run, None)
  BY <1>1, <1>2, <1>4 DEF Script, With
<1> QED
  BY <1>4, <1>5 DEF todo, x, y, z

\* A script without steps is a script of any kind.
LEMMA NoSteps ==
  ASSUME NEW K, NEW run
  PROVE  Script(<< >>, K) /\ With(<< >>, run, None) /\ Members(<< >>) = {}
BY ShortScripts DEF Script, With

SecretKinds == {"sidecar_key", "device_key", "pair", "credential"}

\* The secrets that install makes: the credential never without its key.
LEMMA InstallSecretsScript ==
  ASSUME NEW run \in Runtime
  PROVE  /\ Script(InstallSecrets(run), SecretKinds) /\ With(InstallSecrets(run), run, None)
         /\ Includes(InstallSecrets(run), {"credential"}) => Includes(InstallSecrets(run), {"device_key"})
<1> DEFINE a == IF "sidecar_key" \in secrets THEN << >> ELSE <<Do("sidecar_key", run)>>
           all == <<Do("device_key", run), Do("pair", run), Do("credential", run)>>
           b == IF "credential" \in secrets THEN << >> ELSE all
           J == {"sidecar_key"}
           K == {"device_key", "pair", "credential"}
<1>1. Script(a, J) /\ With(a, run, None)
  <2>1. "sidecar_key" \in Kinds \ OnMcp
    BY DEF Kinds, InstallKinds, OnMcp, WritesMcp
  <2>2. Script(<<Do("sidecar_key", run)>>, J) /\ With(<<Do("sidecar_key", run)>>, run, None)
    BY <2>1, OneStep
  <2> QED
    BY <2>2, NoSteps
<1>2. Script(all, K) /\ With(all, run, None) /\ Do("device_key", run) \in Members(all)
  <2>1. "device_key" \in Kinds \ OnMcp /\ "pair" \in Kinds \ OnMcp /\ "credential" \in Kinds \ OnMcp
    BY DEF Kinds, InstallKinds, OnMcp, WritesMcp
  <2>2. Rank("device_key") <= Rank("pair") /\ Rank("device_key") <= Rank("credential") /\ Rank("pair") <= Rank("credential")
    BY Ranks
  <2> QED
    BY <2>1, <2>2, ThreeSteps
<1> HIDE DEF all
<1>3. Script(b, K) /\ With(b, run, None) /\ (Members(b) = {} \/ Do("device_key", run) \in Members(b))
  BY <1>2, NoSteps
<1>4. (\A d \in J, e \in K : Rank(d) <= Rank(e)) /\ "open_mcp" \notin K
  BY Ranks
<1>5. J \cup K = SecretKinds /\ "credential" \notin J
  BY DEF SecretKinds
<1>6. Do("device_key", run).do = "device_key"
  BY DEF Do
<1>7. InstallSecrets(run) = a \o b
  BY DEF InstallSecrets, all
<1> HIDE DEF a, b, J, K
<1>8. Script(a \o b, J \cup K) /\ Members(a \o b) = Members(a) \cup Members(b)
  BY <1>1, <1>3, <1>4, Join
<1>9. With(a \o b, run, None)
  BY <1>1, <1>3, <1>8 DEF With
<1>10. Includes(a \o b, {"credential"}) => Includes(a \o b, {"device_key"})
  <2>1. \A s \in Members(a) : s.do # "credential"
    BY <1>1, <1>5 DEF Script
  <2> QED
    BY <2>1, <1>3, <1>6, <1>8 DEF Includes
<1> QED
  BY <1>5, <1>7, <1>8, <1>9, <1>10

ServiceKinds == MakesUnit \cup {"enable", "ready"}

\* The service that install makes, or checks when it is there.
LEMMA InstallServiceScript ==
  ASSUME NEW run \in Runtime, NEW autostart \in BOOLEAN
  PROVE  /\ Script(InstallService(run, autostart), ServiceKinds) /\ With(InstallService(run, autostart), run, None)
         /\ Includes(InstallService(run, autostart), MakesUnit)
<1> DEFINE d == IF unit # None THEN "verify_unit" ELSE IF autostart THEN "write_unit" ELSE "write_unit_only"
           a == <<Do(d, run)>>
           b == IF autostart THEN <<Do("enable", run), Do("ready", run)>> ELSE << >>
           J == MakesUnit
           K == {"enable", "ready"}
<1>1. d \in MakesUnit
  BY DEF MakesUnit
<1>2. InstallService(run, autostart) = a \o b
  BY DEF InstallService
<1> HIDE DEF d
<1>3. d \in Kinds \ OnMcp
  BY <1>1 DEF MakesUnit, Kinds, InstallKinds, OnMcp, WritesMcp
<1>4. Script(a, {d}) /\ With(a, run, None) /\ Members(a) = {Do(d, run)}
  BY <1>3, OneStep
<1>5. Script(a, J)
  BY <1>1, <1>4 DEF Script
<1>6. Script(b, K) /\ With(b, run, None)
  <2>1. "enable" \in Kinds \ OnMcp /\ "ready" \in Kinds \ OnMcp /\ Rank("enable") <= Rank("ready")
    BY Ranks DEF Kinds, InstallKinds, OnMcp, WritesMcp
  <2>2. /\ Script(<<Do("enable", run), Do("ready", run)>>, K)
        /\ With(<<Do("enable", run), Do("ready", run)>>, run, None)
    BY <2>1, TwoSteps
  <2> QED
    BY <2>2, NoSteps
<1>7. (\A e \in J, f \in K : Rank(e) <= Rank(f)) /\ "open_mcp" \notin K
  BY Ranks DEF MakesUnit
<1>8. Do(d, run).do = d
  BY DEF Do
<1>9. J \cup K = ServiceKinds
  BY DEF ServiceKinds
<1> HIDE DEF a, b, J, K
<1>10. Script(a \o b, J \cup K) /\ Members(a \o b) = Members(a) \cup Members(b)
  BY <1>5, <1>6, <1>7, Join
<1>11. With(a \o b, run, None)
  BY <1>4, <1>6, <1>10 DEF With
<1>12. Includes(a \o b, MakesUnit)
  BY <1>1, <1>4, <1>8, <1>10 DEF Includes
<1> QED
  BY <1>2, <1>9, <1>10, <1>11, <1>12

\* install makes, or checks, every file.
LEMMA InstallScript ==
  ASSUME NEW run \in Runtime, NEW autostart \in BOOLEAN
  PROVE  LET todo == InstallSteps(run, autostart)
         IN /\ Script(todo, InstallKinds) /\ With(todo, run, None)
            /\ Includes(todo, {"create_runtime"}) /\ IncludesEach(todo, {"create_mcp"}) /\ Includes(todo, MakesUnit)
            /\ Includes(todo, {"credential"}) => Includes(todo, {"device_key"})
<1> DEFINE a == InstallSecrets(run)
           b == <<Do("create_runtime", run)>>
           c == DoEach("create_mcp", run)
           d == InstallService(run, autostart)
           B == {"create_runtime"}
           C == {"create_mcp"}
<1>1. Script(a, SecretKinds) /\ With(a, run, None) /\ (Includes(a, {"credential"}) => Includes(a, {"device_key"}))
  BY InstallSecretsScript
<1>2. Script(b, B) /\ With(b, run, None) /\ Members(b) = {Do("create_runtime", run)}
  <2>1. "create_runtime" \in Kinds \ OnMcp
    BY DEF Kinds, InstallKinds, OnMcp, WritesMcp
  <2> QED
    BY <2>1, OneStep
<1>3. Script(c, C) /\ With(c, run, None) /\ IncludesEach(c, {"create_mcp"})
  <2>1. "create_mcp" \in OnMcp
    BY DEF OnMcp, WritesMcp
  <2> QED
    BY <2>1, EachStep
<1>4. Script(d, ServiceKinds) /\ With(d, run, None) /\ Includes(d, MakesUnit)
  BY InstallServiceScript
<1>5. Do("create_runtime", run).do = "create_runtime"
  BY DEF Do
<1>6. /\ \A k \in SecretKinds, l \in B : Rank(k) <= Rank(l)
      /\ \A k \in SecretKinds \cup B, l \in C : Rank(k) <= Rank(l)
      /\ \A k \in (SecretKinds \cup B) \cup C, l \in ServiceKinds : Rank(k) <= Rank(l)
      /\ "open_mcp" \notin B \cup C \cup ServiceKinds
  BY Ranks DEF SecretKinds, ServiceKinds, MakesUnit
<1>7. ((SecretKinds \cup B) \cup C) \cup ServiceKinds \subseteq InstallKinds /\ "credential" \notin B \cup C \cup ServiceKinds
  BY DEF SecretKinds, ServiceKinds, MakesUnit, InstallKinds
<1>8. InstallSteps(run, autostart) = ((a \o b) \o c) \o d
  BY DEF InstallSteps
<1> HIDE DEF a, b, c, d, B, C
<1>9. Script(a \o b, SecretKinds \cup B) /\ Members(a \o b) = Members(a) \cup Members(b)
  BY <1>1, <1>2, <1>6, Join
<1>10. /\ Script((a \o b) \o c, (SecretKinds \cup B) \cup C)
       /\ Members((a \o b) \o c) = Members(a \o b) \cup Members(c)
  BY <1>3, <1>6, <1>9, Join
<1>11. /\ Script(((a \o b) \o c) \o d, ((SecretKinds \cup B) \cup C) \cup ServiceKinds)
       /\ Members(((a \o b) \o c) \o d) = Members((a \o b) \o c) \cup Members(d)
  BY <1>4, <1>6, <1>10, Join
<1> DEFINE todo == ((a \o b) \o c) \o d
<1>12. Members(todo) = ((Members(a) \cup Members(b)) \cup Members(c)) \cup Members(d)
  BY <1>9, <1>10, <1>11
<1>13. Script(todo, InstallKinds)
  BY <1>7, <1>11 DEF Script
<1> HIDE DEF todo
<1>14. With(todo, run, None)
  BY <1>1, <1>2, <1>3, <1>4, <1>12 DEF With
<1>15. Includes(todo, {"create_runtime"}) /\ IncludesEach(todo, {"create_mcp"}) /\ Includes(todo, MakesUnit)
  BY <1>2, <1>3, <1>4, <1>5, <1>12 DEF Includes, IncludesEach
<1>16. Includes(todo, {"credential"}) => Includes(todo, {"device_key"})
  <2>1. \A s \in Members(b) \cup Members(c) \cup Members(d) : s.do # "credential"
    BY <1>2, <1>3, <1>4, <1>7 DEF Script
  <2> QED
    BY <2>1, <1>1, <1>12 DEF Includes
<1> QED
  BY <1>8, <1>13, <1>14, <1>15, <1>16 DEF todo

\* repair goes over every MCP file, and makes the service if it is missing.
LEMMA RepairScript ==
  ASSUME NEW run \in Runtime
  PROVE  LET todo == RepairSteps(run)
         IN /\ Script(todo, {"open_mcp", "write_unit", "enable"}) /\ With(todo, run, None)
            /\ IncludesEach(todo, {"open_mcp"}) /\ (unit = None => Includes(todo, {"write_unit"}))
<1> DEFINE a == DoEach("open_mcp", run)
           e == <<Do("enable", run)>>
           w == WriteService(run)
           b == IF unit = None THEN w ELSE IF loaded = None THEN e ELSE << >>
           J == {"open_mcp"}
           K == {"write_unit", "enable"}
<1>1. Script(a, J) /\ With(a, run, None) /\ IncludesEach(a, {"open_mcp"})
  <2>1. "open_mcp" \in OnMcp
    BY DEF OnMcp, WritesMcp
  <2> QED
    BY <2>1, EachStep
<1>2. "write_unit" \in Kinds \ OnMcp /\ "enable" \in Kinds \ OnMcp /\ Rank("write_unit") <= Rank("enable")
  BY Ranks DEF Kinds, SwitchSteps, OnMcp, WritesMcp
<1>3. Script(w, K) /\ With(w, run, None) /\ Do("write_unit", run) \in Members(w)
  BY <1>2, TwoSteps DEF WriteService
<1>4. Script(e, {"enable"}) /\ With(e, run, None)
  BY <1>2, OneStep
<1>5. Script(e, K)
  BY <1>4 DEF Script
<1>6. (\A d \in J, f \in K : Rank(d) <= Rank(f)) /\ "open_mcp" \notin K /\ J \cup K = {"open_mcp", "write_unit", "enable"}
  BY Ranks
<1>7. Do("write_unit", run).do = "write_unit"
  BY DEF Do
<1>8. RepairSteps(run) = a \o b
  BY DEF RepairSteps
<1> HIDE DEF a, e, w, J, K
<1>9. Script(b, K) /\ With(b, run, None) /\ (unit = None => Do("write_unit", run) \in Members(b))
  BY <1>3, <1>4, <1>5, NoSteps
<1> HIDE DEF b
<1>10. Script(a \o b, J \cup K) /\ Members(a \o b) = Members(a) \cup Members(b)
  BY <1>1, <1>6, <1>9, Join
<1>11. With(a \o b, run, None)
  BY <1>1, <1>9, <1>10 DEF With
<1>12. IncludesEach(a \o b, {"open_mcp"}) /\ (unit = None => Includes(a \o b, {"write_unit"}))
  BY <1>1, <1>7, <1>9, <1>10 DEF Includes, IncludesEach
<1> QED
  BY <1>6, <1>8, <1>10, <1>11, <1>12

\* uninstall removes the service and every MCP file before runtime.json.
LEMMA UninstallScript ==
  ASSUME NEW run \in Runtime, NEW purge
  PROVE  LET todo == UninstallSteps(run, purge)
         IN /\ Script(todo, UninstallKinds) /\ With(todo, run, None)
            /\ Includes(todo, {"remove_service"}) /\ IncludesEach(todo, {"unlink_mcp"})
            /\ Includes(todo, {"unlink_device_key"}) => Includes(todo, {"unlink_credential"})
<1> DEFINE a == <<Do("backup", run), Do("remove_service", run)>>
           b == DoEach("unlink_mcp", run)
           all == <<Do("unlink_credential", run), Do("unlink_device_key", run), Do("unlink_sidecar_key", run)>>
           c == PurgeSecrets(run, purge)
           data == <<Do("remove_data", run)>>
           d == IF "data" \in purge THEN data ELSE << >>
           e == <<Do("unlink_runtime", run)>>
           A == {"backup", "remove_service"}
           B == {"unlink_mcp"}
           C == {"unlink_credential", "unlink_device_key", "unlink_sidecar_key"}
           D == {"remove_data"}
           E == {"unlink_runtime"}
<1>1. \A k \in UninstallKinds \ {"unlink_mcp"} : k \in Kinds \ OnMcp
  BY DEF Kinds, UninstallKinds, OnMcp, WritesMcp
<1>2. Script(a, A) /\ With(a, run, None) /\ Do("remove_service", run) \in Members(a)
  <2>1. "backup" \in Kinds \ OnMcp /\ "remove_service" \in Kinds \ OnMcp /\ Rank("backup") <= Rank("remove_service")
    BY <1>1, Ranks DEF UninstallKinds
  <2> QED
    BY <2>1, TwoSteps
<1>3. Script(b, B) /\ With(b, run, None) /\ IncludesEach(b, {"unlink_mcp"})
  <2>1. "unlink_mcp" \in OnMcp
    BY DEF OnMcp, WritesMcp
  <2> QED
    BY <2>1, EachStep
<1>4. Script(all, C) /\ With(all, run, None) /\ Do("unlink_credential", run) \in Members(all)
  <2>1. /\ "unlink_credential" \in Kinds \ OnMcp /\ "unlink_device_key" \in Kinds \ OnMcp
        /\ "unlink_sidecar_key" \in Kinds \ OnMcp
    BY <1>1 DEF UninstallKinds
  <2>2. /\ Rank("unlink_credential") <= Rank("unlink_device_key") /\ Rank("unlink_credential") <= Rank("unlink_sidecar_key")
        /\ Rank("unlink_device_key") <= Rank("unlink_sidecar_key")
    BY Ranks
  <2> QED
    BY <2>1, <2>2, ThreeSteps
<1>5. Script(data, D) /\ With(data, run, None)
  <2>1. "remove_data" \in Kinds \ OnMcp
    BY <1>1 DEF UninstallKinds
  <2> QED
    BY <2>1, OneStep
<1>6. Script(e, E) /\ With(e, run, None)
  <2>1. "unlink_runtime" \in Kinds \ OnMcp
    BY <1>1 DEF UninstallKinds
  <2> QED
    BY <2>1, OneStep
<1>7. /\ Do("remove_service", run).do = "remove_service" /\ Do("unlink_credential", run).do = "unlink_credential"
  BY DEF Do
<1>8. /\ \A k \in A, l \in B : Rank(k) <= Rank(l)
      /\ \A k \in A \cup B, l \in C : Rank(k) <= Rank(l)
      /\ \A k \in (A \cup B) \cup C, l \in D : Rank(k) <= Rank(l)
      /\ \A k \in ((A \cup B) \cup C) \cup D, l \in E : Rank(k) <= Rank(l)
      /\ "open_mcp" \notin B /\ "open_mcp" \notin C /\ "open_mcp" \notin D /\ "open_mcp" \notin E
  BY Ranks
<1>9. (((A \cup B) \cup C) \cup D) \cup E = UninstallKinds /\ "unlink_device_key" \notin A \cup B \cup D \cup E
  BY DEF UninstallKinds
<1>10. c = (IF "credentials" \in purge THEN all ELSE << >>)
  BY DEF PurgeSecrets
<1>11. UninstallSteps(run, purge) = (((a \o b) \o c) \o d) \o e
  BY DEF UninstallSteps
<1> HIDE DEF a, b, c, all, data, e, A, B, C, D, E
<1>12. Script(c, C) /\ With(c, run, None) /\ (Members(c) = {} \/ Do("unlink_credential", run) \in Members(c))
  BY <1>4, <1>10, NoSteps
<1>13. Script(d, D) /\ With(d, run, None)
  BY <1>5, NoSteps
<1> HIDE DEF d
<1>14. Script(a \o b, A \cup B) /\ Members(a \o b) = Members(a) \cup Members(b)
  BY <1>2, <1>3, <1>8, Join
<1>15. Script((a \o b) \o c, (A \cup B) \cup C) /\ Members((a \o b) \o c) = Members(a \o b) \cup Members(c)
  BY <1>12, <1>14, <1>8, Join
<1>16. /\ Script(((a \o b) \o c) \o d, ((A \cup B) \cup C) \cup D)
       /\ Members(((a \o b) \o c) \o d) = Members((a \o b) \o c) \cup Members(d)
  BY <1>13, <1>15, <1>8, Join
<1> DEFINE todo == (((a \o b) \o c) \o d) \o e
<1>17. /\ Script(todo, (((A \cup B) \cup C) \cup D) \cup E)
       /\ Members(todo) = Members(((a \o b) \o c) \o d) \cup Members(e)
  BY <1>6, <1>16, <1>8, Join
<1> HIDE DEF todo
<1>18. Members(todo) = (((Members(a) \cup Members(b)) \cup Members(c)) \cup Members(d)) \cup Members(e)
  BY <1>14, <1>15, <1>16, <1>17
<1>19. With(todo, run, None)
  BY <1>2, <1>3, <1>6, <1>12, <1>13, <1>18 DEF With
<1>20. Includes(todo, {"remove_service"}) /\ IncludesEach(todo, {"unlink_mcp"})
  BY <1>2, <1>3, <1>7, <1>18 DEF Includes, IncludesEach
<1>21. Includes(todo, {"unlink_device_key"}) => Includes(todo, {"unlink_credential"})
  <2>1. \A s \in Members(a) \cup Members(b) \cup Members(d) \cup Members(e) : s.do # "unlink_device_key"
    BY <1>2, <1>3, <1>6, <1>9, <1>13 DEF Script
  <2> QED
    BY <2>1, <1>7, <1>12, <1>18 DEF Includes
<1> QED
  BY <1>9, <1>11, <1>17, <1>19, <1>20, <1>21 DEF todo

-----------------------------------------------------------------------------
(* A step that is done                                                     *)

\* The step h is the first one of the script, and is taken off it.
Advances(h) ==
  /\ h \in StepType /\ op.todo # << >> /\ h = step
  /\ Pending = {h} \cup Pending' /\ Pending' \subseteq StepType
  /\ \A t \in Pending' : MayPrecede(h, t)
  /\ op'.name = op.name /\ op'.rt = op.rt /\ op'.mcp = op.mcp /\ op'.raised = op.raised

\* What the step h does to the files, and what it has checked before.
Effect(h) ==
  /\ spoilt' = spoilt /\ programs' \subseteq Program /\ paired' \in BOOLEAN /\ platform' = platform
  /\ rt' = IF h.do \in WritesRuntime THEN h.run ELSE IF h.do = "unlink_runtime" THEN None ELSE rt
  /\ mcp' = IF h.do \in WritesMcp \ {"open_mcp"} THEN [mcp EXCEPT ![h.n] = h.run.py]
            ELSE IF h.do = "unlink_mcp" THEN [mcp EXCEPT ![h.n] = None] ELSE mcp
  /\ unit' = IF h.do \in {"write_unit", "write_unit_only"} THEN h.run.py
             ELSE IF h.do \in Stops THEN None ELSE unit
  /\ loaded' \in IF h.do = "enable" THEN {IF loaded = None THEN unit ELSE loaded}
                 ELSE IF h.do \in Stops THEN {None, loaded} ELSE {loaded}
  /\ secrets' = IF h.do \in Secret THEN secrets \cup {h.do}
                ELSE IF h.do = "unlink_credential" THEN secrets \ {"credential"}
                ELSE IF h.do = "unlink_device_key" THEN secrets \ {"device_key"}
                ELSE IF h.do = "unlink_sidecar_key" THEN secrets \ {"sidecar_key"} ELSE secrets
  /\ h.do = "replace_runtime" => rt # None
  /\ h.do = "create_runtime" => rt \in {None, h.run}
  /\ h.do \in {"replace_mcp", "open_mcp"} => mcp[h.n] # None
  /\ h.do = "create_mcp" => mcp[h.n] \in {None, h.run.py}
  /\ h.do = "write_unit" => unit = None /\ (platform = "macos" => loaded = None)
  /\ h.do = "write_unit_only" => unit = None
  /\ h.do = "verify_unit" => unit = h.run.py
  /\ h.do = "remove_service" => unit \in {None, h.run.py}

\* What is no longer to come when a step of some kind is first.
LEMMA Past ==
  ASSUME NEW h \in StepType, NEW t \in StepType, MayPrecede(h, t)
  PROVE  /\ h.do \in WritesRuntime => t.do \notin Stops \cup {"program"}
         /\ h.do \in OnMcp => t.do \notin Stops \cup {"program"} \cup WritesRuntime
         /\ h.do \in MakesUnit \cup {"enable", "health", "ready", "unlink_runtime"}
              => t.do \notin Stops \cup {"program"} \cup WritesRuntime \cup OnMcp
         /\ h.do \in {"enable", "health", "ready", "unlink_runtime"} => t.do \notin MakesUnit
         /\ h.do = "credential" => t.do # "device_key"
         /\ h.do = "unlink_device_key" => t.do # "unlink_credential"
         /\ h.do \in {"open_mcp", "fill_mcp"} /\ t.do = "open_mcp" => t.n # h.n
<1> USE DEF Stops, WritesRuntime, OnMcp, WritesMcp, MakesUnit
<1>1. Rank(h.do) <= Rank(t.do)
  BY DEF MayPrecede
<1>2. h.do \in WritesRuntime => t.do \notin Stops \cup {"program"}
  BY <1>1, Ranks
<1>3. h.do \in OnMcp => t.do \notin Stops \cup {"program"} \cup WritesRuntime
  BY <1>1, Ranks
<1>4. h.do \in MakesUnit \cup {"enable", "health", "ready", "unlink_runtime"}
        => t.do \notin Stops \cup {"program"} \cup WritesRuntime \cup OnMcp
  BY <1>1, Ranks
<1>5. h.do \in {"enable", "health", "ready", "unlink_runtime"} => t.do \notin MakesUnit
  BY <1>1, Ranks
<1>6. h.do = "credential" => t.do # "device_key"
  BY <1>1, Ranks
<1>7. h.do = "unlink_device_key" => t.do # "unlink_credential"
  BY <1>1, Ranks
<1> QED
  BY <1>2, <1>3, <1>4, <1>5, <1>6, <1>7 DEF MayPrecede

\* The steps that are left are of the type of steps.
LEMMA PendingType == ASSUME OpType PROVE Pending \subseteq StepType
BY DEF OpType, Pending, Members

\* Done takes the first step off the script.
LEMMA DoneAdvances ==
  ASSUME OpType, ScriptInv, op.todo # << >>, Done
  PROVE  OpType' /\ ScriptInv' /\ \E h : Advances(h)
<1> DEFINE Op == [name : {"none", "install", "repair", "uninstall"} \cup Changes, todo : Seq(StepType),
                  rt : Runtime \cup {None}, mcp : [Clients -> Program \cup {None, Foreign, Torn}], raised : Nat]
<1>1. op \in Op /\ (op.name = "none" => op = Idle) /\ Ordered(op.todo)
  BY DEF OpType
<1>2. op.todo \in Seq(StepType)
  BY <1>1
<1>3. /\ Tail(op.todo) \in Seq(StepType) /\ Head(op.todo) \in StepType /\ Ordered(Tail(op.todo))
      /\ Members(op.todo) = {Head(op.todo)} \cup Members(Tail(op.todo))
      /\ \A t \in Members(Tail(op.todo)) : MayPrecede(Head(op.todo), t)
  BY <1>1, <1>2, TailMembers
<1>4. /\ op' \in Op /\ op'.todo = Tail(op.todo) /\ op'.name = op.name /\ op'.rt = op.rt /\ op'.mcp = op.mcp
      /\ op'.raised = op.raised
  <2>1. op' = [op EXCEPT !.todo = Tail(op.todo)]
    BY DEF Done
  <2> QED
    BY <1>1, <1>3, <2>1
<1>5. op.name # "none"
  BY <1>1 DEF Idle
<1>6. OpType'
  BY <1>3, <1>4, <1>5 DEF OpType
<1>7. PICK h : h = Head(op.todo)
  OBVIOUS
<1>8. Pending = {h} \cup Pending'
  BY <1>3, <1>4, <1>7 DEF Pending
<1>9. Pending' \subseteq StepType
  BY <1>3, <1>4 DEF Pending, Members
<1>10. Advances(h)
  <2>1. \A t \in Pending' : MayPrecede(h, t)
    BY <1>3, <1>4, <1>7 DEF Pending
  <2> QED
    BY <1>3, <1>4, <1>7, <1>8, <1>9, <2>1 DEF Advances, step
<1>11. ScriptInv'
  <2>1. Pending' \subseteq Pending
    BY <1>8
  <2> QED
    BY <2>1, <1>4 DEF ScriptInv
<1> QED
  BY <1>6, <1>10, <1>11

\* The kinds of steps, command by command.
LEMMA KindsOfNames ==
  /\ \A name \in Changes : KindsOf(name) = SwitchSteps
  /\ KindsOf("install") = InstallKinds /\ KindsOf("repair") = RepairKinds /\ KindsOf("uninstall") = UninstallKinds
BY DEF KindsOf, Changes

\* When a step is first, what it relies on has been done.
LEMMA FirstStep ==
  ASSUME OpType, ScriptInv, OrderInv, SecretsInv, ForeignInv, NEW h, Advances(h)
  PROVE  /\ h \in Pending /\ op.name \in {"install", "repair", "uninstall"} \cup Changes
         /\ h.do \in KindsOf(op.name) /\ (h.do \in OnMcp => h.n \in Clients)
         /\ h.do \in {"replace_runtime", "unlink_runtime"} => unit \notin Program
         /\ h.do \in WritesMcp \cup MakesUnit => rt = h.run
         /\ h.do = "unlink_runtime" => \A i \in Clients : mcp[i] \in {None, Foreign}
         /\ h.do = "credential" => "device_key" \in secrets
         /\ h.do = "unlink_device_key" => "credential" \notin secrets
         /\ h.do = "enable" => unit # Foreign
<1>1. h \in Pending /\ h \in StepType /\ Pending = {h} \cup Pending' /\ Pending' \subseteq StepType
  BY DEF Advances
<1>2. op.name \in {"install", "repair", "uninstall"} \cup Changes
  <2>1. op.name \in {"none", "install", "repair", "uninstall"} \cup Changes /\ (op.name = "none" => op = Idle)
    BY DEF OpType
  <2>2. op # Idle
    BY DEF Advances, Idle
  <2> QED
    BY <2>1, <2>2
<1>3. h.do \in KindsOf(op.name) /\ (h.do \in OnMcp => h.n \in Clients)
  BY <1>1 DEF ScriptInv
<1>4. \A t \in Pending' : MayPrecede(h, t) /\ t \in StepType
  BY <1>1 DEF Advances
<1>5. h.do \in {"replace_runtime", "unlink_runtime"} => unit \notin Program
  <2>1. SUFFICES ASSUME h.do \in {"replace_runtime", "unlink_runtime"} PROVE ~Has(Stops)
    BY <1>1 DEF OrderInv, Has
  <2>2. \A t \in Pending' : t.do \notin Stops
    BY <2>1, <1>1, <1>4, Past DEF WritesRuntime
  <2> QED
    BY <2>1, <2>2, <1>1 DEF Has, Stops
<1>6. h.do \in WritesMcp \cup MakesUnit => rt = h.run
  <2>1. SUFFICES ASSUME h.do \in WritesMcp \cup MakesUnit PROVE ~Has(WritesRuntime)
    BY <1>1 DEF OrderInv
  <2>2. \A t \in Pending' : t.do \notin WritesRuntime
    BY <2>1, <1>1, <1>4, Past DEF OnMcp
  <2> QED
    BY <2>1, <2>2, <1>1 DEF Has, WritesRuntime, WritesMcp, MakesUnit
<1>7. h.do = "unlink_runtime" => \A i \in Clients : mcp[i] \in {None, Foreign}
  <2>1. SUFFICES ASSUME h.do = "unlink_runtime" PROVE \A i \in Clients : ~HasFor({"unlink_mcp"}, i)
    BY <1>1 DEF OrderInv, Has
  <2>2. \A t \in Pending' : t.do # "unlink_mcp"
    BY <2>1, <1>1, <1>4, Past DEF OnMcp
  <2> QED
    BY <2>1, <2>2, <1>1 DEF HasFor
<1>8. h.do = "credential" => "device_key" \in secrets
  <2>1. SUFFICES ASSUME h.do = "credential" PROVE ~Has({"device_key"})
    BY <1>1 DEF SecretsInv, Has
  <2>2. \A t \in Pending' : t.do # "device_key"
    BY <2>1, <1>1, <1>4, Past
  <2> QED
    BY <2>1, <2>2, <1>1 DEF Has
<1>9. h.do = "unlink_device_key" => "credential" \notin secrets
  <2>1. SUFFICES ASSUME h.do = "unlink_device_key" PROVE ~Has({"unlink_credential"})
    BY <1>1 DEF SecretsInv, Has
  <2>2. \A t \in Pending' : t.do # "unlink_credential"
    BY <2>1, <1>1, <1>4, Past
  <2> QED
    BY <2>1, <2>2, <1>1 DEF Has
<1>10. h.do = "enable" => unit # Foreign
  <2>1. SUFFICES ASSUME h.do = "enable" PROVE ~Has(MakesUnit)
    BY <1>1 DEF ForeignInv, Has
  <2>2. \A t \in Pending' : t.do \notin MakesUnit
    BY <2>1, <1>1, <1>4, Past
  <2> QED
    BY <2>1, <2>2, <1>1 DEF Has, MakesUnit
<1> QED
  BY <1>1, <1>2, <1>3, <1>5, <1>6, <1>7, <1>8, <1>9, <1>10

\* The types of the fields of a configuration.
LEMMA RuntimeFields ==
  /\ \A r \in Runtime : r # None /\ r.py \in Program /\ r.prev \in Program \cup {None}
  /\ None \notin Program /\ Foreign \notin Program /\ Torn \notin Program
  /\ None # Foreign /\ None # Torn /\ Foreign # Torn
BY DeviceAssumption, NoneIsNoRuntime DEF Runtime, Program

\* A step that is done leaves files that can be gone on from.
LEMMA EffectConsistent ==
  ASSUME DeviceInv, NEW h, Advances(h), Effect(h), OpType'
  PROVE  Consistent'
<1> USE RuntimeFields
<1>1. /\ h \in StepType /\ h.run \in Runtime
  BY DEF Advances, StepType
<1>2. /\ h.do \in OnMcp => h.n \in Clients
      /\ h.do \in {"replace_runtime", "unlink_runtime"} => unit \notin Program
      /\ h.do \in WritesMcp \cup MakesUnit => rt = h.run
      /\ h.do = "unlink_runtime" => \A i \in Clients : mcp[i] \in {None, Foreign}
      /\ h.do = "credential" => "device_key" \in secrets
      /\ h.do = "unlink_device_key" => "credential" \notin secrets
      /\ h.do = "enable" => unit # Foreign
  BY FirstStep DEF DeviceInv
<1>3. TypeOK /\ ServiceMatchesRuntime /\ RemainsHaveRuntime /\ CredentialHasKey
  BY DEF DeviceInv, Consistent
<1>4. TypeOK'
  <2>1. rt' \in Runtime \cup {None}
    BY <1>1, <1>3 DEF Effect, TypeOK
  <2>2. mcp' \in [Clients -> Program \cup {None, Foreign, Torn}]
    BY <1>1, <1>2, <1>3 DEF Effect, TypeOK
  <2>3. unit' \in Program \cup {None, Foreign}
    BY <1>1, <1>3 DEF Effect, TypeOK
  <2>4. loaded' \in Program \cup {None}
    BY <1>1, <1>2, <1>3 DEF Effect, TypeOK
  <2>5. secrets' \subseteq Secret
    BY <1>3 DEF Effect, TypeOK, Secret
  <2>6. op'.raised \in Nat /\ \A i \in DOMAIN op'.todo : op'.todo[i].run \in Runtime /\ op'.todo[i].undo \in Runtime \cup {None}
    <3>1. op'.raised \in Nat /\ op'.todo \in Seq(StepType)
      BY DEF OpType
    <3>2. \A i \in DOMAIN op'.todo : op'.todo[i] \in StepType
      BY <3>1
    <3> QED
      BY <3>1, <3>2 DEF StepType
  <2>7. /\ spoilt' \in BOOLEAN /\ programs' \subseteq Program /\ paired' \in BOOLEAN
        /\ platform' \in {"linux", "macos"}
    BY <1>3 DEF TypeOK, Effect
  <2> QED
    BY <2>1, <2>2, <2>3, <2>4, <2>5, <2>6, <2>7 DEF TypeOK
<1>5. ServiceMatchesRuntime'
  BY <1>1, <1>2, <1>3 DEF Effect, ServiceMatchesRuntime, Stops, WritesRuntime, MakesUnit
<1>6. RemainsHaveRuntime'
  BY <1>1, <1>2, <1>3 DEF Effect, RemainsHaveRuntime, TypeOK, Stops, WritesRuntime, MakesUnit, WritesMcp, OnMcp
<1>7. CredentialHasKey'
  BY <1>1, <1>2, <1>3 DEF Effect, CredentialHasKey, Resumable, Secret
<1> QED
  BY <1>4, <1>5, <1>6, <1>7 DEF Consistent

\* A step tells the command it belongs to.
LEMMA CommandOf ==
  ASSUME OpType, ScriptInv, NEW t \in Pending
  PROVE  /\ op.name \in {"install", "repair", "uninstall"} \cup Changes
         /\ t.do \in {"unlink_runtime", "unlink_mcp", "unlink_device_key", "unlink_credential"} => op.name = "uninstall"
         /\ t.do \in {"replace_runtime", "replace_mcp", "clear_service", "program", "health"} => op.name \in Changes
         /\ t.do \in Secret \cup {"create_runtime", "create_mcp", "verify_unit", "write_unit_only"} => op.name = "install"
         /\ t.do \in {"open_mcp", "fill_mcp"} => op.name = "repair"
         /\ t.do \in MakesUnit \cup {"enable"} => op.name # "uninstall"
         /\ t.do \in Stops \cup WritesRuntime => op.name # "repair"
         /\ t.do \in Stops => op.name # "install"
<1>1. op.name \in {"none", "install", "repair", "uninstall"} \cup Changes /\ (op.name = "none" => op = Idle)
  BY DEF OpType
<1>2. op # Idle
  BY DEF Pending, Members, Idle
<1>3. t.do \in KindsOf(op.name)
  BY DEF ScriptInv
<1>4. CASE op.name = "install"
  <2>1. t.do \in InstallKinds
    BY <1>3, <1>4, KindsOfNames
  <2> QED
    BY <1>4, <2>1 DEF InstallKinds, Changes, Secret, MakesUnit, Stops, WritesRuntime
<1>5. CASE op.name = "repair"
  <2>1. t.do \in RepairKinds
    BY <1>3, <1>5, KindsOfNames
  <2> QED
    BY <1>5, <2>1 DEF RepairKinds, Changes, Secret, MakesUnit, Stops, WritesRuntime
<1>6. CASE op.name = "uninstall"
  <2>1. t.do \in UninstallKinds
    BY <1>3, <1>6, KindsOfNames
  <2> QED
    BY <1>6, <2>1 DEF UninstallKinds, Changes, Secret, MakesUnit, Stops, WritesRuntime
<1>7. CASE op.name \in Changes
  <2>1. t.do \in SwitchSteps
    BY <1>3, <1>7, KindsOfNames
  <2> QED
    BY <1>7, <2>1 DEF SwitchSteps, Changes, Secret, MakesUnit, Stops, WritesRuntime
<1> QED
  BY <1>1, <1>2, <1>4, <1>5, <1>6, <1>7

\* The steps that are still to come after h.
LEMMA ToCome ==
  ASSUME OpType, ScriptInv, NEW h, Advances(h), NEW t, t \in Pending'
  PROVE  /\ t \in Pending /\ t \in StepType /\ MayPrecede(h, t) /\ h \in StepType /\ h \in Pending
         /\ h.do \notin Stops /\ t.do \notin Stops => t.run = h.run
BY DEF Advances, ScriptInv

\* The order of the files is kept.
LEMMA EffectOrder ==
  ASSUME DeviceInv, NEW h, Advances(h), Effect(h)
  PROVE  OrderInv'
<1> USE RuntimeFields
<1>1. OpType /\ ScriptInv /\ OrderInv /\ TypeOK
  BY DEF DeviceInv, Consistent
<1>2. h \in Pending /\ h \in StepType /\ Pending = {h} \cup Pending' /\ (h.do \in OnMcp => h.n \in Clients)
  BY <1>1 DEF Advances, ScriptInv
<1>3. ASSUME NEW t, t \in Pending', t.do \in {"replace_runtime", "unlink_runtime"}
      PROVE  unit' \notin Program \/ Has(Stops)'
  <2>1. t \in Pending /\ t \in StepType /\ MayPrecede(h, t)
    BY <1>1, <1>3, ToCome
  <2>2. unit \notin Program \/ Has(Stops)
    BY <1>1, <1>3, <2>1 DEF OrderInv, Has
  <2>3. CASE h.do \in Stops
    BY <2>3 DEF Effect, Stops
  <2>4. CASE h.do \in {"write_unit", "write_unit_only"}
    <3>1. t.do # "replace_runtime"
      BY <1>2, <2>1, <2>4, Past DEF MakesUnit, WritesRuntime
    <3>2. t.do # "unlink_runtime"
      BY <1>1, <1>2, <2>1, <2>4, CommandOf DEF MakesUnit
    <3> QED
      BY <3>1, <3>2, <1>3
  <2>5. CASE h.do \notin Stops \cup {"write_unit", "write_unit_only"}
    <3>1. unit' = unit
      BY <2>5 DEF Effect
    <3>2. Has(Stops) => Has(Stops)'
      BY <1>2, <2>5 DEF Has
    <3> QED
      BY <3>1, <3>2, <2>2
  <2> QED
    BY <2>3, <2>4, <2>5
<1>4. ASSUME NEW t, t \in Pending', t.do \in WritesMcp \cup MakesUnit
      PROVE  rt' = t.run \/ Has(WritesRuntime)'
  <2>1. t \in Pending /\ t \in StepType /\ MayPrecede(h, t)
    BY <1>1, <1>4, ToCome
  <2>2. rt = t.run \/ Has(WritesRuntime)
    BY <1>1, <1>4, <2>1 DEF OrderInv
  <2>3. CASE h.do \in WritesRuntime
    <3>1. h.do \notin Stops /\ t.do \notin Stops
      BY <1>4, <2>3 DEF WritesRuntime, Stops, WritesMcp, MakesUnit
    <3>2. rt' = h.run
      BY <2>3 DEF Effect
    <3> QED
      BY <3>1, <3>2, <1>1, <1>4, ToCome
  <2>4. CASE h.do = "unlink_runtime"
    BY <1>2, <1>4, <2>1, <2>4, Past DEF OnMcp
  <2>5. CASE h.do \notin WritesRuntime \cup {"unlink_runtime"}
    <3>1. rt' = rt
      BY <2>5 DEF Effect
    <3>2. Has(WritesRuntime) => Has(WritesRuntime)'
      BY <1>2, <2>5 DEF Has
    <3> QED
      BY <3>1, <3>2, <2>2
  <2> QED
    BY <2>3, <2>4, <2>5
<1>5. ASSUME NEW t, t \in Pending', t.do = "unlink_runtime", NEW i \in Clients
      PROVE  mcp'[i] \in {None, Foreign} \/ HasFor({"unlink_mcp"}, i)'
  <2>1. t \in Pending /\ op.name = "uninstall"
    BY <1>1, <1>5, ToCome, CommandOf
  <2>2. mcp[i] \in {None, Foreign} \/ HasFor({"unlink_mcp"}, i)
    BY <1>1, <1>5, <2>1 DEF OrderInv, Has
  <2>3. h.do \notin WritesMcp
    BY <1>1, <1>2, <2>1, CommandOf DEF WritesMcp, Changes
  <2>4. CASE h.do = "unlink_mcp" /\ h.n = i
    <3>1. mcp' = [mcp EXCEPT ![i] = None]
      BY <2>3, <2>4 DEF Effect
    <3> QED
      BY <3>1, <1>1 DEF TypeOK
  <2>5. CASE h.do = "unlink_mcp" /\ h.n # i
    <3>1. mcp'[i] = mcp[i]
      BY <1>1, <1>2, <2>3, <2>5 DEF Effect, TypeOK, OnMcp
    <3>2. HasFor({"unlink_mcp"}, i) => HasFor({"unlink_mcp"}, i)'
      BY <1>2, <2>5 DEF HasFor
    <3> QED
      BY <3>1, <3>2, <2>2
  <2>6. CASE h.do # "unlink_mcp"
    <3>1. mcp' = mcp
      BY <2>3, <2>6 DEF Effect
    <3>2. HasFor({"unlink_mcp"}, i) => HasFor({"unlink_mcp"}, i)'
      BY <1>2, <2>6 DEF HasFor
    <3> QED
      BY <3>1, <3>2, <2>2
  <2> QED
    BY <2>4, <2>5, <2>6
<1> QED
  BY <1>3, <1>4, <1>5 DEF OrderInv, Has

\* The order of the secrets is kept.
LEMMA EffectSecrets ==
  ASSUME DeviceInv, NEW h, Advances(h), Effect(h)
  PROVE  SecretsInv'
<1>1. OpType /\ ScriptInv /\ SecretsInv
  BY DEF DeviceInv
<1>2. h \in Pending /\ Pending = {h} \cup Pending'
  BY DEF Advances
<1>3. ASSUME NEW t, t \in Pending', t.do = "credential"
      PROVE  "device_key" \in secrets' \/ Has({"device_key"})'
  <2>1. t \in Pending /\ op.name = "install"
    BY <1>1, <1>3, ToCome, CommandOf DEF Secret
  <2>2. h.do # "unlink_device_key"
    BY <1>1, <1>2, <2>1, CommandOf
  <2>3. "device_key" \in secrets \/ Has({"device_key"})
    BY <1>1, <1>3, <2>1 DEF SecretsInv, Has
  <2>4. CASE h.do = "device_key"
    BY <2>4 DEF Effect, Secret
  <2>5. CASE h.do # "device_key"
    <3>1. Has({"device_key"}) => Has({"device_key"})'
      BY <1>2, <2>5 DEF Has
    <3>2. "device_key" \in secrets => "device_key" \in secrets'
      BY <2>2 DEF Effect
    <3> QED
      BY <2>3, <3>1, <3>2
  <2> QED
    BY <2>4, <2>5
<1>4. ASSUME NEW t, t \in Pending', t.do = "unlink_device_key"
      PROVE  "credential" \notin secrets' \/ Has({"unlink_credential"})'
  <2>1. t \in Pending /\ op.name = "uninstall"
    BY <1>1, <1>4, ToCome, CommandOf
  <2>2. h.do \notin Secret
    BY <1>1, <1>2, <2>1, CommandOf
  <2>3. "credential" \notin secrets \/ Has({"unlink_credential"})
    BY <1>1, <1>4, <2>1 DEF SecretsInv, Has
  <2>4. CASE h.do = "unlink_credential"
    BY <2>2, <2>4 DEF Effect
  <2>5. CASE h.do # "unlink_credential"
    <3>1. Has({"unlink_credential"}) => Has({"unlink_credential"})'
      BY <1>2, <2>5 DEF Has
    <3>2. "credential" \notin secrets => "credential" \notin secrets'
      BY <2>2 DEF Effect
    <3> QED
      BY <2>3, <3>1, <3>2
  <2> QED
    BY <2>4, <2>5
<1> QED
  BY <1>3, <1>4 DEF SecretsInv, Has

\* A switch can still be undone, or is being undone.
LEMMA EffectRestore ==
  ASSUME DeviceInv, NEW h, Advances(h), Effect(h)
  PROVE  RestoreInv'
<1> USE RuntimeFields
<1>1. OpType /\ ScriptInv /\ RestoreInv /\ TypeOK
  BY DEF DeviceInv, Consistent
<1>2. /\ h \in Pending /\ h \in StepType /\ Pending = {h} \cup Pending' /\ (h.do \in OnMcp => h.n \in Clients)
      /\ op'.name = op.name /\ op'.rt = op.rt /\ op'.mcp = op.mcp /\ op'.raised = op.raised
  BY <1>1 DEF Advances, ScriptInv
<1>3. SUFFICES ASSUME op.name \in Changes PROVE RestoreInv'
  BY <1>2 DEF RestoreInv
<1>4. /\ op.rt \in Runtime
      /\ \A i \in Clients : op.mcp[i] \in {None, op.rt.py} /\ (mcp[i] = None <=> op.mcp[i] = None)
  BY <1>1, <1>3 DEF RestoreInv
<1>5. h.do \in SwitchSteps
  BY <1>1, <1>2, <1>3, KindsOfNames DEF ScriptInv
<1>6. /\ h.do \in WritesRuntime => h.do = "replace_runtime"
      /\ h.do \in WritesMcp => h.do = "replace_mcp"
      /\ h.do \notin {"unlink_mcp", "unlink_runtime"} /\ (h.do = "replace_mcp" => h.n \in Clients)
  BY <1>2, <1>5 DEF SwitchSteps, WritesRuntime, WritesMcp, OnMcp
<1>7. h.run \in Runtime
  BY <1>2 DEF StepType
<1>8. /\ rt' = IF h.do = "replace_runtime" THEN h.run ELSE rt
      /\ mcp' = IF h.do = "replace_mcp" THEN [mcp EXCEPT ![h.n] = h.run.py] ELSE mcp
      /\ h.do = "replace_mcp" => mcp[h.n] # None
  BY <1>6 DEF Effect, WritesRuntime, WritesMcp
<1>9. \A i \in Clients : mcp'[i] = None <=> op.mcp[i] = None
  BY <1>1, <1>4, <1>6, <1>7, <1>8 DEF TypeOK
<1>10. ASSUME op.raised = 0, NEW s, s \in Pending'
       PROVE  IF s.undo = None THEN s.do \in {"program", "remove_service"} /\ rt' = op.rt /\ mcp' = op.mcp
                               ELSE s.undo = op.rt
  <2>1. s \in Pending /\ s \in StepType /\ MayPrecede(h, s)
    BY <1>1, <1>10, ToCome
  <2>2. IF s.undo = None THEN s.do \in {"program", "remove_service"} /\ rt = op.rt /\ mcp = op.mcp ELSE s.undo = op.rt
    BY <1>1, <1>3, <1>10, <2>1 DEF RestoreInv
  <2>3. s.do \in {"program", "remove_service"} => h.do \notin {"replace_runtime", "replace_mcp"}
    BY <1>2, <2>1, Past DEF WritesRuntime, OnMcp, WritesMcp, Stops
  <2> QED
    BY <2>2, <2>3, <1>8
<1>11. ASSUME op.raised = 1
       PROVE  /\ \A s \in Pending' : s.do \notin Stops => s.run = op.rt
              /\ rt' = op.rt \/ Has({"replace_runtime"})'
              /\ \A i \in Clients : mcp'[i] = op.mcp[i] \/ HasFor({"replace_mcp"}, i)'
  <2>1. /\ \A s \in Pending : s.do \notin Stops => s.run = op.rt
        /\ rt = op.rt \/ Has({"replace_runtime"})
        /\ \A i \in Clients : mcp[i] = op.mcp[i] \/ HasFor({"replace_mcp"}, i)
    BY <1>1, <1>3, <1>11 DEF RestoreInv
  <2>2. \A s \in Pending' : s.do \notin Stops => s.run = op.rt
    BY <1>2, <2>1
  <2>3. rt' = op.rt \/ Has({"replace_runtime"})'
    <3>1. CASE h.do = "replace_runtime"
      BY <3>1, <1>2, <1>8, <2>1 DEF Stops
    <3>2. CASE h.do # "replace_runtime"
      <4>1. Has({"replace_runtime"}) => Has({"replace_runtime"})'
        BY <1>2, <3>2 DEF Has
      <4> QED
        BY <4>1, <3>2, <1>8, <2>1
    <3> QED
      BY <3>1, <3>2
  <2>4. ASSUME NEW i \in Clients PROVE mcp'[i] = op.mcp[i] \/ HasFor({"replace_mcp"}, i)'
    <3>1. CASE h.do = "replace_mcp" /\ h.n = i
      <4>1. h.run = op.rt
        BY <1>2, <2>1, <3>1 DEF Stops
      <4>2. op.mcp[i] = op.rt.py
        BY <1>4, <1>8, <3>1
      <4> QED
        BY <4>1, <4>2, <3>1, <1>1, <1>8 DEF TypeOK
    <3>2. CASE ~(h.do = "replace_mcp" /\ h.n = i)
      <4>1. HasFor({"replace_mcp"}, i) => HasFor({"replace_mcp"}, i)'
        BY <1>2, <3>2 DEF HasFor
      <4>2. mcp'[i] = mcp[i]
        BY <1>1, <1>6, <1>8, <3>2 DEF TypeOK
      <4> QED
        BY <4>1, <4>2, <2>1
    <3> QED
      BY <3>1, <3>2
  <2> QED
    BY <2>2, <2>3, <2>4
<1> QED
  BY <1>2, <1>4, <1>9, <1>10, <1>11 DEF RestoreInv

\* Files that are not made yet are still to be made.
LEMMA EffectComplete ==
  ASSUME DeviceInv, NEW h, Advances(h), Effect(h)
  PROVE  CompleteInv'
<1> USE RuntimeFields
<1>1. OpType /\ ScriptInv /\ OrderInv /\ SecretsInv /\ ForeignInv /\ CompleteInv /\ TypeOK
  BY DEF DeviceInv, Consistent
<1>2. /\ h \in Pending /\ h \in StepType /\ Pending = {h} \cup Pending' /\ Pending' \subseteq Pending
      /\ op'.name = op.name /\ op'.raised = op.raised
  BY DEF Advances
<1>3. SUFFICES ASSUME op.name \notin {"none", "uninstall"}, op.raised = 0 PROVE CompleteInv'
  BY <1>2 DEF CompleteInv
<1>4. /\ Has(Stops) => Has(WritesRuntime)
      /\ rt # None \/ Has(WritesRuntime)
      /\ \A i \in Clients : (~Has(WritesRuntime) /\ mcp[i] = rt.py) \/ HasFor(WritesMcp, i)
      /\ (~Has(WritesRuntime) /\ unit = rt.py) \/ Has(MakesUnit)
      /\ platform = "macos" /\ op.name \in Changes => loaded \in {None, rt.py} \/ Has(MakesUnit)
      /\ \A s \in Pending : s.do = "open_mcp" => mcp[s.n] \in {None, rt.py}
  BY <1>1, <1>3 DEF CompleteInv
<1>5. /\ h.do \in OnMcp => h.n \in Clients
      /\ h.do \in WritesMcp \cup MakesUnit => rt = h.run
  BY <1>1, FirstStep
<1>6. h.do \notin {"unlink_runtime", "unlink_mcp"}
  BY <1>1, <1>2, <1>3, CommandOf
<1>7. /\ rt' = IF h.do \in WritesRuntime THEN h.run ELSE rt
      /\ mcp' = IF h.do \in WritesMcp \ {"open_mcp"} THEN [mcp EXCEPT ![h.n] = h.run.py] ELSE mcp
      /\ h.do = "open_mcp" => mcp[h.n] # None
  BY <1>6 DEF Effect
<1>8. h.run \in Runtime
  BY <1>2 DEF StepType
<1>9. /\ h.do \in OnMcp \cup MakesUnit \cup {"enable"} => ~Has(WritesRuntime)'
      /\ h.do \in WritesRuntime => ~Has(Stops)'
      /\ h.do = "enable" => ~Has(MakesUnit)'
  <2>1. \A t \in Pending' : t \in StepType /\ MayPrecede(h, t)
    BY <1>1, ToCome
  <2> QED
    BY <1>2, <2>1, Past DEF Has
<1>10. Has(WritesRuntime)' => Has(WritesRuntime)
  BY <1>2 DEF Has
<1>11. ASSUME NEW K, h.do \notin K PROVE Has(K) => Has(K)'
  BY <1>2, <1>11 DEF Has
<1>12. Has(Stops)' => Has(WritesRuntime)'
  <2>1. Has(Stops)' => Has(Stops)
    BY <1>2 DEF Has
  <2> QED
    BY <2>1, <1>4, <1>9, <1>11
<1>13. rt' # None \/ Has(WritesRuntime)'
  BY <1>4, <1>7, <1>8, <1>11
<1>14. ASSUME NEW i \in Clients PROVE (~Has(WritesRuntime)' /\ mcp'[i] = rt'.py) \/ HasFor(WritesMcp, i)'
  <2>1. CASE h.do \in WritesMcp /\ h.n = i
    <3>1. h.do \notin WritesRuntime /\ h.do \in OnMcp
      BY <2>1 DEF WritesMcp, WritesRuntime, OnMcp
    <3>2. mcp'[i] = rt.py
      BY <1>1, <1>2, <1>4, <1>5, <1>7, <2>1 DEF TypeOK
    <3> QED
      BY <3>1, <3>2, <1>7, <1>9
  <2>2. CASE ~(h.do \in WritesMcp /\ h.n = i)
    <3>1. HasFor(WritesMcp, i) => HasFor(WritesMcp, i)'
      BY <1>2, <2>2 DEF HasFor
    <3>2. mcp'[i] = mcp[i]
      BY <1>1, <1>5, <1>7, <2>2 DEF TypeOK, OnMcp
    <3>3. CASE h.do \in WritesRuntime
      BY <3>1, <3>3, <1>2, <1>4 DEF Has
    <3>4. CASE h.do \notin WritesRuntime
      BY <3>1, <3>2, <3>4, <1>4, <1>7, <1>10
    <3> QED
      BY <3>3, <3>4
  <2> QED
    BY <2>1, <2>2
<1>15. CASE h.do \in WritesRuntime \cup Stops
  <2>1. Has(WritesRuntime) \/ Has(Stops)
    BY <1>2, <1>15 DEF Has
  <2>2. Has(MakesUnit)
    BY <2>1, <1>4
  <2>3. Has(MakesUnit)'
    BY <2>2, <1>11, <1>15 DEF WritesRuntime, Stops, MakesUnit
  <2>4. \A s \in Pending : s.do # "open_mcp"
    BY <1>1, <1>2, <1>15, CommandOf
  <2> QED
    BY <2>3, <2>4, <1>2, <1>12, <1>13, <1>14 DEF CompleteInv
<1>16. CASE h.do \in MakesUnit
  <2>1. h.do \notin WritesRuntime /\ h.do \notin WritesMcp /\ rt' = rt /\ mcp' = mcp
    BY <1>7, <1>16 DEF MakesUnit, WritesRuntime, WritesMcp
  <2>2. unit' = h.run.py
    BY <1>16 DEF Effect, MakesUnit, Stops
  <2>3. unit' = rt'.py /\ ~Has(WritesRuntime)'
    BY <2>1, <2>2, <1>5, <1>9, <1>16
  <2>4. ASSUME platform = "macos", op.name \in Changes PROVE loaded' = None
    <3>1. h.do = "write_unit"
      BY <2>4, <1>1, <1>2, <1>16, CommandOf DEF MakesUnit, Changes
    <3> QED
      BY <2>4, <3>1 DEF Effect, Stops
  <2>5. platform' = platform
    BY DEF Effect
  <2> QED
    BY <2>1, <2>3, <2>4, <2>5, <1>2, <1>4, <1>12, <1>13, <1>14 DEF CompleteInv
<1>17. CASE h.do \notin WritesRuntime \cup Stops \cup MakesUnit
  <2>1. rt' = rt /\ unit' = unit /\ (Has(MakesUnit) => Has(MakesUnit)')
    BY <1>7, <1>11, <1>17 DEF Effect, MakesUnit
  <2>2. (~Has(WritesRuntime)' /\ unit' = rt'.py) \/ Has(MakesUnit)'
    BY <2>1, <1>4, <1>10
  <2>3. ASSUME platform = "macos", op.name \in Changes PROVE loaded' \in {None, rt'.py} \/ Has(MakesUnit)'
    <3>1. loaded' = loaded \/ (h.do = "enable" /\ loaded' = unit)
      BY <1>17 DEF Effect
    <3> QED
      BY <3>1, <2>1, <2>2, <2>3, <1>4, <1>9
  <2>4. ASSUME NEW s, s \in Pending', s.do = "open_mcp" PROVE mcp'[s.n] \in {None, rt'.py}
    <3>1. s \in Pending /\ s \in StepType /\ MayPrecede(h, s) /\ s.n \in Clients
      BY <2>4, <1>1, ToCome DEF ScriptInv, OnMcp, WritesMcp
    <3>2. op.name = "repair"
      BY <3>1, <2>4, <1>1, CommandOf
    <3>3. h.do \in WritesMcp => h.do \in {"open_mcp", "fill_mcp"}
      BY <3>2, <1>1, <1>2, CommandOf DEF WritesMcp, Changes
    <3>4. h.do \in WritesMcp => s.n # h.n
      BY <3>1, <3>3, <2>4, <1>2, Past
    <3>5. mcp'[s.n] = mcp[s.n]
      BY <3>1, <3>4, <1>1, <1>5, <1>7 DEF TypeOK, OnMcp
    <3> QED
      BY <3>1, <3>5, <2>1, <2>4, <1>4
  <2>5. platform' = platform
    BY DEF Effect
  <2> QED
    BY <2>1, <2>2, <2>3, <2>4, <2>5, <1>2, <1>12, <1>13, <1>14 DEF CompleteInv
<1> QED
  BY <1>15, <1>16, <1>17

\* Files of others are left alone.
LEMMA EffectForeign ==
  ASSUME DeviceInv, NEW h, Advances(h), Effect(h)
  PROVE  ForeignInv'
<1> USE RuntimeFields
<1>1. OpType /\ ScriptInv /\ ForeignInv /\ TypeOK
  BY DEF DeviceInv, Consistent
<1>2. /\ h \in Pending /\ h \in StepType /\ Pending = {h} \cup Pending' /\ Pending' \subseteq Pending
      /\ op'.name = op.name /\ h.run \in Runtime
  BY DEF Advances, StepType
<1>3. ASSUME op.name \in Changes \cup {"repair", "uninstall"}, NEW i \in Clients PROVE mcp'[i] # Foreign
  <2>1. mcp[i] # Foreign
    BY <1>1, <1>3 DEF ForeignInv
  <2> QED
    BY <2>1, <1>1, <1>2 DEF Effect, TypeOK
<1>4. unit' = unit \/ (unit' # Foreign /\ h.do \in Stops \cup MakesUnit)
  BY <1>2 DEF Effect, MakesUnit
<1>5. Has({"clear_service"})' => unit' # Foreign
  BY <1>1, <1>2, <1>4 DEF ForeignInv, Has
<1>6. Has({"enable"})' => unit' # Foreign \/ Has(MakesUnit)'
  <2>1. CASE h.do = "verify_unit"
    BY <2>1, <1>2 DEF Effect, Stops
  <2>2. CASE h.do \in MakesUnit \ {"verify_unit"}
    BY <2>2, <1>2 DEF Effect, MakesUnit
  <2>3. CASE h.do \notin MakesUnit
    <3>1. Has(MakesUnit) => Has(MakesUnit)'
      BY <1>2, <2>3 DEF Has
    <3>2. Has({"enable"})' => Has({"enable"})
      BY <1>2 DEF Has
    <3> QED
      BY <3>1, <3>2, <1>1, <1>4 DEF ForeignInv
  <2> QED
    BY <2>1, <2>2, <2>3
<1>7. (\E s \in Pending' : s.undo # None) => unit' # Foreign \/ Has({"remove_service"})'
  <2>1. CASE h.do = "remove_service"
    BY <2>1 DEF Effect, Stops
  <2>2. CASE h.do # "remove_service"
    <3>1. Has({"remove_service"}) => Has({"remove_service"})'
      BY <1>2, <2>2 DEF Has
    <3>2. (\E s \in Pending' : s.undo # None) => (\E s \in Pending : s.undo # None)
      BY <1>2
    <3> QED
      BY <3>1, <3>2, <1>1, <1>4 DEF ForeignInv
  <2> QED
    BY <2>1, <2>2
<1> QED
  BY <1>2, <1>3, <1>5, <1>6, <1>7 DEF ForeignInv

\* The steps of install and uninstall make no MCP file disagree.
LEMMA EffectSpoil ==
  ASSUME DeviceInv, NEW h, Advances(h), Effect(h)
  PROVE  SpoilInv'
<1> USE RuntimeFields
<1>1. /\ OpType /\ ScriptInv /\ OrderInv /\ SecretsInv /\ ForeignInv /\ SpoilInv /\ TypeOK
      /\ RemainsHaveRuntime
  BY DEF DeviceInv, Consistent
<1>2. h \in Pending /\ h \in StepType /\ op'.name = op.name /\ h.run \in Runtime
  BY DEF Advances, StepType
<1>3. /\ h.do \in OnMcp => h.n \in Clients
      /\ h.do \in WritesMcp \cup MakesUnit => rt = h.run
      /\ op.name # "none"
  BY <1>1, FirstStep DEF Changes
<1>4. SUFFICES ASSUME op.name \in {"install", "uninstall"}, rt' # None, ~spoilt, NEW i \in Clients
               PROVE  mcp'[i] \in {None, Foreign, rt'.py}
  BY <1>2, <1>3 DEF SpoilInv, Effect
<1>5. rt # None => mcp[i] \in {None, Foreign, rt.py}
  BY <1>1, <1>4 DEF SpoilInv
<1>6. h.do # "replace_runtime" /\ h.do # "unlink_runtime"
  BY <1>1, <1>2, <1>4, CommandOf DEF Effect, Changes, WritesRuntime
<1>7. CASE h.do = "create_runtime"
  <2>1. rt' = h.run /\ mcp' = mcp /\ rt \in {None, h.run}
    BY <1>7 DEF Effect, WritesRuntime, WritesMcp
  <2> QED
    BY <2>1, <1>1, <1>5 DEF RemainsHaveRuntime
<1>8. CASE h.do # "create_runtime"
  <2>1. rt' = rt
    BY <1>4, <1>6, <1>8 DEF Effect, WritesRuntime
  <2> QED
    BY <2>1, <1>1, <1>3, <1>4, <1>5 DEF Effect, TypeOK, OnMcp
<1> QED
  BY <1>7, <1>8

\* A step that is done keeps the invariant.
LEMMA EffectInv ==
  ASSUME DeviceInv, op.todo # << >>, Done, \A h \in StepType : h = step => Effect(h)
  PROVE  DeviceInv'
<1>1. OpType' /\ ScriptInv' /\ \E h : Advances(h)
  BY DoneAdvances DEF DeviceInv
<1>2. PICK h : Advances(h)
  BY <1>1
<1>3. Effect(h)
  BY <1>2 DEF Advances
<1> QED
  BY <1>1, <1>2, <1>3, EffectConsistent, EffectOrder, EffectSecrets, EffectRestore, EffectComplete, EffectForeign,
     EffectSpoil DEF DeviceInv

-----------------------------------------------------------------------------
(* Every step of a command keeps the invariant                             *)

\* The first step is of the type of steps.
LEMMA StepTyped == ASSUME OpType, op.todo # << >> PROVE step \in StepType
<1>1. op.todo \in Seq(StepType)
  BY DEF OpType
<1> QED
  BY <1>1, TailMembers DEF step

\* The actions that do a step.
DoesStep ==
  \/ WriteRuntime \/ WriteMcp \/ SkipMcp \/ WriteUnit \/ Enable \/ RemoveService \/ StopIgnored
  \/ InstallProgram \/ StepPasses \/ Backup \/ RemoveData \/ MakeSecret \/ PairRequest \/ Unlink

\* They have its effect.
LEMMA DoneEffect ==
  ASSUME DeviceInv, DoesStep
  PROVE  op.todo # << >> /\ Done /\ \A h \in StepType : h = step => Effect(h)
<1> USE DEF files, world, Go, At, WritesRuntime, WritesMcp, Stops, Secret
<1>1. TypeOK /\ OpType
  BY DEF DeviceInv, Consistent
<1>2. programs \subseteq Program /\ paired \in BOOLEAN
  BY <1>1 DEF TypeOK
<1>3. ~Blocked /\ op.todo # << >> =>
        /\ step.do = "replace_runtime" => rt # None
        /\ step.do = "create_runtime" => rt \in {None, step.run}
        /\ step.do = "replace_mcp" => mcp[step.n] # None
        /\ step.do = "create_mcp" => mcp[step.n] \in {None, step.run.py}
        /\ step.do = "write_unit" => unit = None /\ (platform = "macos" => loaded = None)
        /\ step.do = "write_unit_only" => unit = None
        /\ step.do = "verify_unit" => unit = step.run.py
        /\ step.do = "remove_service" => unit \in {None, step.run.py}
  BY DEF Blocked, SlotTaken
<1>4. ASSUME WriteRuntime \/ WriteMcp \/ SkipMcp, NEW h, h = step
      PROVE  op.todo # << >> /\ Done /\ Effect(h)
  BY <1>2, <1>3, <1>4 DEF WriteRuntime, WriteMcp, SkipMcp, Skipped, Effect
<1>5. ASSUME WriteUnit \/ Enable \/ RemoveService \/ StopIgnored, NEW h, h = step
      PROVE  op.todo # << >> /\ Done /\ Effect(h)
  BY <1>2, <1>3, <1>5 DEF WriteUnit, Enable, RemoveService, StopIgnored, Effect
<1>6. ASSUME InstallProgram \/ StepPasses \/ Backup \/ RemoveData \/ PairRequest, NEW h \in StepType, h = step
      PROVE  op.todo # << >> /\ Done /\ Effect(h)
  BY <1>2, <1>3, <1>6, RuntimeFields DEF InstallProgram, StepPasses, Backup, RemoveData, PairRequest, Effect, StepType
<1>7. ASSUME MakeSecret, NEW h, h = step
      PROVE  op.todo # << >> /\ Done /\ Effect(h)
  BY <1>2, <1>3, <1>7 DEF MakeSecret, Effect
<1>8. ASSUME Unlink, NEW h, h = step
      PROVE  op.todo # << >> /\ Done /\ Effect(h)
  <2>1. CASE Go("unlink_mcp") /\ mcp' = [mcp EXCEPT ![step.n] = None] /\ UNCHANGED <<rt, unit, world>>
    BY <1>2, <1>8, <2>1 DEF Effect
  <2>2. CASE Go("unlink_runtime") /\ rt' = None /\ UNCHANGED <<mcp, unit, world>>
    BY <1>2, <1>8, <2>2 DEF Effect
  <2>3. CASE \E s \in Secret :
               /\ Go(CASE s = "credential" -> "unlink_credential" [] s = "device_key" -> "unlink_device_key"
                       [] s = "sidecar_key" -> "unlink_sidecar_key")
               /\ secrets' = secrets \ {s}
               /\ UNCHANGED <<platform, files, loaded, programs, paired>>
    BY <1>2, <1>8, <2>3 DEF Effect
  <2> QED
    BY <1>8, <2>1, <2>2, <2>3 DEF Unlink
<1>9. op.todo # << >>
  BY <1>4, <1>5, <1>7, <1>8 DEF DoesStep, InstallProgram, StepPasses, Backup, RemoveData, PairRequest
<1>10. PICK h : h = step
  OBVIOUS
<1>11. h \in StepType
  BY <1>1, <1>9, <1>10, StepTyped
<1>12. Done /\ Effect(h)
  BY <1>4, <1>5, <1>6, <1>7, <1>8, <1>10, <1>11 DEF DoesStep
<1> QED
  BY <1>9, <1>10, <1>12

\* They keep the invariant.
LEMMA DoneSteps == ASSUME DeviceInv, DoesStep PROVE DeviceInv'
BY DoneEffect, EffectInv

\* What runs after a step of a switch has raised.
LEMMA RecoveryScript ==
  ASSUME NEW h \in StepType
  PROVE  /\ h.undo = None => Recovery(h) = << >>
         /\ h.undo # None =>
              /\ h.do = "health" => /\ IsSwitch(Recovery(h), {"remove_service"} \cup BodyKinds, h.undo, h.run)
                                    /\ Includes(Recovery(h), {"remove_service"})
              /\ h.do # "health" => IsSwitch(Recovery(h), {"clear_service"} \cup BodyKinds, h.undo, None)
<1>1. h.run \in Runtime /\ h.undo \in Runtime \cup {None}
  BY DEF StepType
<1>2. h.undo = None => Recovery(h) = << >>
  BY DEF Recovery
<1>3. ASSUME h.undo # None, h.do = "health"
      PROVE  /\ IsSwitch(Recovery(h), {"remove_service"} \cup BodyKinds, h.undo, h.run)
             /\ Includes(Recovery(h), {"remove_service"})
  <2>1. Recovery(h) = Activate(h.run, h.undo) /\ h.undo \in Runtime
    BY <1>1, <1>3 DEF Recovery
  <2>2. /\ IsSwitch(Activate(h.run, h.undo), {"remove_service"} \cup BodyKinds, h.undo, h.run)
        /\ Includes(Activate(h.run, h.undo), {"remove_service"})
    BY <1>1, <2>1, ActivateScript
  <2> QED
    BY <2>1, <2>2
<1>4. ASSUME h.undo # None, h.do # "health"
      PROVE  IsSwitch(Recovery(h), {"clear_service"} \cup BodyKinds, h.undo, None)
  <2>1. Recovery(h) = Restore(h.run, h.undo) /\ h.undo \in Runtime
    BY <1>1, <1>4 DEF Recovery
  <2> QED
    BY <1>1, <2>1, RestoreScript
<1> QED
  BY <1>2, <1>3, <1>4

\* The parts of the invariant that are not about the running command, when
\* only the service may have gone.
LEMMA ServiceGone ==
  ASSUME TypeOK, ServiceMatchesRuntime, RemainsHaveRuntime, CredentialHasKey, OpType',
         rt' = rt, mcp' = mcp, secrets' = secrets, spoilt' = spoilt, programs' = programs,
         unit' \in {unit, None}, loaded' \in {loaded, None}, paired' \in BOOLEAN, platform' = platform
  PROVE  Consistent'
<1>1. op'.raised \in Nat /\ \A i \in DOMAIN op'.todo : op'.todo[i].run \in Runtime /\ op'.todo[i].undo \in Runtime \cup {None}
  <2>1. op'.raised \in Nat /\ op'.todo \in Seq(StepType)
    BY DEF OpType
  <2>2. \A i \in DOMAIN op'.todo : op'.todo[i] \in StepType
    BY <2>1
  <2> QED
    BY <2>1, <2>2 DEF StepType
<1>2. TypeOK'
  BY <1>1 DEF TypeOK
<1>3. ServiceMatchesRuntime' /\ RemainsHaveRuntime' /\ CredentialHasKey'
  BY RuntimeFields DEF ServiceMatchesRuntime, RemainsHaveRuntime, CredentialHasKey, Resumable
<1> QED
  BY <1>2, <1>3 DEF Consistent

\* A step that raises: the files stay, and the script of the recovery
\* starts from a state it can deal with.
LEMMA RaiseInv ==
  ASSUME DeviceInv, op.todo # << >>, Raise,
         rt' = rt, mcp' = mcp, secrets' = secrets, spoilt' = spoilt, programs' = programs,
         unit' \in {unit, None}, loaded' \in {loaded, None}, paired' \in BOOLEAN, platform' = platform
  PROVE  DeviceInv'
<1> USE RuntimeFields
<1>1. /\ OpType /\ ScriptInv /\ OrderInv /\ SecretsInv /\ RestoreInv /\ ForeignInv /\ SpoilInv
      /\ TypeOK /\ ServiceMatchesRuntime /\ RemainsHaveRuntime /\ CredentialHasKey
  BY DEF DeviceInv, Consistent
<1>2. PICK h : h = step
  OBVIOUS
<1> DEFINE Op == [name : {"none", "install", "repair", "uninstall"} \cup Changes, todo : Seq(StepType),
                  rt : Runtime \cup {None}, mcp : [Clients -> Program \cup {None, Foreign, Torn}], raised : Nat]
<1>3. op \in Op /\ op.todo \in Seq(StepType) /\ Ordered(op.todo) /\ (op.name = "none" => op = Idle)
  BY <1>1 DEF OpType
<1>4. /\ h \in StepType /\ Pending = {h} \cup Members(Tail(op.todo)) /\ Tail(op.todo) \in Seq(StepType)
      /\ \A t \in Members(Tail(op.todo)) : MayPrecede(h, t)
  BY <1>2, <1>3, TailMembers DEF step, Pending
<1>5. /\ h.undo = None => Recovery(h) = << >>
      /\ h.undo # None =>
           /\ h.do = "health" => /\ IsSwitch(Recovery(h), {"remove_service"} \cup BodyKinds, h.undo, h.run)
                                 /\ Includes(Recovery(h), {"remove_service"})
           /\ h.do # "health" => IsSwitch(Recovery(h), {"clear_service"} \cup BodyKinds, h.undo, None)
  BY <1>4, RecoveryScript
<1>6. Recovery(h) \in Seq(StepType) /\ Ordered(Recovery(h))
  <2>1. << >> \in Seq(StepType) /\ Ordered(<< >>)
    BY ShortScripts
  <2> QED
    BY <1>5, <2>1 DEF IsSwitch, Script
<1>7. /\ op' \in Op /\ op'.todo = Recovery(h) /\ op'.name = op.name /\ op'.rt = op.rt /\ op'.mcp = op.mcp
      /\ op'.raised = op.raised + 1
  <2>1. op' = [op EXCEPT !.todo = Recovery(h), !.raised = op.raised + 1]
    BY <1>2 DEF Raise
  <2>2. op.raised \in Nat /\ op.raised + 1 \in Nat
    BY <1>3
  <2>3. PICK r, n : r = Recovery(h) /\ n = op.raised + 1
    OBVIOUS
  <2>4. op' = [op EXCEPT !.todo = r, !.raised = n] /\ r \in Seq(StepType) /\ n \in Nat
    BY <2>1, <2>2, <2>3, <1>6
  <2>5. op' \in Op /\ op'.todo = r /\ op'.name = op.name /\ op'.rt = op.rt /\ op'.mcp = op.mcp /\ op'.raised = n
    BY <2>4, <1>3
  <2> QED
    BY <2>3, <2>5
<1>8. op.name # "none" /\ op.raised \in Nat
  BY <1>3 DEF Idle
<1>9. OpType'
  BY <1>6, <1>7, <1>8 DEF OpType
<1>10. Pending' = Members(Recovery(h))
  BY <1>7 DEF Pending
<1>11. Consistent'
  BY <1>1, <1>9, ServiceGone
<1>12. SpoilInv' /\ CompleteInv'
  BY <1>1, <1>7, <1>8 DEF SpoilInv, CompleteInv
<1>13. op.name \in Changes \cup {"repair", "uninstall"} => \A i \in Clients : mcp'[i] # Foreign
  BY <1>1 DEF ForeignInv
<1>14. op.name \in Changes =>
         /\ op.rt \in Runtime
         /\ \A i \in Clients : op.mcp[i] \in {None, op.rt.py} /\ (mcp'[i] = None <=> op.mcp[i] = None)
  BY <1>1 DEF RestoreInv
<1>15. CASE h.undo = None
  <2>1. Pending' = {}
    BY <1>5, <1>10, <1>15, ShortScripts
  <2>2. ScriptInv' /\ OrderInv' /\ SecretsInv'
    BY <2>1 DEF ScriptInv, OrderInv, SecretsInv, Has
  <2>3. ForeignInv'
    BY <2>1, <1>7, <1>13 DEF ForeignInv, Has
  <2>4. op.name \in Changes /\ op.raised = 0 => rt = op.rt /\ mcp = op.mcp
    BY <1>1, <1>4, <1>15 DEF RestoreInv
  <2>5. RestoreInv'
    BY <2>1, <2>4, <1>7, <1>8, <1>14 DEF RestoreInv
  <2> QED
    BY <2>2, <2>3, <2>5, <1>9, <1>11, <1>12 DEF DeviceInv
<1>16. CASE h.undo # None
  <2>1. op.name \in Changes /\ h.do \notin Stops \cup {"program"} /\ h.do \in SwitchSteps
    BY <1>1, <1>4, <1>16, KindsOfNames DEF ScriptInv
  <2>2. \A t \in Members(Tail(op.todo)) : t \in StepType
    BY <1>4 DEF Members
  <2>3. ~Has({"remove_service"})
    <3>1. h.do \in WritesRuntime \cup OnMcp \cup MakesUnit \cup {"enable", "health"}
      BY <2>1 DEF SwitchSteps, Stops, WritesRuntime, OnMcp, WritesMcp, MakesUnit
    <3>2. \A t \in Members(Tail(op.todo)) : t.do # "remove_service"
      BY <3>1, <2>2, <1>4, Past DEF Stops
    <3> QED
      BY <3>2, <2>1, <1>4 DEF Has, Stops
  <2>4. unit' # Foreign
    BY <1>1, <1>4, <1>16, <2>3 DEF ForeignInv
  <2>5. PICK back \in {h.run, None} :
          /\ \A s \in Pending' : /\ s.do \in {"remove_service", "clear_service"} \cup BodyKinds
                                 /\ s.do \notin Stops => s.run = h.undo
                                 /\ s.undo = IF s.do \in Stops \cup {"program"} THEN None ELSE back
                                 /\ s.do \in OnMcp => s.n \in Clients
          /\ Has({"replace_runtime"})' /\ Has({"write_unit"})' /\ (\A i \in Clients : HasFor({"replace_mcp"}, i)')
          /\ Has(Stops)' /\ (back = None \/ Has({"remove_service"})')
    <3>1. CASE h.do = "health"
      <4>1. IsSwitch(Recovery(h), {"remove_service"} \cup BodyKinds, h.undo, h.run) /\ Includes(Recovery(h), {"remove_service"})
        BY <3>1, <1>5, <1>16
      <4> QED
        BY <4>1, <1>10 DEF IsSwitch, Script, Includes, IncludesEach, Has, HasFor
    <3>2. CASE h.do # "health"
      <4>1. IsSwitch(Recovery(h), {"clear_service"} \cup BodyKinds, h.undo, None)
        BY <3>2, <1>5, <1>16
      <4> QED
        BY <4>1, <1>10 DEF IsSwitch, Script, Includes, IncludesEach, Has, HasFor
    <3> QED
      BY <3>1, <3>2
  <2>6. \A d \in {"remove_service", "clear_service"} \cup BodyKinds :
          d \in SwitchSteps /\ d \notin {"unlink_runtime", "credential", "unlink_device_key", "program"}
    BY DEF BodyKinds, SwitchSteps
  <2>7. ScriptInv'
    <3>1. KindsOf(op.name) = SwitchSteps
      BY <2>1, KindsOfNames
    <3> QED
      BY <3>1, <2>1, <2>5, <2>6, <1>7 DEF ScriptInv
  <2>8. OrderInv'
    <3>1. Has(Stops)' /\ Has(WritesRuntime)' /\ ~Has({"unlink_runtime"})'
      BY <2>5, <2>6 DEF Has, WritesRuntime
    <3> QED
      BY <3>1 DEF OrderInv
  <2>9. SecretsInv'
    BY <2>5, <2>6 DEF SecretsInv, Has
  <2>10. ForeignInv'
    BY <2>4, <1>7, <1>13 DEF ForeignInv
  <2>11. RestoreInv'
    <3>1. op.raised = 0 => h.undo = op.rt
      BY <1>1, <1>4, <1>16, <2>1 DEF RestoreInv
    <3> QED
      BY <3>1, <2>5, <1>7, <1>8, <1>14 DEF RestoreInv
  <2> QED
    BY <2>7, <2>8, <2>9, <2>10, <2>11, <1>9, <1>11, <1>12 DEF DeviceInv
<1> QED
  BY <1>15, <1>16

\* The first step of a script turned into another one.
LEMMA ExceptFirst ==
  ASSUME NEW todo \in Seq(StepType), todo # << >>, NEW f \in StepType, Ordered(todo),
         \A t \in Members(Tail(todo)) : MayPrecede(f, t)
  PROVE  LET new == [todo EXCEPT ![1] = f]
         IN new \in Seq(StepType) /\ Ordered(new) /\ Members(new) = {f} \cup Members(Tail(todo))
<1> DEFINE new == [todo EXCEPT ![1] = f]
<1>1. /\ Len(todo) \in Nat \ {0} /\ DOMAIN todo = 1..Len(todo) /\ new \in Seq(StepType)
      /\ DOMAIN new = 1..Len(todo) /\ new[1] = f /\ \A k \in 2..Len(todo) : new[k] = todo[k]
  OBVIOUS
<1>2. /\ DOMAIN Tail(todo) = 1..(Len(todo) - 1) /\ \A k \in 1..(Len(todo) - 1) : Tail(todo)[k] = todo[k + 1]
  OBVIOUS
<1> HIDE DEF new
<1>3. \A k \in 2..Len(todo) : new[k] \in Members(Tail(todo))
  <2>1. SUFFICES ASSUME NEW k \in 2..Len(todo) PROVE new[k] \in Members(Tail(todo))
    OBVIOUS
  <2>2. k - 1 \in 1..(Len(todo) - 1) /\ (k - 1) + 1 = k
    BY <1>1
  <2>3. Tail(todo)[k - 1] = new[k]
    BY <2>2, <1>1, <1>2
  <2> QED
    BY <2>2, <2>3, <1>2 DEF Members
<1>4. \A k \in 1..(Len(todo) - 1) : Tail(todo)[k] \in Members(new)
  <2>1. SUFFICES ASSUME NEW k \in 1..(Len(todo) - 1) PROVE Tail(todo)[k] \in Members(new)
    OBVIOUS
  <2>2. k + 1 \in 2..Len(todo) /\ k + 1 \in DOMAIN new /\ new[k + 1] = Tail(todo)[k]
    BY <1>1, <1>2
  <2> QED
    BY <2>2 DEF Members
<1>5. Members(new) = {f} \cup Members(Tail(todo))
  <2>1. \A x \in Members(new) : x \in {f} \cup Members(Tail(todo))
    BY <1>1, <1>3 DEF Members
  <2>2. \A x \in Members(Tail(todo)) : x \in Members(new)
    BY <1>2, <1>4 DEF Members
  <2>3. f \in Members(new)
    BY <1>1 DEF Members
  <2> QED
    BY <2>1, <2>2, <2>3
<1>6. Ordered(new)
  <2>1. SUFFICES ASSUME NEW i \in 1..Len(todo), NEW j \in 1..Len(todo), i < j PROVE MayPrecede(new[i], new[j])
    BY <1>1 DEF Ordered
  <2>2. j \in 2..Len(todo) /\ (i = 1 \/ i \in 2..Len(todo))
    BY <1>1, <2>1
  <2>3. CASE i = 1
    BY <2>2, <2>3, <1>1, <1>3
  <2>4. CASE i \in 2..Len(todo)
    BY <2>1, <2>2, <2>4, <1>1 DEF Ordered
  <2> QED
    BY <2>2, <2>3, <2>4
<1> QED
  BY <1>1, <1>5, <1>6 DEF new

\* repair opens an MCP file: it is not valid before it is filled.
LEMMA OpenInv ==
  ASSUME DeviceInv, OpenMcp
  PROVE  DeviceInv'
<1> USE RuntimeFields
<1>1. /\ OpType /\ ScriptInv /\ OrderInv /\ SecretsInv /\ CompleteInv /\ ForeignInv
      /\ TypeOK /\ ServiceMatchesRuntime /\ RemainsHaveRuntime /\ CredentialHasKey
  BY DEF DeviceInv, Consistent
<1>2. op.todo # << >> /\ step.do = "open_mcp" /\ mcp[step.n] = None
  BY DEF OpenMcp, At, Skipped
<1>3. PICK h, f : h = step /\ f = [h EXCEPT !.do = "fill_mcp"]
  OBVIOUS
<1> DEFINE Op == [name : {"none", "install", "repair", "uninstall"} \cup Changes, todo : Seq(StepType),
                  rt : Runtime \cup {None}, mcp : [Clients -> Program \cup {None, Foreign, Torn}], raised : Nat]
<1>4. op \in Op /\ op.todo \in Seq(StepType) /\ Ordered(op.todo)
  BY <1>1 DEF OpType
<1>5. /\ h \in StepType /\ Pending = {h} \cup Members(Tail(op.todo)) /\ Tail(op.todo) \in Seq(StepType)
      /\ h = op.todo[1] /\ \A t \in Members(Tail(op.todo)) : MayPrecede(h, t)
  <2>1. Head(op.todo) = op.todo[1]
    BY <1>2, <1>4
  <2> QED
    BY <2>1, <1>2, <1>3, <1>4, TailMembers DEF step, Pending
<1>6. /\ f \in StepType /\ f.do = "fill_mcp" /\ f.run = h.run /\ f.n = h.n /\ f.undo = h.undo /\ h.do = "open_mcp"
  BY <1>2, <1>3, <1>5 DEF StepType, Kinds, RepairKinds
<1>7. \A t \in Members(Tail(op.todo)) : MayPrecede(f, t)
  <2>1. Rank(f.do) = Rank(h.do)
    BY <1>6, Ranks
  <2> QED
    BY <2>1, <1>5, <1>6 DEF MayPrecede
<1>8. PICK todo : todo = [op.todo EXCEPT ![1] = f]
  OBVIOUS
<1>9. todo \in Seq(StepType) /\ Ordered(todo) /\ Members(todo) = {f} \cup Members(Tail(op.todo))
  BY <1>2, <1>4, <1>6, <1>7, <1>8, ExceptFirst
<1>10. /\ op' \in Op /\ op'.todo = todo /\ op'.name = op.name /\ op'.rt = op.rt /\ op'.mcp = op.mcp
       /\ op'.raised = op.raised
  <2>1. op' = [op EXCEPT !.todo = [op.todo EXCEPT ![1] = [op.todo[1] EXCEPT !.do = "fill_mcp"]]]
    BY DEF OpenMcp
  <2>2. op' = [op EXCEPT !.todo = todo]
    BY <2>1, <1>3, <1>5, <1>8
  <2> QED
    BY <2>2, <1>4, <1>9
<1>11. op.name = "repair" /\ h.n \in Clients /\ h.undo = None
  <2>1. h \in Pending
    BY <1>5
  <2>2. op.name = "repair"
    BY <2>1, <1>1, <1>6, CommandOf
  <2>3. h.n \in Clients
    BY <2>1, <1>1, <1>6 DEF ScriptInv, OnMcp, WritesMcp
  <2>4. h.undo = None
    BY <2>1, <2>2, <1>1 DEF ScriptInv, Changes
  <2> QED
    BY <2>2, <2>3, <2>4
<1>12. OpType'
  BY <1>9, <1>10, <1>11 DEF OpType
<1>13. Pending' = {f} \cup Members(Tail(op.todo)) /\ Pending = {h} \cup Members(Tail(op.todo))
  BY <1>5, <1>9, <1>10 DEF Pending
<1>14. /\ rt' = rt /\ unit' = unit /\ loaded' = loaded /\ programs' = programs /\ secrets' = secrets
       /\ paired' = paired /\ platform' = platform /\ spoilt' = spoilt /\ mcp' = [mcp EXCEPT ![h.n] = Torn]
  BY <1>3 DEF OpenMcp, world
<1>15. mcp' \in [Clients -> Program \cup {None, Foreign, Torn}] /\ mcp'[h.n] = Torn
       /\ \A i \in Clients : i # h.n => mcp'[i] = mcp[i]
  BY <1>1, <1>11, <1>14 DEF TypeOK
<1>16. ~Has(WritesRuntime) /\ rt = h.run
  <2>1. \A t \in Pending : t.do \notin WritesRuntime
    BY <1>1, <1>11, CommandOf
  <2> QED
    BY <2>1, <1>1, <1>6, <1>13 DEF Has, OrderInv, WritesMcp
<1>17. ScriptInv'
  <2>1. KindsOf(op.name) = RepairKinds
    BY <1>11, KindsOfNames
  <2>2. f.do \in RepairKinds /\ f.do \notin Stops /\ h.do \notin Stops
    BY <1>6 DEF RepairKinds, Stops
  <2> QED
    BY <2>1, <2>2, <1>1, <1>6, <1>10, <1>11, <1>13 DEF ScriptInv
<1>18. OrderInv'
  <2>1. ~Has({"replace_runtime", "unlink_runtime"})'
    <3>1. \A t \in Pending : t.do \notin {"replace_runtime", "unlink_runtime"}
      BY <1>1, <1>11, CommandOf DEF Changes
    <3> QED
      BY <3>1, <1>6, <1>13 DEF Has
  <2>2. \A t \in Pending' : t.do \in WritesMcp \cup MakesUnit => rt = t.run
    BY <1>1, <1>6, <1>13, <1>16 DEF OrderInv
  <2> QED
    BY <2>1, <2>2, <1>14 DEF OrderInv, Has
<1>19. SecretsInv'
  <2>1. \A t \in Pending' : t.do \notin {"credential", "unlink_device_key"}
    <3>1. \A t \in Pending : t.do \notin {"credential", "unlink_device_key"}
      BY <1>1, <1>11, CommandOf DEF Secret
    <3> QED
      BY <3>1, <1>6, <1>13
  <2> QED
    BY <2>1 DEF SecretsInv, Has
<1>20. RestoreInv' /\ SpoilInv'
  BY <1>10, <1>11 DEF RestoreInv, SpoilInv, Changes
<1>21. CompleteInv'
  <2>1. SUFFICES ASSUME op.raised = 0 PROVE CompleteInv'
    BY <1>10 DEF CompleteInv
  <2>2. /\ Has(Stops) => Has(WritesRuntime)
        /\ rt # None \/ Has(WritesRuntime)
        /\ \A i \in Clients : (~Has(WritesRuntime) /\ mcp[i] = rt.py) \/ HasFor(WritesMcp, i)
        /\ (~Has(WritesRuntime) /\ unit = rt.py) \/ Has(MakesUnit)
        /\ \A s \in Pending : s.do = "open_mcp" => mcp[s.n] \in {None, rt.py}
    BY <1>1, <1>11, <2>1 DEF CompleteInv
  <2>3. /\ f.do \in WritesMcp /\ f.do \notin Stops \cup WritesRuntime \cup MakesUnit
        /\ h.do \in WritesMcp /\ h.do \notin Stops \cup WritesRuntime \cup MakesUnit
    BY <1>6 DEF WritesMcp, Stops, WritesRuntime, MakesUnit
  <2>4. /\ Has(Stops)' = Has(Stops) /\ Has(WritesRuntime)' = Has(WritesRuntime) /\ Has(MakesUnit)' = Has(MakesUnit)
    BY <2>3, <1>13 DEF Has
  <2>5. ASSUME NEW i \in Clients PROVE mcp'[i] = rt.py \/ HasFor(WritesMcp, i)'
    <3>1. CASE i = h.n
      BY <3>1, <2>3, <1>6, <1>13 DEF HasFor
    <3>2. CASE i # h.n
      BY <3>2, <2>2, <2>3, <1>6, <1>13, <1>15 DEF HasFor
    <3> QED
      BY <3>1, <3>2
  <2>6. ASSUME NEW s, s \in Pending', s.do = "open_mcp" PROVE mcp'[s.n] \in {None, rt.py}
    <3>1. s \in Members(Tail(op.todo)) /\ s \in Pending
      BY <2>6, <1>6, <1>13
    <3>2. s \in StepType
      BY <3>1, <1>5 DEF Members
    <3>3. s.n # h.n
      BY <3>1, <3>2, <2>6, <1>5, <1>6, Past
    <3>4. s.n \in Clients
      BY <3>1, <2>6, <1>1 DEF ScriptInv, OnMcp, WritesMcp
    <3> QED
      BY <3>1, <3>3, <3>4, <2>2, <2>6, <1>15
  <2> QED
    BY <2>2, <2>4, <2>5, <2>6, <1>10, <1>11, <1>14, <1>16 DEF CompleteInv, Changes
<1>22. ForeignInv'
  <2>1. \A i \in Clients : mcp'[i] # Foreign
    BY <1>1, <1>11, <1>15 DEF ForeignInv
  <2>2. unit # Foreign \/ ~Has({"clear_service"})
    BY <1>1 DEF ForeignInv
  <2>3. f.do \notin {"clear_service", "enable", "remove_service"} \cup MakesUnit /\ h.do \notin {"clear_service", "enable", "remove_service"} \cup MakesUnit
    BY <1>6 DEF MakesUnit
  <2>4. \A t \in Pending' : t.undo = None
    BY <1>1, <1>6, <1>11, <1>13 DEF ScriptInv, Changes
  <2>5. Has({"clear_service"})' = Has({"clear_service"}) /\ Has({"enable"})' = Has({"enable"}) /\ Has(MakesUnit)' = Has(MakesUnit)
    BY <2>3, <1>13 DEF Has
  <2> QED
    BY <2>1, <2>4, <2>5, <1>1, <1>14 DEF ForeignInv
<1>23. Consistent'
  <2>1. op'.raised \in Nat /\ \A i \in DOMAIN op'.todo : op'.todo[i].run \in Runtime /\ op'.todo[i].undo \in Runtime \cup {None}
    <3>1. \A i \in DOMAIN todo : todo[i] \in StepType
      BY <1>9
    <3> QED
      BY <3>1, <1>10 DEF StepType
  <2>2. TypeOK'
    BY <2>1, <1>1, <1>14, <1>15 DEF TypeOK
  <2>3. rt # None
    BY <1>5, <1>16 DEF StepType
  <2>4. ServiceMatchesRuntime' /\ RemainsHaveRuntime' /\ CredentialHasKey'
    BY <2>3, <1>1, <1>14 DEF ServiceMatchesRuntime, RemainsHaveRuntime, CredentialHasKey, Resumable
  <2> QED
    BY <2>2, <2>4 DEF Consistent
<1> QED
  BY <1>12, <1>17, <1>18, <1>19, <1>20, <1>21, <1>22, <1>23 DEF DeviceInv

-----------------------------------------------------------------------------
(* A command begins                                                        *)

\* The files and the script when a command begins.
LEMMA Begun ==
  ASSUME DeviceInv, NEW name \in {"install", "repair", "uninstall"} \cup Changes,
         NEW todo \in Seq(StepType), Ordered(todo), Begin(name, todo)
  PROVE  /\ OpType' /\ Consistent' /\ Pending' = Members(todo) /\ op.name = "none" /\ Pending = {}
         /\ op'.name = name /\ op'.rt = rt /\ op'.mcp = mcp /\ op'.raised = 0
         /\ rt' = rt /\ mcp' = mcp /\ unit' = unit /\ loaded' = loaded /\ secrets' = secrets /\ spoilt' = spoilt
<1>1. /\ rt' = rt /\ mcp' = mcp /\ unit' = unit /\ loaded' = loaded /\ programs' = programs /\ secrets' = secrets
      /\ paired' = paired /\ platform' = platform /\ spoilt' = spoilt
  BY DEF Begin, files, world
<1>2. TypeOK /\ ServiceMatchesRuntime /\ RemainsHaveRuntime /\ CredentialHasKey
  BY DEF DeviceInv, Consistent
<1>3. op = Idle /\ op' = [name |-> name, todo |-> todo, rt |-> rt, mcp |-> mcp, raised |-> 0]
  BY DEF Begin
<1>4. rt \in Runtime \cup {None} /\ mcp \in [Clients -> Program \cup {None, Foreign, Torn}] /\ paired \in BOOLEAN
  BY <1>2 DEF TypeOK
<1>5. op'.name = name /\ op'.todo = todo /\ op'.rt = rt /\ op'.mcp = mcp /\ op'.raised = 0 /\ name # "none"
  BY <1>3 DEF Changes
<1>6. OpType'
  <2>1. op' \in [name : {"none", "install", "repair", "uninstall"} \cup Changes, todo : Seq(StepType),
                 rt : Runtime \cup {None}, mcp : [Clients -> Program \cup {None, Foreign, Torn}], raised : Nat]
    BY <1>3, <1>4
  <2> QED
    BY <2>1, <1>5 DEF OpType
<1>7. Consistent'
  BY <1>1, <1>2, <1>4, <1>6, ServiceGone
<1>8. op.name = "none" /\ op.todo = << >>
  BY <1>3 DEF Idle
<1>9. Pending = {} /\ Pending' = Members(todo)
  BY <1>5, <1>8, ShortScripts DEF Pending
<1> QED
  BY <1>1, <1>5, <1>6, <1>7, <1>8, <1>9

\* An install begins.
LEMMA InstallInv ==
  ASSUME DeviceInv, NEW resume \in BOOLEAN, NEW autostart \in BOOLEAN, Install(resume, autostart)
  PROVE  DeviceInv'
<1>1. PICK run, todo : run = Fresh(Base) /\ todo = InstallSteps(run, autostart)
  OBVIOUS
<1>2. run \in Runtime
  BY <1>1 DEF Fresh, Runtime, Program
<1>3. /\ Script(todo, InstallKinds) /\ With(todo, run, None)
      /\ Includes(todo, {"create_runtime"}) /\ IncludesEach(todo, {"create_mcp"}) /\ Includes(todo, MakesUnit)
      /\ Includes(todo, {"credential"}) => Includes(todo, {"device_key"})
  BY <1>1, <1>2, InstallScript
<1>4. Begin("install", todo)
  BY <1>1 DEF Install
<1>5. /\ OpType' /\ Consistent' /\ Pending' = Members(todo) /\ op.name = "none"
      /\ op'.name = "install" /\ op'.raised = 0 /\ rt' = rt /\ mcp' = mcp /\ unit' = unit /\ spoilt' = spoilt
  BY <1>3, <1>4, Begun DEF Script
<1>6. \A s \in Pending' : s.do \in InstallKinds /\ s.run = run /\ s.undo = None /\ (s.do \in OnMcp => s.n \in Clients)
  BY <1>3, <1>5 DEF Script, With
<1>7. /\ Has(WritesRuntime)' /\ Has(MakesUnit)' /\ (\A i \in Clients : HasFor(WritesMcp, i)')
      /\ Has({"credential"})' => Has({"device_key"})'
  BY <1>3, <1>5 DEF Includes, IncludesEach, Has, HasFor, WritesRuntime, WritesMcp
<1>8. \A d \in InstallKinds : d \notin Stops \cup {"replace_runtime", "unlink_runtime", "unlink_device_key", "open_mcp", "clear_service"}
  BY DEF InstallKinds, Stops
<1>9. ScriptInv'
  BY <1>5, <1>6, KindsOfNames DEF ScriptInv
<1>10. OrderInv' /\ SecretsInv'
  BY <1>6, <1>7, <1>8 DEF OrderInv, SecretsInv, Has
<1>11. RestoreInv'
  BY <1>5 DEF RestoreInv, Changes
<1>12. CompleteInv'
  BY <1>5, <1>6, <1>7, <1>8 DEF CompleteInv, Has, Changes
<1>13. ForeignInv'
  BY <1>5, <1>6, <1>7, <1>8 DEF ForeignInv, Has, Changes
<1>14. SpoilInv'
  BY <1>5 DEF SpoilInv, DeviceInv
<1> QED
  BY <1>5, <1>9, <1>10, <1>11, <1>12, <1>13, <1>14 DEF DeviceInv

\* A switch begins.
LEMMA SwitchInv ==
  ASSUME DeviceInv, NEW name \in Changes, NEW todo, NEW new, NEW old, NEW K, K \subseteq SwitchSteps \ {"clear_service"},
         old = rt, IsSwitch(todo, K, new, old), Includes(todo, {"remove_service"}), Begin(name, todo),
         rt # None, McpManaged
  PROVE  DeviceInv'
<1> USE RuntimeFields
<1>1. /\ OpType' /\ Consistent' /\ Pending' = Members(todo)
      /\ op'.name = name /\ op'.rt = rt /\ op'.mcp = mcp /\ op'.raised = 0
      /\ rt' = rt /\ mcp' = mcp /\ unit' = unit
  BY Begun DEF IsSwitch, Script
<1>2. rt \in Runtime
  BY DEF DeviceInv, Consistent, TypeOK
<1>3. \A s \in Pending' : /\ s.do \in SwitchSteps /\ s.do # "clear_service"
                          /\ s.do \notin Stops => s.run = new
                          /\ s.undo = IF s.do \in Stops \cup {"program"} THEN None ELSE old
                          /\ s.do \in OnMcp => s.n \in Clients
  BY <1>1 DEF IsSwitch, Script
<1>4. /\ Has(WritesRuntime)' /\ Has(MakesUnit)' /\ (\A i \in Clients : HasFor(WritesMcp, i)')
      /\ Has(Stops)' /\ Has({"remove_service"})'
  BY <1>1 DEF IsSwitch, Includes, IncludesEach, Has, HasFor, WritesRuntime, WritesMcp, MakesUnit
<1>5. \A d \in SwitchSteps : d \notin {"unlink_runtime", "credential", "unlink_device_key", "open_mcp"}
  BY DEF SwitchSteps
<1>6. ScriptInv'
  <2>1. KindsOf(name) = SwitchSteps
    BY KindsOfNames
  <2> QED
    BY <2>1, <1>1, <1>3 DEF ScriptInv
<1>7. OrderInv' /\ SecretsInv'
  BY <1>3, <1>4, <1>5 DEF OrderInv, SecretsInv, Has
<1>8. RestoreInv'
  BY <1>1, <1>2, <1>3 DEF RestoreInv, McpManaged, Stops
<1>9. CompleteInv'
  BY <1>1, <1>3, <1>4, <1>5 DEF CompleteInv, Has
<1>10. ForeignInv'
  <2>1. \A i \in Clients : mcp[i] # Foreign
    BY <1>2 DEF McpManaged
  <2> QED
    BY <2>1, <1>1, <1>3, <1>4 DEF ForeignInv, Has
<1>11. SpoilInv'
  BY <1>1 DEF SpoilInv, Changes
<1> QED
  BY <1>1, <1>6, <1>7, <1>8, <1>9, <1>10, <1>11 DEF DeviceInv

\* An upgrade or a rollback begins.
LEMMA ChangeInv ==
  ASSUME DeviceInv, Rollback \/ \E r \in Release : Upgrade(r)
  PROVE  DeviceInv'
<1>1. TypeOK
  BY DEF DeviceInv, Consistent
<1>2. CASE Rollback
  <2>1. rt # None /\ McpManaged /\ rt \in Runtime /\ rt.prev \in Program
    BY <1>1, <1>2 DEF Rollback, TypeOK
  <2>2. PICK old, new, todo : old = rt /\ new = Fresh(rt.prev) /\ todo = Switch(old, new)
    OBVIOUS
  <2>3. old \in Runtime /\ new \in Runtime
    BY <2>1, <2>2 DEF Fresh, Runtime
  <2>4. Begin("rollback", todo)
    BY <1>2, <2>2 DEF Rollback
  <2>5. PICK K : K = {"remove_service"} \cup BodyKinds \cup {"health"}
    OBVIOUS
  <2>6. IsSwitch(todo, K, new, old) /\ Includes(todo, {"remove_service"})
    BY <2>2, <2>3, <2>5, SwitchScript
  <2>7. K \subseteq SwitchSteps \ {"clear_service"} /\ "rollback" \in Changes
    BY <2>5 DEF BodyKinds, SwitchSteps, Changes
  <2> QED
    BY <2>1, <2>2, <2>4, <2>6, <2>7, SwitchInv
<1>3. CASE \E r \in Release : Upgrade(r)
  <2>1. PICK r \in Release : Upgrade(r)
    BY <1>3
  <2>2. rt # None /\ McpManaged /\ rt \in Runtime
    BY <1>1, <2>1 DEF Upgrade, TypeOK
  <2>3. PICK old, new, todo : old = rt /\ new = [py |-> r, prev |-> rt.py] /\ todo = <<Do("program", new)>> \o Switch(old, new)
    OBVIOUS
  <2>4. old \in Runtime /\ new \in Runtime
    BY <2>2, <2>3, RuntimeFields DEF Runtime, Program
  <2>5. Begin("upgrade", todo)
    BY <2>1, <2>3 DEF Upgrade
  <2>6. PICK K : K = SwitchSteps \ {"clear_service"}
    OBVIOUS
  <2>7. IsSwitch(todo, K, new, old) /\ Includes(todo, {"remove_service"})
    BY <2>3, <2>4, <2>6, UpgradeScript
  <2>8. "upgrade" \in Changes
    BY DEF Changes
  <2> QED
    BY <2>2, <2>3, <2>5, <2>6, <2>7, <2>8, SwitchInv
<1> QED
  BY <1>2, <1>3

\* A repair begins.
LEMMA RepairInv ==
  ASSUME DeviceInv, Repair
  PROVE  DeviceInv'
<1> USE RuntimeFields
<1>1. rt # None /\ McpManaged /\ UnitManaged /\ rt \in Runtime
  BY DEF Repair, DeviceInv, Consistent, TypeOK
<1>2. PICK run, todo : run = rt /\ todo = RepairSteps(run)
  OBVIOUS
<1>3. /\ Script(todo, {"open_mcp", "write_unit", "enable"}) /\ With(todo, run, None)
      /\ IncludesEach(todo, {"open_mcp"}) /\ (unit = None => Includes(todo, {"write_unit"}))
  BY <1>1, <1>2, RepairScript
<1>4. Begin("repair", todo)
  BY <1>2 DEF Repair
<1>5. /\ OpType' /\ Consistent' /\ Pending' = Members(todo)
      /\ op'.name = "repair" /\ op'.raised = 0 /\ rt' = rt /\ mcp' = mcp /\ unit' = unit
  BY <1>3, <1>4, Begun DEF Script
<1>6. \A s \in Pending' : s.do \in {"open_mcp", "write_unit", "enable"} /\ s.run = run /\ s.undo = None /\ (s.do \in OnMcp => s.n \in Clients)
  BY <1>3, <1>5 DEF Script, With
<1>7. (\A i \in Clients : HasFor(WritesMcp, i)') /\ (unit = None => Has(MakesUnit)')
  BY <1>3, <1>5 DEF Includes, IncludesEach, Has, HasFor, WritesMcp, MakesUnit
<1>8. \A d \in {"open_mcp", "write_unit", "enable"} :
        d \notin Stops \cup WritesRuntime \cup {"unlink_runtime", "credential", "unlink_device_key"} /\ d \in RepairKinds
  BY DEF RepairKinds, Stops, WritesRuntime
<1>9. ScriptInv'
  BY <1>5, <1>6, <1>8, KindsOfNames DEF ScriptInv
<1>10. OrderInv' /\ SecretsInv'
  BY <1>2, <1>5, <1>6 DEF OrderInv, SecretsInv, Has
<1>11. RestoreInv' /\ SpoilInv'
  BY <1>5 DEF RestoreInv, SpoilInv, Changes
<1>12. CompleteInv'
  <2>1. ~Has(Stops)' /\ ~Has(WritesRuntime)'
    BY <1>6, <1>8 DEF Has
  <2>2. unit = rt.py \/ Has(MakesUnit)'
    BY <1>1, <1>7 DEF UnitManaged
  <2>3. \A s \in Pending' : s.do = "open_mcp" => mcp[s.n] \in {None, rt.py}
    BY <1>1, <1>6 DEF McpManaged, OnMcp, WritesMcp
  <2> QED
    BY <2>1, <2>2, <2>3, <1>1, <1>5, <1>7 DEF CompleteInv, Changes
<1>13. ForeignInv'
  <2>1. unit # Foreign /\ \A i \in Clients : mcp[i] # Foreign
    BY <1>1 DEF UnitManaged, McpManaged
  <2> QED
    BY <2>1, <1>5 DEF ForeignInv
<1> QED
  BY <1>5, <1>9, <1>10, <1>11, <1>12, <1>13 DEF DeviceInv

\* An uninstall begins.
LEMMA UninstallInv ==
  ASSUME DeviceInv, NEW purge, Uninstall(purge)
  PROVE  DeviceInv'
<1> USE RuntimeFields
<1>1. rt # None /\ McpManaged /\ UnitManaged /\ rt \in Runtime
  BY DEF Uninstall, DeviceInv, Consistent, TypeOK
<1>2. PICK run, todo : run = rt /\ todo = UninstallSteps(run, purge)
  OBVIOUS
<1>3. /\ Script(todo, UninstallKinds) /\ With(todo, run, None)
      /\ Includes(todo, {"remove_service"}) /\ IncludesEach(todo, {"unlink_mcp"})
      /\ Includes(todo, {"unlink_device_key"}) => Includes(todo, {"unlink_credential"})
  BY <1>1, <1>2, UninstallScript
<1>4. Begin("uninstall", todo)
  BY <1>2 DEF Uninstall
<1>5. /\ OpType' /\ Consistent' /\ Pending' = Members(todo) /\ op.name = "none"
      /\ op'.name = "uninstall" /\ op'.raised = 0 /\ rt' = rt /\ mcp' = mcp /\ unit' = unit /\ spoilt' = spoilt
  BY <1>3, <1>4, Begun DEF Script
<1>6. \A s \in Pending' : s.do \in UninstallKinds /\ s.run = run /\ s.undo = None /\ (s.do \in OnMcp => s.n \in Clients)
  BY <1>3, <1>5 DEF Script, With
<1>7. /\ Has(Stops)' /\ (\A i \in Clients : HasFor({"unlink_mcp"}, i)')
      /\ Has({"unlink_device_key"})' => Has({"unlink_credential"})'
  BY <1>3, <1>5 DEF Includes, IncludesEach, Has, HasFor, Stops
<1>8. \A d \in UninstallKinds : d \notin WritesMcp \cup MakesUnit \cup {"credential", "clear_service", "enable"}
  BY DEF UninstallKinds, WritesMcp, MakesUnit
<1>9. ScriptInv'
  BY <1>5, <1>6, KindsOfNames DEF ScriptInv
<1>10. OrderInv' /\ SecretsInv'
  BY <1>6, <1>7, <1>8 DEF OrderInv, SecretsInv, Has
<1>11. RestoreInv' /\ CompleteInv'
  BY <1>5 DEF RestoreInv, CompleteInv, Changes
<1>12. ForeignInv'
  <2>1. unit # Foreign /\ \A i \in Clients : mcp[i] # Foreign
    BY <1>1 DEF UnitManaged, McpManaged
  <2> QED
    BY <2>1, <1>5 DEF ForeignInv
<1>13. SpoilInv'
  BY <1>5 DEF SpoilInv, DeviceInv
<1> QED
  BY <1>5, <1>9, <1>10, <1>11, <1>12, <1>13 DEF DeviceInv

-----------------------------------------------------------------------------
(* What holds when a command has ended, and between commands               *)

\* No steps are left.
LEMMA NothingLeft == ASSUME op.todo = << >> PROVE Pending = {} /\ (\A K : ~Has(K)) /\ \A K, i : ~HasFor(K, i)
BY ShortScripts DEF Pending, Has, HasFor

\* The files after an upgrade or rollback that raised once.
LEMMA RestoredAtEnd == ASSUME DeviceInv PROVE FailedChangeRestoresFiles
<1>1. SUFFICES ASSUME Ended, op.name \in Changes, op.raised = 1 PROVE rt = op.rt /\ mcp = op.mcp
  BY DEF FailedChangeRestoresFiles
<1>2. (\A K : ~Has(K)) /\ \A K, i : ~HasFor(K, i)
  BY <1>1, NothingLeft DEF Ended
<1>3. rt = op.rt /\ \A i \in Clients : mcp[i] = op.mcp[i]
  BY <1>1, <1>2 DEF DeviceInv, RestoreInv
<1>4. mcp \in [Clients -> Program \cup {None, Foreign, Torn}] /\ op.mcp \in [Clients -> Program \cup {None, Foreign, Torn}]
  BY DEF DeviceInv, Consistent, TypeOK, OpType
<1> QED
  BY <1>3, <1>4

\* The files after a command that has not raised.
LEMMA FilesAtEnd == ASSUME DeviceInv PROVE FilesComplete
<1>1. SUFFICES ASSUME Ended, op.raised = 0, op.name # "uninstall"
               PROVE  /\ rt # None /\ unit = rt.py
                      /\ \A i \in Clients : mcp[i] = rt.py
  BY DEF FilesComplete
<1>2. (\A K : ~Has(K)) /\ \A K, i : ~HasFor(K, i)
  BY <1>1, NothingLeft DEF Ended
<1>3. op.name # "none"
  BY <1>1 DEF Ended, DeviceInv, OpType
<1> QED
  BY <1>1, <1>2, <1>3 DEF DeviceInv, CompleteInv

\* The process after an upgrade or rollback that has not raised, under launchd.
LEMMA ReplacedAtEnd == ASSUME DeviceInv PROVE SwitchReplacesProcess
<1>1. SUFFICES ASSUME platform = "macos", Ended, op.raised = 0, op.name \in Changes PROVE loaded \in {None, rt.py}
  BY DEF SwitchReplacesProcess
<1>2. ~Has(MakesUnit)
  BY <1>1, NothingLeft DEF Ended
<1>3. op.name \notin {"none", "uninstall"}
  BY <1>1 DEF Changes
<1> QED
  BY <1>1, <1>2, <1>3 DEF DeviceInv, CompleteInv

\* The files between commands.
LEMMA UnspoiltBetween == ASSUME DeviceInv PROVE OnlySwitchesSpoil
BY DEF DeviceInv, SpoilInv, OnlySwitchesSpoil, Idle

\* The record of no command has its type.
LEMMA IdleType ==
  /\ Idle \in [name : {"none", "install", "repair", "uninstall"} \cup Changes, todo : Seq(StepType),
               rt : Runtime \cup {None}, mcp : [Clients -> Program \cup {None, Foreign, Torn}], raised : Nat]
  /\ Idle.name = "none" /\ Idle.todo = << >> /\ Idle.raised = 0 /\ Members(<< >>) = {} /\ Ordered(<< >>)
<1>1. << >> \in Seq(StepType) /\ Members(<< >>) = {} /\ Ordered(<< >>)
  BY ShortScripts
<1> QED
  BY <1>1 DEF Idle

\* Between commands only the files matter.
LEMMA IdleInv ==
  ASSUME op' = Idle, Consistent', SpoilInv'
  PROVE  DeviceInv'
<1>1. OpType' /\ Pending' = {} /\ op'.name = "none"
  BY IdleType DEF OpType, Pending
<1>2. ScriptInv' /\ OrderInv' /\ SecretsInv'
  BY <1>1 DEF ScriptInv, OrderInv, SecretsInv, Has
<1>3. RestoreInv' /\ CompleteInv'
  BY <1>1 DEF RestoreInv, CompleteInv, Changes
<1>4. ForeignInv'
  BY <1>1 DEF ForeignInv, Has, Changes
<1> QED
  BY <1>1, <1>2, <1>3, <1>4 DEF DeviceInv

\* A command returns, raises or is killed.
LEMMA EndInv ==
  ASSUME DeviceInv, Finish \/ Crash
  PROVE  DeviceInv'
<1> USE RuntimeFields
<1>1. /\ op' = Idle /\ op # Idle /\ rt' = rt /\ mcp' = mcp /\ unit' = unit /\ loaded' = loaded /\ programs' = programs
      /\ secrets' = secrets /\ paired' = paired /\ platform' = platform
  BY DEF Finish, Crash, files, world
<1>2. TypeOK /\ ServiceMatchesRuntime /\ RemainsHaveRuntime /\ CredentialHasKey /\ OpType
  BY DEF DeviceInv, Consistent
<1>3. spoilt' \in BOOLEAN /\ (spoilt => spoilt')
  BY <1>2 DEF Finish, Crash, TypeOK
<1>4. Consistent'
  <2>1. op'.raised \in Nat /\ op'.todo = << >>
    BY <1>1, IdleType
  <2>2. TypeOK'
    BY <2>1, <1>1, <1>2, <1>3 DEF TypeOK
  <2> QED
    BY <2>2, <1>1, <1>2 DEF Consistent, ServiceMatchesRuntime, RemainsHaveRuntime, CredentialHasKey, Resumable
<1>5. op.name \in {"install", "repair", "uninstall"} \cup Changes /\ op.raised \in Nat
  BY <1>1, <1>2 DEF OpType
<1>6. SpoilInv'
  <2>1. SUFFICES ASSUME ~spoilt', rt # None, NEW i \in Clients PROVE mcp[i] \in {None, Foreign, rt.py}
    BY <1>1 DEF SpoilInv
  <2>2. ~spoilt
    BY <2>1, <1>3
  <2>3. CASE op.name \in {"install", "uninstall"}
    BY <2>1, <2>2, <2>3 DEF DeviceInv, SpoilInv
  <2>4. CASE op.name \in Changes \cup {"repair"}
    <3>1. Finish
      BY <2>1, <2>4 DEF Crash
    <3>2. Ended
      BY <3>1 DEF Finish, Ended
    <3>3. op.raised = 0 \/ (op.raised = 1 /\ op.name \in Changes)
      <4>1. ~(op.name \in Changes /\ op.raised > 1) /\ ~(op.name = "repair" /\ op.raised > 0)
        BY <3>1, <2>1, Zenon DEF Finish
      <4> QED
        BY <4>1, <2>4, <1>5 DEF Changes
    <3>4. CASE op.raised = 0
      <4>1. op.name # "uninstall"
        BY <2>4 DEF Changes
      <4> QED
        BY <4>1, <3>2, <3>4, FilesAtEnd DEF FilesComplete
    <3>5. CASE op.raised = 1 /\ op.name \in Changes
      <4>1. rt = op.rt /\ mcp = op.mcp
        BY <3>2, <3>5, RestoredAtEnd DEF FailedChangeRestoresFiles
      <4> QED
        BY <4>1, <3>5 DEF DeviceInv, RestoreInv
    <3> QED
      BY <3>3, <3>4, <3>5
  <2> QED
    BY <1>5, <2>3, <2>4
<1> QED
  BY <1>1, <1>4, <1>6, IdleInv

\* The service process ends.
LEMMA ServiceStopsInv ==
  ASSUME DeviceInv, ServiceStops
  PROVE  DeviceInv'
<1>1. /\ op' = op /\ rt' = rt /\ mcp' = mcp /\ unit' = unit /\ loaded' = None /\ programs' = programs
      /\ secrets' = secrets /\ paired' = paired /\ platform' = platform /\ spoilt' = spoilt
  BY DEF ServiceStops, files
<1>2. Pending' = Pending /\ \A K : Has(K)' = Has(K) /\ \A i : HasFor(K, i)' = HasFor(K, i)
  BY <1>1 DEF Pending, Has, HasFor
<1>3. Consistent'
  BY <1>1 DEF DeviceInv, Consistent, TypeOK, ServiceMatchesRuntime, RemainsHaveRuntime, CredentialHasKey, Resumable
<1>4. OpType' /\ ScriptInv'
  BY <1>1, <1>2 DEF DeviceInv, OpType, ScriptInv
<1>5. OrderInv' /\ SecretsInv'
  BY <1>1, <1>2 DEF DeviceInv, OrderInv, SecretsInv
<1>6. RestoreInv' /\ SpoilInv'
  BY <1>1, <1>2 DEF DeviceInv, RestoreInv, SpoilInv
<1>7. CompleteInv'
  BY <1>1, <1>2 DEF DeviceInv, CompleteInv
<1>8. ForeignInv'
  BY <1>1, <1>2 DEF DeviceInv, ForeignInv
<1> QED
  BY <1>3, <1>4, <1>5, <1>6, <1>7, <1>8 DEF DeviceInv

\* The operator edits or deletes files between commands.
LEMMA EditInv ==
  ASSUME DeviceInv, OperatorEdits
  PROVE  DeviceInv'
<1> USE RuntimeFields
<1>1. /\ op = Idle /\ op' = Idle /\ rt' = rt /\ loaded' = loaded /\ programs' = programs /\ secrets' = secrets
      /\ paired' = paired /\ platform' = platform /\ spoilt' = spoilt
      /\ \/ \E i \in Clients, v \in {None, Foreign} : mcp' = [mcp EXCEPT ![i] = v] /\ unit' = unit
         \/ unit' = Foreign /\ mcp' = mcp
  BY DEF OperatorEdits, world
<1>2. TypeOK /\ ServiceMatchesRuntime /\ RemainsHaveRuntime /\ CredentialHasKey /\ SpoilInv
  BY DEF DeviceInv, Consistent
<1>3. /\ mcp' \in [Clients -> Program \cup {None, Foreign, Torn}]
      /\ \A i \in Clients : mcp'[i] \in {mcp[i], None, Foreign}
      /\ unit' \in {unit, Foreign}
  BY <1>1, <1>2 DEF TypeOK
<1>4. op.name = "none" /\ op'.raised \in Nat /\ op'.todo = << >>
  BY <1>1, IdleType
<1>5. Consistent'
  <2>1. TypeOK'
    BY <1>1, <1>2, <1>3, <1>4 DEF TypeOK
  <2> QED
    BY <2>1, <1>1, <1>2, <1>3 DEF Consistent, ServiceMatchesRuntime, RemainsHaveRuntime, CredentialHasKey, Resumable
<1>6. SpoilInv'
  BY <1>1, <1>2, <1>3, <1>4 DEF SpoilInv
<1> QED
  BY <1>1, <1>5, <1>6, IdleInv

-----------------------------------------------------------------------------
(* Theorems                                                                *)

\* The steps that raise.
LEMMA RaisingSteps ==
  ASSUME DeviceInv, StepRefused \/ StepFails \/ ReloadFails \/ PairAnswerLost
  PROVE  DeviceInv'
<1>1. TypeOK
  BY DEF DeviceInv, Consistent
<1>2. /\ op.todo # << >> /\ Raise /\ rt' = rt /\ mcp' = mcp /\ secrets' = secrets /\ spoilt' = spoilt /\ programs' = programs
      /\ unit' \in {unit, None} /\ loaded' \in {loaded, None} /\ paired' \in BOOLEAN /\ platform' = platform
  BY <1>1 DEF StepRefused, StepFails, ReloadFails, PairAnswerLost, Blocked, At, files, world, TypeOK
<1> QED
  BY <1>2, RaiseInv

\* Every step of the specification keeps the invariant.
LEMMA NextInv ==
  ASSUME DeviceInv, [Next]_vars
  PROVE  DeviceInv'
<1>1. CASE \E resume, autostart \in BOOLEAN : Install(resume, autostart)
  BY <1>1, InstallInv
<1>2. CASE Rollback \/ \E r \in Release : Upgrade(r)
  BY <1>2, ChangeInv
<1>3. CASE Repair
  BY <1>3, RepairInv
<1>4. CASE \E purge \in SUBSET {"credentials", "data"} : Uninstall(purge)
  BY <1>4, UninstallInv
<1>5. CASE Step
  BY <1>5, RaisingSteps, DoneSteps, OpenInv DEF Step, DoesStep
<1>6. CASE Finish \/ Crash
  BY <1>6, EndInv
<1>7. CASE ServiceStops
  BY <1>7, ServiceStopsInv
<1>8. CASE OperatorEdits
  BY <1>8, EditInv
<1>9. CASE UNCHANGED vars
  <2>1. /\ op' = op /\ rt' = rt /\ mcp' = mcp /\ unit' = unit /\ loaded' = loaded /\ programs' = programs
        /\ secrets' = secrets /\ paired' = paired /\ platform' = platform /\ spoilt' = spoilt
    BY <1>9 DEF vars
  <2>2. Pending' = Pending /\ \A K : Has(K)' = Has(K) /\ \A i : HasFor(K, i)' = HasFor(K, i)
    BY <2>1 DEF Pending, Has, HasFor
  <2>3. Consistent'
    BY <2>1 DEF DeviceInv, Consistent, TypeOK, ServiceMatchesRuntime, RemainsHaveRuntime, CredentialHasKey, Resumable
  <2>4. OpType' /\ ScriptInv'
    BY <2>1, <2>2 DEF DeviceInv, OpType, ScriptInv
  <2>5. OrderInv' /\ SecretsInv'
    BY <2>1, <2>2 DEF DeviceInv, OrderInv, SecretsInv
  <2>6. RestoreInv' /\ SpoilInv'
    BY <2>1, <2>2 DEF DeviceInv, RestoreInv, SpoilInv
  <2>7. CompleteInv'
    BY <2>1, <2>2 DEF DeviceInv, CompleteInv
  <2>8. ForeignInv'
    BY <2>1, <2>2 DEF DeviceInv, ForeignInv
  <2> QED
    BY <2>3, <2>4, <2>5, <2>6, <2>7, <2>8 DEF DeviceInv
<1> QED
  BY <1>1, <1>2, <1>3, <1>4, <1>5, <1>6, <1>7, <1>8, <1>9 DEF Next

\* The invariant of the device tool: for any number of MCP files and
\* releases, any failures and kills, and any edits between commands.
THEOREM DeviceInvariant == Spec => []DeviceInv
<1>1. Init => DeviceInv
  <2>1. SUFFICES ASSUME Init PROVE DeviceInv
    OBVIOUS
  <2>2. /\ platform \in {"linux", "macos"}
        /\ rt = None /\ mcp = [i \in Clients |-> None] /\ unit = None /\ loaded = None /\ programs = {Base}
        /\ secrets = {} /\ paired = FALSE /\ op = Idle /\ spoilt = FALSE
    BY <2>1 DEF Init
  <2>3. op.name = "none" /\ op.raised = 0 /\ op.todo = << >>
    BY <2>2, IdleType
  <2>4. Consistent
    <3>1. None \notin Program /\ Base \in Program
      BY DeviceAssumption DEF Program
    <3>2. paired \in BOOLEAN /\ spoilt \in BOOLEAN
      BY <2>2
    <3>3. TypeOK
      BY <2>2, <2>3, <3>1, <3>2 DEF TypeOK
    <3> QED
      BY <2>2, <3>1, <3>3 DEF Consistent, ServiceMatchesRuntime, RemainsHaveRuntime, CredentialHasKey, Resumable
  <2>5. OpType /\ Pending = {}
    BY <2>2, IdleType DEF OpType, Pending
  <2>6. ScriptInv /\ OrderInv /\ SecretsInv /\ RestoreInv /\ CompleteInv /\ ForeignInv
    BY <2>3, <2>5 DEF ScriptInv, OrderInv, SecretsInv, RestoreInv, CompleteInv, ForeignInv, Has, Changes
  <2>7. SpoilInv
    BY <2>2 DEF SpoilInv
  <2> QED
    BY <2>4, <2>5, <2>6, <2>7 DEF DeviceInv
<1>2. DeviceInv /\ [Next]_vars => DeviceInv'
  BY NextInv
<1> QED
  BY <1>1, <1>2, PTL DEF Spec

\* In every state of every command, and wherever it is killed, a service
\* definition names the recorded program, nothing is out of the tool's reach,
\* and a credential has its key.
THEOREM AlwaysConsistent == Spec => []Consistent
<1>1. DeviceInv => Consistent
  BY DEF DeviceInv
<1> QED
  BY <1>1, DeviceInvariant, PTL

\* An upgrade or rollback that raised once has put all files back, whichever
\* of its steps raised.
THEOREM FailedChangesAreUndone == Spec => []FailedChangeRestoresFiles
<1>1. DeviceInv => FailedChangeRestoresFiles
  BY RestoredAtEnd
<1> QED
  BY <1>1, DeviceInvariant, PTL

\* Install and uninstall never leave an MCP file that disagrees with
\* runtime.json, wherever they are killed.
THEOREM InstallNeverSpoils == Spec => []OnlySwitchesSpoil
<1>1. DeviceInv => OnlySwitchesSpoil
  BY UnspoiltBetween
<1> QED
  BY <1>1, DeviceInvariant, PTL

\* A command that returns normally has made every file, in agreement.  Under launchd
\* an upgrade or rollback that does has also ended the old process, whatever became of
\* the order to stop it: no definition is written, by the switch or by its restoration,
\* while a service of that name is loaded.  Under systemd this does not hold.
THEOREM SuccessMeansComplete == Spec => []SuccessIsComplete
<1>1. DeviceInv => SuccessIsComplete
  BY FilesAtEnd, ReplacedAtEnd DEF SuccessIsComplete
<1> QED
  BY <1>1, DeviceInvariant, PTL

\* A step of a command leaves the text of others alone.
LEMMA ForeignKept ==
  ASSUME DeviceInv, DoesStep
  PROVE  /\ \A i \in Clients : mcp[i] = Foreign => mcp'[i] = Foreign
         /\ unit = Foreign => unit' = Foreign
<1> USE RuntimeFields
<1>1. OpType /\ ScriptInv /\ ForeignInv /\ TypeOK
  BY DEF DeviceInv, Consistent
<1>2. PICK h : h = step
  OBVIOUS
<1>3. h \in StepType /\ Effect(h)
  BY <1>1, <1>2, StepTyped, DoneEffect
<1>4. h.run \in Runtime /\ h.run.py # Foreign
  BY <1>3 DEF StepType
<1>5. h \in Pending
  <2>1. op.todo \in Seq(StepType) /\ op.todo # << >>
    BY <1>1, DoneEffect DEF OpType
  <2> QED
    BY <2>1, <1>2, TailMembers DEF Pending, step
<1>6. ASSUME NEW i \in Clients, mcp[i] = Foreign PROVE mcp'[i] = Foreign
  <2>1. op.name \notin Changes \cup {"repair", "uninstall"}
    BY <1>1, <1>6 DEF ForeignInv
  <2>2. h.do \notin {"replace_mcp", "open_mcp", "fill_mcp", "unlink_mcp"}
    BY <2>1, <1>1, <1>5, CommandOf
  <2>3. h.do = "create_mcp" => h.n # i
    BY <1>3, <1>4, <1>6 DEF Effect
  <2> QED
    BY <2>2, <2>3, <1>1, <1>3, <1>6 DEF Effect, WritesMcp, TypeOK
<1>7. ASSUME unit = Foreign PROVE unit' = Foreign
  <2>1. h.do # "clear_service"
    BY <1>1, <1>5, <1>7 DEF ForeignInv, Has
  <2>2. h.do \notin {"remove_service", "write_unit", "write_unit_only"}
    BY <1>3, <1>4, <1>7 DEF Effect
  <2> QED
    BY <2>1, <2>2, <1>3, <1>7 DEF Effect, Stops
<1> QED
  BY <1>6, <1>7

\* No step of any command, failed or undone, replaces or deletes an MCP file
\* or a service definition that the tool did not write.
THEOREM ForeignTextStays == Spec => ForeignUntouched
<1> DEFINE Kept == /\ \A i \in Clients : mcp[i] = Foreign => mcp'[i] = Foreign
                   /\ unit = Foreign => unit' = Foreign
<1>1. DeviceInv /\ [Next]_vars => [op # Idle => Kept]_vars
  <2>1. SUFFICES ASSUME DeviceInv, Next, op # Idle PROVE Kept
    OBVIOUS
  <2>2. CASE DoesStep
    BY <2>1, <2>2, ForeignKept
  <2>3. CASE StepRefused \/ StepFails \/ PairAnswerLost \/ Finish \/ Crash \/ ServiceStops
    BY <2>3 DEF StepRefused, StepFails, PairAnswerLost, Finish, Crash, ServiceStops, files
  <2>4. CASE ReloadFails
    <3>1. unit \in {None, step.run.py} /\ mcp' = mcp /\ op.todo # << >>
      BY <2>4 DEF ReloadFails, Blocked, At
    <3>2. step \in StepType
      BY <3>1, <2>1, StepTyped DEF DeviceInv
    <3>3. unit # Foreign
      BY <3>1, <3>2, RuntimeFields DEF StepType
    <3> QED
      BY <3>1, <3>3
  <2>5. CASE OpenMcp
    <3>1. mcp[step.n] = None /\ mcp' = [mcp EXCEPT ![step.n] = Torn] /\ unit' = unit
      BY <2>5 DEF OpenMcp, Skipped
    <3>2. mcp \in [Clients -> Program \cup {None, Foreign, Torn}]
      BY <2>1 DEF DeviceInv, Consistent, TypeOK
    <3> QED
      BY <3>1, <3>2, RuntimeFields
  <2>6. ~OperatorEdits /\ \A name, steps : ~Begin(name, steps)
    BY <2>1 DEF OperatorEdits, Begin
  <2> QED
    BY <2>1, <2>2, <2>3, <2>4, <2>5, <2>6 DEF Next, Step, DoesStep, Install, Upgrade, Rollback, Repair, Uninstall
<1> QED
  BY <1>1, DeviceInvariant, PTL DEF Spec, ForeignUntouched
=============================================================================
