---------------------------- MODULE GatewayProofs ----------------------------
(***************************************************************************)
(* Proofs about the gateway process: slots, connections and places in the  *)
(* pool queues are accounted for with any number of threads, whichever     *)
(* step of whichever thread raises, times out or cannot start.             *)
(***************************************************************************)
EXTENDS Gateway, FiniteSetTheorems, WellFoundedInduction, TLAPS

-----------------------------------------------------------------------------
(* The steps a thread has left                                             *)

\* The steps of two pools are different, and a take is no give.
LEMMA StepsApart ==
  /\ \A p \in Pool : Take(p) \in Steps /\ Give(p) \in Steps /\ Take(p) # Give(p)
  /\ \A p, q \in Pool : p # q => Take(p) \notin {Take(q), Give(q)} /\ Give(p) \notin {Take(q), Give(q)}
  /\ \A s \in Steps : s.do = "take" => s.pool \in Pool /\ s = Take(s.pool)
  /\ \A s \in Steps : s.do = "give" => s.pool \in Pool /\ s = Give(s.pool)
  /\ \A s \in Steps, p \in Pool : s.do \notin {"take", "give"} => s \notin {Take(p), Give(p)}
BY DEF Steps, Take, Give, Pool

\* The tail of a script, position by position.
LEMMA TailOf ==
  ASSUME NEW S, NEW s \in Seq(S), s # << >>
  PROVE  /\ Tail(s) \in Seq(S) /\ Len(s) \in Nat \ {0} /\ DOMAIN s = 1..Len(s)
         /\ DOMAIN Tail(s) = 1..(Len(s) - 1) /\ \A i \in 1..(Len(s) - 1) : Tail(s)[i] = s[i + 1]
         /\ Head(s) = s[1] /\ s[1] \in S
OBVIOUS

\* A stretch without steps on a pool, moved up by one.
LEMMA QuietTail ==
  ASSUME NEW s \in Seq(Steps), s # << >>, NEW p \in Pool, NEW i \in Nat, NEW j \in Nat,
         Quiet(s, p, i + 1, j + 1)
  PROVE  Quiet(Tail(s), p, i, j)
<1>1. SUFFICES ASSUME NEW k \in DOMAIN Tail(s), i < k, k < j
               PROVE  Tail(s)[k] \notin {Take(p), Give(p)}
  BY DEF Quiet
<1>2. k + 1 \in DOMAIN s /\ Tail(s)[k] = s[k + 1] /\ i + 1 < k + 1 /\ k + 1 < j + 1
  BY <1>1, TailOf
<1> QED
  BY <1>2 DEF Quiet

\* Every take that is left after a step is still followed by its give.
LEMMA TakesFollowed ==
  ASSUME NEW s \in Seq(Steps), s # << >>, NEW p \in Pool, NEW has \in BOOLEAN,
         Alternates(s, p, has), NEW i \in DOMAIN Tail(s), Tail(s)[i] = Take(p)
  PROVE  \E j \in DOMAIN Tail(s) : i < j /\ Tail(s)[j] = Give(p) /\ Quiet(Tail(s), p, i, j)
<1>1. i \in Nat \ {0} /\ i + 1 \in DOMAIN s /\ s[i + 1] = Take(p)
  BY TailOf
<1>2. PICK j \in DOMAIN s : i + 1 < j /\ s[j] = Give(p) /\ Quiet(s, p, i + 1, j)
  BY <1>1 DEF Alternates
<1>3. j - 1 \in DOMAIN Tail(s) /\ i < j - 1 /\ Tail(s)[j - 1] = Give(p) /\ j - 1 \in Nat /\ (j - 1) + 1 = j
  BY <1>1, <1>2, TailOf
<1>4. Quiet(Tail(s), p, i, j - 1)
  BY <1>1, <1>2, <1>3, QuietTail
<1> QED
  BY <1>3, <1>4

\* Every give that is left after a step and does not belong to its first
\* step belongs to a take that is left too, or comes first.
LEMMA GivesPreceded ==
  ASSUME NEW s \in Seq(Steps), s # << >>, NEW p \in Pool, NEW has \in BOOLEAN,
         Alternates(s, p, has), NEW i \in DOMAIN Tail(s), Tail(s)[i] = Give(p)
  PROVE  \/ has /\ Head(s) \notin {Take(p), Give(p)} /\ Quiet(Tail(s), p, 0, i)
         \/ Head(s) = Take(p) /\ Quiet(Tail(s), p, 0, i)
         \/ \E j \in DOMAIN Tail(s) : j < i /\ Tail(s)[j] = Take(p) /\ Quiet(Tail(s), p, j, i)
<1>1. i \in Nat \ {0} /\ i + 1 \in DOMAIN s /\ s[i + 1] = Give(p) /\ 1 \in DOMAIN s /\ Head(s) = s[1]
  BY TailOf
<1>2. CASE has /\ Quiet(s, p, 0, i + 1)
  <2>1. s[1] \notin {Take(p), Give(p)} /\ Quiet(s, p, 0 + 1, i + 1)
    BY <1>1, <1>2 DEF Quiet
  <2> QED
    BY <2>1, <1>1, <1>2, QuietTail
<1>3. CASE \E j \in DOMAIN s : j < i + 1 /\ s[j] = Take(p) /\ Quiet(s, p, j, i + 1)
  <2>1. PICK j \in DOMAIN s : j < i + 1 /\ s[j] = Take(p) /\ Quiet(s, p, j, i + 1)
    BY <1>3
  <2>2. CASE j = 1
    <3>1. Quiet(s, p, 0 + 1, i + 1)
      BY <2>1, <2>2
    <3> QED
      BY <3>1, <2>1, <2>2, <1>1, QuietTail
  <2>3. CASE j # 1
    <3>1. j - 1 \in DOMAIN Tail(s) /\ j - 1 < i /\ Tail(s)[j - 1] = Take(p) /\ j - 1 \in Nat /\ (j - 1) + 1 = j
      BY <2>1, <2>3, <1>1, TailOf
    <3>2. Quiet(Tail(s), p, j - 1, i)
      BY <2>1, <3>1, <1>1, QuietTail
    <3> QED
      BY <3>1, <3>2
  <2> QED
    BY <2>2, <2>3
<1> QED
  BY <1>1, <1>2, <1>3 DEF Alternates

\* Taking a connection of p: the thread did not hold one, and what is left
\* begins with the give of it.
LEMMA AfterTake ==
  ASSUME NEW s \in Seq(Steps), s # << >>, NEW p \in Pool, NEW has \in BOOLEAN,
         Alternates(s, p, has), Head(s) = Take(p)
  PROVE  ~has /\ Alternates(Tail(s), p, TRUE)
<1>1. 1 \in DOMAIN s /\ s[1] = Take(p) /\ Take(p) # Give(p) /\ DOMAIN s = 1..Len(s) /\ Len(s) \in Nat
  BY TailOf, StepsApart
<1>2. ~has
  <2>1. SUFFICES ASSUME has PROVE FALSE
    OBVIOUS
  <2>2. PICK i \in DOMAIN s : s[i] = Give(p) /\ Quiet(s, p, 0, i)
    BY <2>1 DEF Alternates
  <2>3. 1 < i
    BY <1>1, <2>2
  <2> QED
    BY <1>1, <2>2, <2>3 DEF Quiet
<1>3. PICK j \in DOMAIN s : 1 < j /\ s[j] = Give(p) /\ Quiet(s, p, 1, j)
  BY <1>1 DEF Alternates
<1>4. j - 1 \in DOMAIN Tail(s) /\ Tail(s)[j - 1] = Give(p) /\ j - 1 \in Nat /\ (j - 1) + 1 = j
  BY <1>1, <1>3, TailOf
<1>5. Quiet(Tail(s), p, 0, j - 1)
  BY <1>3, <1>4, QuietTail
<1>6. \A i \in DOMAIN Tail(s) : Tail(s)[i] = Give(p) =>
        \/ TRUE /\ Quiet(Tail(s), p, 0, i)
        \/ \E k \in DOMAIN Tail(s) : k < i /\ Tail(s)[k] = Take(p) /\ Quiet(Tail(s), p, k, i)
  BY GivesPreceded
<1> QED
  BY <1>2, <1>4, <1>5, <1>6, TakesFollowed DEF Alternates

\* Returning a connection of p: the thread held one, and what is left begins
\* with a take if it uses that pool at all.
LEMMA AfterGive ==
  ASSUME NEW s \in Seq(Steps), s # << >>, NEW p \in Pool, NEW has \in BOOLEAN,
         Alternates(s, p, has), Head(s) = Give(p)
  PROVE  has /\ Alternates(Tail(s), p, FALSE)
<1>1. 1 \in DOMAIN s /\ s[1] = Give(p) /\ Take(p) # Give(p) /\ DOMAIN s = 1..Len(s) /\ Len(s) \in Nat
  BY TailOf, StepsApart
<1>2. has
  <2>1. ~\E j \in DOMAIN s : j < 1
    BY <1>1
  <2> QED
    BY <1>1, <2>1 DEF Alternates
<1>3. \A i \in DOMAIN Tail(s) : Tail(s)[i] = Give(p) =>
        \E k \in DOMAIN Tail(s) : k < i /\ Tail(s)[k] = Take(p) /\ Quiet(Tail(s), p, k, i)
  BY <1>1, GivesPreceded
<1> QED
  BY <1>2, <1>3, TakesFollowed DEF Alternates

\* A step that does not concern p.
LEMMA AfterOther ==
  ASSUME NEW s \in Seq(Steps), s # << >>, NEW p \in Pool, NEW has \in BOOLEAN,
         Alternates(s, p, has), Head(s) \notin {Take(p), Give(p)}
  PROVE  Alternates(Tail(s), p, has)
<1>1. 1 \in DOMAIN s /\ s[1] \notin {Take(p), Give(p)} /\ DOMAIN s = 1..Len(s) /\ Len(s) \in Nat
  BY TailOf
<1>2. \A i \in DOMAIN Tail(s) : Tail(s)[i] = Give(p) =>
        \/ has /\ Quiet(Tail(s), p, 0, i)
        \/ \E k \in DOMAIN Tail(s) : k < i /\ Tail(s)[k] = Take(p) /\ Quiet(Tail(s), p, k, i)
  BY GivesPreceded
<1>3. ASSUME has
      PROVE  \E i \in DOMAIN Tail(s) : Tail(s)[i] = Give(p) /\ Quiet(Tail(s), p, 0, i)
  <2>1. PICK i \in DOMAIN s : s[i] = Give(p) /\ Quiet(s, p, 0, i)
    BY <1>3 DEF Alternates
  <2>2. i - 1 \in DOMAIN Tail(s) /\ Tail(s)[i - 1] = Give(p) /\ i - 1 \in Nat /\ (i - 1) + 1 = i
    BY <1>1, <2>1, TailOf
  <2>3. Quiet(s, p, 0 + 1, i)
    BY <2>1, <1>1 DEF Quiet
  <2>4. Quiet(Tail(s), p, 0, i - 1)
    BY <2>2, <2>3, QuietTail
  <2> QED
    BY <2>2, <2>4
<1> QED
  BY <1>2, <1>3, TakesFollowed DEF Alternates

-----------------------------------------------------------------------------
(* The scripts                                                             *)

\* Two sequences one after the other, position by position.
LEMMA ConcatOf ==
  ASSUME NEW S, NEW s \in Seq(S), NEW t \in Seq(S)
  PROVE  /\ s \o t \in Seq(S) /\ Len(s) \in Nat /\ Len(t) \in Nat
         /\ DOMAIN s = 1..Len(s) /\ DOMAIN t = 1..Len(t) /\ DOMAIN (s \o t) = 1..(Len(s) + Len(t))
         /\ Len(s \o t) = Len(s) + Len(t)
         /\ \A i \in 1..Len(s) : (s \o t)[i] = s[i]
         /\ \A i \in 1..Len(t) : (s \o t)[Len(s) + i] = t[i]
OBVIOUS

\* A quiet stretch of either part is one of the whole.
LEMMA QuietFirst ==
  ASSUME NEW s \in Seq(Steps), NEW t \in Seq(Steps), NEW p \in Pool, NEW i \in Nat,
         NEW j \in DOMAIN s, Quiet(s, p, i, j)
  PROVE  Quiet(s \o t, p, i, j)
<1>1. SUFFICES ASSUME NEW k \in DOMAIN (s \o t), i < k, k < j
               PROVE  (s \o t)[k] \notin {Take(p), Give(p)}
  BY DEF Quiet
<1>2. k \in DOMAIN s /\ (s \o t)[k] = s[k]
  BY <1>1, ConcatOf
<1> QED
  BY <1>1, <1>2 DEF Quiet

LEMMA QuietSecond ==
  ASSUME NEW s \in Seq(Steps), NEW t \in Seq(Steps), NEW p \in Pool, NEW i \in Nat,
         NEW j \in DOMAIN t, Quiet(t, p, i, j)
  PROVE  Quiet(s \o t, p, Len(s) + i, Len(s) + j)
<1>1. SUFFICES ASSUME NEW k \in DOMAIN (s \o t), Len(s) + i < k, k < Len(s) + j
               PROVE  (s \o t)[k] \notin {Take(p), Give(p)}
  BY DEF Quiet
<1>2. k - Len(s) \in DOMAIN t /\ Len(s) + (k - Len(s)) = k /\ i < k - Len(s) /\ k - Len(s) < j
  BY <1>1, ConcatOf
<1>3. (s \o t)[k] = t[k - Len(s)]
  BY <1>2, ConcatOf
<1> QED
  BY <1>2, <1>3 DEF Quiet

\* One script after another.
LEMMA OneAfterAnother ==
  ASSUME NEW s \in Seq(Steps), NEW t \in Seq(Steps), NEW p \in Pool, NEW has \in BOOLEAN,
         Alternates(s, p, has), Alternates(t, p, FALSE)
  PROVE  s \o t \in Seq(Steps) /\ Alternates(s \o t, p, has)
<1> DEFINE u == s \o t
<1> HIDE DEF u
<1>1. /\ u \in Seq(Steps) /\ Len(s) \in Nat /\ Len(t) \in Nat
      /\ DOMAIN s = 1..Len(s) /\ DOMAIN t = 1..Len(t) /\ DOMAIN u = 1..(Len(s) + Len(t))
      /\ \A i \in 1..Len(s) : u[i] = s[i]
      /\ \A i \in 1..Len(t) : u[Len(s) + i] = t[i]
  BY ConcatOf DEF u
<1>2. \A i \in Nat, j \in DOMAIN s : Quiet(s, p, i, j) => Quiet(u, p, i, j)
  BY QuietFirst DEF u
<1>3. \A i \in Nat, j \in DOMAIN t : Quiet(t, p, i, j) => Quiet(u, p, Len(s) + i, Len(s) + j)
  BY QuietSecond DEF u
<1>4. \A i \in DOMAIN u : i \in DOMAIN s \/ (i - Len(s) \in DOMAIN t /\ Len(s) + (i - Len(s)) = i)
  BY <1>1
<1>5. ASSUME NEW i \in DOMAIN u, u[i] = Take(p)
      PROVE  \E j \in DOMAIN u : i < j /\ u[j] = Give(p) /\ Quiet(u, p, i, j)
  <2>1. CASE i \in DOMAIN s
    <3>1. PICK j \in DOMAIN s : i < j /\ s[j] = Give(p) /\ Quiet(s, p, i, j)
      BY <2>1, <1>1, <1>5 DEF Alternates
    <3>2. j \in DOMAIN u /\ u[j] = Give(p) /\ Quiet(u, p, i, j)
      BY <3>1, <2>1, <1>1, <1>2
    <3> QED
      BY <3>1, <3>2
  <2>2. CASE i - Len(s) \in DOMAIN t /\ Len(s) + (i - Len(s)) = i
    <3>1. t[i - Len(s)] = Take(p)
      BY <2>2, <1>1, <1>5
    <3>2. PICK j \in DOMAIN t : i - Len(s) < j /\ t[j] = Give(p) /\ Quiet(t, p, i - Len(s), j)
      BY <3>1, <2>2 DEF Alternates
    <3>3. Len(s) + j \in DOMAIN u /\ u[Len(s) + j] = Give(p) /\ i < Len(s) + j
      BY <3>2, <2>2, <1>1
    <3>4. Quiet(u, p, Len(s) + (i - Len(s)), Len(s) + j)
      BY <3>2, <2>2, <1>1, <1>3
    <3> QED
      BY <3>3, <3>4, <2>2
  <2> QED
    BY <2>1, <2>2, <1>4
<1>6. ASSUME NEW i \in DOMAIN u, u[i] = Give(p)
      PROVE  \/ has /\ Quiet(u, p, 0, i)
             \/ \E j \in DOMAIN u : j < i /\ u[j] = Take(p) /\ Quiet(u, p, j, i)
  <2>1. CASE i \in DOMAIN s
    <3>1. s[i] = Give(p)
      BY <2>1, <1>1, <1>6
    <3>2. CASE has /\ Quiet(s, p, 0, i)
      BY <3>2, <2>1, <1>2
    <3>3. CASE \E j \in DOMAIN s : j < i /\ s[j] = Take(p) /\ Quiet(s, p, j, i)
      BY <3>3, <2>1, <1>1, <1>2
    <3> QED
      BY <3>1, <3>2, <3>3, <2>1 DEF Alternates
  <2>2. CASE i - Len(s) \in DOMAIN t /\ Len(s) + (i - Len(s)) = i
    <3>1. t[i - Len(s)] = Give(p)
      BY <2>2, <1>1, <1>6
    <3>2. PICK j \in DOMAIN t : j < i - Len(s) /\ t[j] = Take(p) /\ Quiet(t, p, j, i - Len(s))
      BY <3>1, <2>2 DEF Alternates
    <3>3. Len(s) + j \in DOMAIN u /\ u[Len(s) + j] = Take(p) /\ Len(s) + j < i
      BY <3>2, <2>2, <1>1
    <3>4. Quiet(u, p, Len(s) + j, Len(s) + (i - Len(s)))
      BY <3>2, <2>2, <1>1, <1>3
    <3> QED
      BY <3>3, <3>4, <2>2
  <2> QED
    BY <2>1, <2>2, <1>4
<1>7. ASSUME has PROVE \E i \in DOMAIN u : u[i] = Give(p) /\ Quiet(u, p, 0, i)
  <2>1. PICK i \in DOMAIN s : s[i] = Give(p) /\ Quiet(s, p, 0, i)
    BY <1>7 DEF Alternates
  <2>2. i \in DOMAIN u /\ u[i] = Give(p) /\ Quiet(u, p, 0, i)
    BY <2>1, <1>1, <1>2
  <2> QED
    BY <2>2
<1>8. Alternates(u, p, has)
  BY <1>5, <1>6, <1>7 DEF Alternates
<1> QED
  BY <1>1, <1>8 DEF u

\* The pieces the scripts are made of.
LEMMA Pieces ==
  ASSUME NEW p \in Pool
  PROVE  /\ << >> \in Seq(Steps) /\ Alternates(<< >>, p, FALSE)
         /\ \A q \in Pool : Use(q) \in Seq(Steps) /\ Alternates(Use(q), p, FALSE)
         /\ \A w \in {"overall", "client"} : Limit(w) \in Seq(Steps) /\ Alternates(Limit(w), p, FALSE)
         /\ \A q \in Pool : <<Give(q)>> \in Seq(Steps) /\ Alternates(<<Give(q)>>, p, p = q)
<1>1. << >> \in Seq(Steps) /\ Alternates(<< >>, p, FALSE)
  BY DEF Alternates
<1>2. ASSUME NEW q \in Pool
      PROVE  Use(q) \in Seq(Steps) /\ Alternates(Use(q), p, FALSE)
  <2>1. /\ Use(q) \in Seq(Steps) /\ DOMAIN Use(q) = {1, 2}
        /\ Use(q)[1] = Take(q) /\ Use(q)[2] = Give(q)
    BY StepsApart DEF Use
  <2>2. Quiet(Use(q), p, 1, 2)
    BY <2>1 DEF Quiet
  <2>3. CASE p = q
    BY <2>1, <2>2, <2>3, StepsApart DEF Alternates
  <2>4. CASE p # q
    BY <2>1, <2>4, StepsApart DEF Alternates
  <2> QED
    BY <2>1, <2>3, <2>4
<1>3. ASSUME NEW w \in {"overall", "client"}
      PROVE  Limit(w) \in Seq(Steps) /\ Alternates(Limit(w), p, FALSE)
  <2>1. /\ Limit(w) \in Seq(Steps) /\ DOMAIN Limit(w) = {1, 2}
        /\ Limit(w)[1].do = "clock" /\ Limit(w)[2].do = w
        /\ Limit(w)[1] \in Steps /\ Limit(w)[2] \in Steps
    BY DEF Limit, Steps
  <2>2. \A i \in DOMAIN Limit(w) : Limit(w)[i] \in Steps /\ Limit(w)[i].do \notin {"take", "give"}
    <3>1. w \notin {"take", "give"} /\ "clock" \notin {"take", "give"}
      BY <1>3
    <3> QED
      BY <2>1, <3>1
  <2>3. \A i \in DOMAIN Limit(w) : Limit(w)[i] \notin {Take(p), Give(p)}
    BY <2>2, StepsApart
  <2> QED
    BY <2>1, <2>3 DEF Alternates
<1>4. ASSUME NEW q \in Pool
      PROVE  <<Give(q)>> \in Seq(Steps) /\ Alternates(<<Give(q)>>, p, p = q)
  <2> DEFINE u == <<Give(q)>>
  <2>1. u \in Seq(Steps) /\ DOMAIN u = {1} /\ u[1] = Give(q)
    BY StepsApart
  <2> HIDE DEF u
  <2>2. Quiet(u, p, 0, 1)
    BY <2>1 DEF Quiet
  <2>3. CASE p = q
    BY <2>1, <2>2, <2>3, StepsApart DEF Alternates
  <2>4. CASE p # q
    BY <2>1, <2>4, StepsApart DEF Alternates
  <2> QED
    BY <2>1, <2>3, <2>4 DEF u
<1> QED
  BY <1>1, <1>2, <1>3, <1>4

\* The backend is used inside the metadata transaction.
LEMMA Inside ==
  ASSUME NEW p \in Pool
  PROVE  /\ <<Take("metadata")>> \o Use("gbrain") \o <<Give("metadata")>> \in Seq(Steps)
         /\ Alternates(<<Take("metadata")>> \o Use("gbrain") \o <<Give("metadata")>>, p, FALSE)
<1> DEFINE u == <<Take("metadata")>> \o Use("gbrain") \o <<Give("metadata")>>
<1>1. /\ u \in Seq(Steps) /\ DOMAIN u = {1, 2, 3, 4}
      /\ u[1] = Take("metadata") /\ u[2] = Take("gbrain")
      /\ u[3] = Give("gbrain") /\ u[4] = Give("metadata")
  <2> DEFINE a == <<Take("metadata")>>
             b == Use("gbrain")
             c == <<Give("metadata")>>
  <2>1. "metadata" \in Pool /\ "gbrain" \in Pool
    BY DEF Pool
  <2>2. /\ a \in Seq(Steps) /\ Len(a) = 1 /\ a[1] = Take("metadata")
        /\ b \in Seq(Steps) /\ Len(b) = 2 /\ b[1] = Take("gbrain") /\ b[2] = Give("gbrain")
        /\ c \in Seq(Steps) /\ Len(c) = 1 /\ c[1] = Give("metadata")
    BY <2>1, StepsApart DEF Use
  <2>3. u = (a \o b) \o c
    OBVIOUS
  <2> HIDE DEF a, b, c, u
  <2>4. a \in Seq(Steps) /\ b \in Seq(Steps) /\ c \in Seq(Steps)
    BY <2>2
  <2>5. /\ a \o b \in Seq(Steps) /\ Len(a \o b) = 3
        /\ (a \o b)[1] = a[1] /\ (a \o b)[2] = b[1] /\ (a \o b)[3] = b[2]
    <3> DEFINE w == a \o b
    <3>1. /\ w \in Seq(Steps) /\ Len(w) = Len(a) + Len(b)
          /\ \A i \in 1..Len(a) : w[i] = a[i]
          /\ \A i \in 1..Len(b) : w[Len(a) + i] = b[i]
      BY <2>4, ConcatOf
    <3> HIDE DEF w
    <3>2. 1 \in 1..Len(a) /\ 1 \in 1..Len(b) /\ 2 \in 1..Len(b) /\ Len(a) + 1 = 2 /\ Len(a) + 2 = 3
      BY <2>2
    <3>3. w[1] = a[1] /\ w[Len(a) + 1] = b[1] /\ w[Len(a) + 2] = b[2]
      BY <3>1, <3>2
    <3>4. w[2] = b[1] /\ w[3] = b[2] /\ Len(w) = 3
      BY <3>1, <3>2, <3>3, <2>2
    <3> QED
      BY <3>1, <3>3, <3>4 DEF w
  <2>6. /\ u \in Seq(Steps) /\ DOMAIN u = 1..4
        /\ u[1] = (a \o b)[1] /\ u[2] = (a \o b)[2] /\ u[3] = (a \o b)[3] /\ u[4] = c[1]
    <3> DEFINE w == a \o b
    <3>1. w \in Seq(Steps) /\ u = w \o c
      BY <2>3, <2>5
    <3>2. Len(w) = 3
      BY <2>5
    <3> HIDE DEF w
    <3>3. /\ u \in Seq(Steps) /\ DOMAIN u = 1..(Len(w) + Len(c))
          /\ \A i \in 1..Len(w) : u[i] = w[i]
          /\ \A i \in 1..Len(c) : u[Len(w) + i] = c[i]
      BY <3>1, <2>4, ConcatOf
    <3>4. 1 \in 1..Len(c) /\ Len(w) + 1 = 4 /\ Len(w) + Len(c) = 4 /\ \A i \in 1..3 : i \in 1..Len(w)
      BY <3>2, <2>2
    <3>5. u[Len(w) + 1] = c[1]
      BY <3>3, <3>4
    <3> QED
      BY <3>3, <3>4, <3>5 DEF w
  <2> QED
    BY <2>2, <2>5, <2>6
<1> HIDE DEF u
<1>2. "metadata" \in Pool /\ "gbrain" \in Pool /\ p \in {"metadata", "gbrain"}
  BY DEF Pool
<1>3. ASSUME p = "metadata" PROVE Alternates(u, p, FALSE)
  <2>1. Quiet(u, p, 1, 4)
    BY <1>1, <1>2, <1>3, StepsApart DEF Quiet
  <2> QED
    BY <1>1, <1>2, <1>3, <2>1, StepsApart DEF Alternates
<1>4. ASSUME p = "gbrain" PROVE Alternates(u, p, FALSE)
  <2>1. Quiet(u, p, 2, 3)
    BY <1>1 DEF Quiet
  <2> QED
    BY <1>1, <1>2, <1>4, <2>1, StepsApart DEF Alternates
<1>5. Alternates(u, p, FALSE)
  BY <1>2, <1>3, <1>4
<1> QED
  BY <1>1, <1>5 DEF u

\* Every script starts without connections and alternates on either pool.
LEMMA ScriptAlternates ==
  ASSUME NEW k \in AllKinds, NEW p \in Pool
  PROVE  Script(k) \in Seq(Steps) /\ Alternates(Script(k), p, FALSE)
<1> DEFINE Good(s) == s \in Seq(Steps) /\ Alternates(s, p, FALSE)
<1>1. \A s, t : Good(s) /\ Good(t) => Good(s \o t)
  BY OneAfterAnother
<1>2. /\ Good(Use("metadata")) /\ Good(Use("gbrain")) /\ Good(Limit("overall")) /\ Good(Limit("client"))
      /\ Good(<<Take("metadata")>> \o Use("gbrain") \o <<Give("metadata")>>)
  BY Pieces, Inside DEF Pool
<1> HIDE DEF Good
<1>3. Good(Limit("overall") \o Limit("client") \o Use("metadata"))
  BY <1>1, <1>2
<1>4. Good(Use("metadata") \o Use("metadata"))
  BY <1>1, <1>2
<1>5. Good(Use("metadata") \o Use("metadata") \o Use("gbrain") \o Use("metadata"))
  BY <1>1, <1>2
<1>6. Good(Use("metadata") \o (<<Take("metadata")>> \o Use("gbrain") \o <<Give("metadata")>>))
  BY <1>1, <1>2
<1>7. Good(Use("metadata") \o Use("gbrain"))
  BY <1>1, <1>2
<1>8. Use("metadata") \o <<Take("metadata")>> \o Use("gbrain") \o <<Give("metadata")>>
        = Use("metadata") \o (<<Take("metadata")>> \o Use("gbrain") \o <<Give("metadata")>>)
  BY DEF Use
<1>9. Good(Script(k))
  BY <1>3, <1>4, <1>5, <1>6, <1>7, <1>8 DEF Script, AllKinds, Authenticate
<1> QED
  BY <1>9 DEF Good

-----------------------------------------------------------------------------
(* The rate limiter's table                                                *)

\* A set of numbers has a least one.
LEMMA LeastNumber ==
  ASSUME NEW T, T \subseteq Nat, T # {}
  PROVE  \E x \in T : \A y \in T : x <= y
<1>1. PICK x \in T : \A y \in T : ~(<<y, x>> \in OpToRel(<, Nat))
  BY NatLessThanWellFounded, WFMin
<1>2. \A y \in T : ~(y < x)
  BY <1>1 DEF OpToRel
<1> QED
  BY <1>2

\* The bucket that discard_earliest_expiring picks is one of the table's.
LEMMA EarliestIsThere ==
  ASSUME NEW l, Table(l), DOMAIN l.ev # {}
  PROVE  EarliestExpiring(l) \in DOMAIN l.ev
<1> DEFINE E == {l.exp[k] : k \in DOMAIN l.ev}
<1>1. E \subseteq Nat /\ E # {}
  BY DEF Table
<1>2. PICK e \in E : \A y \in E : e <= y
  BY <1>1, LeastNumber
<1> DEFINE K == {k \in DOMAIN l.ev : l.exp[k] = e}
<1>3. K \subseteq Nat /\ K # {}
  BY <1>2 DEF Table
<1>4. PICK k \in K : \A j \in K : k <= j
  BY <1>3, LeastNumber
<1>5. ASSUME NEW j \in DOMAIN l.ev
      PROVE  l.exp[k] < l.exp[j] \/ (l.exp[k] = l.exp[j] /\ k <= j)
  <2>1. e \in Nat /\ l.exp[j] \in Nat /\ e <= l.exp[j] /\ l.exp[k] = e
    BY <1>1, <1>2, <1>4
  <2>2. l.exp[j] = e => k <= j
    BY <1>4
  <2> QED
    BY <2>1, <2>2
<1>6. k \in DOMAIN l.ev
  BY <1>4
<1> QED
  BY <1>5, <1>6 DEF EarliestExpiring

\* Keeping some of the buckets.
LEMMA KeepTable ==
  ASSUME NEW l, Table(l), NEW K, K \subseteq DOMAIN l.ev
  PROVE  Table(Keep(l, K)) /\ DOMAIN Keep(l, K).ev = K
<1>1. IsFiniteSet(K)
  BY FS_Subset DEF Table
<1> QED
  BY <1>1 DEF Table, Keep, Restrict

\* After make_room there is room for one more key.
LEMMA RoomIsMade ==
  ASSUME NEW l, Table(l), NEW now, NEW n \in Nat \ {0}, Cardinality(DOMAIN l.ev) <= n
  PROVE  Table(MakeRoom(l, now, n)) /\ Cardinality(DOMAIN MakeRoom(l, now, n).ev) < n
<1> DEFINE full(m) == Cardinality(DOMAIN m.ev) >= n
           fresh == IF full(l) THEN DiscardExpired(l, now) ELSE l
<1>1. Table(fresh) /\ DOMAIN fresh.ev \subseteq DOMAIN l.ev
  <2>1. {k \in DOMAIN l.ev : l.exp[k] > now} \subseteq DOMAIN l.ev
    OBVIOUS
  <2>2. Table(DiscardExpired(l, now)) /\ DOMAIN DiscardExpired(l, now).ev \subseteq DOMAIN l.ev
    BY <2>1, KeepTable DEF DiscardExpired
  <2> QED
    BY <2>2
<1>2. Cardinality(DOMAIN fresh.ev) \in Nat /\ Cardinality(DOMAIN fresh.ev) <= n
  <2>1. IsFiniteSet(DOMAIN l.ev) /\ DOMAIN fresh.ev \in SUBSET DOMAIN l.ev
    BY <1>1 DEF Table
  <2>2. IsFiniteSet(DOMAIN fresh.ev) /\ Cardinality(DOMAIN fresh.ev) <= Cardinality(DOMAIN l.ev)
    BY <2>1, FS_Subset
  <2> HIDE DEF fresh
  <2>3. Cardinality(DOMAIN fresh.ev) \in Nat /\ Cardinality(DOMAIN l.ev) \in Nat
    BY <2>1, <2>2, FS_CardinalityType
  <2> QED
    BY <2>2, <2>3
<1>3. MakeRoom(l, now, n) = IF full(fresh) THEN DiscardEarliestExpiring(fresh) ELSE fresh
  BY DEF MakeRoom
<1> HIDE DEF fresh
<1>4. CASE ~full(fresh)
  BY <1>1, <1>2, <1>3, <1>4
<1>5. CASE full(fresh)
  <2>1. IsFiniteSet(DOMAIN fresh.ev) /\ DOMAIN fresh.ev # {}
    BY <1>1, <1>5, FS_EmptySet DEF Table
  <2>2. EarliestExpiring(fresh) \in DOMAIN fresh.ev
    BY <1>1, <2>1, EarliestIsThere
  <2> DEFINE K == DOMAIN fresh.ev \ {EarliestExpiring(fresh)}
  <2>3. Cardinality(K) = Cardinality(DOMAIN fresh.ev) - 1
    BY <2>1, <2>2, FS_RemoveElement
  <2>4. Table(Keep(fresh, K)) /\ DOMAIN Keep(fresh, K).ev = K
    BY <1>1, KeepTable
  <2>5. MakeRoom(l, now, n) = Keep(fresh, K)
    BY <1>3, <1>5 DEF DiscardEarliestExpiring
  <2> HIDE DEF K
  <2> QED
    BY <1>2, <2>3, <2>4, <2>5
<1> QED
  BY <1>4, <1>5

\* allow keeps the table within its number of keys.
LEMMA AllowKeepsTable ==
  ASSUME NEW l, Table(l), NEW key \in Nat, NEW now \in Nat, NEW limit \in Nat \ {0},
         NEW window \in Nat, NEW n \in Nat \ {0}, Cardinality(DOMAIN l.ev) <= n
  PROVE  /\ Table(Allow(l, key, now, limit, window, n).lim)
         /\ Cardinality(DOMAIN Allow(l, key, now, limit, window, n).lim.ev) <= n
         /\ Allow(l, key, now, limit, window, n).ok \in BOOLEAN
<1> DEFINE room == IF key \in DOMAIN l.ev THEN l ELSE MakeRoom(l, now, n)
           old == IF key \in DOMAIN l.ev THEN l.ev[key] ELSE << >>
           q == PopExpired(old, now, window)
           ok == Len(q) < limit
           exp == IF key \in DOMAIN room.exp THEN Max({room.exp[key], now + window}) ELSE now + window
           Set(f, v) == [k \in DOMAIN f \cup {key} |-> IF k = key THEN v ELSE f[k]]
           a == Allow(l, key, now, limit, window, n)
<1>1. /\ a.ok = ok
      /\ a.lim.ev = Set(room.ev, IF ok THEN Append(q, now) ELSE q)
      /\ a.lim.exp = IF ok THEN Set(room.exp, exp) ELSE room.exp
  BY DEF Allow
<1>2. Table(room) /\ Cardinality(DOMAIN room.ev) <= n
      /\ (key \notin DOMAIN room.ev => Cardinality(DOMAIN room.ev) < n)
  <2>1. CASE key \in DOMAIN l.ev
    BY <2>1
  <2>2. CASE key \notin DOMAIN l.ev
    <3>1. Table(MakeRoom(l, now, n)) /\ Cardinality(DOMAIN MakeRoom(l, now, n).ev) < n
      BY RoomIsMade
    <3>2. Cardinality(DOMAIN MakeRoom(l, now, n).ev) \in Nat
      BY <3>1, FS_CardinalityType DEF Table
    <3> QED
      BY <3>1, <3>2, <2>2
  <2> QED
    BY <2>1, <2>2
<1>3. key \notin DOMAIN room.ev => ok
  <2>1. SUFFICES ASSUME key \notin DOMAIN room.ev PROVE ok
    OBVIOUS
  <2>2. key \notin DOMAIN l.ev
    BY <2>1
  <2>3. q = << >>
    BY <2>2 DEF PopExpired
  <2> QED
    BY <2>3
<1>4. exp \in Nat
  <2>1. CASE key \notin DOMAIN room.exp
    BY <2>1
  <2>2. CASE key \in DOMAIN room.exp
    <3>1. room.exp[key] \in Nat /\ now + window \in Nat
      BY <2>2, <1>2 DEF Table
    <3>2. \A x, y \in Nat : Max({x, y}) \in Nat
      BY DEF Max
    <3> QED
      BY <2>2, <3>1, <3>2
  <2> QED
    BY <2>1, <2>2
<1>5. DOMAIN a.lim.ev = DOMAIN room.ev \cup {key}
  BY <1>1
<1>6. DOMAIN room.exp = DOMAIN room.ev /\ \A k \in DOMAIN room.exp : room.exp[k] \in Nat
  BY <1>2 DEF Table
<1>7. DOMAIN a.lim.exp = DOMAIN a.lim.ev /\ \A k \in DOMAIN a.lim.exp : a.lim.exp[k] \in Nat
  <2>1. CASE ok
    BY <2>1, <1>1, <1>4, <1>5, <1>6
  <2>2. CASE ~ok
    BY <2>2, <1>1, <1>3, <1>5, <1>6
  <2> QED
    BY <2>1, <2>2
<1>8. IsFiniteSet(DOMAIN a.lim.ev) /\ Cardinality(DOMAIN a.lim.ev) <= n
  <2>1. /\ IsFiniteSet(DOMAIN room.ev \cup {key})
        /\ Cardinality(DOMAIN room.ev \cup {key}) =
             IF key \in DOMAIN room.ev THEN Cardinality(DOMAIN room.ev) ELSE Cardinality(DOMAIN room.ev) + 1
    BY <1>2, FS_AddElement DEF Table
  <2>2. Cardinality(DOMAIN room.ev) \in Nat
    BY <1>2, FS_CardinalityType DEF Table
  <2> HIDE DEF a, room
  <2> QED
    BY <1>2, <1>5, <2>1, <2>2
<1>9. Table(a.lim)
  BY <1>2, <1>5, <1>7, <1>8 DEF Table
<1> QED
  BY <1>1, <1>8, <1>9

-----------------------------------------------------------------------------
(* One thread moves                                                        *)

\* The assumptions on the constants, one by one.
LEMMA Constants ==
  /\ \A m \in Traffic : m \in [DOMAIN m -> AllKinds] /\ DOMAIN m \subseteq Request
  /\ Client \subseteq Nat /\ MaxTime \in Nat
  /\ MaxConcurrent \in Nat \ {0} /\ PoolSize \in Nat \ {0} /\ MaxWaiting \in Nat \ {0}
  /\ ClientLimit \in Nat \ {0} /\ Window \in Nat \ {0} /\ MaxKeys \in Nat \ {0}
  /\ GlobalLimit \in Nat \ {0} /\ Stall \in Nat
BY GatewayAssumption

\* Two sequences of one element each.
LEMMA OneAndOne ==
  ASSUME NEW d, NEW e
  PROVE  /\ DOMAIN (<<d>> \o <<e>>) = {1, 2}
         /\ (<<d>> \o <<e>>)[1] = d /\ (<<d>> \o <<e>>)[2] = e
<1> DEFINE s == <<d>>
           t == <<e>>
<1>1. s \in Seq({d, e}) /\ t \in Seq({d, e}) /\ Len(s) = 1 /\ Len(t) = 1 /\ s[1] = d /\ t[1] = e
  OBVIOUS
<1> HIDE DEF s, t
<1>2. s \in Seq({d, e}) /\ t \in Seq({d, e})
  BY <1>1
<1>3. /\ DOMAIN (s \o t) = 1..(Len(s) + Len(t))
      /\ \A i \in 1..Len(s) : (s \o t)[i] = s[i]
      /\ \A i \in 1..Len(t) : (s \o t)[Len(s) + i] = t[i]
  BY <1>2, ConcatOf
<1>4. 1 \in 1..Len(s) /\ 1 \in 1..Len(t) /\ Len(s) + 1 = 2 /\ 1..(Len(s) + Len(t)) = {1, 2}
  BY <1>1
<1>5. (s \o t)[1] = d /\ (s \o t)[Len(s) + 1] = e
  BY <1>1, <1>3, <1>4
<1> QED
  BY <1>3, <1>4, <1>5 DEF s, t

\* What an exception leaves to do: to return what is held.
LEMMA UnwindOf ==
  ASSUME TypeInv, NEW r \in Request
  PROVE  \E t \in Thread :
           /\ Unwind(r) = [req EXCEPT ![r] = t]
           /\ t.phase = "working" /\ t.client = req[r].client /\ t.now = req[r].now
           /\ \A p \in Pool : Alternates(t.todo, p, r \in held[p])
<1> DEFINE out(p) == IF r \in held[p] THEN <<Give(p)>> ELSE << >>
           u == out("gbrain") \o out("metadata")
           t == [req[r] EXCEPT !.phase = "working", !.todo = u]
<1>1. "gbrain" \in Pool /\ "metadata" \in Pool /\ \A p \in Pool : p \in {"gbrain", "metadata"}
  BY DEF Pool
<1>2. out("gbrain") \in Seq(Steps) /\ out("metadata") \in Seq(Steps)
  BY <1>1, StepsApart
<1>3. /\ Alternates(out("gbrain"), "gbrain", r \in held["gbrain"]) /\ Alternates(out("metadata"), "gbrain", FALSE)
      /\ Alternates(out("metadata"), "metadata", r \in held["metadata"]) /\ Alternates(out("gbrain"), "metadata", FALSE)
  <2>1. ASSUME NEW p \in Pool, NEW q \in Pool
        PROVE  Alternates(<<Give(q)>>, p, p = q) /\ Alternates(<< >>, p, FALSE)
    BY Pieces
  <2>2. ASSUME NEW p \in Pool
        PROVE  Alternates(out(p), p, r \in held[p])
    <3>1. CASE r \in held[p]
      <4>1. Alternates(<<Give(p)>>, p, p = p) /\ out(p) = <<Give(p)>>
        BY <2>1, <3>1
      <4>2. (p = p) = (r \in held[p])
        BY <3>1
      <4> QED
        BY <4>1, <4>2
    <3>2. CASE r \notin held[p]
      <4>1. (r \in held[p]) = FALSE /\ out(p) = << >>
        BY <3>2
      <4> QED
        BY <4>1, <2>1
    <3> QED
      BY <3>1, <3>2
  <2>3. ASSUME NEW p \in Pool, NEW q \in Pool, p # q
        PROVE  Alternates(out(q), p, FALSE)
    <3>1. (p = q) = FALSE
      BY <2>3
    <3> QED
      BY <3>1, <2>1
  <2> HIDE DEF out
  <2> QED
    BY <1>1, <2>2, <2>3
<1>4. u \in Seq(Steps) /\ Alternates(u, "gbrain", r \in held["gbrain"])
  <2> HIDE DEF out
  <2>1. (r \in held["gbrain"]) \in BOOLEAN
    OBVIOUS
  <2> QED
    BY <1>1, <1>2, <1>3, <2>1, OneAfterAnother
<1>5. Alternates(u, "metadata", r \in held["metadata"])
  <2>1. CASE r \notin held["gbrain"]
    <3>1. u = out("metadata")
      BY <2>1, <1>2
    <3> QED
      BY <3>1, <1>3
  <2>2. CASE r \notin held["metadata"]
    <3>1. u = out("gbrain")
      BY <2>2, <1>2
    <3>2. (r \in held["metadata"]) = FALSE
      BY <2>2
    <3> HIDE DEF u, out
    <3> QED
      BY <3>1, <3>2, <1>3
  <2>3. CASE r \in held["gbrain"] /\ r \in held["metadata"]
    <3>1. DOMAIN u = {1, 2} /\ u[1] = Give("gbrain") /\ u[2] = Give("metadata")
      <4>1. out("gbrain") = <<Give("gbrain")>> /\ out("metadata") = <<Give("metadata")>>
        BY <2>3
      <4> HIDE DEF out
      <4> QED
        BY <4>1, OneAndOne
    <3>2. Quiet(u, "metadata", 0, 2)
      BY <3>1, <1>1, StepsApart DEF Quiet
    <3> HIDE DEF u
    <3> QED
      BY <3>1, <3>2, <2>3, <1>1, StepsApart DEF Alternates
  <2> QED
    BY <2>1, <2>2, <2>3
<1>6. req[r] \in Thread /\ req \in [Request -> Thread]
  BY DEF TypeInv
<1>7. Unwind(r) = [req EXCEPT ![r] = t]
  BY <1>6 DEF Unwind
<1> HIDE DEF u
<1>8. t \in Thread /\ t.phase = "working" /\ t.client = req[r].client /\ t.now = req[r].now /\ t.todo = u
  BY <1>4, <1>6 DEF Thread
<1> HIDE DEF t
<1> QED
  BY <1>1, <1>4, <1>5, <1>7, <1>8

\* The threads alive after one of them has moved.
LEMMA Alive ==
  ASSUME TypeInv, IsFiniteSet(Threads), NEW r \in Request, NEW t \in Thread,
         req' = [req EXCEPT ![r] = t]
  PROVE  /\ req' \in [Request -> Thread] /\ req'[r] = t
         /\ \A q \in Request : q # r => req'[q] = req[q]
         /\ IsFiniteSet(Threads')
         /\ (req[r].phase = "idle" <=> t.phase = "idle") => Threads' = Threads
         /\ req[r].phase = "idle" /\ t.phase # "idle" => Cardinality(Threads') = Cardinality(Threads) + 1
         /\ req[r].phase # "idle" /\ t.phase = "idle" => Cardinality(Threads') = Cardinality(Threads) - 1
<1>1. /\ req' \in [Request -> Thread] /\ req'[r] = t
      /\ \A q \in Request : q # r => req'[q] = req[q]
  BY DEF TypeInv
<1>2. (req[r].phase = "idle" <=> t.phase = "idle") => Threads' = Threads
  BY <1>1 DEF Threads
<1>3. ASSUME req[r].phase = "idle", t.phase # "idle"
      PROVE  IsFiniteSet(Threads') /\ Cardinality(Threads') = Cardinality(Threads) + 1
  <2>1. Threads' = Threads \cup {r} /\ r \notin Threads
    BY <1>1, <1>3 DEF Threads
  <2> QED
    BY <2>1, FS_AddElement
<1>4. ASSUME req[r].phase # "idle", t.phase = "idle"
      PROVE  IsFiniteSet(Threads') /\ Cardinality(Threads') = Cardinality(Threads) - 1
  <2>1. Threads' = Threads \ {r} /\ r \in Threads
    BY <1>1, <1>4 DEF Threads
  <2> QED
    BY <2>1, FS_RemoveElement
<1> QED
  BY <1>1, <1>2, <1>3, <1>4

\* The other threads stay in order as long as their connections do.
LEMMA OthersOrderly ==
  ASSUME \A q \in Request : Orderly(q), mix' = mix, NEW q \in Request, req'[q] = req[q],
         \A p \in Pool : q \in held'[p] <=> q \in held[p]
  PROVE  Orderly(q)'
<1>1. Orderly(q)
  OBVIOUS
<1>2. \A p \in Pool : (q \in held'[p]) = (q \in held[p])
  OBVIOUS
<1>3. \A p \in Pool : Alternates(req'[q].todo, p, q \in held'[p])
  BY <1>1, <1>2 DEF Orderly
<1> QED
  BY <1>1, <1>3 DEF Orderly

\* The pools do not notice a thread that neither waited nor waits.
LEMMA PoolsUnmoved ==
  ASSUME TypeInv, PoolInv, UNCHANGED pools, NEW r \in Request,
         \A q \in Request : q # r => req'[q] = req[q],
         req[r].phase # "waiting", req'[r].phase # "waiting"
  PROVE  PoolInv'
<1>1. \A q \in Request, p \in Pool : Waits(q, p)' <=> Waits(q, p)
  BY DEF Waits, Its
<1>2. held' = held /\ queue' = queue
  BY DEF pools
<1>3. \A p \in Pool : \A i \in DOMAIN queue[p] : queue[p][i] \in Request
  BY DEF TypeInv
<1>4. ASSUME NEW p \in Pool
      PROVE  /\ \A i \in DOMAIN queue'[p] : Waits(queue[p][i], p)'
             /\ \A q \in Request : Waits(q, p)' => \E i \in DOMAIN queue'[p] : queue'[p][i] = q
  <2>1. \A i \in DOMAIN queue[p] : Waits(queue[p][i], p)
    BY DEF PoolInv
  <2>2. \A i \in DOMAIN queue[p] : queue'[p][i] # r /\ queue'[p][i] \in Request
    BY <1>2, <1>3, <2>1 DEF Waits
  <2>3. \A i \in DOMAIN queue[p] : req'[queue'[p][i]] = req[queue[p][i]]
    BY <1>2, <2>2
  <2>4. \A i \in DOMAIN queue'[p] : Waits(queue[p][i], p)'
    BY <1>2, <2>1, <2>3 DEF Waits, Its
  <2>5. \A q \in Request : Waits(q, p)' => \E i \in DOMAIN queue'[p] : queue'[p][i] = q
    BY <1>1, <1>2 DEF PoolInv
  <2> QED
    BY <2>4, <2>5
<1> QED
  BY <1>2, <1>4 DEF PoolInv

\* A thread that works on by itself, holding what it held.
LEMMA ThreadMoves ==
  ASSUME GatewayInv, NEW r \in Request, NEW t \in Thread,
         req' = [req EXCEPT ![r] = t], UNCHANGED <<mix, slots, pools>>,
         req[r].phase \notin {"idle", "waiting"}, t.phase \notin {"idle", "waiting"},
         t.phase # "working" => t.todo = << >>,
         \A p \in Pool : Alternates(t.todo, p, r \in held[p])
  PROVE  req' \in [Request -> Thread] /\ ThreadInv' /\ PoolInv'
<1>1. TypeInv /\ IsFiniteSet(Threads) /\ PoolInv /\ \A q \in Request : Orderly(q)
  BY DEF GatewayInv, ThreadInv
<1>2. /\ req' \in [Request -> Thread] /\ req'[r] = t
      /\ \A q \in Request : q # r => req'[q] = req[q]
      /\ Threads' = Threads
  BY <1>1, Alive
<1>3. mix' = mix /\ slots' = slots /\ held' = held /\ queue' = queue
  BY DEF pools
<1>4. ASSUME NEW q \in Request PROVE Orderly(q)'
  <2>1. CASE q # r
    BY <1>1, <1>2, <1>3, <2>1, OthersOrderly
  <2>2. CASE q = r
    <3>1. r \in DOMAIN mix
      BY <1>1 DEF Orderly
    <3> QED
      BY <1>2, <1>3, <2>2, <3>1 DEF Orderly
  <2> QED
    BY <2>1, <2>2
<1>5. PoolInv'
  BY <1>1, <1>2, PoolsUnmoved
<1>6. ThreadInv'
  BY <1>2, <1>3, <1>4 DEF ThreadInv, GatewayInv
<1> QED
  BY <1>2, <1>5, <1>6

-----------------------------------------------------------------------------
(* The actions                                                             *)

\* Accept, StartFails and Finish: a thread comes or goes, and a slot with it.
LEMMA SlotSteps ==
  ASSUME GatewayInv, NEW r \in Request, Accept(r) \/ StartFails(r) \/ Finish(r)
  PROVE  GatewayInv'
<1>1. TypeInv /\ ThreadInv /\ PoolInv /\ LimiterInv /\ IsFiniteSet(Threads) /\ \A q \in Request : Orderly(q)
  BY DEF GatewayInv, ThreadInv
<1>2. /\ mix' = mix /\ held' = held /\ queue' = queue /\ clock' = clock /\ clients' = clients
      /\ admitted' = admitted /\ UNCHANGED pools
  BY DEF Accept, StartFails, Finish, pools, limits
<1>3. req \in [Request -> Thread] /\ req[r] \in Thread /\ slots \in Nat
      /\ Cardinality(Threads) \in Nat /\ slots + Cardinality(Threads) = MaxConcurrent
  BY <1>1, FS_CardinalityType DEF TypeInv, ThreadInv
<1>4. Nobody \in Thread /\ Nobody.phase = "idle" /\ Nobody.todo = << >>
  BY Constants DEF Nobody, Thread
<1>5. PICK t \in Thread :
        /\ req' = [req EXCEPT ![r] = t] /\ t.todo = req[r].todo
        /\ req[r].phase # "waiting" /\ t.phase \in {"idle", "starting"} /\ req[r].todo = << >>
        /\ \/ req[r].phase = "idle" /\ t.phase = "starting" /\ slots' = slots - 1 /\ slots' \in Nat /\ r \in DOMAIN mix
           \/ req[r].phase # "idle" /\ t.phase = "idle" /\ slots' = slots + 1
  <2>1. CASE Accept(r)
    <3> DEFINE t == [req[r] EXCEPT !.phase = "starting"]
    <3>1. t \in Thread /\ req' = [req EXCEPT ![r] = t] /\ t.todo = req[r].todo /\ t.phase = "starting"
      BY <1>3, <2>1 DEF Accept, Goes, Thread
    <3>2. req[r].phase = "idle" /\ req[r].todo = << >> /\ slots' = slots - 1 /\ slots' \in Nat /\ r \in DOMAIN mix
      BY <1>3, <1>4, <2>1 DEF Accept
    <3> HIDE DEF t
    <3> QED
      BY <3>1, <3>2
  <2>2. CASE StartFails(r)
    <3>1. req[r].phase = "starting" /\ req[r].todo = << >> /\ req' = [req EXCEPT ![r] = Nobody] /\ slots' = slots + 1
      BY <1>1, <2>2 DEF StartFails, Orderly
    <3> QED
      BY <3>1, <1>4
  <2>3. CASE Finish(r)
    <3>1. req[r].phase = "working" /\ req[r].todo = << >> /\ req' = [req EXCEPT ![r] = Nobody] /\ slots' = slots + 1
      BY <2>3 DEF Finish
    <3> QED
      BY <3>1, <1>4
  <2> QED
    BY <2>1, <2>2, <2>3
<1>6. /\ req' \in [Request -> Thread] /\ req'[r] = t /\ \A q \in Request : q # r => req'[q] = req[q]
      /\ IsFiniteSet(Threads')
      /\ req[r].phase = "idle" /\ t.phase # "idle" => Cardinality(Threads') = Cardinality(Threads) + 1
      /\ req[r].phase # "idle" /\ t.phase = "idle" => Cardinality(Threads') = Cardinality(Threads) - 1
  BY <1>1, <1>5, Alive
<1>7. slots' + Cardinality(Threads') = MaxConcurrent /\ slots' \in Nat
  BY <1>3, <1>5, <1>6
<1>8. ASSUME NEW q \in Request PROVE Orderly(q)'
  <2>1. CASE q # r
    BY <1>1, <1>2, <1>6, <2>1, OthersOrderly
  <2>2. CASE q = r
    <3>1. Orderly(r)
      BY <1>1
    <3> QED
      BY <1>2, <1>5, <1>6, <2>2, <3>1 DEF Orderly
  <2> QED
    BY <2>1, <2>2
<1>9. ThreadInv'
  BY <1>6, <1>7, <1>8 DEF ThreadInv
<1>10. PoolInv'
  BY <1>1, <1>2, <1>5, <1>6, PoolsUnmoved
<1>11. TypeInv' /\ LimiterInv'
  BY <1>1, <1>2, <1>6, <1>7 DEF TypeInv, LimiterInv
<1> QED
  BY <1>9, <1>10, <1>11 DEF GatewayInv

\* A thread starts, reads its request, is refused a connection or fails.
LEMMA WorkSteps ==
  ASSUME GatewayInv, NEW r \in Request,
         StartThread(r) \/ ReadRequest(r) \/ ReadFails(r) \/ TooMany(r) \/ HandlerRaises(r)
  PROVE  GatewayInv'
<1>1. TypeInv /\ LimiterInv /\ Orderly(r)
  BY DEF GatewayInv, ThreadInv
<1>2. /\ mix' = mix /\ slots' = slots /\ held' = held /\ queue' = queue /\ clock' = clock /\ clients' = clients
      /\ admitted' = admitted /\ UNCHANGED pools
  BY DEF StartThread, ReadRequest, ReadFails, TooMany, HandlerRaises, pools, limits
<1>3. req \in [Request -> Thread] /\ req[r] \in Thread
  BY <1>1 DEF TypeInv
<1>4. \E t \in Thread :
        /\ req' = [req EXCEPT ![r] = t]
        /\ req[r].phase \notin {"idle", "waiting"} /\ t.phase \notin {"idle", "waiting"}
        /\ t.phase # "working" => t.todo = << >>
        /\ \A p \in Pool : Alternates(t.todo, p, r \in held[p])
  <2>1. CASE StartThread(r) \/ ReadFails(r)
    <3>1. PICK ph \in {"reading", "working"} : Goes(r, ph) /\ req[r].phase \in {"starting", "reading"}
      BY <2>1 DEF StartThread, ReadFails
    <3> DEFINE t == [req[r] EXCEPT !.phase = ph]
    <3>2. t \in Thread /\ req' = [req EXCEPT ![r] = t] /\ t.todo = req[r].todo /\ t.phase = ph
      BY <1>3, <3>1 DEF Goes, Thread
    <3>3. req[r].todo = << >> /\ \A p \in Pool : Alternates(req[r].todo, p, r \in held[p])
      BY <1>1, <3>1 DEF Orderly
    <3> HIDE DEF t
    <3> QED
      BY <3>1, <3>2, <3>3
  <2>2. CASE ReadRequest(r)
    <3>1. PICK c \in IF mix[r] = "auth" THEN Client ELSE {0} :
            req' = [req EXCEPT ![r] = [phase |-> "working", todo |-> Script(mix[r]), client |-> c, now |-> 0]]
      BY <2>2 DEF ReadRequest
    <3> DEFINE t == [phase |-> "working", todo |-> Script(mix[r]), client |-> c, now |-> 0]
    <3>2. req[r].phase = "reading" /\ req[r].todo = << >> /\ r \in DOMAIN mix
      BY <1>1, <2>2 DEF ReadRequest, Orderly
    <3>3. mix[r] \in AllKinds
      BY <1>1, <3>2, Constants DEF TypeInv
    <3>4. ASSUME NEW p \in Pool PROVE r \notin held[p] /\ Script(mix[r]) \in Seq(Steps) /\ Alternates(Script(mix[r]), p, r \in held[p])
      <4>1. r \notin held[p]
        BY <1>1, <3>2 DEF Orderly, Alternates
      <4>2. (r \in held[p]) = FALSE
        BY <4>1
      <4> QED
        BY <3>3, <4>1, <4>2, ScriptAlternates
    <3>5. t \in Thread
      <4>1. Script(mix[r]) \in Seq(Steps) /\ c \in Client \cup {0} /\ 0 \in 0..MaxTime
        BY <3>4, Constants DEF Pool
      <4> HIDE DEF Script
      <4> QED
        BY <4>1 DEF Thread
    <3>6. t.phase = "working" /\ t.todo = Script(mix[r]) /\ req' = [req EXCEPT ![r] = t]
      BY <3>1
    <3> HIDE DEF t
    <3> QED
      BY <3>2, <3>4, <3>5, <3>6
  <2>3. CASE TooMany(r) \/ HandlerRaises(r)
    <3>1. req[r].phase = "working" /\ req' = Unwind(r)
      BY <2>3 DEF TooMany, HandlerRaises, Doing
    <3> QED
      BY <1>1, <3>1, UnwindOf
  <2> QED
    BY <2>1, <2>2, <2>3
<1>5. req' \in [Request -> Thread] /\ ThreadInv' /\ PoolInv'
  BY <1>2, <1>4, ThreadMoves
<1>6. TypeInv' /\ LimiterInv'
  BY <1>1, <1>2, <1>5 DEF TypeInv, LimiterInv
<1> QED
  BY <1>5, <1>6 DEF GatewayInv

\* What is left of a script after a step that is not on a pool.
LEMMA RestOf ==
  ASSUME TypeInv, NEW r \in Request, Orderly(r), req[r].phase = "working", req[r].todo # << >>,
         Head(req[r].todo).do \notin {"take", "give"}
  PROVE  /\ Tail(req[r].todo) \in Seq(Steps)
         /\ \A p \in Pool : Alternates(Tail(req[r].todo), p, r \in held[p])
<1>1. req[r].todo \in Seq(Steps)
  BY DEF TypeInv, Thread
<1>2. Tail(req[r].todo) \in Seq(Steps) /\ Head(req[r].todo) \in Steps
  BY <1>1, TailOf
<1>3. ASSUME NEW p \in Pool PROVE Alternates(Tail(req[r].todo), p, r \in held[p])
  <2>1. Head(req[r].todo) \notin {Take(p), Give(p)}
    BY <1>2, StepsApart
  <2>2. Alternates(req[r].todo, p, r \in held[p]) /\ (r \in held[p]) \in BOOLEAN
    BY DEF Orderly
  <2> QED
    BY <1>1, <2>1, <2>2, AfterOther
<1> QED
  BY <1>2, <1>3

\* The steps of _allow_auth_request.
LEMMA AuthSteps ==
  ASSUME GatewayInv, NEW r \in Request, ReadClock(r) \/ OverallLimit(r) \/ ClientLimited(r)
  PROVE  GatewayInv'
<1>1. TypeInv /\ LimiterInv /\ Orderly(r)
  BY DEF GatewayInv, ThreadInv
<1>2. mix' = mix /\ slots' = slots /\ held' = held /\ queue' = queue /\ clock' = clock /\ UNCHANGED pools
  BY DEF ReadClock, OverallLimit, ClientLimited, pools, limits
<1>3. req \in [Request -> Thread] /\ req[r] \in Thread /\ clock \in 0..MaxTime
  BY <1>1 DEF TypeInv
<1>4. /\ req[r].phase = "working" /\ req[r].todo # << >>
      /\ Head(req[r].todo).do \notin {"take", "give"}
  BY DEF ReadClock, OverallLimit, ClientLimited, Doing
<1>5. /\ Tail(req[r].todo) \in Seq(Steps)
      /\ \A p \in Pool : Alternates(Tail(req[r].todo), p, r \in held[p])
  BY <1>1, <1>4, RestOf
<1>6. ASSUME NEW ok \in BOOLEAN, After(r, ok)
      PROVE  \E t \in Thread : /\ req' = [req EXCEPT ![r] = t] /\ t.phase = "working"
                               /\ \A p \in Pool : Alternates(t.todo, p, r \in held[p])
  <2>1. PICK u \in Thread :
          /\ (IF ok THEN Rest(req, r) ELSE Unwind(r)) = [req EXCEPT ![r] = u]
          /\ u.phase = "working" /\ \A p \in Pool : Alternates(u.todo, p, r \in held[p])
    <3>1. CASE ok
      <4> DEFINE u == [req[r] EXCEPT !.phase = "working", !.todo = Tail(req[r].todo)]
      <4>1. u \in Thread /\ u.phase = "working" /\ u.todo = Tail(req[r].todo)
        BY <1>3, <1>5 DEF Thread
      <4>2. Rest(req, r) = [req EXCEPT ![r] = u]
        BY <1>3 DEF Rest
      <4> HIDE DEF u
      <4> QED
        BY <3>1, <4>1, <4>2, <1>5
    <3>2. CASE ~ok
      BY <1>1, <3>2, UnwindOf
    <3> QED
      BY <3>1, <3>2
  <2> DEFINE t == [u EXCEPT !.now = 0, !.client = IF Doing(r, "client") THEN 0 ELSE @]
  <2>2. t \in Thread /\ t.phase = "working" /\ t.todo = u.todo
    <3> DEFINE c == IF Doing(r, "client") THEN 0 ELSE u.client
    <3>1. c \in Client \cup {0} /\ 0 \in 0..MaxTime
      BY Constants DEF Thread
    <3> HIDE DEF c
    <3>2. [u EXCEPT !.now = 0, !.client = c] \in Thread /\ [u EXCEPT !.now = 0, !.client = c].phase = u.phase
          /\ [u EXCEPT !.now = 0, !.client = c].todo = u.todo
      BY <3>1 DEF Thread
    <3>3. t = [u EXCEPT !.now = 0, !.client = c]
      BY DEF c
    <3> QED
      BY <2>1, <3>2, <3>3
  <2>3. req' = [req EXCEPT ![r] = t]
    <3> DEFINE s == IF ok THEN Rest(req, r) ELSE Unwind(r)
    <3>1. req' = Past(s, r)
      BY <1>6 DEF After
    <3>2. s = [req EXCEPT ![r] = u] /\ s \in [Request -> Thread] /\ s[r] = u
      BY <1>3, <2>1
    <3> HIDE DEF s
    <3>3. Past(s, r) = [s EXCEPT ![r] = t]
      BY <3>2 DEF Past
    <3> HIDE DEF t
    <3> QED
      BY <1>3, <3>1, <3>2, <3>3
  <2> HIDE DEF t
  <2> QED
    BY <2>1, <2>2, <2>3
<1>7. Table(clients) /\ Cardinality(DOMAIN clients.ev) <= MaxKeys /\ req[r].client \in Nat /\ req[r].now \in Nat
  BY <1>1, <1>3, Constants DEF LimiterInv, Thread
<1>8. /\ \E t \in Thread : /\ req' = [req EXCEPT ![r] = t] /\ t.phase = "working"
                           /\ \A p \in Pool : Alternates(t.todo, p, r \in held[p])
      /\ admitted' \in Seq(0..MaxTime) /\ LimiterInv'
  <2>1. CASE ReadClock(r)
    <3> DEFINE t == [req[r] EXCEPT !.phase = "working", !.todo = Tail(req[r].todo), !.now = clock]
    <3>1. t \in Thread /\ t.phase = "working" /\ t.todo = Tail(req[r].todo)
      BY <1>3, <1>5 DEF Thread
    <3>2. req' = [req EXCEPT ![r] = t] /\ admitted' = admitted /\ clients' = clients
      BY <1>3, <2>1 DEF ReadClock, Rest, limits
    <3> HIDE DEF t
    <3> QED
      BY <1>1, <1>5, <3>1, <3>2 DEF TypeInv, LimiterInv
  <2>2. CASE OverallLimit(r)
    <3> DEFINE a == Allow(overall, 0, req[r].now, GlobalLimit, Window, 4)
    <3>1. /\ After(r, a.ok) /\ clients' = clients
          /\ admitted' = IF a.ok THEN Append(admitted, clock) ELSE admitted
      BY <2>2 DEF OverallLimit
    <3>2. a.ok \in BOOLEAN
      BY DEF Allow
    <3> HIDE DEF a
    <3>3. admitted' \in Seq(0..MaxTime)
      <4>1. admitted \in Seq(0..MaxTime) /\ Append(admitted, clock) \in Seq(0..MaxTime)
        BY <1>1, <1>3 DEF TypeInv
      <4> QED
        BY <3>1, <3>2, <4>1
    <3> QED
      BY <1>1, <1>6, <3>1, <3>2, <3>3 DEF LimiterInv
  <2>3. CASE ClientLimited(r)
    <3> DEFINE a == Allow(clients, req[r].client, req[r].now, ClientLimit, Window, MaxKeys)
    <3>1. clients' = a.lim /\ After(r, a.ok) /\ admitted' = admitted
      BY <2>3 DEF ClientLimited
    <3>2. Table(a.lim) /\ Cardinality(DOMAIN a.lim.ev) <= MaxKeys /\ a.ok \in BOOLEAN
      BY <1>7, Constants, AllowKeepsTable
    <3> HIDE DEF a
    <3> QED
      BY <1>1, <1>6, <3>1, <3>2 DEF TypeInv, LimiterInv
  <2> QED
    BY <2>1, <2>2, <2>3
<1>9. req' \in [Request -> Thread] /\ ThreadInv' /\ PoolInv'
  BY <1>2, <1>4, <1>8, ThreadMoves
<1>10. TypeInv'
  BY <1>1, <1>2, <1>8, <1>9 DEF TypeInv
<1> QED
  BY <1>8, <1>9, <1>10 DEF GatewayInv

\* A thread whose next step is to take a connection: it has none of that
\* pool, and with it what is left alternates.
LEMMA TakeLeaves ==
  ASSUME TypeInv, NEW r \in Request, Orderly(r), req[r].todo # << >>, Head(req[r].todo).do = "take"
  PROVE  /\ Its(r) \in Pool /\ r \notin held[Its(r)] /\ Tail(req[r].todo) \in Seq(Steps)
         /\ Alternates(Tail(req[r].todo), Its(r), TRUE)
         /\ \A p \in Pool : p # Its(r) => Alternates(Tail(req[r].todo), p, r \in held[p])
<1>1. req[r].todo \in Seq(Steps)
  BY DEF TypeInv, Thread
<1>2. Tail(req[r].todo) \in Seq(Steps) /\ Head(req[r].todo) \in Steps
  BY <1>1, TailOf
<1>3. Its(r) \in Pool /\ Head(req[r].todo) = Take(Its(r))
  BY <1>2, StepsApart DEF Its
<1>4. \A p \in Pool : Alternates(req[r].todo, p, r \in held[p]) /\ (r \in held[p]) \in BOOLEAN
  BY DEF Orderly
<1>5. r \notin held[Its(r)] /\ Alternates(Tail(req[r].todo), Its(r), TRUE)
  BY <1>1, <1>3, <1>4, AfterTake
<1>6. ASSUME NEW p \in Pool, p # Its(r) PROVE Alternates(Tail(req[r].todo), p, r \in held[p])
  <2>1. Head(req[r].todo) \notin {Take(p), Give(p)}
    BY <1>3, <1>6, StepsApart
  <2> QED
    BY <1>1, <1>4, <2>1, AfterOther
<1> QED
  BY <1>2, <1>3, <1>5, <1>6

\* The same for a thread whose next step is to return one.
LEMMA GiveLeaves ==
  ASSUME TypeInv, NEW r \in Request, Orderly(r), req[r].todo # << >>, Head(req[r].todo).do = "give"
  PROVE  /\ Its(r) \in Pool /\ r \in held[Its(r)] /\ Tail(req[r].todo) \in Seq(Steps)
         /\ Alternates(Tail(req[r].todo), Its(r), FALSE)
         /\ \A p \in Pool : p # Its(r) => Alternates(Tail(req[r].todo), p, r \in held[p])
<1>1. req[r].todo \in Seq(Steps)
  BY DEF TypeInv, Thread
<1>2. Tail(req[r].todo) \in Seq(Steps) /\ Head(req[r].todo) \in Steps
  BY <1>1, TailOf
<1>3. Its(r) \in Pool /\ Head(req[r].todo) = Give(Its(r))
  BY <1>2, StepsApart DEF Its
<1>4. \A p \in Pool : Alternates(req[r].todo, p, r \in held[p]) /\ (r \in held[p]) \in BOOLEAN
  BY DEF Orderly
<1>5. r \in held[Its(r)] /\ Alternates(Tail(req[r].todo), Its(r), FALSE)
  BY <1>1, <1>3, <1>4, AfterGive
<1>6. ASSUME NEW p \in Pool, p # Its(r) PROVE Alternates(Tail(req[r].todo), p, r \in held[p])
  <2>1. Head(req[r].todo) \notin {Take(p), Give(p)}
    BY <1>3, <1>6, StepsApart
  <2> QED
    BY <1>1, <1>4, <2>1, AfterOther
<1> QED
  BY <1>2, <1>3, <1>5, <1>6

\* The record of a thread after its next step.
LEMMA RestThread ==
  ASSUME TypeInv, NEW r \in Request, Tail(req[r].todo) \in Seq(Steps)
  PROVE  \E t \in Thread : /\ Rest(req, r) = [req EXCEPT ![r] = t] /\ Rest(req, r)[r] = t
                           /\ t.phase = "working" /\ t.todo = Tail(req[r].todo)
<1> DEFINE t == [req[r] EXCEPT !.phase = "working", !.todo = Tail(req[r].todo)]
<1>1. req \in [Request -> Thread] /\ req[r] \in Thread
  BY DEF TypeInv
<1>2. t \in Thread /\ t.phase = "working" /\ t.todo = Tail(req[r].todo)
  BY <1>1 DEF Thread
<1>3. Rest(req, r) = [req EXCEPT ![r] = t]
  BY <1>1 DEF Rest
<1> HIDE DEF t
<1> QED
  BY <1>1, <1>2, <1>3

\* A free connection is taken at once.
LEMMA TakeFreeStep ==
  ASSUME GatewayInv, NEW r \in Request, TakeFree(r)
  PROVE  GatewayInv'
<1>1. TypeInv /\ ThreadInv /\ PoolInv /\ LimiterInv /\ IsFiniteSet(Threads) /\ \A q \in Request : Orderly(q)
  BY DEF GatewayInv, ThreadInv
<1>2. /\ mix' = mix /\ slots' = slots /\ queue' = queue /\ clock' = clock /\ clients' = clients /\ admitted' = admitted
      /\ held' = [held EXCEPT ![Its(r)] = @ \cup {r}] /\ Cardinality(held[Its(r)]) < PoolSize
      /\ req' = Rest(req, r)
      /\ req[r].phase = "working" /\ req[r].todo # << >> /\ Head(req[r].todo).do = "take"
  BY DEF TakeFree, Doing, limits
<1> DEFINE p == Its(r)
<1>3. /\ p \in Pool /\ r \notin held[p] /\ Tail(req[r].todo) \in Seq(Steps)
      /\ Alternates(Tail(req[r].todo), p, TRUE)
      /\ \A q \in Pool : q # p => Alternates(Tail(req[r].todo), q, r \in held[q])
  BY <1>1, <1>2, TakeLeaves
<1>4. PICK t \in Thread : /\ req' = [req EXCEPT ![r] = t]
                          /\ t.phase = "working" /\ t.todo = Tail(req[r].todo)
  BY <1>1, <1>2, <1>3, RestThread
<1>5. /\ req' \in [Request -> Thread] /\ req'[r] = t /\ \A q \in Request : q # r => req'[q] = req[q]
      /\ Threads' = Threads
  BY <1>1, <1>2, <1>4, Alive
<1>6. held \in [Pool -> SUBSET Request] /\ held' \in [Pool -> SUBSET Request]
      /\ held'[p] = held[p] \cup {r} /\ \A q \in Pool : q # p => held'[q] = held[q]
  BY <1>1, <1>2, <1>3 DEF TypeInv
<1> HIDE DEF p
<1>7. ASSUME NEW q \in Request PROVE Orderly(q)'
  <2>1. CASE q # r
    <3>1. \A x \in Pool : q \in held'[x] <=> q \in held[x]
      BY <1>6, <2>1
    <3> QED
      BY <1>1, <1>2, <1>5, <2>1, <3>1, OthersOrderly
  <2>2. CASE q = r
    <3>1. ASSUME NEW x \in Pool PROVE Alternates(t.todo, x, r \in held'[x])
      <4>1. CASE x = p
        <5>1. (r \in held'[x]) = TRUE
          BY <1>6, <4>1
        <5> QED
          BY <1>3, <1>4, <4>1, <5>1
      <4>2. CASE x # p
        BY <1>3, <1>4, <1>6, <4>2
      <4> QED
        BY <4>1, <4>2
    <3>2. r \in DOMAIN mix
      BY <1>1, <1>2 DEF Orderly
    <3> QED
      BY <1>2, <1>4, <1>5, <2>2, <3>1, <3>2 DEF Orderly
  <2> QED
    BY <2>1, <2>2
<1>8. PoolInv'
  <2>1. \A q \in Request, x \in Pool : Waits(q, x)' <=> Waits(q, x)
    <3>1. \A x \in Pool : ~Waits(r, x) /\ ~Waits(r, x)'
      BY <1>2, <1>4, <1>5 DEF Waits
    <3>2. \A q \in Request : q # r => \A x \in Pool : Waits(q, x)' <=> Waits(q, x)
      BY <1>5 DEF Waits, Its
    <3> QED
      BY <3>1, <3>2
  <2>2. ASSUME NEW x \in Pool
        PROVE  /\ \A i \in DOMAIN queue'[x] : Waits(queue[x][i], x)'
               /\ \A q \in Request : Waits(q, x)' => \E i \in DOMAIN queue'[x] : queue'[x][i] = q
    <3>1. \A i \in DOMAIN queue[x] : Waits(queue[x][i], x) /\ queue[x][i] \in Request
      BY <1>1 DEF PoolInv, TypeInv
    <3>2. \A i \in DOMAIN queue[x] : queue'[x][i] # r
      BY <1>2, <3>1 DEF Waits
    <3>3. \A i \in DOMAIN queue[x] : req'[queue'[x][i]] = req[queue[x][i]]
      BY <1>2, <1>5, <3>1, <3>2
    <3>4. \A i \in DOMAIN queue'[x] : Waits(queue[x][i], x)'
      BY <1>2, <3>1, <3>3 DEF Waits, Its
    <3>5. \A q \in Request : Waits(q, x)' => \E i \in DOMAIN queue'[x] : queue'[x][i] = q
      BY <1>1, <1>2, <2>1 DEF PoolInv
    <3> QED
      BY <3>4, <3>5
  <2>3. ASSUME NEW x \in Pool
        PROVE  /\ IsFiniteSet(held'[x]) /\ Cardinality(held'[x]) <= PoolSize
               /\ queue'[x] # << >> => Cardinality(held'[x]) = PoolSize
    <3>1. CASE x = p
      <4>1. IsFiniteSet(held[p]) /\ (queue[p] # << >> => Cardinality(held[p]) = PoolSize)
        BY <1>1, <1>3 DEF PoolInv
      <4>2. /\ IsFiniteSet(held'[p]) /\ Cardinality(held'[p]) = Cardinality(held[p]) + 1
            /\ Cardinality(held[p]) \in Nat
        BY <1>3, <1>6, <4>1, FS_AddElement, FS_CardinalityType
      <4>3. Cardinality(held[p]) < PoolSize
        BY <1>2 DEF p
      <4> QED
        BY <1>2, <3>1, <4>1, <4>2, <4>3, Constants
    <3>2. CASE x # p
      BY <1>1, <1>2, <1>6, <3>2 DEF PoolInv
    <3> QED
      BY <3>1, <3>2
  <2> QED
    BY <1>1, <1>2, <2>2, <2>3 DEF PoolInv
<1>9. ThreadInv'
  BY <1>1, <1>2, <1>5, <1>7 DEF ThreadInv
<1>10. TypeInv' /\ LimiterInv'
  BY <1>1, <1>2, <1>5, <1>6 DEF TypeInv, LimiterInv
<1> QED
  BY <1>8, <1>9, <1>10 DEF GatewayInv

\* A thread enters a waiting queue or leaves it, holding what it held.
LEMMA QueueMoves ==
  ASSUME GatewayInv, NEW r \in Request, NEW t \in Thread, NEW p \in Pool,
         req' = [req EXCEPT ![r] = t], mix' = mix, slots' = slots, held' = held,
         clock' = clock, admitted' = admitted, clients' = clients,
         req[r].phase \in {"working", "waiting"}, t.phase \in {"working", "waiting"},
         t.phase = "waiting" => t.todo # << >> /\ Head(t.todo).do = "take" /\ Head(t.todo).pool = p,
         req[r].phase = "waiting" => Head(req[r].todo).pool = p,
         \A x \in Pool : Alternates(t.todo, x, r \in held[x]),
         queue' \in [Pool -> Seq(Request)], \A x \in Pool : x # p => queue'[x] = queue[x],
         Len(queue'[p]) <= MaxWaiting, Cardinality(held[p]) = PoolSize,
         (\E i \in DOMAIN queue'[p] : queue'[p][i] = r) <=> t.phase = "waiting",
         \A q \in Request \ {r} : (\E i \in DOMAIN queue'[p] : queue'[p][i] = q)
                                    <=> \E i \in DOMAIN queue[p] : queue[p][i] = q,
         \A i, j \in DOMAIN queue'[p] : queue'[p][i] = queue'[p][j] => i = j
  PROVE  GatewayInv'
<1>1. TypeInv /\ ThreadInv /\ PoolInv /\ LimiterInv /\ IsFiniteSet(Threads) /\ \A q \in Request : Orderly(q)
  BY DEF GatewayInv, ThreadInv
<1>2. /\ req' \in [Request -> Thread] /\ req'[r] = t /\ \A q \in Request : q # r => req'[q] = req[q]
      /\ Threads' = Threads
  BY <1>1, Alive
<1>3. ASSUME NEW q \in Request PROVE Orderly(q)'
  <2>1. CASE q # r
    BY <1>1, <1>2, <2>1, OthersOrderly
  <2>2. CASE q = r
    <3>1. r \in DOMAIN mix
      BY <1>1 DEF Orderly
    <3> QED
      BY <1>2, <2>2, <3>1 DEF Orderly
  <2> QED
    BY <2>1, <2>2
<1>4. /\ \A q \in Request : q # r => \A x \in Pool : Waits(q, x)' <=> Waits(q, x)
      /\ \A x \in Pool : (Waits(r, x) => x = p) /\ (Waits(r, x)' => x = p)
      /\ Waits(r, p)' <=> t.phase = "waiting"
  BY <1>2 DEF Waits, Its
<1>5. ASSUME NEW x \in Pool, NEW q \in Request
      PROVE  (\E i \in DOMAIN queue'[x] : queue'[x][i] = q) <=> Waits(q, x)'
  <2>1. (\E i \in DOMAIN queue[x] : queue[x][i] = q) <=> Waits(q, x)
    BY <1>1 DEF PoolInv
  <2>2. CASE q = r /\ x = p
    BY <1>4, <2>2
  <2>3. CASE q = r /\ x # p
    BY <1>4, <2>1, <2>3
  <2>4. CASE q # r /\ x = p
    BY <1>4, <2>1, <2>4
  <2>5. CASE q # r /\ x # p
    BY <1>4, <2>1, <2>5
  <2> QED
    BY <2>2, <2>3, <2>4, <2>5
<1>6. ASSUME NEW x \in Pool, NEW i \in DOMAIN queue'[x] PROVE Waits(queue[x][i], x)'
  <2>1. queue'[x][i] \in Request
    OBVIOUS
  <2>2. ASSUME NEW q \in Request, q = queue'[x][i]
        PROVE  req'[q].phase = "waiting" /\ Head(req'[q].todo).pool = x
    BY <1>5, <2>2 DEF Waits, Its
  <2> QED
    BY <2>1, <2>2 DEF Waits, Its
<1>7. ASSUME NEW x \in Pool
      PROVE  /\ IsFiniteSet(held'[x]) /\ Cardinality(held'[x]) <= PoolSize /\ Len(queue'[x]) <= MaxWaiting
             /\ queue'[x] # << >> => Cardinality(held'[x]) = PoolSize
             /\ \A i, j \in DOMAIN queue'[x] : queue'[x][i] = queue'[x][j] => i = j
  <2>1. CASE x = p
    BY <1>1, <2>1 DEF PoolInv
  <2>2. CASE x # p
    BY <1>1, <2>2 DEF PoolInv
  <2> QED
    BY <2>1, <2>2
<1>8. PoolInv'
  BY <1>5, <1>6, <1>7 DEF PoolInv
<1>9. ThreadInv'
  BY <1>1, <1>2, <1>3 DEF ThreadInv
<1>10. TypeInv' /\ LimiterInv'
  BY <1>1, <1>2 DEF TypeInv, LimiterInv
<1> QED
  BY <1>8, <1>9, <1>10 DEF GatewayInv

\* No connection is free: the thread queues.
LEMMA QueueStep ==
  ASSUME GatewayInv, NEW r \in Request, Queue(r)
  PROVE  GatewayInv'
<1>1. TypeInv /\ PoolInv /\ Orderly(r)
  BY DEF GatewayInv, ThreadInv
<1>2. /\ mix' = mix /\ slots' = slots /\ held' = held /\ clock' = clock /\ clients' = clients /\ admitted' = admitted
      /\ queue' = [queue EXCEPT ![Its(r)] = Append(@, r)]
      /\ Cardinality(held[Its(r)]) = PoolSize /\ Len(queue[Its(r)]) < MaxWaiting
      /\ Goes(r, "waiting")
      /\ req[r].phase = "working" /\ req[r].todo # << >> /\ Head(req[r].todo).do = "take"
  BY DEF Queue, Doing, limits
<1>3. PICK p \in Pool : p = Its(r)
  BY <1>1, <1>2, TakeLeaves
<1>4. req \in [Request -> Thread] /\ queue \in [Pool -> Seq(Request)] /\ queue[p] \in Seq(Request)
  BY <1>1, <1>3 DEF TypeInv
<1>5. PICK t \in Thread : /\ t.phase = "waiting" /\ t.todo = req[r].todo
                          /\ req' = [req EXCEPT ![r] = t] /\ req'[r] = t
  <2> DEFINE u == [req[r] EXCEPT !.phase = "waiting"]
  <2>1. u \in Thread /\ u.phase = "waiting" /\ u.todo = req[r].todo /\ req' = [req EXCEPT ![r] = u] /\ req'[r] = u
    BY <1>2, <1>4 DEF Goes, Thread
  <2> HIDE DEF u
  <2> QED
    BY <2>1
<1>6. /\ queue' \in [Pool -> Seq(Request)] /\ queue'[p] = Append(queue[p], r)
      /\ \A x \in Pool : x # p => queue'[x] = queue[x]
  BY <1>2, <1>3, <1>4
<1>7. \A x \in Pool : ~Waits(r, x)
  BY <1>2 DEF Waits
<1>8. Len(queue'[p]) <= MaxWaiting
  BY <1>2, <1>3, <1>4, <1>6, Constants
<1>9. \A x \in Pool : Alternates(t.todo, x, r \in held[x])
  BY <1>1, <1>5 DEF Orderly
<1>10. /\ DOMAIN queue'[p] = 1..(Len(queue[p]) + 1) /\ DOMAIN queue[p] = 1..Len(queue[p]) /\ Len(queue[p]) \in Nat
       /\ \A i \in 1..Len(queue[p]) : queue'[p][i] = queue[p][i]
       /\ queue'[p][Len(queue[p]) + 1] = r
  BY <1>4, <1>6
<1>11. \A i \in DOMAIN queue[p] : queue[p][i] # r
  BY <1>1, <1>3, <1>7 DEF PoolInv
<1>12. \A i, j \in DOMAIN queue[p] : queue[p][i] = queue[p][j] => i = j
  BY <1>1, <1>3 DEF PoolInv
<1>13. \A i, j \in DOMAIN queue'[p] : queue'[p][i] = queue'[p][j] => i = j
  BY <1>10, <1>11, <1>12
<1>14. ASSUME NEW q \in Request \ {r}
       PROVE  (\E i \in DOMAIN queue'[p] : queue'[p][i] = q)
                <=> \E i \in DOMAIN queue[p] : queue[p][i] = q
  BY <1>10
<1>15. (\E i \in DOMAIN queue'[p] : queue'[p][i] = r) <=> t.phase = "waiting"
  BY <1>5, <1>10
<1>16. Cardinality(held[p]) = PoolSize
  BY <1>2, <1>3
<1>17. /\ req[r].phase \in {"working", "waiting"} /\ t.phase \in {"working", "waiting"}
       /\ t.phase = "waiting" => t.todo # << >> /\ Head(t.todo).do = "take" /\ Head(t.todo).pool = p
       /\ req[r].phase = "waiting" => Head(req[r].todo).pool = p
  BY <1>2, <1>3, <1>5 DEF Its
<1> QED
  BY <1>2, <1>5, <1>6, <1>8, <1>9, <1>13, <1>14, <1>15, <1>16, <1>17, QueueMoves

\* A sequence without the element at one position.
LEMMA RemoveAtOf ==
  ASSUME NEW S, NEW s \in Seq(S), NEW i \in DOMAIN s
  PROVE  /\ RemoveAt(s, i) \in Seq(S) /\ Len(s) \in Nat \ {0} /\ DOMAIN s = 1..Len(s)
         /\ Len(RemoveAt(s, i)) = Len(s) - 1 /\ DOMAIN RemoveAt(s, i) = 1..(Len(s) - 1)
         /\ \A k \in 1..(Len(s) - 1) : RemoveAt(s, i)[k] = IF k < i THEN s[k] ELSE s[k + 1]
<1> DEFINE a == SubSeq(s, 1, i - 1)
           b == SubSeq(s, i + 1, Len(s))
<1>1. Len(s) \in Nat \ {0} /\ DOMAIN s = 1..Len(s) /\ i \in 1..Len(s)
  OBVIOUS
<1>2. a \in Seq(S) /\ Len(a) = i - 1 /\ \A k \in 1..(i - 1) : a[k] = s[k]
  BY <1>1
<1>3. b \in Seq(S) /\ Len(b) = Len(s) - i /\ \A k \in 1..(Len(s) - i) : b[k] = s[k + i]
  BY <1>1
<1>4. RemoveAt(s, i) = a \o b
  BY DEF RemoveAt
<1> HIDE DEF a, b
<1>5. a \in Seq(S) /\ b \in Seq(S)
  BY <1>2, <1>3
<1>6. /\ a \o b \in Seq(S) /\ Len(a \o b) = Len(a) + Len(b) /\ DOMAIN (a \o b) = 1..(Len(a) + Len(b))
      /\ \A k \in 1..Len(a) : (a \o b)[k] = a[k]
      /\ \A k \in 1..Len(b) : (a \o b)[Len(a) + k] = b[k]
  BY <1>5, ConcatOf
<1>7. /\ Len(s) \in Nat \ {0} /\ i \in 1..Len(s) /\ Len(a) = i - 1 /\ Len(b) = Len(s) - i
      /\ Len(a) + Len(b) = Len(s) - 1
  BY <1>1, <1>2, <1>3
<1>8. ASSUME NEW k \in 1..(Len(s) - 1)
      PROVE  (a \o b)[k] = IF k < i THEN s[k] ELSE s[k + 1]
  <2>1. CASE k < i
    <3>1. k \in 1..Len(a) /\ k \in 1..(i - 1)
      BY <1>7, <2>1
    <3> QED
      BY <1>2, <1>6, <2>1, <3>1
  <2>2. CASE ~(k < i)
    <3> DEFINE m == k - Len(a)
    <3>1. m \in 1..Len(b) /\ m \in 1..(Len(s) - i) /\ Len(a) + m = k /\ m + i = k + 1
      <4>1. m = k - (i - 1) /\ k \in Int /\ i \in Int /\ Len(s) \in Int /\ i <= k /\ k <= Len(s) - 1
        BY <1>7, <2>2
      <4> HIDE DEF m
      <4>2. m \in 1..(Len(s) - i) /\ (i - 1) + m = k /\ m + i = k + 1
        BY <4>1
      <4> QED
        BY <1>7, <4>2
    <3> HIDE DEF m
    <3>2. (a \o b)[Len(a) + m] = b[m]
      BY <1>6, <3>1
    <3>3. b[m] = s[m + i]
      BY <1>3, <3>1
    <3> QED
      BY <2>2, <3>1, <3>2, <3>3
  <2> QED
    BY <2>1, <2>2
<1>9. /\ a \o b \in Seq(S) /\ Len(a \o b) = Len(s) - 1 /\ DOMAIN (a \o b) = 1..(Len(s) - 1)
  BY <1>6, <1>7
<1> DEFINE w == a \o b
<1> HIDE DEF w
<1> QED
  BY <1>1, <1>4, <1>8, <1>9 DEF w

\* A wait for a connection times out.
LEMMA TimeOutStep ==
  ASSUME GatewayInv, NEW r \in Request, TimeOut(r)
  PROVE  GatewayInv'
<1>1. TypeInv /\ PoolInv /\ Orderly(r)
  BY DEF GatewayInv, ThreadInv
<1>2. /\ mix' = mix /\ slots' = slots /\ held' = held /\ clock' = clock /\ clients' = clients /\ admitted' = admitted
      /\ req' = Unwind(r) /\ req[r].phase = "waiting"
  BY DEF TimeOut, limits
<1>3. req[r].todo # << >> /\ Head(req[r].todo).do = "take"
  BY <1>1, <1>2 DEF Orderly
<1>4. PICK p \in Pool : p = Its(r)
  BY <1>1, <1>3, TakeLeaves
<1>5. PICK i \in DOMAIN queue[p] : queue[p][i] = r /\ queue' = [queue EXCEPT ![p] = RemoveAt(@, i)]
  BY <1>4 DEF TimeOut
<1>6. PICK t \in Thread : /\ req' = [req EXCEPT ![r] = t] /\ t.phase = "working"
                          /\ \A x \in Pool : Alternates(t.todo, x, r \in held[x])
  BY <1>1, <1>2, UnwindOf
<1>7. queue \in [Pool -> Seq(Request)] /\ queue[p] \in Seq(Request)
  BY <1>1 DEF TypeInv
<1> DEFINE s == queue[p]
           u == RemoveAt(s, i)
<1>8. /\ u \in Seq(Request) /\ Len(s) \in Nat \ {0} /\ DOMAIN s = 1..Len(s)
      /\ Len(u) = Len(s) - 1 /\ DOMAIN u = 1..(Len(s) - 1)
      /\ \A k \in 1..(Len(s) - 1) : u[k] = IF k < i THEN s[k] ELSE s[k + 1]
  BY <1>7, RemoveAtOf
<1>9. /\ queue' \in [Pool -> Seq(Request)] /\ queue'[p] = u
      /\ \A x \in Pool : x # p => queue'[x] = queue[x]
  BY <1>5, <1>7, <1>8
<1>10. /\ Len(s) <= MaxWaiting /\ Cardinality(held[p]) = PoolSize
       /\ \A j, k \in DOMAIN s : s[j] = s[k] => j = k
  <2>1. s # << >>
    BY <1>5, <1>8
  <2> QED
    BY <1>1, <2>1 DEF PoolInv
<1>11. s[i] = r /\ i \in 1..Len(s)
  BY <1>5, <1>8
<1> HIDE DEF u, s
<1>12. \A k \in DOMAIN u : \E j \in DOMAIN s : u[k] = s[j] /\ j # i /\ j = IF k < i THEN k ELSE k + 1
  BY <1>8, <1>11
<1>13. \A j, k \in DOMAIN u : u[j] = u[k] => j = k
  <2>1. SUFFICES ASSUME NEW j \in DOMAIN u, NEW k \in DOMAIN u, u[j] = u[k] PROVE j = k
    OBVIOUS
  <2>2. PICK j1 \in DOMAIN s : u[j] = s[j1] /\ j1 # i /\ j1 = IF j < i THEN j ELSE j + 1
    BY <1>12
  <2>3. PICK k1 \in DOMAIN s : u[k] = s[k1] /\ k1 # i /\ k1 = IF k < i THEN k ELSE k + 1
    BY <1>12
  <2>4. j1 = k1
    BY <1>10, <2>1, <2>2, <2>3
  <2> QED
    BY <1>8, <1>11, <2>2, <2>3, <2>4
<1>14. ~\E k \in DOMAIN u : u[k] = r
  <2>1. SUFFICES ASSUME NEW k \in DOMAIN u, u[k] = r PROVE FALSE
    OBVIOUS
  <2>2. PICK j \in DOMAIN s : u[k] = s[j] /\ j # i
    BY <1>12
  <2> QED
    BY <1>8, <1>10, <1>11, <2>1, <2>2
<1>15. ASSUME NEW q \in Request \ {r}
       PROVE  (\E k \in DOMAIN u : u[k] = q) <=> \E k \in DOMAIN s : s[k] = q
  <2>1. ASSUME NEW k \in DOMAIN s, s[k] = q
        PROVE  \E j \in DOMAIN u : u[j] = q
    <3>1. k # i /\ k \in 1..Len(s)
      BY <1>8, <1>11, <2>1
    <3>2. CASE k < i
      <4>1. k \in DOMAIN u /\ k \in 1..(Len(s) - 1)
        BY <1>8, <1>11, <3>1, <3>2
      <4>2. u[k] = s[k]
        BY <1>8, <3>2, <4>1
      <4> QED
        BY <2>1, <4>1, <4>2
    <3>3. CASE ~(k < i)
      <4>1. k - 1 \in 1..(Len(s) - 1) /\ ~(k - 1 < i) /\ (k - 1) + 1 = k
        BY <1>8, <1>11, <3>1, <3>3
      <4>2. u[k - 1] = s[k] /\ k - 1 \in DOMAIN u
        BY <1>8, <4>1
      <4> QED
        BY <2>1, <4>2
    <3> QED
      BY <3>2, <3>3
  <2> QED
    BY <1>12, <2>1
<1>16. /\ (\E k \in DOMAIN queue'[p] : queue'[p][k] = r) <=> t.phase = "waiting"
       /\ \A q \in Request \ {r} : (\E k \in DOMAIN queue'[p] : queue'[p][k] = q)
                                     <=> \E k \in DOMAIN queue[p] : queue[p][k] = q
       /\ \A j, k \in DOMAIN queue'[p] : queue'[p][j] = queue'[p][k] => j = k
  <2>1. /\ (\E k \in DOMAIN u : u[k] = r) <=> t.phase = "waiting"
        /\ \A q \in Request \ {r} : (\E k \in DOMAIN u : u[k] = q) <=> \E k \in DOMAIN s : s[k] = q
    BY <1>6, <1>14, <1>15
  <2> QED
    BY <1>9, <1>13, <2>1 DEF s
<1>17. Len(queue'[p]) <= MaxWaiting /\ Cardinality(held[p]) = PoolSize
  BY <1>8, <1>9, <1>10, Constants
<1>18. /\ req[r].phase \in {"working", "waiting"} /\ t.phase \in {"working", "waiting"}
       /\ t.phase = "waiting" => t.todo # << >> /\ Head(t.todo).do = "take" /\ Head(t.todo).pool = p
       /\ req[r].phase = "waiting" => Head(req[r].todo).pool = p
  BY <1>2, <1>4, <1>6 DEF Its
<1>19. queue' \in [Pool -> Seq(Request)] /\ \A x \in Pool : x # p => queue'[x] = queue[x]
  BY <1>9
<1> QED
  BY <1>2, <1>6, <1>16, <1>17, <1>18, <1>19, QueueMoves

\* A connection is returned, and goes to the first in the queue.
LEMMA GiveBackStep ==
  ASSUME GatewayInv, NEW r \in Request, GiveBack(r)
  PROVE  GatewayInv'
<1>1. TypeInv /\ ThreadInv /\ PoolInv /\ LimiterInv /\ IsFiniteSet(Threads) /\ \A q \in Request : Orderly(q)
  BY DEF GatewayInv, ThreadInv
<1>2. /\ mix' = mix /\ slots' = slots /\ clock' = clock /\ clients' = clients /\ admitted' = admitted
      /\ req[r].phase = "working" /\ req[r].todo # << >> /\ Head(req[r].todo).do = "give"
  BY DEF GiveBack, Doing, limits
<1>3. /\ Its(r) \in Pool /\ r \in held[Its(r)] /\ Tail(req[r].todo) \in Seq(Steps)
      /\ Alternates(Tail(req[r].todo), Its(r), FALSE)
      /\ \A x \in Pool : x # Its(r) => Alternates(Tail(req[r].todo), x, r \in held[x])
  BY <1>1, <1>2, GiveLeaves
<1>4. PICK p \in Pool : p = Its(r)
  BY <1>3
<1>5. PICK first \in SUBSET Request : first = IF queue[p] = << >> THEN {} ELSE {Head(queue[p])}
  <2> DEFINE f == IF queue[p] = << >> THEN {} ELSE {Head(queue[p])}
  <2>1. queue[p] \in Seq(Request)
    BY <1>1 DEF TypeInv
  <2>2. f \in SUBSET Request
    BY <2>1
  <2> QED
    BY <2>2
<1>6. /\ held' = [held EXCEPT ![p] = (@ \ {r}) \cup first]
      /\ queue' = [queue EXCEPT ![p] = IF @ = << >> THEN @ ELSE Tail(@)]
      /\ req' = [q \in Request |-> IF q \in first \cup {r} THEN Rest(req, q)[q] ELSE req[q]]
  BY <1>4, <1>5 DEF GiveBack
<1>7. /\ queue \in [Pool -> Seq(Request)] /\ queue[p] \in Seq(Request)
      /\ held \in [Pool -> SUBSET Request] /\ req \in [Request -> Thread]
  BY <1>1 DEF TypeInv
<1>8. ASSUME NEW f \in first
      PROVE  /\ queue[p] # << >> /\ f = queue[p][1] /\ 1 \in DOMAIN queue[p] /\ first = {f}
             /\ req[f].phase = "waiting" /\ Its(f) = p
             /\ req[f].todo # << >> /\ Head(req[f].todo).do = "take" /\ f # r
  <2>1. queue[p] # << >> /\ f = queue[p][1] /\ 1 \in DOMAIN queue[p] /\ first = {f}
    BY <1>5, <1>7
  <2>2. Waits(f, p)
    BY <1>1, <2>1 DEF PoolInv
  <2> QED
    BY <1>1, <1>2, <2>1, <2>2 DEF Waits, Orderly
<1>9. ASSUME NEW f \in first
      PROVE  /\ f \notin held[p] /\ Tail(req[f].todo) \in Seq(Steps)
             /\ Alternates(Tail(req[f].todo), p, TRUE)
             /\ \A x \in Pool : x # p => Alternates(Tail(req[f].todo), x, f \in held[x])
  BY <1>1, <1>8, TakeLeaves
<1>10. ASSUME NEW q \in first \cup {r}
       PROVE  /\ req'[q] \in Thread /\ req'[q].phase = "working" /\ req'[q].todo = Tail(req[q].todo)
  <2>1. Tail(req[q].todo) \in Seq(Steps) /\ q \in Request
    BY <1>3, <1>9
  <2>2. PICK t \in Thread : Rest(req, q)[q] = t /\ t.phase = "working" /\ t.todo = Tail(req[q].todo)
    BY <1>1, <2>1, RestThread
  <2> QED
    BY <1>6, <2>1, <2>2
<1>11. req' \in [Request -> Thread] /\ \A q \in Request : q \notin first \cup {r} => req'[q] = req[q]
  <2>1. \A q \in Request : q \notin first \cup {r} => req'[q] = req[q]
    BY <1>6
  <2>2. \A q \in Request : req'[q] \in Thread
    BY <1>7, <1>10, <2>1
  <2> QED
    BY <1>6, <2>1, <2>2
<1>12. Threads' = Threads
  <2>1. \A q \in first \cup {r} : req[q].phase # "idle" /\ req'[q].phase # "idle"
    BY <1>2, <1>8, <1>10
  <2> QED
    BY <1>11, <2>1 DEF Threads
<1>13. /\ held' \in [Pool -> SUBSET Request] /\ held'[p] = (held[p] \ {r}) \cup first
       /\ \A x \in Pool : x # p => held'[x] = held[x]
  BY <1>6, <1>7
<1>14. ASSUME NEW q \in Request PROVE Orderly(q)'
  <2>1. CASE q \notin first \cup {r}
    <3>1. \A x \in Pool : q \in held'[x] <=> q \in held[x]
      BY <1>13, <2>1
    <3> QED
      BY <1>1, <1>2, <1>11, <2>1, <3>1, OthersOrderly
  <2>2. CASE q \in first \cup {r}
    <3>1. ASSUME NEW x \in Pool PROVE Alternates(Tail(req[q].todo), x, q \in held'[x])
      <4>1. CASE x = p /\ q = r
        <5>1. (q \in held'[x]) = FALSE
          BY <1>8, <1>13, <4>1
        <5> QED
          BY <1>3, <1>4, <4>1, <5>1
      <4>2. CASE x = p /\ q # r
        <5>1. q \in first /\ (q \in held'[x]) = TRUE
          BY <1>13, <2>2, <4>2
        <5> QED
          BY <1>9, <4>2, <5>1
      <4>3. CASE x # p /\ q = r
        BY <1>3, <1>4, <1>13, <4>3
      <4>4. CASE x # p /\ q # r
        BY <1>9, <1>13, <2>2, <4>4
      <4> QED
        BY <4>1, <4>2, <4>3, <4>4
    <3>2. q \in DOMAIN mix
      <4>1. req[q].phase # "idle"
        BY <1>2, <1>8, <2>2
      <4> QED
        BY <1>1, <4>1 DEF Orderly
    <3> QED
      BY <1>2, <1>10, <2>2, <3>1, <3>2 DEF Orderly
  <2> QED
    BY <2>1, <2>2
<1>15. /\ queue' \in [Pool -> Seq(Request)] /\ \A x \in Pool : x # p => queue'[x] = queue[x]
       /\ queue[p] = << >> => queue'[p] = << >> /\ first = {}
       /\ queue[p] # << >> => queue'[p] = Tail(queue[p]) /\ first = {queue[p][1]}
  BY <1>5, <1>6, <1>7
<1>16. /\ Len(queue[p]) \in Nat /\ DOMAIN queue[p] = 1..Len(queue[p])
       /\ queue[p] # << >> =>
            /\ Len(queue'[p]) = Len(queue[p]) - 1 /\ DOMAIN queue'[p] = 1..(Len(queue[p]) - 1)
            /\ \A i \in 1..(Len(queue[p]) - 1) : queue'[p][i] = queue[p][i + 1]
            /\ Len(queue[p]) > 0
  <2>1. Len(queue[p]) \in Nat /\ DOMAIN queue[p] = 1..Len(queue[p])
    BY <1>7
  <2>2. ASSUME queue[p] # << >>
        PROVE  /\ Len(queue'[p]) = Len(queue[p]) - 1 /\ DOMAIN queue'[p] = 1..(Len(queue[p]) - 1)
               /\ \A i \in 1..(Len(queue[p]) - 1) : queue'[p][i] = queue[p][i + 1]
               /\ Len(queue[p]) > 0
    <3> DEFINE s == queue[p]
    <3>1. s \in Seq(Request) /\ s # << >> /\ queue'[p] = Tail(s)
      BY <1>7, <1>15, <2>2
    <3> HIDE DEF s
    <3>2. /\ Len(Tail(s)) = Len(s) - 1 /\ DOMAIN Tail(s) = 1..(Len(s) - 1)
          /\ \A i \in 1..(Len(s) - 1) : Tail(s)[i] = s[i + 1]
          /\ Len(s) > 0
      BY <3>1
    <3> QED
      BY <3>1, <3>2 DEF s
  <2> QED
    BY <2>1, <2>2
<1>17. ASSUME NEW x \in Pool
       PROVE  /\ IsFiniteSet(held'[x]) /\ Cardinality(held'[x]) <= PoolSize /\ Len(queue'[x]) <= MaxWaiting
              /\ queue'[x] # << >> => Cardinality(held'[x]) = PoolSize
  <2>1. CASE x # p
    BY <1>1, <1>13, <1>15, <2>1 DEF PoolInv
  <2>2. CASE x = p /\ queue[p] = << >>
    <3>1. held'[p] = held[p] \ {r} /\ IsFiniteSet(held[p]) /\ Cardinality(held[p]) <= PoolSize
          /\ queue'[p] = << >>
      BY <1>1, <1>13, <1>15, <2>2 DEF PoolInv
    <3>2. /\ IsFiniteSet(held'[p]) /\ Cardinality(held'[p]) = Cardinality(held[p]) - 1
          /\ Cardinality(held[p]) \in Nat
      BY <1>3, <1>4, <3>1, FS_RemoveElement, FS_CardinalityType
    <3>3. Len(queue'[p]) = 0
      BY <3>1
    <3> QED
      BY <2>2, <3>1, <3>2, <3>3, Constants
  <2>3. CASE x = p /\ queue[p] # << >>
    <3>1. PICK f \in first : first = {f}
      BY <1>15, <2>3
    <3>2. f \notin held[p] /\ f # r
      BY <1>8, <1>9
    <3>3. /\ IsFiniteSet(held[p]) /\ Cardinality(held[p]) = PoolSize /\ Len(queue[p]) <= MaxWaiting
          /\ held'[p] = (held[p] \ {r}) \cup {f}
      BY <1>1, <1>13, <2>3, <3>1 DEF PoolInv
    <3>4. IsFiniteSet(held[p] \ {r}) /\ Cardinality(held[p] \ {r}) = PoolSize - 1
      BY <1>3, <1>4, <3>3, FS_RemoveElement
    <3>5. IsFiniteSet(held'[p]) /\ Cardinality(held'[p]) = (PoolSize - 1) + 1
      <4> DEFINE S == held[p] \ {r}
      <4>1. IsFiniteSet(S) /\ Cardinality(S) = PoolSize - 1 /\ f \notin S /\ held'[p] = S \cup {f}
        BY <3>2, <3>3, <3>4
      <4> HIDE DEF S
      <4> QED
        BY <4>1, FS_AddElement
    <3> QED
      BY <1>16, <2>3, <3>3, <3>5, Constants
  <2> QED
    BY <2>1, <2>2, <2>3
<1>18. ASSUME NEW x \in Pool, NEW i \in DOMAIN queue'[x], NEW q \in Request, q = queue'[x][i]
       PROVE  q \notin first \cup {r} /\ Waits(q, x)
  <2>1. CASE x # p
    <3>1. Waits(q, x)
      BY <1>1, <1>15, <1>18, <2>1 DEF PoolInv
    <3> QED
      BY <1>2, <1>8, <2>1, <3>1 DEF Waits
  <2>2. CASE x = p
    <3>1. queue[p] # << >>
      BY <1>15, <1>18, <2>2
    <3>2. i + 1 \in DOMAIN queue[p] /\ q = queue[p][i + 1] /\ i + 1 # 1 /\ 1 \in DOMAIN queue[p]
      BY <1>16, <1>18, <2>2, <3>1
    <3>3. Waits(q, p) /\ q # queue[p][1]
      BY <1>1, <3>2 DEF PoolInv
    <3> QED
      BY <1>2, <1>15, <2>2, <3>1, <3>3 DEF Waits
  <2> QED
    BY <2>1, <2>2
<1>19. ASSUME NEW x \in Pool, NEW i \in DOMAIN queue'[x] PROVE Waits(queue[x][i], x)'
  <2>1. PICK q \in Request : q = queue'[x][i]
    BY <1>15
  <2>2. q \notin first \cup {r} /\ Waits(q, x)
    BY <1>18, <2>1
  <2>3. req'[q] = req[q]
    BY <1>11, <2>2
  <2> QED
    BY <2>1, <2>2, <2>3 DEF Waits, Its
<1>20. ASSUME NEW x \in Pool, NEW q \in Request, Waits(q, x)'
       PROVE  \E i \in DOMAIN queue'[x] : queue'[x][i] = q
  <2>1. q \notin first \cup {r} /\ req'[q] = req[q]
    BY <1>10, <1>11, <1>20 DEF Waits
  <2>2. Waits(q, x)
    BY <1>20, <2>1 DEF Waits, Its
  <2>3. PICK i \in DOMAIN queue[x] : queue[x][i] = q
    BY <1>1, <2>2 DEF PoolInv
  <2>4. CASE x # p
    BY <1>15, <2>3, <2>4
  <2>5. CASE x = p
    <3>1. queue[p] # << >> /\ i # 1
      BY <1>15, <1>16, <2>1, <2>3, <2>5
    <3>2. i - 1 \in 1..(Len(queue[p]) - 1) /\ (i - 1) + 1 = i
      BY <1>16, <2>3, <2>5, <3>1
    <3>3. i - 1 \in DOMAIN queue'[p] /\ queue'[p][i - 1] = q
      BY <1>16, <2>3, <2>5, <3>1, <3>2
    <3> QED
      BY <2>5, <3>3
  <2> QED
    BY <2>4, <2>5
<1>21. ASSUME NEW x \in Pool, NEW i \in DOMAIN queue'[x], NEW j \in DOMAIN queue'[x], queue'[x][i] = queue'[x][j]
       PROVE  i = j
  <2>1. \A k, m \in DOMAIN queue[x] : queue[x][k] = queue[x][m] => k = m
    BY <1>1 DEF PoolInv
  <2>2. CASE x # p
    BY <1>15, <1>21, <2>1, <2>2
  <2>3. CASE x = p
    <3>1. queue[p] # << >>
      BY <1>15, <1>21, <2>3
    <3>2. /\ i + 1 \in DOMAIN queue[p] /\ j + 1 \in DOMAIN queue[p] /\ i \in Nat /\ j \in Nat
          /\ queue[p][i + 1] = queue[p][j + 1]
      <4>1. i \in 1..(Len(queue[p]) - 1) /\ j \in 1..(Len(queue[p]) - 1)
        BY <1>16, <2>3, <3>1
      <4>2. queue'[p][i] = queue[p][i + 1] /\ queue'[p][j] = queue[p][j + 1]
        BY <1>16, <3>1, <4>1
      <4> QED
        BY <1>16, <1>21, <2>3, <4>1, <4>2
    <3>3. i + 1 = j + 1
      BY <2>1, <2>3, <3>2
    <3> QED
      BY <3>2, <3>3
  <2> QED
    BY <2>2, <2>3
<1>22. PoolInv'
  BY <1>17, <1>19, <1>20, <1>21 DEF PoolInv
<1>23. ThreadInv'
  BY <1>1, <1>2, <1>12, <1>14 DEF ThreadInv
<1>24. TypeInv' /\ LimiterInv'
  BY <1>1, <1>2, <1>11, <1>13, <1>15 DEF TypeInv, LimiterInv
<1> QED
  BY <1>22, <1>23, <1>24 DEF GatewayInv

\* Time passes.
LEMMA TickStep ==
  ASSUME GatewayInv, Tick
  PROVE  GatewayInv'
<1>1. /\ mix' = mix /\ req' = req /\ slots' = slots /\ held' = held /\ queue' = queue
      /\ clients' = clients /\ admitted' = admitted /\ clock' \in 0..MaxTime
  BY Constants DEF Tick, pools, GatewayInv, TypeInv
<1>2. TypeInv'
  BY <1>1 DEF GatewayInv, TypeInv
<1>3. ThreadInv' /\ PoolInv' /\ LimiterInv'
  BY <1>1 DEF GatewayInv, ThreadInv, Threads, Orderly, PoolInv, Waits, Its, LimiterInv
<1> QED
  BY <1>2, <1>3 DEF GatewayInv

LEMMA StutterStep ==
  ASSUME GatewayInv, UNCHANGED vars
  PROVE  GatewayInv'
<1>1. /\ mix' = mix /\ req' = req /\ slots' = slots /\ held' = held /\ queue' = queue
      /\ clock' = clock /\ clients' = clients /\ admitted' = admitted
  BY DEF vars
<1> QED
  BY <1>1 DEF GatewayInv, TypeInv, ThreadInv, Threads, Orderly, PoolInv, Waits, Its, LimiterInv

\* The gateway starts with every slot and connection free.
LEMMA StartsAccounted ==
  ASSUME Init
  PROVE  GatewayInv
<1>1. Nobody \in Thread /\ Nobody.phase = "idle" /\ Nobody.todo = << >>
  BY Constants DEF Nobody, Thread
<1>2. /\ mix \in Traffic /\ req = [r \in Request |-> Nobody] /\ slots = MaxConcurrent
      /\ held = [p \in Pool |-> {}] /\ queue = [p \in Pool |-> << >>]
      /\ clock = 0 /\ clients = NoBuckets /\ admitted = << >>
  BY DEF Init
<1>3. TypeInv
  BY <1>1, <1>2, Constants DEF TypeInv
<1>4. ThreadInv
  <2>1. Threads = {}
    BY <1>1, <1>2 DEF Threads
  <2>2. IsFiniteSet(Threads) /\ slots + Cardinality(Threads) = MaxConcurrent
    BY <1>2, <2>1, FS_EmptySet, Constants
  <2>3. ASSUME NEW r \in Request PROVE Orderly(r)
    <3>1. req[r] = Nobody
      BY <1>2
    <3>2. ASSUME NEW p \in Pool PROVE Alternates(req[r].todo, p, r \in held[p])
      <4>1. (r \in held[p]) = FALSE
        BY <1>2
      <4> QED
        BY <1>1, <3>1, <4>1, Pieces
    <3> QED
      BY <1>1, <3>1, <3>2 DEF Orderly
  <2> QED
    BY <2>2, <2>3 DEF ThreadInv
<1>5. PoolInv
  <2>1. ASSUME NEW p \in Pool
        PROVE  held[p] = {} /\ queue[p] = << >> /\ Len(queue[p]) = 0 /\ DOMAIN queue[p] = {}
    BY <1>2
  <2>2. \A r \in Request, p \in Pool : ~Waits(r, p)
    BY <1>1, <1>2 DEF Waits
  <2>3. IsFiniteSet({}) /\ Cardinality({}) = 0 /\ 0 <= PoolSize /\ 0 <= MaxWaiting
    BY FS_EmptySet, Constants
  <2>4. ASSUME NEW p \in Pool
        PROVE  /\ IsFiniteSet(held[p]) /\ Cardinality(held[p]) <= PoolSize /\ Len(queue[p]) <= MaxWaiting
               /\ queue[p] = << >> /\ DOMAIN queue[p] = {}
    BY <2>1, <2>3
  <2> QED
    BY <2>2, <2>4 DEF PoolInv
<1>6. LimiterInv
  <2>1. DOMAIN clients.ev = {} /\ DOMAIN clients.exp = {}
    BY <1>2 DEF NoBuckets
  <2> QED
    BY <2>1, FS_EmptySet, Constants DEF LimiterInv, Table
<1> QED
  BY <1>3, <1>4, <1>5, <1>6 DEF GatewayInv

-----------------------------------------------------------------------------
(* The overall limit                                                       *)

\* A script that starts with a clock reading wherever it asks the limiter.
Started(s) == AfterClock(s) /\ (s # << >> => s[1].do # "overall")

\* popleft drops a prefix of the stamps, each out of the window.
LEMMA PopLeaves ==
  ASSUME NEW q \in Seq(Nat), NEW now \in Nat, NEW window \in Nat
  PROVE  \E d \in 0..Len(q) :
           /\ PopExpired(q, now, window) \in Seq(Nat) /\ Len(PopExpired(q, now, window)) = Len(q) - d
           /\ \A k \in 1..(Len(q) - d) : PopExpired(q, now, window)[k] = q[d + k]
           /\ \A k \in 1..d : q[k] + window <= now
<1> DEFINE live == {i \in DOMAIN q : q[i] + window > now}
           rest == PopExpired(q, now, window)
<1>1. Len(q) \in Nat /\ DOMAIN q = 1..Len(q) /\ \A i \in 1..Len(q) : q[i] \in Nat
  OBVIOUS
<1>2. rest = IF live = {} THEN << >> ELSE SubSeq(q, Min(live), Len(q))
  BY DEF PopExpired
<1>3. CASE live = {}
  <2>1. rest = << >> /\ rest \in Seq(Nat) /\ Len(rest) = 0
    BY <1>2, <1>3
  <2>2. \A k \in 1..Len(q) : q[k] + window <= now
    <3>1. SUFFICES ASSUME NEW k \in 1..Len(q) PROVE q[k] + window <= now
      OBVIOUS
    <3>2. ~(q[k] + window > now)
      BY <1>1, <1>3
    <3>3. q[k] \in Nat
      BY <1>1
    <3> QED
      BY <3>2, <3>3
  <2> HIDE DEF rest, live
  <2>3. Len(q) \in 0..Len(q) /\ Len(q) - Len(q) = 0 /\ 1..0 = {}
    BY <1>1
  <2>4. \A k \in 1..(Len(q) - Len(q)) : rest[k] = q[Len(q) + k]
    BY <2>3
  <2>5. Len(rest) = Len(q) - Len(q)
    BY <2>1, <2>3
  <2> QED
    BY <2>1, <2>2, <2>3, <2>4, <2>5 DEF rest
<1>4. CASE live # {}
  <2>1. live \subseteq Nat
    BY <1>1
  <2>2. PICK x \in live : \A y \in live : x <= y
    BY <1>4, <2>1, LeastNumber
  <2> DEFINE m == Min(live)
  <2>3. m \in live /\ \A y \in live : m <= y
    BY <2>2 DEF Min
  <2>4. m \in 1..Len(q) /\ rest = SubSeq(q, m, Len(q))
    BY <1>1, <1>2, <1>4, <2>3
  <2>5. \A k \in 1..(m - 1) : q[k] + window <= now
    <3>1. SUFFICES ASSUME NEW k \in 1..(m - 1) PROVE q[k] + window <= now
      OBVIOUS
    <3>2. k \in 1..Len(q) /\ ~(m <= k)
      BY <1>1, <2>4
    <3>3. k \notin live
      BY <2>3, <3>2
    <3> QED
      BY <1>1, <3>2, <3>3
  <2> HIDE DEF m, live, rest
  <2>6. /\ rest \in Seq(Nat) /\ Len(rest) = Len(q) - (m - 1)
        /\ \A k \in 1..(Len(q) - (m - 1)) : rest[k] = q[(m - 1) + k]
    BY <1>1, <2>4
  <2>7. m - 1 \in 0..Len(q)
    BY <1>1, <2>4
  <2> WITNESS m - 1 \in 0..Len(q)
  <2> QED
    BY <2>5, <2>6 DEF rest
<1> QED
  BY <1>3, <1>4

\* What is left of a script after its first step.
LEMMA AfterClockTail ==
  ASSUME NEW s \in Seq(Steps), s # << >>, AfterClock(s)
  PROVE  AfterClock(Tail(s)) /\ (Tail(s) # << >> /\ Head(Tail(s)).do = "overall" => Head(s).do = "clock")
<1>1. /\ Tail(s) \in Seq(Steps) /\ Len(s) \in Nat \ {0} /\ DOMAIN s = 1..Len(s) /\ Head(s) = s[1]
      /\ DOMAIN Tail(s) = 1..(Len(s) - 1) /\ \A i \in 1..(Len(s) - 1) : Tail(s)[i] = s[i + 1]
  BY TailOf
<1>2. ASSUME NEW i \in DOMAIN Tail(s), Tail(s)[i].do = "overall"
      PROVE  s[i].do = "clock" /\ (i = 1 \/ Tail(s)[i - 1].do = "clock")
  <2>1. i \in 1..(Len(s) - 1) /\ i + 1 \in DOMAIN s /\ s[i + 1].do = "overall" /\ i + 1 # 1 /\ (i + 1) - 1 = i
    BY <1>1, <1>2
  <2>2. s[i].do = "clock"
    BY <2>1 DEF AfterClock
  <2>3. i # 1 => i - 1 \in 1..(Len(s) - 1) /\ (i - 1) + 1 = i
    BY <1>1, <2>1
  <2> QED
    BY <1>1, <2>2, <2>3
<1>3. Tail(s) # << >> => 1 \in DOMAIN Tail(s) /\ Head(Tail(s)) = Tail(s)[1]
  BY <1>1, TailOf
<1> QED
  BY <1>1, <1>2, <1>3 DEF AfterClock

\* Two such scripts one after the other.
LEMMA StartedTwice ==
  ASSUME NEW s \in Seq(Steps), NEW t \in Seq(Steps), Started(s), Started(t)
  PROVE  Started(s \o t) /\ s \o t \in Seq(Steps)
<1> DEFINE u == s \o t
<1>1. /\ u \in Seq(Steps) /\ Len(s) \in Nat /\ Len(t) \in Nat
      /\ DOMAIN s = 1..Len(s) /\ DOMAIN t = 1..Len(t) /\ DOMAIN u = 1..(Len(s) + Len(t))
      /\ \A i \in 1..Len(s) : u[i] = s[i]
      /\ \A i \in 1..Len(t) : u[Len(s) + i] = t[i]
  BY ConcatOf
<1> HIDE DEF u
<1>2. ASSUME NEW i \in DOMAIN u, u[i].do = "overall"
      PROVE  i # 1 /\ u[i - 1].do = "clock"
  <2>1. CASE i \in 1..Len(s)
    <3>1. s[i].do = "overall" /\ s # << >>
      BY <1>1, <1>2, <2>1
    <3>2. i # 1 /\ s[i - 1].do = "clock"
      BY <1>1, <2>1, <3>1 DEF Started, AfterClock
    <3>3. i - 1 \in 1..Len(s)
      BY <1>1, <2>1, <3>2
    <3> QED
      BY <1>1, <3>2, <3>3
  <2>2. CASE i \notin 1..Len(s)
    <3> DEFINE j == i - Len(s)
    <3>1. j \in 1..Len(t) /\ i = Len(s) + j
      BY <1>1, <2>2
    <3> HIDE DEF j
    <3>2. t[j].do = "overall" /\ t # << >>
      BY <1>1, <1>2, <3>1
    <3>3. j # 1 /\ t[j - 1].do = "clock"
      BY <1>1, <3>1, <3>2 DEF Started, AfterClock
    <3>4. j - 1 \in 1..Len(t) /\ i - 1 = Len(s) + (j - 1) /\ i # 1
      BY <1>1, <3>1, <3>3
    <3> QED
      BY <1>1, <3>3, <3>4
  <2> QED
    BY <2>1, <2>2
<1>3. Started(u)
  <2>1. u # << >> => 1 \in DOMAIN u
    BY <1>1
  <2> QED
    BY <1>2, <2>1 DEF Started, AfterClock
<1> QED
  BY <1>1, <1>3 DEF u

\* The pieces of the scripts.
LEMMA StartedPieces ==
  /\ << >> \in Seq(Steps) /\ Started(<< >>)
  /\ \A p \in Pool : /\ <<Take(p)>> \in Seq(Steps) /\ Started(<<Take(p)>>)
                     /\ <<Give(p)>> \in Seq(Steps) /\ Started(<<Give(p)>>)
                     /\ Use(p) \in Seq(Steps) /\ Started(Use(p))
  /\ \A w \in {"overall", "client"} : Limit(w) \in Seq(Steps) /\ Started(Limit(w))
<1>1. << >> \in Seq(Steps) /\ Started(<< >>)
  BY DEF Started, AfterClock
<1>2. ASSUME NEW p \in Pool
      PROVE  /\ <<Take(p)>> \in Seq(Steps) /\ Started(<<Take(p)>>)
             /\ <<Give(p)>> \in Seq(Steps) /\ Started(<<Give(p)>>)
             /\ Use(p) \in Seq(Steps) /\ Started(Use(p))
  <2>1. Take(p) \in Steps /\ Give(p) \in Steps /\ Take(p).do # "overall" /\ Give(p).do # "overall"
    BY StepsApart DEF Take, Give
  <2>2. /\ \A s \in Steps : <<s>> \in Seq(Steps) /\ DOMAIN <<s>> = {1} /\ <<s>>[1] = s
        /\ \A s, t \in Steps : <<s, t>> \in Seq(Steps) /\ DOMAIN <<s, t>> = {1, 2} /\ <<s, t>>[1] = s /\ <<s, t>>[2] = t
    OBVIOUS
  <2>3. /\ \A s \in Steps : s.do # "overall" => Started(<<s>>)
        /\ \A s, t \in Steps : s.do # "overall" /\ t.do # "overall" => Started(<<s, t>>)
    BY <2>2 DEF Started, AfterClock
  <2> QED
    BY <2>1, <2>2, <2>3 DEF Use
<1>3. ASSUME NEW w \in {"overall", "client"} PROVE Limit(w) \in Seq(Steps) /\ Started(Limit(w))
  <2>1. /\ Limit(w) \in Seq(Steps) /\ DOMAIN Limit(w) = {1, 2}
        /\ Limit(w)[1].do = "clock"
    BY DEF Limit, Steps
  <2> QED
    BY <2>1 DEF Started, AfterClock
<1> QED
  BY <1>1, <1>2, <1>3

\* Every route's script reads the clock before it asks the limiter.
LEMMA ScriptStarted ==
  ASSUME NEW k \in AllKinds
  PROVE  Started(Script(k))
<1>1. "metadata" \in Pool /\ "gbrain" \in Pool
  BY DEF Pool
<1> DEFINE m == Use("metadata")
           g == Use("gbrain")
           o == Limit("overall")
           c == Limit("client")
           tm == <<Take("metadata")>>
           gm == <<Give("metadata")>>
<1>2. /\ m \in Seq(Steps) /\ Started(m) /\ g \in Seq(Steps) /\ Started(g)
      /\ o \in Seq(Steps) /\ Started(o) /\ c \in Seq(Steps) /\ Started(c)
      /\ tm \in Seq(Steps) /\ Started(tm) /\ gm \in Seq(Steps) /\ Started(gm)
  BY <1>1, StartedPieces
<1>3. Script(k) = CASE k = "auth" -> (o \o c) \o m
                    [] k = "plain" -> m \o m
                    [] k = "query" -> ((m \o m) \o g) \o m
                    [] k = "review" -> ((m \o tm) \o g) \o gm
                    [] k = "probe" -> m \o g
  BY DEF Script, Authenticate
<1> HIDE DEF m, g, o, c, tm, gm
<1>4. CASE k = "auth"
  <2>1. o \o c \in Seq(Steps) /\ Started(o \o c)
    BY <1>2, StartedTwice
  <2> QED
    BY <1>2, <1>3, <1>4, <2>1, StartedTwice
<1>5. CASE k = "plain"
  BY <1>2, <1>3, <1>5, StartedTwice
<1>6. CASE k = "query"
  <2>1. m \o m \in Seq(Steps) /\ Started(m \o m)
    BY <1>2, StartedTwice
  <2>2. (m \o m) \o g \in Seq(Steps) /\ Started((m \o m) \o g)
    BY <1>2, <2>1, StartedTwice
  <2> QED
    BY <1>2, <1>3, <1>6, <2>2, StartedTwice
<1>7. CASE k = "review"
  <2>1. m \o tm \in Seq(Steps) /\ Started(m \o tm)
    BY <1>2, StartedTwice
  <2>2. (m \o tm) \o g \in Seq(Steps) /\ Started((m \o tm) \o g)
    BY <1>2, <2>1, StartedTwice
  <2> QED
    BY <1>2, <1>3, <1>7, <2>2, StartedTwice
<1>8. CASE k = "probe"
  BY <1>2, <1>3, <1>8, StartedTwice
<1> QED
  BY <1>4, <1>5, <1>6, <1>7, <1>8 DEF AllKinds

\* So does what an exception leaves to do: it asks no limiter.
LEMMA UnwindStarted ==
  ASSUME TypeInv, NEW r \in Request
  PROVE  /\ Unwind(r) \in [Request -> Thread] /\ Started(Unwind(r)[r].todo)
         /\ \A q \in Request : q # r => Unwind(r)[q] = req[q]
<1> DEFINE out(p) == IF r \in held[p] THEN <<Give(p)>> ELSE << >>
           u == out("gbrain") \o out("metadata")
<1>1. "gbrain" \in Pool /\ "metadata" \in Pool
  BY DEF Pool
<1>2. ASSUME NEW p \in Pool PROVE out(p) \in Seq(Steps) /\ Started(out(p))
  BY StartedPieces
<1>3. Unwind(r) = [req EXCEPT ![r].phase = "working", ![r].todo = u]
  BY DEF Unwind
<1> HIDE DEF out
<1>4. Started(u)
  BY <1>1, <1>2, StartedTwice
<1> HIDE DEF u
<1>5. PICK t \in Thread : Unwind(r) = [req EXCEPT ![r] = t]
  BY UnwindOf
<1>6. req \in [Request -> Thread]
  BY DEF TypeInv
<1>7. Unwind(r)[r].todo = u
  BY <1>3, <1>6 DEF Thread
<1> QED
  BY <1>4, <1>5, <1>6, <1>7

\* How a step of some thread may change what thread q has left to do.
Moves(q) ==
  \/ req'[q].todo = req[q].todo /\ req'[q].now = req[q].now
  \/ Started(req'[q].todo)
  \/ /\ req[q].todo # << >> /\ req'[q].todo = Tail(req[q].todo)
     /\ Head(req[q].todo).do = "clock" => req'[q].now = clock

\* Such a step leaves a thread that is about to ask the limiter with a fresh
\* clock reading.
LEMMA MovesClocked ==
  ASSUME TypeInv, TypeInv', clock' = clock, NEW q \in Request, Clocked(q), Moves(q)
  PROVE  Clocked(q)'
<1>1. /\ req[q] \in Thread /\ req'[q] \in Thread /\ clock \in Nat /\ Stall \in Nat
      /\ req[q].todo \in Seq(Steps) /\ req'[q].todo \in Seq(Steps) /\ AfterClock(req[q].todo)
  BY Constants DEF TypeInv, Thread, Clocked
<1>2. SUFFICES /\ AfterClock(req'[q].todo)
               /\ (req'[q].todo # << >> /\ Head(req'[q].todo).do = "overall") =>
                     (req'[q].now <= clock /\ clock <= req'[q].now + Stall)
  BY DEF Clocked, AfterClock
<1>3. CASE req'[q].todo = req[q].todo /\ req'[q].now = req[q].now
  BY <1>3 DEF Clocked
<1>4. CASE Started(req'[q].todo)
  <2>1. req'[q].todo # << >> => Head(req'[q].todo) = req'[q].todo[1]
    BY <1>1, TailOf
  <2> QED
    BY <1>4, <2>1 DEF Started
<1>5. CASE /\ req[q].todo # << >> /\ req'[q].todo = Tail(req[q].todo)
           /\ Head(req[q].todo).do = "clock" => req'[q].now = clock
  <2>1. /\ AfterClock(Tail(req[q].todo))
        /\ Tail(req[q].todo) # << >> /\ Head(Tail(req[q].todo)).do = "overall" => Head(req[q].todo).do = "clock"
    BY <1>1, <1>5, AfterClockTail
  <2>2. clock <= clock /\ clock <= clock + Stall
    BY <1>1
  <2> QED
    BY <1>5, <2>1, <2>2
<1> QED
  BY <1>3, <1>4, <1>5 DEF Moves

\* Every step of a thread moves it and the others so: those that start and
\* end it, those on a pool, and those that ask the limiters.
LEMMA StartingMoves ==
  ASSUME GatewayInv, NEW r \in Request, NEW q \in Request,
         Accept(r) \/ StartFails(r) \/ Finish(r) \/ StartThread(r) \/ ReadRequest(r) \/ ReadFails(r)
  PROVE  Moves(q)
<1>1. TypeInv /\ Orderly(r) /\ req \in [Request -> Thread] /\ req[r] \in Thread
  BY DEF GatewayInv, ThreadInv, TypeInv
<1>2. CASE Accept(r) \/ StartThread(r) \/ ReadFails(r)
  <2>1. PICK ph : req' = [req EXCEPT ![r].phase = ph]
    BY <1>2 DEF Accept, StartThread, ReadFails, Goes
  <2> QED
    BY <1>1, <2>1 DEF Moves, Thread
<1>3. CASE StartFails(r) \/ Finish(r)
  <2>1. req' = [req EXCEPT ![r] = Nobody]
    BY <1>3 DEF StartFails, Finish
  <2>2. Started(Nobody.todo)
    BY StartedPieces DEF Nobody
  <2> QED
    BY <1>1, <2>1, <2>2 DEF Moves
<1>4. CASE ReadRequest(r)
  <2>1. PICK c : req' = [req EXCEPT ![r] = [phase |-> "working", todo |-> Script(mix[r]), client |-> c, now |-> 0]]
    BY <1>4 DEF ReadRequest
  <2>2. mix[r] \in AllKinds
    <3>1. r \in DOMAIN mix
      BY <1>1, <1>4 DEF ReadRequest, Orderly
    <3> QED
      BY <1>1, <3>1, Constants DEF TypeInv
  <2>3. Started(Script(mix[r]))
    BY <2>2, ScriptStarted
  <2>4. req'[r].todo = Script(mix[r]) /\ (q # r => req'[q] = req[q])
    BY <1>1, <2>1
  <2> QED
    BY <2>3, <2>4 DEF Moves
<1> QED
  BY <1>2, <1>3, <1>4

LEMMA WorkingMoves ==
  ASSUME GatewayInv, NEW r \in Request, NEW q \in Request,
         TakeFree(r) \/ Queue(r) \/ TooMany(r) \/ TimeOut(r) \/ HandlerRaises(r) \/ GiveBack(r)
  PROVE  Moves(q)
<1>1. /\ TypeInv /\ PoolInv /\ req \in [Request -> Thread] /\ req[r] \in Thread /\ req[q] \in Thread
      /\ Orderly(q)
  BY DEF GatewayInv, ThreadInv, TypeInv
<1>2. CASE TooMany(r) \/ TimeOut(r) \/ HandlerRaises(r)
  <2>1. req' = Unwind(r)
    BY <1>2 DEF TooMany, TimeOut, HandlerRaises
  <2>2. Started(Unwind(r)[r].todo) /\ (q # r => Unwind(r)[q] = req[q])
    BY <1>1, UnwindStarted
  <2> QED
    BY <2>1, <2>2 DEF Moves
<1>3. CASE Queue(r)
  <2>1. req' = [req EXCEPT ![r].phase = "waiting"]
    BY <1>3 DEF Queue, Goes
  <2> QED
    BY <1>1, <2>1 DEF Moves, Thread
<1>4. ASSUME NEW s \in Request
      PROVE  Rest(req, s)[s].todo = Tail(req[s].todo) /\ (q # s => Rest(req, s)[q] = req[q])
  <2>1. req[s] \in Thread
    BY <1>1
  <2> QED
    BY <1>1, <2>1 DEF Rest, Thread
<1>5. CASE TakeFree(r)
  <2>1. req' = Rest(req, r) /\ req[r].todo # << >> /\ Head(req[r].todo).do = "take"
    BY <1>5 DEF TakeFree, Doing
  <2> QED
    BY <2>1, <1>4 DEF Moves
<1>6. CASE GiveBack(r)
  <2> DEFINE p == Its(r)
             first == IF queue[p] = << >> THEN {} ELSE {Head(queue[p])}
  <2>1. /\ req' = [s \in Request |-> IF s \in first \cup {r} THEN Rest(req, s)[s] ELSE req[s]]
        /\ req[r].todo # << >> /\ Head(req[r].todo).do = "give"
    BY <1>6 DEF GiveBack, Doing
  <2>2. Its(r) \in Pool
    <3>1. Orderly(r)
      BY DEF GatewayInv, ThreadInv
    <3> QED
      BY <1>1, <2>1, <3>1, GiveLeaves
  <2>3. ASSUME q \in first PROVE req[q].todo # << >> /\ Head(req[q].todo).do = "take"
    <3>1. queue[p] # << >> /\ q = Head(queue[p]) /\ queue[p] \in Seq(Request)
      BY <1>1, <2>2, <2>3 DEF TypeInv
    <3>2. 1 \in DOMAIN queue[p] /\ q = queue[p][1]
      BY <3>1, TailOf
    <3>3. Waits(q, p)
      BY <1>1, <2>2, <3>2 DEF PoolInv
    <3> QED
      BY <1>1, <3>3 DEF Waits, Orderly
  <2> HIDE DEF first, p
  <2>4. CASE q \in first \cup {r}
    <3>1. req'[q].todo = Tail(req[q].todo)
      BY <1>4, <2>1, <2>4
    <3> QED
      BY <2>1, <2>3, <2>4, <3>1 DEF Moves
  <2>5. CASE q \notin first \cup {r}
    BY <2>1, <2>5 DEF Moves
  <2> QED
    BY <2>4, <2>5
<1> QED
  BY <1>2, <1>3, <1>5, <1>6

LEMMA AuthMoves ==
  ASSUME GatewayInv, NEW r \in Request, NEW q \in Request, ReadClock(r) \/ OverallLimit(r) \/ ClientLimited(r)
  PROVE  Moves(q)
<1>1. TypeInv /\ req \in [Request -> Thread] /\ req[r] \in Thread /\ req[q] \in Thread
  BY DEF GatewayInv, TypeInv
<1>2. /\ Rest(req, r)[r].todo = Tail(req[r].todo) /\ (q # r => Rest(req, r)[q] = req[q])
      /\ DOMAIN Rest(req, r) = Request
  BY <1>1 DEF Rest, Thread
<1>3. CASE ReadClock(r)
  <2>1. req[r].todo # << >> /\ req' = [Rest(req, r) EXCEPT ![r].now = clock]
    BY <1>3 DEF ReadClock, Doing
  <2>2. req'[r].todo = Tail(req[r].todo) /\ req'[r].now = clock /\ (q # r => req'[q] = req[q])
    BY <1>1, <2>1 DEF Rest, Thread
  <2> QED
    BY <2>1, <2>2 DEF Moves
<1>4. CASE OverallLimit(r) \/ ClientLimited(r)
  <2>1. PICK ok \in BOOLEAN : After(r, ok)
    <3>1. CASE OverallLimit(r)
      <4>1. Allow(overall, 0, req[r].now, GlobalLimit, Window, 4).ok \in BOOLEAN
        BY DEF Allow
      <4> QED
        BY <3>1, <4>1 DEF OverallLimit
    <3>2. CASE ClientLimited(r)
      <4>1. Allow(clients, req[r].client, req[r].now, ClientLimit, Window, MaxKeys).ok \in BOOLEAN
        BY DEF Allow
      <4> QED
        BY <3>2, <4>1 DEF ClientLimited
    <3> QED
      BY <1>4, <3>1, <3>2
  <2>2. req[r].todo # << >> /\ Head(req[r].todo).do # "clock"
    BY <1>4 DEF OverallLimit, ClientLimited, Doing
  <2> DEFINE s == IF ok THEN Rest(req, r) ELSE Unwind(r)
  <2>3. req' = Past(s, r)
    BY <2>1 DEF After
  <2>4. /\ \E t \in Thread : s = [req EXCEPT ![r] = t]
        /\ s[r].todo = Tail(req[r].todo) \/ Started(s[r].todo)
    <3>1. CASE ok
      <4>1. Orderly(r) /\ req[r].phase = "working" /\ Head(req[r].todo).do \notin {"take", "give"}
        BY <1>4 DEF GatewayInv, ThreadInv, OverallLimit, ClientLimited, Doing
      <4>2. Tail(req[r].todo) \in Seq(Steps)
        BY <1>1, <2>2, <4>1, RestOf
      <4> QED
        BY <1>1, <1>2, <3>1, <4>2, RestThread
    <3>2. CASE ~ok
      BY <1>1, <3>2, UnwindOf, UnwindStarted
    <3> QED
      BY <3>1, <3>2
  <2> HIDE DEF s
  <2>5. PICK t \in Thread : s = [req EXCEPT ![r] = t]
    BY <2>4
  <2>6. req'[r].todo = s[r].todo /\ (q # r => req'[q] = req[q])
    BY <1>1, <2>3, <2>5 DEF Past, Thread
  <2> QED
    BY <2>2, <2>4, <2>6 DEF Moves
<1> QED
  BY <1>3, <1>4

\* Asking the overall limiter: a request is let through only if fewer than
\* the limit of stamps are left, and then what it dropped came a window less
\* a stall before.
LEMMA OverallKeepsWindow ==
  ASSUME GatewayInv, WindowInv, NEW r \in Request, OverallLimit(r)
  PROVE  StampInv' /\ WindowHolds'
<1> DEFINE now == req[r].now
           a == Allow(overall, 0, now, GlobalLimit, Window, 4)
           old == Stamps
           q == PopExpired(old, now, Window)
           n == Len(admitted)
<1>1. /\ now \in Nat /\ clock \in Nat /\ Stall \in Nat /\ Window \in Nat /\ GlobalLimit \in Nat \ {0}
      /\ admitted \in Seq(Nat) /\ old \in Seq(Nat) /\ now <= clock /\ clock <= now + Stall
  <2>1. req[r] \in Thread /\ clock \in 0..MaxTime /\ admitted \in Seq(0..MaxTime) /\ old \in Seq(Nat)
    BY DEF GatewayInv, TypeInv, WindowInv, StampInv
  <2>2. Clocked(r) /\ req[r].todo # << >> /\ Head(req[r].todo).do = "overall"
    BY DEF WindowInv, OverallLimit, Doing
  <2> QED
    BY <2>1, <2>2, Constants DEF Clocked, Thread
<1>2. /\ a.ok = (Len(q) < GlobalLimit)
      /\ DOMAIN a.lim.ev = {0} /\ a.lim.ev[0] = IF a.ok THEN Append(q, now) ELSE q
  <2> DEFINE room == IF 0 \in DOMAIN overall.ev THEN overall ELSE MakeRoom(overall, now, 4)
             Set(f, v) == [k \in DOMAIN f \cup {0} |-> IF k = 0 THEN v ELSE f[k]]
  <2>1. /\ a.ok = (Len(q) < GlobalLimit)
        /\ a.lim.ev = Set(room.ev, IF a.ok THEN Append(q, now) ELSE q)
    BY DEF Allow, Stamps
  <2>2. DOMAIN room.ev \subseteq {0}
    <3>1. DOMAIN overall.ev \subseteq {0}
      BY DEF WindowInv, StampInv
    <3>2. CASE 0 \notin DOMAIN overall.ev
      <4>1. DOMAIN overall.ev = {}
        BY <3>1, <3>2
      <4>2. Cardinality(DOMAIN overall.ev) = 0 /\ ~(0 >= 4)
        BY <4>1, FS_EmptySet
      <4>3. MakeRoom(overall, now, 4) = overall
        BY <4>2 DEF MakeRoom
      <4> QED
        BY <3>1, <3>2, <4>3
    <3> QED
      BY <3>1, <3>2
  <2> HIDE DEF room, a, q
  <2> QED
    BY <2>1, <2>2
<1>3. /\ overall' = a.lim /\ clock' = clock
      /\ admitted' = IF a.ok THEN Append(admitted, clock) ELSE admitted
  BY DEF OverallLimit
<1>4. Stamps' = IF a.ok THEN Append(q, now) ELSE q
  BY <1>2, <1>3 DEF Stamps
<1>5. PICK d \in 0..Len(old) :
        /\ q \in Seq(Nat) /\ Len(q) = Len(old) - d
        /\ \A k \in 1..(Len(old) - d) : q[k] = old[d + k]
        /\ \A k \in 1..d : old[k] + Window <= now
  BY <1>1, PopLeaves
<1>6. /\ n \in Nat /\ Len(old) \in Nat /\ d \in Nat /\ d <= Len(old) /\ Len(old) <= n
      /\ DOMAIN old = 1..Len(old) /\ DOMAIN admitted = 1..n /\ \A i \in 1..n : admitted[i] \in Nat
      /\ \A k \in 1..Len(old) : old[k] \in Nat /\ admitted[n - Len(old) + k] <= old[k] + Stall
      /\ \A i \in 1..(n - Len(old)) : admitted[i] + Window <= clock + Stall
      /\ \A i, j \in 1..n : i + GlobalLimit <= j => admitted[i] + Window <= admitted[j] + Stall
  <2>1. /\ Len(old) <= n
        /\ \A k \in DOMAIN old : admitted[n - Len(old) + k] <= old[k] + Stall
        /\ \A i \in 1..(n - Len(old)) : admitted[i] + Window <= clock + Stall
        /\ \A i, j \in DOMAIN admitted : i + GlobalLimit <= j => admitted[i] + Window <= admitted[j] + Stall
    BY DEF WindowInv, StampInv, WindowHolds
  <2>2. n \in Nat /\ DOMAIN admitted = 1..n /\ \A i \in 1..n : admitted[i] \in Nat
    BY <1>1
  <2> HIDE DEF old, q, a, now
  <2>3. Len(old) \in Nat /\ DOMAIN old = 1..Len(old) /\ \A k \in 1..Len(old) : old[k] \in Nat
    BY <1>1
  <2> HIDE DEF n
  <2>4. d \in Nat /\ d <= Len(old)
    BY <2>3
  <2> QED
    BY <2>1, <2>2, <2>3, <2>4
<1> HIDE DEF now, a, old, q, n
<1>7. \A k \in 1..Len(q) : q[k] \in Nat /\ admitted[n - Len(q) + k] <= q[k] + Stall
  <2>1. SUFFICES ASSUME NEW k \in 1..Len(q) PROVE q[k] \in Nat /\ admitted[n - Len(q) + k] <= q[k] + Stall
    OBVIOUS
  <2>2. k \in 1..(Len(old) - d) /\ d + k \in 1..Len(old) /\ n - Len(q) + k = n - Len(old) + (d + k)
    BY <1>5, <1>6
  <2> QED
    BY <1>5, <1>6, <2>2
<1>8. \A i \in 1..(n - Len(q)) : admitted[i] + Window <= clock + Stall
  <2>1. SUFFICES ASSUME NEW i \in 1..(n - Len(q)) PROVE admitted[i] + Window <= clock + Stall
    OBVIOUS
  <2>2. CASE i \in 1..(n - Len(old))
    BY <1>6, <2>2
  <2>3. CASE i \notin 1..(n - Len(old))
    <3> DEFINE k == i - (n - Len(old))
    <3>1. k \in 1..d /\ k \in 1..Len(old) /\ i = n - Len(old) + k /\ i \in 1..n
      BY <1>5, <1>6, <2>3
    <3> HIDE DEF k
    <3>2. old[k] + Window <= now /\ admitted[i] <= old[k] + Stall /\ admitted[i] \in Nat /\ old[k] \in Nat
      BY <1>5, <1>6, <3>1
    <3>3. \A x, y, w, t, c, z \in Nat : x + w <= t /\ y <= x + z /\ t <= c => y + w <= c + z
      OBVIOUS
    <3> QED
      BY <1>1, <3>2, <3>3
  <2> QED
    BY <2>2, <2>3
<1>9. DOMAIN overall'.ev \subseteq {0}
  BY <1>2, <1>3
<1>10. Len(q) \in Nat /\ Len(q) <= n /\ DOMAIN q = 1..Len(q)
  BY <1>5, <1>6
<1>11. CASE ~a.ok
  <2>1. Stamps' = q /\ admitted' = admitted /\ Len(admitted') = n
    BY <1>3, <1>4, <1>11 DEF n
  <2>2. WindowHolds'
    BY <2>1 DEF WindowInv, WindowHolds
  <2>3. StampInv'
    BY <1>3, <1>5, <1>7, <1>8, <1>9, <1>10, <2>1 DEF StampInv
  <2> QED
    BY <2>2, <2>3
<1>12. CASE a.ok
  <2> DEFINE s == Append(q, now)
             m == Append(admitted, clock)
  <2>1. Stamps' = s /\ admitted' = m /\ Len(q) < GlobalLimit
    BY <1>2, <1>3, <1>4, <1>12
  <2>2. /\ s \in Seq(Nat) /\ Len(s) = Len(q) + 1 /\ DOMAIN s = 1..(Len(q) + 1)
        /\ s[Len(q) + 1] = now /\ \A k \in 1..Len(q) : s[k] = q[k]
    BY <1>1, <1>5
  <2>3. /\ Len(m) = n + 1 /\ DOMAIN m = 1..(n + 1)
        /\ m[n + 1] = clock /\ \A i \in 1..n : m[i] = admitted[i]
    BY <1>1 DEF n
  <2> HIDE DEF s, m
  <2>4. \A k \in 1..(Len(q) + 1) : m[(n + 1) - (Len(q) + 1) + k] <= s[k] + Stall
    <3>1. SUFFICES ASSUME NEW k \in 1..(Len(q) + 1) PROVE m[(n + 1) - (Len(q) + 1) + k] <= s[k] + Stall
      OBVIOUS
    <3>2. CASE k = Len(q) + 1
      <4>1. (n + 1) - (Len(q) + 1) + k = n + 1
        BY <1>6, <1>10, <3>2
      <4> QED
        BY <1>1, <2>2, <2>3, <3>2, <4>1
    <3>3. CASE k # Len(q) + 1
      <4>1. k \in 1..Len(q) /\ (n + 1) - (Len(q) + 1) + k = n - Len(q) + k /\ n - Len(q) + k \in 1..n
        BY <1>6, <1>10, <3>3
      <4> QED
        BY <1>7, <2>2, <2>3, <4>1
    <3> QED
      BY <3>2, <3>3
  <2>5. \A i \in 1..((n + 1) - (Len(q) + 1)) : m[i] + Window <= clock + Stall
    <3>1. SUFFICES ASSUME NEW i \in 1..((n + 1) - (Len(q) + 1)) PROVE m[i] + Window <= clock + Stall
      OBVIOUS
    <3>2. i \in 1..(n - Len(q)) /\ i \in 1..n
      BY <1>6, <1>10
    <3> QED
      BY <1>8, <2>3, <3>2
  <2>6. ASSUME NEW i \in 1..(n + 1), NEW j \in 1..(n + 1), i + GlobalLimit <= j
        PROVE  m[i] + Window <= m[j] + Stall
    <3>1. CASE j = n + 1
      <4>1. i \in 1..(n - Len(q)) /\ i \in 1..n
        BY <1>1, <1>6, <1>10, <2>1, <2>6, <3>1
      <4> QED
        BY <1>8, <2>3, <3>1, <4>1
    <3>2. CASE j # n + 1
      <4>1. i \in 1..n /\ j \in 1..n
        BY <1>1, <1>6, <2>6, <3>2
      <4> QED
        BY <1>6, <2>3, <2>6, <4>1
    <3> QED
      BY <3>1, <3>2
  <2>7. WindowHolds'
    BY <2>1, <2>3, <2>6 DEF WindowHolds
  <2>8. Len(s) <= Len(m)
    BY <1>6, <1>10, <2>2, <2>3
  <2>9. StampInv'
    BY <1>3, <1>9, <2>1, <2>2, <2>3, <2>4, <2>5, <2>8 DEF StampInv
  <2> QED
    BY <2>7, <2>9
<1>13. a.ok \in BOOLEAN
  BY <1>2
<1> QED
  BY <1>11, <1>12, <1>13

\* Any other step leaves the limiter and its history alone.
LEMMA OthersKeepWindow ==
  ASSUME GatewayInv, WindowInv, overall' = overall, admitted' = admitted, clock' \in Nat, clock <= clock'
  PROVE  StampInv' /\ WindowHolds'
<1>1. Stamps' = Stamps
  BY DEF Stamps
<1>2. WindowHolds'
  BY DEF WindowInv, WindowHolds
<1>3. ASSUME NEW i \in 1..(Len(admitted) - Len(Stamps)) PROVE admitted[i] + Window <= clock' + Stall
  <2>1. admitted[i] + Window <= clock + Stall /\ Stamps \in Seq(Nat)
    BY DEF WindowInv, StampInv
  <2>2. admitted \in Seq(0..MaxTime) /\ clock \in Nat
    BY DEF GatewayInv, TypeInv
  <2>3. Len(Stamps) \in Nat /\ Len(admitted) \in Nat /\ i \in 1..Len(admitted)
    BY <2>1, <2>2
  <2>4. \A k \in 1..Len(admitted) : admitted[k] \in Nat
    <3>1. admitted \in Seq(Nat)
      BY <2>2, Constants
    <3> QED
      BY <3>1
  <2>5. admitted[i] \in Nat /\ Window \in Nat /\ Stall \in Nat
    <3>1. admitted[i] \in Nat
      BY <2>3, <2>4
    <3> QED
      BY <3>1, Constants
  <2>6. \A x, w, c, e, z \in Nat : x + w <= c + z /\ c <= e => x + w <= e + z
    OBVIOUS
  <2> QED
    BY <2>1, <2>2, <2>5, <2>6
<1>4. StampInv'
  BY <1>1, <1>3 DEF WindowInv, StampInv
<1> QED
  BY <1>2, <1>4

\* Time passes only while no thread has held its clock reading for a stall.
LEMMA TickKeepsWindow ==
  ASSUME GatewayInv, WindowInv, Tick
  PROVE  WindowInv'
<1>1. /\ overall' = overall /\ admitted' = admitted /\ req' = req /\ clock' = clock + 1
      /\ clock \in Nat /\ clock' \in Nat /\ clock <= clock'
  BY DEF Tick, GatewayInv, TypeInv
<1>2. StampInv' /\ WindowHolds'
  BY <1>1, OthersKeepWindow
<1>3. ASSUME NEW r \in Request PROVE Clocked(r)'
  <2>1. Clocked(r) /\ Orderly(r) /\ req[r] \in Thread /\ req[r].now \in Nat /\ Stall \in Nat
    BY Constants DEF WindowInv, GatewayInv, ThreadInv, TypeInv, Thread
  <2>2. ASSUME req[r].todo # << >>, Head(req[r].todo).do = "overall"
        PROVE  req[r].now <= clock + 1 /\ clock + 1 <= req[r].now + Stall
    <3>1. req[r].phase = "working"
      BY <2>1, <2>2 DEF Orderly
    <3>2. clock < req[r].now + Stall
      BY <2>2, <3>1 DEF Tick, Doing
    <3>3. req[r].now <= clock
      BY <2>1, <2>2 DEF Clocked
    <3> QED
      BY <1>1, <2>1, <3>2, <3>3
  <2> QED
    BY <1>1, <2>1, <2>2 DEF Clocked, AfterClock
<1> QED
  BY <1>2, <1>3 DEF WindowInv

\* A step of a thread.
LEMMA ThreadKeepsWindow ==
  ASSUME GatewayInv, GatewayInv', WindowInv, NEW r \in Request,
         Progress(r) \/ Accept(r) \/ StartFails(r) \/ ReadFails(r) \/ TimeOut(r) \/ HandlerRaises(r)
  PROVE  WindowInv'
<1>1. ASSUME NEW q \in Request PROVE Moves(q)
  <2>1. CASE Accept(r) \/ StartFails(r) \/ Finish(r) \/ StartThread(r) \/ ReadRequest(r) \/ ReadFails(r)
    BY <2>1, StartingMoves
  <2>2. CASE TakeFree(r) \/ Queue(r) \/ TooMany(r) \/ TimeOut(r) \/ HandlerRaises(r) \/ GiveBack(r)
    BY <2>2, WorkingMoves
  <2>3. CASE ReadClock(r) \/ OverallLimit(r) \/ ClientLimited(r)
    BY <2>3, AuthMoves
  <2> QED
    BY <2>1, <2>2, <2>3 DEF Progress
<1>2. clock' = clock /\ (OverallLimit(r) \/ (overall' = overall /\ admitted' = admitted))
  BY DEF Progress, Accept, StartFails, ReadFails, TimeOut, HandlerRaises, StartThread, ReadRequest, Finish,
         TakeFree, Queue, TooMany, GiveBack, ReadClock, ClientLimited, OverallLimit, limits
<1>3. StampInv' /\ WindowHolds'
  <2>1. clock \in Nat
    BY DEF GatewayInv, TypeInv
  <2>2. clock' \in Nat /\ clock <= clock'
    BY <1>2, <2>1
  <2> QED
    BY <1>2, <2>2, OverallKeepsWindow, OthersKeepWindow
<1>4. ASSUME NEW q \in Request PROVE Clocked(q)'
  BY <1>1, <1>2, MovesClocked DEF GatewayInv, WindowInv
<1> QED
  BY <1>3, <1>4 DEF WindowInv

-----------------------------------------------------------------------------
(* Theorems                                                                *)

\* The inductive invariant of the gateway process: the steps a thread has
\* left alternate between taking and returning connections of each pool, the
\* semaphore counts the threads, the queues hold the waiting threads, and
\* the table of client buckets is within its size.
THEOREM GatewayInvariant == Spec => []GatewayInv
<1>1. Init => GatewayInv
  BY StartsAccounted
<1>2. GatewayInv /\ [Next]_vars => GatewayInv'
  <2>1. SUFFICES ASSUME GatewayInv, [Next]_vars PROVE GatewayInv'
    OBVIOUS
  <2>2. CASE UNCHANGED vars
    BY <2>1, <2>2, StutterStep
  <2>3. CASE Tick
    BY <2>1, <2>3, TickStep
  <2>4. ASSUME NEW r \in Request,
               Progress(r) \/ Accept(r) \/ StartFails(r) \/ ReadFails(r) \/ TimeOut(r) \/ HandlerRaises(r)
        PROVE  GatewayInv'
    <3>1. CASE Accept(r) \/ StartFails(r) \/ Finish(r)
      BY <2>1, <3>1, SlotSteps
    <3>2. CASE StartThread(r) \/ ReadRequest(r) \/ ReadFails(r) \/ TooMany(r) \/ HandlerRaises(r)
      BY <2>1, <3>2, WorkSteps
    <3>3. CASE ReadClock(r) \/ OverallLimit(r) \/ ClientLimited(r)
      BY <2>1, <3>3, AuthSteps
    <3>4. CASE TakeFree(r)
      BY <2>1, <3>4, TakeFreeStep
    <3>5. CASE Queue(r)
      BY <2>1, <3>5, QueueStep
    <3>6. CASE TimeOut(r)
      BY <2>1, <3>6, TimeOutStep
    <3>7. CASE GiveBack(r)
      BY <2>1, <3>7, GiveBackStep
    <3> QED
      BY <2>4, <3>1, <3>2, <3>3, <3>4, <3>5, <3>6, <3>7 DEF Progress
  <2> QED
    BY <2>1, <2>2, <2>3, <2>4 DEF Next
<1> QED
  BY <1>1, <1>2, PTL DEF Spec

\* Whoever has connections and slots is accounted for, with any number of
\* threads and clients and pools of any size, whatever raises or times out.
THEOREM EverythingAccounted == Spec => []Accounted
<1>1. GatewayInv => Accounted
  <2>1. SUFFICES ASSUME GatewayInv PROVE Accounted
    OBVIOUS
  <2>2. TypeInv /\ ThreadInv /\ PoolInv /\ LimiterInv
    BY <2>1 DEF GatewayInv
  <2>3. IsFiniteSet(Threads) /\ Cardinality(Threads) \in Nat /\ slots \in Nat
        /\ slots + Cardinality(Threads) = MaxConcurrent
    BY <2>2, FS_CardinalityType DEF ThreadInv, TypeInv
  <2>4. slots \in 0..MaxConcurrent
    BY <2>3, Constants
  <2>5. TypeOK
    BY <2>2, <2>4 DEF TypeInv, TypeOK, Thread
  <2>6. ASSUME NEW p \in Pool, NEW r \in held[p]
        PROVE  r \in Threads /\ \E i \in DOMAIN req[r].todo : req[r].todo[i] = Give(p)
    <3>1. r \in Request /\ Orderly(r)
      BY <2>2 DEF TypeInv, ThreadInv
    <3>2. PICK i \in DOMAIN req[r].todo : req[r].todo[i] = Give(p)
      BY <2>6, <3>1 DEF Orderly, Alternates
    <3>3. req[r].phase # "idle"
      BY <3>1, <3>2 DEF Orderly
    <3> QED
      BY <3>1, <3>2, <3>3 DEF Threads
  <2>7. NothingLeaks
    BY <2>3, <2>6 DEF NothingLeaks
  <2>8. ASSUME NEW p \in Pool
        PROVE  {queue[p][i] : i \in DOMAIN queue[p]} = {r \in Request : req[r].phase = "waiting" /\ Its(r) = p}
    BY <2>2 DEF PoolInv, TypeInv, Waits
  <2>9. WithinLimits
    BY <2>2, <2>8 DEF WithinLimits, PoolInv, LimiterInv
  <2> QED
    BY <2>5, <2>7, <2>9 DEF Accounted
<1> QED
  BY <1>1, GatewayInvariant, PTL

\* The overall rate limit of pairing and refresh holds with any number of
\* threads and whatever delay, up to the stall, between a thread's reading of
\* the clock and its turn at the limiter's lock: stamps that enter the queue out of
\* order, or expire behind one that does not, never make room too early.
THEOREM WindowAlwaysHolds == Spec => []WindowHolds
<1>1. Init => WindowInv
  <2>1. SUFFICES ASSUME Init PROVE WindowInv
    OBVIOUS
  <2>2. /\ req = [r \in Request |-> Nobody] /\ clock = 0 /\ admitted = << >> /\ DOMAIN overall.ev = {}
        /\ Nobody.todo = << >>
    BY <2>1 DEF Init, NoBuckets, Nobody
  <2>3. Stamps = << >> /\ Len(Stamps) = 0 /\ Len(admitted) = 0 /\ DOMAIN admitted = {}
        /\ DOMAIN Stamps = {} /\ Stamps \in Seq(Nat)
    BY <2>2 DEF Stamps
  <2>4. StampInv /\ WindowHolds
    BY <2>2, <2>3 DEF StampInv, WindowHolds
  <2>5. ASSUME NEW r \in Request PROVE Clocked(r)
    BY <2>2 DEF Clocked, AfterClock
  <2> QED
    BY <2>4, <2>5 DEF WindowInv
<1>2. GatewayInv /\ GatewayInv' /\ WindowInv /\ [Next]_vars => WindowInv'
  <2>1. SUFFICES ASSUME GatewayInv, GatewayInv', WindowInv, [Next]_vars PROVE WindowInv'
    OBVIOUS
  <2>2. CASE UNCHANGED vars
    <3>1. overall' = overall /\ admitted' = admitted /\ clock' = clock /\ req' = req
      BY <2>2 DEF vars
    <3> QED
      BY <2>1, <3>1 DEF WindowInv, StampInv, Stamps, WindowHolds, Clocked, AfterClock
  <2>3. CASE Tick
    BY <2>1, <2>3, TickKeepsWindow
  <2>4. ASSUME NEW r \in Request,
               Progress(r) \/ Accept(r) \/ StartFails(r) \/ ReadFails(r) \/ TimeOut(r) \/ HandlerRaises(r)
        PROVE  WindowInv'
    BY <2>1, <2>4, ThreadKeepsWindow
  <2> QED
    BY <2>1, <2>2, <2>3, <2>4 DEF Next
<1>3. WindowInv => WindowHolds
  BY DEF WindowInv
<1> QED
  BY <1>1, <1>2, <1>3, GatewayInvariant, PTL DEF Spec
=============================================================================
