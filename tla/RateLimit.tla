------------------------------ MODULE RateLimit ------------------------------
(***************************************************************************)
(* SlidingWindowRateLimiter (rate_limit.py) as a value: the queue of       *)
(* admission stamps of each key, and when each key's queue expires.  Keys  *)
(* are numbers, which stand for the order of the key strings.              *)
(***************************************************************************)
EXTENDS Naturals, Sequences, FiniteSetsExt, Functions

NoBuckets == [ev |-> [k \in {} |-> << >>], exp |-> [k \in {} |-> 0]]

\* The buckets of the keys in K only.
Keep(lim, K) == [ev |-> Restrict(lim.ev, K), exp |-> Restrict(lim.exp, K)]

DiscardExpired(lim, now) == Keep(lim, {k \in DOMAIN lim.ev : lim.exp[k] > now})

\* Ties go to the smaller key.
EarliestExpiring(lim) ==
  CHOOSE k \in DOMAIN lim.ev : \A j \in DOMAIN lim.ev :
    lim.exp[k] < lim.exp[j] \/ (lim.exp[k] = lim.exp[j] /\ k <= j)

DiscardEarliestExpiring(lim) == Keep(lim, DOMAIN lim.ev \ {EarliestExpiring(lim)})

\* Room for one more key among maxKeys.
MakeRoom(lim, now, maxKeys) ==
  LET full(l) == Cardinality(DOMAIN l.ev) >= maxKeys
      fresh == IF full(lim) THEN DiscardExpired(lim, now) ELSE lim
  IN IF full(fresh) THEN DiscardEarliestExpiring(fresh) ELSE fresh

\* Mutant: the window is one tick short.
PopEarly(q, now, window) ==
  LET live == {i \in DOMAIN q : q[i] + window > now + 1}
  IN IF live = {} THEN << >> ELSE SubSeq(q, Min(live), Len(q))

\* popleft while the first stamp is not after the cutoff (now - window).
PopExpired(q, now, window) ==
  LET live == {i \in DOMAIN q : q[i] + window > now}
  IN IF live = {} THEN << >> ELSE SubSeq(q, Min(live), Len(q))

\* allow(key, limit, window) at a clock reading of now, inside the lock.
Allow(lim, key, now, limit, window, maxKeys) ==
  LET room == IF key \in DOMAIN lim.ev THEN lim ELSE MakeRoom(lim, now, maxKeys)
      old == IF key \in DOMAIN lim.ev THEN lim.ev[key] ELSE << >>
      q == PopExpired(old, now, window)
      ok == Len(q) < limit
      exp == IF key \in DOMAIN room.exp THEN Max({room.exp[key], now + window}) ELSE now + window
      Set(f, v) == [k \in DOMAIN f \cup {key} |-> IF k = key THEN v ELSE f[k]]
  IN [ok |-> ok,
      lim |-> [ev |-> Set(room.ev, IF ok THEN Append(q, now) ELSE q),
               exp |-> IF ok THEN Set(room.exp, exp) ELSE room.exp]]
=============================================================================
