----------------------------- MODULE RateLimitProofs -----------------------------
(* For every limit, window and resolution of the clock: how many requests the      *)
(* limiter lets through, when it refuses, and that it is a token bucket.           *)
EXTENDS RateLimit, TLAPS

\* Multiplication by a natural number preserves the order of the integers.
LEMMA TimesMonotone ==
  ASSUME NEW s \in Nat, NEW a \in Int, NEW b \in Int, a <= b
  PROVE  s * a <= s * b
OBVIOUS

\* A number lies between the multiples its quotient names.
LEMMA QuotientBounds ==
  ASSUME NEW t \in Nat, NEW p \in Nat \ {0}
  PROVE  /\ t \div p \in Nat
         /\ p * (t \div p) <= t
         /\ t < p * ((t \div p) + 1)
OBVIOUS

\* And only its quotient names them.
LEMMA QuotientUnique ==
  ASSUME NEW t \in Nat, NEW p \in Nat \ {0}, NEW w \in Nat,
         p * w <= t, t < p * (w + 1)
  PROVE  t \div p = w
OBVIOUS

\* What k requests take out of a bucket.
Cost(k) == k * Refill

(* The books of one subject: the times g of its requests, the level l of its       *)
(* bucket, and the time t.                                                         *)

\* A run of requests cost no more than a full bucket and the time since the run began:
\* the strengthening that makes RateBound inductive.
Paid(g, l, t) == \A i \in 1 .. Len(g) :
                   g[i] <= t /\ Cost(Len(g) - i + 1) + l <= Capacity + t - g[i]

\* And some run, unless the bucket is full, cost exactly that.
Explained(g, l, t) == \/ l = Capacity
                      \/ \E i \in 1 .. Len(g) : Cost(Len(g) - i + 1) + l = Capacity + t - g[i]

Spaced(g) == \A i, j \in 1 .. Len(g) :
               i <= j => g[i] <= g[j] /\ Cost(j - i + 1) <= Capacity + g[j] - g[i]

Books(g, l, t) == /\ g \in Seq(Nat)
                  /\ l \in 0 .. Capacity
                  /\ t \in Nat
                  /\ Paid(g, l, t)
                  /\ Explained(g, l, t)
                  /\ Spaced(g)

LimitInv == /\ TypeOK
            /\ \A s \in Subjects : Books(granted[s], level[s], now)

\* A full bucket is worth RATE_LIMIT_MAX_REQUESTS periods, at least one.
LEMMA CapacityFacts ==
  /\ Capacity \in Nat
  /\ Refill \in Nat \ {0}
  /\ Refill <= Capacity
<1>1. Refill * 1 <= Refill * RATE_LIMIT_MAX_REQUESTS
  BY TimesMonotone, LimitAssumption
<1>2. Refill * RATE_LIMIT_MAX_REQUESTS = RATE_LIMIT_MAX_REQUESTS * Refill
  BY LimitAssumption
<1> QED BY <1>1, <1>2, LimitAssumption DEF Capacity

\* The cost of one request, of one more, and of those beyond a burst.
LEMMA CostFacts ==
  /\ Cost(1) = Refill
  /\ \A k \in Int : Cost(k) \in Int
  /\ \A k \in Int : Cost(k + 1) = Cost(k) + Refill
  /\ \A k \in Int : (k - RATE_LIMIT_MAX_REQUESTS) * Refill = Cost(k) - Capacity
BY LimitAssumption DEF Capacity, Cost

\* The books of a server that has just started.
LEMMA FreshBooks ==
  ASSUME NEW t \in Nat
  PROVE  Books(<<>>, Capacity, t)
<1>1. Capacity \in 0 .. Capacity
  BY CapacityFacts
<1>2. <<>> \in Seq(Nat) /\ Len(<<>>) = 0
  OBVIOUS
<1> QED BY <1>1, <1>2 DEF Books, Paid, Explained, Spaced

\* Letting a request through keeps the books.
LEMMA GrantKeepsBooks ==
  ASSUME NEW g, NEW l, NEW t, Books(g, l, t), l >= Refill
  PROVE  Books(Append(g, t), l - Refill, t)
<1> DEFINE h == Append(g, t)
           n == Len(g)
<1>1. /\ g \in Seq(Nat) /\ l \in 0 .. Capacity /\ t \in Nat
      /\ Paid(g, l, t) /\ Explained(g, l, t) /\ Spaced(g)
  BY DEF Books
<1>2. /\ n \in Nat
      /\ h \in Seq(Nat)
      /\ Len(h) = n + 1
      /\ \A i \in 1 .. n : h[i] = g[i] /\ g[i] \in Nat
      /\ h[n + 1] = t
  BY <1>1
<1>3. /\ \A i \in 1 .. n : g[i] <= t /\ Cost(n - i + 1) + l <= Capacity + t - g[i]
      /\ l = Capacity \/ \E i \in 1 .. n : Cost(n - i + 1) + l = Capacity + t - g[i]
      /\ \A i, j \in 1 .. n : i <= j => g[i] <= g[j] /\ Cost(j - i + 1) <= Capacity + g[j] - g[i]
  BY <1>1 DEF Paid, Explained, Spaced
<1> HIDE DEF h, n
<1>4. l \in Int /\ Refill \in Nat /\ Capacity \in Nat /\ l - Refill \in 0 .. Capacity
  BY <1>1, CapacityFacts
<1>5. \A i \in 1 .. n : /\ Cost(n - i + 1) \in Int
                        /\ Cost((n + 1) - i + 1) = Cost(n - i + 1) + Refill
  <2> SUFFICES ASSUME NEW i \in 1 .. n
               PROVE  /\ Cost(n - i + 1) \in Int
                      /\ Cost((n + 1) - i + 1) = Cost(n - i + 1) + Refill
    OBVIOUS
  <2>1. n - i + 1 \in Int /\ (n + 1) - i + 1 = (n - i + 1) + 1
    BY <1>2
  <2> QED BY <2>1, CostFacts
<1>6. Cost((n + 1) - (n + 1) + 1) = Refill
  <2>1. (n + 1) - (n + 1) + 1 = 1
    BY <1>2
  <2> QED BY <2>1, CostFacts
<1>7. Paid(h, l - Refill, t)
  <2> SUFFICES ASSUME NEW i \in 1 .. n + 1
               PROVE  /\ h[i] <= t
                      /\ Cost((n + 1) - i + 1) + (l - Refill) <= Capacity + t - h[i]
    BY <1>2 DEF Paid
  <2>1. CASE i \in 1 .. n
    <3>1. /\ Cost(n - i + 1) \in Int
          /\ Cost((n + 1) - i + 1) = Cost(n - i + 1) + Refill
          /\ g[i] <= t /\ Cost(n - i + 1) + l <= Capacity + t - g[i]
          /\ h[i] = g[i] /\ g[i] \in Nat
      BY <2>1, <1>2, <1>3, <1>5, Zenon
    <3> QED BY <3>1, <1>1, <1>4
  <2>2. CASE i = n + 1
    BY <2>2, <1>1, <1>2, <1>4, <1>6
  <2> QED BY <1>2, <2>1, <2>2
<1>8. Explained(h, l - Refill, t)
  <2>1. CASE l = Capacity
    <3>1. Cost((n + 1) - (n + 1) + 1) + (l - Refill) = Capacity + t - h[n + 1]
      BY <2>1, <1>1, <1>2, <1>4, <1>6
    <3>2. n + 1 \in 1 .. n + 1
      BY <1>2
    <3> QED BY <3>1, <3>2, <1>2 DEF Explained
  <2>2. CASE \E i \in 1 .. n : Cost(n - i + 1) + l = Capacity + t - g[i]
    <3>1. PICK i \in 1 .. n : Cost(n - i + 1) + l = Capacity + t - g[i]
      BY <2>2
    <3>2. Cost((n + 1) - i + 1) + (l - Refill) = Capacity + t - h[i]
      <4>1. /\ Cost(n - i + 1) \in Int
            /\ Cost((n + 1) - i + 1) = Cost(n - i + 1) + Refill
            /\ h[i] = g[i] /\ g[i] \in Nat
        BY <1>2, <1>5, Zenon
      <4> QED BY <3>1, <4>1, <1>1, <1>4
    <3>3. i \in 1 .. n + 1
      BY <1>2
    <3> QED BY <3>2, <3>3, <1>2 DEF Explained
  <2> QED BY <1>3, <2>1, <2>2
<1>9. Spaced(h)
  <2> SUFFICES ASSUME NEW i \in 1 .. n + 1, NEW j \in 1 .. n + 1, i <= j
               PROVE  h[i] <= h[j] /\ Cost(j - i + 1) <= Capacity + h[j] - h[i]
    BY <1>2 DEF Spaced
  <2>1. CASE j \in 1 .. n
    <3>1. i \in 1 .. n
      BY <2>1, <1>2
    <3> QED BY <2>1, <3>1, <1>2, <1>3
  <2>2. CASE j = n + 1 /\ i \in 1 .. n
    <3>1. /\ Cost(n - i + 1) \in Int
          /\ Cost((n + 1) - i + 1) = Cost(n - i + 1) + Refill
          /\ g[i] <= t /\ Cost(n - i + 1) + l <= Capacity + t - g[i]
          /\ h[i] = g[i] /\ g[i] \in Nat
      BY <2>2, <1>2, <1>3, <1>5, Zenon
    <3>2. h[i] <= t /\ Cost((n + 1) - i + 1) <= Capacity + t - h[i]
      BY <3>1, <1>1, <1>4
    <3> QED BY <2>2, <3>2, <1>2, Zenon
  <2>3. CASE j = n + 1 /\ i = n + 1
    BY <2>3, <1>1, <1>2, <1>4, <1>6, CapacityFacts
  <2> QED BY <1>2, <2>1, <2>2, <2>3
<1> QED BY <1>1, <1>2, <1>4, <1>7, <1>8, <1>9 DEF Books, h

\* A tick of the clock keeps the books.
LEMMA TickKeepsBooks ==
  ASSUME NEW g, NEW l, NEW t, Books(g, l, t)
  PROVE  Books(g, IF l < Capacity THEN l + 1 ELSE Capacity, t + 1)
<1> DEFINE m == IF l < Capacity THEN l + 1 ELSE Capacity
<1>1. /\ g \in Seq(Nat) /\ l \in 0 .. Capacity /\ t \in Nat
      /\ Paid(g, l, t) /\ Explained(g, l, t) /\ Spaced(g)
  BY DEF Books
<1>2. Capacity \in Nat /\ l \in Int
  BY <1>1, CapacityFacts
<1>3. m \in 0 .. Capacity /\ m \in Int /\ m <= l + 1 /\ (m = Capacity \/ m = l + 1)
  BY <1>1, <1>2
<1> HIDE DEF m
<1>4. \A i \in 1 .. Len(g) : g[i] \in Nat /\ Cost(Len(g) - i + 1) \in Int
  <2> SUFFICES ASSUME NEW i \in 1 .. Len(g)
               PROVE  g[i] \in Nat /\ Cost(Len(g) - i + 1) \in Int
    OBVIOUS
  <2>1. g[i] \in Nat /\ Len(g) - i + 1 \in Int
    BY <1>1
  <2> QED BY <2>1, CostFacts
<1>5. Paid(g, m, t + 1)
  <2> SUFFICES ASSUME NEW i \in 1 .. Len(g)
               PROVE  /\ g[i] <= t + 1
                      /\ Cost(Len(g) - i + 1) + m <= Capacity + (t + 1) - g[i]
    BY DEF Paid
  <2>1. /\ g[i] <= t /\ Cost(Len(g) - i + 1) + l <= Capacity + t - g[i]
        /\ g[i] \in Nat /\ Cost(Len(g) - i + 1) \in Int
    BY <1>1, <1>4, Zenon DEF Paid
  <2>2. \A a \in Int, b \in Nat : a + l <= Capacity + t - b => a + m <= Capacity + (t + 1) - b
    BY <1>1, <1>2, <1>3
  <2> QED BY <2>1, <2>2, <1>1
<1>6. Explained(g, m, t + 1)
  <2>1. CASE m = Capacity
    BY <2>1 DEF Explained
  <2>2. CASE m = l + 1 /\ l = Capacity
    BY <2>2, <1>2, <1>3
  <2>3. CASE m = l + 1 /\ \E i \in 1 .. Len(g) : Cost(Len(g) - i + 1) + l = Capacity + t - g[i]
    <3>1. PICK i \in 1 .. Len(g) : Cost(Len(g) - i + 1) + l = Capacity + t - g[i]
      BY <2>3
    <3>2. Cost(Len(g) - i + 1) + m = Capacity + (t + 1) - g[i]
      <4>1. g[i] \in Nat /\ Cost(Len(g) - i + 1) \in Int
        BY <1>4, Zenon
      <4>2. \A a \in Int, b \in Nat : a + l = Capacity + t - b => a + (l + 1) = Capacity + (t + 1) - b
        BY <1>1, <1>2
      <4> QED BY <2>3, <3>1, <4>1, <4>2
    <3> QED BY <3>2 DEF Explained
  <2> QED BY <1>1, <1>3, <2>1, <2>2, <2>3 DEF Explained
<1> QED BY <1>1, <1>3, <1>5, <1>6 DEF Books, m

---------------------------------------------------------------------------------
\* The server starts with its books in order.
LEMMA LimitInvInit == Init => LimitInv
<1> SUFFICES ASSUME Init PROVE LimitInv
  OBVIOUS
<1>1. TypeOK
  <2>1. 0 \in 0 .. MaxUptime /\ Capacity \in 0 .. Capacity /\ <<>> \in Seq(0 .. MaxUptime)
    BY CapacityFacts, LimitAssumption
  <2> QED BY <2>1 DEF Init, TypeOK
<1>2. \A s \in Subjects : Books(granted[s], level[s], now)
  BY FreshBooks DEF Init
<1> QED BY <1>1, <1>2 DEF LimitInv

\* Every step keeps them.
LEMMA LimitInvStep == LimitInv /\ [Next]_vars => LimitInv'
<1> SUFFICES ASSUME LimitInv, [Next]_vars PROVE LimitInv'
  OBVIOUS
<1>1. TypeOK /\ \A s \in Subjects : Books(granted[s], level[s], now)
  BY DEF LimitInv
<1>2. ASSUME NEW s \in Subjects, Grant(s) PROVE LimitInv'
  <2>1. /\ level[s] >= Refill /\ level[s] \in 0 .. Capacity
        /\ granted[s] \in Seq(0 .. MaxUptime) /\ now \in 0 .. MaxUptime
    BY <1>1, <1>2 DEF Grant, TypeOK
  <2>2. level[s] - Refill \in 0 .. Capacity
    BY <2>1, CapacityFacts
  <2>3. Append(granted[s], now) \in Seq(0 .. MaxUptime)
    BY <2>1
  <2>4. TypeOK'
    BY <1>1, <1>2, <2>2, <2>3 DEF Grant, TypeOK
  <2>5. Books(Append(granted[s], now), level[s] - Refill, now)
    BY <1>1, <2>1, GrantKeepsBooks
  <2>6. ASSUME NEW q \in Subjects PROVE Books(granted'[q], level'[q], now')
    <3>1. CASE q = s
      BY <3>1, <1>1, <1>2, <2>5, Zenon DEF Grant, TypeOK
    <3>2. CASE q # s
      BY <3>2, <1>1, <1>2, Zenon DEF Grant, TypeOK
    <3> QED BY <3>1, <3>2
  <2> QED BY <2>4, <2>6 DEF LimitInv
<1>3. CASE Tick
  <2>1. TypeOK'
    <3>1. now' \in 0 .. MaxUptime
      <4>1. \A t \in 0 .. MaxUptime : t < MaxUptime => t + 1 \in 0 .. MaxUptime
        BY LimitAssumption
      <4> QED BY <1>1, <1>3, <4>1, Zenon DEF Tick, TypeOK
    <3>2. \A s \in Subjects : (IF level[s] < Capacity THEN level[s] + 1 ELSE Capacity) \in 0 .. Capacity
      BY <1>1, CapacityFacts DEF TypeOK
    <3> QED BY <1>1, <1>3, <3>1, <3>2 DEF Tick, TypeOK
  <2>2. ASSUME NEW s \in Subjects PROVE Books(granted'[s], level'[s], now')
    <3>1. Books(granted[s], IF level[s] < Capacity THEN level[s] + 1 ELSE Capacity, now + 1)
      BY <1>1, TickKeepsBooks
    <3> QED BY <1>3, <3>1, Zenon DEF Tick
  <2> QED BY <2>1, <2>2 DEF LimitInv
<1>4. CASE Restart
  <2>1. TypeOK'
    <3>1. 0 \in 0 .. MaxUptime /\ Capacity \in 0 .. Capacity /\ <<>> \in Seq(0 .. MaxUptime)
      BY CapacityFacts, LimitAssumption
    <3> QED BY <1>4, <3>1 DEF Restart, TypeOK
  <2>2. \A s \in Subjects : Books(granted'[s], level'[s], now')
    BY <1>4, FreshBooks DEF Restart
  <2> QED BY <2>1, <2>2 DEF LimitInv
<1>5. CASE UNCHANGED vars
  BY <1>1, <1>5, Zenon DEF LimitInv, TypeOK, vars
<1>6. ASSUME NEW s \in Subjects, Refuse(s) PROVE LimitInv'
  BY <1>5, <1>6 DEF Refuse
<1> QED BY <1>2, <1>3, <1>4, <1>5, <1>6 DEF Next

\* The books are in order in every reachable state.
THEOREM LimitInvariant == Spec => []LimitInv
BY LimitInvInit, LimitInvStep, PTL DEF Spec

\* The types are among the books.
THEOREM LimitTypeCorrect == Spec => []TypeOK
<1>1. LimitInv => TypeOK
  BY DEF LimitInv
<1> QED BY <1>1, LimitInvariant, PTL

\* What the quotient drops is less than a tick of each period.
LEMMA RefillFacts ==
  /\ Window \in Nat
  /\ Window - RATE_LIMIT_MAX_REQUESTS + 1 \in Nat
  /\ Window - RATE_LIMIT_MAX_REQUESTS + 1 <= RATE_LIMIT_MAX_REQUESTS * Refill
<1>1. Window \in Nat
  BY LimitAssumption DEF Window
<1> DEFINE p == RATE_LIMIT_MAX_REQUESTS
<1>2. p \in Nat \ {0} /\ Refill \in Nat \ {0} /\ p * Refill \in Nat
  BY LimitAssumption
<1>3. p * Refill <= Window /\ Window < p * (Refill + 1)
  BY <1>1, <1>2, QuotientBounds DEF Refill
<1> HIDE DEF p
<1>4. p * (Refill + 1) = p * Refill + p
  BY <1>2
<1>5. p <= p * Refill
  <2>1. p * 1 <= p * Refill
    BY <1>2, TimesMonotone
  <2> QED BY <1>2, <2>1
<1> QED BY <1>1, <1>2, <1>3, <1>4, <1>5 DEF p

\* From periods to the configuration: x requests beyond the burst that are paid for by whole
\* periods are paid for by window / max less a tick each.
LEMMA PaidAsConfigured ==
  ASSUME NEW x \in Int, NEW took \in Nat, x * Refill <= took
  PROVE  x * (Window - RATE_LIMIT_MAX_REQUESTS + 1) <= RATE_LIMIT_MAX_REQUESTS * took
<1> DEFINE p == RATE_LIMIT_MAX_REQUESTS
           w == Window - RATE_LIMIT_MAX_REQUESTS + 1
<1>1. p \in Nat \ {0} /\ Refill \in Nat /\ w \in Nat /\ w <= p * Refill
  BY LimitAssumption, RefillFacts
<1> HIDE DEF p, w
<1>2. CASE x >= 0
  <2>1. x \in Nat /\ p * Refill \in Int
    BY <1>1, <1>2
  <2>2. x * w <= x * (p * Refill)
    BY <1>1, <2>1, TimesMonotone
  <2>3. x * (p * Refill) = p * (x * Refill)
    BY <1>1
  <2>4. p * (x * Refill) <= p * took
    <3>1. x * Refill \in Int
      BY <1>1
    <3> QED BY <1>1, <3>1, TimesMonotone
  <2>5. x * w \in Int /\ x * (p * Refill) \in Int /\ p * took \in Int
    BY <1>1, <2>1
  <2>6. x * w <= p * took
    BY <2>2, <2>3, <2>4, <2>5
  <2> QED BY <2>6 DEF p, w
<1>3. CASE x < 0
  <2>1. x * w <= 0
    <3>1. w * x <= w * 0
      BY <1>1, <1>3, TimesMonotone
    <3> QED BY <1>1, <3>1
  <2>2. 0 <= p * took /\ p * took \in Int /\ x * w \in Int
    BY <1>1
  <2>3. x * w <= p * took
    BY <2>1, <2>2
  <2> QED BY <2>3 DEF p, w
<1> QED BY <1>2, <1>3

\* For every limit, window and clock: no interval sees more requests of a subject let
\* through than a burst and one for every whole period in it, and by the configured rate
\* each of these is paid for up to less than a tick (rate_limit.rs:40-56).
THEOREM LimitRateBound == Spec => []RateBound
<1>1. LimitInv => RateBound
  <2> SUFFICES ASSUME LimitInv, NEW s \in Subjects,
                      NEW i \in DOMAIN granted[s], NEW j \in DOMAIN granted[s], i <= j
               PROVE  /\ ((j - i + 1) - RATE_LIMIT_MAX_REQUESTS) * Refill
                           <= granted[s][j] - granted[s][i]
                      /\ ((j - i + 1) - RATE_LIMIT_MAX_REQUESTS) * (Window - RATE_LIMIT_MAX_REQUESTS + 1)
                           <= RATE_LIMIT_MAX_REQUESTS * (granted[s][j] - granted[s][i])
    BY DEF RateBound
  <2> DEFINE g == granted[s]
             x == (j - i + 1) - RATE_LIMIT_MAX_REQUESTS
  <2>1. g \in Seq(Nat) /\ Spaced(g)
    BY DEF LimitInv, Books
  <2> HIDE DEF g
  <2>2. i \in 1 .. Len(g) /\ j \in 1 .. Len(g)
    BY <2>1 DEF g
  <2>3. g[i] \in Nat /\ g[j] \in Nat /\ j - i + 1 \in Int /\ x \in Int
    BY <2>1, <2>2, LimitAssumption
  <2>4. g[i] <= g[j] /\ Cost(j - i + 1) <= Capacity + g[j] - g[i]
    BY <2>1, <2>2 DEF Spaced
  <2>5. /\ x * Refill = Cost(j - i + 1) - Capacity
        /\ Cost(j - i + 1) \in Int
    BY <2>3, CostFacts, Zenon
  <2> HIDE DEF x
  <2>6. x * Refill <= g[j] - g[i] /\ g[j] - g[i] \in Nat
    BY <2>3, <2>4, <2>5, CapacityFacts
  <2>7. x * (Window - RATE_LIMIT_MAX_REQUESTS + 1) <= RATE_LIMIT_MAX_REQUESTS * (g[j] - g[i])
    BY <2>3, <2>6, PaidAsConfigured
  <2> QED BY <2>6, <2>7, Zenon DEF g, x
<1> QED BY <1>1, LimitInvariant, PTL

\* A subject is refused only for what it was granted itself: refused requests and those of
\* other subjects cost it nothing (rate_limit.rs:13-15).
THEOREM LimitRefusedOnlyWhenSpent == Spec => []RefusedOnlyWhenSpent
<1>1. LimitInv => RefusedOnlyWhenSpent
  <2> SUFFICES ASSUME LimitInv, NEW s \in Subjects, level[s] < Refill
               PROVE  \E i \in DOMAIN granted[s] :
                        ((Len(granted[s]) - i + 2) - RATE_LIMIT_MAX_REQUESTS) * Refill
                          > now - granted[s][i]
    BY DEF RefusedOnlyWhenSpent
  <2> DEFINE g == granted[s]
             l == level[s]
             t == now
  <2>1. g \in Seq(Nat) /\ l \in 0 .. Capacity /\ t \in Nat /\ Explained(g, l, t)
    BY DEF LimitInv, Books
  <2>2. l < Refill
    OBVIOUS
  <2> HIDE DEF g, l, t
  <2>3. l # Capacity
    BY <2>1, <2>2, CapacityFacts
  <2>4. PICK i \in 1 .. Len(g) : Cost(Len(g) - i + 1) + l = Capacity + t - g[i]
    BY <2>1, <2>3 DEF Explained
  <2>5. g[i] \in Nat /\ i \in DOMAIN g
    BY <2>1
  <2>6. PICK k \in Int : k = Len(g) - i + 1
    <3>1. Len(g) - i + 1 \in Int
      BY <2>1
    <3> QED BY <3>1, Zenon
  <2>7. /\ Cost(k) \in Int
        /\ k + 1 \in Int
        /\ Cost(k + 1) = Cost(k) + Refill
        /\ ((k + 1) - RATE_LIMIT_MAX_REQUESTS) * Refill = Cost(k + 1) - Capacity
    <3>1. k + 1 \in Int
      OBVIOUS
    <3> QED BY <3>1, CostFacts, Zenon
  <2>8. Cost(k) + l = Capacity + t - g[i]
    BY <2>4, <2>6, Zenon
  <2>9. Cost(k + 1) - Capacity > t - g[i]
    BY <2>1, <2>2, <2>5, <2>7, <2>8, CapacityFacts
  <2>10. k + 1 = Len(g) - i + 2
    BY <2>1, <2>6
  <2>11. ((Len(g) - i + 2) - RATE_LIMIT_MAX_REQUESTS) * Refill > t - g[i]
    BY <2>7, <2>9, <2>10, Zenon
  <2> QED BY <2>5, <2>11, Zenon DEF g, t
<1> QED BY <1>1, LimitInvariant, PTL

---------------------------------------------------------------------------------
(* Refinement of TokenBucket *)

\* Whole tokens in a full bucket, after a request, and after a tick.
LEMMA WholeTokens ==
  /\ Capacity \div Refill = RATE_LIMIT_MAX_REQUESTS
  /\ \A l \in 0 .. Capacity : l \div Refill \in 0 .. RATE_LIMIT_MAX_REQUESTS
  /\ \A l \in 0 .. Capacity : l >= Refill => /\ l \div Refill > 0
                                             /\ (l - Refill) \div Refill = l \div Refill - 1
  /\ \A l \in 0 .. Capacity : (l + 1) \div Refill \in {l \div Refill, l \div Refill + 1}
<1> DEFINE M == RATE_LIMIT_MAX_REQUESTS
           R == Refill
<1>1. M \in Nat \ {0} /\ R \in Nat \ {0}
  BY LimitAssumption
<1>2. Capacity = R * M
  BY <1>1 DEF Capacity
<1> HIDE DEF M, R
<1>3. Capacity \div R = M
  <2>1. R * M \in Nat /\ R * M < R * (M + 1)
    BY <1>1
  <2> QED BY <1>1, <1>2, <2>1, QuotientUnique
<1>4. ASSUME NEW l \in 0 .. Capacity PROVE l \div R \in 0 .. M
  <2>1. l \in Nat /\ l <= R * M
    BY <1>1, <1>2
  <2> DEFINE q == l \div R
  <2>2. q \in Nat /\ R * q <= l /\ R * (M + 1) = R * M + R
    BY <1>1, <2>1, QuotientBounds
  <2> HIDE DEF q
  <2>3. M + 1 <= q => R * (M + 1) <= R * q
    BY <1>1, <2>2, TimesMonotone
  <2>4. R * M \in Nat /\ R * q \in Nat
    BY <1>1, <2>2
  <2>5. ~(M + 1 <= q)
    BY <1>1, <2>1, <2>2, <2>3, <2>4
  <2>6. q \in 0 .. M
    BY <1>1, <2>2, <2>5
  <2> QED BY <2>6 DEF q
<1>5. ASSUME NEW l \in 0 .. Capacity, l >= R
      PROVE  l \div R > 0 /\ (l - R) \div R = l \div R - 1
  <2>1. l \in Nat /\ l - R \in Nat
    BY <1>1, <1>2, <1>5
  <2> DEFINE q == l \div R
  <2>2. q \in Nat /\ R * q <= l /\ l < R * (q + 1) /\ R * (q + 1) = R * q + R
    BY <1>1, <2>1, QuotientBounds
  <2> HIDE DEF q
  <2>3. q # 0
    BY <1>1, <1>5, <2>1, <2>2
  <2>4. q - 1 \in Nat /\ R * (q - 1) = R * q - R /\ R * ((q - 1) + 1) = R * q
    BY <1>1, <2>2, <2>3
  <2>5. R * q \in Nat
    BY <1>1, <2>2
  <2>6. R * (q - 1) <= l - R /\ l - R < R * ((q - 1) + 1)
    BY <1>1, <2>1, <2>2, <2>4, <2>5
  <2>7. (l - R) \div R = q - 1
    BY <1>1, <2>1, <2>4, <2>6, QuotientUnique
  <2> QED BY <2>2, <2>3, <2>7 DEF q
<1>6. ASSUME NEW l \in 0 .. Capacity
      PROVE  (l + 1) \div R \in {l \div R, l \div R + 1}
  <2>1. l \in Nat /\ l + 1 \in Nat
    BY <1>1, <1>2
  <2> DEFINE q == l \div R
  <2>2. /\ q \in Nat /\ q + 1 \in Nat
        /\ R * q <= l /\ l < R * (q + 1)
        /\ R * (q + 1) = R * q + R /\ R * ((q + 1) + 1) = R * q + R + R
    BY <1>1, <2>1, QuotientBounds
  <2> HIDE DEF q
  <2>3. R * q \in Nat
    BY <1>1, <2>2
  <2>4. CASE l + 1 < R * (q + 1)
    <3>1. R * q <= l + 1
      BY <2>1, <2>2, <2>3
    <3>2. (l + 1) \div R = q
      BY <1>1, <2>1, <2>2, <2>4, <3>1, QuotientUnique
    <3> QED BY <3>2 DEF q
  <2>5. CASE ~(l + 1 < R * (q + 1))
    <3>1. R * (q + 1) <= l + 1 /\ l + 1 < R * ((q + 1) + 1)
      BY <1>1, <2>1, <2>2, <2>3, <2>5
    <3>2. (l + 1) \div R = q + 1
      BY <1>1, <2>1, <2>2, <3>1, QuotientUnique
    <3> QED BY <3>2 DEF q
  <2> QED BY <2>4, <2>5
<1> QED BY <1>3, <1>4, <1>5, <1>6 DEF M, R

\* The server starts with full buckets.
LEMMA InitIsFull == Init => Bucket!BucketInit
BY WholeTokens DEF Init, Bucket!BucketInit, Bucket!Full

\* Every step takes a token, brings tokens back, refills every bucket or changes none.
LEMMA StepImplementsTokenBucket ==
  ASSUME TypeOK, [Next]_vars
  PROVE  [Bucket!BucketNext]_([s \in Subjects |-> level[s] \div Refill])
<1> DEFINE old == [s \in Subjects |-> level[s] \div Refill]
           new == [s \in Subjects |-> level'[s] \div Refill]
<1>1. level \in [Subjects -> 0 .. Capacity]
  BY DEF TypeOK
<1>2. ASSUME NEW s \in Subjects, Grant(s) PROVE Bucket!Take(s)
  <2>1. /\ level[s] \div Refill > 0
        /\ (level[s] - Refill) \div Refill = level[s] \div Refill - 1
    BY <1>1, <1>2, WholeTokens DEF Grant
  <2>2. new = [old EXCEPT ![s] = @ - 1]
    BY <1>1, <1>2, <2>1 DEF Grant
  <2> QED BY <2>1, <2>2 DEF Bucket!Take
<1>3. CASE Tick
  <2>1. ASSUME NEW s \in Subjects
        PROVE  /\ new[s] \in 0 .. RATE_LIMIT_MAX_REQUESTS
               /\ new[s] \in {old[s], old[s] + 1}
    <3> DEFINE l == level[s]
    <3>1. l \in 0 .. Capacity /\ level'[s] = IF l < Capacity THEN l + 1 ELSE Capacity
      BY <1>1, <1>3 DEF Tick
    <3>2. old[s] = l \div Refill /\ new[s] = level'[s] \div Refill
      OBVIOUS
    <3> HIDE DEF l, old, new
    <3>3. CASE l < Capacity
      <4>1. l + 1 \in 0 .. Capacity
        BY <3>1, <3>3, CapacityFacts
      <4>2. /\ (l + 1) \div Refill \in 0 .. RATE_LIMIT_MAX_REQUESTS
            /\ (l + 1) \div Refill \in {l \div Refill, l \div Refill + 1}
        BY <3>1, <4>1, WholeTokens
      <4> QED BY <3>1, <3>2, <3>3, <4>2, Zenon
    <3>4. CASE ~(l < Capacity)
      <4>1. l = Capacity
        BY <3>1, <3>4, CapacityFacts
      <4>2. l \div Refill \in 0 .. RATE_LIMIT_MAX_REQUESTS
        BY <3>1, WholeTokens
      <4>3. new[s] = old[s] /\ new[s] \in 0 .. RATE_LIMIT_MAX_REQUESTS
        BY <3>1, <3>2, <3>4, <4>1, <4>2, Zenon
      <4> QED BY <4>3, Zenon
    <3> QED BY <3>3, <3>4
  <2>2. new \in [Subjects -> 0 .. RATE_LIMIT_MAX_REQUESTS]
    BY <2>1
  <2>3. Bucket!Replenish
    BY <2>1, <2>2 DEF Bucket!Replenish
  <2> QED BY <2>3 DEF Bucket!BucketNext
<1>4. CASE Restart
  <2>1. Bucket!BucketRestart
    BY <1>4, WholeTokens DEF Restart, Bucket!BucketRestart, Bucket!Full
  <2> QED BY <2>1 DEF Bucket!BucketNext
<1>5. CASE UNCHANGED vars
  BY <1>5 DEF vars
<1>6. ASSUME NEW s \in Subjects, Refuse(s) PROVE UNCHANGED vars
  BY <1>6 DEF Refuse
<1> QED BY <1>2, <1>3, <1>4, <1>5, <1>6 DEF Next, Bucket!BucketNext

\* The limiter on its clock is a token bucket, for every limit, window and resolution.
THEOREM LimitImplementsTokenBucket == Spec => ImplementsTokenBucket
<1>1. TypeOK /\ [Next]_vars => [Bucket!BucketNext]_([s \in Subjects |-> level[s] \div Refill])
  BY StepImplementsTokenBucket
<1> QED BY <1>1, InitIsFull, LimitTypeCorrect, PTL
        DEF Spec, ImplementsTokenBucket, Bucket!BucketSpec
=================================================================================
