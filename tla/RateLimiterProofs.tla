------------------------- MODULE RateLimiterProofs -------------------------
(***************************************************************************)
(* The safety properties of RateLimiter, for every number of tokens, every *)
(* window, maximum and eviction interval, and a clock that runs for any    *)
(* length of time.                                                         *)
(***************************************************************************)
EXTENDS RateLimiter, SharedLemmas

\* How the bucket b of a token stands to its last admissions a at time w: the
\* bucket is the end of the history, and what it has forgotten is no longer in
\* the window.
Matches(a, b, w) ==
  /\ a \in Seq(Times) /\ b \in Seq(Times)
  /\ Len(a) <= MAX_REQUESTS + 1 /\ Len(b) <= MAX_REQUESTS /\ Len(b) <= Len(a)
  /\ \A i \in 1..Len(a) : a[i] <= w
  /\ \A i, j \in 1..Len(a) : i <= j => a[i] <= a[j]
  /\ \A j \in 1..Len(b) : b[j] = a[Len(a) - Len(b) + j]
  /\ \A i \in 1..(Len(a) - Len(b)) : a[i] + WINDOW_SECONDS <= w
  /\ Len(a) > MAX_REQUESTS => a[MAX_REQUESTS + 1] >= a[1] + WINDOW_SECONDS

BucketOf(token) == IF token \in DOMAIN buckets THEN buckets[token] ELSE <<>>

\* No bucket was stale at the last eviction, and the last request came at most
\* one interval after it.
EvictionInv ==
  /\ last_eviction <= now
  /\ last.at <= last_eviction + _EVICTION_INTERVAL
  /\ \A k \in DOMAIN buckets : ~Stale(buckets[k], last_eviction)

\* The inductive invariant.  SlidingWindow is about the history, which the
\* limiter does not keep: it needs to be known what the buckets say about it.
Inv ==
  /\ TypeOK
  /\ \A token \in Tokens : Matches(admitted[token], BucketOf(token), now)
  /\ EvictionInv
  /\ RefusedForCause

----------------------------------------------------------------------------
(* One bucket and its history *)

LEMMA EntriesAreNumbers ==
  ASSUME NEW s \in Seq(Times), NEW i \in 1..Len(s)
  PROVE  s[i] \in Times /\ s[i] \in Nat
<1>1. s[i] \in Times
  OBVIOUS
<1> QED BY <1>1, LimiterAssumption DEF Times

\* Time passes.
LEMMA MatchLater ==
  ASSUME NEW a, NEW b, NEW w \in Nat, NEW v \in Nat, w <= v, Matches(a, b, w)
  PROVE  Matches(a, b, v)
<1>1. ASSUME NEW i \in 1..Len(a) PROVE a[i] \in Nat
  BY EntriesAreNumbers DEF Matches
<1>2. Len(a) \in Nat /\ Len(b) \in Nat
  BY DEF Matches
<1>3. \A i \in 1..Len(a) : a[i] <= v
  BY <1>1 DEF Matches
<1>4. ASSUME NEW i \in 1..(Len(a) - Len(b)) PROVE a[i] + WINDOW_SECONDS <= v
  <2>1. i \in 1..Len(a) /\ a[i] + WINDOW_SECONDS <= w
    BY <1>2 DEF Matches
  <2> QED BY <1>1, <2>1, LimiterAssumption
<1> QED BY <1>3, <1>4 DEF Matches

\* What is out of the window at w may be forgotten: only the entries from
\* k + 1 on need to be kept.
LEMMA MatchSuffix ==
  ASSUME NEW a, NEW b, NEW w \in Nat, Matches(a, b, w), NEW k \in 0..Len(b),
         NEW p \in Seq(Times), Len(p) = Len(b) - k,
         \A j \in 1..Len(p) : p[j] = b[k + j],
         \A i \in 1..k : b[i] + WINDOW_SECONDS <= w
  PROVE  Matches(a, p, w)
<1> DEFINE m == Len(a)
           n == Len(b)
           q == Len(p)
<1>1. m \in Nat /\ n \in Nat /\ q \in Nat /\ q = n - k /\ n <= m /\ k \in Nat
  BY DEF Matches
<1>2. /\ \A j \in 1..n : b[j] = a[m - n + j]
      /\ \A i \in 1..(m - n) : a[i] + WINDOW_SECONDS <= w
  BY DEF Matches
<1> HIDE DEF m, n, q
<1>3. ASSUME NEW j \in 1..q PROVE p[j] = a[m - q + j]
  <2>1. k + j \in 1..n /\ m - n + (k + j) = m - q + j
    BY <1>1
  <2>2. p[j] = b[k + j]
    BY DEF q
  <2>3. b[k + j] = a[m - n + (k + j)]
    BY <1>2, <2>1
  <2> QED BY <2>1, <2>2, <2>3
<1>4. ASSUME NEW i \in 1..(m - q) PROVE a[i] + WINDOW_SECONDS <= w
  <2>1. CASE i <= m - n
    BY <1>1, <1>2, <2>1
  <2>2. CASE ~(i <= m - n)
    <3>1. i - (m - n) \in 1..k /\ i - (m - n) \in 1..n /\ m - n + (i - (m - n)) = i
      BY <1>1, <2>2
    <3>2. b[i - (m - n)] = a[m - n + (i - (m - n))]
      BY <1>2, <3>1
    <3>3. b[i - (m - n)] + WINDOW_SECONDS <= w
      BY <3>1
    <3> QED BY <3>1, <3>2, <3>3
  <2> QED BY <2>1, <2>2
<1>5. q <= m /\ (n <= MAX_REQUESTS => q <= MAX_REQUESTS)
  BY <1>1, LimiterAssumption
<1> QED BY <1>3, <1>4, <1>5 DEF Matches, m, n, q

\* The entries of a bucket are in order.
LEMMA BucketSorted ==
  ASSUME NEW a, NEW b, NEW w, Matches(a, b, w)
  PROVE  \A i, j \in 1..Len(b) : i <= j => b[i] <= b[j]
<1> DEFINE m == Len(a)
           n == Len(b)
<1>1. m \in Nat /\ n \in Nat /\ n <= m
  BY DEF Matches
<1>2. /\ \A j \in 1..n : b[j] = a[m - n + j]
      /\ \A i, j \in 1..m : i <= j => a[i] <= a[j]
  BY DEF Matches
<1> HIDE DEF m, n
<1>3. ASSUME NEW i \in 1..n, NEW j \in 1..n, i <= j PROVE b[i] <= b[j]
  <2>1. m - n + i \in 1..m /\ m - n + j \in 1..m /\ m - n + i <= m - n + j
    BY <1>1, <1>3
  <2> QED BY <1>2, <2>1
<1> QED BY <1>3 DEF n

\* A stale bucket may be deleted.
LEMMA MatchEvicted ==
  ASSUME NEW a, NEW b, NEW w \in Nat, Matches(a, b, w), Stale(b, w)
  PROVE  Matches(a, <<>>, w)
<1>0. b \in Seq(Times) /\ Len(b) \in Nat
  BY DEF Matches
<1>1. ASSUME NEW i \in 1..Len(b) PROVE b[i] + WINDOW_SECONDS <= w
  <2>1. b # <<>> /\ Len(b) \in 1..Len(b)
    BY <1>0
  <2>2. b[i] <= b[Len(b)]
    BY <2>1, BucketSorted
  <2>3. b[Len(b)] + WINDOW_SECONDS <= w
    BY <2>1 DEF Stale
  <2>4. b[i] \in Nat /\ b[Len(b)] \in Nat
    BY <1>0, <2>1, EntriesAreNumbers
  <2> QED BY <2>2, <2>3, <2>4, LimiterAssumption
<1>2. Len(b) \in 0..Len(b) /\ <<>> \in Seq(Times) /\ Len(<<>>) = Len(b) - Len(b)
  BY <1>0
<1>3. \A j \in 1..Len(<<>>) : <<>>[j] = b[Len(b) + j]
  OBVIOUS
<1> QED BY <1>1, <1>2, <1>3, MatchSuffix

\* What the comprehension of _allow computes from a bucket: its entries from
\* some position on, which are those in the window.
LEMMA FilteredIsSuffix ==
  ASSUME NEW n \in Nat, NEW b \in [1..n -> Nat], NEW t \in Nat,
         \A i, j \in 1..n : i <= j => b[i] <= b[j]
  PROVE  \E k \in 0..n :
           /\ \A i \in 1..k : ~InWindow(b[i], t)
           /\ \A i \in (k + 1)..n : InWindow(b[i], t)
           /\ Filtered(b, t) = [j \in 1..(n - k) |-> b[k + j]]
<1> DEFINE left == {i \in 1..n : InWindow(b[i], t)}
           nth(j) == CHOOSE i \in left : Cardinality({x \in left : x <= i}) = j
<1>1. Filtered(b, t) = [j \in 1..Cardinality(left) |-> b[nth(j)]]
  BY DEF Filtered
<1>2. PICK k \in 0..n : left = (k + 1)..n
  <2>1. CASE left = {}
    <3>1. n \in 0..n /\ (n + 1)..n = {}
      OBVIOUS
    <3> QED BY <2>1, <3>1
  <2>2. CASE left # {}
    <3>1. left \in SUBSET Nat
      OBVIOUS
    <3>2. PICK m \in left : \A x \in left : m <= x
      <4> HIDE DEF left
      <4> QED BY <2>2, <3>1, LeastNumber
    <3>3. m \in 1..n /\ m - 1 \in 0..n /\ (m - 1) + 1 = m /\ InWindow(b[m], t)
      BY <3>2
    <3>4. ASSUME NEW i \in m..n PROVE i \in left
      <4>1. i \in 1..n /\ b[m] <= b[i] /\ b[m] \in Nat /\ b[i] \in Nat
        BY <3>3
      <4> QED BY <3>3, <4>1, LimiterAssumption DEF InWindow
    <3>5. ASSUME NEW i \in left PROVE i \in m..n
      BY <3>2, <3>3, <3>5
    <3>6. left = m..n
      BY <3>4, <3>5
    <3> QED BY <3>3, <3>6
  <2> QED BY <2>1, <2>2
<1>3. (\A i \in 1..k : ~InWindow(b[i], t)) /\ \A i \in (k + 1)..n : InWindow(b[i], t)
  <2>1. ASSUME NEW i \in 1..k PROVE ~InWindow(b[i], t)
    <3>1. i \in 1..n /\ i \notin left
      BY <1>2
    <3> QED BY <3>1
  <2>2. ASSUME NEW i \in (k + 1)..n PROVE InWindow(b[i], t)
    BY <1>2
  <2> QED BY <2>1, <2>2
<1> HIDE DEF left
<1>4. Cardinality(left) = n - k
  <2>1. k + 1 \in Int /\ n \in Int
    BY <1>2
  <2>2. Cardinality((k + 1)..n) = IF k + 1 > n THEN 0 ELSE n - (k + 1) + 1
    BY <2>1, FS_Interval
  <2>3. (IF k + 1 > n THEN 0 ELSE n - (k + 1) + 1) = n - k
    OBVIOUS
  <2> QED BY <1>2, <2>2, <2>3
<1>5. ASSUME NEW j \in 1..(n - k) PROVE nth(j) = k + j
  <2>1. ASSUME NEW i \in left PROVE Cardinality({x \in left : x <= i}) = i - k
    <3>1. {x \in left : x <= i} = (k + 1)..i
      BY <1>2
    <3>2. Cardinality((k + 1)..i) = i - k
      BY <1>2, FS_Interval
    <3> QED BY <3>1, <3>2
  <2>2. k + j \in left /\ (k + j) - k = j
    BY <1>2
  <2>3. nth(j) \in left /\ Cardinality({x \in left : x <= nth(j)}) = j
    BY <2>1, <2>2
  <2> HIDE DEF nth
  <2>4. nth(j) - k = j
    BY <2>1, <2>3
  <2> QED BY <1>2, <2>3, <2>4
<1>6. Filtered(b, t) = [j \in 1..(n - k) |-> b[k + j]]
  <2> HIDE DEF nth
  <2> QED BY <1>1, <1>4, <1>5
<1> QED BY <1>3, <1>6

\* Pruning forgets only what is out of the window, and keeps the newest entry if
\* it keeps any.
LEMMA MatchPruned ==
  ASSUME NEW a, NEW b, NEW t \in Nat, Matches(a, b, t)
  PROVE  LET p == Filtered(b, t) IN
         /\ Matches(a, p, t)
         /\ \A i \in 1..Len(p) : InWindow(p[i], t)
         /\ p # <<>> => b # <<>> /\ p[Len(p)] = b[Len(b)]
<1> DEFINE n == Len(b)
           p == Filtered(b, t)
<1>1. b \in Seq(Times) /\ n \in Nat /\ b \in [1..n -> Nat]
  BY EntriesAreNumbers DEF Matches
<1>2. \A i, j \in 1..n : i <= j => b[i] <= b[j]
  BY BucketSorted
<1> HIDE DEF n
<1>3. PICK k \in 0..n : /\ \A i \in 1..k : ~InWindow(b[i], t)
                        /\ \A i \in (k + 1)..n : InWindow(b[i], t)
                        /\ p = [j \in 1..(n - k) |-> b[k + j]]
  BY <1>1, <1>2, FilteredIsSuffix
<1>4. n - k \in Nat /\ \A j \in 1..(n - k) : k + j \in (k + 1)..n /\ k + j \in 1..n
  BY <1>1
<1>5. \A j \in 1..(n - k) : b[k + j] \in Times
  BY <1>1, <1>4 DEF n
<1>6. p \in Seq(Times) /\ Len(p) = n - k /\ \A j \in 1..Len(p) : p[j] = b[k + j]
  <2> HIDE DEF p
  <2> QED BY <1>3, <1>4, <1>5
<1> HIDE DEF p
<1>7. \A i \in 1..k : b[i] + WINDOW_SECONDS <= t
  <2> SUFFICES ASSUME NEW i \in 1..k PROVE b[i] + WINDOW_SECONDS <= t
    OBVIOUS
  <2>1. b[i] \in Nat /\ ~InWindow(b[i], t)
    BY <1>1, <1>3
  <2> QED BY <2>1, LimiterAssumption DEF InWindow
<1>8. Matches(a, p, t)
  BY <1>3, <1>6, <1>7, MatchSuffix DEF n
<1>9. \A i \in 1..Len(p) : InWindow(p[i], t)
  BY <1>3, <1>4, <1>6
<1>10. ASSUME p # <<>> PROVE b # <<>> /\ p[Len(p)] = b[Len(b)]
  <2>1. Len(p) # 0
    BY <1>6, <1>10
  <2>2. Len(p) \in 1..Len(p) /\ k + Len(p) = n /\ n # 0
    BY <1>1, <1>4, <1>6, <2>1
  <2>3. p[Len(p)] = b[n]
    BY <1>6, <2>2
  <2>4. b # <<>>
    BY <2>2 DEF n
  <2> QED BY <2>3, <2>4 DEF n
<1> QED BY <1>8, <1>9, <1>10 DEF p

\* An admission enters the history and the bucket.  Where the history is full
\* its first entry goes, and the one that is first then is out of the window.
LEMMA MatchAdmitted ==
  ASSUME NEW a, NEW b, NEW t \in Times, Matches(a, b, t), ~Full(b)
  PROVE  /\ Matches(Recent(Append(a, t)), Append(b, t), t)
         /\ Append(b, t) # <<>> /\ Append(b, t)[Len(Append(b, t))] = t
<1> DEFINE m == Len(a)
           n == Len(b)
           c == Append(a, t)
           d == Append(b, t)
           e == Recent(c)
           z == Len(e)
<1>0. a \in Seq(Times) /\ b \in Seq(Times) /\ t \in Nat
  BY LimiterAssumption DEF Matches, Times
<1>1. /\ m \in Nat /\ n \in Nat /\ n <= m /\ n < MAX_REQUESTS /\ m <= MAX_REQUESTS + 1
      /\ MAX_REQUESTS \in Nat /\ WINDOW_SECONDS \in Nat
  BY <1>0, LimiterAssumption DEF Matches, Full
<1>2. /\ d \in Seq(Times) /\ Len(d) = n + 1 /\ d # <<>> /\ d[n + 1] = t
      /\ \A j \in 1..n : d[j] = b[j]
  BY <1>0, AppendProperties
<1>3. /\ c \in Seq(Times) /\ Len(c) = m + 1 /\ c # <<>> /\ c[m + 1] = t
      /\ \A j \in 1..m : c[j] = a[j]
  BY <1>0, AppendProperties
<1>4. /\ \A i \in 1..m : a[i] <= t /\ a[i] \in Nat
      /\ \A i, j \in 1..m : i <= j => a[i] <= a[j]
      /\ \A j \in 1..n : b[j] = a[m - n + j]
      /\ \A i \in 1..(m - n) : a[i] + WINDOW_SECONDS <= t
  BY EntriesAreNumbers DEF Matches
<1> HIDE DEF c, d, m, n
<1>5. /\ \A i \in 1..(m + 1) : c[i] <= t
      /\ \A i, j \in 1..(m + 1) : i <= j => c[i] <= c[j]
  <2>1. ASSUME NEW i \in 1..(m + 1) PROVE i \in 1..m \/ i = m + 1
    BY <1>1
  <2>2. \A i \in 1..(m + 1) : c[i] <= t
    BY <1>0, <1>3, <1>4, <2>1
  <2>3. ASSUME NEW i \in 1..(m + 1), NEW j \in 1..(m + 1), i <= j PROVE c[i] <= c[j]
    <3>1. CASE j = m + 1
      BY <1>3, <2>2, <3>1
    <3>2. CASE j \in 1..m
      <4>1. i \in 1..m
        BY <1>1, <2>3, <3>2
      <4> QED BY <1>3, <1>4, <2>3, <3>2, <4>1
    <3> QED BY <2>1, <3>1, <3>2
  <2> QED BY <2>2, <2>3
<1>6. PICK s \in {0, 1} : /\ e \in Seq(Times) /\ z = m + 1 - s
                          /\ \A i \in 1..z : e[i] = c[i + s]
                          /\ s = 1 <=> m > MAX_REQUESTS
  <2>1. CASE m > MAX_REQUESTS
    <3>1. e = Tail(c)
      BY <1>1, <1>3, <2>1 DEF Recent
    <3>2. Tail(c) \in Seq(Times) /\ Len(Tail(c)) = m
          /\ \A i \in 1..m : Tail(c)[i] = c[i + 1]
      BY <1>1, <1>3, HeadTailProperties
    <3> QED BY <1>1, <2>1, <3>1, <3>2
  <2>2. CASE ~(m > MAX_REQUESTS)
    <3>1. e = c
      BY <1>1, <1>3, <2>2 DEF Recent
    <3> QED BY <1>1, <1>3, <2>2, <3>1
  <2> QED BY <2>1, <2>2
<1> HIDE DEF e, z
<1>7. z \in Nat /\ z <= MAX_REQUESTS + 1 /\ n + 1 <= z /\ n + 1 <= MAX_REQUESTS
  BY <1>1, <1>6
<1>8. \A i \in 1..z : e[i] <= t
  BY <1>1, <1>5, <1>6
<1>9. ASSUME NEW i \in 1..z, NEW j \in 1..z, i <= j PROVE e[i] <= e[j]
  <2>1. i + s \in 1..(m + 1) /\ j + s \in 1..(m + 1) /\ i + s <= j + s
    BY <1>1, <1>6, <1>7, <1>9
  <2> QED BY <1>5, <1>6, <2>1
<1>10. ASSUME NEW j \in 1..(n + 1) PROVE d[j] = e[z - (n + 1) + j]
  <2>1. z - (n + 1) + j \in 1..z /\ z - (n + 1) + j + s = m - n + j
    BY <1>1, <1>6, <1>7
  <2>2. e[z - (n + 1) + j] = c[m - n + j]
    BY <1>6, <2>1
  <2>3. CASE j = n + 1
    BY <1>1, <1>2, <1>3, <2>2, <2>3
  <2>4. CASE j # n + 1
    <3>1. j \in 1..n /\ m - n + j \in 1..m
      BY <1>1, <2>4
    <3> QED BY <1>2, <1>3, <1>4, <2>2, <3>1
  <2> QED BY <2>3, <2>4
<1>11. ASSUME NEW i \in 1..(z - (n + 1)) PROVE e[i] + WINDOW_SECONDS <= t
  <2>1. i \in 1..z /\ i + s \in 1..(m - n) /\ i + s \in 1..m
    BY <1>1, <1>6, <1>7
  <2> QED BY <1>3, <1>4, <1>6, <2>1
<1>12. ASSUME z > MAX_REQUESTS PROVE e[MAX_REQUESTS + 1] >= e[1] + WINDOW_SECONDS
  <2>1. z = MAX_REQUESTS + 1 /\ 1 \in 1..(z - (n + 1)) /\ z \in 1..z
    BY <1>1, <1>7, <1>12
  <2>2. e[z] = t
    BY <1>1, <1>3, <1>6, <2>1
  <2>3. e[1] + WINDOW_SECONDS <= t
    BY <1>11, <2>1
  <2>4. e[1] \in Nat
    <3>1. e \in Seq(Times) /\ 1 \in 1..Len(e)
      BY <1>6, <1>7, <2>1 DEF z
    <3> QED BY <3>1, EntriesAreNumbers
  <2> QED BY <1>0, <1>1, <2>1, <2>2, <2>3, <2>4
<1>13. Matches(e, d, t)
  BY <1>2, <1>6, <1>7, <1>8, <1>9, <1>10, <1>11, <1>12 DEF Matches, z
<1> QED BY <1>2, <1>13 DEF c, d, e

\* A full bucket without old entries is a cause to refuse.
LEMMA FullIsCause ==
  ASSUME NEW a, NEW p, NEW t \in Nat, Matches(a, p, t), Full(p),
         \A i \in 1..Len(p) : InWindow(p[i], t)
  PROVE  Cardinality({i \in DOMAIN a : a[i] + WINDOW_SECONDS > t}) >= MAX_REQUESTS
<1> DEFINE m == Len(a)
           S == {i \in DOMAIN a : a[i] + WINDOW_SECONDS > t}
           T == (m - MAX_REQUESTS + 1)..m
<1>1. /\ m \in Nat /\ MAX_REQUESTS \in Nat /\ Len(p) = MAX_REQUESTS /\ Len(p) <= m
      /\ DOMAIN a = 1..m
      /\ \A j \in 1..Len(p) : p[j] = a[m - Len(p) + j]
  BY LimiterAssumption DEF Matches, Full
<1> HIDE DEF m
<1>2. T \subseteq S
  <2> SUFFICES ASSUME NEW i \in T PROVE i \in S
    OBVIOUS
  <2>1. i \in 1..m /\ i - (m - MAX_REQUESTS) \in 1..Len(p)
        /\ m - Len(p) + (i - (m - MAX_REQUESTS)) = i
    BY <1>1
  <2>2. InWindow(a[i], t)
    BY <1>1, <2>1
  <2> QED BY <1>1, <2>1, <2>2 DEF InWindow
<1>3. IsFiniteSet(1..m) /\ S \subseteq 1..m
  BY <1>1, FS_Interval
<1> HIDE DEF S
<1>4. IsFiniteSet(S) /\ Cardinality(S) \in Nat
  BY <1>3, FS_Subset, FS_CardinalityType
<1>5. Cardinality(T) = MAX_REQUESTS
  <2>1. m - MAX_REQUESTS + 1 \in Int /\ m \in Int
    BY <1>1
  <2>2. Cardinality(T) = IF m - MAX_REQUESTS + 1 > m THEN 0 ELSE m - (m - MAX_REQUESTS + 1) + 1
    BY <2>1, FS_Interval
  <2> QED BY <1>1, <2>2, LimiterAssumption
<1> HIDE DEF T
<1>6. Cardinality(T) <= Cardinality(S)
  BY <1>2, <1>4, FS_Subset
<1> QED BY <1>1, <1>4, <1>5, <1>6 DEF S

----------------------------------------------------------------------------
(* Invariance *)

\* The bucket of a token among those that an eviction left.
KeptOf(kept, token) == IF token \in DOMAIN kept THEN kept[token] ELSE <<>>

LEMMA Evicted ==
  ASSUME Inv
  PROVE  LET kept == _maybe_evict(now)
             le == EvictionTime(now)
         IN  /\ DOMAIN kept \subseteq DOMAIN buckets
             /\ \A k \in DOMAIN kept : kept[k] = buckets[k] /\ ~Stale(kept[k], le)
             /\ \A token \in Tokens : Matches(admitted[token], KeptOf(kept, token), now)
             /\ le \in Times /\ le <= now /\ now + 1 <= le + _EVICTION_INTERVAL
<1> DEFINE kept == _maybe_evict(now)
           le == EvictionTime(now)
<1>0. /\ TypeOK /\ EvictionInv /\ now \in Nat /\ last_eviction \in Nat
      /\ _EVICTION_INTERVAL \in Nat \ {0}
      /\ \A token \in Tokens : Matches(admitted[token], BucketOf(token), now)
  BY LimiterAssumption DEF Inv, TypeOK, Times
<1>1. CASE now - last_eviction < _EVICTION_INTERVAL
  <2>1. kept = buckets /\ le = last_eviction
    BY <1>1 DEF _maybe_evict, EvictionTime
  <2> HIDE DEF kept, le
  <2>2. \A token \in Tokens : Matches(admitted[token], KeptOf(kept, token), now)
    BY <1>0, <2>1 DEF KeptOf, BucketOf
  <2>3. le \in Times /\ le <= now /\ now + 1 <= le + _EVICTION_INTERVAL
    BY <1>0, <1>1, <2>1 DEF TypeOK, EvictionInv
  <2>4. \A k \in DOMAIN kept : kept[k] = buckets[k] /\ ~Stale(kept[k], le)
    BY <1>0, <2>1 DEF EvictionInv
  <2> QED BY <2>1, <2>2, <2>3, <2>4 DEF kept, le
<1>2. CASE ~(now - last_eviction < _EVICTION_INTERVAL)
  <2>1. /\ le = now
        /\ kept = [k \in {k \in DOMAIN buckets : ~Stale(buckets[k], now)} |-> buckets[k]]
    BY <1>2 DEF _maybe_evict, EvictionTime, Restrict
  <2> HIDE DEF kept, le
  <2>2. /\ DOMAIN kept = {k \in DOMAIN buckets : ~Stale(buckets[k], now)}
        /\ \A k \in DOMAIN kept : kept[k] = buckets[k] /\ ~Stale(kept[k], now)
    BY <2>1
  <2>3. ASSUME NEW token \in Tokens PROVE Matches(admitted[token], KeptOf(kept, token), now)
    <3>0. Matches(admitted[token], BucketOf(token), now)
      BY <1>0
    <3>1. CASE token \in DOMAIN kept \/ token \notin DOMAIN buckets
      BY <2>2, <3>0, <3>1 DEF KeptOf, BucketOf
    <3>2. CASE token \notin DOMAIN kept /\ token \in DOMAIN buckets
      <4>1. Stale(BucketOf(token), now) /\ KeptOf(kept, token) = <<>>
        BY <2>2, <3>2 DEF KeptOf, BucketOf
      <4> QED BY <1>0, <3>0, <4>1, MatchEvicted
    <3> QED BY <3>1, <3>2
  <2>4. le \in Times /\ le <= now /\ now + 1 <= le + _EVICTION_INTERVAL
    BY <1>0, <2>1 DEF TypeOK
  <2> QED BY <2>1, <2>2, <2>3, <2>4 DEF kept, le
<1> QED BY <1>1, <1>2

\* A request of a token, refused or admitted.
LEMMA DispatchStep ==
  ASSUME Inv, NEW token \in Tokens, NEW t \in {now, now + 1} \cap Times, Dispatch(token, t)
  PROVE  Inv'
<1> DEFINE kept == _maybe_evict(now)
           le == EvictionTime(now)
           b == KeptOf(kept, token)
           p == Filtered(b, t)
<1>0. TypeOK /\ now \in Nat /\ t \in Nat /\ now <= t /\ t <= now + 1 /\ t \in Times
  BY LimiterAssumption DEF Inv, TypeOK, Times
<1>1. /\ DOMAIN kept \subseteq DOMAIN buckets
      /\ \A k \in DOMAIN kept : kept[k] = buckets[k] /\ ~Stale(kept[k], le)
      /\ \A k \in Tokens : Matches(admitted[k], KeptOf(kept, k), now)
      /\ le \in Times /\ le <= now /\ now + 1 <= le + _EVICTION_INTERVAL
  BY Evicted
<1>2. /\ now' = t /\ last_eviction' = le
      /\ \/ /\ Full(p) /\ buckets' = SetBucket(kept, token, p) /\ UNCHANGED admitted
            /\ last' = [token |-> token, at |-> t, status |-> "limited"]
         \/ /\ ~Full(p) /\ buckets' = SetBucket(kept, token, Append(p, t))
            /\ last' = [token |-> NoToken, at |-> t, status |-> "passed"]
            /\ admitted' = [admitted EXCEPT ![token] = Recent(Append(@, t))]
  BY DEF Dispatch, Pruned, KeptOf
<1> HIDE DEF kept, le
<1>3. \A k \in Tokens : Matches(admitted[k], KeptOf(kept, k), t)
  BY <1>0, <1>1, MatchLater
<1>4. /\ Matches(admitted[token], p, t)
      /\ \A i \in 1..Len(p) : InWindow(p[i], t)
      /\ p # <<>> => b # <<>> /\ p[Len(p)] = b[Len(b)]
  <2> HIDE DEF b
  <2>1. Matches(admitted[token], b, t)
    BY <1>3 DEF b
  <2> QED BY <1>0, <2>1, MatchPruned
<1> HIDE DEF b, p
\* Whatever becomes of the request, its token has a bucket q then that is not
\* stale, and every other bucket is what the eviction left.
<1>5. PICK q : /\ buckets' = SetBucket(kept, token, q)
              /\ Matches(admitted'[token], q, t)
              /\ ~Stale(q, le)
  <2>1. CASE Full(p)
    <3>1. buckets' = SetBucket(kept, token, p) /\ admitted' = admitted
      BY <1>2, <2>1
    <3>2. p # <<>>
      <4>1. Len(p) # 0
        BY <2>1, LimiterAssumption DEF Full
      <4> QED BY <4>1
    <3>3. b # <<>> /\ p[Len(p)] = b[Len(b)]
      BY <1>4, <3>2
    <3>4. ~Stale(b, le)
      BY <1>1, <3>3 DEF b, KeptOf
    <3>5. ~Stale(p, le)
      BY <3>2, <3>3, <3>4 DEF Stale
    <3> QED BY <1>4, <3>1, <3>5
  <2>2. CASE ~Full(p)
    <3>1. /\ Matches(Recent(Append(admitted[token], t)), Append(p, t), t)
          /\ Append(p, t) # <<>> /\ Append(p, t)[Len(Append(p, t))] = t
      BY <1>0, <1>4, <2>2, MatchAdmitted
    <3>2. /\ buckets' = SetBucket(kept, token, Append(p, t))
          /\ admitted'[token] = Recent(Append(admitted[token], t))
      BY <1>0, <1>2, <2>2 DEF TypeOK
    <3>3. le \in Nat
      BY <1>1, LimiterAssumption DEF Times
    <3>4. ~(t + WINDOW_SECONDS <= le)
      BY <1>0, <1>1, <3>3, LimiterAssumption
    <3>5. ~Stale(Append(p, t), le)
      BY <3>1, <3>4 DEF Stale
    <3> QED BY <3>1, <3>2, <3>5
  <2> QED BY <2>1, <2>2
<1>6. /\ DOMAIN buckets' = DOMAIN kept \cup {token}
      /\ \A k \in DOMAIN buckets' : buckets'[k] = IF k = token THEN q ELSE kept[k]
  BY <1>5 DEF SetBucket
<1>7. ASSUME NEW k \in Tokens PROVE Matches(admitted'[k], BucketOf(k)', now')
  <2>1. CASE k = token
    BY <1>2, <1>5, <1>6, <2>1 DEF BucketOf
  <2>2. CASE k # token
    <3>1. admitted'[k] = admitted[k]
      BY <1>0, <1>2, <2>2 DEF TypeOK
    <3>2. BucketOf(k)' = KeptOf(kept, k)
      BY <1>6, <2>2 DEF BucketOf, KeptOf
    <3> QED BY <1>2, <1>3, <3>1, <3>2
  <2> QED BY <2>1, <2>2
<1>8. \A k \in DOMAIN buckets' : ~Stale(buckets'[k], le)
  BY <1>1, <1>5, <1>6
<1>9. /\ last'.at = t /\ last'.status \in {"limited", "passed"}
      /\ last' \in [token : Tokens \cup {NoToken}, at : Times, status : {"passed", "limited"}]
  BY <1>0, <1>2
<1>10. EvictionInv'
  <2>1. le \in Nat
    BY <1>1, LimiterAssumption DEF Times
  <2>2. le <= t /\ t <= le + _EVICTION_INTERVAL
    BY <1>0, <1>1, <2>1, LimiterAssumption
  <2> QED BY <1>2, <1>8, <1>9, <2>2 DEF EvictionInv
<1>11. TypeOK'
  <2>1. DOMAIN buckets' \subseteq Tokens
    BY <1>0, <1>1, <1>6 DEF TypeOK
  <2>2. ASSUME NEW k \in DOMAIN buckets' PROVE buckets'[k] \in Seq(Times) /\ buckets'[k] # <<>>
    <3>1. Matches(admitted'[k], buckets'[k], now')
      BY <1>7, <2>1 DEF BucketOf
    <3>2. ~Stale(buckets'[k], le)
      BY <1>8
    <3> QED BY <3>1, <3>2 DEF Matches, Stale
  <2>3. admitted' \in [Tokens -> Seq(Times)]
    <3>1. \A k \in Tokens : admitted'[k] \in Seq(Times)
      BY <1>7 DEF Matches
    <3>2. admitted' = [k \in Tokens |-> admitted'[k]]
      BY <1>0, <1>2 DEF TypeOK
    <3> QED BY <3>1, <3>2, Zenon
  <2> QED BY <1>0, <1>1, <1>2, <1>9, <2>1, <2>2, <2>3 DEF TypeOK
<1>12. RefusedForCause'
  <2>1. CASE Full(p)
    <3>1. Cardinality({i \in DOMAIN admitted[token] :
                        admitted[token][i] + WINDOW_SECONDS > t}) >= MAX_REQUESTS
      BY <1>0, <1>4, <2>1, FullIsCause
    <3>2. admitted' = admitted /\ last'.token = token /\ last'.at = t
      BY <1>2, <2>1
    <3> QED BY <3>1, <3>2 DEF RefusedForCause
  <2>2. CASE ~Full(p)
    BY <1>2, <2>2 DEF RefusedForCause
  <2> QED BY <2>1, <2>2
<1> QED BY <1>7, <1>10, <1>11, <1>12 DEF Inv

\* A request without a token: only the eviction.
LEMMA AnonymousStep == ASSUME Inv, DispatchAnonymous PROVE Inv'
<1> DEFINE kept == _maybe_evict(now)
           le == EvictionTime(now)
<1>0. TypeOK /\ now \in Nat
  BY LimiterAssumption DEF Inv, TypeOK, Times
<1>1. /\ DOMAIN kept \subseteq DOMAIN buckets
      /\ \A k \in DOMAIN kept : kept[k] = buckets[k] /\ ~Stale(kept[k], le)
      /\ \A k \in Tokens : Matches(admitted[k], KeptOf(kept, k), now)
      /\ le \in Times /\ le <= now /\ now + 1 <= le + _EVICTION_INTERVAL
  BY Evicted
<1>2. /\ buckets' = kept /\ last_eviction' = le /\ now' = now /\ admitted' = admitted
      /\ last' = [token |-> NoToken, at |-> now, status |-> "passed"]
  BY DEF DispatchAnonymous
<1> HIDE DEF kept, le
<1>3. \A k \in Tokens : Matches(admitted'[k], BucketOf(k)', now')
  BY <1>1, <1>2 DEF BucketOf, KeptOf
<1>4. EvictionInv'
  <2>1. le \in Nat
    BY <1>1, LimiterAssumption DEF Times
  <2>2. now <= le + _EVICTION_INTERVAL
    BY <1>0, <1>1, <2>1, LimiterAssumption
  <2> QED BY <1>1, <1>2, <2>2 DEF EvictionInv
<1>5. TypeOK'
  BY <1>0, <1>1, <1>2 DEF TypeOK
<1>6. RefusedForCause'
  BY <1>2 DEF RefusedForCause
<1> QED BY <1>3, <1>4, <1>5, <1>6 DEF Inv

LEMMA InitInv == Init => Inv
<1> SUFFICES ASSUME Init PROVE Inv
  OBVIOUS
<1>1. buckets = <<>> /\ DOMAIN buckets = {} /\ now = 0 /\ 0 \in Times
  BY LimiterAssumption DEF Init, Times
<1>2. TypeOK
  BY <1>1 DEF Init, TypeOK
<1>3. ASSUME NEW token \in Tokens PROVE Matches(admitted[token], BucketOf(token), now)
  <2>1. admitted[token] = <<>> /\ BucketOf(token) = <<>>
    BY <1>1 DEF Init, BucketOf
  <2>2. Matches(<<>>, <<>>, 0)
    BY LimiterAssumption DEF Matches
  <2> QED BY <1>1, <2>1, <2>2
<1>4. EvictionInv
  BY <1>1, LimiterAssumption DEF Init, EvictionInv
<1>5. RefusedForCause
  BY DEF Init, RefusedForCause
<1> QED BY <1>2, <1>3, <1>4, <1>5 DEF Inv

LEMMA StepInv == Inv /\ [Next]_vars => Inv'
<1> SUFFICES ASSUME Inv, [Next]_vars PROVE Inv'
  OBVIOUS
<1>1. ASSUME NEW token \in Tokens, NEW t \in {now, now + 1} \cap Times, Dispatch(token, t)
      PROVE  Inv'
  BY <1>1, DispatchStep
<1>2. CASE DispatchAnonymous
  BY <1>2, AnonymousStep
<1>3. CASE Tick
  <2>1. /\ now \in Nat /\ now' \in Nat /\ now <= now' /\ now' \in Times
        /\ UNCHANGED <<buckets, last_eviction, admitted, last>>
    BY <1>3, LimiterAssumption DEF Inv, TypeOK, Tick, Times
  <2>2. ASSUME NEW token \in Tokens PROVE Matches(admitted'[token], BucketOf(token)', now')
    <3>1. Matches(admitted[token], BucketOf(token), now)
      BY DEF Inv
    <3>2. Matches(admitted[token], BucketOf(token), now')
      BY <2>1, <3>1, MatchLater
    <3> QED BY <2>1, <3>2 DEF BucketOf
  <2>3. TypeOK'
    BY <2>1 DEF Inv, TypeOK
  <2>4. EvictionInv'
    <3>1. last_eviction \in Nat
      BY LimiterAssumption DEF Inv, TypeOK, Times
    <3> QED BY <2>1, <3>1 DEF Inv, EvictionInv
  <2>5. RefusedForCause'
    BY <2>1 DEF Inv, RefusedForCause
  <2> QED BY <2>2, <2>3, <2>4, <2>5 DEF Inv
<1>4. CASE UNCHANGED vars
  BY <1>4 DEF vars, Inv, TypeOK, BucketOf, EvictionInv, RefusedForCause
<1> QED BY <1>1, <1>2, <1>3, <1>4 DEF Next

LEMMA Invariance == Spec => []Inv
BY InitInv, StepInv, PTL DEF Spec

\* Buckets hold times and are never empty, and only tokens have one.
THEOREM LimiterTypeCorrect == Spec => []TypeOK
<1>1. Inv => TypeOK
  BY DEF Inv
<1> QED BY <1>1, Invariance, PTL

\* In no window, wherever it begins, are more than MAX_REQUESTS requests of a
\* token admitted.
THEOREM WindowKept == Spec => []SlidingWindow
<1>1. Inv => SlidingWindow
  BY DEF Inv, Matches, SlidingWindow
<1> QED BY <1>1, Invariance, PTL

\* A refused request comes after MAX_REQUESTS admissions of its own token within
\* the window that ends with it.
THEOREM RefusalsJustified == Spec => []RefusedForCause
<1>1. Inv => RefusedForCause
  BY DEF Inv
<1> QED BY <1>1, Invariance, PTL

\* Only tokens admitted within the last window and eviction interval have a
\* bucket when a request has been dispatched.
THEOREM MemoryBounded == Spec => []NoStaleBuckets
<1>1. Inv => NoStaleBuckets
  <2> SUFFICES ASSUME Inv, NEW token \in DOMAIN buckets
               PROVE  /\ admitted[token] # <<>>
                      /\ last.at < admitted[token][Len(admitted[token])]
                                     + WINDOW_SECONDS + _EVICTION_INTERVAL
    BY DEF NoStaleBuckets
  <2> DEFINE a == admitted[token]
             b == buckets[token]
  <2>1. /\ token \in Tokens /\ b \in Seq(Times) /\ b # <<>>
        /\ last_eviction \in Nat /\ last.at \in Nat
    BY LimiterAssumption DEF Inv, TypeOK, Times
  <2>2. Matches(a, b, now)
    BY <2>1 DEF Inv, BucketOf
  <2>3. last.at <= last_eviction + _EVICTION_INTERVAL /\ ~Stale(b, last_eviction)
    BY DEF Inv, EvictionInv
  <2> HIDE DEF a, b
  <2>4. Len(b) \in Nat /\ Len(b) # 0 /\ Len(a) \in Nat /\ a \in Seq(Times) /\ Len(b) <= Len(a)
    BY <2>1, <2>2 DEF Matches
  <2>5. b[Len(b)] = a[Len(a)]
    <3>1. Len(b) \in 1..Len(b) /\ Len(a) - Len(b) + Len(b) = Len(a)
      BY <2>4
    <3> QED BY <2>2, <3>1 DEF Matches
  <2>6. a # <<>> /\ a[Len(a)] \in Nat
    <3>1. Len(a) # 0 /\ Len(a) \in 1..Len(a)
      BY <2>4
    <3> QED BY <2>4, <3>1, EntriesAreNumbers
  <2>7. ~(a[Len(a)] + WINDOW_SECONDS <= last_eviction)
    BY <2>3, <2>5 DEF Stale
  <2>8. last.at < a[Len(a)] + WINDOW_SECONDS + _EVICTION_INTERVAL
    BY <2>1, <2>3, <2>6, <2>7, LimiterAssumption
  <2> QED BY <2>6, <2>8 DEF a
<1> QED BY <1>1, Invariance, PTL
=============================================================================
