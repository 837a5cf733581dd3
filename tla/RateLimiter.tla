---------------------------- MODULE RateLimiter ----------------------------
(***************************************************************************)
(* RateLimitMiddleware (api/ratelimit.py): a sliding window of admission   *)
(* times per token, held in the memory of one API process.                 *)
(*                                                                         *)
(* dispatch evicts, prunes and decides without awaiting anything, so one   *)
(* request is one action.  It reads the clock twice, once for the eviction *)
(* and once for the decision, and the clock may advance in between.        *)
(***************************************************************************)
EXTENDS Naturals, Sequences, FiniteSets, Functions

CONSTANTS Tokens,              \* token ids
          WINDOW_SECONDS,
          MAX_REQUESTS,
          _EVICTION_INTERVAL,
          MaxTime              \* bound: when the clock stops

ASSUME LimiterAssumption ==
  /\ WINDOW_SECONDS \in Nat \ {0} /\ MAX_REQUESTS \in Nat \ {0}
  /\ _EVICTION_INTERVAL \in Nat \ {0} /\ MaxTime \in Nat

VARIABLES
  now,            \* time.monotonic()
  buckets,        \* _buckets: token id -> admission times
  last_eviction,  \* _last_eviction
  admitted,       \* history: the last MAX_REQUESTS + 1 admission times of a token
  last            \* the last request: when it came, and whose it was if refused

vars == <<now, buckets, last_eviction, admitted, last>>

Times == 0..MaxTime

\* An unauthenticated request has no token.
NoToken == "none"

\* The one type invariant of this module.
TypeOK ==
  /\ now \in Times
  /\ DOMAIN buckets \subseteq Tokens
  /\ \A t \in DOMAIN buckets : buckets[t] \in Seq(Times) /\ buckets[t] # <<>>
  /\ last_eviction \in Times
  /\ admitted \in [Tokens -> Seq(Times)]
  /\ last \in [token : Tokens \cup {NoToken}, at : Times, status : {"passed", "limited"}]

Init ==
  /\ now = 0
  /\ buckets = <<>>
  /\ last_eviction = 0
  /\ admitted = [t \in Tokens |-> <<>>]
  /\ last = [token |-> NoToken, at |-> 0, status |-> "passed"]

----------------------------------------------------------------------------
(* dispatch *)

\* Mutants: only an empty bucket is stale; a bucket with one old entry is.
Stale_Empty(bucket, t) == bucket = <<>>
Stale_First(bucket, t) == bucket = <<>> \/ bucket[1] + WINDOW_SECONDS <= t

\* The last entry is out of the window.
Stale(bucket, t) ==
  bucket = <<>> \/ bucket[Len(bucket)] + WINDOW_SECONDS <= t

\* Mutant: a stale bucket is emptied and not deleted.
_maybe_evict_Clears(t) ==
  IF t - last_eviction < _EVICTION_INTERVAL THEN buckets
  ELSE [k \in DOMAIN buckets |-> IF Stale(buckets[k], t) THEN <<>> ELSE buckets[k]]

\* _maybe_evict at time t: the buckets that are left.
_maybe_evict(t) ==
  IF t - last_eviction < _EVICTION_INTERVAL THEN buckets
  ELSE Restrict(buckets, {k \in DOMAIN buckets : ~Stale(buckets[k], t)})

EvictionTime(t) ==
  IF t - last_eviction < _EVICTION_INTERVAL THEN last_eviction ELSE t

\* Mutant: an entry exactly one window old still counts.
InWindow_Closed(entry, t) == entry + WINDOW_SECONDS >= t

\* t > cutoff.
InWindow(entry, t) == entry + WINDOW_SECONDS > t

\* [t for t in bucket if t > cutoff]: the j-th entry that is left is the j-th
\* of those in the window.
Filtered(bucket, t) ==
  LET left == {i \in DOMAIN bucket : InWindow(bucket[i], t)}
      nth(j) == CHOOSE i \in left : Cardinality({k \in left : k <= i}) = j
  IN  [j \in 1..Cardinality(left) |-> bucket[nth(j)]]

\* The bucket of a token, created when there is none, without old entries.
Pruned(kept, token, t) ==
  Filtered(IF token \in DOMAIN kept THEN kept[token] ELSE <<>>, t)

SetBucket(kept, token, bucket) ==
  [k \in DOMAIN kept \cup {token} |-> IF k = token THEN bucket ELSE kept[k]]

Full(bucket) == Len(bucket) >= MAX_REQUESTS

Recent(times) == IF Len(times) > MAX_REQUESTS + 1 THEN Tail(times) ELSE times

\* A request with a token id: evicted at the current time, _allow at time t.
Dispatch(token, t) ==
  LET bucket == Pruned(_maybe_evict(now), token, t) IN
  /\ now' = t
  /\ last_eviction' = EvictionTime(now)
  /\ \/ /\ Full(bucket)
        /\ buckets' = SetBucket(_maybe_evict(now), token, bucket)
        /\ last' = [token |-> token, at |-> t, status |-> "limited"]
        /\ UNCHANGED admitted
     \/ /\ ~Full(bucket)
        /\ buckets' = SetBucket(_maybe_evict(now), token, Append(bucket, t))
        /\ last' = [token |-> NoToken, at |-> t, status |-> "passed"]
        /\ admitted' = [admitted EXCEPT ![token] = Recent(Append(@, t))]

\* No bearer token, or none that can be parsed: never limited.
DispatchAnonymous ==
  /\ buckets' = _maybe_evict(now)
  /\ last_eviction' = EvictionTime(now)
  /\ last' = [token |-> NoToken, at |-> now, status |-> "passed"]
  /\ UNCHANGED <<now, admitted>>

Tick ==
  /\ now < MaxTime
  /\ now' = now + 1
  /\ UNCHANGED <<buckets, last_eviction, admitted, last>>

----------------------------------------------------------------------------
(* Specification *)

Next ==
  \/ \E token \in Tokens : \E t \in {now, now + 1} \cap Times : Dispatch(token, t)
  \/ DispatchAnonymous
  \/ Tick

Spec == Init /\ [][Next]_vars

----------------------------------------------------------------------------
(* Properties *)

\* In no window of WINDOW_SECONDS, wherever it begins, are more than
\* MAX_REQUESTS requests of a token admitted, although buckets are pruned
\* request by request, evicted by the requests of others, and the clock moves
\* between an eviction and the decision that follows it.
SlidingWindow ==
  \A token \in Tokens :
    Len(admitted[token]) > MAX_REQUESTS =>
      admitted[token][MAX_REQUESTS + 1] >= admitted[token][1] + WINDOW_SECONDS

\* A request is refused only when MAX_REQUESTS requests of its token were
\* admitted within the window that ends with it: nobody waits longer than a
\* window, and no token pays for another one.
RefusedForCause ==
  last.status = "limited" =>
    Cardinality({i \in DOMAIN admitted[last.token] :
                   admitted[last.token][i] + WINDOW_SECONDS > last.at}) >= MAX_REQUESTS

\* Memory is bounded by the recent traffic: after any request a bucket is kept
\* only for a token that was admitted within the last window and eviction
\* interval, however long it has been quiet before.
NoStaleBuckets ==
  \A token \in DOMAIN buckets :
    LET entries == admitted[token] IN
    /\ entries # <<>>
    /\ last.at < entries[Len(entries)] + WINDOW_SECONDS + _EVICTION_INTERVAL
=============================================================================
