----------------------------- MODULE RateLimit -----------------------------
(***************************************************************************)
(* The sliding-window limiter of api/_ratelimit.py: one deque of admission *)
(* times for each pair of subject (user or address) and key, trimmed when  *)
(* it is used and once an hour.                                            *)
(*                                                                         *)
(* The clock counts ticks, Second of them a second: admission times are    *)
(* fractions of a second, the Retry-After header is whole seconds.         *)
(***************************************************************************)
EXTENDS Integers, Sequences, FiniteSets

CONSTANTS
    Bucket,       \* pairs (subject, key) that send requests
    Limit,        \* Limit[b]: requests admitted in a window
    Window,       \* Window[b]: its length, in seconds
    Second,       \* ticks of a second
    MaxBuckets,   \* _MAX_BUCKETS: 100000 in the code
    Hour,         \* seconds between two cleanups, and the age they remove
    LastNow      \* bound on the time looked at

ASSUME RateLimitAssumption ==
    /\ Limit \in [Bucket -> Nat \ {0}] /\ Window \in [Bucket -> Nat \ {0}]
    /\ Second \in Nat \ {0} /\ MaxBuckets \in Nat \ {0} /\ LastNow \in Nat
    /\ Hour \in Nat /\ \A b \in Bucket : Window[b] <= Hour

VARIABLES
    now,     \* time.monotonic()
    tracked,   \* the keys of _buckets
    deque,     \* deque[b]: its times, oldest first
    cleaned,   \* when the cleanup loop went to sleep
    admitted,  \* admitted[b]: the times of all admitted requests
    promised   \* promised[b]: end of the wait the last refusal asked for, or -1

limitVars == <<now, tracked, deque, cleaned, admitted, promised>>

LimitInit ==
    /\ now = 0 /\ cleaned = 0
    /\ tracked = {}
    /\ deque = [b \in Bucket |-> <<>>]
    /\ admitted = [b \in Bucket |-> <<>>]
    /\ promised = [b \in Bucket |-> -1]

\* Mutant of Drops: an entry is dropped as soon as its window ends.
DropsEarly(q, n, cutoff) ==
    /\ \A i \in 1 .. n : q[i] <= cutoff
    /\ n < Len(q) => q[n + 1] > cutoff

\* Dropping n entries from the left of q removes all those before cutoff, up
\* to the first that is not.
Drops(q, n, cutoff) ==
    /\ \A i \in 1 .. n : q[i] < cutoff
    /\ n < Len(q) => q[n + 1] >= cutoff

Rest(q, n) == SubSeq(q, n + 1, Len(q))

\* Mutant of RetryAfter: the time until the newest entry is a second old.
RetryAfterNewest(b, q) ==
    LET wait == (q[Len(q)] + Second - now) \div Second IN
    IF wait < 1 THEN 1 ELSE wait

\* max(1, int(...)): whole seconds until the oldest entry leaves the window.
RetryAfter(b, q) ==
    LET wait == (q[1] + Window[b] * Second - now) \div Second IN
    IF wait < 1 THEN 1 ELSE wait

\* Mutant of AtCeiling: off by one.
AboveCeiling(b) == b \notin tracked /\ Cardinality(tracked) > MaxBuckets

AtCeiling(b) == b \notin tracked /\ Cardinality(tracked) >= MaxBuckets

\* _check refuses to track one more subject.
RefuseNew(b) ==
    /\ AtCeiling(b)
    /\ UNCHANGED limitVars

\* The rest of _check, which holds _lock throughout.
Check(b) ==
    /\ ~AtCeiling(b)
    /\ tracked' = tracked \cup {b}
    /\ \E n \in 0 .. Len(deque[b]) :
         LET q == Rest(deque[b], n) IN
         /\ Drops(deque[b], n, now - Window[b] * Second)
         /\ \/ /\ Len(q) >= Limit[b]
               /\ deque' = [deque EXCEPT ![b] = q]
               /\ promised' = [promised EXCEPT ![b] = now + (RetryAfter(b, q) + 1) * Second]
               /\ UNCHANGED admitted
            \/ /\ Len(q) < Limit[b]
               /\ deque' = [deque EXCEPT ![b] = Append(q, now)]
               /\ admitted' = [admitted EXCEPT ![b] = Append(@, now)]
               /\ promised' = [promised EXCEPT ![b] = -1]
    /\ UNCHANGED <<now, cleaned>>

\* A request to a path that b's key covers: the first rule of _IP_LIMITS that
\* matches bills the address, an endpoint with a limit of its own the user.
Serve(b) == Check(b) \/ RefuseNew(b)

\* One round of _bucket_cleanup_loop.
CleanUpBuckets ==
    /\ now >= cleaned + Hour * Second
    /\ \E n \in [tracked -> UNION {0 .. Len(deque[b]) : b \in Bucket}] :
         /\ \A b \in tracked : /\ n[b] <= Len(deque[b])
                               /\ Drops(deque[b], n[b], now - Hour * Second)
         /\ deque' = [b \in Bucket |-> IF b \in tracked THEN Rest(deque[b], n[b]) ELSE <<>>]
         /\ tracked' = {b \in tracked : n[b] < Len(deque[b])}
    /\ cleaned' = now
    /\ UNCHANGED <<now, admitted, promised>>

LimitTick ==
    /\ now < LastNow
    /\ now' = now + 1
    /\ UNCHANGED <<tracked, deque, cleaned, admitted, promised>>

LimitNext == (\E b \in Bucket : Serve(b)) \/ CleanUpBuckets \/ LimitTick

LimitSpec == LimitInit /\ [][LimitNext]_limitVars

-----------------------------------------------------------------------------
(* Properties.                                                             *)

LimitTypeOK ==
    /\ now \in 0 .. LastNow /\ cleaned \in 0 .. LastNow
    /\ tracked \subseteq Bucket /\ Cardinality(tracked) <= MaxBuckets
    /\ deque \in [Bucket -> Seq(0 .. LastNow)]
    /\ admitted \in [Bucket -> Seq(0 .. LastNow)]
    /\ promised \in [Bucket -> Int]

\* Whenever trimming happens, on use or by the cleanup, no stretch of time as
\* long as the window contains more admitted requests than the limit: trimming
\* never forgets a request that still counts (_check, _bucket_cleanup_loop).
WindowBound ==
    \A b \in Bucket : \A i \in 1 .. Len(admitted[b]) - Limit[b] :
        admitted[b][i + Limit[b]] - admitted[b][i] > Window[b] * Second

\* A client that was refused and waits a second longer than Retry-After says
\* finds room, unless somebody was admitted on the same bucket meanwhile.
RetryIsEnough ==
    \A b \in Bucket : promised[b] # -1 /\ now >= promised[b] =>
        \E n \in 0 .. Len(deque[b]) :
            /\ Drops(deque[b], n, now - Window[b] * Second)
            /\ Len(deque[b]) - n < Limit[b]

\* The memory of the limiter is bounded: never more buckets than the ceiling,
\* none of them empty or longer than its limit.
MemoryBound ==
    /\ Cardinality(tracked) <= MaxBuckets
    /\ \A b \in Bucket : Len(deque[b]) <= Limit[b] /\ (b \in tracked <=> deque[b] # <<>>)
=============================================================================
