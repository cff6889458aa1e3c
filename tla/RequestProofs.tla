--------------------------- MODULE RequestProofs ----------------------------
(***************************************************************************)
(* Theorems about what every request of the web server passes: RateLimit,  *)
(* Access and StatsCache, for any number of users, requests and windows.   *)
(***************************************************************************)
EXTENDS RateLimit, Access, StatsCache, DataLemmas

-----------------------------------------------------------------------------
(* Rate limits.  A deque is what is left of the times of all admitted      *)
(* requests: a suffix of them, at most Limit long, that lacks only times   *)
(* outside the window.  A request is admitted while the suffix is shorter  *)
(* than Limit, so the request Limit places before it is one of those that  *)
(* were dropped.  A refusal names the time at which the oldest entry of a  *)
(* full deque leaves the window; until then nobody is admitted, so the     *)
(* oldest entry stays what it was or goes.                                 *)

Span(b) == Window[b] * Second

\* How many admitted requests of b the deque q no longer has.
Dropped(b, q) == Len(admitted[b]) - Len(q)

\* q is the end of the times of b's admitted requests, without old ones.
Remembers(b, q) ==
    /\ q \in Seq(Nat) /\ Len(q) <= Limit[b] /\ Len(q) <= Len(admitted[b])
    /\ \A i \in 1 .. Len(q) : q[i] = admitted[b][Dropped(b, q) + i]
    /\ \A i \in 1 .. Dropped(b, q) : admitted[b][i] < now - Span(b)

Spaced(b) ==
    \A i \in 1 .. Len(admitted[b]) - Limit[b] : admitted[b][i + Limit[b]] - admitted[b][i] > Span(b)

BucketInv(b) ==
    /\ admitted[b] \in Seq(Nat)
    /\ Remembers(b, deque[b])
    /\ Spaced(b)
    /\ b \in tracked <=> deque[b] # <<>>

LimitShape ==
    /\ now \in Nat
    /\ tracked \subseteq Bucket /\ IsFiniteSet(tracked) /\ Cardinality(tracked) <= MaxBuckets
    /\ DOMAIN deque = Bucket /\ DOMAIN admitted = Bucket

LInv == LimitShape /\ \A b \in Bucket : BucketInv(b)

-----------------------------------------------------------------------------
(* Lengths of time and sequences.                                          *)

\* Limits are positive, and no window is longer than an hour.
LEMMA Spans ==
    ASSUME NEW b \in Bucket
    PROVE  /\ Limit[b] \in Nat \ {0} /\ Span(b) \in Nat /\ Hour * Second \in Nat
           /\ Span(b) <= Hour * Second
<1>1. Limit[b] \in Nat \ {0} /\ Window[b] \in Nat /\ Hour \in Nat /\ Second \in Nat
      /\ Window[b] <= Hour
  BY RateLimitAssumption
<1>2. ASSUME NEW w \in Nat, NEW h \in Nat, NEW s \in Nat, w <= h
      PROVE  w * s \in Nat /\ h * s \in Nat /\ w * s <= h * s
  <2>1. PICK d \in Nat : h = w + d
    <3>1. h - w \in Nat /\ h = w + (h - w)
      BY <1>2
    <3> QED BY <3>1
  <2>2. h * s = w * s + d * s /\ w * s \in Nat /\ d * s \in Nat
    BY <2>1
  <2> QED BY <2>2
<1> QED BY <1>1, <1>2 DEF Span

\* What is left of a sequence when its first n entries are dropped.
LEMMA RestProperties ==
    ASSUME NEW S, NEW q \in Seq(S), NEW n \in 0 .. Len(q)
    PROVE  /\ Rest(q, n) \in Seq(S) /\ Len(Rest(q, n)) = Len(q) - n
           /\ \A i \in 1 .. Len(q) - n : Rest(q, n)[i] = q[n + i]
<1> DEFINE m == n + 1
<1>1. m \in Int /\ Len(q) \in Nat /\ \A i \in m .. Len(q) : q[i] \in S
  OBVIOUS
<1>2. /\ SubSeq(q, m, Len(q)) \in Seq(S)
      /\ Len(SubSeq(q, m, Len(q))) = IF m <= Len(q) THEN Len(q) - m + 1 ELSE 0
      /\ \A i \in 1 .. Len(q) - m + 1 : SubSeq(q, m, Len(q))[i] = q[m + i - 1]
  BY <1>1, SubSeqProperties
<1> QED BY <1>2 DEF Rest

\* Trimming by a window, or by the hour of the cleanup, keeps a deque a suffix
\* without old times.
LEMMA TrimRemembers ==
    ASSUME LInv, NEW b \in Bucket, NEW n \in 0 .. Len(deque[b]), NEW cutoff \in Int,
           cutoff <= now - Span(b), Drops(deque[b], n, cutoff)
    PROVE  Remembers(b, Rest(deque[b], n))
<1> DEFINE q == deque[b]
           r == Rest(q, n)
           a == admitted[b]
<1>1. /\ q \in Seq(Nat) /\ a \in Seq(Nat) /\ Len(q) <= Limit[b] /\ Len(q) <= Len(a)
      /\ \A i \in 1 .. Len(q) : q[i] = a[Len(a) - Len(q) + i]
      /\ \A i \in 1 .. Len(a) - Len(q) : a[i] < now - Span(b)
  BY DEF LInv, BucketInv, Remembers, Dropped
<1>2. r \in Seq(Nat) /\ Len(r) = Len(q) - n /\ \A i \in 1 .. Len(q) - n : r[i] = q[n + i]
  BY <1>1, RestProperties
<1>3. Limit[b] \in Nat /\ Span(b) \in Nat /\ now \in Nat
  BY Spans DEF LInv, LimitShape
<1>4. \A i \in 1 .. n : q[i] < cutoff
  BY DEF Drops
<1> HIDE DEF q, r, a
<1>5. \A i \in 1 .. Len(r) : r[i] = a[Len(a) - Len(r) + i]
  <2> SUFFICES ASSUME NEW i \in 1 .. Len(r) PROVE r[i] = a[Len(a) - Len(r) + i]
    OBVIOUS
  <2>1. i \in 1 .. Len(q) - n /\ n + i \in 1 .. Len(q) /\ n \in Nat /\ Len(a) \in Nat /\ Len(q) \in Nat
    BY <1>1, <1>2 DEF q
  <2>2. Len(a) - Len(q) + (n + i) = Len(a) - Len(r) + i
    BY <1>2, <2>1
  <2>3. r[i] = q[n + i] /\ q[n + i] = a[Len(a) - Len(q) + (n + i)]
    BY <1>1, <1>2, <2>1
  <2> QED BY <2>2, <2>3
<1>6. ASSUME NEW i \in 1 .. Len(a) - Len(r) PROVE a[i] < now - Span(b)
  <2>1. CASE i <= Len(a) - Len(q)
    BY <1>1, <2>1
  <2>2. CASE i > Len(a) - Len(q)
    <3> DEFINE j == i - (Len(a) - Len(q))
    <3>1. j \in 1 .. n /\ j \in 1 .. Len(q) /\ Len(a) - Len(q) + j = i
      BY <1>1, <1>2, <2>2, SMTT(60)
    <3>2. a[i] = q[j] /\ q[j] < cutoff
      BY <1>1, <1>4, <3>1
    <3>3. q[j] \in Nat
      BY <1>1, <3>1, SMTT(60)
    <3> HIDE DEF j
    <3> QED BY <1>3, <3>2, <3>3
  <2> QED BY <1>1, <1>2, <2>1, <2>2
<1>7. Len(r) <= Limit[b] /\ Len(r) <= Len(a)
  <2>1. n \in Nat /\ Len(q) \in Nat /\ Len(a) \in Nat
    BY <1>1
  <2> QED BY <1>1, <1>2, <1>3, <2>1
<1>8. Remembers(b, r)
  BY <1>2, <1>5, <1>6, <1>7 DEF Remembers, Dropped, a
<1> QED BY <1>8 DEF q, r

-----------------------------------------------------------------------------
(* The operations.                                                         *)

\* Nothing is remembered at the start.
LEMMA InitLInv == LimitInit => LInv
<1> SUFFICES ASSUME LimitInit PROVE LInv
  OBVIOUS
<1>1. LimitShape
  BY FS_EmptySet, RateLimitAssumption DEF LimitInit, LimitShape
<1>2. ASSUME NEW b \in Bucket PROVE BucketInv(b)
  <2>1. admitted[b] = <<>> /\ deque[b] = <<>> /\ b \notin tracked
    BY DEF LimitInit
  <2> QED BY <2>1, Spans DEF BucketInv, Remembers, Spaced, Dropped
<1> QED BY <1>1, <1>2 DEF LInv

\* A refusal: the deque is trimmed, nothing is admitted.
LEMMA RefuseBucket ==
    ASSUME LInv, NEW b \in Bucket, NEW q, Remembers(b, q), Len(q) >= Limit[b],
           deque'[b] = q, admitted'[b] = admitted[b], now' = now, b \in tracked'
    PROVE  BucketInv(b)'
<1>1. deque'[b] # <<>>
  BY Spans DEF Remembers
<1> QED BY <1>1 DEF LInv, BucketInv, Remembers, Dropped, Spaced, Span

\* An admission: the request Limit places before it has left the deque.
LEMMA AdmitBucket ==
    ASSUME LInv, NEW b \in Bucket, NEW q, Remembers(b, q), Len(q) < Limit[b],
           deque'[b] = Append(q, now), admitted'[b] = Append(admitted[b], now), now' = now,
           b \in tracked'
    PROVE  BucketInv(b)'
<1> DEFINE a == admitted[b]
           e == admitted'[b]
           p == deque'[b]
           L == Limit[b]
           S == Span(b)
<1>1. now \in Nat /\ L \in Nat \ {0} /\ S \in Nat /\ a \in Seq(Nat) /\ q \in Seq(Nat)
  BY Spans DEF LInv, LimitShape, BucketInv, Remembers
<1>2. /\ Len(q) < L /\ Len(q) <= Len(a)
      /\ \A i \in 1 .. Len(q) : q[i] = a[Len(a) - Len(q) + i]
      /\ \A i \in 1 .. Len(a) - Len(q) : a[i] < now - S
      /\ \A i \in 1 .. Len(a) - L : a[i + L] - a[i] > S
  BY DEF Remembers, Dropped, LInv, BucketInv, Spaced
<1>3. p = Append(q, now) /\ e = Append(a, now)
  OBVIOUS
<1>4. S' = S
  BY DEF Span
<1> HIDE DEF a, e, p, S, L
<1>5. /\ e \in Seq(Nat) /\ Len(e) = Len(a) + 1 /\ e[Len(a) + 1] = now
      /\ \A i \in 1 .. Len(a) : e[i] = a[i]
  BY <1>1, <1>3
<1>6. /\ p \in Seq(Nat) /\ Len(p) = Len(q) + 1 /\ p[Len(q) + 1] = now
      /\ \A i \in 1 .. Len(q) : p[i] = q[i]
  BY <1>1, <1>3
<1>7. \A i \in 1 .. Len(p) : p[i] = e[Len(e) - Len(p) + i]
  <2> SUFFICES ASSUME NEW i \in 1 .. Len(p) PROVE p[i] = e[Len(e) - Len(p) + i]
    OBVIOUS
  <2>1. CASE i = Len(q) + 1
    BY <1>1, <1>5, <1>6, <2>1
  <2>2. CASE i \in 1 .. Len(q)
    <3>1. Len(a) - Len(q) + i \in 1 .. Len(a) /\ Len(e) - Len(p) + i = Len(a) - Len(q) + i
      BY <1>1, <1>2, <1>5, <1>6, <2>2
    <3> QED BY <1>2, <1>5, <1>6, <2>2, <3>1
  <2> QED BY <1>1, <1>6, <2>1, <2>2
<1>8. \A i \in 1 .. Len(e) - Len(p) : e[i] < now - S
  <2> SUFFICES ASSUME NEW i \in 1 .. Len(e) - Len(p) PROVE e[i] < now - S
    OBVIOUS
  <2>1. i \in 1 .. Len(a) - Len(q) /\ i \in 1 .. Len(a)
    BY <1>1, <1>5, <1>6, SMTT(60)
  <2> QED BY <1>2, <1>5, <2>1
<1>9. \A i \in 1 .. Len(e) - L : e[i + L] - e[i] > S
  <2> SUFFICES ASSUME NEW i \in 1 .. Len(e) - L PROVE e[i + L] - e[i] > S
    OBVIOUS
  <2>1. i \in 1 .. Len(a) /\ i + L \in 1 .. Len(a) + 1 /\ e[i] = a[i] /\ a[i] \in Nat
    <3>1. Len(a) \in Nat /\ i \in Nat /\ 1 <= i /\ i <= Len(a) + 1 - L /\ 1 <= L
      BY <1>1, <1>5
    <3>2. i \in 1 .. Len(a) /\ i + L \in 1 .. Len(a) + 1
      BY <1>1, <3>1
    <3>3. e[i] = a[i]
      BY <1>5, <3>2
    <3>4. a[i] \in Nat
      BY <1>1, <3>2
    <3> QED BY <3>2, <3>3, <3>4
  <2>2. CASE i + L = Len(a) + 1
    <3>1. i \in 1 .. Len(a) - Len(q)
      BY <1>1, <1>2, <2>1, <2>2
    <3>2. a[i] < now - S /\ e[i + L] = now
      BY <1>2, <1>5, <2>2, <3>1
    <3> QED BY <1>1, <2>1, <3>2
  <2>3. CASE i + L \in 1 .. Len(a)
    <3>1. i \in 1 .. Len(a) - L
      BY <1>1, <2>1, <2>3
    <3>2. e[i + L] = a[i + L]
      BY <1>5, <2>3
    <3> QED BY <1>2, <2>1, <3>1, <3>2
  <2>4. i + L = Len(a) + 1 \/ i + L \in 1 .. Len(a)
    <3>1. Len(a) \in Nat /\ i + L \in Nat /\ i + L <= Len(a) + 1 /\ 1 <= i + L
      BY <1>1, <2>1
    <3> QED BY <3>1
  <2> QED BY <2>2, <2>3, <2>4
<1>10. p # <<>> /\ Len(p) <= L /\ Len(p) <= Len(e)
  BY <1>1, <1>2, <1>5, <1>6
<1>11. Remembers(b, deque[b])'
  BY <1>4, <1>5, <1>6, <1>7, <1>8, <1>10 DEF Remembers, Dropped, a, e, p, S, L
<1>12. Spaced(b)'
  BY <1>4, <1>9 DEF Spaced, e, S, L
<1> QED BY <1>5, <1>10, <1>11, <1>12 DEF BucketInv, e, p

\* A bucket that a step leaves alone, while the clock may advance.
LEMMA SameBucket ==
    ASSUME LInv, NEW b \in Bucket, deque'[b] = deque[b], admitted'[b] = admitted[b],
           now' \in {now, now + 1}, b \in tracked' <=> b \in tracked
    PROVE  BucketInv(b)'
<1> DEFINE a == admitted[b]
<1>1. now \in Nat /\ Span(b) \in Nat /\ a \in Seq(Nat)
  BY Spans DEF LInv, LimitShape, BucketInv
<1>2. ASSUME NEW i \in 1 .. Dropped(b, deque[b]) PROVE a[i] < now' - Span(b)
  <2>1. a[i] < now - Span(b) /\ i \in 1 .. Len(a)
    <3>1. a[i] < now - Span(b)
      BY DEF LInv, BucketInv, Remembers
    <3>2. Len(deque[b]) \in Nat /\ Len(a) \in Nat
      BY <1>1 DEF LInv, BucketInv, Remembers
    <3>3. i \in 1 .. Len(a)
      BY <3>2 DEF Dropped
    <3> QED BY <3>1, <3>3
  <2>2. a[i] \in Nat
    BY <1>1, <2>1
  <2> QED BY <1>1, <2>1, <2>2
<1> QED BY <1>2 DEF LInv, BucketInv, Remembers, Dropped, Spaced, Span

\* _check admits or refuses, below the ceiling.
LEMMA CheckLInv == ASSUME LInv, NEW b \in Bucket, Check(b) PROVE LInv'
<1>1. PICK n \in 0 .. Len(deque[b]) :
        /\ Drops(deque[b], n, now - Window[b] * Second)
        /\ \/ /\ Len(Rest(deque[b], n)) >= Limit[b]
              /\ deque' = [deque EXCEPT ![b] = Rest(deque[b], n)]
              /\ UNCHANGED admitted
           \/ /\ Len(Rest(deque[b], n)) < Limit[b]
              /\ deque' = [deque EXCEPT ![b] = Append(Rest(deque[b], n), now)]
              /\ admitted' = [admitted EXCEPT ![b] = Append(@, now)]
  BY DEF Check
<1> DEFINE q == Rest(deque[b], n)
<1>2. now - Span(b) \in Int /\ now - Span(b) <= now - Span(b)
  BY Spans DEF LInv, LimitShape
<1>3. Remembers(b, q)
  BY <1>1, <1>2, TrimRemembers DEF Span
<1>4. tracked' = tracked \cup {b} /\ now' = now
  BY DEF Check
<1> HIDE DEF q
<1>5. BucketInv(b)'
  <2>1. CASE Len(q) >= Limit[b] /\ deque' = [deque EXCEPT ![b] = q] /\ UNCHANGED admitted
    <3>1. deque'[b] = q /\ admitted'[b] = admitted[b]
      BY <2>1 DEF LInv, LimitShape
    <3> QED BY <1>3, <1>4, <2>1, <3>1, RefuseBucket
  <2>2. CASE /\ Len(q) < Limit[b] /\ deque' = [deque EXCEPT ![b] = Append(q, now)]
             /\ admitted' = [admitted EXCEPT ![b] = Append(@, now)]
    <3>1. deque'[b] = Append(q, now) /\ admitted'[b] = Append(admitted[b], now)
      BY <2>2 DEF LInv, LimitShape
    <3> QED BY <1>3, <1>4, <2>2, <3>1, AdmitBucket
  <2> QED BY <1>1, <2>1, <2>2 DEF q
<1>6. ASSUME NEW c \in Bucket, c # b PROVE BucketInv(c)'
  <2>1. deque'[c] = deque[c] /\ admitted'[c] = admitted[c] /\ (c \in tracked' <=> c \in tracked)
    BY <1>1, <1>4, <1>6 DEF LInv, LimitShape
  <2> QED BY <1>4, <2>1, SameBucket
<1>7. LimitShape'
  <2>1. IsFiniteSet(tracked') /\ Cardinality(tracked') =
          IF b \in tracked THEN Cardinality(tracked) ELSE Cardinality(tracked) + 1
    BY <1>4, FS_AddElement DEF LInv, LimitShape
  <2>2. Cardinality(tracked) \in Nat
    BY FS_CardinalityType DEF LInv, LimitShape
  <2>3. Cardinality(tracked') <= MaxBuckets
    BY <2>1, <2>2, RateLimitAssumption DEF Check, AtCeiling, LInv, LimitShape
  <2>4. DOMAIN deque' = Bucket /\ DOMAIN admitted' = Bucket
    BY <1>1 DEF LInv, LimitShape
  <2> QED BY <1>4, <2>1, <2>3, <2>4 DEF LInv, LimitShape
<1> QED BY <1>5, <1>6, <1>7 DEF LInv

\* The cleanup forgets only what is older than an hour, and empty buckets.
LEMMA CleanUpLInv == ASSUME LInv, CleanUpBuckets PROVE LInv'
<1>1. PICK n \in [tracked -> UNION {0 .. Len(deque[b]) : b \in Bucket}] :
        /\ \A b \in tracked : n[b] <= Len(deque[b]) /\ Drops(deque[b], n[b], now - Hour * Second)
        /\ deque' = [b \in Bucket |-> IF b \in tracked THEN Rest(deque[b], n[b]) ELSE <<>>]
        /\ tracked' = {b \in tracked : n[b] < Len(deque[b])}
        /\ UNCHANGED <<now, admitted>>
  BY DEF CleanUpBuckets
<1>2. ASSUME NEW b \in Bucket PROVE BucketInv(b)'
  <2>1. CASE b \in tracked
    <3>1. n[b] \in 0 .. Len(deque[b]) /\ Drops(deque[b], n[b], now - Hour * Second)
      <4>1. PICK c \in Bucket : n[b] \in 0 .. Len(deque[c])
        BY <1>1, <2>1
      <4>2. Len(deque[c]) \in Nat /\ Len(deque[b]) \in Nat
        BY DEF LInv, BucketInv, Remembers
      <4> QED BY <1>1, <2>1, <4>1, <4>2
    <3>2. now - Hour * Second \in Int /\ now - Hour * Second <= now - Span(b)
      BY Spans DEF LInv, LimitShape
    <3>3. Remembers(b, Rest(deque[b], n[b]))
      BY <3>1, <3>2, TrimRemembers
    <3>4. deque'[b] = Rest(deque[b], n[b]) /\ admitted' = admitted /\ now' = now
      BY <1>1, <2>1
    <3>5. deque[b] \in Seq(Nat) /\ Len(Rest(deque[b], n[b])) = Len(deque[b]) - n[b]
      <4>1. deque[b] \in Seq(Nat)
        BY DEF LInv, BucketInv, Remembers
      <4> QED BY <3>1, <4>1, RestProperties
    <3>6. b \in tracked' <=> deque'[b] # <<>>
      <4>1. b \in tracked' <=> Len(deque'[b]) # 0
        BY <1>1, <2>1, <3>1, <3>4, <3>5
      <4>2. deque'[b] \in Seq(Nat)
        BY <3>3, <3>4 DEF Remembers
      <4> QED BY <4>1, <4>2
    <3> QED BY <3>3, <3>4, <3>6 DEF LInv, BucketInv, Remembers, Dropped, Spaced, Span
  <2>2. CASE b \notin tracked
    <3>1. deque'[b] = <<>> /\ deque[b] = <<>> /\ b \notin tracked'
      BY <1>1, <2>2 DEF LInv, BucketInv
    <3> QED BY <1>1, <2>2, <3>1, SameBucket
  <2> QED BY <2>1, <2>2
<1>3. LimitShape'
  <2>1. tracked' \subseteq tracked
    BY <1>1
  <2>2. IsFiniteSet(tracked') /\ Cardinality(tracked') <= Cardinality(tracked)
    BY <2>1, FS_Subset DEF LInv, LimitShape
  <2>3. Cardinality(tracked) \in Nat /\ Cardinality(tracked') \in Nat
    BY <2>2, FS_CardinalityType DEF LInv, LimitShape
  <2> QED BY <1>1, <2>1, <2>2, <2>3, RateLimitAssumption DEF LInv, LimitShape
<1> QED BY <1>2, <1>3 DEF LInv

\* Time passes.
LEMMA TickLInv == ASSUME LInv, LimitTick PROVE LInv'
<1>1. now' = now + 1 /\ UNCHANGED <<tracked, deque, admitted>>
  BY DEF LimitTick
<1>2. \A b \in Bucket : BucketInv(b)'
  BY <1>1, SameBucket
<1>3. LimitShape'
  BY <1>1 DEF LInv, LimitShape
<1> QED BY <1>2, <1>3 DEF LInv

\* Every step of the limiter keeps the invariant.
LEMMA StepLInv == LInv /\ [LimitNext]_limitVars => LInv'
<1> SUFFICES ASSUME LInv, [LimitNext]_limitVars PROVE LInv'
  OBVIOUS
<1>1. CASE UNCHANGED limitVars
  <2>1. UNCHANGED <<now, tracked, deque, admitted>>
    BY <1>1 DEF limitVars
  <2>2. \A b \in Bucket : BucketInv(b)'
    BY <2>1, SameBucket
  <2> QED BY <2>1, <2>2 DEF LInv, LimitShape
<1>2. ASSUME NEW b \in Bucket, Serve(b) PROVE LInv'
  BY <1>1, <1>2, CheckLInv DEF Serve, RefuseNew
<1> QED BY <1>1, <1>2, CleanUpLInv, TickLInv DEF LimitNext

\* What is known of the limiter in every reachable state.
THEOREM LInvHolds == LimitSpec => []LInv
BY InitLInv, StepLInv, PTL DEF LimitSpec

-----------------------------------------------------------------------------
\* However a deque is trimmed, on use or by the hourly cleanup, and at any
\* ceiling, no stretch of time as long as a window contains more admitted
\* requests than the limit (_check, _bucket_cleanup_loop).
THEOREM LimitHolds == LimitSpec => []WindowBound
<1>1. LInv => WindowBound
  BY DEF LInv, BucketInv, Spaced, Span, WindowBound
<1> QED BY <1>1, LInvHolds, PTL

\* The limiter never tracks more buckets than its ceiling, an empty one, or
\* more times than the limit in one (_check, _bucket_cleanup_loop).
THEOREM MemoryIsBounded == LimitSpec => []MemoryBound
<1>1. LInv => MemoryBound
  BY DEF LInv, LimitShape, BucketInv, Remembers, MemoryBound
<1> QED BY <1>1, LInvHolds, PTL

\* A refusal is remembered until the oldest time of a full deque, if it is
\* still there, has left the window.
Promise(b) ==
    promised[b] # -1 => Len(deque[b]) < Limit[b] \/ deque[b][1] + Span(b) < promised[b]

PInv == LInv /\ promised \in [Bucket -> Int] /\ \A b \in Bucket : Promise(b)

\* Trimming by any cutoff always gets to an end: Drops holds for some n, and
\* that is not 0 if the oldest entry is before the cutoff.
LEMMA SomeDrop ==
    ASSUME NEW q \in Seq(Nat), NEW cutoff \in Int
    PROVE  \E n \in 0 .. Len(q) : Drops(q, n, cutoff)
                                  /\ (q # <<>> /\ q[1] < cutoff => n # 0)
<1> DEFINE Ends == {n \in 0 .. Len(q) : n < Len(q) => q[n + 1] >= cutoff}
<1>1. Len(q) \in Ends /\ Ends \in SUBSET Nat
  OBVIOUS
<1>2. PICK n \in Ends : \A m \in Ends : n <= m
  <2> HIDE DEF Ends
  <2> QED BY <1>1, SmallestNat
<1>3. ASSUME NEW i \in 1 .. n PROVE q[i] < cutoff
  <2>1. i - 1 \in 0 .. Len(q) /\ i - 1 < n /\ i - 1 < Len(q) /\ (i - 1) + 1 = i
    OBVIOUS
  <2>2. i - 1 \notin Ends
    BY <1>2, <2>1
  <2>3. ~(q[i] >= cutoff) /\ q[i] \in Nat
    BY <2>1, <2>2
  <2> QED BY <2>3
<1>4. Drops(q, n, cutoff)
  BY <1>3 DEF Drops
<1>5. q # <<>> /\ q[1] < cutoff => n # 0
  OBVIOUS
<1> QED BY <1>4, <1>5

\* The wait that a refusal asks for, and one second more.
LEMMA WaitIsEnough ==
    ASSUME NEW b \in Bucket, NEW q \in Seq(Nat), q # <<>>, now \in Nat
    PROVE  /\ now + (RetryAfter(b, q) + 1) * Second \in Int
           /\ q[1] + Span(b) < now + (RetryAfter(b, q) + 1) * Second
<1> DEFINE x == q[1] + Span(b) - now
           w == x \div Second
<1>1. Second \in Nat \ {0} /\ Span(b) \in Nat /\ q[1] \in Nat
  BY Spans, RateLimitAssumption
<1>2. x \in Int
  BY <1>1
<1>3. ASSUME NEW y \in Int, NEW s \in Nat \ {0}, NEW v \in Int, y \div s <= v
      PROVE  /\ y \div s \in Int /\ (v + 1) * s \in Int /\ y < (v + 1) * s
  <2>1. y \div s \in Int /\ y < (y \div s) * s + s
    BY SMTT(30)
  <2>2. PICK d \in Nat : v = (y \div s) + d
    <3>1. v - (y \div s) \in Nat /\ v = (y \div s) + (v - (y \div s))
      BY <1>3, <2>1
    <3> QED BY <3>1
  <2>3. PICK k \in Int : k = y \div s
    BY <2>1
  <2>4. d * s \in Nat /\ k * s \in Int /\ (v + 1) * s = k * s + d * s + s
    BY <2>2, <2>3
  <2> QED BY <2>1, <2>3, <2>4
<1>4. w \in Int
  BY <1>1, <1>2
<1>5. RetryAfter(b, q) \in Int /\ w <= RetryAfter(b, q)
  <2>1. RetryAfter(b, q) = IF w < 1 THEN 1 ELSE w
    BY DEF RetryAfter, Span
  <2> HIDE DEF w
  <2> QED BY <1>4, <2>1
<1>6. (RetryAfter(b, q) + 1) * Second \in Int /\ x < (RetryAfter(b, q) + 1) * Second
  BY <1>1, <1>2, <1>3, <1>5
<1> QED BY <1>1, <1>6

\* A request checked against its window: a refusal states a wait that is long
\* enough, and an admission shortens nobody else's.
LEMMA CheckPromise ==
    ASSUME PInv, NEW b \in Bucket, Check(b)
    PROVE  promised' \in [Bucket -> Int] /\ \A c \in Bucket : Promise(c)'
<1>1. PICK n \in 0 .. Len(deque[b]) :
         LET q == Rest(deque[b], n) IN
         /\ Drops(deque[b], n, now - Window[b] * Second)
         /\ \/ /\ Len(q) >= Limit[b]
               /\ deque' = [deque EXCEPT ![b] = q]
               /\ promised' = [promised EXCEPT ![b] = now + (RetryAfter(b, q) + 1) * Second]
            \/ /\ deque' = [deque EXCEPT ![b] = Append(q, now)]
               /\ promised' = [promised EXCEPT ![b] = -1]
  BY DEF Check
<1> DEFINE q == Rest(deque[b], n)
<1>2. now \in Nat /\ DOMAIN deque = Bucket /\ promised \in [Bucket -> Int]
      /\ deque[b] \in Seq(Nat) /\ Limit[b] \in Nat \ {0}
  BY Spans DEF PInv, LInv, LimitShape, BucketInv, Remembers
<1>3. q \in Seq(Nat)
  BY <1>2, RestProperties
<1>4. CASE /\ Len(q) >= Limit[b]
           /\ deque' = [deque EXCEPT ![b] = q]
           /\ promised' = [promised EXCEPT ![b] = now + (RetryAfter(b, q) + 1) * Second]
  <2>1. q # <<>>
    BY <1>2, <1>3, <1>4
  <2> DEFINE p == now + (RetryAfter(b, q) + 1) * Second
  <2>2. p \in Int /\ q[1] + Span(b) < p
    BY <1>2, <1>3, <2>1, WaitIsEnough
  <2>3. promised' = [promised EXCEPT ![b] = p]
    BY <1>4
  <2> HIDE DEF p, q
  <2>4. promised' \in [Bucket -> Int]
    BY <1>2, <2>2, <2>3
  <2>5. deque'[b] = q /\ promised'[b] = p
    BY <1>2, <1>4, <2>3
  <2>6. \A c \in Bucket \ {b} : deque'[c] = deque[c] /\ promised'[c] = promised[c]
    BY <1>2, <1>4, <2>3
  <2> QED BY <2>2, <2>4, <2>5, <2>6 DEF PInv, Promise, Span
<1>5. CASE /\ deque' = [deque EXCEPT ![b] = Append(q, now)]
           /\ promised' = [promised EXCEPT ![b] = -1]
  <2>1. promised' \in [Bucket -> Int] /\ promised'[b] = -1
    BY <1>2, <1>5
  <2>2. \A c \in Bucket \ {b} : deque'[c] = deque[c] /\ promised'[c] = promised[c]
    BY <1>2, <1>5
  <2> QED BY <2>1, <2>2 DEF PInv, Promise, Span
<1> QED BY <1>1, <1>4, <1>5

\* The periodic sweep drops only what no window counts any more.
LEMMA CleanUpPromise ==
    ASSUME PInv, CleanUpBuckets
    PROVE  promised' \in [Bucket -> Int] /\ \A c \in Bucket : Promise(c)'
<1>1. PICK n \in [tracked -> UNION {0 .. Len(deque[b]) : b \in Bucket}] :
        /\ \A b \in tracked : n[b] <= Len(deque[b])
        /\ deque' = [b \in Bucket |-> IF b \in tracked THEN Rest(deque[b], n[b]) ELSE <<>>]
        /\ promised' = promised
  BY DEF CleanUpBuckets
<1>2. SUFFICES ASSUME NEW c \in Bucket, promised[c] # -1
               PROVE  Len(deque'[c]) < Limit[c] \/ deque'[c][1] + Span(c) < promised[c]
  BY <1>1 DEF PInv, Promise, Span
<1>3. deque[c] \in Seq(Nat) /\ Limit[c] \in Nat \ {0} /\ Len(deque[c]) <= Limit[c]
  BY Spans DEF PInv, LInv, BucketInv, Remembers
<1>4. CASE c \notin tracked
  BY <1>1, <1>3, <1>4
<1>5. CASE c \in tracked
  <2>1. n[c] \in 0 .. Len(deque[c])
    <3>1. PICK d \in Bucket : n[c] \in 0 .. Len(deque[d])
      BY <1>1, <1>5
    <3>2. Len(deque[d]) \in Nat
      BY DEF PInv, LInv, BucketInv, Remembers
    <3> QED BY <1>1, <1>3, <1>5, <3>1, <3>2
  <2>2. /\ Len(deque'[c]) = Len(deque[c]) - n[c]
        /\ \A i \in 1 .. Len(deque[c]) - n[c] : deque'[c][i] = deque[c][n[c] + i]
    <3>1. deque'[c] = Rest(deque[c], n[c])
      BY <1>1, <1>5
    <3> DEFINE q == deque[c]
               k == n[c]
    <3>2. q \in Seq(Nat) /\ k \in 0 .. Len(q)
      BY <1>3, <2>1
    <3> HIDE DEF q, k
    <3>3. /\ Len(Rest(q, k)) = Len(q) - k
          /\ \A i \in 1 .. Len(q) - k : Rest(q, k)[i] = q[k + i]
      BY <3>2, RestProperties
    <3> QED BY <3>1, <3>3 DEF q, k
  <2>3. CASE n[c] = 0
    <3>1. Len(deque[c]) < Limit[c] \/ deque[c][1] + Span(c) < promised[c]
      BY <1>2 DEF PInv, Promise
    <3>2. Len(deque[c]) >= 1 => deque'[c][1] = deque[c][1]
      BY <1>3, <2>2, <2>3
    <3> QED BY <1>3, <2>2, <2>3, <3>1, <3>2
  <2>4. CASE n[c] # 0
    BY <1>3, <2>1, <2>2, <2>4
  <2> QED BY <2>3, <2>4
<1> QED BY <1>4, <1>5

\* PInv holds in every reachable state.
LEMMA PromiseHolds == LimitSpec => []PInv
<1>1. LimitInit => PInv
  BY InitLInv DEF LimitInit, PInv, Promise
<1>2. PInv /\ LInv' /\ [LimitNext]_limitVars => PInv'
  <2> SUFFICES ASSUME PInv, LInv', [LimitNext]_limitVars PROVE PInv'
    OBVIOUS
  <2>1. CASE UNCHANGED <<deque, promised>>
    BY <2>1 DEF PInv, Promise, Span
  <2>2. ASSUME NEW b \in Bucket, Check(b) PROVE PInv'
    BY <2>2, CheckPromise DEF PInv
  <2>3. CASE CleanUpBuckets
    BY <2>3, CleanUpPromise DEF PInv
  <2> QED BY <2>1, <2>2, <2>3 DEF LimitNext, Serve, RefuseNew, LimitTick, limitVars
<1> QED BY <1>1, <1>2, LInvHolds, PTL DEF LimitSpec

\* A client that was refused and waits a second longer than Retry-After says
\* finds room, unless somebody was admitted on the bucket meanwhile, whenever
\* the cleanup runs (_check): RetryIsEnough.
THEOREM WaitingHelps == LimitSpec => []RetryIsEnough
<1>1. ASSUME PInv PROVE RetryIsEnough
  <2> SUFFICES ASSUME NEW b \in Bucket, promised[b] # -1, now >= promised[b]
               PROVE  \E n \in 0 .. Len(deque[b]) :
                        /\ Drops(deque[b], n, now - Window[b] * Second)
                        /\ Len(deque[b]) - n < Limit[b]
    BY DEF RetryIsEnough
  <2>1. /\ deque[b] \in Seq(Nat) /\ Limit[b] \in Nat \ {0} /\ Len(deque[b]) <= Limit[b]
        /\ now \in Nat /\ Span(b) \in Nat /\ promised[b] \in Int
    BY <1>1, Spans DEF PInv, LInv, LimitShape, BucketInv, Remembers
  <2>2. now - Span(b) \in Int
    BY <2>1
  <2>3. PICK n \in 0 .. Len(deque[b]) :
          /\ Drops(deque[b], n, now - Span(b))
          /\ deque[b] # <<>> /\ deque[b][1] < now - Span(b) => n # 0
    BY <2>1, <2>2, SomeDrop
  <2>4. CASE Len(deque[b]) < Limit[b]
    BY <2>1, <2>3, <2>4 DEF Span
  <2>5. CASE Len(deque[b]) = Limit[b]
    <3>1. deque[b] # <<>> /\ deque[b][1] \in Nat
      BY <2>1, <2>5
    <3>2. deque[b][1] < now - Span(b)
      BY <1>1, <2>1, <2>5, <3>1 DEF PInv, Promise
    <3> QED BY <2>1, <2>3, <2>5, <3>1, <3>2 DEF Span
  <2> QED BY <2>1, <2>4, <2>5
<1> QED BY <1>1, PromiseHolds, PTL

\* The types of the limiter's state, the bounds on time and buckets included.
THEOREM LimitTypes == LimitSpec => []LimitTypeOK
<1>0. LastNow \in Nat
  BY RateLimitAssumption
<1>1. LimitInit => LimitTypeOK
  BY <1>0, FS_EmptySet, RateLimitAssumption DEF LimitInit, LimitTypeOK
<1>2. LimitTypeOK /\ PInv' /\ [LimitNext]_limitVars => LimitTypeOK'
  <2> SUFFICES ASSUME LimitTypeOK, PInv', [LimitNext]_limitVars PROVE LimitTypeOK'
    OBVIOUS
  <2>0. promised' \in [Bucket -> Int] /\ Cardinality(tracked') <= MaxBuckets
    BY DEF PInv, LInv, LimitShape
  <2>1. CASE UNCHANGED limitVars
    BY <2>0, <2>1 DEF limitVars, LimitTypeOK
  <2>2. CASE LimitTick
    BY <1>0, <2>0, <2>2 DEF LimitTick, LimitTypeOK
  <2>3. ASSUME NEW b \in Bucket, Check(b) PROVE LimitTypeOK'
    <3>1. PICK n \in 0 .. Len(deque[b]) :
             \/ deque' = [deque EXCEPT ![b] = Rest(deque[b], n)] /\ admitted' = admitted
             \/ /\ deque' = [deque EXCEPT ![b] = Append(Rest(deque[b], n), now)]
                /\ admitted' = [admitted EXCEPT ![b] = Append(@, now)]
      BY <2>3 DEF Check
    <3>2. /\ deque \in [Bucket -> Seq(0 .. LastNow)] /\ admitted \in [Bucket -> Seq(0 .. LastNow)]
          /\ now \in 0 .. LastNow
      BY DEF LimitTypeOK
    <3>3. Rest(deque[b], n) \in Seq(0 .. LastNow)
      BY <3>2, RestProperties
    <3>4. Append(Rest(deque[b], n), now) \in Seq(0 .. LastNow)
          /\ Append(admitted[b], now) \in Seq(0 .. LastNow)
      BY <3>2, <3>3
    <3> DEFINE r == Rest(deque[b], n)
               a == Append(Rest(deque[b], n), now)
               d == Append(admitted[b], now)
    <3> HIDE DEF r, a, d
    <3>5. r \in Seq(0 .. LastNow) /\ a \in Seq(0 .. LastNow) /\ d \in Seq(0 .. LastNow)
      BY <3>3, <3>4 DEF r, a, d
    <3>6. \/ deque' = [deque EXCEPT ![b] = r] /\ admitted' = admitted
          \/ deque' = [deque EXCEPT ![b] = a] /\ admitted' = [admitted EXCEPT ![b] = d]
      BY <3>1, <3>2 DEF r, a, d
    <3>7. deque' \in [Bucket -> Seq(0 .. LastNow)] /\ admitted' \in [Bucket -> Seq(0 .. LastNow)]
      BY <3>2, <3>5, <3>6
    <3> QED BY <2>0, <2>3, <3>7 DEF Check, LimitTypeOK
  <2>4. CASE CleanUpBuckets
    <3>1. PICK n \in [tracked -> UNION {0 .. Len(deque[b]) : b \in Bucket}] :
            /\ \A b \in tracked : n[b] <= Len(deque[b])
            /\ deque' = [b \in Bucket |-> IF b \in tracked THEN Rest(deque[b], n[b]) ELSE <<>>]
            /\ tracked' = {b \in tracked : n[b] < Len(deque[b])}
      BY <2>4 DEF CleanUpBuckets
    <3>2. tracked \subseteq Bucket /\ deque \in [Bucket -> Seq(0 .. LastNow)]
      BY DEF LimitTypeOK
    <3>3. ASSUME NEW b \in tracked PROVE Rest(deque[b], n[b]) \in Seq(0 .. LastNow)
      <4>1. n[b] \in 0 .. Len(deque[b])
        <5>1. PICK d \in Bucket : n[b] \in 0 .. Len(deque[d])
          BY <3>1
        <5>2. Len(deque[d]) \in Nat /\ Len(deque[b]) \in Nat
          BY <3>2
        <5> QED BY <3>1, <5>1, <5>2
      <4> QED BY <3>2, <4>1, RestProperties
    <3>4. deque' \in [Bucket -> Seq(0 .. LastNow)]
      <4> DEFINE new(b) == IF b \in tracked THEN Rest(deque[b], n[b]) ELSE <<>>
                 T == Seq(0 .. LastNow)
      <4>1. \A b \in Bucket : new(b) \in T
        <5>1. <<>> \in T
          OBVIOUS
        <5>2. ASSUME NEW b \in Bucket, b \in tracked PROVE new(b) \in T
          BY <3>3, <5>2
        <5> QED BY <5>1, <5>2
      <4>2. deque' = [b \in Bucket |-> new(b)]
        BY <3>1
      <4> HIDE DEF new, T
      <4>3. deque' \in [Bucket -> T]
        BY <4>1, <4>2
      <4> QED BY <4>3 DEF T
    <3> QED BY <2>0, <2>4, <3>1, <3>2, <3>4 DEF CleanUpBuckets, LimitTypeOK
  <2> QED BY <2>1, <2>2, <2>3, <2>4 DEF LimitNext, Serve, RefuseNew
<1> QED BY <1>1, <1>2, PromiseHolds, PTL DEF LimitSpec

-----------------------------------------------------------------------------
(* Roles and accounts.  An entry of the cache, and a request that has read *)
(* a role but not stored it, expire within the time to live of the moment  *)
(* at which the role was last true, because the clock was read before the  *)
(* database; and nothing but an insert ever makes an account active.       *)

\* The types that the argument needs.
AccessShape ==
    /\ time \in Nat
    /\ account \in [Person -> Account]
    /\ cache \in [Person -> Entry \cup {NoEntry}]
    /\ request \in [Request -> RequestState]
    /\ lastAdmin \in [Person -> Int]

\* p is an active admin or was one at a time not before t.
AdminSince(p, t) == IsAdmin(account[p]) \/ t <= lastAdmin[p]

EntryInv(p) ==
    cache[p] # NoEntry =>
        /\ cache[p].expires <= time + RoleTtl
        /\ cache[p].role = "admin" => AdminSince(p, cache[p].expires - RoleTtl)

RequestInv(r) ==
    /\ request[r].start <= time
    /\ At(r, "read") /\ IsAdmin(request[r].seen) => AdminSince(request[r].who, request[r].start)
    /\ At(r, "admin") =>
         \/ IsAdmin(account[request[r].who])
         \/ request[r].start < lastAdmin[request[r].who] + RoleTtl
    /\ At(r, "delete") =>
         /\ HasAccount(account[request[r].target])
         /\ account[request[r].target].role # "admin"

AInv ==
    /\ AccessShape
    /\ \A p \in Person : EntryInv(p)
    /\ \A r \in Request : RequestInv(r)

-----------------------------------------------------------------------------
\* Nobody's role grows: an account that exists is not promoted, it stays, and
\* who stops being an active admin is noted.
Steady(p) ==
    /\ HasAccount(account[p]) => HasAccount(account'[p])
    /\ HasAccount(account[p]) /\ account[p].role # "admin" => account'[p].role # "admin"
    /\ HasAccount(account[p]) /\ ~account[p].active => ~account'[p].active
    /\ IsAdmin(account[p]) => IsAdmin(account'[p]) \/ lastAdmin'[p] = time
    /\ lastAdmin'[p] = lastAdmin[p] \/ (IsAdmin(account[p]) /\ lastAdmin'[p] = time)

\* A handler that is idle.
LEMMA IdleRequest ==
    NoRequest \in RequestState /\ NoRequest.pc = "idle" /\ NoRequest.start = 0
BY AccessAssumption DEF NoRequest, RequestState, Account

\* Nobody has an account at the start.
LEMMA InitAInv == ASSUME AccessInit PROVE AInv
<1>1. AccessShape
  BY AccessAssumption, IdleRequest DEF AccessInit, AccessShape, Account
<1>2. \A p \in Person : EntryInv(p)
  BY DEF AccessInit, EntryInv
<1>3. ASSUME NEW r \in Request PROVE RequestInv(r)
  BY IdleRequest DEF AccessInit, RequestInv, At
<1> QED BY <1>1, <1>2, <1>3 DEF AInv

-----------------------------------------------------------------------------
(* What a step does to the accounts.                                       *)

\* A login inserts a row or leaves all accounts alone.
LEMMA LoginSteady ==
    ASSUME AccessShape, NEW r \in Request, LoginCommit(r), NEW p \in Person
    PROVE  Steady(p) /\ account'[p] \in Account
<1>1. NewRow(p) \in Account /\ HasAccount(NewRow(p))
  <2>1. NewRow(p) \in Row
    BY DEF NewRow, Row
  <2>2. NoAccount \notin Row
    BY AccessAssumption DEF Row
  <2> QED BY <2>1, <2>2 DEF Account, HasAccount
<1>2. request[r].who \in Person
  BY DEF AccessShape, RequestState
<1>3. \/ account' = account
      \/ /\ ~HasAccount(account[request[r].who])
         /\ account' = [account EXCEPT ![request[r].who] = NewRow(request[r].who)]
  BY <1>2 DEF LoginCommit, LoginWrites, AccessShape
<1>4. lastAdmin' = lastAdmin
  BY DEF LoginCommit
<1>5. CASE account' = account
  BY <1>4, <1>5 DEF Steady, AccessShape
<1>6. CASE /\ ~HasAccount(account[request[r].who])
           /\ account' = [account EXCEPT ![request[r].who] = NewRow(request[r].who)]
  BY <1>1, <1>2, <1>4, <1>6 DEF Steady, AccessShape, IsAdmin, Active
<1> QED BY <1>3, <1>5, <1>6

\* An admin deactivates somebody who is not an admin.
LEMMA DeleteSteady ==
    ASSUME AccessShape, NEW r \in Request, RequestInv(r), DeleteCommit(r), NEW p \in Person
    PROVE  Steady(p) /\ account'[p] \in Account
<1> DEFINE t == request[r].target
<1>1. t \in Person /\ account[t] \in Row /\ account[t].role # "admin"
  BY DEF AccessShape, RequestState, RequestInv, DeleteCommit, HasAccount, Account
<1>2. account' = [account EXCEPT ![t].active = FALSE] /\ lastAdmin' = lastAdmin
  BY DEF DeleteCommit
<1>3. CASE p # t
  BY <1>1, <1>2, <1>3 DEF Steady, AccessShape
<1>4. CASE p = t
  <2>1. account'[t] = [account[t] EXCEPT !.active = FALSE]
    BY <1>1, <1>2 DEF AccessShape
  <2>2. account'[t] \in Row /\ account'[t].role = account[t].role /\ ~account'[t].active
    BY <1>1, <2>1 DEF Row
  <2> QED BY <1>1, <1>2, <1>4, <2>2, AccessAssumption
          DEF Steady, IsAdmin, Active, HasAccount, Account, Row
<1> QED BY <1>3, <1>4

\* The database takes the role away from an active admin.
LEMMA DemoteSteady ==
    ASSUME AccessShape, NEW q \in Person, Demote(q), NEW p \in Person
    PROVE  Steady(p) /\ account'[p] \in Account
<1>1. account[q] \in Row /\ account[q].active /\ account[q].role = "admin"
  BY DEF Demote, IsAdmin, Active, HasAccount, AccessShape, Account
<1>2. /\ account' = [account EXCEPT ![q].role = "user"]
      /\ lastAdmin' = [lastAdmin EXCEPT ![q] = time]
  BY DEF Demote
<1>3. CASE p # q
  BY <1>1, <1>2, <1>3 DEF Steady, AccessShape
<1>4. CASE p = q
  <2>1. account'[q] = [account[q] EXCEPT !.role = "user"] /\ lastAdmin'[q] = time
    BY <1>2 DEF AccessShape
  <2>2. account'[q] \in Row /\ account'[q].role = "user" /\ account'[q].active
    BY <1>1, <2>1 DEF Row
  <2>3. IsAdmin(account[q])
    BY DEF Demote
  <2> QED BY <1>1, <1>4, <2>1, <2>2, <2>3, AccessAssumption
          DEF Steady, HasAccount, Account, Row
<1> QED BY <1>3, <1>4

\* No step of the program makes anybody an admin or brings an account back.
LEMMA StepSteady ==
    ASSUME AInv, [AccessNext]_accessVars, NEW p \in Person
    PROVE  Steady(p) /\ account'[p] \in Account
<1>1. ASSUME NEW r \in Request, LoginCommit(r) PROVE Steady(p) /\ account'[p] \in Account
  BY <1>1, LoginSteady DEF AInv
<1>2. ASSUME NEW r \in Request, DeleteCommit(r) PROVE Steady(p) /\ account'[p] \in Account
  BY <1>2, DeleteSteady DEF AInv
<1>3. ASSUME NEW q \in Person, Demote(q) PROVE Steady(p) /\ account'[p] \in Account
  BY <1>3, DemoteSteady DEF AInv
<1>4. CASE UNCHANGED <<account, lastAdmin>>
  BY <1>4 DEF Steady, AInv, AccessShape
<1>5. \/ \E r \in Request : LoginCommit(r) \/ DeleteCommit(r)
      \/ \E q \in Person : Demote(q)
      \/ UNCHANGED <<account, lastAdmin>>
  BY DEF AccessNext, accessVars, LoginDenied, RoleRead, RoleStore, LoginRead, AdminCheck,
         DeleteRead, Logout, UserRequest, RestartServer, AccessTick
<1> QED BY <1>1, <1>2, <1>3, <1>4, <1>5

-----------------------------------------------------------------------------
(* What a step does to the cache and to the requests.                      *)

\* What was true of a time that has come remains true.
LEMMA AdminSinceStays ==
    ASSUME AccessShape, NEW p \in Person, Steady(p), NEW t \in Int, t <= time, AdminSince(p, t)
    PROVE  AdminSince(p, t)'
BY DEF AccessShape, Steady, AdminSince

\* Nothing but RoleStore adds an entry to the cache.
LEMMA EntryKept ==
    ASSUME AccessShape, NEW p \in Person, Steady(p), EntryInv(p), time' \in Nat, time <= time',
           cache'[p] \in {cache[p], NoEntry}
    PROVE  EntryInv(p)'
<1> SUFFICES ASSUME cache[p] # NoEntry, cache'[p] = cache[p]
             PROVE  EntryInv(p)'
  BY DEF EntryInv
<1>1. cache[p].expires \in Int /\ RoleTtl \in Nat /\ time \in Nat
  BY AccessAssumption DEF AccessShape, Entry
<1>2. cache[p].expires <= time' + RoleTtl
  BY <1>1 DEF EntryInv
<1>3. cache[p].role = "admin" => AdminSince(p, cache[p].expires - RoleTtl)'
  <2> SUFFICES ASSUME cache[p].role = "admin"
               PROVE  AdminSince(p, cache[p].expires - RoleTtl)'
    OBVIOUS
  <2> DEFINE t == cache[p].expires - RoleTtl
  <2>1. t \in Int /\ t <= time /\ AdminSince(p, t)
    BY <1>1 DEF EntryInv
  <2> HIDE DEF t
  <2>2. t <= lastAdmin'[p] \/ IsAdmin(account'[p])
    BY <2>1, AdminSinceStays DEF AdminSince
  <2> QED BY <2>2 DEF t, AdminSince
<1> QED BY <1>2, <1>3 DEF EntryInv

\* A handler that does nothing meanwhile.
LEMMA RequestKept ==
    ASSUME AccessShape, NEW r \in Request, RequestInv(r), \A p \in Person : Steady(p),
           time' \in Nat, time <= time', request'[r] = request[r]
    PROVE  RequestInv(r)'
<1>1. /\ request[r].who \in Person /\ request[r].target \in Person
      /\ request[r].start \in Int /\ RoleTtl \in Nat \ {0} /\ time \in Nat
      /\ lastAdmin[request[r].who] \in Int
  BY AccessAssumption DEF AccessShape, RequestState
<1>2. request'[r].start <= time'
  BY <1>1 DEF RequestInv
<1> DEFINE w == request[r].who
           t == request[r].start
<1>6. w \in Person /\ t \in Int /\ t <= time /\ Steady(w)
  BY <1>1 DEF RequestInv
<1>7. request'[r].who = w /\ request'[r].start = t
  OBVIOUS
<1>3. At(r, "read")' /\ IsAdmin(request'[r].seen) => AdminSince(request[r].who, request[r].start)'
  <2> SUFFICES ASSUME At(r, "read")', IsAdmin(request'[r].seen)
               PROVE  IsAdmin(account'[w]) \/ t <= lastAdmin'[w]
    BY <1>7 DEF AdminSince
  <2>1. AdminSince(w, t)
    BY DEF RequestInv, At
  <2> HIDE DEF w, t
  <2> QED BY <2>1, <1>1, <1>6 DEF AdminSince, Steady
<1>4. At(r, "admin")' => \/ IsAdmin(account'[request'[r].who])
                         \/ request'[r].start < lastAdmin'[request'[r].who] + RoleTtl
  <2> SUFFICES ASSUME At(r, "admin")'
               PROVE  IsAdmin(account'[w]) \/ t < lastAdmin'[w] + RoleTtl
    BY <1>7
  <2>1. IsAdmin(account[w]) \/ t < lastAdmin[w] + RoleTtl
    BY DEF RequestInv, At
  <2>2. lastAdmin[w] \in Int
    BY <1>1
  <2> HIDE DEF w, t
  <2>3. CASE IsAdmin(account[w])
    BY <2>3, <1>1, <1>6 DEF Steady
  <2>4. CASE t < lastAdmin[w] + RoleTtl
    BY <2>2, <2>4, <1>1, <1>6 DEF Steady
  <2> QED BY <2>1, <2>3, <2>4
<1>5. At(r, "delete")' => /\ HasAccount(account'[request'[r].target])
                          /\ account'[request'[r].target].role # "admin"
  BY <1>1 DEF RequestInv, At, Steady
<1> QED BY <1>2, <1>3, <1>4, <1>5 DEF RequestInv

-----------------------------------------------------------------------------
(* One step of one handler.                                                *)

\* What each step of a handler leaves in request[r].
RequestGoes(r) ==
    /\ request' = [request EXCEPT ![r] = request'[r]]
    /\ request'[r] \in RequestState /\ RequestInv(r)'

\* A handler that ends.
LEMMA IdleGoes ==
    ASSUME AInv, NEW r \in Request, Finish(r), time' = time
    PROVE  RequestGoes(r)
BY IdleRequest DEF AInv, AccessShape, Finish, Becomes, RequestGoes, RequestInv, At

\* A login has read the row.
LEMMA LoginReadGoes ==
    ASSUME AInv, NEW r \in Request, NEW p \in Person, LoginRead(r, p)
    PROVE  RequestGoes(r)
<1> DEFINE st == [NoRequest EXCEPT !.pc = "login", !.who = p, !.seen = account[p]]
<1>1. st \in RequestState /\ st.pc = "login" /\ st.start = 0
  BY IdleRequest DEF RequestState, AInv, AccessShape
<1> HIDE DEF st
<1>2. request' = [request EXCEPT ![r] = st] /\ time' = time
  BY DEF LoginRead, Becomes, st
<1>3. request'[r] = st
  BY <1>2 DEF AInv, AccessShape
<1> QED BY <1>1, <1>2, <1>3 DEF AInv, AccessShape, RequestGoes, RequestInv, At

\* An admin request is granted by the cache, refused, or goes to the database.
LEMMA AdminCheckGoes ==
    ASSUME AInv, NEW r \in Request, NEW p \in Person, AdminCheck(r, p)
    PROVE  RequestGoes(r) \/ request' = request
<1>1. time \in Nat /\ RoleTtl \in Nat \ {0} /\ lastAdmin[p] \in Int
  BY AccessAssumption DEF AInv, AccessShape
<1>2. UNCHANGED <<time, account, lastAdmin>>
  BY DEF AdminCheck
<1>3. ASSUME NEW pc \in {"admin", "miss"},
             Becomes(r, [NoRequest EXCEPT !.pc = pc, !.who = p, !.start = time]),
             pc = "admin" => IsAdmin(account[p]) \/ time < lastAdmin[p] + RoleTtl
      PROVE  RequestGoes(r)
  <2> DEFINE st == [NoRequest EXCEPT !.pc = pc, !.who = p, !.start = time]
  <2>1. /\ st \in RequestState
        /\ st.pc = pc /\ st.start = time /\ st.who = p
    <3>1. pc \in {"idle", "login", "miss", "read", "admin", "delete"} /\ time \in Int
      BY <1>1
    <3>2. NoRequest \in RequestState
      BY IdleRequest
    <3>3. st \in RequestState
      BY <3>1, <3>2 DEF RequestState
    <3>4. st.pc = pc /\ st.start = time /\ st.who = p
      BY <3>2 DEF RequestState
    <3> QED BY <3>3, <3>4
  <2> HIDE DEF st
  <2>2. request' = [request EXCEPT ![r] = st]
    BY <1>3 DEF Becomes, st
  <2>3. request'[r] = st
    BY <2>2 DEF AInv, AccessShape
  <2>4. RequestInv(r)'
    BY <1>1, <1>2, <1>3, <2>1, <2>3 DEF RequestInv, At
  <2> QED BY <2>1, <2>2, <2>3, <2>4 DEF RequestGoes
<1>4. CASE /\ Fresh(p) /\ cache[p].role = "admin"
           /\ Becomes(r, [NoRequest EXCEPT !.pc = "admin", !.who = p, !.start = time])
  <2>1. cache[p] # NoEntry /\ cache[p].expires > time /\ cache[p].expires \in Int
    BY <1>4 DEF Fresh, AInv, AccessShape, Entry
  <2>2. IsAdmin(account[p]) \/ cache[p].expires - RoleTtl <= lastAdmin[p]
    BY <1>4, <2>1 DEF AInv, EntryInv, AdminSince
  <2>3. IsAdmin(account[p]) \/ time < lastAdmin[p] + RoleTtl
    BY <1>1, <2>1, <2>2
  <2> QED BY <1>3, <1>4, <2>3
<1>5. CASE Becomes(r, [NoRequest EXCEPT !.pc = "miss", !.who = p, !.start = time])
  BY <1>3, <1>5
<1> QED BY <1>4, <1>5 DEF AdminCheck

\* The role is read after the request began.
LEMMA RoleReadGoes ==
    ASSUME AInv, NEW r \in Request, RoleRead(r)
    PROVE  RequestGoes(r)
<1> DEFINE p  == request[r].who
           st == [request[r] EXCEPT !.pc = "read", !.seen = account[p]]
<1>1. request[r] \in RequestState /\ p \in Person /\ account[p] \in Account
  BY DEF AInv, AccessShape, RequestState
<1>2. /\ st \in RequestState
      /\ st.pc = "read" /\ st.start = request[r].start /\ st.who = p /\ st.seen = account[p]
  BY <1>1 DEF RequestState
<1>3. request' = [request EXCEPT ![r] = st] /\ UNCHANGED <<time, account, lastAdmin>>
  BY DEF RoleRead, Becomes
<1> HIDE DEF st
<1>4. request'[r] = st
  BY <1>3 DEF AInv, AccessShape
<1>5. request[r].start <= time
  BY DEF AInv, RequestInv
<1>6. RequestInv(r)'
  BY <1>2, <1>3, <1>4, <1>5 DEF RequestInv, At, AdminSince
<1> QED BY <1>2, <1>3, <1>4, <1>6 DEF RequestGoes

\* The role that was read decides.
LEMMA RoleStoreGoes ==
    ASSUME AInv, NEW r \in Request, RoleStore(r)
    PROVE  RequestGoes(r)
<1> DEFINE p  == request[r].who
           st == [request[r] EXCEPT !.pc = "admin", !.seen = NoAccount]
<1>1. /\ request[r] \in RequestState /\ p \in Person /\ lastAdmin[p] \in Int
      /\ RoleTtl \in Nat \ {0} /\ request[r].start \in Int
  BY AccessAssumption DEF AInv, AccessShape, RequestState
<1>2. /\ st \in RequestState
      /\ st.pc = "admin" /\ st.start = request[r].start /\ st.who = p
  BY <1>1 DEF RequestState, Account
<1>3. UNCHANGED <<time, account, lastAdmin>>
  BY DEF RoleStore
<1>4. CASE Finish(r)
  BY <1>3, <1>4, IdleGoes
<1>5. CASE Role(request[r].seen) = "admin" /\ Becomes(r, st)
  <2>1. request' = [request EXCEPT ![r] = st]
    BY <1>5 DEF Becomes
  <2>2. request'[r] = st
    BY <2>1 DEF AInv, AccessShape
  <2>3. IsAdmin(request[r].seen)
    BY <1>5 DEF Role, IsAdmin, Active
  <2>4. AdminSince(p, request[r].start) /\ request[r].start <= time
    BY <2>3 DEF RoleStore, AInv, RequestInv
  <2> HIDE DEF st
  <2>5. RequestInv(r)'
    BY <1>1, <1>2, <1>3, <2>2, <2>4 DEF RequestInv, At, AdminSince
  <2> QED BY <1>2, <2>1, <2>2, <2>5 DEF RequestGoes
<1> QED BY <1>4, <1>5 DEF RoleStore

\* The target of a deletion is looked at.
LEMMA DeleteReadGoes ==
    ASSUME AInv, NEW r \in Request, NEW q \in Person, DeleteRead(r, q)
    PROVE  RequestGoes(r)
<1> DEFINE st == [NoRequest EXCEPT !.pc = "delete", !.target = q]
<1>1. st \in RequestState /\ st.pc = "delete" /\ st.start = 0 /\ st.target = q
  BY IdleRequest DEF RequestState
<1>2. UNCHANGED <<time, account, lastAdmin>>
  BY DEF DeleteRead
<1>3. CASE Finish(r)
  BY <1>2, <1>3, IdleGoes
<1>4. CASE HasAccount(account[q]) /\ account[q].role # "admin" /\ Becomes(r, st)
  <2> HIDE DEF st
  <2>1. request' = [request EXCEPT ![r] = st]
    BY <1>4 DEF Becomes
  <2>2. request'[r] = st
    BY <2>1 DEF AInv, AccessShape
  <2>3. RequestInv(r)'
    BY <1>1, <1>2, <1>4, <2>2 DEF RequestInv, At, AInv, AccessShape
  <2> QED BY <1>1, <2>1, <2>2, <2>3 DEF RequestGoes
<1> QED BY <1>3, <1>4 DEF DeleteRead

-----------------------------------------------------------------------------
(* The invariant.                                                          *)

\* Every step moves at most one handler.
LEMMA StepRequests ==
    ASSUME AInv, [AccessNext]_accessVars
    PROVE  \/ request' = request
           \/ request' = [r \in Request |-> NoRequest]
           \/ \E r \in Request : RequestGoes(r)
<1>1. ASSUME NEW r \in Request, LoginDenied(r) \/ LoginCommit(r) \/ DeleteCommit(r)
      PROVE  RequestGoes(r)
  <2>1. Finish(r) /\ time' = time
    BY <1>1 DEF LoginDenied, LoginCommit, DeleteCommit
  <2> QED BY <2>1, IdleGoes
<1>2. ASSUME NEW r \in Request, RoleRead(r) \/ RoleStore(r) PROVE RequestGoes(r)
  BY <1>2, RoleReadGoes, RoleStoreGoes
<1>3. ASSUME NEW r \in Request, NEW p \in Person, LoginRead(r, p) \/ DeleteRead(r, p)
      PROVE  RequestGoes(r)
  BY <1>3, LoginReadGoes, DeleteReadGoes
<1>4. ASSUME NEW r \in Request, NEW p \in Person, AdminCheck(r, p)
      PROVE  RequestGoes(r) \/ request' = request
  BY <1>4, AdminCheckGoes
<1>5. ASSUME NEW p \in Person, Logout(p) \/ UserRequest(p) \/ Demote(p)
      PROVE  request' = request
  BY <1>5 DEF Logout, UserRequest, Demote
<1>6. CASE RestartServer
  BY <1>6 DEF RestartServer
<1>7. CASE AccessTick \/ UNCHANGED accessVars
  BY <1>7 DEF AccessTick, accessVars
<1> QED BY <1>1, <1>2, <1>3, <1>4, <1>5, <1>6, <1>7 DEF AccessNext

\* An answer is stored in the cache with the expiry of its request.
LEMMA RoleStoreEntry ==
    ASSUME AInv, NEW r \in Request, RoleStore(r), NEW p \in Person, request[r].who = p
    PROVE  /\ cache' = [cache EXCEPT ![p] = cache'[p]]
           /\ cache'[p] \in Entry /\ EntryInv(p)'
<1> DEFINE e == [role |-> Role(request[r].seen), expires |-> request[r].start + RoleTtl]
<1>1. /\ p \in Person /\ request[r].seen \in Account
      /\ RoleTtl \in Nat \ {0} /\ request[r].start \in Int /\ time \in Nat
  BY AccessAssumption DEF AInv, AccessShape, RequestState
<1>2. cache' = [cache EXCEPT ![p] = e] /\ UNCHANGED <<time, account, lastAdmin>>
  BY DEF RoleStore, RoleExpiry
<1>3. cache'[p] = e
  BY <1>1, <1>2 DEF AInv, AccessShape
<1>4. e \in Entry
  <2>1. Role(request[r].seen) \in {"admin", "user", "guest"}
    BY <1>1 DEF Role, Active, HasAccount, Account, Row
  <2> QED BY <1>1, <2>1 DEF Entry
<1>5. EntryInv(p)'
  <2>1. request[r].start <= time
    BY DEF AInv, RequestInv
  <2>2. e.role = "admin" => AdminSince(p, request[r].start)
    <3>1. e.role = "admin" => IsAdmin(request[r].seen)
      BY DEF Role, IsAdmin, Active
    <3> QED BY <3>1 DEF RoleStore, AInv, RequestInv
  <2>3. e.expires - RoleTtl = request[r].start /\ e.expires <= time + RoleTtl
    BY <1>1, <2>1
  <2> HIDE DEF e
  <2> DEFINE t == request[r].start
  <2>4. e.role = "admin" => IsAdmin(account'[p]) \/ t <= lastAdmin'[p]
    BY <1>2, <2>2 DEF AdminSince
  <2>5. e.expires <= time' + RoleTtl /\ e.expires - RoleTtl = t
    BY <1>2, <2>3
  <2> HIDE DEF t
  <2> QED BY <1>3, <2>4, <2>5 DEF EntryInv, AdminSince
<1> QED BY <1>2, <1>3, <1>4, <1>5

\* Every step stores at most one answer.
LEMMA StepCache ==
    ASSUME AInv, [AccessNext]_accessVars
    PROVE  \/ cache' = cache
           \/ \E p \in Person : cache' = [cache EXCEPT ![p] = NoEntry]
           \/ cache' = [p \in Person |-> NoEntry]
           \/ \E p \in Person : /\ cache' = [cache EXCEPT ![p] = cache'[p]]
                                /\ cache'[p] \in Entry /\ EntryInv(p)'
<1>1. ASSUME NEW r \in Request, RoleStore(r)
      PROVE  \E p \in Person : /\ cache' = [cache EXCEPT ![p] = cache'[p]]
                               /\ cache'[p] \in Entry /\ EntryInv(p)'
  <2>1. request[r].who \in Person
    BY DEF AInv, AccessShape, RequestState
  <2> QED BY <1>1, <2>1, RoleStoreEntry
<1>2. ASSUME NEW r \in Request, DeleteCommit(r)
      PROVE  \E p \in Person : cache' = [cache EXCEPT ![p] = NoEntry]
  <2>1. request[r].target \in Person
    BY DEF AInv, AccessShape, RequestState
  <2> QED BY <1>2, <2>1 DEF DeleteCommit
<1>3. ASSUME NEW p \in Person, UserRequest(p)
      PROVE  cache' = cache \/ cache' = [cache EXCEPT ![p] = NoEntry]
  BY <1>3 DEF UserRequest
<1>4. CASE RestartServer
  BY <1>4 DEF RestartServer
<1>5. \/ \E r \in Request : RoleStore(r) \/ DeleteCommit(r)
      \/ \E p \in Person : UserRequest(p)
      \/ RestartServer
      \/ cache' = cache
  BY DEF AccessNext, accessVars, LoginDenied, LoginCommit, RoleRead, LoginRead, AdminCheck,
         DeleteRead, Logout, Demote, AccessTick
<1> QED BY <1>1, <1>2, <1>3, <1>4, <1>5

\* The clock does not go back.
LEMMA StepTime ==
    ASSUME AInv, [AccessNext]_accessVars
    PROVE  time' \in Nat /\ time <= time'
<1>1. time' = time \/ (time' = time + 1)
  BY DEF AccessNext, accessVars, LoginDenied, LoginCommit, RoleRead, RoleStore, DeleteCommit,
         LoginRead, AdminCheck, DeleteRead, Logout, UserRequest, Demote, RestartServer, AccessTick
<1> QED BY <1>1 DEF AInv, AccessShape

\* Accounts stay of their type.
LEMMA StepAccounts ==
    ASSUME AInv, [AccessNext]_accessVars
    PROVE  account' \in [Person -> Account] /\ lastAdmin' \in [Person -> Int]
<1>1. \/ account' = account
      \/ \E p \in Person : account' = [account EXCEPT ![p] = account'[p]]
  <2>1. ASSUME NEW r \in Request, LoginCommit(r) \/ DeleteCommit(r)
        PROVE  \/ account' = account
               \/ \E p \in Person : account' = [account EXCEPT ![p] = account'[p]]
    <3>1. request[r].who \in Person /\ request[r].target \in Person
      BY DEF AInv, AccessShape, RequestState
    <3> QED BY <2>1, <3>1 DEF LoginCommit, DeleteCommit, AInv, AccessShape
  <2>2. ASSUME NEW p \in Person, Demote(p)
        PROVE  account' = [account EXCEPT ![p] = account'[p]]
    BY <2>2 DEF Demote, AInv, AccessShape
  <2> QED BY <2>1, <2>2 DEF AccessNext, accessVars, LoginDenied, RoleRead, RoleStore, LoginRead,
          AdminCheck, DeleteRead, Logout, UserRequest, RestartServer, AccessTick
<1>2. \A p \in Person : account'[p] \in Account
  BY StepSteady
<1>3. lastAdmin' = lastAdmin \/ \E p \in Person : lastAdmin' = [lastAdmin EXCEPT ![p] = time]
  BY DEF AccessNext, accessVars, LoginDenied, LoginCommit, RoleRead, RoleStore, DeleteCommit,
         LoginRead, AdminCheck, DeleteRead, Logout, UserRequest, Demote, RestartServer, AccessTick
<1> QED BY <1>1, <1>2, <1>3 DEF AInv, AccessShape

\* Every step keeps the invariant.
LEMMA StepAInv == ASSUME AInv, [AccessNext]_accessVars PROVE AInv'
<1>1. time' \in Nat /\ time <= time'
  BY StepTime
<1>2. account' \in [Person -> Account] /\ lastAdmin' \in [Person -> Int]
  BY StepAccounts
<1>3. \A p \in Person : Steady(p)
  BY StepSteady
<1>4. cache' \in [Person -> Entry \cup {NoEntry}] /\ \A p \in Person : EntryInv(p)'
  <2>1. ASSUME NEW p \in Person, cache'[p] \in {cache[p], NoEntry} PROVE EntryInv(p)'
    BY <1>1, <1>3, <2>1, EntryKept DEF AInv
  <2>2. CASE cache' = cache \/ cache' = [p \in Person |-> NoEntry]
    BY <2>1, <2>2 DEF AInv, AccessShape
  <2>3. ASSUME NEW q \in Person, cache' = [cache EXCEPT ![q] = NoEntry]
        PROVE  cache' \in [Person -> Entry \cup {NoEntry}] /\ \A p \in Person : EntryInv(p)'
    BY <2>1, <2>3 DEF AInv, AccessShape
  <2>4. ASSUME NEW q \in Person, cache' = [cache EXCEPT ![q] = cache'[q]],
               cache'[q] \in Entry, EntryInv(q)'
        PROVE  cache' \in [Person -> Entry \cup {NoEntry}] /\ \A p \in Person : EntryInv(p)'
    <3>1. \A p \in Person \ {q} : cache'[p] = cache[p]
      BY <2>4 DEF AInv, AccessShape
    <3>2. cache' \in [Person -> Entry \cup {NoEntry}]
      BY <2>4 DEF AInv, AccessShape
    <3> QED BY <2>1, <2>4, <3>1, <3>2
  <2> QED BY <2>2, <2>3, <2>4, StepCache
<1>5. request' \in [Request -> RequestState] /\ \A r \in Request : RequestInv(r)'
  <2>1. ASSUME NEW r \in Request, request'[r] = request[r] PROVE RequestInv(r)'
    BY <1>1, <1>3, <2>1, RequestKept DEF AInv
  <2>2. CASE request' = request
    BY <2>1, <2>2 DEF AInv, AccessShape
  <2>3. CASE request' = [r \in Request |-> NoRequest]
    BY <1>1, <2>3, IdleRequest DEF RequestInv, At
  <2>4. ASSUME NEW q \in Request, RequestGoes(q)
        PROVE  request' \in [Request -> RequestState] /\ \A r \in Request : RequestInv(r)'
    <3>1. \A r \in Request \ {q} : request'[r] = request[r]
      BY <2>4 DEF RequestGoes, AInv, AccessShape
    <3>2. request' \in [Request -> RequestState]
      BY <2>4 DEF RequestGoes, AInv, AccessShape
    <3> QED BY <2>1, <2>4, <3>1, <3>2 DEF RequestGoes
  <2> QED BY <2>2, <2>3, <2>4, StepRequests
<1> QED BY <1>1, <1>2, <1>4, <1>5 DEF AInv, AccessShape

\* What is known of roles and handlers in every reachable state.
THEOREM AInvHolds == AccessSpec => []AInv
BY InitAInv, StepAInv, PTL DEF AccessSpec

-----------------------------------------------------------------------------
(* The results.                                                            *)

\* An admin request is granted only to somebody who is an active admin or was
\* one less than RoleTtl before the request began (require_admin_async).
THEOREM RolesExpire == AccessSpec => []RevokedWithinTtl
<1>1. AInv => RevokedWithinTtl
  BY DEF AInv, RequestInv, RevokedWithinTtl
<1> QED BY <1>1, AInvHolds, PTL

\* No login and nothing else brings a deactivated account back
\* (get_or_create_google_user, admin_delete_user).
THEOREM StaysDeactivated == AccessSpec => DeactivationLasts
<1>1. AInv /\ [AccessNext]_accessVars =>
        [\A p \in Person : HasAccount(account[p]) /\ ~account[p].active =>
             HasAccount(account'[p]) /\ ~account'[p].active]_accessVars
  BY StepSteady DEF Steady
<1> QED BY <1>1, AInvHolds, PTL DEF AccessSpec, DeactivationLasts

\* The clock stays within its bound, and cookies belong to persons.
LEMMA AccessBounds ==
    ASSUME AInv, time \in 0 .. LastTime, cookie \subseteq Person, [AccessNext]_accessVars
    PROVE  time' \in 0 .. LastTime /\ cookie' \subseteq Person
<1>1. time' \in 0 .. LastTime
  <2>1. time' = time \/ (time < LastTime /\ time' = time + 1)
    BY DEF AccessNext, accessVars, LoginDenied, LoginCommit, RoleRead, RoleStore, DeleteCommit,
           LoginRead, AdminCheck, DeleteRead, Logout, UserRequest, Demote, RestartServer, AccessTick
  <2> QED BY <2>1, AccessAssumption
<1>2. cookie' \subseteq Person
  <2>1. \A r \in Request : request[r].who \in Person
    BY DEF AInv, AccessShape, RequestState
  <2> QED BY <2>1 DEF AccessNext, accessVars, LoginDenied, LoginCommit, RoleRead, RoleStore,
           DeleteCommit, LoginRead, AdminCheck, DeleteRead, Logout, UserRequest, Demote,
           RestartServer, AccessTick
<1> QED BY <1>1, <1>2

\* The type invariant of Access.
THEOREM AccessTypes == AccessSpec => []AccessTypeOK
<1>1. AccessInit => time \in 0 .. LastTime /\ cookie \subseteq Person
  BY AccessAssumption DEF AccessInit
<1>2. AInv /\ (time \in 0 .. LastTime /\ cookie \subseteq Person) /\ [AccessNext]_accessVars =>
          (time \in 0 .. LastTime /\ cookie \subseteq Person)'
  BY AccessBounds
<1>3. AInv /\ time \in 0 .. LastTime /\ cookie \subseteq Person => AccessTypeOK
  BY DEF AInv, AccessShape, AccessTypeOK
<1> QED BY <1>1, <1>2, <1>3, AInvHolds, PTL DEF AccessSpec

-----------------------------------------------------------------------------
(* Cached numbers.  A request that stores later than the queries it made   *)
(* is dangerous in two ways; both are excluded by what is known of it      *)
(* between the two: which changes it has seen, and when it began.          *)

SomePayload == [seen : Nat, asOf : Nat, expires : Nat]
SomeReading ==
    [pc : {"idle", "begun", "queried"}, page : Page, start : Nat, seen : Nat, asOf : Nat]

\* The types, without the bounds of the model.
StatsShape ==
    /\ clock \in Nat /\ changes \in Nat /\ told \in Nat
    /\ cached \in [Page -> SomePayload \cup {Nothing}]
    /\ reading \in [Reader -> SomeReading]
    /\ clicking \in [Clicker -> Nat]

\* Nobody has been told of a change that is not committed, and every payload
\* of the dashboard, stored or about to be, counts what the user was told of.
Counted ==
    /\ told <= changes
    /\ \A c \in Clicker : clicking[c] <= changes
    /\ \A r \in Reader :
          reading[r].pc = "queried" /\ reading[r].page = "user" => reading[r].seen >= told
    /\ cached["user"] # Nothing => cached["user"].seen >= told

\* A request under way began at most QueryTime ago, and its queries after it.
ReaderInTime(r) ==
    /\ reading[r].pc # "idle" => reading[r].start <= clock /\ clock <= reading[r].start + QueryTime
    /\ reading[r].pc = "queried" => reading[r].start <= reading[r].asOf /\ reading[r].asOf <= clock

\* No payload expires later than its age allows.
Stamped ==
    /\ cached["public"] # Nothing => cached["public"].expires <= cached["public"].asOf + PublicTtl
    /\ cached["user"] # Nothing => cached["user"].expires <= cached["user"].asOf + UserTtl + QueryTime

Aged == Stamped /\ \A r \in Reader : ReaderInTime(r)

CInv == StatsShape /\ Counted /\ Aged

-----------------------------------------------------------------------------
\* What is known of the times to live.
LEMMA StatsConstants ==
    /\ UserTtl \in Nat /\ PublicTtl \in Nat /\ QueryTime \in Nat
    /\ Page = {"user", "public"} /\ NotReading \in SomeReading /\ NotReading.pc = "idle"
BY StatsAssumption DEF Page, NotReading, SomeReading

\* Nothing is cached at the start.
LEMMA InitCInv == StatsInit => CInv
BY StatsConstants DEF StatsInit, CInv, StatsShape, Counted, Aged, Stamped, ReaderInTime, SomePayload

\* A request begins, makes its first query or fails.
LEMMA ReaderMoves ==
    ASSUME CInv, NEW r \in Reader, NEW new \in SomeReading,
           reading' = [reading EXCEPT ![r] = new],
           UNCHANGED <<clock, changes, cached, clicking, told>>,
           new.pc = "queried" => /\ new.page = "user" => new.seen >= told
                                 /\ new.start <= new.asOf /\ new.asOf <= clock,
           new.pc # "idle" => new.start <= clock /\ clock <= new.start + QueryTime
    PROVE  CInv'
<1>1. StatsShape'
  BY DEF CInv, StatsShape
<1>2. \A s \in Reader : reading'[s] = IF s = r THEN new ELSE reading[s]
  BY DEF CInv, StatsShape
<1>3. Counted'
  BY <1>2 DEF CInv, Counted
<1>4. Aged'
  BY <1>2 DEF CInv, Aged, Stamped, ReaderInTime
<1> QED BY <1>1, <1>3, <1>4 DEF CInv

\* A request goes on to the database.
LEMMA MissCInv == ASSUME CInv, NEW r \in Reader, NEW page \in Page, Miss(r, page) PROVE CInv'
<1> DEFINE new == [NotReading EXCEPT !.pc = "begun", !.page = page, !.start = clock]
<1>1. new \in SomeReading /\ new.pc = "begun" /\ new.start = clock
  BY DEF CInv, StatsShape, NotReading, SomeReading
<1>2. clock <= clock + QueryTime /\ clock <= clock
  BY StatsConstants DEF CInv, StatsShape
<1>3. reading' = [reading EXCEPT ![r] = new] /\ UNCHANGED <<clock, changes, cached, clicking, told>>
  BY DEF Miss
<1> HIDE DEF new
<1> QED BY <1>1, <1>2, <1>3, ReaderMoves

\* Its first query sees every change committed so far.
LEMMA QueryCInv == ASSUME CInv, NEW r \in Reader, Query(r) PROVE CInv'
<1> DEFINE new == [reading[r] EXCEPT !.pc = "queried", !.seen = changes, !.asOf = clock]
<1>1. reading[r] \in SomeReading
  BY DEF CInv, StatsShape
<1>2. new \in SomeReading /\ new.pc = "queried" /\ new.start = reading[r].start
      /\ new.seen = changes /\ new.asOf = clock
  BY <1>1 DEF CInv, StatsShape, SomeReading
<1>3. reading' = [reading EXCEPT ![r] = new]
  BY <1>1 DEF Query, CInv, StatsShape, SomeReading
<1>4. reading[r].start <= clock /\ clock <= reading[r].start + QueryTime /\ clock <= clock
  BY DEF CInv, StatsShape, Aged, ReaderInTime, Query
<1>5. changes >= told
  BY DEF CInv, StatsShape, Counted
<1> HIDE DEF new
<1> QED BY <1>2, <1>3, <1>4, <1>5, ReaderMoves DEF Query

\* A query fails.
LEMMA FailCInv == ASSUME CInv, NEW r \in Reader, Fail(r) PROVE CInv'
BY StatsConstants, ReaderMoves DEF Fail

\* A payload is stored: it has seen enough, and its stamp is not too late.
LEMMA StoreCInv == ASSUME CInv, NEW r \in Reader, Store(r) PROVE CInv'
<1> DEFINE page == reading[r].page
           new == [seen |-> reading[r].seen, asOf |-> reading[r].asOf, expires |-> StatsExpiry(r)]
<1>1. reading[r] \in SomeReading /\ page \in Page
  BY DEF CInv, StatsShape, SomeReading
<1>2. StatsExpiry(r) \in Nat
  BY <1>1, StatsConstants DEF StatsExpiry, CInv, StatsShape, SomeReading
<1>3. new \in SomePayload
  BY <1>1, <1>2 DEF SomePayload, SomeReading
<1>4. cached' = [cached EXCEPT ![page] = new] /\ reading' = [reading EXCEPT ![r] = NotReading]
      /\ UNCHANGED <<clock, changes, clicking, told>>
  BY DEF Store
<1>5. page = "user" => new.seen >= told /\ new.expires <= new.asOf + UserTtl + QueryTime
  BY <1>1, StatsConstants
     DEF Store, StatsExpiry, CInv, StatsShape, Counted, Aged, ReaderInTime, SomeReading
<1>6. page = "public" => new.expires <= new.asOf + PublicTtl
  BY <1>1, StatsConstants DEF Store, StatsExpiry, CInv, StatsShape, Aged, ReaderInTime, SomeReading
<1> HIDE DEF new, page
<1>7. \A s \in Reader : reading'[s] = IF s = r THEN NotReading ELSE reading[s]
  BY <1>4 DEF CInv, StatsShape
<1>8. \A q \in Page : cached'[q] = IF q = page THEN new ELSE cached[q]
  BY <1>4 DEF CInv, StatsShape
<1>9. StatsShape'
  BY <1>1, <1>3, <1>4, StatsConstants DEF CInv, StatsShape
<1>10. Counted'
  BY <1>4, <1>5, <1>7, <1>8, StatsConstants DEF CInv, Counted
<1>11. Stamped'
  BY <1>4, <1>5, <1>6, <1>8, StatsConstants DEF CInv, Aged, Stamped
<1>12. \A s \in Reader : ReaderInTime(s)'
  BY <1>4, <1>7, StatsConstants DEF CInv, Aged, ReaderInTime
<1> QED BY <1>9, <1>10, <1>11, <1>12 DEF CInv, Aged

\* A change is committed, by a click or elsewhere.
LEMMA ChangeCInv ==
    ASSUME CInv, (\E c \in Clicker : CommitClick(c)) \/ ChangeElsewhere
    PROVE  CInv'
<1>1. changes' = changes + 1 /\ UNCHANGED <<clock, cached, reading, told>>
  BY DEF CommitClick, ChangeElsewhere
<1>2. clicking' \in [Clicker -> Nat] /\ \A c \in Clicker : clicking'[c] \in {clicking[c], changes'}
  BY <1>1 DEF CommitClick, ChangeElsewhere, CInv, StatsShape
<1>3. StatsShape'
  BY <1>1, <1>2 DEF CInv, StatsShape
<1>4. Counted'
  BY <1>1, <1>2 DEF CInv, StatsShape, Counted
<1>5. Aged'
  BY <1>1 DEF CInv, Aged, Stamped, ReaderInTime
<1> QED BY <1>3, <1>4, <1>5 DEF CInv

\* The user's payload is dropped before the click is answered.
LEMMA FinishClickCInv == ASSUME CInv, NEW c \in Clicker, FinishClick(c) PROVE CInv'
<1>1. cached' = [cached EXCEPT !["user"] = Nothing] /\ UNCHANGED <<clock, changes, reading>>
  BY DEF FinishClick, Invalidated
<1>2. cached'["user"] = Nothing /\ cached'["public"] = cached["public"]
  BY <1>1, StatsConstants DEF CInv, StatsShape
<1>3. told' \in Nat /\ told' <= changes
  BY DEF FinishClick, CInv, StatsShape, Counted
<1>4. ASSUME NEW r \in Reader, reading[r].pc = "queried", reading[r].page = "user"
      PROVE  reading[r].seen >= told'
  <2>1. reading[r].seen \in Nat /\ clicking[c] \in Nat /\ reading[r].seen >= told
    BY <1>4 DEF CInv, StatsShape, SomeReading, Counted
  <2>2. CASE told' = told
    BY <2>1, <2>2
  <2>3. CASE told' = clicking[c] /\ ~Overtaken(c)
    BY <1>4, <2>1, <2>3 DEF Overtaken
  <2> QED BY <2>2, <2>3 DEF FinishClick
<1>5. clicking' \in [Clicker -> Nat] /\ \A d \in Clicker : clicking'[d] \in {clicking[d], 0}
  BY DEF FinishClick, CInv, StatsShape
<1>6. StatsShape'
  BY <1>1, <1>3, <1>5, StatsConstants DEF CInv, StatsShape
<1>7. Counted'
  BY <1>1, <1>2, <1>3, <1>4, <1>5 DEF CInv, StatsShape, Counted
<1>8. Aged'
  BY <1>1, <1>2 DEF CInv, Aged, Stamped, ReaderInTime
<1> QED BY <1>6, <1>7, <1>8 DEF CInv

\* Time passes only while every request is within its QueryTime.
LEMMA TickCInv == ASSUME CInv, StatsTick PROVE CInv'
<1>1. clock' = clock + 1 /\ UNCHANGED <<changes, cached, reading, clicking, told>>
  BY DEF StatsTick
<1>2. ASSUME NEW r \in Reader PROVE ReaderInTime(r)'
  <2>1. reading[r] \in SomeReading /\ clock \in Nat /\ QueryTime \in Nat
    BY StatsConstants DEF CInv, StatsShape
  <2>2. reading[r].pc # "idle" => clock < reading[r].start + QueryTime
    BY DEF StatsTick
  <2> QED BY <1>1, <2>1, <2>2 DEF CInv, Aged, ReaderInTime, SomeReading
<1>3. StatsShape' /\ Counted' /\ Stamped'
  BY <1>1 DEF CInv, StatsShape, Counted, Aged, Stamped
<1> QED BY <1>2, <1>3 DEF CInv, Aged

\* Every step keeps the invariant.
LEMMA StepCInv == CInv /\ [StatsNext]_statsVars => CInv'
<1> SUFFICES ASSUME CInv, [StatsNext]_statsVars PROVE CInv'
  OBVIOUS
<1>1. CASE UNCHANGED statsVars
  BY <1>1 DEF statsVars, CInv, StatsShape, Counted, Aged, Stamped, ReaderInTime
<1>2. CASE StatsNext
  BY <1>2, MissCInv, QueryCInv, FailCInv, StoreCInv, ChangeCInv, FinishClickCInv, TickCInv
     DEF StatsNext
<1> QED BY <1>1, <1>2

\* What is known of the caches in every reachable state.
THEOREM CInvHolds == StatsSpec => []CInv
BY InitCInv, StepCInv, PTL DEF StatsSpec

-----------------------------------------------------------------------------
\* The numbers of the dashboard count every click that its user was told of,
\* however requests and clicks overlap: a payload is invalidated with every
\* click, and one that a request still holds is newer than what was told
\* (get_stats, invalidate_stats_cache).
THEOREM CountsClicks == StatsSpec => []ClicksAreVisible
<1>1. CInv => ClicksAreVisible
  BY DEF CInv, Counted, ClicksAreVisible, Served
<1> QED BY <1>1, CInvHolds, PTL

\* No payload is served beyond its age: the stamp of the public page is taken
\* before the queries, that of the dashboard within QueryTime of them
\* (get_public_stats, get_stats).
THEOREM ServesNothingOld == StatsSpec => []PayloadAge
<1>1. ASSUME CInv PROVE PayloadAge
  <2>1. clock \in Nat /\ \A page \in Page : cached[page] # Nothing => cached[page] \in SomePayload
    BY <1>1 DEF CInv, StatsShape
  <2>2. Served("public") => clock - cached["public"].asOf < PublicTtl
    <3>1. SUFFICES ASSUME Served("public") PROVE clock - cached["public"].asOf < PublicTtl
      OBVIOUS
    <3>2. cached["public"].asOf \in Nat /\ cached["public"].expires \in Nat
      BY <2>1, <3>1, StatsConstants DEF Served, SomePayload
    <3> QED BY <1>1, <2>1, <3>1, <3>2, StatsConstants DEF CInv, Aged, Stamped, Served
  <2>3. Served("user") => clock - cached["user"].asOf < UserTtl + QueryTime
    <3>1. SUFFICES ASSUME Served("user") PROVE clock - cached["user"].asOf < UserTtl + QueryTime
      OBVIOUS
    <3>2. cached["user"].asOf \in Nat /\ cached["user"].expires \in Nat
      BY <2>1, <3>1, StatsConstants DEF Served, SomePayload
    <3> QED BY <1>1, <2>1, <3>1, <3>2, StatsConstants DEF CInv, Aged, Stamped, Served
  <2> QED BY <2>2, <2>3 DEF PayloadAge
<1> QED BY <1>1, CInvHolds, PTL

\* Every step keeps the types, bounds included.
LEMMA StatsTypesStep == StatsTypeOK /\ [StatsNext]_statsVars => StatsTypeOK'
<1> SUFFICES ASSUME StatsTypeOK, [StatsNext]_statsVars PROVE StatsTypeOK'
  OBVIOUS
<1> USE StatsAssumption
<1>1. NotReading \in ReadingState
  BY DEF NotReading, ReadingState, Page
<1>2. ASSUME NEW r \in Reader, \/ \E page \in Page : Miss(r, page)
                              \/ Query(r) \/ Fail(r)
      PROVE  StatsTypeOK'
  <2>1. reading[r] \in ReadingState
    BY DEF StatsTypeOK
  <2>2. \E new \in ReadingState : reading' = [reading EXCEPT ![r] = new]
    <3>1. ASSUME NEW page \in Page, Miss(r, page)
          PROVE  \E new \in ReadingState : reading' = [reading EXCEPT ![r] = new]
      <4>1. [NotReading EXCEPT !.pc = "begun", !.page = page, !.start = clock] \in ReadingState
        BY <1>1 DEF ReadingState, StatsTypeOK
      <4> QED BY <3>1, <4>1 DEF Miss
    <3>2. CASE Query(r)
      <4> DEFINE new == [reading[r] EXCEPT !.pc = "queried", !.seen = changes, !.asOf = clock]
      <4>1. new \in ReadingState
        BY <2>1 DEF ReadingState, StatsTypeOK
      <4>2. reading' = [reading EXCEPT ![r] = new]
        BY <2>1, <3>2 DEF Query, StatsTypeOK, ReadingState
      <4> QED BY <4>1, <4>2
    <3>3. CASE Fail(r)
      BY <1>1, <3>3 DEF Fail
    <3> QED BY <1>2, <3>1, <3>2, <3>3
  <2>3. UNCHANGED <<clock, changes, cached, clicking, told>>
    BY <1>2 DEF Miss, Query, Fail
  <2> QED BY <2>2, <2>3 DEF StatsTypeOK
<1>3. ASSUME NEW r \in Reader, Store(r) PROVE StatsTypeOK'
  <2> DEFINE new == [seen |-> reading[r].seen, asOf |-> reading[r].asOf, expires |-> StatsExpiry(r)]
  <2>1. reading[r] \in ReadingState
    BY DEF StatsTypeOK
  <2>2. new \in Payload /\ reading[r].page \in Page
    <3>1. StatsExpiry(r) \in 0 .. LastTick + UserTtl + PublicTtl
      BY <2>1 DEF ReadingState, StatsExpiry, StatsTypeOK
    <3> QED BY <2>1, <3>1 DEF ReadingState, Payload
  <2>3. cached' \in [Page -> Payload \cup {Nothing}]
    BY <1>3, <2>2 DEF Store, StatsTypeOK
  <2>4. reading' \in [Reader -> ReadingState]
    BY <1>1, <1>3 DEF Store, StatsTypeOK
  <2> QED BY <1>3, <2>3, <2>4 DEF Store, StatsTypeOK
<1>4. ASSUME NEW c \in Clicker, CommitClick(c) \/ FinishClick(c) PROVE StatsTypeOK'
  BY <1>4 DEF StatsTypeOK, CommitClick, FinishClick, Invalidated
<1>5. CASE ChangeElsewhere \/ StatsTick \/ UNCHANGED statsVars
  BY <1>5 DEF StatsTypeOK, ChangeElsewhere, StatsTick, statsVars
<1> QED BY <1>2, <1>3, <1>4, <1>5 DEF StatsNext

\* The type invariant of StatsCache.
THEOREM StatsTypes == StatsSpec => []StatsTypeOK
<1>1. StatsInit => StatsTypeOK
  BY StatsAssumption DEF StatsInit, StatsTypeOK, NotReading, ReadingState, Page
<1> QED BY <1>1, StatsTypesStep, PTL DEF StatsSpec
=============================================================================
