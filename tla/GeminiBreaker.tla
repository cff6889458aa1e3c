--------------------------- MODULE GeminiBreaker ---------------------------
(***************************************************************************)
(* The path of every bulk Gemini request: app/scoring/gemini_matcher.py.   *)
(*                                                                         *)
(* Scans, the watchlist, the backfill and user searches call               *)
(* _call_gemini_raw at the same time in one event loop.  A step ends where *)
(* the code awaits.  The breaker lives in the process; the booked requests *)
(* are rows of ops_events and survive a restart.  Time is the number of    *)
(* the quota day, which changes at 08:00 UTC.                              *)
(***************************************************************************)
EXTENDS Integers

CONSTANTS
    Caller,        \* concurrent calls of _call_gemini_raw
    Limit,         \* gemini_daily_request_limit
    Attempts,      \* stop_after_attempt: 5 in the code
    Threshold,     \* _BREAKER_TRIP_THRESHOLD: 3 in the code
    LastDay,       \* bound on the quota days
    MaxRestarts    \* bound on restarts

ASSUME GeminiAssumption ==
    /\ Limit \in Nat /\ LastDay \in Nat /\ MaxRestarts \in Nat
    /\ Attempts \in Nat \ {0} /\ Threshold \in Nat \ {0}

Closed == -1       \* _gemini_disabled_until is None

VARIABLES
    day,           \* the current quota day
    booked,        \* booked[d]: "gemini_request" rows created on day d
    until,         \* _gemini_disabled_until: the day it ends, or Closed
    exhausts,      \* _consecutive_exhausts
    call,          \* call[c]: where a call of _call_gemini_raw is
    restarts,      \* how often the process was restarted
    sent,          \* history: sent[d] requests reached Gemini on day d
    failedInARow   \* history: batches exhausted since the last success

breaker == <<until, exhausts, failedInARow>>
vars    == <<day, booked, breaker, call, restarts, sent>>

Day == 0 .. LastDay

\* from is the day of the claim: first the day whose start _last_reset_time
\* returned, then the day on which its transaction began.
CallState == [pc : {"idle", "waiting", "counting", "granted", "refused",
                    "pacing", "calling", "backoff", "exhausted", "quota"},
              attempt : 0 .. Attempts, from : Day]

Idle == [pc |-> "idle", attempt |-> 0, from |-> 0]

Init ==
    /\ day = 0
    /\ booked = [d \in Day |-> 0]
    /\ until = Closed /\ exhausts = 0 /\ failedInARow = 0
    /\ call = [c \in Caller |-> Idle]
    /\ restarts = 0
    /\ sent = [d \in Day |-> 0]

-----------------------------------------------------------------------------
Open    == until # Closed /\ day < until
Expired == until # Closed /\ day >= until

\* is_gemini_available closes a breaker whose time is over.
Available == ~Open
Checked   == until' = IF Expired THEN Closed ELSE until

\* Mutant of SemaphoreFree: calls are not serialised.
SemaphoreIgnored == TRUE

\* _gemini_semaphore is held from the claim of a slot to the reply.
Holds(c)      == call[c].pc \in {"counting", "granted", "refused", "pacing", "calling"}
SemaphoreFree == \A c \in Caller : ~Holds(c)

\* _record_exhaust: under _breaker_lock, without an await before the write.
\* The breaker opens until the next reset after the present moment.
RecordExhaust(count) ==
    /\ exhausts' = count
    /\ until' = IF count >= Threshold /\ until = Closed THEN day + 1 ELSE until

-----------------------------------------------------------------------------
\* _call_gemini_raw: the breaker is looked at here and never again.
Start(c) ==
    /\ call[c].pc = "idle" /\ Available
    /\ Checked
    /\ call' = [call EXCEPT ![c] = [pc |-> "waiting", attempt |-> 1, from |-> 0]]
    /\ UNCHANGED <<day, booked, exhausts, failedInARow, restarts, sent>>

\* A scan that only asks is_gemini_available to choose its scorer.
Poll ==
    /\ Expired
    /\ Checked
    /\ UNCHANGED <<day, booked, exhausts, failedInARow, call, restarts, sent>>

\* The semaphore is taken and _claim_daily_request_slot computes the start
\* of the quota day; a limit of zero refuses at once.
Acquire(c) ==
    /\ call[c].pc = "waiting" /\ SemaphoreFree
    /\ call' = [call EXCEPT ![c].pc = IF Limit = 0 THEN "refused" ELSE "counting",
                           ![c].from = day]
    /\ UNCHANGED <<day, booked, breaker, restarts, sent>>

\* Rows created since the start of that day; the day may end meanwhile.
Used(from) == booked[from] + IF day > from THEN booked[day] ELSE 0

\* Mutant of CountSlots: one slot too many is granted.
CountSlotsInclusive(c) ==
    /\ call[c].pc = "counting"
    /\ call' = [call EXCEPT ![c].from = day, ![c].pc =
                  IF Used(call[c].from) > Limit THEN "refused" ELSE "granted"]
    /\ UNCHANGED <<day, booked, breaker, restarts, sent>>

\* SELECT count(*) opens the transaction of the claim.
CountSlots(c) ==
    /\ call[c].pc = "counting"
    /\ call' = [call EXCEPT ![c].from = day, ![c].pc =
                  IF Used(call[c].from) >= Limit THEN "refused" ELSE "granted"]
    /\ UNCHANGED <<day, booked, breaker, restarts, sent>>

\* The row is committed before the request is sent; created_at is now(), the
\* time at which the transaction began.
BookSlot(c) ==
    /\ call[c].pc = "granted"
    /\ booked' = [booked EXCEPT ![call[c].from] = @ + 1]
    /\ call' = [call EXCEPT ![c].pc = "pacing"]
    /\ UNCHANGED <<day, breaker, restarts, sent>>

\* The claim fails: a pool timeout is retryable by its name, else give up.
ClaimFails(c) ==
    /\ call[c].pc \in {"counting", "granted"}
    /\ \/ call' = [call EXCEPT ![c] = Idle]
       \/ call' = [call EXCEPT ![c].pc =
                     IF call[c].attempt < Attempts THEN "backoff" ELSE "exhausted"]
    /\ UNCHANGED <<day, booked, breaker, restarts, sent>>

\* Mutant of Refuse: the early return leaves the semaphore taken.
RefuseHolding(c) ==
    /\ call[c].pc = "refused"
    /\ RecordExhaust(Threshold)
    /\ UNCHANGED <<day, booked, failedInARow, call, restarts, sent>>

\* No slot: the breaker opens and the batch is given up.
Refuse(c) ==
    /\ call[c].pc = "refused"
    /\ RecordExhaust(Threshold)
    /\ call' = [call EXCEPT ![c] = Idle]
    /\ UNCHANGED <<day, booked, failedInARow, restarts, sent>>

\* After _pace the request goes out, whatever the day and the breaker are.
Send(c) ==
    /\ call[c].pc = "pacing"
    /\ sent' = [sent EXCEPT ![day] = @ + 1]
    /\ call' = [call EXCEPT ![c].pc = "calling"]
    /\ UNCHANGED <<day, booked, breaker, restarts>>

\* Mutant of Succeed: a reply also closes the breaker.
SucceedAndClose(c) ==
    /\ call[c].pc = "calling"
    /\ exhausts' = 0 /\ failedInARow' = 0 /\ until' = Closed
    /\ call' = [call EXCEPT ![c] = Idle]
    /\ UNCHANGED <<day, booked, restarts, sent>>

\* A reply, usable or not, resets the counter (_record_success).
Succeed(c) ==
    /\ call[c].pc = "calling"
    /\ exhausts' = 0 /\ failedInARow' = 0
    /\ call' = [call EXCEPT ![c] = Idle]
    /\ UNCHANGED <<day, booked, until, restarts, sent>>

\* Mutant of Transient: stop_after_attempt is missing.
TransientForever(c) ==
    /\ call[c].pc = "calling"
    /\ call' = [call EXCEPT ![c].pc = "backoff"]
    /\ UNCHANGED <<day, booked, breaker, restarts, sent>>

\* 408, 5xx or a timeout: the next attempt after a pause, or RetryError.
Transient(c) ==
    /\ call[c].pc = "calling"
    /\ call' = [call EXCEPT ![c].pc =
                  IF call[c].attempt < Attempts THEN "backoff" ELSE "exhausted"]
    /\ UNCHANGED <<day, booked, breaker, restarts, sent>>

Retry(c) ==
    /\ call[c].pc = "backoff"
    /\ call' = [call EXCEPT ![c].pc = "waiting", ![c].attempt = @ + 1]
    /\ UNCHANGED <<day, booked, breaker, restarts, sent>>

\* 429 is not retried; any other error gives the batch up.
Reject(c) ==
    /\ call[c].pc = "calling"
    /\ \/ call' = [call EXCEPT ![c].pc = "quota"]
       \/ call' = [call EXCEPT ![c] = Idle]
    /\ UNCHANGED <<day, booked, breaker, restarts, sent>>

\* The except clauses: the ops event is awaited, then the breaker is fed.
FeedBreaker(c) ==
    /\ \/ /\ call[c].pc = "exhausted"
          /\ RecordExhaust(exhausts + 1)
          /\ failedInARow' = failedInARow + 1
       \/ /\ call[c].pc = "quota"
          /\ RecordExhaust(Threshold)
          /\ UNCHANGED failedInARow
    /\ call' = [call EXCEPT ![c] = Idle]
    /\ UNCHANGED <<day, booked, restarts, sent>>

\* 08:00 UTC.  A claim lasts seconds (statement_timeout), never two resets.
NewDay ==
    /\ day < LastDay
    /\ \A c \in Caller :
         call[c].pc \in {"counting", "granted"} => call[c].from = day
    /\ day' = day + 1
    /\ UNCHANGED <<booked, breaker, call, restarts, sent>>

\* The breaker is forgotten, the booked rows are not.
Restart ==
    /\ restarts < MaxRestarts
    /\ restarts' = restarts + 1
    /\ until' = Closed /\ exhausts' = 0 /\ failedInARow' = 0
    /\ call' = [c \in Caller |-> Idle]
    /\ UNCHANGED <<day, booked, sent>>

\* What a call does once it has started, without waiting for another call.
Proceed(c) ==
    \/ CountSlots(c) \/ BookSlot(c) \/ ClaimFails(c) \/ Refuse(c) \/ Send(c)
    \/ Succeed(c) \/ Transient(c) \/ Retry(c) \/ Reject(c) \/ FeedBreaker(c)

Next ==
    \/ \E c \in Caller : Start(c) \/ Acquire(c) \/ Proceed(c)
    \/ Poll \/ NewDay \/ Restart

Spec == Init /\ [][Next]_vars

\* The event loop runs every task that is ready, database and HTTP calls end
\* by a timeout, and asyncio.Semaphore wakes its waiters in order.
FairSpec ==
    /\ Spec
    /\ \A c \in Caller : WF_vars(Proceed(c)) /\ SF_vars(Acquire(c))

-----------------------------------------------------------------------------
TypeOK ==
    /\ day \in Day
    /\ booked \in [Day -> Nat] /\ sent \in [Day -> Nat]
    /\ until \in {Closed} \cup Nat
    /\ exhausts \in Nat /\ failedInARow \in Nat
    /\ call \in [Caller -> CallState]
    /\ restarts \in 0 .. MaxRestarts

\* No quota day books more requests than the limit, although the number is
\* read and the row written in two steps, callers compete, the day may end
\* in between, and restarts forget everything but the rows.
QuotaRespected == \A d \in Day : booked[d] <= Limit

\* What Gemini sees of a day is the limit and at most the one request that
\* was booked before the reset and paced over it.
SentWithinBudget == \A d \in Day : sent[d] <= Limit + 1

\* Nothing but the reset or a restart ends an open breaker: no reply that
\* arrives late, no second exhausted call, no caller that looks at it.
BreakerEndsAtReset ==
    [][Open => until' = until \/ restarts' = restarts + 1]_vars

\* GeminiBreaker implements the daily budget.
Budget == INSTANCE DailyBudget
ImplementsBudget == Budget!Spec

\* Every call returns: each path out of the critical section releases the
\* semaphore, and the retries are bounded.
CallsReturn == \A c \in Caller : call[c].pc # "idle" ~> call[c].pc = "idle"

-----------------------------------------------------------------------------
(* What a comment says and the code does not keep.                         *)

\* comment: the threshold counts exhausted batches in a row; a retry error
\* that opens the breaker is at least the Threshold-th of them.
TripNeedsThreeInARow ==
    [][\A c \in Caller :
          call[c].pc = "exhausted" /\ FeedBreaker(c) /\ until' # until =>
             failedInARow' >= Threshold]_vars
=============================================================================
