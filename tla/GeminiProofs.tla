---------------------------- MODULE GeminiProofs ----------------------------
(***************************************************************************)
(* Theorems about GeminiBreaker for any number of callers, days, attempts  *)
(* and restarts.  The argument: the semaphore makes the claim of a slot    *)
(* exclusive, so what a claim has counted stays true until it books, and   *)
(* nothing is sent on a day on which an older claim is still open.         *)
(***************************************************************************)
EXTENDS GeminiBreaker, TLAPS

Exclusive == \A c, e \in Caller : Holds(c) /\ Holds(e) => c = e

\* What the holder of the semaphore knows while it claims, books and paces.
Claim(c) ==
    /\ call[c].pc \in {"counting", "granted"} =>
         /\ call[c].from <= day /\ day <= call[c].from + 1
         /\ call[c].from < day => sent[day] = 0
    /\ call[c].pc = "granted" => booked[call[c].from] < Limit
    /\ call[c].pc = "pacing" => sent[day] <= booked[day]
    /\ call[c].pc = "backoff" => call[c].attempt < Attempts

Ledger(d) ==
    /\ booked[d] <= Limit
    /\ sent[d] <= booked[d] + 1
    /\ d > day => sent[d] = 0

IInv ==
    /\ TypeOK
    /\ Exclusive
    /\ \A c \in Caller : Claim(c)
    /\ \A d \in Day : Ledger(d)

-----------------------------------------------------------------------------
\* The invariant holds in the initial states.
LEMMA InitIInv == Init => IInv
<1> SUFFICES ASSUME Init PROVE IInv
  OBVIOUS
<1> USE GeminiAssumption DEF Init, Idle, Day
<1>1. TypeOK
  BY DEF TypeOK, CallState
<1>2. Exclusive
  BY DEF Exclusive, Holds
<1>3. ASSUME NEW c \in Caller PROVE Claim(c)
  BY DEF Claim
<1>4. ASSUME NEW d \in Day PROVE Ledger(d)
  BY DEF Ledger
<1> QED BY <1>1, <1>2, <1>3, <1>4 DEF IInv

\* A step that books, sends and ends nothing, and brings no call into the
\* claim of a slot, keeps the invariant as far as types allow.
LEMMA QuietStep ==
    ASSUME IInv, TypeOK', UNCHANGED <<day, booked, sent>>,
           \A c \in Caller : \/ call'[c] = call[c]
                             \/ call'[c].pc \in {"idle", "waiting", "exhausted", "quota"}
                             \/ call'[c].pc = "backoff" /\ call'[c].attempt < Attempts
                             \/ call'[c].pc \in {"refused", "calling"} /\ Holds(c)
    PROVE  IInv'
<1>1. Exclusive'
  BY DEF IInv, Exclusive, Holds
<1>2. ASSUME NEW c \in Caller PROVE Claim(c)'
  BY DEF IInv, Claim
<1>3. ASSUME NEW d \in Day PROVE Ledger(d)'
  BY DEF IInv, Ledger
<1> QED BY <1>1, <1>2, <1>3 DEF IInv

\* The steps outside the claim keep the types.
LEMMA QuietTypes ==
    ASSUME TypeOK, NEW c \in Caller, Claim(c),
           \/ Start(c) \/ ClaimFails(c) \/ Refuse(c) \/ Succeed(c)
           \/ Transient(c) \/ Retry(c) \/ Reject(c) \/ FeedBreaker(c)
    PROVE  TypeOK'
<1> USE GeminiAssumption DEF TypeOK, Day, Idle, breaker
<1>1. Idle \in CallState
  BY DEF CallState
<1>2. call[c] \in CallState
  OBVIOUS
<1>3. CASE Start(c)
  <2>1. 1 \in 0 .. Attempts
    OBVIOUS
  <2>2. [pc |-> "waiting", attempt |-> 1, from |-> 0] \in CallState
    BY <2>1 DEF CallState
  <2> QED BY <1>3, <2>2 DEF Start, Checked
<1>4. CASE ClaimFails(c)
  <2>1. \A pc \in {"backoff", "exhausted"} : [call[c] EXCEPT !.pc = pc] \in CallState
    BY <1>2 DEF CallState
  <2> QED BY <1>1, <1>4, <2>1 DEF ClaimFails
<1>5. CASE Refuse(c)
  BY <1>1, <1>5 DEF Refuse, RecordExhaust
<1>6. CASE Succeed(c)
  BY <1>1, <1>6 DEF Succeed
<1>7. CASE Transient(c)
  <2>1. \A pc \in {"backoff", "exhausted"} : [call[c] EXCEPT !.pc = pc] \in CallState
    BY <1>2 DEF CallState
  <2> QED BY <1>7, <2>1 DEF Transient
<1>8. CASE Retry(c)
  <2>1. call[c].attempt + 1 \in 0 .. Attempts
    BY <1>2, <1>8 DEF Retry, Claim, CallState
  <2>2. [call[c] EXCEPT !.pc = "waiting", !.attempt = @ + 1] \in CallState
    BY <1>2, <2>1 DEF CallState
  <2> QED BY <1>8, <2>2 DEF Retry
<1>9. CASE Reject(c)
  <2>1. [call[c] EXCEPT !.pc = "quota"] \in CallState
    BY <1>2 DEF CallState
  <2> QED BY <1>1, <1>9, <2>1 DEF Reject
<1>10. CASE FeedBreaker(c)
  BY <1>1, <1>10 DEF FeedBreaker, RecordExhaust
<1> QED BY <1>3, <1>4, <1>5, <1>6, <1>7, <1>8, <1>9, <1>10

-----------------------------------------------------------------------------
\* Waiting, retrying, failing and ending disturb neither the claim nor the
\* accounts.
LEMMA QuietSteps ==
    ASSUME IInv, NEW c \in Caller,
           \/ Start(c) \/ ClaimFails(c) \/ Refuse(c) \/ Succeed(c)
           \/ Transient(c) \/ Retry(c) \/ Reject(c) \/ FeedBreaker(c)
    PROVE  IInv'
<1>1. TypeOK'
  BY QuietTypes DEF IInv
<1>2. UNCHANGED <<day, booked, sent>>
  BY DEF Start, ClaimFails, Refuse, Succeed, Transient, Retry, Reject,
         FeedBreaker, breaker
<1>3. ASSUME NEW e \in Caller
      PROVE  \/ call'[e] = call[e]
             \/ call'[e].pc \in {"idle", "waiting", "exhausted", "quota"}
             \/ call'[e].pc = "backoff" /\ call'[e].attempt < Attempts
             \/ call'[e].pc \in {"refused", "calling"} /\ Holds(e)
  <2>1. CASE e # c
    BY <2>1 DEF Start, ClaimFails, Refuse, Succeed, Transient, Retry, Reject,
           FeedBreaker, IInv, TypeOK
  <2>2. CASE e = c
    <3> USE <2>2 DEF IInv, TypeOK, CallState, Idle
    <3>1. CASE Start(c) \/ Refuse(c) \/ Succeed(c)
      BY <3>1 DEF Start, Refuse, Succeed
    <3>2. CASE Retry(c) \/ Reject(c) \/ FeedBreaker(c)
      BY <3>2 DEF Retry, Reject, FeedBreaker
    <3>3. CASE ClaimFails(c) \/ Transient(c)
      <4>1. call[c].attempt \in Nat /\ Attempts \in Nat
        BY GeminiAssumption
      <4> QED BY <3>3, <4>1 DEF ClaimFails, Transient
    <3> QED BY <3>1, <3>2, <3>3
  <2> QED BY <2>1, <2>2
<1> QED BY <1>1, <1>2, <1>3, QuietStep

\* The semaphore is free, so the claim that begins is the only one; it looks
\* at the present day.
LEMMA AcquireStep ==
    ASSUME IInv, NEW c \in Caller, Acquire(c)
    PROVE  IInv'
<1> USE DEF Acquire, breaker
<1>1. TypeOK'
  <2>1. \A pc \in {"counting", "refused"} :
          [call[c] EXCEPT !.pc = pc, !.from = day] \in CallState
    BY DEF IInv, TypeOK, CallState
  <2> QED BY <2>1 DEF IInv, TypeOK
<1>2. Exclusive'
  BY DEF IInv, TypeOK, CallState, Exclusive, Holds, SemaphoreFree
<1>3. ASSUME NEW e \in Caller PROVE Claim(e)'
  BY DEF IInv, TypeOK, CallState, Day, Claim
<1>4. ASSUME NEW d \in Day PROVE Ledger(d)'
  BY DEF IInv, Ledger
<1> QED BY <1>1, <1>2, <1>3, <1>4 DEF IInv

\* A slot that is granted is free on the day its transaction began.
LEMMA CountSlotsStep ==
    ASSUME IInv, NEW c \in Caller, CountSlots(c)
    PROVE  IInv'
<1> USE GeminiAssumption DEF CountSlots, breaker
<1>1. TypeOK'
  <2>1. \A pc \in {"granted", "refused"} :
          [call[c] EXCEPT !.from = day, !.pc = pc] \in CallState
    BY DEF IInv, TypeOK, CallState
  <2> QED BY <2>1 DEF IInv, TypeOK
<1>2. Exclusive'
  BY DEF IInv, TypeOK, CallState, Exclusive, Holds
<1>3. ASSUME NEW e \in Caller PROVE Claim(e)'
  <2>1. CASE e = c
    <3>1. call[c].from \in Day /\ day \in Day /\ call[c].from <= day
      BY DEF IInv, TypeOK, CallState, Claim
    <3>2. booked[call[c].from] \in Nat /\ booked[day] \in Nat
      BY <3>1 DEF IInv, TypeOK
    <3>3. Used(call[c].from) < Limit => booked[day] < Limit
      <4>1. CASE day > call[c].from
        BY <3>2, <4>1 DEF Used
      <4>2. CASE day = call[c].from
        BY <3>2, <4>2, <3>1 DEF Used, Day
      <4> QED BY <3>1, <4>1, <4>2 DEF Day
    <3>4. Used(call[c].from) \in Nat
      BY <3>2 DEF Used
    <3>5. ~(Used(call[c].from) >= Limit) => booked[day] < Limit
      BY <3>3, <3>4
    <3> HIDE DEF Used
    <3> QED BY <2>1, <3>1, <3>5 DEF IInv, TypeOK, CallState, Claim, Day
  <2>2. CASE e # c
    BY <2>2 DEF IInv, TypeOK, Claim
  <2> QED BY <2>1, <2>2
<1>4. ASSUME NEW d \in Day PROVE Ledger(d)'
  BY DEF IInv, Ledger
<1> QED BY <1>1, <1>2, <1>3, <1>4 DEF IInv

\* Booking uses the slot that was granted; no other claim is open.
LEMMA BookSlotStep ==
    ASSUME IInv, NEW c \in Caller, BookSlot(c)
    PROVE  IInv'
<1> USE GeminiAssumption DEF BookSlot, breaker
<1>1. /\ call[c].from \in Day /\ day \in Day
      /\ booked[call[c].from] \in Nat /\ sent[day] \in Nat
      /\ Holds(c)
  BY DEF IInv, TypeOK, CallState, Holds
<1>2. TypeOK'
  <2>1. [call[c] EXCEPT !.pc = "pacing"] \in CallState
    BY DEF IInv, TypeOK, CallState
  <2> QED BY <1>1, <2>1 DEF IInv, TypeOK
<1>3. Exclusive'
  BY DEF IInv, TypeOK, CallState, Exclusive, Holds
<1>4. ASSUME NEW e \in Caller PROVE Claim(e)'
  <2>1. CASE e = c
    <3>1. sent[day] <= booked'[day]
      <4>1. CASE call[c].from = day
        BY <1>1, <4>1 DEF IInv, TypeOK, Ledger
      <4>2. CASE call[c].from < day
        BY <1>1, <4>2 DEF IInv, TypeOK, Claim, Day
      <4> QED BY <1>1, <4>1, <4>2 DEF IInv, Claim, Day
    <3> QED BY <2>1, <3>1 DEF IInv, TypeOK, CallState, Claim
  <2>2. CASE e # c
    <3>1. ~Holds(e)
      BY <1>1, <2>2 DEF IInv, Exclusive
    <3> QED BY <2>2, <3>1 DEF IInv, TypeOK, Claim, Holds
  <2> QED BY <2>1, <2>2
<1>5. ASSUME NEW d \in Day PROVE Ledger(d)'
  <2>1. CASE d = call[c].from
    BY <1>1, <2>1 DEF IInv, TypeOK, Ledger, Claim
  <2>2. CASE d # call[c].from
    BY <1>1, <2>2 DEF IInv, TypeOK, Ledger
  <2> QED BY <2>1, <2>2
<1> QED BY <1>2, <1>3, <1>4, <1>5 DEF IInv

\* The request that was booked is sent; on its day at most one request more
\* is sent than booked.
LEMMA SendStep ==
    ASSUME IInv, NEW c \in Caller, Send(c)
    PROVE  IInv'
<1> USE GeminiAssumption DEF Send, breaker
<1>1. day \in Day /\ sent[day] \in Nat /\ Holds(c) /\ sent[day] <= booked[day]
  BY DEF IInv, TypeOK, CallState, Holds, Claim
<1>2. TypeOK'
  <2>1. [call[c] EXCEPT !.pc = "calling"] \in CallState
    BY DEF IInv, TypeOK, CallState
  <2> QED BY <1>1, <2>1 DEF IInv, TypeOK
<1>3. Exclusive'
  BY DEF IInv, TypeOK, CallState, Exclusive, Holds
<1>4. ASSUME NEW e \in Caller PROVE Claim(e)'
  <2>1. CASE e = c
    BY <2>1 DEF IInv, TypeOK, CallState, Claim
  <2>2. CASE e # c
    <3>1. ~Holds(e)
      BY <1>1, <2>2 DEF IInv, Exclusive
    <3> QED BY <2>2, <3>1 DEF IInv, TypeOK, Claim, Holds
  <2> QED BY <2>1, <2>2
<1>5. ASSUME NEW d \in Day PROVE Ledger(d)'
  BY <1>1 DEF IInv, TypeOK, Ledger, Day
<1> QED BY <1>2, <1>3, <1>4, <1>5 DEF IInv

\* At most one reset falls into a claim, and nothing was sent on a new day.
LEMMA NewDayStep == IInv /\ NewDay => IInv'
<1> SUFFICES ASSUME IInv, NewDay PROVE IInv'
  OBVIOUS
<1> USE GeminiAssumption DEF NewDay, breaker
<1>1. day \in Day /\ day' \in Day /\ sent[day'] = 0 /\ booked[day'] \in Nat
  BY DEF IInv, TypeOK, Ledger, Day
<1>2. TypeOK'
  BY <1>1 DEF IInv, TypeOK
<1>3. Exclusive'
  BY DEF IInv, Exclusive, Holds
<1>4. ASSUME NEW c \in Caller PROVE Claim(c)'
  BY <1>1 DEF IInv, TypeOK, CallState, Claim, Day
<1>5. ASSUME NEW d \in Day PROVE Ledger(d)'
  BY <1>1 DEF IInv, Ledger, Day
<1> QED BY <1>2, <1>3, <1>4, <1>5 DEF IInv

\* A restart ends every call and keeps the rows.
LEMMA RestartStep == IInv /\ Restart => IInv'
<1> SUFFICES ASSUME IInv, Restart PROVE IInv'
  OBVIOUS
<1> USE GeminiAssumption DEF Restart, Idle
<1>1. TypeOK'
  BY DEF IInv, TypeOK, CallState, Day
<1>2. Exclusive'
  BY DEF Exclusive, Holds
<1>3. ASSUME NEW c \in Caller PROVE Claim(c)'
  BY DEF Claim
<1>4. ASSUME NEW d \in Day PROVE Ledger(d)'
  BY DEF IInv, Ledger
<1> QED BY <1>1, <1>2, <1>3, <1>4 DEF IInv

\* Every step, stuttering included, preserves the invariant.
LEMMA NextIInv == IInv /\ [Next]_vars => IInv'
<1> SUFFICES ASSUME IInv, [Next]_vars PROVE IInv'
  OBVIOUS
<1>1. CASE Poll
  <2>1. TypeOK'
    BY <1>1 DEF Poll, Checked, IInv, TypeOK
  <2> QED BY <1>1, <2>1, QuietStep DEF Poll
<1>2. CASE UNCHANGED vars
  <2>1. TypeOK'
    BY <1>2 DEF vars, breaker, IInv, TypeOK
  <2> QED BY <1>2, <2>1, QuietStep DEF vars
<1> QED BY <1>1, <1>2, QuietSteps, AcquireStep, CountSlotsStep, BookSlotStep,
       SendStep, NewDayStep, RestartStep DEF Next, Proceed

\* The invariant holds in every reachable state.
THEOREM Invariance == Spec => []IInv
BY InitIInv, NextIInv, PTL DEF Spec

-----------------------------------------------------------------------------
\* The state keeps its types; in particular no call makes more than the
\* allowed number of attempts.
THEOREM TypeCorrect == Spec => []TypeOK
<1>1. IInv => TypeOK
  BY DEF IInv
<1> QED BY <1>1, Invariance, PTL

\* No quota day books more requests than the limit, for any number of
\* concurrent callers, retries, resets and restarts.
THEOREM Quota == Spec => []QuotaRespected
<1>1. IInv => QuotaRespected
  BY DEF IInv, Ledger, QuotaRespected
<1> QED BY <1>1, Invariance, PTL

\* On no day does Gemini see more than one request above the limit.
THEOREM SentQuota == Spec => []SentWithinBudget
<1>1. IInv => SentWithinBudget
  BY GeminiAssumption DEF IInv, TypeOK, Ledger, SentWithinBudget
<1> QED BY <1>1, Invariance, PTL

\* Only the reset or a restart ends an open breaker.
THEOREM OpenUntilReset == Spec => BreakerEndsAtReset
<1>1. IInv /\ [Next]_vars =>
        (Open => until' = until \/ restarts' = restarts + 1)
  <2> SUFFICES ASSUME IInv, [Next]_vars, Open
               PROVE  until' = until \/ restarts' = restarts + 1
    OBVIOUS
  <2>1. until # Closed /\ ~Expired
    BY DEF Open, Expired, IInv, TypeOK, Day
  <2>2. ASSUME NEW count PROVE RecordExhaust(count) => until' = until
    BY <2>1 DEF RecordExhaust
  <2>3. Checked => until' = until
    BY <2>1 DEF Checked
  <2> HIDE DEF Open, Expired
  <2>4. CASE UNCHANGED until
    BY <2>4
  <2>5. CASE Restart
    BY <2>5 DEF Restart
  <2>6. CASE Poll
    BY <2>3, <2>6 DEF Poll
  <2>7. ASSUME NEW c \in Caller, Start(c) \/ Refuse(c) \/ FeedBreaker(c)
        PROVE  UNCHANGED until
    BY <2>2, <2>3, <2>7 DEF Start, Refuse, FeedBreaker
  <2>8. \/ UNCHANGED until
        \/ Restart \/ Poll
        \/ \E c \in Caller : Start(c) \/ Refuse(c) \/ FeedBreaker(c)
    BY DEF Next, Proceed, vars, breaker, Acquire, CountSlots, BookSlot,
           ClaimFails, Send, Succeed, Transient, Retry, Reject, NewDay
  <2> QED BY <2>4, <2>5, <2>6, <2>7, <2>8
<1> QED BY Invariance, <1>1, PTL DEF Spec, BreakerEndsAtReset

\* Every step of GeminiBreaker books a request of the abstract budget, ends a
\* day of it, or leaves it alone.
LEMMA StepIsBudgetStep ==
    ASSUME IInv, [Next]_vars
    PROVE  [Budget!Next]_(Budget!budgetVars)
<1> USE DEF Budget!Next, Budget!budgetVars
<1>1. ASSUME NEW c \in Caller, BookSlot(c) PROVE Budget!Next
  <2>1. call[c].from \in 0 .. LastDay /\ Budget!Book(call[c].from)
    BY <1>1 DEF BookSlot, IInv, TypeOK, CallState, Claim, Day, Budget!Book
  <2> QED BY <2>1
<1>2. CASE NewDay
  BY <1>2 DEF NewDay, Budget!NewDay
<1>3. \/ \E c \in Caller : BookSlot(c)
      \/ NewDay
      \/ UNCHANGED <<day, booked>>
  BY DEF Next, Proceed, vars, Start, Acquire, CountSlots, ClaimFails, Refuse,
         Send, Succeed, Transient, Retry, Reject, FeedBreaker, Poll, Restart
<1> QED BY <1>1, <1>2, <1>3

\* GeminiBreaker implements DailyBudget.
THEOREM Refinement == Spec => ImplementsBudget
<1>1. Init => Budget!Init
  BY DEF Init, Day, Budget!Init
<1>2. IInv /\ [Next]_vars => [Budget!Next]_(Budget!budgetVars)
  BY StepIsBudgetStep
<1> QED BY <1>1, <1>2, Invariance, PTL DEF Spec, ImplementsBudget, Budget!Spec
=============================================================================
