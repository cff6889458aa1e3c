---------------------------- MODULE DailyBudget ----------------------------
(***************************************************************************)
(* What the accounting of Gemini requests promises, with callers, locks,   *)
(* database sessions and restarts left out: a request is booked on the     *)
(* quota day, or on the one before when the booking began before the       *)
(* reset, and no day books more than Limit.                                *)
(* GeminiBreaker.tla is shown to implement this module.                    *)
(***************************************************************************)
EXTENDS Naturals

CONSTANTS Limit,   \* requests a quota day allows
          LastDay  \* bound on the days looked at

VARIABLES day,     \* the current quota day
          booked   \* booked[d]: requests recorded on day d

budgetVars == <<day, booked>>

Init == day = 0 /\ booked = [d \in 0 .. LastDay |-> 0]

Book(d) ==
    /\ d <= day /\ day <= d + 1
    /\ booked[d] < Limit
    /\ booked' = [booked EXCEPT ![d] = @ + 1]
    /\ UNCHANGED day

NewDay ==
    /\ day < LastDay
    /\ day' = day + 1
    /\ UNCHANGED booked

Next == (\E d \in 0 .. LastDay : Book(d)) \/ NewDay

Spec == Init /\ [][Next]_budgetVars
=============================================================================
