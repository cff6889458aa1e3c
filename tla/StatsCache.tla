----------------------------- MODULE StatsCache -----------------------------
(***************************************************************************)
(* The two caches of api/stats.py: the numbers of one user's dashboard and *)
(* those of the public page.  A payload is computed by several queries     *)
(* with an await at each, while clicks on the dashboard and in the bot     *)
(* change what the queries count.                                          *)
(***************************************************************************)
EXTENDS Integers

CONSTANTS
    Reader,     \* requests for the numbers that may be under way
    Clicker,    \* web clicks that may be under way
    Nothing,
    UserTtl,    \* _STATS_TTL_SECONDS: 30 in the code
    PublicTtl,  \* _PUBLIC_STATS_TTL: 300 in the code
    QueryTime,  \* seconds within which the queries of one payload end
    MaxChanges, \* bound on changes
    LastTick    \* bound on the time looked at

ASSUME StatsAssumption ==
    /\ UserTtl \in Nat \ {0} /\ PublicTtl \in Nat \ {0} /\ QueryTime \in Nat
    /\ MaxChanges \in Nat /\ LastTick \in Nat
    /\ Nothing \notin [seen : Nat, asOf : Nat, expires : Nat]

VARIABLES
    clock,    \* time.monotonic()
    changes,  \* committed changes of what the queries count
    cached,   \* cached["user"], cached["public"]: a payload, or Nothing
    reading,  \* reading[r]: the request between two queries
    clicking, \* clicking[c]: changes when click c had committed, or 0
    told      \* the user has been told of this many changes

statsVars == <<clock, changes, cached, reading, clicking, told>>

Page == {"user", "public"}
Ttl(page) == IF page = "user" THEN UserTtl ELSE PublicTtl

\* seen: the changes its oldest number contains; asOf: when that was read.
Payload == [seen : 0 .. MaxChanges, asOf : 0 .. LastTick,
            expires : 0 .. LastTick + UserTtl + PublicTtl]

ReadingState == [pc : {"idle", "begun", "queried"}, page : Page, start : 0 .. LastTick,
                 seen : 0 .. MaxChanges, asOf : 0 .. LastTick]

NotReading == [pc |-> "idle", page |-> "user", start |-> 0, seen |-> 0, asOf |-> 0]

StatsInit ==
    /\ clock = 0 /\ changes = 0
    /\ cached = [page \in Page |-> Nothing]
    /\ reading = [r \in Reader |-> NotReading]
    /\ clicking = [c \in Clicker |-> 0]
    /\ told = 0

Served(page) == cached[page] # Nothing /\ cached[page].expires > clock

\* A request that finds no valid payload goes on to the database; one that
\* does changes nothing.
Miss(r, page) ==
    /\ reading[r].pc = "idle" /\ ~Served(page)
    /\ reading' = [reading EXCEPT ![r] = [NotReading EXCEPT !.pc = "begun", !.page = page,
                                                            !.start = clock]]
    /\ UNCHANGED <<clock, changes, cached, clicking, told>>

\* Its first query; later ones can only see more.
Query(r) ==
    /\ reading[r].pc = "begun"
    /\ reading' = [reading EXCEPT ![r].pc = "queried", ![r].seen = changes, ![r].asOf = clock]
    /\ UNCHANGED <<clock, changes, cached, clicking, told>>

\* Mutant of StatsExpiry: both are stamped when the last query has ended.
ExpiryAtEnd(r) == clock + Ttl(reading[r].page)

\* The user's payload is stamped when it is stored, the public one with the
\* time at which the request came.
StatsExpiry(r) ==
    IF reading[r].page = "user" THEN clock + UserTtl ELSE reading[r].start + PublicTtl

Store(r) ==
    /\ reading[r].pc = "queried"
    /\ cached' = [cached EXCEPT ![reading[r].page] =
                    [seen |-> reading[r].seen, asOf |-> reading[r].asOf, expires |-> StatsExpiry(r)]]
    /\ reading' = [reading EXCEPT ![r] = NotReading]
    /\ UNCHANGED <<clock, changes, clicking, told>>

\* A query fails: the request ends in an error.
Fail(r) ==
    /\ reading[r].pc # "idle"
    /\ reading' = [reading EXCEPT ![r] = NotReading]
    /\ UNCHANGED <<clock, changes, cached, clicking, told>>

\* A click on the dashboard, or a saved profile, is committed.
CommitClick(c) ==
    /\ clicking[c] = 0 /\ changes < MaxChanges
    /\ changes' = changes + 1
    /\ clicking' = [clicking EXCEPT ![c] = changes']
    /\ UNCHANGED <<clock, cached, reading, told>>

\* A request that will store numbers without this click.
Overtaken(c) ==
    \E r \in Reader : /\ reading[r].pc = "queried" /\ reading[r].page = "user"
                      /\ reading[r].seen < clicking[c]

\* Mutant of Invalidated: the payload stays.
Kept == cached

\* invalidate_stats_cache(user_id).
Invalidated == [cached EXCEPT !["user"] = Nothing]

\* invalidate_stats_cache, and the answer.
FinishClick(c) ==
    /\ clicking[c] # 0
    /\ cached' = Invalidated
    /\ told' = IF Overtaken(c) \/ clicking[c] < told THEN told ELSE clicking[c]
    /\ clicking' = [clicking EXCEPT ![c] = 0]
    /\ UNCHANGED <<clock, changes, reading>>

\* The bot, a scan or the cleanup changes what is counted; the cache stays.
ChangeElsewhere ==
    /\ changes < MaxChanges
    /\ changes' = changes + 1
    /\ UNCHANGED <<clock, cached, reading, clicking, told>>

StatsTick ==
    /\ clock < LastTick
    /\ \A r \in Reader : reading[r].pc # "idle" => clock < reading[r].start + QueryTime
    /\ clock' = clock + 1
    /\ UNCHANGED <<changes, cached, reading, clicking, told>>

StatsNext ==
    \/ \E r \in Reader : (\E page \in Page : Miss(r, page)) \/ Query(r) \/ Store(r) \/ Fail(r)
    \/ \E c \in Clicker : CommitClick(c) \/ FinishClick(c)
    \/ ChangeElsewhere \/ StatsTick

StatsSpec == StatsInit /\ [][StatsNext]_statsVars

-----------------------------------------------------------------------------
(* Properties.                                                             *)

StatsTypeOK ==
    /\ clock \in 0 .. LastTick /\ changes \in 0 .. MaxChanges
    /\ cached \in [Page -> Payload \cup {Nothing}]
    /\ reading \in [Reader -> ReadingState]
    /\ clicking \in [Clicker -> 0 .. MaxChanges] /\ told \in 0 .. MaxChanges

\* The dashboard never hides a click from the user who made it there, once it
\* was answered: however reads and clicks overlap, a payload served later
\* counts it (invalidate_stats_cache, job_action).  Left out is a click during
\* which another tab's numbers were being read: that request stores its older
\* payload after the invalidation.
ClicksAreVisible == Served("user") => cached["user"].seen >= told

\* No number on the public page is older than its time to live, however slow
\* the queries were, and none on the dashboard older than its own and the time
\* of the queries (get_stats, get_public_stats).
PayloadAge ==
    /\ Served("public") => clock - cached["public"].asOf < PublicTtl
    /\ Served("user") => clock - cached["user"].asOf < UserTtl + QueryTime
=============================================================================
