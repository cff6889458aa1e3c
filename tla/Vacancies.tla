----------------------------- MODULE Vacancies -----------------------------
(***************************************************************************)
(* The table jobs and those who write it: scans (JobAggregator.search),    *)
(* the daily URL check (run_url_check_pass), the daily cleanup             *)
(* (_cleanup_old_jobs), and the user's applications, which the cleanup     *)
(* must respect.                                                           *)
(*                                                                         *)
(* A posting is what a provider publishes.  Postings with the same title,  *)
(* company, country and place have one dedup_hash and share a row.  Alike  *)
(* is is_fuzzy_duplicate, which the same four decide; it is not            *)
(* transitive: "Deutschland" agrees with every German city, "Heraeus" with *)
(* every Heraeus company.  A link is named by its posting.                 *)
(***************************************************************************)
EXTENDS Integers, FiniteSets

CONSTANTS
    Posting, Hash, Land,
    HashOf,        \* HashOf[p]: dedup_hash of posting p
    LandOf,        \* LandOf[h]: _normalise_country of the country in h, if it is one
    Alike,         \* pairs of hashes that are fuzzy duplicates
    Direct,        \* postings whose link is no Adzuna click-out
    Wealth,        \* Wealth[p]: length of the description
    Posted,        \* Posted[p]: the minute of publication
    NoRow, NoLink, NoLand,
    Scanner,       \* scans that may run at the same time
    MaxBatch,      \* bound on the postings of one scan
    BulkMin,       \* BULK_FEED_MIN_PER_MINUTE: 20 in the code
    PerRun,        \* url_check_per_run: 500 in the code
    MaxFailures,   \* url_check_max_failures: 3 in the code
    Sent,          \* statuses that the user's clients send
    MaxAges,       \* bound on rows that get older than 45 days
    MaxClosings,   \* bound on pages that disappear
    MaxOutages,    \* bound on outages of name resolution
    MaxRestarts,   \* bound on restarts
    MaxEvents      \* bound on the last four together

Status == {"saved", "applied", "interviewing", "offer", "rejected", "withdrawn"}
Active == {"applied", "interviewing", "offer"}

ASSUME VacanciesAssumption ==
    /\ HashOf \in [Posting -> Hash] /\ LandOf \in [Hash -> Land \cup {NoLand}]
    /\ \A g, h \in Hash : <<g, h>> \in Alike =>
         /\ <<h, g>> \in Alike
         /\ LandOf[g] = LandOf[h] \/ NoLand \in {LandOf[g], LandOf[h]}
    /\ Direct \subseteq Posting /\ Posted \in [Posting -> Nat \ {0}]
    /\ Wealth \in [Posting -> Nat] /\ MaxBatch \in Nat
    /\ IsFiniteSet(Posting) /\ IsFiniteSet(Hash)
    /\ BulkMin \in Nat \ {0} /\ MaxFailures \in Nat \ {0} /\ PerRun \in Nat
    /\ Sent \subseteq Status
    /\ MaxAges \in Nat /\ MaxClosings \in Nat /\ MaxOutages \in Nat /\ MaxRestarts \in Nat
    /\ MaxEvents \in Nat

VARIABLES
    row,           \* row[h]: the row of jobs with this hash, if any
    scan,          \* scan[s]: a call of JobAggregator.search
    check,         \* the pass of the URL check
    cleanup,       \* the running cleanup: what it has read, what it will delete
    app,           \* app[h]: status of the user's application
    live,          \* postings whose page check_url finds active if it is up
    dns,           \* name resolution works
    ages, closings, outages, restarts

bounds == <<ages, closings, outages, restarts>>
world  == <<live, dns>>
vars   == <<row, scan, check, cleanup, app, world, bounds>>

UrlStatus == {"null", "active", "closed", "unreachable", "suppressed"}

\* due: not checked for url_check_recheck_hours; old: scraped more than 45
\* days ago, the limit of both the lookback for reposts and the cleanup.
Row == [status : UrlStatus, link : Posting, posted : Nat,
        failures : 0 .. MaxFailures, due : BOOLEAN, old : BOOLEAN]

ASSUME NullsAssumption == NoRow \notin Row /\ NoLink \notin Posting /\ NoLand \notin Land

Stored(h) == row[h] # NoRow

\* What a repost changes in the stored row: its link, its date (0: nothing).
NoChange == [link |-> NoLink, posted |-> 0]
Change   == [link : Posting \cup {NoLink}, posted : Nat]

\* date[p]: the date of candidate p, 0 if p is none.  For the properties,
\* missed: rows that other scans have committed since this one's lookup.
ScanState  == [pc : {"idle", "fetched", "matched", "updated", "counted"},
               date : [Posting -> Nat], fresh : SUBSET Posting, change : [Hash -> Change],
               bulk : SUBSET Posting, missed : SUBSET Hash]
CheckState == [running : BOOLEAN, seen : [Hash -> Row \cup {NoRow}],
               result : [Hash -> {"none", "pending", "active", "closed", "transient",
                               "skipped", "lost"}]]

CleanupState == [pc : {"idle", "reading", "deleting"},
                 protected : SUBSET Hash, doomed : SUBSET Hash]

NoScan  == [pc |-> "idle", date |-> [p \in Posting |-> 0], fresh |-> {},
            change |-> [h \in Hash |-> NoChange], bulk |-> {}, missed |-> {}]
NoCheck == [running |-> FALSE, seen |-> [h \in Hash |-> NoRow],
            result |-> [h \in Hash |-> "none"]]
NoCleanup == [pc |-> "idle", protected |-> {}, doomed |-> {}]

Init ==
    /\ row = [h \in Hash |-> NoRow]
    /\ scan = [s \in Scanner |-> NoScan]
    /\ check = NoCheck
    /\ cleanup = NoCleanup
    /\ app = [h \in Hash |-> "none"]
    /\ live = Posting /\ dns = TRUE
    /\ ages = 0 /\ closings = 0 /\ outages = 0 /\ restarts = 0

-----------------------------------------------------------------------------
(* Scans.                                                                  *)

Like(p, q) == <<HashOf[p], HashOf[q]>> \in Alike

\* Pass 1 leaves one posting for each hash, the first that a source returned.
Unique(list) == \A i, j \in DOMAIN list : HashOf[list[i]] = HashOf[list[j]] => i = j

\* keep_new: a direct link, then the longer description.
Beats(p, q) ==
    \/ p \in Direct /\ q \notin Direct
    \/ (p \in Direct <=> q \in Direct) /\ Wealth[p] > Wealth[q]

\* Of the first k jobs, the i-th is the one that its entry keeps.
Keeps(list, entry, i, k) ==
    \A j \in 1 .. k : entry[j] = entry[i] =>
        /\ j < i => Beats(list[i], list[j])
        /\ j > i => ~Beats(list[j], list[i])

\* Pass 2, _fuzzy_deduplicate: one job after the other is merged into the
\* first entry whose job so far is alike.  An entry is named by its first job.
Merged(list, entry) ==
    \A k \in DOMAIN list :
        LET alike == {entry[i] : i \in {j \in 1 .. k - 1 :
                        Keeps(list, entry, j, k - 1) /\ Like(list[k], list[j])}} IN
        IF alike = {} THEN entry[k] = k
        ELSE entry[k] \in alike /\ \A e \in alike : entry[k] <= e

\* An entry has the earliest date of its jobs.
Earliest(P) == CHOOSE d \in {Posted[q] : q \in P} : \A q \in P : d <= Posted[q]

\* The providers have answered, the filters let some jobs pass, and those
\* with a stored hash are looked up.
Search(s) ==
    /\ scan[s].pc = "idle"
    /\ \E n \in 1 .. MaxBatch : \E list \in [1 .. n -> Posting], entry \in [1 .. n -> 1 .. n] :
         /\ Unique(list) /\ Merged(list, entry)
         /\ \E passed \in SUBSET {i \in 1 .. n : Keeps(list, entry, i, n)} :
              LET members(p) == {list[j] : j \in {k \in 1 .. n :
                                  \E i \in passed : list[i] = p /\ entry[k] = entry[i]}}
                  filtered   == {list[i] : i \in passed} IN
              /\ filtered # {}
              /\ scan' = [scan EXCEPT ![s] = [NoScan EXCEPT
                   !.pc    = "fetched",
                   !.date  = [p \in Posting |-> IF p \in filtered THEN Earliest(members(p)) ELSE 0],
                   !.fresh = {p \in filtered : ~Stored(HashOf[p])}]]
    /\ UNCHANGED <<row, check, cleanup, app, world, bounds>>

\* Mutant of Blocking: vacancies whose page failed do not block their reposts.
BlockingIfReachable(h) ==
    Stored(h) /\ row[h].status \notin {"suppressed", "closed", "unreachable"} /\ ~row[h].old

\* A stored vacancy whose reposts are skipped.
Blocking(h) == Stored(h) /\ row[h].status # "suppressed" /\ ~row[h].old

\* A direct link replaces a click-out, ...
Upgrades(r, p) == r.link \notin Direct /\ p \in Direct

\* Mutant of Predates: the date of the repost replaces the stored one.
PredatesOrNot(r, date) == date # r.posted

\* ... an earlier date a later one.
Predates(r, date) == date < r.posted

\* Candidates come with the latest date first, and an update of a column
\* replaces the one before it.
LastOf(P, date) == CHOOSE p \in P : \A q \in P : date[p] <= date[q]

\* What the candidates P, all of them reposts of row r, change in it.
Changes(r, P, date) ==
    LET better  == {p \in P : Upgrades(r, p)}
        earlier == {p \in P : Predates(r, date[p])} IN
    [link   |-> IF better = {} THEN NoLink ELSE LastOf(better, date),
     posted |-> IF earlier = {} THEN 0 ELSE date[LastOf(earlier, date)]]

\* _suppress_reposts: the rows of the candidates' countries are looked up.  A
\* row without a country is not found, and without a country among the
\* candidates none is.  The database's order picks one of several rows.
Match(s) ==
    LET sc       == scan[s]
        lands    == {LandOf[HashOf[p]] : p \in sc.fresh} \ {NoLand}
        found(p) == {h \in Hash : Blocking(h) /\ LandOf[h] \in lands /\ <<HashOf[p], h>> \in Alike}
        skipped  == {p \in sc.fresh : found(p) # {}} IN
    /\ sc.pc = "fetched"
    /\ \E target \in [skipped -> Hash] :
         /\ \A p \in skipped : target[p] \in found(p)
         /\ \A p, q \in skipped :
              target[p] \in found(q) /\ target[q] \in found(p) => target[p] = target[q]
         /\ scan' = [scan EXCEPT ![s] = IF sc.fresh = {} THEN NoScan ELSE [sc EXCEPT
              !.pc     = IF skipped = {} THEN "updated" ELSE "matched",
              !.date   = [p \in Posting |-> IF p \in sc.fresh \ skipped THEN @[p] ELSE 0],
              !.fresh  = @ \ skipped,
              !.change = [h \in Hash |->
                 LET reposts == {p \in skipped : target[p] = h} IN
                 IF reposts = {} THEN NoChange ELSE Changes(row[h], reposts, sc.date)]]]
    /\ UNCHANGED <<row, check, cleanup, app, world, bounds>>

\* Scan s has committed the rows in done and goes on as new.
Commit(s, done, new) ==
    scan' = [t \in Scanner |->
        IF t = s THEN new
        ELSE IF scan[t].pc \in {"idle", "fetched"} THEN scan[t]
        ELSE [scan[t] EXCEPT !.missed = @ \cup done]]

\* The changes of _suppress_reposts are committed; nothing may be left to store.
UpdateOriginals(s) ==
    LET change == scan[s].change IN
    /\ scan[s].pc = "matched"
    /\ row' = [h \in Hash |->
         IF row[h] = NoRow THEN NoRow
         ELSE [row[h] EXCEPT !.link   = IF change[h].link = NoLink THEN @ ELSE change[h].link,
                             !.posted = IF change[h].posted = 0 THEN @ ELSE change[h].posted]]
    /\ Commit(s, {h \in Hash : change[h] # NoChange},
              IF scan[s].fresh = {} THEN NoScan
              ELSE [scan[s] EXCEPT !.pc = "updated", !.change = NoScan.change])
    /\ UNCHANGED <<check, cleanup, app, world, bounds>>

\* _bulk_feed_hashes: too many click-outs of one minute, new and stored.
Bulk(s, p) ==
    LET new    == {q \in scan[s].fresh \ Direct : scan[s].date[q] = scan[s].date[p]}
        stored == {h \in Hash : Stored(h) /\ row[h].link \notin Direct
                                          /\ row[h].posted = scan[s].date[p]} IN
    p \notin Direct /\ Cardinality(new) + Cardinality(stored) >= BulkMin

CountBulk(s) ==
    /\ scan[s].pc = "updated"
    /\ scan' = [scan EXCEPT ![s].pc = "counted", ![s].bulk = {p \in scan[s].fresh : Bulk(s, p)}]
    /\ UNCHANGED <<row, check, cleanup, app, world, bounds>>

\* What scan s stores: INSERT ... ON CONFLICT DO NOTHING.
Stores(s, p) == p \in scan[s].fresh /\ ~Stored(HashOf[p])

Insert(s) ==
    /\ scan[s].pc = "counted"
    /\ row' = [h \in Hash |->
         IF \E p \in Posting : Stores(s, p) /\ HashOf[p] = h
           THEN LET p == CHOOSE q \in scan[s].fresh : HashOf[q] = h
                IN [status |-> IF p \in scan[s].bulk THEN "suppressed" ELSE "null",
                    link |-> p, posted |-> scan[s].date[p],
                    failures |-> 0, due |-> TRUE, old |-> FALSE]
           ELSE row[h]]
    /\ Commit(s, {HashOf[p] : p \in {q \in scan[s].fresh : Stores(s, q)}}, NoScan)
    /\ UNCHANGED <<check, cleanup, app, world, bounds>>

\* The database fails, or ends a deadlock of two scans: what is committed stays.
FailScan(s) ==
    /\ scan[s].pc # "idle"
    /\ scan' = [scan EXCEPT ![s] = NoScan]
    /\ UNCHANGED <<row, check, cleanup, app, world, bounds>>

-----------------------------------------------------------------------------
(* The URL check.                                                          *)

\* Mutants of Checkable: suppressed rows are checked too; closed rows are not.
CheckableAll(h)  == Stored(h) /\ row[h].due
CheckableOpen(h) == Stored(h) /\ row[h].due /\ row[h].status \notin {"suppressed", "closed"}

Checkable(h) == Stored(h) /\ row[h].due /\ row[h].status # "suppressed"

\* A pass loads the rows that are due, at most url_check_per_run of them; the
\* order (url_checked_at) is in the fairness.
StartPass(S) ==
    /\ ~check.running
    /\ S # {} /\ \A h \in S : Checkable(h)
    /\ Cardinality(S) <= PerRun
    /\ check' = [running |-> TRUE,
                 seen   |-> [h \in Hash |-> IF h \in S THEN row[h] ELSE NoRow],
                 result |-> [h \in Hash |-> IF h \in S THEN "pending" ELSE "none"]]
    /\ UNCHANGED <<row, scan, cleanup, app, world, bounds>>

\* check_url: a name that does not resolve makes the URL unsafe and the job
\* closed; other errors are transient; skipped is an unexpected exception.
Answers(p) ==
    IF ~dns THEN {"closed"}
    ELSE {"transient"} \cup (IF p \in live THEN {"active"} ELSE {"closed"})

\* The page answers, or fails to.
PingAnswered(h) ==
    /\ check.result[h] = "pending"
    /\ \E r \in Answers(check.seen[h].link) : check' = [check EXCEPT !.result[h] = r]
    /\ UNCHANGED <<row, scan, cleanup, app, world, bounds>>

Ping(h) ==
    /\ check.result[h] = "pending"
    /\ \E r \in Answers(check.seen[h].link) \cup {"skipped"} :
         check' = [check EXCEPT !.result[h] = r]
    /\ UNCHANGED <<row, scan, cleanup, app, world, bounds>>

\* The row that _one makes of what the pass has loaded.  Failures beyond the
\* limit are not told apart.
Checked(h) ==
    LET old == check.seen[h]
        n   == IF old.failures < MaxFailures THEN old.failures + 1 ELSE MaxFailures IN
    IF check.result[h] = "transient"
      THEN [old EXCEPT !.failures = n, !.due = FALSE,
                       !.status = IF n >= MaxFailures THEN "unreachable" ELSE @]
      ELSE [old EXCEPT !.failures = 0, !.due = FALSE, !.status = check.result[h]]

\* Mutant of Written: a job whose check raised an exception is written too.
WrittenAlways(h) == check.result[h] \in {"active", "closed", "transient", "skipped"}

Written(h) == check.result[h] \in {"active", "closed", "transient"}

\* The commit writes the columns that differ from what was loaded.
FinishPass ==
    /\ check.running
    /\ \A h \in Hash : check.result[h] # "pending"
    /\ row' = [h \in Hash |->
         IF ~Written(h) THEN row[h]
         ELSE LET old == check.seen[h]  new == Checked(h) IN
              [row[h] EXCEPT !.due = FALSE,
                 !.status   = IF new.status = old.status THEN @ ELSE new.status,
                 !.failures = IF new.failures = old.failures THEN @ ELSE new.failures]]
    /\ check' = NoCheck
    /\ UNCHANGED <<scan, cleanup, app, world, bounds>>

\* A row that the pass loaded has been deleted: the commit may fail.
FailPass ==
    /\ check.running
    /\ \A h \in Hash : check.result[h] # "pending"
    /\ \E h \in Hash : check.result[h] = "lost"
    /\ check' = NoCheck
    /\ UNCHANGED <<row, scan, cleanup, app, world, bounds>>

-----------------------------------------------------------------------------
(* The cleanup and the user.                                               *)

\* Mutant of Protected: an application that nobody answered is not protected.
ProtectedAnswered(h) == app[h] \in {"interviewing", "offer"}

Protected(h) == app[h] \in Active

\* The jobs with an active application are read first, ...
ReadProtected ==
    /\ cleanup.pc = "idle"
    /\ cleanup' = [pc |-> "reading", protected |-> {h \in Hash : Protected(h)}, doomed |-> {}]
    /\ UNCHANGED <<row, scan, check, app, world, bounds>>

\* ... then the old jobs, less those.
SelectOld ==
    LET doomed == {h \in Hash : Stored(h) /\ row[h].old} \ cleanup.protected IN
    /\ cleanup.pc = "reading"
    /\ cleanup' = IF doomed = {} THEN NoCleanup
                  ELSE [pc |-> "deleting", protected |-> {}, doomed |-> doomed]
    /\ UNCHANGED <<row, scan, check, app, world, bounds>>

\* Scores, applications and jobs are deleted in one transaction.  Scans and
\* the URL check hold ids, which a later row with the same hash does not have.
DeleteOld ==
    LET doomed == cleanup.doomed IN
    /\ cleanup.pc = "deleting"
    /\ row' = [h \in Hash |-> IF h \in doomed THEN NoRow ELSE row[h]]
    /\ app' = [h \in Hash |-> IF h \in doomed THEN "none" ELSE app[h]]
    /\ scan' = [s \in Scanner |-> [scan[s] EXCEPT !.change =
                  [h \in Hash |-> IF h \in doomed THEN NoChange ELSE @[h]]]]
    /\ check' = [check EXCEPT !.result =
                  [h \in Hash |-> IF h \in doomed /\ @[h] # "none" THEN "lost" ELSE @[h]]]
    /\ cleanup' = NoCleanup
    /\ UNCHANGED <<world, bounds>>

\* save_job, mark_applied and mark_rejected create an application;
\* update_status gives any status to one that exists.
SetStatus(h, status) ==
    /\ Stored(h) /\ status \in Sent
    /\ app[h] = "none" => status \in {"saved", "applied", "rejected"}
    /\ app' = [app EXCEPT ![h] = status]
    /\ UNCHANGED <<row, scan, check, cleanup, world, bounds>>

-----------------------------------------------------------------------------
(* The world.                                                              *)

\* The recheck interval passes; no pass lasts that long.
NextDay ==
    /\ ~check.running
    /\ \E h \in Hash : Stored(h) /\ ~row[h].due
    /\ row' = [h \in Hash |-> IF Stored(h) THEN [row[h] EXCEPT !.due = TRUE] ELSE NoRow]
    /\ UNCHANGED <<scan, check, cleanup, app, world, bounds>>

\* Bounds the model.
MoreEvents == ages + closings + outages + restarts < MaxEvents

GetOld(h) ==
    /\ Stored(h) /\ ~row[h].old
    /\ ages < MaxAges /\ MoreEvents
    /\ ages' = ages + 1
    /\ row' = [row EXCEPT ![h].old = TRUE]
    /\ UNCHANGED <<scan, check, cleanup, app, world, closings, outages, restarts>>

PageCloses(p) ==
    /\ p \in live /\ closings < MaxClosings /\ MoreEvents
    /\ closings' = closings + 1
    /\ live' = live \ {p}
    /\ UNCHANGED <<row, scan, check, cleanup, app, dns, ages, outages, restarts>>

DnsFails ==
    /\ dns /\ outages < MaxOutages /\ MoreEvents
    /\ outages' = outages + 1
    /\ dns' = FALSE
    /\ UNCHANGED <<row, scan, check, cleanup, app, live, ages, closings, restarts>>

DnsRecovers ==
    /\ ~dns
    /\ dns' = TRUE
    /\ UNCHANGED <<row, scan, check, cleanup, app, live, bounds>>

Restart ==
    /\ restarts < MaxRestarts /\ MoreEvents
    /\ restarts' = restarts + 1
    /\ scan' = [s \in Scanner |-> NoScan]
    /\ check' = NoCheck
    /\ cleanup' = NoCleanup
    /\ UNCHANGED <<row, app, world, ages, closings, outages>>

-----------------------------------------------------------------------------
Next ==
    \/ \E s \in Scanner :
         Search(s) \/ Match(s) \/ UpdateOriginals(s) \/ CountBulk(s) \/ Insert(s) \/ FailScan(s)
    \/ (\E S \in SUBSET Hash : StartPass(S)) \/ (\E h \in Hash : Ping(h)) \/ FinishPass \/ FailPass
    \/ ReadProtected \/ SelectOld \/ DeleteOld
    \/ \E h \in Hash, status \in Status : SetStatus(h, status)
    \/ NextDay \/ (\E h \in Hash : GetOld(h)) \/ (\E p \in Posting : PageCloses(p))
    \/ DnsFails \/ DnsRecovers \/ Restart

Spec == Init /\ [][Next]_vars

\* The check runs every day until its queue is empty and takes the row that
\* waits longest first; not every answer is an exception; outages end.
Fairness ==
    /\ WF_vars(FinishPass) /\ WF_vars(NextDay) /\ WF_vars(DnsRecovers)
    /\ \A h \in Hash :
         /\ SF_vars(\E S \in SUBSET Hash : h \in S /\ StartPass(S))
         /\ WF_vars(Ping(h)) /\ SF_vars(PingAnswered(h))

FairSpec == Spec /\ Fairness

-----------------------------------------------------------------------------
TypeOK ==
    /\ row \in [Hash -> Row \cup {NoRow}]
    /\ scan \in [Scanner -> ScanState]
    /\ check \in CheckState
    /\ cleanup \in CleanupState
    /\ app \in [Hash -> Status \cup {"none"}]
    /\ live \subseteq Posting /\ dns \in BOOLEAN
    /\ ages \in 0 .. MaxAges /\ closings \in 0 .. MaxClosings
    /\ outages \in 0 .. MaxOutages /\ restarts \in 0 .. MaxRestarts

\* A vacancy of the last 45 days that is not suppressed.
Counting(h) == Stored(h) /\ row[h].status # "suppressed" /\ ~row[h].old

\* A scan stores no repost of a vacancy that counts and has the same country,
\* whatever other scans, the URL check and the cleanup do between its steps,
\* unless another scan has stored that vacancy since the lookup.
RepostsSkipped ==
    [][\A s \in Scanner : Insert(s) => \A p \in Posting, h \in Hash :
         Stores(s, p) /\ Counting(h) /\ <<HashOf[p], h>> \in Alike
           /\ LandOf[h] = LandOf[HashOf[p]] /\ LandOf[h] # NoLand
             => h \in scan[s].missed]_vars

\* While it is stored, a row never gets a click-out for a direct link, nor a
\* later date, unless another scan has written it since the lookup of the one
\* that changes it.
RowsOnlyImprove ==
    [][\A h \in Hash : Stored(h) /\ Stored(h)' =>
         /\ row[h].link \in Direct => row'[h].link \in Direct
         /\ \/ row[h].posted >= row'[h].posted
            \/ \E s \in Scanner : UpdateOriginals(s) /\ h \in scan[s].missed]_vars

\* No check brings a suppressed row back.
SuppressedStays ==
    [][\A h \in Hash : Stored(h) /\ row[h].status = "suppressed" /\ Stored(h)' =>
         row'[h].status = "suppressed"]_vars

\* The running cleanup may take the row of h, or will.
Exposed(h) ==
    \/ cleanup.pc = "reading" /\ h \notin cleanup.protected
    \/ h \in cleanup.doomed

\* An application that is active when a cleanup reads the protected jobs keeps
\* its row, and an active one that the running cleanup has not missed does not
\* become its prey: only one that becomes active after that read can be lost.
KeptUnlessExposed ==
    [][\A h \in Hash : app[h] \in Active /\ ~Exposed(h) => Stored(h)' /\ ~Exposed(h)']_vars

CheckedDaily(h) == Stored(h) /\ row[h].status # "suppressed"

\* A page that stays up does not leave its job closed, and a page that has
\* gone does not leave it active, for ever.
StatusFollowsPage ==
    \A h \in Hash :
        /\ <>[](CheckedDaily(h) /\ row[h].link \in live)
             => []<>(Stored(h) /\ row[h].status # "closed")
        /\ <>[](CheckedDaily(h) /\ row[h].link \notin live)
             => <>[](Stored(h) /\ row[h].status \in {"closed", "unreachable"})

-----------------------------------------------------------------------------
(* What a comment and the documentation say and the code does not keep.    *)

\* comment: a suppressed row must not block the genuine vacancy later.
GenuineIsStored ==
    [][\A s \in Scanner : Match(s) => \A p \in Direct :
         scan[s].date[p] # 0 /\ p \notin scan[s].fresh => row[HashOf[p]].status # "suppressed"]_vars

\* comment: the stored row keeps the earliest date.
EarliestIsKept ==
    [][\A h \in Hash : Stored(h) /\ Stored(h)' => row[h].posted >= row'[h].posted]_vars
=============================================================================
