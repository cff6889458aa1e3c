# A TLA+ model of Pipka

Pipka collects vacancies from a dozen providers, rates them with an AI against
the profile of each user, and announces the best ones over Telegram and a web
dashboard. This directory holds TLA+ modules of the parts of it where order,
concurrency and failure matter, the configurations that check them with TLC,
and proofs that the TLA+ proof system checks.

To check one instance: `tlc -config Gemini.cfg MCGeminiBreaker.tla`; to check
the proofs: `tlapm BillingProofs.tla`, and so on for `GeminiProofs`,
`ScoringProofs`, `VacanciesProofs`, `RequestProofs`, `UserProofs`,
`ServicesProofs` and the lemmas in `DataLemmas`.
`PROJECT.json` lists every run, which lines of the source each definition
models, a mutation that each property catches, the hazards, and the places
where the code and its documentation disagree.

## 1. The system

One asyncio process runs three things in one event loop: the FastAPI
application (`app/api`), the Telegram bot (`app/bot`), and an APScheduler
(`app/services/scheduler_service.py:69-186`). All of them use PostgreSQL
through sessions of their own, at READ COMMITTED, with objects that a commit
does not expire (`app/database.py:42`). So every `await` is a point where any
other handler or task may run, and what a session has read may be minutes old
when it writes.

| Component | State | Operations | Talks to | Hard part |
|---|---|---|---|---|
| Credits and payments (`billing_service`, `api/billing`) | `users.credits`, `total_credits_purchased`, `payment_transactions` | checkout, webhook, test-fulfil, charge of a scan | Cryptomus, scans | repeated webhooks, absolute writes of counters, crash between commit and call |
| Gemini budget and breaker (`gemini_matcher`) | semaphore, `_gemini_disabled_until`, `_consecutive_exhausts`, rows of `ops_events` | claim a slot, pace, send, retry, open the breaker | every scorer | count-then-insert, the reset at 08:00 UTC, restarts, release on every path |
| Score cache (`job_scores`) | score, analysis, `profile_hash`, `model_version` per user and job | hourly scan, watchlist scan, backfill, recheck, idle pass, auto-exclude | AI scorers, profile, tracker, Telegram | tasks that loaded different profiles write the same row; who announces |
| Pre-filter (`rules`) | none | `pre_filter` | scorers | pure |
| Tracker (`tracker_service`) | `applications`, their history, `excluded_companies` | save, apply, reject, status, auto-exclude | web and bot | two writers of one row, absolute write of a list |
| Cleanup | `jobs` | delete old vacancies | tracker, scores, URL check | reads who is protected, then deletes |
| Vacancy store, URL check (`url_checker`) | `url_status`, failures | ping, close, suppress | aggregator, cleanup | status read at the start of a pass, written at its end |
| Aggregator (`aggregator`, `base`) | `jobs` | upsert, fuzzy dedup, suppress reposts | adapters | order of suppression and refresh |
| Search plans (`user_scope_service`, windows of the sources) | the round-robin offset, the hour | merge, rotate, cut a window | scans | fairness between users; windows that move in step |
| Embeddings (`embedding_service`) | vectors and their hash | index, invalidate, rank by similarity | profile edits, backfill | profile edited during the call; two queries with an edit between them |
| Interactive search, bot (`job_service`, `bot/handlers`) | `user_data`: result list, page, prompts | search, inbox, "show more", texts | aggregator, scorers, dashboard | old buttons on new lists, refused messages, lost memory |
| Rate limit (`_ratelimit`) | deques of admission times | admit, refuse, clean up | every request | trimming must forget nothing that counts; the ceiling |
| Logins and roles (`auth`, `_helpers`, `user_service`, `admin`) | `users`, cookies, role cache | log in, check an admin, deactivate | every admin request | cache filled after an await against a drop; login against deactivation |
| Stats caches (`stats`) | two payloads with their expiry | compute, store, drop | clicks, bot, scans | computed across awaits, stored after an invalidation |
| Backups (`backup_service`) | files, scratch databases | dump, rename, rotate, copy, restore check | pg_dump, B2 | kills at every step |
| Pages, health, feedback, adapters, frontend, scripts | request-local | | | none that outlives a request |

What makes each correct:

* *Payments*: an order is issued once whatever is repeated, late or dead; money
  that arrived is credited; balances invent nothing.
* *Gemini*: no quota day is overdrawn; the pause ends when it should and not
  before; no caller waits for ever.
* *Scores*: a user hears of a vacancy once; a stale score is replaced in the
  end; a score counts only for what it was given for; rules beat the AI.
* *Vacancies and cleanup*: a repost of a stored vacancy is skipped and a stored
  vacancy only gets better, but for the races of two scans; a suppressed one stays
  suppressed; the status follows the page; an applied vacancy is kept, but for the
  race of the user with the cleanup.
* *Tracker*: the history names the status; enough rejections exclude a company
  however the clicks overlap.
* *Plans*: sources with queries for each country ask for nobody's titles where only
  somebody else wants them, and nobody's are shut out by a cap or a window.
* *Embeddings*: a stored hash names the text of its vector; candidates are never
  ordered by a vector of another text; the index catches up.
* *Requests*: no window admits more than its limit; a revoked role ends within
  its time to live; a deactivated account stays so; served numbers contain the
  user's own clicks and are never too old.
* *Bot, backups*: no card twice and none skipped; what looks like a backup is one,
  and the newest ones are kept.

The hazards behind these are listed with their lines in `PROJECT.json`.

## 2. Modules

| Module | Contents |
|---|---|
| `PaymentOrders` | abstract: the life of one order, absent - pending - failed - paid, issued by the step that pays |
| `Billing` | checkouts, the provider's invoices, fulfilments, charges of scans, restarts |
| `BillingProofs` | inductive invariant, type correctness, safety, balances, refinement of `PaymentOrders` |
| `DailyBudget` | abstract: bookings on a quota day never exceed the limit |
| `GeminiBreaker` | `_call_gemini_raw` with semaphore, claim, pacing, retries, breaker, quota days, restarts |
| `GeminiProofs` | inductive invariant, type correctness, quota, breaker, refinement of `DailyBudget` |
| `Scoring` | the rows of `job_scores` of one user and every task and request that writes them |
| `ScoringProofs` | type correctness, and "announced once" |
| `Vacancies` | the table `jobs`: scans, URL check, cleanup, and the applications the cleanup respects |
| `VacanciesProofs` | for any number of concurrent scans: type correctness, suppression, reposts are skipped, rows improve, active applications are kept |
| `RateLimit` | sliding windows for all subjects, their trimming, the ceiling, `Retry-After` |
| `Access` | Google logins, sessions, the admin check with its role cache, deactivation |
| `SearchPlans` | the users' plans, their merge and rotation, and what each of the eight sources that search for titles asks |
| `Embedding` | passes of the semantic index with their limit on profiles, edits during them, and the task that ranks by similarity |
| `Tracker` | marks, status changes, history and automatic exclusion under overlapping requests |
| `StatsCache` | the two payloads of `api/stats.py` against clicks |
| `Backups` | dump, rotation, offsite copy, restore check, kills |
| `BotSession` | what the bot remembers of one chat |
| `Orders` | the one operator by which `SearchPlans` and `BotSession` sort: what has `i - 1` others ahead comes `i`-th |
| `RequestProofs` | about `RateLimit`, `Access` and `StatsCache`: types, no window overdrawn, waiting helps, revoked roles end in time, deactivation lasts, told clicks are counted, no payload too old |
| `UserProofs` | about `Tracker` and `BotSession`: types, overlapping rejections exclude, history names the status, no card twice |
| `ServicesProofs` | about `Embedding`, `Backups` and `SearchPlans`: types, hash and vector agree, own vectors only, last dumps kept, nobody else's queries; and about the composition in `MCServices` |
| `DataLemmas` | sums over the rows of a ledger, sorted lists, joined sequences, smallest counterexamples |
| `MCBilling`, `MCGeminiBreaker`, `MCScoring`, `MCVacancies` | values and symmetry sets for TLC |
| `MCJobs` | three instances of `Vacancies` side by side: two scans; a scan of feeds and the URL check; a scan, the cleanup and a user |
| `MCServices` | the eight modules without shared state side by side: in each behaviour one runs |
| `MCFair` | `Scoring` and `Vacancies` side by side, for their progress under fairness |

The detailed modules meet in three places. `Scoring` takes a fixed set of
vacancies, which `Vacancies` fills and empties. `Scoring` sees of the breaker
only that it is open or not, and that this may change at any time
(`FlipBreaker`); `GeminiBreaker` says when it does. `Scoring` leaves out the
charge that follows a scan's scores; `Billing` has the charge and leaves out
which scores they were. `Tracker` has the requests that `Scoring` and
`Vacancies` see only the outcome of; `Embedding` is edited by the same profile
requests as `Scoring`; a search in `BotSession` asks `RateLimit` first.

### 2.1 Billing

A handler is a record of what its session has loaded: `row`, `credits`,
`purchased`. Its steps end where the code awaits.

| Action | Code |
|---|---|
| `OpenOrder`, `StorePaymentUrl`, `FailOrder`, `AbandonCheckout` | the commits of `create_checkout_invoice`, one each |
| `CreateInvoice`, `Settle` | Cryptomus (external): it accepts the invoice, the customer pays |
| `WebhookLock`, `WebhookReadUser`, `Fulfil` | `crypto_webhook` and `fulfill_payment_transaction`: lock the order, read the user without a lock, write and commit |
| `SandboxAuthenticate`, `SandboxSelect`, `SandboxLock`, `Fulfil` | `test_fulfill_checkout`: user and order are loaded by earlier statements; `SELECT ... FOR UPDATE` takes the lock but does not refresh a loaded object, so the guards see the older row |
| `LoadUsers`, `ScoreUser`, `SkipUser`, `Charge`, `EndScan` | `_background_scan`, `_watchlist_scan`, `_score_and_notify` |
| `Abort`, `Restart` | exception or timeout in a handler; a new process, perhaps with other payment settings |

Decisions. The customer can pay only after the payment URL was stored, since
nobody else knows it. A webhook that is refused changes nothing and is left
out. A checkout whose final commit cannot get the row lock within
`lock_timeout` is abandoned. A commit of a handler is atomic and includes the
release of its lock. `webhookGrants` and `sandboxGrants` are history.

### 2.2 GeminiBreaker

Time is the number of the quota day. `_claim_daily_request_slot` is three steps:
compute the start of the day (`Acquire`), count (`CountSlots`), insert and
commit (`BookSlot`). `ops_events.created_at` is `now()`, in PostgreSQL the start
of the transaction, which `SELECT count(*)` opens: a slot counted before the
reset is booked on the old day even if it is committed after it. `NewDay`
assumes that one claim does not see two resets; `statement_timeout` is 30 s.
`_record_exhaust` is one step: `_breaker_lock` is held and nothing is awaited
between its test and its assignments. A pool timeout during the claim is
retryable by its class name (`ClaimFails`). `Poll` is any caller that asks
`is_gemini_available` only to choose a scorer; asking closes a breaker whose
time is over. `failedInARow` and `sent` are history. `gemini_analyze`-style
calls for a single vacancy do not pass through this path and are not modelled.

### 2.3 Scoring

One user; users share no rows of `job_scores`. The hash of a profile is the
profile itself (sha256 is taken to be injective); a profile is the set of
excluded companies and one value for everything else. The pre-filter is its
rule for excluded companies, the only rule that depends on what `Scoring`
changes. Scores are `none` (no row), `zero`, `low` (1-59) and `top` (80-100).

| Action | Code |
|---|---|
| `Load` | start of a run: the user is loaded with the profile, which the run uses to its end; the backfill also fixes its scorer; the idle pass starts only when every vacancy has a row |
| `SelectForScan` | `_score_and_notify` up to the choice of the scorer |
| `SelectForBackfill` | `_backfill_score`: selection, upsert of the pre-filter's rejects, tiers, and with nothing to score the start of `recheck_zero_scores` |
| `Score` | `score_jobs_gemini` (one commit per batch) or `score_jobs_nvidia` (job after job, until the deadline: `StopScoring`); answers may be missing for some jobs |
| `Upsert`, `Stale`, `Returned` | `INSERT ... ON CONFLICT DO UPDATE ... WHERE` hash or model differ `RETURNING` |
| `Fallback`, `FinishBackfill` | `_score_backfill_batch` |
| `Push` | announcement of the strong rows that this run wrote itself |
| `SelectRejects`, `SelectOld`, `Rewrite`, `FinishIdle` | `idle_rescore_for_user`; `Rewrite` is `recheck_zero_scores` too |
| `Flush`, `Merge` | SQLAlchemy writes only the columns that differ from what was loaded |
| `EditProfile`, `Apply`, `Reject`, `AutoExclude` | requests; `AutoExclude` writes the whole list from what the session loaded at authentication |
| `FlipBreaker`, `Age`, `Restart`, `Abort` | the environment |

Decisions. The several reads of one selection are one step. A batch fits into
one request (15 vacancies, at most two here). The rows that exist at the start
are either none or of the time before provenance was recorded (`Legacy`).
Interactive searches are left out: they use the same upsert and announce
nothing. The threshold of five rejects is one. Un-hiding a vacancy through
`update_status` is left to the tracker.

`PushedOnce` counts announcements only while profile and breaker have not
changed (`steady`): after a change of either, a second announcement of a
vacancy rated again is what the code intends. The run that checks it has no
idle pass: with one, a `Legacy` row that the pass rates between a scan's
selection and its upsert is announced although it was announced before.

### 2.4 Vacancies

A row is named by its `dedup_hash`. A posting is what a provider publishes; its
link is named by the posting. `Alike` holds the pairs of hashes that
`is_fuzzy_duplicate` takes for one vacancy; it is symmetric and not transitive:
a vacancy in "Deutschland" is alike both of two in different cities. `LandOf` is
the normalised country of a hash, or none.

| Action | Code |
|---|---|
| `Search`, `Unique`, `Merged`, `Keeps` | `JobAggregator.search` up to the lookup by hash: the jobs of the sources in any order, one for each hash, and `_fuzzy_deduplicate`, which merges each into the first entry that is alike; an entry has its earliest date |
| `Match` | the lookup of `_suppress_reposts`: rows in the countries of the candidates only, so that a row without a country is never found and candidates without one look for nothing; what the reposts would change is computed from the rows as they were read |
| `UpdateOriginals` | its commit: a direct link for a click-out, an earlier date |
| `CountBulk`, `Bulk` | `_bulk_feed_hashes`, a query of its own: too many click-outs of one minute are to be suppressed |
| `Insert` | `INSERT ... ON CONFLICT DO NOTHING` |
| `FailScan` | the database fails or ends a deadlock of two scans; what is committed stays |
| `StartPass`, `Ping`, `PingAnswered`, `FinishPass`, `FailPass` | `run_url_check_pass`: load, ping, one commit of the columns that changed; `FailPass` when a loaded row is gone |
| `ReadProtected`, `SelectOld`, `DeleteOld` | `_cleanup_old_jobs`: the jobs with an active application, then the old jobs less those, then one transaction over scores, applications and jobs |
| `SetStatus` | the tracker, for one user |
| `NextDay`, `GetOld`, `PageCloses`, `DnsFails`, `DnsRecovers`, `Restart` | the environment |

Decisions. Scans share no lock, and `Scanner` is any set of them; `missed` is
history: the rows that other scans have committed since this one's lookup. Two
postings alike may still name different countries only if one names none. The
filters for language, age and place drop entries as a whole: any non-empty set of
them may pass. When several stored rows match a candidate, the database's order
chooses. `MaxEvents` bounds agings, closings, outages and restarts together, so
that one of each kind can be allowed without all of their combinations. Every
posting has a date; date 0 in a record means none. A tracker request is one step.
`live` says of a page that `check_url` would find it active, whatever makes it so.
The interval for reposts and the age limit of the cleanup are both 45 days, one
flag `old`. A row that was deleted and stored again has another id: what a scan or
a pass still holds of the former is lost. `suppress_feed_noise.py` is left out.

### 2.5 RateLimit

| Action | Code |
|---|---|
| `Serve`: `Check`, `RefuseNew` | `_check`, which never awaits: the ceiling for new subjects, then trimming, refusal or admission |
| `CleanUpBuckets` | one round of `_bucket_cleanup_loop`, an hour after the one before |
| `LimitTick` | the clock |

A clock tick is a part of a second, since `Retry-After` is truncated to whole
ones. `admitted` and `promised` are history. A subject stands for a pair of user
or address and key; which rule applies to a path is left to the middleware.

### 2.6 Access

| Action | Code |
|---|---|
| `LoginRead`, `LoginDenied`, `LoginCommit` | `google_callback` and `get_or_create_google_user`: find the row, refuse, or insert or update it |
| `Logout`, `UserRequest` | end of a session; `get_session_user` clears the cookie and the role of an inactive account |
| `AdminCheck`, `RoleRead`, `RoleStore` | `require_admin_async`: the clock, the cache, the query, the store |
| `DeleteRead`, `DeleteCommit` | `admin_delete_user`: load, deactivate, drop the role |
| `Demote` | external: nothing in the program takes a role away |
| `RestartServer`, `AccessTick` | the environment |

`lastAdmin` is history: when somebody was an active admin for the last time.

### 2.7 SearchPlans

| Action or operator | Code |
|---|---|
| `Scan`, `Merged`, `RoundRobin`, `NextOffset` | `_background_scan` up to the search, `merge_user_search_plans`, `_round_robin_values`, `rotate_items` |
| `Ask` with `Adzuna`, `Jooble`, `JobSpy`, `BuiltIn` | what the sources with queries for each country (`Specific`) cut out of the plan: combinations in order of rank up to a cap; one country and a few titles by `hour // 3`; two windows by the same slot; the first titles of each country |
| `Ask` with `Xing`, `Arbeitsagentur`, `Wttj`, `Remotive` | the sources that search for all titles of the merged plan, once or in each country they know |
| `JoobleRefuses` | a 403 turns the source off until a restart |
| `Switch`, `NextHour`, `RestartScans` | the environment |

Jooble searches in Germany when it knows no country of the plan, BuiltIn for each
country that it does not know. That the four other sources ask for everybody's
titles in the same places is what the code means them to do: the docstring of
`merge_user_search_plans` keeps users apart only where a source has queries for
each country. The sources that load whole feeds ask for no titles.

The merge is a pure function of the users and the offset, tabulated as
`MergedPlan`. `BotSession` and `SearchPlans` sort by counting what comes before
(`Ranked` of `Orders`), not by a recursive operator; a list comprehension with a
condition is `Select`, which takes members of a set in the order of a sequence
(users, countries and merged countries have no duplicates).

### 2.8 Embedding

| Action | Code |
|---|---|
| `StartPass`, `IndexJob`, `JobFails`, `FinishJobs` | the two-hourly and the burst pass under `_embed_lock`, `_index_jobs` |
| `Recent`, `LoadProfiles`, `CompareHash`, `WriteProfile`, `ProfileFails`, `FinishPass`, `LosePass` | `_index_profiles`: load the profiles of active users that were saved last, up to a limit (200 in the code), compare, ask the provider, write with the hash computed before |
| `EditAndInvalidate`, `UploadResume`, `EditOnly` | profile changes that clear the vector, and those that do not |
| `Deactivate` | an admin deactivates the account |
| `LoadCandidates`, `CompareVector`, `RankByVector`, `RankWithoutVector` | `_semantic_priority_filter`: hash, check, similarities, each a query of its own |

A vector is named by the text it was made of; `later` is the order of
`updated_at`, which an edit moves and the plain SQL that writes or clears a vector
does not. `RankWithoutVector` is
the task that finds the vector gone at its second query and ends with a
`TypeError` (section 5).

### 2.9 Tracker

| Action | Code |
|---|---|
| `Authenticate`, `Read`, `ReadForSaved`, `Commit`, `Refuse` | `save_job`, `mark_applied`, `mark_rejected`, `update_status`, from the web and from the bot |
| `Count`, `Exclude` | `check_auto_exclude_company`, called by `job_action` only, with its early returns: the vacancy is gone, the name is short or a placeholder (`Excludable`), too few rejections, no profile, on the list already |
| `Die` | an error or the end of the process |
| `EditExcluded`, `CleanUpJob` | the settings, the daily cleanup |

A session keeps the user it loaded at authentication, with the list of that
moment; only a profile that did not exist then is loaded by the check (`ListOf`).
`raced` and `webOnly` are history: vacancies with overlapping changes, companies
that only web clicks of a user with a profile rejected and nobody took off the
list.

### 2.10 StatsCache, Backups, BotSession

`StatsCache`: `Miss`, `Query`, `Store`, `Fail` are a request for the numbers;
`CommitClick` and `FinishClick` a click and its invalidation; `ChangeElsewhere`
everything that leaves the cache alone. `told` is history, and does not count
a click that overlapped with another request for the numbers: that request
stores an older payload after the invalidation.

`Backups`: `StartBackup`, `Dump`, `Replace`, `RotateFiles`, `Upload` and
`FailBackup` are `daily_backup`, `StartCheck` and `EndCheck` the weekly restore
check, `Kill` a stop of the process between any two steps. A dump is whole or
not.

`BotSession`: `Inbox`, `SearchPreset`, `OpenCustomSearch`, `OpenProfileField`,
`TypeText` and `ShowMore` are updates of one chat, taken one after the other;
`Collect` and `ScoreAndShow` are `search_and_score`, with clicks on the dashboard
(`MarkPosting`) in between; `SendPage` may end anywhere, when Telegram refuses a
message; `RestartBot` loses `user_data`.

## 3. Runs

| Run | Question | Bounds | Distinct states |
|---|---|---|---|
| `BillingLive` | is an order issued once, never taken back, and nothing invented, with live payments? does `Billing` implement `PaymentOrders`? | 2 users (one an admin), 2 orders, 2 handlers, 2 scans, 1 restart; symmetric | 1.05 million |
| `BillingModes` | does test-fulfil keep off real orders across changes of mode? is the balance exact with one paid order? is settled money credited? | 1 user, 2 orders, 2 handlers, 3 modes, 2 restarts; with fairness | 94 000 |
| `BillingLostPurchase` | (violated) are counters exact with two webhooks? | as above, no restart | |
| `Gemini` | budget, breaker, every call returns, refinement | 2 callers, limit 2, 2 attempts, threshold 2, 2 days, 1 restart | 66 000 |
| `GeminiTrip` | (violated) a trip takes three failures in a row | 1 caller, the code's threshold 3 | |
| `Scoring` | types; announced once | 1 vacancy, hourly and watchlist scan, backfill, 1 edit, 1 flip, 1 restart | 428 000 |
| `ScoringBlocked` | (violated) a valid row was scored | 2 vacancies of one company, hourly scan, 1 edit | |
| `Vacancies` | are reposts skipped and do rows only improve, but for races? does suppression last, is an active application kept? | 3 postings: a click-out, a direct link that is alike it and a third one, a click-out that is not alike the first. *Rivals*: 2 scans of up to 2 postings with dates of their own. *Feeds*: 1 scan, click-outs of one minute, one without a country, bulk limit 2, URL check of 1 job per pass. *Keeper*: 1 scan of up to 3, the cleanup, a user who applies. One aging, closing, outage or restart | 443 000 |
| `VacanciesBlocked` | (violated) is the genuine vacancy stored after a suppressed one? | the 3 postings, two of them spelled alike | |
| `VacanciesDates` | (violated) does a row keep its earliest date? | the 3 postings in one country, 2 scans of one each | |
| `Fair` | do the scores drain? does the status follow the page? | 1 vacancy, backfill and idle pass, 1 edit, 1 flip; beside it 2 postings, 1 page that closes, 1 outage, 1 restart, 2 failures for unreachable | 83 000 |
| `Services` | all properties of sections 2.5 to 2.10, liveness of plans and embeddings included | see below | 520 000 |

Why the bounds are enough for the questions. Two of each actor give every
pairwise interleaving, which is where the code has its locks and its absolute
writes; the proofs of section 4 cover all numbers. Two orders of two users are
needed for counters that are written by both, two days for a claim over the
reset, one restart for lost process state and two for a setting that changes
and changes back. In `Scoring` the rows of different vacancies meet only in
batches, in the exclusion of a company and in the guard of the idle pass; two
vacancies of one company with all tasks are beyond five minutes, so the
exclusion is checked with two vacancies and one task. The three postings of
`Vacancies` are the smallest set with a repost that upgrades its row, one that
arrives in the wrong order, two that are alike a third and not each other, and a
bulk feed of two. `MCJobs` checks three instances in one run because their
questions need different actors: the race of two scans, what suppression and the
URL check do to rows, and the race of the user with the cleanup.

`Services` runs one module per behaviour, so that its states add up instead of
multiplying: 2 subjects with different windows and a ceiling of 1; 2 people, 2
requests, a time to live of 1; 2 users who share a country and a title, four
merged countries of which JobSpy takes 3 a slot, two to five titles in each, of
which it takes 2, Adzuna's cap of 3, 1 change of a profile and 1 restart; 2
vacancies indexed one at a time and 3 profiles of which a pass loads 2 and writes
1, 1 edit or deactivation, 1 failure (with any one text and any one order to begin
with, since texts of two profiles are never compared and profiles differ in
nothing else); 2 vacancies of one company, 2 web requests and the bot, 3 clicks or
edits; 2 readers and a click; 3 days with 2 dumps kept; 3 vacancies and 4 updates
with pages of 2. These are the smallest in which a limit, a window or a list is
reached and passed while another actor is between two of its steps. The eight
sources of a scan touch nothing in common, so `MCServices` asks them in one order.

Deadlock is checked in the runs whose environment can always move, and switched off
where orders are finite, the last quota day has ended, or a service of `Services`
has used up its clock or its inputs.

Every property of a passing run has a mutant in `PROJECT.json` - a dropped
guard, a missing cap, a lost early return - under which the same run fails.

### Fairness

* `Billing`: strong fairness of taking the order's lock and of the commit. The
  provider repeats a webhook that was not answered with success, and a handler
  that dies (`Abort`) is replaced by the next delivery; strong, because a handler
  may die in between any number of times, only not for ever. Nothing is assumed of
  checkouts, scans or customers.
* `GeminiBreaker`: weak fairness of a call's own steps (the event loop runs what
  is ready; database and HTTP calls time out) and strong fairness of taking the
  semaphore, which `asyncio.Semaphore` hands to its waiters in order.
* `Scoring`: weak fairness of each task's steps, of starting the backfill
  (every two hours), strong fairness of its selection and of an answer for its
  whole batch - the provider is not down for ever. Nothing is assumed of the
  user.
* `Services` states the fairness of the next two for the behaviours in which they
  run.
* `SearchPlans`: the hourly trigger fires again and again (`[]<>started`), the
  hour passes although scans are started by hand (strong fairness of `NextHour`),
  and every source is asked (weak: each has a timeout).
* `Embedding`: the provider answers or fails (weak fairness of a pass's steps),
  and the trigger of the full pass finds the lock free again and again (strong).
  Errors and edits are bounded; nothing else is assumed.
* `Vacancies`: the daily check runs until its queue is empty and takes the row
  that waits longest first, so that strong fairness of a pass with a given row
  is what `ORDER BY url_checked_at` gives; not every check of a row ends in an
  unexpected exception or a transient error (strong fairness of `PingAnswered`
  leaves the transient ones: a page may be down each time, and is then
  `unreachable`); outages of name resolution end. Scans and the cleanup need
  not run.

## 4. Proofs

The theorems hold for every value of the constants that the named `ASSUME`s of
the modules admit; nothing else is assumed unless a theorem says so. TLC checks
each property first, and each inductive invariant was checked by TLC on a small
instance too. Every invariant that a run expects to hold is proved; what is left
to TLC is named at the end of this section.

**Billing** (`BillingProofs`). `PaidMeansIssuedOnce` is not inductive: it says
nothing of the handler that is about to commit. The inductive invariant adds

* `OrderShape`: which combinations of order row, checkout and invoice exist;
* `HandlerShape`: what a handler may have loaded at each of its steps;
* `WebhookHoldsUnpaid`, `LockIsExclusive`: who holds the lock of an order
  loaded its row after the last commit, and holds it alone;
* `SandboxSeesUuid`, `Issued`: a test-fulfil that will commit has seen that
  the provider does not know the order;
* `ScanShape`: what a scan has loaded.

`TypeCorrect` and `ProviderOrdersArePaidFor` hold in every mode. `IssuedOnce`,
`PaidStaysPaid` and `Refinement` assume that sandbox is not among the modes:
two concurrent test-fulfils load the order before they lock it and do issue it
twice.

`NoMinting` is about absolute writes of counters that were read earlier. Its
inductive invariant `FundsInv` says of each reader that what it read was not
above what had been paid for by then (`ReadNoMore` of a handler, `SeenNoMore` of a
scan), and of a handler that will commit that its order is not yet among the
paid ones (`KnowsOrder`), so that its sum adds a package that `PaidValue` gains in
the same commit. That such sums grow and split as they should is proved in
`DataLemmas` (`TotalStep`, `TotalRemove`, `TotalGrows`). `NothingMinted`
holds in every mode. `ExactWithoutScans` assumes `Scanner = {}`, as the run
`BillingModes` has it, since a charge may lose a purchase; `ExactInv` adds what a
handler has read of an account that paid for nothing or for its own order only.

`Refinement` maps an order to its status and the sum of what was issued
for it; initial states map to initial states and each step to a step of
`PaymentOrders` or a stutter.

**Gemini** (`GeminiProofs`). The count that a claim has read is stale when it
books. What makes the quota hold is that the semaphore is held meanwhile. So
the invariant has `Exclusive` (at most one caller is past the semaphore),
`Claim` (who was granted a slot leaves room for one booking on the day it
counted, which is today or yesterday) and `Ledger` (a day's bookings are within
the limit, and its requests exceed its bookings by at most one: the one booked
before the reset and sent after it). Theorems: `TypeCorrect`, `Quota`,
`SentQuota`, `OpenUntilReset`, and `Refinement` of `DailyBudget`.

**Scoring** (`ScoringProofs`). `PushedOnce` rests on the upsert, not on any
lock. `ClaimInv` says that while neither profile nor breaker has moved

* `SameScorer`: every running task has the current profile and Gemini;
* `OneClaim`: what a task may announce is `Settled` - its row has the current
  hash and model, so that no upsert returns it to anyone else - and is claimed
  by that task only, and was not announced before;
* `TaskShape`: only vacancies that passed the pre-filter are sent to an AI, so
  the pre-filter's rows of another task do not unsettle them.

`AnnouncedOnce` assumes that there is no idle pass, which scores with another
model (see section 2.3).

**Vacancies** (`VacanciesProofs`). `CheckInv`: what a pass has loaded and not
lost belongs to a row that is stored and not suppressed, and was not suppressed
when it was loaded; so no commit of a pass revives one. `FreshInv`: what a scan
is about to insert is alike no row of its country that counts, unless another scan
has written that row since the lookup (`missed`); it survives what everybody else
does because only an insert makes a row count - rows get old, suppressed or
deleted, never the reverse. `ChangeInv`: a change that a scan holds improves the row
it was computed from, and that row has not been deleted, nor changed but by a scan
that is among the missed. Together they are `ScansAreRight`, of which
`RepostsAreSkipped` and `OffersImprove` follow for any number of concurrent scans.
`ActiveIsKept` says that an application which is active when a cleanup reads the
protected jobs keeps its row; it rests on `AppInv`, an application belongs to a
stored vacancy. No theorem of this module needs an assumption of its own. The
earliest date of a set of postings is a `CHOOSE`; that it exists for any set is
the well-foundedness of `<` on `Nat`.

**RateLimit** (`RequestProofs`). `WindowBound` speaks of all admitted requests,
of which the code keeps only some. `BucketInv` relates the two: a deque is the
end of the admitted times (`Remembers`), at most `Limit` long, and what it lacks
is outside the window. So the request `Limit` places before a new one is among
those it lacks. Trimming by the hour keeps this because no window is longer than
the hour (assumed, as in the code's rules). `MemoryIsBounded` is about the
ceiling and the lengths. `WaitingHelps` proves `RetryIsEnough` from `Promise`: a
bucket that was promised room has room, or its oldest entry leaves the window
before the promised time. Which entries a request trims is the least number of
places that leaves no old one; that it exists is the choice of a smallest number
(`SmallestNat`).

**Access** (`RequestProofs`). `EntryInv` and `RequestInv`: an entry that says
admin, and a role that was read but not stored, expire within the time to live
of a moment at which it was true; for that the clock has to be read before the
database. Deactivation lasts because only an insert makes an account active.

**StatsCache** (`RequestProofs`). `Counted`: whatever is stored, or will be
stored by a request under way, contains the clicks its user was told of.
`Aged`: a request knows when it began, its first query is not earlier, and
`QueryTime` bounds how much later it stores.

**Tracker** (`UserProofs`). `ThresholdExcludes` speaks only of states in which no
click is in flight. `KInv` says what holds in between: a company that is overdue
(its rejections on the dashboard reach the threshold, and it is not excluded) has
a click that is about to exclude it, or about to count and not misled by the
list it loaded (`WillExclude`). The second part needs `ListedStays`: a company
that some session has on its loaded list, and that nobody took off, is excluded
now. A commit that adds a rejection provides the click; a click that counts and
finds too few proves that the company was not overdue. Companies that cannot
be excluded, and users without a profile, are outside of the statement, since the
code returns early for them. `HistoryNamesStatus` is inductive together with
`KInv`.

**BotSession** (`UserProofs`). `MemoryInv`: the cards sent of the list are its
positions in growing order, none beyond the pages counted as shown, and what is
missing among those fits into a page for each that failed (`Sent`). A page that
breaks off after k cards, is counted and never sent again, is why the bound is
needed. That a list sorted with `Ranked` holds exactly the vacancies to be sorted
is `RankedAll`: in a strict total order of a finite set the number of
predecessors is injective, hence onto.

**Embedding** (`ServicesProofs`). A pass writes the vector and the hash of the
same loaded text at once (`EmbedShape`), so the hash is true of the vector even
when both are out of date. `RankShape`: between its two queries, a task's own
text is the one of the vector unless the row was written. For the types, a pass
that asks the provider has written fewer profiles than it may (`PassShape`).

**Backups** (`ServicesProofs`). `BackupsKept` is inductive with `DumpsInv`: every
file named like a dump was finished; at most one dump is made a day, none on a
day later than that of the last start; so a rename adds the newest dump of all,
and a rotation removes only files with `KeepLast` newer ones on the disk.

**SearchPlans** (`ServicesProofs`). `GoodPlan`: each title in a merged plan's list
of a country is wanted there by one user, or is an alias of such a title, and
each title of the list for all countries belongs to a user whose countries are
all in the plan. `MergedIsGood` proves it of `Merged`, through `RoundRobinAll` (a
round robin holds what its sequences hold), `SelectAll`, and `FlattenType` (the
fold that joins sequences; by the smallest number of sequences for which it
fails). `PlansInv` adds that what was asked was wanted. Jooble's default country
is asked only if no country of the plan is known to Jooble, hence none of the
user's; the titles that BuiltIn searches in Germany are wanted in a country that
it does not know.

**The composition** (`ServicesProofs`). `EachServiceRuns`: a behaviour of
`MCServices` is one of the specification of each of the eight components, so every
theorem about a component holds of the composition; `ServicesTypes` draws the type
invariant of the whole from it.

Two notes on the form of the models. The provers know nothing of `SortSeq` and
`SelectSeq`, which are recursive or take operators; `Ranked` and `Select` say the
same by counting. And the induction theorems of the library take an operator,
which the provers cannot instantiate; where a fact about sums, folds or lists
needs induction, a set of counterexamples is defined and its smallest member
refuted (`SmallestSet`, `SmallestNat`).

Left to TLC: `SettledIsCredited`, `CallsReturn`, `ScoresDrain`, `LinksFollow`,
`TopTitleKept`, `WindowsMoveOn` and `IndexCatchesUp` are liveness properties; they
need fairness and `ENABLED`, which are out of the prover's reach.

## 5. Where code and documentation disagree

Five runs end in a counterexample that the code can follow:

1. `BillingLostPurchase`: two orders of one user fulfilled at once lose one
   purchase in both counters (`billing_service.py:160-164`; the order is
   locked, the user is not), against "Сумма всех купленных кредитов" in the wiki.
2. `GeminiTrip`: a quota trip leaves the counter at three
   (`gemini_matcher.py:164`), the reset does not clear it, so the next exhausted
   batch opens the breaker alone, against the comment at line 61.
3. `ScoringBlocked`: auto-exclusion zeroes a score and leaves its provenance
   (`tracker_service.py:341`), so the zero is valid again when the user lifts
   the exclusion, against `profile_hash.py:12`.
4. `VacanciesBlocked`: a posting whose hash is stored is dropped even if that row
   is suppressed (`aggregator.py:466`), so a bulk click-out keeps the same
   vacancy out when the company itself publishes it, against "A suppressed row
   must not block the genuine vacancy later" (`aggregator.py:102`).
5. `VacanciesDates`: a scan compares the date of a repost with the row as its lookup
   found it and updates by id (`aggregator.py:131`); of two scans the later commit
   replaces an earlier date by a later one, against "The stored row keeps the
   earliest date" (`aggregator.py:85-86`).

Smaller ones met while modelling and without a run of their own:

* the charge uses the balance loaded at the start of a scan; two concurrent
  test-fulfils of one order both issue it, against the comment "Already
  fulfilled (idempotent)" (sandbox only);
* a call that waits for the semaphore, or retries, still sends its request after
  another call has opened the breaker; the comment at `gemini_matcher.py:55`
  denies a fallback that `scheduler_service.py:594` has;
* the idle pass does not run the pre-filter (`nvidia_matcher.py:476-486`) and may
  rate a vacancy that a hard rule excludes; it is off by default. The conflict
  clause of the scorers overwrites newer provenance as well as stale one.
  Fallback scores of NVIDIA never return to the queue as `profile_hash.py:39`
  says, since they are valid;
* two scans look up each other's spelling of a vacancy before either has stored its
  own, and both get in (`aggregator.py:464`), against `Дедупликация.md:61` of the
  wiki, where a match "в базу не попадает";
* an application that becomes active after the cleanup has read the protected jobs
  (`scheduler_service.py:1226`) is deleted with its vacancy, against "KEPT forever"
  (`scheduler_service.py:1217`);
* BuiltIn searches the titles of a country that it does not know in Germany
  (`builtin.py:51`), which that user may not want, against the docstring of
  `merge_user_search_plans` (`user_scope_service.py:105-107`);
* JobSpy's windows of countries and of titles move by the same slot
  (`jobspy_source.py:106`): with 16 titles and six merged countries a country meets
  only one half of its titles, and the other half is never searched there, against
  "все титулы ≥2×/сутки" (`Источники вакансий.md:15`); where the lengths are such
  that the windows do not move in step, `WindowsMoveOn` holds;
* a pass of the index loads 200 profiles (`embedding_service.py:304`), so an active
  profile that was saved before 200 others keeps a stale vector, where
  `Поиск и индексация.md:102-103` speaks of all active ones;
* a reject writes back the exclusion list of its session with one more name
  (`tracker_service.py:312`): overlapping with another reject or with the settings it
  drops an entry (`Трекер.md:35`: the name is added to the array);
* of two overlapping changes of one application both record the same old status
  (`tracker_service.py:234`), so the history names a transition that did not happen
  (`Трекер.md:11`);
* a name that does not resolve closes a job, where the docstring of
  `url_checker` lists network errors under unreachable; the next day's check
  repairs it, which `Fair` shows;
* a vector cleared between the two queries of `_semantic_priority_filter` makes
  it call `float(None)` (`scheduler_service.py:722`), a `TypeError` that its
  `except SQLAlchemyError` does not catch, and the backfill of that user ends;
* Jooble falls back to Germany when a plan has no country it knows
  (`jooble.py:108`), for users who did not ask for Germany;
* a text typed after "custom search" goes to the profile field when a field's
  prompt was opened before and never answered (`bot/bot.py:118`);
* a "show more" button counts its page before the cards are sent and pages
  through whatever list is newest; cards that Telegram refused never come again;
* withdrawn applications are hidden in the inbox and not in a search;
* a request for the dashboard's numbers that overlaps with a click stores numbers
  without it after the invalidation, for up to 30 seconds.

## 6. Not modelled, and why

The adapters' HTTP calls, HTML and JSON parsing, prompts, message texts, pages, the
frontend and the reports of the operations dashboard are I/O or pure text. The
string rules of the pre-filter, fuzzy comparison of titles and the filters by
place and language are pure functions of strings: a model would repeat their
tables. What decides between actors is modelled - that two postings are alike
(`Alike`), or fit a profile (`Fits`, `Fit`). Feedback is one insert per
request. Migrations and scripts run alone. Trigger times are APScheduler's, and
database pools and timeouts appear only as steps that may fail.

## 7. Further work

The steps of the liveness properties that need no fairness could be proved as
lemmas: that a user's first title is among Adzuna's combinations when that user
is first in turn, and that a pass of the index which meets no failure ends with
a vector for each vacancy it queued. A run of `Scoring` with all tasks and two
vacancies is beyond the five minutes that runs are given here.
