------------------------------ MODULE Scoring ------------------------------
(***************************************************************************)
(* The score cache job_scores of one user and the tasks that fill it:      *)
(* _background_scan and _watchlist_scan (through _score_and_notify),       *)
(* _backfill_score and _nvidia_idle_rescore of scheduler_service.py, the   *)
(* scorers of app/scoring, and the requests that move the user's profile   *)
(* and marks.  Users share no rows, so one user is modelled.               *)
(*                                                                         *)
(* A task loads the profile when it starts, selects jobs, waits minutes    *)
(* for an AI, and writes what it got for the profile it loaded.  The hash  *)
(* of a profile (sha256) is the profile itself; the pre-filter is modelled *)
(* by its rule for excluded companies.                                     *)
(***************************************************************************)
EXTENDS Integers, FiniteSets

CONSTANTS
    Job,           \* vacancies
    Company,       \* employers
    Employer,      \* Employer[j]: the company of vacancy j
    Text,          \* the other scored profile fields (resume, titles, ...)
    NoProfile,     \* profile_hash IS NULL
    Scan,          \* tasks that score and push: "hourly", "watchlist"
    Filler,        \* tasks that only score: "backfill", "idle"
    Threshold,     \* AUTO_EXCLUDE_THRESHOLD: 5 in the code
    MaxEdits,      \* bound on profile edits
    MaxFlips,      \* bound on openings and closings of Gemini's breaker
    MaxRestarts    \* bound on restarts

ASSUME ScoringAssumption ==
    /\ Employer \in [Job -> Company] /\ IsFiniteSet(Job)
    /\ Filler \subseteq {"backfill", "idle"}
    /\ Scan \cap {"backfill", "idle"} = {}
    /\ Threshold \in Nat \ {0}
    /\ MaxEdits \in Nat /\ MaxFlips \in Nat /\ MaxRestarts \in Nat

VARIABLES
    profile,       \* the committed profile
    rows,          \* rows[j]: the row of job_scores, if any
    hidden,        \* jobs marked applied or rejected
    rejected,      \* jobs marked rejected
    request,       \* request[j]: a reject request before its exclusion check
    breakerOpen,   \* is_gemini_available() is false
    task,          \* task[w]: a task in progress
    edits, flips, restarts,
    steady,        \* history: neither the profile nor the breaker has changed
    pushed         \* history: messages about j sent while steady (0, 1, more)

marks   == <<hidden, rejected, request>>
bounds  == <<edits, flips, restarts>>
history == <<steady, pushed>>
vars    == <<profile, rows, marks, breakerOpen, task, bounds, history>>

Task    == Scan \cup Filler
Profile == [excluded : SUBSET Company, text : Text]

\* low is 1..59, top is 80..100; the analysis is NULL, a verdict (of the AI
\* or the pre-filter) or the note of an automatic exclusion; old: scored more
\* than nvidia_rescore_stale_days ago.
AiScore == {"zero", "low", "top"}
Row == [score : AiScore \cup {"none"}, hash : Profile \cup {NoProfile},
        model : {"none", "legacy", "prefilter", "gemini", "nvidia"},
        analysis : {"null", "verdict", "blocked"}, old : BOOLEAN]

NoRow  == [score |-> "none", hash |-> NoProfile, model |-> "none",
           analysis |-> "null", old |-> FALSE]
Legacy == [score |-> "zero", hash |-> NoProfile, model |-> "legacy",
           analysis |-> "null", old |-> FALSE]
Fresh(score, hash, model) ==
    [score |-> score, hash |-> hash, model |-> model,
     analysis |-> "verdict", old |-> FALSE]

\* seen: the rows as the task's session has loaded them (ORM passes only).
TaskState == [pc : {"idle", "loaded", "scoring", "scored", "rechecking", "refreshing"},
              hash : Profile \cup {NoProfile}, model : {"gemini", "nvidia"},
              todo : SUBSET Job, seen : [Job -> Row], top : SUBSET Job]

Idle == [pc |-> "idle", hash |-> NoProfile, model |-> "gemini", todo |-> {},
         seen |-> [j \in Job |-> NoRow], top |-> {}]

NoRequest == [open |-> FALSE, excluded |-> {}]

Init ==
    /\ profile \in [excluded : {{}}, text : Text]
    /\ rows \in [Job -> {NoRow, Legacy}]
    /\ hidden = {} /\ rejected = {}
    /\ request = [j \in Job |-> NoRequest]
    /\ breakerOpen = FALSE
    /\ task = [w \in Task |-> Idle]
    /\ edits = 0 /\ flips = 0 /\ restarts = 0
    /\ steady = TRUE
    /\ pushed = [j \in Job |-> 0]

-----------------------------------------------------------------------------
\* pre_filter: excluded companies never reach an AI.
Fits(j, p) == Employer[j] \notin p.excluded

\* The cached score counts: current hash, and any of the models in use.
Valid(row, p) == row.hash = p /\ row.model \in {"prefilter", "gemini", "nvidia"}

\* Mutant of BackfillWants: strong scores are not refreshed.
WantsNewOnly(row) == row.score = "none"

\* has_no_score or prior_strong_score.
BackfillWants(row) == row.score \in {"none", "top"}

Scorer == IF breakerOpen THEN "nvidia" ELSE "gemini"

\* Mutant of Stale: ON CONFLICT DO UPDATE without its WHERE.
AlwaysStale(row, new) == TRUE

\* INSERT ... ON CONFLICT DO UPDATE ... WHERE the provenance differs.
Stale(row, new) == row.hash # new.hash \/ row.model # new.model

\* The RETURNING clause: only rows that the statement wrote.
Returned(new) == {j \in DOMAIN new : Stale(rows[j], new[j])}

\* One commit of the rows new, a function on some of the jobs.
Upsert(new) ==
    rows' = [j \in Job |-> IF j \in DOMAIN new /\ Stale(rows[j], new[j])
                             THEN new[j] ELSE rows[j]]

\* The ORM writes the columns whose value differs from the one it loaded.
Merge(row, seen, new) ==
    [new EXCEPT !.score = IF @ = seen.score THEN row.score ELSE @,
                !.hash  = IF @ = seen.hash  THEN row.hash  ELSE @,
                !.model = IF @ = seen.model THEN row.model ELSE @]

Flush(seen, new) ==
    rows' = [j \in Job |-> IF j \in DOMAIN new
                             THEN Merge(rows[j], seen[j], new[j]) ELSE rows[j]]

-----------------------------------------------------------------------------
(* Scans and the backfill.                                                 *)

\* A run starts and loads the user with the profile.  APScheduler and
\* _scan_lock keep a task from overlapping itself.
Load(w) ==
    /\ task[w].pc = "idle"
    /\ w = "idle" => \A j \in Job : rows[j].model # "none"
    /\ task' = [task EXCEPT ![w] =
         [Idle EXCEPT !.pc = "loaded", !.hash = profile,
                      !.model = IF w = "idle" THEN "nvidia" ELSE Scorer]]
    /\ UNCHANGED <<profile, rows, marks, breakerOpen, bounds, history>>

\* _score_and_notify: new, visible, passing jobs; the scorer of the moment.
SelectForScan(w) ==
    LET jobs == {j \in Job \ hidden : /\ ~Valid(rows[j], task[w].hash)
                                      /\ Fits(j, task[w].hash)} IN
    /\ w \in Scan /\ task[w].pc = "loaded"
    /\ task' = [task EXCEPT ![w] =
         IF jobs = {} THEN Idle
         ELSE [@ EXCEPT !.pc = "scoring", !.todo = jobs, !.model = Scorer]]
    /\ UNCHANGED <<profile, rows, marks, breakerOpen, bounds, history>>

\* _backfill_score: jobs without a row or with a strong stale one.  Rejects
\* of the pre-filter are written at once, the others go to the AI; with
\* nothing left for the AI the legacy rejects are loaded for a second look.
SelectForBackfill ==
    LET t == task["backfill"]
        jobs == {j \in Job \ hidden : /\ BackfillWants(rows[j])
                                      /\ ~Valid(rows[j], t.hash)}
        fit  == {j \in jobs : Fits(j, t.hash)} IN
    /\ t.pc = "loaded"
    /\ Upsert([j \in jobs \ fit |-> Fresh("zero", t.hash, "prefilter")])
    /\ task' = [task EXCEPT !["backfill"] =
         IF fit # {}
         THEN [@ EXCEPT !.pc = "scoring", !.todo = fit,
                        !.model = IF breakerOpen THEN "nvidia" ELSE t.model]
         ELSE IF breakerOpen THEN Idle
         ELSE [@ EXCEPT !.pc = "rechecking", !.model = "gemini", !.seen = rows',
                        !.todo = {j \in Job : rows'[j].score = "zero" /\ rows'[j].analysis = "null"}]]
    /\ UNCHANGED <<profile, marks, breakerOpen, bounds, history>>

\* score_jobs_gemini commits its one batch; score_jobs_nvidia commits job
\* after job until its deadline.  Jobs without an answer are left out.
Score(w, new) ==
    LET t == task[w] IN
    /\ t.pc = "scoring"
    /\ DOMAIN new \subseteq t.todo
    /\ \A j \in DOMAIN new : new[j] \in {Fresh(s, t.hash, t.model) : s \in AiScore}
    /\ Upsert(new)
    /\ task' = [task EXCEPT ![w].pc = IF t.model = "gemini" THEN "scored" ELSE @,
                            ![w].todo = IF t.model = "gemini" THEN @ ELSE @ \ DOMAIN new,
                            ![w].top = @ \cup {j \in Returned(new) : new[j].score = "top"}]
    /\ UNCHANGED <<profile, marks, breakerOpen, bounds, history>>

StopScoring(w) ==
    /\ task[w].pc = "scoring" /\ task[w].model = "nvidia"
    /\ task' = [task EXCEPT ![w].pc = "scored"]
    /\ UNCHANGED <<profile, rows, marks, breakerOpen, bounds, history>>

\* _score_backfill_batch: Gemini gave out, NVIDIA repeats the whole batch.
Fallback ==
    /\ task["backfill"].pc = "scored" /\ task["backfill"].model = "gemini"
    /\ breakerOpen
    /\ task' = [task EXCEPT !["backfill"].pc = "scoring", !["backfill"].model = "nvidia"]
    /\ UNCHANGED <<profile, rows, marks, breakerOpen, bounds, history>>

FinishBackfill ==
    /\ \/ task["backfill"].pc = "scored" /\ (task["backfill"].model = "nvidia" \/ ~breakerOpen)
       \/ task["backfill"].pc = "rechecking"
    /\ task' = [task EXCEPT !["backfill"] = Idle]
    /\ UNCHANGED <<profile, rows, marks, breakerOpen, bounds, history>>

\* The rows that the task wrote itself are charged (see Billing) and the top
\* ones pushed; a user who blocked the bot, or an error, cuts the list short.
Push(w, sent) ==
    /\ w \in Scan /\ task[w].pc = "scored" /\ sent \subseteq task[w].top
    /\ pushed' = [j \in Job |-> IF steady /\ j \in sent /\ pushed[j] < 2
                                 THEN pushed[j] + 1 ELSE pushed[j]]
    /\ task' = [task EXCEPT ![w] = Idle]
    /\ UNCHANGED <<profile, rows, marks, breakerOpen, bounds, steady>>

\* The run dies: an exception, no credits, a lost connection.
Abort(w) ==
    /\ task[w].pc # "idle"
    /\ task' = [task EXCEPT ![w] = Idle]
    /\ UNCHANGED <<profile, rows, marks, breakerOpen, bounds, history>>

-----------------------------------------------------------------------------
(* Passes that rewrite loaded rows: recheck_zero_scores of the backfill    *)
(* and the two phases of idle_rescore_for_user.                            *)

SelectRejects ==
    /\ task["idle"].pc = "loaded"
    /\ task' = [task EXCEPT !["idle"].pc = "rechecking", !["idle"].seen = rows,
         !["idle"].todo = {j \in Job : rows[j].score = "zero" /\ rows[j].analysis = "null"}]
    /\ UNCHANGED <<profile, rows, marks, breakerOpen, bounds, history>>

SelectOld ==
    /\ task["idle"].pc = "rechecking"
    /\ task' = [task EXCEPT !["idle"].pc = "refreshing", !["idle"].seen = rows,
         !["idle"].todo = {j \in Job : rows[j].score \in {"low", "top"} /\ rows[j].old}]
    /\ UNCHANGED <<profile, rows, marks, breakerOpen, bounds, history>>

FinishIdle ==
    /\ task["idle"].pc = "refreshing"
    /\ task' = [task EXCEPT !["idle"] = Idle]
    /\ UNCHANGED <<profile, rows, marks, breakerOpen, bounds, history>>

\* recheck_zero_scores keeps today's pre-filter rejects from the AI; the idle
\* pass asks the AI about every row it loaded.
Rewrite(w, new) ==
    LET t == task[w] IN
    /\ t.pc \in {"rechecking", "refreshing"}
    /\ DOMAIN new \subseteq t.todo /\ DOMAIN new # {}
    /\ \A j \in DOMAIN new : new[j] \in
         IF w = "idle" \/ Fits(j, t.hash)
           THEN {Fresh(s, t.hash, t.model) : s \in AiScore}
           ELSE {Fresh("zero", t.hash, "prefilter")}
    /\ Flush(t.seen, new)
    /\ task' = [task EXCEPT ![w].todo = @ \ DOMAIN new]
    /\ UNCHANGED <<profile, marks, breakerOpen, bounds, history>>

-----------------------------------------------------------------------------
(* Requests of the user, and the world.                                    *)

\* update_profile, upload_resume, and the bot's settings.
EditProfile(p) ==
    /\ edits < MaxEdits /\ p # profile
    /\ profile' = p
    /\ edits' = edits + 1
    /\ steady' = FALSE
    /\ UNCHANGED <<rows, marks, breakerOpen, task, flips, restarts, pushed>>

Apply(j) ==
    /\ j \notin hidden
    /\ hidden' = hidden \cup {j}
    /\ UNCHANGED <<profile, rows, rejected, request, breakerOpen, task, bounds, history>>

\* Mutant of Reject: only applied jobs are hidden.
RejectVisibly(j) ==
    /\ j \notin rejected
    /\ rejected' = rejected \cup {j}
    /\ request' = [request EXCEPT ![j] = [open |-> TRUE, excluded |-> profile.excluded]]
    /\ UNCHANGED <<profile, rows, hidden, breakerOpen, task, bounds, history>>

\* mark_rejected commits; the session of the request goes on with the
\* profile it loaded for authentication.
Reject(j) ==
    /\ j \notin rejected
    /\ hidden' = hidden \cup {j} /\ rejected' = rejected \cup {j}
    /\ request' = [request EXCEPT ![j] = [open |-> TRUE, excluded |-> profile.excluded]]
    /\ UNCHANGED <<profile, rows, breakerOpen, task, bounds, history>>

\* check_auto_exclude_company: the whole list is written, and the scores of
\* the company's other jobs are set to zero; their provenance is not.
AutoExclude(j) ==
    LET c == Employer[j]
        known == request[j].excluded
        zero == {k \in Job \ hidden : Employer[k] = c /\ rows[k].model # "none"} IN
    /\ request[j].open
    /\ request' = [request EXCEPT ![j] = NoRequest]
    /\ IF /\ Cardinality({k \in rejected : Employer[k] = c}) >= Threshold
          /\ c \notin known
       THEN /\ profile' = [profile EXCEPT !.excluded = known \cup {c}]
            /\ rows'   = [k \in Job |-> IF k \in zero
                            THEN [rows[k] EXCEPT !.score = "zero", !.analysis = "blocked"]
                            ELSE rows[k]]
            /\ steady' = FALSE
       ELSE UNCHANGED <<profile, rows, steady>>
    /\ UNCHANGED <<hidden, rejected, breakerOpen, task, bounds, pushed>>

\* See GeminiBreaker.
FlipBreaker ==
    /\ flips < MaxFlips
    /\ flips' = flips + 1
    /\ breakerOpen' = ~breakerOpen
    /\ steady' = FALSE
    /\ UNCHANGED <<profile, rows, marks, task, edits, restarts, pushed>>

\* A week passes; no task runs that long.
Age ==
    /\ \A w \in Task : task[w].pc = "idle"
    /\ \E j \in Job : rows[j].score \in {"low", "top"} /\ ~rows[j].old
    /\ rows' = [j \in Job |-> [rows[j] EXCEPT !.old = rows[j].score \in {"low", "top"}]]
    /\ UNCHANGED <<profile, marks, breakerOpen, task, bounds, history>>

Restart ==
    /\ restarts < MaxRestarts
    /\ restarts' = restarts + 1
    /\ task' = [w \in Task |-> Idle]
    /\ request' = [j \in Job |-> NoRequest]
    /\ breakerOpen' = FALSE
    /\ UNCHANGED <<profile, rows, hidden, rejected, edits, flips, history>>

\* The rows that an AI, or the pre-filter, may give for some of w's jobs.
Answers(w, models) ==
    UNION {[S -> {Fresh(s, task[w].hash, m) : s \in AiScore, m \in models}] :
             S \in SUBSET task[w].todo}

\* A step of a task that has started.
Step(w) ==
    \/ \E new \in Answers(w, {task[w].model}) : Score(w, new)
    \/ \E new \in Answers(w, {task[w].model, "prefilter"}) : Rewrite(w, new)
    \/ StopScoring(w)
    \/ Abort(w)
ScanStep(w) ==
    \/ SelectForScan(w)
    \/ \E sent \in SUBSET task[w].top : Push(w, sent)
BackfillStep  == SelectForBackfill \/ Fallback \/ FinishBackfill
IdleStep      == SelectRejects \/ SelectOld \/ FinishIdle
FillerStep(w) == IF w = "backfill" THEN BackfillStep ELSE IdleStep

Next ==
    \/ \E w \in Task : Load(w) \/ Step(w)
    \/ \E w \in Scan : ScanStep(w)
    \/ \E w \in Filler : FillerStep(w)
    \/ \E p \in Profile : EditProfile(p)
    \/ \E j \in Job : Apply(j) \/ Reject(j) \/ AutoExclude(j)
    \/ FlipBreaker \/ Age \/ Restart

Spec == Init /\ [][Next]_vars

\* Every task ends (its calls have timeouts), the backfill is started again
\* and again, and now and then it gets an answer for its whole batch.
ScoreAll == \E new \in [task["backfill"].todo -> {Fresh(s, task["backfill"].hash,
                          task["backfill"].model) : s \in AiScore}] : Score("backfill", new)
Fairness ==
    /\ \A w \in Scan : WF_vars(ScanStep(w) \/ Step(w))
    /\ "idle" \in Filler => WF_vars(IdleStep \/ Step("idle"))
    /\ "backfill" \in Filler => /\ WF_vars(BackfillStep \/ Step("backfill"))
                                /\ WF_vars(Load("backfill"))
                                /\ SF_vars(SelectForBackfill)
                                /\ SF_vars(ScoreAll)

FairSpec == Spec /\ Fairness

-----------------------------------------------------------------------------
TypeOK ==
    /\ profile \in Profile
    /\ rows \in [Job -> Row]
    /\ hidden \subseteq Job /\ rejected \subseteq hidden
    /\ request \in [Job -> [open : BOOLEAN, excluded : SUBSET Company]]
    /\ breakerOpen \in BOOLEAN /\ steady \in BOOLEAN
    /\ task \in [Task -> TaskState]
    /\ edits \in 0 .. MaxEdits /\ flips \in 0 .. MaxFlips
    /\ restarts \in 0 .. MaxRestarts
    /\ pushed \in [Job -> 0 .. 2]

\* However the hourly scan, the watchlist scan and the backfill overlap, die
\* and start again: while the profile and the scorer stay as they are, the
\* user is told (and charged) at most once about a job.  (The idle pass, which
\* scores with another model, is not among the tasks when this holds.)
PushedOnce == \A j \in Job : pushed[j] <= 1

\* Once the user leaves the profile alone, every visible job that is new or
\* was strong gets a score for this profile, although runs die, tasks that
\* loaded an older profile overwrite newer scores, and providers change.
QueueDrains ==
    \A j \in Job : <>[](j \notin hidden /\ rows[j].score \in {"none", "top"}
                           => Valid(rows[j], profile))

-----------------------------------------------------------------------------
(* What a comment says and the code does not keep.                         *)

\* profile_hash.py: the provenance of a row tells whether its cached score is
\* valid; so a valid row holds a score that was given for that profile.  The
\* zero of an exclusion is none, once the user has lifted the exclusion.
ValidMeansScored ==
    \A j \in Job : rows[j].analysis = "blocked" /\ Fits(j, profile)
                      => ~Valid(rows[j], profile)
=============================================================================
