---------------------------- MODULE ScoringProofs ----------------------------
(***************************************************************************)
(* Theorems about Scoring for any number of vacancies, companies, scanning *)
(* tasks and restarts.  The argument for PushedOnce: while profile and     *)
(* breaker are what they were at the start, every task scores with the     *)
(* same model for the same profile, so the first upsert that returns a     *)
(* vacancy makes its row one that no later upsert writes, and only the     *)
(* task that wrote it may announce it.                                     *)
(***************************************************************************)
EXTENDS Scoring, TLAPS

\* Nothing but Gemini scores, and every task has the current profile.
SameScorer ==
    steady => /\ ~breakerOpen
              /\ \A w \in Task : task[w].pc # "idle" =>
                   task[w].hash = profile /\ task[w].model = "gemini"

\* What is sent to an AI has passed the pre-filter of the task's profile, and
\* only a task that has sent something may announce.
TaskShape(t) ==
    IF t.pc \in {"scoring", "scored"} THEN \A j \in t.todo : Fits(j, t.hash)
                                      ELSE t.top = {}

\* What a task may announce is settled: no upsert writes the row again.
Settled(j) == Fits(j, profile) /\ rows[j].hash = profile /\ rows[j].model = "gemini"

OneClaim(j) ==
    /\ pushed[j] > 0 \/ (\E w \in Task : j \in task[w].top) => Settled(j)
    /\ \A v, w \in Task : j \in task[v].top /\ j \in task[w].top => v = w
    /\ \A w \in Task : j \in task[w].top => pushed[j] = 0

ClaimInv ==
    /\ SameScorer
    /\ \A w \in Task : TaskShape(task[w])
    /\ steady => \A j \in Job : OneClaim(j)
    /\ PushedOnce

-----------------------------------------------------------------------------
(* Type correctness.                                                       *)

LEMMA Records ==
    /\ Idle \in TaskState /\ NoRow \in Row /\ Legacy \in Row
    /\ \A s \in AiScore, p \in Profile \cup {NoProfile},
          m \in {"prefilter", "gemini", "nvidia"} : Fresh(s, p, m) \in Row
    /\ \A row, seen, new \in Row : Merge(row, seen, new) \in Row
<1>1. NoRow \in Row /\ Legacy \in Row
  BY SMT DEF NoRow, Legacy, Row, AiScore
<1>2. Idle \in TaskState
  BY <1>1, SMT DEF Idle, TaskState
<1>3. \A s \in AiScore, p \in Profile \cup {NoProfile},
         m \in {"prefilter", "gemini", "nvidia"} : Fresh(s, p, m) \in Row
  BY SMT DEF Fresh, Row
<1>4. \A row, seen, new \in Row : Merge(row, seen, new) \in Row
  <2> SUFFICES ASSUME NEW row \in Row, NEW seen \in Row, NEW new \in Row
               PROVE  Merge(row, seen, new) \in Row
    OBVIOUS
  <2> DEFINE score == IF new.score = seen.score THEN row.score ELSE new.score
             hash  == IF new.hash = seen.hash THEN row.hash ELSE new.hash
             model == IF new.model = seen.model THEN row.model ELSE new.model
  <2>1. score \in AiScore \cup {"none"} /\ hash \in Profile \cup {NoProfile}
        /\ model \in {"none", "legacy", "prefilter", "gemini", "nvidia"}
    BY DEF Row
  <2>2. Merge(row, seen, new) = [new EXCEPT !.score = score, !.hash = hash, !.model = model]
    BY DEF Merge
  <2> HIDE DEF score, hash, model
  <2> QED BY <2>1, <2>2 DEF Row
<1> QED BY <1>1, <1>2, <1>3, <1>4

\* An upsert, and a flush, leave rows rows.
LEMMA UpsertTypes ==
    ASSUME rows \in [Job -> Row], NEW new, \A j \in DOMAIN new : new[j] \in Row,
           Upsert(new)
    PROVE  rows' \in [Job -> Row]
BY DEF Upsert

LEMMA FlushTypes ==
    ASSUME rows \in [Job -> Row], NEW new, \A j \in DOMAIN new : new[j] \in Row,
           NEW seen \in [Job -> Row], Flush(seen, new)
    PROVE  rows' \in [Job -> Row]
BY Records DEF Flush

LEMMA InitTypes == Init => TypeOK
<1> SUFFICES ASSUME Init PROVE TypeOK
  OBVIOUS
<1>1. profile \in Profile
  BY DEF Init, Profile
<1>2. rows \in [Job -> Row] /\ task \in [Task -> TaskState]
  BY Records DEF Init
<1>3. request \in [Job -> [open : BOOLEAN, excluded : SUBSET Company]]
  BY DEF Init, NoRequest
<1>4. /\ edits \in 0 .. MaxEdits /\ flips \in 0 .. MaxFlips
      /\ restarts \in 0 .. MaxRestarts /\ pushed \in [Job -> 0 .. 2]
  BY ScoringAssumption DEF Init, ScoringAssumption
<1>5. hidden \subseteq Job /\ rejected \subseteq hidden /\ breakerOpen \in BOOLEAN
      /\ steady \in BOOLEAN
  BY DEF Init
<1> QED BY <1>1, <1>2, <1>3, <1>4, <1>5 DEF TypeOK

\* A step that changes one task, and perhaps rows and history.
LEMMA TaskStepTypes ==
    ASSUME TypeOK, NEW w \in Task, NEW t \in TaskState,
           task' = [task EXCEPT ![w] = t], rows' \in [Job -> Row],
           pushed' \in [Job -> 0 .. 2], UNCHANGED <<profile, marks, breakerOpen, bounds, steady>>
    PROVE  TypeOK'
BY DEF TypeOK, marks, bounds

LEMMA LoadTypes == \A w \in Task : TypeOK /\ Load(w) => TypeOK'
<1> SUFFICES ASSUME NEW w \in Task, TypeOK, Load(w) PROVE TypeOK'
  OBVIOUS
<1> DEFINE t == [Idle EXCEPT !.pc = "loaded", !.hash = profile,
                             !.model = IF w = "idle" THEN "nvidia" ELSE Scorer]
<1>1. t \in TaskState
  BY Records DEF TypeOK, TaskState, Scorer
<1>2. task' = [task EXCEPT ![w] = t] /\ rows' \in [Job -> Row] /\ pushed' \in [Job -> 0 .. 2]
  BY DEF Load, TypeOK, history
<1> QED BY <1>1, <1>2, TaskStepTypes DEF Load, history

LEMMA SelectForScanTypes == \A w \in Task : TypeOK /\ SelectForScan(w) => TypeOK'
<1> SUFFICES ASSUME NEW w \in Task, TypeOK, SelectForScan(w) PROVE TypeOK'
  OBVIOUS
<1> DEFINE jobs == {j \in Job \ hidden : /\ ~Valid(rows[j], task[w].hash)
                                         /\ Fits(j, task[w].hash)}
           t == IF jobs = {} THEN Idle
                ELSE [task[w] EXCEPT !.pc = "scoring", !.todo = jobs, !.model = Scorer]
<1>1. t \in TaskState
  <2>1. jobs \in SUBSET Job
    OBVIOUS
  <2> HIDE DEF jobs
  <2> QED BY <2>1, Records DEF TypeOK, TaskState, Scorer
<1>2. task' = [task EXCEPT ![w] = t] /\ rows' \in [Job -> Row] /\ pushed' \in [Job -> 0 .. 2]
  BY DEF SelectForScan, TypeOK, history
<1> QED BY <1>1, <1>2, TaskStepTypes DEF SelectForScan, history

LEMMA SelectForBackfillTypes ==
    "backfill" \in Filler /\ TypeOK /\ SelectForBackfill => TypeOK'
<1> SUFFICES ASSUME "backfill" \in Filler, TypeOK, SelectForBackfill PROVE TypeOK'
  OBVIOUS
<1> DEFINE s == task["backfill"]
           jobs == {j \in Job \ hidden : /\ BackfillWants(rows[j])
                                         /\ ~Valid(rows[j], s.hash)}
           fit == {j \in jobs : Fits(j, s.hash)}
           new == [j \in jobs \ fit |-> Fresh("zero", s.hash, "prefilter")]
           zero == {j \in Job : rows'[j].score = "zero" /\ rows'[j].analysis = "null"}
           t == IF fit # {}
                THEN [s EXCEPT !.pc = "scoring", !.todo = fit,
                               !.model = IF breakerOpen THEN "nvidia" ELSE s.model]
                ELSE IF breakerOpen THEN Idle
                ELSE [s EXCEPT !.pc = "rechecking", !.model = "gemini", !.seen = rows',
                               !.todo = zero]
<1>1. "backfill" \in Task /\ s \in TaskState
  BY DEF Task, TypeOK
<1>2. rows' \in [Job -> Row]
  <2>1. \A j \in DOMAIN new : new[j] \in Row
    BY <1>1, Records DEF TaskState, AiScore
  <2>2. Upsert(new)
    BY DEF SelectForBackfill
  <2> QED BY <2>1, <2>2, UpsertTypes DEF TypeOK
<1>3. t \in TaskState
  <2>1. fit \in SUBSET Job /\ zero \in SUBSET Job
    OBVIOUS
  <2>2. CASE fit # {}
    <3> HIDE DEF fit, s
    <3>1. t = [s EXCEPT !.pc = "scoring", !.todo = fit,
                        !.model = IF breakerOpen THEN "nvidia" ELSE s.model]
      BY <2>2
    <3> QED BY <3>1, <2>1, <1>1 DEF TaskState
  <2>3. CASE fit = {} /\ breakerOpen
    BY <2>3, Records
  <2>4. CASE fit = {} /\ ~breakerOpen
    <3> HIDE DEF fit, zero, s
    <3>1. t = [s EXCEPT !.pc = "rechecking", !.model = "gemini", !.seen = rows',
                        !.todo = zero]
      BY <2>4
    <3> QED BY <3>1, <2>1, <1>1, <1>2 DEF TaskState
  <2> QED BY <2>2, <2>3, <2>4
<1>4. task' = [task EXCEPT !["backfill"] = t]
  BY DEF SelectForBackfill
<1>5. pushed' \in [Job -> 0 .. 2]
  BY DEF SelectForBackfill, TypeOK, history
<1> HIDE DEF t
<1> QED BY <1>1, <1>2, <1>3, <1>4, <1>5, TaskStepTypes DEF SelectForBackfill, history

LEMMA ScoreTypes == \A w \in Task : \A new : TypeOK /\ Score(w, new) => TypeOK'
<1> SUFFICES ASSUME NEW w \in Task, NEW new, TypeOK, Score(w, new) PROVE TypeOK'
  OBVIOUS
<1> DEFINE s == task[w]
           returned == {j \in Returned(new) : new[j].score = "top"}
           t == [s EXCEPT !.pc = IF s.model = "gemini" THEN "scored" ELSE @,
                          !.todo = IF s.model = "gemini" THEN @ ELSE @ \ DOMAIN new,
                          !.top = @ \cup returned]
<1>1. s \in TaskState
  BY DEF TypeOK
<1>2. \A j \in DOMAIN new : j \in Job /\ new[j] \in Row
  BY <1>1, Records DEF Score, TaskState
<1>3. rows' \in [Job -> Row]
  BY <1>2, UpsertTypes DEF Score, TypeOK
<1>4. returned \in SUBSET Job
  BY <1>2 DEF Returned
<1>5. t \in TaskState
  <2> HIDE DEF s, returned
  <2> QED BY <1>1, <1>4 DEF TaskState
<1>6. task' = [task EXCEPT ![w] = t]
  BY DEF Score, TypeOK
<1>7. pushed' \in [Job -> 0 .. 2]
  BY DEF Score, TypeOK, history
<1> HIDE DEF t
<1> QED BY <1>3, <1>5, <1>6, <1>7, TaskStepTypes DEF Score, history

LEMMA RewriteTypes == \A w \in Task : \A new : TypeOK /\ Rewrite(w, new) => TypeOK'
<1> SUFFICES ASSUME NEW w \in Task, NEW new, TypeOK, Rewrite(w, new) PROVE TypeOK'
  OBVIOUS
<1> DEFINE s == task[w]
           t == [s EXCEPT !.todo = @ \ DOMAIN new]
<1>1. s \in TaskState /\ t \in TaskState
  BY DEF TypeOK, TaskState
<1>2. \A j \in DOMAIN new : new[j] \in Row
  BY <1>1, Records DEF Rewrite, TaskState, AiScore
<1>3. s.seen \in [Job -> Row] /\ Flush(s.seen, new)
  BY <1>1 DEF Rewrite, TaskState
<1>4. rows' \in [Job -> Row]
  BY <1>2, <1>3, FlushTypes DEF TypeOK
<1>5. task' = [task EXCEPT ![w] = t]
  BY DEF Rewrite, TypeOK
<1>6. pushed' \in [Job -> 0 .. 2]
  BY DEF Rewrite, TypeOK, history
<1> HIDE DEF t
<1> QED BY <1>1, <1>4, <1>5, <1>6, TaskStepTypes DEF Rewrite, history

\* Steps that only move one task on.
LEMMA ControlTypes ==
    ASSUME NEW w \in Task, TypeOK,
           \/ StopScoring(w)
           \/ Abort(w)
           \/ w = "backfill" /\ (Fallback \/ FinishBackfill)
           \/ w = "idle" /\ (SelectRejects \/ SelectOld \/ FinishIdle)
    PROVE  TypeOK'
<1> DEFINE s == task[w]
<1>1. /\ s \in TaskState /\ Idle \in TaskState
      /\ rows \in [Job -> Row] /\ pushed \in [Job -> 0 .. 2]
  BY Records DEF TypeOK
<1>2. ASSUME NEW t \in TaskState, task' = [task EXCEPT ![w] = t],
             UNCHANGED <<profile, rows, marks, breakerOpen, bounds, history>>
      PROVE  TypeOK'
  BY <1>1, <1>2, TaskStepTypes DEF history
<1>3. CASE StopScoring(w)
  <2>1. [s EXCEPT !.pc = "scored"] \in TaskState
    BY <1>1 DEF TaskState
  <2>2. task' = [task EXCEPT ![w] = [s EXCEPT !.pc = "scored"]]
    BY <1>3 DEF StopScoring, TypeOK
  <2> QED BY <2>1, <2>2, <1>2, <1>3 DEF StopScoring
<1>4. CASE Abort(w)
  BY <1>1, <1>2, <1>4 DEF Abort
<1>5. CASE w = "backfill" /\ Fallback
  <2>1. [s EXCEPT !.pc = "scoring", !.model = "nvidia"] \in TaskState
    BY <1>1 DEF TaskState
  <2>2. task' = [task EXCEPT ![w] = [s EXCEPT !.pc = "scoring", !.model = "nvidia"]]
    BY <1>5 DEF Fallback, TypeOK
  <2> QED BY <2>1, <2>2, <1>2, <1>5 DEF Fallback
<1>6. CASE w = "backfill" /\ FinishBackfill
  BY <1>1, <1>2, <1>6 DEF FinishBackfill
<1>7. CASE w = "idle" /\ SelectRejects
  <2> DEFINE zero == {j \in Job : rows[j].score = "zero" /\ rows[j].analysis = "null"}
             t == [s EXCEPT !.pc = "rechecking", !.seen = rows, !.todo = zero]
  <2>1. zero \in SUBSET Job
    OBVIOUS
  <2>2. task' = [task EXCEPT ![w] = t]
    BY <1>7 DEF SelectRejects, TypeOK
  <2>3. t \in TaskState
    <3> HIDE DEF zero, s
    <3> QED BY <2>1, <1>1 DEF TaskState
  <2> QED BY <2>2, <2>3, <1>2, <1>7 DEF SelectRejects
<1>8. CASE w = "idle" /\ SelectOld
  <2> DEFINE old == {j \in Job : rows[j].score \in {"low", "top"} /\ rows[j].old}
             t == [s EXCEPT !.pc = "refreshing", !.seen = rows, !.todo = old]
  <2>1. old \in SUBSET Job
    OBVIOUS
  <2>2. task' = [task EXCEPT ![w] = t]
    BY <1>8 DEF SelectOld, TypeOK
  <2>3. t \in TaskState
    <3> HIDE DEF old, s
    <3> QED BY <2>1, <1>1 DEF TaskState
  <2> QED BY <2>2, <2>3, <1>2, <1>8 DEF SelectOld
<1>9. CASE w = "idle" /\ FinishIdle
  BY <1>1, <1>2, <1>9 DEF FinishIdle
<1> QED BY <1>3, <1>4, <1>5, <1>6, <1>7, <1>8, <1>9

LEMMA PushTypes == \A w \in Task : \A sent : TypeOK /\ Push(w, sent) => TypeOK'
<1> SUFFICES ASSUME NEW w \in Task, NEW sent, TypeOK, Push(w, sent) PROVE TypeOK'
  OBVIOUS
<1>1. pushed' \in [Job -> 0 .. 2]
  BY DEF Push, TypeOK
<1>2. rows' \in [Job -> Row] /\ task' = [task EXCEPT ![w] = Idle]
  BY DEF Push, TypeOK
<1> QED BY <1>1, <1>2, Records, TaskStepTypes DEF Push

\* Requests and the world.
LEMMA EditProfileTypes == \A p \in Profile : TypeOK /\ EditProfile(p) => TypeOK'
<1> SUFFICES ASSUME NEW p \in Profile, TypeOK, EditProfile(p) PROVE TypeOK'
  OBVIOUS
<1>1. edits' \in 0 .. MaxEdits
  BY ScoringAssumption DEF EditProfile, TypeOK, ScoringAssumption
<1> QED BY <1>1 DEF EditProfile, TypeOK, marks

LEMMA ApplyTypes == \A j \in Job : TypeOK /\ Apply(j) => TypeOK'
BY DEF Apply, TypeOK, bounds, history

LEMMA RejectTypes == \A j \in Job : TypeOK /\ Reject(j) => TypeOK'
BY DEF Reject, TypeOK, bounds, history, Profile

LEMMA AutoExcludeTypes == \A j \in Job : TypeOK /\ AutoExclude(j) => TypeOK'
<1> SUFFICES ASSUME NEW j \in Job, TypeOK, AutoExclude(j) PROVE TypeOK'
  OBVIOUS
<1>1. request' \in [Job -> [open : BOOLEAN, excluded : SUBSET Company]]
  BY DEF AutoExclude, TypeOK, NoRequest
<1>2. profile' \in Profile
  <2>1. Employer[j] \in Company /\ request[j].excluded \subseteq Company
    BY ScoringAssumption DEF ScoringAssumption, TypeOK
  <2> DEFINE known == request[j].excluded \cup {Employer[j]}
  <2>2. [profile EXCEPT !.excluded = known] \in Profile
    <3>1. known \in SUBSET Company
      BY <2>1
    <3> HIDE DEF known
    <3> QED BY <3>1 DEF TypeOK, Profile
  <2>3. profile' = profile \/ profile' = [profile EXCEPT !.excluded = known]
    BY DEF AutoExclude
  <2> QED BY <2>2, <2>3 DEF TypeOK
<1>3. rows' \in [Job -> Row]
  <2>1. ASSUME NEW k \in Job
        PROVE [rows[k] EXCEPT !.score = "zero", !.analysis = "blocked"] \in Row
    <3>1. rows[k] \in Row
      BY DEF TypeOK
    <3> QED BY <3>1, ZenonT(60) DEF Row, AiScore
  <2> QED BY <2>1 DEF AutoExclude, TypeOK
<1>4. steady' \in BOOLEAN
  BY DEF AutoExclude, TypeOK
<1> QED BY <1>1, <1>2, <1>3, <1>4 DEF AutoExclude, TypeOK, bounds

LEMMA WorldTypes == TypeOK /\ (FlipBreaker \/ Age \/ Restart) => TypeOK'
<1> SUFFICES ASSUME TypeOK PROVE FlipBreaker \/ Age \/ Restart => TypeOK'
  OBVIOUS
<1>1. ASSUME FlipBreaker PROVE TypeOK'
  <2>1. flips' \in 0 .. MaxFlips /\ breakerOpen' \in BOOLEAN
    BY <1>1, ScoringAssumption DEF FlipBreaker, TypeOK, ScoringAssumption
  <2> QED BY <1>1, <2>1 DEF FlipBreaker, TypeOK, marks
<1>2. ASSUME Age PROVE TypeOK'
  <2>1. ASSUME NEW j \in Job
        PROVE  [rows[j] EXCEPT !.old = rows[j].score \in {"low", "top"}] \in Row
    <3> DEFINE good == rows[j].score \in {"low", "top"}
    <3>1. good \in BOOLEAN /\ rows[j] \in Row
      BY DEF TypeOK
    <3> HIDE DEF good
    <3>2. [rows[j] EXCEPT !.old = good] \in Row
      BY <3>1 DEF Row
    <3> QED BY <3>2 DEF good
  <2>2. rows' \in [Job -> Row]
    BY <1>2, <2>1 DEF Age
  <2> QED BY <1>2, <2>2 DEF Age, TypeOK, marks, bounds, history
<1>3. ASSUME Restart PROVE TypeOK'
  <2>1. restarts' \in 0 .. MaxRestarts /\ task' \in [Task -> TaskState]
    BY <1>3, Records, ScoringAssumption DEF Restart, TypeOK, ScoringAssumption
  <2>3. breakerOpen' \in BOOLEAN /\ UNCHANGED <<profile, rows, hidden, rejected, edits, flips, steady, pushed>>
    BY <1>3 DEF Restart, history
  <2>2. request' \in [Job -> [open : BOOLEAN, excluded : SUBSET Company]]
    BY <1>3 DEF Restart, NoRequest
  <2> QED BY <2>1, <2>2, <2>3 DEF TypeOK
<1> QED BY <1>1, <1>2, <1>3

LEMMA NextTypes == TypeOK /\ [Next]_vars => TypeOK'
<1> SUFFICES ASSUME TypeOK, [Next]_vars PROVE TypeOK'
  OBVIOUS
<1>1. ASSUME NEW w \in Task, Load(w) \/ Step(w) PROVE TypeOK'
  <2>1. ASSUME NEW new, Score(w, new) \/ Rewrite(w, new) PROVE TypeOK'
    BY <2>1, ScoreTypes, RewriteTypes
  <2>2. ASSUME Load(w) PROVE TypeOK'
    BY <2>2, LoadTypes
  <2>3. ASSUME StopScoring(w) \/ Abort(w) PROVE TypeOK'
    BY <2>3, ControlTypes
  <2> QED BY <1>1, <2>1, <2>2, <2>3 DEF Step
<1>2. ASSUME NEW w \in Scan, ScanStep(w) PROVE TypeOK'
  BY <1>2, SelectForScanTypes, PushTypes DEF ScanStep, Task
<1>3. ASSUME "backfill" \in Filler, BackfillStep PROVE TypeOK'
  BY <1>3, SelectForBackfillTypes, ControlTypes DEF BackfillStep, Task
<1>4. ASSUME "idle" \in Filler, IdleStep PROVE TypeOK'
  BY <1>4, ControlTypes DEF IdleStep, Task
<1>5. CASE UNCHANGED vars
  BY <1>5 DEF vars, marks, bounds, history, TypeOK
<1>6. ASSUME NEW w \in Filler, FillerStep(w) PROVE TypeOK'
  BY <1>3, <1>4, <1>6, ScoringAssumption DEF FillerStep
<1> QED BY <1>1, <1>2, <1>5, <1>6, EditProfileTypes, ApplyTypes, RejectTypes,
           AutoExcludeTypes, WorldTypes DEF Next

\* Every variable of Scoring keeps its type, in every reachable state: rejected
\* jobs are hidden jobs, and whatever a task merges or upserts is a row.
THEOREM TypeCorrect == Spec => []TypeOK
<1> QED BY InitTypes, NextTypes, PTL DEF Spec

-----------------------------------------------------------------------------
(* Announced once.  Without the idle pass, whose model is not Gemini.      *)

\* A step that moves one task on, gives it no claim, and writes to the rows
\* that are settled nothing that unsettles them.
LEMMA TaskStepClaims ==
    ASSUME TypeOK, ClaimInv, NEW w \in Task, NEW t,
           task' = [task EXCEPT ![w] = t],
           UNCHANGED <<profile, breakerOpen, history>>,
           t.top \subseteq task[w].top, TaskShape(t),
           steady /\ t.pc # "idle" => t.hash = profile /\ t.model = "gemini",
           steady => \A j \in Job : Settled(j) =>
                       rows'[j].hash = profile /\ rows'[j].model = "gemini"
    PROVE  ClaimInv'
<1>1. /\ task \in [Task -> TaskState]
      /\ \A v \in Task : task'[v] = IF v = w THEN t ELSE task[v]
      /\ profile' = profile /\ breakerOpen' = breakerOpen
      /\ steady' = steady /\ pushed' = pushed
  BY DEF TypeOK, history
<1>2. SameScorer'
  BY <1>1 DEF ClaimInv, SameScorer
<1>3. \A v \in Task : TaskShape(task'[v])
  BY <1>1 DEF ClaimInv
<1>4. ASSUME steady, NEW j \in Job PROVE OneClaim(j)'
  <2>1. \A v \in Task : j \in task'[v].top => j \in task[v].top
    BY <1>1
  <2>2. Settled(j) => Settled(j)'
    BY <1>1, <1>4 DEF Settled, Fits
  <2> QED BY <1>1, <1>4, <2>1, <2>2 DEF ClaimInv, OneClaim
<1> QED BY <1>1, <1>2, <1>3, <1>4 DEF ClaimInv, PushedOnce, TaskShape, Fits

\* A task that gives up, or ends, has no claim.
LEMMA IdleShape == TaskShape(Idle) /\ Idle.pc = "idle" /\ Idle.top = {}
BY DEF TaskShape, Idle

LEMMA InitClaims == Init => ClaimInv
<1> SUFFICES ASSUME Init PROVE ClaimInv
  OBVIOUS
<1>1. \A w \in Task : task[w] = Idle
  BY DEF Init
<1> QED BY <1>1, IdleShape DEF Init, ClaimInv, SameScorer, OneClaim, PushedOnce

LEMMA LoadClaims ==
    ASSUME TypeOK, ClaimInv, NEW w \in Task, w # "idle", Load(w)
    PROVE  ClaimInv'
<1> DEFINE t == [Idle EXCEPT !.pc = "loaded", !.hash = profile, !.model = Scorer]
<1>1. task' = [task EXCEPT ![w] = t]
  BY DEF Load
<1>2. TaskShape(t) /\ t.top = {} /\ t.hash = profile
  BY DEF TaskShape, Idle
<1>3. steady => t.model = "gemini"
  BY DEF ClaimInv, SameScorer, Scorer, Idle
<1> HIDE DEF t
<1> QED BY <1>1, <1>2, <1>3, TaskStepClaims DEF Load, Settled

LEMMA SelectForScanClaims ==
    ASSUME TypeOK, ClaimInv, NEW w \in Task, SelectForScan(w)
    PROVE  ClaimInv'
<1> DEFINE s == task[w]
           jobs == {j \in Job \ hidden : /\ ~Valid(rows[j], task[w].hash)
                                         /\ Fits(j, task[w].hash)}
           t == IF jobs = {} THEN Idle
                ELSE [s EXCEPT !.pc = "scoring", !.todo = jobs, !.model = Scorer]
<1>1. task' = [task EXCEPT ![w] = t]
  BY DEF SelectForScan
<1>2. s \in TaskState /\ s.pc = "loaded" /\ (steady => s.hash = profile /\ ~breakerOpen)
  BY DEF SelectForScan, ClaimInv, SameScorer, TypeOK
<1>3. CASE jobs = {}
  BY <1>1, <1>3, IdleShape, TaskStepClaims DEF SelectForScan, Settled
<1>4. CASE jobs # {}
  <2>1. \A j \in jobs : Fits(j, s.hash)
    OBVIOUS
  <2> HIDE DEF s, jobs
  <2>2. /\ t.pc = "scoring" /\ t.todo = jobs /\ t.hash = s.hash /\ t.top = s.top
        /\ t.model = Scorer
    BY <1>2, <1>4 DEF TaskState
  <2> HIDE DEF t
  <2>3. TaskShape(t) /\ (steady => t.model = "gemini")
    BY <2>1, <2>2, <1>2 DEF TaskShape, Scorer
  <2> QED BY <1>1, <1>2, <2>2, <2>3, TaskStepClaims DEF SelectForScan, Settled, s
<1> QED BY <1>3, <1>4

\* What the pre-filter writes is not settled: it does not fit.
LEMMA SelectForBackfillClaims ==
    ASSUME TypeOK, ClaimInv, "backfill" \in Task, SelectForBackfill
    PROVE  ClaimInv'
<1> DEFINE w == "backfill"
           s == task["backfill"]
           jobs == {j \in Job \ hidden : /\ BackfillWants(rows[j])
                                         /\ ~Valid(rows[j], s.hash)}
           fit == {j \in jobs : Fits(j, s.hash)}
           new == [j \in jobs \ fit |-> Fresh("zero", s.hash, "prefilter")]
           zero == {j \in Job : rows'[j].score = "zero" /\ rows'[j].analysis = "null"}
           t == IF fit # {}
                THEN [s EXCEPT !.pc = "scoring", !.todo = fit,
                               !.model = IF breakerOpen THEN "nvidia" ELSE s.model]
                ELSE IF breakerOpen THEN Idle
                ELSE [s EXCEPT !.pc = "rechecking", !.model = "gemini", !.seen = rows',
                               !.todo = zero]
<1>1. task' = [task EXCEPT ![w] = t]
  BY DEF SelectForBackfill
<1>2. s \in TaskState /\ s.pc = "loaded" /\ s.top = {}
      /\ (steady => s.hash = profile /\ s.model = "gemini" /\ ~breakerOpen)
  BY DEF SelectForBackfill, ClaimInv, SameScorer, TaskShape, TypeOK
<1>3. ASSUME steady, NEW j \in Job, Settled(j)
      PROVE  rows'[j].hash = profile /\ rows'[j].model = "gemini"
  <2>1. j \notin DOMAIN new
    BY <1>2, <1>3 DEF Settled
  <2>2. Upsert(new)
    BY DEF SelectForBackfill
  <2> QED BY <1>3, <2>1, <2>2 DEF Upsert, Settled
<1>4. \A j \in fit : Fits(j, s.hash)
  OBVIOUS
<1>5. /\ t.top = {} /\ TaskShape(t)
      /\ steady /\ t.pc # "idle" => t.hash = profile /\ t.model = "gemini"
  <2> HIDE DEF s, fit, zero
  <2>1. CASE fit # {}
    BY <1>2, <1>4, <2>1 DEF TaskState, TaskShape
  <2>2. CASE fit = {} /\ breakerOpen
    BY <2>2, IdleShape
  <2>3. CASE fit = {} /\ ~breakerOpen
    BY <1>2, <2>3 DEF TaskState, TaskShape
  <2> QED BY <2>1, <2>2, <2>3
<1> HIDE DEF t
<1> QED BY <1>1, <1>3, <1>5, TaskStepClaims DEF SelectForBackfill

\* The upsert returns what was not settled, and what it wrote is settled.
LEMMA ScoreClaims ==
    ASSUME TypeOK, ClaimInv, NEW w \in Task, NEW new, Score(w, new)
    PROVE  ClaimInv'
<1> DEFINE s == task[w]
           returned == {j \in Returned(new) : new[j].score = "top"}
<1>1. /\ s \in TaskState /\ s.pc = "scoring" /\ DOMAIN new \subseteq s.todo
      /\ s.todo \subseteq Job /\ \A j \in s.todo : Fits(j, s.hash)
      /\ steady => s.hash = profile /\ s.model = "gemini"
  BY DEF Score, ClaimInv, SameScorer, TaskShape, TypeOK, TaskState
<1>2. /\ profile' = profile /\ breakerOpen' = breakerOpen
      /\ steady' = steady /\ pushed' = pushed
  BY DEF Score, history
<1>3. /\ \A v \in Task \ {w} : task'[v] = task[v]
      /\ task'[w].pc \in {"scoring", "scored"} /\ task'[w].hash = s.hash
      /\ task'[w].model = s.model /\ task'[w].todo \subseteq s.todo
      /\ task'[w].top = s.top \cup returned
  <2> DEFINE t == [s EXCEPT !.pc = IF s.model = "gemini" THEN "scored" ELSE s.pc,
                            !.todo = IF s.model = "gemini" THEN s.todo ELSE s.todo \ DOMAIN new,
                            !.top = s.top \cup returned]
  <2>1. task' = [task EXCEPT ![w] = t] /\ task \in [Task -> TaskState]
    BY DEF Score, TypeOK
  <2> HIDE DEF returned, s
  <2>2. /\ t.pc \in {"scoring", "scored"} /\ t.hash = s.hash /\ t.model = s.model
        /\ t.todo \subseteq s.todo /\ t.top = s.top \cup returned
    BY <1>1 DEF TaskState
  <2> HIDE DEF t
  <2> QED BY <2>1, <2>2
<1>4. SameScorer'
  BY <1>1, <1>2, <1>3 DEF ClaimInv, SameScorer
<1>5. \A v \in Task : TaskShape(task'[v])
  BY <1>1, <1>3 DEF ClaimInv, TaskShape
<1>6. ASSUME steady, NEW j \in Job PROVE OneClaim(j)'
  <2>1. \A k \in DOMAIN new : new[k].hash = profile /\ new[k].model = "gemini"
    BY <1>1, <1>6 DEF Score, Fresh
  <2>2. Upsert(new)
    BY DEF Score
  <2>3. Settled(j) => j \notin returned /\ Settled(j)'
    BY <2>1, <2>2, <1>2 DEF Settled, Fits, Returned, Stale, Upsert
  <2>4. j \in returned => ~Settled(j) /\ Settled(j)'
    <3> SUFFICES ASSUME j \in returned PROVE ~Settled(j) /\ Settled(j)'
      OBVIOUS
    <3>1. j \in DOMAIN new /\ Stale(rows[j], new[j])
      BY DEF Returned
    <3>2. rows'[j] = new[j]
      BY <3>1, <2>2 DEF Upsert
    <3>3. Fits(j, profile)
      BY <3>1, <1>1, <1>6
    <3> QED BY <3>1, <3>2, <3>3, <2>1, <2>3, <1>2 DEF Settled, Fits
  <2>5. OneClaim(j)
    BY <1>6 DEF ClaimInv
  <2> HIDE DEF returned, s
  <2>6. CASE j \in returned
    <3>1. /\ pushed[j] = 0 \/ ~(pushed[j] > 0)
          /\ \A v \in Task : j \notin task[v].top
      BY <2>4, <2>5, <2>6 DEF OneClaim
    <3>2. pushed[j] = 0
      BY <2>4, <2>5, <2>6 DEF OneClaim, TypeOK
    <3> QED BY <3>1, <3>2, <2>4, <2>6, <1>2, <1>3 DEF OneClaim
  <2>7. CASE j \notin returned
    <3>1. \A v \in Task : j \in task'[v].top => j \in task[v].top
      BY <1>3, <2>7 DEF s
    <3> QED BY <3>1, <2>3, <2>5, <1>2 DEF OneClaim
  <2> QED BY <2>6, <2>7
<1> QED BY <1>2, <1>4, <1>5, <1>6 DEF ClaimInv, PushedOnce, TaskShape, Fits

\* A recheck rewrites what it loaded; the row of a settled vacancy gets the
\* hash and the model that it has.
LEMMA RewriteClaims ==
    ASSUME TypeOK, ClaimInv, NEW w \in Task, w # "idle", NEW new, Rewrite(w, new)
    PROVE  ClaimInv'
<1> DEFINE s == task[w]
           t == [s EXCEPT !.todo = s.todo \ DOMAIN new]
<1>1. task' = [task EXCEPT ![w] = t]
  BY DEF Rewrite, TypeOK
<1>2. /\ s \in TaskState /\ s.pc \in {"rechecking", "refreshing"} /\ s.top = {}
      /\ steady => s.hash = profile /\ s.model = "gemini"
  BY DEF Rewrite, ClaimInv, SameScorer, TaskShape, TypeOK
<1>3. ASSUME steady, NEW j \in Job, Settled(j)
      PROVE  rows'[j].hash = profile /\ rows'[j].model = "gemini"
  <2>1. rows'[j] = IF j \in DOMAIN new THEN Merge(rows[j], s.seen[j], new[j]) ELSE rows[j]
    BY DEF Rewrite, Flush
  <2>2. CASE j \notin DOMAIN new
    BY <1>3, <2>1, <2>2 DEF Settled
  <2>3. CASE j \in DOMAIN new
    <3>1. /\ rows[j].hash = profile /\ rows[j].model = "gemini"
          /\ \E r \in AiScore : new[j] = Fresh(r, profile, "gemini")
      BY <1>2, <1>3, <2>3 DEF Rewrite, Settled
    <3>2. PICK r \in AiScore : new[j] = Fresh(r, profile, "gemini")
      BY <3>1
    <3>3. new[j].hash = profile /\ new[j].model = "gemini"
      BY <3>2 DEF Fresh
    <3>4. /\ rows'[j].hash = IF new[j].hash = s.seen[j].hash THEN rows[j].hash ELSE new[j].hash
          /\ rows'[j].model = IF new[j].model = s.seen[j].model THEN rows[j].model ELSE new[j].model
      <4>1. rows'[j] = Merge(rows[j], s.seen[j], new[j])
        BY <2>1, <2>3
      <4> QED BY <3>2, <4>1 DEF Merge, Fresh
    <3> QED BY <3>1, <3>3, <3>4
  <2> QED BY <2>2, <2>3
<1>4. /\ t.top = {} /\ t.pc = s.pc /\ t.hash = s.hash /\ t.model = s.model
  <2> HIDE DEF s
  <2> QED BY <1>2 DEF TaskState
<1>5. TaskShape(t)
  BY <1>2, <1>4 DEF TaskShape
<1> HIDE DEF t
<1> QED BY <1>1, <1>2, <1>3, <1>4, <1>5, TaskStepClaims DEF Rewrite

\* A task that stops scoring keeps its claims; one that dies drops them.  The
\* fallback to NVIDIA needs an open breaker.
LEMMA ControlClaims ==
    ASSUME TypeOK, ClaimInv, NEW w \in Task,
           \/ StopScoring(w) \/ Abort(w)
           \/ w = "backfill" /\ (Fallback \/ FinishBackfill)
    PROVE  ClaimInv'
<1> DEFINE s == task[w]
<1>1. /\ UNCHANGED <<profile, rows, breakerOpen, history>>
      /\ s \in TaskState /\ TaskShape(s)
      /\ steady /\ s.pc # "idle" => s.hash = profile /\ s.model = "gemini" /\ ~breakerOpen
  BY DEF StopScoring, Abort, Fallback, FinishBackfill, ClaimInv, SameScorer, TypeOK
<1>2. ASSUME NEW t, task' = [task EXCEPT ![w] = t], t.top \subseteq s.top, TaskShape(t),
             steady /\ t.pc # "idle" => t.hash = profile /\ t.model = "gemini"
      PROVE  ClaimInv'
  BY <1>1, <1>2, TaskStepClaims DEF Settled
<1>3. CASE Abort(w) \/ (w = "backfill" /\ FinishBackfill)
  <2>1. task' = [task EXCEPT ![w] = Idle]
    BY <1>3 DEF Abort, FinishBackfill
  <2> QED BY <1>2, <2>1, IdleShape
<1>4. CASE StopScoring(w)
  <2> DEFINE t == [s EXCEPT !.pc = "scored"]
  <2>1. task' = [task EXCEPT ![w] = t] /\ s.pc = "scoring"
    BY <1>4 DEF StopScoring, TypeOK
  <2> HIDE DEF s
  <2>2. /\ t.pc = "scored" /\ t.top = s.top /\ t.todo = s.todo
        /\ t.hash = s.hash /\ t.model = s.model
    BY <1>1 DEF TaskState
  <2> HIDE DEF t
  <2>3. TaskShape(t)
    BY <1>1, <2>1, <2>2 DEF TaskShape
  <2> QED BY <1>1, <1>2, <2>1, <2>2, <2>3
<1>5. CASE w = "backfill" /\ Fallback
  <2> DEFINE t == [s EXCEPT !.pc = "scoring", !.model = "nvidia"]
  <2>1. task' = [task EXCEPT ![w] = t] /\ s.pc = "scored" /\ breakerOpen
    BY <1>5 DEF Fallback, TypeOK
  <2> HIDE DEF s
  <2>2. /\ t.pc = "scoring" /\ t.top = s.top /\ t.todo = s.todo /\ t.hash = s.hash
    BY <1>1 DEF TaskState
  <2> HIDE DEF t
  <2>3. TaskShape(t) /\ ~steady
    BY <1>1, <2>1, <2>2 DEF TaskShape
  <2> QED BY <1>1, <1>2, <2>1, <2>2, <2>3
<1> QED BY <1>3, <1>4, <1>5

\* An announcement uses up the claim.
LEMMA PushClaims ==
    ASSUME TypeOK, ClaimInv, NEW w \in Task, NEW sent, Push(w, sent)
    PROVE  ClaimInv'
<1>1. /\ UNCHANGED <<profile, rows, breakerOpen, steady>>
      /\ sent \subseteq task[w].top
      /\ \A v \in Task : task'[v] = IF v = w THEN Idle ELSE task[v]
      /\ \A j \in Job : pushed'[j] = IF steady /\ j \in sent /\ pushed[j] < 2
                                     THEN pushed[j] + 1 ELSE pushed[j]
  BY DEF Push, TypeOK
<1>2. \A j \in Job : Settled(j)' <=> Settled(j)
  BY <1>1 DEF Settled, Fits
<1>3. ASSUME steady, NEW j \in Job PROVE OneClaim(j)' /\ pushed'[j] <= 1
  <2>1. OneClaim(j) /\ pushed[j] \in 0 .. 2 /\ pushed[j] <= 1
    BY <1>3 DEF ClaimInv, TypeOK, PushedOnce
  <2>2. \A v \in Task : j \in task'[v].top => v # w /\ j \in task[v].top
    BY <1>1, IdleShape
  <2>3. CASE j \in sent
    <3>1. j \in task[w].top
      BY <1>1, <2>3
    <3>2. pushed[j] = 0 /\ Settled(j) /\ \A v \in Task : j \notin task'[v].top
      BY <2>1, <2>2, <3>1 DEF OneClaim
    <3>3. pushed'[j] = 1
      BY <1>1, <1>3, <2>3, <3>2
    <3> QED BY <1>2, <3>2, <3>3 DEF OneClaim
  <2>4. CASE j \notin sent
    <3>1. pushed'[j] = pushed[j]
      BY <1>1, <2>4
    <3> QED BY <1>2, <2>1, <2>2, <3>1 DEF OneClaim
  <2> QED BY <2>3, <2>4
<1>4. PushedOnce'
  <2>1. CASE steady
    BY <1>3, <2>1 DEF PushedOnce
  <2>2. CASE ~steady
    BY <1>1, <2>2 DEF ClaimInv, PushedOnce
  <2> QED BY <2>1, <2>2
<1>5. SameScorer'
  BY <1>1, IdleShape DEF ClaimInv, SameScorer
<1>6. \A v \in Task : TaskShape(task'[v])
  BY <1>1, IdleShape DEF ClaimInv
<1> QED BY <1>1, <1>3, <1>4, <1>5, <1>6 DEF ClaimInv, TaskShape, Fits

\* A step of the user or of the world that ends the steady time, or leaves
\* every profile, hash and model alone.
LEMMA RequestClaims ==
    ASSUME TypeOK, ClaimInv, UNCHANGED pushed,
           UNCHANGED task \/ (task' = [w \in Task |-> Idle] /\ breakerOpen' = FALSE),
           ~steady' \/ /\ UNCHANGED <<profile, steady>>
                       /\ breakerOpen' => breakerOpen
                       /\ \A j \in Job : /\ rows'[j].hash = rows[j].hash
                                          /\ rows'[j].model = rows[j].model
    PROVE  ClaimInv'
<1>1. \A w \in Task : task'[w] = task[w] \/ task'[w] = Idle
  OBVIOUS
<1>2. \A w \in Task : TaskShape(task'[w])
  BY <1>1, IdleShape DEF ClaimInv
<1>3. PushedOnce'
  BY DEF ClaimInv, PushedOnce
<1>4. CASE ~steady'
  BY <1>2, <1>3, <1>4 DEF ClaimInv, SameScorer, TaskShape, Fits
<1>5. CASE steady'
  <2>1. /\ profile' = profile /\ steady /\ (breakerOpen' => breakerOpen)
        /\ \A j \in Job : Settled(j)' <=> Settled(j)
    BY <1>5 DEF Settled, Fits
  <2>2. SameScorer'
    BY <1>1, <2>1, IdleShape DEF ClaimInv, SameScorer
  <2>3. ASSUME NEW j \in Job PROVE OneClaim(j)'
    <3>1. \A w \in Task : j \in task'[w].top => j \in task[w].top
      BY <1>1, IdleShape
    <3> QED BY <2>1, <3>1 DEF ClaimInv, OneClaim
  <2> QED BY <1>2, <1>3, <2>2, <2>3 DEF ClaimInv, TaskShape, Fits
<1> QED BY <1>4, <1>5

LEMMA NextClaims ==
    ASSUME "idle" \notin Filler, TypeOK, ClaimInv, [Next]_vars
    PROVE  ClaimInv'
<1>1. "idle" \notin Task
  BY ScoringAssumption DEF ScoringAssumption, Task
<1>2. ASSUME NEW w \in Task, Load(w) \/ Step(w) PROVE ClaimInv'
  <2>1. w # "idle"
    BY <1>1
  <2>2. ASSUME NEW new, Score(w, new) PROVE ClaimInv'
    BY <2>2, ScoreClaims
  <2>3. ASSUME NEW new, Rewrite(w, new) PROVE ClaimInv'
    BY <2>1, <2>3, RewriteClaims
  <2>4. ASSUME Load(w) PROVE ClaimInv'
    BY <2>1, <2>4, LoadClaims
  <2>5. ASSUME StopScoring(w) \/ Abort(w) PROVE ClaimInv'
    BY <2>5, ControlClaims
  <2> QED BY <1>2, <2>2, <2>3, <2>4, <2>5 DEF Step
<1>3. ASSUME NEW w \in Scan, ScanStep(w) PROVE ClaimInv'
  <2>1. w \in Task
    BY DEF Task
  <2>2. ASSUME SelectForScan(w) PROVE ClaimInv'
    BY <2>1, <2>2, SelectForScanClaims
  <2>3. ASSUME NEW sent, Push(w, sent) PROVE ClaimInv'
    BY <2>1, <2>3, PushClaims
  <2> QED BY <1>3, <2>2, <2>3 DEF ScanStep
<1>4. ASSUME NEW w \in Filler, FillerStep(w) PROVE ClaimInv'
  <2>1. w = "backfill" /\ w \in Task /\ BackfillStep
    BY <1>4, ScoringAssumption DEF FillerStep, Task
  <2> QED BY <2>1, SelectForBackfillClaims, ControlClaims DEF BackfillStep
<1>5. ASSUME NEW p \in Profile, EditProfile(p) PROVE ClaimInv'
  BY <1>5, RequestClaims DEF EditProfile
<1>6. ASSUME NEW j \in Job, Apply(j) \/ Reject(j) PROVE ClaimInv'
  <2>1. UNCHANGED <<profile, rows, breakerOpen, task, steady, pushed>>
    BY <1>6 DEF Apply, Reject, history
  <2> QED BY <2>1, RequestClaims
<1>7. ASSUME NEW j \in Job, AutoExclude(j) PROVE ClaimInv'
  <2>1. UNCHANGED <<task, pushed, breakerOpen>> /\ (~steady' \/ UNCHANGED <<profile, rows, steady>>)
    BY <1>7 DEF AutoExclude
  <2> QED BY <2>1, RequestClaims
<1>8. ASSUME FlipBreaker PROVE ClaimInv'
  BY <1>8, RequestClaims DEF FlipBreaker
<1>9. ASSUME Age PROVE ClaimInv'
  <2>1. ASSUME NEW j \in Job PROVE rows'[j].hash = rows[j].hash /\ rows'[j].model = rows[j].model
    <3> DEFINE old == rows[j].score \in {"low", "top"}
    <3>1. rows'[j] = [rows[j] EXCEPT !.old = old] /\ rows[j] \in Row
      BY <1>9 DEF Age, TypeOK
    <3> HIDE DEF old
    <3> QED BY <3>1 DEF Row
  <2> QED BY <1>9, <2>1, RequestClaims DEF Age, history
<1>10. ASSUME Restart PROVE ClaimInv'
  BY <1>10, RequestClaims DEF Restart, history
<1>11. ASSUME UNCHANGED vars PROVE ClaimInv'
  BY <1>11, RequestClaims DEF vars, history
<1>12. CASE Next
  BY <1>12, <1>1, <1>2, <1>3, <1>4, <1>5, <1>6, <1>7, <1>8, <1>9, <1>10 DEF Next
<1> QED BY <1>11, <1>12

\* Whatever the number of scans, of vacancies and of restarts, and however
\* they overlap with the backfill: as long as neither the profile nor the
\* scorer changes, a vacancy is announced (and charged for) at most once.
THEOREM AnnouncedOnce == ASSUME "idle" \notin Filler PROVE Spec => []PushedOnce
<1>1. Init => ClaimInv
  BY InitClaims
<1>2. TypeOK /\ ClaimInv /\ [Next]_vars => ClaimInv'
  BY NextClaims
<1>3. ClaimInv => PushedOnce
  BY DEF ClaimInv
<1> QED BY <1>1, <1>2, <1>3, TypeCorrect, PTL DEF Spec
=============================================================================
