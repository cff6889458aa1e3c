------------------------------ MODULE Tracker ------------------------------
(***************************************************************************)
(* The application tracker (tracker_service): one user clicks on vacancies *)
(* in several browser tabs, each click a request of its own, and in the    *)
(* bot, which handles one update at a time.  A web reject then looks       *)
(* whether the company has been rejected often enough to be excluded.      *)
(* Statements of different requests interleave; a commit writes only the   *)
(* columns whose value the session changed.                                *)
(***************************************************************************)
EXTENDS Integers, FiniteSets

CONSTANTS
    Job,        \* vacancies
    Company,
    Employer,   \* Employer[j]: the company of vacancy j
    Excludable, \* companies with a name of three letters that is no placeholder
    Status,     \* a part of VALID_STATUSES that has the three the buttons set
    Click,      \* web requests that may be in flight
    Bot,        \* the bot's handler
    Absent,     \* no application
    Threshold,  \* AUTO_EXCLUDE_THRESHOLD: 5 in the code
    MaxInputs   \* bound on clicks and on edits of the list, together

ASSUME TrackerAssumption ==
    /\ Employer \in [Job -> Company] /\ Excludable \subseteq Company
    /\ {"saved", "applied", "rejected"} \subseteq Status /\ Absent \notin Status
    /\ Bot \notin Click
    /\ Threshold \in Nat \ {0} /\ MaxInputs \in Nat

VARIABLES
    stored,     \* vacancies in the table
    status,     \* status[j]: of the user's application, or Absent
    history,    \* history[j]: new_status of its last history entry, or Absent
    profile,    \* the user has a profile
    excluded,   \* profile.excluded_companies
    zeroed,     \* vacancies whose score an exclusion set to 0
    session,    \* what each handler is doing
    raced,      \* vacancies with a commit that overlapped another one's
    webOnly,    \* companies whose rejections and exclusion were left to web clicks
    inputs

trackerVars == <<stored, status, history, profile, excluded, zeroed, session, raced, webOnly, inputs>>

Handler == Click \cup {Bot}

\* seen: the application as the session loaded it; loaded: the profile was loaded
\* with the user; listed: its excluded_companies; spared: vacancies not to be
\* zeroed.
NoSession == [pc |-> "idle", job |-> Absent, to |-> Absent, seen |-> Absent,
              loaded |-> FALSE, listed |-> {}, spared |-> {}]

SessionState ==
    [pc : {"idle", "read", "commit", "count", "exclude"}, job : Job \cup {Absent},
     to : Status \cup {Absent}, seen : Status \cup {Absent},
     loaded : BOOLEAN, listed : SUBSET Company, spared : SUBSET Job]

TrackerInit ==
    /\ stored = Job
    /\ status = [j \in Job |-> Absent] /\ history = [j \in Job |-> Absent]
    /\ profile \in BOOLEAN /\ excluded = {} /\ zeroed = {}
    /\ session = [h \in Handler |-> NoSession]
    /\ raced = {} /\ webOnly = Company /\ inputs = 0

End(h) == session' = [session EXCEPT ![h] = NoSession]

Rejections(c) == Cardinality({j \in Job : Employer[j] = c /\ status[j] = "rejected"})

\* The session loads the user, with the profile, and keeps both objects.
Authenticate(h, j, to) ==
    /\ session[h].pc = "idle" /\ inputs < MaxInputs
    /\ inputs' = inputs + 1
    /\ h # Bot => to \in {"saved", "applied", "rejected"}
    /\ session' = [session EXCEPT ![h] = [NoSession EXCEPT !.pc = "read", !.job = j, !.to = to,
                                                           !.loaded = profile, !.listed = excluded]]
    /\ UNCHANGED <<stored, status, history, profile, excluded, zeroed, raced, webOnly>>

\* A web click on a missing vacancy is a 404.  update_status, the bot's only
\* way to the other statuses, needs an application; save_job leaves one alone.
Read(h) ==
    LET r == session[h] IN
    /\ r.pc = "read"
    /\ IF \/ h # Bot /\ r.job \notin stored
          \/ r.to \notin {"saved", "applied", "rejected"} /\ status[r.job] = Absent
          \/ r.to = "saved" /\ status[r.job] # Absent
       THEN End(h)
       ELSE session' = [session EXCEPT ![h].pc = "commit", ![h].seen = status[r.job]]
    /\ UNCHANGED <<stored, status, history, profile, excluded, zeroed, raced, webOnly, inputs>>

\* update_status(..., "saved") does change an application that is there.
ReadForSaved ==
    LET r == session[Bot] IN
    /\ r.pc = "read" /\ r.to = "saved" /\ status[r.job] # Absent
    /\ session' = [session EXCEPT ![Bot].pc = "commit", ![Bot].seen = status[r.job]]
    /\ UNCHANGED <<stored, status, history, profile, excluded, zeroed, raced, webOnly, inputs>>

\* An insert needs the vacancy and meets the unique index; an update and the
\* history entry need the row.
Accepted(r) ==
    IF r.seen = Absent THEN r.job \in stored /\ status[r.job] = Absent
                       ELSE status[r.job] # Absent

\* Mutant of AfterCommit: only the first reject of a vacancy is counted.
CountNewRejects(h) ==
    IF h # Bot /\ session[h].to = "rejected" /\ session[h].seen = Absent THEN "count" ELSE "idle"

\* job_action calls check_auto_exclude_company; the bot does not.
AfterCommit(h) == IF h # Bot /\ session[h].to = "rejected" THEN "count" ELSE "idle"

\* Mutant of Logged: a new application gets no history entry.
LoggedUpdate(r) == IF r.seen = Absent THEN history[r.job] ELSE r.to

\* save_job writes no history entry, everything else does.
Logged(r) == IF r.seen = Absent /\ r.to = "saved" THEN history[r.job] ELSE r.to

\* The transaction of save_job, mark_applied, mark_rejected and update_status.
Commit(h) ==
    LET r == session[h] IN
    /\ r.pc = "commit" /\ Accepted(r)
    /\ status' = [status EXCEPT ![r.job] = IF r.seen = r.to THEN @ ELSE r.to]
    /\ history' = [history EXCEPT ![r.job] = Logged(r)]
    /\ session' = [session EXCEPT ![h] = IF AfterCommit(h) = "idle" THEN NoSession
                                         ELSE [r EXCEPT !.pc = "count"]]
    /\ raced' = IF r.seen = status[r.job] THEN raced ELSE raced \cup {r.job}
    /\ webOnly' = IF h = Bot /\ r.to = "rejected" THEN webOnly \ {Employer[r.job]} ELSE webOnly
    /\ UNCHANGED <<stored, profile, excluded, zeroed, inputs>>

\* StaleDataError or IntegrityError: rolled back, the user sees an error.
Refuse(h) ==
    /\ session[h].pc = "commit" /\ ~Accepted(session[h])
    /\ End(h)
    /\ UNCHANGED <<stored, status, history, profile, excluded, zeroed, raced, webOnly, inputs>>

\* excluded_companies as the session sees it: a profile that was loaded before
\* the reject is not loaded again.
ListOf(r) == IF r.loaded THEN r.listed ELSE excluded

\* check_auto_exclude_company up to its last select: it returns early for a
\* vacancy that is gone, a name that cannot be excluded, too few rejections, a
\* missing profile and a company on the list.
Count(h) ==
    LET r == session[h]
        c == Employer[r.job]
    IN
    /\ r.pc = "count"
    /\ IF /\ r.job \in stored /\ c \in Excludable /\ Rejections(c) >= Threshold
          /\ profile /\ c \notin ListOf(r)
       THEN session' = [session EXCEPT
                          ![h] = [r EXCEPT !.pc = "exclude", !.listed = ListOf(r),
                                    !.spared = {j \in stored : status[j] \in {"applied", "rejected"}}]]
       ELSE End(h)
    /\ webOnly' = IF profile THEN webOnly ELSE webOnly \ {c}
    /\ UNCHANGED <<stored, status, history, profile, excluded, zeroed, raced, inputs>>

\* Its commit: the loaded list with one more name replaces the stored one.
Exclude(h) ==
    LET r == session[h]
        c == Employer[r.job]
    IN
    /\ r.pc = "exclude"
    /\ excluded' = r.listed \cup {c}
    /\ zeroed' = zeroed \cup {j \in stored \ r.spared : Employer[j] = c}
    /\ webOnly' = webOnly \ (excluded \ excluded')
    /\ End(h)
    /\ UNCHANGED <<stored, status, history, profile, raced, inputs>>

\* The database or the process fails, and the request with it.
Die(h) ==
    /\ session[h].pc # "idle"
    /\ webOnly' = IF session[h].pc \in {"count", "exclude"}
                  THEN webOnly \ {Employer[session[h].job]} ELSE webOnly
    /\ End(h)
    /\ UNCHANGED <<stored, status, history, profile, excluded, zeroed, raced, inputs>>

\* The user saves another list in the settings, or creates the profile there.
EditExcluded(list) ==
    /\ list # excluded \/ ~profile
    /\ inputs < MaxInputs
    /\ inputs' = inputs + 1
    /\ profile' = TRUE /\ excluded' = list
    /\ webOnly' = webOnly \ (excluded \ list)
    /\ UNCHANGED <<stored, status, history, zeroed, session, raced>>

\* cleanup_old_jobs deletes an old vacancy with its application, unless that
\* is a live one.
CleanUpJob(j) ==
    /\ j \in stored /\ status[j] \in {Absent, "saved", "rejected", "withdrawn"}
    /\ stored' = stored \ {j}
    /\ status' = [status EXCEPT ![j] = Absent] /\ history' = [history EXCEPT ![j] = Absent]
    /\ zeroed' = zeroed \ {j}
    /\ webOnly' = IF \E h \in Click : session[h].pc = "count" /\ session[h].job = j
                  THEN webOnly \ {Employer[j]} ELSE webOnly
    /\ UNCHANGED <<profile, excluded, session, raced, inputs>>

TrackerNext ==
    \/ \E h \in Handler : \/ \E j \in Job, to \in Status : Authenticate(h, j, to)
                          \/ Read(h) \/ Commit(h) \/ Refuse(h) \/ Count(h) \/ Exclude(h) \/ Die(h)
    \/ ReadForSaved
    \/ \E list \in SUBSET Company : EditExcluded(list)
    \/ \E j \in Job : CleanUpJob(j)

TrackerSpec == TrackerInit /\ [][TrackerNext]_trackerVars

-----------------------------------------------------------------------------
(* Properties.                                                             *)

TrackerTypeOK ==
    /\ stored \subseteq Job /\ raced \subseteq Job /\ zeroed \subseteq stored
    /\ status \in [Job -> Status \cup {Absent}] /\ history \in [Job -> Status \cup {Absent}]
    /\ profile \in BOOLEAN /\ excluded \subseteq Company /\ webOnly \subseteq Company /\ inputs \in 0 .. MaxInputs
    /\ session \in [Handler -> SessionState]

\* When nothing is in flight, a company that web clicks have rejected often
\* enough is excluded: of clicks that overlap, the last one to count sees them
\* all, since each counts after its own commit (check_auto_exclude_company).
\* Left out are companies whose name cannot be excluded, those rejected in the
\* bot, which does not count, or by a user without a profile, and those taken
\* off the list since, by the user or by a session with an older list.
ThresholdExcludes ==
    (\A h \in Click : session[h].pc = "idle") =>
        \A c \in webOnly \cap Excludable : Rejections(c) >= Threshold => c \in excluded

\* The last history entry of an application names its status, unless two
\* changes of it overlapped (mark_applied, mark_rejected, update_status).
HistoryNamesStatus ==
    \A j \in Job \ raced :
        IF status[j] \in {Absent, "saved"} /\ history[j] = Absent THEN TRUE
        ELSE history[j] = status[j]
=============================================================================
