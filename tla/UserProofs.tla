----------------------------- MODULE UserProofs -----------------------------
(***************************************************************************)
(* Theorems about what a user does: Tracker, the applications and the      *)
(* excluded companies, and BotSession, the cards that the bot shows.       *)
(***************************************************************************)
EXTENDS Tracker, BotSession, DataLemmas

-----------------------------------------------------------------------------
(* Applications and excluded companies.  A company that has reached the    *)
(* threshold and is not excluded has a click under way that will exclude   *)
(* it: the one that committed the last rejection, or one that counts after *)
(* it.  That click cannot be misled by the list it loaded, because a       *)
(* company on a loaded list that still counts is on the stored one.        *)

\* A session that is under way works on a vacancy.
Working(h) == session[h].pc # "idle" => session[h].job \in Job /\ session[h].to \in Status

\* Applications are those of vacancies in the table, and the rejected ones can
\* be counted.
Applications ==
    /\ \A j \in Job : status[j] # Absent => j \in stored
    /\ IsFiniteSet({j \in Job : status[j] = "rejected"})

\* A company that some session loaded as excluded, and that still counts, is
\* excluded now.
ListedStays ==
    \A h \in Handler, c \in webOnly : c \in session[h].listed => c \in excluded

\* A company that should be excluded and is not.
Overdue(c) == c \in webOnly \cap Excludable /\ Rejections(c) >= Threshold /\ c \notin excluded

\* A click whose count, or whose commit, will exclude c.
WillExclude(h, c) ==
    LET s == session[h] IN
    /\ \/ s.pc = "exclude"
       \/ s.pc = "count" /\ s.job \in stored /\ c \notin ListOf(s)
    /\ Employer[s.job] = c

\* Every company that is overdue has a click that will exclude it.
KInv ==
    /\ TrackerTypeOK
    /\ \A h \in Handler : Working(h)
    /\ Applications /\ ListedStays
    /\ \A c \in Company : Overdue(c) => \E h \in Click : WillExclude(h, c)

\* The conditions under which a count goes on to exclude.
MayExclude(r) ==
    /\ r.job \in stored /\ Employer[r.job] \in Excludable
    /\ Rejections(Employer[r.job]) >= Threshold
    /\ profile /\ Employer[r.job] \notin ListOf(r)

-----------------------------------------------------------------------------
\* What a step does to one session: all others stay.
LEMMA SessionUpdate ==
    ASSUME TrackerTypeOK, \A g \in Handler : Working(g), NEW h \in Handler, NEW s \in SessionState,
           s.pc # "idle" => s.job \in Job /\ s.to \in Status,
           session' = [session EXCEPT ![h] = s]
    PROVE  /\ session' \in [Handler -> SessionState]
           /\ \A g \in Handler : Working(g)'
           /\ session'[h] = s /\ \A g \in Handler \ {h} : session'[g] = session[g]
<1>1. session \in [Handler -> SessionState]
  BY DEF TrackerTypeOK
<1>2. session' \in [Handler -> SessionState]
  BY <1>1
<1>3. session'[h] = s /\ \A g \in Handler \ {h} : session'[g] = session[g]
  BY <1>1
<1> QED BY <1>2, <1>3 DEF Working

\* A handler that does nothing.
LEMMA NoSessionType == NoSession \in SessionState /\ NoSession.pc = "idle" /\ NoSession.listed = {}
BY DEF NoSession, SessionState

\* What a session looks like after each of its steps.
LEMMA SessionAfter ==
    ASSUME TrackerTypeOK, \A g \in Handler : Working(g), NEW h \in Handler
    PROVE  /\ \A j \in Job, to \in Status : Authenticate(h, j, to) =>
                \E s \in SessionState :
                   /\ s.pc = "read" /\ s.job = j /\ s.to = to /\ s.listed = excluded
                   /\ session' = [session EXCEPT ![h] = s]
           /\ Read(h) =>
                \E s \in SessionState :
                   /\ s.pc \in {"idle", "commit"} /\ (s.pc # "idle" => s.job \in Job /\ s.to \in Status)
                   /\ s.listed \subseteq session[h].listed
                   /\ session' = [session EXCEPT ![h] = s]
           /\ h = Bot /\ ReadForSaved =>
                \E s \in SessionState :
                   /\ s.pc = "commit" /\ s.job \in Job /\ s.to \in Status
                   /\ s.listed \subseteq session[h].listed
                   /\ session' = [session EXCEPT ![h] = s]
           /\ Commit(h) =>
                \E s \in SessionState :
                   /\ session' = [session EXCEPT ![h] = s]
                   /\ s.listed \subseteq session[h].listed
                   /\ \/ s.pc = "idle" /\ ~ (h # Bot /\ session[h].to = "rejected")
                      \/ /\ s.pc = "count" /\ h # Bot /\ session[h].to = "rejected"
                         /\ s.job = session[h].job /\ s.to = session[h].to
           /\ Count(h) =>
                \E s \in SessionState :
                   /\ session' = [session EXCEPT ![h] = s]
                   /\ s.listed \subseteq session[h].listed \cup excluded
                   /\ \/ s.pc = "idle" /\ ~ MayExclude(session[h])
                      \/ s.pc = "exclude" /\ s.job = session[h].job /\ s.to = session[h].to
<1>1. session[h] \in SessionState /\ Working(h) /\ excluded \in SUBSET Company
      /\ status \in [Job -> Status \cup {Absent}] /\ stored \subseteq Job /\ profile \in BOOLEAN
  BY DEF TrackerTypeOK
<1>2. ASSUME NEW j \in Job, NEW to \in Status, Authenticate(h, j, to)
      PROVE  \E s \in SessionState :
                   /\ s.pc = "read" /\ s.job = j /\ s.to = to /\ s.listed = excluded
                   /\ session' = [session EXCEPT ![h] = s]
  <2> DEFINE s == [NoSession EXCEPT !.pc = "read", !.job = j, !.to = to,
                                     !.loaded = profile, !.listed = excluded]
  <2>1. s \in SessionState /\ s.pc = "read" /\ s.job = j /\ s.to = to /\ s.listed = excluded
    BY <1>1 DEF NoSession, SessionState
  <2>2. session' = [session EXCEPT ![h] = s]
    BY <1>2 DEF Authenticate
  <2> HIDE DEF s
  <2> QED BY <2>1, <2>2
<1>3. ASSUME NEW seen \in Status \cup {Absent}, session[h].pc = "read",
             session' = [session EXCEPT ![h].pc = "commit", ![h].seen = seen]
      PROVE  \E s \in SessionState :
                   /\ s.pc = "commit" /\ s.job \in Job /\ s.to \in Status
                   /\ s.listed \subseteq session[h].listed
                   /\ session' = [session EXCEPT ![h] = s]
  <2> DEFINE r == session[h]
             s == [r EXCEPT !.pc = "commit", !.seen = seen]
  <2>1. r \in SessionState /\ r.job \in Job /\ r.to \in Status
    BY <1>1, <1>3 DEF Working
  <2>2. session' = [session EXCEPT ![h] = s]
    BY <1>3
  <2> HIDE DEF r
  <2>3. s \in SessionState /\ s.pc = "commit" /\ s.job = r.job /\ s.to = r.to /\ s.listed = r.listed
    BY <2>1 DEF SessionState
  <2> HIDE DEF s
  <2> QED BY <2>1, <2>2, <2>3 DEF r
<1>4. ASSUME Read(h)
      PROVE \E s \in SessionState :
                   /\ s.pc \in {"idle", "commit"} /\ (s.pc # "idle" => s.job \in Job /\ s.to \in Status)
                   /\ s.listed \subseteq session[h].listed
                   /\ session' = [session EXCEPT ![h] = s]
  <2>1. CASE End(h)
    BY <2>1, NoSessionType DEF End
  <2>2. CASE session' = [session EXCEPT ![h].pc = "commit", ![h].seen = status[session[h].job]]
    <3>1. status[session[h].job] \in Status \cup {Absent} /\ session[h].pc = "read"
      BY <1>1, <1>4 DEF Read, Working
    <3> QED BY <2>2, <3>1, <1>3
  <2> QED BY <1>4, <2>1, <2>2 DEF Read
<1>5. ASSUME h = Bot, ReadForSaved
      PROVE \E s \in SessionState :
                   /\ s.pc = "commit" /\ s.job \in Job /\ s.to \in Status
                   /\ s.listed \subseteq session[h].listed
                   /\ session' = [session EXCEPT ![h] = s]
  <2>1. status[session[h].job] \in Status \cup {Absent} /\ session[h].pc = "read"
    BY <1>1, <1>5 DEF ReadForSaved, Working
  <2>2. session' = [session EXCEPT ![h].pc = "commit", ![h].seen = status[session[h].job]]
    BY <1>5 DEF ReadForSaved
  <2> QED BY <2>1, <2>2, <1>3
<1>6. ASSUME Commit(h)
      PROVE \E s \in SessionState :
                   /\ session' = [session EXCEPT ![h] = s]
                   /\ s.listed \subseteq session[h].listed
                   /\ \/ s.pc = "idle" /\ ~ (h # Bot /\ session[h].to = "rejected")
                      \/ /\ s.pc = "count" /\ h # Bot /\ session[h].to = "rejected"
                         /\ s.job = session[h].job /\ s.to = session[h].to
  <2>1. CASE h # Bot /\ session[h].to = "rejected"
    <3> DEFINE r == session[h]
               s == [r EXCEPT !.pc = "count"]
    <3>1. session' = [session EXCEPT ![h] = s]
      BY <1>6, <2>1 DEF Commit, AfterCommit
    <3>2. r \in SessionState
      BY <1>1
    <3> HIDE DEF r
    <3>3. s \in SessionState /\ s.pc = "count" /\ s.job = r.job /\ s.to = r.to /\ s.listed = r.listed
      BY <3>2 DEF SessionState
    <3> HIDE DEF s
    <3> QED BY <2>1, <3>1, <3>3 DEF r
  <2>2. CASE ~ (h # Bot /\ session[h].to = "rejected")
    BY <1>6, <2>2, NoSessionType DEF Commit, AfterCommit
  <2> QED BY <2>1, <2>2
<1>7. ASSUME Count(h)
      PROVE \E s \in SessionState :
                   /\ session' = [session EXCEPT ![h] = s]
                   /\ s.listed \subseteq session[h].listed \cup excluded
                   /\ \/ s.pc = "idle" /\ ~ MayExclude(session[h])
                      \/ s.pc = "exclude" /\ s.job = session[h].job /\ s.to = session[h].to
  <2> DEFINE r == session[h]
             spared == {j \in stored : status[j] \in {"applied", "rejected"}}
  <2>1. CASE MayExclude(r)
    <3> DEFINE s == [r EXCEPT !.pc = "exclude", !.listed = ListOf(r), !.spared = spared]
    <3>1. session' = [session EXCEPT ![h] = s]
      BY <1>7, <2>1 DEF Count, MayExclude
    <3>2. r \in SessionState /\ spared \in SUBSET Job
      BY <1>1
    <3>3. ListOf(r) \in SUBSET Company /\ ListOf(r) \subseteq r.listed \cup excluded
      BY <1>1, <3>2 DEF ListOf, SessionState
    <3> HIDE DEF r, spared
    <3>4. /\ s \in SessionState /\ s.pc = "exclude" /\ s.job = r.job /\ s.to = r.to
          /\ s.listed = ListOf(r)
      BY <3>2, <3>3 DEF SessionState
    <3> HIDE DEF s
    <3> QED BY <3>1, <3>3, <3>4 DEF r
  <2>2. CASE ~ MayExclude(r)
    <3>1. End(h)
      BY <1>7, <2>2 DEF Count, MayExclude
    <3> QED BY <2>2, <3>1, NoSessionType DEF End
  <2> QED BY <2>1, <2>2
<1> QED BY <1>2, <1>4, <1>5, <1>6, <1>7

\* Fewer rejected vacancies of a company are not counted as more.
LEMMA RejectionsAtMost ==
    ASSUME Applications, NEW c,
           {j \in Job : Employer[j] = c /\ status'[j] = "rejected"} \subseteq
             {j \in Job : Employer[j] = c /\ status[j] = "rejected"}
    PROVE  Rejections(c) \in Nat /\ Rejections(c)' \in Nat /\ Rejections(c)' <= Rejections(c)
<1> DEFINE R == {j \in Job : Employer[j] = c /\ status[j] = "rejected"}
           Q == {j \in Job : Employer[j] = c /\ status'[j] = "rejected"}
<1>1. IsFiniteSet(R)
  BY FS_Subset DEF Applications
<1>2. Rejections(c) = Cardinality(R) /\ Rejections(c)' = Cardinality(Q)
  BY DEF Rejections
<1>3. Q \subseteq R
  OBVIOUS
<1> HIDE DEF R, Q
<1>4. IsFiniteSet(Q) /\ Cardinality(Q) <= Cardinality(R) /\ Cardinality(Q) \in Nat
      /\ Cardinality(R) \in Nat
  BY <1>1, <1>3, FS_Subset, FS_CardinalityType
<1> QED BY <1>2, <1>4

\* A step that adds no rejection, takes no company that counts off the list
\* and keeps its witness, leaves nobody overdue without one.
LEMMA WitnessKept ==
    ASSUME KInv, webOnly' \subseteq webOnly,
           \A c \in webOnly' : c \in excluded => c \in excluded',
           \A c \in Company : Rejections(c) \in Nat /\ Rejections(c)' \in Nat
                              /\ Rejections(c)' <= Rejections(c),
           \A c \in webOnly', h \in Click : Overdue(c) /\ WillExclude(h, c) /\ c \notin excluded'
                                            => WillExclude(h, c)'
    PROVE  \A c \in Company : Overdue(c)' => \E h \in Click : WillExclude(h, c)'
<1> SUFFICES ASSUME NEW c \in Company, Overdue(c)'
             PROVE  \E h \in Click : WillExclude(h, c)'
  OBVIOUS
<1>1. c \in webOnly' /\ c \notin excluded' /\ Rejections(c)' >= Threshold
  BY DEF Overdue
<1>2. Rejections(c) >= Threshold
  BY <1>1, TrackerAssumption
<1>3. Overdue(c)
  BY <1>1, <1>2 DEF Overdue
<1>4. PICK h \in Click : WillExclude(h, c)
  BY <1>3 DEF KInv
<1> QED BY <1>1, <1>3, <1>4

\* A list that a handler loaded lacks no company that was excluded and stays
\* so: what it lacks, somebody else excluded or took off.
LEMMA ListedKept ==
    ASSUME ListedStays, webOnly' \subseteq webOnly,
           \A c \in webOnly' : c \in excluded => c \in excluded',
           \A g \in Handler : session'[g].listed \subseteq session[g].listed \cup excluded
    PROVE  ListedStays'
BY DEF ListedStays

\* A session takes a step that neither rejects nor excludes.
LEMMA QuietStep ==
    ASSUME KInv, NEW h \in Handler, NEW s \in SessionState,
           session' = [session EXCEPT ![h] = s],
           s.pc # "idle" => s.job \in Job /\ s.to \in Status,
           s.listed \subseteq session[h].listed \cup excluded,
           session[h].pc \in {"count", "exclude"} =>
              \/ Employer[session[h].job] \notin webOnly'
              \/ ~ Overdue(Employer[session[h].job])
              \/ ~ WillExclude(h, Employer[session[h].job])
              \/ s.pc = "exclude" /\ s.job = session[h].job,
           webOnly' \subseteq webOnly, inputs' \in 0 .. MaxInputs,
           UNCHANGED <<stored, status, history, profile, excluded, zeroed, raced>>
    PROVE  KInv'
<1>0. TrackerTypeOK /\ Applications /\ ListedStays /\ \A g \in Handler : Working(g)
  BY DEF KInv
<1>1. /\ session' \in [Handler -> SessionState] /\ \A g \in Handler : Working(g)'
      /\ session'[h] = s /\ \A g \in Handler \ {h} : session'[g] = session[g]
  BY <1>0, SessionUpdate
<1>2. TrackerTypeOK'
  BY <1>0, <1>1 DEF TrackerTypeOK
<1>3. Applications'
  BY <1>0 DEF Applications
<1>4. ListedStays'
  <2>1. \A g \in Handler : session'[g].listed \subseteq session[g].listed \cup excluded
    BY <1>1
  <2> QED BY <1>0, <2>1, ListedKept
<1>5. \A c \in Company : Rejections(c) \in Nat /\ Rejections(c)' \in Nat
                              /\ Rejections(c)' <= Rejections(c)
  BY <1>0, RejectionsAtMost
<1>6. ASSUME NEW c \in webOnly', NEW g \in Click, Overdue(c), WillExclude(g, c)
      PROVE  WillExclude(g, c)'
  <2>1. CASE g = h
    <3>1. session[h].pc \in {"count", "exclude"} /\ Employer[session[h].job] = c
      BY <1>6, <2>1 DEF WillExclude
    <3>2. s.pc = "exclude" /\ s.job = session[h].job
      BY <1>6, <2>1, <3>1
    <3> QED BY <1>1, <2>1, <3>1, <3>2 DEF WillExclude
  <2>2. CASE g # h
    <3>1. session'[g] = session[g]
      BY <1>1, <2>2 DEF Handler
    <3> QED BY <1>6, <3>1 DEF WillExclude, ListOf
  <2> QED BY <2>1, <2>2
<1>7. \A c \in Company : Overdue(c)' => \E g \in Click : WillExclude(g, c)'
  BY <1>5, <1>6, WitnessKept
<1> QED BY <1>1, <1>2, <1>3, <1>4, <1>7 DEF KInv

\* A handler begins.
LEMMA AuthenticateKInv ==
    ASSUME KInv, NEW h \in Handler, NEW j \in Job, NEW to \in Status, Authenticate(h, j, to)
    PROVE  KInv'
<1>1. TrackerTypeOK /\ \A g \in Handler : Working(g)
  BY DEF KInv
<1>2. PICK s \in SessionState : /\ s.pc = "read" /\ s.job = j /\ s.to = to /\ s.listed = excluded
                                /\ session' = [session EXCEPT ![h] = s]
  BY <1>1, SessionAfter
<1>3. session[h].pc = "idle" /\ inputs' \in 0 .. MaxInputs
  BY <1>1, TrackerAssumption DEF Authenticate, TrackerTypeOK
<1> QED BY <1>2, <1>3, QuietStep DEF Authenticate

\* It has loaded the application.
LEMMA ReadKInv ==
    ASSUME KInv, NEW h \in Handler, Read(h)
    PROVE  KInv'
<1>1. TrackerTypeOK /\ \A g \in Handler : Working(g)
  BY DEF KInv
<1>2. PICK s \in SessionState :
                   /\ s.pc \in {"idle", "commit"} /\ (s.pc # "idle" => s.job \in Job /\ s.to \in Status)
                   /\ s.listed \subseteq session[h].listed
                   /\ session' = [session EXCEPT ![h] = s]
  BY <1>1, SessionAfter
<1>3. session[h].pc = "read" /\ inputs' \in 0 .. MaxInputs
  BY <1>1 DEF Read, TrackerTypeOK
<1> QED BY <1>2, <1>3, QuietStep DEF Read

\* The bot has loaded the application of a saved vacancy.
LEMMA ReadForSavedKInv ==
    ASSUME KInv, ReadForSaved
    PROVE  KInv'
<1>1. TrackerTypeOK /\ (\A g \in Handler : Working(g)) /\ Bot \in Handler
  BY DEF KInv, Handler
<1>2. PICK s \in SessionState : /\ s.pc = "commit" /\ s.job \in Job /\ s.to \in Status
                                /\ s.listed \subseteq session[Bot].listed
                                /\ session' = [session EXCEPT ![Bot] = s]
  BY <1>1, SessionAfter
<1>3. session[Bot].pc = "read" /\ inputs' \in 0 .. MaxInputs
  BY <1>1 DEF ReadForSaved, TrackerTypeOK
<1> QED BY <1>1, <1>2, <1>3, QuietStep DEF ReadForSaved

\* A failed request that was to count takes its company out of account.
LEMMA EndKInv ==
    ASSUME KInv, NEW h \in Handler, Refuse(h) \/ Die(h)
    PROVE  KInv'
<1>1. TrackerTypeOK
  BY DEF KInv
<1>2. session' = [session EXCEPT ![h] = NoSession] /\ inputs' \in 0 .. MaxInputs
      /\ webOnly' \subseteq webOnly
      /\ UNCHANGED <<stored, status, history, profile, excluded, zeroed, raced>>
      /\ (session[h].pc \in {"count", "exclude"} => Employer[session[h].job] \notin webOnly')
  BY <1>1 DEF Refuse, Die, End, TrackerTypeOK
<1> QED BY <1>2, NoSessionType, QuietStep

\* Who counts too few, or finds the company listed, was no witness.
LEMMA CountKInv ==
    ASSUME KInv, NEW h \in Handler, Count(h)
    PROVE  KInv'
<1>1. TrackerTypeOK /\ (\A g \in Handler : Working(g)) /\ session[h].pc = "count"
  BY DEF KInv, Count
<1> DEFINE c == Employer[session[h].job]
<1>2. PICK s \in SessionState :
                   /\ session' = [session EXCEPT ![h] = s]
                   /\ s.listed \subseteq session[h].listed \cup excluded
                   /\ \/ s.pc = "idle" /\ ~ MayExclude(session[h])
                      \/ s.pc = "exclude" /\ s.job = session[h].job /\ s.to = session[h].to
  BY <1>1, SessionAfter
<1>3. session[h].job \in Job /\ session[h].to \in Status /\ inputs' \in 0 .. MaxInputs
      /\ webOnly' = IF profile THEN webOnly ELSE webOnly \ {c}
  BY <1>1 DEF Working, Count, TrackerTypeOK
<1>4. \/ c \notin webOnly' \/ ~ Overdue(c) \/ ~ WillExclude(h, c)
      \/ s.pc = "exclude" /\ s.job = session[h].job
  BY <1>1, <1>2, <1>3 DEF Overdue, WillExclude, MayExclude
<1>5. s.pc # "idle" => s.job \in Job /\ s.to \in Status
  BY <1>2, <1>3
<1>6. s.listed \subseteq session[h].listed \cup excluded
  BY <1>2
<1>7. UNCHANGED <<stored, status, history, profile, excluded, zeroed, raced>>
  BY DEF Count
<1> HIDE DEF c
<1>8. session[h].pc \in {"count", "exclude"} =>
              \/ c \notin webOnly' \/ ~ Overdue(c) \/ ~ WillExclude(h, c)
              \/ s.pc = "exclude" /\ s.job = session[h].job
  BY <1>4
<1>9. webOnly' \subseteq webOnly
  BY <1>3
<1> QED BY <1>2, <1>3, <1>5, <1>6, <1>7, <1>8, <1>9, QuietStep DEF c

\* A commit changes one application, whose vacancy is in the table.
LEMMA CommitChanges ==
    ASSUME KInv, NEW h \in Handler, Commit(h)
    PROVE  /\ session[h].job \in stored /\ session[h].to \in Status
           /\ status' \in [Job -> Status \cup {Absent}] /\ history' \in [Job -> Status \cup {Absent}]
           /\ status'[session[h].job] \in {status[session[h].job], session[h].to}
           /\ \A j \in Job \ {session[h].job} : status'[j] = status[j] /\ history'[j] = history[j]
<1> DEFINE r == session[h]
<1>1. r \in SessionState /\ r.job \in Job /\ r.to \in Status /\ r.pc = "commit"
      /\ status \in [Job -> Status \cup {Absent}] /\ history \in [Job -> Status \cup {Absent}]
  BY DEF KInv, TrackerTypeOK, Working, Commit
<1>2. r.job \in stored
  BY <1>1 DEF Commit, Accepted, KInv, Applications
<1>3. status' = [status EXCEPT ![r.job] = IF r.seen = r.to THEN @ ELSE r.to]
      /\ history' = [history EXCEPT ![r.job] = Logged(r)]
  BY DEF Commit
<1>4. Logged(r) \in Status \cup {Absent}
  BY <1>1 DEF Logged
<1> HIDE DEF r
<1>5. status' \in [Job -> Status \cup {Absent}] /\ history' \in [Job -> Status \cup {Absent}]
  BY <1>1, <1>3, <1>4
<1>6. status'[r.job] \in {status[r.job], r.to}
  BY <1>1, <1>3
<1>7. \A j \in Job \ {r.job} : status'[j] = status[j] /\ history'[j] = history[j]
  BY <1>1, <1>3
<1> QED BY <1>1, <1>2, <1>5, <1>6, <1>7 DEF r

\* A rejecting click goes on to count, before anybody else can have excluded
\* its company without its knowing; other commits reject nothing that counts.
LEMMA CommitKInv ==
    ASSUME KInv, NEW h \in Handler, Commit(h)
    PROVE  KInv'
<1>1. TrackerTypeOK /\ (\A g \in Handler : Working(g)) /\ session[h].pc = "commit"
      /\ Applications /\ ListedStays
  BY DEF KInv, Commit
<1>2. PICK s \in SessionState :
                   /\ session' = [session EXCEPT ![h] = s]
                   /\ s.listed \subseteq session[h].listed
                   /\ \/ s.pc = "idle" /\ ~ (h # Bot /\ session[h].to = "rejected")
                      \/ /\ s.pc = "count" /\ h # Bot /\ session[h].to = "rejected"
                         /\ s.job = session[h].job /\ s.to = session[h].to
  BY <1>1, SessionAfter
<1>3. PICK j, to : j = session[h].job /\ to = session[h].to
  OBVIOUS
<1>4. /\ j \in stored /\ j \in Job /\ to \in Status
      /\ status' \in [Job -> Status \cup {Absent}] /\ history' \in [Job -> Status \cup {Absent}]
      /\ status'[j] \in {status[j], to}
      /\ \A i \in Job \ {j} : status'[i] = status[i]
  BY <1>1, <1>3, CommitChanges DEF TrackerTypeOK
<1>5. /\ webOnly' = IF h = Bot /\ to = "rejected" THEN webOnly \ {Employer[j]} ELSE webOnly
      /\ raced' \subseteq raced \cup {j}
      /\ UNCHANGED <<stored, profile, excluded, zeroed, inputs>>
  BY <1>3 DEF Commit
<1>6. s.pc # "idle" => s.job \in Job /\ s.to \in Status
  BY <1>2, <1>3, <1>4
<1>7. /\ session' \in [Handler -> SessionState] /\ \A g \in Handler : Working(g)'
      /\ session'[h] = s /\ \A g \in Handler \ {h} : session'[g] = session[g]
  BY <1>1, <1>2, <1>6, SessionUpdate
<1>8. TrackerTypeOK'
  BY <1>1, <1>4, <1>5, <1>7 DEF TrackerTypeOK
<1>9. Applications'
  <2>1. {i \in Job : status'[i] = "rejected"} \in SUBSET ({i \in Job : status[i] = "rejected"} \cup {j})
    BY <1>4
  <2>2. IsFiniteSet({i \in Job : status[i] = "rejected"} \cup {j})
    BY <1>1, FS_AddElement DEF Applications
  <2>3. IsFiniteSet({i \in Job : status'[i] = "rejected"})
    BY <2>1, <2>2, FS_Subset
  <2>4. \A i \in Job : status'[i] # Absent => i \in stored'
    BY <1>1, <1>4, <1>5 DEF Applications
  <2> QED BY <2>3, <2>4 DEF Applications
<1>10. ListedStays'
  <2>1. \A g \in Handler : session'[g].listed \subseteq session[g].listed \cup excluded
    BY <1>2, <1>7
  <2> QED BY <1>1, <1>5, <2>1, ListedKept
<1>11. \A c \in webOnly', g \in Click : Overdue(c) /\ WillExclude(g, c) /\ c \notin excluded'
                                            => WillExclude(g, c)'
  <2> SUFFICES ASSUME NEW c \in webOnly', NEW g \in Click, WillExclude(g, c)
               PROVE  WillExclude(g, c)'
    OBVIOUS
  <2>1. g # h /\ g \in Handler
    BY <1>1 DEF WillExclude, Handler
  <2>2. session'[g] = session[g]
    BY <1>7, <2>1
  <2> QED BY <1>5, <2>2 DEF WillExclude, ListOf
<1>12. ASSUME NEW c \in Company, Overdue(c)' PROVE \E g \in Click : WillExclude(g, c)'
  <2>1. CASE h # Bot /\ to = "rejected" /\ Employer[j] = c
    <3>1. h \in Click /\ s.pc = "count" /\ s.job = j
      BY <1>2, <1>3, <2>1 DEF Handler
    <3>2. c \in webOnly /\ c \notin excluded
      BY <1>5, <1>12 DEF Overdue
    <3>3. c \notin session[h].listed
      BY <1>1, <3>2 DEF ListedStays
    <3>4. s.loaded => c \notin s.listed
      BY <1>2, <3>3
    <3> QED BY <1>4, <1>5, <1>7, <2>1, <3>1, <3>2, <3>4 DEF WillExclude, ListOf
  <2>2. CASE ~ (h # Bot /\ to = "rejected" /\ Employer[j] = c)
    <3>1. c \in webOnly' /\ c \in webOnly \cap Excludable /\ c \notin excluded /\ Rejections(c)' >= Threshold
      BY <1>5, <1>12 DEF Overdue
    <3>2. {i \in Job : Employer[i] = c /\ status'[i] = "rejected"} \subseteq
             {i \in Job : Employer[i] = c /\ status[i] = "rejected"}
      <4> SUFFICES ASSUME NEW i \in Job, Employer[i] = c, status'[i] = "rejected"
                   PROVE  status[i] = "rejected"
        OBVIOUS
      <4>1. CASE i # j
        BY <1>4, <4>1
      <4>2. CASE i = j
        <5>1. ~ (to = "rejected")
          BY <1>5, <2>2, <3>1, <4>2
        <5> QED BY <1>4, <4>2, <5>1
      <4> QED BY <4>1, <4>2
    <3>3. Rejections(c) \in Nat /\ Rejections(c)' \in Nat /\ Rejections(c)' <= Rejections(c)
      BY <1>1, <3>2, RejectionsAtMost
    <3>4. Overdue(c)
      BY <3>1, <3>3, TrackerAssumption DEF Overdue
    <3>5. PICK g \in Click : WillExclude(g, c)
      BY <3>4 DEF KInv
    <3> QED BY <1>5, <1>11, <3>1, <3>4, <3>5
  <2> QED BY <2>1, <2>2
<1> QED BY <1>7, <1>8, <1>9, <1>10, <1>12 DEF KInv

\* The list is written: whoever loaded an older one takes off what it lacks,
\* and that no longer counts.
LEMMA ListKInv ==
    ASSUME KInv, NEW h \in Handler, NEW s \in SessionState, s.pc = "idle", s.listed = {},
           session' = session \/ session' = [session EXCEPT ![h] = s],
           session' # session /\ session[h].pc \in {"count", "exclude"} =>
              Employer[session[h].job] \in excluded',
           excluded' \in SUBSET Company, webOnly' = webOnly \ (excluded \ excluded'),
           profile' \in BOOLEAN, zeroed' \in SUBSET stored, inputs' \in 0 .. MaxInputs,
           UNCHANGED <<stored, status, history, raced>>
    PROVE  KInv'
<1>1. TrackerTypeOK /\ (\A g \in Handler : Working(g)) /\ Applications /\ ListedStays
  BY DEF KInv
<1>2. /\ session' \in [Handler -> SessionState] /\ \A g \in Handler : Working(g)'
      /\ \A g \in Handler : session'[g] = session[g] \/ (g = h /\ session' # session /\ session'[g] = s)
  <2>1. CASE session' = session
    BY <1>1, <2>1 DEF TrackerTypeOK, Working
  <2>2. CASE session' = [session EXCEPT ![h] = s] /\ session' # session
    BY <1>1, <2>2, SessionUpdate
  <2> QED BY <2>1, <2>2
<1>3. TrackerTypeOK'
  BY <1>1, <1>2 DEF TrackerTypeOK
<1>4. Applications'
  BY <1>1 DEF Applications
<1>5. \A c \in webOnly' : c \in excluded => c \in excluded'
  OBVIOUS
<1>6. ListedStays'
  <2>1. \A g \in Handler : session'[g].listed \subseteq session[g].listed \cup excluded
    BY <1>2
  <2> QED BY <1>1, <1>5, <2>1, ListedKept
<1>7. \A c \in Company : Rejections(c) \in Nat /\ Rejections(c)' \in Nat
                              /\ Rejections(c)' <= Rejections(c)
  BY <1>1, RejectionsAtMost
<1>8. ASSUME NEW c \in webOnly', NEW g \in Click, WillExclude(g, c), c \notin excluded'
      PROVE  WillExclude(g, c)'
  <2>1. g \in Handler /\ session[g].pc \in {"count", "exclude"} /\ Employer[session[g].job] = c
    BY <1>8 DEF WillExclude, Handler
  <2>2. session'[g] = session[g]
    BY <1>2, <1>8, <2>1
  <2> QED BY <1>8, <2>2 DEF WillExclude, ListOf
<1>9. \A c \in Company : Overdue(c)' => \E g \in Click : WillExclude(g, c)'
  BY <1>5, <1>7, <1>8, WitnessKept
<1> QED BY <1>2, <1>3, <1>4, <1>6, <1>9 DEF KInv

\* The company whose threshold was reached goes on the list.
LEMMA ExcludeKInv ==
    ASSUME KInv, NEW h \in Handler, Exclude(h)
    PROVE  KInv'
<1> DEFINE r == session[h]
           c == Employer[session[h].job]
<1>1. TrackerTypeOK /\ Working(h) /\ r.pc = "exclude" /\ r \in SessionState
  BY DEF KInv, Exclude, TrackerTypeOK
<1>2. c \in Company /\ r.listed \in SUBSET Company
  BY <1>1, TrackerAssumption DEF Working, SessionState
<1>3. excluded' = r.listed \cup {c} /\ webOnly' = webOnly \ (excluded \ excluded')
      /\ zeroed' = zeroed \cup {j \in stored \ r.spared : Employer[j] = c}
      /\ session' = [session EXCEPT ![h] = NoSession]
      /\ UNCHANGED <<stored, status, history, profile, raced, inputs>>
  BY DEF Exclude, End
<1>4. profile' \in BOOLEAN /\ zeroed' \in SUBSET stored /\ inputs' \in 0 .. MaxInputs
  BY <1>1, <1>3 DEF TrackerTypeOK
<1>5. c \in excluded' /\ excluded' \in SUBSET Company
  BY <1>2, <1>3
<1> HIDE DEF r
<1> QED BY <1>3, <1>4, <1>5, NoSessionType, ListKInv

\* The profile page writes a list of its own.
LEMMA EditExcludedKInv ==
    ASSUME KInv, NEW firms \in SUBSET Company, EditExcluded(firms)
    PROVE  KInv'
<1>1. TrackerTypeOK /\ Bot \in Handler
  BY DEF KInv, Handler
<1>2. excluded' = firms /\ webOnly' = webOnly \ (excluded \ excluded') /\ session' = session
      /\ UNCHANGED <<stored, status, history, zeroed, raced>>
  BY DEF EditExcluded
<1>3. profile' \in BOOLEAN /\ zeroed' \in SUBSET stored /\ inputs' \in 0 .. MaxInputs
  BY <1>1, TrackerAssumption DEF EditExcluded, TrackerTypeOK
<1> QED BY <1>1, <1>2, <1>3, NoSessionType, ListKInv

\* A vacancy goes, with what a click was about to count.
LEMMA CleanUpKInv ==
    ASSUME KInv, NEW j \in Job, CleanUpJob(j)
    PROVE  KInv'
<1>1. TrackerTypeOK /\ (\A g \in Handler : Working(g)) /\ Applications /\ ListedStays
  BY DEF KInv
<1>2. /\ stored' = stored \ {j} /\ zeroed' = zeroed \ {j}
      /\ status' = [status EXCEPT ![j] = Absent] /\ history' = [history EXCEPT ![j] = Absent]
      /\ webOnly' = IF \E h \in Click : session[h].pc = "count" /\ session[h].job = j
                    THEN webOnly \ {Employer[j]} ELSE webOnly
      /\ UNCHANGED <<profile, excluded, session, raced, inputs>>
  BY DEF CleanUpJob
<1>3. TrackerTypeOK'
  BY <1>1, <1>2 DEF TrackerTypeOK
<1>4. \A i \in Job : status'[i] = IF i = j THEN Absent ELSE status[i]
  BY <1>1, <1>2 DEF TrackerTypeOK
<1>5. "rejected" # Absent
  BY TrackerAssumption
<1>6. Applications'
  <2>1. {i \in Job : status'[i] = "rejected"} \in SUBSET {i \in Job : status[i] = "rejected"}
    BY <1>4, <1>5
  <2>2. IsFiniteSet({i \in Job : status'[i] = "rejected"})
    BY <1>1, <2>1, FS_Subset DEF Applications
  <2>3. \A i \in Job : status'[i] # Absent => i \in stored'
    BY <1>1, <1>2, <1>4 DEF Applications
  <2> QED BY <2>2, <2>3 DEF Applications
<1>7. ListedStays'
  BY <1>1, <1>2, ListedKept
<1>8. \A c \in Company : Rejections(c) \in Nat /\ Rejections(c)' \in Nat
                              /\ Rejections(c)' <= Rejections(c)
  <2> SUFFICES ASSUME NEW c \in Company
               PROVE  {i \in Job : Employer[i] = c /\ status'[i] = "rejected"} \subseteq
                        {i \in Job : Employer[i] = c /\ status[i] = "rejected"}
    BY <1>1, RejectionsAtMost
  <2> QED BY <1>4, <1>5
<1>9. ASSUME NEW c \in webOnly', NEW g \in Click, WillExclude(g, c)
      PROVE  WillExclude(g, c)'
  BY <1>2, <1>9 DEF WillExclude, ListOf
<1>10. \A c \in Company : Overdue(c)' => \E g \in Click : WillExclude(g, c)'
  BY <1>2, <1>8, <1>9, WitnessKept
<1> QED BY <1>1, <1>2, <1>3, <1>6, <1>7, <1>10 DEF KInv, Working

\* The invariant holds at the start, when every session is idle and no company
\* has a rejection, and every step keeps it.
LEMMA KInvHolds == TrackerSpec => []KInv
<1>1. ASSUME TrackerInit
      PROVE  KInv
  <2>1. \A h \in Handler : session[h] = NoSession
    BY <1>1 DEF TrackerInit
  <2>2. TrackerTypeOK
    BY <1>1, NoSessionType, TrackerAssumption DEF TrackerInit, TrackerTypeOK
  <2>3. \A h \in Handler : Working(h)
    BY <2>1, NoSessionType DEF Working
  <2>4. \A j \in Job : status[j] = Absent
    BY <1>1 DEF TrackerInit
  <2>5. {j \in Job : status[j] = "rejected"} = {}
    BY <2>4, TrackerAssumption
  <2>6. Applications
    BY <2>4, <2>5, FS_EmptySet DEF Applications
  <2>7. ListedStays
    BY <2>1, NoSessionType DEF ListedStays
  <2>8. ASSUME NEW c \in Company
        PROVE  ~ Overdue(c)
    <3>1. {j \in Job : Employer[j] = c /\ status[j] = "rejected"} = {}
      BY <2>5
    <3>2. Rejections(c) = 0
      BY <3>1, FS_EmptySet DEF Rejections
    <3> QED BY <3>2, TrackerAssumption DEF Overdue
  <2> QED BY <2>2, <2>3, <2>6, <2>7, <2>8 DEF KInv
<1>2. ASSUME KInv, [TrackerNext]_trackerVars
      PROVE  KInv'
  <2>1. ASSUME NEW h \in Handler, NEW j \in Job, NEW to \in Status, Authenticate(h, j, to)
        PROVE  KInv'
    BY <1>2, <2>1, AuthenticateKInv
  <2>2. ASSUME NEW h \in Handler, Read(h)
        PROVE  KInv'
    BY <1>2, <2>2, ReadKInv
  <2>3. ASSUME NEW h \in Handler, Commit(h)
        PROVE  KInv'
    BY <1>2, <2>3, CommitKInv
  <2>4. ASSUME NEW h \in Handler, Refuse(h) \/ Die(h)
        PROVE  KInv'
    BY <1>2, <2>4, EndKInv
  <2>5. ASSUME NEW h \in Handler, Count(h)
        PROVE  KInv'
    BY <1>2, <2>5, CountKInv
  <2>6. ASSUME NEW h \in Handler, Exclude(h)
        PROVE  KInv'
    BY <1>2, <2>6, ExcludeKInv
  <2>7. CASE ReadForSaved
    BY <1>2, <2>7, ReadForSavedKInv
  <2>8. ASSUME NEW firms \in SUBSET Company, EditExcluded(firms)
        PROVE  KInv'
    BY <1>2, <2>8, EditExcludedKInv
  <2>9. ASSUME NEW j \in Job, CleanUpJob(j)
        PROVE  KInv'
    BY <1>2, <2>9, CleanUpKInv
  <2>10. CASE UNCHANGED trackerVars
    BY <1>2, <2>10 DEF KInv, trackerVars, TrackerTypeOK, Working, Applications, ListedStays, Overdue,
                       WillExclude, ListOf, Rejections
  <2> QED BY <1>2, <2>1, <2>2, <2>3, <2>4, <2>5, <2>6, <2>7, <2>8, <2>9, <2>10 DEF TrackerNext
<1> QED BY <1>1, <1>2, PTL DEF TrackerSpec

\* The type invariant.
THEOREM TrackerTypes == TrackerSpec => []TrackerTypeOK
<1>1. KInv => TrackerTypeOK
  BY DEF KInv
<1> QED BY <1>1, KInvHolds, PTL

\* Clicks that overlap leave no company with Threshold rejections unexcluded
\* (check_auto_exclude_company): a company that is overdue has a click that
\* will exclude it, so none is when no click is in flight.
THEOREM OverlappingRejectsExclude == TrackerSpec => []ThresholdExcludes
<1>1. ASSUME KInv
      PROVE  ThresholdExcludes
  <2> SUFFICES ASSUME \A h \in Click : session[h].pc = "idle",
                      NEW c \in webOnly \cap Excludable, Rejections(c) >= Threshold, c \notin excluded
               PROVE  FALSE
    BY DEF ThresholdExcludes
  <2>1. c \in Company /\ Overdue(c)
    BY <1>1 DEF KInv, TrackerTypeOK, Overdue
  <2>2. PICK h \in Click : WillExclude(h, c)
    BY <1>1, <2>1 DEF KInv
  <2> QED BY <2>2 DEF WillExclude
<1> QED BY <1>1, KInvHolds, PTL

\* A commit that finds the status its session loaded leaves a history that
\* names the new status (mark_applied, mark_rejected, update_status).
THEOREM HistoryFollowsStatus == TrackerSpec => []HistoryNamesStatus
<1>1. TrackerInit => HistoryNamesStatus
  BY DEF TrackerInit, HistoryNamesStatus
<1>2. ASSUME KInv, HistoryNamesStatus, NEW h \in Handler, Commit(h)
      PROVE  HistoryNamesStatus'
  <2> DEFINE r == session[h]
             Named(j, s, l) == (s \in {Absent, "saved"} /\ l = Absent) \/ l = s
  <2>1. \A j \in Job \ raced : Named(j, status[j], history[j])
    BY <1>2 DEF HistoryNamesStatus
  <2>2. r.job \in Job
    BY <1>2 DEF KInv, Working, Commit
  <2>3. \A j \in Job \ {r.job} : status'[j] = status[j] /\ history'[j] = history[j]
    BY <1>2, CommitChanges
  <2>4. raced' = (IF r.seen = status[r.job] THEN raced ELSE raced \cup {r.job})
    BY <1>2 DEF Commit
  <2>5. ASSUME r.job \notin raced'
        PROVE  Named(r.job, status'[r.job], history'[r.job])
    <3>1. r.seen = status[r.job] /\ r.job \notin raced
      BY <2>4, <2>5
    <3>2. status'[r.job] = r.to /\ history'[r.job] = Logged(r)
      BY <1>2, <2>2, <3>1 DEF Commit, KInv, TrackerTypeOK
    <3>3. CASE r.seen = Absent /\ r.to = "saved"
      <4>1. history[r.job] = Absent
        BY <2>1, <2>2, <3>1, <3>3, TrackerAssumption
      <4> QED BY <3>2, <3>3, <4>1 DEF Logged
    <3>4. CASE ~ (r.seen = Absent /\ r.to = "saved")
      BY <3>2, <3>4 DEF Logged
    <3> QED BY <3>3, <3>4
  <2>6. \A j \in Job \ raced' : Named(j, status'[j], history'[j])
    BY <2>1, <2>3, <2>4, <2>5
  <2> QED BY <2>6 DEF HistoryNamesStatus
<1>3. ASSUME KInv, HistoryNamesStatus, NEW k \in Job, CleanUpJob(k)
      PROVE  HistoryNamesStatus'
  BY <1>3 DEF KInv, TrackerTypeOK, CleanUpJob, HistoryNamesStatus
<1>4. ASSUME KInv, HistoryNamesStatus, [TrackerNext]_trackerVars
      PROVE  HistoryNamesStatus'
  <2>1. CASE UNCHANGED <<status, history, raced>>
    BY <1>4, <2>1 DEF HistoryNamesStatus
  <2> QED BY <1>2, <1>3, <1>4, <2>1 DEF TrackerNext, trackerVars, Authenticate, Read, Refuse, Count,
             Exclude, Die, ReadForSaved, EditExcluded
<1> QED BY <1>1, <1>4, KInvHolds, PTL DEF TrackerSpec

-----------------------------------------------------------------------------
(* The cards of the bot.  The cards sent of the newest list are positions  *)
(* in growing order, all within the pages that were counted as shown, and  *)
(* at most a page of them is missing for each page that failed half-way.   *)

Increasing(s) == \A i \in 1 .. Len(s) - 1 : s[i] < s[i + 1]

Missed(l, n, s) == {i \in DOMAIN l : i <= n} \ ToSet(s)

\* The positions s of the cards that were sent of list l when n of its entries
\* count as shown and f pages failed.
Sent(l, n, s, f) ==
    /\ s \in Seq(1 .. Len(l)) /\ Increasing(s)
    /\ \A i \in DOMAIN s : s[i] <= n
    /\ Cardinality(Missed(l, n, s)) <= PageSize * f

\* What the bot remembers of the newest list: a page more was counted by an
\* update, and a page that failed by a fault.
MemoryInv ==
    /\ list \in Seq(Posting) /\ page \in Nat /\ failed \in Nat
    /\ updates \in 0 .. MaxUpdates /\ faults \in 0 .. MaxFaults
    /\ page <= updates /\ failed <= faults
    /\ Sent(list, (page + 1) * PageSize, cards, failed)

\* The types of the rest.
RestInv ==
    /\ mark \in [Posting -> {"open", "hidden", "withdrawn"}] /\ graded \in SUBSET Posting
    /\ editing \in ProfileField \cup {NoField} /\ awaiting \in BOOLEAN
    /\ search \in [pc : {"none", "collect", "score"}, candidates : Seq(Posting)]

-----------------------------------------------------------------------------
\* Products of page numbers and page sizes.
LEMMA Times ==
    ASSUME NEW p \in Nat
    PROVE  /\ p * PageSize \in Nat /\ PageSize * p \in Nat
           /\ (p + 1) * PageSize = p * PageSize + PageSize
           /\ PageSize * (p + 1) = PageSize * p + PageSize
           /\ PageSize * 0 = 0 /\ 0 * PageSize = 0
BY BotAssumption

\* The first entries of a sequence.
LEMMA UpToIs ==
    ASSUME NEW S, NEW l \in Seq(S), NEW n \in Nat
    PROVE  /\ UpTo(l, n) \in Seq(S)
           /\ Len(UpTo(l, n)) = IF n <= Len(l) THEN n ELSE Len(l)
           /\ \A i \in 1 .. Len(UpTo(l, n)) : UpTo(l, n)[i] = l[i]
<1> DEFINE m == IF n <= Len(l) THEN n ELSE Len(l)
<1>1. m \in Nat /\ m <= Len(l)
  BY LenProperties
<1>2. SubSeq(l, 1, m) \in Seq(S) /\ Len(SubSeq(l, 1, m)) = m
      /\ \A i \in 1 .. m : SubSeq(l, 1, m)[i] = l[i]
  BY <1>1, SubSeqProperties
<1> QED BY <1>1, <1>2 DEF UpTo

\* A page holds the next positions of the list.
LEMMA PageIs ==
    ASSUME NEW S, NEW l \in Seq(S), NEW p \in Nat, p * PageSize < Len(l)
    PROVE  /\ Positions(l, p) \in Seq(1 .. Len(l))
           /\ Len(Positions(l, p)) = IF PageSize <= Len(l) - p * PageSize
                                     THEN PageSize ELSE Len(l) - p * PageSize
           /\ \A i \in 1 .. Len(Positions(l, p)) : Positions(l, p)[i] = p * PageSize + i
<1> DEFINE start == p * PageSize
           rest == [i \in 1 .. Len(l) - start |-> start + i]
<1>1. start \in Nat /\ start < Len(l) /\ Len(l) \in Nat /\ PageSize \in Nat
  BY Times, LenProperties, BotAssumption
<1>2. Positions(l, p) = UpTo(rest, PageSize)
  BY DEF Positions
<1> HIDE DEF start
<1>3. Len(l) - start \in Nat /\ \A i \in 1 .. Len(l) - start : start + i \in 1 .. Len(l)
  BY <1>1
<1>4. rest \in Seq(1 .. Len(l)) /\ Len(rest) = Len(l) - start
      /\ \A i \in 1 .. Len(rest) : rest[i] = start + i
  BY <1>3, IsASeq
<1> HIDE DEF rest
<1>5. /\ UpTo(rest, PageSize) \in Seq(1 .. Len(l))
      /\ Len(UpTo(rest, PageSize)) = IF PageSize <= Len(rest) THEN PageSize ELSE Len(rest)
      /\ \A i \in 1 .. Len(UpTo(rest, PageSize)) : UpTo(rest, PageSize)[i] = rest[i]
  BY <1>1, <1>4, UpToIs
<1>6. \A i \in 1 .. Len(UpTo(rest, PageSize)) : UpTo(rest, PageSize)[i] = start + i
  BY <1>1, <1>4, <1>5
<1> QED BY <1>2, <1>4, <1>5, <1>6 DEF start

\* The first k cards of page p follow the cards of the pages before it.
LEMMA CardsFollow ==
    ASSUME NEW S, NEW l \in Seq(S), NEW p \in Nat, p * PageSize < Len(l), NEW s,
           s \in Seq(1 .. Len(l)), Increasing(s), \A i \in DOMAIN s : s[i] <= p * PageSize,
           NEW k \in 0 .. Len(Positions(l, p))
    PROVE  LET t == s \o UpTo(Positions(l, p), k) IN
           /\ t \in Seq(1 .. Len(l)) /\ Increasing(t)
           /\ \A i \in DOMAIN t : t[i] <= (p + 1) * PageSize
           /\ ToSet(s) \subseteq ToSet(t)
           /\ \A i \in 1 .. k : p * PageSize + i \in ToSet(t)
<1> DEFINE start == p * PageSize
           P == Positions(l, p)
           u == UpTo(P, k)
           t == s \o u
<1>1. start \in Nat /\ start < Len(l) /\ Len(l) \in Nat /\ PageSize \in Nat /\ Len(s) \in Nat
      /\ (p + 1) * PageSize = start + PageSize
  BY Times, LenProperties, BotAssumption
<1>2. /\ P \in Seq(1 .. Len(l)) /\ Len(P) \in Nat
      /\ Len(P) <= PageSize /\ start + Len(P) <= Len(l)
      /\ \A i \in 1 .. Len(P) : P[i] = start + i
  <2>1. /\ P \in Seq(1 .. Len(l))
        /\ Len(P) = IF PageSize <= Len(l) - start THEN PageSize ELSE Len(l) - start
        /\ \A i \in 1 .. Len(P) : P[i] = start + i
    BY PageIs
  <2> HIDE DEF start, P
  <2> QED BY <1>1, <2>1
<1>3. k \in Nat /\ k <= Len(P) /\ u \in Seq(1 .. Len(l)) /\ Len(u) = k
      /\ \A i \in 1 .. k : u[i] = start + i
  <2>1. k \in Nat /\ k <= Len(P)
    BY <1>2
  <2>2. u \in Seq(1 .. Len(l)) /\ Len(u) = k /\ \A i \in 1 .. k : u[i] = P[i]
    BY <1>2, <2>1, UpToIs
  <2>3. \A i \in 1 .. k : i \in 1 .. Len(P)
    BY <1>2, <2>1
  <2> HIDE DEF u, P, start
  <2> QED BY <1>2, <2>1, <2>2, <2>3
<1> HIDE DEF start, P, u
<1>4. /\ t \in Seq(1 .. Len(l)) /\ Len(t) = Len(s) + k /\ DOMAIN s = 1 .. Len(s)
      /\ DOMAIN t = 1 .. Len(t)
      /\ \A i \in 1 .. Len(t) : t[i] = IF i <= Len(s) THEN s[i] ELSE u[i - Len(s)]
  <2>1. /\ t \in Seq(1 .. Len(l)) /\ Len(t) = Len(s) + k
        /\ \A i \in 1 .. Len(s) + k : t[i] = IF i <= Len(s) THEN s[i] ELSE u[i - Len(s)]
    BY <1>3, ConcatProperties
  <2> HIDE DEF t
  <2>2. DOMAIN s = 1 .. Len(s) /\ DOMAIN t = 1 .. Len(t)
    BY <2>1, LenProperties
  <2> QED BY <2>1, <2>2
<1> HIDE DEF t
<1>5. \A i \in 1 .. Len(s) : t[i] = s[i] /\ s[i] \in Int /\ s[i] <= start
  <2> SUFFICES ASSUME NEW i \in 1 .. Len(s)
               PROVE  t[i] = s[i] /\ s[i] \in Int /\ s[i] <= start
    OBVIOUS
  <2>1. s[i] <= start
    BY <1>4 DEF start
  <2>2. s[i] \in 1 .. Len(l)
    BY ElementOfSeq
  <2>3. i \in 1 .. Len(t) /\ i <= Len(s)
    BY <1>1, <1>3, <1>4
  <2> QED BY <1>1, <1>4, <2>1, <2>2, <2>3
<1>6. \A i \in 1 .. k : t[Len(s) + i] = start + i /\ Len(s) + i \in 1 .. Len(t)
  <2> SUFFICES ASSUME NEW i \in 1 .. k
               PROVE  t[Len(s) + i] = start + i /\ Len(s) + i \in 1 .. Len(t)
    OBVIOUS
  <2>1. Len(s) + i \in 1 .. Len(t) /\ ~ (Len(s) + i <= Len(s)) /\ (Len(s) + i) - Len(s) = i
    BY <1>1, <1>3, <1>4
  <2>2. t[Len(s) + i] = u[i]
    BY <1>4, <2>1
  <2> QED BY <1>3, <2>1, <2>2
<1>7. \A i \in 1 .. Len(t) : i \in 1 .. Len(s) \/ \E j \in 1 .. k : i = Len(s) + j
  <2> SUFFICES ASSUME NEW i \in 1 .. Len(t), i \notin 1 .. Len(s)
               PROVE  i - Len(s) \in 1 .. k /\ i = Len(s) + (i - Len(s))
    OBVIOUS
  <2> QED BY <1>1, <1>3, <1>4
<1>8. \A i \in 1 .. Len(t) : t[i] <= start + PageSize
  <2>1. \A i \in 1 .. Len(s) : t[i] <= start + PageSize
    BY <1>1, <1>5
  <2>2. \A i \in 1 .. k : t[Len(s) + i] <= start + PageSize
    <3> SUFFICES ASSUME NEW i \in 1 .. k
                 PROVE  t[Len(s) + i] <= start + PageSize
      OBVIOUS
    <3>1. t[Len(s) + i] = start + i /\ i <= PageSize /\ i \in Nat
      BY <1>1, <1>2, <1>3, <1>6
    <3> QED BY <1>1, <3>1
  <2> QED BY <1>7, <2>1, <2>2
<1>9. Increasing(t)
  <2> SUFFICES ASSUME NEW i \in 1 .. Len(t) - 1
               PROVE  t[i] < t[i + 1]
    BY DEF Increasing
  <2>1. i \in 1 .. Len(t) /\ i + 1 \in 1 .. Len(t) /\ i \in Nat
    BY <1>1, <1>3, <1>4
  <2>2. CASE i + 1 \in 1 .. Len(s)
    <3>1. i \in 1 .. Len(s) - 1 /\ i \in 1 .. Len(s)
      BY <1>1, <2>1, <2>2
    <3> QED BY <1>5, <2>2, <3>1 DEF Increasing
  <2>3. CASE i + 1 \notin 1 .. Len(s) /\ i \in 1 .. Len(s)
    <3>1. i = Len(s) /\ 1 \in 1 .. k
      <4>1. Len(t) = Len(s) + k
        BY <1>4
      <4> QED BY <1>1, <1>3, <4>1, <2>1, <2>3
    <3>2. t[i + 1] = start + 1
      BY <1>6, <3>1
    <3> QED BY <1>1, <1>5, <2>3, <3>2
  <2>4. CASE i \notin 1 .. Len(s)
    <3>1. PICK j \in 1 .. k : i = Len(s) + j
      BY <1>7, <2>1, <2>4
    <3>2. j + 1 \in 1 .. k /\ i + 1 = Len(s) + (j + 1)
      BY <1>1, <1>3, <1>4, <2>1, <3>1
    <3>3. t[i] = start + j /\ t[i + 1] = start + (j + 1)
      BY <1>6, <3>1, <3>2
    <3> QED BY <1>1, <1>3, <3>1, <3>3
  <2> QED BY <2>2, <2>3, <2>4
<1>10. ToSet(s) \subseteq ToSet(t)
  BY <1>1, <1>3, <1>4, <1>5 DEF ToSet
<1>11. \A i \in 1 .. k : start + i \in ToSet(t)
  BY <1>4, <1>6 DEF ToSet
<1> QED BY <1>1, <1>4, <1>8, <1>9, <1>10, <1>11 DEF start, t, u, P

\* Sending page p, to its end or up to some card, keeps what was sent of the
\* list in order, and misses a page more only when it failed.
LEMMA PageSent ==
    ASSUME NEW S, NEW l \in Seq(S), NEW p \in Nat, p * PageSize < Len(l), NEW f \in Nat,
           NEW s, Sent(l, p * PageSize, s, f)
    PROVE  /\ Sent(l, (p + 1) * PageSize, s \o Positions(l, p), f)
           /\ \A k \in 0 .. Len(Positions(l, p)) :
                Sent(l, (p + 1) * PageSize, s \o UpTo(Positions(l, p), k), f + 1)
<1> DEFINE start == p * PageSize
           P == Positions(l, p)
           before == Missed(l, start, s)
           fresh == (start + 1) .. (start + PageSize)
<1>1. start \in Nat /\ start < Len(l) /\ Len(l) \in Nat /\ PageSize \in Nat
      /\ (p + 1) * PageSize = start + PageSize /\ DOMAIN l = 1 .. Len(l)
      /\ PageSize * (f + 1) = PageSize * f + PageSize /\ PageSize * f \in Nat
  BY Times, LenProperties, BotAssumption
<1>2. P \in Seq(1 .. Len(l)) /\ Len(P) \in Nat
      /\ Len(P) = IF PageSize <= Len(l) - start THEN PageSize ELSE Len(l) - start
  BY PageIs, LenProperties
<1>3. UpTo(P, Len(P)) = P
  <2>1. UpTo(P, Len(P)) \in Seq(1 .. Len(l)) /\ Len(UpTo(P, Len(P))) = Len(P)
        /\ \A i \in 1 .. Len(P) : UpTo(P, Len(P))[i] = P[i]
    BY <1>2, UpToIs
  <2> HIDE DEF P
  <2> QED BY <1>2, <2>1, SeqEqual
<1>4. IsFiniteSet(before) /\ Cardinality(before) <= PageSize * f /\ Cardinality(before) \in Nat
  <2>1. IsFiniteSet(DOMAIN l)
    BY <1>1, FS_Interval
  <2>2. IsFiniteSet(before)
    BY <2>1, FS_Subset DEF Missed
  <2> QED BY <2>2, FS_CardinalityType DEF Sent
<1>5. IsFiniteSet(fresh) /\ Cardinality(fresh) = PageSize
  <2> HIDE DEF start
  <2>1. start + 1 \in Int /\ start + PageSize \in Int /\ ~ (start + 1 > start + PageSize)
        /\ (start + PageSize) - (start + 1) + 1 = PageSize
    BY <1>1, BotAssumption
  <2> QED BY <2>1, FS_Interval
<1>6. ASSUME NEW k \in 0 .. Len(P)
      PROVE  LET t == s \o UpTo(P, k) IN
             /\ t \in Seq(1 .. Len(l)) /\ Increasing(t)
             /\ \A i \in DOMAIN t : t[i] <= (p + 1) * PageSize
             /\ ToSet(s) \subseteq ToSet(t)
             /\ \A i \in 1 .. k : start + i \in ToSet(t)
  BY CardsFollow DEF Sent
<1>7. ASSUME NEW k \in 0 .. Len(P)
      PROVE  Sent(l, (p + 1) * PageSize, s \o UpTo(P, k), f + 1)
  <2> DEFINE t == s \o UpTo(P, k)
             missed == Missed(l, (p + 1) * PageSize, t)
  <2>1. ToSet(s) \subseteq ToSet(t)
    BY <1>6
  <2> HIDE DEF t, start
  <2>2. missed \subseteq before \cup fresh
    BY <1>1, <2>1 DEF Missed
  <2>3. /\ IsFiniteSet(before \cup fresh)
        /\ Cardinality(before \cup fresh) <= Cardinality(before) + PageSize
    <3>1. Cardinality(before \cap fresh) \in Nat
      BY <1>4, FS_Intersection, FS_CardinalityType
    <3>2. /\ IsFiniteSet(before \cup fresh)
          /\ Cardinality(before \cup fresh)
               = Cardinality(before) + Cardinality(fresh) - Cardinality(before \cap fresh)
      BY <1>4, <1>5, FS_Union
    <3> QED BY <1>1, <1>4, <1>5, <3>1, <3>2
  <2>4. Cardinality(missed) <= Cardinality(before \cup fresh)
        /\ Cardinality(missed) \in Nat /\ Cardinality(before \cup fresh) \in Nat
    BY <2>2, <2>3, FS_Subset, FS_CardinalityType
  <2>5. Cardinality(missed) <= PageSize * (f + 1)
    BY <1>1, <1>4, <2>3, <2>4
  <2> QED BY <1>6, <2>5 DEF Sent, t
<1>8. Sent(l, (p + 1) * PageSize, s \o P, f)
  <2> DEFINE t == s \o P
             missed == Missed(l, (p + 1) * PageSize, t)
  <2>1. /\ t \in Seq(1 .. Len(l)) /\ Increasing(t)
        /\ \A i \in DOMAIN t : t[i] <= (p + 1) * PageSize
        /\ ToSet(s) \subseteq ToSet(t)
        /\ \A i \in 1 .. Len(P) : start + i \in ToSet(t)
    <3>1. Len(P) \in 0 .. Len(P)
      BY <1>2
    <3> QED BY <1>3, <1>6, <3>1
  <2> HIDE DEF t, start, P
  <2>2. missed \subseteq before
    <3> SUFFICES ASSUME NEW i \in 1 .. Len(l), i <= (p + 1) * PageSize, i \notin ToSet(t)
                 PROVE  i <= start /\ i \notin ToSet(s)
      BY <1>1 DEF Missed
    <3>0. /\ i \in Nat /\ start \in Nat /\ PageSize \in Nat /\ Len(l) \in Nat /\ Len(P) \in Nat
          /\ 1 <= i /\ i <= Len(l) /\ i <= start + PageSize
          /\ Len(P) = IF PageSize <= Len(l) - start THEN PageSize ELSE Len(l) - start
      <4>1. i <= start + PageSize
        BY <1>1
      <4>2. i \in Nat /\ 1 <= i /\ i <= Len(l)
        BY <1>1
      <4> QED BY <1>1, <1>2, <4>1, <4>2
    <3>1. ~ (i - start \in 1 .. Len(P))
      <4>1. i - start \in 1 .. Len(P) => i = start + (i - start)
        BY <1>1
      <4> QED BY <2>1, <4>1
    <3>2. i <= start + Len(P)
      BY <3>0
    <3>3. i <= start
      BY <3>0, <3>1, <3>2
    <3>4. i \notin ToSet(s)
      BY <2>1
    <3> QED BY <3>3, <3>4
  <2>3. Cardinality(missed) <= Cardinality(before) /\ Cardinality(missed) \in Nat
    BY <1>4, <2>2, FS_Subset, FS_CardinalityType
  <2>4. Cardinality(missed) <= PageSize * f
    BY <1>1, <1>4, <2>3
  <2> QED BY <2>1, <2>4 DEF Sent, t
<1> QED BY <1>7, <1>8

\* Nothing of a new list is sent yet.
LEMMA NothingSent ==
    ASSUME NEW S, NEW l \in Seq(S)
    PROVE  Sent(l, 0, <<>>, 0) /\ (l = <<>> => \A n \in Nat : Sent(l, n, <<>>, 0))
<1> DEFINE e == <<>>
<1>1. e \in Seq(1 .. Len(l)) /\ Len(e) = 0 /\ DOMAIN e = {}
  BY EmptySeq, LenProperties
<1>2. DOMAIN l = 1 .. Len(l) /\ Len(l) \in Nat /\ (l = e => Len(l) = 0)
  BY LenProperties, EmptySeq
<1>3. Cardinality({}) = 0 /\ PageSize * 0 = 0
  BY FS_EmptySet, Times
<1> HIDE DEF e
<1>4. Missed(l, 0, e) = {} /\ (l = e => \A n \in Nat : Missed(l, n, e) = {})
  BY <1>2 DEF Missed
<1>5. ASSUME NEW n \in Nat, Missed(l, n, e) = {}
      PROVE  Sent(l, n, e, 0)
  BY <1>1, <1>3, <1>5 DEF Sent, Increasing
<1>6. Sent(l, 0, e, 0) /\ (l = e => \A n \in Nat : Sent(l, n, e, 0))
  BY <1>4, <1>5
<1> QED BY <1>6 DEF e

\* The inbox list holds vacancies.
LEMMA NewestFirstType ==
    ASSUME NEW S \in SUBSET Posting
    PROVE  NewestFirst(S) \in Seq(Posting)
<1> DEFINE ahead == [v \in S |-> {w \in S : w > v}]
<1>1. IsFiniteSet(S) /\ \A v \in S : v \in Int
  <2>1. IsFiniteSet(S)
    BY FS_Subset, BotAssumption
  <2>2. \A v \in S : v \in Int
    BY BotAssumption
  <2> QED BY <2>1, <2>2
<1>2. /\ ahead \in [S -> SUBSET S]
      /\ \A v \in S : v \notin ahead[v]
      /\ \A v, w \in S : v \in ahead[w] => ahead[v] \subseteq ahead[w]
      /\ \A v, w \in S : v # w => v \in ahead[w] \/ w \in ahead[v]
  <2>1. ahead \in [S -> SUBSET S] /\ \A v, w \in S : w \in ahead[v] <=> w > v
    OBVIOUS
  <2> HIDE DEF ahead
  <2>2. \A v, w \in S : v # w => v > w \/ w > v
    BY <1>1
  <2>3. \A v, w, x \in S : v > w /\ x > v => x > w
    BY <1>1
  <2> QED BY <1>1, <2>1, <2>2, <2>3
<1>3. NewestFirst(S) = Ranked(ahead)
  BY DEF NewestFirst
<1> HIDE DEF ahead
<1>4. Ranked(ahead) \in Seq(S)
  BY <1>1, <1>2, RankedAll
<1> QED BY <1>3, <1>4, SeqOfSubset

\* The search list holds vacancies.
LEMMA BestFirstType ==
    ASSUME NEW S \in SUBSET Posting, NEW place \in [S -> Int],
           \A v, w \in S : v # w => place[v] # place[w]
    PROVE  BestFirst(place) \in Seq(Posting)
<1> DEFINE ahead == [v \in S |-> {w \in S : \/ Grade[w] > Grade[v]
                                            \/ Grade[w] = Grade[v] /\ place[w] < place[v]}]
<1>1. IsFiniteSet(S) /\ S \subseteq Nat /\ \A v \in S : Grade[v] \in Int /\ place[v] \in Int
  <2>1. Grade \in [Posting -> 0 .. 100] /\ 0 .. 100 \subseteq Int
    BY BotAssumption
  <2> QED BY <2>1, FS_Subset, BotAssumption
<1>2. \A v, w \in S : v \in ahead[w] <=> \/ Grade[v] > Grade[w]
                                         \/ Grade[v] = Grade[w] /\ place[v] < place[w]
  OBVIOUS
<1>3. ahead \in [S -> SUBSET S] /\ DOMAIN place = S
  OBVIOUS
<1>4. BestFirst(place) = Ranked(ahead)
  BY <1>3 DEF BestFirst
<1> HIDE DEF ahead
<1>5. /\ \A v \in S : v \notin ahead[v]
      /\ \A v, w \in S : v \in ahead[w] => ahead[v] \subseteq ahead[w]
      /\ \A v, w \in S : v # w => v \in ahead[w] \/ w \in ahead[v]
  <2>1. \A v \in S : v \notin ahead[v]
    BY <1>1, <1>2
  <2>2. \A v, w, x \in S : v \in ahead[w] /\ x \in ahead[v] => x \in ahead[w]
    BY <1>1, <1>2
  <2>3. ASSUME NEW v \in S, NEW w \in S, v # w
        PROVE  v \in ahead[w] \/ w \in ahead[v]
    <3>1. /\ Grade[v] \in Int /\ Grade[w] \in Int /\ place[v] \in Int /\ place[w] \in Int
          /\ place[v] # place[w]
      BY <1>1, <2>3
    <3> QED BY <1>2, <3>1
  <2> QED BY <1>3, <2>1, <2>2, <2>3
<1>6. Ranked(ahead) \in Seq(S)
  BY <1>1, <1>3, <1>5, RankedAll
<1> QED BY <1>4, <1>6, SeqOfSubset

\* A new list, or the old one when there is nothing to show.
LEMMA ShowListKeeps ==
    ASSUME MemoryInv, NEW l \in Seq(Posting), ShowList(l),
           updates' \in 0 .. MaxUpdates, updates <= updates'
    PROVE  MemoryInv'
<1>1. CASE l = <<>>
  <2>1. UNCHANGED <<list, page, cards, failed, faults>>
    BY <1>1 DEF ShowList, memory
  <2> QED BY <2>1, BotAssumption DEF MemoryInv
<1>2. CASE l # <<>>
  <2>1. list' = l /\ page' = 0 /\ SendPage(l, 0, <<>>, 0)
    BY <1>2 DEF ShowList, FirstPage
  <2>2. Len(l) > 0 /\ Len(l) \in Nat /\ 0 * PageSize = 0
    BY <1>2, EmptySeq, LenProperties, Times
  <2>3. Sent(l, 0 * PageSize, <<>>, 0)
    BY <2>2, NothingSent
  <2>4. /\ Sent(l, (0 + 1) * PageSize, <<>> \o Positions(l, 0), 0)
        /\ \A k \in 0 .. Len(Positions(l, 0)) :
              Sent(l, (0 + 1) * PageSize, <<>> \o UpTo(Positions(l, 0), k), 0 + 1)
    BY <2>2, <2>3, PageSent
  <2>5. faults \in Nat /\ faults <= MaxFaults /\ MaxFaults \in Nat
    BY BotAssumption DEF MemoryInv
  <2>6. /\ Sent(l, (0 + 1) * PageSize, cards', failed')
        /\ faults' \in 0 .. MaxFaults /\ failed' \in Nat /\ failed' <= faults'
    BY <2>1, <2>4, <2>5 DEF SendPage
  <2> QED BY <2>1, <2>6, BotAssumption DEF MemoryInv
<1> QED BY <1>1, <1>2

\* "Show more" counts the next page and sends it, if there is one.
LEMMA ShowMoreKeeps ==
    ASSUME MemoryInv, ShowMore
    PROVE  MemoryInv'
<1>1. updates' = updates + 1 /\ updates' \in 0 .. MaxUpdates /\ page \in Nat /\ updates \in Nat
      /\ page <= updates
  BY BotAssumption DEF ShowMore, TakeUpdate, MemoryInv
<1>2. CASE list = <<>>
  <2>1. UNCHANGED <<list, page, cards, failed, faults>>
    BY <1>2 DEF ShowMore, memory
  <2> QED BY <1>1, <2>1 DEF MemoryInv
<1>3. CASE list # <<>> /\ (page + 1) * PageSize >= Len(list)
  <2>1. page' = page + 1 /\ UNCHANGED <<list, cards, failed, faults>>
    BY <1>3 DEF ShowMore
  <2>2. DOMAIN list = 1 .. Len(list) /\ Len(list) \in Nat
    BY LenProperties DEF MemoryInv
  <2> DEFINE m == (page + 1) * PageSize
             n == (page' + 1) * PageSize
  <2>3. m \in Nat /\ n = m + PageSize /\ n \in Nat /\ PageSize \in Nat
    BY <1>1, <2>1, Times, BotAssumption
  <2>4. m >= Len(list) /\ Sent(list, m, cards, failed)
    BY <1>3 DEF MemoryInv
  <2> HIDE DEF m, n
  <2>5. Missed(list, n, cards) = Missed(list, m, cards)
    BY <2>2, <2>3, <2>4 DEF Missed
  <2>6. \A i \in DOMAIN cards : cards[i] <= n
    <3> SUFFICES ASSUME NEW i \in DOMAIN cards
                 PROVE  cards[i] <= n
      OBVIOUS
    <3>1. cards[i] \in 1 .. Len(list) /\ cards[i] <= m
      BY <2>4, ElementOfSeq, LenProperties DEF Sent
    <3> QED BY <2>2, <2>3, <3>1
  <2>7. Sent(list, n, cards, failed)
    BY <2>4, <2>5, <2>6 DEF Sent
  <2> QED BY <1>1, <2>1, <2>7 DEF MemoryInv, n
<1>4. CASE list # <<>> /\ ~ ((page + 1) * PageSize >= Len(list))
  <2>1. page' = page + 1 /\ list' = list /\ SendPage(list, page + 1, cards, failed)
    BY <1>4 DEF ShowMore
  <2> DEFINE p == page + 1
  <2>2. p \in Nat /\ p * PageSize < Len(list)
    <3>1. p * PageSize \in Nat /\ Len(list) \in Nat
      BY <1>1, Times, LenProperties DEF MemoryInv
    <3> QED BY <1>1, <1>4, <3>1
  <2>3. Sent(list, p * PageSize, cards, failed) /\ failed \in Nat /\ failed <= faults
        /\ faults \in Nat /\ faults <= MaxFaults /\ MaxFaults \in Nat
    BY BotAssumption DEF MemoryInv
  <2>4. p = page'
    BY <2>1
  <2> HIDE DEF p
  <2>5. /\ Sent(list, (p + 1) * PageSize, cards \o Positions(list, p), failed)
        /\ \A k \in 0 .. Len(Positions(list, p)) :
              Sent(list, (p + 1) * PageSize, cards \o UpTo(Positions(list, p), k), failed + 1)
    BY <2>2, <2>3, PageSent DEF MemoryInv
  <2>6. SendPage(list, p, cards, failed)
    BY <2>1, <2>4
  <2>7. /\ Sent(list, (p + 1) * PageSize, cards', failed')
        /\ faults' \in 0 .. MaxFaults /\ failed' \in Nat /\ failed' <= faults'
    <3>1. CASE /\ cards' = cards \o Positions(list, p)
               /\ failed' = failed /\ UNCHANGED faults
      BY <2>3, <2>5, <3>1
    <3>2. ASSUME NEW k \in 0 .. Len(Positions(list, p)),
                 cards' = cards \o UpTo(Positions(list, p), k),
                 failed' = failed + 1, faults < MaxFaults, faults' = faults + 1
          PROVE  /\ Sent(list, (p + 1) * PageSize, cards', failed')
                 /\ faults' \in 0 .. MaxFaults /\ failed' \in Nat /\ failed' <= faults'
      BY <2>3, <2>5, <3>2
    <3> QED BY <2>6, <3>1, <3>2 DEF SendPage
  <2> QED BY <1>1, <2>1, <2>4, <2>7 DEF MemoryInv
<1> QED BY <1>2, <1>3, <1>4

\* The candidates of a search, and what is listed of them, are vacancies.
LEMMA CandidatesType ==
    ASSUME NEW found \in SUBSET Posting
    PROVE  /\ Candidates(found) \in Seq(Posting)
           /\ UpTo(Candidates(found), MaxScored) \in Seq(Posting)
<1> DEFINE shown == {v \in found : mark[v] # "hidden"}
           group(S, f) == NewestFirst({v \in shown \cap S : Fit[v] = f})
           new == Posting \ graded
<1>1. \A S, f : group(S, f) \in Seq(Posting)
  BY NewestFirstType
<1>2. Candidates(found) = group(new, "high") \o group(new, "medium")
                            \o group(graded, "high") \o group(graded, "medium")
  BY DEF Candidates
<1> HIDE DEF group
<1>3. Candidates(found) \in Seq(Posting)
  BY <1>1, <1>2, ConcatProperties
<1> QED BY <1>3, UpToIs, BotAssumption

\* What a search shows is a list of vacancies.
LEMMA ListedType ==
    ASSUME RestInv, NEW scored \in SUBSET Posting, scored \subseteq ToSet(search.candidates)
    PROVE  Listed(scored) \in Seq(Posting)
<1> DEFINE c == search.candidates
           at(v) == CHOOSE i \in DOMAIN c : c[i] = v
           S == {w \in scored : Grade[w] >= 40}
           place == [v \in S |-> at(v)]
<1>1. c \in Seq(Posting) /\ DOMAIN c \subseteq Int
  <2>1. c \in Seq(Posting)
    BY DEF RestInv
  <2> HIDE DEF c
  <2> QED BY <2>1, LenProperties
<1>2. \A v \in S : at(v) \in DOMAIN c /\ c[at(v)] = v
  BY DEF ToSet
<1>3. place \in [S -> Int] /\ (\A v, w \in S : v # w => place[v] # place[w])
  <2> HIDE DEF at, c, S
  <2> QED BY <1>1, <1>2
<1>4. Listed(scored) = UpTo(BestFirst(place), MaxListed)
  BY DEF Listed
<1>5. S \in SUBSET Posting
  OBVIOUS
<1> HIDE DEF place, S
<1>6. BestFirst(place) \in Seq(Posting)
  BY <1>3, <1>5, BestFirstType
<1> QED BY <1>4, <1>6, UpToIs, BotAssumption

\* What the inbox shows is a list of vacancies.
LEMMA InboxType ==
    ASSUME RestInv, NEW least
    PROVE  BestFirst([v \in {w \in graded : Grade[w] >= least /\ mark[w] = "open"} |-> -v])
             \in Seq(Posting)
<1> DEFINE S == {w \in graded : Grade[w] >= least /\ mark[w] = "open"}
           place == [v \in S |-> -v]
<1>0. S \in SUBSET Posting
  BY DEF RestInv
<1>1. \A v \in S : v \in Int
  <2>1. \A v \in Posting : v \in Int
    BY BotAssumption
  <2> QED BY <1>0, <2>1
<1> HIDE DEF S
<1>2. place \in [S -> Int] /\ (\A v, w \in S : v # w => place[v] # place[w])
  BY <1>1
<1> HIDE DEF place
<1>3. BestFirst(place) \in Seq(Posting)
  BY <1>0, <1>2, BestFirstType
<1> QED BY <1>3 DEF place, S

\* A step that leaves the list alone.
LEMMA ListStays ==
    ASSUME MemoryInv, UNCHANGED <<list, page, cards, failed, faults>>,
           updates' \in 0 .. MaxUpdates, updates <= updates'
    PROVE  MemoryInv'
BY BotAssumption DEF MemoryInv

\* The counter of updates stays within its bound.
LEMMA UpdateTaken ==
    ASSUME MemoryInv, updates < MaxUpdates, updates' = updates + 1
    PROVE  updates' \in 0 .. MaxUpdates /\ updates <= updates'
BY BotAssumption DEF MemoryInv

\* Every step of the bot keeps what it remembers in order.
LEMMA BotStep ==
    ASSUME MemoryInv, RestInv, [BotNext]_botVars
    PROVE  MemoryInv' /\ RestInv'
<1>0. NoSearch \in [pc : {"none", "collect", "score"}, candidates : Seq(Posting)]
      /\ [NoSearch EXCEPT !.pc = "collect"]
            \in [pc : {"none", "collect", "score"}, candidates : Seq(Posting)]
  <2>1. <<>> \in Seq(Posting)
    BY EmptySeq
  <2> QED BY <2>1 DEF NoSearch
<1>1. updates \in 0 .. MaxUpdates /\ updates <= updates
  BY BotAssumption DEF MemoryInv
<1>2. CASE ShowMore
  <2>1. RestInv'
    BY <1>2 DEF ShowMore, RestInv, prompts
  <2> QED BY <1>2, <2>1, ShowMoreKeeps
<1>3. CASE SearchPreset
  <2>1. RestInv'
    BY <1>0, <1>3 DEF SearchPreset, BeginSearch, RestInv, prompts
  <2>2. MemoryInv'
    BY <1>3, UpdateTaken, ListStays DEF SearchPreset, TakeUpdate, memory
  <2> QED BY <2>1, <2>2
<1>4. CASE OpenCustomSearch
  <2>1. RestInv'
    BY <1>4 DEF OpenCustomSearch, RestInv
  <2>2. MemoryInv'
    BY <1>4, UpdateTaken, ListStays DEF OpenCustomSearch, TakeUpdate, memory
  <2> QED BY <2>1, <2>2
<1>5. CASE TypeText
  <2>1. RestInv'
    BY <1>0, <1>5 DEF TypeText, CloseField, TextSearch, BeginSearch, RestInv, prompts
  <2>2. MemoryInv'
    BY <1>5, UpdateTaken, ListStays DEF TypeText, TakeUpdate, memory
  <2> QED BY <2>1, <2>2
<1>6. CASE RestartBot
  <2>1. RestInv'
    BY <1>0, <1>6 DEF RestartBot, RestInv
  <2>2. MemoryInv'
    <3>1. <<>> \in Seq(Posting) /\ (0 + 1) * PageSize \in Nat
      BY EmptySeq, Times
    <3>2. Sent(<<>>, (0 + 1) * PageSize, <<>>, 0)
      BY <3>1, NothingSent
    <3>3. list' = <<>> /\ page' = 0 /\ cards' = <<>> /\ failed' = 0 /\ updates' = updates
          /\ faults' \in 0 .. MaxFaults
      BY <1>6, BotAssumption DEF RestartBot, MemoryInv
    <3>4. Sent(list', (page' + 1) * PageSize, cards', failed')
      BY <3>2, <3>3
    <3> QED BY <1>1, <3>1, <3>3, <3>4 DEF MemoryInv
  <2> QED BY <2>1, <2>2
<1>7. ASSUME NEW least \in {0, 40, 70}, Inbox(least)
      PROVE  MemoryInv' /\ RestInv'
  <2>1. RestInv'
    BY <1>7 DEF Inbox, RestInv, prompts
  <2>2. MemoryInv'
    BY <1>7, InboxType, UpdateTaken, ShowListKeeps DEF Inbox, TakeUpdate
  <2> QED BY <2>1, <2>2
<1>8. ASSUME NEW S \in SUBSET Posting, Collect(S)
      PROVE  MemoryInv' /\ RestInv'
  <2>1. RestInv'
    BY <1>0, <1>8, CandidatesType DEF Collect, RestInv, prompts
  <2>2. MemoryInv'
    BY <1>1, <1>8, ListStays DEF Collect, memory
  <2> QED BY <2>1, <2>2
<1>9. ASSUME NEW S \in SUBSET Posting, ScoreAndShow(S)
      PROVE  MemoryInv' /\ RestInv'
  <2>1. RestInv'
    BY <1>0, <1>9 DEF ScoreAndShow, RestInv, prompts
  <2>2. MemoryInv'
    BY <1>1, <1>9, ListedType, ShowListKeeps DEF ScoreAndShow
  <2> QED BY <2>1, <2>2
<1>10. ASSUME NEW f \in ProfileField, OpenProfileField(f)
       PROVE  MemoryInv' /\ RestInv'
  <2>1. RestInv'
    BY <1>10 DEF OpenProfileField, RestInv
  <2>2. MemoryInv'
    BY <1>10, UpdateTaken, ListStays DEF OpenProfileField, TakeUpdate, memory
  <2> QED BY <2>1, <2>2
<1>11. ASSUME NEW v \in Posting, NEW m \in {"open", "hidden", "withdrawn"}, MarkPosting(v, m)
       PROVE  MemoryInv' /\ RestInv'
  <2>1. RestInv'
    BY <1>11 DEF MarkPosting, RestInv, prompts
  <2>2. MemoryInv'
    BY <1>11, UpdateTaken, ListStays DEF MarkPosting, memory
  <2> QED BY <2>1, <2>2
<1>12. CASE UNCHANGED botVars
  <2>1. RestInv'
    BY <1>12 DEF botVars, RestInv
  <2>2. MemoryInv'
    BY <1>1, <1>12, ListStays DEF botVars
  <2> QED BY <2>1, <2>2
<1> QED BY <1>2, <1>3, <1>4, <1>5, <1>6, <1>7, <1>8, <1>9, <1>10, <1>11, <1>12 DEF BotNext

\* What is known of the cards in every reachable state.
LEMMA CardsHold == BotSpec => [](MemoryInv /\ RestInv)
<1>1. BotInit => MemoryInv /\ RestInv
  <2> SUFFICES ASSUME BotInit
               PROVE  MemoryInv /\ RestInv
    OBVIOUS
  <2>1. <<>> \in Seq(Posting) /\ (0 + 1) * PageSize \in Nat
    BY EmptySeq, Times
  <2>2. Sent(<<>>, (0 + 1) * PageSize, <<>>, 0)
    BY <2>1, NothingSent
  <2>3. MemoryInv
    BY <2>1, <2>2, BotAssumption DEF BotInit, MemoryInv
  <2>4. RestInv
    BY <2>1 DEF BotInit, RestInv, NoSearch
  <2> QED BY <2>3, <2>4
<1>2. (MemoryInv /\ RestInv) /\ [BotNext]_botVars => (MemoryInv /\ RestInv)'
  BY BotStep
<1> QED BY <1>1, <1>2, PTL DEF BotSpec

\* The type invariant: whatever is searched, the list holds vacancies only and
\* the cards are positions of the list.
THEOREM BotTypes == BotSpec => []BotTypeOK
<1>1. MemoryInv /\ RestInv => BotTypeOK
  BY BotAssumption DEF MemoryInv, RestInv, BotTypeOK, Sent
<1> QED BY <1>1, CardsHold, PTL

\* However searches, inboxes, "show more", failed messages and restarts follow
\* one another, no card is sent twice or before a better one, and the user
\* misses at most one page for each that failed (show_more_handler).
THEOREM NoCardTwice == BotSpec => []EachCardOnce
<1>1. MemoryInv => EachCardOnce
  BY DEF MemoryInv, EachCardOnce, Sent, Increasing, Missed
<1> QED BY <1>1, CardsHold, PTL
=============================================================================
