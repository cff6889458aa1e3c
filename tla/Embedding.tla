----------------------------- MODULE Embedding -----------------------------
(***************************************************************************)
(* The semantic index (embedding_service): passes fill in the vectors of   *)
(* vacancies, newest first, and of profiles, while vacancies arrive and    *)
(* profiles are edited.  The provider answers after an await; every other  *)
(* step is a transaction.                                                  *)
(***************************************************************************)
EXTENDS Integers, FiniteSets

CONSTANTS
    Vacancy,         \* 1 .. n: vacancies worth indexing, a newer one is greater
    Profile,
    Content,         \* what a profile may say
    None,
    JobsPerRun,      \* embedding_jobs_per_run: 70 in the code
    ProfilesPerRun,  \* embedding_profiles_per_run: 20 in the code
    ProfileLimit,    \* profiles that a pass loads: 200 in the code
    BurstThreshold,  \* embedding_burst_queue_threshold: 100 in the code
    MaxProfileEdits, \* bound on edits and on users who are deactivated
    MaxErrors        \* bound on failures of provider, database or process

ASSUME EmbeddingAssumption ==
    /\ Vacancy \subseteq Nat /\ None \notin Content
    /\ JobsPerRun \in Nat \ {0} /\ ProfilesPerRun \in Nat \ {0} /\ BurstThreshold \in Nat
    /\ ProfileLimit \in Nat \ {0}
    /\ MaxProfileEdits \in Nat /\ MaxErrors \in Nat

VARIABLES
    arrived,   \* vacancies in the table
    indexed,   \* those with a vector
    active,    \* profiles of active users
    later,     \* pairs <<p, q>>: p was saved later than q (updated_at)
    content,   \* content[p]: what the profile says now
    vector,    \* vector[p]: the content that its embedding was made of
    hash,      \* hash[p]: the content whose hash is stored in embedding_profile_hash
    pass,      \* the pass that holds _embed_lock
    ranking,   \* a scoring task that orders its candidates by similarity
    edits, errors

users     == <<active, later>>
embedVars == <<users, arrived, indexed, content, vector, hash, pass, ranking, edits, errors>>

\* jobs, profiles: still to do; loaded, order: profiles as the pass loaded them,
\* and later; at: the profile the provider works on; fresh: its hash; done:
\* profiles written.
PassState ==
    [pc : {"idle", "jobs", "load", "profiles", "embed"}, jobs : SUBSET Vacancy, burst : BOOLEAN,
     profiles : SUBSET Profile, loaded : [Profile -> Content \cup {None}],
     order : SUBSET (Profile \X Profile), at : Profile \cup {None},
     fresh : Content \cup {None}, done : 0 .. ProfilesPerRun]

NoPass == [pc |-> "idle", jobs |-> {}, burst |-> FALSE, profiles |-> {},
           loaded |-> [p \in Profile |-> None], order |-> {}, at |-> None, fresh |-> None, done |-> 0]

\* of: whose candidates; mine: the profile as the task loaded it; touched: the
\* row was written since the task compared the hash.
RankingState ==
    [pc : {"none", "loaded", "fresh"}, of : Profile \cup {None}, mine : Content \cup {None},
     touched : BOOLEAN]

NoRanking == [pc |-> "none", of |-> None, mine |-> None, touched |-> FALSE]

\* The rows are saved one after the other.
Orders(S) ==
    {R \in SUBSET (S \X S) :
        /\ \A p, q \in S : (<<p, q>> \in R) <=> (p # q /\ <<q, p>> \notin R)
        /\ \A p, q, r \in S : <<p, q>> \in R /\ <<q, r>> \in R => <<p, r>> \in R}

EmbedInit ==
    /\ arrived = {} /\ indexed = {}
    /\ active = Profile /\ later \in Orders(Profile)
    /\ content \in [Profile -> Content]
    /\ vector = [p \in Profile |-> None] /\ hash = [p \in Profile |-> None]
    /\ pass = NoPass /\ ranking = NoRanking
    /\ edits = 0 /\ errors = 0

Missing == arrived \ indexed

\* Mutant of Queue: indexed vacancies take up places.
QueueOfAll == {v \in arrived : Cardinality({w \in arrived : w > v}) < JobsPerRun}

\* The newest vacancies without a vector.
Queue == {v \in Missing : Cardinality({w \in Missing : w > v}) < JobsPerRun}

\* Every two hours and after startup a pass does both; the burst pass of every
\* 30 minutes does vacancies only, and only if there are many.  A pass that
\* finds _embed_lock taken is skipped.
StartPass(burst) ==
    /\ pass.pc = "idle"
    /\ burst => Cardinality(Missing) > BurstThreshold
    /\ pass' = [NoPass EXCEPT !.pc = "jobs", !.burst = burst, !.jobs = Queue]
    /\ UNCHANGED <<users, arrived, indexed, content, vector, hash, ranking, edits, errors>>

NextJob(v) == pass.pc = "jobs" /\ v \in pass.jobs /\ \A w \in pass.jobs : w <= v

\* The vector of a vacancy is stored; the cleanup may have deleted the row,
\* which changes nothing here.
IndexJob(v) ==
    /\ NextJob(v)
    /\ indexed' = indexed \cup {v}
    /\ pass' = [pass EXCEPT !.jobs = @ \ {v}]
    /\ UNCHANGED <<users, arrived, content, vector, hash, ranking, edits, errors>>

\* The provider fails: the pass goes on with the next vacancy.
JobFails(v) ==
    /\ NextJob(v) /\ errors < MaxErrors
    /\ pass' = [pass EXCEPT !.jobs = @ \ {v}]
    /\ errors' = errors + 1
    /\ UNCHANGED <<users, arrived, indexed, content, vector, hash, ranking, edits>>

FinishJobs ==
    /\ pass.pc = "jobs" /\ pass.jobs = {}
    /\ pass' = IF pass.burst THEN NoPass ELSE [pass EXCEPT !.pc = "load"]
    /\ UNCHANGED <<users, arrived, indexed, content, vector, hash, ranking, edits, errors>>

\* The profiles of active users that were saved last.
Recent == {p \in active : Cardinality({q \in active : <<q, p>> \in later}) < ProfileLimit}

\* _index_profiles loads these and ends the transaction.
LoadProfiles ==
    /\ pass.pc = "load"
    /\ pass' = [pass EXCEPT !.pc = "profiles", !.profiles = Recent, !.order = later,
                            !.loaded = [p \in Profile |-> IF p \in Recent THEN content[p] ELSE None]]
    /\ UNCHANGED <<users, arrived, indexed, content, vector, hash, ranking, edits, errors>>

UpToDate(p) == hash[p] = pass.loaded[p]

RunFull == pass.done >= ProfilesPerRun

\* The stored hash of the next profile is compared with that of the loaded one.
CompareHash(p) ==
    /\ pass.pc = "profiles" /\ p \in pass.profiles
    /\ \A q \in pass.profiles : <<q, p>> \notin pass.order
    /\ pass' = IF UpToDate(p) THEN [pass EXCEPT !.profiles = @ \ {p}]
               ELSE IF RunFull THEN NoPass
               ELSE [pass EXCEPT !.pc = "embed", !.profiles = @ \ {p}, !.at = p,
                                 !.fresh = pass.loaded[p]]
    /\ UNCHANGED <<users, arrived, indexed, content, vector, hash, ranking, edits, errors>>

\* Mutant of WrittenHash: the hash is computed when the vector is written.
HashOfNow(p) == content[p]

\* The hash that was computed before the provider was asked.
WrittenHash(p) == pass.fresh

\* A vector is written or cleared under a task that has just compared the hash.
RowWritten(p) ==
    IF ranking.pc = "fresh" /\ ranking.of = p THEN [ranking EXCEPT !.touched = TRUE] ELSE ranking

Written == [pass EXCEPT !.pc = "profiles", !.at = None, !.fresh = None]

\* The vector is written, whatever happened to the row in the meantime.
WriteProfile ==
    /\ pass.pc = "embed"
    /\ vector' = [vector EXCEPT ![pass.at] = pass.loaded[pass.at]]
    /\ hash' = [hash EXCEPT ![pass.at] = WrittenHash(pass.at)]
    /\ pass' = [Written EXCEPT !.done = @ + 1]
    /\ ranking' = RowWritten(pass.at)
    /\ UNCHANGED <<users, arrived, indexed, content, edits, errors>>

ProfileFails ==
    /\ pass.pc = "embed" /\ errors < MaxErrors
    /\ pass' = Written
    /\ errors' = errors + 1
    /\ UNCHANGED <<users, arrived, indexed, content, vector, hash, ranking, edits>>

FinishPass ==
    /\ pass.pc = "profiles" /\ pass.profiles = {}
    /\ pass' = NoPass
    /\ UNCHANGED <<users, arrived, indexed, content, vector, hash, ranking, edits, errors>>

\* The database refuses a write (the rollback expires the loaded objects and
\* the pass fails when it touches the next one), or the process restarts.
LosePass ==
    /\ pass.pc # "idle" /\ errors < MaxErrors
    /\ pass' = NoPass /\ ranking' \in {ranking, NoRanking}
    /\ errors' = errors + 1
    /\ UNCHANGED <<users, arrived, indexed, content, vector, hash, edits>>

\* A scan has stored and scored a vacancy.
Arrive(v) ==
    /\ v \notin arrived
    /\ arrived' = arrived \cup {v}
    /\ UNCHANGED <<users, indexed, content, vector, hash, pass, ranking, edits, errors>>

\* The row of p is saved.
Saved(p) ==
    later' = {r \in later : r[1] # p /\ r[2] # p} \cup {<<p, q>> : q \in Profile \ {p}}

\* A changed profile or resume is saved on the dashboard and clears the vector.
EditAndInvalidate(p, c) ==
    /\ c # content[p] /\ edits < MaxProfileEdits
    /\ content' = [content EXCEPT ![p] = c]
    /\ vector' = [vector EXCEPT ![p] = None] /\ hash' = [hash EXCEPT ![p] = None]
    /\ ranking' = RowWritten(p)
    /\ Saved(p)
    /\ edits' = edits + 1
    /\ UNCHANGED <<arrived, indexed, active, pass, errors>>

\* An upload: the parser, a process of its own, has returned the text in time.
\* Two uploads of a user are parsed at once, so the older may be stored last.
UploadResume(p, c) == EditAndInvalidate(p, c)

\* The bot's settings and the automatic exclusion of a company leave it.
EditOnly(p, c) ==
    /\ c # content[p] /\ edits < MaxProfileEdits
    /\ content' = [content EXCEPT ![p] = c]
    /\ Saved(p)
    /\ edits' = edits + 1
    /\ UNCHANGED <<arrived, indexed, active, vector, hash, pass, ranking, errors>>

\* The admin deactivates a user.
Deactivate(p) ==
    /\ p \in active /\ edits < MaxProfileEdits
    /\ active' = active \ {p}
    /\ edits' = edits + 1
    /\ UNCHANGED <<arrived, indexed, later, content, vector, hash, pass, ranking, errors>>

-----------------------------------------------------------------------------
(* The reader of the index: _semantic_priority_filter, for the backfill or *)
(* the scan of a user.  Each query sees what is committed by then.         *)

\* The task has loaded the user and computed the hash of the profile.
LoadCandidates(p) ==
    /\ ranking.pc = "none" /\ p \in active
    /\ ranking' = [NoRanking EXCEPT !.pc = "loaded", !.of = p, !.mine = content[p]]
    /\ UNCHANGED <<users, arrived, indexed, content, vector, hash, pass, edits, errors>>

\* Mutant of IsFresh: any vector will do.
AnyVector(p, c) == vector[p] # None

IsFresh(p, c) == vector[p] # None /\ hash[p] = c

\* Without a fresh vector the candidates keep their order.
CompareVector ==
    /\ ranking.pc = "loaded"
    /\ ranking' = IF IsFresh(ranking.of, ranking.mine) THEN [ranking EXCEPT !.pc = "fresh"] ELSE NoRanking
    /\ UNCHANGED <<users, arrived, indexed, content, vector, hash, pass, edits, errors>>

\* The second query reads the similarities.
RankByVector ==
    /\ ranking.pc = "fresh" /\ vector[ranking.of] # None
    /\ ranking' = NoRanking
    /\ UNCHANGED <<users, arrived, indexed, content, vector, hash, pass, edits, errors>>

\* The vector is gone: float(None) is a TypeError, which only the except of
\* SQLAlchemyError would catch, and the task ends (with no vacancy indexed
\* there is no row, and it goes on with the order it has).
RankWithoutVector ==
    /\ ranking.pc = "fresh" /\ vector[ranking.of] = None
    /\ ranking' = NoRanking
    /\ UNCHANGED <<users, arrived, indexed, content, vector, hash, pass, edits, errors>>

RankNext ==
    \/ \E p \in Profile : LoadCandidates(p)
    \/ CompareVector \/ RankByVector \/ RankWithoutVector

EmbedNext ==
    \/ RankNext
    \/ \E burst \in BOOLEAN : StartPass(burst)
    \/ \E v \in Vacancy : IndexJob(v) \/ JobFails(v) \/ Arrive(v)
    \/ FinishJobs \/ LoadProfiles \/ WriteProfile \/ ProfileFails \/ FinishPass \/ LosePass
    \/ \E p \in Profile : CompareHash(p)
    \/ \E p \in Profile, c \in Content : EditAndInvalidate(p, c) \/ UploadResume(p, c) \/ EditOnly(p, c)
    \/ \E p \in Profile : Deactivate(p)

EmbedSpec == EmbedInit /\ [][EmbedNext]_embedVars

PassStep ==
    \/ \E v \in Vacancy : IndexJob(v)
    \/ FinishJobs \/ LoadProfiles \/ WriteProfile \/ FinishPass
    \/ \E p \in Profile : CompareHash(p)

\* The provider answers, and the trigger of the full pass finds the lock free
\* again and again.
EmbedFairness == WF_embedVars(PassStep) /\ SF_embedVars(StartPass(FALSE))
EmbedFairSpec == EmbedSpec /\ EmbedFairness

-----------------------------------------------------------------------------
(* Properties.                                                             *)

EmbedTypeOK ==
    /\ arrived \subseteq Vacancy /\ indexed \subseteq arrived
    /\ active \subseteq Profile /\ later \subseteq Profile \X Profile
    /\ content \in [Profile -> Content]
    /\ vector \in [Profile -> Content \cup {None}] /\ hash \in [Profile -> Content \cup {None}]
    /\ pass \in PassState /\ ranking \in RankingState
    /\ edits \in 0 .. MaxProfileEdits /\ errors \in 0 .. MaxErrors

\* The stored hash names the profile that the stored vector was made of, also
\* when the profile was edited while the provider worked: the check of the
\* hash in _semantic_priority_filter never accepts a vector of another text.
HashNamesVector == \A p \in Profile : hash[p] = vector[p]

\* Similarities are those of the profile that the task scores for, unless its
\* row was written between the two queries: a vector left from an older text
\* never orders the candidates (_semantic_priority_filter, _index_profiles).
PriorityIsCurrent ==
    [][RankByVector => vector[ranking.of] = ranking.mine \/ ranking.touched]_embedVars

\* Once the edits end, every profile that a pass loads gets a vector of what it
\* says and keeps it, also after a late pass wrote one of an older text
\* (_index_profiles).
VectorFollowsProfile == \A p \in Profile : <>[](p \in Recent) => <>[](vector[p] = content[p])

\* Every vacancy is indexed in the end, although passes are short, prefer the
\* newest and fail (_index_jobs).
EveryJobIndexed == <>[](Missing = {})
=============================================================================
