--------------------------- MODULE ServicesProofs ---------------------------
(***************************************************************************)
(* Theorems about the services that run on a schedule, Embedding, Backups  *)
(* and SearchPlans, and about the composition of MCServices.               *)
(***************************************************************************)
EXTENDS MCServices, Embedding, SearchPlans, RequestProofs, UserProofs

-----------------------------------------------------------------------------
(* The semantic index.  A pass writes the vector and the hash of the same  *)
(* loaded text in one statement, so the two name one text even when both   *)
(* are out of date; and a task that found its own hash stored therefore    *)
(* found its own vector, until the row is written again.                   *)

\* The types that the argument needs.
VectorShape ==
    /\ content \in [Profile -> Content]
    /\ vector \in [Profile -> Content \cup {None}] /\ hash \in [Profile -> Content \cup {None}]
    /\ pass.loaded \in [Profile -> Content \cup {None}]
    /\ ranking \in RankingState
    /\ ranking.pc # "none" => ranking.of \in Profile

\* What the provider works on, and the hash computed of it.
EmbedShape == pass.pc = "embed" => pass.at \in Profile /\ pass.fresh = pass.loaded[pass.at]

\* A task about to read similarities found its own text, or the row was
\* written since.
RankShape == ranking.pc = "fresh" => vector[ranking.of] = ranking.mine \/ ranking.touched

EInv == VectorShape /\ HashNamesVector /\ EmbedShape /\ RankShape

-----------------------------------------------------------------------------
\* A record that is idle.
LEMMA IdleRecords ==
    /\ NoPass.pc = "idle" /\ NoPass.loaded \in [Profile -> Content \cup {None}]
    /\ NoRanking \in RankingState /\ NoRanking.pc = "none"
BY DEF NoPass, NoRanking, RankingState

\* Nothing is indexed at the start.
LEMMA InitEInv == EmbedInit => EInv
BY IdleRecords DEF EmbedInit, EInv, VectorShape, HashNamesVector, EmbedShape, RankShape

\* Steps of a pass that write no row of a profile.
PassMoves ==
    /\ UNCHANGED <<content, vector, hash>>
    /\ ranking' \in {ranking, NoRanking}
    /\ pass'.loaded \in [Profile -> Content \cup {None}]
    /\ pass'.pc = "embed" => pass'.at \in Profile /\ pass'.fresh = pass'.loaded[pass'.at]

\* Such steps keep the invariant.
LEMMA PassMovesEInv == ASSUME EInv, PassMoves PROVE EInv'
BY IdleRecords DEF EInv, VectorShape, HashNamesVector, EmbedShape, RankShape, PassMoves

\* The steps with which a pass starts, goes over to the profiles, or ends.
LEMMA StartsAndFinishes ==
    ASSUME EInv, \/ \E burst \in BOOLEAN : StartPass(burst)
                 \/ FinishJobs \/ LoadProfiles \/ FinishPass \/ LosePass
    PROVE  PassMoves
<1> USE IdleRecords DEF EInv, VectorShape
<1>1. ASSUME NEW burst \in BOOLEAN, StartPass(burst) PROVE PassMoves
  BY <1>1 DEF StartPass, PassMoves, NoPass
<1>2. CASE FinishJobs
  BY <1>2 DEF FinishJobs, PassMoves
<1>3. CASE LoadProfiles
  BY <1>3 DEF LoadProfiles, PassMoves
<1>4. CASE FinishPass
  BY <1>4 DEF FinishPass, PassMoves
<1>5. CASE LosePass
  BY <1>5 DEF LosePass, PassMoves
<1> QED BY <1>1, <1>2, <1>3, <1>4, <1>5

\* The steps within the queues of vacancies and profiles.
LEMMA WorksThroughQueues ==
    ASSUME EInv, \/ \E v \in Vacancy : IndexJob(v) \/ JobFails(v)
                 \/ \E p \in Profile : CompareHash(p)
                 \/ ProfileFails
    PROVE  PassMoves
<1> USE IdleRecords DEF EInv, VectorShape
<1>1. ASSUME NEW v \in Vacancy, IndexJob(v) \/ JobFails(v) PROVE PassMoves
  <2>1. pass' = [pass EXCEPT !.jobs = @ \ {v}] /\ pass.pc = "jobs"
    BY <1>1 DEF IndexJob, JobFails, NextJob
  <2>2. pass'.pc = "jobs" /\ pass'.loaded = pass.loaded
    BY <2>1
  <2> QED BY <1>1, <2>2 DEF IndexJob, JobFails, PassMoves
<1>2. ASSUME NEW p \in Profile, CompareHash(p) PROVE PassMoves
  <2>0. pass.pc = "profiles" /\ UNCHANGED <<content, vector, hash, ranking>>
    BY <1>2 DEF CompareHash
  <2>1. CASE pass' = [pass EXCEPT !.profiles = @ \ {p}]
    <3>1. pass'.pc = "profiles" /\ pass'.loaded = pass.loaded
      BY <2>0, <2>1
    <3> QED BY <2>0, <3>1 DEF PassMoves
  <2>2. CASE pass' = NoPass
    BY <2>0, <2>2 DEF PassMoves
  <2>3. CASE pass' = [pass EXCEPT !.pc = "embed", !.profiles = @ \ {p}, !.at = p,
                                  !.fresh = pass.loaded[p]]
    <3>1. pass'.pc = "embed" /\ pass'.loaded = pass.loaded
      BY <2>3
    <3>2. pass'.at = p /\ pass'.fresh = pass.loaded[p]
      BY <2>3
    <3> QED BY <2>0, <3>1, <3>2 DEF PassMoves
  <2> QED BY <1>2, <2>1, <2>2, <2>3 DEF CompareHash
<1>3. CASE ProfileFails
  BY <1>3 DEF ProfileFails, Written, PassMoves
<1> QED BY <1>1, <1>2, <1>3

-----------------------------------------------------------------------------
\* A row is written or cleared: vector and hash get the same text.
LEMMA RowWrittenEInv ==
    ASSUME EInv, NEW p \in Profile, NEW t \in Content \cup {None},
           content' \in [Profile -> Content],
           vector' = [vector EXCEPT ![p] = t], hash' = [hash EXCEPT ![p] = t],
           ranking' = RowWritten(p),
           pass'.loaded = pass.loaded, pass' = pass \/ pass'.pc # "embed"
    PROVE  EInv'
<1>1. HashNamesVector'
  BY DEF EInv, VectorShape, HashNamesVector
<1>2. ranking' \in RankingState /\ ranking'.pc = ranking.pc /\ ranking'.of = ranking.of
      /\ ranking'.mine = ranking.mine
      /\ (ranking'.touched = ranking.touched \/ ranking'.touched = TRUE)
      /\ (ranking.pc = "fresh" /\ ranking.of = p => ranking'.touched = TRUE)
  BY DEF EInv, VectorShape, RowWritten, RankingState
<1>3. RankShape'
  <2> SUFFICES ASSUME ranking.pc = "fresh"
               PROVE  vector'[ranking.of] = ranking.mine \/ ranking'.touched
    BY <1>2 DEF RankShape
  <2>1. CASE ranking.of = p
    BY <1>2, <2>1
  <2>2. CASE ranking.of # p
    BY <1>2, <2>2 DEF EInv, VectorShape, RankShape
  <2> QED BY <2>1, <2>2
<1>4. EmbedShape'
  BY DEF EInv, EmbedShape
<1>5. VectorShape'
  BY <1>2 DEF EInv, VectorShape
<1> QED BY <1>1, <1>3, <1>4, <1>5 DEF EInv

\* The provider has answered.
LEMMA WriteProfileEInv == ASSUME EInv, WriteProfile PROVE EInv'
<1> DEFINE p == pass.at
           t == pass.loaded[pass.at]
<1>1. p \in Profile /\ pass.fresh = t /\ t \in Content \cup {None}
  BY DEF WriteProfile, EInv, EmbedShape, VectorShape
<1>2. /\ vector' = [vector EXCEPT ![p] = t] /\ hash' = [hash EXCEPT ![p] = t]
      /\ ranking' = RowWritten(p) /\ content' = content
  BY <1>1 DEF WriteProfile, WrittenHash
<1>3. pass'.pc # "embed" /\ pass'.loaded = pass.loaded
  BY DEF WriteProfile, Written
<1>4. content' \in [Profile -> Content]
  BY <1>2 DEF EInv, VectorShape
<1> HIDE DEF p, t
<1> QED BY <1>1, <1>2, <1>3, <1>4, RowWrittenEInv

\* The user edits the profile, with or without clearing the vector.
LEMMA EditsEInv ==
    ASSUME EInv, NEW p \in Profile, NEW c \in Content,
           EditAndInvalidate(p, c) \/ UploadResume(p, c) \/ EditOnly(p, c)
    PROVE  EInv'
<1>1. content' \in [Profile -> Content]
  BY DEF EInv, VectorShape, EditAndInvalidate, UploadResume, EditOnly
<1>2. CASE EditAndInvalidate(p, c) \/ UploadResume(p, c)
  BY <1>1, <1>2, RowWrittenEInv DEF EditAndInvalidate, UploadResume
<1>3. CASE EditOnly(p, c)
  BY <1>1, <1>3 DEF EditOnly, EInv, VectorShape, HashNamesVector, EmbedShape, RankShape
<1> QED BY <1>2, <1>3

\* The reader of the index.
LEMMA RankNextEInv == ASSUME EInv, RankNext PROVE EInv'
<1> USE IdleRecords DEF EInv, VectorShape
<1>1. ASSUME NEW p \in Profile, LoadCandidates(p) PROVE EInv'
  <2> DEFINE r == [NoRanking EXCEPT !.pc = "loaded", !.of = p, !.mine = content[p]]
  <2>1. r \in RankingState /\ r.pc = "loaded" /\ r.of = p
    BY DEF RankingState
  <2> HIDE DEF r
  <2>2. ranking' = r /\ UNCHANGED <<content, vector, hash, pass>>
    BY <1>1 DEF LoadCandidates, r
  <2> QED BY <2>1, <2>2 DEF HashNamesVector, EmbedShape, RankShape
<1>2. CASE CompareVector
  <2>1. UNCHANGED <<content, vector, hash, pass>>
    BY <1>2 DEF CompareVector
  <2>2. CASE IsFresh(ranking.of, ranking.mine) /\ ranking' = [ranking EXCEPT !.pc = "fresh"]
    <3>1. ranking.of \in Profile /\ vector[ranking.of] = ranking.mine
      BY <1>2, <2>2 DEF CompareVector, IsFresh, HashNamesVector
    <3>2. ranking' \in RankingState /\ ranking'.of = ranking.of /\ ranking'.mine = ranking.mine
      BY <2>2 DEF RankingState
    <3> QED BY <2>1, <3>1, <3>2 DEF HashNamesVector, EmbedShape, RankShape
  <2>3. CASE ranking' = NoRanking
    BY <2>1, <2>3 DEF HashNamesVector, EmbedShape, RankShape
  <2> QED BY <1>2, <2>2, <2>3 DEF CompareVector
<1>3. CASE RankByVector \/ RankWithoutVector
  BY <1>3 DEF RankByVector, RankWithoutVector, HashNamesVector, EmbedShape, RankShape
<1> QED BY <1>1, <1>2, <1>3 DEF RankNext

\* Every step keeps the invariant.
LEMMA StepEInv == ASSUME EInv, [EmbedNext]_embedVars PROVE EInv'
<1>1. ASSUME NEW v \in Vacancy, Arrive(v) PROVE EInv'
  BY <1>1 DEF Arrive, EInv, VectorShape, HashNamesVector, EmbedShape, RankShape
<1>2. CASE WriteProfile
  BY <1>2, WriteProfileEInv
<1>3. ASSUME NEW p \in Profile, Deactivate(p) PROVE EInv'
  BY <1>3 DEF Deactivate, EInv, VectorShape, HashNamesVector, EmbedShape, RankShape
<1>4. CASE UNCHANGED embedVars
  BY <1>4 DEF embedVars, EInv, VectorShape, HashNamesVector, EmbedShape, RankShape
<1> QED BY <1>1, <1>2, <1>3, <1>4, PassMovesEInv, StartsAndFinishes, WorksThroughQueues, EditsEInv,
           RankNextEInv DEF EmbedNext

\* What is known of vectors and hashes in every reachable state.
THEOREM EInvHolds == EmbedSpec => []EInv
BY InitEInv, StepEInv, PTL DEF EmbedSpec

-----------------------------------------------------------------------------
(* The results.                                                            *)

\* The stored hash always names the text of the stored vector, whatever was
\* edited while the provider worked (_index_profiles).
THEOREM HashIsTrue == EmbedSpec => []HashNamesVector
<1>1. EInv => HashNamesVector
  BY DEF EInv
<1> QED BY <1>1, EInvHolds, PTL

\* Candidates are ordered by the vector of the profile they are scored for,
\* unless the row was written between the two queries
\* (_semantic_priority_filter).
THEOREM RanksByOwnVector == EmbedSpec => PriorityIsCurrent
<1>1. EInv /\ [EmbedNext]_embedVars =>
        [RankByVector => vector[ranking.of] = ranking.mine \/ ranking.touched]_embedVars
  BY DEF EInv, RankShape, RankByVector
<1> QED BY <1>1, EInvHolds, PTL DEF EmbedSpec, PriorityIsCurrent

PassShape ==
    /\ pass.jobs \subseteq arrived
    /\ pass.pc = "embed" => pass.at \in Profile /\ pass.done < ProfilesPerRun

TypedPass == EmbedTypeOK /\ PassShape

\* A pass that goes on: what it needs of its record.
LEMMA PassTyped ==
    ASSUME TypedPass, pass' \in PassState, arrived \subseteq arrived', arrived' \subseteq Vacancy,
           indexed' \subseteq arrived',
           pass'.jobs \subseteq arrived,
           pass'.pc = "embed" => pass'.at \in Profile /\ pass'.done < ProfilesPerRun,
           UNCHANGED <<users, content, vector, hash>>,
           ranking' \in {ranking, NoRanking},
           errors' \in 0 .. MaxErrors, edits' = edits
    PROVE  TypedPass'
BY IdleRecords DEF TypedPass, EmbedTypeOK, PassShape, users

\* No pass has nothing to do.
LEMMA NoPassTyped == NoPass \in PassState /\ NoPass.jobs = {} /\ NoPass.pc = "idle"
BY EmbeddingAssumption DEF NoPass, PassState

\* The steps of a pass that write no profile keep the types.
LEMMA VacancyStepTyped ==
    ASSUME TypedPass, \/ \E burst \in BOOLEAN : StartPass(burst)
                      \/ \E v \in Vacancy : IndexJob(v) \/ JobFails(v)
                      \/ FinishJobs \/ LosePass \/ FinishPass \/ LoadProfiles
                      \/ \E p \in Profile : CompareHash(p)
    PROVE  TypedPass'
<1> USE EmbeddingAssumption, NoPassTyped
<1>1. /\ pass \in PassState /\ arrived \subseteq Vacancy
      /\ indexed \subseteq arrived /\ pass.jobs \subseteq arrived
      /\ errors \in 0 .. MaxErrors
  BY DEF TypedPass, EmbedTypeOK, PassShape
<1>2. ASSUME NEW burst \in BOOLEAN, StartPass(burst) PROVE TypedPass'
  <2>1. Queue \subseteq arrived
    BY DEF Queue, Missing
  <2>2. [NoPass EXCEPT !.pc = "jobs", !.burst = burst, !.jobs = Queue] \in PassState
    BY <1>1, <2>1 DEF PassState
  <2>3. pass' \in PassState /\ pass'.jobs \subseteq arrived /\ pass'.pc = "jobs"
    BY <1>2, <2>1, <2>2 DEF StartPass, NoPass
  <2> QED BY <1>1, <1>2, <2>3, PassTyped DEF StartPass
<1>3. ASSUME NEW v \in Vacancy, IndexJob(v) \/ JobFails(v) PROVE TypedPass'
  <2>1. pass' = [pass EXCEPT !.jobs = pass.jobs \ {v}] /\ v \in pass.jobs /\ pass.pc = "jobs"
    BY <1>3 DEF IndexJob, JobFails, NextJob
  <2>2. pass' \in PassState /\ pass'.jobs \subseteq arrived /\ pass'.pc = "jobs"
    BY <1>1, <2>1 DEF PassState
  <2>3. indexed' \subseteq arrived /\ errors' \in 0 .. MaxErrors
    BY <1>1, <1>3, <2>1 DEF IndexJob, JobFails
  <2> QED BY <1>1, <1>3, <2>2, <2>3, PassTyped DEF IndexJob, JobFails
<1>4. CASE FinishJobs
  <2>1. pass' = NoPass \/ pass' = [pass EXCEPT !.pc = "load"]
    BY <1>4 DEF FinishJobs
  <2>2. pass' \in PassState /\ pass'.jobs \subseteq arrived /\ pass'.pc # "embed"
    BY <1>1, <2>1 DEF PassState
  <2> QED BY <1>1, <1>4, <2>2, PassTyped DEF FinishJobs
<1>5. CASE LosePass \/ FinishPass
  <2>1. errors' \in 0 .. MaxErrors
    BY <1>1, <1>5 DEF LosePass, FinishPass
  <2> QED BY <1>1, <1>5, <2>1, PassTyped DEF LosePass, FinishPass
<1>6. CASE LoadProfiles
  <2>1. /\ content \in [Profile -> Content] /\ later \subseteq Profile \X Profile
        /\ Recent \subseteq Profile
    BY DEF TypedPass, EmbedTypeOK, Recent
  <2>2. [p \in Profile |-> IF p \in Recent THEN content[p] ELSE None]
          \in [Profile -> Content \cup {None}]
    BY <2>1
  <2>3. pass' \in PassState /\ pass'.jobs \subseteq arrived /\ pass'.pc # "embed"
    BY <1>1, <1>6, <2>1, <2>2 DEF LoadProfiles, PassState
  <2> QED BY <1>1, <1>6, <2>3, PassTyped DEF LoadProfiles
<1>7. ASSUME NEW p \in Profile, CompareHash(p) PROVE TypedPass'
  <2>1. \/ pass' = [pass EXCEPT !.profiles = pass.profiles \ {p}] /\ pass.pc = "profiles"
        \/ pass' = NoPass
        \/ /\ pass' = [pass EXCEPT !.pc = "embed", !.profiles = pass.profiles \ {p}, !.at = p,
                                   !.fresh = pass.loaded[p]]
           /\ ~(pass.done >= ProfilesPerRun)
    BY <1>7 DEF CompareHash, RunFull
  <2>2. pass.loaded[p] \in Content \cup {None} /\ pass.done \in 0 .. ProfilesPerRun
    BY <1>1 DEF PassState
  <2> DEFINE Good == /\ pass' \in PassState /\ pass'.jobs \subseteq arrived
                     /\ pass'.pc = "embed" => pass'.at \in Profile /\ pass'.done < ProfilesPerRun
  <2>3. ASSUME pass' = NoPass PROVE Good
    BY <2>3
  <2>4. ASSUME pass' = [pass EXCEPT !.profiles = pass.profiles \ {p}], pass.pc = "profiles"
        PROVE  Good
    <3>1. pass' \in PassState /\ pass'.jobs = pass.jobs /\ pass'.pc = "profiles"
      BY <1>1, <2>4 DEF PassState
    <3> QED BY <1>1, <3>1
  <2>5. ASSUME pass' = [pass EXCEPT !.pc = "embed", !.profiles = pass.profiles \ {p}, !.at = p,
                                    !.fresh = pass.loaded[p]],
               ~(pass.done >= ProfilesPerRun)
        PROVE  Good
    <3>1. /\ pass'.jobs = pass.jobs /\ pass'.at = p /\ pass'.done = pass.done
      BY <1>1, <2>5 DEF PassState
    <3>2. pass' \in PassState
      BY <1>1, <2>2, <2>5 DEF PassState
    <3>3. pass.done < ProfilesPerRun
      BY <2>2, <2>5
    <3> QED BY <1>1, <3>1, <3>2, <3>3
  <2>6. Good
    BY <2>1, <2>3, <2>4, <2>5
  <2>7. UNCHANGED <<users, arrived, indexed, content, vector, hash, ranking, edits, errors>>
    BY <1>7 DEF CompareHash
  <2> QED BY <1>1, <2>6, <2>7, PassTyped
<1> QED BY <1>2, <1>3, <1>4, <1>5, <1>6, <1>7

\* The provider has answered for a profile: one more is done, and the pass had
\* place for it.
LEMMA ProfileStepTyped ==
    ASSUME EInv, TypedPass, WriteProfile \/ ProfileFails
    PROVE  TypedPass'
<1> USE EmbeddingAssumption
<1>1. pass \in PassState /\ pass.at \in Profile /\ pass.done < ProfilesPerRun /\ pass.pc = "embed"
  BY DEF WriteProfile, ProfileFails, TypedPass, EmbedTypeOK, PassShape
<1>2. /\ Written \in PassState /\ Written.jobs = pass.jobs
      /\ Written.pc = "profiles" /\ Written.done = pass.done
  BY <1>1 DEF Written, PassState
<1>3. CASE ProfileFails
  <2>1. errors' \in 0 .. MaxErrors
    BY <1>3 DEF ProfileFails, TypedPass, EmbedTypeOK
  <2> QED BY <1>2, <1>3, <2>1, PassTyped DEF ProfileFails, TypedPass, EmbedTypeOK, PassShape
<1>4. CASE WriteProfile
  <2>1. pass' \in PassState /\ pass'.jobs \subseteq arrived /\ pass'.pc # "embed"
    <3>1. pass' = [Written EXCEPT !.done = pass.done + 1] /\ pass.done + 1 \in 0 .. ProfilesPerRun
      BY <1>1, <1>2, <1>4 DEF WriteProfile, PassState
    <3> QED BY <1>2, <3>1 DEF PassState, TypedPass, PassShape
  <2>2. pass.loaded[pass.at] \in Content \cup {None} /\ pass.fresh \in Content \cup {None}
    BY <1>1 DEF PassState
  <2>3. /\ vector' \in [Profile -> Content \cup {None}]
        /\ hash' \in [Profile -> Content \cup {None}]
    BY <1>4, <2>2 DEF WriteProfile, WrittenHash, TypedPass, EmbedTypeOK
  <2>4. ranking' \in RankingState
    BY <1>4 DEF WriteProfile, RowWritten, RankingState, TypedPass, EmbedTypeOK
  <2> QED BY <1>4, <2>1, <2>3, <2>4 DEF WriteProfile, TypedPass, EmbedTypeOK, PassShape, users
<1> QED BY <1>3, <1>4

\* New vacancies, edits and the reader of the index keep the types.
LEMMA OthersTyped ==
    ASSUME TypedPass, \/ \E v \in Vacancy : Arrive(v)
                      \/ \E p \in Profile, c \in Content :
                            EditAndInvalidate(p, c) \/ UploadResume(p, c) \/ EditOnly(p, c)
                      \/ \E p \in Profile : Deactivate(p)
                      \/ RankNext \/ UNCHANGED embedVars
    PROVE  TypedPass'
<1> USE EmbeddingAssumption
<1>1. ASSUME NEW v \in Vacancy, Arrive(v) PROVE TypedPass'
  BY <1>1 DEF Arrive, TypedPass, EmbedTypeOK, PassShape, users
<1>2. ASSUME NEW p \in Profile, NEW c \in Content,
             EditAndInvalidate(p, c) \/ UploadResume(p, c) \/ EditOnly(p, c)
      PROVE TypedPass'
  <2>1. ranking' \in {ranking, [ranking EXCEPT !.touched = TRUE]}
    BY <1>2 DEF EditAndInvalidate, UploadResume, EditOnly, RowWritten
  <2>2. ranking' \in RankingState
    BY <2>1 DEF RankingState, TypedPass, EmbedTypeOK
  <2>3. /\ content' \in [Profile -> Content]
        /\ vector' \in [Profile -> Content \cup {None}]
        /\ hash' \in [Profile -> Content \cup {None}]
    BY <1>2 DEF EditAndInvalidate, UploadResume, EditOnly, TypedPass, EmbedTypeOK
  <2>4. edits' \in 0 .. MaxProfileEdits
    BY <1>2 DEF EditAndInvalidate, UploadResume, EditOnly, TypedPass, EmbedTypeOK
  <2>5. UNCHANGED <<arrived, indexed, active, pass, errors>>
    BY <1>2 DEF EditAndInvalidate, UploadResume, EditOnly
  <2>6. later' \subseteq Profile \X Profile
    BY <1>2 DEF EditAndInvalidate, UploadResume, EditOnly, Saved, TypedPass, EmbedTypeOK
  <2> QED BY <2>2, <2>3, <2>4, <2>5, <2>6 DEF TypedPass, EmbedTypeOK, PassShape
<1>3. CASE RankNext
  <2>1. ranking' \in RankingState
    <3>1. ranking \in RankingState /\ content \in [Profile -> Content]
      BY DEF TypedPass, EmbedTypeOK
    <3>2. ASSUME NEW p \in Profile, LoadCandidates(p) PROVE ranking' \in RankingState
      BY <3>1, <3>2 DEF LoadCandidates, NoRanking, RankingState
    <3>3. CASE CompareVector
      <4>1. ranking' = NoRanking \/ ranking' = [ranking EXCEPT !.pc = "fresh"]
        BY <3>3 DEF CompareVector
      <4> QED BY <3>1, <4>1, IdleRecords DEF RankingState
    <3>4. CASE RankByVector \/ RankWithoutVector
      BY <3>4, IdleRecords DEF RankByVector, RankWithoutVector
    <3> QED BY <1>3, <3>2, <3>3, <3>4 DEF RankNext
  <2>2. UNCHANGED <<users, arrived, indexed, content, vector, hash, pass, edits, errors>>
    BY <1>3 DEF RankNext, LoadCandidates, CompareVector, RankByVector, RankWithoutVector
  <2> QED BY <2>1, <2>2 DEF TypedPass, EmbedTypeOK, PassShape, users
<1>4. CASE UNCHANGED embedVars
  BY <1>4 DEF embedVars, TypedPass, EmbedTypeOK, PassShape, users
<1>5. ASSUME NEW p \in Profile, Deactivate(p) PROVE TypedPass'
  <2>1. edits' \in 0 .. MaxProfileEdits
    BY <1>5 DEF Deactivate, TypedPass, EmbedTypeOK
  <2> QED BY <1>5, <2>1 DEF Deactivate, TypedPass, EmbedTypeOK, PassShape
<1> QED BY <1>1, <1>2, <1>3, <1>4, <1>5

\* The type invariant of Embedding: a pass never writes more profiles than it
\* may, and has indexed only vacancies that exist.
THEOREM EmbedTypes == EmbedSpec => []EmbedTypeOK
<1>1. EmbedInit => TypedPass
  BY EmbeddingAssumption, NoPassTyped, IdleRecords
     DEF EmbedInit, TypedPass, EmbedTypeOK, PassShape, Orders
<1>2. EInv /\ TypedPass /\ [EmbedNext]_embedVars => TypedPass'
  BY VacancyStepTyped, ProfileStepTyped, OthersTyped DEF EmbedNext
<1>3. TypedPass => EmbedTypeOK
  BY DEF TypedPass
<1> QED BY <1>1, <1>2, <1>3, EInvHolds, PTL DEF EmbedSpec

-----------------------------------------------------------------------------
(* Backups.  A file named like a dump is a finished dump, for it gets that *)
(* name by a rename; only a rotation deletes dumps, and it leaves the      *)
(* newest KeepLast of those on the disk.                                    *)

\* What the daily dumps have left on the disk: each file that looks like a dump
\* is a finished one, at most one dump is made a day, and the running backup is
\* today's or that of the last day one was started.
DumpsInv ==
    /\ Visible \subseteq made
    /\ \A d \in made : d <= ranOn
    /\ backup.pc # "idle" => backup.of = ranOn
    /\ backup.pc \in {"rotate", "upload"} => backup.of \in made
    /\ ranOn <= day

FilesInv == BackupsTypeOK /\ DumpsInv /\ BackupsKept

Newer(S, d) == {e \in S : e > d}

\* A larger set has at least as many newer dumps.
LEMMA NewerAtMost ==
    ASSUME NEW S, NEW T, S \subseteq T, T \subseteq Days, NEW d
    PROVE  /\ Cardinality(Newer(S, d)) \in Nat /\ Cardinality(Newer(T, d)) \in Nat
           /\ Cardinality(Newer(S, d)) <= Cardinality(Newer(T, d))
<1>1. IsFiniteSet(Days)
  BY FS_Interval, BackupsAssumption DEF Days
<1>2. Newer(S, d) \subseteq Newer(T, d) /\ Newer(T, d) \subseteq Days
  BY DEF Newer
<1>3. IsFiniteSet(Newer(T, d))
  BY <1>1, <1>2, FS_Subset
<1> QED BY <1>2, <1>3, FS_Subset, FS_CardinalityType

\* Two names of one day, and the names of two days, differ.
LEMMA NamesDiffer ==
    ASSUME NEW d, NEW e
    PROVE  FinalName(d) # TmpName(e) /\ (FinalName(d) = FinalName(e) => d = e)
BY DEF FinalName, TmpName

\* A step that touches only temporary files changes no file that looks like a
\* dump.
LEMMA TmpChangesNothing ==
    ASSUME NEW d, \/ disk' = Put(TmpName(d), FALSE)
                  \/ disk' = Without(disk, TmpName(d))
    PROVE  /\ Visible' = Visible
           /\ \A e \in Visible : disk'[FinalName(e)] = disk[FinalName(e)]
<1>1. \A e \in Days : FinalName(e) # TmpName(d)
  BY NamesDiffer
<1>2. \A e \in Days : FinalName(e) \in DOMAIN disk' <=> FinalName(e) \in DOMAIN disk
  BY <1>1 DEF Put, Without
<1>3. \A e \in Visible : disk'[FinalName(e)] = disk[FinalName(e)]
  BY <1>1 DEF Visible, Put, Without
<1> QED BY <1>2, <1>3 DEF Visible

\* The types are kept by every step.
LEMMA BackupsTypesStep ==
    ASSUME BackupsTypeOK, DumpsInv, BackupsNext \/ UNCHANGED backupsVars
    PROVE  BackupsTypeOK'
<1>1. 0 \in Days /\ \A d \in Days : FinalName(d) \in Days \X {"gz", "tmp"}
                                    /\ TmpName(d) \in Days \X {"gz", "tmp"}
  BY BackupsAssumption DEF Days, FinalName, TmpName
<1>2. NotRunning \in [pc : {"idle", "dump", "write", "rotate", "upload"}, of : Days]
      /\ NotRunning \in [pc : {"idle", "restore"}, of : Days]
  BY <1>1 DEF NotRunning
<1>3. ASSUME disk' = disk \/ \E d \in Days : \/ \E w \in BOOLEAN : disk' = Put(TmpName(d), w)
                                             \/ disk' = Without(disk, TmpName(d))
                                             \/ disk' = Without(disk, FinalName(d))
                                             \/ disk' = Without(Put(FinalName(d), TRUE), TmpName(d))
      PROVE  /\ DOMAIN disk' \subseteq Days \X {"gz", "tmp"}
             /\ \A n \in DOMAIN disk' : disk'[n] \in BOOLEAN
  <2>1. /\ DOMAIN disk \subseteq Days \X {"gz", "tmp"}
        /\ \A n \in DOMAIN disk : disk[n] \in BOOLEAN
    BY DEF BackupsTypeOK
  <2>2. ASSUME NEW d \in Days, NEW w \in BOOLEAN, disk' = Put(TmpName(d), w)
        PROVE  /\ DOMAIN disk' \subseteq Days \X {"gz", "tmp"}
               /\ \A n \in DOMAIN disk' : disk'[n] \in BOOLEAN
    BY <1>1, <2>1, <2>2 DEF Put
  <2>3. ASSUME NEW d \in Days, disk' = Without(disk, TmpName(d)) \/ disk' = Without(disk, FinalName(d))
        PROVE  /\ DOMAIN disk' \subseteq Days \X {"gz", "tmp"}
               /\ \A n \in DOMAIN disk' : disk'[n] \in BOOLEAN
    BY <1>1, <2>1, <2>3 DEF Without
  <2>4. ASSUME NEW d \in Days, disk' = Without(Put(FinalName(d), TRUE), TmpName(d))
        PROVE  /\ DOMAIN disk' \subseteq Days \X {"gz", "tmp"}
               /\ \A n \in DOMAIN disk' : disk'[n] \in BOOLEAN
    BY <1>1, <2>1, <2>4 DEF Put, Without
  <2> QED BY <1>3, <2>1, <2>2, <2>3, <2>4
<1>4. CASE StartBackup
  BY <1>3, <1>4 DEF BackupsTypeOK, StartBackup
<1>5. CASE Dump
  <2>1. backup.of \in Days
    BY DEF BackupsTypeOK
  <2>2. disk' = Put(TmpName(backup.of), FALSE)
    BY <1>5 DEF Dump, WorkName
  <2> QED BY <1>3, <1>5, <2>1, <2>2 DEF BackupsTypeOK, Dump
<1>6. CASE FailBackup
  BY <1>2, <1>3, <1>6 DEF BackupsTypeOK, FailBackup
<1>7. CASE Replace
  <2>1. backup.of \in Days
    BY DEF BackupsTypeOK
  <2>2. DOMAIN disk' \subseteq Days \X {"gz", "tmp"} /\ \A n \in DOMAIN disk' : disk'[n] \in BOOLEAN
    BY <1>3, <1>7, <2>1 DEF Replace
  <2> QED BY <1>7, <2>1, <2>2 DEF BackupsTypeOK, Replace
<1>8. CASE RotateFiles
  <2>1. disk' = disk \/ \E d \in Days : disk' = Without(disk, FinalName(d))
    BY <1>8 DEF RotateFiles, Outdated, Visible
  <2>2. DOMAIN disk' \subseteq Days \X {"gz", "tmp"} /\ \A n \in DOMAIN disk' : disk'[n] \in BOOLEAN
    BY <1>3, <2>1
  <2>3. backup' \in [pc : {"idle", "dump", "write", "rotate", "upload"}, of : Days]
    BY <1>2, <1>8 DEF RotateFiles, BackupsTypeOK
  <2> QED BY <1>8, <2>2, <2>3 DEF BackupsTypeOK, RotateFiles
<1>9. CASE Upload
  BY <1>2, <1>3, <1>9 DEF BackupsTypeOK, DumpsInv, Upload
<1>10. CASE StartCheck
  BY <1>3, <1>10 DEF BackupsTypeOK, StartCheck, Visible
<1>11. CASE EndCheck
  BY <1>2, <1>3, <1>11 DEF BackupsTypeOK, EndCheck
<1>12. CASE Kill
  BY <1>2, <1>3, <1>12 DEF BackupsTypeOK, Kill
<1>13. CASE NextDay
  BY <1>3, <1>13, BackupsAssumption DEF BackupsTypeOK, NextDay, Days
<1>14. CASE UNCHANGED backupsVars
  BY <1>14 DEF BackupsTypeOK, backupsVars
<1> QED BY <1>4, <1>5, <1>6, <1>7, <1>8, <1>9, <1>10, <1>11, <1>12, <1>13, <1>14 DEF BackupsNext

\* A step that changes neither the dumps nor which of them were finished.
LEMMA SameDumps ==
    ASSUME FilesInv, BackupsTypeOK', made' = made, Visible' = Visible,
           \A d \in Visible : disk'[FinalName(d)] = disk[FinalName(d)],
           ranOn <= ranOn', ranOn' <= day', ranOn' \in Nat,
           backup'.pc # "idle" => backup'.of = ranOn',
           backup'.pc \in {"rotate", "upload"} => backup'.of = backup.of /\ backup.of \in made
    PROVE  FilesInv'
<1>1. \A d \in made' : d <= ranOn'
  BY BackupsAssumption DEF FilesInv, DumpsInv, BackupsTypeOK, Days
<1>2. DumpsInv'
  BY <1>1 DEF FilesInv, DumpsInv
<1>3. BackupsKept'
  BY DEF FilesInv, BackupsKept
<1> QED BY <1>2, <1>3 DEF FilesInv

\* The new dump is newer than all others and is there.
LEMMA ReplaceFiles ==
    ASSUME FilesInv, BackupsTypeOK', Replace
    PROVE  FilesInv'
<1> DEFINE o == backup.of
<1>1. backup.pc = "write" /\ o \in Days /\ o = ranOn /\ made \subseteq Days /\ made' \subseteq Days
  BY DEF FilesInv, DumpsInv, BackupsTypeOK, Replace
<1>2. made' = made \cup {o} /\ backup'.pc = "rotate" /\ backup'.of = o
      /\ UNCHANGED <<day, ranOn>>
  BY DEF Replace, FilesInv, BackupsTypeOK
<1>3. disk' = Without(Put(FinalName(o), TRUE), TmpName(o))
  BY DEF Replace
<1>4. \A d \in Days : /\ FinalName(d) \in DOMAIN disk' <=> d = o \/ FinalName(d) \in DOMAIN disk
                      /\ d # o /\ FinalName(d) \in DOMAIN disk
                           => disk'[FinalName(d)] = disk[FinalName(d)]
  BY <1>1, <1>3, NamesDiffer DEF Put, Without
<1>5. disk'[FinalName(o)]
  BY <1>3, NamesDiffer DEF Put, Without
<1>6. Visible' = Visible \cup {o}
  BY <1>1, <1>4 DEF Visible
<1>7. \A d \in Visible' : disk'[FinalName(d)]
  BY <1>1, <1>4, <1>5, <1>6 DEF Visible, FilesInv, BackupsKept
<1>8. ASSUME NEW d \in made', Cardinality({e \in made' : e > d}) < KeepLast
      PROVE  d \in Visible'
  <2>1. CASE d = o
    BY <1>6, <2>1
  <2>2. CASE d # o
    <3>1. d \in made /\ made \subseteq made'
      BY <1>2, <2>2
    <3>2. Cardinality(Newer(made', d)) < KeepLast
      BY <1>8 DEF Newer
    <3>3. /\ Cardinality(Newer(made, d)) \in Nat /\ Cardinality(Newer(made', d)) \in Nat
          /\ Cardinality(Newer(made, d)) <= Cardinality(Newer(made', d))
      BY <1>1, <3>1, NewerAtMost
    <3>4. Cardinality(Newer(made, d)) < KeepLast
      BY <3>2, <3>3, BackupsAssumption
    <3> QED BY <1>6, <3>1, <3>4 DEF FilesInv, BackupsKept, Newer
  <2> QED BY <2>1, <2>2
<1>9. BackupsKept'
  BY <1>7, <1>8 DEF BackupsKept
<1>10. \A d \in made' : d <= ranOn'
  BY <1>1, <1>2, BackupsAssumption DEF FilesInv, DumpsInv, Days
<1>11. DumpsInv'
  BY <1>1, <1>2, <1>6, <1>10 DEF FilesInv, DumpsInv
<1> QED BY <1>9, <1>11 DEF FilesInv

\* The file that is unlinked has KEEP_LAST newer ones.
LEMMA RotateKeeps ==
    ASSUME FilesInv, BackupsTypeOK', RotateFiles, Outdated # {}
    PROVE  FilesInv'
<1>1. PICK d \in Outdated : disk' = Without(disk, FinalName(d))
  BY DEF RotateFiles
<1>2. d \in Visible /\ Cardinality(Newer(Visible, d)) >= KeepLast
  BY DEF Outdated, Newer
<1>3. UNCHANGED <<made, backup, day, ranOn>>
  BY DEF RotateFiles
<1>4. Visible' = Visible \ {d} /\ \A e \in Visible \ {d} : disk'[FinalName(e)] = disk[FinalName(e)]
  BY <1>1, <1>2, NamesDiffer DEF Visible, Without
<1>5. Visible \subseteq made /\ made \subseteq Days
  BY DEF FilesInv, DumpsInv, BackupsTypeOK
<1>6. ~ (Cardinality(Newer(made, d)) < KeepLast)
  BY <1>2, <1>5, NewerAtMost, BackupsAssumption
<1>7. BackupsKept'
  BY <1>3, <1>4, <1>6 DEF FilesInv, BackupsKept, Newer
<1>8. DumpsInv'
  BY <1>3, <1>4 DEF FilesInv, DumpsInv
<1> QED BY <1>7, <1>8 DEF FilesInv

\* Every step keeps the files in order.
LEMMA FilesStep ==
    ASSUME FilesInv, BackupsNext \/ UNCHANGED backupsVars
    PROVE  FilesInv'
<1>1. BackupsTypeOK' /\ BackupsTypeOK /\ DumpsInv
  BY BackupsTypesStep DEF FilesInv
<1>2. day \in Nat /\ ranOn \in Nat /\ ranOn <= day /\ day' \in Nat
  BY <1>1, BackupsAssumption DEF BackupsTypeOK, DumpsInv, Days
<1>3. CASE StartBackup
  <2>1. disk' = disk /\ ranOn' = day /\ day' = day /\ made' = made /\ ranOn < day
        /\ backup'.pc = "dump" /\ backup'.of = day
    BY <1>3 DEF StartBackup
  <2>2. Visible' = Visible
    BY <2>1 DEF Visible
  <2> QED BY <1>1, <1>2, <2>1, <2>2, SameDumps
<1>4. CASE Dump \/ FailBackup
  <2>1. Visible' = Visible /\ \A d \in Visible : disk'[FinalName(d)] = disk[FinalName(d)]
    BY <1>4, TmpChangesNothing DEF Dump, FailBackup, WorkName
  <2>2. made' = made /\ ranOn' = ranOn /\ day' = day /\ backup'.pc \in {"idle", "write"}
        /\ (backup'.pc # "idle" => backup'.of = backup.of /\ backup.pc # "idle")
    <3>1. backup \in [pc : {"idle", "dump", "write", "rotate", "upload"}, of : Days]
      BY <1>1 DEF BackupsTypeOK
    <3>2. CASE Dump
      <4>1. backup' = [backup EXCEPT !.pc = "write"] /\ backup.pc = "dump"
            /\ UNCHANGED <<made, ranOn, day>>
        BY <3>2 DEF Dump
      <4> QED BY <3>1, <4>1
    <3>3. CASE FailBackup
      BY <3>3 DEF FailBackup, NotRunning
    <3> QED BY <1>4, <3>2, <3>3
  <2> QED BY <1>1, <1>2, <2>1, <2>2, SameDumps DEF DumpsInv
<1>5. CASE Replace
  BY <1>1, <1>5, ReplaceFiles
<1>6. CASE RotateFiles /\ Outdated # {}
  BY <1>1, <1>6, RotateKeeps
<1>7. CASE \/ RotateFiles /\ Outdated = {}
           \/ Upload \/ Kill
  <2>1. disk' = disk /\ made' = made /\ ranOn' = ranOn /\ day' = day
        /\ (backup'.pc # "idle" => backup'.of = backup.of /\ backup.pc = "rotate")
    BY <1>1, <1>7 DEF RotateFiles, Upload, Kill, NotRunning, BackupsTypeOK
  <2>2. Visible' = Visible
    BY <2>1 DEF Visible
  <2> QED BY <1>1, <1>2, <2>1, <2>2, SameDumps DEF DumpsInv
<1>8. CASE StartCheck \/ EndCheck \/ NextDay \/ UNCHANGED backupsVars
  <2>1. disk' = disk /\ made' = made /\ ranOn' = ranOn /\ day' \in {day, day + 1} /\ backup' = backup
    BY <1>8 DEF StartCheck, EndCheck, NextDay, backupsVars
  <2>2. Visible' = Visible
    BY <2>1 DEF Visible
  <2> QED BY <1>1, <1>2, <2>1, <2>2, SameDumps DEF DumpsInv
<1> QED BY <1>3, <1>4, <1>5, <1>6, <1>7, <1>8 DEF BackupsNext

\* What is known of the files in every reachable state.
LEMMA FilesHold == BackupsSpec => []FilesInv
<1>1. BackupsInit => FilesInv
  BY BackupsAssumption DEF BackupsInit, FilesInv, BackupsTypeOK, DumpsInv, BackupsKept, Days,
     NotRunning, Visible
<1>2. FilesInv /\ [BackupsNext]_backupsVars => FilesInv'
  BY FilesStep
<1> QED BY <1>1, <1>2, PTL DEF BackupsSpec

\* The type invariant.
THEOREM BackupsTypes == BackupsSpec => []BackupsTypeOK
<1>1. FilesInv => BackupsTypeOK
  BY DEF FilesInv
<1> QED BY <1>1, FilesHold, PTL

\* Wherever the process is killed and however many dumps fail, each file that
\* looks like a dump is whole and the last KEEP_LAST finished ones are there:
\* a dump takes its name when it is whole, it is newer than all before it, and
\* only a file with KEEP_LAST newer ones is unlinked (_rotate_backups).
THEOREM LastDumpsKept == BackupsSpec => []BackupsKept
<1>1. FilesInv => BackupsKept
  BY DEF FilesInv
<1> QED BY <1>1, FilesHold, PTL

-----------------------------------------------------------------------------
(* Search plans.  A plan merges the titles of users with the countries of  *)
(* the same users: the invariant GoodPlan says of each of its lists that   *)
(* the values come from a user who wants them together.  What a source is  *)
(* asked is a selection and a window of these lists, so it asks for        *)
(* nothing that no user wants.                                             *)

\* Different ranks order a finite set.
LEMMA ByRankAll ==
    ASSUME NEW S, IsFiniteSet(S), NEW rank \in [S -> Int],
           \A v, w \in S : v # w => rank[v] # rank[w]
    PROVE  ByRank(rank) \in Seq(S) /\ ToSet(ByRank(rank)) = S
<1> DEFINE ahead == [v \in S |-> {w \in S : rank[w] < rank[v]}]
<1>1. ByRank(rank) = Ranked(ahead)
  BY DEF ByRank
<1>2. ahead \in [S -> SUBSET S] /\ \A v, w \in S : w \in ahead[v] <=> rank[w] < rank[v]
  OBVIOUS
<1> HIDE DEF ahead
<1>3. \A v \in S : rank[v] \in Int
  OBVIOUS
<1>4. /\ \A v \in S : v \notin ahead[v]
      /\ \A v, w \in S : v # w => v \in ahead[w] \/ w \in ahead[v]
  BY <1>2, <1>3
<1>5. \A v, w, x \in S : v \in ahead[w] /\ x \in ahead[v] => x \in ahead[w]
  BY <1>2, <1>3
<1>6. \A v, w \in S : v \in ahead[w] => ahead[v] \subseteq ahead[w]
  BY <1>2, <1>5
<1> QED BY <1>1, <1>2, <1>4, <1>6, RankedAll

\* Select takes the members of a sequence that are in S, and no other.
LEMMA SelectAll ==
    ASSUME NEW T, NEW s \in Seq(T), NEW S
    PROVE  Select(s, S) \in Seq(ToSet(s) \cap S) /\ ToSet(Select(s, S)) = ToSet(s) \cap S
<1> DEFINE V == ToSet(s) \cap S
           rank == [v \in V |-> Index(s, v)]
<1>1. DOMAIN s \subseteq Int
  BY LenProperties
<1>2. \A v \in V : Index(s, v) \in DOMAIN s /\ s[Index(s, v)] = v
  BY DEF Index, ToSet
<1>3. IsFiniteSet(V)
  BY ToSetFinite, FS_Intersection
<1>4. Select(s, S) = ByRank(rank)
  BY DEF Select
<1> HIDE DEF V
<1>5. rank \in [V -> Int] /\ \A v, w \in V : v # w => rank[v] # rank[w]
  BY <1>1, <1>2
<1> HIDE DEF rank
<1> QED BY <1>3, <1>4, <1>5, ByRankAll DEF V

\* The least of a set of natural numbers.
LEMMA MinIs ==
    ASSUME NEW S \in SUBSET Nat, S # {}
    PROVE  Min(S) \in S
BY SmallestNat DEF Min

\* The place of value k + 1 of sequence i in a round robin of r sequences.
Place(k, r, i) == k * r + i

\* A number is such a place in one way.
LEMMA OneWay ==
    ASSUME NEW r \in Nat, NEW k \in Nat, NEW n \in Nat, NEW i \in 1 .. r, NEW j \in 1 .. r,
           Place(k, r, i) = Place(n, r, j)
    PROVE  k = n /\ i = j
<1>1. ASSUME NEW a \in Nat, NEW b \in Nat, a < b
      PROVE  a * r + r <= b * r /\ a * r \in Nat /\ b * r \in Nat
  <2>1. b - a \in Nat /\ b - a >= 1
    BY <1>1
  <2>2. (b - a) * r >= r
    BY <2>1
  <2>3. b * r = a * r + (b - a) * r
    BY <1>1
  <2> QED BY <2>1, <2>2, <2>3
<1>2. ~ (k < n) /\ ~ (n < k)
  <2> DEFINE x == k * r
             y == n * r
  <2>1. x + i = y + j /\ x \in Nat /\ y \in Nat
    BY DEF Place
  <2>2. (k < n => x + r <= y) /\ (n < k => y + r <= x)
    BY <1>1
  <2> HIDE DEF x, y
  <2> QED BY <2>1, <2>2
<1> QED BY <1>2 DEF Place

\* Round robin over sequences of T lists each of their values, and no other.
LEMMA RoundRobinAll ==
    ASSUME NEW T, NEW seqs \in Seq(Seq(T))
    PROVE  /\ RoundRobin(seqs) \in Seq(T)
           /\ ToSet(RoundRobin(seqs)) = UNION {ToSet(seqs[i]) : i \in DOMAIN seqs}
<1> DEFINE r == Len(seqs)
           V == UNION {ToSet(seqs[i]) : i \in DOMAIN seqs}
           at(v, i) == {m \in DOMAIN seqs[i] : seqs[i][m] = v}
           places(v) == UNION {{(n - 1) * r + i : n \in at(v, i)} : i \in DOMAIN seqs}
           rank == [v \in V |-> Min(places(v))]
<1>1. /\ r \in Nat /\ DOMAIN seqs = 1 .. r
      /\ \A i \in 1 .. r : seqs[i] \in Seq(T) /\ DOMAIN seqs[i] = 1 .. Len(seqs[i])
                           /\ Len(seqs[i]) \in Nat
  BY LenProperties, ElementOfSeq
<1>2. RoundRobin(seqs) = ByRank(rank)
  BY DEF RoundRobin
<1>3. IsFiniteSet(V)
  <2> DEFINE f == [i \in DOMAIN seqs |-> ToSet(seqs[i])]
  <2>1. IsFiniteSet(DOMAIN seqs)
    <3>1. IsFiniteSet(1 .. r)
      <4> HIDE DEF r
      <4> QED BY <1>1, FS_Interval
    <3> QED BY <1>1, <3>1
  <2>2. IsFiniteSet({f[i] : i \in DOMAIN seqs})
    <3>1. DOMAIN f = DOMAIN seqs
      OBVIOUS
    <3> HIDE DEF f
    <3> QED BY <2>1, <3>1, ImageFinite
  <2>3. {f[i] : i \in DOMAIN seqs} = {ToSet(seqs[i]) : i \in DOMAIN seqs}
    OBVIOUS
  <2>4. \A W \in {ToSet(seqs[i]) : i \in DOMAIN seqs} : IsFiniteSet(W)
    BY <1>1, ToSetFinite
  <2> QED BY <2>2, <2>3, <2>4, FS_UNION
<1>4. V \subseteq T
  BY <1>1, SeqOfValues
<1>5. ASSUME NEW v \in V
      PROVE  \E i \in 1 .. r, n \in Nat : /\ n + 1 \in DOMAIN seqs[i] /\ seqs[i][n + 1] = v
                                          /\ rank[v] = n * r + i /\ rank[v] \in Int
  <2>1. PICK i \in 1 .. r : v \in ToSet(seqs[i])
    BY <1>1
  <2>2. PICK m \in DOMAIN seqs[i] : seqs[i][m] = v
    BY <2>1 DEF ToSet
  <2>3. (m - 1) * r + i \in places(v)
    <3>1. i \in DOMAIN seqs /\ m \in at(v, i)
      BY <1>1, <2>2
    <3>2. (m - 1) * r + i \in {(n - 1) * r + i : n \in at(v, i)}
      BY <3>1
    <3> HIDE DEF at, r
    <3> QED BY <3>1, <3>2
  <2>4. \A x \in places(v) : \E j \in 1 .. r, n \in Nat :
            n + 1 \in DOMAIN seqs[j] /\ seqs[j][n + 1] = v /\ x = n * r + j /\ x \in Nat
    <3> SUFFICES ASSUME NEW j \in 1 .. r, NEW n \in at(v, j)
                 PROVE  \E k \in Nat : /\ k + 1 \in DOMAIN seqs[j] /\ seqs[j][k + 1] = v
                                       /\ (n - 1) * r + j = k * r + j /\ (n - 1) * r + j \in Nat
      BY <1>1
    <3>1. n - 1 \in Nat /\ (n - 1) + 1 = n /\ n \in DOMAIN seqs[j] /\ seqs[j][n] = v
      BY <1>1
    <3>2. (n - 1) * r + j \in Nat
      BY <1>1, <3>1
    <3> QED BY <3>1, <3>2
  <2>5. places(v) \in SUBSET Nat /\ places(v) # {}
    BY <2>3, <2>4
  <2> HIDE DEF places
  <2>6. Min(places(v)) \in places(v)
    BY <2>5, MinIs
  <2>7. rank[v] = Min(places(v))
    OBVIOUS
  <2> HIDE DEF rank
  <2> QED BY <2>4, <2>6, <2>7
<1>6. ASSUME NEW v \in V, NEW w \in V, rank[v] = rank[w]
      PROVE  v = w
  <2>1. PICK i \in 1 .. r, n \in Nat : seqs[i][n + 1] = v /\ rank[v] = n * r + i
    BY <1>5
  <2>2. PICK j \in 1 .. r, m \in Nat : seqs[j][m + 1] = w /\ rank[w] = m * r + j
    BY <1>5
  <2> HIDE DEF rank, r
  <2>3. Place(n, r, i) = Place(m, r, j)
    BY <1>6, <2>1, <2>2 DEF Place
  <2>4. n = m /\ i = j
    <3>1. r \in Nat
      BY <1>1
    <3> QED BY <2>3, <3>1, OneWay
  <2> QED BY <2>1, <2>2, <2>4
<1>7. rank \in [V -> Int]
  <2>1. rank = [v \in V |-> rank[v]] /\ \A v \in V : rank[v] \in Int
    BY <1>5
  <2> HIDE DEF rank
  <2> QED BY <2>1
<1> HIDE DEF rank, V
<1>8. ByRank(rank) \in Seq(V) /\ ToSet(ByRank(rank)) = V
  BY <1>3, <1>6, <1>7, ByRankAll
<1>9. RoundRobin(seqs) \in Seq(T)
  BY <1>2, <1>4, <1>8, SeqOfSubset
<1> QED BY <1>2, <1>8, <1>9 DEF V

\* One user wants title t, or has it as an alias of a title, in country c.
Wanted(c, t) ==
    \E u \in ToSet(User) :
        /\ Contains(Countries[u], c)
        /\ \E w \in ToSet(Titles[u]) : t = w \/ Contains(Aliases[<<c, w>>], t)

\* What a merged plan asks for, and where.
GoodPlan(p) ==
    /\ p.countries \in Seq(ToSet(p.countries)) /\ ToSet(p.countries) = DOMAIN p.queries
    /\ \A c \in DOMAIN p.queries : /\ p.queries[c] \in Seq(ToSet(p.queries[c]))
                                   /\ \A t \in ToSet(p.queries[c]) : Wanted(c, t)
    /\ p.all \in Seq(ToSet(p.all))
    /\ \A t \in ToSet(p.all) : \E u \in ToSet(User) :
           ToSet(Countries[u]) \subseteq ToSet(p.countries) /\ Contains(Titles[u], t)

\* What is known of the users' profiles.
LEMMA UserData ==
    ASSUME NEW u \in ToSet(User)
    PROVE  /\ Titles[u] \in Seq(ToSet(Titles[u])) /\ Countries[u] \in Seq(ToSet(Countries[u]))
           /\ \A c \in ToSet(Countries[u]), t \in ToSet(Titles[u]) :
                 Aliases[<<c, t>>] \in Seq(ToSet(Aliases[<<c, t>>]))
BY SearchPlansAssumption

\* Membership in a sequence is membership in its set of values.
LEMMA ContainsIs ==
    ASSUME NEW T, NEW s \in Seq(T), NEW v
    PROVE  Contains(s, v) <=> v \in ToSet(s)
<1>1. DOMAIN s = 1 .. Len(s)
  BY LenProperties
<1> QED BY <1>1 DEF Contains, ToSet

\* The users of a scan are users.
LEMMA TurnType ==
    ASSUME NEW P, NEW n \in Nat
    PROVE  Turn(P, n) \in Seq(ToSet(User))
<1> DEFINE s == Select(User, P)
           at(i) == ((i - 1 + n) % Len(s)) + 1
<1>1. s \in Seq(ToSet(User))
  <2>1. s \in Seq(ToSet(User) \cap P) /\ (ToSet(User) \cap P) \in SUBSET ToSet(User)
    BY SelectAll, SearchPlansAssumption
  <2> HIDE DEF s
  <2> QED BY <2>1, SeqOfSubset
<1>2. Turn(P, n) = [i \in DOMAIN s |-> s[at(i)]]
  BY DEF Turn, RotateItems
<1> HIDE DEF s
<1>3. Len(s) \in Nat /\ DOMAIN s = 1 .. Len(s)
  BY <1>1, LenProperties
<1>4. ASSUME NEW i \in 1 .. Len(s)
      PROVE  s[at(i)] \in ToSet(User)
  <2> DEFINE l == Len(s)
             a == i - 1 + n
  <2>1. l \in Nat /\ l > 0 /\ a \in Nat
    BY <1>3
  <2> HIDE DEF l, a
  <2>2. (a % l) + 1 \in 1 .. l
    BY <2>1
  <2> QED BY <1>1, <2>2, ElementOfSeq DEF l, a
<1> HIDE DEF at
<1>5. [i \in 1 .. Len(s) |-> s[at(i)]] \in Seq(ToSet(User))
  BY <1>3, <1>4, IsASeq
<1> QED BY <1>2, <1>3, <1>5

\* The local names of a user's titles.
LEMMA ExpandedType ==
    ASSUME NEW u \in ToSet(User), NEW c \in ToSet(Countries[u])
    PROVE  Expanded(u, c) \in Seq({t \in ToSet(Expanded(u, c)) : Wanted(c, t)})
<1> DEFINE aliases == UNION {ToSet(Aliases[<<c, w>>]) : w \in ToSet(Titles[u])}
           T == {t \in ToSet(Titles[u]) \cup aliases : Wanted(c, t)}
           rows == [i \in DOMAIN Titles[u] |-> <<Titles[u][i]>> \o Aliases[<<c, Titles[u][i]>>]]
           flat == FlattenSeq(rows)
<1>1. Contains(Countries[u], c)
  BY UserData, ContainsIs
<1>2. \A w \in ToSet(Titles[u]) : /\ w \in T /\ Aliases[<<c, w>>] \in Seq(T)
  <2> SUFFICES ASSUME NEW w \in ToSet(Titles[u])
               PROVE  w \in T /\ Aliases[<<c, w>>] \in Seq(T)
    OBVIOUS
  <2>1. w \in T
    BY <1>1 DEF Wanted
  <2>2. Aliases[<<c, w>>] \in Seq(ToSet(Aliases[<<c, w>>]))
    BY UserData
  <2>3. \A t \in ToSet(Aliases[<<c, w>>]) : Contains(Aliases[<<c, w>>], t)
    BY <2>2, ContainsIs
  <2>4. ToSet(Aliases[<<c, w>>]) \in SUBSET T
    BY <1>1, <2>3 DEF Wanted
  <2> HIDE DEF T
  <2> QED BY <2>1, <2>2, <2>4, SeqOfSubset
<1> HIDE DEF T
<1>3. Len(Titles[u]) \in Nat /\ DOMAIN Titles[u] = 1 .. Len(Titles[u])
      /\ \A i \in 1 .. Len(Titles[u]) : Titles[u][i] \in ToSet(Titles[u])
  BY UserData, LenProperties, ElementOfSeq
<1>4. \A i \in 1 .. Len(Titles[u]) : <<Titles[u][i]>> \o Aliases[<<c, Titles[u][i]>>] \in Seq(T)
  <2> SUFFICES ASSUME NEW i \in 1 .. Len(Titles[u])
               PROVE  <<Titles[u][i]>> \o Aliases[<<c, Titles[u][i]>>] \in Seq(T)
    OBVIOUS
  <2>1. Titles[u][i] \in T /\ Aliases[<<c, Titles[u][i]>>] \in Seq(T)
    BY <1>2, <1>3
  <2>2. <<Titles[u][i]>> \in Seq(T)
    BY <2>1
  <2> QED BY <2>1, <2>2, ConcatProperties
<1>5. rows \in Seq(Seq(T))
  BY <1>3, <1>4, IsASeq
<1>6. Expanded(u, c) = RoundRobin(<<flat>>)
  BY DEF Expanded, Image
<1> HIDE DEF rows
<1>7. flat \in Seq(T)
  BY <1>5, FlattenType
<1> HIDE DEF flat
<1>8. <<flat>> \in Seq(Seq(T))
  BY <1>7
<1>9. Expanded(u, c) \in Seq(T)
  BY <1>6, <1>8, RoundRobinAll
<1>10. /\ ToSet(Expanded(u, c)) \subseteq T
       /\ Expanded(u, c) \in Seq(ToSet(Expanded(u, c)))
  BY <1>9, SeqOfValues
<1>11. {t \in ToSet(Expanded(u, c)) : Wanted(c, t)} = ToSet(Expanded(u, c))
  BY <1>10 DEF T
<1> QED BY <1>10, <1>11

\* The titles that are searched in country c are wanted there.
LEMMA QueriesForType ==
    ASSUME NEW c, NEW turn \in Seq(ToSet(User))
    PROVE  /\ QueriesFor(c, turn) \in Seq(ToSet(QueriesFor(c, turn)))
           /\ \A t \in ToSet(QueriesFor(c, turn)) : Wanted(c, t)
<1> DEFINE W == {u \in ToSet(turn) : Contains(Countries[u], c)}
           s == Select(turn, W)
           T == {t \in UNION {ToSet(Expanded(u, c)) : u \in W} : Wanted(c, t)}
           rows == [i \in DOMAIN s |-> Expanded(s[i], c)]
<1>1. ToSet(turn) \subseteq ToSet(User)
  BY SeqOfValues
<1>2. s \in Seq(W)
  <2>1. ToSet(turn) \cap W = W
    OBVIOUS
  <2> HIDE DEF W
  <2> QED BY <2>1, SelectAll
<1>3. QueriesFor(c, turn) = RoundRobin(rows)
  BY DEF QueriesFor, Image
<1> HIDE DEF s
<1>4. \A u \in W : Expanded(u, c) \in Seq(T)
  <2> SUFFICES ASSUME NEW u \in W
               PROVE  Expanded(u, c) \in Seq(T)
    OBVIOUS
  <2>1. u \in ToSet(User) /\ c \in ToSet(Countries[u])
    BY <1>1, UserData, ContainsIs
  <2>2. {t \in ToSet(Expanded(u, c)) : Wanted(c, t)} \in SUBSET T
    OBVIOUS
  <2>3. Expanded(u, c) \in Seq({t \in ToSet(Expanded(u, c)) : Wanted(c, t)})
    BY <2>1, ExpandedType
  <2> HIDE DEF T
  <2> QED BY <2>2, <2>3, SeqOfSubset
<1>5. Len(s) \in Nat /\ DOMAIN s = 1 .. Len(s) /\ \A i \in 1 .. Len(s) : s[i] \in W
  BY <1>2, LenProperties, ElementOfSeq
<1> HIDE DEF W, T
<1>6. rows \in Seq(Seq(T))
  BY <1>4, <1>5, IsASeq
<1> HIDE DEF rows
<1>7. QueriesFor(c, turn) \in Seq(T)
  BY <1>3, <1>6, RoundRobinAll
<1>8. \A t \in T : Wanted(c, t)
  BY DEF T
<1> QED BY <1>7, <1>8, SeqOfValues

\* What merge_user_search_plans makes of the users of a scan.
LEMMA MergedIsGood ==
    ASSUME NEW turn \in Seq(ToSet(User))
    PROVE  GoodPlan(Merged(turn))
<1> DEFINE U == ToSet(turn)
           C == UNION {ToSet(Countries[u]) : u \in U}
           A == UNION {ToSet(Titles[u]) : u \in U}
           places == [i \in DOMAIN turn |-> Countries[turn[i]]]
           titles == [i \in DOMAIN turn |-> Titles[turn[i]]]
           countries == RoundRobin(places)
           all == RoundRobin(titles)
           queries == [c \in ToSet(countries) |-> QueriesFor(c, turn)]
           m == Merged(turn)
<1>1. U \subseteq ToSet(User) /\ Len(turn) \in Nat /\ DOMAIN turn = 1 .. Len(turn)
      /\ \A i \in 1 .. Len(turn) : turn[i] \in U
  BY SeqOfValues, LenProperties DEF ToSet
<1>2. m = [countries |-> countries, queries |-> queries, all |-> all]
  BY DEF Merged, Image
<1>3. \A u \in U : Countries[u] \in Seq(C) /\ Titles[u] \in Seq(A)
  <2> SUFFICES ASSUME NEW u \in U
               PROVE  Countries[u] \in Seq(C) /\ Titles[u] \in Seq(A)
    OBVIOUS
  <2>1. Countries[u] \in Seq(ToSet(Countries[u])) /\ Titles[u] \in Seq(ToSet(Titles[u]))
    BY <1>1, UserData
  <2>2. ToSet(Countries[u]) \in SUBSET C /\ ToSet(Titles[u]) \in SUBSET A
    OBVIOUS
  <2> HIDE DEF C, A
  <2> QED BY <2>1, <2>2, SeqOfSubset
<1>4. /\ places \in Seq(Seq(C)) /\ titles \in Seq(Seq(A))
      /\ DOMAIN places = DOMAIN turn /\ DOMAIN titles = DOMAIN turn
      /\ \A i \in DOMAIN turn : places[i] = Countries[turn[i]] /\ titles[i] = Titles[turn[i]]
  <2> HIDE DEF C, A, U
  <2> QED BY <1>1, <1>3, IsASeq
<1> HIDE DEF places, titles
<1>5. /\ countries \in Seq(C) /\ all \in Seq(A)
      /\ ToSet(countries) = UNION {ToSet(places[i]) : i \in DOMAIN places}
      /\ ToSet(all) = UNION {ToSet(titles[i]) : i \in DOMAIN titles}
  <2> HIDE DEF C, A
  <2> QED BY <1>4, RoundRobinAll
<1> HIDE DEF countries, all
<1>6. countries \in Seq(ToSet(countries)) /\ all \in Seq(ToSet(all))
  <2> HIDE DEF C, A
  <2> QED BY <1>5, SeqOfValues
<1>7. \A t \in ToSet(all) : \E u \in ToSet(User) :
           ToSet(Countries[u]) \subseteq ToSet(countries) /\ Contains(Titles[u], t)
  <2> SUFFICES ASSUME NEW t \in ToSet(all)
               PROVE  \E u \in ToSet(User) :
                        ToSet(Countries[u]) \subseteq ToSet(countries) /\ Contains(Titles[u], t)
    OBVIOUS
  <2>1. PICK i \in DOMAIN turn : t \in ToSet(titles[i])
    BY <1>4, <1>5
  <2>2. turn[i] \in ToSet(User) /\ t \in ToSet(Titles[turn[i]])
    BY <1>1, <1>4, <2>1
  <2>3. ToSet(Countries[turn[i]]) \subseteq ToSet(countries)
    BY <1>4, <1>5
  <2>4. Contains(Titles[turn[i]], t)
    BY <2>2, UserData, ContainsIs
  <2> QED BY <2>2, <2>3, <2>4
<1>8. \A c \in ToSet(countries) : /\ QueriesFor(c, turn) \in Seq(ToSet(QueriesFor(c, turn)))
                                  /\ \A t \in ToSet(QueriesFor(c, turn)) : Wanted(c, t)
  BY QueriesForType
<1>9. /\ m.countries = countries /\ m.all = all /\ DOMAIN m.queries = ToSet(countries)
      /\ \A c \in ToSet(countries) : m.queries[c] = QueriesFor(c, turn)
  BY <1>2
<1> HIDE DEF m
<1>10. GoodPlan(m)
  BY <1>6, <1>7, <1>8, <1>9 DEF GoodPlan
<1> QED BY <1>10 DEF m

\* What may be asked of source s.
Allowed(s, q) ==
    \E u \in ToSet(User) :
        \/ Wants(u, q[1], q[2])
        \/ /\ s = "jooble" /\ q[1] = Germany
           /\ ToSet(Countries[u]) \cap JoobleSupported = {} /\ Contains(Titles[u], q[2])
        \/ /\ s = "builtin" /\ q[1] = Germany
           /\ \E c \in ToSet(Countries[u]) \ BuiltInSupported : Wants(u, c, q[2])

PlansInv == PlansTypeOK /\ GoodPlan(params) /\ NoForeignQuery

\* The first entries, and the window of a slot, hold values of the sequence.
LEMMA WindowValues ==
    ASSUME NEW s, s \in Seq(ToSet(s)), NEW n \in Nat, hour \in Nat
    PROVE  ToSet(FirstOf(s, n)) \subseteq ToSet(s) /\ ToSet(WindowOf(s, n)) \subseteq ToSet(s)
<1>1. ASSUME NEW r \in Seq(ToSet(s))
      PROVE  ToSet(FirstOf(r, n)) \subseteq ToSet(s)
  <2> DEFINE m == IF n < Len(r) THEN n ELSE Len(r)
  <2>1. m \in Nat /\ m <= Len(r) /\ Len(r) \in Nat
    BY LenProperties
  <2>2. FirstOf(r, n) = SubSeq(r, 1, m)
    BY DEF FirstOf
  <2>3. SubSeq(r, 1, m) \in Seq(ToSet(s))
    <3> HIDE DEF m
    <3> QED BY <2>1, SubSeqProperties
  <2> QED BY <2>2, <2>3, SeqOfValues
<1>2. Len(s) > n => RotateItems(s, Slot * n) \in Seq(ToSet(s))
  <2> SUFFICES ASSUME Len(s) > n
               PROVE  RotateItems(s, Slot * n) \in Seq(ToSet(s))
    OBVIOUS
  <2> DEFINE l == Len(s)
             k == Slot * n
             at(i) == ((i - 1 + k) % l) + 1
  <2>1. l \in Nat /\ l > 0 /\ DOMAIN s = 1 .. l /\ k \in Nat
    <3>1. Slot \in Nat
      BY DEF Slot
    <3> HIDE DEF Slot
    <3> QED BY <3>1, LenProperties
  <2>2. RotateItems(s, k) = [i \in 1 .. l |-> s[at(i)]]
    BY <2>1 DEF RotateItems
  <2> HIDE DEF l, k
  <2>3. \A i \in 1 .. l : at(i) \in 1 .. l
    BY <2>1
  <2>4. \A i \in 1 .. l : s[at(i)] \in ToSet(s)
    BY <2>3, ElementOfSeq DEF l
  <2> HIDE DEF at
  <2> QED BY <2>1, <2>2, <2>4, IsASeq DEF k
<1> QED BY <1>1, <1>2 DEF WindowOf

\* A country of the plan is searched for its titles only.
LEMMA QueriesOfPlan ==
    ASSUME GoodPlan(params), NEW c \in ToSet(params.countries)
    PROVE  /\ QueriesIn(c) \in Seq(ToSet(QueriesIn(c)))
           /\ \A t \in ToSet(QueriesIn(c)) : Wanted(c, t)
BY DEF GoodPlan, QueriesIn

\* Any source may be asked for what somebody of the plan wants.
LEMMA WantedAllowed ==
    ASSUME NEW c, NEW t, Wanted(c, t), NEW s
    PROVE  Allowed(s, <<c, t>>)
BY DEF Wanted, Allowed, Wants

\* Adzuna's pairs come from the plan.
LEMMA AdzunaAllowed ==
    ASSUME GoodPlan(params), NEW q \in Adzuna
    PROVE  Allowed("adzuna", q)
<1>1. PICK c \in ToSet(params.countries) : q \in PairsOf(c, QueriesIn(c))
  BY DEF Adzuna
<1>2. PICK t \in ToSet(QueriesIn(c)) : q = <<c, t>>
  BY <1>1 DEF PairsOf
<1> QED BY <1>2, QueriesOfPlan, WantedAllowed

\* JobSpy's window comes from the plan.
LEMMA JobSpyAllowed ==
    ASSUME GoodPlan(params), hour \in Nat, NEW q \in JobSpy
    PROVE  Allowed("jobspy", q)
<1>1. PICK c \in ToSet(WindowOf(params.countries, JobSpyCountries)) :
         q \in PairsOf(c, WindowOf(QueriesIn(c), JobSpyQueries))
  BY DEF JobSpy
<1>2. PICK t \in ToSet(WindowOf(QueriesIn(c), JobSpyQueries)) : q = <<c, t>>
  BY <1>1 DEF PairsOf
<1>3. JobSpyCountries \in Nat /\ JobSpyQueries \in Nat
  BY SearchPlansAssumption
<1>4. c \in ToSet(params.countries)
  BY <1>1, <1>3, WindowValues DEF GoodPlan
<1>5. t \in ToSet(QueriesIn(c))
  BY <1>2, <1>3, <1>4, QueriesOfPlan, WindowValues
<1> QED BY <1>2, <1>4, <1>5, QueriesOfPlan, WantedAllowed

\* Jooble is asked in a country of the plan that it knows, or, when there is
\* none, in its default country.
LEMMA JoobleAllowed ==
    ASSUME GoodPlan(params), hour \in Nat, NEW q \in Jooble
    PROVE  Allowed("jooble", q)
<1> DEFINE supported == Select(params.countries, JoobleSupported)
           d == IF supported = <<>> THEN Germany
                ELSE supported[(Slot % Len(supported)) + 1]
<1>0. params.countries \in Seq(ToSet(params.countries)) /\ params.all \in Seq(ToSet(params.all))
  BY DEF GoodPlan
<1>1. /\ supported \in Seq(ToSet(params.countries) \cap JoobleSupported)
      /\ ToSet(supported) = ToSet(params.countries) \cap JoobleSupported
  BY <1>0, SelectAll
<1>2. q \in PairsOf(d, FirstOf(QueriesIn(d), JoobleQueries))
  BY DEF Jooble
<1> HIDE DEF supported
<1>3. PICK t \in ToSet(FirstOf(QueriesIn(d), JoobleQueries)) : q = <<d, t>>
  BY <1>2 DEF PairsOf
<1>4. JoobleQueries \in Nat
  BY SearchPlansAssumption
<1>5. CASE d \in ToSet(params.countries)
  <2> HIDE DEF d
  <2>1. t \in ToSet(QueriesIn(d))
    BY <1>3, <1>4, <1>5, QueriesOfPlan, WindowValues
  <2> QED BY <1>3, <1>5, <2>1, QueriesOfPlan, WantedAllowed
<1>6. CASE d \notin ToSet(params.countries)
  <2>1. supported = <<>>
    <3> SUFFICES ASSUME supported # <<>>
                 PROVE  FALSE
      OBVIOUS
    <3> DEFINE l == Len(supported)
    <3>1. l \in Nat /\ l > 0
      BY <1>1, EmptySeq, LenProperties
    <3>2. Slot \in Nat
      BY DEF Slot
    <3>3. (Slot % l) + 1 \in 1 .. l
      <4> HIDE DEF l, Slot
      <4> QED BY <3>1, <3>2
    <3>4. supported[(Slot % l) + 1] \in ToSet(params.countries) \cap JoobleSupported
      BY <1>1, <3>3, ElementOfSeq
    <3> QED BY <1>6, <3>4
  <2>2. d = Germany
    BY <2>1
  <2>3. ToSet(<<>>) = {}
    BY DEF ToSet
  <2>4. ToSet(params.countries) \cap JoobleSupported = {}
    BY <1>1, <2>1, <2>3
  <2>5. QueriesIn(d) = params.all
    BY <1>6 DEF QueriesIn, GoodPlan
  <2> HIDE DEF d
  <2>6. t \in ToSet(params.all)
    BY <1>0, <1>3, <1>4, <2>5, WindowValues
  <2>7. PICK u \in ToSet(User) :
            ToSet(Countries[u]) \subseteq ToSet(params.countries) /\ Contains(Titles[u], t)
    BY <2>6 DEF GoodPlan
  <2>8. ToSet(Countries[u]) \cap JoobleSupported = {}
    BY <2>4, <2>7
  <2> QED BY <1>3, <2>2, <2>7, <2>8 DEF Allowed
<1> QED BY <1>5, <1>6

\* BuiltIn is asked in a country of the plan, or in Germany for the titles of
\* one that it does not know.
LEMMA BuiltInAllowed ==
    ASSUME GoodPlan(params), hour \in Nat, NEW q \in BuiltIn
    PROVE  Allowed("builtin", q)
<1>1. PICK c \in ToSet(params.countries) :
         q \in PairsOf(IF c \in BuiltInSupported THEN c ELSE Germany,
                      FirstOf(QueriesIn(c), BuiltInQueries))
  BY DEF BuiltIn
<1>2. PICK t \in ToSet(FirstOf(QueriesIn(c), BuiltInQueries)) :
         q = <<IF c \in BuiltInSupported THEN c ELSE Germany, t>>
  BY <1>1 DEF PairsOf
<1>3. BuiltInQueries \in Nat
  BY SearchPlansAssumption
<1>4. Wanted(c, t)
  BY <1>2, <1>3, QueriesOfPlan, WindowValues
<1>5. CASE c \in BuiltInSupported
  BY <1>2, <1>4, <1>5, WantedAllowed
<1>6. CASE c \notin BuiltInSupported
  <2>1. q[1] = Germany /\ q[2] = t
    BY <1>2, <1>6
  <2>2. PICK u \in ToSet(User) : Wants(u, c, t)
    BY <1>4 DEF Wanted, Wants
  <2>3. c \in ToSet(Countries[u])
    BY <2>2, UserData, ContainsIs DEF Wants
  <2> QED BY <1>6, <2>1, <2>2, <2>3 DEF Allowed
<1> QED BY <1>5, <1>6

\* The number of plans is never more than that of the users.
LEMMA OffsetStays ==
    ASSUME planned \subseteq ToSet(User), planned # {}, offset \in Nat
    PROVE  NextOffset \in Nat /\ NextOffset < Len(User)
<1>1. Len(User) \in Nat /\ IsFiniteSet(ToSet(User)) /\ Cardinality(ToSet(User)) <= Len(User)
  <2>1. User \in Seq(ToSet(User))
    BY SearchPlansAssumption
  <2>2. Len(User) \in Nat /\ DOMAIN User = 1 .. Len(User) /\ User \in [1 .. Len(User) -> ToSet(User)]
    BY <2>1, LenProperties
  <2>3. User \in Surjection(1 .. Len(User), ToSet(User))
    BY <2>2 DEF Surjection, ToSet
  <2>4. IsFiniteSet(1 .. Len(User)) /\ Cardinality(1 .. Len(User)) = Len(User)
    BY <2>2, FS_Interval
  <2> QED BY <2>2, <2>3, <2>4, FS_Surjection
<1> DEFINE n == Cardinality(planned)
<1>2. n \in Nat /\ n > 0 /\ n <= Len(User)
  <2>1. IsFiniteSet(planned) /\ n <= Cardinality(ToSet(User)) /\ n \in Nat
        /\ Cardinality(ToSet(User)) \in Nat
    BY <1>1, FS_Subset, FS_CardinalityType
  <2>2. n # 0
    BY <2>1, FS_EmptySet
  <2> HIDE DEF n
  <2> QED BY <1>1, <2>1, <2>2
<1>3. NextOffset = (offset + 1) % n
  BY DEF NextOffset
<1> HIDE DEF n
<1> QED BY <1>1, <1>2, <1>3

\* The empty plan names nothing.
LEMMA NoParamsGood == GoodPlan(NoParams)
<1>1. ToSet(<<>>) = {} /\ DOMAIN <<>> = {} /\ <<>> \in Seq({})
  BY EmptySeq DEF ToSet
<1>2. NoParams.countries = <<>> /\ NoParams.queries = <<>> /\ NoParams.all = <<>>
  BY DEF NoParams
<1> QED BY <1>1, <1>2 DEF GoodPlan

\* A scan plans for the users of one turn.
LEMMA ScanKeeps ==
    ASSUME PlansInv, Scan
    PROVE  PlansInv'
<1>0. asked' = [s \in Source |-> {}] /\ Specific \subseteq Source
  BY DEF Scan, Source
<1>1. CASE planned = {}
  <2>1. NoForeignQuery'
    BY <1>0 DEF NoForeignQuery
  <2> QED BY <1>0, <1>1, <2>1 DEF PlansInv, Scan, PlansTypeOK, GoodPlan
<1>2. CASE planned # {}
  <2>1. offset' = NextOffset /\ params' = MergedPlan[<<planned, offset>>] /\ todo' = Enabled
        /\ started' = TRUE /\ UNCHANGED <<hour, planned, refused, switches, breaks>>
    BY <1>2 DEF Scan
  <2>2. planned \subseteq ToSet(User) /\ offset \in Nat /\ (offset = 0 \/ offset < Len(User))
    BY DEF PlansInv, PlansTypeOK
  <2>3. offset' \in Nat /\ offset' < Len(User)
    BY <1>2, <2>1, <2>2, OffsetStays
  <2>4. <<planned, offset>> \in (SUBSET ToSet(User)) \X (0 .. Len(User) - 1)
    <3>1. Len(User) \in Nat
      BY SearchPlansAssumption, LenProperties
    <3> QED BY <2>1, <2>2, <2>3, <3>1
  <2>5. params' = Merged(Turn(planned, offset))
    <3> DEFINE q == <<planned, offset>>
    <3>1. q[1] = planned /\ q[2] = offset
      OBVIOUS
    <3> HIDE DEF q
    <3>2. MergedPlan[q] = IF q[1] = {} THEN NoParams ELSE Merged(Turn(q[1], q[2]))
      BY <2>4 DEF MergedPlan, q
    <3> QED BY <1>2, <2>1, <3>1, <3>2 DEF q
  <2>6. GoodPlan(params)'
    <3>1. GoodPlan(Merged(Turn(planned, offset)))
      BY <2>2, TurnType, MergedIsGood
    <3>2. PICK p : p = Merged(Turn(planned, offset))
      OBVIOUS
    <3>3. GoodPlan(p) /\ params' = p
      BY <2>5, <3>1, <3>2
    <3> QED BY <3>3
  <2>7. PlansTypeOK'
    BY <1>0, <2>1, <2>3, <2>6 DEF PlansInv, PlansTypeOK, GoodPlan
  <2>8. NoForeignQuery'
    BY <1>0 DEF NoForeignQuery
  <2> QED BY <2>6, <2>7, <2>8 DEF PlansInv
<1> QED BY <1>1, <1>2

\* What a source is asked is in its plan.
LEMMA AskKeeps ==
    ASSUME PlansInv, NEW s \in Source, Ask(s)
    PROVE  PlansInv'
<1>1. hour \in Nat /\ DOMAIN asked = Source /\ GoodPlan(params)
  BY DEF PlansInv, PlansTypeOK
<1>2. params' = params \/ params' = NoParams
  BY DEF Ask
<1>3. GoodPlan(params)'
  BY <1>1, <1>2, NoParamsGood
<1>4. /\ DOMAIN asked' = Source /\ \A r \in Source \ {s} : asked'[r] = asked[r]
      /\ asked'[s] = Queries(s)
  BY <1>1 DEF Ask
<1>5. ASSUME s \in Specific
      PROVE  \A q \in asked'[s] : Allowed(s, q)
  <2>1. CASE s = "adzuna"
    BY <1>1, <1>4, <2>1, AdzunaAllowed DEF Queries
  <2>2. CASE s = "jooble"
    BY <1>1, <1>4, <2>2, JoobleAllowed DEF Queries
  <2>3. CASE s = "jobspy"
    BY <1>1, <1>4, <2>3, JobSpyAllowed DEF Queries
  <2>4. CASE s = "builtin"
    BY <1>1, <1>4, <2>4, BuiltInAllowed DEF Queries
  <2> QED BY <1>5, <2>1, <2>2, <2>3, <2>4 DEF Specific
<1>6. \A r \in Specific : \A q \in asked[r] : Allowed(r, q)
  BY DEF PlansInv, NoForeignQuery, Allowed
<1>7. \A r \in Specific : \A q \in asked'[r] : Allowed(r, q)
  BY <1>4, <1>5, <1>6 DEF Source
<1>8. NoForeignQuery'
  BY <1>7 DEF NoForeignQuery, Allowed
<1>9. PlansTypeOK'
  <2>1. ToSet(params.countries)' = DOMAIN params'.queries
    BY <1>3 DEF GoodPlan
  <2> QED BY <1>4, <2>1 DEF PlansInv, PlansTypeOK, Ask
<1> QED BY <1>3, <1>8, <1>9 DEF PlansInv

\* What is known of plans and queries in every reachable state.
LEMMA PlansInvHolds == PlansSpec => []PlansInv
<1>1. PlansInit => PlansInv
  <2> SUFFICES ASSUME PlansInit
               PROVE  PlansInv
    OBVIOUS
  <2>1. GoodPlan(params)
    BY NoParamsGood DEF PlansInit
  <2>2. PlansTypeOK
    <3>1. 0 \in 0 .. 23 /\ 0 \in 0 .. MaxSwitches /\ 0 \in 0 .. MaxBreaks /\ 0 \in Nat
      BY SearchPlansAssumption
    <3>2. ToSet(params.countries) = DOMAIN params.queries
      BY <2>1 DEF GoodPlan
    <3> QED BY <3>1, <3>2 DEF PlansInit, PlansTypeOK
  <2>3. NoForeignQuery
    BY DEF PlansInit, NoForeignQuery, Source
  <2> QED BY <2>1, <2>2, <2>3 DEF PlansInv
<1>2. ASSUME PlansInv, [PlansNext]_plansVars
      PROVE  PlansInv'
  <2>1. CASE Scan
    BY <1>2, <2>1, ScanKeeps
  <2>2. ASSUME NEW s \in Source, Ask(s)
        PROVE  PlansInv'
    BY <1>2, <2>2, AskKeeps
  <2>3. CASE NextHour
    <3>1. hour' \in 0 .. 23 /\ started' = FALSE
      BY <1>2, <2>3 DEF NextHour, PlansInv, PlansTypeOK
    <3> QED BY <1>2, <2>3, <3>1 DEF NextHour, PlansInv, PlansTypeOK, NoForeignQuery
  <2>4. CASE JoobleRefuses
    <3>1. (breaks' = breaks /\ refused' \in BOOLEAN) \/ breaks' \in 0 .. MaxBreaks
      BY <1>2, <2>4 DEF JoobleRefuses, PlansInv, PlansTypeOK
    <3> QED BY <1>2, <2>4, <3>1, SearchPlansAssumption
            DEF JoobleRefuses, PlansInv, PlansTypeOK, NoForeignQuery
  <2>5. CASE RestartScans
    <3>1. breaks' \in 0 .. MaxBreaks
      BY <1>2, <2>5, SearchPlansAssumption DEF RestartScans, PlansInv, PlansTypeOK
    <3>2. GoodPlan(params)'
      BY <2>5, NoParamsGood DEF RestartScans
    <3>3. PlansTypeOK'
      BY <1>2, <2>5, <3>1, <3>2 DEF RestartScans, PlansInv, PlansTypeOK, GoodPlan
    <3> QED BY <1>2, <2>5, <3>2, <3>3 DEF RestartScans, PlansInv, NoForeignQuery
  <2>6. ASSUME NEW u \in ToSet(User), Switch(u)
        PROVE  PlansInv'
    <3>1. switches' \in 0 .. MaxSwitches /\ planned' \subseteq ToSet(User)
      BY <1>2, <2>6, SearchPlansAssumption DEF Switch, PlansInv, PlansTypeOK
    <3> QED BY <1>2, <2>6, <3>1 DEF Switch, PlansInv, PlansTypeOK, NoForeignQuery
  <2>7. CASE UNCHANGED plansVars
    BY <1>2, <2>7 DEF plansVars, PlansInv, PlansTypeOK, NoForeignQuery
  <2> QED BY <1>2, <2>1, <2>2, <2>3, <2>4, <2>5, <2>6, <2>7 DEF PlansNext
<1> QED BY <1>1, <1>2, PTL DEF PlansSpec

\* The type invariant: the offset stays within the number of users.
THEOREM PlansTypes == PlansSpec => []PlansTypeOK
<1>1. PlansInv => PlansTypeOK
  BY DEF PlansInv
<1> QED BY <1>1, PlansInvHolds, PTL

\* However users' plans are merged, rotated and cut into windows, a source with
\* queries for each country is asked for a title there only when one user wants
\* both, but for the searches in Germany: Jooble's for users none of whose
\* countries it knows, and BuiltIn's for a country that it does not know
\* (merge_user_search_plans, queries_for_country).
THEOREM NobodyElsesQueries == PlansSpec => []NoForeignQuery
<1>1. PlansInv => NoForeignQuery
  BY DEF PlansInv
<1> QED BY <1>1, PlansInvHolds, PTL

-----------------------------------------------------------------------------
(* Eight services side by side.                                            *)

\* Each service behaves as its own specification says, whichever runs.
THEOREM EachServiceRuns ==
    ServicesSpec => /\ LimitSpec /\ AccessSpec /\ PlansSpec /\ EmbedSpec /\ TrackerSpec
                    /\ StatsSpec /\ BackupsSpec /\ BotSpec
<1>1. ServicesInit => /\ LimitInit /\ AccessInit /\ PlansInit /\ EmbedInit /\ TrackerInit
                      /\ StatsInit /\ BackupsInit /\ BotInit
  BY DEF ServicesInit
<1>2. [ServicesNext]_servicesVars => [LimitNext]_limitVars
  BY DEF ServicesNext, servicesVars
<1>3. [ServicesNext]_servicesVars => [AccessNext]_accessVars
  BY DEF ServicesNext, servicesVars
<1>4. [ServicesNext]_servicesVars => [PlansNext]_plansVars
  BY DEF ServicesNext, servicesVars
<1>5. [ServicesNext]_servicesVars => [EmbedNext]_embedVars
  BY DEF ServicesNext, servicesVars
<1>6. [ServicesNext]_servicesVars => [TrackerNext]_trackerVars
  BY DEF ServicesNext, servicesVars
<1>7. [ServicesNext]_servicesVars => [StatsNext]_statsVars
  BY DEF ServicesNext, servicesVars
<1>8. [ServicesNext]_servicesVars => [BackupsNext]_backupsVars
  BY DEF ServicesNext, servicesVars
<1>9. [ServicesNext]_servicesVars => [BotNext]_botVars
  BY DEF ServicesNext, servicesVars
<1>10. ServicesSpec => ServicesInit /\ [][ServicesNext]_servicesVars
  BY DEF ServicesSpec
<1> QED
  BY <1>1, <1>2, <1>3, <1>4, <1>5, <1>6, <1>7, <1>8, <1>9, <1>10, PTL
     DEF LimitSpec, AccessSpec, PlansSpec, EmbedSpec, TrackerSpec, StatsSpec, BackupsSpec,
         BotSpec

\* Every service keeps its types, whichever runs and for any sizes.
THEOREM ServicesTypes == ServicesSpec => []ServicesTypeOK
<1>1. /\ LimitTypeOK /\ AccessTypeOK /\ PlansTypeOK /\ EmbedTypeOK /\ TrackerTypeOK
      /\ StatsTypeOK /\ BackupsTypeOK /\ BotTypeOK
      => ServicesTypeOK
  BY DEF ServicesTypeOK
<1> QED
  BY <1>1, EachServiceRuns, LimitTypes, AccessTypes, PlansTypes, EmbedTypes, TrackerTypes,
     StatsTypes, BackupsTypes, BotTypes, PTL
=============================================================================
