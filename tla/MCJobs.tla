------------------------------- MODULE MCJobs -------------------------------
(***************************************************************************)
(* Three small instances of Vacancies side by side: in each behaviour one  *)
(* of them runs.  Vacancies itself has click-outs of one minute, one of    *)
(* them without a country, URL checks and no applications.                 *)
(***************************************************************************)
EXTENDS MCVacancies

VARIABLE part  \* the instance that runs

\* Two scans of postings with dates of their own.
Rivals == INSTANCE Vacancies WITH
    Posted <- OwnMinutes, MaxBatch <- 2, PerRun <- 0, MaxClosings <- 0, MaxOutages <- 0

\* All three postings at once, the cleanup and a user who applies.
Keeper == INSTANCE Vacancies WITH
    MaxBatch <- 3, PerRun <- 0, Sent <- {"applied"}, MaxClosings <- 0, MaxOutages <- 0

\* One scan at a time.
Alone(s) == \A t \in Scanner \ {s} : scan[t].pc = "idle" /\ scan'[t].pc = "idle"

ThreeInit == part \in {"rivals", "feeds", "keeper"} /\ Init

ThreeNext ==
    /\ part' = part
    /\ \/ part = "rivals" /\ Rivals!Next
       \/ part = "feeds"  /\ Next /\ Alone(s1)
       \/ part = "keeper" /\ Keeper!Next /\ Alone(s1)

ThreeSpec == ThreeInit /\ [][ThreeNext]_<<part, vars>>
=============================================================================
