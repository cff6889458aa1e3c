------------------------------- MODULE MCFair -------------------------------
(***************************************************************************)
(* Small instances of Scoring and of Vacancies for their progress under    *)
(* fairness, side by side: in each behaviour one of them runs.             *)
(***************************************************************************)
EXTENDS Scoring, TLC

CONSTANTS acme, c1, d1, h1, h2, de, NoVacancy, NoLink, NoLand

VARIABLES
    part,  \* the one that runs
    row, scan, check, cleanup, app, live, dns, ages, closings, outages

\* Backfill and idle pass: all vacancies are of one company.
OneEmployer == [j \in Job |-> acme]

\* A click-out and the same vacancy spelled otherwise, with a direct link and
\* an earlier date.
Links == INSTANCE Vacancies WITH
    Posting <- {c1, d1}, Hash <- {h1, h2}, Land <- {de},
    HashOf <- (c1 :> h1) @@ (d1 :> h2), LandOf <- [h \in {h1, h2} |-> de],
    Alike <- {<<h1, h2>>, <<h2, h1>>}, Direct <- {d1}, Wealth <- [p \in {c1, d1} |-> 1],
    Posted <- (c1 :> 2) @@ (d1 :> 1),
    NoRow <- NoVacancy, Scanner <- {"s1"}, MaxBatch <- 1, BulkMin <- 2, PerRun <- 1,
    MaxFailures <- 2, Sent <- {}, MaxAges <- 0, MaxClosings <- 1, MaxOutages <- 1,
    MaxRestarts <- 1, MaxEvents <- 3

linksOnly == <<row, scan, check, cleanup, app, live, dns, ages, closings, outages>>
scoresOnly == <<profile, rows, hidden, rejected, request, breakerOpen, task, edits, flips, steady, pushed>>

bothVars == <<part, restarts, scoresOnly, linksOnly>>

FairInit == part \in {"scores", "links"} /\ Init /\ Links!Init

FairNext ==
    /\ part' = part
    /\ \/ part = "scores" /\ Next /\ UNCHANGED linksOnly
       \/ part = "links" /\ Links!Next /\ UNCHANGED scoresOnly

BothFairSpec ==
    /\ FairInit /\ [][FairNext]_bothVars
    /\ part = "scores" => Fairness
    /\ part = "links" => Links!Fairness

\* New and strong vacancies get a valid score in the end (_backfill_score)...
ScoresDrain == part = "scores" => QueueDrains

\* ... and the status of a vacancy follows its page (run_url_check_pass).
LinksFollow == part = "links" => Links!StatusFollowsPage
=============================================================================
