----------------------------- MODULE MCScoring -----------------------------
(* Small instances of Scoring for TLC. *)
EXTENDS Scoring, TLC

CONSTANT acme

\* All jobs are vacancies of one company: rejecting one concerns the others.
OneEmployer == [j \in Job |-> acme]
=============================================================================
