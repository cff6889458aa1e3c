------------------------------- MODULE Orders -------------------------------
(***************************************************************************)
(* Lists ordered by what comes before what.                                *)
(***************************************************************************)
EXTENDS Integers, FiniteSets, Sequences

\* The domain of ahead; what has i - 1 others ahead of it comes i-th.
Ranked(ahead) ==
    [i \in 1 .. Cardinality(DOMAIN ahead) |->
        CHOOSE v \in DOMAIN ahead : Cardinality(ahead[v]) = i - 1]
=============================================================================
