----------------------------- MODULE MCBilling -----------------------------
(* Small instances of Billing for TLC. *)
EXTENDS Billing, TLC

SymmetryTx == Permutations(Tx)
Symmetry   == SymmetryTx \cup Permutations(Handler) \cup Permutations(Scanner)
=============================================================================
