-------------------------- MODULE MCGeminiBreaker --------------------------
(* Small instances of GeminiBreaker for TLC. *)
EXTENDS GeminiBreaker, TLC

Symmetry == Permutations(Caller)
=============================================================================
