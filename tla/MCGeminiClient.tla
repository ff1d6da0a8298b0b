--------------------------- MODULE MCGeminiClient ---------------------------
(* GeminiClient for TLC: the threads are interchangeable.                   *)
EXTENDS GeminiClient, TLC

Symmetry == Permutations(Worker)
=============================================================================
