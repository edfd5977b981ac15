------------------------- MODULE MCGenerationCache -------------------------
(* A small instance of GenerationCache for TLC: two keys in a cache of     *)
(* one, two goroutines that look up and two that change rows.              *)
EXTENDS GenerationCache

CONSTANTS k1, k2, a1, a2
=============================================================================
