---------------------------- MODULE MCTokenCache ----------------------------
(***************************************************************************)
(* Instance of TokenCache for TLC: two overlapping calls, tokens with a    *)
(* told and an untold lifetime, and a clock that outlives them.            *)
(***************************************************************************)
EXTENDS TokenCache, TLC

CONSTANTS c1, c2

MCCalls == {c1, c2}
MCLifetimes == {0, 3}

Symmetry == Permutations(MCCalls)
=============================================================================
