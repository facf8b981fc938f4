--------------------------- MODULE MCAccountTouch ---------------------------
(***************************************************************************)
(* Instance of AccountTouch for TLC: more keys and ids than the limit, one *)
(* of them a legacy entry, and a clock that outlives the TTL.              *)
(***************************************************************************)
EXTENDS AccountTouch, TLC

CONSTANTS k1, k2, k3, k4

MCKeys == {k1, k2, k3, k4}
MCLegacy == {k4}
MCIds == 1..3

Symmetry == Permutations({k1, k2, k3})
=============================================================================
