------------------------------ MODULE MCTTLCache ------------------------------
(***************************************************************************)
(* One node, looked up by two calls at a time.                             *)
(***************************************************************************)
EXTENDS TTLCache, TLC

CONSTANTS k1, c1, c2

MCKeys == {k1}
MCCallers == {c1, c2}
Symmetry == Permutations(MCCallers)
===============================================================================
