----------------------------- MODULE MCNodeStream -----------------------------
(***************************************************************************)
(* Two streams, of one node or of two; two commands for the same node.      *)
(***************************************************************************)
EXTENDS NodeStream, TLC

CONSTANTS n1, n2, s1, s2, c1, c2

MCNodes   == {n1, n2}
MCStreams == {s1, s2}
MCCalls   == {c1, c2}
MCNodeFor == (c1 :> n1) @@ (c2 :> n1)
MCReporters == {n1}

Symmetry == Permutations({s1, s2}) \cup Permutations({c1, c2})
===============================================================================
