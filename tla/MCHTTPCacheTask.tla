--------------------------- MODULE MCHTTPCacheTask ---------------------------
(***************************************************************************)
(* Two keys of two clusters, one of which has both nodes and the other one.*)
(***************************************************************************)
EXTENDS HTTPCacheTask, TLC

CONSTANTS n1, n2, k1, k2

MCNodes     == {n1, n2}
MCKeys      == {k1, k2}
MCClusters  == {1, 2}
MCClusterOf == k1 :> 1 @@ k2 :> 2
MCNodesIn   == 1 :> {n1, n2} @@ 2 :> {n2}
Apart       == 1 :> {n1} @@ 2 :> {n2}
==============================================================================
