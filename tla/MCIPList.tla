------------------------------ MODULE MCIPList ------------------------------
(***************************************************************************)
(* Two API nodes with a goroutine each, one edge node, one address: the    *)
(* two API nodes with their goroutines are alike.                          *)
(***************************************************************************)
EXTENDS IPList

CONSTANTS api1, api2, p1, p2, n1, x

MCAPINodes == {api1, api2}
MCProcs    == {p1, p2}
MCHome     == (p1 :> api1) @@ (p2 :> api2)
MCVersions == 1..3
MCNodes    == {n1}
MCIPs      == {x}

Symmetry == {[v \in {api1, api2, p1, p2} |-> v],
             (api1 :> api2) @@ (api2 :> api1) @@ (p1 :> p2) @@ (p2 :> p1)}
==============================================================================
