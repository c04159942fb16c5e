----------------------------- MODULE MCSysLocker -----------------------------
(***************************************************************************)
(* Two API nodes, one with two goroutines that ask for versions and one    *)
(* with one.  The two goroutines of one node are interchangeable.          *)
(***************************************************************************)
EXTENDS SysLocker, TLC

CONSTANTS api1, api2, p1, p2, p3

MCAPINodes == {api1, api2}
MCProcs == {p1, p2, p3}
MCHome == (p1 :> api1) @@ (p2 :> api1) @@ (p3 :> api2)

Symmetry == Permutations({p1, p2})
==============================================================================
