---------------------------- MODULE VersionSource ----------------------------
(***************************************************************************)
(* What a source of versions promises to its callers, said without rows,   *)
(* locks, transactions or caches: every version is handed out once, and a  *)
(* call gets one above everything its own API node had handed out when the *)
(* call began.  Nothing is promised about two calls that overlap, nor      *)
(* about the order of calls of different API nodes.                        *)
(*                                                                         *)
(* SysLocker implements it as long as no transaction fails after it has    *)
(* published its range; IPList takes its versions from it.                 *)
(***************************************************************************)
EXTENDS Integers

CONSTANTS
  APINodes,   \* API node processes
  Procs,      \* goroutines that ask for versions
  Home,       \* the API node a goroutine runs in
  Versions    \* the versions there are

NoFloor == -1

VARIABLES
  issued,     \* issued[a]: versions API node a has handed out
  floor       \* floor[p]: the version the running call of p has to exceed

vars == <<issued, floor>>

Out == UNION {issued[a] : a \in APINodes}

Init ==
  /\ issued = [a \in APINodes |-> {}]
  /\ floor = [p \in Procs |-> NoFloor]

\* A call of p begins and has to come after f: a version that is out, above all
\* that the API node of p has handed out.
Begin(p, f) ==
  /\ UNCHANGED issued
  /\ f \in Out \cup {NoFloor}
  /\ \A v \in issued[Home[p]] : v <= f
  /\ floor' = [floor EXCEPT ![p] = f]

\* The versions in s reach the caller (a caller's transaction may ask for more
\* than one; the last call of it began at floor[p]).
HandOut(p, s) ==
  /\ s # {} /\ s \subseteq Versions \ Out
  /\ \E v \in s : floor[p] < v
  /\ issued' = [issued EXCEPT ![Home[p]] = @ \cup s]
  /\ floor' = [floor EXCEPT ![p] = NoFloor]

\* The calls of the goroutines in ps come to nothing.
Fail(ps) ==
  /\ UNCHANGED issued
  /\ floor' = [p \in Procs |-> IF p \in ps THEN NoFloor ELSE floor[p]]

\* What a step began, handed out or ended is read off its outcome: the versions
\* are those that have become out, the calls those whose floor has changed.
Next ==
  \/ Fail({p \in Procs : floor'[p] # floor[p]})
  \/ \E p \in Procs : Begin(p, floor'[p])
  \/ \E p \in Procs : HandOut(p, issued'[Home[p]] \ issued[Home[p]])

Spec == Init /\ [][Next]_vars
==============================================================================
