--------------------------------- MODULE Goman ---------------------------------
(***************************************************************************)
(* The register of running goroutines (goman): New and NewWithArgs start a *)
(* goroutine that enters itself in instanceMap under a fresh id, runs, and *)
(* takes itself out again; List is what an API node prints of them.  Both  *)
(* sections hold the one mutex, so each is one step.                       *)
(***************************************************************************)
EXTENDS Integers

CONSTANT Goroutines  \* the goroutines ever started

VARIABLES
  instanceMap,  \* the ids in the register
  instanceId,   \* the last id given, a variable of the package
  pc            \* pc[g]: where the closure of goroutine g is

Init ==
  /\ instanceMap = {} /\ instanceId = 0
  /\ pc = [g \in Goroutines |-> "none"]

New(g) ==
  /\ pc[g] = "none"
  /\ pc' = [pc EXCEPT ![g] = "start"]
  /\ UNCHANGED <<instanceMap, instanceId>>

\* Mutant: the id is not moved on.
RegisterSameId(g) ==
  /\ pc[g] = "start"
  /\ instanceMap' = instanceMap \cup {instanceId}
  /\ pc' = [pc EXCEPT ![g] = "f"]
  /\ UNCHANGED instanceId

Register(g) ==
  /\ pc[g] = "start"
  /\ instanceId' = instanceId + 1
  /\ instanceMap' = instanceMap \cup {instanceId'}
  /\ pc' = [pc EXCEPT ![g] = "f"]

\* f() has returned: what is taken out is the id last given, whoever has it.
Unregister(g) ==
  /\ pc[g] = "f"
  /\ instanceMap' = instanceMap \ {instanceId}
  /\ pc' = [pc EXCEPT ![g] = "end"]
  /\ UNCHANGED instanceId

Running == {g \in Goroutines : pc[g] = "f"}
===============================================================================
