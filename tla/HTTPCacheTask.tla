----------------------------- MODULE HTTPCacheTask -----------------------------
(***************************************************************************)
(* A task that purges or fetches a list of cache keys on every node of the *)
(* clusters they belong to: HTTPCacheTaskDAO and HTTPCacheTaskKeyDAO, the  *)
(* service calls that create, reset and delete the task, and the calls of  *)
(* the nodes that ask for keys and report what became of them.             *)
(*                                                                         *)
(* One task.  Every statement is a step of its own: the calls run without  *)
(* a transaction, at the same time, on any API node.                       *)
(***************************************************************************)
EXTENDS Integers, FiniteSets

CONSTANTS
  Nodes, Keys, Clusters,
  ClusterOf,   \* ClusterOf[k]: the cluster of the site that key k is of
  NodesIn,     \* NodesIn[c]: the nodes of cluster c, on or off
  MaxErrors,   \* bound: keys that fail on a node
  MaxTroubles  \* bound: calls, creations and resets that stop half way, resets,
               \* and times a node is turned off or on

ASSUME CacheAssumption == /\ ClusterOf \in [Keys -> Clusters]
                          /\ NodesIn \in [Clusters -> SUBSET Nodes]
                          /\ {MaxErrors, MaxTroubles} \subseteq Nat

VARIABLES
  task,     \* the row of edgeHTTPCacheTasks, or NoTask
  keys,     \* keys[k]: the row of edgeHTTPCacheTaskKeys, or NoKey
  creating, \* the keys that CreateHTTPCacheTask still has to write, or Idle
  resetting,\* ResetHTTPCacheTask is between its two statements
  on,       \* the nodes that are enabled and on
  call,     \* call[n]: node n's fetch, work and report, or Idle
  ran,      \* history: <<n, k>>: node n has worked on key k since the last reset
  failed,   \* history: <<n, k>>: and the last time it failed
  upset,    \* history: what has come between the task and its end
  errors, troubles

history == <<ran, failed>>
bounds  == <<errors, troubles>>
vars    == <<task, keys, creating, resetting, on, call, history, upset, bounds>>

NoTask == [state |-> "none"]
NoKey  == [state |-> "none"]
Idle   == [pc |-> "idle"]

Trouble == troubles < MaxTroubles /\ troubles' = troubles + 1

Rows == {k \in Keys : keys[k] # NoKey}

Init ==
  /\ task = NoTask
  /\ keys = [k \in Keys |-> NoKey]
  /\ creating = Idle /\ resetting = FALSE
  /\ on = Nodes
  /\ call = [n \in Nodes |-> Idle]
  /\ ran = {} /\ failed = {} /\ upset = {}
  /\ errors = 0 /\ troubles = 0

-----------------------------------------------------------------------------
(***************************************************************************)
(* HTTPCacheTaskService: create, reset, delete.                            *)
(***************************************************************************)

\* The keys of sites that are found; the others are passed over.
CreateTask ==
  /\ task = NoTask
  /\ task' = [state |-> "enabled", isReady |-> FALSE, isDone |-> FALSE, isOk |-> FALSE]
  /\ \E found \in SUBSET Keys : creating' = [pc |-> "keys", todo |-> found]
  /\ UNCHANGED <<keys, resetting, on, call, history, upset, bounds>>

CreateKey(k) ==
  /\ creating.pc = "keys" /\ k \in creating.todo
  /\ keys' = [keys EXCEPT ![k] = [state |-> "row", nodes |-> {}, errors |-> {}, isDone |-> FALSE]]
  /\ creating' = [creating EXCEPT !.todo = @ \ {k}]
  /\ UNCHANGED <<task, resetting, on, call, history, upset, bounds>>

\* UpdateTaskReady, or UpdateTaskStatus(true, true) when there is no key.
CreateTaskEnds ==
  /\ creating.pc = "keys" /\ creating.todo = {}
  /\ creating' = Idle
  /\ task' = IF Rows = {} THEN [task EXCEPT !.isDone = TRUE, !.isOk = TRUE, !.isReady = TRUE]
                          ELSE [task EXCEPT !.isReady = TRUE]
  /\ UNCHANGED <<keys, resetting, on, call, history, upset, bounds>>

CreationStops ==
  /\ creating # Idle
  /\ Trouble
  /\ creating' = Idle
  /\ UNCHANGED <<task, keys, resetting, on, call, history, upset, errors>>

Active == {n \in Nodes : call[n] # Idle}

ResetTask ==
  /\ task # NoTask /\ ~resetting
  /\ Trouble
  /\ task' = [task EXCEPT !.isDone = FALSE, !.isOk = FALSE]
  /\ resetting' = TRUE
  /\ upset' = IF Active = {} /\ creating = Idle THEN upset ELSE upset \cup {"reset"}
  /\ UNCHANGED <<keys, creating, on, call, history, errors>>

ResetCacheKeys ==
  /\ resetting
  /\ keys' = [k \in Keys |-> IF keys[k] = NoKey THEN NoKey
                             ELSE [keys[k] EXCEPT !.isDone = FALSE, !.nodes = {}, !.errors = {}]]
  /\ resetting' = FALSE
  /\ ran' = {} /\ failed' = {}
  /\ UNCHANGED <<task, creating, on, call, upset, bounds>>

ResetStops ==
  /\ resetting
  /\ Trouble
  /\ resetting' = FALSE
  /\ upset' = upset \cup {"reset"}
  /\ UNCHANGED <<task, keys, creating, on, call, history, errors>>

DisableTask ==
  /\ task.state = "enabled"
  /\ task' = [task EXCEPT !.state = "disabled"]
  /\ UNCHANGED <<keys, creating, resetting, on, call, history, upset, bounds>>

\* A node of the cluster is turned on or off.
Switch(n) ==
  /\ Trouble
  /\ on' = IF n \in on THEN on \ {n} ELSE on \cup {n}
  /\ upset' = upset \cup {"switch"}
  /\ UNCHANGED <<task, keys, creating, resetting, call, history, errors>>

-----------------------------------------------------------------------------
(***************************************************************************)
(* A node's round: FindDoingTaskKeys, the node's work, and the report.     *)
(***************************************************************************)

\* Mutant: the cluster of the node is not asked for.
DoingKeysAnyCluster(n) == {k \in Rows : ~keys[k].isDone /\ n \notin keys[k].nodes}

\* The keys of the node's clusters that it has not reported yet.
DoingKeys(n) ==
  {k \in Rows : n \in NodesIn[ClusterOf[k]] /\ ~keys[k].isDone /\ n \notin keys[k].nodes}

\* One round of a node at a time; a node that is off is given keys all the same.
Fetch(n) ==
  /\ call[n] = Idle
  /\ task.state = "enabled" /\ task.isReady /\ ~task.isDone
  /\ DoingKeys(n) # {}
  /\ call' = [call EXCEPT ![n] = [pc |-> "work", todo |-> DoingKeys(n)]]
  /\ upset' = IF resetting THEN upset \cup {"reset"} ELSE upset
  /\ UNCHANGED <<task, keys, creating, resetting, on, history, bounds>>

\* The node works on the keys, and some fail; then it reports them all.
Work(n) ==
  /\ call[n].pc = "work"
  /\ \E bad \in SUBSET call[n].todo :
       /\ errors + Cardinality(bad) <= MaxErrors
       /\ errors' = errors + Cardinality(bad)
       /\ ran' = ran \cup ({n} \X call[n].todo)
       /\ failed' = (failed \ ({n} \X call[n].todo)) \cup ({n} \X bad)
       /\ call' = [call EXCEPT ![n] = [pc |-> "next", todo |-> call[n].todo, bad |-> bad, need |-> [d \in {} |-> {}]]]
  /\ UNCHANGED <<task, keys, creating, resetting, on, upset, troubles>>

\* What a call has at hand from its beginning to its end.
Lasting == {"pc", "todo", "bad", "need"}

\* The call goes on with the fields of f, and forgets what it had for the last step.
Go(n, f) == call' = [call EXCEPT ![n] = [x \in Lasting \cup DOMAIN f |->
                                           IF x \in DOMAIN f THEN f[x] ELSE call[n][x]]]

\* The nodes that are on are read once per call and cluster.
ReadNodes(n, d) ==
  /\ call[n].pc = "next"
  /\ d \notin DOMAIN call[n].need /\ \E k \in call[n].todo : ClusterOf[k] = d
  /\ Go(n, [need |-> [e \in DOMAIN call[n].need \cup {d} |->
                        IF e = d THEN on \cap NodesIn[d] ELSE call[n].need[e]]])
  /\ UNCHANGED <<task, keys, creating, resetting, on, history, upset, bounds>>

\* UpdateKeyStatus: JSON_SET of the node in nodes, and in or out of errors ...
SetNode(n, k) ==
  /\ call[n].pc = "next" /\ k \in call[n].todo /\ ClusterOf[k] \in DOMAIN call[n].need
  /\ keys' = [keys EXCEPT ![k].nodes = @ \cup {n},
                              ![k].errors = IF k \in call[n].bad THEN @ \cup {n} ELSE @ \ {n}]
  /\ Go(n, [pc |-> "checkKey", todo |-> call[n].todo \ {k}, key |-> k])
  /\ UNCHANGED <<task, creating, resetting, on, history, upset, bounds>>

\* Mutant: a key is done when any node has reported it.
ReportedAny(n) == keys[call[n].key].nodes # {}

\* JSON_CONTAINS(nodes, nodesJSON).
Reported(n) == call[n].need[ClusterOf[call[n].key]] \subseteq keys[call[n].key].nodes

\* ... is the key done on all nodes?
CheckKey(n) ==
  /\ call[n].pc = "checkKey"
  /\ Go(n, IF Reported(n) THEN [pc |-> "keyDone", key |-> call[n].key] ELSE [pc |-> "next"])
  /\ UNCHANGED <<task, keys, creating, resetting, on, history, upset, bounds>>

SetKeyDone(n) ==
  /\ call[n].pc = "keyDone"
  /\ keys' = [keys EXCEPT ![call[n].key].isDone = TRUE]
  /\ Go(n, [pc |-> "checkTask"])
  /\ UNCHANGED <<task, creating, resetting, on, history, upset, bounds>>

\* Mutant: the errors are not looked at.
HasErrorsNever == FALSE

HasErrors == \E k \in Rows : keys[k].errors # {}

\* "检查任务是否已经完成": are all keys of the task done?
CheckTask(n) ==
  /\ call[n].pc = "checkTask"
  /\ IF \E k \in Rows : ~keys[k].isDone THEN Go(n, [pc |-> "status", isDone |-> FALSE, isOk |-> FALSE])
                                        ELSE Go(n, [pc |-> "errors"])
  /\ UNCHANGED <<task, keys, creating, resetting, on, history, upset, bounds>>

CheckErrors(n) ==
  /\ call[n].pc = "errors"
  /\ Go(n, [pc |-> "status", isDone |-> TRUE, isOk |-> ~HasErrors])
  /\ UNCHANGED <<task, keys, creating, resetting, on, history, upset, bounds>>

\* Mutant: only the key is marked.
NewStatusKept(n) == task

NewStatus(n) ==
  [task EXCEPT !.isDone = call[n].isDone, !.isOk = call[n].isOk, !.isReady = @ \/ call[n].isDone]

\* UpdateTaskStatus writes what was found, whatever has happened since.
UpdateTaskStatus(n) ==
  /\ call[n].pc = "status"
  /\ task' = NewStatus(n)
  /\ upset' = IF task.isDone /\ ~call[n].isDone THEN upset \cup {"overwritten"} ELSE upset
  /\ Go(n, [pc |-> "next"])
  /\ UNCHANGED <<keys, creating, resetting, on, history, bounds>>

CallEnds(n) ==
  /\ call[n].pc = "next" /\ call[n].todo = {}
  /\ call' = [call EXCEPT ![n] = Idle]
  /\ UNCHANGED <<task, keys, creating, resetting, on, history, upset, bounds>>

\* The node or the API node dies, or a statement fails.  What the call has not
\* written is fetched again; what comes after a written key is not made up for.
CallStops(n) ==
  /\ call[n] # Idle
  /\ Trouble
  /\ upset' = IF call[n].pc \in {"work", "next"} THEN upset ELSE upset \cup {"stopped"}
  /\ call' = [call EXCEPT ![n] = Idle]
  /\ UNCHANGED <<task, keys, creating, resetting, on, history, errors>>

CallStep(n) ==
  \/ Work(n)
  \/ \E d \in Clusters : ReadNodes(n, d)
  \/ \E k \in Keys : SetNode(n, k)
  \/ CheckKey(n) \/ SetKeyDone(n) \/ CheckTask(n) \/ CheckErrors(n)
  \/ UpdateTaskStatus(n) \/ CallEnds(n)

CreatorStep == (\E k \in Keys : CreateKey(k)) \/ CreateTaskEnds

Next ==
  \/ CreateTask \/ CreatorStep \/ CreationStops
  \/ ResetTask \/ ResetCacheKeys \/ ResetStops
  \/ DisableTask
  \/ \E n \in Nodes : Switch(n) \/ Fetch(n) \/ CallStep(n) \/ CallStops(n)

Spec == Init /\ [][Next]_vars

\* Calls under way go on, and every node keeps asking for keys.
FairSpec ==
  /\ Spec
  /\ WF_vars(CreatorStep \/ ResetCacheKeys)
  /\ \A n \in Nodes : WF_vars(Fetch(n) \/ CallStep(n))

-----------------------------------------------------------------------------
KeyRows == [state : {"row"}, nodes : SUBSET Nodes, errors : SUBSET Nodes, isDone : BOOLEAN]
TaskRows == [state : {"enabled", "disabled"}, isReady : BOOLEAN, isDone : BOOLEAN, isOk : BOOLEAN]

\* Every variable has its type; a node with an error has reported, and is one of
\* the key's cluster; a task that is ok is done, and one that is done is ready.
TypeOK ==
  /\ task \in TaskRows \cup {NoTask}
  /\ \A k \in Keys : keys[k] \in KeyRows \cup {NoKey}
  /\ on \subseteq Nodes /\ ran \subseteq Nodes \X Keys /\ failed \subseteq ran
  /\ \A k \in Rows : keys[k].errors \subseteq keys[k].nodes /\ keys[k].nodes \subseteq NodesIn[ClusterOf[k]]
  /\ task # NoTask => (task.isOk => task.isDone) /\ (task.isDone => task.isReady)

Finished == task # NoTask /\ task.isDone

\* A task that is done has been worked on, key by key, by every node of the key's
\* cluster, since its last reset; unless a reset ran into a report, or a node was
\* switched.
DoneEverywhere ==
  Finished /\ upset \cap {"reset", "switch"} = {} =>
    \A k \in Rows : NodesIn[ClusterOf[k]] \X {k} \subseteq ran

\* A task that ends well has failed on no node the last time that node tried.
OkMeansNoError ==
  Finished /\ task.isOk /\ upset \cap {"reset", "switch"} = {} => failed = {}

Gone == task.state = "disabled" \/ upset # {}

\* A task that is ready and has keys is done in the end, unless it is deleted, or
\* a result has been overwritten by an older one, a call has stopped after its
\* write, a node has been switched or a reset has come between.
Finishes == (Rows # {} /\ task.isReady) ~> (Finished \/ Gone)

\* "检查任务是否已经完成": once all keys are done and no report is under way, the task
\* is done.
KeysDoneTaskDone ==
  Active = {} /\ Rows # {} /\ creating = Idle /\ (\A k \in Rows : keys[k].isDone) => Finished
===============================================================================
