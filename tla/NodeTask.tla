------------------------------- MODULE NodeTask -------------------------------
(***************************************************************************)
(* How a change of the configuration reaches the edge nodes: the table     *)
(* edgeNodeTasks (NodeTaskDAO), the goroutines that create tasks, the      *)
(* extractor of the primary API node (NodeTaskExtractor) that turns a task *)
(* of a cluster into one task per node, and the nodes that ask for tasks   *)
(* above the version they have reached and report each one back.           *)
(*                                                                         *)
(* One cluster and one role.  Every statement is a step of its own, as the *)
(* code runs them without a transaction; versions come from one counter    *)
(* (SysLocker).  A key is what tells two tasks of the cluster apart.       *)
(***************************************************************************)
EXTENDS Integers, FiniteSets

CONSTANTS
  Nodes,          \* the edge nodes of the cluster, enabled and on
  Keys,           \* tasks the cluster may need: records [type, server, user]
  NodeLevelKeys,  \* keys also created for one node alone (NodeDAO.NotifyUpdate)
  DeletedOnDone,  \* keys whose type starts with "ipListDeleted@"
  Creators,       \* goroutines that create tasks for one node
  MaxChanges,     \* bound: changes of the configuration
  MaxFails,       \* bound: tasks a node reports as failed
  MaxLost,        \* bound: reports whose answer is lost
  MaxFaults       \* bound: extractions and creations that stop half way, nodes that
                  \* start anew, rows removed by hand

ASSUME KeysAssumption == /\ \A k \in Keys : {"type", "server", "user"} \subseteq DOMAIN k
                         /\ \A j, k \in Keys : j.type = k.type /\ j.server = k.server /\ j.user = k.user => j = k
                         /\ NodeLevelKeys \subseteq Keys
                         /\ DeletedOnDone \subseteq Keys
ASSUME BoundsAssumption == {MaxChanges, MaxFails, MaxLost, MaxFaults} \subseteq Nat

VARIABLES
  config,      \* config[n][k]: how often what k stands for has changed for node n
  applied,     \* applied[n][k]: the change node n works with
  clusterTasks,\* rows with nodeId = 0, by key
  nodeTasks,   \* rows with nodeId > 0: [node, key, id, version, isDone, isOk]
  lastVersion, \* the last version the counter has handed out
  creator,     \* creator[c]: the node task being created, or Idle
  extractor,   \* the run of ExtractAllClusterTasks, or Idle
  cursor,      \* cursor[n]: the version node n has reached
  inbox,       \* inbox[n]: the tasks node n has fetched and not finished
  report,      \* report[n]: the report under way, or Idle
  fresh,       \* history: cluster rows written since the extractor listed them
  dropped,     \* history: changes lost, and to whom
  changes, fails, losses, faults   \* counters for the bounds

tables  == <<config, clusterTasks, nodeTasks>>
node    == <<applied, cursor, inbox, report>>
bounds  == <<changes, fails, losses, faults>>
history == <<fresh, dropped>>
vars    == <<tables, node, lastVersion, creator, extractor, history, bounds>>

Idle == [pc |-> "idle"]

Init ==
  /\ config = [n \in Nodes |-> [k \in Keys |-> 0]]
  /\ applied = config
  /\ clusterTasks = {} /\ nodeTasks = {}
  /\ lastVersion = 0
  /\ creator = [c \in Creators |-> Idle]
  /\ extractor = Idle
  /\ cursor = [n \in Nodes |-> 0]
  /\ inbox = [n \in Nodes |-> {}]
  /\ report = [n \in Nodes |-> Idle]
  /\ fresh = {} /\ dropped = {}
  /\ changes = 0 /\ fails = 0 /\ losses = 0 /\ faults = 0

-----------------------------------------------------------------------------
(***************************************************************************)
(* Creating tasks.                                                         *)
(***************************************************************************)

\* Something of the whole cluster changes, and CreateClusterTask writes the row
\* of key k (InsertOrUpdate on the unique id: one row per key).
ChangeCluster(k) ==
  /\ changes < MaxChanges
  /\ changes' = changes + 1
  /\ config' = [n \in Nodes |-> [config[n] EXCEPT ![k] = @ + 1]]
  /\ clusterTasks' = clusterTasks \cup {k}
  /\ fresh' = fresh \cup {k}
  /\ UNCHANGED <<nodeTasks, node, lastVersion, creator, extractor, dropped, fails, losses, faults>>

NewRow(n, k, v) ==
  [node |-> n, key |-> k, id |-> v, version |-> v, isDone |-> FALSE, isOk |-> FALSE]

\* Mutant: a row is inserted whether or not the unique id is there already.
UpsertInserts(n, k, v) == nodeTasks' = nodeTasks \cup {NewRow(n, k, v)}

\* The row that InsertOrUpdate leaves behind: an existing row keeps its id.
Upsert(n, k, v) ==
  LET old == {t \in nodeTasks : t.node = n /\ t.key = k}
  IN  nodeTasks' = (nodeTasks \ old) \cup
                     (IF old = {} THEN {NewRow(n, k, v)}
                                  ELSE {[NewRow(n, k, v) EXCEPT !.id = t.id] : t \in old})

\* A version below what the node has reached is never asked for again.
LateFor(n, k, v) == IF v <= cursor[n] THEN {<<n, k>>} ELSE {}

\* Something of node n alone changes; CreateNodeTask takes a version first ...
ChangeNode(c, n, k) ==
  /\ creator[c] = Idle
  /\ changes < MaxChanges
  /\ changes' = changes + 1
  /\ config' = [config EXCEPT ![n][k] = @ + 1]
  /\ lastVersion' = lastVersion + 1
  /\ creator' = [creator EXCEPT ![c] = [pc |-> "write", node |-> n, key |-> k, version |-> lastVersion + 1]]
  /\ UNCHANGED <<clusterTasks, nodeTasks, node, extractor, history, fails, losses, faults>>

\* ... and writes the row with it in a later statement.
WriteNodeTask(c) ==
  LET w == creator[c]
  IN  /\ w # Idle
      /\ Upsert(w.node, w.key, w.version)
      /\ dropped' = dropped \cup LateFor(w.node, w.key, w.version)
      /\ creator' = [creator EXCEPT ![c] = Idle]
      /\ UNCHANGED <<config, clusterTasks, node, lastVersion, extractor, fresh, bounds>>

\* The API node dies, or the database refuses, between the two.
CreatorFails(c) ==
  /\ creator[c] # Idle
  /\ faults < MaxFaults
  /\ faults' = faults + 1
  /\ dropped' = dropped \cup {<<creator[c].node, creator[c].key>>}
  /\ creator' = [creator EXCEPT ![c] = Idle]
  /\ UNCHANGED <<tables, node, lastVersion, extractor, fresh, changes, fails, losses>>

-----------------------------------------------------------------------------
(***************************************************************************)
(* Extraction: ExtractAllClusterTasks every ten seconds.                   *)
(***************************************************************************)

ListClusterTasks ==
  /\ extractor = Idle
  /\ clusterTasks # {}
  /\ extractor' = [pc |-> "next", todo |-> clusterTasks]
  /\ fresh' = {}
  /\ UNCHANGED <<tables, node, lastVersion, creator, dropped, bounds>>

Covers(t, k) == t.key.type = k.type /\ t.key.server = k.server

\* What node t.node would still have learned from row t.
Unseen(t) == t.version > cursor[t.node] /\ applied[t.node][t.key] # config[t.node][t.key]

\* ExtractNodeClusterTask: list the nodes, delete their rows of this type and
\* server, whichever user they are for.
StartKey(k) ==
  /\ extractor.pc = "next" /\ k \in extractor.todo
  /\ extractor' = [pc |-> "version", todo |-> extractor.todo \ {k}, key |-> k, nodes |-> Nodes]
  /\ nodeTasks' = {t \in nodeTasks : ~Covers(t, k)}
  /\ dropped' = dropped \cup {<<t.node, t.key>> : t \in {s \in nodeTasks :
                      Covers(s, k) /\ s.key.user # k.user /\ Unseen(s)}}
  /\ UNCHANGED <<config, clusterTasks, node, lastVersion, creator, fresh, bounds>>

\* CreateNodeTask for one of the listed nodes, in its two statements.
TakeVersion(n) ==
  /\ extractor.pc = "version" /\ n \in extractor.nodes
  /\ lastVersion' = lastVersion + 1
  /\ extractor' = [pc |-> "write", todo |-> extractor.todo, key |-> extractor.key,
                   nodes |-> extractor.nodes, node |-> n, version |-> lastVersion + 1]
  /\ UNCHANGED <<tables, node, creator, history, bounds>>

ExtractedTo(n) ==
  [pc |-> "version", todo |-> extractor.todo, key |-> extractor.key, nodes |-> extractor.nodes \ {n}]

WriteExtracted ==
  LET n == extractor.node
      k == extractor.key
  IN  /\ extractor.pc = "write"
      /\ Upsert(n, k, extractor.version)
      /\ dropped' = dropped \cup LateFor(n, k, extractor.version)
      /\ extractor' = ExtractedTo(n)
      /\ UNCHANGED <<config, clusterTasks, node, lastVersion, creator, fresh, bounds>>

\* Mutant: the row of another type goes too.
ExtractedAny(k) == clusterTasks

\* Every row of the cluster with this type goes, whatever its server and user,
\* and whether or not it was there when the rows were listed.
Extracted(k) == {j \in clusterTasks : j.type = k.type}

DeleteClusterTasks ==
  LET k == extractor.key
      overrun == {j \in Keys : j.type = k.type /\ j \in clusterTasks \cap fresh /\ j \notin extractor.todo}
  IN  /\ extractor.pc = "version" /\ extractor.nodes = {}
      /\ clusterTasks' = clusterTasks \ Extracted(k)
      /\ dropped' = dropped \cup {p \in Nodes \X overrun : applied[p[1]][p[2]] # config[p[1]][p[2]]}
      /\ extractor' = IF extractor.todo = {} THEN Idle ELSE [pc |-> "next", todo |-> extractor.todo]
      /\ UNCHANGED <<config, nodeTasks, node, lastVersion, creator, fresh, bounds>>

\* What the running extraction still has to write a row of for node n.
InExtraction(n, k) ==
  /\ extractor # Idle
  /\ \/ k \in extractor.todo
     \/ extractor.pc # "next" /\ k = extractor.key /\ n \in extractor.nodes

\* The API node dies, or a statement fails and the loop returns its error: the
\* listed rows that an earlier delete has already taken are lost with it.
ExtractorFails ==
  /\ extractor # Idle
  /\ faults < MaxFaults
  /\ faults' = faults + 1
  /\ dropped' = dropped \cup {p \in Nodes \X (Keys \ clusterTasks) :
                                InExtraction(p[1], p[2]) /\ applied[p[1]][p[2]] # config[p[1]][p[2]]}
  /\ extractor' = Idle
  /\ UNCHANGED <<tables, node, lastVersion, creator, fresh, changes, fails, losses>>

-----------------------------------------------------------------------------
(***************************************************************************)
(* The node's side.  FindNodeTasks and ReportNodeTaskDone are calls of the *)
(* API; that the node works through the list in order, reports each task   *)
(* and moves its cursor to the task's version is how they are used.        *)
(***************************************************************************)

\* FindDoingNodeTasks: above the cursor, or on the first call what is not done.
Doing(n) ==
  {t \in nodeTasks : /\ t.node = n
                     /\ IF cursor[n] > 0 THEN t.version > cursor[n]
                                         ELSE ~t.isDone \/ ~t.isOk}

Fetch(n) ==
  /\ inbox[n] = {} /\ report[n] = Idle
  /\ Doing(n) # {}
  /\ inbox' = [inbox EXCEPT ![n] = Doing(n)]
  /\ UNCHANGED <<tables, applied, cursor, report, lastVersion, creator, extractor, history, bounds>>

IsNext(n, t) == t \in inbox[n] /\ \A s \in inbox[n] : t.version <= s.version

\* The node reads the current configuration and works with it from now on.
Execute(n, t) ==
  /\ report[n] = Idle /\ IsNext(n, t)
  /\ applied' = [applied EXCEPT ![n][t.key] = config[n][t.key]]
  /\ dropped' = dropped \ {<<n, t.key>>}
  /\ report' = [report EXCEPT ![n] = [pc |-> "ok", task |-> t]]
  /\ UNCHANGED <<tables, cursor, inbox, lastVersion, creator, extractor, fresh, bounds>>

ExecuteFails(n, t) ==
  /\ report[n] = Idle /\ IsNext(n, t)
  /\ fails < MaxFails
  /\ fails' = fails + 1
  /\ report' = [report EXCEPT ![n] = [pc |-> "failed", task |-> t]]
  /\ UNCHANGED <<tables, applied, cursor, inbox, lastVersion, creator, extractor, history, changes, losses, faults>>

ById(t) == {s \in nodeTasks : s.id = t.id}

Done(s, isOk, v) == [s EXCEPT !.isDone = TRUE, !.isOk = isOk, !.version = v]

\* UpdateNodeTaskDone(id, true): by id alone, whatever version the row has now.
ReportOk(n) ==
  LET t == report[n].task
  IN  /\ report[n].pc = "ok"
      /\ nodeTasks' = (nodeTasks \ ById(t)) \cup
                        (IF t.key \in DeletedOnDone THEN {} ELSE {Done(s, TRUE, s.version) : s \in ById(t)})
      /\ dropped' = dropped \cup {<<n, s.key>> : s \in {r \in ById(t) :
                        r.version # t.version /\ Unseen(r) /\ (cursor[n] = 0 \/ t.key \in DeletedOnDone)}}
      /\ report' = [report EXCEPT ![n].pc = "answer"]
      /\ UNCHANGED <<config, clusterTasks, applied, cursor, inbox, lastVersion, creator, extractor, fresh, bounds>>

\* UpdateNodeTaskDone(id, false) takes a new version, so that the node asks for
\* the task again ...
TakeRetryVersion(n) ==
  /\ report[n].pc = "failed"
  /\ lastVersion' = lastVersion + 1
  /\ report' = [report EXCEPT ![n] = [pc |-> "retry", task |-> report[n].task, version |-> lastVersion + 1]]
  /\ UNCHANGED <<tables, applied, cursor, inbox, creator, extractor, history, bounds>>

\* Mutant: a failed task keeps its version.
RetryVersionKept(n) == report[n].task.version

RetryVersion(n) == report[n].version

\* ... and marks the row failed.
ReportFailed(n) ==
  LET t == report[n].task
  IN  /\ report[n].pc = "retry"
      /\ nodeTasks' = (nodeTasks \ ById(t)) \cup {Done(s, FALSE, RetryVersion(n)) : s \in ById(t)}
      /\ report' = [report EXCEPT ![n] = [pc |-> "answer", task |-> t]]
      /\ UNCHANGED <<config, clusterTasks, applied, cursor, inbox, lastVersion, creator, extractor, history, bounds>>

\* The node has the answer: the task is finished and the cursor moves up to it,
\* past the rows that were written after the list was fetched with a version
\* taken before.
Answered(n) ==
  LET t == report[n].task
  IN  /\ report[n].pc = "answer"
      /\ dropped' = dropped \cup {<<n, s.key>> : s \in {r \in nodeTasks \ inbox[n] :
                        r.node = n /\ r.version < t.version /\ Unseen(r)}}
      /\ inbox' = [inbox EXCEPT ![n] = @ \ {t}]
      /\ cursor' = [cursor EXCEPT ![n] = IF @ < t.version THEN t.version ELSE @]
      /\ report' = [report EXCEPT ![n] = Idle]
      /\ UNCHANGED <<tables, applied, lastVersion, creator, extractor, fresh, bounds>>

\* The answer is lost: the node gives the list up and asks again later.
AnswerLost(n) ==
  /\ report[n].pc = "answer"
  /\ losses < MaxLost
  /\ losses' = losses + 1
  /\ inbox' = [inbox EXCEPT ![n] = {}]
  /\ report' = [report EXCEPT ![n] = Idle]
  /\ UNCHANGED <<tables, applied, cursor, lastVersion, creator, extractor, history, changes, fails, faults>>

\* The node starts anew: it reads the whole configuration, and asks for tasks
\* with no version ("第一次访问").
NodeRestarts(n) ==
  /\ faults < MaxFaults
  /\ faults' = faults + 1
  /\ applied' = [applied EXCEPT ![n] = config[n]]
  /\ cursor' = [cursor EXCEPT ![n] = 0]
  /\ inbox' = [inbox EXCEPT ![n] = {}]
  /\ report' = [report EXCEPT ![n] = Idle]
  /\ dropped' = dropped \ ({n} \X Keys)
  /\ UNCHANGED <<tables, lastVersion, creator, extractor, fresh, changes, fails, losses>>

-----------------------------------------------------------------------------
\* DeleteNodeTask: an administrator removes a task; DeleteAllNodeTasks removes
\* every row, those of the cluster too.
DeleteNodeTask(t) ==
  /\ faults < MaxFaults
  /\ faults' = faults + 1
  /\ nodeTasks' = nodeTasks \ {t}
  /\ dropped' = dropped \cup {<<t.node, t.key>>}
  /\ UNCHANGED <<config, clusterTasks, node, lastVersion, creator, extractor, fresh, changes, fails, losses>>

CreatorStep(c)  == WriteNodeTask(c)
ExtractorStep   == \/ ListClusterTasks \/ \E k \in Keys : StartKey(k)
                   \/ \E n \in Nodes : TakeVersion(n)
                   \/ WriteExtracted \/ DeleteClusterTasks
NodeStep(n)     == \/ Fetch(n) \/ \E t \in inbox[n] : Execute(n, t)
                   \/ ReportOk(n) \/ TakeRetryVersion(n) \/ ReportFailed(n) \/ Answered(n)

Next ==
  \/ \E k \in Keys : ChangeCluster(k)
  \/ \E c \in Creators, n \in Nodes, k \in NodeLevelKeys : ChangeNode(c, n, k)
  \/ \E c \in Creators : CreatorStep(c) \/ CreatorFails(c)
  \/ ExtractorStep \/ ExtractorFails
  \/ \E n \in Nodes : \/ NodeStep(n)
                      \/ \E t \in inbox[n] : ExecuteFails(n, t)
                      \/ AnswerLost(n) \/ NodeRestarts(n)
  \/ \E t \in nodeTasks : DeleteNodeTask(t)

Spec == Init /\ [][Next]_vars

\* The extractor's ticker keeps firing, a started creation goes on, and a node
\* keeps asking for tasks and working through them.
FairSpec == /\ Spec
            /\ WF_vars(ExtractorStep)
            /\ \A c \in Creators : WF_vars(CreatorStep(c))
            /\ \A n \in Nodes : WF_vars(NodeStep(n))

-----------------------------------------------------------------------------
NodeTaskRows == [node : Nodes, key : Keys, id : Nat, version : Nat, isDone : BOOLEAN, isOk : BOOLEAN]

\* Every variable has its type, and the table keeps one row per node and key,
\* with a version that the counter has handed out (CreateNodeTask's unique id).
TypeOK ==
  /\ config \in [Nodes -> [Keys -> Nat]] /\ applied \in [Nodes -> [Keys -> Nat]]
  /\ clusterTasks \subseteq Keys /\ nodeTasks \subseteq NodeTaskRows
  /\ \A n \in Nodes : inbox[n] \subseteq NodeTaskRows
  /\ cursor \in [Nodes -> Nat] /\ lastVersion \in Nat
  /\ dropped \subseteq Nodes \X Keys
  /\ \A s, t \in nodeTasks : (s.node = t.node /\ s.key = t.key) \/ s.id = t.id => s = t
  /\ \A t \in nodeTasks : t.version <= lastVersion

\* The change is still on its way to node n: on a row the node will ask for, in
\* its hands, or with the extractor or a creator.
OnItsWay(n, k) ==
  \/ \E t \in Doing(n) : t.key = k
  \/ \E t \in inbox[n] : t.key = k /\ ~(report[n].pc \in {"ok", "answer"} /\ report[n].task = t)
  \/ k \in clusterTasks
  \/ InExtraction(n, k)
  \/ \E c \in Creators : creator[c] # Idle /\ creator[c].node = n /\ creator[c].key = k

\* A node that does not work with the latest change will get it, unless one of
\* the steps that are known to lose a change has lost it: a delete of the extractor
\* that takes a row written behind its back or a row of another user, a row
\* written with a version the node has already passed, a failure half way, or
\* an administrator.
NoOtherLoss ==
  \A n \in Nodes, k \in Keys :
    applied[n][k] # config[n][k] => OnItsWay(n, k) \/ <<n, k>> \in dropped

\* Every change reaches the node in the end, or is lost in one of those ways.
Delivered ==
  \A n \in Nodes, k \in Keys :
    applied[n][k] # config[n][k] ~> applied[n][k] = config[n][k] \/ <<n, k>> \in dropped

\* "分解所有集群任务": every task of a cluster is broken down into tasks of its
\* nodes; none is lost on the way.
NothingLost ==
  \A n \in Nodes, k \in Keys : applied[n][k] # config[n][k] => OnItsWay(n, k)
===============================================================================
