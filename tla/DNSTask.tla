-------------------------------- MODULE DNSTask --------------------------------
(***************************************************************************)
(* How the records at a DNS provider follow the nodes and the sites of a   *)
(* cluster: the table edgeDNSTasks (DNSTaskDAO), one row per unique key,   *)
(* written by whoever changes a node, a site or the cluster, and the one   *)
(* goroutine of the primary API node (DNSTaskExecutor) that lists the      *)
(* rows, asks the provider to add and delete records and marks each row.   *)
(*                                                                         *)
(* One cluster, one domain, one provider.  A record is known by the node   *)
(* or the site it is for: an address of the cluster's name for a node, a   *)
(* CNAME for a site.  DNSTasksNotifier only makes the executor start       *)
(* earlier than its ticker would, and is left out; so is the sync an       *)
(* administrator asks for (SyncDNSDomainData).                             *)
(***************************************************************************)
EXTENDS Integers

CONSTANTS
  Nodes,       \* the nodes of the cluster, one address each
  Servers,     \* the sites of the cluster
  MaxRetries,  \* a task that has failed so often is not listed any more
  MaxChanges,  \* bound: changes of nodes and sites
  MaxFails,    \* bound: calls of the provider or the database that fail
  MaxStops     \* bound: rounds of the executor that end early

ASSUME DNSAssumption == /\ Nodes \cap Servers = {}
                        /\ MaxRetries \in Nat \ {0}
                        /\ {MaxChanges, MaxFails, MaxStops} \subseteq Nat

VARIABLES
  wanted,   \* the nodes that are up and the sites that are on
  remote,   \* the records at the provider
  cache,    \* edgeDNSDomains.records: the records as last read from there
  tasks,    \* tasks[k]: the row of unique key k, or NoRow
  clock,    \* the clock that gives the rows their versions
  executor, \* the round of DNSTaskExecutor.loop, or Idle
  lost,     \* history: records whose last change a step has forgotten
  stale,    \* history: an error has kept the executor from telling of its changes
  changes, fails, stops

bounds == <<changes, fails, stops>>
vars   == <<wanted, remote, cache, tasks, clock, executor, lost, stale, bounds>>

Records == Nodes \cup Servers

NodeChange(n)   == [type |-> "nodeChange", of |-> n]
ServerChange(s) == [type |-> "serverChange", of |-> s]
ClusterNodes    == [type |-> "clusterNodesChange"]
ClusterChange   == [type |-> "clusterChange"]
DomainChange    == [type |-> "domainChange"]

Keys == {NodeChange(n) : n \in Nodes} \cup {ServerChange(s) : s \in Servers}
          \cup {ClusterNodes, ClusterChange, DomainChange}

NoRow == [version |-> 0, isDone |-> TRUE, isOk |-> TRUE, countFails |-> 0]
Idle  == [pc |-> "idle"]

Init ==
  /\ wanted = {} /\ remote = {} /\ cache = {}
  /\ tasks = [k \in Keys |-> NoRow]
  /\ clock = 0
  /\ executor = Idle
  /\ lost = {} /\ stale = FALSE
  /\ changes = 0 /\ fails = 0 /\ stops = 0

-----------------------------------------------------------------------------
(***************************************************************************)
(* DNSTaskDAO.                                                             *)
(***************************************************************************)

\* A new row, or the row that is there reset to not done, with a new version.
CreateDNSTask(k) ==
  /\ clock' = clock + 1
  /\ tasks' = [tasks EXCEPT ![k] = [version |-> clock + 1, isDone |-> FALSE, isOk |-> FALSE, countFails |-> 0]]

\* Mutant: a task is listed until it has been tried, and never again.
DoingUntried(k) == ~tasks[k].isDone

\* Mutant: a failed task is listed for ever.
DoingForEver(k) == ~tasks[k].isDone \/ ~tasks[k].isOk

\* FindAllDoingTasks: not done, or failed and still to be retried.
Doing(k) == ~tasks[k].isDone \/ (~tasks[k].isOk /\ tasks[k].countFails < MaxRetries)

UpdateDNSTaskError(k) ==
  tasks' = IF tasks[k] = NoRow THEN tasks
           ELSE [tasks EXCEPT ![k].isDone = TRUE, ![k].isOk = FALSE, ![k].countFails = @ + 1]

-----------------------------------------------------------------------------
(***************************************************************************)
(* Changes: NodeDAO.NotifyDNSUpdate, ServerDAO.NotifyDNSUpdate and the     *)
(* places that change the nodes or sites of a whole cluster.               *)
(***************************************************************************)
TaskFor(r) == IF r \in Nodes THEN NodeChange(r) ELSE ServerChange(r)

Toggle(r) ==
  /\ changes < MaxChanges
  /\ changes' = changes + 1
  /\ wanted' = IF r \in wanted THEN wanted \ {r} ELSE wanted \cup {r}
  /\ UNCHANGED <<remote, cache, executor, stale, stops>>

Change(r) ==
  /\ Toggle(r)
  /\ \E k \in {TaskFor(r), ClusterChange} : CreateDNSTask(k)
  /\ lost' = lost \ {r}
  /\ UNCHANGED fails

\* A statement of NotifyDNSUpdate fails, or the API node dies before it, when the
\* change is already saved: it gets no row.
NotifyFails(r) ==
  /\ Toggle(r)
  /\ fails < MaxFails
  /\ fails' = fails + 1
  /\ lost' = lost \cup {r}
  /\ UNCHANGED <<tasks, clock>>

-----------------------------------------------------------------------------
(***************************************************************************)
(* DNSTaskExecutor.loop.                                                   *)
(***************************************************************************)

\* The rows to work on, each in the version it has now.
List ==
  /\ executor = Idle
  /\ \E k \in Keys : Doing(k)
  /\ executor' = [pc |-> "next", queue |-> {[key |-> k, version |-> tasks[k].version] : k \in {j \in Keys : Doing(j)}}]
  /\ UNCHANGED <<wanted, remote, cache, tasks, clock, lost, stale, bounds>>

\* The next row of the list, oldest version first.
NextTask ==
  /\ executor.pc = "next"
  /\ \/ executor.queue = {} /\ executor' = Idle
     \/ \E row \in executor.queue :
          /\ \A other \in executor.queue : row.version <= other.version
          /\ executor' = [pc |-> "read", queue |-> executor.queue \ {row}, changed |-> FALSE,
                          key |-> row.key, version |-> row.version]
  /\ UNCHANGED <<wanted, remote, cache, tasks, clock, lost, stale, bounds>>

At(pc) == executor' = [executor EXCEPT !.pc = pc]

\* doNode hands the change over to a task of the cluster.
DoNode ==
  /\ executor.pc = "read" /\ executor.key.type = "nodeChange"
  /\ CreateDNSTask(ClusterNodes)
  /\ At("check")
  /\ UNCHANGED <<wanted, remote, cache, lost, stale, bounds>>

\* Reading what the records of scope should be; they are then brought in line.
Aim(scope) == executor' = [pc |-> "apply", queue |-> executor.queue, changed |-> executor.changed,
                           key |-> executor.key, version |-> executor.version,
                           scope |-> scope, want |-> wanted \cap scope]

\* doCluster reads the nodes ...
DoCluster ==
  /\ executor.pc = "read" /\ executor.key \in {ClusterNodes, ClusterChange}
  /\ Aim(Nodes)
  /\ UNCHANGED <<wanted, remote, cache, tasks, clock, lost, stale, bounds>>

\* doServer reads the site, and does nothing when the records as they were last
\* read show what it would add.
DoServer ==
  /\ executor.pc = "read" /\ executor.key.type = "serverChange"
  /\ LET s == executor.key.of
     IN  IF s \in wanted /\ s \in cache
           THEN /\ At("check")
                /\ lost' = IF s \in remote THEN lost ELSE lost \cup {s}
           ELSE Aim({s}) /\ UNCHANGED lost
  /\ UNCHANGED <<wanted, remote, cache, tasks, clock, stale, bounds>>

Missing == executor.want \ remote
Surplus == (executor.scope \cap remote) \ executor.want

\* One call of the provider: what is missing is added before what is too much
\* is deleted.
AddRecord(r) ==
  /\ executor.pc = "apply" /\ r \in Missing
  /\ remote' = remote \cup {r}
  /\ executor' = [executor EXCEPT !.changed = TRUE]
  /\ UNCHANGED <<wanted, cache, tasks, clock, lost, stale, bounds>>

DeleteRecord(r) ==
  /\ executor.pc = "apply" /\ Missing = {} /\ r \in Surplus
  /\ remote' = remote \ {r}
  /\ executor' = [executor EXCEPT !.changed = TRUE]
  /\ UNCHANGED <<wanted, cache, tasks, clock, lost, stale, bounds>>

\* Mutant: the records are never read again.
TellKept == At("check") /\ UNCHANGED <<tasks, clock>>

\* What was changed is told by a task that reads the records again.
Tell == IF executor.changed THEN CreateDNSTask(DomainChange) /\ At("check")
                            ELSE At("check") /\ UNCHANGED <<tasks, clock>>

\* ... and doCluster goes on with the sites, unless only nodes have changed.
Applied ==
  /\ executor.pc = "apply" /\ Missing = {} /\ Surplus = {}
  /\ IF executor.key = ClusterChange /\ executor.scope = Nodes
       THEN Aim(Servers) /\ UNCHANGED <<tasks, clock>>
       ELSE Tell
  /\ UNCHANGED <<wanted, remote, cache, lost, stale, bounds>>

\* doDomain: GetRecords, then UpdateDomainRecords.
DoDomain ==
  /\ executor.pc = "read" /\ executor.key = DomainChange
  /\ cache' = remote
  /\ stale' = FALSE
  /\ At("check")
  /\ UNCHANGED <<wanted, remote, tasks, clock, lost, bounds>>

\* Mutant: the version is not compared.
SameVersionAlways == TRUE

\* "如果版本号发生变化，则说明有新的要执行的任务": a changed version means that
\* there is something new to do.
SameVersion == tasks[executor.key].version \in {0, executor.version}

\* UpdateDNSTaskDone reads the version ...
CheckVersion ==
  /\ executor.pc = "check"
  /\ executor' = IF SameVersion
                   THEN [pc |-> "save", queue |-> executor.queue, key |-> executor.key,
                         seen |-> tasks[executor.key].version]
                   ELSE [pc |-> "next", queue |-> executor.queue]
  /\ UNCHANGED <<wanted, remote, cache, tasks, clock, lost, stale, bounds>>

\* The records a task brings in line.
RecordsOf(k) == CASE k = ClusterNodes  -> Nodes
                  [] k = ClusterChange -> Records
                  [] k = DomainChange  -> {}
                  [] OTHER             -> {k.of}

\* ... and in another statement marks the row done, by its id alone.
SaveDone ==
  LET k == executor.key
  IN  /\ executor.pc = "save"
      /\ tasks' = IF tasks[k] = NoRow THEN tasks
                  ELSE [tasks EXCEPT ![k].isDone = TRUE, ![k].isOk = TRUE, ![k].countFails = 0]
      /\ lost' = IF tasks[k].version = executor.seen THEN lost
                 ELSE lost \cup {r \in RecordsOf(k) : (r \in wanted) # (r \in remote)}
      /\ executor' = [pc |-> "next", queue |-> executor.queue]
      /\ UNCHANGED <<wanted, remote, cache, clock, stale, bounds>>

\* A call of the provider or the database fails while a task is worked on: the
\* row is marked failed, by its id alone, and the round goes on.
TaskFails ==
  /\ executor.pc \in {"read", "apply"}
  /\ fails < MaxFails
  /\ fails' = fails + 1
  /\ UpdateDNSTaskError(executor.key)
  /\ stale' = (stale \/ executor.changed)
  /\ executor' = [pc |-> "next", queue |-> executor.queue]
  /\ UNCHANGED <<wanted, remote, cache, clock, lost, changes, stops>>

\* A statement of UpdateDNSTaskDone fails, which is only logged.
MarkFails ==
  /\ executor.pc \in {"check", "save"}
  /\ fails < MaxFails
  /\ fails' = fails + 1
  /\ executor' = [pc |-> "next", queue |-> executor.queue]
  /\ UNCHANGED <<wanted, remote, cache, tasks, clock, lost, stale, changes, stops>>

\* The API node dies, or a statement that marks a row failed fails.
ExecutorStops ==
  /\ executor # Idle
  /\ stops < MaxStops
  /\ stops' = stops + 1
  /\ stale' = (stale \/ (executor.pc = "apply" /\ executor.changed))
  /\ executor' = Idle
  /\ UNCHANGED <<wanted, remote, cache, tasks, clock, lost, changes, fails>>

\* DeleteDNSTask, DeleteAllDNSTasks: an administrator removes a row.
DeleteDNSTask(k) ==
  /\ tasks[k] # NoRow
  /\ stops < MaxStops
  /\ stops' = stops + 1
  /\ tasks' = [tasks EXCEPT ![k] = NoRow]
  /\ lost' = lost \cup RecordsOf(k)
  /\ stale' = (stale \/ k = DomainChange)
  /\ UNCHANGED <<wanted, remote, cache, clock, executor, changes, fails>>

ExecutorStep ==
  \/ List \/ NextTask
  \/ DoNode \/ DoCluster \/ DoServer \/ DoDomain
  \/ \E r \in Records : AddRecord(r) \/ DeleteRecord(r)
  \/ Applied \/ CheckVersion \/ SaveDone

Next ==
  \/ \E r \in Records : Change(r) \/ NotifyFails(r)
  \/ ExecutorStep \/ TaskFails \/ MarkFails \/ ExecutorStops
  \/ \E k \in Keys : DeleteDNSTask(k)

Spec == Init /\ [][Next]_vars

\* The executor's ticker keeps firing on the primary API node, and a round that
\* has started goes on.
FairSpec == Spec /\ WF_vars(ExecutorStep)

-----------------------------------------------------------------------------
Rows == [version : Nat, isDone : BOOLEAN, isOk : BOOLEAN, countFails : Nat]

\* Every variable has its type, no two rows have the same version, and no row
\* counts more failures than it is listed for.
TypeOK ==
  /\ wanted \subseteq Records /\ remote \subseteq Records /\ cache \subseteq Records
  /\ lost \subseteq Records /\ stale \in BOOLEAN
  /\ tasks \in [Keys -> Rows] /\ clock \in Nat
  /\ \A k \in Keys : tasks[k].version <= clock /\ tasks[k].countFails <= MaxRetries
  /\ \A j, k \in Keys : tasks[j].version = tasks[k].version /\ tasks[j] # NoRow => j = k

Settled(r) == (r \in wanted) = (r \in remote)

\* The tasks that bring record r in line.
Serving(r) == {k \in Keys : r \in RecordsOf(k)}

GivenUp(k) == tasks[k].isDone /\ ~tasks[k].isOk /\ tasks[k].countFails >= MaxRetries

\* A record that differs from what is wanted has a task that will be listed
\* again, or one the executor has given up after MaxRetries failures, unless a
\* known step has forgotten the change: a row marked done after a newer change
\* was written to it, a site taken to be in place because of old records, an
\* administrator's delete, or a NotifyDNSUpdate that failed after the change
\* was saved.
NothingForgotten ==
  \A r \in Records : Settled(r) \/ r \in lost \/ \E k \in Serving(r) : Doing(k) \/ GivenUp(k)

\* The records kept of the domain differ from those at the provider only while
\* a task will read them again, or while the executor still has to ask for it;
\* or an error between a change and that request has kept it from asking.
CacheKnown ==
  cache # remote =>
    \/ Doing(DomainChange) \/ GivenUp(DomainChange) \/ stale
    \/ executor.pc = "apply" /\ executor.changed

\* Every record is in line with what is wanted in the end, or given up or
\* forgotten in one of these ways.
Settles ==
  \A r \in Records : ~Settled(r) ~> (Settled(r) \/ r \in lost \/ \E k \in Serving(r) : GivenUp(k))

\* "如果版本号发生变化，则说明有新的要执行的任务": a change that comes while its task
\* is worked on leaves the task to be done again, and no change is forgotten.
NewTaskKept ==
  \A r \in Records : ~Settled(r) => \E k \in Serving(r) : Doing(k) \/ GivenUp(k)
===============================================================================
