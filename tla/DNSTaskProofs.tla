----------------------------- MODULE DNSTaskProofs -----------------------------
(***************************************************************************)
(* No change of a record is forgotten but in the known ways, for every     *)
(* number of nodes and sites: however the changes, the rounds of the       *)
(* executor, its failures and its ends interleave.                         *)
(***************************************************************************)
EXTENDS DNSTask, TLAPS

\* A row that is not done and well: it will be listed again, or it has been given up.
Open(k) == ~tasks[k].isDone \/ ~tasks[k].isOk

Listed == [key : Keys, version : Nat]

Rounds ==
  {Idle}
  \cup [pc : {"next"}, queue : SUBSET Listed]
  \cup [pc : {"read", "check"}, queue : SUBSET Listed, changed : BOOLEAN, key : Keys, version : Nat]
  \cup [pc : {"apply", "check"}, queue : SUBSET Listed, changed : BOOLEAN, key : Keys, version : Nat,
        scope : SUBSET Records, want : SUBSET Records]
  \cup [pc : {"save"}, queue : SUBSET Listed, key : Keys, seen : Nat]

\* What is left of a round has versions the clock has been at, one for a key, and may
\* fail once more.
QueueInv ==
  executor # Idle =>
    /\ \A row \in executor.queue : row.version <= clock /\ tasks[row.key].countFails < MaxRetries
    /\ \A a, b \in executor.queue : a.key = b.key => a = b

\* So may the task that is worked on, and it is not listed any more; it brings its
\* records in line, the sites of a cluster after its nodes.
TaskInv ==
  /\ executor.pc \in {"read", "apply"} =>
       tasks[executor.key].countFails < MaxRetries /\ \A row \in executor.queue : row.key # executor.key
  /\ executor.pc \in {"read", "apply", "check"} => executor.version <= clock
  /\ executor.pc = "save" => executor.seen <= clock
  /\ executor.pc = "apply" =>
       /\ executor.want \subseteq executor.scope
       /\ \/ executor.key \in {ClusterNodes, ClusterChange} /\ executor.scope = Nodes
          \/ executor.key = ClusterChange /\ executor.scope = Servers
          \/ executor.key.type = "serverChange" /\ executor.scope = {executor.key.of}

\* No two rows have the same version, a row that is there has one, and a row that has
\* not been tried in its version has not failed in it.
TasksInv ==
  /\ tasks \in [Keys -> Rows] /\ clock \in Nat
  /\ \A k \in Keys : tasks[k].version <= clock /\ tasks[k].countFails <= MaxRetries
  /\ \A j, k \in Keys : tasks[j].version = tasks[k].version /\ tasks[j] # NoRow => j = k
  /\ \A k \in Keys : tasks[k].version = 0 => tasks[k] = NoRow
  /\ \A k \in Keys : ~tasks[k].isDone => tasks[k].countFails = 0

SetsInv ==
  /\ wanted \subseteq Records /\ remote \subseteq Records /\ cache \subseteq Records
  /\ lost \subseteq Records /\ stale \in BOOLEAN

Types == SetsInv /\ TasksInv /\ executor \in Rounds /\ QueueInv /\ TaskInv

\* Record r has a task that has been written since version v of row k.
Newer(r, k, v) == \E j \in Serving(r) : Open(j) /\ (j # k \/ tasks[j].version # v)

\* Record r is in line, and the executor wants of it what is wanted now, unless there is
\* something newer to do.
InLine(r, k, v) == Settled(r) \/ r \in lost \/ Newer(r, k, v)
Meant(r, k, v)  == (r \in executor.want) = (r \in wanted) \/ r \in lost \/ Newer(r, k, v)

\* The records that are worked on are meant as they should be, and those that have been
\* worked on are in line.
WorkInv ==
  /\ executor.pc = "apply" =>
       /\ \A r \in executor.scope : Meant(r, executor.key, executor.version)
       /\ executor.scope # Nodes /\ executor.key = ClusterChange =>
            \A r \in Nodes : InLine(r, executor.key, executor.version)
  /\ executor.pc = "check" => \A r \in RecordsOf(executor.key) : InLine(r, executor.key, executor.version)
  /\ executor.pc = "save" => \A r \in RecordsOf(executor.key) : InLine(r, executor.key, executor.seen)

\* The records that were read again are still the same when their task is marked.
ReadInv == executor.pc \in {"check", "save"} /\ executor.key = DomainChange => cache = remote

\* NothingForgotten and CacheKnown, in terms of Open.
Remembered == \A r \in Records : Settled(r) \/ r \in lost \/ \E k \in Serving(r) : Open(k)

CacheInv ==
  cache # remote => Open(DomainChange) \/ stale \/ (executor.pc = "apply" /\ executor.changed)

RecordInv == Types /\ WorkInv /\ ReadInv /\ Remembered /\ CacheInv

-----------------------------------------------------------------------------
\* The keys of the rows, and the records each of them brings in line.
LEMMA KeyFacts ==
  /\ {ClusterNodes, ClusterChange, DomainChange} \subseteq Keys
  /\ ClusterNodes # ClusterChange /\ ClusterNodes # DomainChange /\ ClusterChange # DomainChange
  /\ RecordsOf(ClusterNodes) = Nodes /\ RecordsOf(ClusterChange) = Records /\ RecordsOf(DomainChange) = {}
  /\ \A r \in Records : TaskFor(r) \in Keys /\ RecordsOf(TaskFor(r)) = {r}
<1>1. /\ ClusterNodes.type = "clusterNodesChange" /\ ClusterChange.type = "clusterChange"
      /\ DomainChange.type = "domainChange"
  BY DEF ClusterNodes, ClusterChange, DomainChange
<1>2. \A r \in Records : TaskFor(r).type \in {"nodeChange", "serverChange"} /\ TaskFor(r).of = r
  BY DEF TaskFor, NodeChange, ServerChange
<1>3. \A r \in Records : TaskFor(r) \in Keys
  BY DEF TaskFor, Keys, Records
<1>4. \A r \in Records : RecordsOf(TaskFor(r)) = {r}
  BY <1>1, <1>2 DEF RecordsOf
<1> QED BY <1>1, <1>3, <1>4 DEF Keys, RecordsOf

\* What a key says of the record it is about.
LEMMA KeyKinds ==
  ASSUME NEW k \in Keys
  PROVE  /\ RecordsOf(k) \subseteq Records
         /\ k.type = "nodeChange" => k.of \in Nodes /\ RecordsOf(k) = {k.of} /\ k # ClusterNodes
         /\ k.type = "serverChange" => k.of \in Servers /\ RecordsOf(k) = {k.of}
<1>1. /\ ClusterNodes.type = "clusterNodesChange" /\ ClusterChange.type = "clusterChange"
      /\ DomainChange.type = "domainChange"
  BY DEF ClusterNodes, ClusterChange, DomainChange
<1>2. CASE \E n \in Nodes : k = NodeChange(n)
  <2>1. PICK n \in Nodes : k = NodeChange(n)
    BY <1>2
  <2>2. k.type = "nodeChange" /\ k.of = n
    BY <2>1 DEF NodeChange
  <2> QED BY <1>1, <2>2 DEF RecordsOf, Records
<1>3. CASE \E s \in Servers : k = ServerChange(s)
  <2>1. PICK s \in Servers : k = ServerChange(s)
    BY <1>3
  <2>2. k.type = "serverChange" /\ k.of = s
    BY <2>1 DEF ServerChange
  <2> QED BY <1>1, <2>2 DEF RecordsOf, Records
<1>4. CASE k \in {ClusterNodes, ClusterChange, DomainChange}
  BY <1>1, <1>4, KeyFacts DEF Records
<1> QED BY <1>2, <1>3, <1>4 DEF Keys

\* Who serves a record.
LEMMA ServingFacts ==
  ASSUME NEW r \in Records
  PROVE  /\ Serving(r) \subseteq Keys /\ TaskFor(r) \in Serving(r) /\ ClusterChange \in Serving(r)
         /\ r \in Nodes => ClusterNodes \in Serving(r)
BY KeyFacts DEF Serving

\* A row is open when it will be listed, or has been given up.
LEMMA OpenFacts ==
  ASSUME TasksInv, NEW k \in Keys
  PROVE  Open(k) <=> Doing(k) \/ GivenUp(k)
<1>1. /\ tasks[k].countFails \in Nat /\ MaxRetries \in Nat /\ tasks[k].isDone \in BOOLEAN /\ tasks[k].isOk \in BOOLEAN
  BY DNSAssumption DEF TasksInv, Rows
<1> QED BY <1>1 DEF Open, Doing, GivenUp

\* The fields a round has, step by step.
LEMMA Shapes ==
  ASSUME executor \in Rounds
  PROVE  /\ executor # Idle <=> executor.pc # "idle"
         /\ executor # Idle => executor.queue \subseteq Listed
         /\ executor.pc \in {"idle", "next", "read", "apply", "check", "save"}
         /\ executor.pc \in {"read", "apply", "check"} =>
              executor.key \in Keys /\ executor.version \in Nat /\ executor.changed \in BOOLEAN
         /\ executor.pc = "read" =>
              executor \in [pc : {"read", "check"}, queue : SUBSET Listed, changed : BOOLEAN, key : Keys, version : Nat]
         /\ executor.pc = "apply" =>
              executor \in [pc : {"apply", "check"}, queue : SUBSET Listed, changed : BOOLEAN, key : Keys, version : Nat,
                            scope : SUBSET Records, want : SUBSET Records]
         /\ executor.pc = "save" => executor.key \in Keys /\ executor.seen \in Nat
BY DEF Rounds, Idle

\* A new task: its row is open, with a version nobody has seen, and no other row changes.
LEMMA Created ==
  ASSUME TasksInv, NEW k \in Keys, CreateDNSTask(k)
  PROVE  /\ TasksInv' /\ clock' = clock + 1
         /\ Open(k)' /\ tasks'[k].version = clock + 1 /\ tasks'[k].countFails = 0
         /\ \A j \in Keys : j # k => tasks'[j] = tasks[j]
         /\ \A j \in Keys : Open(j) => Open(j)'
<1> DEFINE row == [version |-> clock + 1, isDone |-> FALSE, isOk |-> FALSE, countFails |-> 0]
<1>1. tasks' = [tasks EXCEPT ![k] = row] /\ clock' = clock + 1 /\ clock \in Nat
  BY DEF CreateDNSTask, TasksInv
<1>2. row \in Rows /\ row.version = clock + 1 /\ row.countFails = 0 /\ ~row.isDone
  BY <1>1 DEF Rows
<1> HIDE DEF row
<1>3. /\ tasks'[k] = row /\ \A j \in Keys : j # k => tasks'[j] = tasks[j]
      /\ tasks' \in [Keys -> Rows]
  BY <1>1, <1>2 DEF TasksInv
<1>4. \A j \in Keys : tasks[j].version \in Nat /\ tasks[j].version <= clock
  BY DEF TasksInv, Rows
<1>5. Open(k)' /\ \A j \in Keys : Open(j) => Open(j)'
  BY <1>2, <1>3 DEF Open
<1>6. TasksInv'
  <2>1. \A j \in Keys : tasks'[j].version <= clock' /\ tasks'[j].countFails <= MaxRetries
    BY <1>1, <1>2, <1>3, <1>4, DNSAssumption DEF TasksInv
  <2>2. \A i, j \in Keys : tasks'[i].version = tasks'[j].version /\ tasks'[i] # NoRow => i = j
    BY <1>1, <1>2, <1>3, <1>4 DEF TasksInv
  <2>3. \A j \in Keys : tasks'[j].version = 0 => tasks'[j] = NoRow
    BY <1>1, <1>2, <1>3 DEF TasksInv
  <2>4. \A j \in Keys : ~tasks'[j].isDone => tasks'[j].countFails = 0
    BY <1>2, <1>3 DEF TasksInv
  <2> QED BY <1>1, <1>3, <2>1, <2>2, <2>3, <2>4 DEF TasksInv
<1> QED BY <1>1, <1>2, <1>3, <1>5, <1>6

\* So whatever was newer than a version is, and whom the new task serves has something newer.
LEMMA CreatedNewer ==
  ASSUME TasksInv, NEW k \in Keys, CreateDNSTask(k), NEW r \in Records, NEW j \in Keys, NEW v \in Nat, v <= clock
  PROVE  /\ Newer(r, j, v) => Newer(r, j, v)'
         /\ k \in Serving(r) => Newer(r, j, v)'
<1>1. /\ Open(k)' /\ tasks'[k].version # v /\ (\A i \in Keys : i # k => tasks'[i] = tasks[i])
      /\ \A i \in Keys : Open(i) => Open(i)'
  BY Created DEF TasksInv
<1>2. k \in Serving(r) => Newer(r, j, v)'
  BY <1>1 DEF Newer, Serving
<1>3. ASSUME Newer(r, j, v) PROVE Newer(r, j, v)'
  <2>1. PICK i \in Serving(r) : Open(i) /\ (i # j \/ tasks[i].version # v)
    BY <1>3 DEF Newer
  <2>2. i \in Keys
    BY ServingFacts
  <2>3. CASE i = k
    BY <1>2, <2>3
  <2>4. CASE i # k
    BY <1>1, <2>1, <2>2, <2>4 DEF Newer, Serving
  <2> QED BY <2>3, <2>4
<1> QED BY <1>2, <1>3

\* A failure leaves the row open; only the row of the task changes.
LEMMA Failed ==
  ASSUME TasksInv, NEW k \in Keys, UpdateDNSTaskError(k), tasks[k].countFails < MaxRetries, UNCHANGED clock
  PROVE  /\ TasksInv'
         /\ \A j \in Keys : j # k => tasks'[j] = tasks[j]
         /\ \A j \in Keys : Open(j) => Open(j)'
<1>1. CASE tasks[k] = NoRow
  BY <1>1 DEF UpdateDNSTaskError, TasksInv, Open
<1>2. CASE tasks[k] # NoRow
  <2> DEFINE row == [tasks[k] EXCEPT !.isDone = TRUE, !.isOk = FALSE, !.countFails = tasks[k].countFails + 1]
  <2>1. tasks[k] \in Rows /\ tasks[k].countFails + 1 <= MaxRetries
    BY DNSAssumption DEF TasksInv, Rows
  <2>2. tasks' = [tasks EXCEPT ![k] = row]
    BY <1>2, <2>1 DEF UpdateDNSTaskError, TasksInv, Rows
  <2>a. tasks[k].countFails \in Nat /\ tasks[k].countFails + 1 \in Nat
    BY <2>1 DEF Rows
  <2>b. row.version = tasks[k].version /\ row.isDone /\ ~row.isOk /\ row.countFails = tasks[k].countFails + 1
    BY <2>1 DEF Rows
  <2>c. row \in Rows
    BY <2>1, <2>a DEF Rows
  <2>3. row \in Rows /\ row.version = tasks[k].version /\ row.isDone /\ ~row.isOk /\ row.countFails <= MaxRetries
    BY <2>1, <2>b, <2>c
  <2> HIDE DEF row
  <2>4. /\ tasks' \in [Keys -> Rows] /\ tasks'[k] = row /\ \A j \in Keys : j # k => tasks'[j] = tasks[j]
    BY <2>2, <2>3 DEF TasksInv
  <2>5. \A j \in Keys : Open(j) => Open(j)'
    BY <2>3, <2>4 DEF Open
  <2>6. \A j \in Keys : tasks'[j].version = tasks[j].version /\ (tasks'[j] # NoRow => tasks[j] # NoRow)
    BY <1>2, <2>3, <2>4
  <2>7. TasksInv'
    BY <1>2, <2>3, <2>4, <2>6 DEF TasksInv
  <2> QED BY <2>4, <2>5, <2>7
<1> QED BY <1>1, <1>2

\* A row that is marked done keeps its version.
LEMMA Saved ==
  ASSUME TasksInv, NEW k \in Keys, UNCHANGED clock,
         tasks' = IF tasks[k] = NoRow THEN tasks
                  ELSE [tasks EXCEPT ![k].isDone = TRUE, ![k].isOk = TRUE, ![k].countFails = 0]
  PROVE  /\ TasksInv' /\ \A j \in Keys : j # k => tasks'[j] = tasks[j]
         /\ \A j \in Keys : tasks'[j].countFails <= tasks[j].countFails
<1>1. CASE tasks[k] = NoRow
  BY <1>1 DEF TasksInv, Rows
<1>2. CASE tasks[k] # NoRow
  <2> DEFINE row == [tasks[k] EXCEPT !.isDone = TRUE, !.isOk = TRUE, !.countFails = 0]
  <2>1. tasks[k] \in Rows
    BY DEF TasksInv
  <2>2. tasks' = [tasks EXCEPT ![k] = row]
    BY <1>2, <2>1 DEF TasksInv, Rows
  <2>3. row \in Rows /\ row.version = tasks[k].version /\ row.countFails = 0 /\ row.isDone
    BY <2>1 DEF Rows
  <2> HIDE DEF row
  <2>4. /\ tasks' \in [Keys -> Rows] /\ tasks'[k] = row /\ \A j \in Keys : j # k => tasks'[j] = tasks[j]
    BY <2>2, <2>3 DEF TasksInv
  <2>5. \A j \in Keys : tasks'[j].version = tasks[j].version /\ (tasks'[j] # NoRow => tasks[j] # NoRow)
    BY <1>2, <2>3, <2>4
  <2>6. \A j \in Keys : tasks'[j].countFails <= tasks[j].countFails
    BY <2>1, <2>3, <2>4 DEF TasksInv, Rows
  <2>7. TasksInv'
    BY <1>2, <2>3, <2>4, <2>5, DNSAssumption DEF TasksInv
  <2> QED BY <2>4, <2>6, <2>7
<1> QED BY <1>1, <1>2

\* A row that is deleted is open no more.
LEMMA Deleted ==
  ASSUME TasksInv, NEW k \in Keys, UNCHANGED clock, tasks' = [tasks EXCEPT ![k] = NoRow]
  PROVE  /\ TasksInv' /\ tasks'[k].countFails = 0
         /\ \A j \in Keys : j # k => tasks'[j] = tasks[j]
<1>1. NoRow \in Rows /\ NoRow.version = 0 /\ NoRow.countFails = 0 /\ NoRow.isDone
  BY DEF NoRow, Rows
<1>2. /\ tasks' \in [Keys -> Rows] /\ tasks'[k] = NoRow
      /\ \A j \in Keys : j # k => tasks'[j] = tasks[j]
  BY <1>1 DEF TasksInv
<1>3. \A j \in Keys : j # k /\ tasks'[j] # NoRow => tasks[j].version # 0
  BY <1>2 DEF TasksInv
<1>4. \A i, j \in Keys : tasks'[i].version = tasks'[j].version /\ tasks'[i] # NoRow => i = j
  <2> SUFFICES ASSUME NEW i \in Keys, NEW j \in Keys, tasks'[i].version = tasks'[j].version, tasks'[i] # NoRow
               PROVE  i = j
    OBVIOUS
  <2>1. i # k /\ tasks'[i] = tasks[i] /\ tasks[i].version # 0
    BY <1>2, <1>3
  <2>2. j # k /\ tasks'[j] = tasks[j]
    BY <1>1, <1>2, <2>1
  <2> QED BY <2>1, <2>2 DEF TasksInv
<1>5. \A j \in Keys : tasks'[j].version <= clock /\ tasks'[j].countFails <= MaxRetries
  BY <1>1, <1>2, DNSAssumption DEF TasksInv
<1>6. \A j \in Keys : ~tasks'[j].isDone => tasks'[j].countFails = 0
  BY <1>1, <1>2 DEF TasksInv
<1>7. \A j \in Keys : tasks'[j].version = 0 => tasks'[j] = NoRow
  BY <1>2 DEF TasksInv
<1> QED BY <1>1, <1>2, <1>4, <1>5, <1>6, <1>7 DEF TasksInv

-----------------------------------------------------------------------------
\* Whatever of the tasks may fail once more still may.
MayFail == \A k \in Keys : tasks[k].countFails < MaxRetries => tasks'[k].countFails < MaxRetries

\* What a step leaves alone of a round stays right.
LEMMA SameRound ==
  ASSUME Types, TasksInv', clock <= clock', MayFail, UNCHANGED executor
  PROVE  executor' \in Rounds /\ QueueInv' /\ TaskInv'
<1>1. /\ executor # Idle => executor.queue \subseteq Listed
      /\ executor.pc \in {"read", "apply", "check"} => executor.key \in Keys /\ executor.version \in Nat
      /\ executor.pc = "save" => executor.seen \in Nat
  BY Shapes DEF Types
<1>2. clock \in Int /\ clock' \in Int
  BY DEF Types, TasksInv
<1>3. QueueInv'
  <2>1. SUFFICES ASSUME executor # Idle
                 PROVE  /\ \A row \in executor.queue : row.version <= clock' /\ tasks'[row.key].countFails < MaxRetries
                        /\ \A a, b \in executor.queue : a.key = b.key => a = b
    BY DEF QueueInv
  <2>2. \A row \in executor.queue : row.key \in Keys /\ row.version \in Int
    BY <1>1, <2>1 DEF Listed
  <2> QED BY <1>2, <2>1, <2>2 DEF Types, QueueInv, MayFail
<1>4. TaskInv'
  BY <1>1, <1>2 DEF Types, TaskInv, MayFail
<1> QED BY <1>3, <1>4 DEF Types

\* So does what is left of a list, whatever becomes of the task that is worked on.
LEMMA SameQueue ==
  ASSUME Types, TasksInv', clock <= clock', executor # Idle, executor'.queue = executor.queue,
         \A row \in executor.queue : tasks[row.key].countFails < MaxRetries => tasks'[row.key].countFails < MaxRetries
  PROVE  QueueInv'
<1>1. executor.queue \subseteq Listed
  BY Shapes DEF Types
<1>2. clock \in Int /\ clock' \in Int
  BY DEF Types, TasksInv
<1>3. \A row \in executor.queue : row.key \in Keys /\ row.version \in Int
  BY <1>1 DEF Listed
<1> QED BY <1>2, <1>3 DEF Types, QueueInv

\* The end of a task: the round goes on with the rest of its list.
LEMMA GoesOn ==
  ASSUME Types, TasksInv', clock <= clock', executor # Idle, executor' = [pc |-> "next", queue |-> executor.queue],
         \A row \in executor.queue : tasks[row.key].countFails < MaxRetries => tasks'[row.key].countFails < MaxRetries
  PROVE  executor' \in Rounds /\ QueueInv' /\ TaskInv' /\ executor'.pc = "next"
<1>1. executor.queue \subseteq Listed
  BY Shapes DEF Types
<1>2. executor' \in Rounds /\ executor'.pc = "next" /\ executor'.queue = executor.queue
  BY <1>1 DEF Rounds
<1>3. QueueInv'
  BY <1>2, SameQueue
<1>4. TaskInv'
  BY <1>2 DEF TaskInv
<1> QED BY <1>2, <1>3, <1>4

\* A task that has been worked on, and is now to be marked.
LEMMA WorkedOn ==
  ASSUME Types, TasksInv', clock <= clock', MayFail, executor.pc \in {"read", "apply"}, At("check")
  PROVE  /\ executor' \in Rounds /\ QueueInv' /\ TaskInv'
         /\ executor'.pc = "check" /\ executor'.key = executor.key /\ executor'.version = executor.version
<1>1. executor # Idle /\ executor.version \in Int /\ executor.queue \subseteq Listed
  BY Shapes DEF Types
<1>2. /\ executor'.pc = "check" /\ executor'.key = executor.key /\ executor'.version = executor.version
      /\ executor'.queue = executor.queue /\ executor' \in Rounds
  <2>1. CASE executor.pc = "read"
    <3>1. executor \in [pc : {"read", "check"}, queue : SUBSET Listed, changed : BOOLEAN, key : Keys, version : Nat]
      BY <2>1, Shapes DEF Types
    <3> QED BY <3>1 DEF At, Rounds
  <2>2. CASE executor.pc = "apply"
    <3>1. executor \in [pc : {"apply", "check"}, queue : SUBSET Listed, changed : BOOLEAN, key : Keys, version : Nat,
                        scope : SUBSET Records, want : SUBSET Records]
      BY <2>2, Shapes DEF Types
    <3> QED BY <3>1 DEF At, Rounds
  <2> QED BY <2>1, <2>2
<1>3. \A row \in executor.queue : tasks[row.key].countFails < MaxRetries => tasks'[row.key].countFails < MaxRetries
  BY <1>1 DEF MayFail, Listed
<1>4. QueueInv'
  BY <1>1, <1>2, <1>3, SameQueue
<1>5. TaskInv'
  <2>1. clock \in Int /\ clock' \in Int /\ executor.version <= clock
    BY DEF Types, TasksInv, TaskInv
  <2> QED BY <1>1, <1>2, <2>1 DEF TaskInv
<1> QED BY <1>2, <1>4, <1>5

\* A task whose records are to be brought in line.
LEMMA Aimed ==
  ASSUME Types, UNCHANGED <<tasks, clock>>, executor.pc \in {"read", "apply"},
         NEW scope \in SUBSET Records, Aim(scope),
         \/ executor.key \in {ClusterNodes, ClusterChange} /\ scope = Nodes
         \/ executor.key = ClusterChange /\ scope = Servers
         \/ executor.key.type = "serverChange" /\ scope = {executor.key.of}
  PROVE  /\ executor' \in Rounds /\ QueueInv' /\ TaskInv'
         /\ executor'.pc = "apply" /\ executor'.key = executor.key /\ executor'.version = executor.version
         /\ executor'.changed = executor.changed /\ executor'.scope = scope /\ executor'.want = wanted \cap scope
<1>1. /\ executor # Idle /\ executor.version \in Nat /\ executor.queue \subseteq Listed
      /\ executor.key \in Keys /\ executor.changed \in BOOLEAN
  BY Shapes DEF Types
<1>2. /\ executor'.pc = "apply" /\ executor'.key = executor.key /\ executor'.version = executor.version
      /\ executor'.changed = executor.changed /\ executor'.scope = scope /\ executor'.want = wanted \cap scope
      /\ executor'.queue = executor.queue
  BY DEF Aim
<1>3. executor' \in [pc : {"apply", "check"}, queue : SUBSET Listed, changed : BOOLEAN, key : Keys, version : Nat,
                     scope : SUBSET Records, want : SUBSET Records]
  BY <1>1 DEF Aim
<1>4. TasksInv' /\ clock <= clock'
  BY DEF Types, TasksInv
<1>5. QueueInv'
  BY <1>1, <1>2, <1>4, SameQueue
<1>6. TaskInv'
  BY <1>1, <1>2 DEF TaskInv, Types
<1> QED BY <1>2, <1>3, <1>5, <1>6 DEF Rounds

-----------------------------------------------------------------------------
(***************************************************************************)
(* Types, action by action.                                                *)
(***************************************************************************)

\* A new task leaves what may fail as it is.
LEMMA CreatedMay ==
  ASSUME Types, NEW k \in Keys, CreateDNSTask(k)
  PROVE  TasksInv' /\ clock <= clock' /\ MayFail
<1>1. /\ TasksInv' /\ clock' = clock + 1 /\ tasks'[k].countFails = 0
      /\ \A j \in Keys : j # k => tasks'[j] = tasks[j]
  BY Created DEF Types
<1>2. clock \in Int
  BY DEF Types, TasksInv
<1> QED BY <1>1, <1>2, DNSAssumption DEF MayFail

\* A change writes a new row; the round goes on as it was.
LEMMA ChangeTypes ==
  ASSUME Types, NEW r \in Records, Change(r)
  PROVE  Types'
<1>1. PICK k \in {TaskFor(r), ClusterChange} : CreateDNSTask(k)
  BY DEF Change
<1>2. TasksInv' /\ clock <= clock' /\ MayFail
  BY <1>1, KeyFacts, CreatedMay
<1>3. UNCHANGED executor
  BY DEF Change, Toggle
<1>4. SetsInv'
  BY DEF Change, Toggle, Types, SetsInv
<1> QED BY <1>2, <1>3, <1>4, SameRound DEF Types

\* Nor does a change that gets no row.
LEMMA UntoldTypes ==
  ASSUME Types, NEW r \in Records, NotifyFails(r)
  PROVE  Types'
<1>1. UNCHANGED <<tasks, clock, executor>> /\ SetsInv'
  BY DEF NotifyFails, Toggle, Types, SetsInv
<1>2. TasksInv' /\ QueueInv' /\ TaskInv'
  BY <1>1 DEF Types, TasksInv, QueueInv, TaskInv
<1> QED BY <1>1, <1>2 DEF Types

\* The rows that are listed may all fail once more, and each is listed once.
LEMMA ListTypes ==
  ASSUME Types, List
  PROVE  Types'
<1> DEFINE queue == {[key |-> k, version |-> tasks[k].version] : k \in {j \in Keys : Doing(j)}}
<1>1. executor' = [pc |-> "next", queue |-> queue] /\ UNCHANGED <<tasks, clock>>
  BY DEF List
<1>2. \A k \in Keys : /\ tasks[k].version \in Nat /\ tasks[k].version <= clock
                      /\ Doing(k) => tasks[k].countFails < MaxRetries
  BY DNSAssumption DEF Types, TasksInv, Rows, Doing
<1>3. \A row \in queue : /\ row \in Listed /\ row.version <= clock /\ tasks[row.key].countFails < MaxRetries
                         /\ row.version = tasks[row.key].version
  BY <1>2 DEF Listed
<1>4. \A a, b \in queue : a.key = b.key => a = b
  OBVIOUS
<1> HIDE DEF queue
<1>5. executor'.pc = "next" /\ executor'.queue = queue /\ executor' \in Rounds
  BY <1>1, <1>3 DEF Rounds
<1>6. QueueInv'
  BY <1>1, <1>3, <1>4, <1>5 DEF QueueInv
<1>7. SetsInv' /\ TasksInv' /\ TaskInv'
  BY <1>1, <1>5 DEF Types, SetsInv, TasksInv, TaskInv, List
<1> QED BY <1>5, <1>6, <1>7 DEF Types

\* The row that is worked on is the only one of its key on the list.
LEMMA NextTypes ==
  ASSUME Types, NextTask
  PROVE  Types'
<1>1. UNCHANGED <<tasks, clock>> /\ SetsInv' /\ TasksInv' /\ executor # Idle
  BY Shapes DEF NextTask, Types, SetsInv, TasksInv
<1>2. CASE executor' = Idle
  <2>1. executor'.pc = "idle" /\ executor' \in Rounds
    BY <1>2 DEF Idle, Rounds
  <2>2. QueueInv' /\ TaskInv'
    BY <1>2, <2>1 DEF QueueInv, TaskInv
  <2> QED BY <1>1, <2>1, <2>2 DEF Types
<1>3. CASE executor' # Idle
  <2>1. PICK row \in executor.queue : executor' = [pc |-> "read", queue |-> executor.queue \ {row},
                                                   changed |-> FALSE, key |-> row.key, version |-> row.version]
    BY <1>3 DEF NextTask
  <2>2. executor.queue \subseteq Listed /\ row.key \in Keys /\ row.version \in Nat
    BY <1>1, Shapes DEF Types, Listed
  <2>3. /\ executor'.pc = "read" /\ executor'.queue = executor.queue \ {row}
        /\ executor'.key = row.key /\ executor'.version = row.version
    BY <2>1
  <2>4. executor' \in Rounds
    BY <2>1, <2>2 DEF Rounds
  <2>5. /\ \A other \in executor.queue : other.version <= clock /\ tasks[other.key].countFails < MaxRetries
        /\ \A a, b \in executor.queue : a.key = b.key => a = b
    BY <1>1 DEF Types, QueueInv
  <2>6. QueueInv'
    BY <1>1, <2>3, <2>5 DEF QueueInv
  <2>7. TaskInv'
    BY <1>1, <2>3, <2>5 DEF TaskInv
  <2> QED BY <1>1, <2>4, <2>6, <2>7 DEF Types
<1> QED BY <1>2, <1>3

\* The task of the cluster is a new row.
LEMMA NodeTypes ==
  ASSUME Types, DoNode
  PROVE  Types'
<1>1. TasksInv' /\ clock <= clock' /\ MayFail
  BY CreatedMay, KeyFacts DEF DoNode
<1>2. executor' \in Rounds /\ QueueInv' /\ TaskInv'
  BY <1>1, WorkedOn DEF DoNode
<1>3. SetsInv'
  BY DEF DoNode, Types, SetsInv
<1> QED BY <1>1, <1>2, <1>3 DEF Types

\* With the tasks as they are, they may fail as often as before.
LEMMA SameMay ==
  ASSUME Types, UNCHANGED <<tasks, clock>>
  PROVE  TasksInv' /\ clock <= clock' /\ MayFail
BY DEF Types, TasksInv, MayFail

\* The nodes are the records of a cluster's task.
LEMMA ClusterTypes ==
  ASSUME Types, DoCluster
  PROVE  Types'
<1>1. Nodes \in SUBSET Records
  BY DEF Records
<1>2. executor' \in Rounds /\ QueueInv' /\ TaskInv'
  BY <1>1, Aimed DEF DoCluster
<1>3. SetsInv' /\ TasksInv'
  BY SameMay DEF DoCluster, Types, SetsInv
<1> QED BY <1>2, <1>3 DEF Types

\* A site's task is for its site.
LEMMA ServerTypes ==
  ASSUME Types, DoServer
  PROVE  Types'
<1>1. executor.key \in Keys /\ executor.key.of \in Servers
  BY Shapes, KeyKinds DEF DoServer, Types
<1>2. UNCHANGED <<tasks, clock>> /\ TasksInv' /\ clock <= clock' /\ MayFail
  BY SameMay DEF DoServer
<1>3. SetsInv'
  BY <1>1 DEF DoServer, Types, SetsInv, Records
<1>4. CASE At("check")
  BY <1>2, <1>3, <1>4, WorkedOn DEF DoServer, Types
<1>5. CASE Aim({executor.key.of})
  <2>1. {executor.key.of} \in SUBSET Records
    BY <1>1 DEF Records
  <2>2. executor' \in Rounds /\ QueueInv' /\ TaskInv'
    BY <1>2, <1>5, <2>1, Aimed DEF DoServer
  <2> QED BY <1>2, <1>3, <2>2 DEF Types
<1>6. At("check") \/ Aim({executor.key.of})
  BY DEF DoServer
<1> QED BY <1>4, <1>5, <1>6

\* A record is added or deleted: only the provider and the flag of the round change.
LEMMA RecordTypes ==
  ASSUME Types, NEW r \in Records, AddRecord(r) \/ DeleteRecord(r)
  PROVE  /\ Types' /\ executor.pc = "apply" /\ executor' = [executor EXCEPT !.changed = TRUE]
         /\ executor'.pc = "apply" /\ executor'.key = executor.key /\ executor'.version = executor.version
         /\ executor'.changed = TRUE /\ executor'.scope = executor.scope /\ executor'.want = executor.want
<1>1. /\ executor.pc = "apply" /\ executor' = [executor EXCEPT !.changed = TRUE] /\ UNCHANGED <<tasks, clock>>
      /\ TasksInv' /\ clock <= clock'
  BY SameMay DEF AddRecord, DeleteRecord
<1>2. executor # Idle
      /\ executor \in [pc : {"apply", "check"}, queue : SUBSET Listed, changed : BOOLEAN, key : Keys, version : Nat,
                       scope : SUBSET Records, want : SUBSET Records]
  BY <1>1, Shapes DEF Types
<1>3. /\ executor'.pc = "apply" /\ executor'.key = executor.key /\ executor'.version = executor.version
      /\ executor'.changed = TRUE /\ executor'.scope = executor.scope /\ executor'.want = executor.want
      /\ executor'.queue = executor.queue
  BY <1>1, <1>2
<1>4. executor' \in Rounds
  BY <1>1, <1>2 DEF Rounds
<1>5. QueueInv'
  BY <1>1, <1>2, <1>3, SameQueue
<1>6. TaskInv'
  BY <1>1, <1>3 DEF Types, TaskInv
<1>7. SetsInv'
  BY DEF Types, SetsInv, AddRecord, DeleteRecord
<1> QED BY <1>1, <1>3, <1>4, <1>5, <1>6, <1>7 DEF Types

\* After its nodes a cluster's task has its sites.
LEMMA AppliedTypes ==
  ASSUME Types, Applied
  PROVE  Types'
<1>1. SetsInv'
  BY DEF Types, SetsInv, Applied
<1>2. CASE executor.key = ClusterChange /\ executor.scope = Nodes
  <2>1. Aim(Servers) /\ UNCHANGED <<tasks, clock>> /\ executor.pc = "apply"
    BY <1>2 DEF Applied
  <2>2. executor' \in Rounds /\ QueueInv' /\ TaskInv'
    BY <1>2, <2>1, Aimed DEF Records
  <2> QED BY <1>1, <2>1, <2>2, SameMay DEF Types
<1>3. CASE ~(executor.key = ClusterChange /\ executor.scope = Nodes)
  <2>1. At("check") /\ (CreateDNSTask(DomainChange) \/ UNCHANGED <<tasks, clock>>) /\ executor.pc = "apply"
    BY <1>3 DEF Applied, Tell
  <2>2. TasksInv' /\ clock <= clock' /\ MayFail
    BY <2>1, KeyFacts, CreatedMay, SameMay
  <2>3. executor' \in Rounds /\ QueueInv' /\ TaskInv'
    BY <2>1, <2>2, WorkedOn
  <2> QED BY <1>1, <2>2, <2>3 DEF Types
<1> QED BY <1>2, <1>3

\* Reading the records again leaves the rows.
LEMMA DomainTypes ==
  ASSUME Types, DoDomain
  PROVE  Types'
<1>1. TasksInv' /\ clock <= clock' /\ MayFail
  BY SameMay DEF DoDomain
<1>2. executor' \in Rounds /\ QueueInv' /\ TaskInv'
  BY <1>1, WorkedOn DEF DoDomain
<1>3. SetsInv'
  BY DEF DoDomain, Types, SetsInv
<1> QED BY <1>1, <1>2, <1>3 DEF Types

\* The version a mark has seen is one the clock has been at.
LEMMA CheckTypes ==
  ASSUME Types, CheckVersion
  PROVE  Types'
<1>1. /\ UNCHANGED <<tasks, clock>> /\ TasksInv' /\ clock <= clock' /\ MayFail /\ SetsInv'
      /\ executor.pc = "check" /\ executor # Idle
  BY SameMay, Shapes DEF CheckVersion, Types, SetsInv
<1>2. CASE SameVersion
  <2>1. executor' = [pc |-> "save", queue |-> executor.queue, key |-> executor.key, seen |-> tasks[executor.key].version]
    BY <1>2 DEF CheckVersion
  <2>2. /\ executor.key \in Keys /\ executor.queue \subseteq Listed
        /\ tasks[executor.key].version \in Nat /\ tasks[executor.key].version <= clock
    BY <1>1, Shapes DEF Types, TasksInv, Rows
  <2>3. executor'.pc = "save" /\ executor'.queue = executor.queue /\ executor'.seen = tasks[executor.key].version
    BY <2>1
  <2>4. executor' \in Rounds
    BY <2>1, <2>2 DEF Rounds
  <2>5. QueueInv'
    BY <1>1, <2>3, SameQueue
  <2>6. TaskInv'
    BY <1>1, <2>2, <2>3 DEF TaskInv
  <2> QED BY <1>1, <2>4, <2>5, <2>6 DEF Types
<1>3. CASE ~SameVersion
  <2>1. executor' = [pc |-> "next", queue |-> executor.queue]
    BY <1>3 DEF CheckVersion
  <2> QED BY <1>1, <2>1, GoesOn DEF Types
<1> QED BY <1>2, <1>3

\* A row that is marked done has not failed.
LEMMA SaveTypes ==
  ASSUME Types, SaveDone
  PROVE  Types'
<1>1. executor.pc = "save" /\ executor # Idle /\ executor.key \in Keys /\ executor.queue \subseteq Listed
  BY Shapes DEF SaveDone, Types
<1>2. TasksInv' /\ \A j \in Keys : tasks'[j].countFails <= tasks[j].countFails
  BY <1>1, Saved DEF SaveDone, Types
<1>3. clock <= clock'
  BY DEF SaveDone, Types, TasksInv
<1>4. \A j \in Keys : tasks[j].countFails \in Int /\ tasks'[j].countFails \in Int
  BY <1>2 DEF Types, TasksInv, Rows
<1>5. \A row \in executor.queue : tasks[row.key].countFails < MaxRetries => tasks'[row.key].countFails < MaxRetries
  BY <1>1, <1>2, <1>4, DNSAssumption DEF Listed
<1>6. executor' \in Rounds /\ QueueInv' /\ TaskInv'
  BY <1>1, <1>2, <1>3, <1>5, GoesOn DEF SaveDone
<1>7. SetsInv'
  BY <1>1, KeyKinds DEF SaveDone, Types, SetsInv
<1> QED BY <1>2, <1>6, <1>7 DEF Types

\* A row fails only while it may, and is not on the list any more.
LEMMA FailTypes ==
  ASSUME Types, TaskFails
  PROVE  Types'
<1>1. /\ executor.pc \in {"read", "apply"} /\ executor # Idle /\ executor.key \in Keys
      /\ executor.queue \subseteq Listed /\ executor.changed \in BOOLEAN
  BY Shapes DEF TaskFails, Types
<1>2. TasksInv' /\ \A j \in Keys : j # executor.key => tasks'[j] = tasks[j]
  BY <1>1, Failed DEF TaskFails, Types, TaskInv
<1>3. clock <= clock'
  BY DEF TaskFails, Types, TasksInv
<1>4. \A row \in executor.queue : tasks[row.key].countFails < MaxRetries => tasks'[row.key].countFails < MaxRetries
  BY <1>1, <1>2 DEF Types, TaskInv, Listed
<1>5. executor' \in Rounds /\ QueueInv' /\ TaskInv'
  BY <1>1, <1>2, <1>3, <1>4, GoesOn DEF TaskFails
<1>6. SetsInv'
  BY <1>1 DEF TaskFails, Types, SetsInv
<1> QED BY <1>2, <1>5, <1>6 DEF Types

\* An error of a mark, or the end of a round, leaves the rows.
LEMMA EndTypes ==
  ASSUME Types, MarkFails \/ ExecutorStops
  PROVE  Types'
<1>1. UNCHANGED <<tasks, clock>> /\ TasksInv' /\ clock <= clock' /\ executor # Idle
  BY SameMay, Shapes DEF MarkFails, ExecutorStops, Types
<1>2. CASE MarkFails
  BY <1>1, <1>2, GoesOn DEF MarkFails, Types, SetsInv
<1>3. CASE ExecutorStops
  <2>1. executor' = Idle /\ executor'.pc = "idle" /\ executor' \in Rounds
    BY <1>3 DEF ExecutorStops, Idle, Rounds
  <2>2. QueueInv' /\ TaskInv'
    BY <2>1 DEF QueueInv, TaskInv
  <2>3. SetsInv'
    BY <1>3, Shapes DEF ExecutorStops, Types, SetsInv
  <2> QED BY <1>1, <2>1, <2>2, <2>3 DEF Types
<1> QED BY <1>2, <1>3

\* A row that is deleted leaves what may fail as it is.
LEMMA DeleteTypes ==
  ASSUME Types, NEW k \in Keys, DeleteDNSTask(k)
  PROVE  Types'
<1>1. TasksInv' /\ tasks'[k].countFails = 0 /\ \A j \in Keys : j # k => tasks'[j] = tasks[j]
  BY Deleted DEF DeleteDNSTask, Types
<1>2. clock <= clock' /\ MayFail /\ UNCHANGED executor
  BY <1>1, DNSAssumption DEF DeleteDNSTask, Types, TasksInv, MayFail
<1>3. SetsInv'
  BY KeyKinds DEF DeleteDNSTask, Types, SetsInv
<1> QED BY <1>1, <1>2, <1>3, SameRound DEF Types

-----------------------------------------------------------------------------
(***************************************************************************)
(* What is known of the records, action by action.                         *)
(***************************************************************************)
Known == WorkInv /\ ReadInv /\ Remembered /\ CacheInv

\* Neither the start or the end of a round nor its turn to the next task changes what is
\* known, as long as rows stay open and a change that is not told of shows in stale.
LEMMA LeftKnown ==
  ASSUME RecordInv, UNCHANGED <<wanted, remote, cache, lost>>, executor'.pc \in {"idle", "next", "read"},
         \A j \in Keys : Open(j) => Open(j)',
         stale => stale', executor.pc = "apply" /\ executor.changed => stale'
  PROVE  Known'
<1>1. WorkInv' /\ ReadInv'
  BY DEF WorkInv, ReadInv
<1>2. Remembered'
  BY ServingFacts DEF RecordInv, Remembered, Settled, Serving
<1>3. CacheInv'
  BY KeyFacts DEF RecordInv, CacheInv
<1> QED BY <1>1, <1>2, <1>3 DEF Known

\* The version a task is worked on in, and the version its mark has seen.
LEMMA Versions ==
  ASSUME Types
  PROVE  /\ executor.pc \in {"apply", "check"} =>
              executor.key \in Keys /\ executor.version \in Nat /\ executor.version <= clock
         /\ executor.pc = "save" => executor.key \in Keys /\ executor.seen \in Nat /\ executor.seen <= clock
BY Shapes DEF Types, TaskInv

\* A step that takes nothing from what is in line or meant leaves the work right.
LEMMA SameWork ==
  ASSUME Types, WorkInv, UNCHANGED executor,
         \A r \in Records, j \in Keys, v \in Nat :
           v <= clock => (InLine(r, j, v) => InLine(r, j, v)') /\ (Meant(r, j, v) => Meant(r, j, v)')
  PROVE  WorkInv'
<1> DEFINE key     == executor.key
           version == executor.version
           seen    == executor.seen
<1>1. CASE executor.pc = "apply"
  <2>1. key \in Keys /\ version \in Nat /\ version <= clock /\ executor.scope \subseteq Records
    BY <1>1, Versions, Shapes DEF Types
  <2>2. PICK j \in Keys, v \in Nat : j = key /\ v = version /\ v <= clock
    BY <2>1
  <2>3. \A r \in executor.scope : Meant(r, j, v)'
    BY <1>1, <2>1, <2>2 DEF WorkInv
  <2>4. executor.scope # Nodes /\ key = ClusterChange => \A r \in Nodes : InLine(r, j, v)'
    BY <1>1, <2>1, <2>2 DEF WorkInv, Records
  <2>5. executor.pc' = "apply" /\ executor'.pc = "apply"
    BY <1>1
  <2>6. \A r \in executor.scope : Meant(r, executor.key, executor.version)'
    BY <2>2, <2>3 DEF Meant, Newer
  <2>7. executor.scope # Nodes /\ key = ClusterChange => \A r \in Nodes : InLine(r, executor.key, executor.version)'
    BY <2>2, <2>4 DEF InLine, Newer
  <2> QED BY <2>5, <2>6, <2>7 DEF WorkInv
<1>2. CASE executor.pc = "check"
  <2>1. key \in Keys /\ version \in Nat /\ version <= clock /\ RecordsOf(key) \subseteq Records
    BY <1>2, Versions, KeyKinds
  <2>2. PICK j \in Keys, v \in Nat : j = key /\ v = version /\ v <= clock
    BY <2>1
  <2>3. \A r \in RecordsOf(key) : InLine(r, j, v)'
    BY <1>2, <2>1, <2>2 DEF WorkInv
  <2>4. \A r \in RecordsOf(key) : InLine(r, executor.key, executor.version)'
    BY <2>2, <2>3 DEF InLine, Newer
  <2> QED BY <1>2, <2>4 DEF WorkInv
<1>3. CASE executor.pc = "save"
  <2>1. key \in Keys /\ seen \in Nat /\ seen <= clock /\ RecordsOf(key) \subseteq Records
    BY <1>3, Versions, KeyKinds
  <2>2. PICK j \in Keys, v \in Nat : j = key /\ v = seen /\ v <= clock
    BY <2>1
  <2>3. \A r \in RecordsOf(key) : InLine(r, j, v)'
    BY <1>3, <2>1, <2>2 DEF WorkInv
  <2>4. \A r \in RecordsOf(key) : InLine(r, executor.key, executor.seen)'
    BY <2>2, <2>3 DEF InLine, Newer
  <2> QED BY <1>3, <2>4 DEF WorkInv
<1> QED BY <1>1, <1>2, <1>3 DEF WorkInv

\* A change has a task that is newer than whatever is worked on.
LEMMA ChangeKnown ==
  ASSUME RecordInv, NEW x \in Records, Change(x)
  PROVE  Known'
<1>1. PICK k \in {TaskFor(x), ClusterChange} : CreateDNSTask(k)
  BY DEF Change
<1>2. k \in Keys /\ k \in Serving(x) /\ Types
  BY <1>1, ServingFacts DEF RecordInv, Serving
<1>3. /\ UNCHANGED <<executor, remote, cache, stale>>
      /\ \A r \in Records : r # x => (r \in wanted' <=> r \in wanted) /\ (r \in lost' <=> r \in lost)
  BY DEF Change, Toggle
<1>4. Open(k)' /\ \A j \in Keys : Open(j) => Open(j)'
  BY <1>1, <1>2, Created DEF Types
<1>5. ASSUME NEW r \in Records, NEW j \in Keys, NEW v \in Nat, v <= clock
      PROVE  (InLine(r, j, v) => InLine(r, j, v)') /\ (Meant(r, j, v) => Meant(r, j, v)')
  <2>1. (Newer(r, j, v) => Newer(r, j, v)') /\ (r = x => Newer(r, j, v)')
    BY <1>1, <1>2, <1>5, CreatedNewer DEF Types
  <2>2. CASE r = x
    BY <2>1, <2>2 DEF InLine, Meant
  <2>3. CASE r # x
    <3>1. (r \in wanted' <=> r \in wanted) /\ (r \in lost' <=> r \in lost) /\ (Settled(r)' <=> Settled(r))
      BY <1>3, <2>3 DEF Settled
    <3> HIDE DEF Newer, Settled
    <3>2. InLine(r, j, v) => InLine(r, j, v)'
      BY <2>1, <3>1 DEF InLine
    <3>3. Meant(r, j, v) => Meant(r, j, v)'
      BY <1>3, <2>1, <3>1 DEF Meant
    <3> QED BY <3>2, <3>3
  <2> QED BY <2>2, <2>3
<1>6. WorkInv'
  BY <1>2, <1>3, <1>5, SameWork DEF RecordInv
<1>7. Remembered'
  <2>1. SUFFICES ASSUME NEW r \in Records
                 PROVE  Settled(r)' \/ r \in lost' \/ \E j \in Serving(r) : Open(j)'
    BY DEF Remembered, Serving
  <2>2. CASE r = x
    BY <1>2, <1>4, <2>2
  <2>3. CASE r # x
    <3>1. (r \in wanted' <=> r \in wanted) /\ (r \in lost' <=> r \in lost) /\ remote' = remote
      BY <1>3, <2>3
    <3> QED BY <1>4, <3>1, ServingFacts DEF RecordInv, Remembered, Settled
  <2> QED BY <2>2, <2>3
<1>8. ReadInv' /\ CacheInv'
  BY <1>3, <1>4, KeyFacts DEF RecordInv, ReadInv, CacheInv
<1> QED BY <1>6, <1>7, <1>8 DEF Known

\* A change that gets no row is counted lost.
LEMMA UntoldKnown ==
  ASSUME RecordInv, NEW x \in Records, NotifyFails(x)
  PROVE  Known'
<1>1. /\ UNCHANGED <<executor, remote, cache, stale, tasks, clock>> /\ x \in lost'
      /\ \A r \in Records : r # x => (r \in wanted' <=> r \in wanted) /\ (r \in lost' <=> r \in lost)
  BY DEF NotifyFails, Toggle
<1>2. ASSUME NEW r \in Records, NEW j \in Keys, NEW v \in Nat, v <= clock
      PROVE  (InLine(r, j, v) => InLine(r, j, v)') /\ (Meant(r, j, v) => Meant(r, j, v)')
  <2>1. CASE r = x
    BY <1>1, <2>1 DEF InLine, Meant
  <2>2. CASE r # x
    <3>1. Newer(r, j, v) => Newer(r, j, v)'
      BY <1>1 DEF Newer, Serving, Open
    <3> QED BY <1>1, <2>2, <3>1 DEF InLine, Meant, Settled
  <2> QED BY <2>1, <2>2
<1>3. WorkInv'
  BY <1>1, <1>2, SameWork DEF RecordInv, Types, TasksInv
<1>4. Remembered'
  <2>1. SUFFICES ASSUME NEW r \in Records, r # x
                 PROVE  Settled(r)' \/ r \in lost' \/ \E j \in Serving(r) : Open(j)'
    BY <1>1 DEF Remembered, Serving
  <2> QED BY <1>1, <2>1 DEF RecordInv, Remembered, Settled, Open
<1>5. ReadInv' /\ CacheInv'
  BY <1>1 DEF RecordInv, ReadInv, CacheInv, Open
<1> QED BY <1>3, <1>4, <1>5 DEF Known

\* A row that is deleted takes with it only what its records are counted lost for.
LEMMA DeleteKnown ==
  ASSUME RecordInv, NEW k \in Keys, DeleteDNSTask(k)
  PROVE  Known'
<1>1. /\ UNCHANGED <<executor, wanted, remote, cache>> /\ lost' = lost \cup RecordsOf(k)
      /\ stale' = (stale \/ k = DomainChange)
  BY DEF DeleteDNSTask
<1>2. (\A j \in Keys : j # k => tasks'[j] = tasks[j]) /\ Types
  BY Deleted DEF DeleteDNSTask, RecordInv, Types
<1>3. \A j \in Keys : j # k => (Open(j)' <=> Open(j))
  BY <1>2 DEF Open
<1>4. ASSUME NEW r \in Records, NEW j \in Keys, NEW v \in Nat, v <= clock
      PROVE  (InLine(r, j, v) => InLine(r, j, v)') /\ (Meant(r, j, v) => Meant(r, j, v)')
  <2>1. CASE r \in RecordsOf(k)
    BY <1>1, <2>1 DEF InLine, Meant
  <2>2. CASE r \notin RecordsOf(k)
    <3>1. \A i \in Serving(r) : i \in Keys /\ i # k
      BY <2>2 DEF Serving
    <3>2. Newer(r, j, v) => Newer(r, j, v)'
      BY <1>2, <1>3, <3>1 DEF Newer, Serving
    <3> QED BY <1>1, <3>2 DEF InLine, Meant, Settled
  <2> QED BY <2>1, <2>2
<1>5. WorkInv'
  BY <1>1, <1>2, <1>4, SameWork DEF RecordInv
<1>6. Remembered'
  BY <1>1, <1>3 DEF RecordInv, Remembered, Settled, Serving
<1>7. ReadInv' /\ CacheInv'
  BY <1>1, <1>3, KeyFacts DEF RecordInv, ReadInv, CacheInv
<1> QED BY <1>5, <1>6, <1>7 DEF Known

\* A node's change is handed over to a task of its cluster, which is newer.
LEMMA NodeKnown ==
  ASSUME RecordInv, DoNode
  PROVE  Known'
<1>1. /\ executor.pc = "read" /\ executor.key.type = "nodeChange" /\ CreateDNSTask(ClusterNodes)
      /\ UNCHANGED <<wanted, remote, cache, lost, stale>> /\ Types
  BY DEF DoNode, RecordInv
<1>2. /\ executor.key \in Keys /\ executor.version \in Nat /\ executor.version <= clock
  BY <1>1, Shapes DEF Types, TaskInv
<1>3. executor'.pc = "check" /\ executor'.key = executor.key /\ executor'.version = executor.version
  BY <1>1, WorkedOn, CreatedMay, KeyFacts DEF DoNode
<1>4. \A j \in Keys : Open(j) => Open(j)'
  BY <1>1, Created, KeyFacts DEF Types
<1>5. PICK k \in Keys, v \in Nat : k = executor.key /\ v = executor.version /\ v <= clock
  BY <1>2
<1>6. PICK n \in Nodes : RecordsOf(k) = {n}
  BY <1>1, <1>2, <1>5, KeyKinds
<1>7. n \in Records /\ ClusterNodes \in Serving(n) /\ k # DomainChange
  BY <1>6, ServingFacts, KeyFacts DEF Records
<1>8. Newer(n, k, v)'
  BY <1>1, <1>5, <1>7, CreatedNewer, KeyFacts DEF Types
<1>9. InLine(n, executor.key, executor.version)'
  BY <1>3, <1>5, <1>8 DEF InLine, Newer
<1>10. WorkInv'
  BY <1>3, <1>5, <1>6, <1>9 DEF WorkInv
<1>11. Remembered'
  BY <1>1, <1>4, ServingFacts DEF RecordInv, Remembered, Settled, Serving
<1>12. ReadInv' /\ CacheInv'
  BY <1>1, <1>3, <1>4, <1>5, <1>7, KeyFacts DEF RecordInv, ReadInv, CacheInv
<1> QED BY <1>10, <1>11, <1>12 DEF Known

\* What is meant is read anew.
LEMMA AimKnown ==
  ASSUME RecordInv, UNCHANGED <<wanted, remote, cache, tasks, clock, lost, stale>>,
         NEW scope \in SUBSET Records, executor.pc \in {"read", "apply"}, Aim(scope),
         scope # Nodes /\ executor.key = ClusterChange =>
           \A r \in Nodes : InLine(r, executor.key, executor.version)
  PROVE  Known'
<1>1. /\ executor'.pc = "apply" /\ executor'.key = executor.key /\ executor'.version = executor.version
      /\ executor'.changed = executor.changed /\ executor'.scope = scope /\ executor'.want = wanted \cap scope
  BY DEF Aim
<1>2. \A r \in scope : Meant(r, executor.key, executor.version)'
  BY <1>1 DEF Meant
<1>3. \A r \in Nodes : InLine(r, executor.key, executor.version) => InLine(r, executor.key, executor.version)'
  BY <1>1 DEF InLine, Settled, Newer, Serving, Open
<1>4. WorkInv'
  BY <1>1, <1>2, <1>3 DEF WorkInv
<1>5. Remembered' /\ ReadInv'
  BY <1>1 DEF RecordInv, Remembered, Settled, Serving, Open, ReadInv
<1>6. CacheInv'
  BY <1>1 DEF RecordInv, CacheInv, Open
<1> QED BY <1>4, <1>5, <1>6 DEF Known

\* The nodes of the cluster are read anew.
LEMMA ClusterKnown ==
  ASSUME RecordInv, DoCluster
  PROVE  Known'
<1>1. Nodes \in SUBSET Records
  BY DEF Records
<1> QED BY <1>1, AimKnown DEF DoCluster

\* A site that seems to be in place and is not counts as lost; any other is read anew.
LEMMA ServerKnown ==
  ASSUME RecordInv, DoServer
  PROVE  Known'
<1> DEFINE s == executor.key.of
<1>1. /\ executor.pc = "read" /\ executor.key.type = "serverChange"
      /\ UNCHANGED <<wanted, remote, cache, tasks, clock, stale>> /\ Types
  BY DEF DoServer, RecordInv
<1>2. executor.key \in Keys /\ s \in Servers /\ RecordsOf(executor.key) = {s} /\ {s} \in SUBSET Records
  BY <1>1, Shapes, KeyKinds DEF Types, Records
<1>3. executor.key # ClusterChange /\ executor.key # DomainChange
  BY <1>1 DEF ClusterChange, DomainChange
<1>4. CASE s \in wanted /\ s \in cache
  <2>1. At("check") /\ lost' = IF s \in remote THEN lost ELSE lost \cup {s}
    BY <1>4 DEF DoServer
  <2>2. executor'.pc = "check" /\ executor'.key = executor.key
    BY <1>1, <2>1, SameMay, WorkedOn
  <2>3. \A r \in RecordsOf(executor.key) : InLine(r, executor.key, executor.version)'
    BY <1>1, <1>2, <1>4, <2>1 DEF InLine, Settled
  <2>4. WorkInv'
    BY <2>2, <2>3 DEF WorkInv
  <2>5. Remembered'
    BY <1>1, <2>1 DEF RecordInv, Remembered, Settled, Serving, Open
  <2>6. ReadInv' /\ CacheInv'
    BY <1>1, <1>3, <2>2 DEF RecordInv, ReadInv, CacheInv, Open
  <2> QED BY <2>4, <2>5, <2>6 DEF Known
<1>5. CASE ~(s \in wanted /\ s \in cache)
  <2>1. Aim({s}) /\ UNCHANGED lost
    BY <1>5 DEF DoServer
  <2> QED BY <1>1, <1>2, <1>3, <2>1, AimKnown
<1> QED BY <1>4, <1>5

\* A record that is added or deleted is now as it is meant; of the other part of a cluster
\* nothing changes.
LEMMA RecordKnown ==
  ASSUME RecordInv, NEW x \in Records, AddRecord(x) \/ DeleteRecord(x)
  PROVE  Known'
<1>1. /\ UNCHANGED <<wanted, cache, tasks, clock, lost, stale>> /\ executor.pc = "apply"
      /\ executor'.pc = "apply" /\ executor'.key = executor.key /\ executor'.version = executor.version
      /\ executor'.changed = TRUE /\ executor'.scope = executor.scope /\ executor'.want = executor.want
  BY RecordTypes DEF RecordInv, AddRecord, DeleteRecord
<1>2. /\ executor.want \subseteq executor.scope
      /\ executor.key = ClusterChange => executor.scope \in {Nodes, Servers}
  BY <1>1 DEF RecordInv, Types, TaskInv, ClusterChange
<1>3. /\ x \in executor.scope /\ (x \in remote' <=> x \in executor.want)
      /\ \A r \in Records : r # x => (r \in remote' <=> r \in remote)
  BY <1>2 DEF AddRecord, DeleteRecord, Missing, Surplus
<1>4. \A r \in executor.scope : Meant(r, executor.key, executor.version)'
  BY <1>1 DEF RecordInv, WorkInv, Meant, Newer, Serving, Open
<1>5. executor.scope # Nodes /\ executor.key = ClusterChange =>
        \A r \in Nodes : InLine(r, executor.key, executor.version)'
  <2>1. SUFFICES ASSUME executor.scope # Nodes, executor.key = ClusterChange, NEW r \in Nodes
                 PROVE  InLine(r, executor.key, executor.version)'
    OBVIOUS
  <2>2. r # x /\ r \in Records /\ (r \in remote' <=> r \in remote)
    BY <1>2, <1>3, <2>1, DNSAssumption DEF Records
  <2>3. InLine(r, executor.key, executor.version)
    BY <1>1, <2>1 DEF RecordInv, WorkInv
  <2> QED BY <1>1, <2>2, <2>3 DEF InLine, Settled, Newer, Serving, Open
<1>6. WorkInv'
  BY <1>1, <1>4, <1>5 DEF WorkInv
<1>7. Remembered'
  <2>1. SUFFICES ASSUME NEW r \in Records
                 PROVE  Settled(r)' \/ r \in lost' \/ \E j \in Serving(r) : Open(j)'
    BY DEF Remembered, Serving
  <2>2. CASE r = x
    <3>1. Meant(x, executor.key, executor.version)
      BY <1>1, <1>3 DEF RecordInv, WorkInv
    <3> QED BY <1>1, <1>3, <2>2, <3>1 DEF Meant, Settled, Newer, Open
  <2>3. CASE r # x
    BY <1>1, <1>3, <2>3 DEF RecordInv, Remembered, Settled, Open
  <2> QED BY <2>2, <2>3
<1>8. ReadInv' /\ CacheInv'
  BY <1>1 DEF ReadInv, CacheInv
<1> QED BY <1>6, <1>7, <1>8 DEF Known

\* With nothing missing and nothing too much, what is meant is in line.
LEMMA ScopeInLine ==
  ASSUME RecordInv, executor.pc = "apply", Missing = {}, Surplus = {}, NEW r \in executor.scope
  PROVE  InLine(r, executor.key, executor.version)
<1>1. r \in executor.want <=> r \in remote
  BY DEF Missing, Surplus
<1>2. Meant(r, executor.key, executor.version)
  BY DEF RecordInv, WorkInv
<1> QED BY <1>1, <1>2 DEF Meant, InLine, Settled

\* What has been worked on is in line, and told of when it was changed.
LEMMA AppliedKnown ==
  ASSUME RecordInv, Applied
  PROVE  Known'
<1>1. /\ executor.pc = "apply" /\ Missing = {} /\ Surplus = {}
      /\ UNCHANGED <<wanted, remote, cache, lost, stale>> /\ Types
  BY DEF Applied, RecordInv
<1>2. executor.key \in Keys /\ executor.version \in Nat /\ executor.version <= clock /\ executor.scope \subseteq Records
  BY <1>1, Versions, Shapes DEF Types
<1>3. \A r \in executor.scope : InLine(r, executor.key, executor.version)
  BY <1>1, ScopeInLine
<1>4. CASE executor.key = ClusterChange /\ executor.scope = Nodes
  <2>1. Aim(Servers) /\ UNCHANGED <<tasks, clock>> /\ Servers \in SUBSET Records
    BY <1>4 DEF Applied, Records
  <2> QED BY <1>1, <1>3, <1>4, <2>1, AimKnown
<1>5. CASE ~(executor.key = ClusterChange /\ executor.scope = Nodes)
  <2>1. At("check") /\ \/ CreateDNSTask(DomainChange)
                       \/ UNCHANGED <<tasks, clock>> /\ ~executor.changed
    BY <1>5 DEF Applied, Tell
  <2>2. /\ executor'.pc = "check" /\ executor'.key = executor.key /\ executor'.version = executor.version
    BY <1>1, <2>1, WorkedOn, CreatedMay, SameMay, KeyFacts
  <2>3. PICK k \in Keys, v \in Nat : k = executor.key /\ v = executor.version /\ v <= clock
    BY <1>2
  <2>4. k # DomainChange /\ \A r \in RecordsOf(k) : r \in Records /\ InLine(r, k, v)
    <3>1. CASE k \in {ClusterNodes, ClusterChange} /\ executor.scope = Nodes
      BY <1>3, <1>5, <2>3, <3>1, KeyFacts DEF Records
    <3>2. CASE k = ClusterChange /\ executor.scope = Servers
      <4>1. \A r \in Nodes : InLine(r, k, v)
        BY <1>1, <1>5, <2>3, <3>2 DEF RecordInv, WorkInv
      <4> QED BY <1>3, <2>3, <3>2, <4>1, KeyFacts DEF Records
    <3>3. CASE k.type = "serverChange" /\ executor.scope = {k.of}
      <4>1. RecordsOf(k) = {k.of} /\ k # DomainChange
        BY <3>3, KeyKinds DEF DomainChange
      <4> QED BY <1>2, <1>3, <2>3, <3>3, <4>1
    <3> QED BY <1>1, <2>3, <3>1, <3>2, <3>3 DEF Types, TaskInv
  <2>5. /\ \A j \in Keys : Open(j) => Open(j)'
        /\ executor.changed => Open(DomainChange)'
        /\ \A r \in Records : Newer(r, k, v) => Newer(r, k, v)'
    <3>1. CASE CreateDNSTask(DomainChange)
      BY <1>1, <2>3, <3>1, Created, CreatedNewer, KeyFacts DEF Types
    <3>2. CASE UNCHANGED <<tasks, clock>> /\ ~executor.changed
      BY <3>2 DEF Open, Newer, Serving
    <3> QED BY <2>1, <3>1, <3>2
  <2>6. \A r \in RecordsOf(k) : InLine(r, k, v)'
    BY <1>1, <2>4, <2>5 DEF InLine, Settled
  <2>7. \A r \in RecordsOf(k) : InLine(r, executor.key, executor.version)'
    BY <2>2, <2>3, <2>6 DEF InLine, Newer
  <2>8. WorkInv'
    BY <2>2, <2>3, <2>7 DEF WorkInv
  <2>9. Remembered'
    BY <1>1, <2>5, ServingFacts DEF RecordInv, Remembered, Settled, Serving
  <2>10. ReadInv' /\ CacheInv'
    BY <1>1, <2>2, <2>3, <2>4, <2>5, KeyFacts DEF RecordInv, ReadInv, CacheInv
  <2> QED BY <2>8, <2>9, <2>10 DEF Known
<1> QED BY <1>4, <1>5

\* The records of the domain have been read again.
LEMMA DomainKnown ==
  ASSUME RecordInv, DoDomain
  PROVE  Known'
<1>1. /\ executor.pc = "read" /\ executor.key = DomainChange /\ cache' = remote
      /\ UNCHANGED <<wanted, remote, tasks, clock, lost>> /\ Types
  BY DEF DoDomain, RecordInv
<1>2. executor'.pc = "check" /\ executor'.key = DomainChange
  BY <1>1, WorkedOn, SameMay DEF DoDomain
<1>3. WorkInv' /\ ReadInv' /\ CacheInv'
  BY <1>1, <1>2, KeyFacts DEF WorkInv, ReadInv, CacheInv
<1>4. Remembered'
  BY <1>1 DEF RecordInv, Remembered, Settled, Serving, Open
<1> QED BY <1>3, <1>4 DEF Known

\* A row in version 0 is not there, and does not stand for anything newer.
LEMMA CheckKnown ==
  ASSUME RecordInv, CheckVersion
  PROVE  Known'
<1>1. /\ executor.pc = "check" /\ UNCHANGED <<wanted, remote, cache, tasks, clock, lost, stale>> /\ Types
  BY DEF CheckVersion, RecordInv
<1>2. \A j \in Keys : Open(j) => Open(j)'
  BY <1>1 DEF Open
<1>3. CASE ~SameVersion
  <2>1. executor'.pc = "next"
    BY <1>3 DEF CheckVersion
  <2> QED BY <1>1, <1>2, <2>1, LeftKnown
<1>4. CASE SameVersion
  <2>1. PICK k \in Keys, v \in Nat, u \in Nat : k = executor.key /\ v = executor.version /\ u = tasks[k].version
    BY <1>1, Versions DEF Types, TasksInv, Rows
  <2>2. u = v \/ (u = 0 /\ tasks[k] = NoRow)
    BY <1>1, <1>4, <2>1 DEF SameVersion, Types, TasksInv
  <2>3. ~(u = 0 /\ tasks[k] = NoRow /\ Open(k))
    BY DEF NoRow, Open
  <2>4. executor'.pc = "save" /\ executor'.key = k /\ executor'.seen = u
    BY <1>4, <2>1 DEF CheckVersion
  <2>5. \A r \in RecordsOf(k) : r \in Records /\ InLine(r, k, v)
    BY <1>1, <2>1, KeyKinds DEF RecordInv, WorkInv
  <2>6. \A r \in RecordsOf(k) : InLine(r, k, u)
    <3>1. ASSUME NEW r \in RecordsOf(k), Newer(r, k, v) PROVE Newer(r, k, u)
      BY <2>2, <2>3, <3>1 DEF Newer
    <3> QED BY <2>5, <3>1 DEF InLine
  <2>7. \A r \in RecordsOf(k) : InLine(r, k, u)'
    BY <1>1, <2>6 DEF InLine, Settled, Newer, Serving, Open
  <2>8. \A r \in RecordsOf(k) : InLine(r, executor.key, executor.seen)'
    BY <2>4, <2>7 DEF InLine, Newer
  <2>9. WorkInv'
    BY <2>4, <2>8 DEF WorkInv
  <2>10. Remembered'
    BY <1>1 DEF RecordInv, Remembered, Settled, Serving, Open
  <2>11. ReadInv' /\ CacheInv'
    BY <1>1, <2>1, <2>4 DEF RecordInv, ReadInv, CacheInv, Open
  <2> QED BY <2>9, <2>10, <2>11 DEF Known
<1> QED BY <1>3, <1>4

\* A row that is marked done in the version the mark has seen leaves what is newer to
\* other rows.
LEMMA SaveKnown ==
  ASSUME RecordInv, SaveDone
  PROVE  Known'
<1>1. /\ executor.pc = "save" /\ executor'.pc = "next" /\ UNCHANGED <<wanted, remote, cache, clock, stale>> /\ Types
  BY DEF SaveDone, RecordInv
<1>2. PICK k \in Keys, u \in Nat : k = executor.key /\ u = executor.seen
  BY <1>1, Versions
<1>3. \A j \in Keys : j # k => tasks'[j] = tasks[j]
  BY <1>2, Saved DEF SaveDone, RecordInv, Types
<1>4. \A j \in Keys : j # k /\ Open(j) => Open(j)'
  BY <1>3 DEF Open
<1>5. lost' = IF tasks[k].version = u THEN lost ELSE lost \cup {r \in RecordsOf(k) : (r \in wanted) # (r \in remote)}
  BY <1>2 DEF SaveDone
<1>6. WorkInv' /\ ReadInv'
  BY <1>1 DEF WorkInv, ReadInv
<1>7. Remembered'
  <2>1. SUFFICES ASSUME NEW r \in Records, ~Settled(r), r \notin lost'
                 PROVE  \E j \in Serving(r) : Open(j)'
    BY <1>1 DEF Remembered, Serving, Settled
  <2>2. r \notin lost
    BY <1>5, <2>1
  <2>3. CASE r \in RecordsOf(k)
    <3>1. tasks[k].version = u
      BY <1>5, <2>1, <2>3 DEF Settled
    <3>2. Newer(r, k, u)
      BY <1>1, <1>2, <2>1, <2>2, <2>3 DEF RecordInv, WorkInv, InLine
    <3> QED BY <1>4, <3>1, <3>2 DEF Newer, Serving
  <2>4. CASE r \notin RecordsOf(k)
    BY <1>4, <2>1, <2>2, <2>4 DEF RecordInv, Remembered, Serving
  <2> QED BY <2>3, <2>4
<1>8. CacheInv'
  <2>1. CASE k = DomainChange
    BY <1>1, <1>2, <2>1 DEF RecordInv, ReadInv, CacheInv
  <2>2. CASE k # DomainChange
    BY <1>1, <1>4, <2>2, KeyFacts DEF RecordInv, CacheInv
  <2> QED BY <2>1, <2>2
<1> QED BY <1>6, <1>7, <1>8 DEF Known

-----------------------------------------------------------------------------
\* At first nothing is wanted and nothing there.
LEMMA InitRecords == Init => RecordInv
<1> SUFFICES ASSUME Init PROVE RecordInv
  OBVIOUS
<1>1. /\ executor = Idle /\ executor.pc = "idle" /\ tasks = [k \in Keys |-> NoRow] /\ clock = 0
      /\ wanted = {} /\ remote = {} /\ cache = {} /\ lost = {} /\ stale = FALSE
  BY DEF Init, Idle
<1>2. NoRow \in Rows /\ NoRow.version = 0 /\ NoRow.countFails = 0 /\ NoRow.isDone
  BY DEF NoRow, Rows
<1>3. TasksInv
  <2>1. tasks \in [Keys -> Rows] /\ \A k \in Keys : tasks[k] = NoRow
    BY <1>1, <1>2
  <2> QED BY <1>1, <1>2, <2>1, DNSAssumption DEF TasksInv
<1>4. SetsInv /\ executor \in Rounds /\ QueueInv /\ TaskInv
  BY <1>1 DEF SetsInv, Rounds, QueueInv, TaskInv
<1>5. WorkInv /\ ReadInv /\ Remembered /\ CacheInv
  BY <1>1 DEF WorkInv, ReadInv, Remembered, CacheInv, Settled
<1> QED BY <1>3, <1>4, <1>5 DEF RecordInv, Types

\* Every step keeps what is known of the rows and of the records.
LEMMA RecordStep == RecordInv /\ [Next]_vars => RecordInv'
<1> SUFFICES ASSUME RecordInv, [Next]_vars PROVE RecordInv'
  OBVIOUS
<1>1. Types
  BY DEF RecordInv
<1> SUFFICES Types' /\ Known'
  BY DEF RecordInv, Known
<1>2. CASE \E r \in Records : Change(r)
  BY <1>1, <1>2, ChangeTypes, ChangeKnown
<1>2a. CASE \E r \in Records : NotifyFails(r)
  BY <1>1, <1>2a, UntoldTypes, UntoldKnown
<1>3. CASE List
  <2>1. executor.pc = "idle" /\ executor'.pc = "next" /\ \A j \in Keys : Open(j) => Open(j)'
    BY <1>3 DEF List, Idle, Open
  <2> QED BY <1>1, <1>3, <2>1, ListTypes, LeftKnown DEF List
<1>4. CASE NextTask
  <2>1. executor.pc = "next" /\ executor'.pc \in {"idle", "read"} /\ \A j \in Keys : Open(j) => Open(j)'
    BY <1>4 DEF NextTask, Idle, Open
  <2> QED BY <1>1, <1>4, <2>1, NextTypes, LeftKnown DEF NextTask
<1>5. CASE DoNode
  BY <1>1, <1>5, NodeTypes, NodeKnown
<1>6. CASE DoCluster
  BY <1>1, <1>6, ClusterTypes, ClusterKnown
<1>7. CASE DoServer
  BY <1>1, <1>7, ServerTypes, ServerKnown
<1>8. CASE DoDomain
  BY <1>1, <1>8, DomainTypes, DomainKnown
<1>9. CASE \E r \in Records : AddRecord(r) \/ DeleteRecord(r)
  BY <1>1, <1>9, RecordTypes, RecordKnown
<1>10. CASE Applied
  BY <1>1, <1>10, AppliedTypes, AppliedKnown
<1>11. CASE CheckVersion
  BY <1>1, <1>11, CheckTypes, CheckKnown
<1>12. CASE SaveDone
  BY <1>1, <1>12, SaveTypes, SaveKnown
<1>13. CASE TaskFails
  <2>1. executor.pc \in {"read", "apply"} /\ executor.key \in Keys /\ tasks[executor.key].countFails < MaxRetries
    BY <1>1, <1>13, Shapes DEF TaskFails, Types, TaskInv
  <2>2. \A j \in Keys : Open(j) => Open(j)'
    BY <1>1, <1>13, <2>1, Failed DEF TaskFails, Types
  <2>3. executor'.pc = "next" /\ stale' = (stale \/ executor.changed)
    BY <1>13 DEF TaskFails
  <2> QED BY <1>1, <1>13, <2>2, <2>3, FailTypes, LeftKnown DEF TaskFails
<1>14. CASE MarkFails
  <2>1. executor.pc \in {"check", "save"} /\ executor'.pc = "next" /\ \A j \in Keys : Open(j) => Open(j)'
    BY <1>14 DEF MarkFails, Open
  <2> QED BY <1>1, <1>14, <2>1, EndTypes, LeftKnown DEF MarkFails
<1>15. CASE ExecutorStops
  <2>1. executor'.pc = "idle" /\ \A j \in Keys : Open(j) => Open(j)'
    BY <1>15 DEF ExecutorStops, Idle, Open
  <2>2. stale' = (stale \/ (executor.pc = "apply" /\ executor.changed))
    BY <1>15 DEF ExecutorStops
  <2> QED BY <1>1, <1>15, <2>1, <2>2, EndTypes, LeftKnown DEF ExecutorStops
<1>16. CASE \E k \in Keys : DeleteDNSTask(k)
  BY <1>1, <1>16, DeleteTypes, DeleteKnown
<1>17. CASE UNCHANGED vars
  BY <1>17 DEF vars, RecordInv, Types, SetsInv, TasksInv, QueueInv, TaskInv, Known, WorkInv, ReadInv, Remembered, CacheInv,
     InLine, Meant, Newer, Serving, Open, Settled
<1> QED BY <1>2, <1>2a, <1>3, <1>4, <1>5, <1>6, <1>7, <1>8, <1>9, <1>10, <1>11, <1>12, <1>13, <1>14, <1>15, <1>16, <1>17
        DEF Next, ExecutorStep

\* Whatever interleaves, RecordInv holds.
THEOREM RecordInvariant == Spec => []RecordInv
BY InitRecords, RecordStep, PTL DEF Spec

\* The variables have their types, no two rows of edgeDNSTasks the same version, and no
\* row has failed more often than it is listed for.
THEOREM TypeCorrect == Spec => []TypeOK
<1>1. RecordInv => TypeOK
  BY DEF RecordInv, Types, SetsInv, TasksInv, TypeOK
<1> QED BY <1>1, RecordInvariant, PTL

\* A record that differs from what is wanted has a row in edgeDNSTasks that DNSTaskExecutor
\* lists again or has given up, unless one of the known steps has forgotten the change.
THEOREM NothingIsForgotten == Spec => []NothingForgotten
<1>1. RecordInv => NothingForgotten
  BY OpenFacts, ServingFacts DEF RecordInv, Types, Remembered, NothingForgotten
<1> QED BY <1>1, RecordInvariant, PTL

\* The records edgeDNSDomains keeps differ from the provider's only while a row that reads
\* them again is there or about to be written, or after an error between the two.
THEOREM CacheIsKnown == Spec => []CacheKnown
<1>1. RecordInv => CacheKnown
  BY OpenFacts, KeyFacts DEF RecordInv, Types, CacheInv, CacheKnown
<1> QED BY <1>1, RecordInvariant, PTL

=============================================================================
