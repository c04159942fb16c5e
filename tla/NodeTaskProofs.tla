----------------------------- MODULE NodeTaskProofs -----------------------------
(***************************************************************************)
(* No change of the configuration is lost on its way to a node but in the  *)
(* known ways, for every number of nodes, keys and creators: however the   *)
(* statements of the creators and of the extractor, the calls of the nodes *)
(* and their failures interleave.                                          *)
(***************************************************************************)
EXTENDS NodeTask, TLAPS

Creations == {Idle} \cup [pc : {"write"}, node : Nodes, key : Keys, version : Nat]

Extractions ==
  {Idle}
  \cup [pc : {"next"}, todo : SUBSET Keys]
  \cup [pc : {"version"}, todo : SUBSET Keys, key : Keys, nodes : SUBSET Nodes]
  \cup [pc : {"write"}, todo : SUBSET Keys, key : Keys, nodes : SUBSET Nodes, node : Nodes, version : Nat]

Reports ==
  {Idle}
  \cup [pc : {"ok", "failed", "answer"}, task : NodeTaskRows]
  \cup [pc : {"retry"}, task : NodeTaskRows, version : Nat]

Types ==
  /\ config \in [Nodes -> [Keys -> Nat]] /\ applied \in [Nodes -> [Keys -> Nat]]
  /\ clusterTasks \subseteq Keys /\ fresh \subseteq Keys
  /\ nodeTasks \subseteq NodeTaskRows
  /\ inbox \in [Nodes -> SUBSET NodeTaskRows]
  /\ cursor \in [Nodes -> Nat] /\ lastVersion \in Nat
  /\ creator \in [Creators -> Creations]
  /\ extractor \in Extractions
  /\ report \in [Nodes -> Reports]
  /\ dropped \subseteq Nodes \X Keys

\* A row is known by its node and key, by its id and by its version, and has a version
\* the counter has handed out.
RowsInv ==
  /\ \A t \in nodeTasks : 0 < t.version /\ t.version <= lastVersion /\ t.id <= lastVersion
  /\ \A s, t \in nodeTasks : (s.node = t.node /\ s.key = t.key) \/ s.id = t.id \/ s.version = t.version => s = t

\* A node has tasks of its own, as their rows were.
InboxInv ==
  \A n \in Nodes : \A t \in inbox[n] :
    /\ t.node = n /\ 0 < t.version /\ t.version <= lastVersion /\ t.id <= lastVersion
    /\ \A s \in nodeTasks : /\ s.id = t.id => s.node = n /\ s.key = t.key
                            /\ s.version = t.version => s.id = t.id

\* It reports the oldest of them, and has reached a version that was handed out.
ReportsInv ==
  /\ \A n \in Nodes : cursor[n] <= lastVersion
  /\ \A n \in Nodes : report[n] # Idle =>
       report[n].task \in inbox[n] /\ \A s \in inbox[n] : report[n].task.version <= s.version

\* A version that has been taken and is not written yet.
Unwritten(v) ==
  /\ 0 < v /\ v <= lastVersion
  /\ \A t \in nodeTasks : t.id # v /\ t.version # v
  /\ \A n \in Nodes : \A t \in inbox[n] : t.id # v /\ t.version # v

\* Whoever has taken a version has it alone.
VersionsInv ==
  /\ \A c \in Creators : creator[c] # Idle => Unwritten(creator[c].version)
  /\ extractor.pc = "write" => extractor.node \in extractor.nodes /\ Unwritten(extractor.version)
  /\ \A n \in Nodes : report[n].pc = "retry" => cursor[n] < report[n].version /\ Unwritten(report[n].version)
  /\ \A c, d \in Creators : creator[c] # Idle /\ creator[d] # Idle /\ creator[c].version = creator[d].version => c = d
  /\ \A m, n \in Nodes : report[m].pc = "retry" /\ report[n].pc = "retry" /\ report[m].version = report[n].version => m = n
  /\ \A c \in Creators : creator[c] # Idle /\ extractor.pc = "write" => creator[c].version # extractor.version
  /\ \A n \in Nodes : report[n].pc = "retry" /\ extractor.pc = "write" => report[n].version # extractor.version
  /\ \A c \in Creators, n \in Nodes : creator[c] # Idle /\ report[n].pc = "retry" => creator[c].version # report[n].version

\* The node has what row s says, or its report of it has been answered.
Handled(n, s) == report[n].pc \in {"ok", "answer"} /\ s.version = report[n].task.version

\* The change is on a row the node will ask for, or with a creator, or on a row of the
\* cluster that the extractor is still to list.
RowWay(n, k)     == \E t \in Doing(n) : t.key = k /\ ~Handled(n, t)
CreatorWay(n, k) == \E c \in Creators : creator[c] # Idle /\ creator[c].node = n /\ creator[c].key = k
ClusterWay(k)    == k \in clusterTasks /\ (extractor = Idle \/ k \in fresh)

\* The change is on its way in the tables: what a node has fetched is not needed for it.
Way(n, k) == RowWay(n, k) \/ InExtraction(n, k) \/ CreatorWay(n, k) \/ ClusterWay(k)

Ways == \A n \in Nodes, k \in Keys : applied[n][k] # config[n][k] => Way(n, k) \/ <<n, k>> \in dropped

BaseInv == Types /\ RowsInv /\ InboxInv /\ ReportsInv /\ VersionsInv

TaskInv == BaseInv /\ Ways

-----------------------------------------------------------------------------
\* The fields that creators, the extractor and reports have.
LEMMA Shapes ==
  ASSUME Types
  PROVE  /\ Idle.pc = "idle"
         /\ \A c \in Creators : creator[c] # Idle =>
              creator[c].node \in Nodes /\ creator[c].key \in Keys /\ creator[c].version \in Nat
         /\ extractor.pc \in {"idle", "next", "version", "write"} /\ (extractor = Idle <=> extractor.pc = "idle")
         /\ extractor # Idle => extractor.todo \subseteq Keys
         /\ extractor.pc \in {"version", "write"} => extractor.key \in Keys /\ extractor.nodes \subseteq Nodes
         /\ extractor.pc = "write" => extractor.node \in Nodes /\ extractor.version \in Nat
         /\ \A n \in Nodes : report[n].pc \in {"idle", "ok", "failed", "answer", "retry"} /\ (report[n] = Idle <=> report[n].pc = "idle")
         /\ \A n \in Nodes : report[n] # Idle => report[n].task \in NodeTaskRows
         /\ \A n \in Nodes : report[n].pc = "retry" => report[n].version \in Nat
<1>1. Idle.pc = "idle"
  BY DEF Idle
<1>2. ASSUME NEW c \in Creators, creator[c] # Idle
      PROVE  creator[c].node \in Nodes /\ creator[c].key \in Keys /\ creator[c].version \in Nat
  <2>1. creator[c] \in [pc : {"write"}, node : Nodes, key : Keys, version : Nat]
    BY <1>2 DEF Types, Creations
  <2> QED BY <2>1
<1>3. /\ extractor.pc \in {"idle", "next", "version", "write"} /\ (extractor = Idle <=> extractor.pc = "idle")
      /\ extractor # Idle => extractor.todo \subseteq Keys
      /\ extractor.pc \in {"version", "write"} => extractor.key \in Keys /\ extractor.nodes \subseteq Nodes
      /\ extractor.pc = "write" => extractor.node \in Nodes /\ extractor.version \in Nat
  <2>1. extractor \in Extractions
    BY DEF Types
  <2> QED BY <1>1, <2>1 DEF Extractions
<1>4. ASSUME NEW n \in Nodes
      PROVE  /\ report[n].pc \in {"idle", "ok", "failed", "answer", "retry"} /\ (report[n] = Idle <=> report[n].pc = "idle")
             /\ report[n] # Idle => report[n].task \in NodeTaskRows
             /\ report[n].pc = "retry" => report[n].version \in Nat
  <2>1. report[n] \in Reports
    BY DEF Types
  <2> QED BY <1>1, <2>1 DEF Reports
<1> QED BY <1>1, <1>2, <1>3, <1>4

\* The fields a row has.
LEMMA RowFields ==
  ASSUME NEW t \in NodeTaskRows
  PROVE  /\ t.node \in Nodes /\ t.key \in Keys /\ t.id \in Nat /\ t.version \in Nat
         /\ t.isDone \in BOOLEAN /\ t.isOk \in BOOLEAN
BY DEF NodeTaskRows

\* What is left of a key by its three fields.
LEMMA KeyIs ==
  ASSUME NEW j \in Keys, NEW k \in Keys, j.type = k.type, j.server = k.server, j.user = k.user
  PROVE  j = k
BY KeysAssumption

\* An upsert leaves one row of its node and key, in its version, and no other row changes.
LEMMA Upserted ==
  ASSUME Types, RowsInv, NEW n \in Nodes, NEW k \in Keys, NEW v \in Nat, Upsert(n, k, v)
  PROVE  \E row \in NodeTaskRows :
           /\ row.node = n /\ row.key = k /\ row.version = v /\ ~row.isDone /\ ~row.isOk
           /\ row.id = v \/ \E s \in nodeTasks : s.node = n /\ s.key = k /\ s.id = row.id
           /\ row \in nodeTasks' /\ nodeTasks' \subseteq NodeTaskRows
           /\ \A t \in nodeTasks' : t = row \/ (t \in nodeTasks /\ ~(t.node = n /\ t.key = k))
           /\ \A t \in nodeTasks : (t.node = n /\ t.key = k) \/ t \in nodeTasks'
<1> DEFINE old == {t \in nodeTasks : t.node = n /\ t.key = k}
           new == NewRow(n, k, v)
<1>1. new \in NodeTaskRows /\ new.node = n /\ new.key = k /\ new.version = v /\ new.id = v /\ ~new.isDone /\ ~new.isOk
  BY DEF NewRow, NodeTaskRows
<1>2. nodeTasks' = (nodeTasks \ old) \cup (IF old = {} THEN {new} ELSE {[new EXCEPT !.id = t.id] : t \in old})
  BY DEF Upsert
<1>3. nodeTasks \subseteq NodeTaskRows
  BY DEF Types
<1>4. CASE old = {}
  <2>1. nodeTasks' = nodeTasks \cup {new}
    BY <1>2, <1>4
  <2>2. \A t \in nodeTasks : ~(t.node = n /\ t.key = k)
    BY <1>4
  <2> HIDE DEF old, new
  <2> QED BY <1>1, <1>3, <2>1, <2>2
<1>5. CASE old # {}
  <2>1. PICK s \in nodeTasks : s.node = n /\ s.key = k
    BY <1>5
  <2>2. old = {s}
    BY <2>1 DEF RowsInv
  <2> DEFINE row == [new EXCEPT !.id = s.id]
  <2>3. nodeTasks' = (nodeTasks \ old) \cup {row}
    BY <1>2, <2>2
  <2>4. s.id \in Nat
    BY <1>3, <2>1, RowFields
  <2>5. /\ row \in NodeTaskRows /\ row.node = n /\ row.key = k /\ row.version = v /\ row.id = s.id
        /\ ~row.isDone /\ ~row.isOk
    BY <1>1, <2>4 DEF NewRow, NodeTaskRows
  <2>6. \A t \in nodeTasks : t \in old <=> (t.node = n /\ t.key = k)
    OBVIOUS
  <2> HIDE DEF old, new, row
  <2> QED BY <1>3, <2>1, <2>3, <2>5, <2>6
<1> QED BY <1>4, <1>5

-----------------------------------------------------------------------------
(***************************************************************************)
(* The rows, what the nodes have fetched of them, and the versions that    *)
(* have been taken, by the ways in which steps write rows.                 *)
(***************************************************************************)

\* Rows that go, or are marked and keep their version, and inboxes that shrink.
LEMMA RowsLeft ==
  ASSUME Types, RowsInv, InboxInv, UNCHANGED lastVersion,
         \A t \in nodeTasks' : \E s \in nodeTasks : s.id = t.id /\ s.node = t.node /\ s.key = t.key /\ s.version = t.version,
         \A s, t \in nodeTasks' : s.id = t.id => s = t,
         \A n \in Nodes : inbox'[n] \subseteq inbox[n]
  PROVE  RowsInv' /\ InboxInv' /\ \A v \in Nat : Unwritten(v) => Unwritten(v)'
<1>1. RowsInv'
  <2>1. \A t \in nodeTasks' : 0 < t.version /\ t.version <= lastVersion' /\ t.id <= lastVersion'
    BY DEF RowsInv
  <2>2. ASSUME NEW s \in nodeTasks', NEW t \in nodeTasks',
               (s.node = t.node /\ s.key = t.key) \/ s.id = t.id \/ s.version = t.version
        PROVE  s = t
    <3>1. PICK s0 \in nodeTasks : s0.id = s.id /\ s0.node = s.node /\ s0.key = s.key /\ s0.version = s.version
      OBVIOUS
    <3>2. PICK t0 \in nodeTasks : t0.id = t.id /\ t0.node = t.node /\ t0.key = t.key /\ t0.version = t.version
      OBVIOUS
    <3>3. s0 = t0
      BY <2>2, <3>1, <3>2 DEF RowsInv
    <3> QED BY <3>1, <3>2, <3>3
  <2> QED BY <2>1, <2>2 DEF RowsInv
<1>2. InboxInv'
  BY DEF InboxInv
<1>3. \A v \in Nat : Unwritten(v) => Unwritten(v)'
  BY DEF Unwritten
<1> QED BY <1>1, <1>2, <1>3

\* A row that is written with a version that was taken for it.
LEMMA RowWritten ==
  ASSUME Types, RowsInv, InboxInv, NEW n \in Nodes, NEW k \in Keys, NEW v \in Nat, Unwritten(v),
         Upsert(n, k, v), UNCHANGED <<inbox, lastVersion>>
  PROVE  RowsInv' /\ InboxInv' /\ \A u \in Nat : u # v /\ Unwritten(u) => Unwritten(u)'
<1>1. PICK row \in NodeTaskRows :
           /\ row.node = n /\ row.key = k /\ row.version = v
           /\ row.id = v \/ \E s \in nodeTasks : s.node = n /\ s.key = k /\ s.id = row.id
           /\ \A t \in nodeTasks' : t = row \/ (t \in nodeTasks /\ ~(t.node = n /\ t.key = k))
  BY Upserted
<1>2. 0 < v /\ v <= lastVersion /\ row.id <= lastVersion
  BY <1>1 DEF Unwritten, RowsInv
<1>3. \A t \in nodeTasks' : t # row => t.id # row.id /\ t.version # v
  <2>1. SUFFICES ASSUME NEW t \in nodeTasks, ~(t.node = n /\ t.key = k)
                 PROVE  t.id # row.id /\ t.version # v
    BY <1>1
  <2> QED BY <1>1, <2>1 DEF Unwritten, RowsInv
<1>4. RowsInv'
  BY <1>1, <1>2, <1>3 DEF RowsInv
<1>5. InboxInv'
  <2>1. SUFFICES ASSUME NEW m \in Nodes, NEW t \in inbox[m], NEW s \in nodeTasks'
                 PROVE  (s.id = t.id => s.node = m /\ s.key = t.key) /\ (s.version = t.version => s.id = t.id)
    BY DEF InboxInv
  <2>2. CASE s = row
    <3>1. t.version # v /\ t.id # v
      BY <2>1 DEF Unwritten
    <3> QED BY <1>1, <2>1, <2>2, <3>1 DEF InboxInv
  <2>3. CASE s # row
    BY <1>1, <2>1, <2>3 DEF InboxInv
  <2> QED BY <2>2, <2>3
<1>6. ASSUME NEW u \in Nat, u # v, Unwritten(u)
      PROVE  Unwritten(u)'
  <2>1. \A t \in nodeTasks' : t.id # u /\ t.version # u
    BY <1>1, <1>6 DEF Unwritten
  <2> QED BY <1>6, <2>1 DEF Unwritten
<1> QED BY <1>4, <1>5, <1>6

\* A version that is taken is nobody else's.
LEMMA VersionTaken ==
  ASSUME Types, RowsInv, InboxInv, lastVersion' = lastVersion + 1, UNCHANGED <<nodeTasks, inbox>>
  PROVE  /\ RowsInv' /\ InboxInv' /\ Unwritten(lastVersion)'
         /\ \A v \in Nat : Unwritten(v) => Unwritten(v)' /\ v # lastVersion + 1
<1>1. lastVersion \in Nat /\ nodeTasks \subseteq NodeTaskRows /\ \A n \in Nodes : inbox[n] \subseteq NodeTaskRows
  BY DEF Types
<1>2. \A t \in nodeTasks : t.id \in Nat /\ t.version \in Nat /\ t.id <= lastVersion /\ t.version <= lastVersion
  BY <1>1, RowFields DEF RowsInv
<1>3. \A n \in Nodes : \A t \in inbox[n] : t.id \in Nat /\ t.version \in Nat /\ t.id <= lastVersion /\ t.version <= lastVersion
  BY <1>1, RowFields DEF InboxInv
<1>4. RowsInv'
  BY <1>1, <1>2 DEF RowsInv
<1>5. InboxInv'
  BY <1>1, <1>3 DEF InboxInv
<1>6. \A v \in Nat : Unwritten(v) => Unwritten(v)' /\ v # lastVersion + 1
  BY <1>1 DEF Unwritten
<1>7. Unwritten(lastVersion)'
  <2>1. 0 < lastVersion'
    BY <1>1
  <2>2. \A t \in nodeTasks : t.id # lastVersion' /\ t.version # lastVersion'
    BY <1>1, <1>2
  <2>3. \A n \in Nodes : \A t \in inbox[n] : t.id # lastVersion' /\ t.version # lastVersion'
    BY <1>1, <1>3
  <2>4. lastVersion' <= lastVersion'
    BY <1>1
  <2> QED BY <2>1, <2>2, <2>3, <2>4 DEF Unwritten
<1> QED BY <1>4, <1>5, <1>6, <1>7



\* A report of a task that is done leaves its row in its version, or takes it away.
LEMMA RowReported ==
  ASSUME Types, RowsInv, NEW t \in NodeTaskRows,
         nodeTasks' = (nodeTasks \ ById(t)) \cup
                        (IF t.key \in DeletedOnDone THEN {} ELSE {Done(s, TRUE, s.version) : s \in ById(t)})
  PROVE  /\ nodeTasks' \subseteq NodeTaskRows
         /\ \A r \in nodeTasks' : \E s \in nodeTasks : s.id = r.id /\ s.node = r.node /\ s.key = r.key /\ s.version = r.version
         /\ \A r, s \in nodeTasks' : s.id = r.id => s = r
         /\ \A s \in nodeTasks : s.id # t.id => s \in nodeTasks'
         /\ \A s \in nodeTasks : s.id = t.id /\ t.key \notin DeletedOnDone => Done(s, TRUE, s.version) \in nodeTasks'
<1>1. nodeTasks \subseteq NodeTaskRows /\ \A s \in nodeTasks : s \in ById(t) <=> s.id = t.id
  BY DEF Types, ById
<1>2. ASSUME NEW s \in nodeTasks, NEW d, d = Done(s, TRUE, s.version)
      PROVE  d \in NodeTaskRows /\ d.node = s.node /\ d.key = s.key /\ d.id = s.id /\ d.version = s.version
  <2>1. s \in NodeTaskRows
    BY <1>1
  <2> QED BY <1>2, <2>1 DEF Done, NodeTaskRows
<1>3. \A r \in nodeTasks' : \/ r \in nodeTasks /\ r.id # t.id
                            \/ \E s \in nodeTasks : s.id = t.id /\ r = Done(s, TRUE, s.version)
  BY <1>1 DEF ById
<1>4. ASSUME NEW r \in nodeTasks'
      PROVE  /\ r \in NodeTaskRows
             /\ \E s \in nodeTasks : s.id = r.id /\ s.node = r.node /\ s.key = r.key /\ s.version = r.version
  <2>1. CASE r \in nodeTasks
    BY <1>1, <2>1
  <2>2. CASE r \notin nodeTasks
    <3>1. PICK s \in nodeTasks : s.id = t.id /\ r = Done(s, TRUE, s.version)
      BY <1>3, <2>2
    <3>2. r \in NodeTaskRows /\ s.id = r.id /\ s.node = r.node /\ s.key = r.key /\ s.version = r.version
      BY <1>2, <3>1
    <3> QED BY <3>2
  <2> QED BY <2>1, <2>2
<1>5. ASSUME NEW r \in nodeTasks', NEW s \in nodeTasks', s.id = r.id
      PROVE  s = r
  <2>1. CASE r \in nodeTasks /\ r.id # t.id
    <3>1. s \in nodeTasks
      BY <1>2, <1>3, <1>5, <2>1
    <3> QED BY <1>5, <2>1, <3>1 DEF RowsInv
  <2>2. CASE ~(r \in nodeTasks /\ r.id # t.id)
    <3>1. PICK r0 \in nodeTasks : r0.id = t.id /\ r = Done(r0, TRUE, r0.version)
      BY <1>3, <2>2
    <3>2. r.id = t.id
      BY <1>2, <3>1
    <3>3. PICK s0 \in nodeTasks : s0.id = t.id /\ s = Done(s0, TRUE, s0.version)
      BY <1>3, <1>5, <3>2
    <3>4. r0 = s0
      BY <3>1, <3>3 DEF RowsInv
    <3> QED BY <3>1, <3>3, <3>4
  <2> QED BY <2>1, <2>2
<1>6. \A s \in nodeTasks : s.id # t.id => s \in nodeTasks'
  BY <1>1
<1>7. \A s \in nodeTasks : s.id = t.id /\ t.key \notin DeletedOnDone => Done(s, TRUE, s.version) \in nodeTasks'
  BY <1>1
<1> QED BY <1>4, <1>5, <1>6, <1>7

\* A report of a task that has failed leaves its row in a new version.
LEMMA RowRetried ==
  ASSUME Types, RowsInv, InboxInv, NEW n \in Nodes, NEW t \in inbox[n], NEW v \in Nat, Unwritten(v),
         nodeTasks' = (nodeTasks \ ById(t)) \cup {Done(s, FALSE, v) : s \in ById(t)}, UNCHANGED <<inbox, lastVersion>>
  PROVE  /\ RowsInv' /\ InboxInv' /\ \A u \in Nat : u # v /\ Unwritten(u) => Unwritten(u)'
         /\ nodeTasks' \subseteq NodeTaskRows
         /\ \A s \in nodeTasks' : s.version # t.version
         /\ \A s \in nodeTasks : s.id # t.id => s \in nodeTasks'
<1>1. /\ nodeTasks \subseteq NodeTaskRows /\ \A s \in nodeTasks : s \in ById(t) <=> s.id = t.id
  BY DEF Types, ById
<1>2. ASSUME NEW s \in nodeTasks, NEW d, d = Done(s, FALSE, v)
      PROVE  d \in NodeTaskRows /\ d.node = s.node /\ d.key = s.key /\ d.id = s.id /\ d.version = v /\ ~d.isOk
  <2>1. s \in NodeTaskRows
    BY <1>1
  <2> QED BY <1>2, <2>1 DEF Done, NodeTaskRows
<1>3. CASE \A s \in nodeTasks : s.id # t.id
  <2>0. ById(t) = {}
    BY <1>1, <1>3 DEF ById
  <2>1. nodeTasks' = nodeTasks
    BY <2>0
  <2>2. \A s \in nodeTasks : s.version # t.version
    BY <1>3 DEF InboxInv
  <2>3. RowsInv'
    BY <2>1 DEF RowsInv
  <2>4. InboxInv'
    <3>1. SUFFICES ASSUME NEW m \in Nodes, NEW q \in inbox[m], NEW s \in nodeTasks'
                   PROVE  (s.id = q.id => s.node = m /\ s.key = q.key) /\ (s.version = q.version => s.id = q.id)
      BY DEF InboxInv
    <3>2. s \in nodeTasks
      BY <2>1
    <3> QED BY <3>2 DEF InboxInv
  <2>5. \A u \in Nat : Unwritten(u) => Unwritten(u)'
    BY <2>1 DEF Unwritten
  <2> QED BY <1>1, <1>3, <2>1, <2>2, <2>3, <2>4, <2>5
<1>4. CASE \E s \in nodeTasks : s.id = t.id
  <2>1. PICK s0 \in nodeTasks : s0.id = t.id
    BY <1>4
  <2>2. ById(t) = {s0}
    BY <2>1 DEF RowsInv, ById
  <2> DEFINE row == Done(s0, FALSE, v)
  <2>3. nodeTasks' = (nodeTasks \ {s0}) \cup {row}
    BY <2>2
  <2>4. /\ row \in NodeTaskRows /\ row.node = s0.node /\ row.key = s0.key /\ row.id = s0.id
        /\ row.version = v /\ ~row.isOk
    BY <1>2
  <2> HIDE DEF row
  <2>5. \A r \in nodeTasks' : r = row \/ (r \in nodeTasks /\ r # s0)
    BY <2>3
  <2>6. 0 < v /\ v <= lastVersion /\ s0.id <= lastVersion
    BY DEF Unwritten, RowsInv
  <2>7. \A r \in nodeTasks : r # s0 => r.id # s0.id /\ r.version # v /\ ~(r.node = s0.node /\ r.key = s0.key)
    BY DEF RowsInv, Unwritten
  <2>8. RowsInv'
    <3>1. \A r \in nodeTasks' : 0 < r.version /\ r.version <= lastVersion' /\ r.id <= lastVersion'
      BY <2>4, <2>5, <2>6 DEF RowsInv
    <3>2. ASSUME NEW r \in nodeTasks', NEW s \in nodeTasks',
                 (r.node = s.node /\ r.key = s.key) \/ r.id = s.id \/ r.version = s.version
          PROVE  r = s
      <4>1. CASE r \in nodeTasks /\ r # s0 /\ s \in nodeTasks /\ s # s0
        BY <3>2, <4>1 DEF RowsInv
      <4>2. CASE r = row /\ s \in nodeTasks /\ s # s0
        BY <2>4, <2>7, <3>2, <4>2
      <4>3. CASE s = row /\ r \in nodeTasks /\ r # s0
        BY <2>4, <2>7, <3>2, <4>3
      <4>4. (r = row \/ (r \in nodeTasks /\ r # s0)) /\ (s = row \/ (s \in nodeTasks /\ s # s0))
        BY <2>5
      <4> QED BY <4>1, <4>2, <4>3, <4>4
    <3> QED BY <3>1, <3>2 DEF RowsInv
  <2>9. InboxInv'
    <3>1. SUFFICES ASSUME NEW m \in Nodes, NEW q \in inbox[m], NEW s \in nodeTasks'
                   PROVE  (s.id = q.id => s.node = m /\ s.key = q.key) /\ (s.version = q.version => s.id = q.id)
      BY DEF InboxInv
    <3>a. q \in inbox[m]
      BY <3>1
    <3>2. CASE s = row
      <4>1. q.version # v
        BY <3>a DEF Unwritten
      <4> QED BY <2>4, <3>a, <3>2, <4>1 DEF InboxInv
    <3>3. CASE s # row
      <4>1. s \in nodeTasks
        BY <2>5, <3>3
      <4> QED BY <3>a, <4>1 DEF InboxInv
    <3> QED BY <3>2, <3>3
  <2>10. ASSUME NEW u \in Nat, u # v, Unwritten(u)
         PROVE  Unwritten(u)'
    <3>1. \A r \in nodeTasks' : r.id # u /\ r.version # u
      BY <2>4, <2>5, <2>10 DEF Unwritten
    <3> QED BY <2>10, <3>1 DEF Unwritten
  <2>11. \A s \in nodeTasks' : s.version # t.version
    <3>1. t.version # v
      BY DEF Unwritten
    <3>2. \A s \in nodeTasks : s # s0 => s.version # t.version
      BY <2>1 DEF InboxInv, RowsInv
    <3> QED BY <2>4, <2>5, <3>1, <3>2
  <2>12. /\ \A s \in nodeTasks : s.id # t.id => s \in nodeTasks'
         /\ \A s \in nodeTasks : s.id = t.id => s = s0
         /\ row \in nodeTasks' /\ nodeTasks' \subseteq NodeTaskRows
    BY <1>1, <2>1, <2>3, <2>4 DEF RowsInv
  <2> QED BY <2>4, <2>8, <2>9, <2>10, <2>11, <2>12
<1> QED BY <1>3, <1>4

-----------------------------------------------------------------------------
(***************************************************************************)
(* Rows, inboxes, reports and versions, action by action.                  *)
(***************************************************************************)
\* Whoever still has a version has it alone, when at most version w was written.
LEMMA VersionsLeft ==
  ASSUME Types, VersionsInv, NEW w \in Nat, \A v \in Nat : v # w /\ Unwritten(v) => Unwritten(v)',
         \A c \in Creators : creator'[c] # Idle =>
           creator[c] # Idle /\ creator'[c].version = creator[c].version /\ creator[c].version # w,
         extractor'.pc = "write" =>
           /\ extractor.pc = "write" /\ extractor'.version = extractor.version /\ extractor.version # w
           /\ extractor'.node \in extractor'.nodes,
         \A n \in Nodes : report'[n].pc = "retry" =>
           report[n].pc = "retry" /\ report'[n].version = report[n].version /\ report[n].version # w /\ cursor'[n] = cursor[n]
  PROVE  VersionsInv'
<1>1. /\ \A c \in Creators : creator[c] # Idle => creator[c].version \in Nat
      /\ extractor.pc = "write" => extractor.version \in Nat
      /\ \A n \in Nodes : report[n].pc = "retry" => report[n].version \in Nat
  BY Shapes
<1>2. ASSUME NEW c \in Creators, creator'[c] # Idle
      PROVE  Unwritten(creator[c].version)'
  <2>1. PICK v \in Nat : v = creator[c].version
    BY <1>1, <1>2
  <2>2. Unwritten(v)'
    BY <1>2, <2>1 DEF VersionsInv
  <2>3. creator'[c].version = v
    BY <1>2, <2>1
  <2> QED BY <2>2, <2>3
<1>3. ASSUME extractor'.pc = "write"
      PROVE  Unwritten(extractor.version)'
  <2>1. PICK v \in Nat : v = extractor.version
    BY <1>1, <1>3
  <2>2. Unwritten(v)'
    BY <1>3, <2>1 DEF VersionsInv
  <2>3. extractor'.version = v
    BY <1>3, <2>1
  <2> QED BY <2>2, <2>3
<1>4. ASSUME NEW n \in Nodes, report'[n].pc = "retry"
      PROVE  Unwritten(report[n].version)'
  <2>1. PICK v \in Nat : v = report[n].version
    BY <1>1, <1>4
  <2>2. Unwritten(v)'
    BY <1>4, <2>1 DEF VersionsInv
  <2>3. report'[n].version = v
    BY <1>4, <2>1
  <2> QED BY <2>2, <2>3
<1> QED BY <1>2, <1>3, <1>4 DEF VersionsInv

\* The steps that write no row and take no version.
LEMMA Quiet ==
  ASSUME BaseInv, Types', UNCHANGED lastVersion,
         \A t \in nodeTasks' : \E s \in nodeTasks : s.id = t.id /\ s.node = t.node /\ s.key = t.key /\ s.version = t.version,
         \A s, t \in nodeTasks' : s.id = t.id => s = t,
         \A n \in Nodes : inbox'[n] \subseteq inbox[n],
         \A c \in Creators : creator'[c] # Idle => creator'[c] = creator[c],
         extractor'.pc = "write" => extractor' = extractor,
         \A n \in Nodes : report'[n].pc = "retry" => report'[n] = report[n] /\ cursor'[n] = cursor[n],
         \A n \in Nodes : cursor'[n] <= lastVersion,
         \A n \in Nodes : report'[n] # Idle =>
           report'[n].task \in inbox'[n] /\ \A s \in inbox'[n] : report'[n].task.version <= s.version
  PROVE  BaseInv'
<1>1. Types /\ RowsInv /\ InboxInv /\ VersionsInv
  BY DEF BaseInv
<1>2. RowsInv' /\ InboxInv' /\ \A v \in Nat : Unwritten(v) => Unwritten(v)'
  BY <1>1, RowsLeft
<1>3. ReportsInv'
  BY DEF ReportsInv
<1>4. /\ \A c \in Creators : creator[c] # Idle => creator[c].version # 0
      /\ extractor.pc = "write" => extractor.version # 0 /\ extractor.node \in extractor.nodes
      /\ \A n \in Nodes : report[n].pc = "retry" => report[n].version # 0
  BY <1>1 DEF VersionsInv, Unwritten
<1>5. VersionsInv'
  BY <1>1, <1>2, <1>4, VersionsLeft
<1> QED BY <1>2, <1>3, <1>5 DEF BaseInv

\* What the table holds, with the rows as they are.
LEMMA SameRows ==
  ASSUME RowsInv, UNCHANGED nodeTasks
  PROVE  /\ \A t \in nodeTasks' : \E s \in nodeTasks : s.id = t.id /\ s.node = t.node /\ s.key = t.key /\ s.version = t.version
         /\ \A s, t \in nodeTasks' : s.id = t.id => s = t
BY DEF RowsInv

\* With rows that only go, too.
LEMMA FewerRows ==
  ASSUME RowsInv, nodeTasks' \subseteq nodeTasks
  PROVE  /\ \A t \in nodeTasks' : \E s \in nodeTasks : s.id = t.id /\ s.node = t.node /\ s.key = t.key /\ s.version = t.version
         /\ \A s, t \in nodeTasks' : s.id = t.id => s = t
BY DEF RowsInv

\* A change of the whole cluster leaves the rows of the nodes.
LEMMA ChangeClusterBase ==
  ASSUME BaseInv, NEW k \in Keys, ChangeCluster(k)
  PROVE  BaseInv'
<1>1. UNCHANGED <<nodeTasks, applied, cursor, inbox, report, lastVersion, creator, extractor, dropped>>
  BY DEF ChangeCluster, node
<1>2. config' \in [Nodes -> [Keys -> Nat]]
  BY DEF BaseInv, Types, ChangeCluster
<1>3. Types'
  BY <1>1, <1>2 DEF BaseInv, Types, ChangeCluster
<1> QED BY <1>1, <1>3, SameRows, Quiet DEF BaseInv, ReportsInv

\* The creator has the version it has taken alone.
LEMMA ChangeNodeBase ==
  ASSUME BaseInv, NEW c \in Creators, NEW n \in Nodes, NEW k \in NodeLevelKeys, ChangeNode(c, n, k)
  PROVE  BaseInv'
<1> DEFINE w == [pc |-> "write", node |-> n, key |-> k, version |-> lastVersion + 1]
<1>1. /\ UNCHANGED <<clusterTasks, nodeTasks, applied, cursor, inbox, report, extractor, fresh, dropped>>
      /\ lastVersion' = lastVersion + 1 /\ creator' = [creator EXCEPT ![c] = w]
      /\ Types /\ RowsInv /\ InboxInv /\ ReportsInv /\ VersionsInv /\ k \in Keys
  BY KeysAssumption DEF ChangeNode, node, history, BaseInv
<1>2. lastVersion \in Nat /\ w \in Creations /\ w # Idle /\ w.version = lastVersion'
  <2>1. lastVersion \in Nat /\ w.pc = "write" /\ Idle.pc = "idle"
    BY <1>1, Shapes DEF Types
  <2> QED BY <1>1, <2>1 DEF Creations
<1> HIDE DEF w
<1>3. /\ creator' \in [Creators -> Creations] /\ creator'[c] = w
      /\ \A d \in Creators : d # c => creator'[d] = creator[d]
  BY <1>1, <1>2 DEF Types
<1>4. config' \in [Nodes -> [Keys -> Nat]]
  BY <1>1 DEF Types, ChangeNode
<1>5. Types'
  BY <1>1, <1>2, <1>3, <1>4 DEF Types
<1>6. /\ RowsInv' /\ InboxInv' /\ Unwritten(lastVersion)'
      /\ \A v \in Nat : Unwritten(v) => Unwritten(v)' /\ v # lastVersion + 1
  BY <1>1, VersionTaken
<1>7. ReportsInv'
  BY <1>1, <1>2 DEF ReportsInv, Types
<1>8. VersionsInv'
  <2>1. \A d \in Creators : d # c /\ creator[d] # Idle => Unwritten(creator[d].version)' /\ creator[d].version # lastVersion + 1
    BY <1>1, <1>6, Shapes DEF VersionsInv
  <2>2. extractor.pc = "write" => Unwritten(extractor.version)' /\ extractor.version # lastVersion + 1
    BY <1>1, <1>6, Shapes DEF VersionsInv
  <2>3. \A m \in Nodes : report[m].pc = "retry" => Unwritten(report[m].version)' /\ report[m].version # lastVersion + 1
    BY <1>1, <1>6, Shapes DEF VersionsInv
  <2>4. Unwritten(creator[c].version)'
    BY <1>2, <1>3, <1>6
  <2> HIDE DEF Unwritten
  <2> QED BY <1>1, <1>2, <1>3, <2>1, <2>2, <2>3, <2>4 DEF VersionsInv
<1> QED BY <1>5, <1>6, <1>7, <1>8 DEF BaseInv

\* The row is written with the version its creator gives up.
LEMMA WriteNodeTaskBase ==
  ASSUME BaseInv, NEW c \in Creators, WriteNodeTask(c)
  PROVE  BaseInv'
<1>1. /\ creator[c] # Idle /\ Upsert(creator[c].node, creator[c].key, creator[c].version)
      /\ creator' = [creator EXCEPT ![c] = Idle]
      /\ UNCHANGED <<config, clusterTasks, applied, cursor, inbox, report, lastVersion, extractor, fresh>>
      /\ Types /\ RowsInv /\ InboxInv /\ ReportsInv /\ VersionsInv
  BY DEF WriteNodeTask, node, BaseInv
<1>2. PICK n \in Nodes, k \in Keys, v \in Nat : n = creator[c].node /\ k = creator[c].key /\ v = creator[c].version
  BY <1>1, Shapes
<1>3. Upsert(n, k, v) /\ Unwritten(v)
  BY <1>1, <1>2 DEF VersionsInv
<1>4. RowsInv' /\ InboxInv' /\ \A u \in Nat : u # v /\ Unwritten(u) => Unwritten(u)'
  BY <1>1, <1>3, RowWritten
<1>5. Types'
  <2>1. nodeTasks' \subseteq NodeTaskRows
    BY <1>1, <1>3, Upserted
  <2>2. creator' \in [Creators -> Creations]
    BY <1>1 DEF Types, Creations
  <2>3. dropped' \subseteq Nodes \X Keys
    BY <1>1, <1>2 DEF WriteNodeTask, LateFor, Types
  <2> QED BY <1>1, <2>1, <2>2, <2>3 DEF Types
<1>6. ReportsInv'
  BY <1>1 DEF ReportsInv
<1>7. VersionsInv'
  <2>1. \A d \in Creators : creator'[d] # Idle => d # c /\ creator'[d] = creator[d] /\ creator[d].version # v
    BY <1>1, <1>2 DEF Types, VersionsInv
  <2>2. /\ extractor.pc = "write" => extractor.version # v /\ extractor.node \in extractor.nodes
        /\ \A m \in Nodes : report[m].pc = "retry" => report[m].version # v
    BY <1>1, <1>2 DEF VersionsInv
  <2> QED BY <1>1, <1>4, <2>1, <2>2, VersionsLeft
<1> QED BY <1>4, <1>5, <1>6, <1>7 DEF BaseInv

\* A creator that fails leaves everything else.
LEMMA CreatorFailsBase ==
  ASSUME BaseInv, NEW c \in Creators, CreatorFails(c)
  PROVE  BaseInv'
<1>1. /\ creator[c] # Idle /\ creator' = [creator EXCEPT ![c] = Idle]
      /\ UNCHANGED <<config, clusterTasks, nodeTasks, applied, cursor, inbox, report, lastVersion, extractor, fresh>>
      /\ Types
  BY DEF CreatorFails, tables, node, BaseInv
<1>2. creator[c].node \in Nodes /\ creator[c].key \in Keys
  BY <1>1, Shapes
<1>3. dropped' \subseteq Nodes \X Keys
  BY <1>1, <1>2 DEF CreatorFails, Types
<1>4. creator' \in [Creators -> Creations] /\ \A d \in Creators : creator'[d] # Idle => creator'[d] = creator[d]
  BY <1>1 DEF Types, Creations
<1>5. Types'
  BY <1>1, <1>3, <1>4 DEF Types
<1> QED BY <1>1, <1>4, <1>5, SameRows, Quiet DEF BaseInv, ReportsInv

\* The extractor's list is of keys.
LEMMA ListClusterBase ==
  ASSUME BaseInv, ListClusterTasks
  PROVE  BaseInv'
<1>1. /\ extractor' = [pc |-> "next", todo |-> clusterTasks] /\ fresh' = {}
      /\ UNCHANGED <<config, clusterTasks, nodeTasks, applied, cursor, inbox, report, lastVersion, creator, dropped>>
  BY DEF ListClusterTasks, tables, node
<1>2. extractor' \in Extractions /\ extractor'.pc = "next"
  BY <1>1 DEF BaseInv, Types, Extractions
<1>3. Types'
  BY <1>1, <1>2 DEF BaseInv, Types
<1> QED BY <1>1, <1>2, <1>3, SameRows, Quiet DEF BaseInv, ReportsInv

\* A key that is started takes rows away.
LEMMA StartKeyBase ==
  ASSUME BaseInv, NEW k \in Keys, StartKey(k)
  PROVE  BaseInv'
<1>1. /\ extractor' = [pc |-> "version", todo |-> extractor.todo \ {k}, key |-> k, nodes |-> Nodes]
      /\ extractor.pc = "next" /\ nodeTasks' = {t \in nodeTasks : ~Covers(t, k)}
      /\ UNCHANGED <<config, clusterTasks, applied, cursor, inbox, report, lastVersion, creator, fresh>>
      /\ Types
  BY DEF StartKey, node, BaseInv
<1>2. extractor.todo \subseteq Keys
  BY <1>1, Shapes
<1>3. extractor' \in Extractions /\ extractor'.pc = "version"
  BY <1>1, <1>2 DEF Extractions
<1>4. nodeTasks' \subseteq nodeTasks
  BY <1>1
<1>5. dropped' \subseteq Nodes \X Keys
  BY <1>1, RowFields DEF StartKey, Types
<1>6. Types'
  BY <1>1, <1>3, <1>4, <1>5 DEF Types
<1> QED BY <1>1, <1>3, <1>4, <1>6, FewerRows, Quiet DEF BaseInv, ReportsInv

\* The extractor has the version it has taken alone.
LEMMA TakeVersionBase ==
  ASSUME BaseInv, NEW n \in Nodes, TakeVersion(n)
  PROVE  BaseInv'
<1>1. /\ extractor' = [pc |-> "write", todo |-> extractor.todo, key |-> extractor.key,
                       nodes |-> extractor.nodes, node |-> n, version |-> lastVersion + 1]
      /\ extractor.pc = "version" /\ n \in extractor.nodes /\ lastVersion' = lastVersion + 1
      /\ UNCHANGED <<config, clusterTasks, nodeTasks, applied, cursor, inbox, report, creator, fresh, dropped>>
      /\ Types /\ RowsInv /\ InboxInv /\ ReportsInv /\ VersionsInv
  BY DEF TakeVersion, tables, node, history, BaseInv
<1>2. /\ lastVersion \in Nat /\ extractor.todo \subseteq Keys /\ extractor.key \in Keys /\ extractor.nodes \subseteq Nodes
  <2>1. extractor # Idle
    BY <1>1, Shapes
  <2> QED BY <1>1, <2>1, Shapes DEF Types
<1>3. extractor' \in Extractions
  BY <1>1, <1>2 DEF Extractions
<1>4. Types'
  BY <1>1, <1>2, <1>3 DEF Types
<1>5. /\ RowsInv' /\ InboxInv' /\ Unwritten(lastVersion)'
      /\ \A v \in Nat : Unwritten(v) => Unwritten(v)' /\ v # lastVersion + 1
  BY <1>1, VersionTaken
<1>6. ReportsInv'
  BY <1>1, <1>2 DEF ReportsInv, Types
<1>7. VersionsInv'
  <2>1. \A c \in Creators : creator[c] # Idle => Unwritten(creator[c].version)' /\ creator[c].version # lastVersion + 1
    BY <1>1, <1>5, Shapes DEF VersionsInv
  <2>2. \A m \in Nodes : report[m].pc = "retry" => Unwritten(report[m].version)' /\ report[m].version # lastVersion + 1
    BY <1>1, <1>5, Shapes DEF VersionsInv
  <2>3. extractor'.version = lastVersion + 1 /\ extractor'.version = lastVersion' /\ extractor'.node = n /\ extractor'.nodes = extractor.nodes
    BY <1>1
  <2>4. Unwritten(extractor.version)'
    BY <1>5, <2>3
  <2> HIDE DEF Unwritten
  <2> QED BY <1>1, <2>1, <2>2, <2>3, <2>4 DEF VersionsInv
<1> QED BY <1>4, <1>5, <1>6, <1>7 DEF BaseInv

\* The row is written with the version the extractor gives up.
LEMMA WriteExtractedBase ==
  ASSUME BaseInv, WriteExtracted
  PROVE  BaseInv'
<1>1. /\ extractor.pc = "write" /\ Upsert(extractor.node, extractor.key, extractor.version)
      /\ extractor' = [pc |-> "version", todo |-> extractor.todo, key |-> extractor.key,
                       nodes |-> extractor.nodes \ {extractor.node}]
      /\ UNCHANGED <<config, clusterTasks, applied, cursor, inbox, report, lastVersion, creator, fresh>>
      /\ Types /\ RowsInv /\ InboxInv /\ ReportsInv /\ VersionsInv
  BY DEF WriteExtracted, ExtractedTo, node, BaseInv
<1>2. PICK n \in Nodes, k \in Keys, v \in Nat : n = extractor.node /\ k = extractor.key /\ v = extractor.version
  BY <1>1, Shapes
<1>3. Upsert(n, k, v) /\ Unwritten(v)
  BY <1>1, <1>2 DEF VersionsInv
<1>4. RowsInv' /\ InboxInv' /\ \A u \in Nat : u # v /\ Unwritten(u) => Unwritten(u)'
  BY <1>1, <1>3, RowWritten
<1>5. extractor' \in Extractions /\ extractor'.pc = "version"
  <2>1. extractor # Idle
    BY <1>1, Shapes
  <2>2. extractor.todo \subseteq Keys /\ extractor.nodes \subseteq Nodes
    BY <1>1, <2>1, Shapes
  <2> QED BY <1>1, <1>2, <2>2 DEF Extractions
<1>6. Types'
  <2>1. nodeTasks' \subseteq NodeTaskRows
    BY <1>1, <1>3, Upserted
  <2>2. dropped' \subseteq Nodes \X Keys
    BY <1>1, <1>2 DEF WriteExtracted, LateFor, Types
  <2> QED BY <1>1, <1>5, <2>1, <2>2 DEF Types
<1>7. ReportsInv'
  BY <1>1 DEF ReportsInv
<1>8. VersionsInv'
  <2>1. /\ \A c \in Creators : creator[c] # Idle => creator[c].version # v
        /\ \A m \in Nodes : report[m].pc = "retry" => report[m].version # v
    BY <1>1, <1>2 DEF VersionsInv
  <2> QED BY <1>1, <1>4, <1>5, <2>1, VersionsLeft
<1> QED BY <1>4, <1>6, <1>7, <1>8 DEF BaseInv

\* The end of a key leaves the rows of the nodes; so does the end of the extractor.
LEMMA ExtractorEndsBase ==
  ASSUME BaseInv, DeleteClusterTasks \/ ExtractorFails
  PROVE  BaseInv'
<1>1. /\ clusterTasks' \subseteq clusterTasks
      /\ UNCHANGED <<config, nodeTasks, applied, cursor, inbox, report, lastVersion, creator, fresh>>
      /\ extractor # Idle /\ Types
  BY Shapes DEF DeleteClusterTasks, ExtractorFails, tables, node, BaseInv
<1>2. extractor.todo \subseteq Keys
  BY <1>1, Shapes
<1>3. extractor' \in Extractions /\ extractor'.pc # "write"
  <2>1. extractor' = Idle \/ extractor' = [pc |-> "next", todo |-> extractor.todo]
    BY DEF DeleteClusterTasks, ExtractorFails
  <2>2. Idle.pc = "idle"
    BY DEF Idle
  <2> QED BY <1>2, <2>1, <2>2 DEF Extractions
<1>4. dropped' \subseteq Nodes \X Keys
  BY <1>1 DEF DeleteClusterTasks, ExtractorFails, Types
<1>5. Types'
  BY <1>1, <1>3, <1>4 DEF Types
<1> QED BY <1>1, <1>3, <1>5, SameRows, Quiet DEF BaseInv, ReportsInv

\* What a node fetches are its rows as they are.
LEMMA FetchBase ==
  ASSUME BaseInv, NEW n \in Nodes, Fetch(n)
  PROVE  BaseInv'
<1>1. /\ inbox[n] = {} /\ report[n] = Idle /\ inbox' = [inbox EXCEPT ![n] = Doing(n)]
      /\ UNCHANGED <<config, clusterTasks, nodeTasks, applied, cursor, report, lastVersion, creator, extractor, fresh, dropped>>
      /\ Types /\ RowsInv /\ InboxInv /\ ReportsInv /\ VersionsInv
  BY DEF Fetch, tables, history, BaseInv
<1>2. Doing(n) \subseteq nodeTasks /\ nodeTasks \subseteq NodeTaskRows /\ \A t \in Doing(n) : t.node = n
  BY <1>1 DEF Doing, Types
<1>3. /\ inbox'[n] = Doing(n) /\ \A m \in Nodes : m # n => inbox'[m] = inbox[m]
      /\ inbox' \in [Nodes -> SUBSET NodeTaskRows]
  BY <1>1, <1>2 DEF Types
<1>4. Types'
  BY <1>1, <1>3 DEF Types
<1>5. RowsInv'
  BY <1>1 DEF RowsInv
<1>6. InboxInv'
  <2>1. SUFFICES ASSUME NEW m \in Nodes, NEW t \in inbox'[m]
                 PROVE  /\ t.node = m /\ 0 < t.version /\ t.version <= lastVersion /\ t.id <= lastVersion
                        /\ \A s \in nodeTasks : /\ s.id = t.id => s.node = m /\ s.key = t.key
                                                /\ s.version = t.version => s.id = t.id
    BY <1>1 DEF InboxInv
  <2>2. CASE m = n
    <3>1. t \in nodeTasks /\ t.node = n
      BY <1>2, <1>3, <2>1, <2>2
    <3> QED BY <1>1, <2>2, <3>1 DEF RowsInv
  <2>3. CASE m # n
    <3>1. t \in inbox[m]
      BY <1>3, <2>1, <2>3
    <3> QED BY <1>1, <3>1 DEF InboxInv
  <2> QED BY <2>2, <2>3
<1>7. ReportsInv'
  BY <1>1, <1>3 DEF ReportsInv
<1>8. \A v \in Nat : Unwritten(v) => Unwritten(v)'
  <2>1. SUFFICES ASSUME NEW v \in Nat, Unwritten(v), NEW m \in Nodes, NEW t \in inbox'[m]
                 PROVE  t.id # v /\ t.version # v
    BY <1>1 DEF Unwritten
  <2>2. t \in nodeTasks \/ t \in inbox[m]
    BY <1>2, <1>3, <2>1
  <2> QED BY <2>1, <2>2 DEF Unwritten
<1>9. VersionsInv'
  <2>1. /\ \A c \in Creators : creator[c] # Idle => creator[c].version # 0
        /\ extractor.pc = "write" => extractor.version # 0 /\ extractor.node \in extractor.nodes
        /\ \A m \in Nodes : report[m].pc = "retry" => report[m].version # 0
    BY <1>1 DEF VersionsInv, Unwritten
  <2> QED BY <1>1, <1>8, <2>1, VersionsLeft
<1> QED BY <1>4, <1>5, <1>6, <1>7, <1>9 DEF BaseInv

\* A node begins to report the oldest task it has.
LEMMA ExecuteBase ==
  ASSUME BaseInv, NEW n \in Nodes, NEW t \in inbox[n], Execute(n, t) \/ ExecuteFails(n, t)
  PROVE  BaseInv'
<1>1. /\ report[n] = Idle /\ \A s \in inbox[n] : t.version <= s.version
      /\ UNCHANGED <<config, clusterTasks, nodeTasks, cursor, inbox, lastVersion, creator, extractor, fresh>>
      /\ Types
  BY DEF Execute, ExecuteFails, IsNext, tables, history, BaseInv
<1>2. PICK pc \in {"ok", "failed"} : report' = [report EXCEPT ![n] = [pc |-> pc, task |-> t]]
  BY DEF Execute, ExecuteFails
<1>3. t \in NodeTaskRows /\ t.key \in Keys
  BY <1>1, RowFields DEF Types
<1> DEFINE r == [pc |-> pc, task |-> t]
<1>4. r \in Reports /\ r.pc # "retry" /\ r.task = t
  BY <1>3 DEF Reports
<1> HIDE DEF r
<1>5. /\ report' \in [Nodes -> Reports] /\ report'[n] = r
      /\ \A m \in Nodes : m # n => report'[m] = report[m]
  BY <1>1, <1>2, <1>4 DEF Types, r
<1>6. applied' \in [Nodes -> [Keys -> Nat]] /\ dropped' \subseteq Nodes \X Keys
  <2>1. CASE Execute(n, t)
    <3>1. config[n][t.key] \in Nat
      BY <1>1, <1>3 DEF Types
    <3> QED BY <1>1, <1>3, <2>1, <3>1 DEF Execute, Types
  <2>2. CASE ExecuteFails(n, t)
    BY <1>1, <2>2 DEF ExecuteFails, history, Types
  <2> QED BY <2>1, <2>2
<1>7. Types'
  BY <1>1, <1>5, <1>6 DEF Types
<1>8. /\ \A m \in Nodes : report'[m].pc = "retry" => report'[m] = report[m]
      /\ \A m \in Nodes : report'[m] # Idle =>
           report'[m].task \in inbox'[m] /\ \A s \in inbox'[m] : report'[m].task.version <= s.version
  BY <1>1, <1>4, <1>5 DEF BaseInv, ReportsInv
<1> QED BY <1>1, <1>7, <1>8, SameRows, Quiet DEF BaseInv, ReportsInv

\* A task that is reported done leaves its row in its version, or takes it away.
LEMMA ReportOkBase ==
  ASSUME BaseInv, NEW n \in Nodes, ReportOk(n)
  PROVE  BaseInv'
<1> DEFINE t == report[n].task
<1>1. /\ report[n].pc = "ok" /\ report' = [report EXCEPT ![n].pc = "answer"]
      /\ UNCHANGED <<config, clusterTasks, applied, cursor, inbox, lastVersion, creator, extractor, fresh>>
      /\ nodeTasks' = (nodeTasks \ ById(t)) \cup
                        (IF t.key \in DeletedOnDone THEN {} ELSE {Done(s, TRUE, s.version) : s \in ById(t)})
      /\ Types /\ RowsInv
  BY DEF ReportOk, BaseInv
<1>2. t \in NodeTaskRows /\ report[n] # Idle
  BY <1>1, Shapes
<1>3. /\ nodeTasks' \subseteq NodeTaskRows
      /\ \A r \in nodeTasks' : \E s \in nodeTasks : s.id = r.id /\ s.node = r.node /\ s.key = r.key /\ s.version = r.version
      /\ \A r, s \in nodeTasks' : s.id = r.id => s = r
  BY <1>1, <1>2, RowReported
<1>4. /\ report'[n] \in Reports /\ report'[n].pc = "answer" /\ report'[n].task = t
      /\ \A m \in Nodes : m # n => report'[m] = report[m]
  <2>1. report[n] \in [pc : {"ok", "failed", "answer"}, task : NodeTaskRows]
    BY <1>1 DEF Types, Reports, Idle
  <2>2. report'[n] = [report[n] EXCEPT !.pc = "answer"]
    BY <1>1 DEF Types
  <2> QED BY <1>1, <2>1, <2>2 DEF Types, Reports
<1>5. report' \in [Nodes -> Reports]
  BY <1>1, <1>4 DEF Types
<1>6. dropped' \subseteq Nodes \X Keys
  <2>1. \A s \in ById(t) : s.key \in Keys
    BY <1>1, RowFields DEF Types, ById
  <2> QED BY <1>1, <2>1 DEF ReportOk, Types
<1>7. Types'
  BY <1>1, <1>3, <1>5, <1>6 DEF Types
<1>8. /\ \A m \in Nodes : report'[m].pc = "retry" => report'[m] = report[m]
      /\ \A m \in Nodes : report'[m] # Idle =>
           report'[m].task \in inbox'[m] /\ \A s \in inbox'[m] : report'[m].task.version <= s.version
  BY <1>1, <1>2, <1>4 DEF BaseInv, ReportsInv
<1> QED BY <1>1, <1>3, <1>7, <1>8, Quiet DEF BaseInv, ReportsInv

\* A failed task's retry has the version that is taken for it alone.
LEMMA TakeRetryVersionBase ==
  ASSUME BaseInv, NEW n \in Nodes, TakeRetryVersion(n)
  PROVE  BaseInv'
<1> DEFINE r == [pc |-> "retry", task |-> report[n].task, version |-> lastVersion + 1]
<1>1. /\ report[n].pc = "failed" /\ lastVersion' = lastVersion + 1 /\ report' = [report EXCEPT ![n] = r]
      /\ UNCHANGED <<config, clusterTasks, nodeTasks, applied, cursor, inbox, creator, extractor, fresh, dropped>>
      /\ Types /\ RowsInv /\ InboxInv /\ ReportsInv /\ VersionsInv
  BY DEF TakeRetryVersion, tables, history, BaseInv
<1>2. report[n] # Idle /\ report[n].task \in NodeTaskRows /\ lastVersion \in Nat /\ cursor[n] \in Nat
  BY <1>1, Shapes DEF Types
<1>3. r \in Reports /\ r.pc = "retry" /\ r.task = report[n].task /\ r.version = lastVersion + 1 /\ r.version = lastVersion'
  BY <1>1, <1>2 DEF Reports
<1>4. PICK q \in Reports : q = r
  BY <1>3
<1> HIDE DEF r
<1>5. /\ report' \in [Nodes -> Reports] /\ report'[n] = q
      /\ \A m \in Nodes : m # n => report'[m] = report[m]
  BY <1>1, <1>4 DEF Types
<1>6. Types'
  BY <1>1, <1>2, <1>5 DEF Types
<1>7. /\ RowsInv' /\ InboxInv' /\ Unwritten(lastVersion)'
      /\ \A v \in Nat : Unwritten(v) => Unwritten(v)' /\ v # lastVersion + 1
  BY <1>1, VersionTaken
<1>8. ReportsInv'
  <2>1. \A m \in Nodes : cursor[m] \in Nat
    BY <1>1 DEF Types
  <2>2. \A m \in Nodes : cursor'[m] <= lastVersion'
    BY <1>1, <1>2, <2>1 DEF ReportsInv
  <2>3. \A m \in Nodes : report'[m] # Idle =>
           report'[m].task \in inbox'[m] /\ \A s \in inbox'[m] : report'[m].task.version <= s.version
    BY <1>1, <1>2, <1>3, <1>4, <1>5 DEF ReportsInv
  <2> QED BY <2>2, <2>3 DEF ReportsInv
<1>9. VersionsInv'
  <2>1. \A c \in Creators : creator[c] # Idle => Unwritten(creator[c].version)' /\ creator[c].version # lastVersion + 1
    BY <1>1, <1>7, Shapes DEF VersionsInv
  <2>2. extractor.pc = "write" => Unwritten(extractor.version)' /\ extractor.version # lastVersion + 1
    BY <1>1, <1>7, Shapes DEF VersionsInv
  <2>3. \A m \in Nodes : m # n /\ report[m].pc = "retry" => Unwritten(report[m].version)' /\ report[m].version # lastVersion + 1
    <3>1. SUFFICES ASSUME NEW m \in Nodes, m # n, report[m].pc = "retry"
                   PROVE  Unwritten(report[m].version)' /\ report[m].version # lastVersion + 1
      OBVIOUS
    <3>2. PICK v \in Nat : v = report[m].version
      BY <1>1, <3>1, Shapes
    <3>3. Unwritten(v)' /\ v # lastVersion + 1 /\ report'[m].version = v
      BY <1>1, <1>5, <1>7, <3>1, <3>2 DEF VersionsInv
    <3> QED BY <3>2, <3>3
  <2>4. Unwritten(report[n].version)' /\ report'[n].pc = "retry" /\ report'[n].version = lastVersion + 1
    <3>1. report'[n].version = lastVersion'
      BY <1>3, <1>4, <1>5
    <3> QED BY <1>3, <1>4, <1>5, <1>7, <3>1
  <2>5. cursor[n] < lastVersion + 1
    BY <1>1, <1>2 DEF ReportsInv
  <2> HIDE DEF Unwritten
  <2> QED BY <1>1, <1>5, <2>1, <2>2, <2>3, <2>4, <2>5 DEF VersionsInv
<1> QED BY <1>6, <1>7, <1>8, <1>9 DEF BaseInv

\* The row is marked failed in the version the report gives up.
LEMMA ReportFailedBase ==
  ASSUME BaseInv, NEW n \in Nodes, ReportFailed(n)
  PROVE  BaseInv'
<1> DEFINE a == [pc |-> "answer", task |-> report[n].task]
<1>1. /\ report[n].pc = "retry" /\ report' = [report EXCEPT ![n] = a]
      /\ UNCHANGED <<config, clusterTasks, applied, cursor, inbox, lastVersion, creator, extractor, fresh, dropped>>
      /\ Types /\ RowsInv /\ InboxInv /\ ReportsInv /\ VersionsInv
  BY DEF ReportFailed, history, BaseInv
<1>2. report[n] # Idle
  BY <1>1, Shapes
<1>3. PICK t \in inbox[n], v \in Nat : t = report[n].task /\ v = report[n].version /\ t \in NodeTaskRows
  BY <1>1, <1>2, Shapes DEF ReportsInv
<1>4. nodeTasks' = (nodeTasks \ ById(t)) \cup {Done(s, FALSE, v) : s \in ById(t)} /\ Unwritten(v)
  BY <1>1, <1>3 DEF ReportFailed, RetryVersion, VersionsInv
<1>5. /\ RowsInv' /\ InboxInv' /\ nodeTasks' \subseteq NodeTaskRows
      /\ \A u \in Nat : u # v /\ Unwritten(u) => Unwritten(u)'
  <2>1. UNCHANGED <<inbox, lastVersion>> /\ t \in inbox[n]
    BY <1>1, <1>3
  <2> HIDE DEF a
  <2> QED BY <1>1, <1>4, <2>1, RowRetried
<1>6. a \in Reports /\ a.pc = "answer" /\ a.task = t
  BY <1>3 DEF Reports
<1>7. PICK q \in Reports : q = a
  BY <1>6
<1> HIDE DEF a
<1>8. /\ report' \in [Nodes -> Reports] /\ report'[n] = q
      /\ \A m \in Nodes : m # n => report'[m] = report[m]
  BY <1>1, <1>7 DEF Types
<1>9. Types'
  BY <1>1, <1>5, <1>8 DEF Types
<1>10. ReportsInv'
  BY <1>1, <1>2, <1>3, <1>6, <1>7, <1>8 DEF ReportsInv
<1>11. VersionsInv'
  <2>1. /\ \A c \in Creators : creator[c] # Idle => creator[c].version # v
        /\ extractor.pc = "write" => extractor.version # v /\ extractor.node \in extractor.nodes
        /\ \A m \in Nodes : m # n /\ report[m].pc = "retry" => report[m].version # v
    BY <1>1, <1>3 DEF VersionsInv
  <2>2. \A m \in Nodes : report'[m].pc = "retry" => m # n /\ report'[m] = report[m]
    BY <1>6, <1>7, <1>8
  <2> QED BY <1>1, <1>5, <2>1, <2>2, VersionsLeft
<1> QED BY <1>5, <1>9, <1>10, <1>11 DEF BaseInv

\* A node that has its answer, or that gives its list up, has no report any more.
LEMMA AnsweredBase ==
  ASSUME BaseInv, NEW n \in Nodes, Answered(n) \/ AnswerLost(n) \/ NodeRestarts(n)
  PROVE  BaseInv'
<1>1. /\ report' = [report EXCEPT ![n] = Idle]
      /\ UNCHANGED <<config, clusterTasks, nodeTasks, lastVersion, creator, extractor, fresh>>
      /\ Types /\ InboxInv /\ ReportsInv
  BY DEF Answered, AnswerLost, NodeRestarts, tables, history, BaseInv
<1>2. /\ report' \in [Nodes -> Reports] /\ report'[n] = Idle
      /\ \A m \in Nodes : m # n => report'[m] = report[m]
  BY <1>1 DEF Types, Reports
<1>3. /\ inbox' \in [Nodes -> SUBSET NodeTaskRows] /\ inbox'[n] \subseteq inbox[n]
      /\ \A m \in Nodes : m # n => inbox'[m] = inbox[m]
  BY <1>1 DEF Answered, AnswerLost, NodeRestarts, Types
<1>4. /\ cursor' \in [Nodes -> Nat] /\ cursor'[n] <= lastVersion
      /\ \A m \in Nodes : m # n => cursor'[m] = cursor[m]
  <2>1. lastVersion \in Nat /\ cursor[n] \in Nat /\ cursor[n] <= lastVersion
    BY <1>1 DEF Types, ReportsInv
  <2>2. CASE Answered(n)
    <3> DEFINE v == report[n].task.version
    <3>1. v \in Nat /\ v <= lastVersion
      <4>1. report[n] # Idle
        BY <1>1, <2>2, Shapes DEF Answered
      <4> QED BY <1>1, <4>1, Shapes, RowFields DEF ReportsInv, InboxInv
    <3>2. cursor' = [cursor EXCEPT ![n] = IF cursor[n] < v THEN v ELSE cursor[n]]
      BY <1>1, <2>2 DEF Answered, Types
    <3> HIDE DEF v
    <3> QED BY <1>1, <2>1, <3>1, <3>2 DEF Types
  <2>3. CASE AnswerLost(n)
    BY <1>1, <2>1, <2>3 DEF AnswerLost, Types
  <2>4. CASE NodeRestarts(n)
    BY <1>1, <2>1, <2>4 DEF NodeRestarts, Types
  <2> QED BY <2>2, <2>3, <2>4
<1>5. applied' \in [Nodes -> [Keys -> Nat]]
  BY <1>1 DEF Answered, AnswerLost, NodeRestarts, Types
<1>6. dropped' \subseteq Nodes \X Keys
  <2>1. CASE Answered(n)
    <3>1. \A s \in nodeTasks : s.key \in Keys
      BY <1>1, RowFields DEF Types
    <3> QED BY <1>1, <2>1, <3>1 DEF Answered, Types
  <2>2. CASE AnswerLost(n) \/ NodeRestarts(n)
    BY <1>1, <2>2 DEF AnswerLost, NodeRestarts, history, Types
  <2> QED BY <2>1, <2>2
<1>7. Types'
  BY <1>1, <1>2, <1>3, <1>4, <1>5, <1>6 DEF Types
<1>8. /\ \A m \in Nodes : report'[m].pc = "retry" => report'[m] = report[m] /\ cursor'[m] = cursor[m]
      /\ \A m \in Nodes : inbox'[m] \subseteq inbox[m] /\ cursor'[m] <= lastVersion
      /\ \A m \in Nodes : report'[m] # Idle =>
           report'[m].task \in inbox'[m] /\ \A s \in inbox'[m] : report'[m].task.version <= s.version
  BY <1>1, <1>2, <1>3, <1>4, Shapes DEF ReportsInv
<1> QED BY <1>1, <1>7, <1>8, SameRows, Quiet DEF BaseInv

\* A row that is deleted leaves the others.
LEMMA DeleteNodeTaskBase ==
  ASSUME BaseInv, NEW t \in nodeTasks, DeleteNodeTask(t)
  PROVE  BaseInv'
<1>1. /\ nodeTasks' = nodeTasks \ {t} /\ dropped' = dropped \cup {<<t.node, t.key>>}
      /\ UNCHANGED <<config, clusterTasks, applied, cursor, inbox, report, lastVersion, creator, extractor, fresh>>
      /\ Types
  BY DEF DeleteNodeTask, node, BaseInv
<1>2. t.node \in Nodes /\ t.key \in Keys
  BY <1>1, RowFields DEF Types
<1>3. Types'
  BY <1>1, <1>2 DEF Types
<1>4. nodeTasks' \subseteq nodeTasks
  BY <1>1
<1> QED BY <1>1, <1>3, <1>4, FewerRows, Quiet DEF BaseInv, ReportsInv

-----------------------------------------------------------------------------
(***************************************************************************)
(* The ways of the changes, action by action.                              *)
(***************************************************************************)

\* A step that leaves what is applied, and takes no way without a trace.
LEMMA WaysLeft ==
  ASSUME Ways, UNCHANGED <<applied, config>>, dropped \subseteq dropped',
         \A n \in Nodes, k \in Keys : applied[n][k] # config[n][k] /\ Way(n, k) => Way(n, k)' \/ <<n, k>> \in dropped'
  PROVE  Ways'
BY DEF Ways

\* A row that stays is still asked for by a node that has gone no further.
LEMMA RowStays ==
  ASSUME NEW n \in Nodes, NEW t \in Doing(n), t \in nodeTasks', cursor'[n] = cursor[n]
  PROVE  t \in Doing(n)'
BY DEF Doing

\* A row a node asks for is one of its own, above what it has reached.
LEMMA DoingFacts ==
  ASSUME BaseInv, NEW n \in Nodes, NEW t \in Doing(n)
  PROVE  t \in nodeTasks /\ t.node = n /\ t.key \in Keys /\ cursor[n] < t.version
<1>1. t \in nodeTasks /\ t.node = n
  BY DEF Doing
<1>2. t \in NodeTaskRows /\ 0 < t.version
  BY <1>1 DEF BaseInv, Types, RowsInv
<1>3. t.version \in Nat /\ t.key \in Keys /\ cursor[n] \in Nat
  BY <1>2, RowFields DEF BaseInv, Types
<1>4. cursor[n] < t.version
  BY <1>2, <1>3 DEF Doing
<1> QED BY <1>1, <1>3, <1>4

\* The way over a row, when neither the row nor the node has changed.
LEMMA RowWayStays ==
  ASSUME NEW n \in Nodes, NEW k \in Keys, RowWay(n, k), nodeTasks \subseteq nodeTasks',
         cursor'[n] = cursor[n], report'[n] = report[n]
  PROVE  RowWay(n, k)'
BY RowStays DEF RowWay, Handled, Doing

\* An upsert gives its node a row to ask for, unless it comes too late, and leaves
\* the ways of all others.
LEMMA UpsertWay ==
  ASSUME BaseInv, NEW n \in Nodes, NEW k \in Keys, NEW v \in Nat, Unwritten(v), Upsert(n, k, v),
         dropped' = dropped \cup LateFor(n, k, v), UNCHANGED <<cursor, report>>
  PROVE  /\ RowWay(n, k)' \/ <<n, k>> \in dropped'
         /\ \A m \in Nodes, j \in Keys : RowWay(m, j) => RowWay(m, j)' \/ <<m, j>> \in dropped'
<1>1. PICK row \in NodeTaskRows :
           /\ row.node = n /\ row.key = k /\ row.version = v /\ ~row.isDone
           /\ row \in nodeTasks'
           /\ \A t \in nodeTasks : (t.node = n /\ t.key = k) \/ t \in nodeTasks'
  BY Upserted DEF BaseInv
<1>2. RowWay(n, k)' \/ <<n, k>> \in dropped'
  <2>1. CASE v <= cursor[n]
    BY <2>1 DEF LateFor
  <2>2. CASE ~(v <= cursor[n])
    <3>1. v > cursor[n]
      BY <2>2 DEF BaseInv, Types
    <3>2. row \in Doing(n)'
      BY <1>1, <3>1 DEF Doing
    <3>3. ~Handled(n, row)'
      <4>1. SUFFICES ASSUME report[n].pc \in {"ok", "answer"}
                     PROVE  row.version # report[n].task.version
        BY DEF Handled
      <4>2. report[n].task \in inbox[n]
        BY <4>1, Shapes DEF BaseInv, ReportsInv
      <4> QED BY <1>1, <4>2 DEF Unwritten
    <3> QED BY <1>1, <3>2, <3>3 DEF RowWay
  <2> QED BY <2>1, <2>2
<1>3. ASSUME NEW m \in Nodes, NEW j \in Keys, RowWay(m, j)
      PROVE  RowWay(m, j)' \/ <<m, j>> \in dropped'
  <2>1. PICK t \in Doing(m) : t.key = j /\ ~Handled(m, t)
    BY <1>3 DEF RowWay
  <2>2. t \in nodeTasks /\ t.node = m
    BY <2>1 DEF Doing
  <2>3. CASE t.node = n /\ t.key = k
    BY <1>2, <2>1, <2>2, <2>3
  <2>4. CASE ~(t.node = n /\ t.key = k)
    <3>1. t \in Doing(m)' /\ ~Handled(m, t)'
      BY <1>1, <2>1, <2>2, <2>4, RowStays DEF Handled
    <3> QED BY <2>1, <3>1 DEF RowWay
  <2> QED BY <2>3, <2>4
<1> QED BY <1>2, <1>3

\* A change of the cluster has the row of its key.
LEMMA ChangeClusterWays ==
  ASSUME TaskInv, NEW k \in Keys, ChangeCluster(k)
  PROVE  Ways'
<1>1. /\ UNCHANGED <<nodeTasks, applied, cursor, inbox, report, creator, extractor, dropped>>
      /\ clusterTasks' = clusterTasks \cup {k} /\ fresh' = fresh \cup {k}
  BY DEF ChangeCluster, node
<1>2. \A n \in Nodes, j \in Keys : j # k => config'[n][j] = config[n][j]
  BY DEF TaskInv, BaseInv, Types, ChangeCluster
<1>3. SUFFICES ASSUME NEW n \in Nodes, NEW j \in Keys, applied'[n][j] # config'[n][j]
               PROVE  Way(n, j)' \/ <<n, j>> \in dropped'
  BY DEF Ways
<1>4. CASE j = k
  BY <1>1, <1>4 DEF Way, ClusterWay
<1>5. CASE j # k
  <2>1. Way(n, j) \/ <<n, j>> \in dropped
    BY <1>1, <1>2, <1>3, <1>5 DEF TaskInv, Ways
  <2>2. RowWay(n, j) => RowWay(n, j)'
    BY <1>1, RowWayStays
  <2>3. (InExtraction(n, j) => InExtraction(n, j)') /\ (CreatorWay(n, j) => CreatorWay(n, j)')
        /\ (ClusterWay(j) => ClusterWay(j)')
    BY <1>1 DEF InExtraction, CreatorWay, ClusterWay
  <2> QED BY <1>1, <2>1, <2>2, <2>3 DEF Way
<1> QED BY <1>4, <1>5

\* A change of one node is with its creator.
LEMMA ChangeNodeWays ==
  ASSUME TaskInv, NEW c \in Creators, NEW m \in Nodes, NEW k \in NodeLevelKeys, ChangeNode(c, m, k)
  PROVE  Ways'
<1>1. /\ UNCHANGED <<clusterTasks, nodeTasks, applied, cursor, inbox, report, extractor, fresh, dropped>>
      /\ creator[c] = Idle /\ config' = [config EXCEPT ![m][k] = @ + 1] /\ k \in Keys
      /\ creator' = [creator EXCEPT ![c] = [pc |-> "write", node |-> m, key |-> k, version |-> lastVersion + 1]]
  BY KeysAssumption DEF ChangeNode, node, history
<1>2. /\ \A n \in Nodes, j \in Keys : ~(n = m /\ j = k) => config'[n][j] = config[n][j]
      /\ creator'[c].node = m /\ creator'[c].key = k /\ creator'[c].pc = "write"
      /\ \A d \in Creators : creator[d] # Idle => creator'[d] = creator[d]
  BY <1>1 DEF TaskInv, BaseInv, Types
<1>3. SUFFICES ASSUME NEW n \in Nodes, NEW j \in Keys, applied'[n][j] # config'[n][j]
               PROVE  Way(n, j)' \/ <<n, j>> \in dropped'
  BY DEF Ways
<1>4. CASE n = m /\ j = k
  <2>1. creator'[c] # Idle
    BY <1>2 DEF Idle
  <2> QED BY <1>2, <1>4, <2>1 DEF Way, CreatorWay
<1>5. CASE ~(n = m /\ j = k)
  <2>1. Way(n, j) \/ <<n, j>> \in dropped
    BY <1>1, <1>2, <1>3, <1>5 DEF TaskInv, Ways
  <2>2. RowWay(n, j) => RowWay(n, j)'
    BY <1>1, RowWayStays
  <2>3. (InExtraction(n, j) => InExtraction(n, j)') /\ (ClusterWay(j) => ClusterWay(j)')
    BY <1>1 DEF InExtraction, ClusterWay
  <2>4. CreatorWay(n, j) => CreatorWay(n, j)'
    BY <1>2 DEF CreatorWay
  <2> QED BY <1>1, <2>1, <2>2, <2>3, <2>4 DEF Way
<1> QED BY <1>4, <1>5

\* The change goes from its creator to the row, or comes too late.
LEMMA WriteNodeTaskWays ==
  ASSUME TaskInv, NEW c \in Creators, WriteNodeTask(c)
  PROVE  Ways'
<1>1. /\ creator[c] # Idle /\ Upsert(creator[c].node, creator[c].key, creator[c].version)
      /\ creator' = [creator EXCEPT ![c] = Idle]
      /\ UNCHANGED <<config, clusterTasks, applied, cursor, inbox, report, extractor, fresh>>
      /\ dropped' = dropped \cup LateFor(creator[c].node, creator[c].key, creator[c].version)
  BY DEF WriteNodeTask, node
<1>2. PICK m \in Nodes, k \in Keys, v \in Nat : m = creator[c].node /\ k = creator[c].key /\ v = creator[c].version
  BY <1>1, Shapes DEF TaskInv, BaseInv
<1>3. Upsert(m, k, v) /\ Unwritten(v) /\ dropped' = dropped \cup LateFor(m, k, v) /\ UNCHANGED <<cursor, report>>
  BY <1>1, <1>2 DEF TaskInv, BaseInv, VersionsInv
<1>4. /\ RowWay(m, k)' \/ <<m, k>> \in dropped'
      /\ \A n \in Nodes, j \in Keys : RowWay(n, j) => RowWay(n, j)' \/ <<n, j>> \in dropped'
  BY <1>3, UpsertWay DEF TaskInv
<1>5. \A d \in Creators : d # c => creator'[d] = creator[d]
  BY <1>1 DEF TaskInv, BaseInv, Types
<1>6. ASSUME NEW n \in Nodes, NEW j \in Keys, Way(n, j)
      PROVE  Way(n, j)' \/ <<n, j>> \in dropped'
  <2>1. CASE RowWay(n, j)
    BY <1>4, <2>1 DEF Way
  <2>2. CASE InExtraction(n, j) \/ ClusterWay(j)
    BY <1>1, <2>2 DEF Way, InExtraction, ClusterWay
  <2>3. CASE CreatorWay(n, j)
    <3>1. PICK d \in Creators : creator[d] # Idle /\ creator[d].node = n /\ creator[d].key = j
      BY <2>3 DEF CreatorWay
    <3>2. CASE d = c
      BY <1>2, <1>4, <3>1, <3>2 DEF Way
    <3>3. CASE d # c
      BY <1>5, <3>1, <3>3 DEF Way, CreatorWay
    <3> QED BY <3>2, <3>3
  <2> QED BY <1>6, <2>1, <2>2, <2>3 DEF Way
<1> QED BY <1>1, <1>3, <1>6, WaysLeft DEF TaskInv

\* The change that a creator fails with is dropped.
LEMMA CreatorFailsWays ==
  ASSUME TaskInv, NEW c \in Creators, CreatorFails(c)
  PROVE  Ways'
<1>1. /\ creator' = [creator EXCEPT ![c] = Idle]
      /\ UNCHANGED <<config, clusterTasks, nodeTasks, applied, cursor, inbox, report, extractor, fresh>>
      /\ dropped' = dropped \cup {<<creator[c].node, creator[c].key>>}
  BY DEF CreatorFails, tables, node
<1>2. \A d \in Creators : d # c => creator'[d] = creator[d]
  BY <1>1 DEF TaskInv, BaseInv, Types
<1>3. ASSUME NEW n \in Nodes, NEW j \in Keys, Way(n, j)
      PROVE  Way(n, j)' \/ <<n, j>> \in dropped'
  <2>1. CASE RowWay(n, j)
    BY <1>1, <2>1, RowWayStays DEF Way
  <2>2. CASE InExtraction(n, j) \/ ClusterWay(j)
    BY <1>1, <2>2 DEF Way, InExtraction, ClusterWay
  <2>3. CASE CreatorWay(n, j)
    BY <1>1, <1>2, <2>3 DEF Way, CreatorWay
  <2> QED BY <1>3, <2>1, <2>2, <2>3 DEF Way
<1> QED BY <1>1, <1>3, WaysLeft DEF TaskInv

\* The rows of the cluster that are there are listed.
LEMMA ListClusterWays ==
  ASSUME TaskInv, ListClusterTasks
  PROVE  Ways'
<1>1. /\ extractor = Idle /\ extractor' = [pc |-> "next", todo |-> clusterTasks]
      /\ UNCHANGED <<config, clusterTasks, nodeTasks, applied, cursor, inbox, report, creator, dropped>>
  BY DEF ListClusterTasks, tables, node
<1>2. extractor' # Idle /\ extractor'.todo = clusterTasks
  BY <1>1 DEF Idle
<1>3. ASSUME NEW n \in Nodes, NEW j \in Keys, Way(n, j)
      PROVE  Way(n, j)'
  <2>1. CASE RowWay(n, j)
    BY <1>1, <2>1, RowWayStays DEF Way
  <2>2. CASE CreatorWay(n, j)
    BY <1>1, <2>2 DEF Way, CreatorWay
  <2>3. CASE ClusterWay(j)
    BY <1>2, <2>3 DEF Way, InExtraction, ClusterWay
  <2> QED BY <1>1, <1>3, <2>1, <2>2, <2>3 DEF Way, InExtraction
<1> QED BY <1>1, <1>3, WaysLeft DEF TaskInv

\* A key that is started is with the extractor for every node; the rows it takes away are
\* of this key, or seen, or dropped.
LEMMA StartKeyWays ==
  ASSUME TaskInv, NEW k \in Keys, StartKey(k)
  PROVE  Ways'
<1>1. /\ extractor.pc = "next" /\ k \in extractor.todo
      /\ extractor' = [pc |-> "version", todo |-> extractor.todo \ {k}, key |-> k, nodes |-> Nodes]
      /\ nodeTasks' = {t \in nodeTasks : ~Covers(t, k)}
      /\ UNCHANGED <<config, clusterTasks, applied, cursor, inbox, report, creator, fresh>>
      /\ dropped' = dropped \cup {<<t.node, t.key>> : t \in {s \in nodeTasks :
                        Covers(s, k) /\ s.key.user # k.user /\ Unseen(s)}}
  BY DEF StartKey, node
<1>2. /\ extractor' # Idle /\ extractor'.pc # "next" /\ extractor'.key = k /\ extractor'.nodes = Nodes
      /\ extractor'.todo = extractor.todo \ {k} /\ extractor # Idle
  BY <1>1 DEF Idle
<1>3. \A n \in Nodes : InExtraction(n, k)'
  BY <1>2 DEF InExtraction
<1>4. \A t \in nodeTasks : Covers(t, k) /\ t.key.user # k.user /\ Unseen(t) => <<t.node, t.key>> \in dropped'
  BY <1>1
<1>5. dropped \subseteq dropped'
  BY <1>1
<1>6. ASSUME NEW n \in Nodes, NEW j \in Keys, applied[n][j] # config[n][j], Way(n, j)
      PROVE  Way(n, j)' \/ <<n, j>> \in dropped'
  <2>1. CASE RowWay(n, j)
    <3>1. PICK t \in Doing(n) : t.key = j /\ ~Handled(n, t)
      BY <2>1 DEF RowWay
    <3>2. t \in nodeTasks /\ t.node = n /\ cursor[n] < t.version
      BY DoingFacts DEF TaskInv
    <3>3. CASE ~Covers(t, k)
      <4>1. t \in nodeTasks'
        BY <1>1, <3>2, <3>3
      <4>2. t \in Doing(n)' /\ ~Handled(n, t)'
        BY <1>1, <3>1, <4>1, RowStays DEF Handled
      <4> QED BY <3>1, <4>2 DEF Way, RowWay
    <3>4. CASE Covers(t, k) /\ t.key.user = k.user
      <4>1. t.key = k
        BY <3>1, <3>4, KeyIs DEF Covers
      <4> QED BY <1>3, <3>1, <4>1 DEF Way
    <3>5. CASE Covers(t, k) /\ t.key.user # k.user
      <4>1. Unseen(t)
        <5>1. cursor[n] \in Nat /\ t.version \in Nat
          BY <3>2, RowFields DEF TaskInv, BaseInv, Types
        <5>2. t.version > cursor[n]
          BY <3>2, <5>1
        <5> QED BY <1>6, <3>1, <3>2, <5>2 DEF Unseen
      <4> QED BY <1>4, <3>1, <3>2, <3>5, <4>1
    <3> QED BY <3>3, <3>4, <3>5
  <2>2. CASE InExtraction(n, j)
    <3>1. j \in extractor.todo
      BY <1>1, <2>2 DEF InExtraction
    <3>2. CASE j = k
      BY <1>3, <3>2 DEF Way
    <3>3. CASE j # k
      BY <1>2, <3>1, <3>3 DEF Way, InExtraction
    <3> QED BY <3>2, <3>3
  <2>3. CASE CreatorWay(n, j) \/ ClusterWay(j)
    BY <1>1, <1>2, <2>3 DEF Way, CreatorWay, ClusterWay
  <2> QED BY <1>6, <2>1, <2>2, <2>3 DEF Way
<1> QED BY <1>1, <1>5, <1>6, WaysLeft DEF TaskInv

\* A version for a node's row leaves the key with the extractor.
LEMMA TakeVersionWays ==
  ASSUME TaskInv, NEW m \in Nodes, TakeVersion(m)
  PROVE  Ways'
<1>1. /\ extractor.pc = "version"
      /\ extractor' = [pc |-> "write", todo |-> extractor.todo, key |-> extractor.key,
                       nodes |-> extractor.nodes, node |-> m, version |-> lastVersion + 1]
      /\ UNCHANGED <<config, clusterTasks, nodeTasks, applied, cursor, inbox, report, creator, fresh, dropped>>
  BY DEF TakeVersion, tables, node, history
<1>2. /\ extractor' # Idle /\ extractor # Idle /\ extractor'.pc = "write" /\ extractor'.todo = extractor.todo
      /\ extractor'.key = extractor.key /\ extractor'.nodes = extractor.nodes
  BY <1>1 DEF Idle
<1>3. ASSUME NEW n \in Nodes, NEW j \in Keys, Way(n, j)
      PROVE  Way(n, j)'
  <2>1. CASE RowWay(n, j)
    BY <1>1, <2>1, RowWayStays DEF Way
  <2>2. CASE InExtraction(n, j)
    BY <1>1, <1>2, <2>2 DEF Way, InExtraction
  <2>3. CASE CreatorWay(n, j) \/ ClusterWay(j)
    BY <1>1, <1>2, <2>3 DEF Way, CreatorWay, ClusterWay
  <2> QED BY <1>3, <2>1, <2>2, <2>3 DEF Way
<1> QED BY <1>1, <1>3, WaysLeft DEF TaskInv

\* The change goes from the extractor to the row of the node, or comes too late.
LEMMA WriteExtractedWays ==
  ASSUME TaskInv, WriteExtracted
  PROVE  Ways'
<1>1. /\ extractor.pc = "write" /\ Upsert(extractor.node, extractor.key, extractor.version)
      /\ extractor' = [pc |-> "version", todo |-> extractor.todo, key |-> extractor.key,
                       nodes |-> extractor.nodes \ {extractor.node}]
      /\ UNCHANGED <<config, clusterTasks, applied, cursor, inbox, report, creator, fresh>>
      /\ dropped' = dropped \cup LateFor(extractor.node, extractor.key, extractor.version)
  BY DEF WriteExtracted, ExtractedTo, node
<1>2. PICK m \in Nodes, k \in Keys, v \in Nat : m = extractor.node /\ k = extractor.key /\ v = extractor.version
  BY <1>1, Shapes DEF TaskInv, BaseInv
<1>3. Upsert(m, k, v) /\ Unwritten(v) /\ dropped' = dropped \cup LateFor(m, k, v) /\ UNCHANGED <<cursor, report>>
  BY <1>1, <1>2 DEF TaskInv, BaseInv, VersionsInv
<1>4. /\ RowWay(m, k)' \/ <<m, k>> \in dropped'
      /\ \A n \in Nodes, j \in Keys : RowWay(n, j) => RowWay(n, j)' \/ <<n, j>> \in dropped'
  BY <1>3, UpsertWay DEF TaskInv
<1>5. /\ extractor' # Idle /\ extractor # Idle /\ extractor'.pc = "version" /\ extractor'.todo = extractor.todo
      /\ extractor'.key = k /\ extractor'.nodes = extractor.nodes \ {m}
  BY <1>1, <1>2 DEF Idle
<1>6. ASSUME NEW n \in Nodes, NEW j \in Keys, Way(n, j)
      PROVE  Way(n, j)' \/ <<n, j>> \in dropped'
  <2>1. CASE RowWay(n, j)
    BY <1>4, <2>1 DEF Way
  <2>2. CASE InExtraction(n, j)
    <3>1. j \in extractor.todo \/ (j = k /\ n \in extractor.nodes)
      BY <1>2, <2>2 DEF InExtraction
    <3>2. CASE n = m /\ j = k
      BY <1>4, <3>2 DEF Way
    <3>3. CASE ~(n = m /\ j = k)
      <4>1. InExtraction(n, j)'
        BY <1>5, <3>1, <3>3 DEF InExtraction
      <4> QED BY <4>1 DEF Way
    <3> QED BY <3>2, <3>3
  <2>3. CASE CreatorWay(n, j) \/ ClusterWay(j)
    BY <1>1, <1>5, <2>3 DEF Way, CreatorWay, ClusterWay
  <2> QED BY <1>6, <2>1, <2>2, <2>3 DEF Way
<1> QED BY <1>1, <1>3, <1>6, WaysLeft DEF TaskInv

\* A row of the cluster that goes with another key has been listed, or is dropped.
LEMMA DeleteClusterWays ==
  ASSUME TaskInv, DeleteClusterTasks
  PROVE  Ways'
<1> DEFINE k       == extractor.key
           overrun == {j \in Keys : j.type = k.type /\ j \in clusterTasks \cap fresh /\ j \notin extractor.todo}
<1>1. /\ extractor.pc = "version" /\ extractor.nodes = {}
      /\ clusterTasks' = clusterTasks \ {j \in clusterTasks : j.type = k.type}
      /\ dropped' = dropped \cup {p \in Nodes \X overrun : applied[p[1]][p[2]] # config[p[1]][p[2]]}
      /\ UNCHANGED <<config, nodeTasks, applied, cursor, inbox, report, creator, fresh>>
  BY DEF DeleteClusterTasks, Extracted, node
<1>2. extractor' = IF extractor.todo = {} THEN Idle ELSE [pc |-> "next", todo |-> extractor.todo]
  BY DEF DeleteClusterTasks
<1>3. extractor # Idle
  BY <1>1 DEF Idle
<1>4. \A n \in Nodes, j \in Keys : j \in extractor.todo => InExtraction(n, j)'
  <2>1. SUFFICES ASSUME NEW n \in Nodes, NEW j \in Keys, j \in extractor.todo
                 PROVE  InExtraction(n, j)'
    OBVIOUS
  <2>2. extractor' = [pc |-> "next", todo |-> extractor.todo]
    BY <1>2, <2>1
  <2> QED BY <2>1, <2>2 DEF InExtraction, Idle
<1>5. ASSUME NEW n \in Nodes, NEW j \in Keys, applied[n][j] # config[n][j], Way(n, j)
      PROVE  Way(n, j)' \/ <<n, j>> \in dropped'
  <2>1. CASE RowWay(n, j)
    BY <1>1, <2>1, RowWayStays DEF Way
  <2>2. CASE InExtraction(n, j)
    <3>1. j \in extractor.todo
      BY <1>1, <2>2 DEF InExtraction
    <3> QED BY <1>4, <3>1 DEF Way
  <2>3. CASE CreatorWay(n, j)
    BY <1>1, <2>3 DEF Way, CreatorWay
  <2>4. CASE ClusterWay(j)
    <3>1. j \in clusterTasks /\ j \in fresh
      BY <1>3, <2>4 DEF ClusterWay
    <3>2. CASE j.type # k.type
      BY <1>1, <3>1, <3>2 DEF Way, ClusterWay
    <3>3. CASE j.type = k.type /\ j \in extractor.todo
      BY <1>4, <3>3 DEF Way
    <3>4. CASE j.type = k.type /\ j \notin extractor.todo
      <4>1. <<n, j>> \in Nodes \X overrun
        BY <3>1, <3>4
      <4> QED BY <1>1, <1>5, <4>1
    <3> QED BY <3>2, <3>3, <3>4
  <2> QED BY <1>5, <2>1, <2>2, <2>3, <2>4 DEF Way
<1> QED BY <1>1, <1>5, WaysLeft DEF TaskInv

\* What an extractor that ends still had to write is on a row of the cluster, or dropped.
LEMMA ExtractorFailsWays ==
  ASSUME TaskInv, ExtractorFails
  PROVE  Ways'
<1>1. /\ extractor # Idle /\ extractor' = Idle
      /\ UNCHANGED <<config, clusterTasks, nodeTasks, applied, cursor, inbox, report, creator, fresh>>
      /\ dropped' = dropped \cup {p \in Nodes \X (Keys \ clusterTasks) :
                                InExtraction(p[1], p[2]) /\ applied[p[1]][p[2]] # config[p[1]][p[2]]}
  BY DEF ExtractorFails, tables, node
<1>2. \A j \in Keys : j \in clusterTasks => ClusterWay(j)'
  BY <1>1 DEF ClusterWay
<1>3. ASSUME NEW n \in Nodes, NEW j \in Keys, applied[n][j] # config[n][j], Way(n, j)
      PROVE  Way(n, j)' \/ <<n, j>> \in dropped'
  <2>1. CASE RowWay(n, j)
    BY <1>1, <2>1, RowWayStays DEF Way
  <2>2. CASE CreatorWay(n, j)
    BY <1>1, <2>2 DEF Way, CreatorWay
  <2>3. CASE j \in clusterTasks
    BY <1>2, <2>3 DEF Way
  <2>4. CASE InExtraction(n, j) /\ j \notin clusterTasks
    <3>1. <<n, j>> \in Nodes \X (Keys \ clusterTasks)
      BY <2>4
    <3> HIDE DEF InExtraction
    <3> QED BY <1>1, <1>3, <2>4, <3>1
  <2> QED BY <1>3, <2>1, <2>2, <2>3, <2>4 DEF Way, ClusterWay
<1> QED BY <1>1, <1>3, WaysLeft DEF TaskInv

\* The ways are in the tables: that a node fetches rows changes none of them.
LEMMA FetchWays ==
  ASSUME TaskInv, NEW m \in Nodes, Fetch(m)
  PROVE  Ways'
<1>1. UNCHANGED <<config, clusterTasks, nodeTasks, applied, cursor, report, creator, extractor, fresh, dropped>>
  BY DEF Fetch, tables, history
<1>2. ASSUME NEW n \in Nodes, NEW j \in Keys, Way(n, j)
      PROVE  Way(n, j)'
  <2>1. RowWay(n, j) => RowWay(n, j)'
    BY <1>1, RowWayStays
  <2> QED BY <1>1, <1>2, <2>1 DEF Way, InExtraction, CreatorWay, ClusterWay
<1> QED BY <1>1, <1>2, WaysLeft DEF TaskInv

\* The rows of other keys than that of the task are not in the version of the task.
LEMMA OtherKey ==
  ASSUME BaseInv, NEW m \in Nodes, NEW t \in inbox[m], NEW s \in Doing(m), s.key # t.key
  PROVE  s.version # t.version /\ s.id # t.id
<1>1. s \in nodeTasks
  BY DEF Doing
<1> QED BY <1>1 DEF BaseInv, InboxInv

\* A node that executes a task works with what it says of its key; of other keys it has
\* the rows to ask for that it had.
LEMMA ExecuteWays ==
  ASSUME TaskInv, NEW m \in Nodes, NEW t \in inbox[m], Execute(m, t)
  PROVE  Ways'
<1>1. /\ UNCHANGED <<config, clusterTasks, nodeTasks, cursor, creator, extractor, fresh>>
      /\ applied' = [applied EXCEPT ![m][t.key] = config[m][t.key]] /\ dropped' = dropped \ {<<m, t.key>>}
      /\ report' = [report EXCEPT ![m] = [pc |-> "ok", task |-> t]]
  BY DEF Execute, tables
<1>2. t.key \in Keys
  BY RowFields DEF TaskInv, BaseInv, Types
<1>3. /\ applied'[m][t.key] = config[m][t.key]
      /\ \A n \in Nodes, j \in Keys : ~(n = m /\ j = t.key) => applied'[n][j] = applied[n][j]
      /\ report'[m].task = t /\ \A n \in Nodes : n # m => report'[n] = report[n]
  BY <1>1, <1>2 DEF TaskInv, BaseInv, Types
<1>4. SUFFICES ASSUME NEW n \in Nodes, NEW j \in Keys, applied'[n][j] # config'[n][j]
               PROVE  Way(n, j)' \/ <<n, j>> \in dropped'
  BY DEF Ways
<1>5. ~(n = m /\ j = t.key)
  BY <1>1, <1>3, <1>4
<1>6. Way(n, j) \/ <<n, j>> \in dropped
  BY <1>1, <1>3, <1>4, <1>5 DEF TaskInv, Ways
<1>7. RowWay(n, j) => RowWay(n, j)'
  <2>1. CASE n # m
    BY <1>1, <1>3, <2>1, RowWayStays
  <2>2. CASE n = m
    <3>1. SUFFICES ASSUME NEW s \in Doing(n), s.key = j
                   PROVE  RowWay(n, j)'
      BY DEF RowWay
    <3>2. s.version # t.version
      BY <1>5, <2>2, <3>1, OtherKey DEF TaskInv
    <3>3. s \in nodeTasks
      BY DEF Doing
    <3>4. s \in Doing(n)' /\ ~Handled(n, s)'
      BY <1>1, <1>3, <2>2, <3>2, <3>3, RowStays DEF Handled
    <3> QED BY <3>1, <3>4 DEF RowWay
  <2> QED BY <2>1, <2>2
<1>8. <<n, j>> \in dropped => <<n, j>> \in dropped'
  BY <1>1, <1>5
<1> QED BY <1>1, <1>6, <1>7, <1>8 DEF Way, InExtraction, CreatorWay, ClusterWay

\* A node whose report is not of a task done has handled no row.
LEMMA ReportEnds ==
  ASSUME TaskInv, NEW m \in Nodes, UNCHANGED <<config, clusterTasks, nodeTasks, applied, cursor, creator, extractor, fresh, dropped>>,
         report'[m].pc \notin {"ok", "answer"}, \A n \in Nodes : n # m => report'[n] = report[n]
  PROVE  Ways'
<1>1. ASSUME NEW n \in Nodes, NEW j \in Keys, Way(n, j)
      PROVE  Way(n, j)'
  <2>1. RowWay(n, j) => RowWay(n, j)'
    <3>1. CASE n # m
      BY <3>1, RowWayStays
    <3>2. CASE n = m
      BY <3>2, RowStays DEF RowWay, Handled, Doing
    <3> QED BY <3>1, <3>2
  <2> QED BY <1>1, <2>1 DEF Way, InExtraction, CreatorWay, ClusterWay
<1> QED BY <1>1, WaysLeft DEF TaskInv

\* A report of a task that failed, and one that is given up.
LEMMA ReportEndsWays ==
  ASSUME TaskInv, NEW m \in Nodes, (\E t \in inbox[m] : ExecuteFails(m, t)) \/ TakeRetryVersion(m) \/ AnswerLost(m)
  PROVE  Ways'
<1>1. UNCHANGED <<config, clusterTasks, nodeTasks, applied, cursor, creator, extractor, fresh, dropped>>
  BY DEF ExecuteFails, TakeRetryVersion, AnswerLost, tables, history
<1>2. /\ report'[m].pc \notin {"ok", "answer"}
      /\ \A n \in Nodes : n # m => report'[n] = report[n]
  BY DEF TaskInv, BaseInv, Types, ExecuteFails, TakeRetryVersion, AnswerLost, Idle
<1> QED BY <1>1, <1>2, ReportEnds

\* A step that only rows and reports take part in leaves every row a way, or drops what
\* the node would have learned from it.
LEMMA RowWaysLeft ==
  ASSUME TaskInv, UNCHANGED <<config, clusterTasks, applied, creator, extractor, fresh>>, dropped \subseteq dropped',
         \A n \in Nodes : \A s \in Doing(n) :
           ~Handled(n, s) /\ Unseen(s) => RowWay(n, s.key)' \/ <<n, s.key>> \in dropped'
  PROVE  Ways'
<1>1. ASSUME NEW n \in Nodes, NEW j \in Keys, applied[n][j] # config[n][j], Way(n, j)
      PROVE  Way(n, j)' \/ <<n, j>> \in dropped'
  <2>1. CASE RowWay(n, j)
    <3>1. PICK s \in Doing(n) : s.key = j /\ ~Handled(n, s)
      BY <2>1 DEF RowWay
    <3>2. s \in nodeTasks /\ s.node = n /\ cursor[n] < s.version
      BY DoingFacts DEF TaskInv
    <3>3. cursor[n] \in Nat /\ s.version \in Nat
      BY <3>2, RowFields DEF TaskInv, BaseInv, Types
    <3>4. s.version > cursor[n]
      BY <3>2, <3>3
    <3>5. Unseen(s)
      BY <1>1, <3>1, <3>2, <3>4 DEF Unseen
    <3>6. RowWay(n, j)' \/ <<n, j>> \in dropped'
      BY <3>1, <3>5
    <3> QED BY <3>6 DEF Way
  <2>2. CASE InExtraction(n, j) \/ CreatorWay(n, j) \/ ClusterWay(j)
    BY <2>2 DEF Way, InExtraction, CreatorWay, ClusterWay
  <2> QED BY <1>1, <2>1, <2>2 DEF Way
<1> QED BY <1>1, WaysLeft DEF TaskInv

\* A row that has been written since the node fetched it is not taken for done unseen.
LEMMA ReportOkWays ==
  ASSUME TaskInv, NEW m \in Nodes, ReportOk(m)
  PROVE  Ways'
<1>1. PICK t \in inbox[m] : t = report[m].task /\ t \in NodeTaskRows
  <2>1. report[m] # Idle
    BY Shapes DEF ReportOk, TaskInv, BaseInv
  <2> QED BY <2>1, Shapes DEF TaskInv, BaseInv, ReportsInv
<1>2. /\ report[m].pc = "ok" /\ report' = [report EXCEPT ![m].pc = "answer"]
      /\ UNCHANGED <<config, clusterTasks, applied, cursor, creator, extractor, fresh>>
      /\ nodeTasks' = (nodeTasks \ ById(t)) \cup
                        (IF t.key \in DeletedOnDone THEN {} ELSE {Done(s, TRUE, s.version) : s \in ById(t)})
      /\ dropped' = dropped \cup {<<m, s.key>> : s \in {r \in ById(t) :
                        r.version # t.version /\ Unseen(r) /\ (cursor[m] = 0 \/ t.key \in DeletedOnDone)}}
  BY <1>1 DEF ReportOk
<1>3. /\ \A s \in nodeTasks : s.id # t.id => s \in nodeTasks'
      /\ \A s \in nodeTasks : s.id = t.id /\ t.key \notin DeletedOnDone => Done(s, TRUE, s.version) \in nodeTasks'
  BY <1>1, <1>2, RowReported DEF TaskInv, BaseInv
<1>4. \A s \in nodeTasks : s.id = t.id => s.node = m
  BY <1>1 DEF TaskInv, BaseInv, InboxInv
<1>5. report'[m].task = t /\ \A n \in Nodes : n # m => report'[n] = report[n]
  <2>1. report[m] \in Reports
    BY DEF TaskInv, BaseInv, Types
  <2>2. report'[m] = [report[m] EXCEPT !.pc = "answer"]
    BY <1>2 DEF TaskInv, BaseInv, Types
  <2>3. report[m] \in [pc : {"ok", "failed", "answer"}, task : NodeTaskRows]
    BY <1>2, <2>1 DEF Reports, Idle
  <2>4. report'[m].task = t
    BY <1>1, <2>2, <2>3
  <2> QED BY <1>2, <2>4 DEF TaskInv, BaseInv, Types
<1>6. \A s \in nodeTasks : s.id = t.id /\ s.version # t.version /\ Unseen(s) /\ (cursor[m] = 0 \/ t.key \in DeletedOnDone)
                             => <<m, s.key>> \in dropped'
  BY <1>2 DEF ById
<1>7. dropped \subseteq dropped'
  BY <1>2
<1>8. ASSUME NEW n \in Nodes, NEW s \in Doing(n), ~Handled(n, s), Unseen(s)
      PROVE  RowWay(n, s.key)' \/ <<n, s.key>> \in dropped'
  <2>1. s \in nodeTasks /\ s.node = n /\ s.key \in Keys /\ cursor[n] < s.version
    BY DoingFacts DEF TaskInv
  <2>2. n = m => s.version # t.version
    BY <1>1, <1>2, <1>8 DEF Handled
  <2>3. CASE s.id # t.id
    <3>1. s \in Doing(n)'
      BY <1>2, <1>3, <2>1, <2>3, RowStays
    <3>2. ~Handled(n, s)'
      BY <1>5, <1>8, <2>2 DEF Handled
    <3> QED BY <3>1, <3>2 DEF RowWay
  <2>4. CASE s.id = t.id /\ (cursor[m] = 0 \/ t.key \in DeletedOnDone)
    BY <1>4, <1>6, <1>8, <2>1, <2>2, <2>4
  <2>5. CASE s.id = t.id /\ cursor[m] # 0 /\ t.key \notin DeletedOnDone
    <3>1. n = m
      BY <1>4, <2>1, <2>5
    <3>2. PICK d \in nodeTasks' : d = Done(s, TRUE, s.version)
      BY <1>3, <2>1, <2>5
    <3>3. s \in NodeTaskRows /\ cursor[m] \in Nat
      BY <2>1 DEF TaskInv, BaseInv, Types
    <3>4. d.node = n /\ d.key = s.key /\ d.version = s.version
      BY <2>1, <3>2, <3>3 DEF Done, NodeTaskRows
    <3>5. s.version \in Nat
      BY <3>3, RowFields
    <3>6. d \in Doing(n)'
      <4>1. cursor'[n] = cursor[n] /\ cursor[n] > 0
        BY <1>2, <2>5, <3>1, <3>3
      <4>2. d.version > cursor'[n]
        BY <2>1, <3>1, <3>3, <3>4, <3>5, <4>1
      <4> QED BY <3>4, <4>1, <4>2 DEF Doing
    <3>7. ~Handled(n, d)'
      BY <1>5, <2>2, <3>1, <3>4 DEF Handled
    <3> QED BY <3>4, <3>6, <3>7 DEF RowWay
  <2> QED BY <2>3, <2>4, <2>5
<1> QED BY <1>2, <1>7, <1>8, RowWaysLeft

\* A row that is marked failed is asked for again, in its new version.
LEMMA ReportFailedWays ==
  ASSUME TaskInv, NEW m \in Nodes, ReportFailed(m)
  PROVE  Ways'
<1>1. /\ report[m].pc = "retry" /\ report' = [report EXCEPT ![m] = [pc |-> "answer", task |-> report[m].task]]
      /\ UNCHANGED <<config, clusterTasks, applied, cursor, inbox, lastVersion, creator, extractor, fresh, dropped>>
      /\ Types /\ RowsInv /\ InboxInv /\ ReportsInv /\ VersionsInv
  BY DEF ReportFailed, history, TaskInv, BaseInv
<1>2. PICK t \in inbox[m], v \in Nat : t = report[m].task /\ v = report[m].version
  <2>1. report[m] # Idle
    BY <1>1, Shapes
  <2> QED BY <1>1, <2>1, Shapes DEF ReportsInv
<1>3. nodeTasks' = (nodeTasks \ ById(t)) \cup {Done(s, FALSE, v) : s \in ById(t)} /\ Unwritten(v) /\ cursor[m] < v
  BY <1>1, <1>2 DEF ReportFailed, RetryVersion, VersionsInv
<1>4. UNCHANGED <<inbox, lastVersion>> /\ Types /\ RowsInv /\ InboxInv
  BY <1>1
<1>5. /\ \A s \in nodeTasks' : s.version # t.version
      /\ \A s \in nodeTasks : s.id # t.id => s \in nodeTasks'
      /\ \A s \in nodeTasks : s.id = t.id =>
           \E r \in nodeTasks' : r.node = s.node /\ r.key = s.key /\ r.version = v /\ ~r.isOk
  <2>1. nodeTasks' = (nodeTasks \ ById(t)) \cup {Done(s, FALSE, v) : s \in ById(t)} /\ Unwritten(v)
    BY <1>3
  <2> HIDE DEF Types, RowsInv, InboxInv, Unwritten, ById, Done, NodeTaskRows
  <2>2. \A s \in nodeTasks' : s.version # t.version
    BY <1>4, <2>1, RowRetried
  <2>3. \A s \in nodeTasks : s.id # t.id => s \in nodeTasks'
    BY <1>4, <2>1, RowRetried
  <2>4. ASSUME NEW s \in nodeTasks, s.id = t.id
        PROVE  \E r \in nodeTasks' : r.node = s.node /\ r.key = s.key /\ r.version = v /\ ~r.isOk
    <3>1. Done(s, FALSE, v) \in nodeTasks'
      BY <2>1, <2>4 DEF ById
    <3>2. s \in NodeTaskRows
      BY <1>4 DEF Types
    <3>3. PICK r \in nodeTasks' : r = Done(s, FALSE, v)
      BY <3>1
    <3> QED BY <3>2, <3>3 DEF Done, NodeTaskRows
  <2> QED BY <2>2, <2>3, <2>4
<1>6. \A s \in nodeTasks : s.id = t.id => s.node = m
  BY <1>1 DEF InboxInv
<1>7. report'[m].task = t /\ \A n \in Nodes : n # m => report'[n] = report[n]
  BY <1>1, <1>2 DEF Types
<1>8. ASSUME NEW n \in Nodes, NEW s \in Doing(n), ~Handled(n, s)
      PROVE  RowWay(n, s.key)'
  <2>1. s \in nodeTasks /\ s.node = n
    BY DEF Doing
  <2>2. CASE s.id # t.id
    <3>1. s \in nodeTasks'
      BY <1>5, <2>1, <2>2
    <3>2. s \in Doing(n)'
      BY <1>1, <3>1, RowStays
    <3>3. ~Handled(n, s)'
      BY <1>5, <1>7, <1>8, <3>1 DEF Handled
    <3> QED BY <3>2, <3>3 DEF RowWay
  <2>3. CASE s.id = t.id
    <3>1. n = m
      BY <1>6, <2>1, <2>3
    <3>2. PICK r \in nodeTasks' : r.node = n /\ r.key = s.key /\ r.version = v /\ ~r.isOk
      BY <1>5, <2>1, <2>3
    <3>3. cursor[m] \in Nat
      BY <1>1 DEF Types
    <3>4. r.version > cursor'[n]
      BY <1>1, <1>3, <3>1, <3>2, <3>3
    <3>5. r \in Doing(n)'
      BY <3>2, <3>4 DEF Doing
    <3>6. ~Handled(n, r)'
      BY <1>5, <1>7, <3>1 DEF Handled
    <3> QED BY <3>2, <3>5, <3>6 DEF RowWay
  <2> QED BY <2>2, <2>3
<1> QED BY <1>1, <1>8, RowWaysLeft

\* The cursor passes only rows that the node has fetched, or that are dropped.
LEMMA AnsweredWays ==
  ASSUME TaskInv, NEW m \in Nodes, Answered(m)
  PROVE  Ways'
<1>1. /\ report[m].pc = "answer" /\ report' = [report EXCEPT ![m] = Idle]
      /\ UNCHANGED <<config, clusterTasks, nodeTasks, applied, creator, extractor, fresh>>
      /\ Types /\ RowsInv /\ InboxInv /\ ReportsInv
  BY DEF Answered, tables, TaskInv, BaseInv
<1>2. PICK t \in inbox[m] : t = report[m].task /\ t \in NodeTaskRows /\ \A s \in inbox[m] : t.version <= s.version
  <2>1. report[m] # Idle
    BY <1>1, Shapes
  <2> QED BY <1>1, <2>1, Shapes DEF ReportsInv
<1>3. /\ dropped' = dropped \cup {<<m, s.key>> : s \in {r \in nodeTasks \ inbox[m] :
                        r.node = m /\ r.version < t.version /\ Unseen(r)}}
      /\ cursor' = [cursor EXCEPT ![m] = IF cursor[m] < t.version THEN t.version ELSE cursor[m]]
  BY <1>1, <1>2 DEF Answered, Types
<1>4. t.version \in Nat /\ cursor[m] \in Nat /\ 0 < t.version
  BY <1>1, <1>2, RowFields DEF Types, InboxInv
<1>5. /\ cursor'[m] = IF cursor[m] < t.version THEN t.version ELSE cursor[m]
      /\ \A n \in Nodes : n # m => cursor'[n] = cursor[n] /\ report'[n] = report[n]
      /\ report'[m].pc = "idle"
  BY <1>1, <1>3 DEF Types, Idle
<1>6. dropped \subseteq dropped' /\ \A s \in nodeTasks \ inbox[m] :
        s.node = m /\ s.version < t.version /\ Unseen(s) => <<m, s.key>> \in dropped'
  BY <1>3
<1>7. ASSUME NEW n \in Nodes, NEW s \in Doing(n), ~Handled(n, s), Unseen(s)
      PROVE  RowWay(n, s.key)' \/ <<n, s.key>> \in dropped'
  <2>1. s \in nodeTasks /\ s.node = n /\ s.key \in Keys /\ cursor[n] < s.version
    BY DoingFacts DEF TaskInv
  <2>2. s.version \in Nat
    BY <1>1, <2>1, RowFields DEF Types
  <2>3. CASE n # m
    <3>1. s \in Doing(n)'
      BY <1>1, <1>5, <2>1, <2>3, RowStays
    <3>2. ~Handled(n, s)'
      BY <1>5, <1>7, <2>3 DEF Handled
    <3> QED BY <3>1, <3>2 DEF RowWay
  <2>4. CASE n = m /\ t.version < s.version
    <3>1. 0 < cursor'[m] /\ s.version > cursor'[m]
      BY <1>4, <1>5, <2>1, <2>2, <2>4
    <3>2. s \in nodeTasks'
      BY <1>1, <2>1
    <3>3. cursor'[m] > 0
      BY <1>4, <1>5, <3>1
    <3>4. s \in Doing(n)'
      BY <2>1, <2>4, <3>1, <3>2, <3>3 DEF Doing
    <3>5. ~Handled(n, s)'
      BY <1>5, <2>4 DEF Handled
    <3> QED BY <3>4, <3>5 DEF RowWay
  <2>5. CASE n = m /\ s.version < t.version
    <3>1. s \notin inbox[m]
      BY <1>2, <1>4, <2>2, <2>5
    <3> QED BY <1>6, <1>7, <2>1, <2>5, <3>1
  <2>6. n = m => s.version # t.version
    BY <1>1, <1>2, <1>7 DEF Handled
  <2> QED BY <1>4, <2>2, <2>3, <2>4, <2>5, <2>6
<1> QED BY <1>1, <1>6, <1>7, RowWaysLeft

\* A node that starts anew works with all there is; the ways of the other nodes stay.
LEMMA NodeRestartsWays ==
  ASSUME TaskInv, NEW m \in Nodes, NodeRestarts(m)
  PROVE  Ways'
<1>1. /\ UNCHANGED <<config, clusterTasks, nodeTasks, creator, extractor, fresh>>
      /\ applied' = [applied EXCEPT ![m] = config[m]] /\ dropped' = dropped \ ({m} \X Keys)
      /\ report' = [report EXCEPT ![m] = Idle] /\ cursor' = [cursor EXCEPT ![m] = 0]
  BY DEF NodeRestarts, tables
<1>2. /\ applied'[m] = config[m]
      /\ \A n \in Nodes : n # m => applied'[n] = applied[n] /\ cursor'[n] = cursor[n] /\ report'[n] = report[n]
  BY <1>1 DEF TaskInv, BaseInv, Types
<1>3. SUFFICES ASSUME NEW n \in Nodes, NEW j \in Keys, applied'[n][j] # config'[n][j]
               PROVE  Way(n, j)' \/ <<n, j>> \in dropped'
  BY DEF Ways
<1>4. n # m
  BY <1>1, <1>2, <1>3
<1>5. Way(n, j) \/ <<n, j>> \in dropped
  BY <1>1, <1>2, <1>3, <1>4 DEF TaskInv, Ways
<1>6. RowWay(n, j) => RowWay(n, j)'
  BY <1>1, <1>2, <1>4, RowWayStays
<1>7. <<n, j>> \in dropped => <<n, j>> \in dropped'
  BY <1>1, <1>4
<1> QED BY <1>1, <1>5, <1>6, <1>7 DEF Way, InExtraction, CreatorWay, ClusterWay

\* What a row said that is removed by hand is dropped.
LEMMA DeleteNodeTaskWays ==
  ASSUME TaskInv, NEW t \in nodeTasks, DeleteNodeTask(t)
  PROVE  Ways'
<1>1. /\ nodeTasks' = nodeTasks \ {t} /\ dropped' = dropped \cup {<<t.node, t.key>>}
      /\ UNCHANGED <<config, clusterTasks, applied, cursor, inbox, report, creator, extractor, fresh>>
  BY DEF DeleteNodeTask, node
<1>2. dropped \subseteq dropped' /\ <<t.node, t.key>> \in dropped'
  BY <1>1
<1>3. ASSUME NEW n \in Nodes, NEW s \in Doing(n), ~Handled(n, s)
      PROVE  RowWay(n, s.key)' \/ <<n, s.key>> \in dropped'
  <2>1. s \in nodeTasks /\ s.node = n
    BY DEF Doing
  <2>2. CASE s = t
    BY <1>2, <2>1, <2>2
  <2>3. CASE s # t
    <3>1. s \in nodeTasks'
      BY <1>1, <2>1, <2>3
    <3>2. s \in Doing(n)'
      BY <1>1, <3>1, RowStays
    <3>3. ~Handled(n, s)'
      BY <1>1, <1>3 DEF Handled
    <3> QED BY <3>2, <3>3 DEF RowWay
  <2> QED BY <2>2, <2>3
<1> QED BY <1>1, <1>2, <1>3, RowWaysLeft

-----------------------------------------------------------------------------
\* At the start there is nothing to learn.
LEMMA InitTasks == Init => TaskInv
<1> SUFFICES ASSUME Init
             PROVE  TaskInv
  OBVIOUS
<1>1. Idle \in Creations /\ Idle \in Extractions /\ Idle \in Reports /\ Idle.pc = "idle"
  BY DEF Creations, Extractions, Reports, Idle
<1>2. Types
  BY <1>1 DEF Init, Types
<1>3. RowsInv /\ InboxInv
  BY DEF Init, RowsInv, InboxInv
<1>4. ReportsInv
  BY DEF Init, ReportsInv
<1>5. VersionsInv
  BY <1>1 DEF Init, VersionsInv
<1>6. Ways
  BY DEF Init, Ways
<1> QED BY <1>2, <1>3, <1>4, <1>5, <1>6 DEF TaskInv, BaseInv

\* Every step keeps the types, the rows and the ways.
LEMMA TaskStep ==
  ASSUME TaskInv, [Next]_vars
  PROVE  TaskInv'
<1> BaseInv
  BY DEF TaskInv
<1>1. ASSUME NEW k \in Keys, ChangeCluster(k)
      PROVE  TaskInv'
  BY <1>1, ChangeClusterBase, ChangeClusterWays DEF TaskInv
<1>2. ASSUME NEW c \in Creators, NEW n \in Nodes, NEW k \in NodeLevelKeys, ChangeNode(c, n, k)
      PROVE  TaskInv'
  BY <1>2, ChangeNodeBase, ChangeNodeWays DEF TaskInv
<1>3. ASSUME NEW c \in Creators, CreatorStep(c)
      PROVE  TaskInv'
  BY <1>3, WriteNodeTaskBase, WriteNodeTaskWays DEF TaskInv, CreatorStep
<1>4. ASSUME NEW c \in Creators, CreatorFails(c)
      PROVE  TaskInv'
  BY <1>4, CreatorFailsBase, CreatorFailsWays DEF TaskInv
<1>5. CASE ExtractorStep
  <2>1. CASE ListClusterTasks
    BY <2>1, ListClusterBase, ListClusterWays DEF TaskInv
  <2>2. ASSUME NEW k \in Keys, StartKey(k)
        PROVE  TaskInv'
    BY <2>2, StartKeyBase, StartKeyWays DEF TaskInv
  <2>3. ASSUME NEW n \in Nodes, TakeVersion(n)
        PROVE  TaskInv'
    BY <2>3, TakeVersionBase, TakeVersionWays DEF TaskInv
  <2>4. CASE WriteExtracted
    BY <2>4, WriteExtractedBase, WriteExtractedWays DEF TaskInv
  <2>5. CASE DeleteClusterTasks
    BY <2>5, ExtractorEndsBase, DeleteClusterWays DEF TaskInv
  <2> QED BY <1>5, <2>1, <2>2, <2>3, <2>4, <2>5 DEF ExtractorStep
<1>6. CASE ExtractorFails
  BY <1>6, ExtractorEndsBase, ExtractorFailsWays DEF TaskInv
<1>7. ASSUME NEW n \in Nodes, NodeStep(n)
      PROVE  TaskInv'
  <2>1. CASE Fetch(n)
    BY <2>1, FetchBase, FetchWays DEF TaskInv
  <2>2. ASSUME NEW t \in inbox[n], Execute(n, t)
        PROVE  TaskInv'
    BY <2>2, ExecuteBase, ExecuteWays DEF TaskInv
  <2>3. CASE ReportOk(n)
    BY <2>3, ReportOkBase, ReportOkWays DEF TaskInv
  <2>4. CASE TakeRetryVersion(n)
    BY <2>4, TakeRetryVersionBase, ReportEndsWays DEF TaskInv
  <2>5. CASE ReportFailed(n)
    BY <2>5, ReportFailedBase, ReportFailedWays DEF TaskInv
  <2>6. CASE Answered(n)
    BY <2>6, AnsweredBase, AnsweredWays DEF TaskInv
  <2> QED BY <1>7, <2>1, <2>2, <2>3, <2>4, <2>5, <2>6 DEF NodeStep
<1>8. ASSUME NEW n \in Nodes, NEW t \in inbox[n], ExecuteFails(n, t)
      PROVE  TaskInv'
  BY <1>8, ExecuteBase, ReportEndsWays DEF TaskInv
<1>9. ASSUME NEW n \in Nodes, AnswerLost(n)
      PROVE  TaskInv'
  BY <1>9, AnsweredBase, ReportEndsWays DEF TaskInv
<1>10. ASSUME NEW n \in Nodes, NodeRestarts(n)
       PROVE  TaskInv'
  BY <1>10, AnsweredBase, NodeRestartsWays DEF TaskInv
<1>11. ASSUME NEW t \in nodeTasks, DeleteNodeTask(t)
       PROVE  TaskInv'
  BY <1>11, DeleteNodeTaskBase, DeleteNodeTaskWays DEF TaskInv
<1>12. CASE UNCHANGED vars
  <2>1. UNCHANGED <<config, applied, clusterTasks, nodeTasks, lastVersion, creator, extractor, cursor, inbox, report, fresh, dropped>>
    BY <1>12 DEF vars, tables, node, history
  <2>2. BaseInv'
    BY <2>1 DEF BaseInv, Types, RowsInv, InboxInv, ReportsInv, VersionsInv, Unwritten
  <2>3. Ways'
    BY <2>1 DEF TaskInv, Ways, Way, RowWay, Doing, Handled, InExtraction, CreatorWay, ClusterWay
  <2> QED BY <2>2, <2>3 DEF TaskInv
<1> QED BY <1>1, <1>2, <1>3, <1>4, <1>5, <1>6, <1>7, <1>8, <1>9, <1>10, <1>11, <1>12 DEF Next

\* Whatever the creators, the extractor and the nodes do, and however they fail, a change is
\* in the tables or with the extractor or a creator until its node has it.
THEOREM TaskInvariant == Spec => []TaskInv
<1>1. Init => TaskInv
  BY InitTasks
<1>2. TaskInv /\ [Next]_vars => TaskInv'
  BY TaskStep
<1> QED BY <1>1, <1>2, PTL DEF Spec

\* Every variable has its type, and the table edgeNodeTasks keeps one row per node and key
\* with a version the counter has handed out, whoever writes it at the same time.
THEOREM TypeCorrect == Spec => []TypeOK
<1>1. TaskInv => TypeOK
  <2> SUFFICES ASSUME TaskInv
               PROVE  TypeOK
    OBVIOUS
  <2>1. \A n \in Nodes : inbox[n] \subseteq NodeTaskRows
    BY DEF TaskInv, BaseInv, Types
  <2>2. \A t \in nodeTasks : t.version <= lastVersion
    BY DEF TaskInv, BaseInv, RowsInv
  <2>3. \A s, t \in nodeTasks : (s.node = t.node /\ s.key = t.key) \/ s.id = t.id => s = t
    BY DEF TaskInv, BaseInv, RowsInv
  <2> QED BY <2>1, <2>2, <2>3 DEF TaskInv, BaseInv, Types, TypeOK
<1> QED BY <1>1, TaskInvariant, PTL

\* A node that does not work with the latest change will get it, unless one of the steps
\* that are known to lose a change has lost it: for every number of nodes, keys, creators,
\* changes and failures.
THEOREM NothingElseLost == Spec => []NoOtherLoss
<1>1. TaskInv => NoOtherLoss
  <2> SUFFICES ASSUME TaskInv, NEW n \in Nodes, NEW k \in Keys, applied[n][k] # config[n][k]
               PROVE  OnItsWay(n, k) \/ <<n, k>> \in dropped
    BY DEF NoOtherLoss
  <2>1. Way(n, k) \/ <<n, k>> \in dropped
    BY DEF TaskInv, Ways
  <2>2. Way(n, k) => OnItsWay(n, k)
    BY DEF Way, RowWay, CreatorWay, ClusterWay, OnItsWay
  <2> QED BY <2>1, <2>2
<1> QED BY <1>1, TaskInvariant, PTL

=============================================================================
