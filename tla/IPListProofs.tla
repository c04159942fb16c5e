----------------------------- MODULE IPListProofs -----------------------------
(***************************************************************************)
(* A node that has passed the version of an item has it as its row says,   *)
(* and items of a deleted list come from where the list was known before:  *)
(* but in the known cases, for every number of API nodes, goroutines,      *)
(* nodes and items, and every size of a page.                              *)
(***************************************************************************)
EXTENDS IPList, FiniteSetTheorems, WellFoundedInduction, TLAPS

Rows == [ip : IPs, says : Versions, on : BOOLEAN, version : Versions, expired : BOOLEAN, old : BOOLEAN]

Calls == [pc : {"next", "version", "write"}, todo : SUBSET Ids, ip : IPs \cup {{}}, version : Versions \cup {0},
          kind : {"disable", "create", "update", "again", "clean"}]

SentItems == [says : Versions, on : BOOLEAN]

Pages == [pc : {"cache", "table", "store", "answer"}, api : APINodes,
          items : UNION {[I -> SentItems] : I \in SUBSET Ids}, list : {"none", "on", "off"}, version : Versions]

Types ==
  /\ rows \in [Ids -> Rows \cup {NoRow}] /\ created \in 0..MaxItems
  /\ listOn \in BOOLEAN /\ listCache \in [APINodes -> {"none", "on", "off"}]
  /\ issued \in [APINodes -> SUBSET Versions] /\ floor \in [Procs -> Versions \cup {V!NoFloor}]
  /\ call \in [Procs -> Calls \cup {Idle}]
  /\ cursor \in [Nodes -> Versions \cup {0}]
  /\ copies \in [Nodes -> [Ids -> [on : {TRUE}, says : Versions, from : APINodes] \cup {Off}]]
  /\ page \in [Nodes -> Pages \cup {Idle}]
  /\ \A n \in Nodes : page[n].pc \in {"store", "answer"} => page[n].list # "none"
  /\ gone \subseteq Nodes /\ knewOn \subseteq APINodes
  /\ late \subseteq Nodes \X Ids /\ purged \subseteq Nodes \X Ids

\* A call works on items that have been inserted, and has what it writes; there is room
\* for the items that are being created.
CallsInv ==
  /\ \A i \in Ids : rows[i] # NoRow => i <= created
  /\ \A p \in Procs : call[p] # Idle =>
       /\ call[p].todo \subseteq 1..created
       /\ call[p].pc = "write" => call[p].version \in Versions
       /\ call[p].kind = "create" => call[p].ip \in IPs
  /\ IsFiniteSet(Creating) /\ created + Cardinality(Creating) <= MaxItems

\* Where the list is known as deleted it is; where it is known as on, it is or was when
\* it was deleted.
DeletedInv ==
  /\ gone # {} => ~listOn
  /\ \A a \in APINodes : listCache[a] = "off" => ~listOn
  /\ \A n \in Nodes : page[n] # Idle /\ page[n].list = "off" => ~listOn
  /\ ~listOn => \A a \in APINodes : listCache[a] = "on" => a \in knewOn
  /\ ~listOn => \A n \in Nodes : page[n] # Idle /\ page[n].list = "on" => page[n].api \in knewOn
  /\ NoOtherLive

\* What is said of item i on the way to node n is what its row says.
PageAgrees(n, i) ==
  LET s == page[n].items[i]
  IN  /\ s.on => rows[i].on /\ s.says = rows[i].says
      /\ rows[i].on /\ ~rows[i].expired => s.on

\* An answer under way moves its node on ...
Ahead == \A n \in Nodes : page[n] # Idle => cursor[n] < page[n].version

\* ... and has all that the node misses up to the version it will reach.
Coming(n, i) ==
  page[n] # Idle /\ <<n, i>> \notin late \cup purged =>
    /\ i \in DOMAIN page[n].items => rows[i] # NoRow /\ cursor[n] < rows[i].version
    /\ rows[i] = NoRow \/ rows[i].version <= page[n].version =>
         IF i \in DOMAIN page[n].items THEN PageAgrees(n, i) ELSE Agrees(n, i)

\* What NoOtherMiss says of one node and one item.
Seen(n, i) ==
  /\ <<n, i>> \notin late \cup purged
  /\ rows[i] = NoRow \/ rows[i].version <= cursor[n]
  => Agrees(n, i)

SeenInv == Ahead /\ \A n \in Nodes, i \in 1..created : Coming(n, i) /\ Seen(n, i)

ListInv == Types /\ CallsInv /\ DeletedInv /\ SeenInv

-----------------------------------------------------------------------------
\* A set of natural numbers that is not empty has a least one.
LEMMA LeastNatural ==
  ASSUME NEW S, S \subseteq Nat, S # {}
  PROVE  /\ \E x \in S : \A y \in S : x <= y
         /\ Min(S) \in S /\ \A y \in S : Min(S) <= y
<1>1. IsWellFoundedOn(OpToRel(<, Nat), Nat)
  BY NatLessThanWellFounded
<1>2. PICK x \in S : \A y \in S : <<y, x>> \notin OpToRel(<, Nat)
  BY <1>1, WFMin
<1>3. \A y \in S : ~(y < x)
  BY <1>2 DEF OpToRel
<1>4. \A y \in S : x <= y
  BY <1>3
<1> QED BY <1>4 DEF Min

\* A finite set of natural numbers that is not empty has a greatest one.
LEMMA GreatestNatural ==
  ASSUME NEW S, S \subseteq Nat, S # {}, IsFiniteSet(S)
  PROVE  Max(S) \in S /\ \A y \in S : y <= Max(S)
<1> DEFINE Above(x) == {y \in S : y > x}
           T == {Cardinality(Above(x)) : x \in S}
<1>1. \A x \in S : IsFiniteSet(Above(x)) /\ Cardinality(Above(x)) \in Nat
  BY FS_Subset, FS_CardinalityType
<1>2. T \subseteq Nat /\ T # {}
  BY <1>1
<1>3. PICK x \in S : \A y \in S : Cardinality(Above(x)) <= Cardinality(Above(y))
  <2>1. PICK n \in T : \A m \in T : n <= m
    BY <1>2, LeastNatural
  <2> QED BY <2>1
<1>4. ASSUME NEW y \in S, y > x
      PROVE  FALSE
  <2>1. y \in Above(x) /\ y \notin Above(y)
    BY <1>4
  <2>a. ASSUME NEW z \in Above(y)
        PROVE  z \in Above(x)
    <3>1. z \in S /\ z > y /\ x \in Nat /\ y \in Nat /\ z \in Nat
      OBVIOUS
    <3> QED BY <1>4, <3>1
  <2>2. Cardinality(Above(y)) <= Cardinality(Above(x)) /\ Cardinality(Above(y)) # Cardinality(Above(x))
    BY <1>1, <2>1, <2>a, FS_Subset
  <2> HIDE DEF Above
  <2> QED BY <1>1, <1>3, <2>2
<1>5. \A y \in S : y <= x /\ x >= y
  BY <1>4
<1> QED BY <1>5 DEF Max

\* Rows, calls and pages are none of the values that stand for none.
LEMMA Somethings ==
  /\ \A r \in Rows : r # NoRow
  /\ \A c \in Calls : c # Idle
  /\ \A g \in Pages : g # Idle
<1>1. ASSUME NEW r \in Rows
      PROVE  r # NoRow
  <2>1. DOMAIN r = {"ip", "says", "on", "version", "expired", "old"}
    BY DEF Rows
  <2>2. DOMAIN NoRow = {"ip"}
    BY DEF NoRow
  <2> QED BY <2>1, <2>2
<1>2. ASSUME NEW c \in Calls
      PROVE  c # Idle
  BY DEF Calls, Idle
<1>3. ASSUME NEW g \in Pages
      PROVE  g # Idle
  <2>1. DOMAIN g = {"pc", "api", "items", "list", "version"}
    BY DEF Pages
  <2>2. DOMAIN Idle = {"pc"}
    BY DEF Idle
  <2> QED BY <2>1, <2>2
<1> QED BY <1>1, <1>2, <1>3

\* The fields of a row, of a call and of a page.
LEMMA Fields ==
  /\ \A r \in Rows : /\ r.ip \in IPs /\ r.says \in Versions /\ r.version \in Versions
                     /\ r.on \in BOOLEAN /\ r.expired \in BOOLEAN /\ r.old \in BOOLEAN
  /\ \A c \in Calls : /\ c.todo \subseteq Ids /\ c.ip \in IPs \cup {{}} /\ c.version \in Versions \cup {0}
                      /\ c.pc \in {"next", "version", "write"}
                      /\ c.kind \in {"disable", "create", "update", "again", "clean"}
  /\ \A g \in Pages : /\ g.pc \in {"cache", "table", "store", "answer"} /\ g.api \in APINodes /\ g.list \in {"none", "on", "off"} /\ g.version \in Versions
                      /\ DOMAIN g.items \subseteq Ids /\ \A i \in DOMAIN g.items : g.items[i] \in SentItems
<1>1. ASSUME NEW g \in Pages
      PROVE  /\ g.pc \in {"cache", "table", "store", "answer"} /\ g.api \in APINodes /\ g.list \in {"none", "on", "off"} /\ g.version \in Versions
             /\ DOMAIN g.items \subseteq Ids /\ \A i \in DOMAIN g.items : g.items[i] \in SentItems
  <2>1. /\ g.pc \in {"cache", "table", "store", "answer"} /\ g.api \in APINodes /\ g.list \in {"none", "on", "off"}
        /\ g.version \in Versions /\ g.items \in UNION {[I -> SentItems] : I \in SUBSET Ids}
    BY DEF Pages
  <2>2. PICK I \in SUBSET Ids : g.items \in [I -> SentItems]
    BY <2>1
  <2> QED BY <2>1, <2>2
<1>2. \A r \in Rows : /\ r.ip \in IPs /\ r.says \in Versions /\ r.version \in Versions
                     /\ r.on \in BOOLEAN /\ r.expired \in BOOLEAN /\ r.old \in BOOLEAN
  BY DEF Rows
<1>3. \A c \in Calls : /\ c.todo \subseteq Ids /\ c.ip \in IPs \cup {{}} /\ c.version \in Versions \cup {0}
                      /\ c.pc \in {"next", "version", "write"}
                      /\ c.kind \in {"disable", "create", "update", "again", "clean"}
  BY DEF Calls
<1> QED BY <1>1, <1>2, <1>3

\* Versions are natural numbers.
LEMMA VersionsAreNatural == \A v \in Versions \cup {0} : v \in Nat
<1>1. Versions \subseteq Nat
  BY SourceAssumption
<1>2. ASSUME NEW v \in Versions \cup {0}
      PROVE  v \in Nat
  <2>1. CASE v \in Versions
    BY <1>1, <2>1
  <2>2. CASE v = 0
    BY <2>2
  <2> QED BY <2>1, <2>2
<1> QED BY <1>2

\* What is stored, and what is enabled of it.
LEMMA StoredIs ==
  ASSUME Types, NEW i \in Ids
  PROVE  /\ i \in Stored <=> rows[i] \in Rows
         /\ i \in Stored <=> rows[i] # NoRow
         /\ i \in Enabled <=> rows[i] \in Rows /\ rows[i].on
BY Somethings DEF Types, Stored, Enabled

-----------------------------------------------------------------------------
(***************************************************************************)
(* The calls.                                                              *)
(***************************************************************************)

\* A call changes, and the others do not.
LEMMA OneCall ==
  ASSUME Types, CallsInv, NEW p \in Procs, NEW c \in Calls \cup {Idle}, call' = [call EXCEPT ![p] = c],
         created' \in Nat, created <= created',
         c # Idle => /\ c.todo \subseteq 1..created'
                     /\ c.pc = "write" => c.version \in Versions
                     /\ c.kind = "create" => c.ip \in IPs,
         \A i \in Ids : rows'[i] # NoRow => i <= created',
         IsFiniteSet(Creating)' /\ created' + Cardinality(Creating)' <= MaxItems
  PROVE  call' \in [Procs -> Calls \cup {Idle}] /\ CallsInv'
<1>1. call' \in [Procs -> Calls \cup {Idle}] /\ call'[p] = c /\ \A q \in Procs : q # p => call'[q] = call[q]
  BY DEF Types
<1>2. 1..created \subseteq 1..created'
  BY DEF Types
<1>3. ASSUME NEW q \in Procs, call'[q] # Idle
      PROVE  /\ call'[q].todo \subseteq 1..created'
             /\ call'[q].pc = "write" => call'[q].version \in Versions
             /\ call'[q].kind = "create" => call'[q].ip \in IPs
  <2>1. CASE q = p
    BY <1>1, <1>3, <2>1
  <2>2. CASE q # p
    <3>1. call'[q] = call[q] /\ call[q] # Idle
      BY <1>1, <1>3, <2>2
    <3> QED BY <1>2, <3>1 DEF CallsInv
  <2> QED BY <2>1, <2>2
<1> QED BY <1>1, <1>3 DEF CallsInv

\* Whether a call creates an item tells what becomes of those that do.
LEMMA CreatingIs ==
  ASSUME Types, CallsInv, NEW p \in Procs, NEW c \in Calls \cup {Idle}, call' = [call EXCEPT ![p] = c]
  PROVE  /\ (c # Idle /\ c.kind = "create" <=> p \in Creating) => Creating' = Creating
         /\ p \notin Creating /\ c # Idle /\ c.kind = "create" =>
              IsFiniteSet(Creating)' /\ Cardinality(Creating)' = Cardinality(Creating) + 1
         /\ p \in Creating /\ ~(c # Idle /\ c.kind = "create") =>
              IsFiniteSet(Creating)' /\ Cardinality(Creating)' = Cardinality(Creating) - 1
<1>1. call'[p] = c /\ \A q \in Procs : q # p => call'[q] = call[q]
  BY DEF Types
<1>2. \A q \in Procs : q # p => (q \in Creating' <=> q \in Creating)
  BY <1>1 DEF Creating
<1>3. p \in Creating' <=> c # Idle /\ c.kind = "create"
  BY <1>1 DEF Creating
<1>4. Creating \subseteq Procs /\ Creating' \subseteq Procs /\ IsFiniteSet(Creating)
  BY DEF Creating, CallsInv
<1>5. (c # Idle /\ c.kind = "create" <=> p \in Creating) => Creating' = Creating
  BY <1>2, <1>3, <1>4
<1>6. ASSUME p \notin Creating, c # Idle, c.kind = "create"
      PROVE  IsFiniteSet(Creating)' /\ Cardinality(Creating)' = Cardinality(Creating) + 1
  <2>1. Creating' = Creating \cup {p}
    BY <1>2, <1>3, <1>4, <1>6
  <2> QED BY <1>4, <1>6, <2>1, FS_AddElement
<1>7. ASSUME p \in Creating, ~(c # Idle /\ c.kind = "create")
      PROVE  IsFiniteSet(Creating)' /\ Cardinality(Creating)' = Cardinality(Creating) - 1
  <2>1. Creating' = Creating \ {p}
    BY <1>2, <1>3, <1>4, <1>7
  <2> QED BY <1>4, <1>7, <2>1, FS_RemoveElement
<1> QED BY <1>5, <1>6, <1>7

\* A call starts: it works on items that are there, and the one it creates has room.
LEMMA StartCall ==
  ASSUME Types, CallsInv, NEW p \in Procs, NEW items \in SUBSET (1..created), NEW ip \in IPs \cup {{}},
         NEW kind \in {"disable", "create", "update", "again", "clean"}, Start(p, items, kind, ip),
         kind = "create" => ip \in IPs /\ created + Cardinality(Creating) < MaxItems,
         \A i \in Ids : rows'[i] # NoRow => rows[i] # NoRow
  PROVE  call' \in [Procs -> Calls \cup {Idle}] /\ CallsInv'
<1> DEFINE c == [pc |-> "next", todo |-> items, kind |-> kind, ip |-> ip, version |-> 0]
<1>1. call[p] = Idle /\ call' = [call EXCEPT ![p] = c] /\ created' = created
  BY DEF Start
<1>2. created \in Nat /\ MaxItems \in Nat /\ created <= MaxItems
  BY SizeAssumption DEF Types
<1>3. 1..created \subseteq Ids
  BY <1>2 DEF Ids
<1>4. c \in Calls /\ c # Idle
  <2>1. c \in Calls
    BY <1>3 DEF Calls
  <2> QED BY <2>1, Somethings
<1>5. c.todo = items /\ c.pc = "next" /\ c.kind = kind /\ c.ip = ip
  OBVIOUS
<1> HIDE DEF c
<1>6. p \notin Creating
  BY <1>1 DEF Creating
<1>7. \A i \in Ids : rows'[i] # NoRow => i <= created'
  BY <1>1 DEF CallsInv
<1>8. IsFiniteSet(Creating)' /\ created' + Cardinality(Creating)' <= MaxItems
  <2>1. IsFiniteSet(Creating) /\ Cardinality(Creating) \in Nat /\ created + Cardinality(Creating) <= MaxItems
    BY FS_CardinalityType DEF CallsInv
  <2>2. CASE kind = "create"
    <3>1. IsFiniteSet(Creating)' /\ Cardinality(Creating)' = Cardinality(Creating) + 1
      BY <1>1, <1>4, <1>5, <1>6, <2>2, CreatingIs
    <3>2. created + Cardinality(Creating) < MaxItems
      BY <2>2
    <3> QED BY <1>1, <1>2, <2>1, <3>1, <3>2
  <2>3. CASE kind # "create"
    <3>1. Creating' = Creating
      BY <1>1, <1>4, <1>5, <1>6, <2>3, CreatingIs
    <3> QED BY <1>1, <2>1, <3>1
  <2> QED BY <2>2, <2>3
<1>9. /\ c.todo \subseteq 1..created'
      /\ c.pc = "write" => c.version \in Versions
      /\ c.kind = "create" => c.ip \in IPs
  BY <1>1, <1>5
<1>10. c \in Calls \cup {Idle} /\ created' \in Nat /\ created <= created'
  BY <1>1, <1>2, <1>4
<1>11. call' = [call EXCEPT ![p] = c]
  BY <1>1
<1> QED BY <1>7, <1>8, <1>9, <1>10, <1>11, OneCall

\* What is stored has been inserted, and so has what is enabled of it.
LEMMA StoredInserted ==
  ASSUME Types, CallsInv
  PROVE  Stored \subseteq 1..created /\ Enabled \subseteq Stored /\ \A ip : EnabledOf(ip) \subseteq Enabled
<1>1. ASSUME NEW i \in Stored
      PROVE  i \in 1..created
  <2>1. i \in Ids /\ rows[i] # NoRow
    BY DEF Stored
  <2>2. i <= created
    BY <2>1 DEF CallsInv
  <2> QED BY <2>1, <2>2, SizeAssumption DEF Ids, Types
<1> QED BY <1>1 DEF Enabled, EnabledOf

\* Only calls change: types and the calls' invariant.
LEMMA StartsTyped ==
  ASSUME Types, CallsInv, NEW p \in Procs,
         \/ StartDisableIPItem(p) \/ StartDisableIPItemsWithIP(p) \/ StartCreateIPItem(p) \/ StartUpdateIPItem(p)
  PROVE  /\ Types' /\ CallsInv'
         /\ UNCHANGED <<rows, created, lists, source, node, history>>
<1>1. \E items \in SUBSET (1..created), ip \in IPs \cup {{}}, kind \in {"disable", "create", "update", "again", "clean"} :
        /\ Start(p, items, kind, ip)
        /\ kind = "create" => ip \in IPs /\ created + Cardinality(Creating) < MaxItems
  <2>1. CASE StartDisableIPItem(p) \/ StartUpdateIPItem(p)
    <3>1. PICK i \in Stored : Start(p, {i}, "disable", {}) \/ Start(p, {i}, "update", {})
      BY <2>1 DEF StartDisableIPItem, StartUpdateIPItem
    <3>2. {i} \in SUBSET (1..created)
      BY StoredInserted
    <3>3. {} \in IPs \cup {{}}
      OBVIOUS
    <3>4. CASE Start(p, {i}, "disable", {})
      BY <3>2, <3>3, <3>4
    <3>5. CASE Start(p, {i}, "update", {})
      BY <3>2, <3>3, <3>5
    <3> QED BY <3>1, <3>4, <3>5
  <2>2. CASE StartDisableIPItemsWithIP(p)
    <3>1. PICK ip \in IPs : Start(p, EnabledOf(ip), "disable", {})
      BY <2>2 DEF StartDisableIPItemsWithIP
    <3>2. EnabledOf(ip) \in SUBSET (1..created)
      BY StoredInserted
    <3> QED BY <3>1, <3>2
  <2>3. CASE StartCreateIPItem(p)
    <3>1. PICK ip \in IPs : Start(p, EnabledOf(ip), "create", ip)
      BY <2>3 DEF StartCreateIPItem
    <3>2. EnabledOf(ip) \in SUBSET (1..created)
      BY StoredInserted
    <3>3. created + Cardinality(Creating) < MaxItems
      BY <2>3 DEF StartCreateIPItem
    <3> QED BY <3>1, <3>2, <3>3
  <2> QED BY <2>1, <2>2, <2>3
<1>2. UNCHANGED <<rows, listOn, knewOn, purged>>
  BY DEF StartDisableIPItem, StartDisableIPItemsWithIP, StartCreateIPItem, StartUpdateIPItem
<1>3. PICK items \in SUBSET (1..created), ip \in IPs \cup {{}}, kind \in {"disable", "create", "update", "again", "clean"} :
        /\ Start(p, items, kind, ip)
        /\ kind = "create" => ip \in IPs /\ created + Cardinality(Creating) < MaxItems
  BY <1>1
<1>4. call' \in [Procs -> Calls \cup {Idle}] /\ CallsInv'
  BY <1>2, <1>3, StartCall
<1>5. UNCHANGED <<rows, created, lists, source, node, history>>
  BY <1>2, <1>3 DEF Start, source, node, lists, history
<1>6. Types'
  BY <1>4, <1>5 DEF Types, lists, source, node, history
<1> QED BY <1>4, <1>5, <1>6

\* A list is deleted: those that know it as on are noted.
LEMMA StartDeleteTyped ==
  ASSUME Types, CallsInv, NEW p \in Procs, StartDeleteIPList(p)
  PROVE  Types' /\ CallsInv'
<1>1. Start(p, {}, "again", {}) /\ listOn' = FALSE /\ UNCHANGED <<rows, purged>>
  BY DEF StartDeleteIPList
<1>2. call' \in [Procs -> Calls \cup {Idle}] /\ CallsInv'
  BY <1>1, StartCall
<1>3. UNCHANGED <<issued, floor, created, listCache, cursor, copies, page, gone, late>>
  BY <1>1 DEF Start, source, node
<1>4. knewOn' \subseteq APINodes
  <2>1. ASSUME NEW n \in Nodes, page[n] # Idle
        PROVE  page[n].api \in APINodes
    BY <2>1, Fields DEF Types
  <2>2. knewOn' = {a \in APINodes : listCache[a] = "on"}
                 \cup {page[n].api : n \in {m \in Nodes : page[m] # Idle /\ page[m].list = "on"}}
    BY DEF StartDeleteIPList
  <2> QED BY <2>1, <2>2
<1>5. Types'
  BY <1>1, <1>2, <1>3, <1>4 DEF Types
<1> QED BY <1>2, <1>5

\* The clean-up deletes old rows.
LEMMA StartCleanTyped ==
  ASSUME Types, CallsInv, NEW p \in Procs, StartClean(p)
  PROVE  Types' /\ CallsInv'
<1>1. Start(p, {}, "clean", {}) /\ UNCHANGED <<listOn, knewOn>>
  BY DEF StartClean
<1>2. rows' = [i \in Ids |-> IF i \in {j \in Stored : ~rows[j].on /\ rows[j].old} THEN NoRow ELSE rows[i]]
  BY DEF StartClean
<1>3. \A i \in Ids : rows'[i] # NoRow => rows'[i] = rows[i] /\ rows[i] # NoRow
  BY <1>2
<1>4. call' \in [Procs -> Calls \cup {Idle}] /\ CallsInv'
  BY <1>1, <1>3, StartCall
<1>5. UNCHANGED <<issued, floor, created, listCache, cursor, copies, page, gone, late>>
  BY <1>1 DEF Start, source, node
<1>6. rows' \in [Ids -> Rows \cup {NoRow}]
  BY <1>2 DEF Types
<1>7. purged' \subseteq Nodes \X Ids
  <2>1. purged' = purged \cup UNION {{n} \X {i \in {j \in Stored : ~rows[j].on /\ rows[j].old} :
                                             rows[i].version > cursor[n] \/ <<n, i>> \in late} : n \in Nodes}
    BY DEF StartClean
  <2>2. Stored \subseteq Ids /\ purged \subseteq Nodes \X Ids
    BY DEF Stored, Types
  <2>3. ASSUME NEW n \in Nodes
        PROVE  {n} \X {i \in {j \in Stored : ~rows[j].on /\ rows[j].old} :
                        rows[i].version > cursor[n] \/ <<n, i>> \in late} \subseteq Nodes \X Ids
    BY <2>2
  <2> QED BY <2>1, <2>2, <2>3
<1>8. Types'
  BY <1>1, <1>4, <1>5, <1>6, <1>7 DEF Types
<1> QED BY <1>4, <1>8

\* A call goes on or ends, and whether it creates an item does not change.
LEMMA CallGoesOn ==
  ASSUME Types, CallsInv, NEW p \in Procs, NEW c \in Calls \cup {Idle}, call' = [call EXCEPT ![p] = c],
         created' = created, c # Idle => /\ c.todo \subseteq 1..created
                                         /\ c.pc = "write" => c.version \in Versions
                                         /\ c.kind = "create" => c.ip \in IPs,
         c # Idle /\ c.kind = "create" <=> p \in Creating,
         \A i \in Ids : rows'[i] # NoRow => rows[i] # NoRow
  PROVE  call' \in [Procs -> Calls \cup {Idle}] /\ CallsInv'
<1>1. Creating' = Creating
  BY CreatingIs
<1>2. IsFiniteSet(Creating)' /\ created' + Cardinality(Creating)' <= MaxItems
  BY <1>1 DEF CallsInv
<1>3. created' \in Nat /\ created <= created'
  BY DEF Types
<1>4. \A i \in Ids : rows'[i] # NoRow => i <= created'
  BY DEF CallsInv
<1>5. c # Idle => /\ c.todo \subseteq 1..created'
                  /\ c.pc = "write" => c.version \in Versions
                  /\ c.kind = "create" => c.ip \in IPs
  OBVIOUS
<1> QED BY <1>2, <1>3, <1>4, <1>5, OneCall

\* A call that is at a step is one.
LEMMA CallAt ==
  ASSUME Types, CallsInv, NEW p \in Procs, call[p].pc \in {"next", "version", "write"}
  PROVE  /\ call[p] \in Calls /\ call[p] # Idle /\ call[p].todo \subseteq 1..created
         /\ call[p].pc = "write" => call[p].version \in Versions
         /\ call[p].kind = "create" => call[p].ip \in IPs
         /\ p \in Creating <=> call[p].kind = "create"
<1>1. call[p] # Idle
  BY DEF Idle
<1> QED BY <1>1 DEF Types, CallsInv, Creating

\* The items are listed.
LEMMA ListTyped ==
  ASSUME Types, CallsInv, NEW p \in Procs, List(p)
  PROVE  Types' /\ CallsInv' /\ UNCHANGED <<rows, created, lists, source, node, history>>
<1> DEFINE items == IF call[p].kind = "clean" THEN {i \in Enabled : rows[i].expired} ELSE Enabled
           k == IF call[p].kind = "clean" THEN "disable" ELSE "again"
           c == IF items = {} THEN Idle ELSE [call[p] EXCEPT !.todo = items, !.kind = k]
<1>1. /\ call[p].pc = "next" /\ call[p].kind \in {"again", "clean"}
      /\ UNCHANGED <<rows, created, lists, source, node, history>>
  BY DEF List, callOnly, table
<1>2. call' = [call EXCEPT ![p] = c]
  BY DEF List
<1>3. call[p] \in Calls /\ call[p] # Idle /\ p \notin Creating
  BY <1>1, CallAt
<1>4. items \subseteq 1..created /\ items \subseteq Ids
  BY StoredInserted DEF Stored
<1>5. k \in {"disable", "again"}
  OBVIOUS
<1>6. c \in Calls \cup {Idle} /\ (c # Idle => c.todo = items /\ c.pc = "next" /\ c.kind = k)
  <2> HIDE DEF items, k
  <2>1. CASE items = {}
    BY <2>1
  <2>2. CASE items # {}
    <3>1. c = [call[p] EXCEPT !.todo = items, !.kind = k]
      BY <2>2
    <3>2. c \in Calls /\ c.todo = items /\ c.pc = call[p].pc /\ c.kind = k
      BY <1>3, <1>4, <1>5, <3>1 DEF Calls
    <3> QED BY <1>1, <3>2
  <2> QED BY <2>1, <2>2
<1>7. call' \in [Procs -> Calls \cup {Idle}] /\ CallsInv'
  <2> HIDE DEF c, items, k
  <2>1. c # Idle => /\ c.todo \subseteq 1..created
                    /\ c.pc = "write" => c.version \in Versions
                    /\ c.kind = "create" => c.ip \in IPs
    BY <1>4, <1>5, <1>6
  <2>2. c # Idle /\ c.kind = "create" <=> p \in Creating
    BY <1>3, <1>5, <1>6
  <2> QED BY <1>1, <1>2, <1>6, <2>1, <2>2, CallGoesOn
<1>8. Types'
  BY <1>1, <1>7 DEF Types, lists, source, node, history
<1> QED BY <1>1, <1>7, <1>8

\* A call asks for a version: what it has to come after is a version, or nothing.
LEMMA IncreaseVersionTyped ==
  ASSUME Types, CallsInv, NEW p \in Procs, IncreaseVersion(p)
  PROVE  Types' /\ CallsInv' /\ UNCHANGED <<rows, created, lists, node, history>>
<1> DEFINE c == [call[p] EXCEPT !.pc = "version"]
<1>1. call[p].pc = "next" /\ V!Begin(p, LeastFloor(p)) /\ UNCHANGED <<rows, created, lists, node, history>>
  BY DEF IncreaseVersion, callOnly, table
<1>2. call' = [call EXCEPT ![p] = c]
  BY DEF IncreaseVersion
<1>3. /\ call[p] \in Calls /\ call[p].todo \subseteq 1..created /\ (call[p].kind = "create" => call[p].ip \in IPs)
      /\ p \in Creating <=> call[p].kind = "create"
  BY <1>1, CallAt
<1>4. c \in Calls /\ c.todo = call[p].todo /\ c.pc = "version" /\ c.kind = call[p].kind /\ c.ip = call[p].ip
  BY <1>3 DEF Calls
<1>5. c # Idle
  BY <1>4, Somethings
<1>6. call' \in [Procs -> Calls \cup {Idle}] /\ CallsInv'
  <2> HIDE DEF c
  <2> QED BY <1>1, <1>2, <1>3, <1>4, <1>5, CallGoesOn
<1>7. issued' = issued /\ floor' \in [Procs -> Versions \cup {V!NoFloor}]
  <2>1. V!Out \subseteq Versions
    BY DEF Types, V!Out
  <2> QED BY <1>1, <2>1 DEF V!Begin, Types
<1>8. Types'
  BY <1>1, <1>6, <1>7 DEF Types, lists, node, history
<1> QED BY <1>1, <1>6, <1>8

\* A version comes.
LEMMA GetVersionTyped ==
  ASSUME Types, CallsInv, NEW p \in Procs, GetVersion(p)
  PROVE  Types' /\ CallsInv' /\ UNCHANGED <<rows, created, lists, node, history>>
<1>1. call[p].pc = "version" /\ UNCHANGED <<rows, created, lists, node, history>>
  BY DEF GetVersion, callOnly, table
<1>2. PICK v \in Versions : V!HandOut(p, {v}) /\ call' = [call EXCEPT ![p].pc = "write", ![p].version = v]
  BY DEF GetVersion
<1> DEFINE c == [call[p] EXCEPT !.pc = "write", !.version = v]
<1>3. /\ call[p] \in Calls /\ call[p].todo \subseteq 1..created /\ (call[p].kind = "create" => call[p].ip \in IPs)
      /\ p \in Creating <=> call[p].kind = "create"
  BY <1>1, CallAt
<1>4. /\ c \in Calls /\ c.todo = call[p].todo /\ c.pc = "write" /\ c.kind = call[p].kind /\ c.ip = call[p].ip
      /\ c.version = v
  BY <1>3 DEF Calls
<1>5. c # Idle
  BY <1>4, Somethings
<1>6. call' = [call EXCEPT ![p] = c]
  BY <1>2 DEF Types
<1>7. call' \in [Procs -> Calls \cup {Idle}] /\ CallsInv'
  <2> HIDE DEF c
  <2> QED BY <1>1, <1>3, <1>4, <1>5, <1>6, CallGoesOn
<1>8. issued' \in [APINodes -> SUBSET Versions] /\ floor' \in [Procs -> Versions \cup {V!NoFloor}]
  BY <1>2, SourceAssumption DEF V!HandOut, Types
<1>9. Types'
  BY <1>1, <1>7, <1>8 DEF Types, lists, node, history
<1> QED BY <1>1, <1>7, <1>9

\* A version written for an item of the table: the pairs noted are those of the table.
LEMMA StampTyped ==
  ASSUME Types, NEW i \in Ids, NEW v, Stamp(i, v)
  PROVE  late' \subseteq Nodes \X Ids
BY DEF Stamp, Types

\* An item is inserted, for which there is room.
LEMMA InsertItemTyped ==
  ASSUME Types, CallsInv, NEW p \in Procs, InsertItem(p)
  PROVE  /\ Types' /\ CallsInv' /\ created' = created + 1 /\ created + 1 \in Ids
         /\ UNCHANGED <<lists, source, node, purged>>
         /\ rows'[created + 1] \in Rows /\ \A i \in 1..created : rows'[i] = rows[i]
         /\ \E v \in Versions : rows'[created + 1].version = v /\ Stamp(created + 1, v)
<1> DEFINE new == NewItem(call[p].ip, call[p].version)
<1>1. /\ call[p].pc = "write" /\ call[p].kind = "create" /\ call[p].todo = {}
      /\ created' = created + 1 /\ rows' = [rows EXCEPT ![created + 1] = new]
      /\ Stamp(created + 1, call[p].version) /\ call' = [call EXCEPT ![p] = Idle]
      /\ UNCHANGED <<lists, source, node, purged>>
  BY DEF InsertItem
<1>2. p \in Creating /\ call[p].version \in Versions /\ call[p].ip \in IPs
  BY <1>1, CallAt
<1>3. new \in Rows /\ new.version = call[p].version
  BY <1>2 DEF Rows, NewItem
<1>4. IsFiniteSet(Creating)' /\ Cardinality(Creating)' = Cardinality(Creating) - 1
  BY <1>1, <1>2, CreatingIs
<1>5. Cardinality(Creating) \in Nat /\ Cardinality(Creating)' \in Nat
  BY <1>4, FS_CardinalityType DEF CallsInv
<1>6. /\ created \in Nat /\ MaxItems \in Nat /\ created + 1 <= MaxItems
      /\ created' + Cardinality(Creating)' <= MaxItems
  BY <1>1, <1>4, <1>5, SizeAssumption DEF CallsInv, Types
<1>7. created + 1 \in Ids
  BY <1>6 DEF Ids
<1>8. rows' \in [Ids -> Rows \cup {NoRow}] /\ rows'[created + 1] = new /\ \A i \in Ids : i # created + 1 => rows'[i] = rows[i]
  <2> HIDE DEF new
  <2> QED BY <1>1, <1>3, <1>7 DEF Types
<1>9. \A i \in Ids : rows'[i] # NoRow => i <= created'
  <2>1. ASSUME NEW i \in Ids, rows'[i] # NoRow
        PROVE  i <= created'
    <3>1. i = created + 1 \/ i <= created
      BY <1>8, <2>1 DEF CallsInv
    <3> QED BY <1>1, <1>6, <3>1 DEF Ids
  <2> QED BY <2>1
<1>10. call' \in [Procs -> Calls \cup {Idle}] /\ CallsInv'
  <2>1. created' \in Nat /\ created <= created' /\ Idle \in Calls \cup {Idle}
    BY <1>1, <1>6
  <2>2. IsFiniteSet(Creating)' /\ created' + Cardinality(Creating)' <= MaxItems
    BY <1>4, <1>6
  <2>3. call' = [call EXCEPT ![p] = Idle]
    BY <1>1
  <2> QED BY <1>9, <2>1, <2>2, <2>3, OneCall
<1>11. late' \subseteq Nodes \X Ids
  BY <1>1, <1>7, StampTyped
<1>12. created' \in 0..MaxItems
  BY <1>1, <1>6
<1>13. Types'
  BY <1>1, <1>8, <1>10, <1>11, <1>12 DEF Types, lists, node, source
<1>14. \A i \in 1..created : rows'[i] = rows[i]
  BY <1>6, <1>8 DEF Ids
<1> HIDE DEF new
<1> QED BY <1>1, <1>2, <1>3, <1>7, <1>8, <1>10, <1>13, <1>14

\* A row that is written stays a row, and one that changes gets the version of its call.
LEMMA WrittenIs ==
  ASSUME NEW r \in Rows \cup {NoRow}, NEW c \in Calls, c.version \in Versions
  PROVE  /\ Written(r, c) \in Rows \cup {NoRow}
         /\ Written(r, c) # NoRow <=> r # NoRow
         /\ Written(r, c) # r => Written(r, c) \in Rows /\ Written(r, c).version = c.version
<1>1. CASE r = NoRow \/ (c.kind = "again" /\ ~r.on)
  BY <1>1 DEF Written
<1>2. CASE ~(r = NoRow \/ (c.kind = "again" /\ ~r.on))
  <2>1. r \in Rows
    BY <1>2
  <2>2. CASE c.kind = "update"
    <3>1. Written(r, c) = [r EXCEPT !.says = c.version, !.expired = FALSE, !.version = c.version]
      BY <1>2, <2>2 DEF Written
    <3>2. Written(r, c) \in Rows /\ Written(r, c).version = c.version
      BY <2>1, <3>1 DEF Rows
    <3> QED BY <2>1, <3>2, Somethings
  <2>3. CASE c.kind # "update"
    <3>1. Written(r, c) = [r EXCEPT !.on = FALSE, !.expired = FALSE, !.version = c.version]
      BY <1>2, <2>3 DEF Written
    <3>2. Written(r, c) \in Rows /\ Written(r, c).version = c.version
      BY <2>1, <3>1 DEF Rows
    <3> QED BY <2>1, <3>2, Somethings
  <2> QED BY <2>2, <2>3
<1> QED BY <1>1, <1>2

\* One row is written.
LEMMA WriteItemTyped ==
  ASSUME Types, CallsInv, NEW p \in Procs, WriteItem(p)
  PROVE  /\ Types' /\ CallsInv' /\ UNCHANGED <<created, lists, source, node, purged>>
         /\ \/ UNCHANGED <<rows, late>>
            \/ \E i \in 1..created, v \in Versions :
                 /\ rows'[i] \in Rows /\ rows'[i].version = v /\ Stamp(i, v)
                 /\ \A j \in Ids : j # i => rows'[j] = rows[j]
<1> DEFINE i == Min(call[p].todo)
           r == Written(rows[i], call[p])
           rest == call[p].todo \ {i}
           next == [call[p] EXCEPT !.pc = "next", !.todo = rest, !.version = 0]
           c == IF rest = {} /\ call[p].kind \in {"disable", "update"} THEN Idle ELSE next
<1>1. /\ call[p].pc = "write" /\ call[p].todo # {} /\ rows' = [rows EXCEPT ![i] = r]
      /\ IF r = rows[i] THEN UNCHANGED late ELSE Stamp(i, call[p].version)
      /\ UNCHANGED <<created, lists, source, node, purged>>
  BY DEF WriteItem
<1>2. call' = [call EXCEPT ![p] = c]
  BY DEF WriteItem
<1>3. /\ call[p] \in Calls /\ call[p] # Idle /\ call[p].todo \subseteq 1..created /\ call[p].version \in Versions
      /\ call[p].kind = "create" => call[p].ip \in IPs
      /\ p \in Creating <=> call[p].kind = "create"
  BY <1>1, CallAt
<1>4. created \in Nat /\ MaxItems \in Nat /\ created <= MaxItems
  BY SizeAssumption DEF Types
<1>5. 1..created \subseteq Ids /\ 1..created \subseteq Nat
  BY <1>4 DEF Ids
<1>6. i \in 1..created /\ i \in Ids
  BY <1>1, <1>3, <1>5, LeastNatural
<1>7. /\ r \in Rows \cup {NoRow} /\ (r # NoRow <=> rows[i] # NoRow)
      /\ r # rows[i] => r \in Rows /\ r.version = call[p].version
  BY <1>3, <1>6, WrittenIs DEF Types
<1>8. c \in Calls \cup {Idle} /\ (c # Idle => c.todo = rest /\ c.pc = "next" /\ c.kind = call[p].kind /\ c.ip = call[p].ip)
  <2>1. rest \subseteq Ids
    BY <1>3, <1>5
  <2> HIDE DEF rest, i
  <2>2. next \in Calls /\ next.todo = rest /\ next.pc = "next" /\ next.kind = call[p].kind /\ next.ip = call[p].ip
    BY <1>3, <2>1 DEF Calls
  <2> HIDE DEF next
  <2> QED BY <2>2
<1>9. c # Idle \/ call[p].kind # "create"
  <2>1. call[p].kind = "create" => c = next
    OBVIOUS
  <2>2. rest \subseteq Ids
    BY <1>3, <1>5
  <2>3. next # Idle
    <3> HIDE DEF rest, i
    <3>1. next \in Calls
      BY <1>3, <2>2 DEF Calls
    <3> QED BY <3>1, Somethings
  <2> QED BY <2>1, <2>3
<1>10. rest \subseteq 1..created
  BY <1>3
<1> HIDE DEF c, next, rest, r
<1>11. rows' \in [Ids -> Rows \cup {NoRow}] /\ rows'[i] = r /\ \A j \in Ids : j # i => rows'[j] = rows[j]
  <2> HIDE DEF i
  <2> QED BY <1>1, <1>6, <1>7 DEF Types
<1>12. \A j \in Ids : rows'[j] # NoRow => rows[j] # NoRow
  <2> HIDE DEF i
  <2> QED BY <1>6, <1>7, <1>11
<1>13. call' \in [Procs -> Calls \cup {Idle}] /\ CallsInv'
  <2>1. c # Idle => /\ c.todo \subseteq 1..created
                    /\ c.pc = "write" => c.version \in Versions
                    /\ c.kind = "create" => c.ip \in IPs
    BY <1>3, <1>8, <1>10
  <2>2. c # Idle /\ c.kind = "create" <=> p \in Creating
    BY <1>3, <1>8, <1>9
  <2> QED BY <1>1, <1>2, <1>8, <1>12, <2>1, <2>2, CallGoesOn
<1>14. late' \subseteq Nodes \X Ids
  <2>1. CASE r = rows[i]
    BY <1>1, <2>1 DEF Types
  <2>2. CASE r # rows[i]
    BY <1>1, <1>6, <2>2, StampTyped
  <2> QED BY <2>1, <2>2
<1>15. Types'
  BY <1>1, <1>11, <1>13, <1>14 DEF Types, lists, node, source
<1> HIDE DEF i
<1>16. CASE r = rows[i]
  <2>a. rows \in [Ids -> Rows \cup {NoRow}] /\ \A j \in Ids : rows'[j] = rows[j]
    BY <1>6, <1>11, <1>16 DEF Types
  <2>1. rows' = rows
    BY <1>11, <2>a
  <2>2. late' = late
    BY <1>1, <1>16
  <2> QED BY <1>1, <1>13, <1>15, <2>1, <2>2
<1>17. CASE r # rows[i]
  <2>1. rows'[i] \in Rows /\ rows'[i].version = call[p].version /\ Stamp(i, call[p].version)
    BY <1>1, <1>7, <1>11, <1>17
  <2> QED BY <1>1, <1>3, <1>6, <1>11, <1>13, <1>15, <2>1
<1> QED BY <1>16, <1>17

\* An API node dies: fewer calls, answers and lists that are known.
LEMMA CrashTyped ==
  ASSUME Types, CallsInv, NEW a \in APINodes, Crash(a)
  PROVE  /\ Types' /\ CallsInv' /\ UNCHANGED <<rows, created, listOn, knewOn, cursor, copies, gone, late, purged>>
         /\ \A b \in APINodes : listCache'[b] \in {listCache[b], "none"}
         /\ \A n \in Nodes : page'[n] \in {page[n], Idle}
<1>1. /\ UNCHANGED <<rows, created, listOn, knewOn, cursor, copies, gone, late, purged>>
      /\ V!Fail({p \in Procs : Home[p] = a})
      /\ call' = [p \in Procs |-> IF Home[p] = a THEN Idle ELSE call[p]]
      /\ listCache' = [listCache EXCEPT ![a] = "none"]
      /\ page' = [n \in Nodes |-> IF page[n] # Idle /\ page[n].api = a THEN Idle ELSE page[n]]
  BY DEF Crash, table, history
<1>2. issued' = issued /\ floor' \in [Procs -> Versions \cup {V!NoFloor}]
  BY <1>1 DEF V!Fail, Types
<1>3. call' \in [Procs -> Calls \cup {Idle}] /\ \A p \in Procs : call'[p] \in {call[p], Idle}
  BY <1>1 DEF Types
<1>4. Creating' \subseteq Creating
  BY <1>3 DEF Creating
<1>5. IsFiniteSet(Creating)' /\ Cardinality(Creating)' <= Cardinality(Creating)
  BY <1>4, FS_Subset DEF CallsInv
<1>6. Cardinality(Creating) \in Nat /\ Cardinality(Creating)' \in Nat /\ created \in Nat /\ MaxItems \in Nat
  BY <1>5, SizeAssumption, FS_CardinalityType DEF CallsInv, Types
<1>7. created' + Cardinality(Creating)' <= MaxItems
  <2>1. created + Cardinality(Creating) <= MaxItems
    BY DEF CallsInv
  <2> QED BY <1>1, <1>5, <1>6, <2>1
<1>8. CallsInv'
  <2>1. \A i \in Ids : rows'[i] # NoRow => i <= created'
    BY <1>1 DEF CallsInv
  <2>2. ASSUME NEW p \in Procs, call'[p] # Idle
        PROVE  /\ call'[p].todo \subseteq 1..created'
               /\ call'[p].pc = "write" => call'[p].version \in Versions
               /\ call'[p].kind = "create" => call'[p].ip \in IPs
    <3>1. call'[p] = call[p] /\ call[p] # Idle
      BY <1>3, <2>2
    <3> QED BY <1>1, <3>1 DEF CallsInv
  <2> QED BY <1>5, <1>7, <2>1, <2>2 DEF CallsInv
<1>9. listCache' \in [APINodes -> {"none", "on", "off"}] /\ \A b \in APINodes : listCache'[b] \in {listCache[b], "none"}
  BY <1>1 DEF Types
<1>10. page' \in [Nodes -> Pages \cup {Idle}] /\ \A n \in Nodes : page'[n] \in {page[n], Idle}
  BY <1>1 DEF Types
<1>11. Types'
  <2>1. \A n \in Nodes : page'[n].pc \in {"store", "answer"} => page'[n].list # "none"
    BY <1>10 DEF Types, Idle
  <2> QED BY <1>1, <1>2, <1>3, <1>9, <1>10, <2>1 DEF Types
<1> QED BY <1>1, <1>8, <1>9, <1>10, <1>11

-----------------------------------------------------------------------------
(***************************************************************************)
(* The nodes.                                                              *)
(***************************************************************************)

\* Steps in which no call and no number of items changes leave the calls' invariant.
LEMMA CallsStay ==
  ASSUME CallsInv, UNCHANGED <<call, created>>, \A i \in Ids : rows'[i] # NoRow => rows[i] # NoRow
  PROVE  CallsInv'
<1>1. Creating' = Creating
  BY DEF Creating
<1> QED BY <1>1 DEF CallsInv

\* What is above a version is finite, and a page of it begins with the lowest: an item with
\* a version no greater than one on the page is on it.
LEMMA PageIsLowest ==
  ASSUME Types, NEW v \in Versions \cup {0}
  PROVE  /\ IsFiniteSet(After(v)) /\ FirstPage(v) \subseteq After(v) /\ After(v) \subseteq Ids
         /\ \A i \in After(v) : rows[i] \in Rows /\ rows[i].version \in Nat /\ v < rows[i].version
         /\ \A i \in After(v), j \in FirstPage(v) : rows[i].version <= rows[j].version => i \in FirstPage(v)
<1> DEFINE Lower(i) == {j \in After(v) : rows[j].version < rows[i].version}
<1>1. After(v) \subseteq Ids /\ IsFiniteSet(After(v))
  <2>1. MaxItems \in Nat /\ After(v) \subseteq 1..MaxItems
    BY SizeAssumption DEF Ids, After, Stored
  <2>2. IsFiniteSet(1..MaxItems)
    BY <2>1, FS_Interval
  <2> QED BY <2>1, <2>2, FS_Subset DEF Ids
<1>2. FirstPage(v) = {i \in After(v) : Cardinality(Lower(i)) < Size}
  BY DEF FirstPage
<1>3. ASSUME NEW i \in After(v)
      PROVE  rows[i] \in Rows /\ rows[i].version \in Nat /\ v < rows[i].version
  <2>1. rows[i] \in Rows /\ rows[i].version > v
    BY <1>1, StoredIs DEF After
  <2> QED BY <2>1, Fields, SourceAssumption
<1>4. \A i \in After(v) : IsFiniteSet(Lower(i)) /\ Cardinality(Lower(i)) \in Nat
  BY <1>1, FS_Subset, FS_CardinalityType
<1>5. ASSUME NEW i \in After(v), NEW j \in FirstPage(v), rows[i].version <= rows[j].version
      PROVE  i \in FirstPage(v)
  <2>1. j \in After(v) /\ Cardinality(Lower(j)) < Size
    BY <1>2
  <2>2. ASSUME NEW k \in Lower(i)
        PROVE  k \in Lower(j)
    <3>1. rows[k].version \in Nat /\ rows[i].version \in Nat /\ rows[j].version \in Nat
      BY <1>3, <2>1
    <3> QED BY <1>5, <2>2, <3>1
  <2>3. Lower(i) \subseteq Lower(j)
    BY <2>2
  <2>4. Cardinality(Lower(i)) <= Cardinality(Lower(j))
    BY <1>4, <2>1, <2>3, FS_Subset
  <2>5. Cardinality(Lower(i)) < Size
    <3> HIDE DEF Lower
    <3> QED BY <1>4, <2>1, <2>4, SizeAssumption
  <2> QED BY <1>2, <2>5
<1>6. FirstPage(v) \subseteq After(v)
  BY <1>2
<1> HIDE DEF Lower
<1> QED BY <1>1, <1>3, <1>5, <1>6

\* A page is made for a node: the lowest rows above its version, as they are sent.
LEMMA FetchTyped ==
  ASSUME Types, CallsInv, NEW n \in Nodes, FetchItems(n)
  PROVE  /\ Types' /\ CallsInv' /\ UNCHANGED <<rows, created, lists, cursor, copies, gone, history>>
         /\ \A m \in Nodes : m # n => page'[m] = page[m]
         /\ page'[n] \in Pages /\ DOMAIN page'[n].items = FirstPage(cursor[n])
         /\ page'[n].list = "none"
         /\ \A i \in FirstPage(cursor[n]) : page'[n].items[i] = Sent(rows[i]) /\ rows[i].version <= page'[n].version
         /\ \E j \in FirstPage(cursor[n]) : page'[n].version = rows[j].version
<1> DEFINE items == FirstPage(cursor[n])
           sent == [i \in items |-> Sent(rows[i])]
           above == {rows[i].version : i \in items}
           last == Max(above)
<1>1. items # {} /\ UNCHANGED <<rows, created, lists, source, call, cursor, copies, gone, history>>
  BY DEF FetchItems, pageOnly, table
<1>2. PICK a \in APINodes :
        page' = [page EXCEPT ![n] = [pc |-> "cache", api |-> a, items |-> sent, list |-> "none", version |-> last]]
  BY DEF FetchItems
<1> DEFINE g == [pc |-> "cache", api |-> a, items |-> sent, list |-> "none", version |-> last]
<1>3. cursor[n] \in Versions \cup {0}
  BY DEF Types
<1>4. /\ IsFiniteSet(items) /\ items \subseteq Ids
      /\ \A i \in items : rows[i] \in Rows /\ rows[i].version \in Nat
  <2>1. IsFiniteSet(After(cursor[n])) /\ items \subseteq After(cursor[n]) /\ After(cursor[n]) \subseteq Ids
    BY <1>3, PageIsLowest
  <2>2. \A i \in After(cursor[n]) : rows[i] \in Rows /\ rows[i].version \in Nat
    BY <1>3, PageIsLowest
  <2> HIDE DEF items
  <2> QED BY <2>1, <2>2, FS_Subset
<1> HIDE DEF items
<1>5. above \subseteq Versions /\ above \subseteq Nat /\ above # {} /\ IsFiniteSet(above)
  <2>1. above \subseteq Versions /\ above \subseteq Nat /\ above # {}
    BY <1>1, <1>4, Fields
  <2>2. IsFiniteSet(above)
    <3> DEFINE f == [i \in items |-> rows[i].version]
    <3>1. f \in Surjection(items, above)
      BY DEF Surjection
    <3> QED BY <1>4, <3>1, FS_Surjection
  <2> QED BY <2>1, <2>2
<1>6. last \in above /\ \A v \in above : v <= last
  <2> HIDE DEF above
  <2> QED BY <1>5, GreatestNatural
<1>7. sent \in [items -> SentItems]
  <2>1. ASSUME NEW i \in items
        PROVE  Sent(rows[i]) \in SentItems
    <3>1. PICK u \in BOOLEAN : u = (rows[i].on /\ ~rows[i].expired)
      BY <1>4, Fields
    <3>2. rows[i].says \in Versions /\ Sent(rows[i]) = [says |-> rows[i].says, on |-> u]
      BY <1>4, <3>1, Fields DEF Sent
    <3> QED BY <3>2 DEF SentItems
  <2> QED BY <2>1
<1>8. last \in Versions /\ \E j \in items : last = rows[j].version
  <2>1. last \in above
    BY <1>6
  <2> HIDE DEF last
  <2> QED BY <1>5, <2>1
<1>9. \A i \in items : rows[i].version <= last
  <2>1. \A v \in above : v <= last
    BY <1>6
  <2> HIDE DEF last
  <2> QED BY <2>1
<1>11. sent \in UNION {[I -> SentItems] : I \in SUBSET Ids} /\ DOMAIN sent = items /\ \A i \in items : sent[i] = Sent(rows[i])
  <2>1. items \in SUBSET Ids /\ DOMAIN sent = items /\ \A i \in items : sent[i] = Sent(rows[i])
    BY <1>4
  <2> HIDE DEF sent
  <2> QED BY <1>7, <2>1
<1> HIDE DEF sent, last, above
<1>12. g \in Pages /\ g.pc = "cache" /\ g.items = sent /\ g.list = "none" /\ g.version = last
  BY <1>8, <1>11 DEF Pages
<1>13. page' = [page EXCEPT ![n] = g]
  BY <1>2
<1> HIDE DEF g
<1>14. page' \in [Nodes -> Pages \cup {Idle}] /\ page'[n] = g /\ \A m \in Nodes : m # n => page'[m] = page[m]
  BY <1>12, <1>13 DEF Types
<1>15. Types'
  BY <1>1, <1>12, <1>14 DEF Types, lists, source, history
<1>16. CallsInv'
  BY <1>1, CallsStay
<1> USE DEF items
<1> QED BY <1>1, <1>8, <1>9, <1>11, <1>12, <1>14, <1>15, <1>16

\* The list of an answer is looked up, in the cache or in the table.
LEMMA FindTyped ==
  ASSUME Types, CallsInv, NEW n \in Nodes, FindCached(n) \/ FindList(n)
  PROVE  /\ Types' /\ CallsInv' /\ UNCHANGED <<rows, created, lists, cursor, copies, gone, history>>
         /\ \A m \in Nodes : m # n => page'[m] = page[m]
         /\ page[n] \in Pages /\ page'[n] \in Pages /\ page'[n].api = page[n].api /\ page'[n].items = page[n].items
         /\ page'[n].version = page[n].version
         /\ page'[n].list \in {listCache[page[n].api], IF listOn THEN "on" ELSE "off"}
<1>1. UNCHANGED <<rows, created, lists, source, call, cursor, copies, gone, history>> /\ page[n].pc \in {"cache", "table"}
  BY DEF FindCached, FindList, pageOnly, table
<1>2. page[n] # Idle
  BY <1>1 DEF Idle
<1>3. page[n] \in Pages
  BY <1>2 DEF Types
<1>4. PICK w \in {"none", "on", "off"}, c \in {"cache", "table", "store", "answer"} :
        /\ page' = [page EXCEPT ![n] = [page[n] EXCEPT !.list = w, !.pc = c]]
        /\ w \in {listCache[page[n].api], IF listOn THEN "on" ELSE "off"}
        /\ c \in {"store", "answer"} => w # "none"
  <2>1. CASE FindCached(n)
    <3>1. listCache[page[n].api] \in {"none", "on", "off"}
      BY <1>3, Fields DEF Types
    <3> QED BY <2>1, <3>1 DEF FindCached
  <2>2. CASE FindList(n)
    BY <2>2 DEF FindList
  <2> QED BY <2>1, <2>2
<1> DEFINE g == [page[n] EXCEPT !.list = w, !.pc = c]
<1>5. /\ g \in Pages /\ g.api = page[n].api /\ g.items = page[n].items /\ g.version = page[n].version
      /\ g.list = w /\ g.pc = c
  BY <1>3, <1>4 DEF Pages
<1>6. page' = [page EXCEPT ![n] = g]
  BY <1>4
<1> HIDE DEF g
<1>7. page' \in [Nodes -> Pages \cup {Idle}] /\ page'[n] = g /\ \A m \in Nodes : m # n => page'[m] = page[m]
  BY <1>5, <1>6 DEF Types
<1>8. Types'
  BY <1>1, <1>4, <1>5, <1>7 DEF Types, lists, source, history
<1>9. CallsInv'
  BY <1>1, CallsStay
<1> QED BY <1>1, <1>3, <1>4, <1>5, <1>7, <1>8, <1>9

\* An answer comes: the node has what it made of the items that were sent, and what it had.
LEMMA AnswerTyped ==
  ASSUME Types, CallsInv, NEW n \in Nodes, Answer(n)
  PROVE  /\ Types' /\ CallsInv' /\ UNCHANGED <<rows, created, listOn, knewOn, gone, history>>
         /\ \A m \in Nodes : m # n => page'[m] = page[m] /\ cursor'[m] = cursor[m] /\ copies'[m] = copies[m]
         /\ page[n] \in Pages /\ page[n].list \in {"on", "off"} /\ page'[n] = Idle /\ cursor'[n] = page[n].version
         /\ \A i \in Ids : copies'[n][i] = IF i \in DOMAIN page[n].items THEN CopyOf(page[n], i) ELSE copies[n][i]
         /\ listCache' \in {listCache, [listCache EXCEPT ![page[n].api] = page[n].list]}
<1>0. page[n].pc \in {"store", "answer"}
  BY DEF Answer
<1>1. /\ page[n] # Idle /\ page[n].list # "none"
      /\ listCache' \in {listCache, [listCache EXCEPT ![page[n].api] = page[n].list]}
      /\ cursor' = [cursor EXCEPT ![n] = page[n].version]
      /\ copies' = [copies EXCEPT ![n] = [i \in Ids |-> IF i \in DOMAIN page[n].items THEN CopyOf(page[n], i)
                                                        ELSE copies[n][i]]]
      /\ page' = [page EXCEPT ![n] = Idle]
      /\ UNCHANGED <<rows, created, listOn, knewOn, source, call, gone, history>>
  <2>1. page[n] # Idle /\ page[n].list # "none"
    BY <1>0 DEF Idle, Types
  <2> QED BY <2>1 DEF Answer, table
<1>2. page[n] \in Pages
  BY <1>1 DEF Types
<1>3. /\ page[n].api \in APINodes /\ page[n].list \in {"on", "off"} /\ page[n].version \in Versions
      /\ \A i \in DOMAIN page[n].items : page[n].items[i] \in SentItems
  BY <1>1, <1>2, Fields
<1> DEFINE Copies == [on : {TRUE}, says : Versions, from : APINodes] \cup {Off}
           new == [i \in Ids |-> IF i \in DOMAIN page[n].items THEN CopyOf(page[n], i) ELSE copies[n][i]]
<1>4. ASSUME NEW i \in DOMAIN page[n].items
      PROVE  CopyOf(page[n], i) \in Copies
  <2>1. page[n].items[i].says \in Versions
    BY <1>3 DEF SentItems
  <2> QED BY <1>3, <2>1 DEF CopyOf
<1>5. copies[n] \in [Ids -> Copies]
  BY DEF Types
<1>6. new \in [Ids -> Copies]
  <2> HIDE DEF Copies
  <2> QED BY <1>4, <1>5
<1>7. /\ copies' \in [Nodes -> [Ids -> Copies]] /\ copies'[n] = new
      /\ \A m \in Nodes : m # n => copies'[m] = copies[m]
  <2>1. copies \in [Nodes -> [Ids -> Copies]] /\ copies' = [copies EXCEPT ![n] = new]
    BY <1>1 DEF Types
  <2> HIDE DEF new, Copies
  <2> QED BY <1>6, <2>1
<1>8. /\ page' \in [Nodes -> Pages \cup {Idle}] /\ page'[n] = Idle /\ \A m \in Nodes : m # n => page'[m] = page[m]
      /\ cursor' \in [Nodes -> Versions \cup {0}] /\ cursor'[n] = page[n].version
      /\ \A m \in Nodes : m # n => cursor'[m] = cursor[m]
  BY <1>1, <1>3 DEF Types
<1>9. listCache' \in [APINodes -> {"none", "on", "off"}]
  BY <1>1, <1>3 DEF Types
<1>10. Types'
  <2>1. \A m \in Nodes : page'[m].pc \in {"store", "answer"} => page'[m].list # "none"
    BY <1>8 DEF Types, Idle
  <2> QED BY <1>1, <1>7, <1>8, <1>9, <2>1 DEF Types, source, history
<1>11. CallsInv'
  BY <1>1, CallsStay
<1>12. \A i \in Ids : copies'[n][i] = IF i \in DOMAIN page[n].items THEN CopyOf(page[n], i) ELSE copies[n][i]
  BY <1>7
<1> QED BY <1>1, <1>2, <1>3, <1>7, <1>8, <1>10, <1>11, <1>12

\* A node drops the list, an item expires, a week passes.
LEMMA RestTyped ==
  ASSUME Types, CallsInv, (\E n \in Nodes : DropList(n)) \/ (\E i \in Ids : Expire(i)) \/ Week
  PROVE  /\ Types' /\ CallsInv' /\ UNCHANGED <<created, lists, source, cursor, page, history>>
         /\ \A i \in Ids : /\ rows'[i] # NoRow <=> rows[i] # NoRow
                           /\ rows[i] # NoRow => /\ rows'[i].on = rows[i].on /\ rows'[i].says = rows[i].says
                                                 /\ rows'[i].version = rows[i].version
                                                 /\ rows[i].expired => rows'[i].expired
<1> DEFINE Like(r, s) == /\ s # NoRow <=> r # NoRow
                         /\ r # NoRow => s.on = r.on /\ s.says = r.says /\ s.version = r.version /\ (r.expired => s.expired)
<1>1. CASE \E n \in Nodes : DropList(n)
  <2>1. PICK n \in Nodes : DropList(n)
    BY <1>1
  <2>2. UNCHANGED <<rows, created, lists, source, call, cursor, page, history>>
    BY <2>1 DEF DropList, table
  <2>3. copies' = [copies EXCEPT ![n] = [i \in Ids |-> Off]] /\ gone' = gone \cup {n}
    BY <2>1 DEF DropList
  <2>4. Types'
    BY <2>2, <2>3 DEF Types, lists, source, history
  <2>5. CallsInv'
    BY <2>2, CallsStay
  <2> QED BY <2>2, <2>4, <2>5
<1>2. CASE \E i \in Ids : Expire(i)
  <2>1. PICK i \in Ids : Expire(i)
    BY <1>2
  <2>2. i \in Enabled /\ UNCHANGED <<created, lists, source, call, node, history>>
    BY <2>1 DEF Expire
  <2> DEFINE r == [rows[i] EXCEPT !.expired = TRUE]
  <2>3. rows' = [rows EXCEPT ![i] = r]
    BY <2>1 DEF Expire
  <2>4. rows[i] \in Rows
    BY <2>2, StoredIs
  <2>5. r \in Rows /\ r.on = rows[i].on /\ r.says = rows[i].says /\ r.version = rows[i].version /\ r.expired = TRUE
    BY <2>4 DEF Rows
  <2>6. r # NoRow
    BY <2>5, Somethings
  <2> HIDE DEF r
  <2>7. rows' \in [Ids -> Rows \cup {NoRow}] /\ rows'[i] = r /\ \A j \in Ids : j # i => rows'[j] = rows[j]
    BY <2>3, <2>5 DEF Types
  <2>8. Types'
    BY <2>2, <2>7 DEF Types, lists, source, node, history
  <2>9. \A j \in Ids : Like(rows[j], rows'[j])
    <3>1. Like(rows[i], rows'[i])
      BY <2>4, <2>5, <2>6, <2>7, Somethings
    <3>2. \A j \in Ids : j # i => rows'[j] = rows[j]
      BY <2>7
    <3> QED BY <3>1, <3>2
  <2>10. CallsInv'
    <3>1. \A j \in Ids : rows'[j] # NoRow => rows[j] # NoRow
      BY <2>9
    <3>2. UNCHANGED <<call, created>>
      BY <2>2
    <3> QED BY <3>1, <3>2, CallsStay
  <2> QED BY <2>2, <2>8, <2>9, <2>10 DEF node
<1>3. CASE Week
  <2>1. rows' = [i \in Ids |-> IF i \in Stored THEN [rows[i] EXCEPT !.old = TRUE] ELSE NoRow]
    BY <1>3 DEF Week
  <2>2. UNCHANGED <<created, lists, source, call, node, history>>
    BY <1>3 DEF Week
  <2>3. ASSUME NEW i \in Ids
        PROVE  rows'[i] \in Rows \cup {NoRow} /\ Like(rows[i], rows'[i])
    <3>1. CASE i \in Stored
      <4>1. rows[i] \in Rows /\ rows'[i] = [rows[i] EXCEPT !.old = TRUE]
        BY <2>1, <3>1, StoredIs
      <4>2. /\ rows'[i] \in Rows /\ rows'[i].on = rows[i].on /\ rows'[i].says = rows[i].says
            /\ rows'[i].version = rows[i].version /\ rows'[i].expired = rows[i].expired
        BY <4>1 DEF Rows
      <4> QED BY <4>1, <4>2, Somethings
    <3>2. CASE i \notin Stored
      <4>1. rows[i] = NoRow /\ rows'[i] = NoRow
        BY <2>1, <3>2, StoredIs
      <4> QED BY <4>1
    <3> QED BY <3>1, <3>2
  <2>4. rows' \in [Ids -> Rows \cup {NoRow}]
    <3>1. \A i \in Ids : rows'[i] \in Rows \cup {NoRow}
      BY <2>3
    <3>2. DOMAIN rows' = Ids /\ rows' = [i \in Ids |-> rows'[i]]
      BY <2>1
    <3> QED BY <3>1, <3>2
  <2>5. Types'
    BY <2>2, <2>4 DEF Types, lists, source, node, history
  <2>6. \A j \in Ids : Like(rows[j], rows'[j])
    BY <2>3
  <2>7. CallsInv'
    <3>1. \A j \in Ids : rows'[j] # NoRow => rows[j] # NoRow
      BY <2>6
    <3>2. UNCHANGED <<call, created>>
      BY <2>2
    <3> QED BY <3>1, <3>2, CallsStay
  <2> QED BY <2>2, <2>5, <2>6, <2>7 DEF node
<1> QED BY <1>1, <1>2, <1>3

-----------------------------------------------------------------------------
(***************************************************************************)
(* What is known of a deleted list.                                        *)
(***************************************************************************)

\* What is known of the list is forgotten, or stays.
LEMMA DeletedStays ==
  ASSUME DeletedInv, UNCHANGED <<listOn, knewOn, gone, copies>>,
         \A a \in APINodes : listCache'[a] \in {listCache[a], "none"},
         \A n \in Nodes : page'[n] \in {page[n], Idle}
  PROVE  DeletedInv'
<1>1. NoOtherLive'
  BY DEF DeletedInv, NoOtherLive
<1>2. \A a \in APINodes : listCache'[a] # "none" => listCache'[a] = listCache[a]
  OBVIOUS
<1>3. \A n \in Nodes : page'[n] # Idle => page'[n] = page[n]
  OBVIOUS
<1> QED BY <1>1, <1>2, <1>3 DEF DeletedInv

\* A list is deleted: no node has been told before, and those that know it as on are noted.
LEMMA DeletedNow ==
  ASSUME DeletedInv, NEW p \in Procs, StartDeleteIPList(p)
  PROVE  DeletedInv'
<1>1. /\ listOn /\ listOn' = FALSE /\ UNCHANGED <<listCache, node>>
      /\ knewOn' = {a \in APINodes : listCache[a] = "on"}
                     \cup {page[n].api : n \in {m \in Nodes : page[m] # Idle /\ page[m].list = "on"}}
  BY DEF StartDeleteIPList, Start
<1>2. gone' = {} /\ UNCHANGED <<copies, page>>
  BY <1>1 DEF DeletedInv, node
<1>3. NoOtherLive'
  BY <1>2 DEF NoOtherLive
<1>4. \A a \in APINodes : listCache'[a] = "on" => a \in knewOn'
  BY <1>1
<1>5. \A n \in Nodes : page'[n] # Idle /\ page'[n].list = "on" => page'[n].api \in knewOn'
  BY <1>1, <1>2
<1> QED BY <1>1, <1>2, <1>3, <1>4, <1>5 DEF DeletedInv

\* An answer takes the list from the cache, and otherwise from the table.
LEMMA DeletedPage ==
  ASSUME Types, CallsInv, DeletedInv, NEW n \in Nodes, FetchItems(n) \/ FindCached(n) \/ FindList(n)
  PROVE  DeletedInv'
<1>1. /\ UNCHANGED <<lists, copies, gone>> /\ \A m \in Nodes : m # n => page'[m] = page[m]
      /\ page'[n] \in Pages
      /\ page'[n].list \in {"none", listCache[page'[n].api], IF listOn THEN "on" ELSE "off"}
  BY FetchTyped, FindTyped
<1>2. page'[n].api \in APINodes
  BY <1>1, Fields
<1>3. NoOtherLive' /\ UNCHANGED <<listOn, listCache, knewOn>>
  BY <1>1 DEF DeletedInv, NoOtherLive, lists
<1>4. page'[n].list = "off" => ~listOn
  BY <1>1, <1>2 DEF DeletedInv
<1>5. ~listOn /\ page'[n].list = "on" => page'[n].api \in knewOn
  BY <1>1, <1>2 DEF DeletedInv
<1> QED BY <1>1, <1>3, <1>4, <1>5 DEF DeletedInv

\* A node has an item of an answer as live only when the list was known as on.
LEMMA DeletedAnswer ==
  ASSUME Types, CallsInv, DeletedInv, NEW n \in Nodes, Answer(n)
  PROVE  DeletedInv'
<1> DEFINE g == page[n]
<1>1. /\ UNCHANGED <<listOn, knewOn, gone>>
      /\ \A m \in Nodes : m # n => page'[m] = page[m] /\ copies'[m] = copies[m]
      /\ g \in Pages /\ g.list \in {"on", "off"} /\ page'[n] = Idle
      /\ \A i \in Ids : copies'[n][i] = IF i \in DOMAIN g.items THEN CopyOf(g, i) ELSE copies[n][i]
      /\ listCache' \in {listCache, [listCache EXCEPT ![g.api] = g.list]}
  BY AnswerTyped
<1>2. g # Idle /\ g.api \in APINodes
  BY <1>1, Fields, Somethings
<1>3. (g.list = "off" => ~listOn) /\ (~listOn /\ g.list = "on" => g.api \in knewOn)
  BY <1>2 DEF DeletedInv
<1>4. \A a \in APINodes : listCache'[a] = listCache[a] \/ (a = g.api /\ listCache'[a] = g.list)
  BY <1>1, <1>2 DEF Types
<1>5. ASSUME NEW m \in gone', NEW i \in Ids, copies'[m][i].on
      PROVE  copies'[m][i].from \in knewOn'
  <2>1. m \in gone /\ m \in Nodes /\ ~listOn
    BY <1>1, <1>5 DEF DeletedInv, Types
  <2>2. CASE copies'[m][i] = copies[m][i]
    BY <1>1, <1>5, <2>1, <2>2 DEF DeletedInv, NoOtherLive
  <2>3. CASE copies'[m][i] # copies[m][i]
    <3>1. m = n /\ copies'[m][i] = CopyOf(g, i)
      BY <1>1, <2>1, <2>3
    <3>2. g.items[i].on /\ g.list = "on"
      BY <1>5, <3>1 DEF CopyOf, Off
    <3>3. copies'[m][i] = [on |-> TRUE, says |-> g.items[i].says, from |-> g.api]
      BY <3>1, <3>2 DEF CopyOf
    <3>4. copies'[m][i].from = g.api
      BY <3>3
    <3> QED BY <1>1, <1>3, <2>1, <3>2, <3>4
  <2> QED BY <2>2, <2>3
<1>6. NoOtherLive'
  BY <1>5 DEF NoOtherLive
<1>7. \A a \in APINodes : /\ listCache'[a] = "off" => ~listOn
                          /\ ~listOn /\ listCache'[a] = "on" => a \in knewOn
  BY <1>3, <1>4 DEF DeletedInv
<1>8. \A m \in Nodes : page'[m] # Idle => page'[m] = page[m]
  BY <1>1
<1> HIDE DEF g
<1> QED BY <1>1, <1>6, <1>7, <1>8 DEF DeletedInv

\* A node that drops the list has none of its items left.
LEMMA DeletedDrop ==
  ASSUME Types, DeletedInv, NEW n \in Nodes, DropList(n)
  PROVE  DeletedInv'
<1>1. /\ ~listOn /\ gone' = gone \cup {n} /\ copies' = [copies EXCEPT ![n] = [i \in Ids |-> Off]]
      /\ UNCHANGED <<listOn, listCache, knewOn, page>>
  BY DEF DropList, lists
<1>2. (\A i \in Ids : copies'[n][i] = Off) /\ \A m \in Nodes : m # n => copies'[m] = copies[m]
  BY <1>1 DEF Types
<1>3. ASSUME NEW m \in gone', NEW i \in Ids, copies'[m][i].on
      PROVE  copies'[m][i].from \in knewOn'
  <2>1. m # n
    BY <1>2, <1>3 DEF Off
  <2> QED BY <1>1, <1>2, <1>3, <2>1 DEF DeletedInv, NoOtherLive, Types
<1>4. NoOtherLive'
  BY <1>3 DEF NoOtherLive
<1> QED BY <1>1, <1>4 DEF DeletedInv

-----------------------------------------------------------------------------
(***************************************************************************)
(* What a node has seen of an item, and what is coming.                    *)
(***************************************************************************)

\* A row that says the same, up to expiry, of a node that has the same: nothing changes
\* for this item.
LEMMA ItemStays ==
  ASSUME NEW n \in Nodes, NEW i \in Ids, Coming(n, i), Seen(n, i), listOn' => listOn,
         cursor'[n] = cursor[n], copies'[n][i] = copies[n][i], page'[n] \in {page[n], Idle},
         <<n, i>> \in late \cup purged => <<n, i>> \in (late \cup purged)',
         rows'[i] # NoRow <=> rows[i] # NoRow,
         rows[i] # NoRow => /\ rows'[i].on = rows[i].on /\ rows'[i].says = rows[i].says
                            /\ rows'[i].version = rows[i].version
                            /\ rows[i].expired => rows'[i].expired
  PROVE  Coming(n, i)' /\ Seen(n, i)'
<1>1. Agrees(n, i) => Agrees(n, i)'
  BY DEF Agrees, Enabled, Stored
<1>2. Seen(n, i)'
  BY <1>1 DEF Seen
<1>3. ASSUME page'[n] # Idle, <<n, i>> \notin (late \cup purged)'
      PROVE  /\ i \in DOMAIN page'[n].items => rows'[i] # NoRow /\ cursor'[n] < rows'[i].version
             /\ rows'[i] = NoRow \/ rows'[i].version <= page'[n].version =>
                  IF i \in DOMAIN page'[n].items THEN PageAgrees(n, i)' ELSE Agrees(n, i)'
  <2>1. page'[n] = page[n] /\ page[n] # Idle /\ <<n, i>> \notin late \cup purged
    BY <1>3
  <2>2. i \in DOMAIN page[n].items => rows[i] # NoRow /\ cursor[n] < rows[i].version
    BY <2>1 DEF Coming
  <2>3. rows[i] = NoRow \/ rows[i].version <= page[n].version =>
          IF i \in DOMAIN page[n].items THEN PageAgrees(n, i) ELSE Agrees(n, i)
    BY <2>1 DEF Coming
  <2>4. i \in DOMAIN page[n].items /\ PageAgrees(n, i) => PageAgrees(n, i)'
    BY <2>1, <2>2 DEF PageAgrees
  <2> QED BY <1>1, <2>1, <2>2, <2>3, <2>4
<1> QED BY <1>2, <1>3 DEF Coming

\* A row written with a version a node has passed is noted, and one it has not passed
\* is still to come.
LEMMA ItemStamped ==
  ASSUME Types, Types', Ahead, NEW n \in Nodes, NEW i \in Ids, NEW v \in Versions, Stamp(i, v),
         rows'[i] \in Rows, rows'[i].version = v, UNCHANGED <<cursor, page>>
  PROVE  Coming(n, i)' /\ Seen(n, i)'
<1>1. CASE v <= Reach(n)
  <2>1. <<n, i>> \in late'
    BY <1>1 DEF Stamp
  <2> QED BY <2>1 DEF Coming, Seen
<1>2. CASE ~(v <= Reach(n))
  <2>1. v \in Nat /\ cursor[n] \in Nat /\ (page[n] # Idle => page[n].version \in Nat)
    <3>2. cursor[n] \in Versions \cup {0} /\ (page[n] # Idle => page[n] \in Pages)
      BY DEF Types
    <3>3. page[n] # Idle => page[n].version \in Versions
      BY <3>2, Fields
    <3> QED BY <3>2, <3>3, VersionsAreNatural
  <2>2. cursor[n] < v /\ (page[n] # Idle => page[n].version < v)
    BY <1>2, <2>1 DEF Reach, Ahead
  <2>3. rows'[i] # NoRow
    BY Somethings
  <2>4. ~(rows'[i].version <= cursor'[n]) /\ (page'[n] # Idle => ~(rows'[i].version <= page'[n].version))
    BY <2>1, <2>2
  <2>5. Seen(n, i)'
    BY <2>3, <2>4 DEF Seen
  <2>6. cursor'[n] < rows'[i].version
    BY <2>2
  <2>7. Coming(n, i)'
    BY <2>3, <2>4, <2>6 DEF Coming
  <2> QED BY <2>5, <2>7
<1> QED BY <1>1, <1>2

\* What Stamp does to other items: nothing.
LEMMA StampOther ==
  ASSUME Types, NEW i \in Ids, NEW j \in Ids, j # i, NEW n \in Nodes, NEW v, Stamp(i, v)
  PROVE  <<n, j>> \in late' <=> <<n, j>> \in late
BY DEF Stamp, Types

\* Inserted items have ids.
LEMMA InsertedIds ==
  ASSUME Types
  PROVE  1..created \subseteq Ids
BY SizeAssumption DEF Ids, Types

\* Steps that do not touch the rows, or only their age and expiry, and steps in which what
\* is on its way is lost.
LEMMA SeenStays ==
  ASSUME Types, SeenInv, UNCHANGED <<created, cursor, copies, late, purged>>, listOn' => listOn,
         \A n \in Nodes : page'[n] \in {page[n], Idle},
         \A i \in Ids : /\ rows'[i] # NoRow <=> rows[i] # NoRow
                        /\ rows[i] # NoRow => /\ rows'[i].on = rows[i].on /\ rows'[i].says = rows[i].says
                                              /\ rows'[i].version = rows[i].version
                                              /\ rows[i].expired => rows'[i].expired
  PROVE  SeenInv'
<1>1. Ahead'
  <2>1. \A n \in Nodes : page'[n] # Idle => page'[n] = page[n]
    OBVIOUS
  <2> QED BY <2>1 DEF SeenInv, Ahead
<1>2. ASSUME NEW n \in Nodes, NEW i \in 1..created'
      PROVE  Coming(n, i)' /\ Seen(n, i)'
  <2>1. i \in Ids /\ Coming(n, i) /\ Seen(n, i) /\ page'[n] \in {page[n], Idle}
    BY <1>2, InsertedIds DEF SeenInv
  <2>2. <<n, i>> \in late \cup purged => <<n, i>> \in (late \cup purged)'
    OBVIOUS
  <2> QED BY <2>1, <2>2, ItemStays
<1> QED BY <1>1, <1>2 DEF SeenInv

\* The clean-up: a node has seen that what is deleted was disabled, or that is noted.
LEMMA SeenClean ==
  ASSUME Types, Types', SeenInv, NEW p \in Procs, StartClean(p)
  PROVE  SeenInv'
<1> DEFINE gone7 == {i \in Stored : ~rows[i].on /\ rows[i].old}
           missed(n) == {i \in gone7 : rows[i].version > cursor[n] \/ <<n, i>> \in late}
<1>1. /\ UNCHANGED <<created, cursor, copies, page, late, listOn>>
      /\ rows' = [i \in Ids |-> IF i \in gone7 THEN NoRow ELSE rows[i]]
      /\ purged' = purged \cup UNION {{n} \X missed(n) : n \in Nodes}
  BY DEF StartClean, Start, node
<1>2. ASSUME NEW n \in Nodes, NEW i \in 1..created'
      PROVE  Coming(n, i)' /\ Seen(n, i)'
  <2>1. i \in Ids /\ Coming(n, i) /\ Seen(n, i)
    BY <1>1, <1>2, InsertedIds DEF SeenInv
  <2>2. <<n, i>> \in late \cup purged => <<n, i>> \in (late \cup purged)'
    BY <1>1
  <2>3. CASE i \notin gone7
    <3>1. rows'[i] = rows[i]
      BY <1>1, <2>1, <2>3
    <3> HIDE DEF gone7
    <3> QED BY <1>1, <2>1, <2>2, <3>1, ItemStays
  <2>4. CASE i \in gone7 /\ i \in missed(n)
    <3>1. <<n, i>> \in {n} \X missed(n)
      BY <2>4
    <3> HIDE DEF missed
    <3>2. <<n, i>> \in UNION {{m} \X missed(m) : m \in Nodes}
      BY <3>1
    <3>3. <<n, i>> \in purged'
      BY <1>1, <3>2
    <3> QED BY <3>3 DEF Coming, Seen
  <2>5. CASE i \in gone7 /\ i \notin missed(n)
    <3>1. rows[i] # NoRow /\ rows[i] \in Rows /\ ~rows[i].on
      BY <2>5, StoredIs DEF Stored
    <3>2. ~(rows[i].version > cursor[n]) /\ <<n, i>> \notin late
      BY <2>5
    <3>3. rows[i].version \in Nat /\ cursor[n] \in Nat
      <4>1. rows[i].version \in Versions /\ cursor[n] \in Versions \cup {0}
        BY <3>1, Fields DEF Types
      <4> QED BY <4>1, VersionsAreNatural
    <3>4. rows[i].version <= cursor[n] /\ ~(cursor[n] < rows[i].version)
      BY <3>2, <3>3
    <3>5. rows'[i] = NoRow
      BY <1>1, <2>1, <2>5
    <3> HIDE DEF gone7, missed
    <3>6. CASE <<n, i>> \in purged
      BY <2>2, <3>6 DEF Coming, Seen
    <3>7. CASE <<n, i>> \notin purged
      <4>1. ~copies[n][i].on
        BY <2>1, <3>1, <3>2, <3>4, <3>7 DEF Seen, Agrees
      <4>2. i \notin Enabled'
        BY <3>5 DEF Enabled, Stored
      <4>3. Agrees(n, i)'
        BY <1>1, <4>1, <4>2 DEF Agrees
      <4>4. page[n] # Idle => i \notin DOMAIN page[n].items
        BY <2>1, <3>2, <3>4, <3>7 DEF Coming
      <4> QED BY <1>1, <4>3, <4>4 DEF Seen, Coming
    <3> QED BY <3>6, <3>7
  <2> QED BY <2>3, <2>4, <2>5
<1>3. Ahead'
  BY <1>1 DEF SeenInv, Ahead
<1> HIDE DEF gone7, missed
<1> QED BY <1>2, <1>3 DEF SeenInv

\* An item is written or inserted.
LEMMA SeenWrite ==
  ASSUME Types, Types', SeenInv, UNCHANGED <<listOn, node, purged>>, NEW i \in Ids, NEW v \in Versions,
         rows'[i] \in Rows, rows'[i].version = v, Stamp(i, v), 1..created' \subseteq Ids,
         \A j \in 1..created' : j # i => j \in 1..created /\ rows'[j] = rows[j]
  PROVE  SeenInv'
<1>1. UNCHANGED <<cursor, copies, page>>
  BY DEF node
<1>2. Ahead'
  BY <1>1 DEF SeenInv, Ahead
<1>3. ASSUME NEW n \in Nodes, NEW j \in 1..created'
      PROVE  Coming(n, j)' /\ Seen(n, j)'
  <2>1. CASE j = i
    BY <1>1, <2>1, ItemStamped DEF SeenInv
  <2>2. CASE j # i
    <3>1. j \in Ids /\ rows'[j] = rows[j] /\ Coming(n, j) /\ Seen(n, j)
      BY <1>3, <2>2 DEF SeenInv
    <3>2. <<n, j>> \in late \cup purged => <<n, j>> \in (late \cup purged)'
      BY <2>2, <3>1, StampOther
    <3> QED BY <1>1, <3>1, <3>2, ItemStays
  <2> QED BY <2>1, <2>2
<1> QED BY <1>2, <1>3 DEF SeenInv

\* A page has, up to its version, everything the node misses.
LEMMA SeenFetch ==
  ASSUME Types, CallsInv, SeenInv, NEW n \in Nodes, FetchItems(n)
  PROVE  SeenInv'
<1> DEFINE first == FirstPage(cursor[n])
           g == page'[n]
<1>1. /\ UNCHANGED <<rows, created, listOn, cursor, copies, late, purged>>
      /\ \A m \in Nodes : m # n => page'[m] = page[m]
      /\ g \in Pages /\ DOMAIN g.items = first
      /\ \A i \in first : g.items[i] = Sent(rows[i]) /\ rows[i].version <= g.version
      /\ \E j \in first : g.version = rows[j].version
  BY FetchTyped DEF lists, history
<1>2. cursor[n] \in Versions \cup {0}
  BY DEF Types
<1>3. /\ first \subseteq After(cursor[n])
      /\ \A i \in After(cursor[n]) : rows[i] \in Rows /\ rows[i].version \in Nat /\ cursor[n] < rows[i].version
      /\ \A i \in After(cursor[n]), j \in first : rows[i].version <= rows[j].version => i \in first
  BY <1>2, PageIsLowest
<1>4. PICK j \in first : g.version = rows[j].version
  BY <1>1
<1> HIDE DEF first, g
<1>5. cursor[n] < g.version
  BY <1>3, <1>4
<1>6. Ahead'
  <2>1. ASSUME NEW m \in Nodes, page'[m] # Idle
        PROVE  cursor'[m] < page'[m].version
    <3>1. CASE m = n
      BY <1>1, <1>5, <3>1 DEF g
    <3>2. CASE m # n
      BY <1>1, <2>1, <3>2 DEF SeenInv, Ahead
    <3> QED BY <3>1, <3>2
  <2> QED BY <2>1 DEF Ahead
<1>7. ASSUME NEW m \in Nodes, NEW i \in 1..created'
      PROVE  Coming(m, i)' /\ Seen(m, i)'
  <2>1. i \in Ids /\ i \in 1..created /\ Coming(m, i) /\ Seen(m, i)
    BY <1>1, <1>7, InsertedIds DEF SeenInv
  <2>2. Agrees(m, i) => Agrees(m, i)'
    BY <1>1 DEF Agrees, Enabled, Stored
  <2>3. Seen(m, i)'
    BY <1>1, <2>1, <2>2 DEF Seen
  <2>4. CASE m # n
    <3>1. page'[m] \in {page[m], Idle}
      BY <1>1, <2>4
    <3>2. <<m, i>> \in late \cup purged => <<m, i>> \in (late \cup purged)'
      BY <1>1
    <3> QED BY <1>1, <2>1, <3>1, <3>2, ItemStays
  <2>5. CASE m = n
    <3>1. ASSUME i \in first
          PROVE  rows[i] # NoRow /\ cursor[n] < rows[i].version /\ PageAgrees(n, i)'
      <4>1. rows[i] \in Rows /\ cursor[n] < rows[i].version /\ g.items[i] = Sent(rows[i])
        BY <1>1, <1>3, <3>1
      <4>2. rows[i].on \in BOOLEAN /\ rows[i].expired \in BOOLEAN
        BY <4>1, Fields
      <4>3. page'[n].items[i].says = rows[i].says /\ page'[n].items[i].on = (rows[i].on /\ ~rows[i].expired)
        BY <4>1 DEF g, Sent
      <4>4. PageAgrees(n, i)'
        BY <1>1, <4>2, <4>3 DEF PageAgrees
      <4> QED BY <4>1, <4>4, Somethings
    <3>2. ASSUME i \notin first, <<n, i>> \notin late \cup purged, rows[i] = NoRow \/ rows[i].version <= g.version
          PROVE  Agrees(n, i)
      <4>1. rows[i] = NoRow \/ rows[i].version <= cursor[n]
        <5>1. CASE rows[i] = NoRow
          BY <5>1
        <5>2. CASE rows[i] # NoRow
          <6>1. i \in Stored /\ rows[i] \in Rows
            BY <2>1, <5>2, StoredIs
          <6>2. i \notin After(cursor[n])
            BY <1>3, <1>4, <3>2, <5>2
          <6>3. ~(rows[i].version > cursor[n])
            BY <6>1, <6>2 DEF After
          <6>4. rows[i].version \in Nat /\ cursor[n] \in Nat
            BY <1>2, <6>1, Fields, VersionsAreNatural
          <6> QED BY <6>3, <6>4
        <5> QED BY <5>1, <5>2
      <4> QED BY <2>1, <2>5, <3>2, <4>1 DEF Seen
    <3>3. Coming(n, i)'
      <4>1. ASSUME <<n, i>> \notin (late \cup purged)'
            PROVE  /\ i \in DOMAIN page'[n].items => rows'[i] # NoRow /\ cursor'[n] < rows'[i].version
                   /\ rows'[i] = NoRow \/ rows'[i].version <= page'[n].version =>
                        IF i \in DOMAIN page'[n].items THEN PageAgrees(n, i)' ELSE Agrees(n, i)'
        <5>1. DOMAIN page'[n].items = first /\ page'[n].version = g.version /\ <<n, i>> \notin late \cup purged
          BY <1>1, <4>1 DEF g
        <5>2. CASE i \in first
          BY <1>1, <3>1, <5>1, <5>2
        <5>3. CASE i \notin first
          BY <1>1, <2>2, <2>5, <3>2, <5>1, <5>3
        <5> QED BY <5>2, <5>3
      <4> QED BY <4>1 DEF Coming
    <3> QED BY <2>3, <2>5, <3>3
  <2> QED BY <2>4, <2>5
<1> QED BY <1>6, <1>7 DEF SeenInv

\* The list of an answer is looked up: what it has of items is the same.
LEMMA SeenFind ==
  ASSUME Types, CallsInv, SeenInv, NEW n \in Nodes, FindCached(n) \/ FindList(n)
  PROVE  SeenInv'
<1>1. /\ UNCHANGED <<rows, created, listOn, cursor, copies, late, purged>>
      /\ \A m \in Nodes : m # n => page'[m] = page[m]
      /\ page[n] \in Pages /\ page'[n].items = page[n].items /\ page'[n].version = page[n].version
  BY FindTyped DEF lists, history
<1>2. page[n] # Idle
  BY <1>1, Somethings
<1>3. \A m \in Nodes : page'[m] # Idle => /\ page[m] # Idle /\ page'[m].items = page[m].items
                                          /\ page'[m].version = page[m].version
  BY <1>1, <1>2
<1>4. Ahead'
  BY <1>1, <1>3 DEF SeenInv, Ahead
<1>5. ASSUME NEW m \in Nodes, NEW i \in 1..created'
      PROVE  Coming(m, i)' /\ Seen(m, i)'
  <2>1. i \in Ids /\ Coming(m, i) /\ Seen(m, i)
    BY <1>1, <1>5, InsertedIds DEF SeenInv
  <2>2. Agrees(m, i) <=> Agrees(m, i)'
    BY <1>1 DEF Agrees, Enabled, Stored
  <2>3. page'[m] # Idle => (PageAgrees(m, i) <=> PageAgrees(m, i)')
    BY <1>1, <1>3 DEF PageAgrees
  <2>4. Seen(m, i)'
    BY <1>1, <2>1, <2>2 DEF Seen
  <2>5. Coming(m, i)'
    BY <1>1, <1>3, <2>1, <2>2, <2>3 DEF Coming
  <2> QED BY <2>4, <2>5
<1> QED BY <1>4, <1>5 DEF SeenInv

\* The answer comes: what was coming has been seen.
LEMMA SeenAnswer ==
  ASSUME Types, CallsInv, DeletedInv, SeenInv, NEW n \in Nodes, Answer(n)
  PROVE  SeenInv'
<1> DEFINE g == page[n]
<1>1. /\ UNCHANGED <<rows, created, listOn, late, purged>>
      /\ \A m \in Nodes : m # n => page'[m] = page[m] /\ cursor'[m] = cursor[m] /\ copies'[m] = copies[m]
      /\ g \in Pages /\ g.list \in {"on", "off"} /\ page'[n] = Idle /\ cursor'[n] = g.version
      /\ \A i \in Ids : copies'[n][i] = IF i \in DOMAIN g.items THEN CopyOf(g, i) ELSE copies[n][i]
  BY AnswerTyped DEF history
<1>2. g # Idle /\ (g.list = "off" => ~listOn)
  BY <1>1, Somethings DEF DeletedInv
<1>3. Ahead'
  <2>1. \A m \in Nodes : page'[m] # Idle => m # n
    BY <1>1
  <2> QED BY <1>1, <2>1 DEF SeenInv, Ahead
<1>4. ASSUME NEW m \in Nodes, NEW i \in 1..created'
      PROVE  Coming(m, i)' /\ Seen(m, i)'
  <2>1. i \in Ids /\ Coming(m, i) /\ Seen(m, i)
    BY <1>1, <1>4, InsertedIds DEF SeenInv
  <2>2. CASE m # n
    <3>1. <<m, i>> \in late \cup purged => <<m, i>> \in (late \cup purged)'
      BY <1>1
    <3>2. cursor'[m] = cursor[m] /\ copies'[m][i] = copies[m][i] /\ page'[m] \in {page[m], Idle} /\ rows'[i] = rows[i]
      BY <1>1, <2>2
    <3> QED BY <1>1, <2>1, <3>1, <3>2, ItemStays
  <2>3. CASE m = n
    <3>1. Coming(n, i)'
      BY <1>1 DEF Coming
    <3>2. ASSUME <<n, i>> \notin late \cup purged, rows[i] = NoRow \/ rows[i].version <= g.version
          PROVE  Agrees(n, i)'
      <4>1. /\ i \in DOMAIN g.items => rows[i] # NoRow
            /\ IF i \in DOMAIN g.items THEN PageAgrees(n, i) ELSE Agrees(n, i)
        BY <1>2, <2>1, <2>3, <3>2 DEF Coming
      <4>2. CASE i \notin DOMAIN g.items
        <5>1. copies'[n][i] = copies[n][i]
          BY <1>1, <2>1, <4>2
        <5>2. Agrees(n, i)
          BY <4>1, <4>2
        <5> QED BY <1>1, <5>1, <5>2 DEF Agrees, Enabled, Stored
      <4>3. CASE i \in DOMAIN g.items
        <5>1. /\ rows[i] # NoRow /\ copies'[n][i] = CopyOf(g, i)
              /\ g.items[i].on => rows[i].on /\ g.items[i].says = rows[i].says
              /\ rows[i].on /\ ~rows[i].expired => g.items[i].on
          BY <1>1, <2>1, <4>1, <4>3 DEF PageAgrees
        <5>2. CASE g.items[i].on /\ g.list = "on"
          <6>1. copies'[n][i].on = TRUE /\ copies'[n][i].says = g.items[i].says
            BY <5>1, <5>2 DEF CopyOf
          <6> QED BY <1>1, <5>1, <5>2, <6>1 DEF Agrees
        <5>3. CASE ~(g.items[i].on /\ g.list = "on")
          <6>1. copies'[n][i].on = FALSE
            BY <5>1, <5>3 DEF CopyOf, Off
          <6>2. i \in Enabled' => rows[i].on
            BY <1>1 DEF Enabled
          <6>3. ~(i \in Enabled' /\ ~rows'[i].expired /\ listOn')
            BY <1>1, <1>2, <5>1, <5>3, <6>2
          <6> QED BY <6>1, <6>3 DEF Agrees
        <5> QED BY <5>2, <5>3
      <4> QED BY <4>2, <4>3
    <3>3. Seen(n, i)'
      BY <1>1, <3>2 DEF Seen
    <3> QED BY <2>3, <3>1, <3>3
  <2> QED BY <2>2, <2>3
<1> QED BY <1>3, <1>4 DEF SeenInv

\* A list that is dropped is a deleted one, of which nothing has to be there.
LEMMA SeenDrop ==
  ASSUME Types, SeenInv, NEW n \in Nodes, DropList(n)
  PROVE  SeenInv'
<1>1. /\ ~listOn /\ copies' = [copies EXCEPT ![n] = [i \in Ids |-> Off]]
      /\ UNCHANGED <<rows, created, listOn, cursor, page, late, purged>>
  BY DEF DropList, lists, table, history
<1>2. (\A i \in Ids : copies'[n][i] = Off) /\ \A m \in Nodes : m # n => copies'[m] = copies[m]
  BY <1>1 DEF Types
<1>3. Ahead'
  BY <1>1 DEF SeenInv, Ahead
<1>4. ASSUME NEW m \in Nodes, NEW i \in 1..created'
      PROVE  Coming(m, i)' /\ Seen(m, i)'
  <2>1. i \in Ids /\ Coming(m, i) /\ Seen(m, i)
    BY <1>1, <1>4, InsertedIds DEF SeenInv
  <2>2. CASE m # n
    <3>1. <<m, i>> \in late \cup purged => <<m, i>> \in (late \cup purged)'
      BY <1>1
    <3>2. cursor'[m] = cursor[m] /\ copies'[m][i] = copies[m][i] /\ page'[m] \in {page[m], Idle} /\ rows'[i] = rows[i]
      BY <1>1, <1>2, <2>2
    <3> QED BY <1>1, <2>1, <3>1, <3>2, ItemStays
  <2>3. CASE m = n
    <3>1. copies'[n][i].on = FALSE
      BY <1>2, <2>1 DEF Off
    <3>2. Agrees(n, i)'
      BY <1>1, <3>1 DEF Agrees
    <3>3. PageAgrees(n, i) <=> PageAgrees(n, i)'
      BY <1>1 DEF PageAgrees
    <3>4. Coming(n, i)'
      BY <1>1, <2>1, <2>3, <3>2, <3>3 DEF Coming
    <3> QED BY <2>3, <3>2, <3>4 DEF Seen
  <2> QED BY <2>2, <2>3
<1> QED BY <1>3, <1>4 DEF SeenInv

-----------------------------------------------------------------------------
\* Every list of items starts in the invariant.
LEMMA InitLists == Init => ListInv
<1> SUFFICES ASSUME Init
             PROVE  ListInv
  OBVIOUS
<1>1. MaxItems \in Nat /\ created = 0 /\ 0 \in 0..MaxItems
  BY SizeAssumption DEF Init
<1>2. V!Init
  BY DEF Init
<1>3. Types
  <2>1. \A n \in Nodes : page[n].pc = "idle"
    BY DEF Init, Idle
  <2> QED BY <1>1, <1>2, <2>1 DEF Init, Types, V!Init
<1>4. Creating = {}
  BY DEF Init, Creating
<1>5. IsFiniteSet(Creating) /\ Cardinality(Creating) = 0
  BY <1>4, FS_EmptySet
<1>6. CallsInv
  BY <1>1, <1>5 DEF Init, CallsInv
<1>7. DeletedInv
  BY DEF Init, DeletedInv, NoOtherLive
<1>8. SeenInv
  <2>1. 1..created = {}
    BY <1>1
  <2> QED BY <2>1 DEF Init, SeenInv, Ahead
<1> QED BY <1>3, <1>6, <1>7, <1>8 DEF ListInv

\* Every step keeps it.
LEMMA ListStep == ListInv /\ [Next]_vars => ListInv'
<1> SUFFICES ASSUME ListInv, [Next]_vars
             PROVE  ListInv'
  OBVIOUS
<1> USE DEF ListInv
<1> DEFINE Same(i) == /\ rows'[i] # NoRow <=> rows[i] # NoRow
                      /\ rows[i] # NoRow => /\ rows'[i].on = rows[i].on /\ rows'[i].says = rows[i].says
                                            /\ rows'[i].version = rows[i].version
                                            /\ rows[i].expired => rows'[i].expired
<1>0. rows' = rows => \A i \in Ids : Same(i)
  OBVIOUS
<1>1. ASSUME NEW p \in Procs,
             \/ StartDisableIPItem(p) \/ StartDisableIPItemsWithIP(p) \/ StartCreateIPItem(p) \/ StartUpdateIPItem(p)
             \/ List(p) \/ IncreaseVersion(p) \/ GetVersion(p)
      PROVE  ListInv'
  <2>1. Types' /\ CallsInv' /\ UNCHANGED <<rows, created, lists, node, history>>
    BY <1>1, StartsTyped, ListTyped, IncreaseVersionTyped, GetVersionTyped
  <2>2. UNCHANGED <<listOn, knewOn, listCache, gone, copies, page, cursor, late, purged>>
    BY <2>1 DEF lists, node, history
  <2>3. DeletedInv'
    BY <2>2, DeletedStays
  <2>4. SeenInv'
    BY <1>0, <2>1, <2>2, SeenStays
  <2> QED BY <2>1, <2>3, <2>4
<1>2. ASSUME NEW p \in Procs, StartDeleteIPList(p)
      PROVE  ListInv'
  <2>1. Types' /\ CallsInv' /\ DeletedInv'
    BY <1>2, StartDeleteTyped, DeletedNow
  <2>2. UNCHANGED <<rows, created, cursor, copies, page, late, purged>> /\ listOn' = FALSE
    BY <1>2 DEF StartDeleteIPList, Start, node
  <2>3. SeenInv'
    BY <1>0, <2>2, SeenStays
  <2> QED BY <2>1, <2>3
<1>3. ASSUME NEW p \in Procs, StartClean(p)
      PROVE  ListInv'
  <2>1. Types' /\ CallsInv'
    BY <1>3, StartCleanTyped
  <2>2. UNCHANGED <<listOn, knewOn, listCache, gone, copies, page>>
    BY <1>3 DEF StartClean, Start, node
  <2>3. DeletedInv'
    BY <2>2, DeletedStays
  <2>4. SeenInv'
    BY <1>3, <2>1, SeenClean
  <2> QED BY <2>1, <2>3, <2>4
<1>4. ASSUME NEW p \in Procs, InsertItem(p)
      PROVE  ListInv'
  <2>1. /\ Types' /\ CallsInv' /\ created' = created + 1 /\ created + 1 \in Ids
        /\ UNCHANGED <<lists, source, node, purged>>
        /\ rows'[created + 1] \in Rows /\ \A i \in 1..created : rows'[i] = rows[i]
        /\ \E v \in Versions : rows'[created + 1].version = v /\ Stamp(created + 1, v)
    BY <1>4, InsertItemTyped
  <2>2. UNCHANGED <<listOn, knewOn, listCache, gone, copies, page>>
    BY <2>1 DEF lists, node
  <2>3. DeletedInv'
    BY <2>2, DeletedStays
  <2>4. created \in Nat /\ MaxItems \in Nat /\ created + 1 <= MaxItems
    BY <2>1, SizeAssumption DEF Types, Ids
  <2>5. 1..created' \subseteq Ids
    BY <2>1, <2>4 DEF Ids
  <2>6. \A j \in 1..created' : j # created + 1 => j \in 1..created
    BY <2>1, <2>4
  <2>7. PICK v \in Versions : rows'[created + 1].version = v /\ Stamp(created + 1, v)
    BY <2>1
  <2>8. \A j \in 1..created' : j # created + 1 => j \in 1..created /\ rows'[j] = rows[j]
    BY <2>1, <2>6
  <2>9. UNCHANGED <<listOn, node, purged>>
    BY <2>1, <2>2
  <2>10. SeenInv'
    BY <2>1, <2>5, <2>7, <2>8, <2>9, SeenWrite
  <2> QED BY <2>1, <2>3, <2>10
<1>5. ASSUME NEW p \in Procs, WriteItem(p)
      PROVE  ListInv'
  <2>1. /\ Types' /\ CallsInv' /\ UNCHANGED <<created, lists, source, node, purged>>
        /\ \/ UNCHANGED <<rows, late>>
           \/ \E i \in 1..created, v \in Versions :
                /\ rows'[i] \in Rows /\ rows'[i].version = v /\ Stamp(i, v)
                /\ \A j \in Ids : j # i => rows'[j] = rows[j]
    BY <1>5, WriteItemTyped
  <2>2. UNCHANGED <<listOn, knewOn, listCache, gone, copies, page, cursor>>
    BY <2>1 DEF lists, node
  <2>3. DeletedInv'
    BY <2>2, DeletedStays
  <2>4. CASE UNCHANGED <<rows, late>>
    <3>1. SeenInv'
      BY <1>0, <2>1, <2>2, <2>4, SeenStays
    <3> QED BY <2>1, <2>3, <3>1
  <2>5. CASE ~UNCHANGED <<rows, late>>
    <3>1. PICK i \in 1..created, v \in Versions :
            /\ rows'[i] \in Rows /\ rows'[i].version = v /\ Stamp(i, v)
            /\ \A j \in Ids : j # i => rows'[j] = rows[j]
      BY <2>1, <2>5
    <3>2. 1..created' \subseteq Ids /\ i \in Ids /\ created' = created
      BY <2>1, InsertedIds
    <3>3. \A j \in 1..created' : j # i => j \in 1..created /\ rows'[j] = rows[j]
      BY <3>1, <3>2
    <3>4. UNCHANGED <<listOn, node, purged>>
      BY <2>1, <2>2
    <3>5. SeenInv'
      BY <2>1, <3>1, <3>2, <3>3, <3>4, SeenWrite
    <3> QED BY <2>1, <2>3, <3>5
  <2> QED BY <2>4, <2>5
<1>6. ASSUME NEW n \in Nodes, FetchItems(n) \/ FindCached(n) \/ FindList(n)
      PROVE  ListInv'
  <2>1. Types' /\ CallsInv'
    BY <1>6, FetchTyped, FindTyped
  <2> QED BY <1>6, <2>1, DeletedPage, SeenFetch, SeenFind
<1>7. ASSUME NEW n \in Nodes, Answer(n)
      PROVE  ListInv'
  <2>1. Types' /\ CallsInv'
    BY <1>7, AnswerTyped
  <2> QED BY <1>7, <2>1, DeletedAnswer, SeenAnswer
<1>8. ASSUME NEW n \in Nodes, DropList(n)
      PROVE  ListInv'
  <2>1. Types' /\ CallsInv'
    BY <1>8, RestTyped
  <2> QED BY <1>8, <2>1, DeletedDrop, SeenDrop
<1>9. ASSUME (\E i \in Ids : Expire(i)) \/ Week
      PROVE  ListInv'
  <2>1. Types' /\ CallsInv' /\ UNCHANGED <<created, lists, source, cursor, page, history>> /\ \A i \in Ids : Same(i)
    BY <1>9, RestTyped
  <2>2. UNCHANGED <<copies, gone>>
    BY <1>9 DEF Expire, Week, node
  <2>3. UNCHANGED <<listOn, knewOn, listCache, late, purged>>
    BY <2>1 DEF lists, history
  <2>4. DeletedInv'
    BY <2>1, <2>2, <2>3, DeletedStays
  <2>5. SeenInv'
    BY <2>1, <2>2, <2>3, SeenStays
  <2> QED BY <2>1, <2>4, <2>5
<1>10. ASSUME NEW a \in APINodes, Crash(a)
       PROVE  ListInv'
  <2>1. /\ Types' /\ CallsInv' /\ UNCHANGED <<rows, created, listOn, knewOn, cursor, copies, gone, late, purged>>
        /\ \A b \in APINodes : listCache'[b] \in {listCache[b], "none"}
        /\ \A n \in Nodes : page'[n] \in {page[n], Idle}
    BY <1>10, CrashTyped
  <2>2. DeletedInv'
    BY <2>1, DeletedStays
  <2>3. SeenInv'
    BY <1>0, <2>1, SeenStays
  <2> QED BY <2>1, <2>2, <2>3
<1>11. ASSUME UNCHANGED vars
       PROVE  ListInv'
  <2>1. /\ UNCHANGED <<rows, created, listOn, knewOn, listCache, issued, floor, call>>
        /\ UNCHANGED <<cursor, copies, page, gone, late, purged>>
    BY <1>11 DEF vars, table, lists, source, node, history
  <2>2. Types'
    BY <2>1 DEF Types
  <2>3. CallsInv'
    BY <2>1, CallsStay
  <2>4. DeletedInv'
    BY <2>1, DeletedStays
  <2>5. SeenInv'
    BY <1>0, <2>1, SeenStays
  <2> QED BY <2>2, <2>3, <2>4, <2>5
<1> HIDE DEF ListInv, Same
<1> QED BY <1>1, <1>2, <1>3, <1>4, <1>5, <1>6, <1>7, <1>8, <1>9, <1>10, <1>11 DEF Next

\* The invariant: calls work on items there are, a list known as deleted is deleted, and
\* what a node has passed it has seen, or will have with the answer under way.
THEOREM ListInvariant == Spec => []ListInv
BY InitLists, ListStep, PTL DEF Spec

\* Every variable has its type: among the rest, there is never an item more than there
\* are ids, however calls that create items overlap or die (IPItemDAO).
THEOREM TypeCorrect == Spec => []TypeOK
<1>1. ListInv => TypeOK
  <2> SUFFICES ASSUME ListInv
               PROVE  TypeOK
    OBVIOUS
  <2>1. Types /\ CallsInv
    BY DEF ListInv
  <2>2. ASSUME NEW p \in Procs
        PROVE  call[p] = Idle \/ /\ call[p].pc \in {"next", "version", "write"}
                                 /\ call[p].kind \in {"disable", "create", "update", "again", "clean"}
                                 /\ call[p].todo \subseteq 1..created
    BY <2>1, Fields DEF Types, CallsInv
  <2>3. \A i \in Ids : rows[i] = NoRow \/ rows[i] \in Rows
    BY <2>1 DEF Types
  <2>4. \A n \in Nodes, i \in Ids : copies[n][i] = Off \/ copies[n][i] \in [on : {TRUE}, says : Versions, from : APINodes]
    <3>1. ASSUME NEW n \in Nodes, NEW i \in Ids
          PROVE  copies[n][i] \in [on : {TRUE}, says : Versions, from : APINodes] \cup {Off}
      <4>1. copies[n] \in [Ids -> [on : {TRUE}, says : Versions, from : APINodes] \cup {Off}]
        BY <2>1 DEF Types
      <4> QED BY <4>1
    <3> QED BY <3>1
  <2>5. \A n \in Nodes : page[n] = Idle \/ page[n].version \in Versions
    BY <2>1, Fields DEF Types
  <2>6. /\ created \in 0..MaxItems /\ listOn \in BOOLEAN /\ listCache \in [APINodes -> {"none", "on", "off"}]
        /\ issued \in [APINodes -> SUBSET Versions] /\ floor \in [Procs -> Versions \cup {V!NoFloor}]
        /\ cursor \in [Nodes -> Versions \cup {0}]
    BY <2>1 DEF Types
  <2> QED BY <2>2, <2>3, <2>4, <2>5, <2>6 DEF TypeOK, Rows
<1> QED BY <1>1, ListInvariant, PTL

\* A node that has passed an item's version has the item as its row says, but for rows
\* written with a version it had passed before and rows deleted before it had seen them
\* disabled (ListIPItemsAfterVersion).
THEOREM NothingElseMissed == Spec => []NoOtherMiss
<1>1. ListInv => NoOtherMiss
  BY DEF ListInv, SeenInv, Seen, NoOtherMiss
<1> QED BY <1>1, ListInvariant, PTL

\* A node that has dropped a deleted list gets an item of it only from an API node that
\* had read the list before it was deleted (FindIPListCacheable).
THEOREM NoOtherItemLives == Spec => []NoOtherLive
<1>1. ListInv => NoOtherLive
  BY DEF ListInv, DeletedInv
<1> QED BY <1>1, ListInvariant, PTL

=============================================================================
