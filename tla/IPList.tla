-------------------------------- MODULE IPList --------------------------------
(***************************************************************************)
(* The items of one IP list and how they reach the edge nodes: the table   *)
(* edgeIPItems (IPItemDAO), its list (IPListDAO) with the cache of lists   *)
(* every API node keeps (listTypeCacheMap), the calls that write items,    *)
(* and the nodes that ask for the items above the version they have        *)
(* (ListIPItemsAfterVersion).                                              *)
(*                                                                         *)
(* Nothing runs in a transaction: a call takes a version, and writes its   *)
(* row in a later statement.  Versions come from VersionSource, which      *)
(* SysLocker implements.                                                   *)
(***************************************************************************)
EXTENDS Integers, FiniteSets, FiniteSetsExt, TLC

CONSTANTS
  APINodes, Procs, Home, Versions,   \* see VersionSource
  Nodes,       \* edge nodes
  IPs,         \* addresses an item may be about
  MaxItems,    \* bound: items ever inserted
  Size,        \* how many items a node asks for at once
  MaxCalls,    \* bound: calls that write items; an API node that dies takes the place of one
  MaxFaults    \* bound: API nodes that die

ASSUME SourceAssumption == Home \in [Procs -> APINodes] /\ Versions \subseteq Nat
ASSUME SizeAssumption   == {Size, MaxItems, MaxCalls, MaxFaults} \subseteq Nat /\ Size > 0

Ids   == 1..MaxItems
NoRow == [ip |-> {}]     \* no such row: not inserted yet, or deleted
Off   == [on |-> FALSE]  \* the node does not have the item
Idle  == [pc |-> "idle"]

VARIABLES
  rows,       \* rows[i]: the row of item i, or NoRow
  created,    \* how many items have been inserted: the last id
  listOn,     \* the column state of the list is enabled
  listCache,  \* listCache[a]: what API node a keeps of the list: "none", "on", "off"
  issued, floor,   \* the version source
  call,       \* call[p]: the call p works on, or Idle
  cursor,     \* cursor[n]: the version node n has reached
  copies,     \* copies[n][i]: item i as node n uses it, or Off
  page,       \* page[n]: the answer being made for node n, or Idle
  gone,       \* nodes that have been told that the list is deleted
  late,       \* history: items written with a version a node had already passed
  purged,     \* history: items deleted before a node had seen them disabled
  knewOn,     \* history: API nodes that had read the list before it was deleted
  calls, faults    \* counters for the bounds

source  == <<issued, floor>>
table   == <<rows, created>>
lists   == <<listOn, listCache, knewOn>>
node    == <<cursor, copies, page, gone>>
history == <<late, purged>>
bounds  == <<calls, faults>>
vars    == <<table, lists, source, call, node, history, bounds>>

V == INSTANCE VersionSource

Init ==
  /\ rows = [i \in Ids |-> NoRow]
  /\ created = 0
  /\ listOn = TRUE
  /\ listCache = [a \in APINodes |-> "none"]
  /\ V!Init
  /\ call = [p \in Procs |-> Idle]
  /\ cursor = [n \in Nodes |-> 0]
  /\ copies = [n \in Nodes |-> [i \in Ids |-> Off]]
  /\ page = [n \in Nodes |-> Idle]
  /\ gone = {}
  /\ late = {} /\ purged = {} /\ knewOn = {}
  /\ calls = 0 /\ faults = 0

Stored  == {i \in Ids : rows[i] # NoRow}
Enabled == {i \in Stored : rows[i].on}

EnabledOf(ip) == {i \in Enabled : rows[i].ip = ip}

-----------------------------------------------------------------------------
(***************************************************************************)
(* The calls.  Each disables the items in todo one by one; kind says what  *)
(* is left after the last of them.                                         *)
(***************************************************************************)

Creating == {p \in Procs : call[p] # Idle /\ call[p].kind = "create"}

Start(p, items, kind, ip) ==
  /\ call[p] = Idle
  /\ calls + faults < MaxCalls
  /\ calls' = calls + 1
  /\ call' = [call EXCEPT ![p] = [pc |-> "next", todo |-> items, kind |-> kind, ip |-> ip, version |-> 0]]
  /\ UNCHANGED <<source, created, listCache, node, late, faults>>

\* DeleteIPItem with an id: that row, whatever its state.
StartDisableIPItem(p) ==
  /\ \E i \in Stored : Start(p, {i}, "disable", {})
  /\ UNCHANGED <<rows, listOn, knewOn, purged>>

\* DeleteIPItem with a value or an address: the enabled items of it; without any
\* it does nothing.
StartDisableIPItemsWithIP(p) ==
  /\ \E ip \in IPs : EnabledOf(ip) # {} /\ Start(p, EnabledOf(ip), "disable", {})
  /\ UNCHANGED <<rows, listOn, knewOn, purged>>

\* CreateIPItem: DeleteOldItem disables the enabled items of the address first.
StartCreateIPItem(p) ==
  /\ created + Cardinality(Creating) < MaxItems
  /\ \E ip \in IPs : Start(p, EnabledOf(ip), "create", ip)
  /\ UNCHANGED <<rows, listOn, knewOn, purged>>

\* UpdateIPItem: the item exists, in any state.
StartUpdateIPItem(p) ==
  /\ \E i \in Stored : Start(p, {i}, "update", {})
  /\ UNCHANGED <<rows, listOn, knewOn, purged>>

\* DeleteIPList disables the list and has the nodes told so (a node task); then
\* DisableIPItemsWithListId lists the enabled items again and again.
StartDeleteIPList(p) ==
  /\ listOn
  /\ Start(p, {}, "again", {})
  /\ listOn' = FALSE
  /\ knewOn' = {a \in APINodes : listCache[a] = "on"}
                 \cup {page[n].api : n \in {m \in Nodes : page[m] # Idle /\ page[m].list = "on"}}
  /\ UNCHANGED <<rows, purged>>

\* CleanExpiredIPItems, every minute on every API node, first deletes the disabled
\* rows that were inserted more than seven days ago (disabling an item does not
\* touch its updatedAt); then it lists the expired items.
StartClean(p) ==
  LET gone7 == {i \in Stored : ~rows[i].on /\ rows[i].old}
      missed(n) == {i \in gone7 : rows[i].version > cursor[n] \/ <<n, i>> \in late}
  IN  /\ Start(p, {}, "clean", {})
      /\ rows' = [i \in Ids |-> IF i \in gone7 THEN NoRow ELSE rows[i]]
      /\ purged' = purged \cup UNION {{n} \X missed(n) : n \in Nodes}
      /\ UNCHANGED <<listOn, knewOn>>

callOnly == <<table, lists, node, history, bounds>>

\* The items to disable are listed (again).
List(p) ==
  LET k == call[p].kind
      items == IF k = "clean" THEN {i \in Enabled : rows[i].expired} ELSE Enabled
  IN  /\ call[p].pc = "next" /\ k \in {"again", "clean"} /\ call[p].todo = {}
      /\ call' = [call EXCEPT ![p] = IF items = {} THEN Idle
                   ELSE [@ EXCEPT !.todo = items, !.kind = IF k = "clean" THEN "disable" ELSE "again"]]
      /\ UNCHANGED <<callOnly, source>>

\* The least that a call of p can have to come after; any more only leaves it
\* fewer versions to get.
LeastFloor(p) == Max(issued[Home[p]] \cup {V!NoFloor})

\* IPListDAO.IncreaseVersion is called ...
IncreaseVersion(p) ==
  /\ call[p].pc = "next"
  /\ call[p].todo # {} \/ call[p].kind = "create"
  /\ V!Begin(p, LeastFloor(p))
  /\ call' = [call EXCEPT ![p].pc = "version"]
  /\ UNCHANGED callOnly

\* ... and returns.
GetVersion(p) ==
  /\ call[p].pc = "version"
  /\ \E v \in Versions :
       /\ V!HandOut(p, {v})
       /\ call' = [call EXCEPT ![p].pc = "write", ![p].version = v]
  /\ UNCHANGED callOnly

\* The version node n has reached, or will have with the answer under way.
Reach(n) == IF page[n] = Idle THEN cursor[n] ELSE page[n].version

\* A row is written with version v: a node that has passed v never asks for it.
Stamp(i, v) ==
  late' = {x \in late : x[2] # i} \cup {<<n, i>> : n \in {m \in Nodes : v <= Reach(m)}}

\* Mutant: the version taken is not stored.
NewItemNoVersion(ip, v) ==
  [ip |-> ip, says |-> v, on |-> TRUE, version |-> 0, expired |-> FALSE, old |-> FALSE]

\* What an item says is told apart by the version it was written with.
NewItem(ip, v) ==
  [ip |-> ip, says |-> v, on |-> TRUE, version |-> v, expired |-> FALSE, old |-> FALSE]

InsertItem(p) ==
  LET c == call[p]
  IN  /\ c.pc = "write" /\ c.kind = "create" /\ c.todo = {}
      /\ created' = created + 1
      /\ rows' = [rows EXCEPT ![created + 1] = NewItem(c.ip, c.version)]
      /\ Stamp(created + 1, c.version)
      /\ call' = [call EXCEPT ![p] = Idle]
      /\ UNCHANGED <<lists, source, node, purged, bounds>>

\* The row as the UPDATE leaves it.  An update may bring a new time of expiry and
\* leaves the state; the sweep of a list only writes rows that are still enabled.
\* Of a disabled item nobody asks any more whether it has expired.
Written(r, c) ==
  IF r = NoRow \/ (c.kind = "again" /\ ~r.on) THEN r
  ELSE IF c.kind = "update" THEN [r EXCEPT !.says = c.version, !.expired = FALSE, !.version = c.version]
  ELSE [r EXCEPT !.on = FALSE, !.expired = FALSE, !.version = c.version]

WriteItem(p) ==
  LET c == call[p]
      i == Min(c.todo)
      r == Written(rows[i], c)
      rest == c.todo \ {i}
  IN  /\ c.pc = "write" /\ c.todo # {}
      /\ rows' = [rows EXCEPT ![i] = r]
      /\ IF r = rows[i] THEN UNCHANGED late ELSE Stamp(i, c.version)
      /\ call' = [call EXCEPT ![p] = IF rest = {} /\ c.kind \in {"disable", "update"} THEN Idle
                                     ELSE [@ EXCEPT !.pc = "next", !.todo = rest, !.version = 0]]
      /\ UNCHANGED <<created, lists, source, node, purged, bounds>>

-----------------------------------------------------------------------------
(***************************************************************************)
(* The nodes.                                                              *)
(***************************************************************************)

\* An item as it is sent: one that is disabled or has expired is sent as deleted.
Sent(r) == [says |-> r.says, on |-> r.on /\ ~r.expired]

\* Mutant: only enabled items are listed.
AfterEnabled(v) == {i \in Enabled : rows[i].version > v}

\* ListIPItemsAfterVersion: rows in any state above version v, the lowest first.
After(v) == {i \in Stored : rows[i].version > v}

FirstPage(v) == {i \in After(v) : Cardinality({j \in After(v) : rows[j].version < rows[i].version}) < Size}

pageOnly == <<table, lists, source, call, cursor, copies, gone, history, bounds>>

\* The items of an answer are read, as they are sent.
FetchItems(n) ==
  LET items == FirstPage(cursor[n])
  IN  /\ page[n] = Idle /\ items # {}
      /\ \E a \in APINodes :
           page' = [page EXCEPT ![n] =
             [pc |-> "cache", api |-> a, items |-> [i \in items |-> Sent(rows[i])], list |-> "none",
              version |-> Max({rows[i].version : i \in items})]]
      /\ UNCHANGED pageOnly

\* FindIPListCacheable: the list may be in the cache of the API node, ...
FindCached(n) ==
  LET l == listCache[page[n].api]
  IN  /\ page[n].pc = "cache"
      /\ page' = [page EXCEPT ![n].list = l, ![n].pc = IF l = "none" THEN "table" ELSE "answer"]
      /\ UNCHANGED pageOnly

\* ... or is read from the table.
FindList(n) ==
  /\ page[n].pc = "table"
  /\ page' = [page EXCEPT ![n].list = IF listOn THEN "on" ELSE "off", ![n].pc = "store"]
  /\ UNCHANGED pageOnly

\* Mutant: the state of the list is not looked at.
CopyOfAnyList(g, i) ==
  IF g.items[i].on THEN [on |-> TRUE, says |-> g.items[i].says, from |-> g.api] ELSE Off

\* What a node makes of an item: one of a deleted list is sent as deleted, too.
CopyOf(g, i) ==
  IF g.items[i].on /\ g.list = "on" THEN [on |-> TRUE, says |-> g.items[i].says, from |-> g.api] ELSE Off

\* What has been read goes to the cache (nothing ever takes it out), the answer to the node.
Answer(n) ==
  LET g == page[n]
  IN  /\ g.pc \in {"store", "answer"}
      /\ listCache' = IF g.pc = "store" THEN [listCache EXCEPT ![g.api] = g.list] ELSE listCache
      /\ cursor' = [cursor EXCEPT ![n] = g.version]
      /\ copies' = [copies EXCEPT ![n] = [i \in Ids |-> IF i \in DOMAIN g.items THEN CopyOf(g, i) ELSE @[i]]]
      /\ page' = [page EXCEPT ![n] = Idle]
      /\ UNCHANGED <<table, listOn, knewOn, source, call, gone, history, bounds>>

\* The node's task that says the list is deleted: it drops the items it has.
DropList(n) ==
  /\ ~listOn /\ n \notin gone
  /\ gone' = gone \cup {n}
  /\ copies' = [copies EXCEPT ![n] = [i \in Ids |-> Off]]
  /\ UNCHANGED <<table, lists, source, call, cursor, page, history, bounds>>

-----------------------------------------------------------------------------
\* The time of expiry of an enabled item passes.
Expire(i) ==
  /\ i \in Enabled /\ ~rows[i].expired
  /\ rows' = [rows EXCEPT ![i].expired = TRUE]
  /\ UNCHANGED <<created, lists, source, call, node, history, bounds>>

\* Seven days pass, and no call or answer takes that long.
Week ==
  /\ \A p \in Procs : call[p] = Idle
  /\ \A n \in Nodes : page[n] = Idle
  /\ \E i \in Stored : ~rows[i].old
  /\ rows' = [i \in Ids |-> IF i \in Stored THEN [rows[i] EXCEPT !.old = TRUE] ELSE NoRow]
  /\ UNCHANGED <<created, lists, source, call, node, history, bounds>>

\* API node a has a call, a list or an answer to lose.
Busy(a) ==
  \/ listCache[a] # "none"
  \/ \E p \in Procs : Home[p] = a /\ call[p] # Idle
  \/ \E n \in Nodes : page[n] # Idle /\ page[n].api = a

\* API node a dies with its calls, its cache and the answers it is making.
Crash(a) ==
  /\ Busy(a)
  /\ faults < MaxFaults
  /\ faults' = faults + 1
  /\ V!Fail({p \in Procs : Home[p] = a})
  /\ call' = [p \in Procs |-> IF Home[p] = a THEN Idle ELSE call[p]]
  /\ listCache' = [listCache EXCEPT ![a] = "none"]
  /\ page' = [n \in Nodes |-> IF page[n] # Idle /\ page[n].api = a THEN Idle ELSE page[n]]
  /\ UNCHANGED <<table, listOn, knewOn, cursor, copies, gone, history, calls>>

Next ==
  \/ \E p \in Procs :
       \/ StartDisableIPItem(p) \/ StartDisableIPItemsWithIP(p) \/ StartCreateIPItem(p)
       \/ StartUpdateIPItem(p) \/ StartDeleteIPList(p) \/ StartClean(p)
       \/ List(p) \/ IncreaseVersion(p) \/ GetVersion(p) \/ InsertItem(p) \/ WriteItem(p)
  \/ \E n \in Nodes : FetchItems(n) \/ FindCached(n) \/ FindList(n) \/ Answer(n) \/ DropList(n)
  \/ \E i \in Ids : Expire(i)
  \/ Week
  \/ \E a \in APINodes : Crash(a)

Spec == Init /\ [][Next]_vars

-----------------------------------------------------------------------------
TypeOK ==
  /\ created \in 0..MaxItems
  /\ \A i \in Ids : rows[i] = NoRow
       \/ rows[i] \in [ip : IPs, says : Versions, on : BOOLEAN, version : Versions, expired : BOOLEAN, old : BOOLEAN]
  /\ listOn \in BOOLEAN
  /\ listCache \in [APINodes -> {"none", "on", "off"}]
  /\ issued \in [APINodes -> SUBSET Versions] /\ floor \in [Procs -> Versions \cup {V!NoFloor}]
  /\ \A p \in Procs : call[p] = Idle \/
       /\ call[p].pc \in {"next", "version", "write"}
       /\ call[p].kind \in {"disable", "create", "update", "again", "clean"}
       /\ call[p].todo \subseteq 1..created
  /\ cursor \in [Nodes -> Versions \cup {0}]
  /\ \A n \in Nodes, i \in Ids : copies[n][i] = Off
       \/ copies[n][i] \in [on : {TRUE}, says : Versions, from : APINodes]
  /\ \A n \in Nodes : page[n] = Idle \/ page[n].version \in Versions

\* What node n does with item i is what its row says, up to expiry and to a list
\* that is deleted.
Agrees(n, i) ==
  LET c == copies[n][i]
  IN  /\ c.on => rows[i] # NoRow /\ rows[i].on /\ c.says = rows[i].says
      /\ i \in Enabled /\ ~rows[i].expired /\ listOn => c.on

\* A node that has passed an item's version has the item as its row says, unless
\* the row was written with a version the node had already passed, or deleted
\* before the node had seen it disabled (ListIPItemsAfterVersion: "我们要知道哪些是
\* 删除的").
NoOtherMiss ==
  \A n \in Nodes, i \in 1..created :
    /\ <<n, i>> \notin late \cup purged
    /\ rows[i] = NoRow \/ rows[i].version <= cursor[n]
    => Agrees(n, i)

\* A node that has dropped a deleted list ("如果已经删除") gets an item of it only
\* from an API node that had read the list before it was deleted.
NoOtherLive ==
  \A n \in gone, i \in Ids : copies[n][i].on => copies[n][i].from \in knewOn
===============================================================================
