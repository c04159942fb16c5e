------------------------------- MODULE TTLCache -------------------------------
(***************************************************************************)
(* One piece of the cache with time limits (ttlcache.Piece) and its expiry *)
(* list (expires.List), as the program uses them to find a node by its     *)
(* unique id: NodeDAO.FindEnabledNodeIdWithUniqueId reads the cache, then  *)
(* the node's row and its cluster's, and writes what it has found;         *)
(* NodeDAO.DisableNode deletes the key and then disables the row; the      *)
(* manager's goroutine collects what has expired.  The piece and the list  *)
(* have a lock each: every operation on both is two steps.                 *)
(***************************************************************************)
EXTENDS Integers, FiniteSets

CONSTANTS
  Keys,      \* unique ids of nodes
  Callers,   \* calls of FindEnabledNodeIdWithUniqueId at the same time
  MaxItems,  \* items of the piece
  TTL,       \* seconds an item is kept: 60 in the code
  MaxTime,   \* bound: the clock
  MaxCalls,  \* bound: lookups
  MaxBack    \* bound: times the clock is set back

ASSUME SizeAssumption == MaxItems \in Nat \ {0} /\ TTL \in Nat \ {0}
ASSUME BoundAssumption == MaxTime \in Nat \ {0} /\ {MaxCalls, MaxBack} \subseteq Nat

Absent == 0   \* no item, no entry: the clock starts at 1

VARIABLES
  now,        \* the clock, in seconds
  m,          \* m[k]: expiredAt of the item of k, or Absent
  itemsMap,   \* itemsMap[k]: when the list has k expire, or Absent
  lastTimestamp,  \* the earliest expiry the list has ever had
  lastGCTime, \* the second the piece was last collected in
  gc,         \* the collector: its step, second, last second, and what it has taken
  enabled,    \* enabled[k]: the row of node k is enabled
  clusterOn,  \* clusterOn[k]: the row of its cluster says that it is on
  call,       \* call[c]: step, key and expiry of a lookup
  off,        \* step and key of DisableNode
  goneAt,     \* history: when node k was gone, see Found
  overtaken,  \* history: keys of nodes that were gone behind a lookup; neither
              \* says anything once the clock has been set back
  late,       \* history: keys put into the list behind the collector
  calls, backs  \* counters for the bounds

vars  == <<now, m, itemsMap, lastTimestamp, lastGCTime, gc, enabled, clusterOn, call, off, goneAt, overtaken, late, calls, backs>>
piece == <<m, itemsMap, lastTimestamp, lastGCTime, late>>
rows  == <<enabled, clusterOn, goneAt, overtaken>>
clock == <<now, backs>>

Idle  == [pc |-> "idle"]

Init ==
  /\ now = 1 /\ lastGCTime = 1
  /\ m = [k \in Keys |-> Absent]
  /\ itemsMap = [k \in Keys |-> Absent]
  /\ lastTimestamp = 0
  /\ gc = Idle /\ off = Idle
  /\ enabled = [k \in Keys |-> TRUE]
  /\ clusterOn = [k \in Keys |-> TRUE]
  /\ call = [c \in Callers |-> Idle]
  /\ goneAt = [k \in Keys |-> 0]
  /\ overtaken = {} /\ late = {}
  /\ calls = 0 /\ backs = 0

\* A bound on the clock: nothing is written that would expire after MaxTime.
Tick ==
  /\ now < MaxTime /\ now' = now + 1
  /\ UNCHANGED <<piece, gc, rows, call, off, calls, backs>>

SetBack ==
  /\ backs < MaxBack /\ backs' = backs + 1
  /\ \E t \in 1..(now - 1) : now' = t
  /\ goneAt' = [k \in Keys |-> 0] /\ overtaken' = {}
  /\ UNCHANGED <<piece, gc, enabled, clusterOn, call, off, calls>>

-----------------------------------------------------------------------------
(***************************************************************************)
(* FindEnabledNodeIdWithUniqueId.                                          *)
(***************************************************************************)

\* What utils.UnixTime may say: it is brought up to date five times a second.
UnixTime == {now - 1, now}

\* Mutant: the item is not looked at more closely.
AliveAlways(k, t) == m[k] # Absent

\* Read: an item serves to the end of its last second.
Alive(k, t) == m[k] # Absent /\ m[k] >= t

Step(c, r) == call' = [call EXCEPT ![c] = r]

Start(c) ==
  /\ call[c] = Idle
  /\ calls < MaxCalls /\ calls' = calls + 1
  /\ \E k \in Keys : Step(c, [pc |-> "read", key |-> k])
  /\ UNCHANGED <<clock, piece, gc, rows, off>>

Hit(c) ==
  /\ call[c].pc = "read" /\ \E t \in UnixTime : Alive(call[c].key, t)
  /\ Step(c, Idle)
  /\ UNCHANGED <<clock, piece, gc, rows, off, calls>>

Miss(c) ==
  /\ call[c].pc = "read" /\ \E t \in UnixTime : ~Alive(call[c].key, t)
  /\ Step(c, [call[c] EXCEPT !.pc = "row"])
  /\ UNCHANGED <<clock, piece, gc, rows, off, calls>>

ReadRow(c) ==
  /\ call[c].pc = "row"
  /\ Step(c, IF enabled[call[c].key] THEN [call[c] EXCEPT !.pc = "cluster"] ELSE Idle)
  /\ UNCHANGED <<clock, piece, gc, rows, off, calls>>

ReadCluster(c) ==
  /\ call[c].pc = "cluster"
  /\ Step(c, IF clusterOn[call[c].key] THEN [call[c] EXCEPT !.pc = "expire"] ELSE Idle)
  /\ UNCHANGED <<clock, piece, gc, rows, off, calls>>

Expire(c) ==
  /\ call[c].pc = "expire" /\ now + TTL < MaxTime
  /\ Step(c, [pc |-> "put", key |-> call[c].key, e |-> now + TTL])
  /\ UNCHANGED <<clock, piece, gc, rows, off, calls>>

\* A piece that is full takes no item, not even a new one of a key it has.
HasRoom == Cardinality({k \in Keys : m[k] # Absent}) < MaxItems

\* Cache.Write and the first half of Piece.Add.
Put(c) ==
  LET k == call[c].key
  IN  /\ call[c].pc = "put"
      /\ \/ /\ HasRoom /\ \E t \in UnixTime : call[c].e > t
            /\ m' = [m EXCEPT ![k] = call[c].e] /\ Step(c, [call[c] EXCEPT !.pc = "list"])
         \/ /\ HasRoom => \E t \in UnixTime : call[c].e <= t
            /\ Step(c, Idle) /\ UNCHANGED m
      /\ UNCHANGED <<clock, itemsMap, lastTimestamp, lastGCTime, late, gc, rows, off, calls>>

Earliest(e) == IF lastTimestamp = 0 \/ lastTimestamp > e THEN e ELSE lastTimestamp

\* The first second the collector still looks at: the last one of a run belongs to
\* the next run too.
Position ==
  IF gc = Idle THEN lastGCTime
  ELSE LET i == IF gc.pc = "map" THEN gc.i + 1 ELSE gc.i
       IN  IF i < gc.max THEN i ELSE gc.max

\* The second half: List.Add, which moves a key it has.
AddEntry(c) ==
  LET k == call[c].key   e == call[c].e
  IN  /\ call[c].pc = "list"
      /\ itemsMap' = [itemsMap EXCEPT ![k] = e]
      /\ lastTimestamp' = Earliest(e)
      /\ late' = IF e < Position THEN late \cup {k} ELSE late \ {k}
      /\ Step(c, Idle)
      /\ UNCHANGED <<clock, m, lastGCTime, gc, rows, off, calls>>

-----------------------------------------------------------------------------
(***************************************************************************)
(* DisableNode, and a cluster that is turned off.                          *)
(***************************************************************************)

Found(k) == enabled[k] /\ clusterOn[k]

\* A lookup of k is at one of these steps.
At(k, steps) == \E c \in Callers : call[c] # Idle /\ call[c].key = k /\ call[c].pc \in steps

\* A row of k changes; the lookups at these steps have read it before.
Gone(k, steps) ==
  IF Found(k) /\ backs = 0
  THEN /\ goneAt' = [goneAt EXCEPT ![k] = now]
       /\ overtaken' = IF At(k, steps) THEN overtaken \cup {k} ELSE overtaken
  ELSE UNCHANGED <<goneAt, overtaken>>

\* Nothing tells the cache.
TurnOff(k) ==
  /\ clusterOn[k]
  /\ clusterOn' = [clusterOn EXCEPT ![k] = FALSE]
  /\ Gone(k, {"expire", "put"})
  /\ UNCHANGED <<clock, piece, gc, enabled, call, off, calls>>

Disable(k) ==
  /\ off = Idle /\ enabled[k]
  /\ off' = [pc |-> "first", key |-> k]
  /\ UNCHANGED <<clock, piece, gc, rows, call, calls>>

\* Mutant: the item first, then its entry.
ItemFirst == <<"map", "list">>

\* Piece.Delete: the entry of the list first, then the item.
DeleteOrder == <<"list", "map">>

RemoveFrom(part, k) ==
  /\ itemsMap' = IF part = "list" THEN [itemsMap EXCEPT ![k] = Absent] ELSE itemsMap
  /\ m' = IF part = "map" THEN [m EXCEPT ![k] = Absent] ELSE m

Delete ==
  /\ off.pc \in {"first", "second"}
  /\ RemoveFrom(DeleteOrder[IF off.pc = "first" THEN 1 ELSE 2], off.key)
  /\ off' = [off EXCEPT !.pc = IF off.pc = "first" THEN "second" ELSE "row"]
  /\ UNCHANGED <<clock, lastTimestamp, lastGCTime, late, gc, rows, call, calls>>

DisableRow ==
  /\ off.pc = "row"
  /\ enabled' = [enabled EXCEPT ![off.key] = FALSE]
  /\ Gone(off.key, {"cluster", "expire", "put"})
  /\ off' = Idle
  /\ UNCHANGED <<clock, piece, gc, clusterOn, call, calls>>

-----------------------------------------------------------------------------
(***************************************************************************)
(* Piece.GC, by the goroutine of the manager.                              *)
(***************************************************************************)

\* The last second is collected once more; a clock that has gone back starts it anew.
StartGC ==
  /\ gc = Idle
  /\ gc' = [pc |-> "list", i |-> IF lastGCTime > now THEN now ELSE lastGCTime, max |-> now, keys |-> {}]
  /\ UNCHANGED <<clock, piece, rows, call, off, calls>>

\* List.GC: the entries of one second; nothing is done before the earliest.
Expired(i) == IF lastTimestamp > i + 1 THEN {} ELSE {k \in Keys : itemsMap[k] = i}

TakeEntries ==
  LET taken == Expired(gc.i)
  IN  /\ gc.pc = "list" /\ gc.i <= gc.max
      /\ itemsMap' = [k \in Keys |-> IF k \in taken THEN Absent ELSE itemsMap[k]]
      /\ gc' = IF taken = {} THEN [gc EXCEPT !.i = @ + 1] ELSE [gc EXCEPT !.pc = "map", !.keys = taken]
      /\ UNCHANGED <<clock, m, lastTimestamp, lastGCTime, late, rows, call, off, calls>>

\* gcItemMap: whatever item the key has by now.
DropItems ==
  /\ gc.pc = "map"
  /\ m' = [k \in Keys |-> IF k \in gc.keys THEN Absent ELSE m[k]]
  /\ gc' = [gc EXCEPT !.pc = "list", !.i = @ + 1, !.keys = {}]
  /\ UNCHANGED <<clock, itemsMap, lastTimestamp, lastGCTime, late, rows, call, off, calls>>

\* Mutant: one second too many.
CollectedToNext == gc.i

\* What has been collected: the seconds until the clock was read.
CollectedTo == gc.max

EndGC ==
  /\ gc.pc = "list" /\ gc.i > gc.max
  /\ lastGCTime' = CollectedTo
  /\ gc' = Idle
  /\ UNCHANGED <<clock, m, itemsMap, lastTimestamp, late, rows, call, off, calls>>

-----------------------------------------------------------------------------
Find(c) == Hit(c) \/ Miss(c) \/ ReadRow(c) \/ ReadCluster(c) \/ Expire(c) \/ Put(c) \/ AddEntry(c)
Collect == StartGC \/ TakeEntries \/ DropItems \/ EndGC

Next ==
  \/ Tick \/ SetBack
  \/ \E c \in Callers : Start(c) \/ Find(c)
  \/ \E k \in Keys : TurnOff(k) \/ Disable(k)
  \/ Delete \/ DisableRow
  \/ Collect

Spec == Init /\ [][Next]_vars

-----------------------------------------------------------------------------
Times == 1..MaxTime

TypeOK ==
  /\ now \in Times /\ lastGCTime \in Times /\ lastTimestamp \in {0} \cup Times
  /\ m \in [Keys -> {Absent} \cup Times]
  /\ itemsMap \in [Keys -> {Absent} \cup Times]
  /\ gc.pc \in {"idle", "list", "map"} /\ off.pc \in {"idle", "first", "second", "row"}
  /\ \A c \in Callers : call[c].pc \in {"idle", "read", "row", "cluster", "expire", "put", "list"}
  /\ {enabled, clusterOn} \subseteq [Keys -> BOOLEAN]
  /\ Cardinality({k \in Keys : m[k] # Absent}) <= MaxItems

\* Somebody is about to give k an entry, or to take its item away.
AtWork(k) ==
  \/ \E c \in Callers : call[c].pc = "list" /\ call[c].key = k
  \/ off # Idle /\ off.key = k /\ off.pc = "second"
  \/ gc # Idle /\ k \in gc.keys

\* An item can be collected: it has an entry the collector has not passed, or somebody
\* is at work on it, whatever lookups, DisableNode and the collector do at the same time
\* (Piece.Add, Delete and GC).  Only an entry that was put behind the collector is lost:
\* by a lookup that was stopped for longer than TTL, or after the clock was set back.
NoLeak == \A k \in Keys \ late : m[k] # Absent => AtWork(k) \/ itemsMap[k] >= Position

\* A node that is gone is answered from the cache for TTL seconds at most, and the one
\* UnixTime may be late by, unless a lookup had read the row before it changed or the
\* clock was set back (FindEnabledNodeIdWithUniqueId, which is what lets a node call
\* the API).
StaleBounded ==
  [][\A c \in Callers : LET k == call[c].key IN
       call[c] # Idle /\ call[c].pc = "read" /\ call'[c] = Idle /\ ~Found(k) /\ k \notin overtaken
         => now <= goneAt[k] + TTL + 1 \/ backs > 0]_vars
===============================================================================
