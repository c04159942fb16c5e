---------------------------- MODULE TTLCacheProofs ----------------------------
(***************************************************************************)
(* The piece and its expiry list never lose an item, and an answer is not  *)
(* older than the time limit, for every number of keys and lookups, every  *)
(* size of the piece and every time limit.                                 *)
(***************************************************************************)
EXTENDS TTLCache, FiniteSetTheorems, TLAPS

Lookup    == [pc : {"read", "row", "cluster", "expire"}, key : Keys] \cup [pc : {"put", "list"}, key : Keys, e : Times]
Collector == [pc : {"list", "map"}, i : 1..(MaxTime + 1), max : Times, keys : SUBSET Keys]
Disabling == [pc : {"first", "second", "row"}, key : Keys]

Held == {k \in Keys : m[k] # Absent}

\* The collector stops after the second it has been started in, and holds keys
\* only between the list and the piece.
CollectingOf(g) ==
  /\ g.i <= g.max + 1
  /\ g.pc = "list" => g.keys = {}
  /\ g.pc = "map" => g.i <= g.max

Collecting == gc # Idle => CollectingOf(gc)

Types ==
  /\ now \in Times /\ lastGCTime \in Times /\ lastTimestamp \in {0} \cup Times
  /\ m \in [Keys -> {Absent} \cup Times]
  /\ itemsMap \in [Keys -> {Absent} \cup Times]
  /\ gc \in {Idle} \cup Collector
  /\ off \in {Idle} \cup Disabling
  /\ call \in [Callers -> {Idle} \cup Lookup]
  /\ enabled \in [Keys -> BOOLEAN] /\ clusterOn \in [Keys -> BOOLEAN]
  /\ goneAt \in [Keys -> Nat]
  /\ backs \in Nat
  /\ IsFiniteSet(Held) /\ Cardinality(Held) <= MaxItems
  /\ Collecting

\* No entry is before the earliest the list has ever had: the seconds List.GC
\* passes over are empty.
NothingEarlier ==
  \A k \in Keys : itemsMap[k] # Absent => lastTimestamp # 0 /\ lastTimestamp <= itemsMap[k]

LeakInv == Types /\ NothingEarlier /\ NoLeak

\* As long as the clock is not set back: no item, and no item on its way, lives longer
\* than TTL from now; that of a key that is gone, no longer than TTL from then.  A lookup
\* brings an item of k if it has read the cluster's row, or will find it on.
LivesOn(k) == At(k, {"expire", "put"}) \/ (clusterOn[k] /\ At(k, {"cluster"}))

Limited ==
  /\ \A k \in Keys : m[k] <= now + TTL
  /\ \A c \in Callers : call[c] # Idle /\ call[c].pc = "put" => call[c].e <= now + TTL

GoneBefore ==
  \A k \in Keys : ~Found(k) /\ k \notin overtaken => ~LivesOn(k) /\ m[k] <= goneAt[k] + TTL

StaleInv == backs = 0 => Limited /\ GoneBefore

-----------------------------------------------------------------------------
\* The types hold at the start.
LEMMA TypesInit == Init => Types
<1> SUFFICES ASSUME Init PROVE Types
  OBVIOUS
<1>1. Held = {}
  BY DEF Init, Held
<1>2. IsFiniteSet(Held) /\ Cardinality(Held) = 0
  BY <1>1, FS_EmptySet
<1> QED BY <1>2, SizeAssumption, BoundAssumption DEF Init, Types, Collecting, Times, Absent

\* The items there are, after items have been taken away, or one has been put.
LEMMA FewerHeld ==
  ASSUME Types, \A k \in Keys : m'[k] = Absent \/ m'[k] = m[k]
  PROVE  IsFiniteSet(Held') /\ Cardinality(Held') <= MaxItems
<1>1. Held' \subseteq Held
  BY DEF Held
<1>2. IsFiniteSet(Held') /\ Cardinality(Held') <= Cardinality(Held)
  BY <1>1, FS_Subset DEF Types
<1>3. Cardinality(Held) \in Nat /\ Cardinality(Held') \in Nat
  BY <1>2, FS_CardinalityType DEF Types
<1> QED BY <1>2, <1>3, SizeAssumption DEF Types

\* Where there is room an item may be added.
LEMMA OneMoreHeld ==
  ASSUME Types, NEW k \in Keys, NEW e, HasRoom, m' = [m EXCEPT ![k] = e]
  PROVE  IsFiniteSet(Held') /\ Cardinality(Held') <= MaxItems
<1>1. Held' \subseteq Held \cup {k}
  BY DEF Held, Types
<1>2. /\ IsFiniteSet(Held \cup {k})
      /\ Cardinality(Held \cup {k}) = IF k \in Held THEN Cardinality(Held) ELSE Cardinality(Held) + 1
  BY FS_AddElement DEF Types
<1>3. IsFiniteSet(Held') /\ Cardinality(Held') <= Cardinality(Held \cup {k})
  BY <1>1, <1>2, FS_Subset
<1>4. Cardinality(Held) \in Nat /\ Cardinality(Held') \in Nat /\ Cardinality(Held) < MaxItems
  BY <1>3, FS_CardinalityType DEF Types, HasRoom, Held
<1> QED BY <1>2, <1>3, <1>4, SizeAssumption

\* Items that stay are no more than they were.
LEMMA SameHeld ==
  ASSUME Types, UNCHANGED m
  PROVE  IsFiniteSet(Held') /\ Cardinality(Held') <= MaxItems
BY DEF Types, Held

\* Every variable keeps its type.
LEMMA TypesStep == Types /\ [Next]_vars => Types'
<1> SUFFICES ASSUME Types, [Next]_vars PROVE Types'
  OBVIOUS
<1> USE SizeAssumption, BoundAssumption
<1>1. CASE Tick
  BY <1>1, SameHeld DEF Tick, Types, Collecting, piece, rows, Times
<1>2. CASE SetBack
  BY <1>2, SameHeld DEF SetBack, Types, Collecting, piece, rows, Times
<1>3. ASSUME NEW c \in Callers, Start(c) PROVE Types'
  <2>1. PICK k \in Keys : call' = [call EXCEPT ![c] = [pc |-> "read", key |-> k]]
    BY <1>3 DEF Start, Step
  <2>4. UNCHANGED gc
    BY <1>3 DEF Start
  <2>2. [pc |-> "read", key |-> k] \in Lookup
    BY DEF Lookup
  <2>3. call' \in [Callers -> {Idle} \cup Lookup]
    BY <2>1, <2>2 DEF Types
  <2> QED BY <1>3, <2>3, <2>4, SameHeld DEF Start, Types, Collecting, piece, rows, clock
<1>4. ASSUME NEW c \in Callers, Hit(c) \/ Miss(c) \/ ReadRow(c) \/ ReadCluster(c) \/ Expire(c) PROVE Types'
  <2>1. call[c] \in {Idle} \cup Lookup /\ call[c].pc \in {"read", "row", "cluster", "expire"}
    BY <1>4 DEF Types, Hit, Miss, ReadRow, ReadCluster, Expire
  <2>2. call[c] \in [pc : {"read", "row", "cluster", "expire"}, key : Keys]
    BY <2>1 DEF Idle, Lookup
  <2>3. PICK r \in {Idle} \cup Lookup : call' = [call EXCEPT ![c] = r]
    <3>1. \A l \in {"row", "cluster", "expire"} : [call[c] EXCEPT !.pc = l] \in Lookup
      BY <2>2 DEF Lookup
    <3>2. ASSUME now + TTL < MaxTime PROVE [pc |-> "put", key |-> call[c].key, e |-> now + TTL] \in Lookup
      BY <2>2, <3>2 DEF Lookup, Types, Times
    <3> QED BY <1>4, <3>1, <3>2 DEF Hit, Miss, ReadRow, ReadCluster, Expire, Step
  <2>4. UNCHANGED <<clock, piece, gc, rows, off>>
    BY <1>4 DEF Hit, Miss, ReadRow, ReadCluster, Expire
  <2> QED BY <2>3, <2>4, SameHeld DEF Types, Collecting, piece, rows, clock
<1>5. ASSUME NEW c \in Callers, Put(c) PROVE Types'
  <2>1. call[c] \in [pc : {"put", "list"}, key : Keys, e : Times]
    BY <1>5 DEF Put, Types, Lookup, Idle
  <2>2. [call[c] EXCEPT !.pc = "list"] \in Lookup
    BY <2>1 DEF Lookup
  <2>3. call' \in [Callers -> {Idle} \cup Lookup]
    BY <1>5, <2>2 DEF Put, Step, Types
  <2>4. m' \in [Keys -> {Absent} \cup Times]
    BY <1>5, <2>1 DEF Put, Types
  <2>5. IsFiniteSet(Held') /\ Cardinality(Held') <= MaxItems
    BY <1>5, <2>1, SameHeld, OneMoreHeld DEF Put
  <2> QED BY <1>5, <2>3, <2>4, <2>5 DEF Put, Types, Collecting, rows, clock
<1>6. ASSUME NEW c \in Callers, AddEntry(c) PROVE Types'
  <2>1. call[c] \in [pc : {"put", "list"}, key : Keys, e : Times]
    BY <1>6 DEF AddEntry, Types, Lookup, Idle
  <2>2. Earliest(call[c].e) \in Times \cup {0}
    BY <2>1 DEF Earliest, Types
  <2>3. call' \in [Callers -> {Idle} \cup Lookup]
    BY <1>6 DEF AddEntry, Step, Types
  <2>4. itemsMap' \in [Keys -> {Absent} \cup Times]
    BY <1>6, <2>1 DEF AddEntry, Types
  <2> QED BY <1>6, <2>2, <2>3, <2>4, SameHeld DEF AddEntry, Types, Collecting, rows, clock
<1>7. ASSUME NEW k \in Keys, TurnOff(k) PROVE Types'
  BY <1>7, SameHeld DEF TurnOff, Gone, Types, Collecting, piece, clock, Times
<1>8. ASSUME NEW k \in Keys, Disable(k) PROVE Types'
  BY <1>8, SameHeld DEF Disable, Types, Collecting, piece, clock, rows, Disabling
<1>9. CASE Delete
  <2>1. off \in Disabling
    BY <1>9 DEF Delete, Types, Idle
  <2>2. off' \in Disabling
    BY <1>9, <2>1 DEF Delete, Disabling
  <2>3. /\ itemsMap' = itemsMap \/ itemsMap' = [itemsMap EXCEPT ![off.key] = Absent]
        /\ m' = m \/ m' = [m EXCEPT ![off.key] = Absent]
    BY <1>9 DEF Delete, RemoveFrom
  <2>4. IsFiniteSet(Held') /\ Cardinality(Held') <= MaxItems
    BY <2>3, FewerHeld DEF Types
  <2> QED BY <1>9, <2>2, <2>3, <2>4 DEF Delete, Types, Collecting, rows, clock
<1>10. CASE DisableRow
  <2>1. off \in Disabling
    BY <1>10 DEF DisableRow, Types, Idle
  <2> QED BY <1>10, <2>1, SameHeld DEF DisableRow, Gone, Types, Collecting, piece, clock, Times, Disabling
<1>11. CASE StartGC
  <2>1. gc' \in Collector /\ CollectingOf(gc')
    BY <1>11 DEF StartGC, Types, Collector, CollectingOf, Times
  <2> QED BY <1>11, <2>1, SameHeld DEF StartGC, Types, Collecting, piece, rows, clock
<1>12. CASE TakeEntries
  <2>1. gc \in Collector /\ gc.i <= gc.max /\ gc.pc = "list"
    BY <1>12 DEF TakeEntries, Types, Idle
  <2>5. gc # Idle /\ CollectingOf(gc) /\ gc.i \in Int /\ gc.max \in Int
    BY <2>1 DEF Types, Collecting, Collector, Times, Idle
  <2>2. Expired(gc.i) \subseteq Keys
    BY DEF Expired
  <2>3. gc' \in Collector /\ CollectingOf(gc')
    <3>1. CASE Expired(gc.i) = {}
      <4>1. gc' = [gc EXCEPT !.i = gc.i + 1] /\ gc.pc = "list"
        BY <1>12, <3>1 DEF TakeEntries
      <4>2. gc.i + 1 \in 1..(MaxTime + 1)
        BY <2>1 DEF Collector, Times
      <4>3. gc' \in Collector
        BY <2>1, <4>1, <4>2 DEF Collector
      <4>4. gc'.i = gc.i + 1 /\ gc'.max = gc.max /\ gc'.pc = "list" /\ gc'.keys = gc.keys
        BY <2>1, <4>1 DEF Collector
      <4> QED BY <2>1, <2>5, <4>3, <4>4 DEF CollectingOf
    <3>2. CASE Expired(gc.i) # {}
      <4>1. gc' = [gc EXCEPT !.pc = "map", !.keys = Expired(gc.i)]
        BY <1>12, <3>2 DEF TakeEntries
      <4>2. gc' \in Collector
        BY <2>1, <2>2, <4>1 DEF Collector
      <4>3. gc'.i = gc.i /\ gc'.max = gc.max /\ gc'.pc = "map"
        BY <2>1, <4>1 DEF Collector
      <4> QED BY <2>1, <2>5, <4>2, <4>3 DEF CollectingOf
    <3> QED BY <3>1, <3>2
  <2>4. itemsMap' \in [Keys -> {Absent} \cup Times]
    BY <1>12 DEF TakeEntries, Types
  <2> QED BY <1>12, <2>3, <2>4, SameHeld DEF TakeEntries, Types, Collecting, rows, clock
<1>13. CASE DropItems
  <2>1. gc \in Collector
    BY <1>13 DEF DropItems, Types, Idle
  <2>2. gc' = [gc EXCEPT !.pc = "list", !.i = gc.i + 1, !.keys = {}]
    BY <1>13 DEF DropItems
  <2>3. IsFiniteSet(Held') /\ Cardinality(Held') <= MaxItems
    BY <1>13, FewerHeld DEF DropItems
  <2>4. gc.i <= gc.max /\ gc.i + 1 \in 1..(MaxTime + 1) /\ gc.i + 1 <= gc.max + 1
    BY <1>13, <2>1 DEF DropItems, Types, Collecting, CollectingOf, Collector, Times, Idle
  <2>5. gc' \in Collector /\ CollectingOf(gc')
    BY <2>1, <2>2, <2>4 DEF Collector, CollectingOf
  <2>6. m' \in [Keys -> {Absent} \cup Times]
    BY <1>13 DEF DropItems, Types
  <2> QED BY <1>13, <2>3, <2>5, <2>6 DEF DropItems, Types, Collecting, rows, clock
<1>14. CASE EndGC
  BY <1>14, SameHeld DEF EndGC, CollectedTo, Types, Collecting, Idle, Collector, rows, clock
<1>15. CASE UNCHANGED vars
  BY <1>15, SameHeld DEF vars, Types, Collecting
<1> QED BY <1>1, <1>2, <1>3, <1>4, <1>5, <1>6, <1>7, <1>8, <1>9, <1>10, <1>11, <1>12, <1>13, <1>14, <1>15
        DEF Next, Find, Collect

-----------------------------------------------------------------------------
(***************************************************************************)
(* No item is lost.                                                        *)
(***************************************************************************)

\* What a lookup may do before it has put its item: nobody is at work any less.
LEMMA QuietKeepsNoLeak ==
  ASSUME Types, NoLeak, UNCHANGED <<m, itemsMap, lastGCTime, gc, late>>,
         off' = off \/ off.pc \in {"idle", "row"},
         \A c \in Callers : call[c].pc = "list" => call'[c] = call[c]
  PROVE  NoLeak'
<1>1. Position' = Position
  BY DEF Position
<1>2. \A k \in Keys : AtWork(k) => AtWork(k)'
  BY DEF AtWork
<1> QED BY <1>1, <1>2 DEF NoLeak

\* The collector is at some second.
LEMMA PositionType ==
  ASSUME Types
  PROVE  Position \in Int
<1>1. CASE gc = Idle
  BY <1>1 DEF Position, Types, Times
<1>2. CASE gc \in Collector
  <2>1. gc.i \in Int /\ gc.max \in Int /\ gc # Idle
    BY <1>2 DEF Collector, Times, Idle
  <2> QED BY <2>1 DEF Position
<1> QED BY <1>1, <1>2 DEF Types

\* The earliest expiry the list has had stays a lower bound of its entries.
LEMMA NothingEarlierStep == Types /\ NothingEarlier /\ [Next]_vars => NothingEarlier'
<1> SUFFICES ASSUME Types, NothingEarlier, [Next]_vars PROVE NothingEarlier'
  OBVIOUS
<1>1. CASE \E c \in Callers : AddEntry(c)
  <2>1. PICK c \in Callers : AddEntry(c)
    BY <1>1
  <2>2. call[c] \in [pc : {"put", "list"}, key : Keys, e : Times]
    BY <2>1 DEF AddEntry, Types, Lookup, Idle
  <2> DEFINE e == call[c].e
             k == call[c].key
  <2>3. e \in Times /\ k \in Keys
    BY <2>2
  <2>4. lastTimestamp' = Earliest(e) /\ itemsMap' = [itemsMap EXCEPT ![k] = e]
    BY <2>1 DEF AddEntry
  <2> HIDE DEF e, k
  <2>5. Earliest(e) # 0 /\ Earliest(e) <= e /\ (lastTimestamp # 0 => Earliest(e) <= lastTimestamp)
    BY <2>3 DEF Earliest, Types, Times
  <2>6. \A q \in Keys : itemsMap'[q] = IF q = k THEN e ELSE itemsMap[q]
    BY <2>4 DEF Types
  <2>7. ASSUME NEW q \in Keys, q # k, itemsMap[q] # Absent
        PROVE  Earliest(e) <= itemsMap[q]
    <3>1. lastTimestamp # 0 /\ lastTimestamp <= itemsMap[q]
      BY <2>7 DEF NothingEarlier
    <3>2. lastTimestamp \in Int /\ itemsMap[q] \in Int /\ Earliest(e) \in Int
      BY <2>3, BoundAssumption DEF Types, Times, Absent, Earliest
    <3> QED BY <2>5, <3>1, <3>2
  <2> QED BY <2>4, <2>5, <2>6, <2>7 DEF NothingEarlier
<1>2. CASE ~ \E c \in Callers : AddEntry(c)
  <2>1. lastTimestamp' = lastTimestamp
    BY <1>2 DEF Next, Find, Collect, Tick, SetBack, Start, Hit, Miss, ReadRow, ReadCluster, Expire, Put, TurnOff, Disable, Delete,
                DisableRow, StartGC, TakeEntries, DropItems, EndGC, piece, vars
  <2>2. \A k \in Keys : itemsMap'[k] \in {Absent, itemsMap[k]}
    <3>1. CASE Delete
      BY <3>1 DEF Delete, RemoveFrom, Types
    <3>2. CASE TakeEntries
      BY <3>2 DEF TakeEntries
    <3>3. CASE ~Delete /\ ~TakeEntries
      BY <1>2, <3>3 DEF Next, Find, Collect, Tick, SetBack, Start, Hit, Miss, ReadRow, ReadCluster, Expire, Put, TurnOff, Disable,
                  DisableRow, StartGC, DropItems, EndGC, piece, vars
    <3> QED BY <3>1, <3>2, <3>3
  <2> QED BY <2>1, <2>2 DEF NothingEarlier
<1> QED BY <1>1, <1>2

\* Every item that is not late keeps an entry before the collector, or somebody at work.
LEMMA NoLeakStep == LeakInv /\ [Next]_vars => NoLeak'
<1> SUFFICES ASSUME LeakInv, [Next]_vars PROVE NoLeak'
  OBVIOUS
<1>0. Types /\ Types' /\ NothingEarlier /\ NoLeak
  BY TypesStep DEF LeakInv
<1>1. CASE Tick \/ SetBack
  BY <1>0, <1>1, QuietKeepsNoLeak DEF Tick, SetBack, piece
<1>2. ASSUME NEW c \in Callers, Start(c) \/ Hit(c) \/ Miss(c) \/ ReadRow(c) \/ ReadCluster(c) \/ Expire(c) PROVE NoLeak'
  <2>1. call[c].pc # "list"
    BY <1>2 DEF Start, Hit, Miss, ReadRow, ReadCluster, Expire, Idle
  <2>2. \A d \in Callers : d # c => call'[d] = call[d]
    BY <1>0, <1>2 DEF Start, Hit, Miss, ReadRow, ReadCluster, Expire, Step, Types
  <2> QED BY <1>0, <1>2, <2>1, <2>2, QuietKeepsNoLeak DEF Start, Hit, Miss, ReadRow, ReadCluster, Expire, piece
<1>3. ASSUME NEW c \in Callers, Put(c) PROVE NoLeak'
  <2>1. call[c] \in [pc : {"put", "list"}, key : Keys, e : Times] /\ call[c].pc = "put"
    BY <1>0, <1>3 DEF Put, Types, Lookup, Idle
  <2>0. PICK k \in Keys : k = call[c].key
    BY <2>1
  <2>2. \A d \in Callers : d # c => call'[d] = call[d]
    BY <1>0, <1>3 DEF Put, Step, Types
  <2>3. CASE UNCHANGED m
    BY <1>0, <1>3, <2>1, <2>2, <2>3, QuietKeepsNoLeak DEF Put
  <2>4. CASE ~UNCHANGED m
    <3>1. m' = [m EXCEPT ![k] = call[c].e] /\ call' = [call EXCEPT ![c] = [call[c] EXCEPT !.pc = "list"]]
      BY <1>3, <2>4, <2>0 DEF Put, Step
    <3>2. call'[c].pc = "list" /\ call'[c].key = k
      BY <1>0, <2>1, <2>0, <3>1 DEF Types
    <3>3. AtWork(k)'
      BY <3>2 DEF AtWork
    <3>4. UNCHANGED <<itemsMap, lastGCTime, late, gc, off>> /\ Position' = Position
      BY <1>3 DEF Put, Position
    <3>5. \A q \in Keys : AtWork(q) => AtWork(q)'
      BY <2>1, <2>2, <3>4 DEF AtWork
    <3>6. \A q \in Keys : q # k => m'[q] = m[q]
      BY <1>0, <3>1 DEF Types
    <3> QED BY <1>0, <3>3, <3>4, <3>5, <3>6 DEF NoLeak
  <2> QED BY <2>3, <2>4
<1>4. ASSUME NEW c \in Callers, AddEntry(c) PROVE NoLeak'
  <2> DEFINE k == call[c].key
             e == call[c].e
  <2>1. call[c] \in [pc : {"put", "list"}, key : Keys, e : Times] /\ call[c].pc = "list"
    BY <1>0, <1>4 DEF AddEntry, Types, Lookup, Idle
  <2>2. e \in Int /\ k \in Keys
    BY <2>1 DEF Times
  <2>3. UNCHANGED <<m, lastGCTime, gc, off>> /\ Position' = Position
    BY <1>4 DEF AddEntry, Position
  <2>4. \A d \in Callers : d # c => call'[d] = call[d]
    BY <1>0, <1>4 DEF AddEntry, Step, Types
  <2>5. \A q \in Keys : q # k /\ AtWork(q) => AtWork(q)'
    BY <2>3, <2>4 DEF AtWork
  <2>6. /\ itemsMap' = [itemsMap EXCEPT ![k] = e]
        /\ late' = IF e < Position THEN late \cup {k} ELSE late \ {k}
    BY <1>4 DEF AddEntry
  <2>7. \A q \in Keys : itemsMap'[q] = IF q = k THEN e ELSE itemsMap[q]
    BY <1>0, <2>6 DEF Types
  <2>8. Position \in Int
    BY <1>0, PositionType
  <2> HIDE DEF k, e
  <2>9. ASSUME NEW q \in Keys \ late', m'[q] # Absent PROVE AtWork(q)' \/ itemsMap'[q] >= Position'
    <3>1. CASE q = k
      BY <2>2, <2>3, <2>6, <2>7, <2>8, <2>9, <3>1
    <3>2. CASE q # k
      BY <1>0, <2>3, <2>5, <2>6, <2>7, <2>9, <3>2 DEF NoLeak
    <3> QED BY <3>1, <3>2
  <2> QED BY <2>9 DEF NoLeak
<1>5. ASSUME NEW k \in Keys, TurnOff(k) PROVE NoLeak'
  BY <1>0, <1>5, QuietKeepsNoLeak DEF TurnOff, piece
<1>6. ASSUME NEW k \in Keys, Disable(k) PROVE NoLeak'
  BY <1>0, <1>6, QuietKeepsNoLeak DEF Disable, piece, Idle
<1>7. CASE Delete
  <2>1. off \in Disabling /\ off.pc \in {"first", "second"} /\ off # Idle
    BY <1>0, <1>7 DEF Delete, Types, Idle
  <2>0. PICK k \in Keys : k = off.key
    BY <2>1 DEF Disabling
  <2>2. UNCHANGED <<lastGCTime, late, gc, call>> /\ Position' = Position
    BY <1>7 DEF Delete, Position
  <2>3. /\ off' = [off EXCEPT !.pc = IF off.pc = "first" THEN "second" ELSE "row"]
        /\ RemoveFrom(IF off.pc = "first" THEN "list" ELSE "map", k)
    BY <1>7, <2>1, <2>0 DEF Delete, DeleteOrder
  <2>4. \A q \in Keys : q # k /\ AtWork(q) => AtWork(q)'
    BY <2>2, <2>0 DEF AtWork
  <2>5. \A q \in Keys : q # k => m'[q] = m[q] /\ itemsMap'[q] = itemsMap[q]
    BY <1>0, <2>3 DEF RemoveFrom, Types
  <2>6. m'[k] # Absent => AtWork(k)'
    <3>1. CASE off.pc = "first"
      <4>1. off'.pc = "second" /\ off'.key = k /\ off' # Idle
        BY <2>1, <2>0, <2>3, <3>1 DEF Disabling, Idle
      <4> QED BY <4>1 DEF AtWork
    <3>2. CASE off.pc = "second"
      BY <1>0, <2>3, <3>2 DEF RemoveFrom, Types
    <3> QED BY <2>1, <3>1, <3>2
  <2> QED BY <1>0, <2>2, <2>4, <2>5, <2>6 DEF NoLeak
<1>8. CASE DisableRow
  BY <1>0, <1>8, QuietKeepsNoLeak DEF DisableRow, piece
<1>9. CASE StartGC
  <2>1. gc = Idle /\ UNCHANGED <<m, itemsMap, lastGCTime, late, call, off>>
    BY <1>9 DEF StartGC, piece
  <2>2. gc' = [pc |-> "list", i |-> IF lastGCTime > now THEN now ELSE lastGCTime, max |-> now, keys |-> {}]
    BY <1>9 DEF StartGC
  <2>3. \A k \in Keys : AtWork(k) => AtWork(k)'
    BY <2>1 DEF AtWork
  <2>4. lastGCTime \in Int /\ now \in Int
    BY <1>0 DEF Types, Times
  <2>5. Position' <= Position /\ Position \in Int /\ Position' \in Int
    BY <2>1, <2>2, <2>4 DEF Position, Idle
  <2>6. \A k \in Keys : itemsMap[k] \in Int
    BY <1>0 DEF Types, Times, Absent
  <2> QED BY <1>0, <2>1, <2>3, <2>5, <2>6 DEF NoLeak
<1>10. CASE TakeEntries
  <2> DEFINE taken == Expired(gc.i)
  <2>1. gc \in Collector /\ gc # Idle /\ gc.pc = "list" /\ gc.i <= gc.max /\ gc.keys = {}
    BY <1>0, <1>10 DEF TakeEntries, Types, Collecting, CollectingOf, Idle
  <2>2. gc.i \in Int /\ gc.i > 0 /\ gc.max \in Int
    BY <2>1 DEF Collector, Times
  <2>3. UNCHANGED <<m, lastGCTime, late, call, off>>
    BY <1>10 DEF TakeEntries
  <2>4. itemsMap' = [k \in Keys |-> IF k \in taken THEN Absent ELSE itemsMap[k]]
    BY <1>10 DEF TakeEntries
  <2>5. /\ Position = gc.i
        /\ Position' <= gc.i + 1 /\ Position' \in Int
        /\ taken # {} => gc' # Idle /\ gc'.keys = taken
    <3>1. Position = gc.i
      BY <2>1, <2>2 DEF Position
    <3>2. CASE taken = {}
      <4>1. gc' = [gc EXCEPT !.i = gc.i + 1]
        BY <1>10, <3>2 DEF TakeEntries
      <4>2. gc'.pc = "list" /\ gc'.i = gc.i + 1 /\ gc'.max = gc.max /\ gc' # Idle
        BY <2>1, <4>1 DEF Collector, Idle
      <4> QED BY <2>2, <3>1, <3>2, <4>2 DEF Position
    <3>3. CASE taken # {}
      <4>1. gc' = [gc EXCEPT !.pc = "map", !.keys = taken]
        BY <1>10, <3>3 DEF TakeEntries
      <4>2. gc'.pc = "map" /\ gc'.i = gc.i /\ gc'.max = gc.max /\ gc'.keys = taken /\ gc' # Idle
        BY <2>1, <4>1 DEF Collector, Idle
      <4> QED BY <2>2, <3>1, <4>2 DEF Position
    <3> QED BY <3>2, <3>3
  <2>6. \A k \in Keys : k \in taken => AtWork(k)'
    BY <2>5 DEF AtWork
  <2>7. \A k \in Keys : AtWork(k) => AtWork(k)'
    BY <2>1, <2>3 DEF AtWork
  <2>8. ASSUME NEW k \in Keys, k \notin taken, itemsMap[k] >= Position PROVE itemsMap'[k] >= Position'
    <3>1. itemsMap[k] \in Int /\ itemsMap[k] # Absent
      BY <1>0, <2>2, <2>5, <2>8 DEF Types, Times, Absent
    <3>2. itemsMap[k] # gc.i
      <4> SUFFICES ASSUME itemsMap[k] = gc.i PROVE FALSE
        OBVIOUS
      <4>1. lastTimestamp > gc.i + 1
        BY <2>8 DEF Expired
      <4>2. lastTimestamp <= gc.i /\ lastTimestamp \in Int
        BY <1>0, <3>1 DEF NothingEarlier, Types, Times
      <4> QED BY <2>2, <4>1, <4>2
    <3>3. itemsMap'[k] = itemsMap[k]
      BY <2>4, <2>8
    <3> HIDE DEF taken
    <3> QED BY <2>2, <2>5, <2>8, <3>1, <3>2, <3>3
  <2> HIDE DEF taken
  <2> QED BY <1>0, <2>3, <2>6, <2>7, <2>8 DEF NoLeak
<1>11. CASE DropItems
  <2>1. gc \in Collector /\ gc # Idle /\ gc.pc = "map" /\ UNCHANGED <<itemsMap, lastGCTime, late, call, off>>
    BY <1>0, <1>11 DEF DropItems, Types, Idle
  <2>2. gc' = [gc EXCEPT !.pc = "list", !.i = gc.i + 1, !.keys = {}]
    BY <1>11 DEF DropItems
  <2>3. gc'.pc = "list" /\ gc'.i = gc.i + 1 /\ gc'.max = gc.max /\ gc' # Idle
    BY <2>1, <2>2 DEF Collector, Idle
  <2>4. Position' = Position
    BY <2>1, <2>3 DEF Position
  <2>5. \A k \in Keys : m'[k] = IF k \in gc.keys THEN Absent ELSE m[k]
    BY <1>11 DEF DropItems
  <2>6. \A k \in Keys \ gc.keys : AtWork(k) => AtWork(k)'
    BY <2>1 DEF AtWork
  <2> QED BY <1>0, <2>1, <2>4, <2>5, <2>6 DEF NoLeak
<1>12. CASE EndGC
  <2>1. gc \in Collector /\ gc # Idle /\ gc.pc = "list" /\ gc.i > gc.max /\ gc.keys = {}
    BY <1>0, <1>12 DEF EndGC, Types, Collecting, CollectingOf, Idle
  <2>2. gc' = Idle /\ lastGCTime' = gc.max /\ UNCHANGED <<m, itemsMap, late, call, off>>
    BY <1>12 DEF EndGC, CollectedTo
  <2>3. Position' = Position
    BY <2>1, <2>2 DEF Position, Collector, Times
  <2>4. \A k \in Keys : AtWork(k) => AtWork(k)'
    BY <2>1, <2>2 DEF AtWork
  <2> QED BY <1>0, <2>2, <2>3, <2>4 DEF NoLeak
<1>13. CASE UNCHANGED vars
  BY <1>0, <1>13, QuietKeepsNoLeak DEF vars
<1> QED BY <1>1, <1>2, <1>3, <1>4, <1>5, <1>6, <1>7, <1>8, <1>9, <1>10, <1>11, <1>12, <1>13 DEF Next, Find, Collect

-----------------------------------------------------------------------------
(***************************************************************************)
(* No answer is older than the time limit.                                 *)
(***************************************************************************)

\* A step that takes items away at most, touches no rows and lets no lookup go on with
\* a row it has read keeps what is known of the ages; so does the clock going on.
LEMMA QuietKeepsStale ==
  ASSUME Types, Types', StaleInv, backs' = backs, UNCHANGED rows, now' >= now,
         \A k \in Keys : m'[k] \in {Absent, m[k]},
         \A c \in Callers : call'[c] = call[c] \/ call'[c].pc \notin {"cluster", "expire", "put"}
  PROVE  StaleInv'
<1> SUFFICES ASSUME backs = 0 PROVE Limited' /\ GoneBefore'
  BY DEF StaleInv
<1>1. Limited /\ GoneBefore
  BY DEF StaleInv
<1>2. now \in Int /\ now' \in Int /\ TTL \in Int /\ TTL > 0 /\ now > 0
  BY SizeAssumption DEF Types, Times
<1>3. \A k \in Keys : m[k] \in Int /\ goneAt[k] \in Int /\ goneAt[k] >= 0
  BY DEF Types, Times, Absent
<1>4. \A c \in Callers : call[c] # Idle /\ call[c].pc = "put" => call[c].e \in Int
  BY DEF Types, Times, Lookup
<1>5. Limited'
  <2>1. ASSUME NEW k \in Keys PROVE m'[k] <= now' + TTL
    BY <1>1, <1>2, <1>3 DEF Limited, Absent
  <2>2. ASSUME NEW c \in Callers, call'[c] # Idle, call'[c].pc = "put" PROVE call'[c].e <= now' + TTL
    <3>1. call'[c] = call[c]
      BY <2>2
    <3> QED BY <1>1, <1>2, <1>4, <2>2, <3>1 DEF Limited
  <2> QED BY <2>1, <2>2 DEF Limited
<1>6. GoneBefore'
  <2> SUFFICES ASSUME NEW k \in Keys, ~Found(k), k \notin overtaken
               PROVE  ~LivesOn(k)' /\ m'[k] <= goneAt[k] + TTL
    BY DEF GoneBefore, rows, Found
  <2>1. ~LivesOn(k) /\ m[k] <= goneAt[k] + TTL
    BY <1>1 DEF GoneBefore
  <2>2. ~LivesOn(k)'
    <3>1. clusterOn' = clusterOn
      BY DEF rows
    <3>2. \A steps \in {{"expire", "put"}, {"cluster"}} : At(k, steps)' => At(k, steps)
      BY DEF At
    <3> QED BY <2>1, <3>1, <3>2 DEF LivesOn
  <2>3. m'[k] <= goneAt[k] + TTL
    BY <1>2, <1>3, <2>1 DEF Absent
  <2> QED BY <2>2, <2>3
<1> QED BY <1>5, <1>6

\* A row of k changes, its node's or its cluster's: the lookups that still bring an item
\* of k have read the row, so that k is overtaken by them.
LEMMA GoneKeepsStale ==
  ASSUME Types, StaleInv, NEW k \in Keys, NEW steps, Gone(k, steps),
         UNCHANGED <<now, backs, m, call>>,
         ~Found(k)', LivesOn(k)' => LivesOn(k) /\ At(k, steps),
         \A q \in Keys : q # k => (Found(q)' <=> Found(q)) /\ (LivesOn(q)' <=> LivesOn(q))
  PROVE  StaleInv'
<1> SUFFICES ASSUME backs = 0 PROVE Limited' /\ GoneBefore'
  BY DEF StaleInv
<1>1. Limited /\ GoneBefore
  BY DEF StaleInv
<1>2. Limited'
  BY <1>1 DEF Limited
<1>3. ASSUME NEW q \in Keys, q # k, ~Found(q)', q \notin overtaken'
      PROVE  ~LivesOn(q)' /\ m'[q] <= goneAt'[q] + TTL
  <2>1. q \notin overtaken /\ goneAt'[q] = goneAt[q]
    BY <1>3 DEF Gone, Types
  <2>2. ~Found(q) /\ (LivesOn(q)' <=> LivesOn(q)) /\ m'[q] = m[q]
    BY <1>3
  <2> QED BY <1>1, <2>1, <2>2 DEF GoneBefore
<1>4. ASSUME k \notin overtaken' PROVE ~LivesOn(k)' /\ m'[k] <= goneAt'[k] + TTL
  <2>1. CASE Found(k)
    <3>1. ~At(k, steps) /\ goneAt'[k] = now
      BY <1>4, <2>1 DEF Gone, Types
    <3> QED BY <1>1, <3>1 DEF Limited
  <2>2. CASE ~Found(k)
    <3>1. k \notin overtaken /\ goneAt' = goneAt
      BY <1>4, <2>2 DEF Gone
    <3> QED BY <1>1, <2>2, <3>1 DEF GoneBefore
  <2> QED BY <2>1, <2>2
<1> QED BY <1>2, <1>3, <1>4 DEF GoneBefore

\* Nothing is in the cache at first, and no node is gone.
LEMMA StaleInit == Init => StaleInv
<1> SUFFICES ASSUME Init PROVE Limited /\ GoneBefore
  BY DEF StaleInv
<1>1. Limited
  BY SizeAssumption DEF Init, Limited, Absent, Idle
<1>2. GoneBefore
  BY DEF Init, GoneBefore, Found
<1> QED BY <1>1, <1>2

\* No item and no lookup outlives the time limit, from now or from when the node went.
LEMMA StaleStep == Types /\ StaleInv /\ [Next]_vars => StaleInv'
<1> SUFFICES ASSUME Types, StaleInv, [Next]_vars PROVE StaleInv'
  OBVIOUS
<1>0. Types'
  BY TypesStep
<1>15. now \in Int /\ now + 1 >= now /\ now >= now /\ TTL \in Int
  BY SizeAssumption DEF Types, Times
<1>1. CASE Tick
  BY <1>0, <1>1, <1>15, QuietKeepsStale DEF Tick, piece
<1>2. CASE SetBack
  <2>1. backs' = backs + 1 /\ backs \in Nat
    BY <1>2 DEF SetBack, Types
  <2> QED BY <2>1 DEF StaleInv
<1>3. ASSUME NEW c \in Callers, Start(c) \/ Hit(c) \/ Miss(c) PROVE StaleInv'
  <2>1. \A d \in Callers : d # c => call'[d] = call[d]
    BY <1>3 DEF Start, Hit, Miss, Step, Types
  <2>2. call'[c].pc \in {"idle", "read", "row"}
    <3>1. CASE Miss(c)
      <4>1. call[c] \in Lookup /\ call'[c] = [call[c] EXCEPT !.pc = "row"]
        BY <3>1 DEF Miss, Step, Types, Idle
      <4> QED BY <4>1 DEF Lookup
    <3>2. CASE Start(c) \/ Hit(c)
      BY <3>2 DEF Start, Hit, Step, Types, Idle
    <3> QED BY <1>3, <3>1, <3>2
  <2>3. UNCHANGED <<clock, m, rows>>
    BY <1>3 DEF Start, Hit, Miss, piece
  <2> QED BY <1>0, <1>15, <2>1, <2>2, <2>3, QuietKeepsStale DEF clock
<1>4. ASSUME NEW c \in Callers, ReadRow(c) \/ ReadCluster(c) PROVE StaleInv'
  <2>1. /\ call[c] \in Lookup /\ call[c].pc \in {"row", "cluster"}
        /\ UNCHANGED <<now, backs, m, enabled, clusterOn, goneAt, overtaken>>
    BY <1>4 DEF ReadRow, ReadCluster, Types, Idle, clock, piece, rows
  <2>2. PICK k \in Keys : k = call[c].key
    BY <2>1 DEF Lookup
  <2>3. \A d \in Callers : d # c => call'[d] = call[d]
    BY <1>4 DEF ReadRow, ReadCluster, Step, Types
  <2>4. \/ call'[c] = Idle
        \/ call[c].pc = "row" /\ enabled[k] /\ call'[c] = [call[c] EXCEPT !.pc = "cluster"]
        \/ call[c].pc = "cluster" /\ clusterOn[k] /\ call'[c] = [call[c] EXCEPT !.pc = "expire"]
    BY <1>4, <2>2 DEF ReadRow, ReadCluster, Step, Types
  <2>5. \/ call'[c].pc = "idle"
        \/ call'[c].pc = "cluster" /\ call'[c].key = k /\ enabled[k]
        \/ call'[c].pc = "expire" /\ call'[c].key = k /\ call[c].pc = "cluster" /\ clusterOn[k]
    BY <2>1, <2>2, <2>4 DEF Lookup, Idle
  <2>6. Limited => Limited'
    BY <2>1, <2>3, <2>5 DEF Limited
  <2>7. ASSUME NEW q \in Keys, ~Found(q), LivesOn(q)' PROVE LivesOn(q)
    <3>1. PICK d \in Callers : /\ call'[d] # Idle /\ call'[d].key = q
                               /\ call'[d].pc \in {"expire", "put"} \/ (clusterOn[q] /\ call'[d].pc = "cluster")
      BY <2>1, <2>7 DEF LivesOn, At
    <3>2. CASE d # c
      <4>1. call[d] # Idle /\ call[d].key = q /\ (call[d].pc \in {"expire", "put"} \/ (clusterOn[q] /\ call[d].pc = "cluster"))
        BY <2>3, <3>1, <3>2
      <4> QED BY <4>1 DEF LivesOn, At
    <3>3. CASE d = c
      <4>1. q = k /\ clusterOn[k] /\ call[c].pc = "cluster"
        BY <2>5, <2>7, <3>1, <3>3 DEF Found
      <4>2. call[c] # Idle
        BY <4>1 DEF Idle
      <4> QED BY <2>2, <4>1, <4>2 DEF LivesOn, At
    <3> QED BY <3>2, <3>3
  <2>8. \A q \in Keys : Found(q)' <=> Found(q)
    BY <2>1 DEF Found
  <2> QED BY <2>1, <2>6, <2>7, <2>8 DEF StaleInv, GoneBefore
<1>5. ASSUME NEW c \in Callers, Expire(c) PROVE StaleInv'
  <2>1. call[c] \in Lookup /\ call[c].pc = "expire" /\ UNCHANGED <<now, backs, m, enabled, clusterOn, goneAt, overtaken>>
    BY <1>5 DEF Expire, Types, Idle, clock, piece, rows
  <2>2. call' = [call EXCEPT ![c] = [pc |-> "put", key |-> call[c].key, e |-> now + TTL]]
    BY <1>5 DEF Expire, Step
  <2>3. call'[c].key = call[c].key /\ call'[c].e = now + TTL /\ call[c] # Idle
    BY <2>1, <2>2 DEF Types, Idle
  <2>4. \A d \in Callers : d # c => call'[d] = call[d]
    BY <2>2 DEF Types
  <2>5. Limited => Limited'
    BY <1>15, <2>1, <2>3, <2>4 DEF Limited
  <2>6. \A q \in Keys : LivesOn(q)' => LivesOn(q)
    BY <2>1, <2>3, <2>4 DEF LivesOn, At
  <2> QED BY <2>1, <2>5, <2>6 DEF StaleInv, GoneBefore, Found
<1>6. ASSUME NEW c \in Callers, Put(c) PROVE StaleInv'
  <2>1. /\ call[c] \in [pc : {"put", "list"}, key : Keys, e : Times] /\ call[c].pc = "put" /\ call[c] # Idle
        /\ UNCHANGED <<now, backs, enabled, clusterOn, goneAt, overtaken>>
    BY <1>6 DEF Put, Types, Lookup, Idle, clock, rows
  <2>2. PICK k \in Keys, e \in Int : k = call[c].key /\ e = call[c].e
    BY <2>1 DEF Times
  <2>3. \A q \in Keys : m'[q] = m[q] \/ (q = k /\ m'[q] = e)
    <3>1. m' = m \/ m' = [m EXCEPT ![k] = e]
      BY <1>6, <2>2 DEF Put
    <3>2. m \in [Keys -> {Absent} \cup Times]
      BY DEF Types
    <3> QED BY <3>1, <3>2
  <2>4. (\A d \in Callers : d # c => call'[d] = call[d]) /\ call'[c].pc \in {"idle", "list"}
    BY <1>6, <2>1 DEF Put, Step, Types, Idle
  <2>5. \A q \in Keys : LivesOn(q)' => LivesOn(q)
    BY <2>1, <2>4 DEF LivesOn, At
  <2>6. LivesOn(k)
    BY <2>1, <2>2 DEF LivesOn, At
  <2>7. Limited => Limited'
    BY <2>1, <2>2, <2>3, <2>4 DEF Limited
  <2>8. GoneBefore => GoneBefore'
    BY <2>1, <2>3, <2>5, <2>6 DEF GoneBefore, Found
  <2> QED BY <2>1, <2>7, <2>8 DEF StaleInv
<1>7. ASSUME NEW c \in Callers, AddEntry(c) PROVE StaleInv'
  <2>1. \A d \in Callers : call'[d] = call[d] \/ call'[d].pc = "idle"
    BY <1>7 DEF AddEntry, Step, Types, Idle
  <2> QED BY <1>0, <1>7, <1>15, <2>1, QuietKeepsStale DEF AddEntry, clock
<1>8. ASSUME NEW k \in Keys, TurnOff(k) PROVE StaleInv'
  <2> DEFINE steps == {"expire", "put"}
  <2>1. Gone(k, steps) /\ UNCHANGED <<now, backs, m, call, enabled>>
    BY <1>8 DEF TurnOff, clock, piece
  <2>2. \A q \in Keys : clusterOn'[q] = IF q = k THEN FALSE ELSE clusterOn[q]
    BY <1>8 DEF TurnOff, Types
  <2>3. \A q \in Keys, z \in {steps, {"cluster"}} : At(q, z)' <=> At(q, z)
    BY <2>1 DEF At
  <2>4. ~Found(k)' /\ (LivesOn(k)' => LivesOn(k) /\ At(k, steps))
    BY <2>2, <2>3 DEF Found, LivesOn
  <2>5. \A q \in Keys : q # k => (Found(q)' <=> Found(q)) /\ (LivesOn(q)' <=> LivesOn(q))
    BY <2>1, <2>2, <2>3 DEF Found, LivesOn
  <2> HIDE DEF steps
  <2> QED BY <2>1, <2>4, <2>5, GoneKeepsStale
<1>9. ASSUME NEW k \in Keys, Disable(k) PROVE StaleInv'
  BY <1>0, <1>9, <1>15, QuietKeepsStale DEF Disable, clock, piece
<1>10. CASE Delete
  <2>1. \A q \in Keys : m'[q] \in {Absent, m[q]}
    BY <1>10 DEF Delete, RemoveFrom, Types
  <2> QED BY <1>0, <1>10, <1>15, <2>1, QuietKeepsStale DEF Delete, clock
<1>11. CASE DisableRow
  <2>1. off.key \in Keys
    BY <1>11 DEF DisableRow, Types, Disabling, Idle
  <2>2. PICK k \in Keys : k = off.key
    BY <2>1
  <2> DEFINE steps == {"cluster", "expire", "put"}
  <2>3. Gone(k, steps) /\ UNCHANGED <<now, backs, m, call, clusterOn>>
    BY <1>11, <2>2 DEF DisableRow, clock, piece
  <2>4. \A q \in Keys : enabled'[q] = IF q = k THEN FALSE ELSE enabled[q]
    BY <1>11, <2>2 DEF DisableRow, Types
  <2>5. \A q \in Keys : LivesOn(q)' <=> LivesOn(q)
    BY <2>3 DEF LivesOn, At
  <2>6. ~Found(k)' /\ (LivesOn(k)' => LivesOn(k) /\ At(k, steps))
    <3>1. ~Found(k)'
      BY <2>4 DEF Found
    <3>2. LivesOn(k) => At(k, steps)
      BY DEF LivesOn, At
    <3> QED BY <2>5, <3>1, <3>2
  <2>7. \A q \in Keys : q # k => (Found(q)' <=> Found(q)) /\ (LivesOn(q)' <=> LivesOn(q))
    BY <2>3, <2>4, <2>5 DEF Found
  <2> HIDE DEF steps
  <2> QED BY <2>3, <2>6, <2>7, GoneKeepsStale
<1>12. CASE Collect
  <2>1. \A q \in Keys : m'[q] \in {Absent, m[q]}
    BY <1>12 DEF Collect, StartGC, TakeEntries, DropItems, EndGC, piece
  <2> QED BY <1>0, <1>12, <1>15, <2>1, QuietKeepsStale DEF Collect, StartGC, TakeEntries, DropItems, EndGC, clock
<1>13. CASE UNCHANGED vars
  BY <1>0, <1>13, <1>15, QuietKeepsStale DEF vars, rows
<1> QED BY <1>1, <1>2, <1>3, <1>4, <1>5, <1>6, <1>7, <1>8, <1>9, <1>10, <1>11, <1>12, <1>13 DEF Next, Find

-----------------------------------------------------------------------------
(***************************************************************************)
(* The theorems.                                                           *)
(***************************************************************************)

\* Every reachable state has its types, no item before the earliest expiry, and no
\* item that nobody will collect.
THEOREM LeakInvariant == Spec => []LeakInv
<1>1. Init => LeakInv
  BY TypesInit DEF LeakInv, Init, NothingEarlier, NoLeak
<1>2. LeakInv /\ [Next]_vars => LeakInv'
  BY TypesStep, NothingEarlierStep, NoLeakStep DEF LeakInv
<1> QED BY <1>1, <1>2, PTL DEF Spec

\* The piece never has more items than it may have, however many lookups write at once
\* (the type invariant; Piece.Add and its count).
THEOREM TypeCorrect == Spec => []TypeOK
<1>1. LeakInv => TypeOK
  <2> SUFFICES ASSUME Types PROVE TypeOK
    BY DEF LeakInv
  <2>1. gc.pc \in {"idle", "list", "map"}
    BY DEF Types, Idle, Collector
  <2>2. off.pc \in {"idle", "first", "second", "row"}
    BY DEF Types, Idle, Disabling
  <2>3. \A c \in Callers : call[c].pc \in {"idle", "read", "row", "cluster", "expire", "put", "list"}
    <3> SUFFICES ASSUME NEW c \in Callers PROVE call[c].pc \in {"idle", "read", "row", "cluster", "expire", "put", "list"}
      OBVIOUS
    <3>1. call[c] \in {Idle} \cup Lookup
      BY DEF Types
    <3> QED BY <3>1 DEF Idle, Lookup
  <2> QED BY <2>1, <2>2, <2>3 DEF TypeOK, Types, Held
<1> QED BY <1>1, LeakInvariant, PTL

\* No item is lost: whatever the lookups, DisableNode and the collector do at the same
\* time, an item that was not put behind the collector will be collected.
THEOREM NothingLeaks == Spec => []NoLeak
<1>1. LeakInv => NoLeak
  BY DEF LeakInv
<1> QED BY <1>1, LeakInvariant, PTL

\* As long as the clock is not set back, no answer is older than the time limit allows.
THEOREM NothingStale == Spec => StaleBounded
<1> DEFINE Bounded(c) ==
      LET k == call[c].key
      IN  call[c] # Idle /\ call[c].pc = "read" /\ call'[c] = Idle /\ ~Found(k) /\ k \notin overtaken
            => now <= goneAt[k] + TTL + 1 \/ backs > 0
<1>1. Init => Types /\ StaleInv
  BY TypesInit, StaleInit
<1>2. Types /\ StaleInv /\ [Next]_vars => (Types /\ StaleInv)'
  BY TypesStep, StaleStep
<1>3. Types /\ StaleInv /\ [Next]_vars => [\A c \in Callers : Bounded(c)]_vars
  <2> SUFFICES ASSUME Types, StaleInv, Next, NEW c \in Callers,
                      call[c] # Idle, call[c].pc = "read", call'[c] = Idle,
                      ~Found(call[c].key), call[c].key \notin overtaken, ~(backs > 0)
               PROVE  now <= goneAt[call[c].key] + TTL + 1
    OBVIOUS
  <2>1. call[c] \in Lookup
    BY DEF Types
  <2>2. PICK k \in Keys : k = call[c].key
    BY <2>1 DEF Lookup
  <2>3. backs = 0
    BY DEF Types
  <2>4. m[k] <= goneAt[k] + TTL
    BY <2>2, <2>3 DEF StaleInv, GoneBefore
  <2>5. Hit(c)
    <3>1. PICK d \in Callers : Start(d) \/ Find(d)
      BY DEF Next, Tick, SetBack, TurnOff, Disable, Delete, DisableRow, Collect, StartGC, TakeEntries, DropItems, EndGC
    <3>2. PICK r : call' = [call EXCEPT ![d] = r]
      BY <3>1 DEF Start, Find, Hit, Miss, ReadRow, ReadCluster, Expire, Put, AddEntry, Step
    <3>3. d = c
      BY <3>2 DEF Types
    <3>4. ~Start(c) /\ ~ReadRow(c) /\ ~ReadCluster(c) /\ ~Expire(c) /\ ~Put(c) /\ ~AddEntry(c)
      BY DEF Start, ReadRow, ReadCluster, Expire, Put, AddEntry
    <3>5. ~Miss(c)
      <4> SUFFICES ASSUME Miss(c) PROVE FALSE
        OBVIOUS
      <4>1. call'[c] = [call[c] EXCEPT !.pc = "row"]
        BY DEF Miss, Step, Types
      <4>2. call'[c].pc = "row"
        BY <2>1, <4>1 DEF Lookup
      <4> QED BY <4>2 DEF Idle
    <3> QED BY <3>1, <3>3, <3>4, <3>5 DEF Find
  <2>6. now <= m[k] + 1
    BY <2>2, <2>5 DEF Hit, Alive, UnixTime, Types, Times, Absent
  <2>7. now \in Int /\ m[k] \in Int /\ goneAt[k] + TTL \in Int
    BY SizeAssumption DEF Types, Times, Absent
  <2> QED BY <2>2, <2>4, <2>6, <2>7
<1> QED BY <1>1, <1>2, <1>3, PTL DEF Spec, StaleBounded

=============================================================================
