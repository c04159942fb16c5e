--------------------------- MODULE SysLockerProofs ---------------------------
(***************************************************************************)
(* Type correctness of SysLocker, Unique and Increasing, and that it       *)
(* implements VersionSource, for every number of API nodes and goroutines, *)
(* and every step and default value.                                       *)
(***************************************************************************)
EXTENDS SysLocker, SequenceTheorems, WellFoundedInduction, TLAPS

\* A range filled by Push is a sequence of versions.
LEMMA PushedType ==
  ASSUME NEW item \in [c : Seq(Nat), maxValue : Nat],
         NEW minValue \in Nat, NEW maxValue \in Nat \cup {NoRow}
  PROVE  Pushed(item, minValue, maxValue) \in [c : Seq(Nat), maxValue : Nat]
<1> DEFINE n == maxValue - minValue + 1
           c == [i \in 1..n |-> minValue + i - 1]
<1>1. c \in Seq(Nat)
  <2>1. CASE n \in Nat
    <3>1. c \in [1..n -> Nat]
      OBVIOUS
    <3> QED BY <2>1, <3>1, SeqDef
  <2>2. CASE n \notin Nat
    <3>1. 1..n = 1..0
      BY <2>2 DEF NoRow
    <3>2. c \in [1..0 -> Nat]
      BY <3>1
    <3> QED BY <3>2, SeqDef
  <2> QED BY <2>1, <2>2
<1>2. (IF minValue <= maxValue /\ item.maxValue < maxValue THEN maxValue ELSE item.maxValue) \in Nat
  BY DEF NoRow
<1> QED BY <1>1, <1>2 DEF Pushed

\* Handing out versions and leaving Increase keep the types of what they write.
LEMMA HandOutType ==
  ASSUME TypeOK, NEW a \in APINodes, NEW s \in SUBSET Nat, HandOut(a, s)
  PROVE  issued' \in [APINodes -> SUBSET Nat] /\ reissued' \in SUBSET Nat
<1>1. issued' = [issued EXCEPT ![a] = issued[a] \cup s]
  BY DEF HandOut
<1>2. reissued' \subseteq reissued \cup s
  BY DEF HandOut
<1> QED BY <1>1, <1>2 DEF TypeOK

\* Goroutines that leave a call have types as before.
LEMMA LeaveType ==
  ASSUME TypeOK, NEW s, Leave(s)
  PROVE  /\ pc' \in [Procs -> {"idle", "check", "pop", "return", "lock", "push", "tx"}]
         /\ outer' \in [Procs -> BOOLEAN]
         /\ lastVersion' \in [Procs -> Nat]
         /\ value' \in [Procs -> Nat]
         /\ held' \in [Procs -> SUBSET Nat]
         /\ before' \in [Procs -> SUBSET Nat]
BY DEF Leave, TypeOK

\* Every variable keeps its type.
LEMMA TypeStep == TypeOK /\ [Next]_vars => TypeOK'
<1> SUFFICES ASSUME TypeOK, [Next]_vars PROVE TypeOK'
  OBVIOUS
<1> USE HomeAssumption, StepAssumption, DefaultAssumption, NoProcAssumption DEF TypeOK
<1>1. ASSUME NEW p \in Procs, ReadVersion(p) PROVE TypeOK'
  BY <1>1 DEF ReadVersion, MustFollow, Highest, AllIssued, Goto, rowVars, ghosts, NoRow
<1>2. ASSUME NEW p \in Procs, CheckCache(p) PROVE TypeOK'
  BY <1>2 DEF CheckCache, Goto, rowVars, ghosts
<1>3. ASSUME NEW p \in Procs, PopCache(p) PROVE TypeOK'
  <2> DEFINE a == Home[p]
             c == increment[a].c
  <2>0. a \in APINodes /\ c \in Seq(Nat)
    OBVIOUS
  <2>1. CASE c = <<>>
    BY <1>3, <2>1 DEF PopCache, Goto, rowVars, ghosts
  <2>2. CASE c # <<>>
    <3>1. Head(c) \in Nat /\ Tail(c) \in Seq(Nat)
      BY <2>0, <2>2
    <3>2. increment' \in [APINodes -> [c : Seq(Nat), maxValue : Nat]]
      <4>1. increment' = [increment EXCEPT ![a] =
                            [c |-> Tail(c), maxValue |-> increment[a].maxValue]]
        BY <1>3, <2>2 DEF PopCache
      <4>2. increment[a].maxValue \in Nat
        BY <2>0
      <4>3. [c |-> Tail(c), maxValue |-> increment[a].maxValue] \in [c : Seq(Nat), maxValue : Nat]
        BY <3>1, <4>2
      <4> HIDE DEF c
      <4> QED BY <4>1, <4>3
    <3>3. value' \in [Procs -> Nat]
      BY <1>3, <2>2, <3>1 DEF PopCache
    <3> QED BY <1>3, <2>2, <3>2, <3>3 DEF PopCache, Goto, rowVars, ghosts
  <2> QED BY <2>1, <2>2
<1>4. ASSUME NEW p \in Procs, Return(p) PROVE TypeOK'
  <2>1. HandOut(Home[p], {value[p]}) /\ {value[p]} \in SUBSET Nat
    BY <1>4 DEF Return
  <2>2. issued' \in [APINodes -> SUBSET Nat] /\ reissued' \in SUBSET Nat
    BY <2>1, HandOutType
  <2>3. Leave({p})
    BY <1>4 DEF Return
  <2> QED BY <1>4, <2>2, <2>3, LeaveType DEF Return, rowVars
<1>5. ASSUME NEW p \in Procs, CallInTx(p) PROVE TypeOK'
  BY <1>5 DEF CallInTx, MustFollow, Highest, AllIssued, Goto, rowVars, ghosts
<1>6. ASSUME NEW p \in Procs, CallAgainInTx(p) PROVE TypeOK'
  BY <1>6 DEF CallAgainInTx, MustFollow, Highest, AllIssued, Goto, rowVars, ghosts
<1>7. ASSUME NEW p \in Procs, LockRow(p) PROVE TypeOK'
  <2>1. AddStep(p) \in Nat /\ MinVersion(AddStep(p)) \in Nat /\ AddOne(p) \in Nat
    BY DEF AddStep, AddOne, MinVersion, Base, NoRow
  <2>2. /\ pending' \in Nat \cup {NoRow}
        /\ value' \in [Procs -> Nat]
        /\ held' \in [Procs -> SUBSET Nat]
        /\ pc' \in [Procs -> {"idle", "check", "pop", "return", "lock", "push", "tx"}]
    <3>1. CASE Home[p] \in combined
      <4>1. /\ pending' = AddStep(p)
            /\ value' = [value EXCEPT ![p] = MinVersion(AddStep(p))]
            /\ held' = held
            /\ pc' = [pc EXCEPT ![p] = "push"]
        BY <1>7, <3>1 DEF LockRow, Goto
      <4> QED BY <2>1, <4>1
    <3>2. CASE Home[p] \notin combined
      <4>1. /\ pending' = AddOne(p)
            /\ value' = [value EXCEPT ![p] = AddOne(p)]
            /\ held' = [held EXCEPT ![p] = held[p] \cup {AddOne(p)}]
            /\ pc' = [pc EXCEPT ![p] = "tx"]
        BY <1>7, <3>2 DEF LockRow, Goto
      <4> QED BY <2>1, <4>1
    <3> QED BY <3>1, <3>2
  <2> QED BY <1>7, <2>2 DEF LockRow, ghosts
<1>8. ASSUME NEW p \in Procs, PushRange(p) PROVE TypeOK'
  <2> DEFINE a == Home[p]
  <2>1. Pushed(increment[a], value[p] + 1, pending) \in [c : Seq(Nat), maxValue : Nat]
    <3>1. a \in APINodes
      OBVIOUS
    <3>2. increment[a] \in [c : Seq(Nat), maxValue : Nat]
      BY <3>1
    <3>3. value[p] + 1 \in Nat /\ pending \in Nat \cup {NoRow}
      OBVIOUS
    <3> HIDE DEF TypeOK, a
    <3> QED BY <3>2, <3>3, PushedType
  <2> QED BY <1>8, <2>1 DEF PushRange, Goto, rowVars, ghosts
<1>9. ASSUME NEW p \in Procs, Commit(p) PROVE TypeOK'
  <2>1. HandOut(Home[p], held[p]) /\ held[p] \in SUBSET Nat
    BY <1>9 DEF Commit
  <2>2. issued' \in [APINodes -> SUBSET Nat] /\ reissued' \in SUBSET Nat
    BY <2>1, HandOutType
  <2>3. Leave({p})
    BY <1>9 DEF Commit
  <2> QED BY <1>9, <2>2, <2>3, LeaveType DEF Commit, Release
<1>10. ASSUME NEW p \in Procs, Abort(p) PROVE TypeOK'
  BY <1>10, LeaveType DEF Abort, RollBack, Release
<1>11. ASSUME NEW a \in APINodes, Crash(a) PROVE TypeOK'
  <2>1. EmptyItem \in [c : Seq(Nat), maxValue : Nat]
    BY DEF EmptyItem
  <2>2. increment' \in [APINodes -> [c : Seq(Nat), maxValue : Nat]]
    BY <1>11, <2>1 DEF Crash
  <2> DEFINE mine == {p \in Procs : Home[p] = a}
  <2>3. RollBack(mine)
    BY <1>11 DEF Crash
  <2> HIDE DEF mine
  <2>4. Leave(mine) /\ Release(mine) /\ aborts' \in Nat
        /\ UNCHANGED <<combined, db, issued, reissued>>
    BY <2>3 DEF RollBack
  <2> QED BY <2>2, <2>4, LeaveType DEF Release
<1>12. CASE UNCHANGED vars
  BY <1>12 DEF vars, rowVars, callVars, ghosts
<1> QED BY <1>1, <1>2, <1>3, <1>4, <1>5, <1>6, <1>7, <1>8, <1>9, <1>10, <1>11, <1>12
        DEF Next, ProcStep

\* The types hold at the start.
LEMMA TypeInit == Init => TypeOK
BY DefaultAssumption DEF Init, TypeOK, EmptyItem

\* Type correctness: row, caches and locals of the goroutines keep their types,
\* and no negative version is ever allocated, whatever the default value.
THEOREM TypeCorrect == Spec => []TypeOK
BY TypeInit, TypeStep, PTL DEF Spec

-----------------------------------------------------------------------------
(***************************************************************************)
(* Unique.  The lemmas say what each kind of step does to the places a     *)
(* version can be in: the caches, the hands of the goroutines, and the set *)
(* of versions handed out.                                                 *)
(***************************************************************************)

\* A goroutine that is neither returning nor in a transaction holds nothing.
LEMMA EmptyHand ==
  ASSUME IInv, NEW p \in Procs, pc[p] \in {"idle", "check", "pop"}
  PROVE  Hand(p) = {} /\ owner # p
BY NoProcAssumption DEF IInv, RowLocked, Hand, TypeOK

\* A step of one goroutine that touches neither the row, nor a cache, nor a
\* version, and moves it to a point that is no part of a transaction but "lock".
LEMMA QuietStep ==
  ASSUME IInv, NEW p \in Procs, NEW l \in {"check", "pop", "lock"},
         pc[p] \in {"idle", "check", "pop"} \/ (pc[p] = "tx" /\ l = "lock"),
         pc' = [pc EXCEPT ![p] = l],
         UNCHANGED <<combined, rowVars, increment, value, held, ghosts>>
  PROVE  RowLocked' /\ (aborts' = 0 => Allocated')
<1> USE NoProcAssumption DEF IInv
<1>1. RowLocked'
  BY DEF RowLocked, TypeOK, rowVars
<1>2. \A q \in Procs : Hand(q)' = Hand(q)
  BY DEF Hand, RowLocked, TypeOK
<1>3. \A a \in APINodes : Cached(a)' = Cached(a)
  BY DEF Cached
<1>4. ASSUME aborts' = 0 PROVE Allocated'
  <2>1. Allocated
    BY <1>4 DEF ghosts
  <2>2. InOnePlace' /\ reissued' = {}
    BY <1>2, <1>3, <2>1 DEF Allocated, InOnePlace, ghosts
  <2>3. /\ OutAtMost(db, NoProc)' <=> OutAtMost(db, NoProc)
        /\ OutAtMost(pending, NoProc)' <=> OutAtMost(pending, NoProc)
        /\ OutAtMost(db, owner)' <=> OutAtMost(db, owner)
        /\ \A q \in Procs : OutAtMost(value[q] - 1, NoProc)' <=> OutAtMost(value[q] - 1, NoProc)
    BY <1>2, <1>3 DEF OutAtMost, rowVars, ghosts
  <2>4. Published(owner)' <=> Published(owner)
    BY DEF Published, rowVars
  <2>5. \A q \in Procs : pc'[q] = "push" => pc[q] = "push"
    BY DEF TypeOK
  <2>6. BelowRow'
    BY <2>1, <2>3, <2>4, <2>5 DEF Allocated, BelowRow, rowVars
  <2> QED BY <2>2, <2>6 DEF Allocated
<1> QED BY <1>1, <1>4

\* Caches hold versions.
LEMMA CachedType ==
  ASSUME TypeOK, NEW a \in APINodes
  PROVE  Cached(a) \subseteq Nat
BY DEF TypeOK, Cached

\* Popping takes the head out of the cache and nothing else.
LEMMA PopSequence ==
  ASSUME NEW c \in Seq(Nat), c # <<>>,
         \A i, j \in 1..Len(c) : i < j => c[i] < c[j]
  PROVE  /\ \A i, j \in 1..Len(Tail(c)) : i < j => Tail(c)[i] < Tail(c)[j]
         /\ {Tail(c)[i] : i \in 1..Len(Tail(c))} \subseteq {c[i] : i \in 1..Len(c)} \ {Head(c)}
         /\ Head(c) \in {c[i] : i \in 1..Len(c)}
<1>1. Len(c) \in Nat /\ Len(c) >= 1 /\ Head(c) = c[1]
  OBVIOUS
<1>2. Len(Tail(c)) = Len(c) - 1 /\ \A i \in 1..Len(Tail(c)) : Tail(c)[i] = c[i + 1]
  OBVIOUS
<1>3. \A i \in 1..Len(Tail(c)) : i + 1 \in 1..Len(c) /\ 1 \in 1..Len(c) /\ 1 < i + 1
  BY <1>1, <1>2
<1>4. \A i \in 1..Len(c) : c[i] \in Nat
  OBVIOUS
<1> QED BY <1>1, <1>2, <1>3, <1>4

\* A version goes from the cache to the hand of a goroutine (SysLockerIncrement.Pop).
LEMMA PopStep ==
  ASSUME IInv, NEW p \in Procs, PopCache(p), increment[Home[p]].c # <<>>
  PROVE  RowLocked' /\ (aborts' = 0 => Allocated')
<1> USE NoProcAssumption, HomeAssumption
<1> DEFINE a == Home[p]
           c == increment[a].c
<1>1. /\ pc[p] = "pop"
      /\ increment' = [increment EXCEPT ![a] = [c |-> Tail(c), maxValue |-> @.maxValue]]
      /\ value' = [value EXCEPT ![p] = Head(c)]
      /\ pc' = [pc EXCEPT ![p] = "return"]
      /\ UNCHANGED <<combined, db, owner, pending, held, issued, reissued, aborts>>
  BY DEF PopCache, Goto, rowVars, ghosts
<1>2. TypeOK /\ RowLocked /\ a \in APINodes /\ c \in Seq(Nat)
  BY DEF IInv, TypeOK
<1>3. Hand(p) = {} /\ owner # p
  BY <1>1, EmptyHand
<1>4. RowLocked'
  BY <1>1, <1>2, <1>3 DEF RowLocked, TypeOK
<1>5. ASSUME aborts' = 0 PROVE Allocated'
  <2>1. Allocated
    BY <1>1, <1>5 DEF IInv
  <2>2. \A i, j \in 1..Len(c) : i < j => c[i] < c[j]
    BY <2>1, <1>2 DEF Allocated, BelowRow
  <2>3. increment'[a].c = Tail(c) /\ \A a1 \in APINodes : a1 # a => increment'[a1] = increment[a1]
    BY <1>1, <1>2 DEF TypeOK
  <2>4. Cached(a)' \subseteq Cached(a) \ {Head(c)} /\ Head(c) \in Cached(a)
    BY <2>2, <2>3, <1>2, PopSequence DEF Cached
  <2>5. \A a1 \in APINodes : Cached(a1)' \subseteq Cached(a1) \ {Head(c)}
    <3>1. ASSUME NEW a1 \in APINodes, a1 # a PROVE Cached(a1)' = Cached(a1)
      BY <2>3, <3>1 DEF Cached
    <3>2. ASSUME NEW a1 \in APINodes, a1 # a PROVE Head(c) \notin Cached(a1)
      BY <2>1, <2>4, <1>2, <3>2 DEF Allocated, InOnePlace
    <3> QED BY <2>4, <3>1, <3>2
  <2>6. Hand(p)' = {Head(c)} /\ \A q \in Procs : q # p => Hand(q)' = Hand(q)
    BY <1>1, <1>2 DEF Hand, TypeOK
  <2>7. InOnePlace' /\ reissued' = {}
    <3> DEFINE h == Head(c)
    <3> HIDE DEF h, c
    <3>1. \A a1 \in APINodes : h \notin Cached(a1)' /\ h \notin issued[a1]
      BY <1>2, <2>1, <2>4, <2>5 DEF Allocated, InOnePlace, h
    <3>2. \A q \in Procs : h \notin Hand(q)
      BY <1>2, <2>1, <2>4 DEF Allocated, InOnePlace, h
    <3>3. \A a1 \in APINodes : Cached(a1)' \subseteq Cached(a1)
      BY <2>5
    <3>4. \A q \in Procs : Hand(q)' = IF q = p THEN {h} ELSE Hand(q)
      BY <2>6 DEF h
    <3>5. issued' = issued /\ reissued' = reissued
      BY <1>1
    <3>6. InOnePlace /\ reissued = {}
      BY <2>1 DEF Allocated
    <3> QED BY <3>1, <3>2, <3>3, <3>4, <3>5, <3>6 DEF InOnePlace
  <2>8. \A a1 \in APINodes : \A i, j \in 1..Len(increment'[a1].c) :
          i < j => increment'[a1].c[i] < increment'[a1].c[j]
    BY <2>1, <2>2, <2>3, <1>2, PopSequence DEF Allocated, BelowRow
  <2>9. /\ OutAtMost(db, NoProc) => OutAtMost(db, NoProc)'
        /\ OutAtMost(pending, NoProc) => OutAtMost(pending, NoProc)'
        /\ OutAtMost(db, owner) => OutAtMost(db, owner)'
        /\ \A q \in Procs : q # p /\ OutAtMost(value[q] - 1, NoProc) => OutAtMost(value[q] - 1, NoProc)'
    <3>1. ASSUME NEW n, NEW x, OutAtMost(n, x)
          PROVE  /\ \A a1 \in APINodes : \A v \in issued'[a1] \cup Cached(a1)' : v <= n
                 /\ \A q \in Procs : q # x => \A v \in Hand(q)' : v <= n
      <4>1. issued' = issued
        BY <1>1
      <4>2. Head(c) <= n
        BY <1>2, <2>4, <3>1 DEF OutAtMost
      <4> QED BY <2>5, <2>6, <3>1, <4>1, <4>2 DEF OutAtMost
    <3>2. \A q \in Procs : q # p => (value[q] - 1)' = value[q] - 1
      BY <1>1, <1>2 DEF TypeOK
    <3> QED BY <1>1, <3>1, <3>2 DEF OutAtMost
  <2>10. Published(owner)' <=> Published(owner)
    BY <1>1 DEF Published
  <2>11. \A q \in Procs : pc'[q] = "push" => pc[q] = "push" /\ q # p
    BY <1>1, <1>2 DEF TypeOK
  <2>12. BelowRow'
    BY <1>1, <2>1, <2>8, <2>9, <2>10, <2>11 DEF Allocated, BelowRow
  <2> QED BY <2>7, <2>12 DEF Allocated
<1> QED BY <1>4, <1>5

\* A version taken from the cache is handed out.
LEMMA ReturnStep ==
  ASSUME IInv, NEW p \in Procs, Return(p)
  PROVE  RowLocked' /\ (aborts' = 0 => Allocated')
<1> USE NoProcAssumption, HomeAssumption
<1> DEFINE a == Home[p]
<1>1. /\ pc[p] = "return"
      /\ issued' = [issued EXCEPT ![a] = @ \cup {value[p]}]
      /\ reissued' = reissued \cup ({value[p]} \cap AllIssued)
      /\ Leave({p})
      /\ UNCHANGED <<combined, db, owner, pending, increment, aborts>>
  BY DEF Return, HandOut, rowVars
<1>2. TypeOK /\ RowLocked /\ a \in APINodes
  BY DEF IInv, TypeOK
<1>3. Hand(p) = {value[p]} /\ held[p] = {} /\ owner # p
  BY <1>1, <1>2 DEF RowLocked, Hand, TypeOK
<1>4. /\ pc'[p] = "idle" /\ held'[p] = {}
      /\ \A q \in Procs : q # p => pc'[q] = pc[q] /\ value'[q] = value[q] /\ held'[q] = held[q]
  BY <1>1 DEF Leave
<1>5. RowLocked'
  BY <1>1, <1>2, <1>3, <1>4 DEF RowLocked, TypeOK
<1>6. ASSUME aborts' = 0 PROVE Allocated'
  <2>1. Allocated
    BY <1>1, <1>6 DEF IInv
  <2>2. Hand(p)' = {} /\ \A q \in Procs : q # p => Hand(q)' = Hand(q)
    BY <1>4 DEF Hand
  <2>3. \A a1 \in APINodes : Cached(a1)' = Cached(a1)
    BY <1>1 DEF Cached
  <2>4. \A a1 \in APINodes : issued'[a1] \subseteq issued[a1] \cup Hand(p)
    <3>1. ASSUME NEW a1 \in APINodes PROVE issued'[a1] \subseteq issued[a1] \cup {value[p]}
      BY <1>1, <1>2 DEF TypeOK
    <3> QED BY <1>3, <3>1
  <2>5. InOnePlace' /\ reissued' = {}
    <3>1. value[p] \notin AllIssued
      BY <2>1, <1>3 DEF AllIssued, Allocated, InOnePlace
    <3>2. InOnePlace'
      BY <2>1, <2>2, <2>3, <2>4 DEF Allocated, InOnePlace
    <3> QED BY <1>1, <2>1, <3>1, <3>2 DEF Allocated
  <2>6. /\ OutAtMost(db, NoProc) => OutAtMost(db, NoProc)'
        /\ OutAtMost(pending, NoProc) => OutAtMost(pending, NoProc)'
        /\ OutAtMost(db, owner) => OutAtMost(db, owner)'
        /\ \A q \in Procs : q # p /\ OutAtMost(value[q] - 1, NoProc) => OutAtMost(value[q] - 1, NoProc)'
    <3>1. ASSUME NEW n, NEW x, x # p, OutAtMost(n, x)
          PROVE  /\ \A a1 \in APINodes : \A v \in issued'[a1] \cup Cached(a1)' : v <= n
                 /\ \A q \in Procs : q # x => \A v \in Hand(q)' : v <= n
      BY <2>2, <2>3, <2>4, <3>1 DEF OutAtMost
    <3>2. \A q \in Procs : q # p => (value[q] - 1)' = value[q] - 1
      BY <1>4
    <3>3. NoProc # p
      OBVIOUS
    <3> QED BY <1>1, <1>3, <3>1, <3>2, <3>3 DEF OutAtMost
  <2>7. Published(owner)' <=> Published(owner)
    BY <1>1, <1>3, <1>4, <1>2 DEF Published, Leave, TypeOK
  <2>8. \A q \in Procs : pc'[q] = "push" => pc[q] = "push" /\ q # p
    BY <1>4
  <2>9. BelowRow'
    BY <1>1, <2>1, <2>6, <2>7, <2>8 DEF Allocated, BelowRow
  <2> QED BY <2>5, <2>9 DEF Allocated
<1> QED BY <1>5, <1>6

\* The next allocation starts above the row as the transaction sees it.
LEMMA AboveBase ==
  ASSUME TypeOK, RowLocked, NEW p \in Procs, owner \in {NoProc, p}
  PROVE  /\ Base(p) \in Nat \cup {NoRow} /\ db <= Base(p)
         /\ AddStep(p) \in Nat /\ AddOne(p) \in Nat
         /\ Base(p) < MinVersion(AddStep(p)) /\ MinVersion(AddStep(p)) \in Nat
         /\ AddStep(p) = MinVersion(AddStep(p)) + Step - 1
         /\ Base(p) < AddOne(p) /\ Base(p) < AddStep(p)
BY StepAssumption, DefaultAssumption, NoProcAssumption
   DEF Base, AddStep, AddOne, MinVersion, NoRow, TypeOK, RowLocked

\* The row is locked and a range of versions is taken from it.
LEMMA LockStep ==
  ASSUME IInv, NEW p \in Procs, LockRow(p)
  PROVE  RowLocked' /\ (aborts' = 0 => Allocated')
<1> USE NoProcAssumption
<1>1. TypeOK /\ RowLocked
  BY DEF IInv
<1>2. /\ pc[p] = "lock" /\ owner \in {NoProc, p} /\ owner' = p
      /\ UNCHANGED <<combined, db, increment, issued, reissued, aborts>>
  BY DEF LockRow, ghosts
<1>3. \A a \in APINodes : Cached(a)' = Cached(a)
  BY <1>2 DEF Cached
<1>4. ASSUME aborts' = 0
      PROVE  /\ InOnePlace /\ reissued = {} /\ OutAtMost(Base(p), NoProc)
             /\ ~Published(p) => OutAtMost(db, p)
             /\ \A a1 \in APINodes : \A i, j \in 1..Len(increment[a1].c) :
                  i < j => increment[a1].c[i] < increment[a1].c[j]
  <2>1. Allocated
    BY <1>2, <1>4 DEF IInv
  <2>2. owner = NoProc /\ OutAtMost(db, NoProc) => OutAtMost(db, p)
    BY DEF OutAtMost
  <2> QED BY <1>2, <2>1, <2>2 DEF Allocated, BelowRow, Base
<1>5. CASE Home[p] \in combined
  <2> DEFINE m == AddStep(p)
  <2>1. /\ pending' = m
        /\ value' = [value EXCEPT ![p] = MinVersion(m)]
        /\ pc' = [pc EXCEPT ![p] = "push"]
        /\ UNCHANGED held
    BY <1>5 DEF LockRow, Goto
  <2>2. RowLocked'
    <3>1. /\ pending' = value'[p] + Step - 1 /\ db' < value'[p] /\ db' < pending'
          /\ pc'[p] = "push" /\ owner' = p
      <4>1. value'[p] = MinVersion(m) /\ pc'[p] = "push"
        <5> HIDE DEF m
        <5> QED BY <1>1, <2>1 DEF TypeOK
      <4>2. m = MinVersion(m) + Step - 1 /\ db < MinVersion(m) /\ db < m
        <5>1. db \in Int /\ Base(p) \in Int /\ m \in Int /\ MinVersion(m) \in Int
              /\ db <= Base(p) /\ Base(p) < MinVersion(m) /\ Base(p) < m
              /\ m = MinVersion(m) + Step - 1
          BY <1>1, <1>2, AboveBase DEF NoRow, TypeOK
        <5> HIDE DEF m
        <5> QED BY <5>1
      <4> QED BY <1>2, <2>1, <4>1, <4>2
    <3>2. \A q \in Procs : q # p =>
            pc'[q] = pc[q] /\ held'[q] = held[q] /\ held[q] = {} /\ pc[q] \notin {"push", "tx"}
      BY <1>1, <1>2, <2>1 DEF RowLocked, TypeOK
    <3>3. held'[p] = held[p]
      BY <2>1
    <3> HIDE DEF m
    <3> QED BY <1>2, <1>5, <3>1, <3>2, <3>3 DEF RowLocked
  <2>3. \A q \in Procs : Hand(q)' = Hand(q)
    BY <1>1, <1>2, <2>1 DEF Hand, TypeOK
  <2>4. ASSUME aborts' = 0 PROVE Allocated'
    <3>1. InOnePlace' /\ reissued' = {}
      BY <1>2, <1>3, <1>4, <2>3, <2>4 DEF InOnePlace
    <3>2. ASSUME NEW n, NEW x, OutAtMost(n, x)
          PROVE  /\ \A a1 \in APINodes : \A v \in issued'[a1] \cup Cached(a1)' : v <= n
                 /\ \A q \in Procs : q # x => \A v \in Hand(q)' : v <= n
      BY <1>2, <1>3, <2>3, <3>2 DEF OutAtMost
    <3>3. OutAtMost(pending', NoProc) /\ OutAtMost(value'[p] - 1, NoProc)
      <4>1. value'[p] = MinVersion(m)
        BY <1>1, <2>1 DEF TypeOK
      <4>2. Base(p) <= MinVersion(m) - 1 /\ Base(p) <= m /\ m \in Nat /\ MinVersion(m) \in Nat
            /\ Base(p) \in Int
        BY <1>1, <1>2, AboveBase DEF NoRow
      <4>3. \A a1 \in APINodes : issued[a1] \subseteq Nat /\ Cached(a1) \subseteq Nat
        BY <1>1, CachedType DEF TypeOK
      <4>4. \A q \in Procs : Hand(q) \subseteq Nat
        BY <1>1 DEF Hand, TypeOK
      <4> QED BY <1>4, <2>1, <2>4, <4>1, <4>2, <4>3, <4>4 DEF OutAtMost
    <3>4. \A q \in Procs : pc'[q] = "push" => q = p
      BY <1>1, <1>2, <2>1 DEF RowLocked, TypeOK
    <3>5. Published(p)' <=> Published(p)
      BY <1>2, <2>1 DEF Published
    <3>6. OutAtMost(pending, NoProc)' /\ OutAtMost(value[p] - 1, NoProc)'
      BY <3>2, <3>3 DEF OutAtMost
    <3>7. ~Published(p)' => OutAtMost(db, p)'
      BY <1>2, <1>4, <2>4, <3>2, <3>5 DEF OutAtMost
    <3>8. BelowRow'
      BY <1>2, <1>4, <2>4, <3>4, <3>6, <3>7 DEF BelowRow
    <3> QED BY <3>1, <3>8 DEF Allocated
  <2> QED BY <2>2, <2>4
<1>6. CASE Home[p] \notin combined
  <2> DEFINE m == AddOne(p)
  <2>1. /\ pending' = m
        /\ value' = [value EXCEPT ![p] = m]
        /\ held' = [held EXCEPT ![p] = @ \cup {m}]
        /\ pc' = [pc EXCEPT ![p] = "tx"]
    BY <1>6 DEF LockRow, Goto
  <2>2. m \in Nat /\ Base(p) < m /\ Base(p) \in Int /\ db < m
    BY <1>1, <1>2, AboveBase DEF NoRow, TypeOK
  <2>3. RowLocked'
    BY <1>1, <1>2, <1>6, <2>1, <2>2 DEF RowLocked, TypeOK
  <2>4. /\ Hand(p)' = Hand(p) \cup {m}
        /\ \A q \in Procs : q # p => Hand(q)' = Hand(q)
    BY <1>1, <1>2, <2>1 DEF Hand, TypeOK
  <2>5. ASSUME aborts' = 0 PROVE Allocated'
    <3>1. /\ \A a1 \in APINodes : m \notin issued[a1] /\ m \notin Cached(a1)
          /\ \A q \in Procs : m \notin Hand(q)
      BY <1>4, <2>2, <2>5 DEF OutAtMost
    <3>2. InOnePlace' /\ reissued' = {}
      BY <1>2, <1>3, <1>4, <2>4, <2>5, <3>1 DEF InOnePlace
    <3>3. OutAtMost(pending, NoProc)'
      <4>1. \A a1 \in APINodes : issued[a1] \subseteq Nat /\ Cached(a1) \subseteq Nat
        BY <1>1, CachedType DEF TypeOK
      <4>2. \A q \in Procs : Hand(q) \subseteq Nat
        BY <1>1 DEF Hand, TypeOK
      <4>3. OutAtMost(Base(p), NoProc)
        BY <1>4, <2>5
      <4>4. OutAtMost(m, NoProc)
        BY <2>2, <4>1, <4>2, <4>3 DEF OutAtMost
      <4> QED BY <1>2, <1>3, <2>1, <2>2, <2>4, <4>4 DEF OutAtMost
    <3>4. OutAtMost(db, p)'
      <4>1. OutAtMost(db, p)
        BY <1>4, <1>6, <2>5 DEF Published
      <4> QED BY <1>2, <1>3, <2>4, <4>1 DEF OutAtMost
    <3>5. \A q \in Procs : pc'[q] # "push"
      BY <1>1, <1>2, <2>1 DEF RowLocked, TypeOK
    <3>6. BelowRow'
      BY <1>2, <1>4, <2>5, <3>3, <3>4, <3>5 DEF BelowRow
    <3> QED BY <3>2, <3>6 DEF Allocated
  <2> QED BY <2>3, <2>5
<1> QED BY <1>5, <1>6

\* The range Push puts in a cache: minValue..maxValue, in order.
LEMMA PushedRange ==
  ASSUME NEW item \in [c : Seq(Nat), maxValue : Nat],
         NEW minValue \in Nat, NEW maxValue \in Nat, minValue <= maxValue + 1,
         NEW c, c = Pushed(item, minValue, maxValue).c
  PROVE  /\ {c[i] : i \in 1..Len(c)} \subseteq minValue..maxValue
         /\ \A i, j \in 1..Len(c) : i < j => c[i] < c[j]
<1> DEFINE n == maxValue - minValue + 1
<1>1. c = [i \in 1..n |-> minValue + i - 1] /\ n \in Nat
  BY DEF Pushed
<1>2. c \in [1..n -> Nat]
  BY <1>1
<1>3. Len(c) = n
  BY <1>1, <1>2
<1> QED BY <1>1, <1>3

\* The range goes to the cache but for the version of the call (SysLockerIncrement.Push).
LEMMA PushStep ==
  ASSUME IInv, NEW p \in Procs, PushRange(p)
  PROVE  RowLocked' /\ (aborts' = 0 => Allocated')
<1> USE NoProcAssumption
<1> DEFINE a == Home[p]
           w == value[p]
<1>1. TypeOK /\ RowLocked /\ a \in APINodes /\ w \in Nat
  BY HomeAssumption DEF IInv, TypeOK
<1>2. /\ pc[p] = "push"
      /\ increment' = [increment EXCEPT ![a] = Pushed(increment[a], w + 1, pending)]
      /\ held' = [held EXCEPT ![p] = held[p] \cup {w}]
      /\ pc' = [pc EXCEPT ![p] = "tx"]
      /\ UNCHANGED <<combined, db, owner, pending, value, issued, reissued, aborts>>
  BY DEF PushRange, Goto, rowVars, ghosts
<1>3. owner = p /\ pending = w + Step - 1 /\ pending \in Nat /\ a \in combined
  BY <1>1, <1>2, StepAssumption DEF RowLocked
<1>4. RowLocked'
  BY <1>1, <1>2, <1>3 DEF RowLocked, TypeOK
<1>5. /\ Cached(a)' \subseteq (w + 1)..pending
      /\ \A i, j \in 1..Len(increment'[a].c) : i < j => increment'[a].c[i] < increment'[a].c[j]
      /\ \A a1 \in APINodes : a1 # a => increment'[a1] = increment[a1]
  <2>1. increment[a] \in [c : Seq(Nat), maxValue : Nat]
    BY <1>1 DEF TypeOK
  <2>2. /\ increment'[a] = Pushed(increment[a], w + 1, pending)
        /\ \A a1 \in APINodes : a1 # a => increment'[a1] = increment[a1]
    BY <1>1, <1>2 DEF TypeOK
  <2>3. w + 1 \in Nat /\ w + 1 <= pending + 1
    BY <1>1, <1>3, StepAssumption
  <2>4. /\ {increment'[a].c[i] : i \in 1..Len(increment'[a].c)} \subseteq (w + 1)..pending
        /\ \A i, j \in 1..Len(increment'[a].c) : i < j => increment'[a].c[i] < increment'[a].c[j]
    <3> HIDE DEF w, a
    <3> QED BY <1>3, <2>1, <2>2, <2>3, PushedRange
  <2> QED BY <2>2, <2>4 DEF Cached
<1>6. \A a1 \in APINodes : a1 # a => Cached(a1)' = Cached(a1)
  BY <1>5 DEF Cached
<1>7. Hand(p)' = Hand(p) \cup {w} /\ \A q \in Procs : q # p => Hand(q)' = Hand(q)
  BY <1>1, <1>2 DEF Hand, TypeOK
<1>8. ASSUME aborts' = 0 PROVE Allocated'
  <2>1. Allocated /\ OutAtMost(w - 1, NoProc)
    BY <1>2, <1>8 DEF IInv, Allocated, BelowRow
  <2>2. /\ \A a1 \in APINodes : \A v \in issued[a1] \cup Cached(a1) : v < w /\ v <= pending
        /\ \A q \in Procs : \A v \in Hand(q) : v < w /\ v <= pending
    <3>1. \A a1 \in APINodes : issued[a1] \subseteq Nat /\ Cached(a1) \subseteq Nat
      BY <1>1, CachedType DEF TypeOK
    <3>2. \A q \in Procs : Hand(q) \subseteq Nat /\ q # NoProc
      BY <1>1 DEF Hand, TypeOK
    <3> QED BY <1>1, <1>3, <2>1, <3>1, <3>2, StepAssumption DEF OutAtMost
  <2>3. \A v \in Cached(a)' : w < v /\ v <= pending /\ v \in Nat
    BY <1>1, <1>5, <1>3
  <2> HIDE DEF w
  <2>4. InOnePlace' /\ reissued' = {}
    <3>1. InOnePlace /\ reissued = {}
      BY <2>1 DEF Allocated
    <3>2. \A a1 \in APINodes : Cached(a)' \cap issued[a1] = {} /\ Cached(a)' \cap Cached(a1) = {}
                            /\ w \notin Cached(a1) /\ w \notin issued[a1]
      <4> SUFFICES ASSUME NEW a1 \in APINodes, NEW v \in issued[a1] \cup Cached(a1)
                   PROVE  v \notin Cached(a)' /\ v # w
        OBVIOUS
      <4>1. v \in Nat /\ v < w
        BY <1>1, <2>2, CachedType DEF TypeOK
      <4> QED BY <1>1, <2>3, <4>1
    <3>3. \A q \in Procs : Cached(a)' \cap Hand(q) = {} /\ w \notin Hand(q)
      <4> SUFFICES ASSUME NEW q \in Procs, NEW v \in Hand(q)
                   PROVE  v \notin Cached(a)' /\ v # w
        OBVIOUS
      <4>1. v \in Nat /\ v < w
        BY <1>1, <2>2 DEF TypeOK, Hand
      <4> QED BY <1>1, <2>3, <4>1
    <3>4. w \notin Cached(a)'
      BY <1>1, <2>3
    <3> HIDE DEF w, a
    <3> QED BY <1>2, <1>6, <1>7, <3>1, <3>2, <3>3, <3>4 DEF InOnePlace
  <2>5. OutAtMost(pending, NoProc)'
    <3>1. w <= pending
      BY <1>1, <1>3, StepAssumption
    <3> HIDE DEF w, a
    <3> QED BY <1>2, <1>6, <1>7, <2>2, <2>3, <3>1 DEF OutAtMost
  <2>6. Published(p)'
    BY <1>1, <1>2, <1>3 DEF Published, TypeOK
  <2>7. \A q \in Procs : pc'[q] # "push"
    BY <1>1, <1>2, <1>3 DEF RowLocked, TypeOK
  <2>8. \A a1 \in APINodes : \A i, j \in 1..Len(increment'[a1].c) :
          i < j => increment'[a1].c[i] < increment'[a1].c[j]
    BY <1>5, <2>1 DEF Allocated, BelowRow
  <2>9. BelowRow'
    BY <1>2, <1>3, <2>5, <2>6, <2>7, <2>8 DEF BelowRow
  <2> QED BY <2>4, <2>9 DEF Allocated
<1> QED BY <1>4, <1>8

\* The row is committed, and the versions in hand are handed out.
LEMMA CommitStep ==
  ASSUME IInv, NEW p \in Procs, Commit(p)
  PROVE  RowLocked' /\ (aborts' = 0 => Allocated')
<1> USE NoProcAssumption
<1> DEFINE a == Home[p]
<1>1. TypeOK /\ RowLocked /\ a \in APINodes
  BY HomeAssumption DEF IInv, TypeOK
<1>2. /\ pc[p] = "tx" /\ owner = p
      /\ db' = pending /\ owner' = NoProc
      /\ issued' = [issued EXCEPT ![a] = issued[a] \cup held[p]]
      /\ reissued' = reissued \cup (held[p] \cap AllIssued)
      /\ UNCHANGED <<combined, increment, aborts>>
  BY <1>1 DEF Commit, HandOut, Release, RowLocked
<1>3. /\ pc'[p] = "idle" /\ held'[p] = {}
      /\ \A q \in Procs : q # p => pc'[q] = pc[q] /\ value'[q] = value[q] /\ held'[q] = held[q]
  BY DEF Commit, Leave
<1>4. RowLocked'
  BY <1>1, <1>2, <1>3 DEF RowLocked, TypeOK
<1>5. ASSUME aborts' = 0 PROVE Allocated'
  <2>1. Allocated /\ OutAtMost(pending, NoProc)
    BY <1>2, <1>5 DEF IInv, Allocated, BelowRow
  <2>2. Hand(p) = held[p] /\ Hand(p)' = {} /\ \A q \in Procs : q # p => Hand(q)' = Hand(q)
    BY <1>2, <1>3 DEF Hand
  <2>3. \A a1 \in APINodes : Cached(a1)' = Cached(a1)
    BY <1>2 DEF Cached
  <2>4. \A a1 \in APINodes : issued'[a1] \subseteq issued[a1] \cup Hand(p)
    BY <1>1, <1>2, <2>2 DEF TypeOK
  <2>5. InOnePlace'
    BY <2>1, <2>2, <2>3, <2>4 DEF Allocated, InOnePlace
  <2>6. reissued' = {}
    BY <1>2, <2>1, <2>2 DEF Allocated, InOnePlace, AllIssued
  <2>7. OutAtMost(db, NoProc)'
    BY <1>2, <2>1, <2>2, <2>3, <2>4 DEF OutAtMost
  <2>8. \A q \in Procs : pc'[q] # "push"
    BY <1>1, <1>2, <1>3 DEF RowLocked
  <2>9. BelowRow'
    BY <1>2, <2>1, <2>7, <2>8 DEF Allocated, BelowRow
  <2> QED BY <2>5, <2>6, <2>9 DEF Allocated
<1> QED BY <1>4, <1>5

\* A failing transaction, and a crash, only take versions out of hands and caches.
LEMMA RollBackStep ==
  ASSUME IInv, TypeOK', NEW s \in SUBSET Procs, RollBack(s),
         \A a \in APINodes : Cached(a)' \subseteq Cached(a),
         \A a \in APINodes : increment'[a].c = increment[a].c \/ increment'[a].c = <<>>
  PROVE  RowLocked' /\ (aborts' = 0 => Allocated')
<1> USE NoProcAssumption
<1>1. TypeOK /\ RowLocked
  BY DEF IInv
<1>2. /\ owner' = IF owner \in s THEN NoProc ELSE owner
      /\ pending' = IF owner \in s THEN NoRow ELSE pending
      /\ UNCHANGED <<combined, db, issued, reissued>>
  BY DEF RollBack, Release
<1>3. /\ \A q \in s : pc'[q] = "idle" /\ held'[q] = {}
      /\ \A q \in Procs \ s : pc'[q] = pc[q] /\ value'[q] = value[q] /\ held'[q] = held[q]
  BY DEF RollBack, Leave
<1>4. RowLocked'
  <2>1. owner' # NoProc => owner' = owner /\ owner \notin s /\ owner \in Procs /\ pending' = pending
    BY <1>1, <1>2 DEF TypeOK
  <2>2. \A q \in Procs : pc'[q] \in {"lock", "push", "tx"} => q \notin s
    BY <1>3
  <2> QED BY <1>1, <1>2, <1>3, <2>1, <2>2 DEF RowLocked
<1>5. ASSUME aborts' = 0 PROVE Allocated'
  <2>1. aborts = 0 /\ \A q \in s : ~Published(q)
    BY <1>1, <1>5 DEF RollBack, TypeOK
  <2>2. Allocated
    BY <2>1 DEF IInv
  <2>3. /\ \A q \in s : Hand(q)' = {}
        /\ \A q \in Procs \ s : Hand(q)' = Hand(q)
    BY <1>3 DEF Hand
  <2>4. InOnePlace' /\ reissued' = {}
    BY <1>2, <2>2, <2>3 DEF Allocated, InOnePlace
  <2>5. ASSUME NEW n, NEW x, OutAtMost(n, x)
        PROVE  /\ \A a1 \in APINodes : \A v \in issued'[a1] \cup Cached(a1)' : v <= n
               /\ \A q \in Procs : q # x \/ q \in s => \A v \in Hand(q)' : v <= n
    BY <1>2, <2>3, <2>5 DEF OutAtMost
  <2>6. owner' = NoProc => OutAtMost(db, NoProc)'
    <3>1. CASE owner = NoProc
      BY <1>2, <2>2, <2>5, <3>1 DEF Allocated, BelowRow, OutAtMost
    <3>2. CASE owner \in s
      <4>1. OutAtMost(db, owner)
        BY <2>1, <2>2, <3>2 DEF Allocated, BelowRow
      <4>2. \A q \in Procs : q # owner \/ q \in s
        BY <3>2
      <4> QED BY <1>2, <2>5, <4>1, <4>2 DEF OutAtMost
    <3> QED BY <1>2, <3>1, <3>2
  <2>7. owner' # NoProc =>
          /\ OutAtMost(pending, NoProc)'
          /\ ~Published(owner)' => OutAtMost(db, owner)'
    <3> SUFFICES ASSUME owner' # NoProc
                 PROVE  OutAtMost(pending, NoProc)' /\ (~Published(owner)' => OutAtMost(db, owner)')
      OBVIOUS
    <3>1. owner' = owner /\ owner \in Procs \ s /\ pending' = pending
      BY <1>1, <1>2 DEF TypeOK
    <3>2. Published(owner)' <=> Published(owner)
      BY <1>2, <1>3, <3>1 DEF Published
    <3> QED BY <1>2, <2>2, <2>5, <3>1, <3>2 DEF Allocated, BelowRow, OutAtMost
  <2>8. \A q \in Procs : pc'[q] = "push" => OutAtMost(value[q] - 1, NoProc)'
    <3> SUFFICES ASSUME NEW q \in Procs, pc'[q] = "push"
                 PROVE  OutAtMost(value[q] - 1, NoProc)'
      OBVIOUS
    <3>1. q \notin s /\ pc[q] = "push" /\ value'[q] = value[q]
      BY <1>3
    <3>2. OutAtMost(value[q] - 1, NoProc)
      BY <2>2, <3>1 DEF Allocated, BelowRow
    <3> QED BY <2>5, <3>1, <3>2 DEF OutAtMost
  <2>9. \A a1 \in APINodes : \A i, j \in 1..Len(increment'[a1].c) :
          i < j => increment'[a1].c[i] < increment'[a1].c[j]
    BY <2>2 DEF Allocated, BelowRow
  <2> QED BY <2>4, <2>6, <2>7, <2>8, <2>9 DEF Allocated, BelowRow
<1> QED BY <1>4, <1>5

\* Every step preserves the invariant.
LEMMA InvStep == IInv /\ [Next]_vars => IInv'
<1> SUFFICES ASSUME IInv, [Next]_vars PROVE IInv'
  OBVIOUS
<1>1. TypeOK'
  BY TypeStep DEF IInv
<1>2. SUFFICES RowLocked' /\ (aborts' = 0 => Allocated')
  BY <1>1 DEF IInv
<1>3. ASSUME NEW p \in Procs, ReadVersion(p) \/ CheckCache(p) \/ CallInTx(p) \/ CallAgainInTx(p)
      PROVE  RowLocked' /\ (aborts' = 0 => Allocated')
  <2>1. PICK l \in {"check", "pop", "lock"} :
          /\ pc' = [pc EXCEPT ![p] = l]
          /\ pc[p] \in {"idle", "check", "pop"} \/ (pc[p] = "tx" /\ l = "lock")
    BY <1>3 DEF ReadVersion, CheckCache, CallInTx, CallAgainInTx, Goto
  <2>2. UNCHANGED <<combined, rowVars, increment, value, held, ghosts>>
    BY <1>3 DEF ReadVersion, CheckCache, CallInTx, CallAgainInTx
  <2> QED BY <2>1, <2>2, QuietStep
<1>4. ASSUME NEW p \in Procs, PopCache(p)
      PROVE  RowLocked' /\ (aborts' = 0 => Allocated')
  <2>1. CASE increment[Home[p]].c = <<>>
    <3>1. /\ pc' = [pc EXCEPT ![p] = "lock"] /\ pc[p] = "pop"
          /\ UNCHANGED <<combined, rowVars, increment, value, held, ghosts>>
      BY <1>4, <2>1 DEF PopCache, Goto
    <3> QED BY <3>1, QuietStep
  <2>2. CASE increment[Home[p]].c # <<>>
    BY <1>4, <2>2, PopStep
  <2> QED BY <2>1, <2>2
<1>5. ASSUME NEW p \in Procs, Abort(p)
      PROVE  RowLocked' /\ (aborts' = 0 => Allocated')
  <2>1. RollBack({p}) /\ increment' = increment
    BY <1>5 DEF Abort
  <2>2. \A a \in APINodes : Cached(a)' = Cached(a)
    BY <2>1 DEF Cached
  <2> QED BY <1>1, <2>1, <2>2, RollBackStep
<1>6. ASSUME NEW a \in APINodes, Crash(a)
      PROVE  RowLocked' /\ (aborts' = 0 => Allocated')
  <2> DEFINE s == {p \in Procs : Home[p] = a}
  <2>1. RollBack(s)
    BY <1>6 DEF Crash
  <2>2. \A a1 \in APINodes : IF a1 = a THEN increment'[a1].c = <<>> ELSE increment'[a1] = increment[a1]
    BY <1>6 DEF Crash, EmptyItem, IInv, TypeOK
  <2>3. \A a1 \in APINodes : Cached(a1)' \subseteq Cached(a1)
    BY <2>2 DEF Cached
  <2>4. s \in SUBSET Procs
    OBVIOUS
  <2> HIDE DEF s
  <2> QED BY <1>1, <2>1, <2>2, <2>3, <2>4, RollBackStep
<1>7. CASE UNCHANGED vars
  <2>1. UNCHANGED <<combined, db, owner, pending, increment, pc, value, held, issued, reissued, aborts>>
    BY <1>7 DEF vars, rowVars, callVars, ghosts
  <2>2. RowLocked'
    BY <2>1 DEF IInv, RowLocked
  <2>3. /\ \A a \in APINodes : Cached(a)' = Cached(a)
        /\ \A p \in Procs : Hand(p)' = Hand(p)
        /\ Published(owner)' <=> Published(owner)
    BY <2>1 DEF Hand, Cached, Published
  <2>4. /\ OutAtMost(db, NoProc)' <=> OutAtMost(db, NoProc)
        /\ OutAtMost(pending, NoProc)' <=> OutAtMost(pending, NoProc)
        /\ OutAtMost(db, owner)' <=> OutAtMost(db, owner)
        /\ \A p \in Procs : OutAtMost(value[p] - 1, NoProc)' <=> OutAtMost(value[p] - 1, NoProc)
    BY <2>1, <2>3 DEF OutAtMost
  <2>5. Allocated => Allocated'
    BY <2>1, <2>3, <2>4 DEF Allocated, BelowRow, InOnePlace
  <2> QED BY <2>1, <2>2, <2>5 DEF IInv
<1> QED BY <1>3, <1>4, <1>5, <1>6, <1>7, ReturnStep, LockStep, PushStep, CommitStep
        DEF Next, ProcStep

\* Nothing is out at the start.
LEMMA InvInit == Init => IInv
<1> SUFFICES ASSUME Init PROVE IInv
  OBVIOUS
<1>1. \A a \in APINodes : Cached(a) = {} /\ Len(increment[a].c) = 0
  <2>1. \A a \in APINodes : increment[a].c = <<>>
    BY DEF Init, EmptyItem
  <2>2. Len(<<>>) = 0 /\ 1..0 = {}
    OBVIOUS
  <2>3. \A a \in APINodes : Len(increment[a].c) = 0 /\ 1..Len(increment[a].c) = {}
    BY <2>1, <2>2
  <2> QED BY <2>3 DEF Cached
<1>2. \A p \in Procs : Hand(p) = {}
  BY DEF Init, Hand
<1>3. RowLocked
  BY DEF Init, RowLocked
<1>4. BelowRow
  BY <1>1, <1>2 DEF Init, BelowRow, OutAtMost
<1>5. InOnePlace /\ reissued = {}
  BY <1>1, <1>2 DEF Init, InOnePlace
<1> QED BY TypeInit, <1>3, <1>4, <1>5 DEF IInv, Allocated

\* The invariant: an open transaction has the row to itself, and every version that has
\* left the row is below it and in one place, unless a transaction fails after it has
\* published its range (Increase, SysLockerIncrement.Push and Pop).
THEOREM LockInvariant == Spec => []IInv
BY InvInit, InvStep, PTL DEF Spec

\* No version is handed out twice by any number of API nodes and goroutines, over
\* crashes and failing transactions, as long as no transaction fails after it has
\* published its range to the cache of its API node (Increase, SysLockerIncrement).
THEOREM UniqueVersions == Spec => []Unique
<1>1. IInv => Unique
  BY DEF IInv, Allocated, Unique
<1> QED BY <1>1, InvInit, InvStep, PTL DEF Spec

-----------------------------------------------------------------------------
(***************************************************************************)
(* The order of versions: Increasing, and that the row, its lock and the   *)
(* caches of SysLocker implement VersionSource while no transaction fails  *)
(* after it has published its range.                                       *)
(***************************************************************************)

\* No cache has seen a version above n (0: it has seen none).
MaxAtMost(n) == \A a \in APINodes : increment[a].maxValue = 0 \/ increment[a].maxValue <= n

\* What is left in a cache is above all that its API node has taken from it.
CacheAbove ==
  \A a \in APINodes : \A n \in Cached(a) :
    /\ \A v \in issued[a] : v < n
    /\ \A q \in Procs : Home[q] = a => \A v \in Hand(q) : v < n

\* A cache is the end of a range, up to maxValue; a node whose connection refuses
\* two statements has none.
RangeEnds ==
  \A a \in APINodes :
    /\ \A v \in Cached(a) : \A w \in Nat : v <= w /\ w <= increment[a].maxValue => w \in Cached(a)
    /\ a \notin combined => Cached(a) = {}

\* maxValue lies below the row, as the versions that are out do.
MaxBelow ==
  /\ owner = NoProc => MaxAtMost(db)
  /\ owner # NoProc => MaxAtMost(pending)
  /\ owner # NoProc /\ ~Published(owner) => MaxAtMost(db)
  /\ \A p \in Procs : pc[p] = "push" => MaxAtMost(value[p] - 1)

\* What the call of p has to come after is out.  Before the cache is used it is of
\* its own node, or covered by the version that is compared with maxValue.
KnownOf(p) ==
  /\ before[p] \subseteq AllIssued
  /\ pc[p] = "idle" => before[p] = {}
  /\ pc[p] = "check" => \A v \in before[p] : v \in issued[Home[p]] \/ v <= lastVersion[p]
  /\ pc[p] = "pop" => \A v \in before[p] : v \in issued[Home[p]] \/ v <= increment[Home[p]].maxValue
  /\ pc[p] \in {"return", "push", "tx"} => \A v \in before[p] : v < value[p]

Known == \A p \in Procs : KnownOf(p)

Order == CacheAbove /\ RangeEnds /\ MaxBelow /\ Known

\* The inductive invariant, on top of IInv.
OInv == aborts = 0 => Order

\* What the steps have in common: an invariant that held, and no failure yet.
Sound == IInv /\ IInv' /\ aborts = 0 /\ aborts' = 0 /\ Order

-----------------------------------------------------------------------------
(***************************************************************************)
(* Steps that take versions out of caches and hands, or hand them out.     *)
(***************************************************************************)

\* What the proofs of the order use of a sound step.
LEMMA SoundFacts ==
  ASSUME Sound
  PROVE  /\ TypeOK /\ TypeOK' /\ RowLocked /\ RowLocked' /\ Allocated /\ Allocated'
         /\ CacheAbove /\ RangeEnds /\ MaxBelow /\ Known
         /\ \A p \in Procs : Hand(p) \subseteq Nat
         /\ \A a \in APINodes : Cached(a) \subseteq Nat /\ issued[a] \subseteq Nat
BY CachedType DEF Sound, IInv, Order, Hand, TypeOK

\* Caches and hands that only lose versions, and versions handed out that were in hand, leave CacheAbove.
LEMMA AboveKept ==
  ASSUME CacheAbove,
         \A a \in APINodes : Cached(a)' \subseteq Cached(a),
         \A a \in APINodes : \A v \in issued'[a] :
           v \in issued[a] \/ \E q \in Procs : Home[q] = a /\ v \in Hand(q),
         \A q \in Procs : Hand(q)' \subseteq Hand(q)
  PROVE  CacheAbove'
BY DEF CacheAbove

\* The calls outside s go on as they were.
LEMMA KnownKept ==
  ASSUME Sound, NEW s \in SUBSET Procs,
         \A a \in APINodes : issued[a] \subseteq issued'[a],
         \A q \in Procs \ s :
           /\ pc'[q] = pc[q] /\ before'[q] = before[q]
           /\ lastVersion'[q] = lastVersion[q] /\ value'[q] = value[q]
           /\ increment[Home[q]].maxValue <= increment'[Home[q]].maxValue
  PROVE  \A q \in Procs \ s : KnownOf(q)'
<1> USE HomeAssumption
<1>1. AllIssued \subseteq AllIssued'
  BY DEF AllIssued
<1>2. Known /\ TypeOK /\ TypeOK'
  BY SoundFacts
<1> SUFFICES ASSUME NEW q \in Procs \ s PROVE KnownOf(q)'
  OBVIOUS
<1>3. KnownOf(q)
  BY <1>2 DEF Known
<1>4. before[q] \subseteq Nat /\ Home[q] \in APINodes
      /\ increment[Home[q]].maxValue \in Nat /\ increment'[Home[q]].maxValue \in Nat
  BY <1>2 DEF TypeOK
<1>5. pc'[q] = "pop" => \A v \in before'[q] : v \in issued'[Home[q]] \/ v <= increment'[Home[q]].maxValue
  BY <1>3, <1>4 DEF KnownOf
<1>6. pc'[q] = "check" => \A v \in before'[q] : v \in issued'[Home[q]] \/ v <= lastVersion'[q]
  BY <1>3, <1>4 DEF KnownOf
<1> QED BY <1>1, <1>3, <1>5, <1>6 DEF KnownOf

\* Steps that leave the row and the caches alone.
LEMMA SameRow ==
  ASSUME Sound, UNCHANGED <<combined, db, owner, pending, increment>>,
         \A q \in Procs : pc'[q] = "push" => pc[q] = "push" /\ value'[q] = value[q],
         owner # NoProc => held'[owner] = held[owner]
  PROVE  RangeEnds' /\ MaxBelow'
<1>1. RangeEnds /\ MaxBelow
  BY SoundFacts
<1>2. \A a \in APINodes : Cached(a)' = Cached(a)
  BY DEF Cached
<1>3. owner # NoProc => (Published(owner)' <=> Published(owner))
  BY DEF Published
<1> QED BY <1>1, <1>2, <1>3 DEF RangeEnds, MaxBelow, MaxAtMost

-----------------------------------------------------------------------------
(***************************************************************************)
(* One lemma per action.                                                   *)
(***************************************************************************)

\* A goroutine comes to l: neither the row, nor a cache, nor a version changes.
LEMMA QuietOrder ==
  ASSUME Sound, NEW p \in Procs, NEW l \in {"check", "pop", "lock"},
         pc[p] \in {"idle", "check", "pop"} \/ (pc[p] = "tx" /\ l = "lock"),
         pc' = [pc EXCEPT ![p] = l],
         UNCHANGED <<combined, rowVars, increment, value, held, ghosts>>,
         \A q \in Procs \ {p} : before'[q] = before[q] /\ lastVersion'[q] = lastVersion[q],
         KnownOf(p)'
  PROVE  Order'
<1>1. TypeOK /\ TypeOK' /\ CacheAbove /\ RowLocked
  BY SoundFacts
<1>2. \A q \in Procs : Hand(q)' = Hand(q)
  BY <1>1 DEF Hand, RowLocked, TypeOK
<1>3. \A a \in APINodes : Cached(a)' = Cached(a)
  BY DEF Cached
<1>4. CacheAbove'
  BY <1>1, <1>2, <1>3 DEF CacheAbove, ghosts
<1>5. RangeEnds' /\ MaxBelow'
  BY <1>1, SameRow DEF rowVars, TypeOK
<1>6. \A q \in Procs \ {p} : KnownOf(q)'
  <2>1. \A q \in Procs : increment[Home[q]].maxValue <= increment'[Home[q]].maxValue
    BY <1>1, HomeAssumption DEF TypeOK
  <2>2. \A a \in APINodes : issued[a] \subseteq issued'[a]
    BY DEF ghosts
  <2>3. \A q \in Procs \ {p} : pc'[q] = pc[q] /\ value'[q] = value[q]
    BY <1>1 DEF TypeOK
  <2>4. {p} \in SUBSET Procs
    OBVIOUS
  <2> QED BY <2>1, <2>2, <2>3, <2>4, KnownKept
<1> QED BY <1>4, <1>5, <1>6 DEF Order, Known

\* What a call has to come after is of its own node, or covered by the row.
LEMMA MustFollowKnown ==
  ASSUME TypeOK, NEW p \in Procs
  PROVE  /\ MustFollow(p) \subseteq AllIssued
         /\ \A v \in MustFollow(p) : v \in Nat /\ (v \in issued[Home[p]] \/ v <= db)
BY HomeAssumption DEF MustFollow, Highest, AllIssued, TypeOK

\* The committed version is read, above all that is committed by then.
LEMMA ReadVersionOrder ==
  ASSUME Sound, NEW p \in Procs, ReadVersion(p)
  PROVE  Order'
<1>1. TypeOK /\ TypeOK'
  BY SoundFacts
<1>2. /\ pc[p] = "idle" /\ pc' = [pc EXCEPT ![p] = "check"]
      /\ UNCHANGED <<combined, rowVars, increment, value, held, ghosts>>
      /\ lastVersion' = [lastVersion EXCEPT ![p] = IF db = NoRow THEN 0 ELSE db]
      /\ before' = [before EXCEPT ![p] = MustFollow(p)]
  BY DEF ReadVersion, Goto
<1>3. KnownOf(p)'
  <2>1. before'[p] = MustFollow(p) /\ lastVersion'[p] = (IF db = NoRow THEN 0 ELSE db) /\ pc'[p] = "check"
    BY <1>1, <1>2 DEF TypeOK
  <2>2. \A v \in before'[p] : v \in issued[Home[p]] \/ v <= lastVersion'[p]
    BY <1>1, <2>1, MustFollowKnown DEF NoRow
  <2>3. issued' = issued /\ AllIssued' = AllIssued
    BY <1>2 DEF ghosts, AllIssued
  <2> QED BY <1>1, <2>1, <2>2, <2>3, MustFollowKnown DEF KnownOf
<1>4. \A q \in Procs \ {p} : before'[q] = before[q] /\ lastVersion'[q] = lastVersion[q]
  BY <1>1, <1>2 DEF TypeOK
<1> QED BY <1>2, <1>3, <1>4, QuietOrder

\* The version read is compared with maxValue.
LEMMA CheckCacheOrder ==
  ASSUME Sound, NEW p \in Procs, CheckCache(p)
  PROVE  Order'
<1> DEFINE l == IF lastVersion[p] <= increment[Home[p]].maxValue THEN "pop" ELSE "lock"
<1>1. TypeOK /\ TypeOK' /\ KnownOf(p)
  BY SoundFacts DEF Known
<1>2. /\ pc[p] = "check" /\ pc' = [pc EXCEPT ![p] = l]
      /\ UNCHANGED <<combined, rowVars, increment, value, held, ghosts, before>>
      /\ lastVersion' = [lastVersion EXCEPT ![p] = 0]
  BY DEF CheckCache, Goto
<1>3. KnownOf(p)'
  <2>1. before'[p] = before[p] /\ issued' = issued /\ increment' = increment /\ pc'[p] = l
        /\ AllIssued' = AllIssued
    BY <1>1, <1>2 DEF TypeOK, ghosts, AllIssued
  <2>2. before[p] \subseteq Nat /\ lastVersion[p] \in Nat /\ increment[Home[p]].maxValue \in Nat
    BY <1>1, HomeAssumption DEF TypeOK
  <2>3. l = "pop" => \A v \in before[p] : v \in issued[Home[p]] \/ v <= increment[Home[p]].maxValue
    BY <1>1, <1>2, <2>2 DEF KnownOf
  <2> HIDE DEF l
  <2>4. l \in {"pop", "lock"}
    BY DEF l
  <2> QED BY <1>1, <2>1, <2>3, <2>4 DEF KnownOf
<1>4. \A q \in Procs \ {p} : before'[q] = before[q] /\ lastVersion'[q] = lastVersion[q]
  BY <1>1, <1>2 DEF TypeOK
<1> QED BY <1>2, <1>3, <1>4, QuietOrder

\* A call inside a transaction begins, or another one of the same transaction.
LEMMA CallOrder ==
  ASSUME Sound, NEW p \in Procs, CallInTx(p) \/ CallAgainInTx(p)
  PROVE  Order'
<1>1. TypeOK /\ TypeOK'
  BY SoundFacts
<1>2. /\ pc[p] \in {"idle", "tx"} /\ pc' = [pc EXCEPT ![p] = "lock"]
      /\ UNCHANGED <<combined, rowVars, increment, value, held, ghosts, lastVersion>>
      /\ before' = [before EXCEPT ![p] = MustFollow(p)]
  BY DEF CallInTx, CallAgainInTx, Goto
<1>3. KnownOf(p)'
  <2>1. before'[p] = MustFollow(p) /\ pc'[p] = "lock" /\ AllIssued' = AllIssued
    BY <1>1, <1>2 DEF TypeOK, ghosts, AllIssued
  <2> QED BY <1>1, <2>1, MustFollowKnown DEF KnownOf
<1>4. \A q \in Procs \ {p} : before'[q] = before[q] /\ lastVersion'[q] = lastVersion[q]
  BY <1>1, <1>2 DEF TypeOK
<1> QED BY <1>2, <1>3, <1>4, QuietOrder

\* What is left of a cache is above its head, and all but the head.
LEMMA PopExact ==
  ASSUME NEW c \in Seq(Nat), c # <<>>,
         \A i, j \in 1..Len(c) : i < j => c[i] < c[j]
  PROVE  /\ {Tail(c)[i] : i \in 1..Len(Tail(c))} = {c[i] : i \in 1..Len(c)} \ {Head(c)}
         /\ \A i \in 1..Len(Tail(c)) : Head(c) < Tail(c)[i]
<1>1. Len(c) \in Nat /\ Len(c) >= 1 /\ Head(c) = c[1]
  OBVIOUS
<1>2. Len(Tail(c)) = Len(c) - 1 /\ \A i \in 1..Len(Tail(c)) : Tail(c)[i] = c[i + 1]
  OBVIOUS
<1>3. \A i \in 1..Len(Tail(c)) : i + 1 \in 1..Len(c) /\ 1 \in 1..Len(c) /\ 1 < i + 1
  BY <1>1, <1>2
<1>4. \A i \in 1..Len(c) : c[i] \in Nat
  OBVIOUS
<1>5. ASSUME NEW i \in 1..Len(c), c[i] # Head(c)
      PROVE  \E j \in 1..Len(Tail(c)) : Tail(c)[j] = c[i]
  <2>1. i # 1 /\ i - 1 \in 1..Len(Tail(c))
    BY <1>1, <1>2, <1>5
  <2>2. Tail(c)[i - 1] = c[(i - 1) + 1]
    BY <1>2, <2>1
  <2>3. (i - 1) + 1 = i
    OBVIOUS
  <2> QED BY <2>1, <2>2, <2>3
<1>6. \A i \in 1..Len(Tail(c)) : Head(c) < Tail(c)[i] /\ Head(c) \in Nat
  BY <1>1, <1>2, <1>3, <1>4
<1> DEFINE t == Tail(c)
           h == Head(c)
<1>7. \A i \in 1..Len(t) : h < t[i] /\ h \in Nat /\ t[i] \in {c[j] : j \in 1..Len(c)}
  BY <1>2, <1>3, <1>6
<1>8. \A i \in 1..Len(c) : c[i] # h => \E j \in 1..Len(t) : t[j] = c[i]
  BY <1>5
<1>9. \A i \in 1..Len(t) : t[i] \in {c[j] : j \in 1..Len(c)} \ {h}
  <2> SUFFICES ASSUME NEW i \in 1..Len(t) PROVE t[i] # h
    BY <1>7
  <2>1. h < t[i] /\ h \in Nat
    BY <1>7
  <2> HIDE DEF t, h
  <2> QED BY <2>1
<1> HIDE DEF t, h
<1>10. {t[i] : i \in 1..Len(t)} = {c[i] : i \in 1..Len(c)} \ {h}
  <2>1. {t[i] : i \in 1..Len(t)} \subseteq {c[i] : i \in 1..Len(c)} \ {h}
    BY <1>9
  <2>2. ASSUME NEW v \in {c[i] : i \in 1..Len(c)} \ {h} PROVE v \in {t[i] : i \in 1..Len(t)}
    BY <1>8
  <2> QED BY <2>1, <2>2
<1> QED BY <1>7, <1>10 DEF t, h

\* The version that is taken from a cache is the lowest there, and above all that
\* the call has to come after: what its own node has given away is below the cache,
\* and what the row covered lies below maxValue but not in the range.
LEMMA PopOrder ==
  ASSUME Sound, NEW p \in Procs, PopCache(p), increment[Home[p]].c # <<>>
  PROVE  Order'
<1> DEFINE a == Home[p]
           c == increment[a].c
           h == Head(c)
<1>1. /\ pc[p] = "pop"
      /\ increment' = [increment EXCEPT ![a] = [c |-> Tail(c), maxValue |-> @.maxValue]]
      /\ value' = [value EXCEPT ![p] = h]
      /\ pc' = [pc EXCEPT ![p] = "return"]
      /\ UNCHANGED <<combined, db, owner, pending, held, issued, lastVersion, before>>
  BY DEF PopCache, Goto, rowVars, ghosts
<1>2. /\ TypeOK /\ RowLocked /\ CacheAbove /\ RangeEnds /\ MaxBelow /\ KnownOf(p) /\ InOnePlace
      /\ a \in APINodes /\ c \in Seq(Nat) /\ BelowRow
  BY SoundFacts, HomeAssumption DEF TypeOK, Known, Allocated
<1>3. Hand(p) = {} /\ owner # p
  BY <1>1, EmptyHand DEF Sound
<1>4. /\ increment'[a].c = Tail(c) /\ increment'[a].maxValue = increment[a].maxValue
      /\ \A a1 \in APINodes : a1 # a => increment'[a1] = increment[a1]
  BY <1>1, <1>2 DEF TypeOK
<1>5. /\ Cached(a)' = Cached(a) \ {h} /\ h \in Cached(a)
      /\ \A v \in Cached(a)' : h < v
      /\ \A a1 \in APINodes : a1 # a => Cached(a1)' = Cached(a1)
  <2>1. \A i, j \in 1..Len(c) : i < j => c[i] < c[j]
    BY <1>2 DEF BelowRow
  <2>2. h \in Cached(a)
    BY <1>2, <2>1, PopSequence DEF Cached
  <2>3. /\ {Tail(c)[i] : i \in 1..Len(Tail(c))} = {c[i] : i \in 1..Len(c)} \ {h}
        /\ \A i \in 1..Len(Tail(c)) : h < Tail(c)[i]
    <3>1. c \in Seq(Nat) /\ c # <<>>
      BY <1>2
    <3> HIDE DEF c
    <3> QED BY <2>1, <3>1, PopExact
  <2>4. Cached(a)' = {Tail(c)[i] : i \in 1..Len(Tail(c))} /\ Cached(a) = {c[i] : i \in 1..Len(c)}
    BY <1>4 DEF Cached
  <2>5. \A a1 \in APINodes : a1 # a => Cached(a1)' = Cached(a1)
    BY <1>4 DEF Cached
  <2> HIDE DEF c, h
  <2> QED BY <2>2, <2>3, <2>4, <2>5
<1>6. \A a1 \in APINodes : increment'[a1].maxValue = increment[a1].maxValue
  BY <1>4
<1>7. Hand(p)' = {h} /\ \A q \in Procs : q # p => Hand(q)' = Hand(q)
  BY <1>1, <1>2 DEF Hand, TypeOK
<1>8. h \in Nat /\ increment[a].maxValue \in Nat /\ Cached(a) \subseteq Nat
  BY <1>2, <1>5, CachedType DEF TypeOK
<1> HIDE DEF h, c
<1>9. CacheAbove'
  BY <1>1, <1>2, <1>5, <1>7 DEF CacheAbove
<1>10. RangeEnds'
  <2>1. ASSUME NEW v \in Cached(a)', NEW w \in Nat, v <= w, w <= increment'[a].maxValue
        PROVE  w \in Cached(a)'
    <3>1. v \in Cached(a) /\ h < v /\ v \in Nat
      BY <1>5, <1>8, <2>1
    <3>2. w \in Cached(a) /\ w # h
      BY <1>2, <1>6, <1>8, <2>1, <3>1 DEF RangeEnds
    <3> QED BY <1>5, <3>2
  <2> QED BY <1>1, <1>2, <1>4, <1>5, <2>1 DEF RangeEnds
<1>11. MaxBelow'
  <2>1. Published(owner)' <=> Published(owner)
    BY <1>1 DEF Published
  <2>2. \A q \in Procs : pc'[q] = "push" => pc[q] = "push" /\ value'[q] = value[q]
    BY <1>1, <1>2 DEF TypeOK
  <2> QED BY <1>1, <1>2, <1>6, <2>1, <2>2 DEF MaxBelow, MaxAtMost
<1>12. KnownOf(p)'
  <2>1. ASSUME NEW v \in before[p] PROVE v < h
    <3>1. v \in AllIssued /\ v \in Nat /\ (v \in issued[a] \/ v <= increment[a].maxValue)
      BY <1>1, <1>2 DEF KnownOf, TypeOK
    <3>2. CASE v \in issued[a]
      BY <1>2, <1>5, <3>2 DEF CacheAbove
    <3>3. CASE v <= increment[a].maxValue
      <4>1. v \notin Cached(a)
        BY <1>2, <3>1 DEF AllIssued, InOnePlace
      <4>2. ~(h <= v)
        BY <1>2, <1>5, <3>1, <3>3, <4>1 DEF RangeEnds
      <4> QED BY <1>8, <3>1, <4>2
    <3> QED BY <3>1, <3>2, <3>3
  <2>2. before'[p] = before[p] /\ value'[p] = h /\ pc'[p] = "return" /\ AllIssued' = AllIssued
    BY <1>1, <1>2 DEF TypeOK, AllIssued
  <2> QED BY <1>2, <2>1, <2>2 DEF KnownOf
<1>13. \A q \in Procs \ {p} : KnownOf(q)'
  <2>1. \A q \in Procs : increment[Home[q]].maxValue <= increment'[Home[q]].maxValue
    BY <1>2, <1>6, HomeAssumption DEF TypeOK
  <2>2. \A q \in Procs \ {p} : /\ pc'[q] = pc[q] /\ before'[q] = before[q]
                               /\ lastVersion'[q] = lastVersion[q] /\ value'[q] = value[q]
    BY <1>1, <1>2 DEF TypeOK
  <2>3. \A a1 \in APINodes : issued[a1] \subseteq issued'[a1]
    BY <1>1
  <2>4. {p} \in SUBSET Procs
    OBVIOUS
  <2> QED BY <2>1, <2>2, <2>3, <2>4, KnownKept
<1> QED BY <1>9, <1>10, <1>11, <1>12, <1>13 DEF Order, Known

\* A version that has been held is handed out by Return or Commit, and the call ends.
LEMMA HandOutOrder ==
  ASSUME Sound, NEW p \in Procs, Leave({p}), HandOut(Home[p], Hand(p)),
         UNCHANGED <<combined, increment>>, MaxBelow'
  PROVE  Order'
<1> USE HomeAssumption
<1>1. TypeOK /\ TypeOK' /\ CacheAbove /\ RangeEnds /\ Home[p] \in APINodes
  BY SoundFacts
<1>2. \A a \in APINodes : issued'[a] = issued[a] \/ (a = Home[p] /\ issued'[a] = issued[a] \cup Hand(p))
  BY <1>1 DEF HandOut, TypeOK
<1>3. /\ pc'[p] = "idle" /\ held'[p] = {} /\ before'[p] = {}
      /\ \A q \in Procs \ {p} :
           /\ pc'[q] = pc[q] /\ value'[q] = value[q] /\ held'[q] = held[q]
           /\ before'[q] = before[q] /\ lastVersion'[q] = lastVersion[q]
  BY DEF Leave
<1>4. \A q \in Procs : Hand(q)' \subseteq Hand(q)
  BY <1>3 DEF Hand
<1>5. \A a \in APINodes : Cached(a)' = Cached(a)
  BY DEF Cached
<1>6. CacheAbove'
  BY <1>1, <1>2, <1>4, <1>5, AboveKept
<1>7. RangeEnds'
  BY <1>1, <1>5 DEF RangeEnds
<1>8. KnownOf(p)'
  BY <1>3 DEF KnownOf
<1>9. \A q \in Procs \ {p} : KnownOf(q)'
  <2>1. \A q \in Procs : increment[Home[q]].maxValue <= increment'[Home[q]].maxValue
    BY <1>1 DEF TypeOK
  <2>2. \A a \in APINodes : issued[a] \subseteq issued'[a]
    BY <1>2
  <2>3. {p} \in SUBSET Procs
    OBVIOUS
  <2> QED BY <1>3, <2>1, <2>2, <2>3, KnownKept
<1> QED BY <1>6, <1>7, <1>8, <1>9 DEF Order, Known

\* The version from the cache is handed out.
LEMMA ReturnOrder ==
  ASSUME Sound, NEW p \in Procs, Return(p)
  PROVE  Order'
<1>1. TypeOK /\ RowLocked /\ pc[p] = "return"
  BY SoundFacts DEF Return
<1>2. Leave({p}) /\ HandOut(Home[p], Hand(p)) /\ UNCHANGED <<combined, db, owner, pending, increment>>
  BY <1>1 DEF Return, Hand, rowVars
<1>3. MaxBelow'
  <2>1. /\ \A q \in Procs : pc'[q] = "push" => pc[q] = "push" /\ value'[q] = value[q]
        /\ owner # p
    BY <1>1, <1>2, NoProcAssumption DEF Leave, RowLocked
  <2>2. owner # NoProc => held'[owner] = held[owner]
    BY <1>1, <1>2, <2>1 DEF Leave, TypeOK
  <2> QED BY <1>2, <2>1, <2>2, SameRow
<1> QED BY <1>2, <1>3, HandOutOrder

\* The versions of a transaction are handed out.
LEMMA CommitOrder ==
  ASSUME Sound, NEW p \in Procs, Commit(p)
  PROVE  Order'
<1>1. TypeOK /\ RowLocked /\ MaxBelow /\ pc[p] = "tx" /\ owner = p
  BY SoundFacts DEF Commit, RowLocked
<1>2. /\ Leave({p}) /\ HandOut(Home[p], Hand(p)) /\ UNCHANGED <<combined, increment>>
      /\ db' = pending /\ owner' = NoProc
  BY <1>1 DEF Commit, Hand, Release
<1>3. MaxBelow'
  <2>1. \A q \in Procs : pc'[q] # "push"
    BY <1>1, <1>2 DEF Leave, RowLocked
  <2>2. MaxAtMost(pending)
    BY <1>1, NoProcAssumption DEF MaxBelow
  <2> QED BY <1>2, <2>1, <2>2 DEF MaxBelow, MaxAtMost
<1> QED BY <1>2, <1>3, HandOutOrder

\* A new range, or the next version, starts above the row and so above all that is out.
LEMMA LockOrder ==
  ASSUME Sound, NEW p \in Procs, LockRow(p)
  PROVE  Order'
<1> USE NoProcAssumption, HomeAssumption
<1>1. /\ TypeOK /\ TypeOK' /\ RowLocked /\ CacheAbove /\ RangeEnds /\ MaxBelow /\ KnownOf(p)
      /\ BelowRow
  BY SoundFacts DEF Known, Allocated
<1>2. /\ pc[p] = "lock" /\ owner \in {NoProc, p} /\ owner' = p
      /\ UNCHANGED <<combined, db, increment, issued, lastVersion, before>>
      /\ \A q \in Procs \ {p} : pc'[q] = pc[q] /\ value'[q] = value[q] /\ held'[q] = held[q]
  BY <1>1 DEF LockRow, ghosts, Goto, TypeOK
<1>3. /\ pc'[p] \in {"push", "tx"}
      /\ pc'[p] = "push" => /\ pending' = AddStep(p) /\ value'[p] = MinVersion(AddStep(p))
                            /\ held' = held /\ Home[p] \in combined
      /\ pc'[p] = "tx" => /\ pending' = AddOne(p) /\ value'[p] = AddOne(p)
                          /\ held'[p] = held[p] \cup {AddOne(p)} /\ Home[p] \notin combined
  BY <1>1 DEF LockRow, Goto, TypeOK
<1>4. /\ Base(p) \in Int /\ value'[p] \in Nat /\ pending' \in Nat
      /\ Base(p) < value'[p] /\ Base(p) < pending' /\ db <= Base(p)
  BY <1>1, <1>2, <1>3, AboveBase DEF NoRow
<1>5. \A a \in APINodes : Cached(a)' = Cached(a)
  BY <1>2 DEF Cached
<1>6. \A q \in Procs \ {p} : Hand(q)' = Hand(q)
  BY <1>2 DEF Hand
<1>7. Hand(p)' = Hand(p) \/ (Hand(p)' = Hand(p) \cup {AddOne(p)} /\ Home[p] \notin combined)
  BY <1>2, <1>3 DEF Hand
<1>8. CacheAbove'
  <2> SUFFICES ASSUME NEW a \in APINodes, NEW n \in Cached(a)
               PROVE  /\ \A v \in issued'[a] : v < n
                      /\ \A q \in Procs : Home[q] = a => \A v \in Hand(q)' : v < n
    BY <1>5 DEF CacheAbove
  <2>1. a \in combined
    BY <1>1 DEF RangeEnds
  <2>2. Home[p] = a => Hand(p)' = Hand(p)
    BY <1>7, <2>1
  <2> QED BY <1>1, <1>2, <1>6, <2>2 DEF CacheAbove
<1>9. RangeEnds'
  BY <1>1, <1>2, <1>5 DEF RangeEnds
<1>10. MaxAtMost(Base(p)) /\ OutAtMost(Base(p), NoProc)
  BY <1>1, <1>2 DEF MaxBelow, BelowRow, Base
<1>11. \A a \in APINodes : increment[a].maxValue \in Nat
  BY <1>1 DEF TypeOK
<1>12. MaxBelow'
  <2>1. MaxAtMost(pending)' /\ MaxAtMost(value[p] - 1)'
    BY <1>2, <1>4, <1>10, <1>11 DEF MaxAtMost
  <2>2. \A q \in Procs : pc'[q] = "push" => q = p
    BY <1>1, <1>2 DEF RowLocked
  <2>3. ~Published(p)' => MaxAtMost(db)'
    <3>1. ~Published(p)' => ~Published(p)
      BY <1>2, <1>3 DEF Published
    <3> QED BY <1>1, <1>2, <3>1 DEF MaxBelow, MaxAtMost
  <2> QED BY <1>2, <2>1, <2>2, <2>3 DEF MaxBelow
<1>13. KnownOf(p)'
  <2>1. before'[p] = before[p] /\ AllIssued' = AllIssued /\ before[p] \subseteq AllIssued
    BY <1>1, <1>2 DEF AllIssued, KnownOf
  <2>2. \A v \in AllIssued : v \in Nat /\ v <= Base(p)
    BY <1>1, <1>10 DEF AllIssued, OutAtMost, TypeOK
  <2>3. \A v \in before'[p] : v < value'[p]
    BY <1>4, <2>1, <2>2
  <2> QED BY <1>3, <2>1, <2>3 DEF KnownOf
<1>14. \A q \in Procs \ {p} : KnownOf(q)'
  <2>1. \A q \in Procs : increment[Home[q]].maxValue <= increment'[Home[q]].maxValue
    BY <1>1, <1>2 DEF TypeOK
  <2>2. \A a \in APINodes : issued[a] \subseteq issued'[a]
    BY <1>2
  <2>3. {p} \in SUBSET Procs
    OBVIOUS
  <2> QED BY <1>2, <2>1, <2>2, <2>3, KnownKept
<1> QED BY <1>8, <1>9, <1>12, <1>13, <1>14 DEF Order, Known

\* Push fills a cache with all of minValue..maxValue.
LEMMA PushedExact ==
  ASSUME NEW item, item.maxValue \in Nat,
         NEW minValue \in Nat, NEW maxValue \in Nat, minValue <= maxValue + 1,
         NEW r, r = Pushed(item, minValue, maxValue)
  PROVE  /\ \A i \in 1..Len(r.c) : r.c[i] \in minValue..maxValue
         /\ \A v \in minValue..maxValue : v - minValue + 1 \in 1..Len(r.c) /\ r.c[v - minValue + 1] = v
         /\ item.maxValue <= r.maxValue
         /\ r.maxValue \in {item.maxValue, maxValue}
         /\ minValue <= maxValue /\ item.maxValue < maxValue => r.maxValue = maxValue
<1> DEFINE n == maxValue - minValue + 1
<1>1. r.c = [i \in 1..n |-> minValue + i - 1] /\ n \in Nat
  BY DEF Pushed
<1>2. r.c \in [1..n -> Nat]
  BY <1>1
<1>3. Len(r.c) = n
  BY <1>1, <1>2
<1>4. \A i \in 1..n : r.c[i] = minValue + i - 1 /\ minValue + i - 1 \in minValue..maxValue
  BY <1>1
<1>5. \A v \in minValue..maxValue : v - minValue + 1 \in 1..n /\ v = minValue + (v - minValue + 1) - 1
  OBVIOUS
<1>6. \A v \in minValue..maxValue : v - minValue + 1 \in 1..n /\ r.c[v - minValue + 1] = v
  BY <1>4, <1>5
<1>7. /\ \A i \in 1..Len(r.c) : r.c[i] \in minValue..maxValue
      /\ \A v \in minValue..maxValue : v - minValue + 1 \in 1..Len(r.c) /\ r.c[v - minValue + 1] = v
  BY <1>3, <1>4, <1>6
<1>8. r.maxValue = IF minValue <= maxValue /\ item.maxValue < maxValue THEN maxValue ELSE item.maxValue
  BY DEF Pushed
<1>9. item.maxValue \in Nat
  OBVIOUS
<1> QED BY <1>7, <1>8, <1>9

\* The new range lies above all that is out, and above maxValue.
LEMMA PushOrder ==
  ASSUME Sound, NEW p \in Procs, PushRange(p)
  PROVE  Order'
<1> USE NoProcAssumption, HomeAssumption
<1> DEFINE a == Home[p]
           w == value[p]
<1>1. /\ TypeOK /\ TypeOK' /\ RowLocked /\ CacheAbove /\ RangeEnds /\ MaxBelow /\ KnownOf(p)
      /\ BelowRow /\ a \in APINodes /\ w \in Nat
  BY SoundFacts DEF Known, Allocated, TypeOK
<1>2. /\ pc[p] = "push"
      /\ increment' = [increment EXCEPT ![a] = Pushed(increment[a], w + 1, pending)]
      /\ held' = [held EXCEPT ![p] = held[p] \cup {w}]
      /\ pc' = [pc EXCEPT ![p] = "tx"]
      /\ UNCHANGED <<combined, db, owner, pending, value, issued, lastVersion, before>>
  BY DEF PushRange, Goto, rowVars, ghosts
<1>3. owner = p /\ pending = w + Step - 1 /\ pending \in Nat /\ a \in combined
  BY <1>1, <1>2, StepAssumption DEF RowLocked
<1>4. MaxAtMost(w - 1) /\ OutAtMost(w - 1, NoProc)
  BY <1>1, <1>2 DEF MaxBelow, BelowRow
<1>5. /\ increment'[a] = Pushed(increment[a], w + 1, pending)
      /\ \A a1 \in APINodes : a1 # a => increment'[a1] = increment[a1]
  BY <1>1, <1>2 DEF TypeOK
<1>6. /\ increment[a] \in [c : Seq(Nat), maxValue : Nat]
      /\ w + 1 \in Nat /\ w + 1 <= pending + 1
  <2>1. increment[a] \in [c : Seq(Nat), maxValue : Nat]
    BY <1>1 DEF TypeOK
  <2>2. w \in Nat /\ pending = w + Step - 1
    BY <1>1, <1>3
  <2> HIDE DEF w
  <2> QED BY <2>1, <2>2, StepAssumption
<1>7. /\ Cached(a)' = (w + 1)..pending
      /\ increment[a].maxValue <= increment'[a].maxValue
      /\ increment'[a].maxValue \in {increment[a].maxValue, pending}
      /\ w + 1 <= pending /\ increment[a].maxValue < pending => increment'[a].maxValue = pending
  <2> DEFINE r == increment'[a]
         item == increment[a]
         lo == w + 1
  <2>1. Cached(a)' = {r.c[i] : i \in 1..Len(r.c)}
    BY DEF Cached
  <2>2. /\ item.maxValue \in Nat /\ lo \in Nat /\ pending \in Nat
        /\ lo <= pending + 1 /\ r = Pushed(item, lo, pending)
    BY <1>3, <1>5, <1>6
  <2>3. /\ \A i \in 1..Len(r.c) : r.c[i] \in lo..pending
        /\ \A v \in lo..pending : v - lo + 1 \in 1..Len(r.c) /\ r.c[v - lo + 1] = v
        /\ item.maxValue <= r.maxValue
        /\ r.maxValue \in {item.maxValue, pending}
        /\ lo <= pending /\ item.maxValue < pending => r.maxValue = pending
    <3> HIDE DEF r, item, lo
    <3>1. item.maxValue <= r.maxValue
      BY <2>2, PushedExact
    <3>2. r.maxValue \in {item.maxValue, pending}
      BY <2>2, PushedExact
    <3>3. \A i \in 1..Len(r.c) : r.c[i] \in lo..pending
      BY <2>2, PushedExact
    <3>4. \A v \in lo..pending : v - lo + 1 \in 1..Len(r.c) /\ r.c[v - lo + 1] = v
      BY <2>2, PushedExact
    <3>5. lo <= pending /\ item.maxValue < pending => r.maxValue = pending
      BY <2>2, PushedExact
    <3> QED BY <3>1, <3>2, <3>3, <3>4, <3>5
  <2>4. Cached(a)' = lo..pending
    <3> HIDE DEF r, item, lo
    <3> QED BY <2>1, <2>3
  <2> QED BY <2>3, <2>4
<1>8. /\ \A a1 \in APINodes : a1 # a => Cached(a1)' = Cached(a1)
      /\ \A a1 \in APINodes : increment[a1].maxValue \in Nat /\ increment'[a1].maxValue \in Nat
      /\ \A a1 \in APINodes : increment[a1].maxValue <= increment'[a1].maxValue
  <2>1. \A a1 \in APINodes : increment[a1].maxValue \in Nat /\ increment'[a1].maxValue \in Nat
    BY <1>1 DEF TypeOK
  <2>2. \A a1 \in APINodes : a1 # a => Cached(a1)' = Cached(a1)
    BY <1>5 DEF Cached
  <2>3. \A a1 \in APINodes : increment[a1].maxValue <= increment'[a1].maxValue
    <3> SUFFICES ASSUME NEW a1 \in APINodes PROVE increment[a1].maxValue <= increment'[a1].maxValue
      OBVIOUS
    <3>1. CASE a1 = a
      BY <1>7, <3>1
    <3>2. CASE a1 # a
      BY <1>5, <2>1, <3>2
    <3> QED BY <3>1, <3>2
  <2> QED BY <2>1, <2>2, <2>3
<1>9. Hand(p)' = Hand(p) \cup {w} /\ \A q \in Procs : q # p => Hand(q)' = Hand(q)
  BY <1>1, <1>2 DEF Hand, TypeOK
<1>10. /\ \A a1 \in APINodes : \A v \in issued[a1] : v \in Nat /\ v <= w - 1
       /\ \A q \in Procs : \A v \in Hand(q) : v \in Nat /\ v <= w - 1
  BY <1>4, SoundFacts DEF OutAtMost
<1>11. CacheAbove'
  <2> SUFFICES ASSUME NEW a1 \in APINodes, NEW n \in Cached(a1)'
               PROVE  /\ \A v \in issued[a1] : v < n
                      /\ \A q \in Procs : Home[q] = a1 => \A v \in Hand(q)' : v < n
    BY <1>2 DEF CacheAbove
  <2>1. CASE a1 = a
    <3>1. n \in Nat /\ w < n
      BY <1>1, <1>3, <1>7, <2>1
    <3>2. \A q \in Procs : \A v \in Hand(q)' : v \in Nat /\ v <= w
      BY <1>1, <1>9, <1>10
    <3> QED BY <1>1, <1>10, <3>1, <3>2
  <2>2. CASE a1 # a
    BY <1>1, <1>8, <1>9, <2>2 DEF CacheAbove
  <2> QED BY <2>1, <2>2
<1>12. RangeEnds'
  <2>1. ASSUME NEW v \in Cached(a)', NEW n \in Nat, v <= n, n <= increment'[a].maxValue
        PROVE  n \in Cached(a)'
    <3>1. v \in Nat /\ w + 1 <= v /\ v <= pending
      BY <1>1, <1>3, <1>7
    <3>2. increment[a].maxValue = 0 \/ increment[a].maxValue <= w - 1
      BY <1>1, <1>4 DEF MaxAtMost
    <3>3. increment'[a].maxValue <= pending
      BY <1>1, <1>3, <1>7, <1>8, <3>1, <3>2
    <3>4. w + 1 <= n /\ n <= pending
      BY <1>1, <1>3, <1>8, <2>1, <3>1, <3>3
    <3> QED BY <1>1, <1>3, <1>7, <3>4
  <2> QED BY <1>1, <1>2, <1>3, <1>5, <1>8, <2>1 DEF RangeEnds
<1>13. MaxBelow'
  <2>1. Published(p)'
    BY <1>1, <1>2, <1>3 DEF Published, TypeOK
  <2>2. \A q \in Procs : pc'[q] # "push"
    BY <1>1, <1>2, <1>3 DEF RowLocked, TypeOK
  <2>3. MaxAtMost(pending)'
    <3>1. \A a1 \in APINodes : increment[a1].maxValue = 0 \/ increment[a1].maxValue <= pending
      BY <1>1, <1>3, <1>4, <1>8, StepAssumption DEF MaxAtMost
    <3>2. \A a1 \in APINodes : increment'[a1].maxValue = 0 \/ increment'[a1].maxValue <= pending
      BY <1>3, <1>5, <1>7, <3>1
    <3> QED BY <1>2, <3>2 DEF MaxAtMost
  <2> QED BY <1>2, <1>3, <2>1, <2>2, <2>3 DEF MaxBelow
<1>14. KnownOf(p)'
  <2>1. before'[p] = before[p] /\ value'[p] = w /\ pc'[p] = "tx" /\ AllIssued' = AllIssued
    BY <1>1, <1>2 DEF TypeOK, AllIssued
  <2> QED BY <1>1, <1>2, <2>1 DEF KnownOf
<1>15. \A q \in Procs \ {p} : KnownOf(q)'
  <2>1. \A q \in Procs : increment[Home[q]].maxValue <= increment'[Home[q]].maxValue
    BY <1>8
  <2>2. \A q \in Procs \ {p} : /\ pc'[q] = pc[q] /\ before'[q] = before[q]
                               /\ lastVersion'[q] = lastVersion[q] /\ value'[q] = value[q]
    BY <1>1, <1>2 DEF TypeOK
  <2>3. \A a1 \in APINodes : issued[a1] \subseteq issued'[a1]
    BY <1>2
  <2>4. {p} \in SUBSET Procs
    OBVIOUS
  <2> QED BY <2>1, <2>2, <2>3, <2>4, KnownKept
<1> QED BY <1>11, <1>12, <1>13, <1>14, <1>15 DEF Order, Known

\* A failing transaction that has published nothing, and a crash.
LEMMA RollBackOrder ==
  ASSUME Sound, NEW s \in SUBSET Procs, RollBack(s),
         \A a \in APINodes : \/ increment'[a] = increment[a]
                             \/ /\ increment'[a] = EmptyItem
                                /\ \A q \in Procs : Home[q] = a => q \in s
  PROVE  Order'
<1> USE NoProcAssumption, HomeAssumption
<1>1. /\ TypeOK /\ TypeOK' /\ RowLocked /\ CacheAbove /\ RangeEnds /\ MaxBelow
  BY SoundFacts
<1>2. /\ owner' = IF owner \in s THEN NoProc ELSE owner
      /\ pending' = IF owner \in s THEN NoRow ELSE pending
      /\ \A q \in s : ~Published(q)
      /\ UNCHANGED <<combined, db, issued>>
  BY <1>1 DEF RollBack, Release, Sound, TypeOK
<1>3. /\ \A q \in s : pc'[q] = "idle" /\ held'[q] = {} /\ before'[q] = {}
      /\ \A q \in Procs \ s :
           /\ pc'[q] = pc[q] /\ value'[q] = value[q] /\ held'[q] = held[q]
           /\ before'[q] = before[q] /\ lastVersion'[q] = lastVersion[q]
  BY DEF RollBack, Leave
<1>4. \A a \in APINodes : Cached(a)' = Cached(a) \/ Cached(a)' = {}
  <2>1. \A a \in APINodes : increment'[a] = EmptyItem => Cached(a)' = {}
    BY DEF EmptyItem, Cached
  <2> QED BY <2>1 DEF Cached
<1>5. \A q \in Procs : Hand(q)' \subseteq Hand(q)
  BY <1>3 DEF Hand
<1>6. CacheAbove'
  BY <1>1, <1>2, <1>4, <1>5, AboveKept
<1>7. RangeEnds'
  <2>1. \A a \in APINodes : increment'[a] = EmptyItem => Cached(a)' = {}
    BY DEF EmptyItem, Cached
  <2>2. \A a \in APINodes : increment'[a] = increment[a] => Cached(a)' = Cached(a)
    BY DEF Cached
  <2> QED BY <1>1, <1>2, <2>1, <2>2 DEF RangeEnds
<1>8. \A a \in APINodes : increment'[a].maxValue = 0 \/ increment'[a].maxValue = increment[a].maxValue
  BY DEF EmptyItem
<1>9. MaxBelow'
  <2>1. ASSUME NEW n, MaxAtMost(n) PROVE \A a \in APINodes : increment'[a].maxValue = 0 \/ increment'[a].maxValue <= n
    BY <1>8, <2>1 DEF MaxAtMost
  <2>2. owner' = NoProc => MaxAtMost(db)
    BY <1>1, <1>2 DEF MaxBelow
  <2>3. owner' # NoProc => /\ MaxAtMost(pending) /\ pending' = pending /\ owner \in Procs \ s /\ owner' = owner
                           /\ ~Published(owner)' => MaxAtMost(db)
    <3> SUFFICES ASSUME owner' # NoProc
                 PROVE  /\ MaxAtMost(pending) /\ pending' = pending /\ owner \in Procs \ s /\ owner' = owner
                        /\ ~Published(owner)' => MaxAtMost(db)
      OBVIOUS
    <3>1. owner' = owner /\ owner \in Procs \ s /\ pending' = pending
      BY <1>1, <1>2 DEF TypeOK
    <3>2. Published(owner)' <=> Published(owner)
      BY <1>2, <1>3, <3>1 DEF Published
    <3> QED BY <1>1, <3>1, <3>2 DEF MaxBelow
  <2>4. \A q \in Procs : pc'[q] = "push" => MaxAtMost(value'[q] - 1)
    BY <1>1, <1>3 DEF MaxBelow
  <2> QED BY <1>2, <2>1, <2>2, <2>3, <2>4 DEF MaxBelow, MaxAtMost
<1>10. \A q \in s : KnownOf(q)'
  BY <1>3 DEF KnownOf
<1>11. \A q \in Procs \ s : KnownOf(q)'
  <2>1. \A q \in Procs \ s : increment[Home[q]].maxValue <= increment'[Home[q]].maxValue
    <3>1. \A q \in Procs \ s : Home[q] \in APINodes /\ increment'[Home[q]] = increment[Home[q]]
      OBVIOUS
    <3>2. \A a \in APINodes : increment[a].maxValue \in Nat
      BY <1>1 DEF TypeOK
    <3>3. \A q \in Procs \ s : increment[Home[q]].maxValue \in Nat
      BY <3>1, <3>2
    <3> QED BY <3>1, <3>3
  <2>2. \A a \in APINodes : issued[a] \subseteq issued'[a]
    BY <1>2
  <2> QED BY <1>3, <2>1, <2>2, KnownKept
<1> QED BY <1>6, <1>7, <1>9, <1>10, <1>11 DEF Order, Known

-----------------------------------------------------------------------------
\* Every step preserves the invariant.
LEMMA OrderStep == IInv /\ OInv /\ [Next]_vars => OInv'
<1> SUFFICES ASSUME IInv, OInv, [Next]_vars, aborts' = 0 PROVE Order'
  BY DEF OInv
<1>1. IInv' /\ TypeOK
  BY InvStep DEF IInv
<1>2. aborts = 0
  <2>1. ASSUME NEW s, RollBack(s) PROVE aborts = 0
    BY <1>1, <2>1 DEF RollBack, TypeOK
  <2> QED BY <2>1 DEF Next, ProcStep, ReadVersion, CheckCache, PopCache, Return, CallInTx, CallAgainInTx,
                      LockRow, PushRange, Commit, Abort, Crash, ghosts, vars
<1>3. Sound
  BY <1>1, <1>2 DEF Sound, OInv
<1>4. ASSUME NEW p \in Procs, PopCache(p) PROVE Order'
  <2>1. CASE increment[Home[p]].c = <<>>
    <3>1. /\ pc' = [pc EXCEPT ![p] = "lock"] /\ pc[p] = "pop"
          /\ UNCHANGED <<combined, rowVars, increment, value, held, ghosts, lastVersion, before>>
      BY <1>4, <2>1 DEF PopCache, Goto
    <3>2. KnownOf(p)'
      <4>1. KnownOf(p) /\ AllIssued' = AllIssued /\ pc'[p] = "lock" /\ before'[p] = before[p]
        BY <1>1, <1>3, <3>1, SoundFacts DEF Known, AllIssued, ghosts, TypeOK
      <4> QED BY <4>1 DEF KnownOf
    <3> QED BY <1>3, <3>1, <3>2, QuietOrder
  <2>2. CASE increment[Home[p]].c # <<>>
    BY <1>3, <1>4, <2>2, PopOrder
  <2> QED BY <2>1, <2>2
<1>5. ASSUME NEW p \in Procs, Abort(p) PROVE Order'
  <2>1. RollBack({p}) /\ increment' = increment
    BY <1>5 DEF Abort
  <2> QED BY <1>3, <2>1, RollBackOrder
<1>6. ASSUME NEW a \in APINodes, Crash(a) PROVE Order'
  <2> DEFINE s == {p \in Procs : Home[p] = a}
  <2>1. RollBack(s)
    BY <1>6 DEF Crash
  <2>2. \A a1 \in APINodes : IF a1 = a THEN increment'[a1] = EmptyItem ELSE increment'[a1] = increment[a1]
    BY <1>1, <1>6 DEF Crash, TypeOK
  <2>3. s \in SUBSET Procs /\ \A q \in Procs : Home[q] = a => q \in s
    OBVIOUS
  <2> HIDE DEF s
  <2> QED BY <1>3, <2>1, <2>2, <2>3, RollBackOrder
<1>7. CASE UNCHANGED vars
  <2>1. UNCHANGED <<combined, db, owner, pending, increment, pc, lastVersion, value, held, before, issued>>
    BY <1>7 DEF vars, rowVars, callVars, ghosts
  <2>2. /\ \A a \in APINodes : Cached(a)' = Cached(a)
        /\ \A p \in Procs : Hand(p)' = Hand(p)
        /\ Published(owner)' <=> Published(owner)
        /\ AllIssued' = AllIssued
    BY <2>1 DEF Hand, Cached, Published, AllIssued
  <2>3. CacheAbove' /\ RangeEnds' /\ Known'
    BY <1>3, <2>1, <2>2, SoundFacts DEF CacheAbove, RangeEnds, Known, KnownOf
  <2>4. MaxBelow'
    BY <1>3, <2>1, <2>2, SoundFacts DEF MaxBelow, MaxAtMost
  <2> QED BY <2>3, <2>4 DEF Order
<1> QED BY <1>3, <1>4, <1>5, <1>6, <1>7, ReadVersionOrder, CheckCacheOrder, CallOrder, ReturnOrder,
           LockOrder, PushOrder, CommitOrder
        DEF Next, ProcStep

\* There is no order to keep at the start.
LEMMA OrderInit == Init => OInv
<1> SUFFICES ASSUME Init PROVE Order
  BY DEF OInv
<1>1. \A a \in APINodes : Cached(a) = {} /\ increment[a].maxValue = 0
  <2>1. \A a \in APINodes : increment[a].c = <<>> /\ increment[a].maxValue = 0
    BY DEF Init, EmptyItem
  <2>2. Len(<<>>) = 0 /\ 1..0 = {}
    OBVIOUS
  <2>3. \A a \in APINodes : 1..Len(increment[a].c) = {}
    BY <2>1, <2>2
  <2> QED BY <2>1, <2>3 DEF Cached
<1>2. Known
  BY DEF Init, Known, KnownOf
<1> QED BY <1>1, <1>2, NoProcAssumption DEF Init, Order, CacheAbove, RangeEnds, MaxBelow, MaxAtMost

\* The order of versions is kept by every step without a failure after publishing.
LEMMA OrderInvariant == Spec => [](IInv /\ OInv)
BY InvInit, InvStep, OrderInit, OrderStep, PTL DEF Spec

\* A version about to be returned is above all that its own API node had handed out
\* when the call began, and above all that the row covered by then (Increase,
\* "增加版本号"), as long as no transaction fails after it has published its range.
THEOREM IncreasingVersions == Spec => []Increasing
<1>1. OInv => Increasing
  BY DEF OInv, Order, Known, KnownOf, Increasing
<1> QED BY <1>1, OrderInvariant, PTL

-----------------------------------------------------------------------------
(***************************************************************************)
(* The refinement.                                                         *)
(***************************************************************************)

\* The row and its holder: no version above MaxVersion, and a transaction that has
\* a version holds it.
Limits ==
  /\ db <= MaxVersion /\ pending <= MaxVersion
  /\ \A p \in Procs : pc[p] = "tx" => value[p] \in held[p]

\* Nothing has been taken at the start.
LEMMA LimitsInit == Init => Limits
BY BoundAssumption DEF Init, Limits, NoRow

\* No step takes a version beyond the bound.
LEMMA LimitsStep == IInv /\ Limits /\ [Next]_vars => Limits'
<1> SUFFICES ASSUME IInv, Limits, [Next]_vars PROVE Limits'
  OBVIOUS
<1> USE BoundAssumption DEF Limits
<1>1. TypeOK
  BY DEF IInv
<1>2. ASSUME NEW s, Leave(s), Release(s), UNCHANGED db PROVE Limits'
  BY <1>1, <1>2 DEF Leave, Release, NoRow
<1>3. ASSUME NEW p \in Procs, ReadVersion(p) \/ CheckCache(p) \/ PopCache(p) \/ CallInTx(p) \/ CallAgainInTx(p)
      PROVE  Limits'
  BY <1>1, <1>3 DEF ReadVersion, CheckCache, PopCache, CallInTx, CallAgainInTx, Goto, TypeOK, rowVars
<1>4. ASSUME NEW p \in Procs, Return(p) PROVE Limits'
  BY <1>1, <1>4 DEF Return, Leave, rowVars
<1>5. ASSUME NEW p \in Procs, LockRow(p) PROVE Limits'
  <2>1. pending' <= MaxVersion /\ db' = db
    BY <1>5 DEF LockRow
  <2>2. \A q \in Procs : q # p => pc'[q] = pc[q] /\ value'[q] = value[q] /\ held'[q] = held[q]
    BY <1>1, <1>5 DEF LockRow, Goto, TypeOK
  <2>3. pc'[p] = "tx" => value'[p] \in held'[p]
    BY <1>1, <1>5 DEF LockRow, Goto, TypeOK
  <2> QED BY <2>1, <2>2, <2>3
<1>6. ASSUME NEW p \in Procs, PushRange(p) PROVE Limits'
  BY <1>1, <1>6 DEF PushRange, Goto, TypeOK, rowVars
<1>7. ASSUME NEW p \in Procs, Commit(p) PROVE Limits'
  BY <1>1, <1>7 DEF Commit, Leave, Release, NoRow
<1>8. ASSUME NEW p \in Procs, Abort(p) PROVE Limits'
  BY <1>2, <1>8 DEF Abort, RollBack
<1>9. ASSUME NEW a \in APINodes, Crash(a) PROVE Limits'
  BY <1>2, <1>9 DEF Crash, RollBack
<1>10. CASE UNCHANGED vars
  BY <1>10 DEF vars, rowVars, callVars
<1> QED BY <1>3, <1>4, <1>5, <1>6, <1>7, <1>8, <1>9, <1>10 DEF Next, ProcStep

\* A set of numbers up to n has a greatest element.
LEMMA MaxExists ==
  ASSUME NEW n \in Nat, NEW S \in SUBSET (0..n), S # {}
  PROVE  \E m \in S : \A x \in S : x <= m
<1> DEFINE T == {n - x : x \in S}
           R == OpToRel(<, Nat)
<1>1. T \subseteq Nat /\ T # {}
  <2>1. \A x \in S : n - x \in Nat
    OBVIOUS
  <2>2. PICK x \in S : TRUE
    OBVIOUS
  <2>3. n - x \in T
    BY <2>2
  <2> QED BY <2>1, <2>3
<1>2. PICK t \in T : \A y \in T : ~(<<y, t>> \in R)
  <2> HIDE DEF T, R
  <2>1. IsWellFoundedOn(R, Nat)
    BY NatLessThanWellFounded DEF R
  <2> QED BY <1>1, <2>1, WFMin
<1>3. PICK m \in S : t = n - m
  OBVIOUS
<1>4. ASSUME NEW x \in S PROVE x <= m
  <2>1. n - x \in T /\ n - x \in Nat /\ t \in Nat
    BY <1>1
  <2>2. ~(n - x < t)
    BY <1>2, <2>1 DEF OpToRel
  <2> QED BY <1>3, <2>1, <2>2
<1> QED BY <1>4

\* What is out or in a hand is at most MaxVersion.
LEMMA OutLimited ==
  ASSUME IInv, Limits, aborts = 0
  PROVE  /\ \A a \in APINodes : issued[a] \subseteq 0..MaxVersion
         /\ \A p \in Procs : Hand(p) \subseteq 0..MaxVersion
<1>1. TypeOK /\ BelowRow
  BY DEF IInv, Allocated
<1>2. PICK n \in {db, pending} : OutAtMost(n, NoProc)
  BY <1>1 DEF BelowRow
<1>3. n \in Int /\ n <= MaxVersion /\ MaxVersion \in Nat
  BY <1>1, BoundAssumption DEF Limits, TypeOK, NoRow
<1>4. \A a \in APINodes : \A v \in issued[a] : v \in Nat /\ v <= n
  BY <1>1, <1>2 DEF OutAtMost, TypeOK
<1>5. \A p \in Procs : \A v \in Hand(p) : v \in Nat /\ v <= n
  BY <1>1, <1>2, NoProcAssumption DEF OutAtMost, TypeOK, Hand
<1>6. \A v \in Nat : v <= n => v \in 0..MaxVersion
  BY <1>3
<1> QED BY <1>4, <1>5, <1>6

\* What a call sees of the source.
F == [p \in Procs |-> Floor(p)]

\* The floor of a call goes with what it has to come after.
LEMMA FloorStep ==
  \A q \in Procs : /\ before'[q] = {} => F'[q] = -1
                   /\ before'[q] = before[q] => F'[q] = F[q]
<1> SUFFICES ASSUME NEW q \in Procs
             PROVE  /\ before'[q] = {} => F'[q] = -1
                    /\ before'[q] = before[q] => F'[q] = F[q]
  OBVIOUS
<1>1. F[q] = Floor(q) /\ F'[q] = Floor(q)'
  BY DEF F
<1>2. before'[q] = {} => Floor(q)' = -1
  BY DEF Floor
<1>3. ASSUME before'[q] = before[q] PROVE Floor(q)' = Floor(q)
  BY <1>3 DEF Floor
<1> QED BY <1>1, <1>2, <1>3

\* A call that begins comes after a version that is out and not below what its own
\* API node has handed out.
LEMMA BeginStep ==
  ASSUME IInv, Limits, aborts = 0, NEW p \in Procs,
         UNCHANGED issued, before' = [before EXCEPT ![p] = MustFollow(p)]
  PROVE  Source!Begin(p, F'[p])
<1> DEFINE s == issued[Home[p]] \cup {v \in AllIssued : v <= db}
<1>1. TypeOK /\ Home[p] \in APINodes
  BY HomeAssumption DEF IInv
<1>2. before'[p] = Highest(s) /\ \A q \in Procs : q # p => before'[q] = before[q]
  BY <1>1 DEF TypeOK, MustFollow
<1>3. F' = [F EXCEPT ![p] = F'[p]]
  <2>1. \A q \in Procs : q # p => F'[q] = F[q]
    BY <1>2 DEF F, Floor
  <2> QED BY <2>1 DEF F
<1>4. IF Highest(s) = {} THEN F'[p] = -1 ELSE F'[p] \in Highest(s)
  <2>1. IF before'[p] = {} THEN F'[p] = -1 ELSE F'[p] \in before'[p]
    BY DEF F, Floor
  <2> HIDE DEF s
  <2> QED BY <1>2, <2>1
<1>5. s \subseteq 0..MaxVersion
  BY <1>1, OutLimited DEF AllIssued
<1>6. F'[p] \in AllIssued \cup {-1} /\ \A v \in issued[Home[p]] : v <= F'[p]
  <2>1. CASE s = {}
    BY <1>4, <2>1 DEF Highest
  <2>2. CASE s # {}
    <3>1. \E m \in s : \A x \in s : x <= m
      <4> HIDE DEF s
      <4> QED BY <1>5, <2>2, MaxExists, BoundAssumption
    <3>2. Highest(s) # {}
      BY <3>1 DEF Highest
    <3>3. F'[p] \in Highest(s)
      BY <1>4, <3>2
    <3>4. F'[p] \in s /\ \A w \in s : w <= F'[p]
      BY <3>3 DEF Highest
    <3> QED BY <1>1, <3>4 DEF AllIssued
  <2> QED BY <2>1, <2>2
<1> QED BY <1>3, <1>6 DEF Source!Begin, Source!Out, Source!NoFloor, AllIssued, F

\* The versions that are handed out are new, one is above the floor of the call.
LEMMA HandOutSource ==
  ASSUME IInv, OInv, Limits, aborts = 0, NEW p \in Procs, Leave({p}),
         HandOut(Home[p], Hand(p)), pc[p] \in {"return", "tx"}, value[p] \in Hand(p)
  PROVE  Source!HandOut(p, issued'[Home[p]] \ issued[Home[p]])
<1> DEFINE s == issued'[Home[p]] \ issued[Home[p]]
<1>1. TypeOK /\ Home[p] \in APINodes /\ InOnePlace /\ KnownOf(p)
  BY HomeAssumption DEF IInv, OInv, Order, Allocated, Known
<1>2. Hand(p) \cap AllIssued = {}
  BY <1>1 DEF InOnePlace, AllIssued
<1>3. issued' = [issued EXCEPT ![Home[p]] = issued[Home[p]] \cup Hand(p)]
  BY DEF HandOut
<1>4. s = Hand(p) /\ issued' = [issued EXCEPT ![Home[p]] = issued[Home[p]] \cup s]
  <2>1. issued'[Home[p]] = issued[Home[p]] \cup Hand(p)
    BY <1>1, <1>3 DEF TypeOK
  <2>2. issued[Home[p]] \cap Hand(p) = {}
    BY <1>1, <1>2 DEF AllIssued
  <2>3. s = Hand(p)
    BY <2>1, <2>2
  <2> HIDE DEF s
  <2> QED BY <1>3, <2>3
<1>5. F[p] < value[p]
  <2>1. F[p] = -1 \/ F[p] \in before[p]
    BY DEF F, Floor
  <2>2. value[p] \in Nat
    BY <1>1 DEF TypeOK
  <2> QED BY <1>1, <2>1, <2>2 DEF KnownOf
<1>6. F' = [F EXCEPT ![p] = -1]
  <2>1. before'[p] = {} /\ \A q \in Procs : q # p => before'[q] = before[q]
    BY DEF Leave
  <2>2. F'[p] = -1 /\ \A q \in Procs : q # p => F'[q] = F[q]
    BY <2>1, FloorStep
  <2> QED BY <2>2 DEF F
<1>7. s \subseteq (0..MaxVersion) \ AllIssued
  BY <1>2, <1>4, OutLimited
<1> HIDE DEF s
<1>8. Source!HandOut(p, s)
  BY <1>4, <1>5, <1>6, <1>7 DEF Source!HandOut, Source!Out, Source!NoFloor, AllIssued, F
<1> QED BY <1>8 DEF s

\* The calls of a transaction that fails, or of a node that dies, come to nothing.
LEMMA FailStep ==
  ASSUME UNCHANGED issued, NEW s \in SUBSET Procs, Leave(s)
  PROVE  Source!Fail({p \in Procs : F'[p] # F[p]})
<1>1. \A q \in Procs : IF q \in s THEN before'[q] = {} ELSE before'[q] = before[q]
  BY DEF Leave
<1>2. \A q \in Procs : F'[q] = -1 \/ F'[q] = F[q]
  BY <1>1 DEF F, Floor
<1> DEFINE ps == {p \in Procs : F'[p] # F[p]}
<1>3. F' = [p \in Procs |-> IF p \in ps THEN -1 ELSE F[p]]
  BY <1>2 DEF F
<1> HIDE DEF ps
<1>4. Source!Fail(ps)
  BY <1>3 DEF Source!Fail, Source!NoFloor, F
<1> QED BY <1>4 DEF ps

\* Every step of SysLocker is a step of the source, or none.
LEMMA SourceStep ==
  ASSUME IInv, OInv, Limits, aborts = 0, [Next]_vars
  PROVE  [Source!Next]_(Source!vars)
<1>1. ASSUME UNCHANGED <<issued, before>> PROVE UNCHANGED Source!vars
  <2>1. \A q \in Procs : F'[q] = F[q]
    BY <1>1, FloorStep
  <2>2. F' = F
    BY <2>1 DEF F
  <2> QED BY <1>1, <2>2 DEF Source!vars, F
<1>2. ASSUME NEW p \in Procs, ReadVersion(p) \/ CallInTx(p) \/ CallAgainInTx(p)
      PROVE  Source!Next
  <2>1. UNCHANGED issued /\ before' = [before EXCEPT ![p] = MustFollow(p)]
    BY <1>2 DEF ReadVersion, CallInTx, CallAgainInTx, ghosts
  <2>2. Source!Begin(p, F'[p])
    BY <2>1, BeginStep
  <2> QED BY <2>2 DEF Source!Next, F
<1>3. ASSUME NEW p \in Procs, Return(p) \/ Commit(p)
      PROVE  Source!Next
  <2>1. /\ Leave({p}) /\ pc[p] \in {"return", "tx"}
        /\ value[p] \in Hand(p) /\ HandOut(Home[p], Hand(p))
    BY <1>3 DEF Return, Commit, Hand, Limits
  <2>2. Source!HandOut(p, issued'[Home[p]] \ issued[Home[p]])
    BY <2>1, HandOutSource
  <2> QED BY <2>2 DEF Source!Next
<1>4. ASSUME NEW s \in SUBSET Procs, RollBack(s) PROVE Source!Next
  <2>1. UNCHANGED issued /\ Leave(s)
    BY <1>4 DEF RollBack
  <2>2. Source!Fail({p \in Procs : F'[p] # F[p]})
    BY <2>1, FailStep
  <2> QED BY <2>2 DEF Source!Next, F
<1>5. ASSUME NEW p \in Procs, CheckCache(p) \/ PopCache(p) \/ LockRow(p) \/ PushRange(p)
      PROVE  UNCHANGED <<issued, before>>
  BY <1>5 DEF CheckCache, PopCache, LockRow, PushRange, ghosts
<1>6. ASSUME UNCHANGED vars PROVE UNCHANGED <<issued, before>>
  BY <1>6 DEF vars, callVars, ghosts
<1>7. ASSUME NEW p \in Procs, Abort(p) PROVE Source!Next
  BY <1>4, <1>7 DEF Abort
<1>8. ASSUME NEW a \in APINodes, Crash(a) PROVE Source!Next
  BY <1>4, <1>8 DEF Crash
<1> QED BY <1>1, <1>2, <1>3, <1>5, <1>6, <1>7, <1>8 DEF Next, ProcStep

\* The source starts with nothing handed out and no call.
LEMMA SourceInit == Init => Source!Init
<1> SUFFICES ASSUME Init PROVE Source!Init
  OBVIOUS
<1>1. \A q \in Procs : Floor(q) = -1
  BY DEF Init, Floor
<1> QED BY <1>1 DEF Init, Source!Init, Source!NoFloor

\* In a behaviour in which no transaction fails after it has published its range, the
\* row, its lock and the caches hand every version out once, and each API node its own
\* in ascending order from call to call: SysLocker implements VersionSource.
THEOREM ImplementsVersionSource == Spec /\ [](aborts = 0) => ImplementsSource
<1>1. Spec => []Limits
  BY OrderInvariant, LimitsInit, LimitsStep, PTL DEF Spec
<1>2. IInv /\ OInv /\ Limits /\ aborts = 0 /\ [Next]_vars => [Source!Next]_(Source!vars)
  BY SourceStep
<1> QED BY <1>1, <1>2, OrderInvariant, SourceInit, PTL DEF Spec, ImplementsSource, Source!Spec

\* With no such failure allowed, as in the run, the refinement is unconditional.
COROLLARY WithoutFailures == ASSUME MaxAborts = 0 PROVE Spec => ImplementsSource
<1>1. Init => aborts = 0
  BY DEF Init
<1>2. aborts = 0 /\ [Next]_vars => (aborts = 0)'
  <2> SUFFICES ASSUME aborts = 0, [Next]_vars PROVE aborts' = 0
    OBVIOUS
  <2>1. ASSUME NEW s, RollBack(s) PROVE aborts' = 0
    BY <2>1 DEF RollBack
  <2> QED BY <2>1 DEF Next, ProcStep, ReadVersion, CheckCache, PopCache, Return, CallInTx, CallAgainInTx,
                      LockRow, PushRange, Commit, Abort, Crash, ghosts, vars
<1> QED BY <1>1, <1>2, ImplementsVersionSource, PTL DEF Spec

=============================================================================
