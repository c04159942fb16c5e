------------------------------ MODULE SysLocker ------------------------------
(***************************************************************************)
(* The version source of the API nodes: SysLockerDAO.Increase over one key *)
(* of the table edgeSysLockers, and the in-memory cache of version ranges  *)
(* (SysLockerIncrement) that every API node keeps in front of it.          *)
(*                                                                         *)
(* A call made without a transaction first reads the committed version and *)
(* tries the cache of its own process; a call inside a transaction, or one *)
(* that finds no usable cached version, takes the row lock, moves the row  *)
(* up by Step and publishes the rest of the range to the cache BEFORE the  *)
(* transaction commits.                                                    *)
(***************************************************************************)
EXTENDS Integers, Sequences

CONSTANTS
  APINodes,       \* API node processes; each has a cache of its own
  Procs,          \* goroutines that call Increase
  Home,           \* the API node a goroutine runs in
  Step,           \* sysLockerStep
  Default,        \* defaultValue of the key (0, 1 or 1000000)
  NoProc,         \* nobody holds the row lock
  MaxVersion,     \* bound: no range above it is allocated
  MaxAborts       \* bound: transactions that fail after publishing a range

ASSUME HomeAssumption    == Home \in [Procs -> APINodes]
ASSUME StepAssumption    == Step \in Nat /\ Step > 0
ASSUME DefaultAssumption == Default \in Nat
ASSUME NoProcAssumption  == NoProc \notin Procs
ASSUME BoundAssumption   == MaxVersion \in Nat /\ MaxAborts \in Nat

NoRow == -1    \* the key has no row yet

VARIABLES
  combined,   \* API nodes whose SQL connection accepts two statements at once
  db,         \* committed column version, or NoRow
  owner,      \* the goroutine whose transaction holds the row lock
  pending,    \* the column as the owner's transaction sees it
  increment,  \* increment[a]: the channel c and the maxValue of a's cache
  pc,         \* where a goroutine is in Increase
  outer,      \* TRUE: Increase was called inside the caller's transaction
  lastVersion,\* the committed version a goroutine has read
  value,      \* the version a goroutine is about to return
  held,       \* versions taken in a transaction that has not committed
  before,     \* history: versions the running call must come after
  issued,     \* history: issued[a], versions API node a has handed out for good
  reissued,   \* history: versions handed out for good more than once
  aborts      \* history: transactions that failed after publishing their range

rowVars  == <<db, owner, pending>>
callVars == <<pc, outer, lastVersion, value, held, before>>
ghosts   == <<issued, reissued, aborts>>
vars     == <<combined, rowVars, increment, callVars, ghosts>>

EmptyItem == [c |-> <<>>, maxValue |-> 0]

AllIssued == UNION {issued[a] : a \in APINodes}

Init ==
  /\ combined \in SUBSET APINodes
  /\ db = NoRow
  /\ owner = NoProc
  /\ pending = NoRow
  /\ increment = [a \in APINodes |-> EmptyItem]
  /\ pc = [p \in Procs |-> "idle"]
  /\ outer = [p \in Procs |-> FALSE]
  /\ lastVersion = [p \in Procs |-> 0]
  /\ value = [p \in Procs |-> 0]
  /\ held = [p \in Procs |-> {}]
  /\ before = [p \in Procs |-> {}]
  /\ issued = [a \in APINodes |-> {}]
  /\ reissued = {}
  /\ aborts = 0

Goto(p, l) == pc' = [pc EXCEPT ![p] = l]

\* The calls of the goroutines in s are over, and their locals are gone.
Leave(s) ==
  /\ pc' = [p \in Procs |-> IF p \in s THEN "idle" ELSE pc[p]]
  /\ outer' = [p \in Procs |-> IF p \in s THEN FALSE ELSE outer[p]]
  /\ lastVersion' = [p \in Procs |-> IF p \in s THEN 0 ELSE lastVersion[p]]
  /\ value' = [p \in Procs |-> IF p \in s THEN 0 ELSE value[p]]
  /\ held' = [p \in Procs |-> IF p \in s THEN {} ELSE held[p]]
  /\ before' = [p \in Procs |-> IF p \in s THEN {} ELSE before[p]]

\* The version a call that starts now has to come after (if there is one): the
\* highest of those its own API node has handed out and of those of any node
\* that the committed row covers.
Highest(s) == {v \in s : \A w \in s : w <= v}

MustFollow(p) == Highest(issued[Home[p]] \cup {v \in AllIssued : v <= db})

(***************************************************************************)
(* Increase(nil, key, default): the committed version is read outside any  *)
(* transaction (a missing row reads as 0).                                 *)
(***************************************************************************)
ReadVersion(p) ==
  /\ pc[p] = "idle"
  /\ lastVersion' = [lastVersion EXCEPT ![p] = IF db = NoRow THEN 0 ELSE db]
  /\ before' = [before EXCEPT ![p] = MustFollow(p)]
  /\ Goto(p, "check")
  /\ UNCHANGED <<combined, rowVars, increment, outer, value, held, ghosts>>

\* Mutant: any cached version will do, even if the row has moved past it.
CheckCacheNotCompared(p) ==
  /\ pc[p] = "check"
  /\ Goto(p, "pop")
  /\ lastVersion' = [lastVersion EXCEPT ![p] = 0]
  /\ UNCHANGED <<combined, rowVars, increment, outer, value, held, before, ghosts>>

\* lastVersion <= increment.MaxValue(key), under the read lock of the cache.
CheckCache(p) ==
  /\ pc[p] = "check"
  /\ Goto(p, IF lastVersion[p] <= increment[Home[p]].maxValue THEN "pop" ELSE "lock")
  /\ lastVersion' = [lastVersion EXCEPT ![p] = 0]    \* not read again
  /\ UNCHANGED <<combined, rowVars, increment, outer, value, held, before, ghosts>>

\* increment.Pop(key), under the write lock of the cache: a later step.
PopCache(p) ==
  LET a == Home[p]
      c == increment[a].c
  IN  /\ pc[p] = "pop"
      /\ \/ /\ c = <<>>
            /\ Goto(p, "lock")
            /\ UNCHANGED <<increment, value>>
         \/ /\ c # <<>>
            /\ increment' = [increment EXCEPT ![a] = [c |-> Tail(c), maxValue |-> @.maxValue]]
            /\ value' = [value EXCEPT ![p] = Head(c)]
            /\ Goto(p, "return")
      /\ UNCHANGED <<combined, rowVars, outer, lastVersion, held, before, ghosts>>

HandOut(a, s) ==
  /\ issued' = [issued EXCEPT ![a] = @ \cup s]
  /\ reissued' = reissued \cup (s \cap AllIssued)

\* A cached version reaches the caller.
Return(p) ==
  /\ pc[p] = "return"
  /\ HandOut(Home[p], {value[p]})
  /\ Leave({p})
  /\ UNCHANGED <<combined, rowVars, increment, aborts>>

\* Increase(tx, key, default) with the caller's own transaction.
CallInTx(p) ==
  /\ pc[p] = "idle"
  /\ outer' = [outer EXCEPT ![p] = TRUE]
  /\ before' = [before EXCEPT ![p] = MustFollow(p)]
  /\ Goto(p, "lock")
  /\ UNCHANGED <<combined, rowVars, increment, lastVersion, value, held, ghosts>>

\* The same transaction asks for another version (a caller that creates
\* several tasks in one transaction); it already holds the row lock.
CallAgainInTx(p) ==
  /\ pc[p] = "tx" /\ outer[p]
  /\ before' = [before EXCEPT ![p] = MustFollow(p)]
  /\ Goto(p, "lock")
  /\ UNCHANGED <<combined, rowVars, increment, outer, lastVersion, value, held, ghosts>>

(***************************************************************************)
(* INSERT .. ON DUPLICATE KEY UPDATE version=version+Step; SELECT version: *)
(* waits for the row lock, which the transaction keeps to its end.  On a   *)
(* connection that refuses two statements at once (SQL error 1064) the     *)
(* fallback moves the row up by one and leaves the cache alone.            *)
(***************************************************************************)
Base(p) == IF owner = p THEN pending ELSE db

\* Mutant: a new row is inserted with the default value itself.
AddStepBareDefault(p) == IF Base(p) = NoRow THEN Default ELSE Base(p) + Step

AddStep(p) == IF Base(p) = NoRow THEN Default + Step ELSE Base(p) + Step

AddOne(p) == IF Base(p) = NoRow THEN Default ELSE Base(p) + 1

\* Mutant: off by one.
MinVersionOffByOne(maxVersion) == maxVersion - Step

MinVersion(maxVersion) == maxVersion - Step + 1

\* Mutant: the transaction does not wait for the row lock.
LockRowNoWait(p) ==
  /\ pc[p] = "lock"
  /\ owner' = p
  /\ Home[p] \in combined
  /\ AddStep(p) <= MaxVersion
  /\ pending' = AddStep(p)
  /\ value' = [value EXCEPT ![p] = MinVersion(AddStep(p))]
  /\ Goto(p, "push")
  /\ UNCHANGED <<combined, db, increment, outer, lastVersion, held, before, ghosts>>

LockRow(p) ==
  /\ pc[p] = "lock"
  /\ owner \in {NoProc, p}
  /\ owner' = p
  /\ \/ /\ Home[p] \in combined
        /\ AddStep(p) <= MaxVersion
        /\ pending' = AddStep(p)
        /\ value' = [value EXCEPT ![p] = MinVersion(AddStep(p))]
        /\ Goto(p, "push")
        /\ UNCHANGED held
     \/ /\ Home[p] \notin combined
        /\ AddOne(p) <= MaxVersion
        /\ pending' = AddOne(p)
        /\ value' = [value EXCEPT ![p] = AddOne(p)]
        /\ held' = [held EXCEPT ![p] = @ \cup {AddOne(p)}]
        /\ Goto(p, "tx")
  /\ UNCHANGED <<combined, db, increment, outer, lastVersion, before, ghosts>>

\* SysLockerIncrement.Push: the item is reset (a new channel), then filled
\* with minValue..maxValue; maxValue never goes down.
Pushed(item, minValue, maxValue) ==
  [c        |-> [i \in 1..(maxValue - minValue + 1) |-> minValue + i - 1],
   maxValue |-> IF minValue <= maxValue /\ item.maxValue < maxValue
                THEN maxValue ELSE item.maxValue]

PushRange(p) ==
  LET a == Home[p]
  IN  /\ pc[p] = "push"
      /\ increment' = [increment EXCEPT ![a] = Pushed(@, value[p] + 1, pending)]
      /\ held' = [held EXCEPT ![p] = @ \cup {value[p]}]
      /\ Goto(p, "tx")
      /\ UNCHANGED <<combined, rowVars, outer, lastVersion, value, before, ghosts>>

\* A transaction of a goroutine in s, if one holds the row lock, is over.
Release(s) ==
  /\ owner' = IF owner \in s THEN NoProc ELSE owner
  /\ pending' = IF owner \in s THEN NoRow ELSE pending

\* RunTx returns: the caller has its version for good.
Commit(p) ==
  /\ pc[p] = "tx"
  /\ db' = pending
  /\ HandOut(Home[p], held[p])
  /\ Release({p}) /\ Leave({p})
  /\ UNCHANGED <<combined, increment, aborts>>

\* The transaction of p has already published a range to a cache.
Published(p) == held[p] # {} /\ Home[p] \in combined

RollBack(s) ==
  LET published == \E p \in s : Published(p)
  IN  /\ published => aborts < MaxAborts
      /\ aborts' = IF published THEN aborts + 1 ELSE aborts
      /\ Release(s) /\ Leave(s)
      /\ UNCHANGED <<combined, db, issued, reissued>>

\* The transaction fails: a lock wait that times out, a failed statement, a
\* failed commit, or an error of the caller later in its transaction.
Abort(p) ==
  /\ pc[p] \in {"lock", "push", "tx"}
  /\ RollBack({p})
  /\ UNCHANGED increment

\* API node a dies: its cache is gone and the database rolls back the
\* transaction one of its goroutines may have open.
Crash(a) ==
  /\ RollBack({p \in Procs : Home[p] = a})
  /\ increment' = [increment EXCEPT ![a] = EmptyItem]

ProcStep(p) ==
  \/ ReadVersion(p) \/ CheckCache(p) \/ PopCache(p) \/ Return(p)
  \/ CallInTx(p) \/ CallAgainInTx(p) \/ LockRow(p) \/ PushRange(p)
  \/ Commit(p) \/ Abort(p)

Next ==
  \/ \E p \in Procs : ProcStep(p)
  \/ \E a \in APINodes : Crash(a)

Spec == Init /\ [][Next]_vars

-----------------------------------------------------------------------------
\* Every variable has its type; versions handed out are never negative.
TypeOK ==
  /\ combined \in SUBSET APINodes
  /\ db \in Nat \cup {NoRow}
  /\ owner \in Procs \cup {NoProc}
  /\ pending \in Nat \cup {NoRow}
  /\ increment \in [APINodes -> [c : Seq(Nat), maxValue : Nat]]
  /\ pc \in [Procs -> {"idle", "check", "pop", "return", "lock", "push", "tx"}]
  /\ outer \in [Procs -> BOOLEAN]
  /\ lastVersion \in [Procs -> Nat]
  /\ value \in [Procs -> Nat]
  /\ held \in [Procs -> SUBSET Nat]
  /\ before \in [Procs -> SUBSET Nat]
  /\ issued \in [APINodes -> SUBSET Nat]
  /\ reissued \in SUBSET Nat
  /\ aborts \in Nat

(***************************************************************************)
(* Why versions are unique.  A version that has left the row is in exactly *)
(* one place: handed out, in a cache, or in the hand of one goroutine.     *)
(***************************************************************************)
Cached(a) == {increment[a].c[i] : i \in 1..Len(increment[a].c)}

Hand(p) == IF pc[p] = "return" THEN {value[p]} ELSE held[p]

InOnePlace ==
  /\ \A a1, a2 \in APINodes : a1 # a2 => Cached(a1) \cap Cached(a2) = {}
  /\ \A q1, q2 \in Procs : q1 # q2 => Hand(q1) \cap Hand(q2) = {}
  /\ \A q \in Procs, a1 \in APINodes : Hand(q) \cap Cached(a1) = {}
  /\ \A a1, a2 \in APINodes : Cached(a1) \cap issued[a2] = {}
  /\ \A q \in Procs, a1 \in APINodes : Hand(q) \cap issued[a1] = {}

\* Every version that is out is at most n, those in the hands of x excepted.
OutAtMost(n, x) ==
  /\ \A a1 \in APINodes : \A v \in issued[a1] \cup Cached(a1) : v <= n
  /\ \A q \in Procs : q # x => \A v \in Hand(q) : v <= n

\* The row lock and what its holder knows.
RowLocked ==
  /\ \A p \in Procs : pc[p] \in {"push", "tx"} \/ held[p] # {} => owner = p
  /\ \A p \in Procs : held[p] # {} => pc[p] \in {"lock", "push", "tx"}
  /\ owner # NoProc => pc[owner] \in {"lock", "push", "tx"} /\ db < pending
  /\ \A p \in Procs : pc[p] = "push" =>
       Home[p] \in combined /\ pending = value[p] + Step - 1 /\ db < value[p]

\* The versions that are out lie below the row; below the committed row as long
\* as the open transaction has published nothing; below a range about to be.
BelowRow ==
  /\ \A a \in APINodes : \A i, j \in 1..Len(increment[a].c) :
       i < j => increment[a].c[i] < increment[a].c[j]
  /\ owner = NoProc => OutAtMost(db, NoProc)
  /\ owner # NoProc => OutAtMost(pending, NoProc)
  /\ owner # NoProc /\ ~Published(owner) => OutAtMost(db, owner)
  /\ \A p \in Procs : pc[p] = "push" => OutAtMost(value[p] - 1, NoProc)

Allocated == BelowRow /\ InOnePlace /\ reissued = {}

\* The inductive invariant behind Unique.  Until a transaction that has published
\* its range fails, every version that has left the row lies below the row and is
\* in one place only; that is why handing one out cannot repeat an earlier one.
IInv ==
  /\ TypeOK
  /\ RowLocked
  /\ aborts = 0 => Allocated

\* No version is handed out twice, by one API node or by two, whatever the
\* interleaving and whichever node crashes or connection fails, as long as no
\* transaction fails after it has published its range to the cache.
Unique == aborts = 0 => reissued = {}

\* A version about to be returned is above every version its own API node had
\* handed out when the call began, and above every version that a transaction
\* committed by then had allocated on any node.  This is what Increase promises
\* ("增加版本号"), as far as the code keeps it: it is why the committed version is
\* compared with maxValue before the cache is used, and why Push resets the cache.
Increasing ==
  aborts = 0 =>
    \A p \in Procs : pc[p] \in {"return", "push", "tx"} =>
      \A v \in before[p] : v < value[p]

\* The promise with no exception for a transaction that fails: no version is
\* ever handed out twice.
NeverTwice == reissued = {}

(***************************************************************************)
(* The abstract source of versions.  A call's floor is the version it has  *)
(* to come after, if there is one.                                         *)
(***************************************************************************)
Floor(p) == IF before[p] = {} THEN -1 ELSE CHOOSE v \in before[p] : TRUE

Source == INSTANCE VersionSource WITH
            Versions <- 0..MaxVersion,
            floor    <- [p \in Procs |-> Floor(p)]

\* While no transaction fails after publishing its range, the row, its lock and
\* the caches implement a source that hands every version out once and in the
\* order of an API node's calls (SysLockerDAO.Increase, "增加版本号").
ImplementsSource == Source!Spec
==============================================================================
