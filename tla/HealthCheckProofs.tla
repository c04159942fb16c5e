-------------------------- MODULE HealthCheckProofs --------------------------
(***************************************************************************)
(* The task of a cluster has one ticker as long as one actor at a time     *)
(* works on it, a node is taken down only for as many failures as are      *)
(* asked for, and each change of its state is told to the DNS: for every   *)
(* number of addresses, runs, checks and failures, and every configuration *)
(* of the counts.                                                          *)
(***************************************************************************)
EXTENDS HealthCheck, TLAPS

PCs == {"idle", "compare", "check", "read", "send", "clear", "stopped", "assign"}

ActorStates == [pc : PCs, task : Runs \cup {None}, ticker : Runs \cup {None}, config : Nat]

Rows == [isUp : BOOLEAN, countUp : 0..MaxUp, countDown : 0..MaxDown]

Works == [pc : {"try", "notify", "done"}] \cup [pc : {"save"}, ok : BOOLEAN, row : Rows]

Configs == [clusterOn : BOOLEAN, checkOn : BOOLEAN, rev : Nat]

Types ==
  /\ config \in Configs
  /\ task \in Runs \cup {None} /\ runs \in 0..MaxRuns
  /\ taskConfig \in [Runs -> Nat]
  /\ ticker \in [Runs -> Runs \cup {None}]
  /\ tick \in [Runs -> {"none", "wait", "busy", "done"}]
  /\ actor \in [Actors -> ActorStates]
  /\ work \in [Executors -> [Addrs -> Works]]
  /\ row \in Rows
  /\ admin \in {"idle", "notify"}
  /\ {told, mixed, racing, untold} \subseteq BOOLEAN
  /\ downs \in Nat /\ sets \in Nat

\* An actor that is not idle works on a task, and stops a ticker when it is at that;
\* the main loop runs no task.
ActorsInv ==
  /\ \A x \in Actors : actor[x].pc = "idle" => actor[x] = Idle
  /\ \A x \in Actors : actor[x].pc # "idle" => actor[x].task \in Runs
  /\ \A x \in Actors : actor[x].pc = "send" => actor[x].ticker \in Runs
  /\ actor[Main].pc \notin {"compare", "assign"}

\* A run has no ticker before it starts one, and works for the executor only during a check.
RunsInv ==
  /\ \A r \in Runs : r > runs => actor[r] = Idle /\ tick[r] = "none"
  /\ \A r \in Runs : actor[r].pc \notin {"idle", "assign"} => tick[r] = "none"
  /\ \A k \in Runs : tick[k] # "busy" => work[k] = Nobody

\* With one actor at a time: it works on the task of the cluster; whom it takes for the
\* ticker is the one, and once it has stopped it there is none until it starts its own.
Alone ==
  /\ \A x \in Actors : actor[x].pc # "idle" => actor[x].task = task
  /\ \A x, y \in Actors : actor[x].pc # "idle" /\ actor[y].pc # "idle" => x = y
  /\ \A x \in Actors : actor[x].pc \in {"clear", "stopped"} => Live = {}
  /\ \A x \in Actors : actor[x].pc = "send" => actor[x].ticker = ticker[task]
  /\ \A x \in Actors : actor[x].pc = "assign" => Live \subseteq {x}
  /\ \A k \in Live : task # None /\ (ticker[task] = k \/ actor[k].pc = "assign")

TickerInv == Types /\ ActorsInv /\ RunsInv /\ (~mixed => Alone)

\* A row has not reached the count at which its state would have changed.
Counting(r) == (r.isUp => r.countDown < MaxDown) /\ (~r.isUp => r.countUp < MaxUp)

\* That goes for the row and for the rows that results are counted on; such a result says
\* something new of its row, and what is counted was there.
CountInv ==
  /\ Counting(row)
  /\ \A x \in Executors, a \in Addrs : work[x][a].pc = "save" =>
       Counting(work[x][a].row) /\ work[x][a].ok = ~work[x][a].row.isUp
  /\ ~racing => row.countDown <= downs

CheckInv == TickerInv /\ CountInv /\ DNSTold

-----------------------------------------------------------------------------
\* Idle is a state of an actor, and the main loop is no run.
LEMMA Basics ==
  /\ Idle \in ActorStates /\ Idle.pc = "idle"
  /\ None \notin Runs /\ Main \notin Runs /\ Runs \subseteq Nat /\ Main \in Actors /\ Runs \subseteq Actors
  /\ \A r \in Runs : r <= MaxRuns
BY BoundAssumption DEF ActorStates, Idle, PCs, None, Main, Runs, Actors

\* What is busy is not idle.
LEMMA BusyIs ==
  ASSUME ActorsInv, NEW x \in Actors
  PROVE  (actor[x] # Idle <=> actor[x].pc # "idle") /\ (x \in Busy <=> actor[x].pc # "idle")
BY Basics DEF ActorsInv, Busy

\* An actor that moves on keeps the task and the ticker it has; the others do nothing.
LEMMA Moved ==
  ASSUME Types, NEW x \in Actors, NEW l \in PCs, Move(x, l)
  PROVE  /\ actor' \in [Actors -> ActorStates]
         /\ actor'[x].pc = l /\ actor'[x].task = actor[x].task /\ actor'[x].ticker = actor[x].ticker
         /\ \A y \in Actors : y # x => actor'[y] = actor[y]
<1>1. actor[x] \in ActorStates
  BY DEF Types
<1> DEFINE a == [actor[x] EXCEPT !.pc = l]
<1>2. actor' = [actor EXCEPT ![x] = a]
  BY DEF Move, Types
<1>3. a \in ActorStates /\ a.pc = l /\ a.task = actor[x].task /\ a.ticker = actor[x].ticker
  BY <1>1 DEF ActorStates
<1> HIDE DEF a
<1> QED BY <1>2, <1>3 DEF Types

\* So does one that becomes something else.
LEMMA Becomes ==
  ASSUME Types, NEW x \in Actors, NEW a \in ActorStates, actor' = [actor EXCEPT ![x] = a]
  PROVE  /\ actor' \in [Actors -> ActorStates] /\ actor'[x] = a
         /\ \A y \in Actors : y # x => actor'[y] = actor[y]
BY DEF Types

\* A step that changes nothing of the task and its tickers, nor a row it works for.
LEMMA TickersLeft ==
  ASSUME TickerInv, UNCHANGED <<task, ticker, tick, actor, runs, mixed>>, Types',
         \A k \in Runs : work[k] = Nobody => work'[k] = Nobody
  PROVE  TickerInv'
<1>1. ActorsInv'
  BY DEF TickerInv, ActorsInv
<1>2. RunsInv'
  BY DEF TickerInv, RunsInv
<1>3. ~mixed' => Alone'
  BY DEF TickerInv, Alone, Live
<1> QED BY <1>1, <1>2, <1>3 DEF TickerInv

-----------------------------------------------------------------------------
(***************************************************************************)
(* The main loop and the runs.                                             *)
(***************************************************************************)

\* A new run works on the task it makes, or on that of the cluster.
LEMMA LoopStartsTicker ==
  ASSUME TickerInv, LoopStarts
  PROVE  TickerInv'
<1> DEFINE r == runs + 1
           b == [Idle EXCEPT !.pc = RunBegins, !.task = r]
<1>1. /\ actor[Main] = Idle /\ task = None /\ r <= MaxRuns /\ runs' = r /\ task' = r
      /\ taskConfig' = [taskConfig EXCEPT ![r] = config.rev]
      /\ actor' = [actor EXCEPT ![r] = b]
      /\ mixed' = (mixed \/ \E y \in Busy : actor[y].task = b.task)
      /\ UNCHANGED <<config, work, row, told, downs, racing, untold, admin, sets, ticker, tick>>
      /\ Types /\ ActorsInv /\ RunsInv /\ (~mixed => Alone)
  BY DEF LoopStarts, Begin, startOnly, nodeVars, bounds, TickerInv
<1>2. runs \in Nat /\ MaxRuns \in Nat
  BY <1>1, BoundAssumption DEF Types
<1>3. r \in Runs
  BY <1>1, <1>2 DEF Runs
<1>4. b \in ActorStates /\ b.pc = "check" /\ b.task = r
  BY <1>3 DEF ActorStates, Idle, PCs, RunBegins, None
<1>5. PICK a \in ActorStates : a = b /\ a.pc = "check" /\ a.task = r
  BY <1>4
<1>6. PICK s \in Runs : s = r
  BY <1>3
<1>7. s = runs + 1 /\ s > runs
  BY <1>2, <1>6
<1> HIDE DEF r, b
<1>8. /\ actor' \in [Actors -> ActorStates] /\ actor'[s] = a /\ s # Main
      /\ \A y \in Actors : y # s => actor'[y] = actor[y]
  BY <1>1, <1>5, <1>6, Basics, Becomes
<1>9. tick[s] = "none" /\ actor[s] = Idle
  BY <1>1, <1>7 DEF RunsInv
<1>10. Types'
  <2>1. taskConfig' \in [Runs -> Nat]
    BY <1>1 DEF Types, Configs
  <2>2. runs' \in 0..MaxRuns
    BY <1>1, <1>2, <1>3, <1>6, <1>7
  <2>3. mixed' \in BOOLEAN
    BY <1>1 DEF Types
  <2> QED BY <1>1, <1>3, <1>8, <2>1, <2>2, <2>3 DEF Types
<1>11. ActorsInv'
  <2>1. \A y \in Actors : y = s \/ actor'[y] = actor[y]
    BY <1>8
  <2> QED BY <1>1, <1>5, <1>6, <1>8, <2>1, Basics DEF ActorsInv
<1>12. RunsInv'
  <2>1. \A k \in Runs : k > runs' => k > runs /\ k # s
    BY <1>1, <1>2, <1>6, <1>7, Basics
  <2>2. \A k \in Runs : k > runs' => actor'[k] = Idle /\ tick'[k] = "none"
    BY <1>1, <1>8, <2>1, Basics DEF RunsInv
  <2>3. \A k \in Runs : actor'[k].pc \notin {"idle", "assign"} => tick'[k] = "none"
    BY <1>1, <1>8, <1>9, Basics DEF RunsInv
  <2>4. \A k \in Runs : tick'[k] # "busy" => work'[k] = Nobody
    BY <1>1 DEF RunsInv
  <2> QED BY <2>2, <2>3, <2>4 DEF RunsInv
<1>13. ASSUME ~mixed'
       PROVE  Alone'
  <2>1. Alone /\ ~mixed
    BY <1>1, <1>13
  <2>2. \A y \in Actors : actor[y].pc = "idle"
    BY <1>1, <2>1, Basics DEF Alone, ActorsInv
  <2>3. Live = {} /\ Live' = {}
    <3>1. \A k \in Live : task # None
      BY <2>1 DEF Alone
    <3> QED BY <1>1, <3>1 DEF Live
  <2>4. \A y \in Actors : actor'[y].pc # "idle" => y = s
    BY <1>8, <2>2
  <2> QED BY <1>1, <1>5, <1>6, <1>8, <2>3, <2>4 DEF Alone
<1> QED BY <1>10, <1>11, <1>12, <1>13 DEF TickerInv

\* A run or the main loop that begins on the task of the cluster finds nobody at it, or
\* is not alone.
LEMMA LoopBegins ==
  ASSUME TickerInv, LoopResets \/ LoopStops
  PROVE  TickerInv'
<1>1. PICK x \in Actors, a \in ActorStates :
        /\ a.pc \in {"check", "compare"} /\ a.task = task /\ (a.pc = "compare" => x # Main)
        /\ actor' = [actor EXCEPT ![x] = a]
        /\ (x = Main /\ runs' = runs /\ actor[Main] = Idle) \/ (x = runs + 1 /\ x \in Runs /\ runs' = x)
  <2>1. task # None => task \in Runs
    BY DEF TickerInv, Types
  <2>2. CASE LoopResets
    <3> DEFINE r == runs + 1
               a == [Idle EXCEPT !.pc = "compare", !.task = task, !.config = config.rev]
    <3>1. /\ task # None /\ r <= MaxRuns /\ runs' = r /\ actor' = [actor EXCEPT ![r] = a] /\ runs \in Nat
          /\ config.rev \in Nat
      BY <2>2 DEF LoopResets, Begin, TickerInv, Types, Configs
    <3>2. r \in Runs
      BY <3>1, BoundAssumption DEF Runs
    <3>3. a \in ActorStates /\ a.pc = "compare" /\ a.task = task
      BY <2>1, <3>1 DEF ActorStates, Idle, PCs, None
    <3> HIDE DEF a
    <3> QED BY <3>1, <3>2, <3>3, Basics
  <2>3. CASE LoopStops
    <3> DEFINE a == [Idle EXCEPT !.pc = "check", !.task = task]
    <3>1. task # None /\ runs' = runs /\ actor' = [actor EXCEPT ![Main] = a] /\ actor[Main] = Idle
      BY <2>3 DEF LoopStops, Begin
    <3>2. a \in ActorStates /\ a.pc = "check" /\ a.task = task
      BY <2>1, <3>1 DEF ActorStates, Idle, PCs, None
    <3> HIDE DEF a
    <3> QED BY <3>1, <3>2, Basics
  <2> QED BY <2>2, <2>3
<1>2. /\ mixed' = (mixed \/ \E y \in Busy : actor[y].task = task) /\ task # None
      /\ UNCHANGED <<config, task, taskConfig, work, row, told, downs, racing, untold, admin, sets, ticker, tick>>
      /\ Types /\ ActorsInv /\ RunsInv /\ (~mixed => Alone)
  BY DEF LoopResets, LoopStops, Begin, Idle, startOnly, nodeVars, bounds, TickerInv
<1>3. /\ actor' \in [Actors -> ActorStates] /\ actor'[x] = a
      /\ \A y \in Actors : y # x => actor'[y] = actor[y]
  BY <1>1, <1>2, Becomes
<1>4. runs \in Nat /\ runs \in 0..MaxRuns /\ runs' \in 0..MaxRuns /\ runs <= runs'
  BY <1>1, <1>2, Basics, BoundAssumption DEF Types
<1>5. actor[x] = Idle /\ (x # Main => x \in Runs /\ tick[x] = "none" /\ runs' = x)
  BY <1>1, <1>2, <1>4 DEF RunsInv, Types
<1>6. Types'
  <2>1. mixed' \in BOOLEAN
    BY <1>2 DEF Types
  <2> QED BY <1>2, <1>3, <1>4, <2>1 DEF Types
<1>7. ActorsInv'
  BY <1>1, <1>2, <1>3, Basics DEF ActorsInv, Types
<1>8. RunsInv'
  <2>1. ASSUME NEW k \in Runs, k > runs'
        PROVE  k > runs /\ k # x
    <3>1. k \in Nat /\ runs' \in Nat /\ k # Main
      BY <1>4, Basics
    <3>2. k > runs
      BY <1>4, <2>1, <3>1
    <3>3. x # Main => k # x
      BY <1>5, <2>1, <3>1
    <3> QED BY <3>1, <3>2, <3>3
  <2>2. \A k \in Runs : k > runs' => actor'[k] = Idle /\ tick'[k] = "none"
    BY <1>2, <1>3, <2>1, Basics DEF RunsInv
  <2>3. \A k \in Runs : actor'[k].pc \notin {"idle", "assign"} => tick'[k] = "none"
    BY <1>2, <1>3, <1>5, Basics DEF RunsInv
  <2>4. \A k \in Runs : tick'[k] # "busy" => work'[k] = Nobody
    BY <1>2 DEF RunsInv
  <2> QED BY <2>2, <2>3, <2>4 DEF RunsInv
<1>9. ASSUME ~mixed'
      PROVE  Alone'
  <2>1. Alone /\ \A y \in Actors : y \in Busy => actor[y].task # task
    BY <1>2, <1>9 DEF Busy
  <2>2. \A y \in Actors : actor[y].pc = "idle"
    BY <1>2, <2>1, BusyIs DEF Alone
  <2>3. \A y \in Actors : actor'[y].pc # "idle" => y = x
    BY <1>3, <2>2
  <2>4. Live' = Live
    BY <1>2 DEF Live
  <2>5. \A k \in Live : k \in Actors
    BY Basics DEF Live
  <2> QED BY <1>1, <1>2, <1>3, <2>1, <2>2, <2>3, <2>4, <2>5 DEF Alone
<1> QED BY <1>6, <1>7, <1>8, <1>9 DEF TickerInv

\* An actor that moves on, and leaves the rest to be what it has to be.
LEMMA ActorMoves ==
  ASSUME TickerInv, NEW x \in Actors, NEW l \in PCs, Move(x, l), actor[x].pc # "idle", l # "idle",
         l \in {"compare", "assign"} => x # Main,
         UNCHANGED <<config, task, taskConfig, work, row, told, downs, racing, untold, admin, sets, runs, mixed>>,
         ticker' \in [Runs -> Runs \cup {None}], tick' \in [Runs -> {"none", "wait", "busy", "done"}],
         l = "send" => actor[x].ticker \in Runs
  PROVE  /\ Types' /\ ActorsInv'
         /\ actor'[x].pc = l /\ actor'[x].task = actor[x].task /\ actor'[x].ticker = actor[x].ticker
         /\ \A y \in Actors : y # x => actor'[y] = actor[y]
<1>1. Types /\ ActorsInv
  BY DEF TickerInv
<1>2. /\ actor' \in [Actors -> ActorStates]
      /\ actor'[x].pc = l /\ actor'[x].task = actor[x].task /\ actor'[x].ticker = actor[x].ticker
      /\ \A y \in Actors : y # x => actor'[y] = actor[y]
  BY <1>1, Moved
<1>3. Types'
  BY <1>1, <1>2 DEF Types
<1>4. ActorsInv'
  <2>1. \A y \in Actors : y = x \/ actor'[y] = actor[y]
    BY <1>2
  <2>2. actor[x].task \in Runs
    BY <1>1 DEF ActorsInv
  <2>3. \A y \in Actors : actor'[y].pc = "idle" => actor'[y] = Idle
    BY <1>1, <1>2, <2>1 DEF ActorsInv
  <2>4. \A y \in Actors : actor'[y].pc # "idle" => actor'[y].task \in Runs
    BY <1>1, <1>2, <2>1, <2>2 DEF ActorsInv
  <2>5. \A y \in Actors : actor'[y].pc = "send" => actor'[y].ticker \in Runs
    BY <1>1, <1>2, <2>1 DEF ActorsInv
  <2>6. actor'[Main].pc \notin {"compare", "assign"}
    BY <1>1, <1>2, Basics DEF ActorsInv
  <2> QED BY <2>3, <2>4, <2>5, <2>6 DEF ActorsInv
<1> QED BY <1>2, <1>3, <1>4

\* An actor that has finished is idle.
LEMMA ActorEnds ==
  ASSUME TickerInv, NEW x \in Actors, actor' = [actor EXCEPT ![x] = Idle],
         UNCHANGED <<config, work, row, told, downs, racing, untold, admin, sets, tick, runs, mixed>>,
         task' \in Runs \cup {None}, ticker' \in [Runs -> Runs \cup {None}], taskConfig' \in [Runs -> Nat]
  PROVE  /\ Types' /\ ActorsInv' /\ RunsInv' /\ actor'[x] = Idle
         /\ \A y \in Actors : y # x => actor'[y] = actor[y]
<1>1. Types /\ ActorsInv /\ RunsInv
  BY DEF TickerInv
<1>2. PICK a \in ActorStates : a = Idle /\ a.pc = "idle"
  BY Basics
<1>3. /\ actor' \in [Actors -> ActorStates] /\ actor'[x] = a
      /\ \A y \in Actors : y # x => actor'[y] = actor[y]
  BY <1>1, <1>2, Becomes
<1>4. Types'
  BY <1>1, <1>3 DEF Types
<1>5. \A y \in Actors : actor'[y] = a \/ actor'[y] = actor[y]
  BY <1>3
<1>6. ActorsInv'
  BY <1>1, <1>2, <1>5, Basics DEF ActorsInv
<1>7. RunsInv'
  BY <1>1, <1>2, <1>5, Basics DEF RunsInv
<1> QED BY <1>2, <1>3, <1>4, <1>6, <1>7

\* With one actor at a time, the one that is busy works on the task of the cluster.
LEMMA OnlyOne ==
  ASSUME Alone, NEW x \in Actors, actor[x].pc # "idle"
  PROVE  /\ actor[x].task = task
         /\ \A y \in Actors : y # x => actor[y].pc = "idle"
         /\ \A k \in Live : task # None /\ (ticker[task] = k \/ (k = x /\ actor[x].pc = "assign"))
<1>1. \A k \in Live : k \in Actors
  BY Basics DEF Live
<1> QED BY <1>1 DEF Alone

\* A run that is not to begin has changed nothing; one that is takes the configuration.
LEMMA CompareTicker ==
  ASSUME TickerInv, NEW r \in Runs, Compare(r)
  PROVE  TickerInv'
<1>1. /\ actor[r].pc = "compare" /\ r \in Actors /\ r # Main
      /\ UNCHANGED <<config, task, work, row, told, downs, racing, untold, admin, sets, ticker, tick, runs, mixed>>
      /\ Types /\ ActorsInv /\ RunsInv /\ (~mixed => Alone)
  BY Basics DEF Compare, startOnly, nodeVars, bounds, TickerInv
<1>2. actor[r].task \in Runs /\ actor[r].config \in Nat
  BY <1>1 DEF ActorsInv, Types, ActorStates
<1>3. taskConfig' \in [Runs -> Nat]
  BY <1>1, <1>2 DEF Compare, Types
<1>4. Live' = Live
  BY <1>1 DEF Live
<1>5. CASE actor' = [actor EXCEPT ![r] = Idle]
  <2>1. /\ Types' /\ ActorsInv' /\ RunsInv' /\ actor'[r] = Idle
        /\ \A y \in Actors : y # r => actor'[y] = actor[y]
    BY <1>1, <1>3, <1>5, ActorEnds DEF Types
  <2>2. ASSUME ~mixed'
        PROVE  Alone'
    <3>1. Alone
      BY <1>1, <2>2
    <3>2. \A y \in Actors : actor'[y].pc = "idle"
      BY <1>1, <2>1, <3>1, OnlyOne, Basics
    <3>3. \A k \in Live : task # None /\ ticker[task] = k
      BY <1>1, <3>1, OnlyOne
    <3> QED BY <1>1, <1>4, <3>2, <3>3 DEF Alone
  <2> QED BY <2>1, <2>2 DEF TickerInv
<1>6. CASE Move(r, "check")
  <2>1. actor' \in [Actors -> ActorStates] /\ actor'[r].pc = "check" /\ actor'[r].task = actor[r].task
        /\ \A y \in Actors : y # r => actor'[y] = actor[y]
    BY <1>1, <1>6, Moved DEF PCs
  <2>2. Types'
    BY <1>1, <1>3, <2>1 DEF Types
  <2>3. \A y \in Actors : y = r \/ actor'[y] = actor[y]
    BY <2>1
  <2>4. ActorsInv'
    BY <1>1, <1>2, <2>1, <2>3, Basics DEF ActorsInv
  <2>5. RunsInv'
    BY <1>1, <2>1, <2>3, Basics DEF RunsInv
  <2>6. ASSUME ~mixed'
        PROVE  Alone'
    <3>1. Alone
      BY <1>1, <2>6
    <3>2. actor'[r].task = task /\ \A y \in Actors : y # r => actor'[y].pc = "idle"
      BY <1>1, <2>1, <3>1, OnlyOne
    <3>3. \A k \in Live : task # None /\ ticker[task] = k
      BY <1>1, <3>1, OnlyOne
    <3> QED BY <1>1, <1>4, <2>1, <3>2, <3>3 DEF Alone
  <2> QED BY <2>2, <2>4, <2>5, <2>6 DEF TickerInv
<1> QED BY <1>5, <1>6 DEF Compare, RunBegins

\* What a stop finds is the ticker there is, and none when there is none.
LEMMA CheckTickerTicker ==
  ASSUME TickerInv, NEW x \in Actors, CheckTicker(x)
  PROVE  TickerInv'
<1>1. PICK l \in PCs : l = IF ticker[actor[x].task] = None THEN "stopped" ELSE "read"
  BY DEF PCs
<1>2. /\ actor[x].pc = "check" /\ Move(x, l)
      /\ UNCHANGED <<config, task, taskConfig, work, row, told, downs, racing, untold, admin, sets, ticker, tick, runs, mixed>>
      /\ Types /\ ActorsInv /\ RunsInv /\ (~mixed => Alone)
  BY <1>1 DEF CheckTicker, startOnly, nodeVars, bounds, TickerInv
<1>3. /\ Types' /\ ActorsInv' /\ actor'[x].pc = l /\ actor'[x].task = actor[x].task
      /\ \A y \in Actors : y # x => actor'[y] = actor[y]
  BY <1>1, <1>2, ActorMoves DEF Types
<1>4. RunsInv'
  BY <1>2, <1>3, Basics DEF RunsInv
<1>5. Live' = Live
  BY <1>2 DEF Live
<1>6. ASSUME ~mixed'
      PROVE  Alone'
  <2>1. Alone
    BY <1>2, <1>6
  <2>2. actor'[x].task = task /\ \A y \in Actors : y # x => actor'[y].pc = "idle"
    BY <1>2, <1>3, <2>1, OnlyOne
  <2>3. \A k \in Live : task # None /\ ticker[task] = k
    BY <1>2, <2>1, OnlyOne
  <2>4. l = "stopped" => Live = {}
    <3>1. actor[x].task = task
      BY <1>2, <2>1, OnlyOne
    <3> QED BY <1>1, <2>3, <3>1, Basics DEF Live
  <2> QED BY <1>1, <1>2, <1>3, <1>5, <2>2, <2>3, <2>4 DEF Alone
<1> QED BY <1>3, <1>4, <1>6 DEF TickerInv

\* A ticker that has been stopped is none that runs.
LEMMA ReadTickerTicker ==
  ASSUME TickerInv, NEW x \in Actors, ReadTicker(x)
  PROVE  TickerInv'
<1> DEFINE k == ticker[actor[x].task]
           a == [actor[x] EXCEPT !.pc = IF tick[k] = "done" THEN "clear" ELSE "send", !.ticker = k]
<1>1. /\ actor[x].pc = "read" /\ k # None
      /\ UNCHANGED <<config, task, taskConfig, work, row, told, downs, racing, untold, admin, sets, ticker, tick, runs, mixed>>
      /\ Types /\ ActorsInv /\ RunsInv /\ (~mixed => Alone)
  BY DEF ReadTicker, startOnly, nodeVars, bounds, TickerInv
<1>2. actor' = [actor EXCEPT ![x] = a]
  BY <1>1 DEF ReadTicker, Types
<1>3. k \in Runs /\ actor[x] \in ActorStates /\ actor[x].task \in Runs
  BY <1>1 DEF ActorsInv, Types
<1>4. /\ a \in ActorStates /\ a.pc = (IF tick[k] = "done" THEN "clear" ELSE "send")
      /\ a.ticker = k /\ a.task = actor[x].task
  BY <1>3 DEF ActorStates, PCs
<1> HIDE DEF a
<1>5. /\ actor' \in [Actors -> ActorStates] /\ actor'[x] = a
      /\ \A y \in Actors : y # x => actor'[y] = actor[y]
  BY <1>1, <1>2, <1>4, Becomes
<1>6. \A y \in Actors : y = x \/ actor'[y] = actor[y]
  BY <1>5
<1>7. Types'
  BY <1>1, <1>5 DEF Types
<1>8. ActorsInv'
  BY <1>1, <1>3, <1>4, <1>5, <1>6, Basics DEF ActorsInv
<1>9. RunsInv'
  BY <1>1, <1>4, <1>5, <1>6, Basics DEF RunsInv
<1>10. Live' = Live
  BY <1>1 DEF Live
<1>11. ASSUME ~mixed'
       PROVE  Alone'
  <2>1. Alone
    BY <1>1, <1>11
  <2>2. actor[x].task = task /\ \A y \in Actors : y # x => actor'[y].pc = "idle"
    BY <1>1, <1>5, <2>1, OnlyOne
  <2>3. \A j \in Live : task # None /\ k = j
    BY <1>1, <2>1, <2>2, OnlyOne
  <2>4. a.pc = "clear" => Live = {}
    BY <1>4, <2>3 DEF Live
  <2>5. a.pc = "send" => a.ticker = ticker[task]
    BY <1>4, <2>2
  <2> QED BY <1>1, <1>4, <1>5, <1>10, <2>2, <2>3, <2>4, <2>5 DEF Alone
<1> QED BY <1>7, <1>8, <1>9, <1>11 DEF TickerInv

\* The ticker that is stopped is the one that runs.
LEMMA StopTickerTicker ==
  ASSUME TickerInv, NEW x \in Actors, StopTicker(x)
  PROVE  TickerInv'
<1> DEFINE k == actor[x].ticker
<1>1. /\ actor[x].pc = "send" /\ tick[k] = "wait" /\ Move(x, "clear")
      /\ tick' = [tick EXCEPT ![k] = "done"]
      /\ UNCHANGED <<config, task, taskConfig, work, row, told, downs, racing, untold, admin, sets, ticker, runs, mixed>>
      /\ Types /\ ActorsInv /\ RunsInv /\ (~mixed => Alone)
  BY DEF StopTicker, startOnly, nodeVars, bounds, TickerInv
<1>2. k \in Runs
  BY <1>1 DEF ActorsInv
<1>3. /\ tick' \in [Runs -> {"none", "wait", "busy", "done"}] /\ tick'[k] = "done"
      /\ \A j \in Runs : j # k => tick'[j] = tick[j]
  BY <1>1, <1>2 DEF Types
<1> HIDE DEF k
<1>4. /\ Types' /\ ActorsInv' /\ actor'[x].pc = "clear" /\ actor'[x].task = actor[x].task
      /\ \A y \in Actors : y # x => actor'[y] = actor[y]
  BY <1>1, <1>3, ActorMoves DEF Types, PCs
<1>5. RunsInv'
  <2>1. tick[k] # "none" /\ tick[k] # "busy"
    BY <1>1
  <2>2. \A j \in Runs : tick'[j] = tick[j] \/ (j = k /\ tick'[j] = "done")
    BY <1>3
  <2>3. \A j \in Runs : j > runs' => actor'[j] = Idle /\ tick'[j] = "none"
    BY <1>1, <1>4, <2>1, <2>2, Basics DEF RunsInv
  <2>4. \A j \in Runs : actor'[j].pc \notin {"idle", "assign"} => tick'[j] = "none"
    BY <1>1, <1>4, <2>1, <2>2, Basics DEF RunsInv
  <2>5. \A j \in Runs : tick'[j] # "busy" => work'[j] = Nobody
    BY <1>1, <2>1, <2>2 DEF RunsInv
  <2> QED BY <2>3, <2>4, <2>5 DEF RunsInv
<1>6. ASSUME ~mixed'
      PROVE  Alone'
  <2>1. Alone
    BY <1>1, <1>6
  <2>2. actor'[x].task = task /\ \A y \in Actors : y # x => actor'[y].pc = "idle"
    BY <1>1, <1>4, <2>1, OnlyOne
  <2>3. ticker[task] = k
    BY <1>1, <2>1 DEF Alone, k
  <2>4. \A j \in Live : j = k
    BY <1>1, <2>1, <2>3, OnlyOne
  <2>5. Live' = {}
    BY <1>3, <2>4 DEF Live
  <2> QED BY <1>1, <1>4, <2>2, <2>5 DEF Alone
<1> QED BY <1>4, <1>5, <1>6 DEF TickerInv

\* Only then does the task forget its ticker.
LEMMA ClearTickerTicker ==
  ASSUME TickerInv, NEW x \in Actors, ClearTicker(x)
  PROVE  TickerInv'
<1>1. /\ actor[x].pc = "clear" /\ Move(x, "stopped") /\ ticker' = [ticker EXCEPT ![actor[x].task] = None]
      /\ UNCHANGED <<config, task, taskConfig, work, row, told, downs, racing, untold, admin, sets, tick, runs, mixed>>
      /\ Types /\ ActorsInv /\ RunsInv /\ (~mixed => Alone)
  BY DEF ClearTicker, Cleared, startOnly, nodeVars, bounds, TickerInv
<1>2. ticker' \in [Runs -> Runs \cup {None}]
  BY <1>1 DEF Types
<1>3. /\ Types' /\ ActorsInv' /\ actor'[x].pc = "stopped" /\ actor'[x].task = actor[x].task
      /\ \A y \in Actors : y # x => actor'[y] = actor[y]
  BY <1>1, <1>2, ActorMoves DEF Types, PCs
<1>4. RunsInv'
  BY <1>1, <1>3, Basics DEF RunsInv
<1>5. ASSUME ~mixed'
      PROVE  Alone'
  <2>1. Alone
    BY <1>1, <1>5
  <2>2. actor'[x].task = task /\ \A y \in Actors : y # x => actor'[y].pc = "idle"
    BY <1>1, <1>3, <2>1, OnlyOne
  <2>3. Live' = {}
    BY <1>1, <2>1 DEF Alone, Live
  <2> QED BY <1>1, <1>3, <2>2, <2>3 DEF Alone
<1> QED BY <1>3, <1>4, <1>5 DEF TickerInv

\* A run that returns has stopped the ticker and starts none.
LEMMA RunReturnsTicker ==
  ASSUME TickerInv, NEW r \in Runs, RunReturns(r)
  PROVE  TickerInv'
<1>1. /\ actor[r].pc = "stopped" /\ r \in Actors /\ actor' = [actor EXCEPT ![r] = Idle]
      /\ UNCHANGED <<config, task, taskConfig, work, row, told, downs, racing, untold, admin, sets, ticker, tick, runs, mixed>>
      /\ Types /\ (~mixed => Alone)
  BY Basics DEF RunReturns, startOnly, nodeVars, bounds, TickerInv
<1>2. task' \in Runs \cup {None} /\ ticker' \in [Runs -> Runs \cup {None}] /\ taskConfig' \in [Runs -> Nat]
  BY <1>1 DEF Types
<1>3. /\ Types' /\ ActorsInv' /\ RunsInv' /\ actor'[r] = Idle
      /\ \A y \in Actors : y # r => actor'[y] = actor[y]
  BY <1>1, <1>2, ActorEnds
<1>4. ASSUME ~mixed'
      PROVE  Alone'
  <2>1. Alone
    BY <1>1, <1>4
  <2>2. \A y \in Actors : actor'[y].pc = "idle"
    BY <1>1, <1>3, <2>1, OnlyOne, Basics
  <2>3. Live' = {}
    BY <1>1, <2>1 DEF Alone, Live
  <2> QED BY <2>2, <2>3 DEF Alone
<1> QED BY <1>3, <1>4 DEF TickerInv

\* A new ticker starts when no other runs ...
LEMMA StartTickerTicker ==
  ASSUME TickerInv, NEW r \in Runs, StartTicker(r)
  PROVE  TickerInv'
<1>1. /\ actor[r].pc = "stopped" /\ Move(r, "assign") /\ tick' = [tick EXCEPT ![r] = "wait"] /\ r \in Actors /\ r # Main
      /\ UNCHANGED <<config, task, taskConfig, work, row, told, downs, racing, untold, admin, sets, ticker, runs, mixed>>
      /\ Types /\ ActorsInv /\ RunsInv /\ (~mixed => Alone)
  BY Basics DEF StartTicker, startOnly, nodeVars, bounds, TickerInv
<1>2. /\ tick' \in [Runs -> {"none", "wait", "busy", "done"}]
      /\ \A j \in Runs : j # r => tick'[j] = tick[j]
  BY <1>1 DEF Types
<1>3. /\ Types' /\ ActorsInv' /\ actor'[r].pc = "assign" /\ actor'[r].task = actor[r].task
      /\ \A y \in Actors : y # r => actor'[y] = actor[y]
  BY <1>1, <1>2, ActorMoves DEF Types, PCs
<1>4. RunsInv'
  <2>1. tick[r] = "none" /\ ~(r > runs)
    BY <1>1, Basics DEF RunsInv
  <2>2. \A j \in Runs : j > runs' => actor'[j] = Idle /\ tick'[j] = "none"
    BY <1>1, <1>2, <1>3, <2>1, Basics DEF RunsInv
  <2>3. \A j \in Runs : actor'[j].pc \notin {"idle", "assign"} => tick'[j] = "none"
    BY <1>1, <1>2, <1>3, Basics DEF RunsInv
  <2>4. \A j \in Runs : tick'[j] # "busy" => work'[j] = Nobody
    BY <1>1, <1>2, <2>1 DEF RunsInv
  <2> QED BY <2>2, <2>3, <2>4 DEF RunsInv
<1>5. ASSUME ~mixed'
      PROVE  Alone'
  <2>1. Alone
    BY <1>1, <1>5
  <2>2. actor'[r].task = task /\ \A y \in Actors : y # r => actor'[y].pc = "idle"
    BY <1>1, <1>3, <2>1, OnlyOne
  <2>3. Live = {} /\ task # None
    BY <1>1, <2>1, <2>2, <1>3, Basics DEF Alone, ActorsInv
  <2>4. Live' \subseteq {r}
    BY <1>2, <2>3 DEF Live
  <2> QED BY <1>1, <1>3, <2>2, <2>3, <2>4 DEF Alone
<1> QED BY <1>3, <1>4, <1>5 DEF TickerInv

\* ... and becomes that of the task.
LEMMA AssignTickerTicker ==
  ASSUME TickerInv, NEW r \in Runs, AssignTicker(r)
  PROVE  TickerInv'
<1>1. /\ actor[r].pc = "assign" /\ r \in Actors
      /\ ticker' = [ticker EXCEPT ![actor[r].task] = r] /\ actor' = [actor EXCEPT ![r] = Idle]
      /\ UNCHANGED <<config, task, taskConfig, work, row, told, downs, racing, untold, admin, sets, tick, runs, mixed>>
      /\ Types /\ ActorsInv /\ (~mixed => Alone)
  BY Basics DEF AssignTicker, startOnly, nodeVars, bounds, TickerInv
<1>2. ticker' \in [Runs -> Runs \cup {None}] /\ actor[r].task \in Runs
  BY <1>1 DEF Types, ActorsInv
<1>3. ticker'[actor[r].task] = r
  BY <1>1, <1>2 DEF Types
<1>4. task' \in Runs \cup {None} /\ taskConfig' \in [Runs -> Nat]
  BY <1>1 DEF Types
<1>5. /\ Types' /\ ActorsInv' /\ RunsInv' /\ actor'[r] = Idle
      /\ \A y \in Actors : y # r => actor'[y] = actor[y]
  BY <1>1, <1>2, <1>4, ActorEnds
<1>6. ASSUME ~mixed'
      PROVE  Alone'
  <2>1. Alone
    BY <1>1, <1>6
  <2>2. actor[r].task = task /\ \A y \in Actors : actor'[y].pc = "idle"
    BY <1>1, <1>5, <2>1, OnlyOne, Basics
  <2>3. Live \subseteq {r} /\ Live' = Live
    BY <1>1, <2>1 DEF Alone, Live
  <2>4. \A k \in Live' : task' # None /\ ticker'[task'] = k
    BY <1>1, <1>2, <1>3, <2>2, <2>3, Basics
  <2> QED BY <2>2, <2>4 DEF Alone
<1> QED BY <1>5, <1>6 DEF TickerInv

\* A task that is forgotten has no ticker.
LEMMA LoopForgetsTicker ==
  ASSUME TickerInv, LoopForgets
  PROVE  TickerInv'
<1>1. /\ actor[Main].pc = "stopped" /\ task' = None /\ actor' = [actor EXCEPT ![Main] = Idle] /\ Main \in Actors
      /\ UNCHANGED <<config, taskConfig, work, row, told, downs, racing, untold, admin, sets, ticker, tick, runs, mixed>>
      /\ Types /\ ActorsInv /\ (~mixed => Alone)
  BY Basics DEF LoopForgets, startOnly, nodeVars, bounds, TickerInv
<1>2. task' \in Runs \cup {None} /\ ticker' \in [Runs -> Runs \cup {None}] /\ taskConfig' \in [Runs -> Nat]
  BY <1>1 DEF Types
<1>3. /\ Types' /\ ActorsInv' /\ RunsInv' /\ actor'[Main] = Idle
      /\ \A y \in Actors : y # Main => actor'[y] = actor[y]
  BY <1>1, <1>2, ActorEnds
<1>4. ASSUME ~mixed'
      PROVE  Alone'
  <2>1. Alone
    BY <1>1, <1>4
  <2>2. \A y \in Actors : actor'[y].pc = "idle"
    BY <1>1, <1>3, <2>1, OnlyOne, Basics
  <2>3. Live' = {}
    BY <1>1, <2>1 DEF Alone, Live
  <2> QED BY <2>2, <2>3 DEF Alone
<1> QED BY <1>3, <1>4 DEF TickerInv

\* After the API node has died there is nothing of the task.
LEMMA DieTicker ==
  ASSUME TickerInv, Die
  PROVE  TickerInv'
<1>1. /\ task' = None /\ taskConfig' = [t \in Runs |-> 0] /\ ticker' = [t \in Runs |-> None]
      /\ tick' = [k \in Runs |-> "none"] /\ actor' = [x \in Actors |-> Idle] /\ work' = [x \in Executors |-> Nobody]
      /\ admin' = "idle" /\ mixed' = FALSE /\ untold' = ~told
      /\ UNCHANGED <<config, runs, row, told, downs, racing, sets>> /\ Types
  BY DEF Die, TickerInv
<1>2. Nobody \in [Addrs -> Works]
  BY DEF Nobody, Works
<1>3. \A x \in Actors : actor'[x] = Idle /\ actor'[x].pc = "idle"
  BY <1>1, Basics
<1>4. Live' = {}
  BY <1>1 DEF Live
<1>5. Types'
  <2>1. actor' \in [Actors -> ActorStates] /\ work' \in [Executors -> [Addrs -> Works]]
    BY <1>1, <1>2, Basics
  <2>2. untold' \in BOOLEAN /\ mixed' \in BOOLEAN
    BY <1>1
  <2> QED BY <1>1, <2>1, <2>2 DEF Types
<1>6. ActorsInv' /\ RunsInv' /\ Alone'
  <2>1. \A k \in Runs : tick'[k] = "none" /\ work'[k] = Nobody
    BY <1>1 DEF Executors
  <2> QED BY <1>3, <1>4, <2>1, Basics DEF ActorsInv, RunsInv, Alone
<1> QED BY <1>5, <1>6 DEF TickerInv

-----------------------------------------------------------------------------
(***************************************************************************)
(* The checks.                                                             *)
(***************************************************************************)

\* The work on one address changes, and no other.
LEMMA Worked ==
  ASSUME Types, NEW x \in Executors, NEW a \in Addrs, NEW w \in Works, Work(x, a, w)
  PROVE  /\ work' \in [Executors -> [Addrs -> Works]] /\ work'[x][a] = w
         /\ \A y \in Executors : y # x => work'[y] = work[y]
         /\ \A y \in Executors, b \in Addrs : ~(y = x /\ b = a) => work'[y][b] = work[y][b]
BY DEF Types, Work

\* Who has something to do for an address is not through.
LEMMA NotNobody ==
  ASSUME NEW x \in Executors, NEW a \in Addrs, work[x][a].pc # "done"
  PROVE  work[x] # Nobody
BY DEF Nobody

\* A result that says something new takes one count up by one, and the other to zero; the
\* state changes when the count is reached.
LEMMA CountedFacts ==
  ASSUME row \in Rows, NEW r \in Rows, NEW ok \in BOOLEAN, Counting(r), ok = ~r.isUp
  PROVE  /\ Counted(r, ok) \in Rows /\ Counting(Counted(r, ok))
         /\ ok => (row.isUp => Counted(r, ok).isUp) /\ Counted(r, ok).countDown = 0
         /\ ~ok => Counted(r, ok).countDown = r.countDown + 1
         /\ Counted(r, ok).isUp # row.isUp => Changed(r, ok)
         /\ ~ok /\ row.isUp /\ ~Counted(r, ok).isUp => r.countDown + 1 >= MaxDown
<1>1. r.countUp \in Nat /\ r.countDown \in Nat /\ MaxUp \in Nat \ {0} /\ MaxDown \in Nat \ {0} /\ r.isUp \in BOOLEAN /\ row.isUp \in BOOLEAN
  BY CountAssumption DEF Rows
<1>2. CASE ok
  <2>1. r.countUp < MaxUp
    BY <1>1, <1>2 DEF Counting
  <2>2. Counted(r, ok) = [isUp |-> (r.countUp + 1 >= MaxUp \/ row.isUp), countUp |-> r.countUp + 1, countDown |-> 0]
    BY <1>2 DEF Counted
  <2>3. r.countUp + 1 \in 0..MaxUp /\ 0 \in 0..MaxDown /\ 0 < MaxDown
    BY <1>1, <2>1
  <2>4. ~(r.countUp + 1 >= MaxUp) => r.countUp + 1 < MaxUp
    BY <1>1
  <2> DEFINE c == Counted(r, ok)
  <2>5. c.isUp = (r.countUp + 1 >= MaxUp \/ row.isUp) /\ c.countUp = r.countUp + 1 /\ c.countDown = 0
    BY <2>2
  <2>6. c \in Rows
    <3>1. PICK u \in BOOLEAN, n \in 0..MaxUp : u = (r.countUp + 1 >= MaxUp \/ row.isUp) /\ n = r.countUp + 1
      BY <2>3
    <3>2. c = [isUp |-> u, countUp |-> n, countDown |-> 0]
      BY <2>2, <3>1
    <3> QED BY <2>3, <3>2 DEF Rows
  <2> HIDE DEF c
  <2>7. Counting(c)
    BY <1>1, <2>3, <2>4, <2>5 DEF Counting
  <2>8. c.isUp # row.isUp => Changed(r, ok)
    BY <1>1, <1>2, <2>5 DEF Changed
  <2>9. row.isUp => c.isUp
    BY <1>1, <2>5
  <2> QED BY <1>2, <2>5, <2>6, <2>7, <2>8, <2>9 DEF c
<1>3. CASE ~ok
  <2>1. r.countDown < MaxDown
    BY <1>1, <1>3 DEF Counting
  <2>2. Counted(r, ok) = [isUp |-> (r.countDown + 1 < MaxDown /\ row.isUp), countUp |-> 0, countDown |-> r.countDown + 1]
    BY <1>3 DEF Counted
  <2>3. r.countDown + 1 \in 0..MaxDown /\ 0 \in 0..MaxUp /\ 0 < MaxUp
    BY <1>1, <2>1
  <2>4. ~(r.countDown + 1 < MaxDown) => r.countDown + 1 >= MaxDown
    BY <1>1
  <2> DEFINE c == Counted(r, ok)
  <2>5. c.isUp = (r.countDown + 1 < MaxDown /\ row.isUp) /\ c.countUp = 0 /\ c.countDown = r.countDown + 1
    BY <2>2
  <2>6. c \in Rows
    <3>1. PICK u \in BOOLEAN, n \in 0..MaxDown : u = (r.countDown + 1 < MaxDown /\ row.isUp) /\ n = r.countDown + 1
      BY <2>3
    <3>2. c = [isUp |-> u, countUp |-> 0, countDown |-> n]
      BY <2>2, <3>1
    <3> QED BY <2>3, <3>2 DEF Rows
  <2> HIDE DEF c
  <2>7. Counting(c)
    BY <1>1, <2>3, <2>4, <2>5 DEF Counting
  <2>8. c.isUp # row.isUp => Changed(r, ok)
    BY <1>1, <1>3, <2>4, <2>5 DEF Changed
  <2>9. row.isUp /\ ~c.isUp => r.countDown + 1 >= MaxDown
    BY <1>1, <2>4, <2>5
  <2> QED BY <1>3, <2>5, <2>6, <2>7, <2>8, <2>9 DEF c
<1> QED BY <1>2, <1>3

\* A result is saved: on top of the row it was counted from, unless there is a race.
LEMMA SaveRowFacts ==
  ASSUME TickerInv, CountInv, NEW x \in Executors, NEW a \in Addrs, SaveRow(x, a)
  PROVE  /\ Types' /\ Counting(row)'
         /\ work[x][a].pc = "save" /\ work'[x][a].pc \in {"notify", "done"}
         /\ \A y \in Executors : y # x => work'[y] = work[y]
         /\ \A y \in Executors, b \in Addrs : ~(y = x /\ b = a) => work'[y][b] = work[y][b]
         /\ row'.isUp # row.isUp => work'[x][a].pc = "notify"
         /\ ~racing' => ~racing /\ row'.countDown <= downs'
         /\ row.isUp /\ ~row'.isUp => racing' \/ downs' >= MaxDown
<1> DEFINE w == work[x][a]
           d == IF Changed(w.row, w.ok) THEN [pc |-> "notify"] ELSE [pc |-> "done"]
<1>1. /\ w.pc = "save" /\ row' = Counted(w.row, w.ok) /\ Work(x, a, d)
      /\ downs' = (IF w.ok THEN (IF row'.isUp THEN 0 ELSE downs) ELSE downs + 1)
      /\ racing' = (racing \/ row # w.row) /\ told' = (told /\ row'.isUp = row.isUp)
      /\ UNCHANGED <<config, task, taskConfig, ticker, tick, actor, runs, mixed, admin, sets, untold>>
      /\ Types
  BY DEF SaveRow, counting, taskVars, TickerInv
<1>2. w \in Works
  BY <1>1 DEF Types
<1>3. w.row \in Rows /\ w.ok \in BOOLEAN
  BY <1>1, <1>2 DEF Works
<1>4. Counting(w.row) /\ w.ok = ~w.row.isUp
  BY <1>1 DEF CountInv
<1>5. PICK r \in Rows, ok \in BOOLEAN : r = w.row /\ ok = w.ok
  BY <1>3
<1>6. row' = Counted(r, ok) /\ Counting(r) /\ ok = ~r.isUp /\ row \in Rows
  BY <1>1, <1>4, <1>5 DEF Types
<1>7. /\ row' \in Rows /\ Counting(row')
      /\ ok => (row.isUp => row'.isUp) /\ row'.countDown = 0
      /\ ~ok => row'.countDown = r.countDown + 1
      /\ row'.isUp # row.isUp => Changed(r, ok)
      /\ ~ok /\ row.isUp /\ ~row'.isUp => r.countDown + 1 >= MaxDown
  BY <1>6, CountedFacts
<1>8. d \in Works /\ d.pc \in {"notify", "done"} /\ (Changed(r, ok) => d.pc = "notify")
  BY <1>5 DEF Works
<1> HIDE DEF d
<1>9. /\ work' \in [Executors -> [Addrs -> Works]] /\ work'[x][a] = d
      /\ \A y \in Executors : y # x => work'[y] = work[y]
      /\ \A y \in Executors, b \in Addrs : ~(y = x /\ b = a) => work'[y][b] = work[y][b]
  BY <1>1, <1>8, Worked
<1>10. downs \in Nat /\ downs' \in Nat
  BY <1>1 DEF Types
<1>11. Types'
  <2>1. told' \in BOOLEAN /\ racing' \in BOOLEAN
    BY <1>1 DEF Types
  <2> QED BY <1>1, <1>7, <1>9, <1>10, <2>1 DEF Types
<1>12. r.countDown \in Nat /\ MaxDown \in Nat
  BY CountAssumption DEF Rows
<1>13. ASSUME ~racing'
       PROVE  ~racing /\ row'.countDown <= downs'
  <2>1. ~racing /\ row = r
    BY <1>1, <1>5, <1>13
  <2>2. r.countDown <= downs
    BY <2>1 DEF CountInv
  <2>3. CASE ok
    BY <1>7, <1>10, <2>1, <2>3
  <2>4. CASE ~ok
    <3>1. downs' = downs + 1 /\ row'.countDown = r.countDown + 1
      BY <1>1, <1>5, <1>7, <2>4
    <3> QED BY <1>10, <1>12, <2>1, <2>2, <3>1
  <2> QED BY <2>3, <2>4
<1>14. ASSUME row.isUp, ~row'.isUp, ~racing'
       PROVE  downs' >= MaxDown
  <2>1. ~ok /\ r.countDown + 1 >= MaxDown /\ row'.countDown = r.countDown + 1
    BY <1>7, <1>14
  <2> QED BY <1>10, <1>12, <1>13, <1>14, <2>1
<1> HIDE DEF w
<1> QED BY <1>1, <1>7, <1>8, <1>9, <1>11, <1>13, <1>14 DEF w

\* A ticker at a check is one that runs, and waits again when all is through.
LEMMA StartEndCheckTicker ==
  ASSUME TickerInv, NEW k \in Runs, StartCheck(k) \/ EndCheck(k)
  PROVE  TickerInv'
<1>1. PICK l \in {"wait", "busy"} :
        tick[k] \in {"wait", "busy"} /\ tick' = [tick EXCEPT ![k] = l] /\ (l = "wait" => work'[k] = Nobody)
  BY DEF StartCheck, EndCheck, Resumed
<1>2. /\ UNCHANGED <<config, task, taskConfig, ticker, actor, runs, mixed, admin, row, told, downs, racing, untold, sets>>
      /\ Types /\ ActorsInv /\ RunsInv /\ (~mixed => Alone)
  BY DEF StartCheck, EndCheck, nodeVars, bounds, TickerInv
<1>3. /\ tick' \in [Runs -> {"none", "wait", "busy", "done"}] /\ tick'[k] = l
      /\ \A j \in Runs : j # k => tick'[j] = tick[j]
  BY <1>1, <1>2 DEF Types
<1>4. /\ work' \in [Executors -> [Addrs -> Works]]
      /\ \A y \in Executors : y # k => work'[y] = work[y]
  <2>1. CASE StartCheck(k)
    <3>1. Prepared \in [Addrs -> Works] /\ Nobody \in [Addrs -> Works]
      BY DEF Prepared, Nobody, Works
    <3> QED BY <1>2, <2>1, <3>1 DEF StartCheck, Types
  <2>2. CASE EndCheck(k)
    BY <1>2, <2>2 DEF EndCheck, Types
  <2> QED BY <2>1, <2>2
<1>5. Types'
  BY <1>2, <1>3, <1>4 DEF Types
<1>6. ActorsInv'
  BY <1>2 DEF ActorsInv
<1>7. RunsInv'
  <2>1. \A j \in Runs : j > runs' => actor'[j] = Idle /\ tick'[j] = "none"
    BY <1>1, <1>2, <1>3 DEF RunsInv
  <2>2. \A j \in Runs : actor'[j].pc \notin {"idle", "assign"} => tick'[j] = "none"
    BY <1>1, <1>2, <1>3 DEF RunsInv
  <2>3. \A j \in Runs : tick'[j] # "busy" => work'[j] = Nobody
    BY <1>1, <1>2, <1>3, <1>4 DEF RunsInv, Executors
  <2> QED BY <2>1, <2>2, <2>3 DEF RunsInv
<1>8. ~mixed' => Alone'
  <2>1. Live' = Live
    BY <1>1, <1>3 DEF Live
  <2> QED BY <1>2, <2>1 DEF Alone
<1> QED BY <1>5, <1>6, <1>7, <1>8 DEF TickerInv

\* The configuration, the administrator and the executors leave the task as it is.
LEMMA OtherTicker ==
  ASSUME TickerInv, CountInv, Change \/ CheckNow \/ SetUp \/ SetUpNotifies \/ \E x \in Executors : CheckStep(x)
  PROVE  TickerInv'
<1>1. Types /\ UNCHANGED <<task, taskConfig, ticker, tick, actor, runs, mixed>>
  BY DEF TickerInv, Change, CheckNow, SetUp, SetUpNotifies, CheckStep, ReadRow, SaveRow, Notify, counting, taskVars
<1>2. Types' /\ \A k \in Runs : work[k] = Nobody => work'[k] = Nobody
  <2>1. CASE Change
    <3>1. config \in Configs
      BY <1>1 DEF Types
    <3>2. PICK c \in BOOLEAN, d \in BOOLEAN : c = ~config.clusterOn /\ d = ~config.checkOn
      OBVIOUS
    <3>3. \/ config' = [config EXCEPT !.clusterOn = c]
          \/ config' = [config EXCEPT !.checkOn = d]
          \/ config' = [config EXCEPT !.rev = config.rev + 1]
      BY <2>1, <3>2 DEF Change
    <3>4. config' \in Configs
      <4>1. CASE config' = [config EXCEPT !.clusterOn = c]
        BY <3>1, <4>1 DEF Configs
      <4>2. CASE config' = [config EXCEPT !.checkOn = d]
        BY <3>1, <4>2 DEF Configs
      <4>3. CASE config' = [config EXCEPT !.rev = config.rev + 1]
        BY <3>1, <4>3 DEF Configs
      <4> QED BY <3>3, <4>1, <4>2, <4>3
    <3> QED BY <1>1, <2>1, <3>4 DEF Change, Types, nodeVars
  <2>2. CASE CheckNow
    <3>1. Prepared \in [Addrs -> Works] /\ Admin \notin Runs
      BY DEF Prepared, Nobody, Works, Admin, Runs
    <3>2. work' \in [Executors -> [Addrs -> Works]] /\ \A k \in Runs : work'[k] = work[k]
      BY <1>1, <2>2, <3>1 DEF CheckNow, Types, Executors
    <3> QED BY <1>1, <2>2, <3>2 DEF CheckNow, Types, nodeVars
  <2>3. CASE SetUp
    <3>1. row' \in Rows
      BY <2>3, CountAssumption DEF SetUp, Rows
    <3>2. UNCHANGED <<config, work, racing, untold>> /\ admin' = "notify" /\ told' = FALSE
      BY <2>3 DEF SetUp
    <3>3. downs' = 0 /\ sets' = sets + 1
      BY <2>3 DEF SetUp
    <3>4. downs' \in Nat /\ sets' \in Nat
      BY <1>1, <3>3 DEF Types
    <3> QED BY <1>1, <3>1, <3>2, <3>4 DEF Types
  <2>4. CASE SetUpNotifies
    <3>1. told' \in BOOLEAN /\ untold' \in BOOLEAN
      BY <1>1, <2>4 DEF SetUpNotifies, CreateDNSTask, Types
    <3> QED BY <1>1, <2>4, <3>1 DEF SetUpNotifies, Types
  <2>5. ASSUME NEW x \in Executors, NEW a \in Addrs, ReadRow(x, a)
        PROVE  Types' /\ \A k \in Runs : work[k] = Nobody => work'[k] = Nobody
    <3>1. PICK ok \in BOOLEAN : Work(x, a, IF SameState(ok) THEN [pc |-> "done"] ELSE [pc |-> "save", ok |-> ok, row |-> row])
      BY <2>5 DEF ReadRow
    <3>2. PICK w \in Works : w = IF SameState(ok) THEN [pc |-> "done"] ELSE [pc |-> "save", ok |-> ok, row |-> row]
      BY <1>1 DEF Works, Types
    <3>3. work' \in [Executors -> [Addrs -> Works]] /\ \A y \in Executors : y # x => work'[y] = work[y]
      BY <1>1, <3>1, <3>2, Worked
    <3>4. work[x] # Nobody
      BY <2>5, NotNobody DEF ReadRow
    <3> QED BY <1>1, <2>5, <3>3, <3>4 DEF ReadRow, counting, nodeVars, Types, Executors
  <2>6. ASSUME NEW x \in Executors, NEW a \in Addrs, SaveRow(x, a)
        PROVE  Types' /\ \A k \in Runs : work[k] = Nobody => work'[k] = Nobody
    <3>1. Types' /\ work[x][a].pc = "save" /\ \A y \in Executors : y # x => work'[y] = work[y]
      BY <2>6, SaveRowFacts
    <3>2. work[x] # Nobody
      BY <3>1, NotNobody
    <3> QED BY <3>1, <3>2 DEF Executors
  <2>7. ASSUME NEW x \in Executors, NEW a \in Addrs, Notify(x, a)
        PROVE  Types' /\ \A k \in Runs : work[k] = Nobody => work'[k] = Nobody
    <3>1. PICK w \in Works : w = [pc |-> "done"]
      BY DEF Works
    <3>2. Work(x, a, w)
      BY <2>7, <3>1 DEF Notify
    <3>3. work' \in [Executors -> [Addrs -> Works]] /\ \A y \in Executors : y # x => work'[y] = work[y]
      BY <1>1, <3>2, Worked
    <3>4. work[x] # Nobody
      BY <2>7, NotNobody DEF Notify
    <3>5. told' \in BOOLEAN /\ untold' \in BOOLEAN
      BY <1>1, <2>7 DEF Notify, CreateDNSTask, Types
    <3> QED BY <1>1, <2>7, <3>3, <3>4, <3>5 DEF Notify, counting, Types, Executors
  <2> QED BY <2>1, <2>2, <2>3, <2>4, <2>5, <2>6, <2>7 DEF CheckStep
<1> QED BY <1>1, <1>2, TickersLeft

\* A step that leaves the row and the work of the executors leaves the counts and whether
\* the DNS has been told.
LEMMA CountsLeft ==
  ASSUME CheckInv, UNCHANGED <<row, downs, racing, work, admin, told, untold>>
  PROVE  CountInv' /\ DNSTold'
BY DEF CheckInv, CountInv, Counting, DNSTold

\* A step of a run or of the main loop, and a change of the configuration.
LEMMA RunsCounts ==
  ASSUME CheckInv,
         Change \/ LoopStarts \/ LoopResets \/ LoopStops \/ LoopForgets
         \/ (\E x \in Actors : CheckTicker(x) \/ ReadTicker(x) \/ StopTicker(x) \/ ClearTicker(x))
         \/ \E r \in Runs : Compare(r) \/ RunReturns(r) \/ StartTicker(r) \/ AssignTicker(r)
  PROVE  CountInv' /\ DNSTold'
<1>1. UNCHANGED <<row, downs, racing, work, admin, told, untold>>
  BY DEF Change, LoopStarts, LoopResets, LoopStops, LoopForgets, CheckTicker, ReadTicker, StopTicker, ClearTicker,
         Compare, RunReturns, StartTicker, AssignTicker, startOnly, nodeVars
<1> QED BY <1>1, CountsLeft

\* When the API node dies, what the DNS has not been told it will not be told.
LEMMA DieCounts ==
  ASSUME CheckInv, Die
  PROVE  CountInv' /\ DNSTold'
<1>1. UNCHANGED <<row, downs, racing, told>> /\ work' = [x \in Executors |-> Nobody] /\ untold' = ~told
  BY DEF Die
<1>2. \A x \in Executors, a \in Addrs : work'[x][a].pc = "done"
  BY <1>1 DEF Nobody
<1>3. CountInv'
  BY <1>1, <1>2 DEF CheckInv, CountInv, Counting
<1>4. DNSTold'
  BY <1>1 DEF DNSTold
<1> QED BY <1>3, <1>4

\* An executor begins when it has nothing to do, and ends so.
LEMMA StartEndCounts ==
  ASSUME CheckInv, CheckNow \/ \E k \in Runs : StartCheck(k) \/ EndCheck(k)
  PROVE  CountInv' /\ DNSTold'
<1>1. CASE CheckNow \/ \E k \in Runs : StartCheck(k)
  <2>1. UNCHANGED <<row, downs, racing, told, untold, admin>>
    BY <1>1 DEF CheckNow, StartCheck, nodeVars
  <2>2. PICK x \in Executors, w \in {Prepared, Nobody} : work[x] = Nobody /\ work' = [work EXCEPT ![x] = w]
    <3>1. CASE CheckNow
      BY <3>1 DEF CheckNow, Executors
    <3>2. ASSUME NEW k \in Runs, StartCheck(k)
          PROVE  \E x \in Executors, w \in {Prepared, Nobody} : work[x] = Nobody /\ work' = [work EXCEPT ![x] = w]
      <4>1. tick[k] # "busy"
        BY <3>2 DEF StartCheck
      <4> QED BY <3>2, <4>1 DEF StartCheck, CheckInv, TickerInv, RunsInv, Executors
    <3> QED BY <1>1, <3>1, <3>2
  <2>3. \A a \in Addrs : work[x][a].pc = "done" /\ work'[x][a].pc \in {"try", "done"}
    BY <2>2 DEF CheckInv, TickerInv, Types, Nobody, Prepared
  <2>4. \A y \in Executors : y # x => work'[y] = work[y]
    BY <2>2 DEF CheckInv, TickerInv, Types
  <2>5. CountInv'
    BY <2>1, <2>3, <2>4 DEF CheckInv, CountInv, Counting
  <2>6. DNSTold'
    BY <2>1, <2>3, <2>4 DEF CheckInv, DNSTold
  <2> QED BY <2>5, <2>6
<1>2. ASSUME NEW k \in Runs, EndCheck(k)
      PROVE  CountInv' /\ DNSTold'
  <2>1. UNCHANGED <<row, downs, racing, work, admin, told, untold>>
    BY <1>2 DEF EndCheck, nodeVars
  <2> QED BY <2>1, CountsLeft
<1> QED BY <1>1, <1>2

\* A row is read, and a result that is to be counted says something new of it.
LEMMA ReadRowCounts ==
  ASSUME CheckInv, NEW x \in Executors, NEW a \in Addrs, ReadRow(x, a)
  PROVE  CountInv' /\ DNSTold'
<1>1. work[x][a].pc = "try" /\ UNCHANGED <<row, downs, racing, told, untold, admin>> /\ Types /\ row \in Rows
  BY DEF ReadRow, counting, nodeVars, CheckInv, TickerInv, Types
<1>2. PICK ok \in BOOLEAN : Work(x, a, IF SameState(ok) THEN [pc |-> "done"] ELSE [pc |-> "save", ok |-> ok, row |-> row])
  BY DEF ReadRow
<1>3. PICK w \in Works : w = IF SameState(ok) THEN [pc |-> "done"] ELSE [pc |-> "save", ok |-> ok, row |-> row]
  <2>1. PICK r \in Rows : r = row
    BY <1>1
  <2>2. [pc |-> "done"] \in Works /\ [pc |-> "save", ok |-> ok, row |-> r] \in Works
    BY DEF Works
  <2> QED BY <2>1, <2>2
<1>4. /\ work'[x][a] = w
      /\ \A y \in Executors, b \in Addrs : ~(y = x /\ b = a) => work'[y][b] = work[y][b]
  BY <1>1, <1>2, <1>3, Worked
<1>5. w.pc \in {"done", "save"} /\ (w.pc = "save" => w.row = row /\ w.ok = ok /\ ~SameState(ok))
  BY <1>3
<1>6. w.pc = "save" => Counting(w.row) /\ w.ok = ~w.row.isUp
  <2>1. row.isUp \in BOOLEAN
    BY <1>1 DEF Rows
  <2>2. ~SameState(ok) => ok = ~row.isUp
    BY <2>1 DEF SameState
  <2> QED BY <1>5, <2>2 DEF CheckInv, CountInv
<1>7. CountInv'
  <2>1. Counting(row)' /\ (~racing' => row'.countDown <= downs')
    BY <1>1 DEF CheckInv, CountInv, Counting
  <2>2. ASSUME NEW y \in Executors, NEW b \in Addrs, work'[y][b].pc = "save"
        PROVE  Counting(work'[y][b].row) /\ work'[y][b].ok = ~work'[y][b].row.isUp
    <3>1. CASE y = x /\ b = a
      BY <1>4, <1>6, <2>2, <3>1
    <3>2. CASE ~(y = x /\ b = a)
      BY <1>4, <2>2, <3>2 DEF CheckInv, CountInv
    <3> QED BY <3>1, <3>2
  <2> QED BY <2>1, <2>2 DEF CountInv, Counting
<1>8. DNSTold'
  BY <1>1, <1>4 DEF CheckInv, DNSTold
<1> QED BY <1>7, <1>8

\* A change of the state is with the executor that made it, which is to tell the DNS.
LEMMA SaveRowCounts ==
  ASSUME CheckInv, NEW x \in Executors, NEW a \in Addrs, SaveRow(x, a)
  PROVE  CountInv' /\ DNSTold'
<1>1. /\ Counting(row)' /\ work[x][a].pc = "save" /\ work'[x][a].pc \in {"notify", "done"}
      /\ \A y \in Executors, b \in Addrs : ~(y = x /\ b = a) => work'[y][b] = work[y][b]
      /\ row'.isUp # row.isUp => work'[x][a].pc = "notify"
      /\ ~racing' => ~racing /\ row'.countDown <= downs'
  BY SaveRowFacts DEF CheckInv
<1>2. /\ told' = (told /\ row'.isUp = row.isUp) /\ UNCHANGED <<admin, untold>>
  BY DEF SaveRow, counting
<1>3. CountInv'
  <2>1. \A y \in Executors, b \in Addrs : work'[y][b].pc = "save" => work'[y][b] = work[y][b]
    BY <1>1
  <2>2. \A y \in Executors, b \in Addrs : work'[y][b].pc = "save" =>
          Counting(work'[y][b].row) /\ work'[y][b].ok = ~work'[y][b].row.isUp
    BY <2>1 DEF CheckInv, CountInv
  <2> QED BY <1>1, <2>2 DEF CountInv, Counting
<1>4. DNSTold'
  <2>1. CASE row'.isUp # row.isUp
    BY <1>1, <2>1 DEF DNSTold
  <2>2. CASE row'.isUp = row.isUp
    BY <1>1, <1>2, <2>2 DEF CheckInv, DNSTold
  <2> QED BY <2>1, <2>2
<1> QED BY <1>3, <1>4

\* The task for the DNS has been created, or it is known that it has not.
LEMMA ToldOrNot ==
  ASSUME CreateDNSTask, told \in BOOLEAN
  PROVE  told' \/ untold'
<1>1. CASE told' = TRUE
  BY <1>1
<1>2. CASE untold' = ~told /\ told' = told
  <2>1. CASE told = TRUE
    BY <1>2, <2>1
  <2>2. CASE told = FALSE
    BY <1>2, <2>2
  <2> QED BY <2>1, <2>2
<1> QED BY <1>1, <1>2 DEF CreateDNSTask

\* An executor that has told the DNS, or could not, is through with the address.
LEMMA NotifyCounts ==
  ASSUME CheckInv, NEW x \in Executors, NEW a \in Addrs, Notify(x, a)
  PROVE  CountInv' /\ DNSTold'
<1>1. UNCHANGED <<row, downs, racing>> /\ CreateDNSTask /\ Types
  BY DEF Notify, counting, CheckInv, TickerInv
<1>2. PICK w \in Works : w = [pc |-> "done"]
  BY DEF Works
<1>3. Work(x, a, w)
  BY <1>2 DEF Notify
<1>4. /\ work'[x][a] = w
      /\ \A y \in Executors, b \in Addrs : ~(y = x /\ b = a) => work'[y][b] = work[y][b]
  BY <1>1, <1>3, Worked
<1>5. CountInv'
  <2>1. \A y \in Executors, b \in Addrs : work'[y][b].pc = "save" => work'[y][b] = work[y][b]
    BY <1>2, <1>4
  <2>2. \A y \in Executors, b \in Addrs : work'[y][b].pc = "save" =>
          Counting(work'[y][b].row) /\ work'[y][b].ok = ~work'[y][b].row.isUp
    BY <2>1 DEF CheckInv, CountInv
  <2> QED BY <1>1, <2>2 DEF CheckInv, CountInv, Counting
<1>6. DNSTold'
  <2>1. told' \/ untold'
    BY <1>1, ToldOrNot DEF Types
  <2> QED BY <2>1 DEF DNSTold
<1> QED BY <1>5, <1>6

\* What an administrator sets starts the counts again.
LEMMA SetUpCounts ==
  ASSUME CheckInv, SetUp \/ SetUpNotifies
  PROVE  CountInv' /\ DNSTold'
<1>1. CASE SetUp
  <2>1. /\ UNCHANGED <<work, racing>> /\ admin' = "notify" /\ downs' = 0
        /\ row'.countUp = 0 /\ row'.countDown = 0
    BY <1>1 DEF SetUp
  <2>2. 0 < MaxUp /\ 0 < MaxDown
    BY CountAssumption
  <2>3. CountInv'
    BY <2>1, <2>2 DEF CheckInv, CountInv, Counting
  <2> QED BY <2>1, <2>3 DEF DNSTold
<1>2. CASE SetUpNotifies
  <2>1. UNCHANGED <<row, downs, racing, work>> /\ CreateDNSTask
    BY <1>2 DEF SetUpNotifies
  <2>2. CountInv'
    BY <2>1 DEF CheckInv, CountInv, Counting
  <2>3. told' \/ untold'
    BY <2>1, ToldOrNot DEF CheckInv, TickerInv, Types
  <2>4. DNSTold'
    BY <2>3 DEF DNSTold
  <2> QED BY <2>2, <2>4
<1> QED BY <1>1, <1>2

-----------------------------------------------------------------------------
\* At the start nothing is under way.
LEMMA InitChecks == Init => CheckInv
<1> SUFFICES ASSUME Init
             PROVE  CheckInv
  OBVIOUS
<1>1. MaxRuns \in Nat /\ MaxUp \in Nat \ {0} /\ MaxDown \in Nat \ {0}
  BY BoundAssumption, CountAssumption
<1>2. Nobody \in [Addrs -> Works] /\ \A a \in Addrs : Nobody[a].pc = "done"
  BY DEF Nobody, Works
<1>3. row \in Rows /\ Counting(row) /\ row.countDown = 0
  BY <1>1 DEF Init, Rows, Counting
<1>4. actor \in [Actors -> ActorStates] /\ work \in [Executors -> [Addrs -> Works]]
  BY <1>2, Basics DEF Init
<1>5. Types
  <2>1. config \in Configs /\ runs \in 0..MaxRuns
    BY <1>1 DEF Init, Configs
  <2> QED BY <1>3, <1>4, <2>1 DEF Init, Types
<1>6. \A x \in Actors : actor[x] = Idle /\ actor[x].pc = "idle"
  BY Basics DEF Init
<1>7. ActorsInv
  BY <1>6, Basics DEF ActorsInv
<1>8. RunsInv
  BY <1>6, Basics DEF Init, RunsInv, Executors
<1>9. Alone
  <2>1. Live = {}
    BY DEF Init, Live
  <2> QED BY <1>6, <2>1 DEF Alone
<1>10. CountInv
  BY <1>2, <1>3 DEF Init, CountInv
<1>11. DNSTold
  BY DEF Init, DNSTold
<1> QED BY <1>5, <1>7, <1>8, <1>9, <1>10, <1>11 DEF CheckInv, TickerInv

\* Every step keeps the task, its tickers, the counts and what the DNS is told.
LEMMA CheckInvStep ==
  ASSUME CheckInv, [Next]_vars
  PROVE  CheckInv'
<1> TickerInv /\ CountInv
  BY DEF CheckInv
<1>1. CASE Change
  BY <1>1, OtherTicker, RunsCounts DEF CheckInv
<1>2. CASE LoopStarts
  BY <1>2, LoopStartsTicker, RunsCounts DEF CheckInv
<1>3. CASE LoopResets \/ LoopStops
  BY <1>3, LoopBegins, RunsCounts DEF CheckInv
<1>4. CASE LoopForgets
  BY <1>4, LoopForgetsTicker, RunsCounts DEF CheckInv
<1>5. ASSUME NEW x \in Actors, ActorStep(x)
      PROVE  CheckInv'
  <2>1. CASE CheckTicker(x)
    BY <2>1, CheckTickerTicker, RunsCounts DEF CheckInv
  <2>2. CASE ReadTicker(x)
    BY <2>2, ReadTickerTicker, RunsCounts DEF CheckInv
  <2>3. CASE StopTicker(x)
    BY <2>3, StopTickerTicker, RunsCounts DEF CheckInv
  <2>4. CASE ClearTicker(x)
    BY <2>4, ClearTickerTicker, RunsCounts DEF CheckInv
  <2>5. CASE Panic(x)
    BY <2>5, DieTicker, DieCounts DEF CheckInv, Panic
  <2> QED BY <1>5, <2>1, <2>2, <2>3, <2>4, <2>5 DEF ActorStep
<1>6. ASSUME NEW r \in Runs, RunStep(r)
      PROVE  CheckInv'
  <2>1. CASE Compare(r)
    BY <2>1, CompareTicker, RunsCounts DEF CheckInv
  <2>2. CASE StartTicker(r)
    BY <2>2, StartTickerTicker, RunsCounts DEF CheckInv
  <2>3. CASE AssignTicker(r)
    BY <2>3, AssignTickerTicker, RunsCounts DEF CheckInv
  <2>4. CASE RunReturns(r)
    BY <2>4, RunReturnsTicker, RunsCounts DEF CheckInv
  <2> QED BY <1>5, <1>6, <2>1, <2>2, <2>3, <2>4, Basics DEF RunStep
<1>7. ASSUME NEW r \in Runs, StartCheck(r) \/ EndCheck(r)
      PROVE  CheckInv'
  BY <1>7, StartEndCheckTicker, StartEndCounts DEF CheckInv
<1>8. ASSUME NEW x \in Executors, CheckStep(x)
      PROVE  CheckInv'
  <2>1. TickerInv'
    BY <1>8, OtherTicker
  <2>2. CountInv' /\ DNSTold'
    BY <1>8, ReadRowCounts, SaveRowCounts, NotifyCounts DEF CheckStep
  <2> QED BY <2>1, <2>2 DEF CheckInv
<1>9. CASE CheckNow
  BY <1>9, OtherTicker, StartEndCounts DEF CheckInv
<1>10. CASE SetUp \/ SetUpNotifies
  BY <1>10, OtherTicker, SetUpCounts DEF CheckInv
<1>11. CASE Crash
  BY <1>11, DieTicker, DieCounts DEF CheckInv, Crash
<1>12. CASE UNCHANGED vars
  <2>1. UNCHANGED <<task, taskConfig, ticker, tick, actor, runs, mixed, config, work, admin, row, told, downs, racing, untold, sets>>
    BY <1>12 DEF vars, taskVars, nodeVars, bounds
  <2>2. Types'
    BY <2>1 DEF TickerInv, Types
  <2>3. TickerInv'
    BY <2>1, <2>2, TickersLeft
  <2> QED BY <2>1, <2>3, CountsLeft DEF CheckInv
<1> QED BY <1>1, <1>2, <1>3, <1>4, <1>5, <1>6, <1>7, <1>8, <1>9, <1>10, <1>11, <1>12, Basics DEF Next

\* However the main loop, the runs, the checks and the administrator come together, and
\* whenever the API node dies.
THEOREM CheckInvariant == Spec => []CheckInv
<1>1. Init => CheckInv
  BY InitChecks
<1>2. CheckInv /\ [Next]_vars => CheckInv'
  BY CheckInvStep
<1> QED BY <1>1, <1>2, PTL DEF Spec

\* Every variable has its type; above all no count goes beyond the one at which the state
\* of the node changes (UpdateNodeUpCount), however many results are counted at once.
THEOREM TypeCorrect == Spec => []TypeOK
<1>1. CheckInv => TypeOK
  <2> SUFFICES ASSUME CheckInv
               PROVE  TypeOK
    OBVIOUS
  <2>1. Types
    BY DEF CheckInv, TickerInv
  <2>2. \A x \in Actors : actor[x].pc \in PCs
    BY <2>1 DEF Types, ActorStates
  <2>3. ASSUME NEW x \in Executors, NEW a \in Addrs
        PROVE  work[x][a].pc \in {"try", "save", "notify", "done"}
    <3>1. work[x][a] \in Works
      BY <2>1 DEF Types
    <3> QED BY <3>1 DEF Works
  <2> QED BY <2>1, <2>2, <2>3 DEF Types, Configs, TypeOK, PCs, Rows
<1> QED BY <1>1, CheckInvariant, PTL

\* As long as no two actors have been at work on the task at once, the cluster has one
\* ticker at most, and it is the one HealthCheckClusterTask.Stop would stop: for every
\* number of starts, resets, stops and deaths.
THEOREM TickerIsOne == Spec => []OneTicker
<1>1. CheckInv => OneTicker
  <2> SUFFICES ASSUME CheckInv, ~mixed, NEW k \in Live
               PROVE  /\ \A j \in Live : j = k
                      /\ task # None /\ (ticker[task] = k \/ actor[k].pc = "assign")
    BY DEF OneTicker
  <2>1. Alone
    BY DEF CheckInv, TickerInv
  <2>2. \A j \in Live : j \in Actors
    BY Basics DEF Live
  <2> QED BY <2>1, <2>2 DEF Alone
<1> QED BY <1>1, CheckInvariant, PTL

\* The DNS task for a change of isUp has been created, or somebody is about to create it,
\* unless it failed or the API node died.
THEOREM ChangesAreTold == Spec => []DNSTold
<1>1. CheckInv => DNSTold
  BY DEF CheckInv
<1> QED BY <1>1, CheckInvariant, PTL

\* A check takes the node down only after as many failed results as the configuration asks
\* for, unless a result was counted on top of a row that another had changed: the step of
\* UpdateNodeUpCount that sets isUp, for every countDown.
THEOREM DownIsEarned == Spec => DownEarned
<1>1. CheckInv /\ [Next]_vars => [row.isUp /\ ~row'.isUp /\ sets' = sets => racing' \/ downs' >= MaxDown]_vars
  <2> SUFFICES ASSUME CheckInv, [Next]_vars, row.isUp, ~row'.isUp, sets' = sets
               PROVE  racing' \/ downs' >= MaxDown
    OBVIOUS
  <2>1. CASE \E x \in Executors, a \in Addrs : SaveRow(x, a)
    BY <2>1, SaveRowFacts DEF CheckInv
  <2>2. CASE SetUp
    <3>1. sets' = sets + 1 /\ sets \in Nat
      BY <2>2 DEF SetUp, CheckInv, TickerInv, Types
    <3> QED BY <3>1
  <2>3. CASE UNCHANGED row
    BY <2>3
  <2>4. UNCHANGED row \/ SetUp \/ \E x \in Executors, a \in Addrs : SaveRow(x, a)
    BY DEF Next, vars, nodeVars, startOnly, counting, Change, LoopStarts, LoopResets, LoopStops, LoopForgets, ActorStep,
           CheckTicker, ReadTicker, StopTicker, ClearTicker, Panic, Die, Crash, RunStep, Compare, RunReturns, StartTicker,
           AssignTicker, StartCheck, EndCheck, CheckStep, ReadRow, Notify, CheckNow, SetUpNotifies
  <2> QED BY <2>1, <2>2, <2>3, <2>4
<1> QED BY <1>1, CheckInvariant, PTL DEF Spec, DownEarned

=============================================================================
