------------------------------ MODULE HealthCheck ------------------------------
(***************************************************************************)
(* The health checks of one cluster and one of its nodes, in one API node. *)
(* The main loop (HealthCheckTask.Loop, every minute) starts, resets and   *)
(* stops the task of the cluster (HealthCheckClusterTask), each start and  *)
(* reset in a goroutine of its own; the task has a ticker (utils.Ticker)   *)
(* whose goroutine runs the checks; a check (HealthCheckExecutor) tries    *)
(* the addresses of the node at the same time and counts each result in    *)
(* the node's row (NodeDAO.UpdateNodeUpCount), which takes the node down   *)
(* or up and then has its DNS records changed.                             *)
(*                                                                         *)
(* Nothing protects the fields of the task and the ticker, nor the row.    *)
(* Run r of a task is the r-th goroutine started for Run or Reset; a task  *)
(* and a ticker are named after the run that made them.                    *)
(***************************************************************************)
EXTENDS Integers, FiniteSets

CONSTANTS
  Addrs,       \* addresses of the node
  MaxUp,       \* countUp of the configuration
  MaxDown,     \* countDown of the configuration
  MaxRuns,     \* bound: goroutines started for Run or Reset
  MaxChanges,  \* bound: changes of the cluster
  MaxChecks,   \* bound: checks
  MaxSets,     \* bound: calls of UpdateNodeUp by an administrator
  MaxFaults    \* bound: failing statements, and deaths of the API node

ASSUME CountAssumption == MaxUp \in Nat \ {0} /\ MaxDown \in Nat \ {0}
ASSUME BoundAssumption == {MaxRuns, MaxChanges, MaxChecks, MaxSets, MaxFaults} \subseteq Nat

Runs == 1..MaxRuns
None == 0
Main == 0                 \* the main loop, as one that may stop a task
Actors == {Main} \cup Runs
Admin == 0                \* a check an administrator asks for runs in no ticker
Executors == {Admin} \cup Runs

VARIABLES
  config,      \* the cluster's row: is it on, are its health checks on, and how are they done
  task,        \* the cluster's entry in tasksMap, or None
  taskConfig,  \* taskConfig[t]: the field config of task t
  ticker,      \* ticker[t]: the field ticker of task t, or None
  tick,        \* tick[k]: the goroutine of ticker k
  actor,       \* actor[r]: what run r or the main loop is doing, with which task
  runs,        \* how many runs there have been
  work,        \* work[x]: the results that executor x still has to count, by address
  row,         \* the node's row
  admin,       \* UpdateNodeUp: "idle" or "notify"
  told,        \* the DNS task for the last change of isUp has been created
  mixed,       \* history: two actors were at work on the task at the same time
  downs,       \* history: failed results counted since the node was last set up
  racing,      \* history: a result was counted on top of a row that had changed
  untold,      \* history: a change of isUp whose DNS task could not be created
  changes, checks, sets, faults   \* counters for the bounds

taskVars == <<task, taskConfig, ticker, tick, actor, runs, mixed>>
nodeVars == <<row, told, downs, racing, untold>>
bounds   == <<changes, checks, sets, faults>>
vars     == <<config, taskVars, work, admin, nodeVars, bounds>>

Idle   == [pc |-> "idle", task |-> None, ticker |-> None, config |-> 0]
Nobody == [a \in Addrs |-> [pc |-> "done"]]

Init ==
  /\ config = [clusterOn |-> TRUE, checkOn |-> TRUE, rev |-> 1]
  /\ task = None
  /\ taskConfig = [t \in Runs |-> 0]
  /\ ticker = [t \in Runs |-> None]
  /\ tick = [k \in Runs |-> "none"]
  /\ actor = [x \in Actors |-> Idle]
  /\ runs = 0
  /\ work = [x \in Executors |-> Nobody]
  /\ row = [isUp |-> TRUE, countUp |-> 0, countDown |-> 0]
  /\ admin = "idle"
  /\ told = TRUE
  /\ mixed = FALSE
  /\ downs = 0
  /\ racing = FALSE /\ untold = FALSE
  /\ changes = 0 /\ checks = 0 /\ sets = 0 /\ faults = 0

-----------------------------------------------------------------------------
\* The cluster is switched on or off or deleted; its health checks are switched on or
\* off, as they are when it loses its last server; or their configuration is changed.
Change ==
  /\ changes < MaxChanges
  /\ changes' = changes + 1
  /\ \/ config' = [config EXCEPT !.clusterOn = ~@]
     \/ config' = [config EXCEPT !.checkOn = ~@]
     \/ config' = [config EXCEPT !.rev = @ + 1]
  /\ UNCHANGED <<taskVars, work, admin, nodeVars, checks, sets, faults>>

(***************************************************************************)
(* Starting, resetting and stopping the task.                              *)
(***************************************************************************)

Busy == {x \in Actors : actor[x] # Idle}

\* Actor x begins to work on the task with field pc.
Begin(x, a) ==
  /\ actor' = [actor EXCEPT ![x] = a]
  /\ mixed' = (mixed \/ \E y \in Busy : actor[y].task = a.task)

\* Mutant: Run starts its ticker without stopping the other.
RunAtOnce == "stopped"

\* Run begins by stopping the task.
RunBegins == "check"

startOnly == <<config, work, admin, nodeVars, bounds>>

ToBeChecked == config.clusterOn /\ config.checkOn

\* The cluster is to be checked and has no task: a new task runs.
LoopStarts ==
  LET r == runs + 1
  IN  /\ actor[Main] = Idle /\ ToBeChecked /\ task = None
      /\ r <= MaxRuns /\ runs' = r
      /\ task' = r
      /\ taskConfig' = [taskConfig EXCEPT ![r] = config.rev]
      /\ Begin(r, [Idle EXCEPT !.pc = RunBegins, !.task = r])
      /\ UNCHANGED <<startOnly, ticker, tick>>

\* Its configuration is not the task's: Reset runs.
LoopResets ==
  LET r == runs + 1
  IN  /\ actor[Main] = Idle /\ ToBeChecked /\ task # None
      /\ taskConfig[task] # config.rev
      /\ r <= MaxRuns /\ runs' = r
      /\ Begin(r, [Idle EXCEPT !.pc = "compare", !.task = task, !.config = config.rev])
      /\ UNCHANGED <<startOnly, task, taskConfig, ticker, tick>>

\* It is not to be checked: the loop itself stops the task.
LoopStops ==
  /\ actor[Main] = Idle /\ ~ToBeChecked /\ task # None
  /\ Begin(Main, [Idle EXCEPT !.pc = "check", !.task = task])
  /\ UNCHANGED <<startOnly, task, taskConfig, ticker, tick, runs>>

Move(x, l) == actor' = [actor EXCEPT ![x].pc = l]

\* Reset compares the configurations once more, and takes the new one.
Compare(r) ==
  LET a == actor[r]
  IN  /\ a.pc = "compare"
      /\ IF taskConfig[a.task] = a.config
         THEN actor' = [actor EXCEPT ![r] = Idle] /\ UNCHANGED taskConfig
         ELSE Move(r, RunBegins) /\ taskConfig' = [taskConfig EXCEPT ![a.task] = a.config]
      /\ UNCHANGED <<startOnly, task, ticker, tick, runs, mixed>>

\* Stop: a task without a ticker needs no stopping.
CheckTicker(x) ==
  /\ actor[x].pc = "check"
  /\ Move(x, IF ticker[actor[x].task] = None THEN "stopped" ELSE "read")
  /\ UNCHANGED <<startOnly, task, taskConfig, ticker, tick, runs, mixed>>

\* this.ticker.Stop() reads the field again; isDone tells that it has been stopped.
ReadTicker(x) ==
  LET k == ticker[actor[x].task]
  IN  /\ actor[x].pc = "read" /\ k # None
      /\ actor' = [actor EXCEPT ![x].pc = IF tick[k] = "done" THEN "clear" ELSE "send", ![x].ticker = k]
      /\ UNCHANGED <<startOnly, task, taskConfig, ticker, tick, runs, mixed>>

\* done <- true: the ticker's goroutine takes it when it waits, and not during a check.
StopTicker(x) ==
  LET k == actor[x].ticker
  IN  /\ actor[x].pc = "send" /\ tick[k] = "wait"
      /\ tick' = [tick EXCEPT ![k] = "done"]
      /\ Move(x, "clear")
      /\ UNCHANGED <<startOnly, task, taskConfig, ticker, runs, mixed>>

Cleared(t) == [ticker EXCEPT ![t] = None]

ClearTicker(x) ==
  /\ actor[x].pc = "clear"
  /\ ticker' = Cleared(actor[x].task)
  /\ Move(x, "stopped")
  /\ UNCHANGED <<startOnly, task, taskConfig, tick, runs, mixed>>

\* The main loop forgets a task it has stopped.
LoopForgets ==
  /\ actor[Main].pc = "stopped"
  /\ task' = None
  /\ actor' = [actor EXCEPT ![Main] = Idle]
  /\ UNCHANGED <<startOnly, taskConfig, ticker, tick, runs, mixed>>

\* Run returns without a ticker when the configuration has no interval.
RunReturns(r) ==
  /\ r # Main /\ actor[r].pc = "stopped"
  /\ actor' = [actor EXCEPT ![r] = Idle]
  /\ UNCHANGED <<startOnly, task, taskConfig, ticker, tick, runs, mixed>>

\* Otherwise it goes on: the ticker's goroutine starts ...
StartTicker(r) ==
  /\ r # Main /\ actor[r].pc = "stopped"
  /\ tick' = [tick EXCEPT ![r] = "wait"]
  /\ Move(r, "assign")
  /\ UNCHANGED <<startOnly, task, taskConfig, ticker, runs, mixed>>

\* ... before the task knows of it.
AssignTicker(r) ==
  /\ actor[r].pc = "assign"
  /\ ticker' = [ticker EXCEPT ![actor[r].task] = r]
  /\ actor' = [actor EXCEPT ![r] = Idle]
  /\ UNCHANGED <<startOnly, task, taskConfig, tick, runs, mixed>>

-----------------------------------------------------------------------------
(***************************************************************************)
(* A check.                                                                *)
(***************************************************************************)

\* The executor reads the cluster anew, whatever the task has; it does not ask whether
\* the health checks are still on.
Prepared == IF config.clusterOn THEN [a \in Addrs |-> [pc |-> "try"]] ELSE Nobody

\* Only the primary API node goes on to the executor.
StartCheck(k) ==
  /\ tick[k] = "wait"
  /\ checks < MaxChecks /\ checks' = checks + 1
  /\ tick' = [tick EXCEPT ![k] = "busy"]
  /\ \E w \in {Prepared, Nobody} : work' = [work EXCEPT ![k] = w]
  /\ UNCHANGED <<config, task, taskConfig, ticker, actor, runs, mixed, admin, nodeVars, changes, sets, faults>>

\* An administrator has the cluster checked at once (ExecuteNodeClusterHealthCheck).
CheckNow ==
  /\ work[Admin] = Nobody /\ config.clusterOn
  /\ checks < MaxChecks /\ checks' = checks + 1
  /\ work' = [work EXCEPT ![Admin] = Prepared]
  /\ UNCHANGED <<config, taskVars, admin, nodeVars, changes, sets, faults>>

\* Mutant: the goroutine returns after a check.
ResumedNot(k) == [tick EXCEPT ![k] = "none"]

\* The goroutine waits again, whether the check failed or not.
Resumed(k) == [tick EXCEPT ![k] = "wait"]

EndCheck(k) ==
  /\ tick[k] = "busy" /\ work[k] = Nobody
  /\ tick' = Resumed(k)
  /\ UNCHANGED <<config, task, taskConfig, ticker, actor, runs, mixed, work, admin, nodeVars, bounds>>

Work(x, a, w) == work' = [work EXCEPT ![x][a] = w]

counting == <<config, taskVars, admin, changes, checks, sets>>

\* Mutant: a result is always counted.
SameStateNever(ok) == FALSE

SameState(ok) == row.isUp = ok

\* The tries of an address are over; then the node's row is read, and a result that
\* changes nothing is not counted.
ReadRow(x, a) ==
  /\ work[x][a].pc = "try"
  /\ \E ok \in BOOLEAN :
       Work(x, a, IF SameState(ok) THEN [pc |-> "done"] ELSE [pc |-> "save", ok |-> ok, row |-> row])
  /\ UNCHANGED <<counting, nodeVars, faults>>

\* Mutant: one failed result takes the node down.
CountedAtOnce(r, ok) ==
  [isUp      |-> IF ok THEN r.countUp + 1 >= MaxUp \/ row.isUp ELSE FALSE,
   countUp   |-> IF ok THEN r.countUp + 1 ELSE 0,
   countDown |-> IF ok THEN 0 ELSE r.countDown + 1]

\* The row after a result, counted from row r: isUp is only written when it changes.
Counted(r, ok) ==
  [isUp      |-> IF ok THEN r.countUp + 1 >= MaxUp \/ row.isUp
                       ELSE r.countDown + 1 < MaxDown /\ row.isUp,
   countUp   |-> IF ok THEN r.countUp + 1 ELSE 0,
   countDown |-> IF ok THEN 0 ELSE r.countDown + 1]

\* Mutant: a node that comes back is not told to the DNS.
ChangedDownOnly(r, ok) == ~ok /\ r.countDown + 1 >= MaxDown

\* isUp has to change, as UpdateNodeUpCount sees it.
Changed(r, ok) == IF ok THEN r.countUp + 1 >= MaxUp ELSE r.countDown + 1 >= MaxDown

SaveRow(x, a) ==
  LET w == work[x][a]
  IN  /\ w.pc = "save"
      /\ row' = Counted(w.row, w.ok)
      /\ downs' = IF w.ok THEN (IF row'.isUp THEN 0 ELSE downs) ELSE downs + 1
      /\ racing' = (racing \/ row # w.row)
      /\ told' = (told /\ row'.isUp = row.isUp)
      /\ Work(x, a, IF Changed(w.row, w.ok) THEN [pc |-> "notify"] ELSE [pc |-> "done"])
      /\ UNCHANGED <<counting, untold, faults>>

\* NotifyDNSUpdate creates the DNS task, or fails.
CreateDNSTask ==
  \/ told' = TRUE /\ untold' = FALSE /\ UNCHANGED faults
  \/ /\ faults < MaxFaults /\ faults' = faults + 1
     /\ untold' = ~told
     /\ UNCHANGED told

\* An executor logs the failure and does not try again: the next result is that of a
\* node which has this state already.
Notify(x, a) ==
  /\ work[x][a].pc = "notify"
  /\ Work(x, a, [pc |-> "done"])
  /\ CreateDNSTask
  /\ UNCHANGED <<counting, row, downs, racing>>

\* UpdateNodeUp: the state is set and the counts start again.
SetUp ==
  /\ admin = "idle" /\ sets < MaxSets
  /\ sets' = sets + 1
  /\ \E up \in BOOLEAN : row' = [isUp |-> up, countUp |-> 0, countDown |-> 0]
  /\ downs' = 0
  /\ told' = FALSE
  /\ admin' = "notify"
  /\ UNCHANGED <<config, taskVars, work, racing, untold, changes, checks, faults>>

SetUpNotifies ==
  /\ admin = "notify"
  /\ admin' = "idle"
  /\ CreateDNSTask
  /\ UNCHANGED <<config, taskVars, work, row, downs, racing, changes, checks, sets>>

-----------------------------------------------------------------------------
\* The API node dies and starts again: only the rows are left.  It also dies when an
\* actor finds the ticker gone between the two reads of Stop, and dereferences nil.
Die ==
  /\ task' = None
  /\ taskConfig' = [t \in Runs |-> 0]
  /\ ticker' = [t \in Runs |-> None]
  /\ tick' = [k \in Runs |-> "none"]
  /\ actor' = [x \in Actors |-> Idle]
  /\ work' = [x \in Executors |-> Nobody]
  /\ admin' = "idle"
  /\ mixed' = FALSE
  /\ untold' = ~told
  /\ UNCHANGED <<config, runs, row, told, downs, racing, changes, checks, sets>>

Crash ==
  /\ faults < MaxFaults /\ faults' = faults + 1
  /\ Die

Panic(x) ==
  /\ actor[x].pc = "read" /\ ticker[actor[x].task] = None
  /\ Die
  /\ UNCHANGED faults

ActorStep(x) == CheckTicker(x) \/ ReadTicker(x) \/ StopTicker(x) \/ ClearTicker(x) \/ Panic(x)

RunStep(r) == Compare(r) \/ ActorStep(r) \/ RunReturns(r) \/ StartTicker(r) \/ AssignTicker(r)

CheckStep(x) == \E a \in Addrs : ReadRow(x, a) \/ SaveRow(x, a) \/ Notify(x, a)

Next ==
  \/ Change
  \/ LoopStarts \/ LoopResets \/ LoopStops \/ LoopForgets \/ ActorStep(Main)
  \/ \E r \in Runs : RunStep(r) \/ StartCheck(r) \/ EndCheck(r)
  \/ \E x \in Executors : CheckStep(x)
  \/ CheckNow \/ SetUp \/ SetUpNotifies \/ Crash

Spec == Init /\ [][Next]_vars

\* Goroutines go on, and tries of an address end (each has its own time limit).
FairSpec ==
  /\ Spec
  /\ WF_vars(LoopForgets) /\ WF_vars(ActorStep(Main))
  /\ \A r \in Runs : WF_vars(RunStep(r)) /\ WF_vars(EndCheck(r))
  /\ \A x \in Executors : WF_vars(CheckStep(x))

-----------------------------------------------------------------------------
TypeOK ==
  /\ config \in [clusterOn : BOOLEAN, checkOn : BOOLEAN, rev : Nat]
  /\ task \in Runs \cup {None} /\ runs \in 0..MaxRuns
  /\ taskConfig \in [Runs -> Nat]
  /\ ticker \in [Runs -> Runs \cup {None}]
  /\ tick \in [Runs -> {"none", "wait", "busy", "done"}]
  /\ \A x \in Actors :
       actor[x].pc \in {"idle", "compare", "check", "read", "send", "clear", "stopped", "assign"}
  /\ \A x \in Executors, a \in Addrs : work[x][a].pc \in {"try", "save", "notify", "done"}
  /\ row \in [isUp : BOOLEAN, countUp : 0..MaxUp, countDown : 0..MaxDown]

Live == {k \in Runs : tick[k] \in {"wait", "busy"}}

\* As long as no two actors have been at work on the task at once, the cluster has
\* one ticker at most, and it is the one the task would stop.
OneTicker ==
  ~mixed => \A k \in Live :
    /\ \A j \in Live : j = k
    /\ task # None /\ (ticker[task] = k \/ actor[k].pc = "assign")

\* Stopping a task ends, the check it waits for included; it is only when a second
\* actor stops the same ticker that one waits for ever (the main loop, at worst, for
\* all clusters).
StopEnds == (actor[Main] # Idle) ~> (actor[Main] = Idle \/ mixed)

\* A check takes the node down only after as many failed results as the configuration
\* asks for, since the node was last up or set by hand, unless a result was counted on
\* top of a row that another had changed.  They need not be in a row: a good result of
\* a node that is up does not start the count again (UpdateNodeUpCount).
DownEarned == [][row.isUp /\ ~row'.isUp /\ sets' = sets => racing' \/ downs' >= MaxDown]_vars

\* The DNS records follow the node: the task for a change of isUp has been created, or
\* somebody is about to create it, unless it failed or the API node died.
DNSTold ==
  \/ told \/ untold
  \/ admin = "notify"
  \/ \E x \in Executors, a \in Addrs : work[x][a].pc = "notify"
===============================================================================
