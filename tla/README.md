# A verification project for EdgeAPI

EdgeAPI is the control plane of a CDN: several API nodes share one MySQL
database, administrators and users change the configuration through them, and
the edge nodes ask them for work and report back. Nearly all of its difficult
behaviour lies in *tasks*: rows of a table that one party writes, another one
works on and marks, with no transaction around the statements and any number of
API nodes running them at once. This project models those tables and the code
around them in TLA+, checks the models with TLC and proves their safety
properties with TLAPS.

All paths below are under `src/internal/`.

## Inventory

| Component | State | Operations | Hard parts | What makes it correct | Module |
|---|---|---|---|---|---|
| Version source: `db/models/sys_locker_dao.go`, `sys_locker_increment.go` | one row per key in `edgeSysLockers`; a cache of versions in every API node | `Increase`, `Lock`, `Unlock`, `Read` | row lock against cache lock, transactions that fail, processes that die | no version twice; versions grow | `SysLocker`, `SysLockerProofs` |
| Node tasks: `db/models/node_task_dao.go`, `tasks/node_task_extractor.go`, `rpc/services/service_node_task.go` | `edgeNodeTasks`: rows of clusters and rows of nodes | create, extract, fetch, report, delete | extraction in many statements, late versions, lost answers | every change reaches every node | `NodeTask`, `NodeTaskProofs` |
| DNS tasks: `db/models/dns/dns_task_dao.go`, `tasks/dns_task_executor.go` | `edgeDNSTasks`, the copy of a domain's records in `edgeDNSDomains` | create, execute, mark done or failed | new changes during execution, calls that fail half way, stale copy | the provider's records follow the configuration | `DNSTask`, `DNSTaskProofs` |
| HTTP cache tasks: `db/models/http_cache_task_dao.go`, `http_cache_task_key_dao.go` and their two services | `edgeHTTPCacheTasks`, `edgeHTTPCacheTaskKeys` | create, reset, delete, fetch, report | concurrent reports, reset against report, nodes turned off | done means done everywhere; all keys done means done | `HTTPCacheTask`, `HTTPCacheTaskProofs` |
| Goroutine register: `goman/lib.go` | `instanceMap`, `instanceId` | `New`, `NewWithArgs`, `List` | one shared id | lists what runs | `Goman` |
| Node stream: `rpc/services/service_node_stream.go` | a channel per node, a waiting entry per command, the primary node, `isActive` of a node | `NodeStream`, `SendCommandToNode`, `nextNodeRequestId`, the cleaner | answer before registration, reconnection, time limit against answer and cleaner | an answer reaches its caller; the lock is released; the primary node is connected | `NodeStream`, with `Goman` inside, `NodeStreamProofs` |
| Health checks: `tasks/health_check_*.go`, `utils/ticker.go`, `UpdateNodeUpCount` of `db/models/node_dao.go` | a task per cluster with its ticker, counts and `isUp` of a node | `Loop`, `Run`, `Stop`, `Reset`, `Execute`, `UpdateNodeUp` | two stops at once, stop against a running check, results counted at the same time | one ticker per cluster, a stop that ends, a node down only for a reason, which the DNS is told | `HealthCheck`, `HealthCheckProofs` |
| IP lists: `db/models/ip_item_dao.go`, `ip_list_dao.go`, `rpc/services/service_ip_item.go`, `service_ip_list.go` | `edgeIPItems`, `edgeIPLists`, a cache of lists in every API node | create, update, disable, sweep, clean; nodes fetch by version | versions taken before rows are written, rows deleted early, a cache that is never told | a node that has passed a version has what the rows say | `IPList` on `VersionSource`, `IPListProofs` |
| TTL cache: `utils/ttlcache`, `utils/expires`, as `FindEnabledNodeIdWithUniqueId` uses it | a map and an expiry list with a lock each | `Write`, `Read`, `Delete`, `GC` | the two locks; writes, deletes and collection at once; the clock | no item without an entry; a deleted node is forgotten in time | `TTLCache`, `TTLCacheProofs` |
| Primary API node: `db/models/api_node_dao.go`, `tasks/event_looper.go` | `isPrimary` of `edgeAPINodes`, `edgeSysEvents` | `CheckAPINodeIsPrimary`, `ResetPrimaryAPINode`, `Loop` | check and set in separate statements | at most one primary once one is set | not modelled |
| Installation: `installers/` | the status row of a node, the limiter | install, upgrade, `CanUpgrade` | a ticker that shares the status | the last status written is the final one | not modelled |
| The rest: RPC services over plain rows, cached responses, certificates and ACME, access logs, statistics, monitors, DNS clients, set-up, utilities | rows | one call each | | | not modelled |

How they interact. The services that change configuration call `NotifyUpdate`
and `NotifyDNSUpdate` of the DAO they change, which write rows of
`edgeNodeTasks` and `edgeDNSTasks`: the `Change...` actions. `NodeTaskDAO` takes
its versions from `SysLockerDAO.Increase`. The extractor and the DNS executor
are goroutines with a ticker that run on the primary API node only. A health check
that takes a node down or up calls `NotifyDNSUpdate`, which is where `HealthCheck`
ends and `DNSTask` begins. `IPItemDAO` takes a version from
`SysLockerDAO.Increase` for every row it writes. Edge nodes call `FindNodeTasks` and `ReportNodeTaskDone`, and `FindDoingHTTPCacheTaskKeys`
and `UpdateHTTPCacheTaskKeysStatus`, and `ListIPItemsAfterVersion`, on any API node,
after `FindEnabledNodeIdWithUniqueId` has said which node is calling. Everything else
they share is the database.

`PROJECT.json` lists the hazards of this code line by line, with the properties
that would catch them, and the lines every definition stands for.

## What is modelled

Common conventions. One statement of the database is one step; what a call keeps
in local variables between two statements is in its record (`call`, `executor`,
`extractor`, `report`, `creator`), whose field `pc` says how far it is. Variables
that are marked *history* are written only, never read by a guard of the code's
steps: they say what has been lost and why. Every bound is a constant whose name
starts with `Max`. A `Mutant` operator is a plausible bug of the operator after
it and is used by nothing.

### SysLocker: the version source

One key of the table. `db` is the committed column, `owner` and `pending` are the
transaction that holds its row lock, `increment[a]` is the cache of API node `a`.
`ReadVersion`, `CheckCache`, `PopCache` and `Return` are the call without a
transaction (`sys_locker_dao.go:129-146`), split where another goroutine can
come between; `LockRow`, `PushRange`, `Commit` the call inside one, with
`CallAgainInTx` for a caller that takes several versions in one transaction.
`combined` says which API nodes have a connection that accepts two statements at
once; the others take the fallback after error 1064, which adds one and leaves
the cache alone. `Abort` rolls a transaction back at any point; `Crash` ends an
API node, its cache and its open transaction. InnoDB is the part that is taken
as given: one holder of the row lock until its transaction ends.

### VersionSource: what a version is worth

The promise of `Increase` without rows, locks and caches: `issued[a]` is what API node
`a` has handed out, `floor[p]` what the running call of `p` has to exceed. A call
begins above everything its own API node has handed out, ends with versions nobody
has, or comes to nothing. `SysLocker` implements it (`ImplementsSource`): `floor` is the
largest of the versions a call has to come after (`Floor`), and the steps on the row, its lock and the caches
are stuttering. `IPList` is built on it rather than on `SysLocker`, so it has the disorder
real versions have (two calls at the same time, or of two API nodes, may get
versions in either order) and none of its machinery.

### NodeTask: configuration changes on their way to the nodes

One cluster and the role `node`. `config[n][k]` counts the changes of what key `k`
(type, server, user) stands for at node `n`; `applied` is what the node works
with. `ChangeCluster` writes the cluster's row; `ChangeNode` and `WriteNodeTask`
are the two statements of `CreateNodeTask`. `ListClusterTasks`, `StartKey`,
`TakeVersion`, `WriteExtracted`, `DeleteClusterTasks` are
`ExtractAllClusterTasks` statement by statement, and `ExtractorFails` stops it
anywhere. The node's side is external: it fetches what `FindDoingNodeTasks`
returns for its version, works through the list in order, reports each task,
and moves its version up when the answer comes (`AnswerLost`: it does not come).
`NodeRestarts` is a node that starts anew with the whole configuration and asks
with version 0, the case `FindDoingNodeTasks` has its second branch for.
A change and the cluster's row it writes are one step; for a change of one node
the two statements of `CreateNodeTask` are apart, with failures between
(`CreatorFails`).
A key is what `uniqueId` is made of (`KeysAssumption`): no two keys have the same type, server and user.
Versions come from one counter here. `SysLocker` shows that they are never
handed out twice; that versions of two API nodes are not in the order of time is
left out, and would add further cases to the late rows that are modelled.

### DNSTask: records at the provider

One cluster, one domain. `wanted` is what the configuration says, `remote` what
the provider has, `cache` the copy in `edgeDNSDomains`. `CreateDNSTask` writes a row
per unique key with a new version; `List` is `FindAllDoingTasks`, `NextTask` the
loop over its result, which is kept as a set of keys with their versions and worked off in ascending
order of these. `DoNode`, `DoCluster`, `DoServer`, `DoDomain` begin the
handlers; `AddRecord`, `DeleteRecord` are single calls of the provider, `Applied` the
end of a part, `Tell` the task that makes the copy be read again, `CheckVersion`
and `SaveDone` the two statements of `UpdateDNSTaskDone`. `TaskFails` is any failing
call inside a handler, `MarkFails` one in marking the row done (only logged),
`ExecutorStops` one in marking it failed, or a process that dies. A handler reads
what a part of the records should be in one step, where the code reads nodes and
then each node's addresses. A change and the row `NotifyDNSUpdate` writes for it are one
step (`Change`), or the row is never written (`NotifyFails`); a round of the executor that comes
between the two would only find nothing left to do when the row appears.

### HTTPCacheTask: purging on every node

One task with its keys, and one round of each node at a time: `Fetch`, `Work`,
then `ReadNodes` once per cluster, and for each key `SetNode`, `CheckKey`,
`SetKeyDone`, `CheckTask`, `CheckErrors`, `UpdateTaskStatus`, a statement each.
A node is given its keys whether it is on or off (`FindDoingTaskKeys` does not look); only `ReadNodes` asks
for nodes that are on.
Creation writes the task, its keys and `isReady` in separate statements; a reset
is two. Calls, creations and resets may stop half way, nodes may be switched.
A fetch returns all keys of the node; the limit of 100 (`service_http_cache_task_key.go:120`)
would only make more rounds of it.

### NodeStream and Goman: commands to the nodes

One API node. `Enter` to `RegisterChan` are the beginning of the handler
`NodeStream` (`OpenFails` a statement of it that fails; `UpdateNodeActive` is followed by
`CreateNodeMessage` if the node had been reported as inactive), `Receive` its loop, `DeleteChan` to `SetInactive` its deferred calls in the
order Go runs them; `FindChan`, `Push`, `Wait`, `TakeAnswer` or `Timeout`, and `Forget`
are `SendCommandToNode`; `CleanWaiting` is the goroutine of `init`. A
section under `nodeLocker` is one step. A channel of Go is a bounded sequence
that is open or closed, named after the stream or call that made it, so that an
old stream and a new one of the same node may share one. A send into a closed channel panics,
which `Receive` survives without unlocking: `stuck`. Of the node only this is known: it
answers a command or not, in any order, and its stream may break at any
time. The sender of a stream is a goroutine of `goman.New`: `Goman` has the three steps of
such a goroutine (the call, and the two sections under its mutex) and is
instantiated here, so that the id that `New` removes at the end is checked against the
senders that run. `UpdateNodeStatus`, called by a node with or without a stream, sets `isActive`
again (`ReportStatus`).

### HealthCheck: nodes that go down and up

One cluster, one of its nodes, one API node. `config` is the cluster's row: whether the cluster is on, whether
its health checks are, and a revision of how they are done. The main loop asks for both
(`ToBeChecked`), a check under way only for the cluster (`Prepared`). `LoopStarts`,
`LoopResets`, `LoopStops` and `LoopForgets` are the cases of `HealthCheckTask.Loop`, and
every run or reset is a goroutine (`actor`) that goes through `Reset`, `Stop` and `Run` one access of
a field at a time, since nothing protects them: `CheckTicker`, `ReadTicker`, `StopTicker`, `ClearTicker` are
`Stop`, and `Ticker.Stop` inside it is the send on an unbuffered channel that
the goroutine in `Wait` takes when it is not at work. `Panic` is the nil pointer that
`Stop` meets when another actor clears the field between its two reads; `RunReturns` is `Run` when what it reads
of the configuration needs no ticker. `StartCheck`, `CheckNow` are
`HealthCheckExecutor.Run` from the ticker (which checks nothing while this API node is not the primary) and from
an administrator; each address then goes
through `ReadRow`, `SaveRow` and `Notify`, the statements of
`UpdateNodeUpCount` and the call of `NotifyDNSUpdate` in it. `SetUp` is the administrator's
`UpdateNodeUp`. `countDown` counts failed results that need not be in a row: a good result of a
node that is up is not counted, so it resets nothing, although `node_model.go:15` speaks of
consecutive times. `DownEarned` claims no more than the code does.

### IPList: black and white lists on the nodes

One list and its items. A call lists the items it is to disable or update once
(`Start...`), then takes a version (`IncreaseVersion`, `GetVersion`) and writes the row
(`WriteItem`) for each; creation disables the old items of the address first and then inserts
(`InsertItem`); deleting a list sweeps it until nothing is left (`List`); the clean-up
deletes disabled rows that were inserted a week ago, then disables what has expired. An API node that dies
leaves such a call where it is. A node asks for rows above its version: the API node reads the items (`FetchItems`),
looks for the list in its cache (`FindCached`) and then in the table (`FindList`), keeps it in the cache
and answers (`Answer`; the cache is read by such calls of that API node only), and the node works with the
answer, or drops the list when it is told so (`DropList`).
A week passes only while no call is under way. Whether a disabled item has expired is not kept: nobody asks.

### TTLCache: ids of nodes

One piece of the cache and its list, used as `FindEnabledNodeIdWithUniqueId` does: `Hit` and
`Miss`, `ReadRow` and `ReadCluster`, the rows of the node and of its cluster, `Expire`, then `Put` and
`AddEntry`, the two halves of `Piece.Add` under different locks. Items are compared with
`utils.UnixTime`, which is brought up to date five times a second and may still show the second before. `DisableNode` removes the entry, then the item (`Delete`), then disables the
row (`DisableRow`); a cluster that is turned off tells the cache nothing (`TurnOff`). `StartGC`, `TakeEntries`,
`DropItems` and `EndGC` are `Piece.GC` second by second. The clock goes on, and may be set back
(`SetBack`). Pieces are collected one after another and share nothing, so there is one here.

## What is checked

| Run | Bounds | Shows |
|---|---|---|
| `SysLocker` | 2 API nodes, 3 goroutines, step 3, versions up to 6, no failing commit after publishing | `Unique`, `Increasing`, that `VersionSource` is implemented, and `IInv`, the invariant the proof rests on |
| `SysLockerAborts` | the same with one such failure | `NeverTwice` is violated (finding) |
| `NodeTask` | 1 node, 5 keys, 2 changes, 1 each of failed task, lost answer, fault | `NoOtherLoss`, `Delivered` |
| `NodeTaskLoss` | 1 node, 2 keys of one type, no failure of any kind | `NothingLost` is violated (finding) |
| `DNSTask` | 1 node, 1 site, 2 changes, 3 failing calls, 1 stop, 2 tries | `NothingForgotten`, `CacheKnown`, `Settles` |
| `DNSTaskRace` | 1 node, no failure | `NewTaskKept` is violated (finding) |
| `HTTPCacheTask` | 2 nodes, 2 keys in 2 clusters, 1 error, 2 troubles | `DoneEverywhere`, `OkMeansNoError`, `Finishes` |
| `HTTPCacheTaskRace` | 2 nodes with a key each, no trouble | `KeysDoneTaskDone` is violated (finding) |
| `NodeStream` | 2 nodes, 2 streams, 2 calls to one node, channels of one command, 1 failing statement, one node that reports its status | `Connected`, `PrimaryConnected`, `AnswerKept`, `NeverStuck`, `OwnAnswer`, and `EnoughListed` of the senders in `Goman` |
| `HealthCheck` | 1 address, up after 1 result and down after 2, 2 runs, 2 changes, 2 checks, 1 setting by hand, 1 fault | `OneTicker`, `StopEnds`, `DownEarned`, `DNSTold` |
| `IPList` | 2 API nodes, 1 node, 1 address, 2 items, 3 calls, pages of one item, 1 crash, after which only 2 calls in all | `NoOtherMiss`, `NoOtherLive` |
| `TTLCache` | 1 key, 2 lookups at once and 3 in all, TTL of 1 second, clock up to 4, set back once | `NoLeak`, `StaleBounded` |

Why the bounds are enough. *SysLocker*: a range of three versions (the code's is
eight) has a first, a middle and a last one; two ranges let the row move under a
cached one; the third goroutine lets one node have a full cache, a second caller
in the middle of a call, and another node that moves the row. The proof below
removes the bounds. *NodeTask*: the keys are two sites of one type, two users of
one type, and a type whose rows are deleted when done; two changes are the
least that lets a change come during the work on another, and every sort of
failure happens once. *DNSTask*: a node goes through three rows, a site
through one and the copy of the records; two tries (the code's are three) and
three failures let a row be given up and another one fail. *HTTPCacheTask*: one
cluster has both nodes and one has one, so that a key waits for the other node
or does not; two nodes are enough for every race of reports found. Two troubles let a
reset meet a call that stops, or a node be turned off and on again. *NodeStream*: two streams are a node
that reconnects while its old stream ends, or two nodes that share the role of the primary;
two calls to one node let an answer of one meet the entry of the other, and a channel of one command fills; the reports of a status, which meet
the streams of that node only, come from one node (the proof has no such bound). *HealthCheck*: a run and a reset,
or two runs after a stop in between, are the pairs of actors that can meet in a task; the check of a ticker and the one
of an administrator are two results on one row. Two checks are all there are, so a run with `countDown` of two has no
result to spare. *IPList*: the second item is the one that
replaces the first, or is behind it by a page; three calls let a list be created, deleted and cleaned, or two calls overlap a
third; an API node may die during any of the three, and a call that begins after it finds what a call that is slow
would leave, too, but for the cache. *TTLCache*: with a TTL of one second the whole life of an item, from writing to
collection, happens twice before the clock ends; two lookups of one key meet in each half of `Add`.

The findings. Each run with a violation is a behaviour the code has and one
of its own comments or tests denies: a cached range that outlives the rollback
of its allocation; a cluster task deleted without being broken down; a change
marked done with the one before it; a finished cache task put back to unfinished for
ever.

Known cases. The passing runs are stated with the steps that are known to lose something named in a
history variable, and show that nothing goes wrong in any other way:

- `dropped`, `lost`, `upset`, `aborts`: the four findings, and what else these modules name in the comments on them.
- `NodeStream`. `mixed`: while two streams of one node overlap, the end of the older takes the channel of the
  newer out of the map and sets the node inactive. `early`: an answer that comes between `Push` and `Wait` is
  dropped, and the call runs into its time limit.
- `Goman` may list a goroutine that has ended, or drop one that runs for one that has ended: the id removed is the one
  given last. `EnoughListed` says that the count never falls below the number of senders.
- `HealthCheck`. `mixed`: `Run`, `Reset` or the loop work on one task at the same time; then a stop may wait for ever, a ticker be
  forgotten, or the process die of a nil pointer. `racing`: two results counted on one old row. `untold`: a failed
  `NotifyDNSUpdate` is not tried again, since the next result finds the row unchanged.
- `IPList`. `late`: a row written with a version that a node has already passed, because another call took its version later
  and wrote first. `purged`: a row that is disabled a week after it was inserted is deleted by the next clean-up, before
  a node may have seen it disabled. `knewOn`: the cached row of a list is never given up, so an API node that has read the list goes on
  sending its items as live.
- `DNSTask`. `lost` also has the changes whose `NotifyDNSUpdate` failed after they were saved (`node_dao.go:890-899`):
  nothing else tells the executor of them.
- `TTLCache`. `late`: an entry put behind the collector, by a lookup stopped for longer than the TTL or after the clock
  was set back, is never collected. `overtaken`: a lookup that has read the node's row or its cluster's before it
  changed writes the id back afterwards.

Fairness. `Delivered`, `Settles` and `Finishes` assume weak fairness of the steps of
the extractor, of the executor, of creations under way and of every node's round.
The first two are loops over a ticker (`node_task_extractor.go:33-40`,
`dns_task_executor.go:42-55`) that go on after an error; a Go call that has
started goes on unless its process dies, which is an action of its own; and
nodes keep asking, which is how both services are used. In `HTTPCacheTask` the fairness of a
node is of its whole round, fetch or step of the call, and one of the two is always possible.
`StopEnds` assumes that goroutines of the health checks go on and that the tries of an address end, since each has
a time limit; it assumes nothing of the main loop's timer. It also rests on the number of checks being bounded: Go's `select` in `Wait`
chooses at random between a tick and the stop, so a stop is not put off for ever, which weak fairness would not say. Nothing is assumed of
changes, failures, crashes or administrators, all of which are bounded.

`CHECK_DEADLOCK FALSE` is set because the systems come to rest: when all changes
are made and all bounds used up there is nothing left to do.

## What is proved

Every safety and action property that a passing run checks is a theorem for all values of the
constants, and so is the refinement of `VersionSource`. The bounds of the runs are gone: any number of API
nodes, goroutines, nodes, keys, changes, failures and crashes. What is left as an assumption is what the modules say
of their constants (`ASSUME`), which TLC evaluates for the instances. Each module has an inductive
invariant, stronger than the properties and tried on TLC's instances first, lemmas for the
actions, and the theorems at its end (those of `SysLocker` where they are reached).

| Module | Theorem | States |
|---|---|---|
| `SysLockerProofs` | `TypeCorrect`, `LockInvariant`, `UniqueVersions`, `IncreasingVersions` | `[]TypeOK`, `[]IInv`, `[]Unique`, `[]Increasing` |
| | `ImplementsVersionSource`, `WithoutFailures` | `Spec /\ [](aborts = 0) => ImplementsSource`; `Spec => ImplementsSource` if `MaxAborts = 0` |
| `NodeStreamProofs` | `TypeCorrect`, `LockReleased`, `OwnAnswers`, `AnswersKept` | `[]TypeOK`, `[]NeverStuck`, `[]OwnAnswer`, `[]AnswerKept` |
| | `StreamsConnected`, `PrimaryHandsOver`, `SendersListed` | `[]Connected`, `[]PrimaryConnected`, `[]EnoughListed` |
| `NodeTaskProofs` | `TypeCorrect`, `NothingElseLost` | `[]TypeOK`, `[]NoOtherLoss` |
| `DNSTaskProofs` | `TypeCorrect`, `NothingIsForgotten`, `CacheIsKnown` | `[]TypeOK`, `[]NothingForgotten`, `[]CacheKnown` |
| `HTTPCacheTaskProofs` | `TypeCorrect`, `DoneIsDone`, `OkIsOk` | `[]TypeOK`, `[]DoneEverywhere`, `[]OkMeansNoError` |
| `HealthCheckProofs` | `TypeCorrect`, `TickerIsOne`, `ChangesAreTold`, `DownIsEarned` | `[]TypeOK`, `[]OneTicker`, `[]DNSTold`, `DownEarned` |
| `IPListProofs` | `TypeCorrect`, `NothingElseMissed`, `NoOtherItemLives` | `[]TypeOK`, `[]NoOtherMiss`, `[]NoOtherLive` |
| `TTLCacheProofs` | `TypeCorrect`, `NothingLeaks`, `NothingStale` | `[]TypeOK`, `[]NoLeak`, `StaleBounded` |

*Version source.* `Unique` speaks of what has been handed out only, so it is not inductive. The
invariant is `IInv == TypeOK /\ RowLocked /\ (aborts = 0 => Allocated)`.
`RowLocked` says that whoever holds versions of an open transaction owns the row
lock, and what it knows of the row. `Allocated` says that every version that
has left the row lies below it (`BelowRow`), and is in one place only (`InOnePlace`):
handed out, in one cache, or in the hand of one goroutine. A step moves a
version from one place to another; a new range lies above everything that is
out because of the row lock. `BelowRow` distinguishes the time before and after the
holder has published: before, everything but its own hand lies below the
*committed* row, which is what makes a rollback harmless; after, only below
the pending one, which is why the guard `aborts = 0` cannot be dropped (the run
`SysLockerAborts`).

`Increasing` needs the order of the places as well (`OInv`, on top of `IInv`): what is left in a cache is
above all its API node has taken from it (`CacheAbove`), is the end of a range up to `maxValue`
(`RangeEnds`), `maxValue` lies below the row as versions do (`MaxBelow`), and what a call has to come
after is, at each of its steps, handed out by its own node or covered by the version that will be compared with
`maxValue` (`Known`). `Known` is why the code reads the committed version before it looks into the cache. For the
refinement every action is mapped: `Commit` and `Return` hand out, starts of calls begin one with the largest version
they have to come after as floor, rollbacks and crashes fail calls, and the rest stutters. That an outstanding
floor is exceeded is `Known` again.

*Node stream.* The inductive invariant has three independent parts. `CallInv` follows a command: ids are given once
(`Ids`), what is queued, on its way or at work belongs to a call that has pushed it and has that
call's id and no other's (`Messages`), an entry of the waiting map and the open channel of its call go
together (`Entries`), and what is in a call's channel is its own answer (`Answers`). `NeverStuck` needs `Entries`:
an answer is sent to the channels of the entries only, and whoever takes an entry away closes its channel under the
same lock. `StreamInv` follows the streams: of two streams of a node that are open both are in `mixed` (`Alone`), and
a channel in the map, the column `isActive` and the role of primary node each have a stream whose deferred
calls have not yet come to them (`ChanServed`, `ChanOwned`, `ActiveSet`, `PrimaryServed`). `Counted` says that the ids of the
register are below its counter, so a new id is always new; the cardinalities are those of finite sets in the
library.

*Node tasks.* `NoOtherLoss` is not inductive: a change may be held only by a task that a node has fetched, and nothing
in it says that the node's report of an older version of the same row does not end it. The invariant says
where the change is *in the tables* (`Way`): in a row the node will ask for and has not handled (`RowWay`), with the extractor
or a creator at work, or in a row of the cluster that is still to be listed. What a node has fetched is not needed. That a report
marks the row it read and no newer one rests on versions: rows are known by node and key, by id and by version
(`RowsInv`), what a node holds is a row as it was (`InboxInv`), it reports the oldest task and has reached a version that
was handed out (`ReportsInv`), and a version that is taken but not written is in nobody else's hand, in no row and at no node
(`VersionsInv`).

*DNS tasks.* While a row is worked on it may differ from the provider, so the invariant follows the executor's round
(`WorkInv`): what it wants of a record is what is configured, and what it is done with is in line, *unless* another row that
serves the record, or this row with a later version, is open (`Newer`). That a row marked done has nothing newer is what `CheckVersion`
reads; between it and `SaveDone` the change goes to `lost` (the run `DNSTaskRace`). Types include that a listed row has not
used up its tries, which needs at least one (`MaxRetries > 0`), and that the rows of a round have versions and keys of their own.

*HTTP cache tasks.* The invariant is `Types /\ (Calm => Known)`: in the absence of resets and switched nodes, each step of a report
knows something that stays true until it acts on it: keys not reported yet, the nodes a cluster needs, that the whole
cluster has reported a key, that all keys are done, or that none has errors. Stated for *every* node's report at the same time, it is what makes
reports that overtake one another harmless.

*Health checks.* `TickerInv` holds whatever actors do at once; as long as there has been only one at a time (`Alone`), what it has
read of the task and the ticker still holds at its next step. `CountInv` says that neither the row nor any row a result is being counted on has
reached the count at which its state would have changed, and that `countDown` is covered by failed results as long as no result was
counted on an old row.

*IP lists.* `NoOtherMiss` speaks of the versions a node has reached; an answer under way will move it further. `SeenInv` adds what is
coming: the answer has, up to its version, every row the node misses, as the row still is (`Coming`), since a page is a lower
end of the rows above the node's version (`PageIsLowest`, which with the lemmas about least and greatest numbers and cardinalities carries the
page size). A row rewritten meanwhile has a version the answer does not reach, or is noted in `late`. For `NoOtherLive`,
who knows a list as on either had it before it was deleted, or it is still on; who knows it as deleted is right (`DeletedInv`). Nothing
about versions but their being numbers is used: neither theorem needs them unique or in order. `CallsInv` has the room for the items being
created, so that an id is always there.

*TTL cache.* `NoLeak` needs that no entry lies before the earliest second the list has had (`NothingEarlier`), over which the collector jumps, and what the
collector holds between the list and the piece. `StaleBounded` needs that no item, and none on its way,
lives longer than `TTL` from now, and that of a node that is gone no longer than `TTL` from then; the second `UnixTime`
may be late by comes on top.

Assumptions changed by the proofs, since TLC's instances had hidden that they are needed: `MaxTime` is positive and `MaxCalls`, `MaxBack` are numbers in
`TTLCache`, `MaxRetries` is positive in `DNSTask` (the code has 3), and keys are told apart by what `uniqueId` is made of in
`NodeTask` (`node_task_dao.go:76-81`, `:123-128`).

Only model-checked: the liveness properties `Delivered`, `Settles`, `Finishes` and `StopEnds`, since liveness under fairness and
`ENABLED` are beyond the prover, and the four findings, which are counterexamples. Induction over data is beyond it, too; least and greatest elements of finite sets
come from the library's theorems on well-founded relations and cardinalities instead. No module declares a `RECURSIVE` operator.

## What is not modelled, and why

- `SysLockerDAO.Lock`, `Unlock` and `Read`: a lock with a time limit in two statements, which its callers use to run a task
  about once; nothing that is modelled depends on it.
- Health checks: how an address is tried, the thresholds of the commercial build (`UpdateAddressHealthCount`), and clusters with
  `autoDown` off, which only send messages.
- IP lists: grey and global lists, rights and reading for the console, `CreateIPItems`, which repeats `CreateIPItem`.
- TTL cache: `IncreaseInt64`, `Clean`, `Destroy` and `expires.Manager`, which nothing calls or registers with; the fifth of a second
  in which `utils.UnixTime` still shows the time before the clock was set back; the hour the first collection starts back from.
- `ExtractNSClusterTask` and the role `dns` in the node tasks (the same shape with
  another list of nodes); the deletes of all rows of a cluster or a node, which go with
  the cluster or node itself; `isNotified`, which only stops a message from being sent twice.
- `doClusterRemove`, moving a site to another cluster, `SyncDNSDomainData`: they
  work on a second domain or by an administrator's hand.
- Quotas, listing, statistics and clean-ups of the cache tasks. Two calls of
  `DisableHTTPCacheTask(tx, taskUserId)` (`service_http_cache_task.go:246`, `:330`) pass a
  user's id where the task's is meant; the model has the call of `DeleteHTTPCacheTask`.
- MySQL beyond its row lock and atomic statements, gRPC, the edge nodes' own program.
- The components marked so in the inventory. By lines they are most of the repository: hundreds of RPC services and
  DAOs that read or write a row of configuration in one call, clients of DNS providers and of ACME, statistics that the database
  adds up, set-up and migrations. They are sequential, and have no state between calls but the table: a model of one
  would repeat its statements and could only say what they say. Where such a call sets off
  something that takes time, it is an action of the modules here. The choice of the primary API node is a
  window one statement wide; what relies on it is modelled as running once. The installers are SSH sessions around one row.

## Plan

In this order; modules marked * exist.

1. `SysLocker`*, `VersionSource`* and `SysLockerProofs`*: every safety property and the refinement are theorems.
2. `NodeStream`*, with `Goman`* inside, and `NodeStreamProofs`*: every safety property is a theorem. Next: a call as
   one abstract step, asked and answered or failed, that `NodeStream` implements.
3. `NodeTask`*, `DNSTask`*, `HTTPCacheTask`*, `HealthCheck`*, `IPList`*, `TTLCache`* with a module of proofs each*: the
   same. Next: abstract specifications of a task (a change is pending until it is applied, or dropped in a known case) for the node
   tasks and of a purge for the HTTP cache tasks, with refinement proofs on top of the invariants.
4. `IPList` on `SysLocker` itself: the composition that `ImplementsVersionSource` promises, with
   versions of one transaction.
5. `Primary`: the primary API node, composed with `NodeTask`'s extractor run by two nodes
   at the same time. `SysLock`: `Lock` and `Unlock`.
