# TLA+ models of the 6.5840 labs

This directory models the parts of the repository that have behaviour: MapReduce
(`src/src/mr`), the versioned key/value service and the lock built on it
(`src/src/kvsrv1`), the shard configurations (`src/src/shardkv1/shardcfg`), the machinery
the tests run servers with (`src/src/labrpc`, `src/src/tester1`), and what the tests
conclude from what they see (`src/src/raft1`, `src/src/kvtest1`). TLC checks the models on
small instances. TLAPS proves most of their safety properties and the three refinements for any
number of clients, workers, servers and groups (section 4). `PROJECT.json` lists every run with its
properties, every definition with the source lines it models, the hazards
with the properties that watch them, and the theorems.

Paths below are relative to `src/src/`.

    tlc -workers 2 -config Lock.cfg Lock      # one run
    tlapm LockProofs.tla                      # the proofs

## 1. The system

| Part | State | Operations | Talks to |
|---|---|---|---|
| Coordinator `mr/coordinator.go` | phase, state of every map and reduce task, `taskQueue` and `completionQueue` (128 places each), `mu` | `ReqTask`, `CompleteTask` (RPC handlers), one timer goroutine per task handed out, the loop `mapReduce`, `Done` | workers, over RPC |
| Worker `mr/worker.go` | the task in hand, intermediate and output files | ask, map, reduce, report, exit when a call fails | coordinator; file system |
| Key/value server `kvsrv1/server.go` | `kv`, queue `opQ` (256 places) | `Get`, `Put`; one goroutine serves the queue | Clerks, over labrpc |
| Clerk `kvsrv1/client.go` | the attempt counter of `Put` | `Get`, `Put`, both resend until answered | the server; applications |
| Lock `kvsrv1/lock/lock.go` | none of its own; one key at the server | `Acquire`, `Release` | a Clerk |
| Network `labrpc/labrpc.go` | ends, which of them are enabled, registered servers, RPCs in flight | `Call`, `Forward`, `processReq`, `Enable`, `AddServer`, `DeleteServer` | everybody |
| Server groups `tester1/group.go`, `srv.go` | `connected`, `Server` objects with their ends and saved persisters | `StartServer`, `ShutdownServer`, `ConnectOne`, `DisconnectAll`, `Partition` | network, daemons |
| Daemons `tester1/daemonclnt.go`, `daemonsrv.go`, `persister.go`, `testsrv.go` | a process per server, its persister | `Init`, `forward`, `CheckpointPersister`, `kill` | tester, over sockets |
| Sockets `tester1/demux`, `tester1/sockrpc` | tags, the map of outstanding calls, one connection | `SendReceive`, the two readers, `Close` | tester and daemons |
| Client ends `tester1/clnts.go` | the ends of a Clerk, the servers it may reach | `Call`, `ConnectAll`, `ConnectTo`, `Disconnect`, `DisconnectAll`, `DeleteClient`, `cleanup` | network |
| Raft test server and checker `raft1/server.go`, `proxy.go`, `test.go` | each server's log, the logs reported to the tester | the appliers, `CheckLogs`, `IngestLog`, `ApplyErr`, `one`, kill and restart | Raft; the tester, over sockets |
| Test clients `kvtest1`, `models1` | counts of `OK` and `ErrMaybe`, recorded histories | `SpawnClientsAndWait`, `OneClientPut`, `OneClientAppend`, `PutAtLeastOnce`, the checks, `Partitioner` | a Clerk each; server groups |
| Annotations `tester1/annotation.go`, `annotator.go` | annotations of the running test, the fault going on, what is connected and crashed | `Annotate...`, `FinalizeAnnotations`, `cleanup` by the test, by SIGINT and by apply errors, the drawing in `CheckPorcupine` | tests, servers |
| Shard configurations `shardkv1/shardcfg` | `ShardConfig` | `Join`, `Leave`, `Rebalance` | the shard controller |
| Raft, rsm, kvraft, sharded kv | - | skeletons: the bodies are not written | - |

What makes these parts hard:

- **MapReduce.** Workers crash, or outlive `workerTimeout` and report after their
  task was given away. Two bounded queues and a read/write lock can wait for each
  other. Attempts at the same task share a file system.
- **Key/value service.** Requests and replies get lost, and Clerks resend. A handler
  whose end was disabled runs on unheard and may execute much later. A `Put` may
  have happened although no reply arrived (`ErrMaybe`).
- **Lock.** It is built from a read and a conditional write, each of which other
  clients get between, and the write may answer "maybe".
- **Server groups.** Servers are stopped and restarted in the middle of RPCs. What a
  server has acknowledged must be in the persister the tester copied.
- **Sockets.** Callers, a reader goroutine, `Close` and the death of the other process
  meet in the map of outstanding calls.
- **Raft log checker.** Servers are killed in the middle of a call to the tester, come back
  with a snapshot and replay. A correct Raft must not be accused, a wrong one must be.
- **Test clients.** They count Puts of which nobody knows whether they happened, and are
  stopped by a signal that each of them has to take.
- **Client ends.** An end is made when it is first used, which may be long after the call that
  decided whether it may be used.
- **Shard configurations.** A batch of groups may be refused half way, and the loop that
  rebalances has no bound of its own.
- **Annotations.** They are global, and are written by the test, by the `Partitioner`, by server
  processes that outlive their test, and by a signal handler; several of these also draw the picture,
  into a file that may not open.

## 2. The modules

| Module | Models | Lines |
|---|---|---|
| `VersionedKV` | what a Clerk promises: a versioned register per key (`models1/kv.go`, `client.go`) | abstract specification |
| `KVService` | Clerks, labrpc and the server; implements `VersionedKV` | `kvsrv1/server.go`, `client.go`, `labrpc.go` |
| `KVServiceProofs` | theorem about `KVService` | |
| `Lock` | `Acquire` and `Release` over `VersionedKV`; with `KVService` below it, the whole lock service | `kvsrv1/lock/lock.go` |
| `LockProofs` | theorems about `Lock` | |
| `MapReduceJob` | what the coordinator promises | abstract specification |
| `MapReduce`, `MCMapReduce` | coordinator, timers, workers and files; implements `MapReduceJob` | `mr/coordinator.go`, `mr/worker.go` |
| `MapReduceProofs` | theorems about `MapReduce` | |
| `ServerGroup` | the tester's operations on servers, the daemons, and RPCs between servers | `tester1/group.go`, `srv.go`, `daemon*.go`, `labrpc.go` |
| `ServerGroupProofs` | theorems about `ServerGroup` | |
| `RpcChannel` | what a connection of demux promises its callers | abstract specification |
| `Demux` | callers, call map, readers, sockets; implements `RpcChannel` | `tester1/demux`, `tester1/sockrpc` |
| `DemuxProofs` | theorems about `Demux` | |
| `RaftLogs`, `MCRaftLogs` | server processes over an external Raft, the tester's logs, `one()` | `raft1/server.go`, `proxy.go`, `test.go` |
| `RaftLogsProofs` | theorems about `RaftLogs` | |
| `ShardConfig`, `MCShardConfig` | `Join`, `Leave`, `Rebalance` | `shardkv1/shardcfg/shardcfg.go` |
| `ShardConfigProofs` | theorems about `ShardConfig` | |
| `Clnts` | the client ends, and what a test may expect of them | `tester1/clnts.go`, `labrpc.go` |
| `KVTest`, `MCKVTest` | tests of the key/value services, over `VersionedKV` and `Clnts` | `kvtest1`, `kvraft1/kvraft_test.go`, `config.go` |
| `KVTestProofs` | theorems about `KVTest` and `Clnts` | |
| `Annotations`, `MCAnnotations` | annotations and pictures of a run of several tests | `tester1/annotation.go`, `annotator.go`, `kvtest1/porcupine.go` |

### VersionedKV and KVService

`KVService` has one variable per piece of the code's state: `kv` and `opQ` of the
server, `handlers` that have not sent to `opQ` yet, `enabled` of each Clerk's end,
and for each Clerk its pending call, the attempt counter `i` and the RPC in progress.
A call is a chain of actions: `Get`/`Put` (the application calls), `Send` (one attempt of
the loop), `Dispatch`, `Enqueue`, `ServeGet`/`ServePut`, `SendReply`, `Deliver`. Beside the
chain, `DropRequest` and `LoseReply` are the unreliable network, `Abandon` is
`isServerDead` giving up on a handler, and `SendDisabled` is a call on a disabled end.
Executing an operation and passing the reply to its handler is one step: the handler
does nothing but wait for it. In the tests an RPC also crosses a socket into the
server's process; that hop loses nothing while the process runs (see `Demux`).

Four history variables record what the properties talk about: which call wrote each version
(`log`), the last refusal or read a call was served with, and all results.

`VersionedKV` says what remains when network and server are hidden. A pending call
may be answered several times, and takes effect at most once, between its invocation and
its return. `OK` needs that it took effect, `ErrVersion` and `ErrNoKey` that it
did not, and `ErrMaybe` only that some attempt was refused. `KVService` refines it by
mapping `kv` to the register (an absent key is version 0) and "performed" to
membership of the pending call in `log`.

### Lock

A client's position `pc` names the Clerk call it waits for: the first `Get` of `Acquire`
is `acqGet`, its `Put` is `acqPut`, the `Get` after `ErrMaybe` is `acqCheck`, and so on for
`Release`. Each action handles the result of one call and starts the next, or returns.
Clients call `Acquire` and `Release` in any order, also `Release` without holding
the lock. The `panic`s of the code lead to `pc = "panic"`.

### MapReduceJob and MapReduce

The processes are the main loop, an RPC handler per worker, a timer per task handed
out, and the workers. A step of the code that does not block while it holds `mu`
is one action. Two do block, and are modelled in pieces: `SpawnReduce` holds `mu`
for writing while it queues the reduce tasks, and a timer (`senders`) holds it for reading
while it waits for a place in `taskQueue`. Go's rule that a waiting writer stops new
readers is `WriterWaits`.

An attempt's files are named by task and attempt (`UniqueName` stands for the random
file names). `torn` holds the files still being written. `output[r]` records whether
`mr-out-r` is whole, which map tasks' data it has, and whether its reducer skipped a file it
could not read. `late` says whether, in this behaviour, attempts may be slower than
`workerTimeout`. `MaxFaults` bounds crashes, failed attempts, unreadable files and stray
completions (`Strays`: from workers started with other parameters). `MapReduce` refines `MapReduceJob` by forgetting queues, timers and workers.

### ServerGroup

The tester is one thread. An operation such as `ShutdownServer` puts its steps into `todo`
(disconnect; `DeleteServer`; close sockets; copy the persister; kill) and RPCs make progress
between any two of them. `Partition` takes the servers of each side in any order. `inc[i]` counts the starts of server `i`; it names the
`Server` object, its ends, its process and its `labrpc.Server`, all of which are new after
a restart. The ends of other servers lead to a server by name and survive its restart.
An RPC has a network side (`st`: `processReq`) and a handler side (`h`): when `processReq`
gives up, the handler runs on. What a server stores is abstracted to a number that grows
with each `Persister.Save`. Requests and replies carry the number their sender had
reached, and `told[i]` is the largest one anybody got to know.

The accepted connection of a daemon stays open when `CheckpointPersister` has closed its
listener, so handlers execute and answer after the copy. `isServerDead` stops those replies.

### RpcChannel and Demux

Each caller of `SendReceive` is a process with the steps take a tag, enter the call map, lock,
write, wait. The client's reader, `Close` (transport first, then the map), the server's reader and
its goroutine per request run beside them. The socket is a bounded sequence of
messages in each direction. A blocked `WriteCall` waits for room, and fails when the
connection is closed. `log.Fatalf` in `reply` sets `fatal`. `Demux` refines `RpcChannel`
by the set of callers that are inside `SendReceive`.

### RaftLogs

Raft is external: `committed` only grows, and each server gets it in order, again from its
snapshot on after a restart. The Raft of a server in `conf.faulty` delivers any entry at
any index. `pc[s]` is the applier of server `s`: reading the apply channel, or in one of the
three calls to the tester. `Close` is `CheckpointPersister` closing the connection: calls of the old process fail
from then on, and one that was under way may still be served (`stale`), even after the restart.
`one` is the loop of `one()` with `retry`: submit, wait for agreement, submit again.
History variables: `reported` holds every entry any server has reported, and `lost` says that an
error could not be reported because the server was being killed.

### ShardConfig

A call of `JoinBalance` or `LeaveBalance` is one step that changes `Groups`, followed by
the iterations of the two loops of `Rebalance` (`Assign`, `Move`). The batch of `Join` is a Go map, so
any of its groups may have been added when a group that is already there ends the call.
`before` remembers the shards at the beginning of the call. `log.Fatalf` leads to `pc = "fatal"`.

### Clnts and KVTest

`Clnts` has the Clnts of a test, their `srvs`, the ends made so far (`ends`), those the network
knows (`netEnds`) and those it has enabled. `most` and `least` are what the test has asked for: the
servers a Clnt may reach at most, and those it must reach. `nil` and "all servers" are
the same here, since every server has its name from the start.

`KVTest` puts tests on top. `kind` chooses one: rounds of `SpawnClientsAndWait`
with `OneClientPut` and `CheckPutConcurrent`; the same with the `Partitioner`; one round of
`OneClientAppend` with `CheckAppends`; `TestOnePartition4B`; and a test that calls the operations of
its Clnts in any order. Each goroutine has a position `pc[c]`. A Clerk's call is `VersionedKV`'s, and
goes through an end of the Clnt that must be enabled. `Fatalf` in a goroutine ends that goroutine
(`failed`), and the test then waits for it in vain, as in Go.

### Annotations

Time counts the annotations and timestamps. `real` is what was done to the servers, `was` its
history; a fault is a set of servers apart, a set of servers crashed, or a side of a partition.
`lab` is the test program, which decides what its tests do: only the tests of Raft have apply errors, only
those of kvraft a `Partitioner`, and so on. `part` says that a `Partitioner` runs; a test that fails leaves it running.

`cleanup(g)` has four steps: look at `finalized` and the annotations, `finalize`, open the file, write. Three kinds of goroutine take them
beside each other (`draw[g]`): the test's `Cleanup`, `captureSignal`, which exits afterwards, and the handlers of
`ApplyErrRPC`, whose `AnnotateCheckerFailureBeforeExit` annotates and cleans up while the test goes on.
`CheckPorcupine` draws a fourth picture, the one with operations. Opening the file empties it, opening and
writing may fail, and after a failed open `CheckPorcupine` leaves the picture to `Cleanup`. `vis` is the file named by `VIS_FILE`, labelled with
the test whose annotations were copied; without `VIS_FILE` every picture has its own file, and none is replaced.

## 3. The runs

| Run | Instance | Checks | States |
|---|---|---|---|
| `kv_lossy` | 2 Clerks, 2 calls each, requests and replies lost, any version 0..1, `opQ` of 1 place | refinement `Linearizable`, liveness `CallsReturn` | 61 thousand |
| `kv_partitions` | 2 Clerks, one of them disconnected and reconnected at will, 2 handlers | `Linearizable` | 375 thousand |
| `lock` | 2 clients, 2 Acquires each, Releases without bound | `MutualExclusion`, `HandOver`; liveness `ReleaseReturns`, `OwnerLearns`, `SomebodyAcquires` | 16 thousand |
| `mr_late` | 2 workers, 2 map tasks, 1 reduce task, with and without late attempts, 1 fault | `NoTaskLost`, `NoDuplicateTask`, `ReduceInputsWhole`, `OutputComplete`, `OutputFinalTimely`, refinement `ImplementsJob` | 963 thousand |
| `mr_live` | 2 workers, 1 map and 1 reduce task, late attempts, 1 fault or stray completion, a task queue of 1 place | `ImplementsJob`, liveness `JobFinishes`, `WorkersExit` | 194 thousand |
| `group` | 2 servers, each started twice, 1 Clerk, 1 RPC at a time, unreliable network | `KnownIsDurable`, `LinksMatchConnected`; liveness `ForwardsReturn` | 903 thousand |
| `demux` | 2 callers, 2 calls each, one message per socket buffer | `NobodyForgotten`, refinement `ImplementsChannel`, liveness `CallersReturn` | 98 thousand |
| `raft_logs` | 2 servers, 2 commands, 3 entries, a snapshot every 2, 1 kill, one wrong delivery | `Truthful`, `NoFalseAlarm`, `FaultCaught`, `OneIsCommitted`, liveness `CatchUp` | 1.48 million |
| `shard_cfg` | 4 shards, 6 groups of which two share a server, 3 accepted calls, batches of up to 2 | `ConfigChecks`, `FewestMoves`, liveness `RebalanceEnds` | 159 thousand |
| `kv_test` | 3 clients in rounds of 2 and 1, 2 iterations each (1 with the `Partitioner`), 2 `ErrMaybe`, 2 servers | `ChecksPass`, `Confined`, `Reaching`, `NoFatal`, `EndsReclaimed`, liveness `TestEnds` | 638 thousand |
| `annotations` | 2 servers, 2 tests of each of 4 test programs, 4 timestamps, 1 apply error at a time, all values of `VIS_ENABLE` | `TimelineTrue`, `OpsKept`, `FailureShown` | 7.1 million, up to the symmetry of servers |
| `mr_overwrite` | see section 5 | refutes `OutputFinal` with late attempts | |

Each run checks the strongest statements and not also what they imply. `Linearizable`
contains that a resent `Put` is installed once and that results are true; `ImplementsJob` that no
phase ends early; `CallersReturn` that the reader of demux never ends the process, since then nobody returns. `TypeOK` of
every module holds on these instances too (replace the properties of the cfg by `INVARIANT TypeOK`), and `mr_live` is the run
with strays because a completion with too few files puts its task into the queue a second time (`coordinator.go:226`), which
`NoDuplicateTask` of `mr_late` excludes.

Why these bounds are enough for the cases that matter:

- **Clerks.** With two calls per Clerk a handler of the first can execute during the
  second, and the other Clerk's `Put` can come between a `Put` and its resend. Two
  attempts are all the code tells apart (`i > 1`). The short queue makes handlers block.
- **Versions.** `kv_lossy` also puts versions the server does not have;
  `kv_partitions` puts only versions up to the current one. With both, disconnected
  Clerks *and* versions from the future, `Linearizable` fails: an abandoned handler
  of a `Put` with a future version can install it after the resent request was
  told `ErrNoKey`. An application gets its versions from earlier replies, so this does not
  happen to it; no line of the repository promises otherwise, and the runs keep apart what
  the code keeps apart.
- **Queues of MapReduce.** The code's 128 places are more than `nMap + nReduce` in
  the tests, so `mr_late` uses `TaskCap >= nMap + nReduce`. `mr_live` has a
  tighter queue, in which the job may block: its cfg turns the deadlock check off, and
  `JobFinishes` excuses exactly a queue that stays full for ever.
- **Server groups.** An RPC uses one end and two servers, and `connect` and `disconnect`
  treat every pair of servers by itself, so two servers show what happens to any pair. Two
  starts per server are one restart; one `Save` tells a lost update from a kept one.
- **Demux.** One message per buffer makes both writers block. The deadlock check is off
  because a closed connection with no callers may well stop.

- **Raft logs.** With an interval of 2, three entries have a snapshot in their middle: the killed
  server comes back with one, replays the rest, or gets one from the other server. One wrong
  delivery is enough for `FaultCaught`: what is caught is a single disagreement or gap.
- **Shard configurations.** 6 groups on 4 shards are more groups than shards. `FewestMoves`
  compares with every other balanced assignment.
- **Tests.** Two clients that put to one key give every order of `OK`, `ErrVersion` and `ErrMaybe`
  between them, and the second round starts from versions of the first. `TestEnds` bounds
  `ErrMaybe`: on a network that answers every `Put` with "maybe" `PutAtLeastOnce` goes on for ever.
- **Annotations.** Two tests are needed for what one leaves to the next, and four
  timestamps for a fault, a second one, its end and a post of a server. One handler of an apply error at a time still
  gives several of them in one test; two at a time, with Raft's tests and five timestamps, hold as well (36 million states).

`raft_logs`, `kv_test`, `annotations` and `shard_cfg` stop when their bounds are used up, so
their cfgs turn the deadlock check off; what must not stop is the subject of their
liveness properties. `KVService` ends a bounded behaviour with `Finished`, which changes nothing, so TLC's
deadlock check stays on.

### Fairness

Go's scheduler runs every goroutine that can run, so the steps of the server, of handlers,
timers, readers and workers are weakly fair. In addition:

- `KVService`: `Dispatch` and `SendReply` are strongly fair. The network drops each
  message with probability 1/10 independently, so of infinitely many attempts some get through.
  Clerks are not assumed to make calls, nor ends to be enabled (the liveness run has no
  disconnected Clerks).
- `Lock`: the Clerk answers each call (that is `CallsReturn` of `KVService`), and a client that has the
  lock calls `Release` some day. `SomebodyAcquires` needs the latter; a spinlock promises no
  particular client anything.
- `MapReduce`: crashes are not fair, and at least one worker survives them.
- `ServerGroup`: handlers are *not* assumed to return; `ForwardsReturn` excuses a call only if its
  handler hangs on a server that can be reached again and again, which is the exception
  `labrpc.go:36-37` makes.
- `Demux`: handlers return. Nobody is assumed to close the connection.
- `RaftLogs`: Raft delivers what it has committed, and the test restarts whom it kills. Nothing is
  assumed of commits, of kills or of `one()`.
- `ShardConfig`: a loop that can go on goes on.
- `KVTest`: calls return (`CallsReturn`), every goroutine runs, and `time.Sleep` lasts until some
  `Put` of the round has happened, since `CheckPutConcurrent` reads a key that must exist.

## 4. The proofs

| Module | Theorem | Statement |
|---|---|---|
| `LockProofs` | `TypeCorrect` | `Spec => []TypeOK` |
| | `LockInvariant` | `Spec => []LockInv` |
| | `MutualExclusionHolds` | no two clients hold the lock |
| | `ReleaseReleasesHolds` | after `Release` returns, its caller does not own the lock |
| | `NoPanicHolds` | the panics are unreachable |
| | `HandOverHolds` | the owner changes only from nobody to a client in `Acquire`'s `Put`, and back in `Release`'s `Put` |
| `KVServiceProofs` | `KVServiceLinearizable` | `KVService` implements `VersionedKV` |
| `MapReduceProofs` | `CoordinatorImplementsJob` | the coordinator implements `MapReduceJob` |
| | `NoTaskIsLost` | a task that is still wanted is queued, in a handler's hands, or has a timer |
| | `NoTaskIsDuplicated` | it is so in one place only |
| | `ReduceInputsAreWhole` | a reducer reads one whole file of every map task |
| | `OutputIsComplete` | a whole output has the data of every map task, unless its reducer skipped a file |
| | `OutputIsFinal` | without late attempts, the output is whole once the job is done |
| `ServerGroupProofs` | `KnownStaysDurable` | what a server let others know survives its restarts |
| | `LinksAlwaysMatch` | the enabled ends match what the tester has connected |
| `DemuxProofs` | `DemuxForgetsNobody` | a waiting caller is in the call map or in the reader's hands |
| | `DemuxNeverFatal` | the `log.Fatalf` of the reader is unreachable |
| | `DemuxImplementsChannel` | `Demux` implements `RpcChannel` |
| `RaftLogsProofs` | `TruthfulAlways` | the tester's logs of a correct group are what Raft committed |
| | `OneIsCommittedAlways` | `one()` returns only for a committed command |
| | `NoFalseAlarmAlways` | a correct group is never accused |
| `ShardConfigProofs` | `ConfigChecksAlways` | an accepted configuration gives every shard to a member and is balanced |
| | `MembersServeAlways` | with enough shards, exactly the members serve one |
| `KVTestProofs` | `ClntsConfined` | a Clerk reaches no server its test has cut it off from |
| | `ClntsReach` | a Clerk reaches the servers its test has given it |
| | `ClntsNeverFatal` | no operation on a Clnt ends the test |
| | `NetworkReclaimed` | after `Cleanup` the network keeps no end, except those made after `DeleteClient` |

Each property holds for every value of the constants that satisfies the assumptions of its module. These say
what the constants are (a bound is a number, the empty value is a value, there is a server) and little
else: the workers of MapReduce are finitely many and its task queue has room for the map tasks, servers are no Clerks, the first round of a test has a client, and there
are at most 256 shards, since `analyze` and `CheckConfig` start their minimum at 257 (`shardcfg.go:266`, `88`). Four theorems need more, and say so
in their statements: `NoStrayWrites` and `NoForgery`, below.

### The lock

For any set of clients and any bound on calls, under the assumptions of
`VersionedKV` and `Lock` (the lock's key is the only one; a value is a client's id or the
empty one, which is no client).

Mutual exclusion is not inductive: it says nothing of a `Put` that is under way.
`LockInv` adds, for every position of a client, how its view relates to the lock's entry at the server:

- a version determines its value, so a `Put` that names the current version was made by a
  client that has read the current value (`GoodRead`, `AcquirePutInv`);
- only `c` itself writes `c` into the lock or takes it out again, so what `c` read about
  *its own* ownership stays true while it waits (`GoodRead`);
- a releasing `Put` that has not been performed names the current version, because its
  client still owns the lock (`ReleasePutInv`); hence it cannot be refused before it
  was performed, and `ErrVersion` cannot come back to `Release`;
- after `ErrMaybe` some `Put` has been performed, so the check never reads `ErrNoKey`.

The proof that a step preserves `LockInv` separates the client that moves (`OwnCall`,
`OwnAcquireStep`, `OwnReleaseStep`, `OwnClerkStep`) from the others. `Locality` shows that a step
of one client changes nothing of another's. `Untouched` and `OtherPut` then show that the others'
part of the invariant survives, whether the register stays or moves on by one version.

### The key/value service

`Inv` of `KVServiceProofs` is about what is left of a call at the server. `HandlerInv` and `LiveInv` tie every
handler to its call: the Clerk waits for one at most, and the others were abandoned. `StoreInv` is the reason why a `Put`
is installed once: a `Put` that is over or has been performed names a version that is gone, so
none of its handlers can perform it again. `ClerkInv` has what a reply under way says of its call; in particular
the first attempt's `ErrVersion` means that the `Put` has not been performed and no handler of it is left, and only
a resent one's does not, which is the distinction `Put` makes with `ErrMaybe`.

`NoStrayWrites` says that either no Clerk is ever disconnected during a call or none names a version the
server has not had: with both, the property is false (section 3).

### MapReduce

`BaseInv` holds whatever completions arrive: the types, where the main loop is (`LoopInv`), what a worker at each position has in hand
(`WorkInv`), and that a task still needed is in circulation (`NeededInv`). `NoTaskIsLost` and the refinement follow from it. `ReadInv` adds what
reducers have read, and gives `OutputIsComplete`.

The others assume `NoForgery`: stray completions are not of this job's tasks, because `CompleteTask` takes any completion at its word.
`TornInv` says that a file the coordinator knows of is no longer being written. `TokenInv` counts: the queue is
without repetition, a task is in the hands of one handler, and a task that is queued, held or timed is so once. `TimelyInv` is for behaviours without late attempts: a
task being worked on or reported has a timer that sleeps (`TimedOK`), so its worker is the only one (`AloneOK`), and
an output that has been reported stays whole (`ReportedOK`, `DoneOK`).

### Server groups

`KnownIsDurable` compares what is known of a server with its persister, and breaks if a server learns of a number that the
tester's copy does not have. `RpcInv` therefore follows every number in flight: what a request carries is
durable at its sender, and what a handler's reply carries is durable unless the process has been checkpointed before (`Gone`); such a reply
never passes `processReq`. `TesterInv` describes the operation under way by the steps that are left in `todo`, one shape for each of
`ShutdownServer`, `StartServer`, connecting, disconnecting and `Partition`, and says of each which ends are enabled; `LinksMatchConnected` is the
case in which nothing is left.

### Demux

`MapInv` is the reason nobody is forgotten: a call that was entered is in the map under its own tag or in the
reader's hands, nothing else is in the map, and once the reader goes through the outstanding calls the map is
closed. `MsgInv` and `UniqueInv` say that no two messages in flight, requests, handlers and replies together, belong
to the same call or carry the same tag, and that each has its entry in the map while the reader reads; hence `reply` finds every tag it gets, and
a caller receives the answer to its own call, served once, which is what `RpcChannel` promises.

### Shard configurations

For up to 256 shards, any finite set of group identifiers and batches of any size. `Inv` adds `Progress` to the
types and `ConfigChecks`: the shards that `Assign` has passed have a member, and all have one when `Move`
begins. `EvenBalanced` turns the test that ends the loop, which looks at two groups, into balance of
all pairs. `MembersServe` then follows by counting: if a member had no shard, balance would leave
every other member at most one, and there would be fewer shards than members.

### The client ends

For any clients, rounds and servers. `Confined`, `Reaching` and `NoFatal` are close to inductive (`EndInv`), up to one thing: `Config.Cleanup`
must come when no goroutine of the test calls any more, since a call makes ends. So `IInv` follows every goroutine
through every kind of test: who calls (`Calling`), that a caller has its Clnt (`Holding`) and one that has not begun no ends (`Fresh`), that cleaning up is the end of the test (`Closing`),
and for each kind of test where its clients may be when its main goroutine is at a given place (`TestInv`).

### The Raft log checker

For any sets of servers and commands, any length of the log, any snapshot interval and any number of kills.

- `TInv`: the types, and that an applier in `CheckLogs` has an entry in hand.
- `AInv`: `Truthful` speaks of the tester's logs only. The logs of the
  servers, their snapshots, the entries under way and the late calls of killed servers have to
  agree with `committed` as well, since each of them is copied into another. `committed` only grows,
  so what agrees once agrees for ever (`AgreesGrows`).
- `FInv`: no false alarm needs that there are no gaps. While a server runs, the tester
  has everything its applier has been through (`Full(logs[s], Seen(s))`), its snapshot and its log
  have no gaps, and a server that has something to report is being killed. A restart
  keeps this because the snapshot is ingested first. There is one lemma per action, and `Elsewhere` for the servers the
  action leaves alone.

### What is only model-checked

- Liveness and whatever needs `ENABLED`: `CallsReturn`, `ReleaseReturns`, `OwnerLearns`, `SomebodyAcquires`, `JobFinishes`, `WorkersExit`,
  `ForwardsReturn`, `CallersReturn`, `CatchUp`, `RebalanceEnds`, `TestEnds`. They are out of the prover's reach.
- `ChecksPass` of `KVTest` and `FewestMoves` of `ShardConfig`: both compare sums over sets, which need induction.
- `FaultCaught` of `RaftLogs`, and `TimelineTrue`, `OpsKept` and `FailureShown` of `Annotations`.

The theorems of the table whose property no run names (`TypeCorrect`, `LockInvariant`, `ReleaseReleasesHolds`, `NoPanicHolds`,
`MembersServeAlways`, `DemuxNeverFatal`) are about properties TLC finds to hold on the instances of section 3 as well.

## 5. Where the code and its text disagree

Run `mr_overwrite` expects a violation, and `PROJECT.json` quotes the lines: a late attempt at a reduce
task creates `mr-out-r` under its final name and empties the file another attempt has
completed, even after `Done()`. Without late attempts `OutputFinal` holds (`OutputFinalTimely` of `mr_late`).

Further observations, each visible in a module, without a run of its own:

- `KvModel` accepts no `ErrNoKey` for a `Put` (`models1/kv.go:62`), which the server answers to a `Put` of an absent
  key with a version other than 0 (`server.go:102`). No recorded history has such a `Put`.
- A reducer that cannot read a file skips it and reports success (`worker.go:105`), though the comment
  expects a retry: `skips` in `OutputComplete`.
- When retried map tasks fill `taskQueue`, `mapReduce` waits for room while it holds `mu`
  (`coordinator.go:259`), and with too few workers for ever: the exception in `JobFinishes`. With 128
  places this takes more than a hundred input files and slow maps.
- With snapshots, a late `IngestLog` of a killed server that runs after the restart takes entries away from the
  tester's log, and the next `CheckLogs` accuses a correct Raft: `Settled` in `NoFalseAlarm`.
- `ConnectTo` enables ends and disables none (`clnts.go:90`), so a Clnt keeps the servers it had: `most` in
  `ConnectTo`. Nobody calls it. An end made after `DeleteClient` is never deleted: `stray` in `EndsReclaimed`.
- `annotateContinuousEnd` with nothing going on appends an annotation without text that starts at 0
  (`annotation.go:484-506`); this happens when servers are restarted and `AnnotateClearFailure` follows.
- `AnnotateCheckerEnd` resets the begin of the check in a copy (`annotation.go:162-180`), so a second end
  without a begin is drawn from the first begin.
- `SetAnnotationFinalized` before a check that then fails leaves no picture: `flagged` in `FailureShown`. Tests
  that do not call `AnnotateTest` do not reset it.
- An interrupt that finds the annotations finalized exits at once, since "CheckPorcupine has already produced a vis file"
  (`annotation.go:514`), although `CheckPorcupine`, or an apply error, may still be writing it: `Busy` in `FailureShown`.
- An interrupt can replace the picture with operations by one without, if it looked at `finalized` before `CheckPorcupine` set it, or if
  the annotations were cleared after that picture and a server or the `Partitioner` has annotated again: the two exceptions of `OpsKept`.
- `AnnotateCheckerFailureBeforeExit` is for use before `log.Fatalf` (`annotation.go:212`), but no exit follows
  in `ApplyErrRPC`. The test goes on, and a second apply error clears what it has annotated: `whole` in `TimelineTrue`.
- With `VIS_ENABLE` set to `never`, `CheckPorcupine` still opens the file, and empties it.
- A test that fails while its `Partitioner` runs leaves it running; it annotates the next test: `clean` in `TimelineTrue`.

One check of the daemons proves to be a second line of defence: when a closed process could still
forward calls, `KnownIsDurable` would hold all the same, because `ShutdownServer` disables the ends of the
server first and never enables them again.

## 6. Not modelled

- Raft, the replicated state machine, the replicated and the sharded key/value service: the bodies
  of their operations are not written.
- Encoding (`labgob`), reflection in `labrpc.Service`, the applications of MapReduce,
  process start-up and `main` functions: sequential, or pure input and output.
- The checks of the Raft tests that only ask Raft (`checkOneLeader`, `checkTerms`, `wait`), `one()` without retry and its
  limit of ten seconds.
- Times: a delay is an interleaving. What depends on the length of one (`late`) is a choice of the behaviour.
- Sizes: the 2^32 tags of demux and the 2^64 versions of a key are taken for unbounded.
- The control socket of a daemon, which listens before its service is registered
  (`daemonsrv.go:101-102`), and the ten-minute limit of a daemon's life.
- More than 128 input files: `MakeCoordinator` would block (`coordinator.go:189`), and there would be no behaviour.
- Failed writes of output files, whose errors `doReduce` ignores (`worker.go:151`).
- `MakePartition` (`group.go:294-311`), whose sides have one place too many for an even number of servers, so that server 0 is in
  both; the tests use 3, 5 and 7 servers, and `ServerGroup` and `KVTest` partition into any two sides.
