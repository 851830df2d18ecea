# A verification development of Rawbox

Rawbox runs workflows: a workspace declares plugins and workflows, a workflow is a list of
steps, and steps hand values to each other through *boxes* kept in a store (LMDB, or Redis).
The modules of this directory model the parts of Rawbox whose correctness depends on the order
of things, or on two parts of the code agreeing with each other: the store's rings and
transactions, the observers that read them meanwhile, the state machine of a run with its events,
its abort and those who consume the events, the log it leaves in segments and those who follow
it, the registry that lists runs and prunes them, the lock several processes race for when they
find a plugin missing, the clients and boxes of Redis, and the long way of a document from
validation to what it leaves in its boxes. TLC checks them on small instances; TLAPS proves
the properties that matter most for every instance.

Source paths below are relative to `src/packages/`.

## 1. Inventory

| Component | State it keeps | Operations | Hard behaviours | What makes it correct | Here |
|---|---|---|---|---|---|
| FIFO ring (`rawbox-store/src/box-store/fifo-ring.ts`) | none; the cursors are its arguments | `ringUsed`, `ringCapacity`, `ringIndexList` | wrap-around, the slot never used | the indices are the occupied slots, in order | `FifoRing` |
| LMDB box store (`box-store-lmdb.ts`) | per box: two cursors and one key per entry, or one cell | `put`, `get`, `transaction` | several processes, aborts half way | a transaction is atomic, a box is a bounded queue | `LmdbFifo`, `BoundedQueue`, `DocumentRun` |
| Observers and `store` commands (`box-observer-lmdb.ts`, `box-peek.ts`, `rawbox-cli/src/commands/store/`) | a read-only environment, one snapshot per call | `listKeysSync`, `peekSync`, `store get/list/watch` | the queue changes between two calls; `queueSizeMax` is rebuilt | never a wrong order | `StoreObserver` |
| Redis store (`box-store-redis.ts`) | a cache of pending clients; lists and strings on a server | `create`, `close`, `put`, `get` | two commands in one call, lost replies, attempts that fail late | strategies never mixed, bounded lists, no client lost | `RedisClients`, `RedisStore` |
| Budgets and strategies (`rawbox-store/src/strategy/`, `box-size.ts`) | none | `budgetForStorage`, `budgetForKey`, size estimates | limits, unit edges | the figure printed bounds what is stored | `BoxStrategies` |
| Workflow machine (`rawbox-runner/src/machine/`) | phase, `todoStep`, `doneStep`, `error` | start, select, syncDb, run, exit, stop | a transaction commits before the machine is told; timeouts; `STOP` at any moment | outputs stored once, in order, or the run says it failed | `RunControl`, `WorkflowRun` |
| Run supervisor (`tool/run-workflow.ts`) | bootstrap stage, abort flags | bootstrap, seed, launch, `onAbort`, conclude | abort during the bootstrap, between commit and answer, in a hanging handler; a store that does not open; jumps without end | one honest conclusion, reached unless nothing stops the steps | `RunControl`, `WorkflowRun` |
| Event producer (`events/producer.ts`) | step in flight, iterations, counts | `start`, `observe`, `end`, `bootstrapError`, `log` | events are derived from snapshots | the stream reads as one run | `WorkflowRun` |
| Consumers of the stream (`events/otel-sink.ts`, `rawbox-cli/src/render/terminal-sink.ts`, `runs/registry-sink.ts`, `runs/log-summary.ts`, the error log, the exit code) | spans, pending steps, what was already told | one call per event, `close` | each deduces the outcome on its own, from events that may be missing | they tell of one and the same run | `StreamConsumers` |
| NDJSON sink (`events/ndjson-file-sink.ts`) | segments, live segment, pending lines, seal | write, seal, flush, close, retire | asynchronous seals, full or failing disk | no line lost or reordered, bounded files | `LogSegments` |
| Readers of a log (`rawbox-cli/src/workspace/log-segments.ts`, `runs tail`, `workspace logs`) | a cursor, a fragment of a line | poll, list | the log rolls and is retired between two calls | nothing twice, nothing skipped, nothing for ever behind | `LogFollower` |
| Run registry, classification, retention (`rawbox-cli/src/runs/`) | one JSON file per run, its log segments | write, rewrite, list, classify, prune | passes beside live runs and beside each other, kills, recycled pids, a stepped clock | a live run's files stay; what is shown happened | `RunRegistry` |
| Auto-setup and lock (`rawbox-cli/src/commands/workflow/{auto-setup,setup-lock}.ts`) | `.rawbox-setup.lock`, `node_modules` | check, acquire, install, release, wait, re-check | processes race and die; a lock is judged and later removed | one installer at a time, nobody stuck, nobody without plugins | `SetupLock` |
| Validation, resolution, lock document (`rawbox-runner/src/workflow/`) | documents | `validateWorkflowType`, resolve, seed checks | fifteen passes in a fixed order; a key spelt in two places | an accepted document can be run | `WorkflowDocument`, `WorkflowResolution` |
| Workspace discovery, backends, seed overrides (`rawbox-runner/src/workspace/`) | documents | discover, merge layers, check backends | which layer wins, which block is meant | an override replaces a seed and nothing else | `SeedOverrides`, `DocumentRun` |
| `workflow verify` and `workflow run` (`rawbox-cli/src/commands/workflow/`) | - | two pipelines over one document | they drift apart | they accept the same documents | `DocumentRun` |
| Event channel (`rawbox-plugin/src/core/run-event-channel.ts`) | one global slot | get, set, emit | overlapping runs in one process | a line lands in the run it belongs to | not modelled |
| Contract and definition caches, scaffolding, templates | maps, files | - | - | - | not modelled |

How they interact: `workflow run` first checks that the plugins resolve and, if not, takes the setup lock
(shared file system); then it prunes the registry. It then calls the supervisor, which reads
and checks the documents, opens the store, seeds boxes in one transaction and creates
the machine. The machine invokes one actor per phase; the actors of `syncingDb` and `exiting` run a
store transaction. The producer subscribes to the machine's snapshots and hands events to the
sinks, of which one is the log, one the registry. Other runs, in processes of their own, use the same
boxes, the same registry and sometimes the same log; observers and readers look at any time.

## 2. The modules

| Module | Models | Composes |
|---|---|---|
| `FifoRing` | ring arithmetic, `reconstructQueueSizeMax` | - |
| `BoundedQueue` | what the store promises: queues, one writer transaction at a time | - |
| `LmdbFifo` | `lmdb-fifo` boxes as cursors and slots, transactions | `FifoRing`; refines `BoundedQueue` |
| `StoreObserver` | list, rebuild, peek, beside a writer | `LmdbFifo` |
| `RedisClients` | the cache of clients of one connection string | - |
| `RedisStore` | `redis-kv` and `redis-fifo` calls, command by command | `RedisClients` |
| `RunControl` | the course of a run: which state leads to which, and with what step | - |
| `WorkflowRun` | bootstrap, machine, producer, abort, other runs | queues as `BoundedQueue` promises them; implements `RunControl` |
| `StreamConsumers` | OTel bridge, terminal, registry entry, error log, summary, exit code, as folds over the stream | `WorkflowRun` |
| `LogSegments` | the writer of a segmented log and its files | - |
| `LogFollower` | a reader following it | `LogSegments` |
| `RunRegistry` | registry files, logs, pids and clock, listing and pruning passes | - |
| `SetupLock` | auto-setup of several processes | - |
| `BoxStrategies` | the strategy table and the byte model | `FifoRing` |
| `WorkflowDocument` | a document and the passes of `validateWorkflowType` | `BoxStrategies` |
| `SeedOverrides` | the layers of seed overrides | `WorkflowDocument` |
| `WorkflowResolution` | contracts, locations of boxes, seed data, lock hashes | `SeedOverrides` |
| `DocumentRun` | verify, and run after run over the boxes that are there | `WorkflowResolution` |
| `*Proofs` | theorems; `LmdbStoreProofs` those of `LmdbFifo` and `StoreObserver`, `LogProofs` those of `LogFollower` and so of `LogSegments`, `DocumentProofs` those of `DocumentRun` | the modules they name |
| `FoldTheorems` | what a fold of the community modules computes, for any operator | - |
| `MC*` | instances for TLC | - |

A definition that precedes another one and is used nowhere (`FinishStep...`, `...Unmerged`, `...Late`) is the
form a plausible bug would give to the one after it; each is said to be so by its comment, and the run of the property it
breaks finds it.

### `LmdbFifo`

`committed[k]` is what LMDB holds for box `k`: `head`, `tail` and the entry keys (`data[i]`,
`Absent` when the key does not exist). LMDB has one writer at a time: `writer` is the process
whose transaction is open and `working` is that transaction's view. `Put`, `PutRefused`, `Get`,
`GetRefused` are `putStatic` and `getStatic` on it; a call outside `transaction()` opens a
transaction of its own, which is a `Begin`, one call and a `Commit` here. `Discard` is a callback
that answered an error (`ABORT`), `Abandon` a callback that threw. `answer` is what the last call
returned; a ring that was never written reads as `head = tail = 0`.

`BoundedQueue` has the same calls on sequences of at most `queueSizeMax - 1` values.

### `StoreObserver`

`ListKeys` is `inspectStatic` in one snapshot, `PeekListed` is the rebuilt size and
`peekAllStatic` in a later one, `Write` is any step of the writer. `peeked` is what was answered, with
the contents at the moment of the peek.

### `RedisClients` and `RedisStore`

`cached` is the map entry of one connection string, `client` the life of every client (`connecting`,
`ready`, `reconnecting`, `failed`, `gone`, `closed`), `awaiting` whose promise a caller of `create` holds.
`Share` and `OpenRedisClient` are the two ways into the map, `Create` the continuation after the await,
`AttemptFails` and `ConnectFails` the retry strategy, `GiveUp` the end of reconnecting after a drop,
`Close` and `Quit` are `closeAll`. In `RedisStore` a command is atomic on the server and a call is one or
two of them: `TypeProbe` then `Set`; `Enqueue`, one script; `Dequeue`, `Get`, and `Diagnose` after a
`WRONGTYPE`. `Lost` is a socket that drops under a command, executed or not. `pushed`, `popped`, `stored`,
`wiped` and `told` are histories.

### `RunControl`, `WorkflowRun` and `StreamConsumers`

`RunControl` has the states of supervisor and machine and the step at hand, and nothing that counts: a transaction succeeds or
fails, a handler returns or not, a control-flow step answers with any step, as often as it likes.
`WorkflowRun` implements it.

In `WorkflowRun`, `progress` is where `executeWorkflowRun` is (`rejected` when the exception of a store that cannot be opened has left it), `stage` the bootstrap stage, `phase` the machine's
state. A transition of the machine and the store transaction its entry runs are one action, since
the actor starts synchronously and LMDB transactions are synchronous; `verdict` keeps the
transaction's outcome until the machine is told, and `Abort` may come in between. `Observe` is the
producer's subscription, part of every transition. The handler is the environment: it answers any
`Result`, throws, or never returns (no fairness on it); a step in `Bounded` has a timer. `Shared`
queues are put in and taken from by other runs at any moment. `completed` and `stored` are histories:
executions that left a result, and executions whose outputs were committed.

`StreamConsumers` has no variables: each consumer is a fold over `stream`, so that what it has seen at
any moment is known. Consumers are handed events synchronously, in order, by one `emit`.

### `LogSegments` and `LogFollower`

`disk` maps each existing segment to its units; a line of size `n` is `n` units, so that a reader may
see a part of it. `w` holds the variables of `createLineWriter` under shorter names (`live`, `bytes`,
`index`, `pending`, `rotated` for `liveSegment`, `liveBytes`, `segmentIndexList`, `pendingLineList`,
`pendingRotationSeal`; `opened` is a destination, `sealing` a `sealPromise`). The index is a set, because
`segmentIndexList` is kept ascending: its first element is the least. JavaScript runs a turn to
its end: `todo` is what is left of the turn, and `Emit`, `SealDone` and `CloseLog` start one. Inside it
each file system call is an action (`Open`, `Retire`), because a reader sees what lies between. The
re-entrant append of `log.rotate` is a line put in front of `todo` by `Opened`. `stream` is SonicBoom:
a chunk in flight and a buffer behind it. `FlushSync` is the one of `run.end`, which may overtake the
chunk, the `log.rotate` marker of the segment included. `CrashAndRestart` loses all of this and starts a writer on the same path, as a second run with
one `--log-file` does.

The follower's actions are its calls: `Stat`, `Scan`, `FirstRead`, `Successor`, `FinalStat`,
`FinalRead`; `ReadFails` is the open of a segment retired since the stat. `delivered` is the text handed out of each segment, up to the end of a line (`WholeLines`), to be parsed line by
line; `leftover` the fragment behind it. It is handed out as it is read; the code does so at the end of a poll, which no
other process can tell. `wrote` and `delivered` are histories.

### `RunRegistry`

A run is numbered by the order of its file name. `entry[r]` is its file, `Torn` between the truncation and
the write of `writeFileSync`, `pending[r]` what the write will leave; `disk` are the log segments, by path,
because runs may share a `--log-file`; a segment is created when its first line opens it, and a line behind that goes to the descriptor, so that a
removed segment stays removed (where a writer takes up a log that is there is modelled in `LogSegments`; here a run starts at
segment 0); `started[pid]` is the start of whatever process holds a pid, so that a pid
can be recycled, and `skew` how far the wall clock has been stepped since. A run's command goes
`pruning`, `entering`, `bootstrapping`, `running`, `ended`, `gone`; `Kill` takes it from anywhere. `pass[p]` is the
pass of a process, the operator's or a run's own opportunistic one: `reading` the files one by one, `judging`
(`Classify` with the pid's state at that moment, not at the moment of the read), then `deleting` the condemned one
by one, entry first and then its `files`. The three bounds are `WithinAge`, `WithinCount`, `WithinBytes`, in the
code's order, and `Survivors` adds the live runs. `stray` and `condemned` are histories.

### `SetupLock`

One action per file system call: `Create` (`open` with `wx`), `WriteLock` (the payload), `Stat`,
`ReadLock`, `Probe` (the pid and its start time), `RemoveStale` and `Release` (`rm`), `Released` and
`TimedOut` (the poll). `aged` and `seen` are what the process has read, and may be history when it
acts on it. `Crash` leaves everything as it is. The plugins become resolvable one by one. `robbed`
and `redundant` are histories. A process that throws before it holds the lock ends like a crashed
one.

### `BoxStrategies` to `DocumentRun`

These five are mostly operators: a document is a record (`Shaped`), a value is known by the sizes of
its msgpack encodings, a JSON schema by the values it accepts, a path by what it resolves to. `ValidWorkflowType` has the
passes of `validateWorkflowType`, `Resolve` builds the resolved workflow, `Merged` puts the overrides in place. The
state machine of `DocumentRun` strings them together: `VerifyPasses` and `RunPasses` are the two pipelines, in
the code's order; `Bootstrap`, `Seed`, `FirstStep`, `StepReturns`, `StepFails` one accepted run at the level of
transactions over `box`; `RunAgain` starts the same document over the boxes the last run left. Events, aborts and
deadlines are those of `WorkflowRun` and not repeated. `around` is constant, so that the two commands
look at the same surroundings: those auto-setup has left. `installed` says in which of five places a plugin is found: the target
folder, the workspace, the working directory, the directory of the document, the runner's own dependencies. The model has
one build of a plugin, wherever it is found.

## 3. Runs

| Run | Instance | Checks | States |
|---|---|---|---|
| `lmdb_fifo` | 2 processes, rings of 2 and 4 slots, 2 values | types; slots match cursors; refinement of `BoundedQueue` | holds, 147 000 |
| `store_observer` | 1 writer, one ring, 2 values | the rebuilt size is exact; a peek is in order | holds, 300 000 |
| `workflow_run` | 3 steps (1 bounded, 1 control-flow), 2 queues, one shared, at most 3 iterations | 7 invariants, 1 action property, refinement of `RunControl`, 2 liveness properties | holds, 81 000 |
| `setup_lock` | 3 processes (1 forced), 2 plugins, 2 crashes | types, 3 invariants, 1 liveness property | holds, 126 000 |
| `setup_lock_takeover` | 3 processes, 1 crash | `ExclusiveInstall` | violated: finding 1 |
| `setup_lock_second` | 2 processes, no crash | `NoSecondInstall` | violated: finding 2 |
| `log_follower` | 3 synchronous or 5 buffered events, segments of 3 units, 1 segment kept, 2 faults, 1 follower | types, 4 invariants, 1 action property, 2 liveness properties | holds, 405 000 |
| `log_long_event` | buffered, 2 events, one longer than a segment behind its marker | `SealedHoldsAnEvent` | violated: finding 3 |
| `log_segment_skipped` | synchronous, 3 events, 3 segments kept | `NoSegmentSkipped` | violated: finding 4 |
| `run_registry` | 2 runs of earlier days that shared a log, 1 run, the operator, 2 pids, 2 sets of bounds | 3 invariants, 1 action property | holds, 2.8 million |
| `redis_store` | 2 callers, 2 clients, 1 retry, a queue of 2, 3 puts, 1 drop | 2 invariants, 1 liveness property | holds, 2.2 million |
| `documents` | 5 816 pairs of a document and its surroundings, verified and run up to twice | 4 invariants | holds, 100 000 |

**Bounds.** A ring of two slots is the smallest the schema allows (`box.ts`, minimum 2) and is full
after one entry; one of four wraps with one, two and three entries in it, and can be rebuilt too small by one slot or by two. Two processes are enough to
have a transaction refused, aborted and retried beside another's commit; LMDB admits no more than one
writer, so a third one adds no interleaving. `WorkflowRun` needs three steps to have one between the
first and the last that both reads and writes, a queue that another run can fill, and
`MaxIteration = 3` so that a step runs again with its queue still full. That bound makes every loop of `WorkflowRun` finite, which the code does
not: `EndsUnlessHungOrLooping` says nothing of a run that reaches it, and `RunControl` has no such bound. In `SetupLock` three
processes are the least for a takeover (one judges, one dies or releases, one creates), and two
crashes let the second holder die too. In `LogFollower` segments of three units make the first one
full after three short events and every later one after its marker and two, or one of two units, so that the events
roll the log once or twice and, with one segment kept, retire a segment under the reader; the fourth and fifth buffered
event are what a seal holds and what is written behind the marker while a chunk is in flight. Two faults
allow a kill and a refused unlink in one behaviour. Events in the passing run fit a segment behind a
marker when the log is buffered; what happens when they do not is `log_long_event`. In `RunRegistry`, two earlier runs
give a pass something to choose between and a shared log to protect, two pids let one be recycled under
an entry, and a run's own pass overlaps the operator's; a tolerance of one tick and a step of one tick put the
clock at the edge. In `RedisStore` two callers and two clients are the least for a stale continuation to meet a newer
client; a queue of two is full, half full and empty; three puts overflow it or change its type. `MCDocuments` describes its families
of documents: every combination of strategies, seeds, owners and bindings of two keys over five
kinds of steps; layers of overrides; one fault at a time in the document; one at a time around it. Two runs
show what leftovers do. The counters that are capped are `MaxIteration`, `MaxCrashes`, `MaxLines`, `MaxFaults`,
`MaxSegment`, `MaxSkew`, `MaxPasses`, `MaxWrites`, `MaxDrops` and `MaxRuns`, each in a guard or a choice; no passing
run of `LogFollower` reaches its `MaxSegment`.

`MaxSkew` is more than a bound: the properties of `RunRegistry` hold while the clock is stepped by no more than
`START_TIME_TOLERANCE_MS`, and the assumption says so.

**Fairness.** `WorkflowRun` assumes that the event loop gets to every continuation: bootstrap
stages return, machine transitions whose actor has settled are taken, a timer fires, the supervisor
concludes. That the plugins of a document are imported in finite time is part of it: the import has no bound. Nothing is assumed of a handler, of
the answers of control-flow steps, of the operator or of other runs; the machine's
`RunTimedOut` is enabled only for a step that declares a bound. `SetupLock` assumes that a live
process makes its next call: `npm` ends and the wait has a deadline. `LogFollower` assumes that a turn
of the thread goes on, that the kernel writes what it was handed, that a buffer is drained when a seal or
the flush behind `run.end` waits for it, and that the reader polls; not that a buffer below `minLength` is
ever written otherwise. `RedisStore` assumes that timers fire (an attempt to connect ends one way or the other,
within a bounded number of retries) and that settled promises are taken up, and nothing of servers, callers or
`close`. No fairness is assumed of crashes, exits, or of LMDB.

**Deadlock** is checked in `lmdb_fifo`, `store_observer` and `workflow_run`. Everywhere else the system may
really stop: all processes have exited, the log is closed and the reader gone, the connection was closed, the document was refused.

### What the properties say

* `ImplementsBoundedQueue`: whatever processes do with puts, gets, commits and aborts, the rings are
  first-in first-out queues that refuse exactly when full or empty.
* `ReconstructionExact`, `PeekedInOrder`: an observer that knows no `queueSizeMax` still visits exactly
  the occupied slots of the ring it listed. What it hands out from a later snapshot is the queue as it then stands, from the oldest
  entry and in order, but for one gap: when the queue has wrapped in a ring that was rebuilt too small, the walk goes back to slot 0 at
  the rebuilt size and passes over the slots above (section 4). A queue nobody touches is shown whole.
* `StreamWellFormed`, `ConclusionHonest`: the event stream is that of one run and ends as the run ended. When the store cannot be
  opened, the stream ends with `run.start` (section 4), and in no other case.
* `ConsumersAgree`: the trace, the terminal in both modes, the registry, the error log, the summary and the exit code tell
  the same outcome and the same numbers of steps; every span is ended as its step did; a failure is told once. `RejectionUntold`, a part of it, says what each of them makes of a
  run whose store could not be opened.
* `StoredInOrder`, `DeliveredOnce`, `NothingLostSilently`: the outputs of completed executions reach the
  store once each and in order, are handed to one reader, and are missing only from a run that says so.
* `StopIsFinal`, `AbortEnds`: an abort is final and always ends the run.
* `ImplementsRunControl`, `EndsUnlessHungOrLooping`: the run goes the way `RunControl` describes, back only where a control-flow
  step sends it, and only two things can keep it from its end: a handler without a bound that does not return, or jumps back
  that take a step to `MaxIteration` executions, whatever number that is. The second is how a
  workflow that polls is meant to run; an operator stops it (`run.ts:742`).
* `SealedIsFinal`, `SealedInOrder`: once a successor exists a segment does not change; unless a process died it
  holds the events in order, in whole lines, behind its marker, and none is missing between two, whatever was buffered or
  held.
* `KeptFiles`, `RunEndIsDurable`: the number of files `logs.rotate` declares is kept, and a concluded run
  has every event on disk.
* `DeliveredOnce` (of the follower), `BegunIsFinished`, `FollowerCatchesUp`: readers see each event once, in
  order, finish a segment they have begun unless it is retired, and reach the end of the log. `ListingComplete`, proved and in no run: two stats tell what a scan of the directory would.
* `LiveRunsKept`, `EntriesMatchLogs`, `RetentionHonoured`, `DisplayHonest`: no pass removes the entry of a live run; a listed run has
  its log and an unlisted one leaves none behind unless something was cut short; what a pass keeps is what its
  bounds say; what is shown of a run, however late, is what became of it.
* `QueueHonest`: a Redis queue keeps its bound, its order and its elements, a `SET` writes over none that its probe could
  have seen, and what a caller was told of its value is true. `ClientTracked`, `CreateAnswered`: no open client is out of
  reach but in one named case, and every caller of `create` is answered.
* `SeedsFit`: seeds, overridden or not, that were accepted can be written, are exactly what the keys then hold, and can be
  taken by the steps that read them. `OwnershipKept`: no box is ever made here for a key another workflow owns.
  `BudgetHolds`: the figure `verify` prints bounds the bytes in the store after any run. `VerifyAgreesWithRun`: the two commands
  accept the same documents, but for four differences that are named, one of which lets run what `verify` refuses.
* `OverlapNeedsTheft`: creation, waiting and release admit one process at a time; the removal of a
  stale lock is the only way to two.
* `LockHasAnOwner`, `SuccessIsProvisioned`, `SetupEnds`: nobody holds a lock it has forgotten, nobody
  goes on without its plugins, everybody's auto-setup ends.

## 4. Findings

1. **A stale lock is removed by name** (`setup_lock_takeover`). What is unlinked is not what was judged,
   so that two installs can run in one folder. The shortest trace has no crash in it.
2. **The check is not repeated under the lock** (`setup_lock_second`). A process that checked early
   installs again what the winner has installed.
3. **A long event in a buffered log** (`log_long_event`). The line held for the new segment is checked
   against `maxBytes` again, behind the marker that `open` has just written; the new segment is sealed for it
   too, and so on. The event is never written, every roll retires older segments, and the run
   waits for the seal at its end. With the smallest `maxBytes`, 4096, a step output of 4 KB is enough.
4. **A first segment skipped** (`log_segment_skipped`). A reader that sees no segment 0 scans the directory
   and leaves 0 out of what it finds, also when 0 was created meanwhile.

Two more are in the behaviours of the passing runs, whose properties say how far they go:

* **A store that cannot be opened ends a run untold.** `BoxStoreLmdb.create` (`run-workflow.ts:765`) throws after
  `run.start`, outside of every stage (`OpenStoreThrows`): no `bootstrap.error`, no `run.end`, an entry that stays `running`, an
  empty error log, and `run.ts` never shuts the OTel session down, so that the span closed by the sink may not be exported.
  The process exits with 1. `run-workflow.ts:470` says "every exit routed through `producer`", and OBSERVABILITY.md:51 that `run.end`
  is emitted once. `ConclusionHonest` and `RejectionUntold` say that nothing else ends so, and what each consumer is left with.
* **A peek may leave entries out.** `store get` peeks in a later snapshot than the one it solved the size of the
  ring from. With a ring of four slots listed while empty at cursors 0, the size is rebuilt as two; when by the
  peek the tail is at 1, the head at 0 and slots 1, 2 and 3 are full, slot 1 is shown, slots 2 and 3 are not, without an error.
  `fifo-reconstruct.ts:2-4` calls the size sufficient to peek the box correctly, `rawbox-cli/README.md:803-804` promises every
  queued element, and OBSERVABILITY.md:228-231 has torn observations as a matter of Redis. `PeekedInOrder` says what is left: one gap,
  never at the head, and none in a queue nobody touches.

Met while modelling, without a property:

*The store and its observers*

* A lost reply makes a Redis push or `SET` that was executed look failed, and takes a popped entry with it. A client that
  gives up after a drop stays in the cache for the life of the process, and every later `create` shares it. A connection that fails late
  evicts whatever is cached under its name, which may be a later, good client (`ClientTracked` names the case). A queue
  created between `TYPE` and `SET` is overwritten. The diagnosis of a `WRONGTYPE` asks for the type again and may name the expected one.
  The Redis observer lists a queue drained between `TYPE` and `LRANGE` as an empty one. No runner opens this store yet.

*A run and its log*

* OBSERVABILITY.md:85-86 promises that no event of a successful run has severity `error`; `producer.ts:649` gives it to a
  step with a logical error, which a workflow may handle and end well.
* OBSERVABILITY.md lists `seed-override` among the stages that fail after `run.start`;
  `run-workflow.ts` calls `producer.start` after it, so that such a failure has no `run.start`, and no
  `run.end` either.
* A segment retired between a reader's `stat` and its `open` makes the read throw: `runs tail -f` and
  `workspace logs -f` end (`pc = "dead"`). `log-segments.ts:210` says that a missing segment is not an error.
* After a refused unlink, a reader on the segment that stayed looks for a successor that is gone and waits for
  ever; `listLogSegments` sees that segment alone. `FollowerCatchesUp` and `ListingComplete` except this.
* `ndjson-file-sink.ts:78-80` says that a segment may exceed `maxBytes` by its last line. It is sealed
  before that line; it exceeds `maxBytes` only by a long line, and by the marker in front of it.

*The registry*

* Entries are read first and probed later (`classify.ts:12-14`): a run that ends and exits in between is shown as `crashed`.
* A run killed while it rewrites its entry leaves a file no reader parses: it is never listed and never pruned
  (`registry-io.ts:71`). An entry is removed before its segments: a kill in between leaves logs no pass finds.
* With a shared `--log-file`, the files to spare are listed before anything is removed (`prune.ts:343-349`): a survivor that
  rolls in between, or a run whose entry is written after the listing, loses its live segment, where OBSERVABILITY.md:183 protects
  it. Two passes at once may each spare a shared log for the other's victim, which is then an orphan; a condemned run whose removal is refused
  stays listed while its log goes with another's.
* OBSERVABILITY.md:190 says that at least one entry survives a pass. With `keep: 0`, or `olderThanDays` alone, none does.
* A clock stepped by more than the tolerance makes a live run look dead, and a pass removes it (`pid-probe.ts:167`).

*Documents*

* `workflow verify` does not validate the workspace document, `workflow run` does; verify also finds plugins next to the
  workflow file (`verify.ts:782-789`), run does not (`run-workflow.ts:687-691`); Redis strategies pass verify and have no
  store in a run. The other way round, a plugin found only from the runner's own dependencies is refused by verify, on purpose
  (`verify.ts:113-115`), and loaded by a run, as its last resort (`plugin-discoverer.ts:242`), whose auto-setup does not install it
  either (`plugin-discoverer.ts:345`). `VerifyAgreesWithRun` excepts these four, of plugins the document declares.
* FORMAT.md section 2.2.2 says that a seed is the value of its key before the first step, on every run, and that `[]`
  seeds an empty queue. For a queue the seeding appends to what earlier runs left (`run-workflow.ts:787-800`): a later run starts with
  more, `[]` empties nothing, and the seeding may be refused as full. `SeedsFit` excepts later runs.
* The check for reads that cannot succeed counts `seed: []` as a supply, and ignores values an earlier version of the
  workflow left.
* A read across workflows uses the reader's strategy for the key; nothing compares it with the owner's. Such a read of
  a queue takes an entry out of the owner's box.

*Auto-setup*

* A waiter whose holder dies never reads the lock again: it polls until its bound and fails, where
  `rawbox-cli/README.md:303-306` says that the lock is taken over automatically. That happens only for
  processes that come later.
* `workspace setup` installs without taking the lock.

## 5. Proofs

A theorem holds for every value of the constants its module's assumption admits; `tlapm` checks all of them.

`LmdbStoreProofs`, for any set of processes, boxes and values and any sizes of at least two
(`RingAssumption`):

* `TypeCorrect`, `SlotsAlwaysMatch`: the invariant is `TypeOK /\ SlotsMatchCursors`. It is inductive:
  `TypeOK` alone says nothing of which slots hold an entry, and a put or get that keeps the slots in
  agreement needs to know that the cursor is in the ring. The lemmas on `FifoRing` reduce the modulo of the
  code to "the next slot, or the first", and show what a put and a get do to the occupied slots.
* `RingsAreQueues`: `Spec => ImplementsBoundedQueue`. Each action maps to the action of the same name of
  `BoundedQueue`, under the map from a ring to the sequence of its entries. The lemmas show that
  this sequence gets one entry longer, or loses its head, and that room and emptiness mean the
  same on both sides.
* `ReconstructionSound`: what an observer rebuilds is exact for every committed ring.
* `PeekKeepsOrder`: `PeekedInOrder`, from `IInv /\ Listed /\ PeekedInOrder`. The peek is of a later snapshot than the listing,
  so exactness does not help. What does is `Listed`, whose depth is that of a real ring: hence the rebuilt size is at most the declared one. A peek refuses cursors outside of the
  ring it believes in; inside of it, the walk goes along with the writer's or, when that wraps, goes back to slot 0 at the rebuilt size instead of the declared
  one: the slots between the two are the one gap there is.

`WorkflowRunProofs`, for any number and kind of steps, any queues with room for an entry, any other runs
that share them, and any number of iterations (`WorkflowAssumption`):

* `TypeCorrect`, from `Types`, which adds to `TypeOK` that every queue is there.
* `OutputsAreStoredInOrder`, from `Machinery`. Its heart is `Books`: *where the machine is* tells whether the last output is in
  the store (`Paid`) or still to be put there (`Owed`). `StoredInOrder` alone is not inductive, since a transaction commits while
  its state is entered and the machine learns of it later: in `syncingDb` and `exiting` it is `verdict` that tells, and
  `exiting` may try again only because a failed transaction leaves `Owed`. `Control` adds where the machine may be in
  each part of the supervisor's life, and that an interruption leaves it in `stopping`.
* `StreamReadsAsOneRun`, `RunEndIsHonest`, `LossIsReported`, from `Reporting`: `Machinery`; `StreamOK`, the shape of the stream,
  with the iterations the producer has handed out; `Framed`, which events there are in each part of the supervisor's life; `InFlightOpen`, the
  producer's step in flight is the one the stream has left open; and `TimedOut`. The last one is why a timeout stays the
  reason of the run: a handler that timed out has left nothing to store, so the transaction of `exiting`, whose error
  would replace it, cannot fail. One lemma per kind of event says what appending it does (`AppendStart`, `AppendEnd`, `AppendNote`,
  `AppendRunEnd`), one says that whatever transition the producer watches keeps `Telling` (`ObserveTells`).
* `RunFollowsControl`: `Spec => ImplementsRunControl`, from `Machinery`. Each action maps to one of `RunControl` or, for the stages that pass,
  the other runs and what the producer does, to a stutter; `last` is the index of `doneStep`.
* `NothingAfterStop`: the action property `StopIsFinal`, from the same invariant.
* `OutputsAreDeliveredOnce`: `DeliveredOnce`, from `Delivery == Reporting /\ Fresh /\ Ledger`. `Ledger` accounts for every execution and
  every queue: the output is nowhere yet, in the queue at one place, or handed to one reader. A put of the run is only harmless because of `Fresh`:
  the iteration whose outputs are about to be stored is not in any queue, nor in what was handed out.
* `ConsumersTellOneStory`: `ConsumersAgree`, from `Heard == Reporting /\ Told(stream) /\ Closed`. What a consumer has come to is a fold, which
  no step of the machine mentions, so `Told` says it from the stream alone: from which events it holds, how its last one ends
  the run and the step left open (`BridgeTells`, `SpansTell`, `TerminalTells`, `EntryTells`, `CountTells`, `LogTells`). `Fits` is
  when the producer appends what; one lemma per consumer says that an event that fits keeps what is told of it
  (`ToldAppend` has them together), by `FoldAppend` of `FoldTheorems`. `Closed` is what the stream cannot know: that a concluded run's `run.end` carries
  the outcome the exit code is computed from (`Verdict`), and that a step is left without a `step.end` by an interruption only. A run
  whose store could not be opened has `run.start` for its last event (`Framed`), from which `HeardRejection` tells what each
  consumer has come to.

`RunRegistryProofs`, for any runs, pids, log paths, sets of bounds and number of overlapping passes, and a clock stepped by no more
than the tolerance (`RegistryAssumption`):

* `PruningKeepsLiveRuns`: `Spec => LiveRunsKept`. A pass acts on what it read long ago, so the property cannot follow from
  the state alone. The invariant is `Base` (shapes; a live run holds its pid; runs not begun have no file), `FileFaithful` (the file of
  a run, torn or not, names its pid and a start time within the skew) and `Careful` of every pass: whatever was read of a run that is
  still there is faithful, and nothing of a live run is condemned. Hence a judgement, however late, finds the pid alive and
  started when the entry says, within the tolerance.
* `WhatIsShownIsSo`: `DisplayHonest`, from the same invariant with `Told`, what has become of a run at each place of its command, and `Final`,
  that a file with a final status is of a run that ended with it.
* `WhatAPassKeeps`: `RetentionHonoured`. What a pass keeps is computed, not accumulated, so that the proof is about `WithinAge`, `WithinCount`
  and `WithinBytes`: `Newer` is a strict total order, a finite set of runs has a newest and an oldest one, and each bound keeps an
  initial part of that order, so that the three together keep the smallest of the three.
* `EntriesAndLogsAgree`: `EntriesMatchLogs`, from `LogInv`. A pass spares the logs of runs that survive it, by a list it has made
  before it removes anything. `Removing` says that what it is about to unlink belongs to a run whose entry is gone
  and is not spared, and of a log of its own all that is left; `Sparing`, that the segments of every run nobody has condemned are spared.

`RedisStoreProofs`, for any callers, backends, attempts, sizes and writers (the assumptions of `RedisClients` and `RedisStore`):

* `OpenClientsAreTracked`: `ClientTracked`, with the one exception its definition names.
* `QueueIsBounded`, `ProbeProtects`: the script keeps the bound whatever else is done to the key, and a `SET` finds none of what
  its probe could have seen.
* `QueuesAreHonest`: `QueueHonest`, from `HonestInv == BoxInv /\ Kept /\ Telling`. `Kept` is that what was appended is in the queue, was popped or
  was wiped, in this order and each in one of them; `Telling` that a caller was told only what has happened. Neither can be kept without
  `Underway`: where the value of each call is between its commands, when it is not yet told of.

`LogProofs`, for any lengths of lines, numbers of events, sizes and numbers of segments, faults, logs synchronous or buffered (the
assumption of `LogSegments`). One invariant, `LogInv`, proves them all; it has the parts `Types`, `Files`, `Listing`, `Bytes`, `Order`, `FollowerTypes` and
`Follow`:

* `LogTypes`, `LogFilesKept`, `TwoStatsConclude`: `KeptFiles` and `ListingComplete` from `Files`, `Listing` and `Bytes`, which relate `w.index`, `w.live`
  and `w.bytes` to what is on disk at every place of a turn, between the unlinks of a retirement too, and after a kill at any of them.
* `SealedSegmentsInOrder`, `SealedMeansFinal`: `SealedInOrder` and the action property `SealedIsFinal`, from
  `Order == Queued /\ Later /\ Ordered /\ Complete`. The files alone are not enough: what
  counts is `LiveText`, the text on disk followed by the chunk in flight and the buffer. A write extends it by whole lines, the kernel and a
  flush leave it alone, a segment is left only when all of it is on disk. `Queued` says that the numbers of the lines to come go on from
  it, those of `pending` and of the rest of the turn included; `Complete`, that nothing is lost while the log is usable and no process
  has died. The exception is `Reordered`: behind the `flushSync` of `run.end`, a chunk in flight comes
  after the buffer, in the last segment and in none with a successor.
* `NoEventTwice`, `BegunMeansWhole`: `DeliveredOnce` and `BegunIsFinished`, from `Follow`: what a reader has of its segment is the
  beginning of what is on disk, and when it has seen a successor, that segment does not grow any more.

`SetupLockProofs`, for any set of processes, plugins, needs and crashes (`SetupAssumption`),
`TypeCorrect`, `OverlapIsTheft`, `LockIsOwned` and `SuccessHasPlugins`. `OverlapNeedsTheft` is not
inductive: the strengthening is `HeldUnlessRobbed`, a process in its critical section whose lock
nobody has removed is the one the lock file names. From it, two processes that were not robbed are
named by one file and are one process. `SuccessIsProvisioned` is inductive with the types, because plugins are only
ever added.

`DocumentProofs`, for any document and any surroundings, in which other workflows have boxes of their own (`ScenarioAssumption`: the document, with
and without overrides, is `Shaped`; `KeyAssumption`, `ValueAssumption`, `SiblingAssumption`: there are finitely many keys, handlers produce values,
`None` is neither a value nor a cursor, the boxes of the other workflow are boxes):

* `VerifyAndRunAgree`: the two pipelines, each decided by the passes it has, end alike but for the four differences: `FoundByBoth` is that
  a document resolves from other places too, unless it declares a plugin that is not there.
* `OverridesKeepValidity`, `OverridesKeepBudget`: merging the seed overrides changes no answer of `validateWorkflowType` and
  no figure: each pass reads of a document only what `Merged` leaves alone, or the presence of a seed.
* `OwnedReads`: a read declared as another workflow's goes to that workflow's box.
* `OthersAreLeftAlone`: `OwnershipKept`, from `OwnershipInv`. `OwnershipKept` speaks of boxes, and a run changes them by folds: the seeding
  over the entries of all seeds, which are a sequence of sequences, a step over its bindings. `PutsFold` and `GetsFold` say
  that whatever a put, or a get, keeps is kept by a transaction of them; they are proved by a least counterexample, from `FoldTheorems`. What is
  kept is `Kept`: every box is in the table, each of this workflow's is `EmptyBox`, or that of a key of its own and `Within` its strategy, and of the other workflow's only
  the queues it says it reads there change, by entries taken out. That a put never leaves the own boxes needs `SeedEntriesAre` (overridden or not, only seeds of own
  keys reach the seeding) and that what is written goes through the bindings of a step, whose keys `RunPasses` has seen.
* `VerifiedFigureBounds`: `BudgetHolds`, from the same invariant. `Within` is what one box may hold: the cursors of a ring enclose its slots, none of them
  under `head`, and every value fits. Such a box takes no more bytes than `BudgetForKey` (`BoxWithinBudget`), as an entry grows with its key
  and its value, page by page. Both figures are sums the library defines by folding over sets; `SumBounded` and
  `SumCompare` are what is needed of them, by induction on the size of the set as a least counterexample.
* `AcceptedSeedsAreWhatRunsStartWith`: `SeedsFit`, from `SeedsInv`, which says with `runs` when the boxes are still those of a store
  without leftovers. `FittingSeedIsSeedable` is where the checks of a document meet the guards of the store: a key of 79 bytes leaves
  room for the widest key of its queue, and the capacity a seed is checked against is one less than the slots of the ring. `OneKeySown` and
  `AllSown` say what the seeding leaves of such seeds: the first m of a queue's values behind m puts (`Filled`), and of the keys those
  seeded so far (`Sown`). That steps take what they read needs `FlattenHas`: no entry of a seed is missing from
  the sequence that `SeedDataAccepted` goes through.

`FoldTheorems`, for any operator: what `FoldLeft` of the community modules returns for an empty, an extended and a concatenated sequence. The
library defines a fold by a recursive function on sets of indices; what is proved first is that this function exists, and that its
choices do not matter.

Only model-checked is liveness (`AbortEnds`, `EndsUnlessHungOrLooping`, `SetupEnds`, `RunEndIsDurable`, `FollowerCatchesUp`,
`CreateAnswered`), which is out of the prover's reach; every invariant and action property the passing runs check is also proved.

## 6. Plan

Done: the store and its observers, the machine and the supervisor with their consumers, the log and its readers, the registry,
Redis, the setup lock, documents, and the proofs above. Left, in this order:

1. *The event channel*: log lines of abandoned handlers, and of runs that overlap in one process and restore each
   other's slot.
2. *Smaller pieces*: the merge of logs by time, the Redis observer, a `queueSizeMax` edited between two runs, heartbeats.

## 7. Not modelled, and why

* *JSON schemas* (`validation.ts`, `typebox-compat.ts`): whether one schema admits another is data. A schema is the set of
  kinds of values it accepts, and a compatibility check compares those sets.
* *Parsing* of YAML and JSON, plugin discovery on disk, path syntax: a document or a path is what it parses or resolves to, or fails.
* *The size of the volume in pages*: `BoxStrategies` counts bytes of keys and values; the pages of LMDB and the file it
  makes of them belong to LMDB.
* *OTel and the terminal*: which span ends with which status, and which lines are told, are modelled; metrics, wording,
  colours and batching are not.
* *The event channel* is one global slot; what is modelled of it is that events of one run reach the sinks in order.
* *Contract and definition caches, scaffolding, templates*: they write files from templates, or memoise pure loads; nothing
  in them depends on an order.
* `npm`, LMDB's own durability, Redis persistence and the operating system are outside of the repository: a transaction
  that commits is committed, a command is executed once or not at all, a file system call is atomic, a pid and its start time identify a process.
