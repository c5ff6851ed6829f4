# ta2mongo: models, checks and proofs

ta2mongo reads ThinkingData (TA) log lines from files, standard input or request bodies,
resolves each record to a `#user_id`, and writes users and events to MongoDB (or DocumentDB).
Several processes (daemons, gateways, one-shot commands) work on one database at once, and a
central document configures the filter of the running daemons.  This directory holds TLA+ models
of the parts that are concurrent, that fail half way or that depend on the order of things, from
the file on disk to the document in the database.

    tlc -config Pipeline.cfg MCPipeline      model-check one run
    tlapm PipelineProofs.tla                 check the proofs of one module

Every safety property and refinement that a run shows to hold is also proved, for every value of the
constants; liveness is model-checked.

## 1. The system

### Components, their state and operations

| Component | State | Operations | Modelled in |
|---|---|---|---|
| Pipeline strategy (`process/pipeline`) | source channel, worker channels, three batches per worker | dispatch with affinity and spilling, process a line, flush, cancel, return | `Pipeline`, `FlushThreshold` |
| Strategy interface (`process/process.go`) | none | Run, Stop | `Upload` (abstract) |
| Single and batch strategies (`process/single`, `process/batch`) | three batches | one write per line; size-bounded flushes | `Sequential` |
| Line processor (`process/core`) | counters | parse, filter, resolve, build the write model, recover from a panic | `Sequential`; one step, `Outcomes`, in `Pipeline` |
| Identity resolver (`dao/store/identity*.go`) | `id_mapping`, `id_counter`, two caches per process | Resolve: cache, lookup, create, bind, repair | `Identity` |
| Write models, bulk writes (`dao/store/writemodel.go`, `store.go`) | documents of `user` and `event` | 10 record types, BulkWrite with retry | `Store` |
| Publishing (`cfgsync/publish.go`) | the central document | set, append with optimistic retry | `CfgSync`, `ConfigStore` |
| Watcher (`cfgsync`, poll and change stream) | version guard, Ready, live filter | read, observe, subscribe, pump, reconcile, resubscribe | `CfgSync`, `ConfigStore` |
| Line sources (`source/stdin`, `source/httpbody`) | line channel | send lines, close | `SourceSend`, `SourceClose` of `Pipeline` and `Sequential` |
| File tailer (`source/tailer`) | tailed paths, a goroutine and a position for each | discover, start, reap; tail by polling, by events or both | `Tailer`, `Glob` |
| TA parser, routing key (`parser/talog`) | none | envelope, validation, flattening | `TALog` |
| Filter (`parser/filter`) | live filter holder | evaluate rules, swap | `Filter`, `Sequential`, `CfgSync` |
| Daemon (`role/daemon`) | run context, Ready gate, reporter, fd watchdog | start, gate, ingest, stop | `Roles` |
| Library engine (`role/api`, `client`) | connection, live filter | construct, index, Run, publish, Close | `Roles`, `Sequential` |
| Gateway (`role/gateway`) | server, one engine | concurrent uploads and publications, degraded mode, shutdown | `Roles` |
| Command line (`role/cli`) | none | one function per process | `upload` in `Roles` |
| Indexes (`dao/store/indexes.go`), connection (`dao/mongo`) | the indexes; the client | ensure one after the other; connect, ping, close | `Roles` |
| EJSON and SQL data API, static configuration, logging | none that lasts | translation of requests, loading | not modelled |

### How they interact

A role (daemon, gateway, command line) connects, ensures the indexes, and starts a source and a
strategy.  The tailer's goroutines, one per file, or another source, send lines into one bounded channel.  The dispatcher takes them out and puts each into
the bounded channel of a worker.  A worker calls the processor, which parses the line (stamping
`_ts`), asks the live filter, resolves the identity (up to six MongoDB calls, each a step of its
own) and returns a write model; the worker collects models and sends them with `bulkWrite`.
Workers of one process share the identity caches; processes share only MongoDB.  The watcher swaps
the live filter while workers use it, and opens the gate that a daemon's ingestion waits at; a gateway
publishes the document that it reads.  A cancelled context reaches the source, the dispatcher, the
workers and every MongoDB call that was started with it.

### What is hard, and what makes each component correct

* **Pipeline.** Goroutines meet at bounded channels, and cancellation may come between any two
  steps.  Correct means: no line is forgotten or handled twice wherever the cancellation finds it;
  an undisturbed run returns only after the last line is written; nobody blocks for ever; batches
  stay within their capacity; records of a user keep their order as far as the code can keep it.
* **Identity.** Check-then-act over several unsynchronised MongoDB calls by several processes, with
  one unique index where two would be needed.  Correct means: one user per account, one user per
  distinct id, bindings that are never rewritten, caches that agree with the collection, and a cold
  start that loses no record.
* **Store.** Concurrent, unordered, repeated batches on one document, with upserts that race.
  Correct means: nothing newer is overwritten by something older, the newest record stands, and
  counting records count once per attempt.
* **Configuration.** Publishers race on one document; the watcher sees events late, twice or never,
  and restarts.  Correct means: appends do not lose each other's rules, the live filter never goes
  back or becomes one that does not compile, Ready opens only on a stored document, and the process
  ends up on the last document.
* **Sequential strategies.** A write may be partial, a flush may be made with a context that is done,
  a line may panic, the filter may change between two looks at it.  Correct means: no loss without a
  count or an error, statistics that agree with the collections, a verdict of a filter that was live.
* **Tailer.** Files are moved, re-created and truncated under up to three goroutines (scanner, tail,
  library) and two readers that take turns.  Correct means: one goroutine per path, nothing twice,
  nothing passed over, everything written sent in the end, no descriptor kept, and a clean end.
* **Roles.** Processes start at once, fail at any step, are killed, or are told to stop while they
  wait.  Correct means: indexes before writes, a configuration before a gated daemon ingests, no
  connection closed under an upload or left open, no work left behind, and no state in which a signal is not heard.

## 2. The modules

### Upload: the promise of a strategy

The fate of every line: pending, then one of the three collections, filtered or lost, once.  A line
may be lost, or a record that the filter keeps may become a dead letter, only when the run was stopped
or the database fails (`Allowed`).  Return without a Stop requires that no line is pending.

### Pipeline and FlushThreshold

One action per select case or channel operation:

| Action | Code |
|---|---|
| `SourceSend`, `SourceClose` | `httpbody.go`, `stdin.go`: the scanning loop and the deferred close |
| `DispatchRecv`, `DispatchOffer`, `DispatchBlockedSend`, `DispatchCancelled`, `DispatchEOF` | `dispatch.go`: receive; the non-blocking sends, each full worker a step of its own; the blocking send and its two cases; the deferred close |
| `WorkerLine` | `worker.go`: receive, `Process`, add to a batch, compare with the threshold or with the interval |
| `WorkerTick`, `WorkerEOF`, `WorkerCancelled` | the ticker; the closed channel; `ctx.Done` |
| `WorkerFlush` | `flushBatch` of one collection; the three of a flush follow each other as `wpc` moves |
| `Cancel`, `Return` | Stop, SIGTERM or the watchdog; `wg.Wait` and the cancelled derived context |

A line is a number, and its class and routing key are constants.  Time is absent: the ticker may
fire, and the interval may have gone by, whenever a batch is not empty (a tick with empty batches
does nothing).  A bulk write stores all, some or none of its batch; it may fail when the database
does (`DBFaults`) and must fail when its context is done.  `FlushThreshold` is
`ComputeFlushThreshold` over the integers.  Panics of a worker or of the dispatcher, which
`logging.Recover` catches, are not modelled.  `RouteIndex` is taken to be a worker's index, as on
64-bit builds.  A source blocked in a read of standard input that never returns is not modelled:
`SourceClose` is fair.

### Identity

A worker's `pc` names the MongoDB call it makes next, so a call of any other worker may come in
between; everything between two calls is part of the step before.  `Resolve` starts a call and
reads the cache; `FindAccount`, `FindDistinct` are the lookups of `resolveFromDB`; `NextUserID`,
`CreateCounter` are the upsert of `nextUserID` with its two outcomes; `Insert`, `FindWinner`,
`Verify`, `DeleteOrphan` are the `atomicCreate...` functions; `BindDistinct`, `BindAccount` the
`atomicBind...` functions.  `CallFails` is an error before a call takes effect, `LostReply` one
after.  The unique sparse index on `#account_id` is in the guards of `Insert` and `Bindable`; there
is none on `#distinct_ids`.  `StableLookup` says which of several matching documents a `FindOne`
without a sort returns: the one inserted first (what a scan of one index key does as long as nothing
moves the documents) or any.

### Store

One document, of one `#user_id` or one `#uuid`, and the batches that write to it.  The document is
its `_ts`, the record its other meta fields are from, the record each data field is from (a field
that was unset keeps the record that unset it, as a history), and how often each counting or
collecting record was applied.  `Update` is a model whose filter matches, `NoMatch` then `Insert` or
`DuplicateKey` an upsert that finds nothing: the two steps of a server that does not lock the key in
between.  `TryAgain` re-sends the whole batch, `GiveUp` ends it (`MaxElapsedTime` or the context).
`lost` remembers the records that met a duplicate key although the document was not newer.
Assumed: no field is both counted and set as a whole (`FieldsAssumption`); users and events are not
mixed, since they are in collections of their own (`KindAssumption`).

### ConfigStore and CfgSync

`ConfigStore` is the promise: Set and Append are atomic and add one to the version; the live
document is only replaced by a newer stored one that compiles, or by the static baseline at a
restart.  In `CfgSync`, publishers make one database call per step (`SetWrite`, `SetReadBack`,
`AppendFetch`, `AppendWrite`, `AppendMiss`) and any of them may fail or lose its reply.  The watcher
subscribes first and reads afterwards (`Subscribe`, `FullRead`), then waits for the ticker (`Tick`,
of the poll backend or of the reconcile read), for the pump (`Deliver`) and for the end of the stream
(`StreamBroke`, `Resubscribe`).  The pump takes an event and the document as it is at that moment
(`PumpNext`), errs or panics (`PumpFails`).  The environment loses events, restarts the process,
writes a filter that does not compile or a subtree off the allowlist, which later writes of the
filter leave where it is (`Tamper`), and deletes the document (`Delete`).  A full read and its
observation are one step: both happen in one goroutine, and what comes between them can only make
the document read an older one, which `Deliver` already exercises.

### Sequential, TALog and Filter

`Sequential` is one `Engine.Run` with the single or the batch uploader: `Run` starts it, `Receive`,
`EndOfLines` and `ContextDone` are the cases of its select, `Judge` and `Resolve` the two halves of
`Processor.Process` between which the filter may be swapped, `Panic` what its deferred function
makes of one, and `BeginWrite`, `EndWrite`, `Flushed` a flush, collection by collection.  `Outcome` is
what a bulk write leaves: all, some or none of the batch, an error or none.  Counters are counted
where the code counts them and `Answer` is what Upload returns.  A source may end
early (`readable`).  A line is a JSON object; what it is
comes from `ParseLine` of `TALog`, and what the live filter says from `Keep` of `Filter`, in which an
expression is what it evaluates to on each record.

`TALog` is `ParseLine`: the envelope keys in their order, encoded or nested, validation by type, the
promotion of properties, and the identities of the envelope that fill in for those of the payload;
and `extractRoutingKey`, which works on the same line without parsing all of it.  `RecordComplete` and
`RoutedByIdentity` say what must come of it and are evaluated on all objects of a bound.

### Tailer and Glob

`Tailer` is the tailer at one path.  The scanner's steps are `Discover`, `ReapAndStart`,
`Rescan` (the ticker) and `StopScanning`, with `CloseOut` for the wait and the close.  Each tail goroutine has a `pc`:
poll mode opens, scans, stops at the end of file, sleeps, and compares sizes and inodes; event mode
is a library handle and a select; hybrid mode adds a ticker that drains by polling what the library
missed and stops the library to read a replaced file.  The library (`hpcloud/tail`) is external and is
modelled as the code uses it: it opens, reads, sends on an unbuffered channel, may notice a change or
not, may die, and its Stop waits for its goroutine.  A line is two units so that a half-written line
exists.  The environment creates, unlinks, writes and truncates; the consumer may stop receiving.

`Glob` is discovery: `doGlobMatch` with `**`, `globBaseDir` and `discoverFiles`, compared with a
reference definition (`Covers`) on all patterns and paths of up to three segments.

### Roles

Each process has a `main` that names its next step.  `Configure`, `Connect`, `Build`, `EnsureIndex`
(one collection per step), `StartRun`, `Begin` and `Close` are shared, with the order in which the
daemon and the engine do them; `Gate`, `Ingested`, `Reported`, `Report` and `Idle` are the daemon's;
`Accept`, `Publish`, `ClientGone`, `Shutdown`, `Drained` and `GiveUp` (10 s) the gateway's.  An upload
is a set of lines that settle one by one, as `Upload` promises; a watcher replaces the live version by
a later one, as `ConfigStore` promises.  Of an answer only that it was given is kept.  `Signal`, `Kill` and `Leak` (too many open files) come at any
time.

## 3. The runs

| Run | Instance | Shows |
|---|---|---|
| `pipeline` | 3 lines of 2 users (one unparseable, one filtered), 2 workers, channels of 1 | `NoLineVanishes`, `NoLineTwice`, `CompleteReturn`, `RunReturns`, and `ImplementsUpload` (refinement of `Upload`), with cancellation at any point |
| `pipeline_faults` | 3 records of 1 user, tailed, failing lookups and writes, channels of 2 | `BatchesBounded`, `InOrderUnlessFull` |
| `pipeline_batch_lost` | as `pipeline`, tailed | violates `NoBatchLost` |
| `pipeline_newest` | 3 records of 1 user, channels of 1 | violates `NewestWins` |
| `identity` | 2 processes, 2 accounts, 1 distinct id: 3 calls that may fail, on any lookup result; and 4 calls of 3 workers with one id each | `AccountOneLiveUser`, `OneUserPerID`, `BindingsOnlyGrow`, `NoColdStartFailure`, `ResolveEnds` |
| `identity_stale` | the latter with records that carry both ids | violates `CacheNeverStale` |
| `store` | 2 batches of up to 2 records out of every type, 2 attempts each, failing at any point | `NoRollback`, `NewestSticks`, `AddedPerAttempt` |
| `store_per_field` | 2 `user_set` records with different fields | violates `PerFieldNewest` |
| `cfgsync` | up to 2 publishers, 2 publish calls, both backends, faults, a restart, a hostile write, a deletion; and an append whose document is deleted and replaced by one of the same version | `AppendReported`, `ReadyMeansApplied`, `Converges`, and `ImplementsConfigStore` (refinement of `ConfigStore`) |
| `tailer` | each mode with 1 or 2 files at the path, up to 2 lines, with a truncation, a line that is too long (poll mode) or a library that dies | `OneTailPerPath`, `NoLineAgain`, `NoGap`, `Delivered`, `FdReleased`, `Shutdown`; and `DiscoveryExact` |
| `sequential` | 4 lines of every kind, both modes: failing and cancelled; followed, with 2 swaps among 3 filters; with a panic; with a line that is too long | `AnswerIsTrue`, `LossIsCounted`, `CountersAddUp`, `VerdictFromLiveFilter`, `RunReturns`; and `RecordComplete`, `RoutedByIdentity` |
| `roles` | a gateway and a gated daemon; a daemon alone; a gateway with 3 requests; a command line and a daemon that start at once; all of them without a database | `IndexedFirst`, `ConnectionLifetime`, `AnsweredBeforeExit`, `GatedIngest`, `StopEnds`, `GateOpens` |

The configurations of one module that differ only in their environment are the `Setups` from which
its Init chooses, so that one run covers them all.  Each module's `TypeOK` is checked with it: by
itself in `pipeline`, `identity`, `store` and `cfgsync`, and as the first part of `OneTailPerPath`,
`CountersAddUp` and `IndexedFirst` in the other three.

### Bounds, and why they are enough

* `NLines = 3`, two workers, channels of one slot: one line in each worker channel and one in the
  dispatcher's hand is the blocked dispatcher; two lines of one user are enough for a reordering;
  `MaxBatch = 2` with three records of one user is enough to overflow a batch.
* In `Identity`, `calls` is three or four: two that race and a third that finds what they left; the
  fourth reads the caches afterwards.  Two processes are enough because more of them
  differ only in their caches; the third worker shares a cache with the first.
* `MaxAttempts` in `Identity` is 3 where the code has 8: a lost race is repaired by the next attempt,
  so fewer attempts make `NoColdStartFailure` the stronger claim.  In `Store` it stands for
  `MaxElapsedTime`, and two attempts are enough to apply a record twice.
* Two publish calls on a stored document are two appends that race.  With `Attempts = 2`
  (8 in the code) exhaustion is reachable with two calls; a setup bounds the calls, faults, hostile
  writes, deletions and restarts.  `CHECK_DEADLOCK FALSE` in `CfgSync`: with the poll backend and everything published nothing new may
  happen for ever, and a refused first subscription stops the watcher for good.
* `Tailer`: two files are one that is replaced, and a reader that holds the old one; two lines are one
  that is half written and one that follows; two possible goroutines are enough to see that there is
  only one.  A unit's sends are counted up to 2, which is once too often.
* The deletion in `CfgSync` that fools an append takes a third call and a second hostile write, so that
  it has a setup of its own, without faults or a restart.
* `Sequential`: a batch size of 2 with four lines has a full batch and a rest, and 3 has a batch that
  only the end flushes; two swaps come before and between the two looks at the filter.
  `CHECK_DEADLOCK FALSE`: a run that has returned, or that waits for a source nobody feeds, stops.
* `Roles`: one line before and one after a failure are enough to lose one; three requests are two
  uploads and a publication at work when the gateway is told to end.  `CHECK_DEADLOCK FALSE`: processes exit, and an idle
  daemon that nobody signals waits for ever.

### Fairness

Goroutines are scheduled, so each process of a model (source, dispatcher, worker, publisher,
watcher, pump, server) is weakly fair as a whole, never a single select case.  The exception is
`Tailer`, where the case `ctx.Done` of a select that is reached again and again is strongly fair, since
Go chooses among the ready cases at random.  Nothing makes the library notice a change to a file.  The tickers tick.
Nobody has to cancel, publish, call Resolve or restart.  Failures need no fairness and are bounded
in number where a property says that something ends, because otherwise a database that always fails
refutes it.

## 4. What does not hold

These runs end in a counterexample on the code as it is:

* `pipeline_batch_lost`: a flush under way when the run is cancelled uses the cancelled context
  (`worker.go:137`), its write fails and the batch is reset, although the final flush of the same
  worker takes a background context so that "remaining data is written" (`worker.go:147`).
* `pipeline_newest`: `_ts` is stamped when a worker parses the line, and a line that spilled to an
  idle worker is parsed before an older line of the same user that waits in the affine channel.  The
  older record then has the later `_ts` and wins, against `report.go:94`.
* `identity_stale`: a worker reads a document and binds it or caches it before its creator deletes
  it as an orphan (`identity_atomic.go:119`); the cache entry stays, against `identity.go:54`.
* `store_per_field`: the `_ts` guard skips a record as a whole, so the fields that the newer record
  does not carry are lost when it arrives first, against "equivalent to the former per-field `$cond`
  pipelines" (`writemodel.go:46`).

Divergences that the models show on the way and that no run is spent on:

* On cancellation the lines queued in the channels are not processed (`worker.go:146`), while
  `report.go:112` speaks of draining and flushing the pipeline.
* `atomicBindDistinctToAccount` does not check that the distinct id is free
  (`identity_atomic.go:172`), so two processes can bind it to two accounts, against `identity.go:20`.
* The orphan is deleted by `#user_id` alone, so a document that was bound to an account in the
  meantime is deleted with its binding; the account then gets another user.  This is why
  `OneUserPerID` is stated for records with one id each and `AccountOneLiveUser` for all.
* An upsert that loses the race to create a document is reported as "a newer record won"
  (`store.go:144`) although it may be the newer: `NewestSticks` excludes it with `lost = {}`.
* `metaMaxUpdate` says `$max` for `_ts` and `#time` (`writemodel.go:58`), but only `_ts` gets it.
* A configuration document that is deleted and published anew starts at version 1 and is ignored by
  a running watcher until its version passes the old one; `Converges` states that exception.
* For the same reason the version that an append compares (`publish.go:170`) does not identify what it
  read: when the document is deleted and another reaches that version meanwhile, the append replaces
  the other's filter, next to which a subtree off the allowlist may now stand, and reports success.
  `AppendReported` and `ImplementsConfigStore` have the exception (`deletes`).
* When the account's document is deleted as an orphan between the duplicate key error and the search for the winner
  (`FindWinner`), the loser has nothing to adopt and its Resolve fails with that error.  It takes records with both
  ids; `NoColdStartFailure` is for records with one.
* A `track_overwrite` whose `_ts` is equal to that of the newest record passes the guard (`$lte`) and
  takes its fields out; `NewestSticks` (`Newest`) excludes the tie.
* A document with a subtree off the allowlist, which only a write past cfgsync or a newer version can
  store, is applied in part (`registry.go:72`): its filter is live although "keeping last-good" is
  logged.  A daemon that starts on it never gets through its gate, append mode refuses it, and set
  mode does not remove the subtree, so that this stays so until the document is rewritten by hand.
  `Converges` says ready only of documents without one.
* `LossIsCounted` says all that single mode promises: a failed write is counted, `Run` returns nil
  (`single/uploader.go:97`) and Upload answers the record as written.  `AnswerIsTrue` is for batch mode.
* The last flush of a cancelled batch run has the cancelled context (`batch/uploader.go:110`), so that
  its batch is lost, while `batch/uploader.go:61` says that it is flushed on exit; the error is returned.
* A panic late in `Process` counts its line both as written and as a dead letter; `CountersAddUp` has
  the exception.
* Stop before Run has no effect: Run makes its own cancellable context when it starts.
* An upload whose context ends may be answered without an error and with partial counts.  In pipeline
  mode Run always returns nil (`pipeline/uploader.go:45`).  In the other two the source closes its
  channel when the context ends, and a run that sees this first (`single/uploader.go:59`) returns nil with
  lines unread, against "is drained (returns nil) or ctx is cancelled (returns ctx.Err())"
  (`single/uploader.go:47`).  `AnswerIsTrue` therefore speaks of the whole source only when the run was
  not cancelled, and `Roles` says that a request is answered, and not how.
* A line over 1 MiB on standard input ends the source (`stdin.go:55`): the rest of the input is dropped
  with a warning in the log, and the upload succeeds.  `AnswerIsTrue` excepts what follows such a line.
* A configuration document without a filter, which only a write past cfgsync can store, is applied as
  nothing at all and opens Ready (`registry.go:72`, `cfgsync.go:145`): a gated daemon then ingests with
  its static filter.  `CfgSync` never stores one, so `ReadyMeansApplied` does not speak of it.
* Poll mode sends an unfinished last line at the end of file and its continuation as another line,
  although the comment at `tailer.go:485` says that the position is set back.
* Hybrid mode starts at the end of the file that it finds (`tailer.go:622`), so that what was written
  before is never sent, also to a file that was just created; `Delivered` leaves it out (`skipped`).
* In hybrid mode a line that the library has in hand when the file is found replaced is thrown away
  (`stopTail`), and `drainByPoll` reads the new file only, although the comment at `tailer.go:522` says
  that such lines are read again.  `NoGap` is stated for the other modes.
* A file that replaces another between `TailFile` and `os.Stat` is taken for the one the library has
  open (`tailer.go:681`); `FdReleased` excepts it.
* The gateway waits for no configuration, installs no signal handler, and closes its connection under
  the handlers that still run after 10 s; `ConnectionLifetime` excepts those.

## 5. The proofs

For each safety invariant, action property and refinement that a passing run checks, a theorem states
it for every value of the constants that satisfies the module's assumptions.  These say what sort of
value a constant is, and where it matters how they are related: the batch sizes are positive and in order
(`Pipeline`; the accessors of the config see to that), at least two attempts are made (`Identity`; 8 in the code),
a record is in one batch and a line in one job (`Store`, `Roles`), a document is of users or of events
(`Store`), publishers publish filters that are well-formed (`CfgSync`), a line source is a sequence,
a tailer has a goroutine to start, and in hybrid mode no line is over `maxLineSize` (`Sequential`, `Tailer`).  TLC evaluates all of them on the runs' instances.

Each module follows one scheme: lemmas on the operators; the invariant, a conjunction of named parts; a
lemma for each action, or for each kind of step that several actions make (in `CfgSyncProofs` and
`RolesProofs`); and the theorems, which combine them.

### PipelineProofs and PipelineRefinement (about `Pipeline`, `FlushThreshold` and `Upload`)

| Theorem | Property | Inductive invariant, and why it is needed |
|---|---|---|
| `TypeCorrect` | `TypeOK` | `TypeInv` adds that the dispatcher holds a line exactly while it offers it or blocks on it (`HandOK`); without it a send could append line 0 to a channel |
| `LinesAccounted` | `NoLineVanishes` | `Covered`: every line is `Somewhere`, split place by place; each action moves lines between two places |
| `ReturnIsComplete` | `CompleteReturn` | `QuietInv`, for undisturbed runs: channels close in order, source first (`EndInOrder`); a worker on its final flush has nothing in its channel and no dispatcher ahead of it (`LastFlush`).  `CleanInv`: without failures, what left a batch or a channel is where its class says |
| `BatchesStayBounded` | `BatchesBounded` | `RoomInv`: a worker that may receive has room in its batches.  It rests on `ThresholdBounded`: what `ComputeFlushThreshold` computes, with its sanitizing, interpolation and rounding, is at most `MaxBatch` |
| `LinesHandledOnce` | `NoLineTwice` | `InSourceOrder`: every channel is in source order, and what is further along is earlier in the source; and `AtMostOnce`: a line is in one place.  The second needs the first: that a line moved out of a channel is not also further back in it, follows from the order |
| `PipelineKeepsPromise` | `ImplementsUpload` | step simulation: the places are disjoint (`FateReads`), a fate is one that `Upload` allows (`ClassInv`, `CleanInv`), `stored`, `filtered` and what was lost only grow (`StepGrows`), and an unstopped run that has returned leaves nothing pending |
| `UserKeepsOrder` | `InOrderUnlessFull` | `RouteInv`, while no channel is full: a line past the source is on the way to its affine worker or parsed, and the stamps are what has been parsed so far |

### StoreProofs

| Theorem | Property | Inductive invariant, and why it is needed |
|---|---|---|
| `TypeCorrect` | `TypeOK` | proved with the next |
| `NeverRollsBack` | `NoRollback` | `Dated`: no field is from a record newer than the document's `_ts`.  The guard compares a record with `_ts` only; this makes the comparison one with every field |
| `AppliedPerAttempt` | `AddedPerAttempt` | `AddInv` counts a record against the attempts of its batch: one less while it is still to be sent |
| `NewestIsKept` | `NewestSticks` | `TsInv`: the document's `_ts` is that of a record; `StickInv` follows the newest record from its write: nothing admitted later is older than its fields |

### IdentityProofs

| Theorem | Property | Inductive invariant, and why it is needed |
|---|---|---|
| `TypeCorrect` | `TypeOK` | `CountInv`: the counter is never ahead of the calls, of which each takes at most one id; it takes a count of the workers that may still take one |
| `BindingsGrow` | `BindingsOnlyGrow` | `FreshInv`: an id that the counter gave is one worker's until its document is inserted, so that an insert replaces none |
| `AccountHasOneLiveUser` | `AccountOneLiveUser` | `BoundInv` over `Claims`, which are all that documents read, caches and answers say of an id: a document that anybody took for an account's is that account's, or deleted.  `OwnInv`: a worker deletes no document but the one it inserted |
| `EachIDHasOneUser` | `OneUserPerID` | `OneIDInv`: documents of accounts are never deleted; `RankInv`, `LedInv`: with stable lookups all claims on a distinct id are on the document that was inserted first, which nobody deletes as an orphan |
| `ColdStartSucceeds`, `CounterRaceHarmless` | `NoColdStartFailure` | `OneIDInv`: the loser of a race finds the winner's document.  `TypeInv` says that a worker has lost no race before it creates the counter, so that one attempt is left; the second theorem states that for records of any kind |

### CfgSyncProofs

| Theorem | Property | Inductive invariant, and why it is needed |
|---|---|---|
| `TypeCorrect` | `TypeOK` | `TypeInv` adds that an append that goes on has attempts left |
| `ReadyIsApplied` | `ReadyMeansApplied` | `Known`: every document in the hands of a publisher, the pump or the stream was stored; `LiveInv`: the live filter is the baseline or such a document, which compiles, and no newer than the version guard |
| `AppendTruthful` | `AppendReported` | `AppendInv`: with `VersionsInv`, which says that until a document is deleted the version identifies it, so that the write that matched the version wrote the merge with what is stored |
| `KeepsConfigPromise` | `ImplementsConfigStore` | step simulation with the same invariant: a conditional write is `Append` because what was read is what is stored; an observation is `Apply` of a newer document because the guard is no older than what is live |

### SequentialProofs

`CountersSum` (`CountersAddUp`), `LossesAreCounted` (`LossIsCounted`), `AnswersAreTrue` (`AnswerIsTrue`)
and `VerdictsAreLive` (`VerdictFromLiveFilter`) follow from one invariant, since each step moves a line
and the counters together: where a line can be at each place of the loop (`BatchInv`), that a counter is
the number of lines it stands for, written or waiting (`LedgerInv`), how far the counters may lag
behind a line in hand (`SumInv`), what a lost line leaves behind (`LossInv`), and what the loop knew when
it ended (`EndInv`).  An answer alone says nothing of the steps that led to it.

### RolesProofs

`WritesAreIndexed` (`IndexedFirst`), `ConnectionOutlivesUploads` (`ConnectionLifetime`), `WorkIsAnswered`
(`AnsweredBeforeExit`) and `GateHolds` (`GatedIngest`).  What a process may do at a place of its main
goroutine depends on what it did before: `PlacedInv` says whether it has a connection, indexes, a reporter
there.  Its requests outlive that place: `ServesInv` says what their process must have and keep.
`FateInv` ties lines to both.  `ServesInv` is what `WorkIsAnswered` and `ConnectionOutlivesUploads` rest
on: a request at work keeps its process from closing, but for a gateway that gave up.

### TailerProofs

`OneTail` (`OneTailPerPath`), `NoGapLeft` (`NoGap`) and `NoLineComesAgain` (`NoLineAgain`).  Which lines
were sent says nothing of where a reader stands, so the invariant ties the two: a reader's buffer and the
text in its hands are pieces of its file right before its position (`Reading`); all that lies before them
is sent, where nothing may be passed over (`Gapless`); nothing behind them is, where nothing may come
twice (`Repeatless`).  When readers take turns the position is handed over in `lastSize` (`Standing`), and
lost only with the file (`Vanished`).  `TailInv` (the path's entry is the goroutine that lives) gives the first theorem,
and the others that no second goroutine reads beside it.  TLC checked this invariant on the setups of
the run before it was proved.

### What the proofs brought to light

These stand in sections 2 and 4, and the models and properties have been corrected:

* `Upload` allowed too little and too much: a stopped run may lose a line of any class before it is looked
  at, and a record that the filter drops never becomes a dead letter.
* The reply of an append and the atomicity of publishing rest on versions that identify a document, which they
  do only until one is deleted.  TLC had not been given enough calls to see it.
* `NoColdStartFailure` is false of records with both ids, `NewestSticks` of two records with equal `_ts`,
  one of them a `track_overwrite`.

### What is only model-checked

Liveness (`RunReturns` of `Pipeline` and `Sequential`, `ResolveEnds`, `Converges`, `Delivered`,
`FdReleased`, `Shutdown`, `StopEnds`, `GateOpens`), which needs fairness and ENABLED and is beyond the proof
system here; and what `DoGlobMatch` and `ParseLine` compute (`DiscoveryExact`, `RecordComplete`,
`RoutedByIdentity`), which are recursions over data and are compared with their references on bounded
inputs.

## 6. Not modelled, and why

* The EJSON and SQL data API: stateless translations of a request into one driver call, whose
  correctness is one of syntax.  The database calls that matter to configuration are in `CfgSync`.
* Static configuration, option structs of the client package, logging: loaded or set once.
* The language of filter expressions, a third-party engine, and the rewriting of `#name` for it; JSON
  decoding; conversion of Windows and WSL paths.
* HTTP decoding and the gateway's other routes; the command line's other functions, each one engine
  call and a print.
* The dead-letter collection beyond its batch: plain inserts, doubled by a retry.
* Lines over `maxLineSize` in hybrid mode: the library cuts them into pieces, each of which moves the
  position by its length plus one (`tailer.go:710`), so that it drifts ahead of the file.
* What a request is answered with in `Roles`; counts and errors are in `Sequential`.  The daemon's return
  on an error of its uploader (`report.go:168`), which never returns one.
* A record that loses to another writer's inside a bulk write (`store.go:144`) is written as far as
  `Pipeline` and `Sequential` can tell; what becomes of it is in `Store`.
* The time that a pipeline worker spends on a line between its receive and the comparison of its batches
  with the backlog: both are one step (`WorkerLine`).
* Panics of a pipeline worker or of the dispatcher, which `logging.Recover` catches.
* Resharding or failover of MongoDB.  The server is a sequence of atomic calls.

* Of the hazards found in the code, these have no property: the modulus of a negative hash on a 32-bit
  build (`routing.go:47`); the dead-letter batch, which may outgrow its capacity when many lookups fail
  (`worker.go:113`); a `user_set` that brings a deleted user back (`writemodel.go:166`); a restarted
  daemon that reads its files again and stamps old records anew (`parser.go:90`); a position behind a
  half-written line (`tailer.go:485`).

## 7. Plan

The system is modelled, and what its runs check of safety is proved.  What may still be added:

1. Of `Roles`, that an upload keeps the promise of `Upload` line by line, and that `live` moves as
   `ConfigStore` promises: both are built into its actions now.
2. Of `Sequential`, a refinement of `Upload` with the fate of each line; panics and partial writes
   would have to be among its failures.
3. Of `TALog` and `Filter`, the lemmas that need no recursion: which envelope keys win, and that a line
   whose key is extracted is routed alike whatever else it holds.
4. The safety half of some of what is checked as liveness, such as that a goroutine whose `ctx.Done` is
   ready always has a step.
