# Verification of rocmProfileData

rocmProfileData traces GPU programs: `librpd_tracer` is loaded into the
application, vendor profilers and range APIs call it, and every event becomes a
row of an SQLite file that several processes, and several nodes, may share. This
directory holds TLA+ models of the tracer, TLC runs over small instances, and
TLAPS proofs about its tables, storages, ranges, life cycle, clock, shared file
and network.

Contents: 1 the system; 2 modules and code; 3 what the runs check; 4 fairness;
5 proofs; 6 where the code falls short; 7 what is left out; 8 plan.

To reproduce: `tlc -config BufferedTable_direct.cfg MCBufferedTable` (section 3
pairs module and configuration), `tlapm BufferedTableProofs.tla` (section 5 lists
the proof modules; each takes one to four minutes, `ProfilerProofs` a quarter of
an hour).

## 1. The system

| part | state | operations | talks to |
|---|---|---|---|
| **Row tables** (`BufferedTable`, `OpTable`, `KernelApiTable`, `CopyApiTable`, `StackFrameTable`, `CounterTable`, the string tables; `SqliteBackend`) | ring with `m_head`, `m_tail`, `flushRequested`, `done`, `workerRunning`; a temporary and a main table | `insert`, `flush`, `finalize`, worker `work`/`writeRows`, `flushRows` | called by sources and `Storage`; one condition variable for everybody |
| **Api table** (`ApiTable`, `createOverheadRecord`) | the same ring | `insert` that may insert, worker that inserts | itself |
| **Ranges** (`RoctxDataSource`, `NvtxDataSource`, `RlogDataSource`) | one stack per thread, `active`, `s_resumeTime`, cached string ids | push, pop, mark, thread exit, start, stop, drain, reset | `ApiTable`, `StringTable`, `Logger` |
| **Logger** | `m_activeCount`, `m_storage`, autoflush thread, `m_done` | `rpdstart`, `rpdstop`, `rpdflush`, `resetStorage`, `finalize` | starts and stops every source, owns `Storage` |
| **Remote** (`remote/Remote.cpp`) | `refCount`, loaded library | two signal handlers | `Logger`, on any thread |
| **DbResource** | a row of `rocpd_metadata` | `tryLock`, `unlock` | other processes through the file |
| **Session and schema** (`Schema`, `MetadataTable`, `Storage`) | tables, session counter | `ensureSchema`, `createSession`, open | other processes through the file |
| **Delegate** (`RemoteDataSource`) | connections, a queue per table, flush sequence numbers | accept, receive, write, `flush`, `end` | peers (`NetWriterBackend`), `Logger` |
| **Sending side** (`NetWriterBackend`) | socket, pending flush | `writeBatch`, `flush` | the delegate |
| **Strings** (`StringTable`, `UStringTable`, caches) | map of ids, per-thread caches with a generation | `getOrCreate` | sources, tables |
| **Clock** (`ChronoSyncDataSource`, `Firefly`, `Utility`) | offset and drift in shared memory behind a seqlock; a ring of measurements | `clocktime_ns`, `update`, hand-over between processes, probes, `firefly_run` | every timestamp; another node over UDP |
| **Profiler sources** (`RocprofDataSource`, `RoctracerDataSource`, `CuptiDataSource`, `ClrDataSource`) | correlation maps, thread_local times, counter sets, high-water mark | callbacks on application and library threads, batches, `flush` | tables; driven by a vendor library |
| **Metrics** (`AmdSmiDataSource`, `MonitorTable`) | last readings, open runs | sampling thread, `startTracing`, `stopTracing`, `flush`, `endCurrentRuns` | the monitor table |
| **Call stacks** (`call_stacks.py`) | none | replay and join over a finished file | the file |
| **Other Python tools, RTL, markers** | none | reports, bindings | the file |

What makes it hard, and what would make it correct:

* **Tables.** Any number of threads insert while the worker writes with the mutex
  released, all asleep on one condition variable woken with `notify_one`. No row
  may be overwritten before it is written; no sleeper may be left behind; a flush
  must show what was inserted before it; the end must drain everything.
* **Api table.** It feeds itself. Its worker must still come to rest and its
  drain must end.
* **Ranges.** A control call meets threads at any point between push and pop.
  A range must be recorded once, rows must nest, a row's string ids must belong
  to its storage, and a drain must not touch the stack of a thread that exited.
* **Logger.** Windows of several threads overlap, the autoflush thread uses the
  storage without a lock, and the exit of the process reaches `finalize()` along
  several ways at once.
* **Remote.** Two counts, one here and one in `Logger`, must agree, and the
  handlers run on threads that hold locks.
* **Shared file.** SQLite's exclusive transaction is the only lock between
  processes, and processes die.
* **Profiler sources.** The library decides in which order calls, operations,
  counters and retirements are reported, and where a batch ends; stops and swaps
  come in between. A row must have the data, times and ids of its own call, and an
  operation one row.
* **Metrics.** Runs of one metric must not overlap, though three threads end them.
* **Clock.** A reader must never combine two updates, while the writer changes and
  the memory is replaced; an offset must be made of the times of one round, over
  a network that loses datagrams; an outlier must not be used, a step must.
* **Delegate.** Four kinds of threads are stopped one after another while peers
  come and go; a flush has a timeout. The sender's two threads share one socket.
* **Call stacks.** Two ways to compute one table must agree, ties included.

`PROJECT.json` lists these hazards line by line with the properties that
cover them.

## 2. Modules and code

All state is in the source's names where it has one. One action stands for one
critical section or one step between two points where another thread can see the
difference; `PROJECT.json` maps each definition to its lines.

| module | models | variables ↔ code | actions ↔ code |
|---|---|---|---|
| `TableLog` | abstract: what a table promises | `accepted`, `stored`, per caller `target` and whether it `waits` | `Accept`, `Store`, `Call`, `Publish` |
| `BufferedTable` | `BufferedTable.cpp`, `OpTable.cpp`, the temporary table | `head`/`tail` = `m_head`/`m_tail`; `waiting` = sleepers on `m_wait`; `owner` = holder of `m_mutex` across `flushRows`; `slot` = `rows[]`; `temp`, `main`; `mark` (history) = rows present at the call | `InsertStep` = `insert`; `WorkerStep`, `TakeBatch`, `WriteRow`, `CommitBatch`, `NotifyAll` = `work` and `writeRows`; `FlushCall`/`Wake`/`Copy`/`Delete` = `flush` and `flushRows`; `FinalizeCall`/`Join` = `finalize` |
| `ApiTable` | `ApiTable.cpp`, `createOverheadRecord` | `size` = head − tail, `left` = flush target − tail (rows are endless, see below) | `InsertStep` with nested insert; `WorkerThread`; flush; finalize |
| `RangeStack` | `RoctxDataSource.cpp`, `NvtxDataSource.cpp` (which do the same) | `stack`, `active`, `resumeTime`, `idsOf` = generation of the cached ids, `rows` = what was recorded; `raced` (history) | `CallStep` = push, pop, mark, thread exit; `StartTracing`, `StopTracing`, `DrainStep`, `SwapStorage`, `ResetSource`, `Finalize` |
| `Logger` | `Logger.cpp` | `count` = `m_activeCount`, `active` = holder of `m_activeMutex`, `storage` = generation of `m_storage`, `done` = `m_done`; `held` (history) = open starts | `UserStep`, `Worker` (autoflush), `ResetStep`, `FinalizeStep` |
| `Remote` | `Remote.cpp` | `refCount`, `activeCount`, `mutex` of a table, `pending` signals | `Send` (user), `Deliver` (kernel), `Handle`, `Insert` |
| `DbResource` | `DbResource.cpp` | `value` = the metadata row, `writer` = SQLite's write lock, `locked` = `m_locked` | `TryLock`, `LockStep`, `UnlockBegin`/`Update`, `Die` |
| `Session` | `Schema.cpp`, `MetadataTable.cpp`, `Storage` constructor | `schema`, `wal`, `sessionCount`, `sessionId`; `owners` (history) | `Join` in its steps, `WriteBegin`/`End`, `Exit`, `Crash` |
| `SharedFile` | composition of `Session` and `DbResource`: processes that open, number, elect, write, leave and die on one file | those of both, one `writer` | theirs; a process elects only once it is open |
| `Storage` | `Storage.cpp`, `StringTable.cpp`, `UStringTable.cpp`, `LocalStringCache.h`, `UStringCache.h` | `rows`/`stored`/`visible` of each table, `cache` and `cacheOwner` = `cacheMutex`, `local` and `ulocal` = caches of a thread, `storage` = `m_generation` | `Call`, `Lookup`, `Find`, `Create`, `InsertString`, `Arg`, `InsertRow`; `WriteRows`; `FlushTable`, `FinalizeTable`, `NewStorage` |
| `RemoteDataSource` | `RemoteDataSource.cpp`, peers as it sees them | `queue`, `nextFlushSeq`, `completedFlushSeq`, `acceptor`, `receiver`, `writer`, `temp`, `main` | `Peer`, `Acceptor`, `Receiver`, `Writer`, `Flusher`, `EndCall`, `End` |
| `RlogDataSource` | `RlogDataSource.cpp`, on the stacks of `RangeStack`, which it extends | those of `RangeStack`; `resumeTime` and `idsOf` unused | `rangePush`, `rangePop`, `mark`, `startTracing`, `reset` replace those of roctx |
| `RocprofDataSource` | `RocprofDataSource.cpp` | `pending` = `pendingKernels`, `pendingCopies`, `dispatchOpId`; `counterConfigs`, `dispatchCount`; `buffer` = records of the sdk not handed over | application: calls, dispatches, completions, retirement; `counter_dispatch_callback`, `buffer_callback` (a whole batch), life cycle |
| `RoctracerDataSource` | `RoctracerDataSource.cpp`, frames of `Unwind.cpp` | `timestamp` = the thread_local, `buffer` = the pool | enter and exit of `api_callback`, `hcc_activity_callback` (a whole batch), life cycle |
| `CuptiDataSource` | `CuptiDataSource.cpp` | `timestamp` = the two thread_locals, `cuptiCrashHack` | enter and exit of runtime and driver calls, `bufferCompleted`, life cycle |
| `ClrDataSource` | `ClrDataSource.cpp` | `m_processedCount`, `m_ranges`, `snapshot` = a flush under `m_flushMutex` | `NewRecord`, `chunkCallback`, `FlushBegin`/`End`, life cycle |
| `AmdSmiDataSource` | `AmdSmiDataSource.cpp`, `MonitorTable.cpp` | `metricsCache`, `lastEmitted`; `values` = open runs; `disturbed` (history) | `WorkBegin`, `Read`, `InsertSlot`, `Sleep`; stop and end in two steps, `flush` |
| `ClockSync` | `ChronoSyncDataSource.cpp`, `Utility.h`, `Utility.cpp` | `SvcState` = each segment and each process's own state; `g_pSvcState`; `updating`, `reading` = position in the seqlock | each access to a field of the shared state; election, attach, hand-over |
| `Firefly` | exchange of probes in `Firefly.cpp`, loop of `work()` | `side` = position and `probeIndex` of each side; `toA`, `toB` = datagrams | `NextRound`, `ReceiveProbe`, `ReceiveTimes`, `GiveUp`, `Lose`, `firefly_run` |
| `OutlierFilter` | `MeasurementBuffer` and `firefly_run` of `Firefly.cpp` | `measurements` = the ring | `record_measurement`, `firefly_run`; quartiles and fences as operators |
| `NetWriterBackend` | `NetWriterBackend.cpp` | `streams` = what was sent on each connection, `sending` = how far each thread is in its message | `writeBatch`, `flush`, a part at a time; connection lost |
| `CallStacks` | `rocpd_python/rocpd/call_stacks.py` | `rocpd_api` = the rows of a thread | rows are recorded; both algorithms are operators over them |
| `Selection` | the loops of roctracer and clr that skip some of a batch | none | `Selected` |
| `DataSources` | the profiler sources, metrics, clock, probes, filter, sender and call stacks, beside each other | theirs, and `subject` | theirs |

`BufferedTableProofs`, `StorageProofs`, `RangeStackProofs`, `LoggerProofs`,
`ControlProofs`, `DataSourceProofs`, `ProfilerProofs` and
`RemoteDataSourceProofs` hold the theorems (section 5).

Three modules choose among components that share nothing but tables and files, so
that a behaviour is one of a single component, `subject`, and the variables of the
others keep a constant value: `DataSources`, `MCControl` (Logger, Remote, ApiTable,
BufferedTable with its temporary table, SharedFile) and `MCRangeStack` (roctx or
rlog). Their runs are the union of the runs of the components, and their properties
those of the components, under the names they have there. `DataSources` extends
`ClockSync` and `MCControl` extends `SharedFile`; the theorems in `ControlProofs`,
`DataSourceProofs` and `ProfilerProofs` are about these compositions, so that they
state the very formulas that the runs check. The `MC` modules add the values of
constants that are functions, and symmetry sets.

Definitions that no action uses (such as `FullOffByOne` or `TailAfterBatch`)
stand before the definition they vary: each is a plausible slip in that piece of
code, and putting it in place breaks a property, which shows that the property sees that
piece of code.

Abstractions that matter:

* A row is its number, a string id the generation of the storage that made it, a
  time the reading of a clock that ticks at each reading, a batch its connection
  and position. Nothing the properties say depends on the payload.
* `m_writeMutex` is only taken by the worker and is left out. The only long
  critical section under `m_mutex` is `flushRows()` and it is two steps (the copy
  and the delete are two SQL statements).
* The ApiTable's overhead rows never stop coming, so a row's number would grow
  without bound; its model counts relative to `m_tail`, which leaves the state
  space finite and the loops genuinely endless.
* In `ApiTable`, the overhead row that another table's worker puts in is an
  `insert()` like any other. In `Storage`, where such rows do come from the other
  workers, a table is no more than `TableLog` promises: rows are accepted, stored
  in order, shown by a flush. One table of rows, `op`, stands for all whose worker
  records its batches; only the ring of strings can be full, the case in which
  somebody waits with the lock of the cache held.
* In `Storage` nobody is inside a callback while the storage is swapped;
  `RangeStack` is about the callbacks that are.
* Each operation on a deque in RangeStack is one step. `drainStacks()` and the
  owner of a stack really race on it; what undefined behaviour may do there beyond
  an interleaving of whole operations is not modelled.
* SQLite is external, modelled as the code uses it: one writer at a time, readers
  see the last commit, an exclusive transaction keeps out readers until the file
  is in WAL mode, a connection without busy handler fails at once.
* TCP is external: in order, no duplicates, may break between two messages
  (between two parts of one in `NetWriterBackend`). UDP is external: datagrams are
  lost, and a receive may time out at any moment.
* The profiler libraries are external. What they report, and when, is left open as
  far as their own events leave it open: a call is reported or not as tracing
  stood at its enter; an operation completes after its call began; a batch ends
  anywhere. Records within a batch keep their order.
* A time in the CUPTI and roctracer modules is the event at which it was read and
  how often the clock offset was added to it; in `ClockSync` an update writes its
  number into every field, so that a mixture shows.
* A callback of a library that touches only tables is one step; where the code
  reads a thread_local or a map in one callback and uses it in another, these are
  two.

## 3. What the runs check

| run | module, configuration | what it shows | states |
|---|---|---|---|
| `buffered_direct` | `MCBufferedTable`, `BufferedTable_direct` | direct writes: all safety, refinement of `TableLog`, every call returns | 36 000 |
| `buffered_lostrow` | `MCBufferedTable`, `BufferedTable_lostrow` | temporary table, inserts during a flush: a row is lost (section 6) | |
| `api_reset` | `MCApiTable`, `ApiTable_reset` | finalize at `resetStorage()` never ends (section 6) | |
| `range` | `MCRangeStack`, `RangeStack` | roctx and rlog ranges over pauses, swaps and the end | 3 760 000 |
| `control` | `MCControl`, `Control` | Logger (4 200 states), Remote (430), ApiTable (14 900), BufferedTable with its temporary table (3 200), SharedFile (7 900) | 30 500 |
| `sharedfile_contended` | `MCSharedFile`, `SharedFile_contended` | two delegates when the file is busy (section 6) | |
| `storage` | `MCStorage`, `Storage` | strings, caches and rows over a flush, a swap and the end | 830 000 |
| `delegate` | `MCRemoteDataSource`, `RemoteDataSource` | receive, flush, end in every interleaving | 230 000 |
| `sources` | `MCDataSources`, `DataSources` | rocprofiler (474 000), roctracer (171 000), CUPTI (121 000), clr (179 000), metrics (163 000), clock (376 000), probes, filter, sender (5 000 to 6 000 each), call stacks (2 000) | 1 500 000 |
| `cupti_timebase` | `MCDataSources`, `CuptiDataSource_timebase` | the clock offset is added twice (section 6) | |
| `net_frames` | `MCDataSources`, `NetWriterBackend_frames` | a flush in the middle of a batch (section 6) | |
| `callstack_ties` | `MCDataSources`, `CallStacks_placeholders` | two rows that start at one time (section 6) | |

Each run takes less than three minutes on two cores.

**Constants that say which environment a run assumes.** They are parameters of
the modules, so the same definitions are checked with and without:

* `DirectWrite` (BufferedTable): `rpdt_directwrite`; FALSE is the default and has
  the temporary table.
* `QuietFlush` (BufferedTable): nobody inserts while a flush runs, which is the
  documented `rpdstop(); rpdflush()`. `control` has it TRUE.
* `ClearsOverhead` (ApiTable): finalize was reached through `Logger::finalize`
  (TRUE) or `resetStorage` (FALSE). `QuietFinalize`: nobody calls meanwhile.
* `Autostart`, `RepeatStop`, `InterruptInsert` (Remote): section 6.
* `Contended` (SharedFile): BEGIN may find a writer at work.
* `CrashCreating` (SharedFile): a process may die inside the creation of the schema.
* `Overlap` (NetWriterBackend): a flush may come while a batch is being sent.
* `Placeholders` (CallStacks): ranges begun before the tracing have rows, which
  start when it did.
* `Subjects` (DataSources): the components to explore.

Three properties carry a history condition. `~raced` in RangeStack's `Nested` and
`IdsOfOwnStorage`: no control call has met a thread inside a call so far.
`RingFilled` in ApiTable's properties: an insert has met a full ring.
`~disturbed` in `MonitorRuns`: no control call has met a sample in progress and
every read succeeded. All are reached in the runs and mark behaviour that really
fails (section 6); the properties say everything up to there.

**Bounds and why they are enough.**

* BufferedTable: ring of 3 with batches of 2 and 4 rows: the ring wraps, fills,
  and a batch straddles the wrap; two inserters compete for one free slot, and the
  worker wakes for a batch, a flush or the end with the others in every
  combination. The proofs lift the safety properties to all values. In `control`,
  a ring of 4 and 4 rows: three batches around two flushes.
* ApiTable: ring of 4, batches of 2, 5 calls, nesting 2: full ring, nested insert
  on a full ring, and endless feeding all occur; in `api_reset` one call suffices.
* RangeStack: 2 threads, 2 open ranges, 7 readings of the clock, 2 recordings and
  2 storages: a range before, across and after each pause and swap, a placeholder
  inside a range, and a second thread that exits during a drain. rlog reads the
  clock once less per start and gets 6 readings.
* Logger: 3 open starts of 2 users, 3 storages (two swaps), 2 exits, 2 sources
  (one can be on while the other is not yet).
* Remote: 2 threads and 5 signals: start, repeated start, stop, start, stop.
* SharedFile: 2 processes, one crash and 3 session numbers: two that race and one
  that comes after a crash or comes back. `sharedfile_contended` needs a third
  process, whose batch keeps the file busy.
* Storage: one thread with 2 calls, 2 names, caches of one entry, a ring of one
  string, overhead records while the api table is empty, 2 storages. The workers
  of `op` and `api` and rpdflush() are three more callers of `getOrCreate()`, so
  four can ask for one string at once; a cache entry is hit, replaced and outlives
  its storage; the ring is full with the lock held.
* RemoteDataSource: a connection of 2 messages, 2 flushers, 2 flush calls. With
  two connections of one message and one flush (340 000 states) everything holds
  as well; order is stated by connection and one writer thread serves one queue,
  so the longer connection is the more telling bound.
* Profiler sources: 2 calls with their operations on 1 (rocprofiler) or 2 threads,
  one start (two for clr), a swap, two kernels of one name, two counter sets of
  two counters, one bucket, a pool of 3 records or a buffer of 1: batches end
  between any two records, header and values come in different batches and of two
  dispatches at once, buckets overflow, an operation completes before and after its
  call returned. For clr 4 records in slabs of 2, so that a flush ends inside a slab.
* Metrics: 2 slots, one with a deadband, readings 1 to 3 (changes within and
  beyond it), 4 readings of the clock, 2 starts.
* ClockSync: 2 processes, one delegate, 2 updates, each rank: a reader is overtaken
  by one and by two updates, in the delegate or beside it; the segment is unlinked.
  A second delegate comes with the proof, which is for every number of each.
* Firefly: a window of 1 (each measurement is used), 4 rounds, 3 datagrams in
  flight: a probe, an echo or a time is lost, or comes after its receiver gave up,
  and rounds follow. OutlierFilter: a window of 5, a ring of 6, 8 measurements: quartiles that
  differ, the ring goes round.
* NetWriterBackend: 4 messages, 3 connections. CallStacks: 4 rows, 7 times.

Deadlock checking is off in all runs because the system stops: callers need not
call, bounds run out, and finalize ends everything. That nobody is stuck is what
`NoMissedSignal` and the liveness properties say.

The modules with threads of their own have a type invariant, `TypeOK`. That of
BufferedTable is checked in its run and proved; those of RemoteDataSource, Storage
and Logger are proved; those of RangeStack, ApiTable, Remote, DbResource, Session
and SharedFile hold when added to a configuration.

**The properties in words.**

* `NoOverwrite`: each row between tail and head is still in its slot.
  `NoMissedSignal`: the worker never sleeps while a flush, a finalize or a blocked
  insert waits for it. `FlushVisible`, `FinalizeComplete`: after the call, the
  main table has every row inserted before it. `ImplementsLog`: refinement of
  `TableLog`. `CallsReturn` (under this name in four runs): calls under way come to
  their end, in `control` for whichever component the behaviour is of.
* `WorkerRests`: batches about batches die out.
* `Nested`: any two rows of a thread are disjoint or nested, those made up at a
  resume and those closed by a stop included. `IdsOfOwnStorage`: a row's string
  ids belong to the storage it is in. `RecordedOnce`; `DrainVisitsLiving`.
* `SourcesFollowStarts`: sources trace exactly while some start is open.
  `StorageOutlivesUse`: nobody flushes a storage that `resetStorage()` deleted, and
  the autoflush thread is gone before the tables of a storage end.
* `CommandObeyed`: the tracer does what the last command said.
* `RightStrings`: whichever caches an id came from, it means the right string in
  the storage of its row. `OneRowPerString`; `FlushResolves`: what a flush was
  asked to show is there with its strings; `FinalizeKeepsAll`; `LockReleased`.
* `SingleDelegate`, `UniqueSessions`, `SchemaBeforeTables`: at most one process
  has the resource, no two write under one session number, and who finds the file
  locked still finds its tables.
* `FlushCovers`: an answered flush has all that was queued before it in the main
  table; `WrittenInOrder`: each batch once, in the order of its connection;
  `EndComplete`: after `end()` all that was read is there.
* `CountersOfOneDispatch`: a counter's row adds up values of one dispatch.
  `SetsTakeTurns`: no counter set of a kernel gets ahead. `RowsOfOwnCall`: rows
  have the times, arguments, frames and ids of their own call.
  `OperationsOnce`, `EachRecordOnce`: one row for each, joined with its call.
  `OneTimeBase`: the clock offset is in a time once.
* `MonitorRuns`: the runs of a metric partition the time it was sampled.
* `ReadsOneUpdate`: a reader never goes on with fields of two updates.
  `OffsetsOfOneRound`: an offset is made of times of one round and none is used
  twice. `RejectsOutliersOnly`: a lone outlier is refused, a value that a quarter of
  the window shares is not.
* `FramesIntact`: a connection carries a greeting and then whole messages.
* `CallStacksAgree`: replay and join both give, for each row, the rows around it
  with their distance and own time.

## 4. Fairness

Liveness is stated under what the operating system gives. A thread that can run
does (weak fairness on steps that stay enabled once enabled: the rest of a
critical section, an I/O, a join). A thread that competes for a mutex, or for
SQLite's write lock, which others take and release again and again, gets it some
day (strong fairness). Nobody has to call anything: no fairness on `insert`,
`flush`, `rpdstart`, signals, messages or crashes. Spurious wakeups are possible
in BufferedTable and never needed.

In Storage only the holder of the cache's lock and the workers are fair, which is
all that `LockReleased` needs.

Two further assumptions are about the outside. In RemoteDataSource an accepted
peer sends its tag or goes away (the accept thread blocks in `recv` until then);
the timeout of flush() is an action without fairness, so that `CallsReturn` does
not count on it. In SharedFile a process that is alive tries again, which the
monitoring thread does every second.

The data sources and RangeStack have safety properties only: what a library
delivers, and when, is its own affair.

## 5. Proofs

Eight modules hold theorems. Each is for any sets of threads, processes or
connections and any value of the bounds. They state each of the 35 safety
properties and refinements that the passing runs check.

| module | theorem | statement, with its assumption |
|---|---|---|
| `BufferedTableProofs` | `TypeCorrect`, `RingSafe`, `SignalSafe` | `Spec => []TypeOK`, `[]NoOverwrite`, `[]NoMissedSignal` |
| | `FlushVisibleDirect`, `FinalizeCompleteDirect` | with `DirectWrite`, `[]FlushVisible`, `[]FinalizeComplete` |
| | `FlushVisibleQuiet`, `FinalizeCompleteQuiet` | `Quiet` (temporary table, `QuietFlush`): the same two |
| | `ImplementsTableLog` | `Spec => ImplementsLog`, with and without `DirectWrite` |
| `StorageProofs` | `TypeCorrect`, `StringsRight`, `StringsOnce`, `FinalizeKeeps` | `[]TypeOK`, `[]RightStrings`, `[]OneRowPerString`, `[]FinalizeKeepsAll` |
| | `FlushShowsStrings` | `Spec => FlushResolves`, an action property |
| `RangeStackProofs` | `DrainsVisitLiving`, `RangesRecordedOnce`, `RangesKeepIds`, `RangesNest` | roctx: `[]DrainVisitsLiving`, `[]RecordedOnce`, `[]IdsOfOwnStorage`, `[]Nested` |
| | `RlogDrainsVisitLiving`, ... | the same four of rlog's specification |
| `LoggerProofs` | `TypeCorrect`, `WindowsNest`, `NoUseAfterDelete`, `AutoflushEndsFirst` | `Distinct`: `[]TypeOK`, `[]SourcesFollowStarts`, `[]NoDeletedStorage`, `[]AutoflushBeforeFinalize` |
| `ControlProofs` | `WindowsNest`, `NoUseAfterEnd`, `FlushedRowsVisible` | `ControlSpec => []SourcesFollowStarts`, `[]StorageOutlivesUse`, `[]FlushVisible` |
| | `CommandsObeyed` | `~Autostart`, `~RepeatStop`: `[]CommandObeyed` |
| | `OneDelegate` | `Distinct`, `~Contended`: `[]SingleDelegate` |
| | `SchemaFound`, `SessionsUnique` | `Distinct`, `~CrashCreating`: `[]SchemaBeforeTables`, `[]UniqueSessions` |
| `RemoteDataSourceProofs` | `TypeCorrect`, `InOrder`, `FlushesCover`, `EndKeepsAll` | `[]TypeOK`, `[]WrittenInOrder`, `[]FlushCovers`, `[]EndComplete` |
| `DataSourceProofs` | `RunsPartitionTime`, `RoundsMatch` | `SourcesSpec => []MonitorRuns`, `[]OffsetsOfOneRound` |
| | `OutliersRejected` | `[]RejectsOutliersOnly` |
| | `ReadersSeeOneUpdate` | `SegmentsApart`: `[]ReadsOneUpdate` |
| | `FramesWhole` | `~Overlap`: `[]FramesIntact` |
| | `CallersAgree` | `~Placeholders`: `[]CallStacksAgree` |
| `ProfilerProofs` | `EachOperationOnce` | `SourcesSpec => []OperationsOnce` (roctracer, CUPTI) |
| | `RuntimeRecordsOnce` | `[]EachRecordOnce` (clr) |
| | `RowsAreOwn` | `[]RowsOfOwnCall` (roctracer, CUPTI, rocprofiler) |
| | `CountersStayApart`, `SetsRotate` | `[]CountersOfOneDispatch`, `[]SetsTakeTurns` (rocprofiler) |

The constants have the assumptions that their modules state: distinct threads
(`ThreadsAssumption`, `StorageAssumption`, `RemoteDataSourceAssumption`,
`RangeAssumption`, and `ControlAssumption` for the parts of `MCControl`), sizes
(`SizeAssumption`: 1 <= BATCHSIZE <= BUFFERSIZE), bounds in Nat; that a slab has
room for a record (`SlabAssumption`), metrics are a sequence and a deadband is a
number (`MetricsAssumption`), that the clock filter has room for a measurement
(`FilterAssumption`), and that an agent's counter sets are different
sequences numbered from 1 (`SetsAssumption`; `buildCounterConfigs()` makes one
configuration of each group). Where no module of a run states that threads,
processes or segments differ, it is a hypothesis: `Distinct` (in `ControlProofs`:
a process is not the name for nobody), `SegmentsApart` (no segment is a process's
own state).

The other hypotheses are needed: with the constant TRUE the property fails.
`~Contended`, `~Overlap` and `~Placeholders` have runs (`sharedfile_contended`,
`net_frames`, `callstack_ties`), and so has `Quiet` (`buffered_lostrow`);
`Autostart`, `RepeatStop` and `CrashCreating` are described in section 6.

No property is inductive. Each module defines its inductive invariants as
conjunctions of named parts, has a lemma for each action or group of actions that
keeps them, and one temporal step; each was model-checked before it was proved.
What the invariants add to the properties:

* BufferedTable: the worker's batch stays between tail and head while it writes
  without the mutex (`BatchInv`), or it could run into rows not yet inserted; the
  backend has exactly the first rows, in order (`WrittenInv`); a flush that waits
  is covered by `flushTarget`, which only grows (`MarkInv`); who may be asleep, and
  for what (`SignalInv`). `SlotInjective` is the argument about `%`. With the
  temporary table (`TempInv`): while a flush is under way nobody inserts and its mark
  is the head (`QuietInv`); what was written is in the temporary or the main table
  (`CacheInv`); and between the copy and the delete, all of the one is in the
  other (`CopiedInv`).
* Storage: the cache is the inverse of the string table (`CacheInv`), which makes
  `OneRowPerString` follow; who adds a string has the lock and the string is not
  there (`LockInv`); an entry of a thread's cache is of an older generation or right
  (`LocalInv`); tables end in an order in which only the workers of `op` and `api`,
  draining, still write, and only into `api` (`ControlInv`). For `FlushResolves`
  (`MarkInv`): the ids in rows below the mark of their table are of strings below the
  string tables' marks, which were taken with it, since a row is inserted only after
  its strings are queued; and a table that the flush has passed shows all below its
  mark. No step but a flush's own touches a mark, takes a row away or hides one
  (`StepKeeps`).
* RangeStack: an open range is on one stack only or in one hand, and not recorded
  yet; ids on a stack are of the present storage as long as `~raced`; times on a
  stack grow upwards and recorded rows end before whatever is open began or lie
  inside it, which is what `Nested` needs when a stop closes several at once.
* Logger: the count is the open starts plus the stop under way (`CountInv`); the
  sources differ from what it says only under the mutex (`SourcesInv`); a thread
  that flushes uses the present storage, and from its join on `resetStorage()` has
  no autoflush thread beside it (`UsingInv`, `ResetInv`). `ControlProofs` takes the
  theorems over into the composition: its steps are steps or stutters of `Logger`.
* Remote: one signal is pending or handled at a time, by one thread
  (`OneCommand`); `refCount`, the tracer's count and the place of the handler
  determine each other (`CommandInv`): without autostart both counts are 1 or
  both are 0 when it rests.
* SharedFile: inside a transaction one is the writer (`WriterInv`); who has the
  resource has committed a 1 or is about to (`LockInv`); session numbers given out
  are below the counter.
* RemoteDataSource: the log, the batch at hand, the queue, the receiver's hand and
  the wire are, one after the other, what a peer sent; requests of flush() are
  answered in the order of their numbers, so that an answer to a later one covers
  an earlier one that timed out.
* ClockSync: each segment has one writer (`NamesInv`); `sequence` is odd exactly
  while it is inside an update, and the fields written so far are of the next
  number (`StatesInv`); what a reader has read is of the update it began with,
  unless `sequence` has moved on (`ReadersInv`), which it never takes back.
* Metrics: an open run began with the reading that was emitted last (`TimesInv`);
  while a sample is inserted every closed run ended before it (`SampleInv`); an open
  run is within the deadband of the last reading, but for the slots of a sample
  still to insert (`BandInv`).
* Firefly: what is under way was sent after what arrived, in order (`SentInv`); when
  B waits for times, it has taken the probe of its round and with it all that was
  sent before, so that no times of an earlier round can match (`AheadInv`).
* OutlierFilter (`FltInv`): measurement n is in slot (n - 1) mod Capacity until the
  ring has gone round (`RingInv`, from `RingApart`: numbers less than a turn apart
  have different slots), so that the last `Window` by time are those of the last
  `Window` numbers, in whatever order the ring is read (`WindowIs`). The rest is about
  order statistics: one exists at each rank (`RankExists`); what more than a quarter
  has lies between the quartiles (`Accepted`); if all but at most a quarter agree, the
  quartiles are what they agree on (`Lone`). A window is filtered twice, by its own
  fences and by those of what is left, and both lemmas apply to each.
* NetWriterBackend: one sender at a time, and the connection in use ends where
  that sender has got to.
* CallStacks: rows lie apart or around each other, in the order of their ends, and
  have starts of their own (`CstInv`). The rows around one are a chain (`InsideLinear`),
  so that a distance is a difference of sizes (`DistanceIs`). The replay: after n events
  the stack has the open rows, the outer ones below, each with the time that ended rows
  inside it cover, and the rows are those of the ranges that ended (`ReplayInv`); the
  row that ends is on top of exactly those around it (`OpenStack`). The join: the running
  sum at a start counts the rows around it (`DepthIs`), the parent is the innermost of
  them (`ParentIs`), its children do not overlap (`ChildrenApart`), and step n of the
  recursion has the pairs at distance n (`CsIs`).
* roctracer and CUPTI (`RtrInv`, `CupInv`): a thread's stamp is of the call it is
  in, which is its only one (`StampInv`); an operation is not completed, in the
  pool once, or has its row (`OpInv`); a reported call that returned has its rows;
  CUPTI's launches without a name are no more than `cuptiCrashHack` of their thread.
* clr (`ClrInv`): below `m_processedCount` each traced record has its row and above it
  none has (`TableInv`); a record that was traced lies in one of `m_ranges`, of
  which only the last may be open (`RangeInv`); a flush's snapshot is not behind
  what was handed over (`CountInv`).
* rocprofiler (`RocInv`): in the buffer, the retirement of a call is behind its
  other records, and the values of a dispatch follow its header (`BufferInv`); a kept
  argument is its own call's, with the retirement that drops it still to come
  (`PendOk`); an operation that waits for its counters has no counter row yet, and
  is in the storage they will be written to (`OpIdsOk`); the buckets in use are of
  the dispatch of the last header (`SlotsOk`). These are about the state inside
  `buffer_callback()` after any number of records (`StateOk`). `dispatchCount`
  determines how often each set was used (`TurnInv`).

**What a batch leaves behind.** A callback that is given a batch is a recursive
function over the length of the batch (`Selected`, `Handled`); so is what a replay of
events leaves (`Replayed`), and the join is one over its steps (`cs`). The library's
theorem about induction takes a predicate as its parameter, which the provers cannot
instantiate.
`ProfilerProofs` and `DataSourceProofs` prove induction over Nat with a set in the
place of the predicate (`NatSetInduction`, from the library's theorem that `<` on Nat
is well founded), and from it that functions defined by recursion exist, as the chains of
states they go through. So an invariant of the loop, over any batch, is a lemma
about one record and one about the chain. Sums over finite sets have a lemma of their
own (`SumIs`).

Only model-checked:

* liveness (`CallsReturn`, `WorkerRests`, `LockReleased`): fairness and ENABLED are
  out of the prover's reach;
* the ApiTable, whose run checks only liveness, and the six runs of section 6.

## 6. Where the code falls short of what it says

Six disagreements are runs of their own:

* **A row lost in a flush** (`buffered_lostrow`, `BufferedTable.cpp:61`).
  `flushRows()` copies the temporary table to the main one and then empties it, in
  two statements, under `m_mutex`; the worker writes the temporary table under
  `m_writeMutex` on the same connection. A row it writes between the two is
  deleted without having been copied. `docs/README_embedded.md:92` promises that
  all buffered data is visible after `rpdflush()`.
* **resetStorage() that does not return** (`api_reset`, `Logger.cpp:71`).
  `Logger::finalize` clears `m_writeOverheadRecords` before it finalizes tables;
  `resetStorage()` does not. With overhead records on, each batch of the
  ApiTable's last drain inserts one more row, so the drain never ends.
* **Two delegates** (`sharedfile_contended`, `DbResource.cpp:80`). `tryLock()`
  does not look at the result of `BEGIN EXCLUSIVE` and its connection has no busy
  handler. While somebody else writes the file, check and insert are separate
  transactions.
* **The clock offset added twice** (`cupti_timebase`, `CuptiDataSource.cpp:673`).
  The difference between the clocks is taken from `clocktime_ns()`, which has the
  offset to the reference clock, and the sum passes through `adjust_external_ts()`,
  which adds it. `docs/README_distributed.md:3` promises one reference clock.
* **A flush inside a batch** (`net_frames`, `NetWriterBackend.cpp:96`).
  `writeBatch()` runs under `m_writeMutex`, `flush()` under `m_mutex`, and both send
  their parts on the table's one connection: the receiver takes the bytes of one
  for the sizes of the other.
* **Rows that start at one time** (`callstack_ties`, `call_stacks.py:64`). Each pop
  of a range from before the tracing makes a row that starts at `s_resumeTime`. With
  two of them on a thread, replay and join disagree, although `call_stacks.py:14`
  says their output is identical: the replay pops the wrong row, and the join looks
  for a parent one level up that is not there.

The models show further behaviour that the properties of section 3 step around by
a constant or a condition. It is part of the models; setting the constant or
dropping the condition brings the trace.

* ApiTable, full ring. `insert()` tests with `if` (`ApiTable.cpp:138`) and stores
  without another test (`:154`): two blocked inserters, or an inserter and its own
  overhead row, overwrite a row. The worker's own overhead row (`:194`) can find
  the ring full and wait (`:144`) for the worker, itself. Hence `RingFilled`.
* RangeStack, a control call during a call. `active` is read once
  (`RoctxDataSource.cpp:163`); a push that goes on after stop, drain and reset
  leaves ids of the old storage on the stack, which the comment at `:254` rules
  out. Hence `~raced`.
* Remote. With autostart the first start command, which loads the library, makes
  the tracer's count 2 while `refCount` is 1, so the stop that follows does not stop
  (`Remote.cpp:68`); a repeated stop takes both counts below zero and the next start
  does not start; a stop whose signal interrupts an `insert()` flushes on the
  thread that holds the table's mutex (`Remote.cpp:60`) and never ends.
* Session. A process that dies while it creates the schema leaves a file in which
  others find tables or the counter missing: one goes on without its tables, two
  get session 0 (`MetadataTable.cpp:74`, constant `CrashCreating`).
* DbResource. The row of a delegate that died stays 1, so nobody is elected on that
  file again: the election is promised only without a crash.
* RemoteDataSource. A peer that connects and stays silent keeps the accept thread
  in `recv` (`RemoteDataSource.cpp:396`) and `end()` in its join. A writer leaves its
  loop only when its queue is empty, so that the loop that drains it afterwards
  never finds anything.
* BufferedTable. A flush that waits when `finalize()` sets `done` need not be
  answered; `FlushReturns` ends there. `Logger` only finalizes a storage after the
  autoflush thread has ended, but a user's own rpdflush() can meet it.
* Metrics. A sample in flight at a stop opens runs behind `endCurrentRuns()`, which
  nobody ends and which start before the stop (`MonitorTable.cpp:147`). Hence
  `~disturbed`.
* ClockSync. A delegate that is killed inside an update leaves `sequence` odd, and
  every `clocktime_ns()` of the node spins (`Firefly.cpp:216`). At its end a process
  unmaps the segment before it points its readers elsewhere (`Utility.cpp:87`).
  Both are assumed away.
* Firefly. Once one side has counted a probe that the other has not, their numbers
  differ for good, and no offset is measured until the next connection.
* rocprofiler. A counter value that comes in a later batch than its header, or for
  which no bucket is free, is dropped.
* clr. A slab that arrived after a later one would be taken for consumed; the model
  assumes that slabs come in order.
* CUPTI. `cudaMemcpyAsync` is logged as synchronous (`CuptiDataSource.cpp:294`).

## 7. What is left out, and why

* Formatting, SQL text, column binding, logging, the parsing of the environment,
  `dlsym` and `dlopen`, the configuration map.
* Profiler sources: the lists of API names and the fields that a row copies from an
  API's parameters; `counter_buffer_callback()` (`RocprofDataSource.cpp:991`), which
  nothing registers.
* Clock: the TCP handshake that assigns a port, and the arithmetic of the
  controller (mean, slope, drift), which is floating point.
* The bytes of the wire protocol: a message is atomic in `RemoteDataSource` and a
  sequence of numbered parts in `NetWriterBackend`.
* In `Storage`: the record of a thread that waited for a full ring; pointers and
  hashes in the caches of a thread (a string is a value); several batches for one
  drain. A row that is flushed while its string is still being queued shows at the
  next flush: `FlushResolves` speaks of rows inserted before the call.
* Width of counters: `m_head` is an `int` and never wraps in the model.
* Orders weaker than the program's: the fields of the seqlock beside `sequence` are
  plain, and a weakly ordered processor may do worse than the model.
* `rlog::Hub`, a submodule that is not in the repository; `RlogClient.cpp` only
  includes it. `RtlDataSource`: it hands the loading of a library to the HSA runtime.
  The walk of a stack (`Unwind.cpp` calls a library).
* Other Python tools (import, subclasses, graphs, autograd), the viewer, markers and
  examples: sequential, mostly SQL or thin bindings.

## 8. Plan

Done: the row table with its proofs; the api table, ranges, life cycle, remote
control, shared file, storage and delegate; then the profiler sources, metrics,
clock, probes, sender and call stacks, and the proofs of section 5.

Left, in this order:

1. Sender and delegate in one model: batches over a network that breaks between
   parts, decoded by the receive thread.
2. `Remote` over `Logger`, with autostart, instead of the count that stands for it.
3. The TCP handshake of the clock, and the port that a delegate leaves behind.
4. `subclass.py` and `rocprofiler_import.py` as operators against a reference.
5. Proofs: the ring of `ApiTable` up to `RingFilled`.
