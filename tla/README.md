# Verification of durable-go

TLA+ models of durable-go (the Go library at the root of this repository), the
TLC runs that check them, and TLAPS proofs about the core. Paths below are
relative to the repository's root.

## 1. The system

A *task* is a registered Go function; a *run* executes it. Inside the run,
`RunStep` memoises each step's result in an append-only `journal.log`, so that a
run resumed after a crash does not repeat finished steps. One process owns a data
directory; nothing but the file system is shared with the next process.

| Component | State | Operations | Talks to |
|---|---|---|---|
| Run executor (`task.go`) | `meta.json`, `input.json`, `output.json`, `runHandle` | `RunTask`, `resolveRunID`, `executeRun`, `invokeTask` | run locks, steps, journal |
| Steps (`step.go`) | `StepRunner.cache`, `waiting`, one goroutine and one channel per step | `RunStep`, `execStep`, `waitForSignal`, `addWaiting`, `leaveWaiting` | journal, `meta.json`, signals |
| External signals (`step.go`, `engine.go`) | signal locks | `CompleteStep`, `CancelRun` | journal, the step's channel, the run's handle |
| Journal file (`journal.go`) | `journal.log`, `openFiles`, one handle per open run | `appendFrame`, `getOrOpenJournal`, `discardTornFrame`, `closeJournal`, `compactJournal` | file system, watchers |
| Frame codec and replay (`journal.go`) | none | `makeFrame`, `readFrame`, `scanJournal`, `loadJournal`, `loadStepEvents` | journal file |
| Run locks (`engine.go`) | `runLocks`: mutex, count, tombstone per run | `lockRun`, `tryLockRun`, `unlockRun`, `dropIdleRunLock` | executor, `DeleteTaskRun`, `DeleteTask`, purge |
| Engine lifecycle (`engine.go`) | `closed`, `stopCh`, `runs` | `NewEngine`, `Close` | all |
| Auto-purge (`engine.go`) | none | `purge` | run directories, run locks |
| Data directory lock (`lock.go`) | `occupancy`, flock | `occupyExclusive`, `occupyShared`, `acquireLock` | engines and readers |
| WatchSteps (`task.go`) | `watchers` | `WatchSteps`, `notifyStepWatchers` | journal |
| Step tokens (`token.go`) | `tokenSecret`, `tokenTTL` | `issueStepToken`, `decodeStepToken` | `CompleteStep` |
| Listing, read-only engine | none | `ListTasks`, `scanRuns` | run directories |
| Payload codec, permissions, options, CLI | none | pure functions and plain I/O | |

What is hard here:

- **Concurrency.** Steps run in goroutines of their own, beside `CompleteStep`,
  `CancelRun`, `DeleteTaskRun`, `Close`, timeouts and other openings of journals.
  The locks are fine-grained (`runLocks`, `signalLocks`, `StepRunner.mu`, a
  handle's `mu`) and several maps are changed by key without any.
- **Crashes and I/O errors.** Every write can fail, before or after it took
  effect; a read that fails inside a journal frame passes for the end of the
  journal; the process can die between any two calls; power loss takes what was
  not synced, names included.
- **Neighbours.** Other engines, read-only engines, deletes and purges work in
  the same directory; who may is decided by two gates, one per process and one
  between processes.
- **Suspension.** A step may wait for ever for a signal which may come before,
  while, or after it goes to sleep, or after a restart.

What makes each component correct: a step has one outcome, over retries and
restarts (steps); a terminal status is final, durable and comes last (executor);
the first signal counts and is never missed, a cancel sticks (signals); an
acknowledged record is found by every later replay (journal); a run has one owner
and a deleted run's ID can be used again (run locks); an engine is alone with its
directory (directory lock); a purge takes the oldest terminal runs and no other,
a delete nothing from under a goroutine (purge, deletion); a watcher sees every
event once, in order (WatchSteps); damage is told from a torn tail (codec); a token
goes to its own step (tokens). The hazards, each with its
line and the properties that watch it, are in `PROJECT.json`.

## 2. Modules

| Module | What it is |
|---|---|
| `DurableRun` | One run with everything that touches it: executor, step goroutines, `CompleteStep`, `CancelRun`, `Close`, timeouts, crashes. |
| `MemoStore` | What a run promises its task: every step gets one outcome, the run ends once. |
| `DurableRunRefinement` | The mapping under which `DurableRun` implements `MemoStore`. |
| `MCDurableRun` | Symmetry and a bound for TLC. |
| `DurableRun_proofs` | The proofs of type correctness and about a run's end and its input. |
| `DurableRunMemo_proofs` | The proofs about outcomes, signals and cancels, and of the refinement. |
| `RunLocks` | The lock table of one run, atomic operation by atomic operation. |
| `JournalFile` | `journal.log` and its cached handle on a file system that fails. |
| `MCJournalFile` | Symmetry and a bound for TLC. |
| `JournalFile_proofs` | The proofs that an acknowledged record stays readable and the handle is right. |
| `RunLocks_proofs` | The proofs about the table: exact counts, tombstones. |
| `FrameScan`, `MCFrameScan`, `FrameScan_proofs` | `journal.log` byte by byte: frames, scans, torn tails, damage; payloads for TLC; the proofs of what a scan makes of any such file. |
| `StepWatch`, `MCStepWatch` | Step events from the journal to the clients of `WatchSteps`; a bound for TLC. |
| `StepWatch_proofs` | The proofs that a client sees every event, once and in order. |
| `DirLock` | Who may use a data directory. |
| `TaskTree` | The runs of one task, and what makes, ends and removes them. |
| `DataDir`, `MCDataDir`, `DataDir_proofs` | `DirLock` and `TaskTree` composed, with a reader; openers for TLC; the proofs that nothing is taken from under a goroutine, that resuming and purging go by age, that an engine is alone, and that what holds of the parts holds of the whole. |
| `StepTokens`, `MCStepTokens`, `StepTokens_proofs` | Step tokens over reopenings with other keys and TTLs; IDs for TLC; the proof of what a token is good for. |

`DurableRun` takes a run's lock as held and an append as one step; `RunLocks` and
`JournalFile` are what is inside these. `JournalFile` has frames for bytes;
`FrameScan` says what a scan makes of the bytes. `TaskTree` has owners for run
locks and `DataDir` puts the engine it speaks of behind `DirLock`.

### DurableRun

`run.pc` is the executor's place in `executeRun`: `load` (lock, `loadMeta`),
`input` (`resolveRunInput`), `replay` (`loadJournal` and the overlay of signals),
`exec` (the task closure), `drain` (`waitInFlight`), `output`, `complete` or
`fail` (`saveMeta`), then `compact`, `rewrite`, `generation` (`compactJournal`).
`go[s].pc` is the same for the goroutine of step `s`. A step from one place to the
next is one call that reads or writes shared state; local computation is part of
it. `call[c]` is a `CompleteStep` or `CancelRun` call: `lock`, `read`, `append`,
`notify`. The task closure may call `RunStep` for any step it has not called in
this attempt and may return at any time, with or without an error. A crash
forgets everything but `meta`, `output`, `input` and `journal`.

Abstractions:

- The journal is its replay view: the last record of each step, the last signal
  of each ID. STARTED records are watch-only and do not enter it.
- A read that fails inside a frame makes the journal seem to end there
  (`journal.go:958-966`). `Shortened` is what may be left then: a run goes on with
  it (`ReplayJournal`), `CompleteStep` and `CancelRun` decide by it
  (`ReadJournal`), compaction writes it back (`CompactRead`), and an append that has
  to open the journal cuts the file to it (`OpenCutsJournal`). The order of the
  records is not in the view, so `Shortened` drops any of them where the code drops
  the last ones; of what a step had recorded before it brings back the suspension
  that a signal has ended, and no other record (there is one only after a new
  version, or after an append that failed with effect).
- **An append is one atomic and durable step** here. What is inside it is
  `JournalFile`; what that model finds (section 5) is therefore not in this one.
- `RunStep` under a cancelled ctx returns the error and changes nothing; a
  duplicate step ID panics. Neither is an action. Steps are started while the
  closure runs, not from goroutines that outlive it.
- `CompleteStep` and `CancelRun` read `meta.json` without I/O errors: such an error
  is returned before anything is changed. Their read of the journal can fail, as above.
- `h.finish` and the deferred calls of the goroutine of `RunTask` are one step, as
  are `cancelRequested.Store` and `cancel`.

### RunLocks

The map has one key. `RunTask` (admitted one at a time by `runCancels`) takes
the lock and holds it while it executes; `DeleteTaskRun` tries it. `LoadOrStore`,
`refs.Add`, `Lock`, `deleted.Load` and `Delete` are steps of their own. A lock no
one refers to is garbage, and its name stands for the next one that is made, so
calls repeat without a bound.

### JournalFile

`path` is the inode that the name `journal.log` has, `dpath` the one it has on
disk; `content` and `disk` are the frames of each inode in the page cache and on
disk. An appender goes through `getOrOpenJournal` (look up the handle, scan,
stat, truncate, open, store, sync the directory) and `appendFrame` (lock, write,
sync), or `discardTornFrame`. `Evictor` is `closeJournal` as another run's opening
calls it, `Compactor` is `compactJournal` at the end of the run. I/O calls fail
up to `MaxFaults` times; a crash is the death of the process or a power loss. A
failed read is one of two things: in a frame's length prefix it is an error that is
returned (`OpenFails`, and the error of `CompactRead`); in its payload or trailer it
passes for a torn tail (`Misreads`), so that the opening cuts the file to the frames
in front of it and compaction writes back no others.

Abstractions: frames have one size, so the offset of a frame's end is the number
of frames up to it; every record is one that compaction keeps (it drops only
superseded and STARTED ones); the run's directory is durable; power loss leaves a
prefix of the unsynced frames, the last one torn, and not a file whose size
outran its data (`FrameScan` has that one). `overlapped`, `unnamed` and `unread` are
history: they record that the journal was opened or compacted beside an append, that
it was used with its name not on disk, and which readable records a scan has left out
because a read failed.

### FrameScan

`file` is the bytes of `journal.log`; `MakeFrame` is `makeFrame`, `ReadFrame` and
`ScanJournal` are `readFrame` and `scanJournal` with their order of checks.
The loop of `scanJournal` is the function `FrameEnds` (where its `offset` is after
each frame) and the number of frames before the first that is no entry. `Open` is
`getOrOpenJournal` (scan, truncate, keep count and size), `AppendFrame` is
`appendFrame`; an append may be interrupted, which leaves a part of the frame or
space that was allocated and not written; one byte may change on disk. Reads do
not fail here: what a scan makes of a failing read is in `JournalFile`.

Abstractions: a prefix has two bytes and a byte `Radix` values; a trailer stands
for what it is a checksum of, so that no two inputs share one, except that the CRC
of nothing is 0; an intact payload unmarshals. `written` (a set: a frame has its
index and offset), `damaged` and `unwritten` are history.

### StepWatch

`step[s]` is a step goroutine: it appends a frame and then, in steps of their own,
loads the watcher set and offers the event to each channel
(`notifyStepWatchers`). `watch[w]` is a `WatchSteps` call: `add` (`LoadOrStore` of
the set), `join` (under its mutex), `read` and `meta` (`loadStepEvents`: the
frames, then the generation), the replay of what lies behind the cursor, `stream`,
and `leave`, `drop` (`removeStepWatcher`). `CompactRewrite` and the raise of the
generation are the two halves of `compactJournal` that a reader can fall between.
`CompleteStep` appends frames that are no events.

Abstractions: frames have one size, so a byte offset is an offset; payloads are
left out; a run that is resumed after its journal was compacted is not followed.
Reads of `loadStepEvents` do not fail, so no replay of a watch ends early.
The client is the one the documentation asks for: it comes back with the last
offset while the generation is the same, and from 0 otherwise. A watcher set that
nothing refers to is garbage, and its name is used again. `excuse[w]` is history:
it names what the code does lose an event to (section 5): an event dropped from a
full buffer, overtaken by a later one, offered to a set the watcher is no longer
linked from, or read across a compaction. The properties speak of watches with no
excuse.

### DirLock

`opener[o]` is a call of `NewEngine` or `NewReadOnlyEngine` on its way through
`occupyExclusive` or `occupyShared`, `acquireLock` and the sweep, and back out in
`Close`. The occupancy table and the flock are taken and released in steps of
their own. Between openers of one process nothing is assumed of the flock, which
some platforms grant twice. `Kill` is the death of a process at any time.

### TaskTree

Runs are their IDs, numbered in the order ULIDs are made. `caller[c]` is a
`RunTask` call: with an ID or without one (`resolveRunID`: list, then look at one
`meta.json` after another), check, register. `exec[r]` is the run's goroutine,
reduced to what it does to the directory. `remover[d]` is `DeleteTaskRun`,
`DeleteTask` (lock what was listed, then remove the lot) or a pass of `purge`
(walk, drop by age, drop by the cap, one run after the other). A failing write or
`RemoveAll` may have taken effect in part; a directory without `meta.json` is an
orphan that the next opening sweeps.

Abstractions: a run lock is its owner; the walk of `purge` is one step, its age
limit any prefix of the runs by `UpdatedAt`; the cap in bytes is left out; IDs that
clients choose are those of runs already made. `Close` waits for the runs and the
purger; that clients await their own `DeleteTaskRun` and `DeleteTask` calls before
it is assumed (section 5). `steady` is history: what has been active, or terminal,
since an actor's listing.

### DataDir

`Open` is the sweep of an opener together with the engine's start, `Close` its two
halves, `Killed` the death of a process with the engine in it, `List` and
`ReadMeta` are `ListTasks` of a read-only engine, one `meta.json` at a time.

### StepTokens

A token is its text with the key it is signed with. Text is the sequence of the
fields between its colons, which is all the decoders look for: a task or run ID is
one field (`validatePathID` lets no colon pass), a step ID any number of them, and
`"a" + ":" + "b"` is a concatenation. `Decimal` is `strconv.FormatInt`, of which only
that it differs for different expiries and has no colon is used. base64 and
HMAC-SHA256 are what they promise to be; time is in milliseconds, as in the
token. `Reopen` gives the next engine any key, or none, and any default TTL; an
engine without a key makes one up.

## 3. Runs

All bounds are constants of the `.cfg` files.

| Run | Question | Bounds |
|---|---|---|
| `RunSiblings` | Do two steps that succeed, fail, panic, time out or wait together keep the run's status right, and does what is settled never run again? Is the end of the run right, also when an I/O call fails? | 2 steps, 1 `CompleteStep`, 1 task retry, 1 crash; for one step also 1 failing I/O call, 1 run timeout and 1 step retry, or 2 versions |
| `RunRefinement` | Does a run implement the memo store? Is a step's outcome, the input, a cancel and the first signal kept? | 1 step, 2 `CompleteStep` (one payload of the wrong type), 1 `CancelRun`, 2 inputs, 1 retry, 1 crash |
| `RunLive` | Are signals delivered, does `Close` return, does a cancelled run end? | 1 step, 2 versions, 1 `CompleteStep`, 1 `CancelRun`, `Close` and reopen, 1 retry |
| `RunLocks` | Is the lock table sound and live? | 1 runner, 1 deleter, 3 locks, calls unbounded |
| `JournalFile` | Which acknowledged records survive I/O errors, evictions, compaction and crashes? | 2 appenders, 3 appends, 2 faults, 2 crashes, 4 handles, 3 inodes |
| `FrameScan` | Does a scan read what was written, recover from a crash and report damage? | 3 frames, 2 crashes, 2 bytes changed, 4 values of a byte, with and without MAC |
| `StepWatch` | Does a client see every event, once and in order; does a cancelled watch close? | 2 steps (one may suspend), 2 clients, 2 `WatchSteps` calls, 4 frames, buffer of 1 |
| `DataDir` | Who is in the directory, and what do runs, deletes and purges take from each other? | 2 engines and 1 reader in 2 processes, 2 runs, 1 caller, 2 removers, cap of 1 run, 4 calls, 1 fault |
| `StepTokens` | Is a token accepted for its own step, while its key and TTL hold, and no longer? | 2 openings, 2 keys, TTLs 0 and 1 and the default of 2, 1 token, 4 ms |

Three more runs (`Bug...`) end in a violation, each of one claim of the code's
comments; section 5 has them.

Two steps are enough for the waiting count and the status, which are all that
siblings share; one step is enough where a property speaks of one. Two signals
for one step are needed for one to be lost. One crash splits every pair of
writes, and the retry after it takes the same paths. Failing I/O, timeouts of
the run, retries of a step and new versions are followed while one step has begun,
and new versions without the other three (`Bound` in `MCDurableRun`): they are about
the end of a run and of a step, which the proofs of section 4 cover for any number
of steps. Three locks are enough for
one being tombstoned, one removed by mistake and one fresh. In `JournalFile`,
behaviours in which appends overlapped are followed for two appends and one fault
only (`Bound` in `MCJournalFile`): there only `NoDeadHandle` is claimed, and these
two appends already reach every branch.

In `FrameScan` three frames give damage one before and one behind it, a prefix can
claim less than the limit, more, and more than the file has, and two interruptions
put a torn tail on a file that was reopened after one. In `StepWatch` a buffer of
one overflows at the second event; two clients share a set or remove it from under
each other; behaviours are followed for one frame less with a second client,
for two less with a second step, and not with both (`Bound` in `MCStepWatch`), since
steps matter to a watch by the order of their
fan-outs and other watches by the set they share. In `DataDir` two runs are enough
for an order among them, a cap of one makes a purge choose, two removers race each
other; a behaviour with a fault is followed for one call less (`Bound` in
`MCDataDir`); the engines are in two processes so that both gates are needed, the
reader shares a process with one. One token is enough because tokens share nothing.

Names of steps and callers are interchangeable and are reduced by symmetry in the
safety runs that need it, never where a liveness property is checked. Deadlock is not
checked where a bounded run really comes to rest (all calls made, clock at its
bound) or where the code refuses to go on (an unreadable journal in `FrameScan`);
`RunLocks`, which never does, checks it.

### Properties

*DurableRun*: while no I/O call has failed, `MemoStable` (the task never sees two
outcomes of a step), `NoStaleWaiting` (a run with no waiting step is not left marked
waiting), `NoRerun` (no function is invoked for a step that has a record of a
matching version, or a suspension whose signal has not come), `CancelStopsWork`
(after `CancelRun` returned, no later `RunStep` invokes its function, in this process
or the next) and `FirstSignalWins`; with failing I/O too, `InputPinned`,
`DrainedAtEnd` (no step outlives the attempt whose end is written),
`CompletedIsDurable` and `TerminalIsFinal`; in runs without failing I/O,
`RefinesMemoStore` and the liveness properties `SignalDelivered`, `CloseReturns`,
`CancelEndsAttempts`. (With it, `SignalDelivered` does not hold: `CompleteStep`
returns without a word to the step when its append fails after taking effect,
`step.go:613-615`.)

*RunLocks*: `RefsCounted`, `TombstoneRespected` (a caller blocked behind a delete
never owns the tombstoned lock), `TombstoneLeaves` (a deleted run's ID is not
refused for ever), `CallsReturn`.

*JournalFile*: `AckedReadableAlone` (a record whose append returned is found by every
later replay, unless a failed read hid it from a scan: then it, and the records
behind it, may be gone, and no others), `WellFormed` (no append lands behind a torn frame; frame k is written
as frame k), `HandleAgrees` (the cached count is the file's), `NoDeadHandle` (no
closed handle is left for later appends).

*FrameScan*: `ReadsIntactFrames` (a scan visits every frame in front of the damage,
at the offsets its append returned), `CrashRecovered`, `BodyDamageReported`.

*StepWatch*: `NoGap`, `InOrder`, `CaughtUp` (when all is quiet a watch has seen all
there is), `WatchCloses`.

*DataDir*: `Exclusive`, `OccupancyCounts`, `ReaderSnapshot` (what a reader has read
holds when it reads the last of it), `OldestResumed`, `PurgeOldestFirst`,
`PurgeSparesActive`, `ListedSpared` (a run's files are not removed from under its
goroutine by a call that listed it).

*StepTokens*: `NamesItsStep`, `AcceptedInTime`, `RefusedOtherwise`.

`TypeOK` is an invariant of `RunSiblings` and `StepWatch` (there it bounds the
buffers), and a theorem of `DurableRun`, `RunLocks` and `StepWatch`; in the other
modules it says what the variables range over.

Each of them has a mutant in `PROJECT.json`: a named variant of a definition, the
way a plausible bug would have it, under which the run fails.

### Fairness

`DurableRun!Fairness`: goroutines are scheduled (weak fairness of each actor's
own next step), a step function that was invoked returns, and the task closure
returns once its ctx is done. The last two are what `Close` and `CancelRun` ask
of user code (`engine.go`, comments of `Close` and `CancelRun`). In `RunLive`
nothing is
assumed of callers: `RunTask`, `CompleteStep` and `CancelRun` may never come.

`RunLocks!Fairness`: the same, and strong fairness of taking the mutex, since
`sync.Mutex` hands over to a starving waiter.

`StepWatch!Fairness`: step goroutines finish their fan-out, the goroutine of a
watch is scheduled (`Serve`), and a cancelled one gets to its `ctx.Done()` branch
(`Stop`). Nothing is assumed of clients, who may never receive again.

## 4. What is proved

TLAPS checks these for all values of the constants under the named assumptions of
their modules. Of `DurableRun`: the reserved ID is no step, the two kinds of callers
are distinct, bounds and retries are naturals, `""` is a version, `None` is no
input. Of `JournalFile`: the evictor and the compactor are two goroutines that do
not append, `None` is none of the names, bounds are naturals. Of `DirLock`: openers
are finitely many, no writer is a reader, each opener is in one process. Of
`TaskTree`: the owners of locks are distinct. Of `RunLocks`: actors are finitely
many and runners are not deleters, `None` is none of the names. Of `StepWatch`: the
steps that may suspend are steps, `None` is no set, a channel has room for one event,
bounds are naturals. Of `StepTokens`: path IDs have no colon and no ID or key is
empty, decimals differ, TTLs are integers and the default is not 0. Of `FrameScan`: a
byte has at least one value, a length prefix has room for the largest payload, an
entry is bytes of which the first (a protobuf tag) is not 0, bounds are naturals.

| Module | Theorem | Statement |
|---|---|---|
| `DurableRun_proofs` | `TypeCorrect` | `Spec => []TypeOK` |
| | `StepsEndBeforeTheRun` | `Spec => []DrainedAtEnd` |
| | `TerminalStaysFinal` | `Spec => TerminalIsFinal` |
| | `SuccessIsDurable` | `Spec => []CompletedIsDurable` |
| | `InputStaysPinned` | `Spec => []InputPinned` |
| `DurableRunMemo_proofs` | `NeverStaleWaiting` | `Spec => []NoStaleWaiting` |
| | `SettledNeverReruns` | `Spec => NoRerun` |
| | `CancelAlwaysStopsWork` | `Spec => CancelStopsWork` |
| | `FirstSignalAlwaysWins` | `Spec => FirstSignalWins` |
| | `OneOutcomePerStep` | `Unversioned => (Spec => []MemoStable)` |
| | `RunImplementsMemoStore` | `Unversioned /\ Faultless => (Spec => RefinesMemoStore)` |
| `JournalFile_proofs` | `AcknowledgedStays` | `Spec => []AckedReadableAlone` |
| | `NoFrameBehindTorn` | `Spec => []WellFormed` |
| | `HandleCountsFrames` | `Spec => []HandleAgrees` |
| | `ClosedHandlesLeave` | `Spec => []NoDeadHandle` |
| `RunLocks_proofs` | `CountsAreExact` | `Spec => [](RefsCounted /\ TypeOK)` |
| | `NoRunUnderTombstone` | `Spec => []TombstoneRespected` |
| | `TombstoneHasAUser` | `Spec => []TombstoneLeaves` |
| `DataDir_proofs` | `EngineIsAlone` | `DirSpec => []Exclusive` |
| | `OccupancyIsExact` | `DirSpec => []OccupancyCounts` |
| | `PartsHold` | `Spec => DirSpec /\ TreeSpec` |
| | `ReadersSeeOneState` | `Spec => []ReaderSnapshot` |
| | `WholeKeepsParts` | `Spec => []Exclusive /\ []OccupancyCounts /\ ListedSpared /\ OldestResumed /\ PurgeOldestFirst /\ PurgeSparesActive` |
| | `GoroutineKeepsItsRun` | `TreeSpec => ListedSpared` |
| | `OldestIsResumed` | `TreeSpec => OldestResumed` |
| | `OldestIsPurged` | `TreeSpec => PurgeOldestFirst` |
| | `ActiveIsNotPurged` | `TreeSpec => PurgeSparesActive` |
| `StepWatch_proofs` | `EventsComeInOrder` | `Spec => []InOrder` |
| | `NothingIsLeftOut` | `Spec => []NoGap` |
| | `WatchCatchesUp` | `Spec => []CaughtUp` |
| | `OffsetsAreOfAppends` | `Spec => []TypeOK` |
| `StepTokens_proofs` | `TokensNameTheirStep` | `Spec => []NamesItsStep` |
| | `TokensAreAccepted` | `Spec => []AcceptedInTime` |
| | `TokensAreRefused` | `Spec => []RefusedOtherwise` |
| `FrameScan_proofs` | `IntactFramesAreRead` | `Spec => []ReadsIntactFrames` |
| | `CrashesAreRecovered` | `Spec => []CrashRecovered` |
| | `DamageIsReported` | `Spec => []BodyDamageReported` |

*Types.* `TypeOK` is not inductive: what a step records must be an outcome a
record can hold, and the input a run resolves must be one that was passed.
`GoInv` and `ArgInv` add that a goroutine about to record has a terminal outcome
and a run past its start has an argument. The proof has a lemma per action and
one for each way the state of a step is updated.

*The end of a run.* The inductive invariant `IInv` is `TypeInv` with three parts.
`EndInv`: step goroutines live only at `exec` and `drain`, and under a terminal
status the run is off, has not read `meta.json` yet, or is compacting. With that,
the only writers of the status (the steps, `LoadMeta`, `SaveCompleted`,
`SaveFailed`) are never enabled with an effect under a terminal status, which is
`TerminalIsFinal`, and `DrainedAtEnd` is its first half. `DurableInv` follows a
success: `output` before `complete`, `complete` before compaction, and no report
before that. `InputInv`: what the closure was given is `input`, and from `replay`
on the run's argument is. `StepKeeps` (the steps of goroutines), `RunKeeps` (those
of the executor, one case per action) and `OthersKeep` (callers, engine, crash)
show that `IInv` is preserved; `InvAlways` closes the induction.

These hold with failing I/O and crashes in any number and at any place, journals
that are cut by a failed read included.

*What a run promises its task.* The invariant is `CleanInv`: as long as no I/O call has
failed (`NoFault`), a conjunction of parts of which none is inductive by itself. No
run is compacted, and no signal lock dropped, before its end is on disk (`EndsOnce`);
so the calls that may still append hold locks of one generation and exclude each
other, and what one is about to append is not there yet (`SignalInv`,
`FirstSignalWins`); so what compaction has read is what it replaces (`SnapInv`); so
the cache of an attempt agrees with the journal, and a goroutine that runs its
function found no record it should have returned (`StepsInv`, `NoRerun`). `CancelInv`
(an acknowledged cancel is in the journal and known to the attempt) gives
`CancelStopsWork`; `WaitingInv` ties the count of waiting steps to the places of
their goroutines, and the status `waiting` to one of them.

`SeenInv` adds that what the task saw of a step is what `MemoStore` decided for it,
and that a compaction which drops the step's signal has its outcome in a record.
Each step of `DurableRun` is then one of `MemoStore` or a stutter. This, and
`MemoStable`, is for a task that passes no versions (`Unversioned`, `Versions =
{""}`): under a new version a step is meant to run again and may have another
outcome. The refinement is for runs without failing I/O (`Faultless`, `MaxFaults =
0`), since the abstract store has no step for a write that reports an error and has
taken effect, nor for a read that loses a record; `MemoStable` holds up to the first
such call.

*The journal file.* The invariant is `IInv`. `HandleInv` says who has which handle: a
handle just opened is its opener's alone, one about to be closed is not the engine's
any more, the holder of `mu` is in its append, and what a failed append closed it
takes out. `AloneInv` speaks of a journal that is opened and compacted while no other
goroutine is in `appendFrame` (`~overlapped`), since the code loses records otherwise
(section 5): everyone uses one handle (`OneHandle`), every file is `Good` (only its
last frame may be torn, frame k is frame k), the handle's count is that of the file
as far as its appends have returned (`Counts`), and what an opening goroutine has
counted is still there (`Counted`). `NameInv`: only compaction gives `journal.log` another
inode than the one on disk, so a power loss falls back to a file with the same
records. `AckedInv` (also without `unnamed`, the second divergence of section 5) says
where an acknowledged record is that no scan has left out (`unread`): in the content
and on the disk of every inode the name may have after a power loss, in what
compaction is about to write, among the frames a handle in use counts, which is why a
rollback does not cut it, and among those an opening goroutine has counted
(`Scanned`), which is why its truncation does not. A scan that leaves a record out
takes it from this invariant and no other record: `unread` grows by `LeftOut` only,
which is empty unless a read failed.
Every action has a lemma that says field by field what it does (`...Effect`), and
every part of the invariant cites these.

*Run locks.* `LockInv` is `MutexInv` (who holds a lock's mutex, by the place of
each actor), `CountInv` (the count of a lock is the number of actors that refer to
it), `TombstoneLeaves` and `NoneNegative`. The properties do not follow from the
count alone: that a tombstoned lock is refused needs the mutex, under which both the
mark and the check happen. One lemma, `Does(a)`, describes what a step of one actor
may do to the table, so that the count is argued once and not per action.

*The directory lock.* `DirInv` is `DirTypes`, `OccupancyCounts`, `AloneInProcess`
(a counted writer is alone in its process), `HeldInside` (whoever is past the second
gate holds the flock and is counted) and `AloneWithFlock` (flocks of different
processes exclude each other). An engine is alone within its process by the first
gate and among processes by the second; a kill takes both at once.

*The task tree.* `TreeInv` is `Shapes`, `RunningHoldsLock` (a goroutine past `lock`
owns its run), `HeldIsOwned`, `RemovesWhatItHolds` (the next run a delete or purge
removes is one whose lock it holds, or `DeleteTask` removes all) and `DownIsQuiet`.
So a removal and a goroutine meet only where `DeleteTask` removes what it did not
list. `ListInv` adds what a call still knows of a listing it made some time ago.
`CallInv`: a run active ever since is among those a `RunTask` call has not looked at.
`PurgeInv`: of two runs terminal ever since, the older one was kept or comes first in
what the purge has left; so it stays, because a run becomes terminal only when it was
not (`RunInv`) and is then the last in `ended`, while deletes keep the order of the
rest. `FaultlessInv`: a run that a purge has listed and that is active again has its
goroutine, hence its lock taken, and the purge cannot have locked it; a failing write
is what leaves a run active without one.

*The whole directory.* `StepsOfTheParts` shows that every step of `DataDir` is a
step or a stutter of each part, so what is proved of the parts holds of the whole;
`EngineIsIn` and `OnlyWriters` tie the engine to an opener that is inside, and with
`Exclusive` nothing is written while a reader is (`ReaderSnapshot`).

*Watches.* What a client has seen depends on what is still on its way, so the
invariant follows an event from the append to the client. `NoticeInv`: a step that
announces one does so for a frame of its own, before compaction. `QueueInv`: a
watcher's channel is in order, and in front of every event still announced to it,
unless one overtook another. `OrderInv`: what a client has seen is ordered and below
its watch's cursor, what the watch has to send is between the two, and a client that
reconnects asks from the last event it saw. `CoverInv`: of the events of the journal,
those up to where the watch has read are seen or about to be sent, and those beyond
are in the channel or about to be announced. Both `InOrder` and `NoGap` rest on an
event being appended before the watch that may miss it reads, or announced after that
watch has joined. The last needs `Linked`, hence the excuse `unlinked`.

*Step tokens.* `TokenInv` says of every token what it holds, and that it was issued in
the past (`IssuedAs`). `DecodesWhatWasIssued` says what `Decode` makes of such a token
on an engine with any secret: nothing if the secret is another, `Expired` after its
expiry, and otherwise the names it was made from, whatever colons are in the step ID.
The three properties are arithmetic about the expiry from there.

*Frames.* What a scan returns is a function of all bytes, and a step changes some;
between them stands a layout, `LayoutInv`: frames one behind the other, each as
`makeFrame` made it but for the damaged byte, and behind them nothing, a part of the
next frame, or its space full of zeros. That is inductive: an append adds a frame to
the layout (`AppendStep`), an interrupted one a frame or a tail (`CrashStep`), and an
opening leaves the layout in front of what its scan could not read (`OpenStep`). What
a scan makes of such a file are `ScanUndamaged` and `ScanDamaged`, from what
`readFrame` returns at an intact frame, a torn one, space, and a damaged one. Two of
these are not evident. Space is empty frames to a scan without a MAC, which then are
frames of the layout too (`SpaceExtendsLayout`), so the argument takes the layout that
leaves the least behind it. And a changed length sends the reader elsewhere for a
trailer; one that fits would be the checksum of the payload in front of it, but the
trailers of the file are those of payloads of other lengths (`StampsOfFile`,
`ReadsDamagedPrefix`). The latter is where a checksum without collisions is used.
`FrameEnds` is a recursive function; that it is what its recursion says is proved by
the least number at which it would not be (`EndsUnfold`), since an induction rule
cannot be cited.

*Only model-checked*: everything live. Liveness under fairness and `ENABLED` are
beyond the prover. Nothing is claimed of `MemoStable`, `NoStaleWaiting`, `NoRerun`,
`CancelStopsWork` and `FirstSignalWins` after a failing I/O call: a write that reports
an error but took effect can decide a step twice (an outcome is recorded, the step
reports an error, its retry records another), or lose the cancel; a read that passes
for a torn tail loses outcomes, signals and the cancel, and their steps run again.

## 5. Where the code and its words disagree

Checked, each by a run that ends in a violation:

1. `BugTruncateAcked`: two goroutines that open a journal together. The second
   one's `truncateJournalTo` removes what the first has appended since the scan.
   Two concurrent `RunStep` calls of a fresh run are enough; with a journal MAC
   the frames that follow have the wrong index and the journal is unreadable.
2. `BugUnsyncedName`: a failed directory sync after creating the journal (or a
   crash just before it) is never made up for; a power loss takes the file.
3. `BugDeleteRunning`: `releaseRunLockRef` deletes the map entry by key, so two
   users of a tombstoned lock remove a lock that is in use: the second owner that
   the comment of `runLock` rules out.

Seen while modelling and left out of the properties, or bounded by their wording.

Reads that fail:

- A failed read of a frame's payload or trailer, wherever the frame is, is
  `errTruncatedFrame` (`journal.go:958-966`); the error itself is dropped and
  `scanJournal` reports a torn tail (`journal.go:579-587`). An opening for an append
  then truncates the file there (`journal.go:411-412`): records that were
  acknowledged and synced are gone, though one goroutine at a time used the journal
  and the disk had them, while `journal.go:536-541` says that the leniency is
  "limited to the tail". Compaction rewrites the journal without them
  (`journal.go:704-744`), a replay runs their steps again, and `CompleteStep` may
  record a second signal. Both models have this (`Misreads`, `Shortened`), and
  `AckedReadableAlone` excepts the records it hides: without `\cup unread` the run
  `JournalFile` finds the loss, after one append and a compaction.

Runs and steps:

- `leaveWaiting` writes `running` after a sibling has suspended and written
  `waiting` (`step.go:237`): a step that waits need not show, as `step.go:227-229`
  says it does. `NoStaleWaiting` is the other direction, which holds.
- A step that replay completes from its signal keeps its waiting record
  (`step.go:24`, `task.go:560`).
- A signal appended while the journal is compacted is dropped although its
  `CompleteStep` returned nil (`journal.go:704-753`); so `FirstSignalWins` ends
  with the run.
- A cancelled run ends as completed if its task returns nil (`task.go:602`),
  while `engine.go:559` says it ends up failed.
- A step that waits when its run is cancelled returns `ctx.Err()` rather than
  `ErrRunCancelled` (`step.go:494-496`).
- A suspended step keeps its record's version when a deploy bumps it
  (`step.go:351`), so `NoRerun` counts it as settled. Once its signal has come and
  the process has restarted, replay makes it a completed step, which the new version
  discards: its function runs again, and if it suspends again it is answered by the
  old signal at once (`step.go:485`).
- `pruneSignalLocks` drops mutexes that calls still hold (`engine.go:520`); the model
  has them (`pruned`). Without a fault the run is terminal by then and later calls are
  refused; after one that left it active, calls on one signal may overlap, of which
  `FirstSignalWins` does not speak.
- Overlapping callers that keep a tombstoned lock referenced keep it in the map
  and every one of them is refused; `TombstoneLeaves` says it goes with the last
  of them.
- With two concurrent first appends, the second may be acknowledged before the
  first has synced the directory.

Journal bytes (`BodyDamageReported` and `CrashRecovered` except these):

- A changed length prefix that claims more than the rest of the file passes for a
  torn tail: that frame and the intact ones behind it are dropped, and the next
  append truncates them away (`journal.go:577`), while `journal.go:50-52` and
  `537-541` say that only a tail can be. The test at `engine_test.go:664-666` damages
  a byte for which it does not happen.
- With a MAC, a final frame whose space was allocated but not written is taken
  for tampering and the journal is not replayed (`journal.go:937-981`). Without one,
  zeros at the end are read as empty frames, which every caller ignores.

Watches (each is an `excuse` of `StepWatch`):

- A watcher that joins a set which another has just found empty is unlinked with it
  and hears of nothing more (`task.go:905-916`).
- An event dropped from a full buffer is not made up for by reconnecting, once a
  later one has been delivered and moved the cursor (`task.go:804-806`, `936-943`).
- Watchers are notified after the handle's mutex is released (`journal.go:297`): of
  two events the later may arrive first, and the earlier is then behind the cursor.
- Live events carry no generation (`journal.go:297` beside `task.go:791-793`), and
  frames and generation are read apart (`journal.go:685`).

Runs of a task, deletes and purges:

- `RunTask` returns before `meta.json` is saved (`task.go:458-460`, `482`), so two
  calls with an empty ID, one after the other, may start two runs.
- `DeleteTask` removes runs that were created after its listing (`task.go:978-980`,
  `1010`), with their goroutine at work.
- A purge goes by its walk: after a run was deleted, started anew and left `Running`
  by an I/O error, it removes that run; beside deletes it removes more than the cap
  asks for (`engine.go:403`).
- `Close` waits for runs and the purger but not for `DeleteTaskRun`, `DeleteTask`,
  `CompleteStep` or `CancelRun` calls (`engine.go:341-342`).

Tokens:

- A suspended step that is resumed is not invoked again and issues no new token:
  after the TTL, or with a made-up key after a restart, nothing can complete it
  (`README.md:278`).
- A TTL below a millisecond expires at once, a negative one never
  (`token.go:121-123`).

## 6. Not modelled, and the plan

What is left, in this order:

1. More proofs: the refinement with failing I/O, which needs an abstract store whose
   decisions may be taken back, unseen ones by a failing write and any by a read
   that passes for a torn tail.
2. A run resumed after its compaction under a watch; filters, sorting and pages of
   `ListTasks`; the cap in bytes of a purge.
3. `closeAllJournals` and the exact limit on open handles: an eviction is possible
   at any time in `JournalFile`.

Left out for good: cryptography and payload formats (the models see that a payload
decodes or does not), conversion to and from protobuf, file permissions, the sweep
of temporary files that nothing reads, logging, options, the inspect CLI,
benchmarks, examples and generated code.
