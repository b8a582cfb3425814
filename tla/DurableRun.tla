----------------------------- MODULE DurableRun -----------------------------
(***************************************************************************)
(* One run of one task, from RunTask to its terminal state, with every     *)
(* goroutine that touches it:                                              *)
(*                                                                         *)
(*   - the run executor (RunTask's goroutine: executeRun in task.go), with *)
(*     the user's task closure abstracted to "it may call RunStep for any  *)
(*     step not called yet, and it may return at any time";                *)
(*   - one goroutine per RunStep call (execStep in step.go), including the *)
(*     suspension of a step that returned ErrStepPending;                  *)
(*   - CompleteStep and CancelRun calls (step.go, engine.go), which run    *)
(*     concurrently with the executor, under a signal lock of their own;   *)
(*   - Close, the run timeout, and the process, which may die at any time. *)
(*                                                                         *)
(* Disk: meta.json, input.json, output.json, and journal.log taken as what *)
(* replay makes of it (the last step record per step ID and the last       *)
(* signal per ID). An append is one atomic, durable step here.             *)
(*                                                                         *)
(* Any I/O call may fail (MaxFaults). A failing write returns an error to  *)
(* its caller and may or may not have taken effect: writeFileAtomic can    *)
(* fail after the rename, and the rollback of a failed append can itself   *)
(* fail. A failing read returns an error, or, inside a journal frame, is   *)
(* taken for a torn tail: the journal then seems to end early, and is cut  *)
(* there if it is being opened for an append or compacted.                 *)
(***************************************************************************)
EXTENDS Naturals

CONSTANTS
  Steps,          \* step IDs the task may pass to RunStep
  Versions,       \* strings a deploy may pass to WithStepVersion ("": none)
  Inputs,         \* task inputs callers may pass to RunTask
  Completers,     \* CompleteStep call sites; each also names its payload
  BadCompleters,  \* those whose payload does not unmarshal into the step's type
  Cancellers,     \* CancelRun call sites
  CancelSignal,   \* cancelSignalID, the reserved signal ID
  Outcomes,       \* what a step function may do: "ok", "err", "pending", "panic"
  None,           \* "no value"
  TaskRetries,    \* resolved maxRetries of the run
  StepRetries,    \* WithStepMaxRetries of every step
  StepTimeouts,   \* TRUE: a step's own timeout may expire
  CanClose,       \* TRUE: the engine may be closed and reopened
  MaxCrashes, MaxFaults, MaxTimeouts  \* bounds on what the environment does

Callers == Completers \cup Cancellers
Ids == Steps \cup {CancelSignal}

ASSUME ReservedID == CancelSignal \notin Steps
ASSUME DistinctCallers == Completers \cap Cancellers = {}
ASSUME BadAreCompleters == BadCompleters \subseteq Completers
ASSUME KnownOutcomes == Outcomes \subseteq {"ok", "err", "pending", "panic"}
ASSUME NoneIsNoInput == None \notin Inputs
ASSUME NoVersionIsAVersion == "" \in Versions
ASSUME RetriesAreNats == TaskRetries \in Nat /\ StepRetries \in Nat
ASSUME BoundsAreNats == MaxCrashes \in Nat /\ MaxFaults \in Nat /\ MaxTimeouts \in Nat
ASSUME FlagsAreBooleans == StepTimeouts \in BOOLEAN /\ CanClose \in BOOLEAN

VARIABLES
  meta,     \* meta.json: status, cause of failure, journal generation
  output,   \* output.json exists
  input,    \* input.json: the task input, or None
  journal,  \* replay view of journal.log: [steps, signals]
  engine,   \* "up", "closing" (stopCh closed), "closed"
  peeked,   \* a RunTask call has seen a non-terminal meta.json and not registered yet
  run,      \* the run goroutine and its handle
  cache,    \* StepRunner.cache
  waiting,  \* StepRunner.waiting
  go,       \* the goroutine of each step in the current attempt
  snap,     \* what compactJournal read and has not written back yet
  call,     \* each CompleteStep / CancelRun call
  pruned,   \* generation of the signal locks: pruneSignalLocks starts a new one
  execs,    \* history: number of times each step's fn was invoked
  obs,      \* history: outcomes handed to the task, per step
  fed,      \* history: inputs the task closure was invoked with
  reported, \* history: outcomes h.finish delivered to RunTask callers
  used      \* how much of the environment's bounds is used up

disk == <<meta, output, input, journal>>
history == <<execs, obs, fed, reported>>
vars == <<meta, output, input, journal, engine, peeked, run, cache, waiting, go,
          snap, call, pruned, execs, obs, fed, reported, used>>

-----------------------------------------------------------------------------
\* Values, records and the type invariant

FnResult(n) == <<"fn", n>>     \* what the n-th invocation of a step's fn returned
Payload(c) == <<"signal", c>>  \* what call c delivered
Value == ({"fn"} \X Nat) \cup ({"signal"} \X Callers)

ASSUME NoneIsNoValue == None \notin Value

\* json.Unmarshal of a stored result into the step's type succeeds
Decodes(v) == v \notin {Payload(c) : c \in BadCompleters}

Terminal == {"completed", "failed"}
\* A journal record; the ephemeral STARTED records never enter the replay view.
Record == [st : {"none", "waiting", "completed", "failed"},
           ver : Versions, val : Value \cup {None}]
NoRecord == [st |-> "none", ver |-> "", val |-> None]
View == [steps : [Steps -> Record], signals : [Ids -> Value \cup {None}]]
EmptyView == [steps |-> [s \in Steps |-> NoRecord], signals |-> [i \in Ids |-> None]]

Outcome == [st : {"none", "completed", "failed", "error"}, val : Value \cup {None}]
NoOutcome == [st |-> "none", val |-> None]
ErrorOutcome == [st |-> "error", val |-> None]
Completed(v) == [st |-> "completed", val |-> v]
Failed(v) == [st |-> "failed", val |-> v]

RunPc == {"off", "load", "input", "replay", "exec", "drain", "output", "complete",
          "fail", "compact", "rewrite", "generation"}
StepPc == {"idle", "spawned", "ready", "fn", "persist", "pending", "suspend",
           "record", "register", "reread", "blocked", "resume", "leave", "unset", "done"}
CallPc == {"idle", "lock", "read", "append", "notify", "acked", "rejected", "failed"}

OffRun == [pc |-> "off", arg |-> None, ctxDone |-> FALSE, cancelRequested |-> FALSE,
           attempt |-> 0, err |-> "none"]
\* ver: the version passed to RunStep; stored: the version its records carry;
\* box: the buffered channel registered for the step; late: called after a
\* CancelRun had returned nil.
IdleStep == [pc |-> "idle", ver |-> "", stored |-> "", out |-> NoOutcome, try |-> 0,
             box |-> None, late |-> FALSE]
IdleSteps == [s \in Steps |-> IdleStep]
IdleCall == [pc |-> "idle", id |-> CancelSignal, gen |-> 0]

Cause == {"none", "task", "step", "cancel", "ctx"}  \* why a run failed
MetaState == [st : {"none", "running", "waiting", "completed", "failed"},
              err : Cause, gen : Nat]
RunState == [pc : RunPc, arg : Inputs \cup {None}, ctxDone : BOOLEAN,
             cancelRequested : BOOLEAN, attempt : Nat, err : Cause]
StepState == [pc : StepPc, ver : Versions, stored : Versions, out : Outcome,
              try : Nat, box : Value \cup {None}, late : BOOLEAN]
CallState == [pc : CallPc, id : Ids, gen : Nat]
Observation == [ver : Versions, st : Terminal, val : Value \cup {None}]

\* Every variable has its type: the shape of the files, of the executor, of the
\* step goroutines and of the external calls.
TypeOK ==
  /\ meta \in MetaState
  /\ output \in BOOLEAN
  /\ input \in Inputs \cup {None}
  /\ journal \in View
  /\ engine \in {"up", "closing", "closed"}
  /\ peeked \in BOOLEAN
  /\ run \in RunState
  /\ cache \in [Steps -> Record]
  /\ waiting \in Nat
  /\ go \in [Steps -> StepState]
  /\ snap \in View
  /\ call \in [Callers -> CallState]
  /\ pruned \in Nat
  /\ execs \in [Steps -> Nat]
  /\ obs \in [Steps -> SUBSET Observation]
  /\ fed \in SUBSET Inputs
  /\ reported \in SUBSET Terminal
  /\ used \in [crashes : Nat, faults : Nat, timeouts : Nat]

Init ==
  /\ meta = [st |-> "none", err |-> "none", gen |-> 0]
  /\ output = FALSE
  /\ input = None
  /\ journal = EmptyView
  /\ engine = "up"
  /\ peeked = FALSE
  /\ run = OffRun
  /\ cache = [s \in Steps |-> NoRecord]
  /\ waiting = 0
  /\ go = IdleSteps
  /\ snap = EmptyView
  /\ call = [c \in Callers |-> IdleCall]
  /\ pruned = 0
  /\ execs = [s \in Steps |-> 0]
  /\ obs = [s \in Steps |-> {}]
  /\ fed = {}
  /\ reported = {}
  /\ used = [crashes |-> 0, faults |-> 0, timeouts |-> 0]

-----------------------------------------------------------------------------
\* The environment's I/O: a call succeeds, or fails with or without effect.

Healthy == UNCHANGED used
Fault == /\ used.faults < MaxFaults
         /\ used' = [used EXCEPT !.faults = @ + 1]

SetStatus(st) == meta' = [meta EXCEPT !.st = st]
MaybeSetStatus(st) == SetStatus(st) \/ UNCHANGED meta
PutRecord(s, rec) == journal' = [journal EXCEPT !.steps[s] = rec]
MaybePutRecord(s, rec) == PutRecord(s, rec) \/ UNCHANGED journal

\* A step's record that a signal led to.
FromSignal(rec) == rec.st = "completed" /\ rec.val \in {Payload(c) : c \in Completers}

\* The view without the records of some steps and some signals, and with the
\* WAITING record that came before the one of others.
Without(view, lost, earlier, gone) ==
  [steps |-> [s \in Steps |->
     IF s \in lost THEN NoRecord
     ELSE IF s \in earlier THEN [st |-> "waiting", ver |-> view.steps[s].ver, val |-> None]
     ELSE view.steps[s]],
   signals |-> [i \in Ids |-> IF i \in gone THEN None ELSE view.signals[i]]]

\* What a scan of the journal may report, without an error, when reading a frame
\* fails: the records up to that frame. In the order the records were appended,
\* which the replay view does not keep, these are the last ones; here any of them
\* may be missing, and a step resumed by a signal may be waiting again. (Of a
\* step's earlier records that is the only one followed: with at most one fault
\* the others have another version, and Bound of MCDurableRun keeps those apart.)
Shortened(view) ==
  {Without(view, lost, earlier, gone) :
     lost \in SUBSET {s \in Steps : view.steps[s] # NoRecord},
     earlier \in SUBSET {s \in Steps : FromSignal(view.steps[s])},
     gone \in SUBSET {i \in Ids : view.signals[i] # None}}

CancelAcked == \E k \in Cancellers : call[k].pc = "acked"

-----------------------------------------------------------------------------
\* Step goroutines: RunStep and execStep (step.go)

\* versionMatches: the empty version accepts any record.
VersionMatches(want, stored) == want = "" \/ (stored # "" /\ stored = want)

\* As it would be if a failed step were not replayed.
HitCompleted(s, v) == cache[s].st = "completed" /\ VersionMatches(v, cache[s].ver)

Hit(s, v) == cache[s].st \in Terminal /\ VersionMatches(v, cache[s].ver)

Move(s, pc) == go' = [go EXCEPT ![s].pc = pc]
MoveWith(s, pc, out) == go' = [go EXCEPT ![s] = [@ EXCEPT !.pc = pc, !.out = out]]

\* The goroutine of s ends and its StepRun is done: the task can see out.
\* The deferred signals.Delete drops the step's channel.
Return(s, out) ==
  /\ go' = [go EXCEPT ![s] = [@ EXCEPT !.pc = "done", !.out = out, !.box = None]]
  /\ obs' = IF out.st \in Terminal
            THEN [obs EXCEPT ![s] = @ \cup
                    {[ver |-> go[s].ver, st |-> out.st, val |-> out.val]}]
            ELSE obs

ReplayOutcome(rec) ==
  CASE rec.st = "completed" /\ Decodes(rec.val) -> Completed(rec.val)
    [] rec.st = "completed" /\ ~Decodes(rec.val) -> ErrorOutcome
    [] rec.st = "failed" -> Failed(rec.val)

\* RunStep returns at once, from the cache or with a goroutine started. Under a
\* cancelled ctx it returns the error and nothing changes; a duplicate panics.
RunStep(s, v) ==
  /\ run.pc = "exec" /\ ~run.ctxDone
  /\ go[s].pc = "idle"
  /\ LET called == [IdleStep EXCEPT
           !.pc = "spawned", !.ver = v, !.late = CancelAcked,
           !.stored = IF cache[s].st = "waiting" THEN cache[s].ver ELSE v]
         out == ReplayOutcome(cache[s])
     IN  IF Hit(s, v)
         THEN /\ go' = [go EXCEPT ![s] = [called EXCEPT !.pc = "done", !.out = out]]
              /\ obs' = IF out.st \in Terminal
                        THEN [obs EXCEPT ![s] = @ \cup
                                {[ver |-> v, st |-> out.st, val |-> out.val]}]
                        ELSE obs
         ELSE /\ go' = [go EXCEPT ![s] = called]
              /\ UNCHANGED obs
  /\ UNCHANGED <<disk, engine, peeked, run, cache, waiting, snap, call, pruned,
                 execs, fed, reported, used>>

stepUnchanged == <<output, input, engine, peeked, run, snap, call, pruned, fed, reported>>

\* A cache miss: the last look at ctx before fn runs, then the STARTED record
\* (best effort, and never part of the replay view).
StartStep(s) ==
  /\ go[s].pc = "spawned" /\ cache[s].st # "waiting"
  /\ IF run.ctxDone THEN Return(s, ErrorOutcome) ELSE Move(s, "ready") /\ UNCHANGED obs
  /\ UNCHANGED <<stepUnchanged, meta, journal, cache, waiting, execs, used>>

InvokeStep(s) ==
  /\ go[s].pc = "ready"
  /\ Move(s, "fn")
  /\ execs' = [execs EXCEPT ![s] = @ + 1]
  /\ UNCHANGED <<stepUnchanged, meta, journal, cache, waiting, obs, used>>

\* The step's ctx is done: the run's is, or its own timeout expired.
StepCtxDone == run.ctxDone \/ StepTimeouts

FnReturns(s, o) ==
  /\ go[s].pc = "fn"
  /\ LET v == FnResult(execs[s]) IN
     \/ /\ o = "ok"
        /\ MoveWith(s, "persist", Completed(v))
     \/ /\ o = "pending"
        /\ Move(s, "pending")
     \/ /\ o = "panic" \/ (o = "err" /\ (StepCtxDone \/ go[s].try = StepRetries))
        /\ MoveWith(s, "persist", Failed(v))
     \/ /\ o = "err" /\ ~run.ctxDone /\ go[s].try < StepRetries
        /\ go' = [go EXCEPT ![s] = [@ EXCEPT !.pc = "ready", !.try = go[s].try + 1]]
  /\ UNCHANGED <<stepUnchanged, meta, journal, cache, waiting, execs, obs, used>>

\* persistRecord of a COMPLETED result, or persistFailed. A COMPLETED record
\* that cannot be appended turns into an error; a FAILED one is only logged.
PersistOutcome(s) ==
  /\ go[s].pc = "persist"
  /\ LET out == go[s].out
         rec == [st |-> out.st, ver |-> go[s].stored, val |-> out.val]
     IN  \/ /\ Healthy
            /\ PutRecord(s, rec)
            /\ cache' = [cache EXCEPT ![s] = rec]
            /\ Return(s, out)
         \/ /\ Fault
            /\ MaybePutRecord(s, rec)
            /\ UNCHANGED cache
            /\ Return(s, IF out.st = "failed" THEN out ELSE ErrorOutcome)
  /\ UNCHANGED <<stepUnchanged, meta, waiting, execs>>

\* addWaiting, first critical section: fn returned ErrStepPending, or the
\* cached record is WAITING (whatever version RunStep asked for).
CountWaiting(s) ==
  /\ go[s].pc = "pending" \/ (go[s].pc = "spawned" /\ cache[s].st = "waiting")
  /\ waiting' = waiting + 1
  /\ Move(s, "suspend")
  /\ UNCHANGED <<stepUnchanged, meta, journal, cache, execs, obs, used>>

\* addWaiting, second critical section: setRunStatus(StatusWaiting). If it
\* fails the step returns the error, and the count stays as it is.
SuspendRun(s) ==
  /\ go[s].pc = "suspend"
  /\ \/ /\ Healthy
        /\ SetStatus("waiting")
        /\ Move(s, IF cache[s].st = "waiting" THEN "register" ELSE "record")
        /\ UNCHANGED obs
     \/ /\ Fault
        /\ MaybeSetStatus("waiting")
        /\ Return(s, ErrorOutcome)
  /\ UNCHANGED <<stepUnchanged, journal, cache, waiting, execs>>

\* enterPending: the WAITING record.
RecordWaiting(s) ==
  /\ go[s].pc = "record"
  /\ LET rec == [st |-> "waiting", ver |-> go[s].stored, val |-> None] IN
     \/ /\ Healthy
        /\ PutRecord(s, rec)
        /\ cache' = [cache EXCEPT ![s] = rec]
        /\ Move(s, "register")
     \/ /\ Fault
        /\ MaybePutRecord(s, rec)
        /\ MoveWith(s, "leave", ErrorOutcome)
        /\ UNCHANGED cache
  /\ UNCHANGED <<stepUnchanged, meta, waiting, execs, obs>>

\* As it would be if the wait did not look at the journal again.
BlockAtOnce(s) ==
  /\ go[s].pc = "reread"
  /\ Move(s, "blocked")
  /\ UNCHANGED <<stepUnchanged, meta, journal, cache, waiting, execs, obs, used>>

\* waitForSignal: the channel is registered first, and the journal read again
\* after that, so that a signal appended in between is not missed.
RegisterChannel(s) ==
  /\ go[s].pc = "register"
  /\ Move(s, "reread")
  /\ UNCHANGED <<stepUnchanged, meta, journal, cache, waiting, execs, obs, used>>

\* A frame that cannot be read hides the signals from there on: the wait blocks.
RereadJournal(s) ==
  /\ go[s].pc = "reread"
  /\ LET payload == journal.signals[s] IN
     \/ /\ Healthy /\ payload = None
        /\ Move(s, "blocked")
     \/ /\ Healthy /\ payload # None
        /\ MoveWith(s, "resume", Completed(payload))
     \/ /\ Fault
        /\ MoveWith(s, "leave", ErrorOutcome) \/ Move(s, "blocked")
  /\ UNCHANGED <<stepUnchanged, meta, journal, cache, waiting, execs, obs>>

ReceiveSignal(s) ==
  /\ go[s].pc = "blocked" /\ go[s].box # None
  /\ MoveWith(s, "resume", Completed(go[s].box))
  /\ UNCHANGED <<stepUnchanged, meta, journal, cache, waiting, execs, obs, used>>

\* As it would be if nothing but the step's own timeout ended a wait.
AbandonOnTimeout(s) ==
  /\ go[s].pc = "blocked" /\ StepTimeouts
  /\ MoveWith(s, "leave", ErrorOutcome)
  /\ UNCHANGED <<stepUnchanged, meta, journal, cache, waiting, execs, obs, used>>

\* ctx is done or the engine is closing: the WAITING record stays.
AbandonWait(s) ==
  /\ go[s].pc = "blocked" /\ (StepCtxDone \/ engine # "up")
  /\ MoveWith(s, "leave", ErrorOutcome)
  /\ UNCHANGED <<stepUnchanged, meta, journal, cache, waiting, execs, obs, used>>

\* The payload is unmarshalled, then the COMPLETED record appended under the
\* version of the WAITING one.
ResumeStep(s) ==
  /\ go[s].pc = "resume"
  /\ LET rec == [st |-> "completed", ver |-> go[s].stored, val |-> go[s].out.val] IN
     \/ /\ Healthy /\ Decodes(go[s].out.val)
        /\ PutRecord(s, rec)
        /\ cache' = [cache EXCEPT ![s] = rec]
        /\ Move(s, "leave")
     \/ /\ Healthy /\ ~Decodes(go[s].out.val)
        /\ MoveWith(s, "leave", ErrorOutcome)
        /\ UNCHANGED <<journal, cache>>
     \/ /\ Fault
        /\ MaybePutRecord(s, rec)
        /\ MoveWith(s, "leave", ErrorOutcome)
        /\ UNCHANGED cache
  /\ UNCHANGED <<stepUnchanged, meta, waiting, execs, obs>>

\* As it would be if the count were tested before it is decremented.
LeaveWaitingEarly(s) ==
  /\ go[s].pc = "leave"
  /\ waiting' = IF waiting > 0 THEN waiting - 1 ELSE 0
  /\ IF waiting = 0 THEN Move(s, "unset") /\ UNCHANGED obs ELSE Return(s, go[s].out)
  /\ UNCHANGED <<stepUnchanged, meta, journal, cache, execs, used>>

\* leaveWaiting, first critical section: only the last waiting step goes on to
\* set the run's status.
LeaveWaiting(s) ==
  /\ go[s].pc = "leave"
  /\ waiting' = IF waiting > 0 THEN waiting - 1 ELSE 0
  /\ IF waiting' = 0 THEN Move(s, "unset") /\ UNCHANGED obs ELSE Return(s, go[s].out)
  /\ UNCHANGED <<stepUnchanged, meta, journal, cache, execs, used>>

\* leaveWaiting, second critical section: setRunStatus(StatusRunning).
UnsuspendRun(s) ==
  /\ go[s].pc = "unset"
  /\ \/ /\ Healthy
        /\ SetStatus("running")
        /\ Return(s, go[s].out)
     \/ /\ Fault
        /\ MaybeSetStatus("running")
        /\ Return(s, ErrorOutcome)
  /\ UNCHANGED <<stepUnchanged, journal, cache, waiting, execs>>

-----------------------------------------------------------------------------
\* The run: RunTask, its goroutine and executeRun (task.go)

execUnchanged == <<engine, peeked, call, execs, obs>>

\* The run goroutine ends: h.finish, then its deferred calls, which prune the
\* signal locks and take the handle out of runCancels.
Finish(result) ==
  /\ run' = OffRun
  /\ pruned' = pruned + 1
  /\ reported' = reported \cup {result}

\* RunTask's own look at meta.json. A terminal run is answered from disk.
PeekMeta ==
  /\ ~peeked /\ meta.st \notin Terminal
  /\ peeked' = TRUE
  /\ UNCHANGED <<disk, engine, run, cache, waiting, go, snap, call, pruned, history, used>>

\* RunTask registers its handle in runCancels and starts the goroutine, or joins
\* the registered run, or fails with ErrEngineClosed.
RegisterRun(arg) ==
  /\ peeked
  /\ peeked' = FALSE
  /\ run' = IF engine = "up" /\ run.pc = "off"
            THEN [OffRun EXCEPT !.pc = "load", !.arg = arg]
            ELSE run
  /\ UNCHANGED <<disk, engine, cache, waiting, go, snap, call, pruned, history, used>>

\* As it would be if executeRun relied on the look RunTask had.
TrustPeek == FALSE

\* What executeRun finds in meta.json.
AlreadyFinished == meta.st \in Terminal

\* executeRun looks at meta.json again, under the run lock: a finished run is
\* not executed again; any other is marked running.
LoadMeta ==
  /\ run.pc = "load"
  /\ \/ /\ AlreadyFinished
        /\ \/ Healthy /\ Finish(meta.st)
           \/ Fault /\ Finish("failed")
        /\ UNCHANGED meta
     \/ /\ ~AlreadyFinished /\ Healthy
        /\ SetStatus("running")
        /\ run' = [run EXCEPT !.pc = "input"]
        /\ UNCHANGED <<pruned, reported>>
     \/ /\ ~AlreadyFinished /\ Fault
        /\ MaybeSetStatus("running")
        /\ Finish("failed")
  /\ UNCHANGED <<execUnchanged, output, input, journal, cache, waiting, go, snap, fed>>

\* As it would be if a resumed run took its caller's argument.
CallerInput(stored, arg) == arg

\* The file wins over the caller's argument.
InputToUse(stored, arg) == IF stored # None THEN stored ELSE arg

ResolveInput ==
  /\ run.pc = "input"
  /\ \/ /\ Healthy
        /\ input' = InputToUse(input, run.arg)
        /\ run' = [run EXCEPT !.pc = "replay", !.arg = input']
        /\ UNCHANGED <<pruned, reported>>
     \/ /\ Fault
        /\ UNCHANGED input \/ input' = InputToUse(input, run.arg)
        /\ Finish("failed")
  /\ UNCHANGED <<execUnchanged, meta, output, journal, cache, waiting, go, snap, fed>>

\* As it would be if only completed steps were replayed.
OverlayCompleted(view) ==
  [s \in Steps |-> IF view.steps[s].st = "completed" THEN view.steps[s] ELSE NoRecord]

\* The cache a run starts from: a WAITING record whose signal is in the journal
\* replays as COMPLETED with the signal's payload.
Overlay(view) ==
  [s \in Steps |->
     IF view.steps[s].st = "waiting" /\ view.signals[s] # None
     THEN [view.steps[s] EXCEPT !.st = "completed", !.val = view.signals[s]]
     ELSE view.steps[s]]

NewRunner == waiting' = 0 /\ go' = IdleSteps

\* As it would be if a cancel only reached a run that executes already.
NeverCancelled(view) == FALSE

\* A CancelRun call of an earlier process left its signal.
CancelPersisted(view) == view.signals[CancelSignal] # None

\* The check for an earlier CancelRun, the cache, the first attempt.
ReplayFrom(view) ==
  /\ cache' = Overlay(view)
  /\ LET cancelled == CancelPersisted(view) IN
     run' = [run EXCEPT !.pc = "exec", !.ctxDone = @ \/ cancelled,
                        !.cancelRequested = @ \/ cancelled]
  /\ NewRunner
  /\ fed' = fed \cup {run.arg}
  /\ UNCHANGED <<pruned, reported>>

\* loadJournal, and what the run makes of it.
ReplayJournal ==
  /\ run.pc = "replay"
  /\ \/ Healthy /\ ReplayFrom(journal)
     \/ Fault /\ \E view \in Shortened(journal) : ReplayFrom(view)
     \/ /\ Fault
        /\ Finish("failed")
        /\ UNCHANGED <<cache, waiting, go, fed>>
  /\ UNCHANGED <<execUnchanged, disk, snap>>

\* The task closure returns: nil ("none"), an error of its own or a panic
\* ("task"), or an error that wraps a failed step's ("step").
TaskReturns(err) ==
  /\ run.pc = "exec"
  /\ err = "step" => \E s \in Steps : go[s].pc = "done" /\ go[s].out.st = "failed"
  /\ run' = [run EXCEPT !.pc = "drain", !.err = err]
  /\ UNCHANGED <<execUnchanged, disk, cache, waiting, go, snap, pruned, fed, reported, used>>

\* As it would be if the end of an attempt did not wait for its stragglers.
NoWait == TRUE

\* waitInFlight has nothing left to wait for.
Drained == \A s \in Steps : go[s].pc \in {"idle", "done"}

\* What follows an attempt: success, the end of the run, or a retry.
AfterAttempt ==
  CASE run.err = "none" -> "output"
    [] run.err # "none" /\ (\/ run.ctxDone
                            \/ run.err = "step"
                            \/ run.attempt = TaskRetries) -> "fail"
    [] OTHER -> "exec"

FinalError ==
  IF run.err # "none" /\ run.ctxDone
  THEN IF run.cancelRequested THEN "cancel" ELSE "ctx"
  ELSE run.err

\* The run's outcome stands, or the next attempt starts. meta.json is read
\* again before the outcome is saved; if that fails the run ends unsaved.
EndAttempt ==
  /\ run.pc = "drain" /\ Drained
  /\ \/ /\ AfterAttempt = "exec" /\ Healthy
        /\ run' = [run EXCEPT !.pc = "exec", !.err = "none", !.attempt = @ + 1]
        /\ NewRunner
        /\ fed' = fed \cup {run.arg}
        /\ UNCHANGED <<pruned, reported>>
     \/ /\ AfterAttempt # "exec" /\ Healthy
        /\ run' = [run EXCEPT !.pc = AfterAttempt, !.err = FinalError]
        /\ UNCHANGED <<waiting, go, fed, pruned, reported>>
     \/ /\ AfterAttempt # "exec" /\ Fault
        /\ Finish("failed")
        /\ UNCHANGED <<waiting, go, fed>>
  /\ UNCHANGED <<execUnchanged, disk, cache, snap>>

\* output.json is written before meta.json says the run is completed.
SaveOutput ==
  /\ run.pc = "output"
  /\ \/ /\ Healthy
        /\ output' = TRUE
        /\ run' = [run EXCEPT !.pc = "complete"]
        /\ UNCHANGED <<pruned, reported>>
     \/ /\ Fault
        /\ output' \in {output, TRUE}
        /\ Finish("failed")
  /\ UNCHANGED <<execUnchanged, meta, input, journal, cache, waiting, go, snap, fed>>

\* As it would be with its arguments in the other order.
EndMetaSwapped(st, err) == meta' = [meta EXCEPT !.st = err, !.err = st]

EndMeta(st, err) == meta' = [meta EXCEPT !.st = st, !.err = err]

\* As it would be if the error of saveMeta(StatusCompleted) were dropped too.
SaveCompletedAnyway ==
  /\ run.pc = "complete"
  /\ \/ Healthy /\ EndMeta("completed", "none")
     \/ Fault /\ (EndMeta("completed", "none") \/ UNCHANGED meta)
  /\ run' = [run EXCEPT !.pc = "compact"]
  /\ UNCHANGED <<execUnchanged, output, input, journal, cache, waiting, go, snap,
                 pruned, fed, reported>>

SaveCompleted ==
  /\ run.pc = "complete"
  /\ \/ /\ Healthy
        /\ EndMeta("completed", "none")
        /\ run' = [run EXCEPT !.pc = "compact"]
        /\ UNCHANGED <<pruned, reported>>
     \/ /\ Fault
        /\ EndMeta("completed", "none") \/ UNCHANGED meta
        /\ Finish("failed")
  /\ UNCHANGED <<execUnchanged, output, input, journal, cache, waiting, go, snap, fed>>

\* The error of saveMeta(StatusFailed) is dropped: the run ends all the same.
SaveFailed ==
  /\ run.pc = "fail"
  /\ \/ Healthy /\ EndMeta("failed", run.err)
     \/ Fault /\ (EndMeta("failed", run.err) \/ UNCHANGED meta)
  /\ run' = [run EXCEPT !.pc = "compact"]
  /\ UNCHANGED <<execUnchanged, output, input, journal, cache, waiting, go, snap,
                 pruned, fed, reported>>

RunResult == IF run.err = "none" THEN "completed" ELSE "failed"

\* compactJournal: read the journal, replace it by what was read, count the
\* generation. A failure leaves the rest undone and does not change the result,
\* unless it passes for a torn tail.
CompactRead ==
  /\ run.pc = "compact"
  /\ \/ /\ \/ Healthy /\ snap' = journal
           \/ Fault /\ snap' \in Shortened(journal)
        /\ run' = [run EXCEPT !.pc = "rewrite"]
        /\ UNCHANGED <<pruned, reported>>
     \/ /\ Fault
        /\ Finish(RunResult)
        /\ UNCHANGED snap
  /\ UNCHANGED <<execUnchanged, disk, cache, waiting, go, fed>>

CompactWrite ==
  /\ run.pc = "rewrite"
  /\ \/ /\ Healthy
        /\ journal' = snap
        /\ run' = [run EXCEPT !.pc = "generation"]
        /\ UNCHANGED <<pruned, reported>>
     \/ /\ Fault
        /\ journal' \in {journal, snap}
        /\ Finish(RunResult)
  /\ snap' = EmptyView
  /\ UNCHANGED <<execUnchanged, meta, output, input, cache, waiting, go, fed>>

CompactGeneration ==
  /\ run.pc = "generation"
  /\ \/ Healthy /\ meta' = [meta EXCEPT !.gen = @ + 1]
     \/ Fault /\ (meta' = [meta EXCEPT !.gen = @ + 1] \/ UNCHANGED meta)
  /\ Finish(RunResult)
  /\ UNCHANGED <<execUnchanged, output, input, journal, cache, waiting, go, snap, fed>>

\* WithTaskTimeout / WithRunTimeout expires.
RunTimeout ==
  /\ run.pc # "off" /\ ~run.ctxDone /\ used.timeouts < MaxTimeouts
  /\ used' = [used EXCEPT !.timeouts = @ + 1]
  /\ run' = [run EXCEPT !.ctxDone = TRUE]
  /\ UNCHANGED <<execUnchanged, disk, cache, waiting, go, snap, pruned, fed, reported>>

-----------------------------------------------------------------------------
\* CompleteStep (step.go) and CancelRun (engine.go)

callUnchanged == <<meta, output, input, engine, peeked, cache, waiting, snap, pruned, history, used>>

MoveCall(c, pc) == call' = [call EXCEPT ![c].pc = pc]

\* A call loads the lock of its signal ID, the one of the current generation;
\* a step's token exists once its fn has run.
BeginCall(c, id) ==
  /\ call[c].pc \in {"idle", "failed"}
  /\ IF c \in Completers THEN id \in Steps /\ execs[id] > 0
                         ELSE id = CancelSignal /\ meta.st # "none"
  /\ call' = [call EXCEPT ![c] = [pc |-> "lock", id |-> id, gen |-> pruned]]
  /\ UNCHANGED <<callUnchanged, journal, run, go>>

Holding == {"read", "append", "notify"}
\* As it would be without the signal lock.
NoLock(c) == TRUE

LockIsFree(c) == \A d \in Callers \ {c} : ~(/\ call[d].pc \in Holding
                                            /\ call[d].id = call[c].id
                                            /\ call[d].gen = call[c].gen)

\* lockSignal, then meta.json: a finished run takes no signal.
LockAndLoadMeta(c) ==
  /\ call[c].pc = "lock" /\ LockIsFree(c)
  /\ MoveCall(c, IF meta.st \in Terminal THEN "rejected" ELSE "read")
  /\ UNCHANGED <<callUnchanged, journal, run, go>>

\* A completed step is refused, a signal already there makes the call a no-op
\* (CancelRun still cancels the running ctx).
Decision(c, view) ==
  LET id == call[c].id
      present == view.signals[id] # None
  IN  IF c \in Completers
      THEN IF view.steps[id].st = "completed" THEN "rejected"
           ELSE IF present THEN "acked" ELSE "append"
      ELSE IF present THEN "notify" ELSE "append"

\* loadJournal, and what the call makes of it.
ReadJournal(c) ==
  /\ call[c].pc = "read"
  /\ \/ Healthy /\ MoveCall(c, Decision(c, journal))
     \/ Fault /\ \E view \in Shortened(journal) : MoveCall(c, Decision(c, view))
     \/ Fault /\ MoveCall(c, "failed")
  /\ UNCHANGED <<meta, output, input, engine, peeked, cache, waiting, snap, pruned, history,
                 journal, run, go>>

AppendSignal(c) ==
  /\ call[c].pc = "append"
  /\ LET appended == journal' = [journal EXCEPT !.signals[call[c].id] = Payload(c)] IN
     \/ Healthy /\ appended /\ MoveCall(c, "notify")
     \/ Fault /\ (appended \/ UNCHANGED journal) /\ MoveCall(c, "failed")
  /\ UNCHANGED <<meta, output, input, engine, peeked, cache, waiting, snap, pruned, history,
                 run, go>>

Listening(s) == go[s].pc \in {"reread", "blocked"}

\* A non-blocking send to the step's channel, if one is registered.
NotifyStep(c) ==
  /\ c \in Completers /\ call[c].pc = "notify"
  /\ LET s == call[c].id IN
     go' = IF Listening(s) /\ go[s].box = None
           THEN [go EXCEPT ![s].box = Payload(c)] ELSE go
  /\ MoveCall(c, "acked")
  /\ UNCHANGED <<callUnchanged, journal, run>>

\* As it would be if CancelRun only left its signal in the journal.
CancelLater(c) ==
  /\ c \in Cancellers /\ call[c].pc = "notify"
  /\ MoveCall(c, "acked")
  /\ UNCHANGED <<callUnchanged, journal, run, go>>

\* The handle in runCancels, if the run executes in this process.
CancelHandle(c) ==
  /\ c \in Cancellers /\ call[c].pc = "notify"
  /\ run' = IF run.pc # "off"
            THEN [run EXCEPT !.cancelRequested = TRUE, !.ctxDone = TRUE] ELSE run
  /\ MoveCall(c, "acked")
  /\ UNCHANGED <<callUnchanged, journal, go>>

\* A step or a call is about to append a record.
Appending ==
  \/ \E s \in Steps :
       \/ go[s].pc \in {"persist", "record", "resume"}
       \/ go[s].pc = "spawned" /\ cache[s].st # "waiting" /\ ~run.ctxDone
  \/ \E c \in Callers : call[c].pc = "append"

\* The append finds no open handle, and the opening cannot read a frame: it cuts
\* the file there (getOrOpenJournal).
OpenCutsJournal ==
  /\ Appending
  /\ Fault
  /\ journal' \in Shortened(journal)
  /\ UNCHANGED <<meta, output, input, engine, peeked, run, cache, waiting, go, snap, call,
                 pruned, history>>

-----------------------------------------------------------------------------
\* The engine and the process (engine.go)

engineUnchanged == <<disk, cache, waiting, go, snap, history>>

\* Close: stopCh is closed, every run is waited for, the directory released.
Close ==
  /\ CanClose /\ engine = "up"
  /\ engine' = "closing"
  /\ UNCHANGED <<engineUnchanged, peeked, run, call, pruned, used>>

\* The goroutine RunTask starts to pass stopCh on to the run's ctx.
StopRun ==
  /\ engine = "closing" /\ run.pc # "off" /\ ~run.ctxDone
  /\ run' = [run EXCEPT !.ctxDone = TRUE]
  /\ UNCHANGED <<engineUnchanged, engine, peeked, call, pruned, used>>

Closed ==
  /\ engine = "closing" /\ run.pc = "off"
  /\ engine' = "closed"
  /\ UNCHANGED <<engineUnchanged, peeked, run, call, pruned, used>>

\* A new process opens dataDir: only the disk survives. An external call that
\* had not returned is gone; its caller may try again.
NewProcess ==
  /\ engine' = "up"
  /\ peeked' = FALSE
  /\ run' = OffRun
  /\ cache' = [s \in Steps |-> NoRecord]
  /\ waiting' = 0
  /\ go' = IdleSteps
  /\ snap' = EmptyView
  /\ call' = [c \in Callers |->
                IF call[c].pc \in {"acked", "rejected"} THEN call[c] ELSE IdleCall]
  /\ pruned' = 0
  /\ UNCHANGED <<disk, history>>

Reopen == engine = "closed" /\ NewProcess /\ UNCHANGED used

Crash ==
  /\ used.crashes < MaxCrashes
  /\ used' = [used EXCEPT !.crashes = @ + 1]
  /\ NewProcess

-----------------------------------------------------------------------------
\* The specification

\* What the goroutine of a step does next by itself.
StepProgress(s) ==
  \/ StartStep(s) \/ InvokeStep(s) \/ PersistOutcome(s)
  \/ CountWaiting(s) \/ SuspendRun(s) \/ RecordWaiting(s) \/ RegisterChannel(s)
  \/ RereadJournal(s) \/ ReceiveSignal(s) \/ AbandonWait(s) \/ ResumeStep(s)
  \/ LeaveWaiting(s) \/ UnsuspendRun(s)

FnProgress(s) == \E o \in Outcomes : FnReturns(s, o)

TaskBehaviour ==
  \/ \E s \in Steps, v \in Versions : RunStep(s, v)
  \/ \E err \in {"none", "task", "step"} : TaskReturns(err)

\* What the run goroutine does next by itself.
RunProgress ==
  \/ LoadMeta \/ ResolveInput \/ ReplayJournal \/ EndAttempt \/ SaveOutput
  \/ SaveCompleted \/ SaveFailed \/ CompactRead \/ CompactWrite \/ CompactGeneration

RunTask == PeekMeta \/ \E arg \in Inputs : RegisterRun(arg)

\* What a CompleteStep or CancelRun call does once begun.
CallProgress(c) ==
  LockAndLoadMeta(c) \/ ReadJournal(c) \/ AppendSignal(c) \/ NotifyStep(c) \/ CancelHandle(c)

Next ==
  \/ RunTask \/ RunProgress \/ TaskBehaviour \/ RunTimeout
  \/ \E s \in Steps : StepProgress(s) \/ FnProgress(s)
  \/ \E c \in Callers : (\E id \in Ids : BeginCall(c, id)) \/ CallProgress(c)
  \/ OpenCutsJournal
  \/ Close \/ StopRun \/ Closed \/ Reopen \/ Crash

Spec == Init /\ [][Next]_vars

\* Goroutines are scheduled, a step function that was invoked returns, and the
\* task closure returns once its ctx is done (what Close asks of both).
Fairness ==
  /\ WF_vars(RunProgress)
  /\ \A s \in Steps : WF_vars(StepProgress(s)) /\ WF_vars(FnProgress(s))
  /\ \A c \in Callers : WF_vars(CallProgress(c))
  /\ WF_vars(run.ctxDone /\ \E err \in {"none", "task", "step"} : TaskReturns(err))
  /\ WF_vars(StopRun) /\ WF_vars(Closed)

FairSpec == Spec /\ Fairness

-----------------------------------------------------------------------------
\* Properties

\* The task never sees two outcomes of one step: across retries of the task,
\* crashes and restarts, every RunStep of a step ID returns the first recorded
\* result or failure. Without version bumps, and as long as no I/O call has
\* failed.
MemoStable == used.faults = 0 => \A s \in Steps : \A a, b \in obs[s] : a = b

\* A record that stops fn from running: any under a version that matches; under
\* any version a suspension whose signal has not come. Once it has come, replay
\* makes the step a completed one, which a new version discards.
Settled(s, v) ==
  \/ journal.steps[s].st = "waiting" /\ journal.signals[s] = None
  \/ journal.steps[s].st # "none" /\ VersionMatches(v, journal.steps[s].ver)

\* fn is never invoked for a step whose outcome, or whose suspension, is already
\* in the journal: no completed, failed or waiting step runs its side effect
\* again, as long as no I/O call has failed.
NoRerun ==
  [][used.faults = 0 =>
       \A s \in Steps : execs'[s] # execs[s] => ~Settled(s, go[s].ver)]_vars

\* Once a CancelRun call has returned nil, no RunStep call made later invokes fn,
\* in this process or after a crash, and in none of the task's retries, as long as
\* no I/O call has failed.
CancelStopsWork ==
  [][used.faults = 0 => \A s \in Steps : execs'[s] # execs[s] => ~go[s].late]_vars

\* A terminal status is final: neither a straggling step's setRunStatus nor a
\* second RunTask that read meta.json just before the end changes it.
TerminalIsFinal ==
  [][meta.st \in Terminal => meta'.st = meta.st /\ meta'.err = meta.err]_vars

InFlight(s) == go[s].pc \notin {"idle", "done"}

\* A step goroutine, which could append to the journal or write meta.json, only
\* lives while the task closure runs or the end of its attempt waits for it: not
\* while output.json, meta.json and the compacted journal are written, and not
\* under a terminal status.
DrainedAtEnd ==
  meta.st \in Terminal \/ run.pc \notin {"exec", "drain"} => \A s \in Steps : ~InFlight(s)

\* Success is durable before anyone hears of it: a completed status has its
\* output.json, and a caller that was told "completed" finds that status.
CompletedIsDurable ==
  /\ meta.st = "completed" => output
  /\ "completed" \in reported => meta.st = "completed"

\* Two callers, or a caller and its retry after a crash, may pass different
\* inputs; the task closure of a run is only ever given one of them.
InputPinned == \A a, b \in fed : a = b

\* No run is left looking suspended: with no step counted as waiting, and none
\* between its count and its status write, meta.json does not say "waiting", as long
\* as no I/O call has failed.
NoStaleWaiting ==
  /\ used.faults = 0
  /\ run.pc \in {"exec", "drain"} /\ waiting = 0
  /\ \A s \in Steps : go[s].pc \notin {"suspend", "unset"}
  => meta.st # "waiting"

\* The first signal recorded for a step stays the one that counts, until the run
\* is finished: concurrent CompleteStep calls never replace its payload, as long as
\* no I/O call has failed.
FirstSignalWins ==
  [][\A s \in Steps :
       used'.faults = 0 /\ journal.signals[s] # None /\ meta.st \notin Terminal
         => journal'.signals[s] = journal.signals[s]]_vars

\* A step that blocks on its channel while its signal is in the journal is woken:
\* a CompleteStep racing the suspension is never missed. In runs without failing
\* I/O only: CompleteStep notifies no one of an append that fails after its effect.
SignalDelivered ==
  \A s \in Steps :
    go[s].pc = "blocked" /\ journal.signals[s] # None ~> go[s].pc # "blocked"

\* Close returns, if step functions and the task closure honour ctx, also when
\* steps are suspended.
CloseReturns == engine = "closing" ~> engine # "closing"

\* A cancelled run that executes comes to its end, also when it is suspended or
\* would have retries left.
CancelEndsAttempts ==
  CancelAcked /\ run.pc \in {"exec", "drain"} ~> run.pc \notin {"exec", "drain"}
=============================================================================
