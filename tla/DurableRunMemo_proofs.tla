----------------------- MODULE DurableRunMemo_proofs -----------------------
(***************************************************************************)
(* What a run promises its task, for any number of steps, callers, retries *)
(* and crashes, as long as no I/O call fails: no suspension stays behind,  *)
(* nothing that is settled runs again, a cancel stops all later work, the  *)
(* first signal stands, and the task sees one outcome per step.            *)
(*                                                                         *)
(* The invariant (CleanInv) is a conjunction of parts that need each       *)
(* other: no run is compacted before its end is on disk (EndsOnce), so the *)
(* signal locks of the calls that may still append are of one generation   *)
(* and exclude each other (SignalInv), so what a compaction read is what   *)
(* it replaces (SnapInv), so the cache of a running attempt agrees with    *)
(* the journal (StepsInv). On top of it SeenInv says that what the task    *)
(* saw of a step is its outcome in MemoStore, which gives the refinement.  *)
(***************************************************************************)
EXTENDS DurableRunRefinement, DurableRun_proofs, FiniteSetTheorems

\* So far every I/O call succeeded.
NoFault == used.faults = 0

-----------------------------------------------------------------------------
\* The run and its locks

\* Unless meta.json says how the run ended, it is not compacted and no lock was
\* dropped.
EndsOnce ==
  /\ run.pc \in Compacting => meta.st \in Terminal
  /\ meta.st \notin Terminal => pruned = 0

\* Calls that are past the check of meta.json hold locks of the first generation,
\* and no two hold that of one ID; what one is about to append is not there yet,
\* and what it appended is still there while the run goes on.
SignalInv ==
  /\ \A c \in Completers : call[c].pc # "idle" => call[c].id \in Steps
  /\ \A c \in Cancellers : call[c].id = CancelSignal
  /\ \A c \in Callers :
       /\ call[c].pc = "lock" => call[c].gen <= pruned
       /\ call[c].pc \in Holding => call[c].gen = 0
       /\ call[c].pc = "append" => journal.signals[call[c].id] = None
       /\ call[c].pc = "notify" /\ meta.st \notin Terminal =>
            /\ journal.signals[call[c].id] # None
            /\ c \in Completers => journal.signals[call[c].id] = Payload(c)
  /\ \A c, d \in Callers :
       call[c].pc \in Holding /\ call[d].pc \in Holding /\ call[c].id = call[d].id => c = d

\* The rewritten journal has the records of the one it replaces, and those signals
\* that were there when it was read.
SnapInv ==
  run.pc = "rewrite" =>
    /\ snap.steps = journal.steps
    /\ \A i \in Ids : snap.signals[i] \in {None, journal.signals[i]}

\* A cancel that was acknowledged is on disk, and the attempts of the run know it.
CancelInv ==
  /\ CancelAcked /\ meta.st \notin Terminal => journal.signals[CancelSignal] # None
  /\ CancelAcked /\ run.pc \in {"exec", "drain"} => run.ctxDone
  /\ \A s \in Steps : ~go[s].late

\* The steps counted in waiting.
Counted == {s \in Steps : go[s].pc \in {"suspend", "record", "register", "reread", "blocked",
                                        "resume", "leave"}}

WaitingInv ==
  /\ run.pc \in {"input", "replay"} => meta.st = "running"
  /\ run.pc \in {"exec", "drain"} =>
       /\ IsFiniteSet(Counted) /\ waiting = Cardinality(Counted)
       /\ meta.st = "waiting" => Counted # {} \/ \E s \in Steps : go[s].pc = "unset"

Resumed(rec, payload) == [rec EXCEPT !.st = "completed", !.val = payload]

\* The cache entry of a step is its journal record, or the completion that replay
\* made of its suspension and signal.
Agrees(s) ==
  \/ cache[s] = journal.steps[s]
  \/ /\ journal.steps[s].st = "waiting" /\ journal.signals[s] # None
     /\ cache[s] = Resumed(journal.steps[s], journal.signals[s])

\* A goroutine that runs fn, or will, found no record that it should have returned.
StepInv(s) ==
  /\ Agrees(s)
  /\ go[s].pc \in {"spawned", "ready", "fn", "persist", "pending", "suspend", "record"} =>
       ~Hit(s, go[s].ver)
  /\ go[s].pc \in {"ready", "fn", "persist", "pending", "record"} => cache[s].st # "waiting"
  /\ go[s].pc = "persist" => go[s].out.val \in Value
  /\ go[s].pc \in {"register", "reread", "blocked", "resume"} => cache[s].st = "waiting"
  /\ go[s].box # None => go[s].box = journal.signals[s]
  /\ go[s].pc = "resume" => /\ go[s].out = Completed(journal.signals[s])
                            /\ journal.signals[s] # None
  /\ go[s].pc \in {"leave", "unset"} =>
       \/ go[s].out = ErrorOutcome
       \/ /\ cache[s] = journal.steps[s] /\ cache[s].st = "completed"
          /\ go[s].out = Completed(cache[s].val)

StepsInv == run.pc \in {"exec", "drain"} => \A s \in Steps : StepInv(s)

ValueInv == \A s \in Steps : journal.steps[s].st \in Terminal => journal.steps[s].val \in Value

\* What the task saw of a step is the outcome the step has, and the rewritten
\* journal still has it.
SeenInv ==
  \A s \in Steps : obs[s] # {} =>
    /\ memoSeen[s] = {memoDecided[s]} /\ memoDecided[s] # NoOutcome
    /\ run.pc = "rewrite" /\ journal.steps[s].st = "waiting" => snap.signals[s] # None

-----------------------------------------------------------------------------
\* Runs whose I/O succeeds

\* Only a failing I/O call is counted as one.
LEMMA FaultsCounted ==
  ASSUME TypeInv, [Next]_vars, ~Fault
  PROVE  used'.faults = used.faults
<1>1. used \in [crashes : Nat, faults : Nat, timeouts : Nat]
  BY DEF TypeInv, TypeOK
<1>2. ASSUME NEW s \in Steps, StepProgress(s) \/ FnProgress(s)
      PROVE  UNCHANGED used
  BY <1>2 DEF StepProgress, FnProgress, FnReturns, StartStep, InvokeStep, PersistOutcome,
       CountWaiting, SuspendRun, RecordWaiting, RegisterChannel, RereadJournal,
       ReceiveSignal, AbandonWait, ResumeStep, LeaveWaiting, UnsuspendRun, Healthy
<1>3. CASE RunProgress
  BY <1>3 DEF RunProgress, LoadMeta, ResolveInput, ReplayJournal, EndAttempt, SaveOutput,
       SaveCompleted, SaveFailed, CompactRead, CompactWrite, CompactGeneration, Healthy
<1>4. CASE RunTask \/ TaskBehaviour \/ Close \/ StopRun \/ Closed \/ Reopen
  BY <1>4 DEF RunTask, PeekMeta, RegisterRun, TaskBehaviour, RunStep, TaskReturns, Close,
       StopRun, Closed, Reopen
<1>5. CASE RunTimeout \/ Crash
  BY <1>1, <1>5 DEF RunTimeout, Crash
<1>6. ASSUME NEW c \in Callers, CallProgress(c) \/ \E id \in Ids : BeginCall(c, id)
      PROVE  UNCHANGED used
  BY <1>6 DEF CallProgress, BeginCall, LockAndLoadMeta, ReadJournal, AppendSignal,
       NotifyStep, CancelHandle, callUnchanged, Healthy
<1>7. CASE UNCHANGED vars
  BY <1>7 DEF vars
<1>8. QED
  BY <1>2, <1>3, <1>4, <1>5, <1>6, <1>7 DEF Next, OpenCutsJournal

\* A state no failing I/O call has led to is only reached from such a state, by a
\* step that is none itself.
LEMMA NoFaultBefore ==
  ASSUME TypeInv, [Next]_vars, NoFault'
  PROVE  NoFault /\ ~Fault
<1>1. ~Fault
  BY DEF Fault, NoFault, TypeInv, TypeOK
<1>2. QED
  BY <1>1, FaultsCounted DEF NoFault

-----------------------------------------------------------------------------
\* What the actors change

\* A goroutine of step s changes its own state, its record and what was seen of it.
LEMMA StepFrame ==
  ASSUME IInv, NEW s \in Steps, StepProgress(s) \/ FnProgress(s)
  PROVE  /\ \A t \in Steps \ {s} :
              /\ go'[t] = go[t] /\ cache'[t] = cache[t] /\ obs'[t] = obs[t]
              /\ journal'.steps[t] = journal.steps[t] /\ execs'[t] = execs[t]
         /\ journal'.signals = journal.signals
         /\ go'[s].late = go[s].late /\ go'[s].ver = go[s].ver
         /\ UNCHANGED stepUnchanged
         /\ run.pc \in {"exec", "drain"}
         /\ meta.st \notin Terminal /\ meta'.st \notin Terminal
<1> USE DEF IInv
<1>1. /\ run.pc \in {"exec", "drain"} /\ meta.st \notin Terminal
      /\ UNCHANGED stepUnchanged /\ meta'.st \notin Terminal
  BY StepEffects DEF EndInv, Compacting, Terminal
<1>2. /\ go \in [Steps -> StepState] /\ cache \in [Steps -> Record] /\ journal \in View
      /\ obs \in [Steps -> SUBSET Observation] /\ execs \in [Steps -> Nat]
  BY DEF TypeInv, TypeOK
<1>3. ASSUME NEW g, go' = [go EXCEPT ![s] = g], g.late = go[s].late, g.ver = go[s].ver
      PROVE  /\ \A t \in Steps \ {s} : go'[t] = go[t]
             /\ go'[s].late = go[s].late /\ go'[s].ver = go[s].ver
  BY <1>2, <1>3
<1>4. ASSUME NEW out, Return(s, out)
      PROVE  /\ \A t \in Steps \ {s} : go'[t] = go[t] /\ obs'[t] = obs[t]
             /\ go'[s].late = go[s].late /\ go'[s].ver = go[s].ver
  BY <1>2, <1>4 DEF Return, StepState
<1>5. ASSUME NEW pc, Move(s, pc) \/ \E out : MoveWith(s, pc, out)
      PROVE  /\ \A t \in Steps \ {s} : go'[t] = go[t]
             /\ go'[s].late = go[s].late /\ go'[s].ver = go[s].ver
  BY <1>2, <1>5 DEF Move, MoveWith, StepState
<1>6. ASSUME NEW rec, MaybePutRecord(s, rec) \/ PutRecord(s, rec)
      PROVE  /\ \A t \in Steps \ {s} : journal'.steps[t] = journal.steps[t]
             /\ journal'.signals = journal.signals
  BY <1>2, <1>6 DEF MaybePutRecord, PutRecord, View
<1>7. CASE FnProgress(s)
  BY <1>1, <1>2, <1>5, <1>7 DEF FnProgress, FnReturns, StepState
<1>8. CASE StartStep(s) \/ InvokeStep(s) \/ CountWaiting(s) \/ RegisterChannel(s)
  BY <1>1, <1>2, <1>4, <1>5, <1>8
     DEF StartStep, InvokeStep, CountWaiting, RegisterChannel
<1>9. CASE RereadJournal(s) \/ ReceiveSignal(s) \/ AbandonWait(s) \/ LeaveWaiting(s)
  BY <1>1, <1>2, <1>4, <1>5, <1>9
     DEF RereadJournal, ReceiveSignal, AbandonWait, LeaveWaiting
<1>10. CASE PersistOutcome(s)
  BY <1>1, <1>2, <1>4, <1>6, <1>10 DEF PersistOutcome
<1>11. CASE RecordWaiting(s) \/ ResumeStep(s)
  BY <1>1, <1>2, <1>5, <1>6, <1>11 DEF RecordWaiting, ResumeStep
<1>12. CASE SuspendRun(s) \/ UnsuspendRun(s)
  BY <1>1, <1>2, <1>4, <1>5, <1>12 DEF SuspendRun, UnsuspendRun
<1>13. QED
  BY <1>7, <1>8, <1>9, <1>10, <1>11, <1>12 DEF StepProgress

\* The run goroutine leaves the calls and what the task saw alone; it replaces the
\* journal only after the end of the run is on disk.
LEMMA RunFrame ==
  ASSUME IInv, EndsOnce, ~Fault, RunProgress
  PROVE  /\ UNCHANGED execUnchanged
         /\ pruned' \in {pruned, pruned + 1}
         /\ journal' = journal \/ (run.pc = "rewrite" /\ meta.st \in Terminal /\ journal' = snap)
         /\ meta.st \in Terminal => meta'.st \in Terminal
         /\ pruned' = pruned \/ meta'.st \in Terminal
         /\ run'.pc \in Compacting => meta'.st \in Terminal
<1> USE DEF IInv, EndsOnce, Compacting
<1>1. /\ meta \in MetaState /\ run \in RunState
      /\ meta.st \in Terminal => run.pc \in {"off", "load"} \cup Compacting
  BY DEF TypeInv, TypeOK, EndInv
<1>2. CASE LoadMeta \/ ResolveInput
  BY <1>1, <1>2 DEF LoadMeta, ResolveInput, AlreadyFinished, Finish, OffRun, RunState
<1>3. CASE ReplayJournal \/ EndAttempt
  BY <1>1, <1>3 DEF ReplayJournal, ReplayFrom, EndAttempt, AfterAttempt, disk, RunState
<1>4. CASE SaveOutput
  BY <1>1, <1>4 DEF SaveOutput, RunState
<1>5. CASE SaveCompleted \/ SaveFailed
  BY <1>1, <1>5 DEF SaveCompleted, SaveFailed, EndMeta, RunState, MetaState, Terminal
<1>6. CASE CompactRead \/ CompactWrite
  BY <1>1, <1>6 DEF CompactRead, CompactWrite, disk, RunState
<1>7. CASE CompactGeneration
  BY <1>1, <1>7 DEF CompactGeneration, Finish, OffRun, MetaState
<1>8. QED
  BY <1>2, <1>3, <1>4, <1>5, <1>6, <1>7 DEF RunProgress

\* Attempts only start by the replay of the journal or by the end of the last one,
\* and the journal is only about to be rewritten when it was just read.
LEMMA AttemptStart ==
  ASSUME IInv, ~Fault, RunProgress
  PROVE  /\ run'.pc \in {"exec", "drain"} =>
              \/ ReplayJournal
              \/ EndAttempt /\ NewRunner /\ (run.ctxDone => run'.ctxDone)
         /\ run'.pc \notin {"exec", "drain"} => UNCHANGED <<waiting, go>>
         /\ run'.pc = "rewrite" => snap' = journal /\ UNCHANGED journal
<1>1. run \in RunState
  BY DEF IInv, TypeInv, TypeOK
<1>2. CASE LoadMeta \/ ResolveInput \/ SaveOutput
  <2>1. run'.pc \in {"off", "input", "replay", "complete"}
    <3>1. \A x : [run EXCEPT !.pc = "replay", !.arg = x].pc = "replay"
      BY <1>1 DEF RunState
    <3>2. LoadMeta => run'.pc \in {"off", "input"}
      BY <1>1 DEF LoadMeta, Finish, OffRun, RunState
    <3>3. ResolveInput => run'.pc \in {"off", "replay"}
      BY <3>1 DEF ResolveInput, Finish, OffRun
    <3>4. SaveOutput => run'.pc \in {"off", "complete"}
      BY <1>1 DEF SaveOutput, Finish, OffRun, RunState
    <3>5. QED
      BY <1>2, <3>2, <3>3, <3>4
  <2>2. QED
    BY <1>2, <2>1 DEF LoadMeta, ResolveInput, SaveOutput
<1>3. CASE ReplayJournal
  BY <1>1, <1>3 DEF ReplayJournal, ReplayFrom, RunState
<1>4. CASE EndAttempt
  <2>1. AfterAttempt # "exec" => AfterAttempt \in {"output", "fail"}
    BY DEF AfterAttempt
  <2>2. QED
    BY <1>1, <1>4, <2>1 DEF EndAttempt, disk, RunState
<1>5. CASE SaveCompleted \/ SaveFailed
  BY <1>1, <1>5 DEF SaveCompleted, SaveFailed, RunState
<1>6. CASE CompactRead \/ CompactWrite \/ CompactGeneration
  BY <1>1, <1>6
     DEF CompactRead, CompactWrite, CompactGeneration, Finish, OffRun, disk, RunState
<1>7. QED
  BY <1>2, <1>3, <1>4, <1>5, <1>6 DEF RunProgress

\* Everyone else but the calls leaves meta.json, the journal, the locks and the
\* calls alone, or is a new process.
OtherSteps == RunTask \/ TaskBehaviour \/ RunTimeout \/ Close \/ StopRun \/ Closed

LEMMA OtherFrame ==
  ASSUME IInv, OtherSteps
  PROVE  /\ UNCHANGED <<disk, cache, waiting, snap, call, pruned, execs, fed>>
         /\ run'.pc = run.pc \/ run'.pc \in {"load", "drain"}
         /\ run'.pc = "drain" => run.pc \in {"exec", "drain"}
         /\ run'.pc \in {"exec", "drain"} /\ run.ctxDone => run'.ctxDone
<1> USE DEF IInv, disk, history, engineUnchanged
<1>1. run \in RunState
  BY DEF TypeInv, TypeOK
<1>2. CASE RunTask
  <2>1. \A arg : [OffRun EXCEPT !.pc = "load", !.arg = arg].pc = "load"
    BY DEF OffRun
  <2>2. QED
    BY <1>2, <2>1 DEF RunTask, PeekMeta, RegisterRun
<1>3. CASE TaskBehaviour
  BY <1>1, <1>3 DEF TaskBehaviour, RunStep, TaskReturns, execUnchanged, RunState
<1>4. CASE RunTimeout \/ Close \/ StopRun \/ Closed
  BY <1>1, <1>4 DEF RunTimeout, Close, StopRun, Closed, execUnchanged, RunState
<1>5. QED
  BY <1>2, <1>3, <1>4 DEF OtherSteps

\* A RunStep call only touches the goroutine of its step, which was not there.
LEMMA RunStepFrame ==
  ASSUME IInv, NEW s \in Steps, NEW v \in Versions, RunStep(s, v)
  PROVE  /\ run.pc = "exec" /\ go[s].pc = "idle"
         /\ \A t \in Steps \ {s} : go'[t] = go[t] /\ obs'[t] = obs[t]
         /\ go'[s].ver = v /\ go'[s].box = None
         /\ \/ go'[s].pc = "spawned" /\ ~Hit(s, v) /\ obs'[s] = obs[s]
            \/ /\ go'[s].pc = "done" /\ Hit(s, v)
               /\ LET out == ReplayOutcome(cache[s]) IN
                  obs'[s] = IF out.st \in Terminal
                            THEN obs[s] \cup {[ver |-> v, st |-> out.st, val |-> out.val]}
                            ELSE obs[s]
<1> USE DEF IInv
<1>1. go \in [Steps -> StepState] /\ obs \in [Steps -> SUBSET Observation]
  BY DEF TypeInv, TypeOK
<1> DEFINE stored == IF cache[s].st = "waiting" THEN cache[s].ver ELSE v
           late == CancelAcked
           called == [IdleStep EXCEPT !.pc = "spawned", !.ver = v, !.late = late,
                                      !.stored = stored]
           out == ReplayOutcome(cache[s])
<1>2. called.pc = "spawned" /\ called.ver = v /\ called.box = None
  BY DEF IdleStep
<1>3. LET g == [called EXCEPT !.pc = "done", !.out = out] IN
      g.pc = "done" /\ g.ver = v /\ g.box = None
  BY DEF IdleStep
<1>4. run.pc = "exec" /\ go[s].pc = "idle"
  BY DEF RunStep
<1>5. CASE Hit(s, v)
  <2>1. /\ go' = [go EXCEPT ![s] = [called EXCEPT !.pc = "done", !.out = out]]
        /\ obs' = IF out.st \in Terminal
                  THEN [obs EXCEPT ![s] = @ \cup
                          {[ver |-> v, st |-> out.st, val |-> out.val]}]
                  ELSE obs
    BY <1>5 DEF RunStep
  <2> HIDE DEF called, out
  <2>2. QED
    BY <1>1, <1>3, <1>4, <1>5, <2>1 DEF out
<1>6. CASE ~Hit(s, v)
  <2>1. go' = [go EXCEPT ![s] = called] /\ obs' = obs
    BY <1>6 DEF RunStep
  <2> HIDE DEF called
  <2>2. QED
    BY <1>1, <1>2, <1>4, <1>6, <2>1
<1>7. QED
  BY <1>5, <1>6

LEMMA OtherGo ==
  ASSUME IInv, OtherSteps
  PROVE  UNCHANGED <<go, obs>> \/ \E s \in Steps, v \in Versions : RunStep(s, v)
BY DEF OtherSteps, RunTask, PeekMeta, RegisterRun, TaskBehaviour, TaskReturns, RunTimeout,
  Close, StopRun, Closed, engineUnchanged, execUnchanged, history

\* A call changes its own state, signals that were not there, and the boxes of the
\* steps that listen.
LEMMA CallFrame ==
  ASSUME IInv, NEW c \in Callers, CallProgress(c) \/ \E id \in Ids : BeginCall(c, id)
  PROVE  /\ UNCHANGED <<meta, output, input, engine, peeked, cache, waiting, snap, pruned,
                        history>>
         /\ journal'.steps = journal.steps
         /\ run' = run \/ (run'.pc = run.pc /\ run'.ctxDone)
         /\ \A d \in Callers \ {c} : call'[d] = call[d]
         /\ \A t \in Steps : /\ go'[t].pc = go[t].pc /\ go'[t].ver = go[t].ver
                              /\ go'[t].stored = go[t].stored /\ go'[t].out = go[t].out
                              /\ go'[t].late = go[t].late
<1> USE DEF callUnchanged, history
<1>1. /\ call \in [Callers -> CallState] /\ run \in RunState /\ journal \in View
      /\ go \in [Steps -> StepState]
  BY DEF IInv, TypeInv, TypeOK
<1>2. CASE \E id \in Ids : BeginCall(c, id)
  BY <1>1, <1>2 DEF BeginCall
<1>3. CASE LockAndLoadMeta(c) \/ ReadJournal(c)
  BY <1>1, <1>3 DEF LockAndLoadMeta, ReadJournal, MoveCall
<1>4. CASE AppendSignal(c)
  BY <1>1, <1>4 DEF AppendSignal, MoveCall, View
<1>5. CASE NotifyStep(c)
  BY <1>1, <1>5 DEF NotifyStep, MoveCall, StepState
<1>6. CASE CancelHandle(c)
  BY <1>1, <1>6 DEF CancelHandle, MoveCall, RunState
<1>7. QED
  BY <1>2, <1>3, <1>4, <1>5, <1>6 DEF CallProgress

NewProcessSteps == Reopen \/ Crash

\* Every step is one of these, unless it is a failing I/O call that cuts the journal.
LEMMA StepKinds ==
  ASSUME [Next]_vars, ~Fault \/ ~OpenCutsJournal
  PROVE  \/ \E s \in Steps : StepProgress(s) \/ FnProgress(s)
         \/ RunProgress
         \/ \E c \in Callers : CallProgress(c) \/ \E id \in Ids : BeginCall(c, id)
         \/ OtherSteps
         \/ NewProcess
         \/ UNCHANGED vars
BY DEF Next, OtherSteps, Reopen, Crash, OpenCutsJournal

-----------------------------------------------------------------------------
\* Locks, signals and the compaction

LEMMA EndsOnceStep ==
  ASSUME IInv, EndsOnce, ~Fault, [Next]_vars
  PROVE  EndsOnce'
<1>1. CASE \E s \in Steps : StepProgress(s) \/ FnProgress(s)
  BY <1>1, StepFrame DEF EndsOnce, stepUnchanged, Compacting
<1>2. CASE RunProgress
  BY <1>2, RunFrame DEF EndsOnce
<1>3. ASSUME NEW c \in Callers, CallProgress(c) \/ \E id \in Ids : BeginCall(c, id)
      PROVE  EndsOnce'
  BY <1>3, CallFrame DEF EndsOnce
<1>4. CASE OtherSteps
  BY <1>4, OtherFrame DEF EndsOnce, disk, Compacting
<1>5. CASE NewProcess
  BY <1>5 DEF NewProcess, OffRun, EndsOnce, disk, Compacting
<1>6. CASE UNCHANGED vars
  BY <1>6 DEF EndsOnce, vars
<1>7. QED
  BY <1>1, <1>2, <1>3, <1>4, <1>5, <1>6, StepKinds

\* What a step that leaves the calls alone may do to locks and signals.
LEMMA SignalKept ==
  ASSUME SignalInv, UNCHANGED call, pruned \in Nat, pruned' \in {pruned, pruned + 1},
         meta'.st \notin Terminal =>
           meta.st \notin Terminal /\ journal'.signals = journal.signals,
         \A i \in Ids : journal'.signals[i] \in {None, journal.signals[i]},
         call \in [Callers -> CallState]
  PROVE  SignalInv'
BY DEF SignalInv, CallState

LEMMA SignalCallStep ==
  ASSUME IInv, EndsOnce, SignalInv, ~Fault,
         NEW c \in Callers, CallProgress(c) \/ \E id \in Ids : BeginCall(c, id)
  PROVE  SignalInv'
<1>1. /\ call \in [Callers -> CallState] /\ journal \in View /\ pruned \in Nat
      /\ c \in Completers \/ c \in Cancellers
  BY DEF IInv, TypeInv, TypeOK, Callers
<1>2. /\ UNCHANGED <<meta, pruned>> /\ \A d \in Callers \ {c} : call'[d] = call[d]
  BY CallFrame
<1>3. ASSUME NEW id \in Ids, BeginCall(c, id)
      PROVE  SignalInv'
  <2>1. UNCHANGED journal
    BY <1>3 DEF BeginCall
  <2>2. call'[c] = [pc |-> "lock", id |-> id, gen |-> pruned]
    BY <1>1, <1>3 DEF BeginCall
  <2>3. /\ c \in Completers => id \in Steps
        /\ c \in Cancellers => id = CancelSignal
    BY <1>3, DistinctCallers DEF BeginCall
  <2>4. QED
    BY <1>1, <1>2, <2>1, <2>2, <2>3 DEF SignalInv, Holding, Callers
<1>4. CASE LockAndLoadMeta(c)
  <2>1. /\ UNCHANGED journal /\ call[c].pc = "lock" /\ LockIsFree(c)
        /\ call'[c].id = call[c].id /\ call'[c].gen = call[c].gen
        /\ \/ call'[c].pc = "rejected"
           \/ call'[c].pc = "read" /\ meta.st \notin Terminal
    BY <1>1, <1>4 DEF LockAndLoadMeta, MoveCall, CallState
  <2>2. call'[c].pc = "read" => call[c].gen = 0
    BY <1>1, <2>1 DEF EndsOnce, SignalInv, CallState
  <2>3. ASSUME call'[c].pc = "read", NEW d \in Callers \ {c}, call[d].pc \in Holding,
               call[d].id = call[c].id
        PROVE  FALSE
    BY <2>1, <2>2, <2>3 DEF LockIsFree, SignalInv
  <2>4. QED
    BY <1>1, <1>2, <2>1, <2>2, <2>3 DEF SignalInv, Holding, Callers
<1>5. CASE ReadJournal(c)
  <2>1. /\ UNCHANGED journal /\ call[c].pc = "read"
        /\ call'[c].id = call[c].id /\ call'[c].gen = call[c].gen
        /\ call'[c].pc \in {"rejected", "acked", "append", "notify"}
        /\ call'[c].pc = "append" => journal.signals[call[c].id] = None
        /\ call'[c].pc = "notify" => c \notin Completers /\ journal.signals[call[c].id] # None
    BY <1>1, <1>5 DEF ReadJournal, Decision, MoveCall, CallState
  <2>2. QED
    BY <1>1, <1>2, <2>1 DEF SignalInv, Holding, Callers
<1>6. CASE AppendSignal(c)
  <2>1. /\ call[c].pc = "append" /\ call'[c].pc = "notify"
        /\ call'[c].id = call[c].id /\ call'[c].gen = call[c].gen
    BY <1>1, <1>6 DEF AppendSignal, MoveCall, CallState
  <2>2. call[c].id \in Ids /\ journal.signals \in [Ids -> Value \cup {None}]
    BY <1>1 DEF CallState, View
  <2>3. /\ journal'.signals[call[c].id] = Payload(c)
        /\ \A i \in Ids \ {call[c].id} : journal'.signals[i] = journal.signals[i]
    BY <1>1, <1>6, <2>2 DEF AppendSignal, View
  <2>4. \A d \in Callers \ {c} : call[d].pc \in Holding => call[d].id # call[c].id
    BY <2>1 DEF SignalInv, Holding
  <2>5. Payload(c) # None
    BY NoneIsNoValue, ValueTypes
  <2>6. QED
    BY <1>1, <1>2, <2>1, <2>2, <2>3, <2>4, <2>5 DEF SignalInv, Holding, Callers, CallState
<1>7. CASE NotifyStep(c) \/ CancelHandle(c)
  <2>1. /\ UNCHANGED journal /\ call[c].pc = "notify" /\ call'[c].pc = "acked"
        /\ call'[c].id = call[c].id /\ call'[c].gen = call[c].gen
    BY <1>1, <1>7 DEF NotifyStep, CancelHandle, MoveCall, CallState
  <2>2. QED
    BY <1>1, <1>2, <2>1 DEF SignalInv, Holding, Callers
<1>8. QED
  BY <1>3, <1>4, <1>5, <1>6, <1>7 DEF CallProgress

LEMMA SignalStep ==
  ASSUME IInv, EndsOnce, SignalInv, SnapInv, ~Fault, [Next]_vars
  PROVE  SignalInv'
<1>0. /\ call \in [Callers -> CallState] /\ journal \in View /\ pruned \in Nat
      /\ \A i \in Ids : journal.signals[i] \in {None, journal.signals[i]}
  BY DEF IInv, TypeInv, TypeOK
<1>1. CASE \E s \in Steps : StepProgress(s) \/ FnProgress(s)
  BY <1>0, <1>1, StepFrame, SignalKept DEF stepUnchanged
<1>2. CASE RunProgress
  <2>1. /\ UNCHANGED call /\ pruned' \in {pruned, pruned + 1}
        /\ meta'.st \notin Terminal =>
             meta.st \notin Terminal /\ journal'.signals = journal.signals
    BY <1>2, RunFrame DEF execUnchanged
  <2>2. \A i \in Ids : journal'.signals[i] \in {None, journal.signals[i]}
    BY <1>0, <1>2, RunFrame DEF SnapInv
  <2>3. QED
    BY <1>0, <2>1, <2>2, SignalKept
<1>3. ASSUME NEW c \in Callers, CallProgress(c) \/ \E id \in Ids : BeginCall(c, id)
      PROVE  SignalInv'
  BY <1>3, SignalCallStep
<1>4. CASE OtherSteps
  BY <1>0, <1>4, OtherFrame, SignalKept DEF disk
<1>5. CASE NewProcess
  <2>1. \A c \in Callers :
          \/ call'[c] = IdleCall
          \/ call'[c] = call[c] /\ call[c].pc \in {"acked", "rejected"}
    BY <1>5 DEF NewProcess
  <2>2. QED
    BY <2>1 DEF SignalInv, IdleCall, Callers, Holding
<1>6. CASE UNCHANGED vars
  BY <1>0, <1>6, SignalKept DEF vars
<1>7. QED
  BY <1>1, <1>2, <1>3, <1>4, <1>5, <1>6, StepKinds

LEMMA SnapStep ==
  ASSUME IInv, EndsOnce, SignalInv, SnapInv, ~Fault, [Next]_vars
  PROVE  SnapInv'
<1>0. journal \in View /\ run \in RunState /\ call \in [Callers -> CallState]
  BY DEF IInv, TypeInv, TypeOK
<1>1. CASE \E s \in Steps : StepProgress(s) \/ FnProgress(s)
  BY <1>1, StepFrame DEF stepUnchanged, SnapInv
<1>2. CASE RunProgress
  <2>1. run'.pc = "rewrite" => snap' = journal /\ UNCHANGED journal
    BY <1>2, AttemptStart
  <2>2. QED
    BY <2>1 DEF SnapInv
<1>3. ASSUME NEW c \in Callers, CallProgress(c) \/ \E id \in Ids : BeginCall(c, id)
      PROVE  SnapInv'
  <2>1. UNCHANGED snap /\ run'.pc = run.pc /\ journal'.steps = journal.steps
    BY <1>3, CallFrame
  <2>2. ASSUME NEW i \in Ids
        PROVE  journal'.signals[i] = journal.signals[i] \/ journal.signals[i] = None
    BY <1>0, <1>3 DEF CallProgress, BeginCall, LockAndLoadMeta, ReadJournal, AppendSignal,
         NotifyStep, CancelHandle, SignalInv, View, CallState
  <2>3. QED
    BY <2>1, <2>2 DEF SnapInv
<1>4. CASE OtherSteps
  BY <1>4, OtherFrame DEF SnapInv, disk
<1>5. CASE NewProcess
  BY <1>5 DEF NewProcess, OffRun, SnapInv
<1>6. CASE UNCHANGED vars
  BY <1>6 DEF SnapInv, vars
<1>7. QED
  BY <1>1, <1>2, <1>3, <1>4, <1>5, <1>6, StepKinds

\* While the run goes on no signal that is in the journal leaves it or is replaced.
LEMMA SignalsStay ==
  ASSUME IInv, EndsOnce, SignalInv, ~Fault, [Next]_vars, meta.st \notin Terminal,
         NEW i \in Ids, journal.signals[i] # None
  PROVE  journal'.signals[i] = journal.signals[i]
<1>1. CASE \E s \in Steps : StepProgress(s) \/ FnProgress(s)
  BY <1>1, StepFrame
<1>2. CASE RunProgress
  BY <1>2 DEF RunProgress, LoadMeta, ResolveInput, ReplayJournal, EndAttempt, SaveOutput,
       SaveCompleted, SaveFailed, CompactRead, CompactWrite, CompactGeneration, disk,
       EndsOnce, Compacting
<1>3. ASSUME NEW c \in Callers, CallProgress(c) \/ \E id \in Ids : BeginCall(c, id)
      PROVE  journal'.signals[i] = journal.signals[i]
  <2>1. journal \in View
    BY DEF IInv, TypeInv, TypeOK
  <2>2. QED
    BY <1>3, <2>1 DEF CallProgress, BeginCall, LockAndLoadMeta, ReadJournal, AppendSignal,
         NotifyStep, CancelHandle, SignalInv, View
<1>4. CASE OtherSteps
  BY <1>4, OtherFrame DEF disk
<1>5. CASE NewProcess \/ UNCHANGED vars
  BY <1>5 DEF NewProcess, vars, disk
<1>6. QED
  BY <1>1, <1>2, <1>3, <1>4, <1>5, StepKinds

-----------------------------------------------------------------------------
\* Cancellation

LEMMA CancelStep ==
  ASSUME IInv, EndsOnce, SignalInv, CancelInv, ~Fault, [Next]_vars
  PROVE  CancelInv'
<1>0. /\ journal \in View /\ run \in RunState /\ call \in [Callers -> CallState]
      /\ go \in [Steps -> StepState] /\ CancelSignal \in Ids
      /\ run.pc \in {"exec", "drain"} => meta.st \notin Terminal
  BY DEF IInv, TypeInv, TypeOK, EndInv, Compacting, Ids
<1>1. CASE \E s \in Steps : StepProgress(s) \/ FnProgress(s)
  <2>1. PICK s \in Steps : StepProgress(s) \/ FnProgress(s)
    BY <1>1
  <2>2. /\ UNCHANGED <<run, call>> /\ journal'.signals = journal.signals
        /\ meta.st \notin Terminal
    BY <2>1, StepFrame DEF stepUnchanged
  <2>3. \A t \in Steps : go'[t].late = go[t].late
    BY <2>1, StepFrame
  <2>4. QED
    BY <2>2, <2>3 DEF CancelInv, CancelAcked
<1>2. CASE RunProgress
  <2>1. /\ UNCHANGED call
        /\ meta'.st \notin Terminal => meta.st \notin Terminal /\ UNCHANGED journal
    BY <1>2, RunFrame DEF execUnchanged
  <2>2. run'.pc \in {"exec", "drain"} =>
          \/ run.pc \in {"exec", "drain"} /\ (run.ctxDone => run'.ctxDone)
          \/ meta.st \notin Terminal /\ (CancelPersisted(journal) => run'.ctxDone)
    BY <1>0, <1>2, AttemptStart
       DEF EndAttempt, ReplayJournal, ReplayFrom, RunState, IInv, EndInv, Compacting
  <2>3. go' = go \/ go' = IdleSteps
    BY <1>2, AttemptStart DEF ReplayJournal, ReplayFrom, NewRunner
  <2>4. \A s \in Steps : ~go'[s].late
    <3>1. \A s \in Steps : ~IdleSteps[s].late
      BY DEF IdleSteps, IdleStep
    <3>2. QED
      BY <2>3, <3>1 DEF CancelInv
  <2>5. QED
    BY <2>1, <2>2, <2>4 DEF CancelInv, CancelAcked, CancelPersisted
<1>3. ASSUME NEW c \in Callers, CallProgress(c) \/ \E id \in Ids : BeginCall(c, id)
      PROVE  CancelInv'
  <2>1. /\ meta' = meta /\ \A t \in Steps : go'[t].late = go[t].late
        /\ \A d \in Callers \ {c} : call'[d] = call[d]
        /\ run' = run \/ (run'.pc = run.pc /\ run'.ctxDone)
    BY <1>3, CallFrame
  <2>2. meta.st \notin Terminal /\ journal.signals[CancelSignal] # None =>
          journal'.signals[CancelSignal] # None
    BY <1>0, <1>3, SignalsStay DEF Next
  <2>3. CASE c \in Cancellers /\ call'[c].pc = "acked" /\ call[c].pc # "acked"
    <3>1. CancelHandle(c) /\ call[c].pc = "notify"
      BY <1>0, <1>3, <2>3, DistinctCallers
         DEF CallProgress, BeginCall, LockAndLoadMeta, ReadJournal, Decision,
             AppendSignal, NotifyStep, CancelHandle, MoveCall, CallState
    <3>2. /\ meta.st \notin Terminal => journal.signals[CancelSignal] # None
          /\ run.pc \in {"exec", "drain"} => run'.ctxDone
      BY <1>0, <2>3, <3>1 DEF SignalInv, CancelHandle, RunState
    <3>3. QED
      BY <1>0, <2>1, <2>2, <3>2 DEF CancelInv
  <2>4. CASE CancelAcked' => CancelAcked
    BY <2>1, <2>2, <2>4 DEF CancelInv
  <2>5. QED
    BY <1>0, <2>1, <2>3, <2>4 DEF CancelAcked, Callers
<1>4. CASE OtherSteps
  <2>1. /\ UNCHANGED <<meta, journal, call>>
        /\ run'.pc \in {"exec", "drain"} /\ run.ctxDone => run'.ctxDone
        /\ run'.pc \in {"exec", "drain"} => run.pc \in {"exec", "drain"}
    BY <1>4, OtherFrame DEF disk
  <2>2. ASSUME NEW s \in Steps, NEW v \in Versions, RunStep(s, v)
        PROVE  \A t \in Steps : ~go'[t].late
    <3>1. ~CancelAcked /\ go' \in [Steps -> StepState]
      BY <2>2, RunStepType DEF RunStep, CancelInv, IInv, TypeInv, GoInv
    <3>2. go'[s].late = CancelAcked /\ \A t \in Steps \ {s} : go'[t] = go[t]
      BY <1>0, <2>2 DEF RunStep, IdleStep
    <3>3. QED
      BY <3>1, <3>2 DEF CancelInv
  <2>3. \A s \in Steps : ~go'[s].late
    BY <1>4, <2>2 DEF OtherSteps, RunTask, PeekMeta, RegisterRun, TaskBehaviour, TaskReturns,
         RunTimeout, Close, StopRun, Closed, engineUnchanged, execUnchanged, CancelInv
  <2>4. QED
    BY <2>1, <2>3 DEF CancelInv, CancelAcked
<1>5. CASE NewProcess
  BY <1>0, <1>5
     DEF NewProcess, OffRun, CancelInv, CancelAcked, Callers, disk, IdleSteps, IdleStep, IdleCall
<1>6. CASE UNCHANGED vars
  BY <1>6 DEF CancelInv, CancelAcked, vars
<1>7. QED
  BY <1>1, <1>2, <1>3, <1>4, <1>5, <1>6, StepKinds

-----------------------------------------------------------------------------
\* The count of waiting steps

CountedPc == {"suspend", "record", "register", "reread", "blocked", "resume", "leave"}

\* Each step of a goroutine keeps the count in line with where the goroutine is.
LEMMA StepCounted ==
  ASSUME IInv, ~Fault, NEW s \in Steps, StepProgress(s) \/ FnProgress(s)
  PROVE  \/ /\ waiting' = waiting /\ (go'[s].pc \in CountedPc <=> go[s].pc \in CountedPc)
            /\ \/ meta' = meta /\ (go[s].pc = "unset" => go'[s].pc = "unset")
               \/ go'[s].pc \in CountedPc \/ meta'.st = "running"
         \/ /\ waiting' = waiting + 1 /\ go[s].pc \notin CountedPc /\ go'[s].pc \in CountedPc
         \/ /\ go[s].pc \in CountedPc /\ go'[s].pc \notin CountedPc
            /\ waiting' = IF waiting > 0 THEN waiting - 1 ELSE 0
            /\ waiting' = 0 => go'[s].pc = "unset"
<1> USE DEF CountedPc, IInv
<1>1. go \in [Steps -> StepState] /\ meta \in MetaState
  BY DEF TypeInv, TypeOK
<1>2. \A out : Return(s, out) => go'[s].pc = "done"
  BY <1>1 DEF Return, StepState
<1>3. \A pc : Move(s, pc) => go'[s].pc = pc
  BY <1>1 DEF Move, StepState
<1>4. \A pc, out : MoveWith(s, pc, out) => go'[s].pc = pc
  BY <1>1 DEF MoveWith, StepState
<1>5. CASE FnProgress(s)
  <2>1. PICK o \in Outcomes : FnReturns(s, o)
    BY <1>5 DEF FnProgress
  <2>2. go'[s].pc \in {"persist", "pending", "ready"}
    BY <1>1, <1>3, <1>4, <2>1 DEF FnReturns, StepState
  <2>3. QED
    BY <2>1, <2>2 DEF FnReturns
<1>6. CASE StartStep(s) \/ InvokeStep(s) \/ PersistOutcome(s)
  BY <1>2, <1>3, <1>6 DEF StartStep, InvokeStep, PersistOutcome
<1>7. CASE RecordWaiting(s) \/ RegisterChannel(s) \/ RereadJournal(s) \/ ReceiveSignal(s)
  BY <1>3, <1>4, <1>7 DEF RecordWaiting, RegisterChannel, RereadJournal, ReceiveSignal
<1>8. CASE AbandonWait(s) \/ ResumeStep(s)
  BY <1>3, <1>4, <1>8 DEF AbandonWait, ResumeStep
<1>9. CASE CountWaiting(s)
  BY <1>3, <1>9 DEF CountWaiting
<1>10. CASE SuspendRun(s)
  BY <1>3, <1>10 DEF SuspendRun
<1>11. CASE LeaveWaiting(s)
  BY <1>2, <1>3, <1>11 DEF LeaveWaiting
<1>12. CASE UnsuspendRun(s)
  BY <1>1, <1>2, <1>12 DEF UnsuspendRun, SetStatus, MetaState
<1>13. QED
  BY <1>5, <1>6, <1>7, <1>8, <1>9, <1>10, <1>11, <1>12 DEF StepProgress

LEMMA StepWaiting ==
  ASSUME IInv, WaitingInv, ~Fault, NEW s \in Steps, StepProgress(s) \/ FnProgress(s)
  PROVE  WaitingInv'
<1>1. /\ run' = run /\ run.pc \in {"exec", "drain"}
      /\ \A t \in Steps \ {s} : go'[t] = go[t]
  BY StepFrame DEF stepUnchanged
<1>2. /\ IsFiniteSet(Counted) /\ waiting = Cardinality(Counted)
      /\ meta.st = "waiting" => Counted # {} \/ \E t \in Steps : go[t].pc = "unset"
  BY <1>1 DEF WaitingInv
<1>3. Counted = {t \in Steps : go[t].pc \in CountedPc}
  BY DEF Counted, CountedPc
<1>4. Counted' = {t \in Steps : go'[t].pc \in CountedPc}
  BY DEF Counted, CountedPc
<1>5. CASE /\ waiting' = waiting /\ (go'[s].pc \in CountedPc <=> go[s].pc \in CountedPc)
           /\ \/ meta' = meta /\ (go[s].pc = "unset" => go'[s].pc = "unset")
              \/ go'[s].pc \in CountedPc \/ meta'.st = "running"
  <2>1. Counted' = Counted
    BY <1>1, <1>3, <1>4, <1>5
  <2>2. meta'.st = "waiting" => Counted' # {} \/ \E t \in Steps : go'[t].pc = "unset"
    BY <1>1, <1>2, <1>4, <1>5, <2>1
  <2>3. QED
    BY <1>1, <1>2, <1>5, <2>1, <2>2 DEF WaitingInv
<1>6. CASE waiting' = waiting + 1 /\ go[s].pc \notin CountedPc /\ go'[s].pc \in CountedPc
  <2>1. Counted' = Counted \cup {s} /\ s \notin Counted
    BY <1>1, <1>3, <1>4, <1>6
  <2>2. IsFiniteSet(Counted') /\ Cardinality(Counted') = Cardinality(Counted) + 1
    BY <1>2, <2>1, FS_AddElement
  <2>3. QED
    BY <1>1, <1>2, <1>6, <2>1, <2>2 DEF WaitingInv
<1>7. CASE /\ go[s].pc \in CountedPc /\ go'[s].pc \notin CountedPc
           /\ waiting' = IF waiting > 0 THEN waiting - 1 ELSE 0
           /\ waiting' = 0 => go'[s].pc = "unset"
  <2>1. Counted' = Counted \ {s} /\ s \in Counted
    BY <1>1, <1>3, <1>4, <1>7
  <2>2. /\ IsFiniteSet(Counted') /\ Cardinality(Counted') = Cardinality(Counted) - 1
        /\ Cardinality(Counted') \in Nat /\ Cardinality(Counted) \in Nat
    BY <1>2, <2>1, FS_RemoveElement, FS_CardinalityType
  <2>3. waiting' = Cardinality(Counted')
    BY <1>2, <1>7, <2>2
  <2>4. Counted' # {} \/ go'[s].pc = "unset"
    BY <1>7, <2>3, FS_EmptySet
  <2>5. QED
    BY <1>1, <2>2, <2>3, <2>4 DEF WaitingInv
<1>8. QED
  BY <1>5, <1>6, <1>7, StepCounted

LEMMA NewRunnerWaiting ==
  ASSUME NewRunner
  PROVE  IsFiniteSet(Counted') /\ waiting' = Cardinality(Counted')
<1>1. Counted' = {}
  BY DEF NewRunner, Counted, IdleSteps, IdleStep
<1>2. QED
  BY <1>1, FS_EmptySet DEF NewRunner

LEMMA WaitingStep ==
  ASSUME IInv, WaitingInv, ~Fault, [Next]_vars
  PROVE  WaitingInv'
<1>0. meta \in MetaState /\ run \in RunState
  BY DEF IInv, TypeInv, TypeOK
<1>1. CASE \E s \in Steps : StepProgress(s) \/ FnProgress(s)
  BY <1>1, StepWaiting
<1>2. CASE RunProgress
  <2>1. run'.pc \in {"input", "replay"} => meta'.st = "running"
    <3>1. CASE LoadMeta
      BY <1>0, <3>1 DEF LoadMeta, SetStatus, Finish, OffRun, MetaState
    <3>2. CASE ResolveInput
      BY <3>2 DEF ResolveInput, Finish, OffRun, WaitingInv
    <3>3. CASE EndAttempt
      <4>1. AfterAttempt \in {"exec", "output", "fail"}
        BY DEF AfterAttempt
      <4>2. QED
        BY <1>0, <3>3, <4>1 DEF EndAttempt, RunState
    <3>4. CASE ReplayJournal \/ SaveOutput \/ SaveCompleted \/ SaveFailed
      BY <1>0, <3>4
         DEF ReplayJournal, ReplayFrom, SaveOutput, SaveCompleted, SaveFailed, RunState
    <3>5. CASE CompactRead \/ CompactWrite \/ CompactGeneration
      BY <1>0, <3>5
         DEF CompactRead, CompactWrite, CompactGeneration, Finish, OffRun, RunState
    <3>6. QED
      BY <1>2, <3>1, <3>2, <3>3, <3>4, <3>5 DEF RunProgress
  <2>2. CASE run'.pc \in {"exec", "drain"}
    <3>1. CASE ReplayJournal
      <4>1. NewRunner /\ meta'.st # "waiting"
        BY <2>2, <3>1 DEF ReplayJournal, ReplayFrom, disk, WaitingInv
      <4>2. QED
        BY <2>1, <4>1, NewRunnerWaiting DEF WaitingInv
    <3>2. CASE EndAttempt /\ NewRunner
      <4>1. meta' = meta /\ run.pc = "drain" /\ \A s \in Steps : go[s].pc \in {"idle", "done"}
        BY <3>2 DEF EndAttempt, disk, Drained
      <4>2. meta'.st # "waiting"
        BY <4>1 DEF WaitingInv, Counted
      <4>3. QED
        BY <2>1, <3>2, <4>2, NewRunnerWaiting DEF WaitingInv
    <3>3. QED
      BY <1>2, <2>2, <3>1, <3>2, AttemptStart
  <2>3. CASE run'.pc \notin {"exec", "drain"}
    BY <2>1, <2>3 DEF WaitingInv
  <2>4. QED
    BY <2>2, <2>3
<1>3. ASSUME NEW c \in Callers, CallProgress(c) \/ \E id \in Ids : BeginCall(c, id)
      PROVE  WaitingInv'
  <2>1. /\ UNCHANGED <<meta, waiting>> /\ run'.pc = run.pc
        /\ \A t \in Steps : go'[t].pc = go[t].pc
    BY <1>3, CallFrame
  <2>2. Counted' = Counted
    BY <2>1 DEF Counted
  <2>3. QED
    BY <2>1, <2>2 DEF WaitingInv
<1>4. CASE OtherSteps
  <2>1. /\ UNCHANGED <<meta, waiting>>
        /\ run'.pc \in {"input", "replay"} => run.pc = run'.pc
        /\ run'.pc \in {"exec", "drain"} => run.pc \in {"exec", "drain"}
    BY <1>4, OtherFrame DEF disk
  <2>2. \A t \in Steps : \/ go'[t].pc = go[t].pc
                         \/ go[t].pc = "idle" /\ go'[t].pc \in {"spawned", "done"}
    BY <1>4, OtherGo, RunStepFrame
  <2>3. Counted' = Counted
    BY <2>2 DEF Counted
  <2>4. QED
    BY <2>1, <2>2, <2>3 DEF WaitingInv
<1>5. CASE NewProcess
  BY <1>5 DEF NewProcess, OffRun, WaitingInv
<1>6. CASE UNCHANGED vars
  BY <1>6 DEF vars, WaitingInv, Counted
<1>7. QED
  BY <1>1, <1>2, <1>3, <1>4, <1>5, <1>6, StepKinds

-----------------------------------------------------------------------------
\* The cache and the goroutines of the steps

LEMMA MoveEffect ==
  ASSUME go \in [Steps -> StepState], NEW s \in Steps, NEW pc, Move(s, pc)
  PROVE  /\ go'[s].pc = pc /\ go'[s].ver = go[s].ver /\ go'[s].out = go[s].out
         /\ go'[s].box = go[s].box
BY DEF Move, StepState

LEMMA MoveWithEffect ==
  ASSUME go \in [Steps -> StepState], NEW s \in Steps, NEW pc, NEW out, MoveWith(s, pc, out)
  PROVE  /\ go'[s].pc = pc /\ go'[s].ver = go[s].ver /\ go'[s].out = out
         /\ go'[s].box = go[s].box
BY DEF MoveWith, StepState

LEMMA ReturnEffect ==
  ASSUME go \in [Steps -> StepState], obs \in [Steps -> SUBSET Observation],
         NEW s \in Steps, NEW out, Return(s, out)
  PROVE  /\ go'[s].pc = "done" /\ go'[s].box = None
         /\ obs'[s] = IF out.st \in Terminal
                      THEN obs[s] \cup {[ver |-> go[s].ver, st |-> out.st, val |-> out.val]}
                      ELSE obs[s]
BY DEF Return, StepState

LEMMA PutRecordEffect ==
  ASSUME journal \in View, cache \in [Steps -> Record], NEW s \in Steps, NEW rec,
         PutRecord(s, rec), cache' = [cache EXCEPT ![s] = rec]
  PROVE  journal'.steps[s] = rec /\ journal'.signals = journal.signals /\ cache'[s] = rec
BY DEF PutRecord, View

\* A step that leaves the records of t alone, and of its signals only adds one.
LEMMA StepInvKept ==
  ASSUME NEW t \in Steps, StepInv(t),
         go'[t].pc = go[t].pc, go'[t].ver = go[t].ver, go'[t].out = go[t].out,
         cache'[t] = cache[t], journal'.steps[t] = journal.steps[t],
         journal.signals[t] # None => journal'.signals[t] = journal.signals[t],
         go'[t].box # None => go'[t].box = go[t].box \/ go'[t].box = journal'.signals[t]
  PROVE  StepInv(t)'
<1>1. Agrees(t)'
  BY DEF StepInv, Agrees
<1>2. Hit(t, go[t].ver)' <=> Hit(t, go[t].ver)
  BY DEF Hit
<1>3. QED
  BY <1>1, <1>2 DEF StepInv

LEMMA StepInvDone ==
  ASSUME NEW s \in Steps, Agrees(s)', go'[s].pc = "done", go'[s].box = None
  PROVE  StepInv(s)'
BY DEF StepInv

\* The goroutine of a step keeps its own invariant.
LEMMA StepInvStep ==
  ASSUME IInv, ~Fault, NEW s \in Steps, StepInv(s), StepProgress(s) \/ FnProgress(s)
  PROVE  StepInv(s)'
<1> USE DEF StepInv
<1>1. /\ go \in [Steps -> StepState] /\ journal \in View /\ cache \in [Steps -> Record]
      /\ obs \in [Steps -> SUBSET Observation] /\ execs[s] \in Nat
      /\ FnResult(execs[s]) \in Value
  BY ValueTypes DEF IInv, TypeInv, TypeOK
<1>2. go'[s].ver = go[s].ver /\ journal'.signals = journal.signals
  BY StepFrame
<1>3. ASSUME UNCHANGED <<cache, journal>>
      PROVE  Agrees(s)' /\ (Hit(s, go[s].ver)' <=> Hit(s, go[s].ver))
  BY <1>2, <1>3 DEF Agrees, Hit
<1>4. ASSUME NEW out, Return(s, out), UNCHANGED <<cache, journal>>
      PROVE  StepInv(s)'
  BY <1>1, <1>3, <1>4, ReturnEffect, StepInvDone
<1>5. CASE FnProgress(s)
  <2>1. PICK o \in Outcomes : FnReturns(s, o)
    BY <1>5 DEF FnProgress
  <2>2. /\ go[s].pc = "fn" /\ UNCHANGED <<cache, journal>>
        /\ \/ Move(s, "pending")
           \/ MoveWith(s, "persist", Completed(FnResult(execs[s])))
           \/ MoveWith(s, "persist", Failed(FnResult(execs[s])))
           \/ go' = [go EXCEPT ![s] = [@ EXCEPT !.pc = "ready", !.try = go[s].try + 1]]
    BY <2>1 DEF FnReturns
  <2>3. CASE Move(s, "pending")
    BY <1>1, <1>2, <1>3, <2>2, <2>3, MoveEffect
  <2>4. ASSUME NEW out, out.val = FnResult(execs[s]), MoveWith(s, "persist", out)
        PROVE  StepInv(s)'
    BY <1>1, <1>2, <1>3, <2>2, <2>4, MoveWithEffect
  <2>5. CASE go' = [go EXCEPT ![s] = [@ EXCEPT !.pc = "ready", !.try = go[s].try + 1]]
    <3>1. go'[s].pc = "ready" /\ go'[s].box = go[s].box
      BY <1>1, <2>5 DEF StepState
    <3>2. QED
      BY <1>2, <1>3, <2>2, <3>1
  <2>6. QED
    BY <2>2, <2>3, <2>4, <2>5 DEF Completed, Failed
<1>6. CASE StartStep(s)
  <2>1. CASE Move(s, "ready") /\ UNCHANGED obs
    BY <1>1, <1>2, <1>3, <1>6, <2>1, MoveEffect DEF StartStep
  <2>2. QED
    BY <1>4, <1>6, <2>1 DEF StartStep
<1>7. CASE InvokeStep(s) \/ CountWaiting(s)
  BY <1>1, <1>2, <1>3, <1>7, MoveEffect DEF InvokeStep, CountWaiting
<1>8. CASE PersistOutcome(s)
  <2>1. journal'.steps[s] = cache'[s] /\ go'[s].pc = "done" /\ go'[s].box = None
    BY <1>1, <1>8, PutRecordEffect, ReturnEffect DEF PersistOutcome
  <2>2. QED
    BY <2>1, StepInvDone DEF Agrees
<1>9. CASE SuspendRun(s)
  BY <1>1, <1>2, <1>3, <1>9, MoveEffect DEF SuspendRun
<1>10. CASE RecordWaiting(s)
  <2>1. /\ journal'.steps[s] = cache'[s] /\ cache'[s].st = "waiting"
        /\ go'[s].pc = "register" /\ go'[s].box = go[s].box
    BY <1>1, <1>10, PutRecordEffect, MoveEffect DEF RecordWaiting
  <2>2. QED
    BY <1>2, <2>1 DEF Agrees
<1>11. CASE RegisterChannel(s)
  BY <1>1, <1>2, <1>3, <1>11, MoveEffect DEF RegisterChannel
<1>12. CASE RereadJournal(s) \/ ReceiveSignal(s) \/ AbandonWait(s)
  BY <1>1, <1>2, <1>3, <1>12, MoveEffect, MoveWithEffect
     DEF RereadJournal, ReceiveSignal, AbandonWait
<1>13. CASE ResumeStep(s)
  <2>1. CASE UNCHANGED <<journal, cache>> /\ MoveWith(s, "leave", ErrorOutcome)
    BY <1>1, <1>2, <1>3, <1>13, <2>1, MoveWithEffect DEF ResumeStep
  <2>2. CASE /\ PutRecord(s, [st |-> "completed", ver |-> go[s].stored, val |-> go[s].out.val])
             /\ cache' = [cache EXCEPT ![s] = [st |-> "completed", ver |-> go[s].stored,
                                               val |-> go[s].out.val]]
             /\ Move(s, "leave")
    <3>1. /\ journal'.steps[s] = cache'[s] /\ cache'[s].st = "completed"
          /\ cache'[s].val = go[s].out.val
      BY <1>1, <2>2, PutRecordEffect
    <3>2. go'[s].pc = "leave" /\ go'[s].out = go[s].out /\ go'[s].box = go[s].box
      BY <1>1, <2>2, MoveEffect
    <3>3. go[s].out = Completed(go[s].out.val)
      BY <1>13 DEF ResumeStep, Completed
    <3>4. QED
      BY <1>2, <3>1, <3>2, <3>3 DEF Agrees
  <2>3. QED
    BY <1>13, <2>1, <2>2 DEF ResumeStep
<1>14. CASE LeaveWaiting(s)
  <2>1. CASE Move(s, "unset") /\ UNCHANGED obs
    BY <1>1, <1>2, <1>3, <1>14, <2>1, MoveEffect DEF LeaveWaiting
  <2>2. QED
    BY <1>4, <1>14, <2>1 DEF LeaveWaiting
<1>15. CASE UnsuspendRun(s)
  BY <1>4, <1>15 DEF UnsuspendRun
<1>16. QED
  BY <1>5, <1>6, <1>7, <1>8, <1>9, <1>10, <1>11, <1>12, <1>13, <1>14, <1>15 DEF StepProgress

LEMMA StepsStep ==
  ASSUME IInv, EndsOnce, SignalInv, StepsInv, ~Fault, [Next]_vars
  PROVE  StepsInv'
<1>0. /\ go \in [Steps -> StepState] /\ run \in RunState /\ Steps \subseteq Ids
      /\ run.pc \in {"exec", "drain"} => meta.st \notin Terminal
  BY DEF IInv, TypeInv, TypeOK, EndInv, Compacting, Ids
<1>1. CASE \E s \in Steps : StepProgress(s) \/ FnProgress(s)
  <2>1. PICK s \in Steps : StepProgress(s) \/ FnProgress(s)
    BY <1>1
  <2>2. StepInv(s)'
    BY <2>1, StepInvStep, StepFrame DEF StepsInv
  <2>3. ASSUME NEW t \in Steps \ {s}
        PROVE  StepInv(t)'
    BY <2>1, StepInvKept, StepFrame DEF StepsInv
  <2>4. QED
    BY <2>2, <2>3 DEF StepsInv
<1>2. CASE RunProgress
  <2>1. CASE ReplayJournal /\ run'.pc \in {"exec", "drain"}
    <3>1. cache' = Overlay(journal) /\ go' = IdleSteps /\ journal' = journal
      BY <1>0, <2>1 DEF ReplayJournal, ReplayFrom, NewRunner, disk
    <3>2. ASSUME NEW s \in Steps
          PROVE  StepInv(s)'
      <4>1. Agrees(s)'
        BY <3>1 DEF Overlay, Agrees, Resumed
      <4>2. go'[s].pc = "idle" /\ go'[s].box = None
        BY <3>1 DEF IdleSteps, IdleStep
      <4>3. QED
        BY <4>1, <4>2 DEF StepInv
    <3>3. QED
      BY <3>2 DEF StepsInv
  <2>2. CASE EndAttempt /\ NewRunner
    <3>1. /\ UNCHANGED <<cache, journal>> /\ go' = IdleSteps
          /\ run.pc = "drain"
      BY <2>2 DEF EndAttempt, NewRunner, disk
    <3>2. ASSUME NEW s \in Steps
          PROVE  StepInv(s)'
      <4>1. Agrees(s)'
        BY <3>1 DEF StepsInv, StepInv, Agrees
      <4>2. go'[s].pc = "idle" /\ go'[s].box = None
        BY <3>1 DEF IdleSteps, IdleStep
      <4>3. QED
        BY <4>1, <4>2 DEF StepInv
    <3>3. QED
      BY <3>2 DEF StepsInv
  <2>3. QED
    BY <1>2, <2>1, <2>2, AttemptStart DEF StepsInv
<1>3. ASSUME NEW c \in Callers, CallProgress(c) \/ \E id \in Ids : BeginCall(c, id),
             run'.pc \in {"exec", "drain"}, NEW t \in Steps
      PROVE  StepInv(t)'
  <2>1. /\ run.pc \in {"exec", "drain"} /\ cache' = cache /\ journal'.steps = journal.steps
        /\ go'[t].pc = go[t].pc /\ go'[t].ver = go[t].ver /\ go'[t].out = go[t].out
    BY <1>3, CallFrame
  <2>2. StepInv(t) /\ meta.st \notin Terminal
    BY <1>0, <2>1 DEF StepsInv
  <2>3. journal.signals[t] # None => journal'.signals[t] = journal.signals[t]
    BY <1>0, <1>3, <2>2, SignalsStay DEF Next
  <2>4. CASE NotifyStep(c)
    <3>1. journal' = journal /\ journal.signals[call[c].id] = Payload(c)
      BY <2>2, <2>4 DEF NotifyStep, SignalInv, callUnchanged, Callers
    <3>2. go'[t].box # go[t].box => t = call[c].id /\ go'[t].box = Payload(c)
      BY <1>0, <2>4 DEF NotifyStep, StepState
    <3>3. QED
      BY <2>1, <2>2, <2>3, <3>1, <3>2, StepInvKept
  <2>5. CASE ~NotifyStep(c)
    <3>1. go' = go
      BY <1>3, <2>5 DEF CallProgress, BeginCall, LockAndLoadMeta, ReadJournal, AppendSignal,
                        CancelHandle
    <3>2. QED
      BY <2>1, <2>2, <2>3, <3>1, StepInvKept
  <2>6. QED
    BY <2>4, <2>5
<1>4. CASE OtherSteps
  <2>1. /\ UNCHANGED <<journal, cache>>
        /\ run'.pc \in {"exec", "drain"} => run.pc \in {"exec", "drain"}
    BY <1>4, OtherFrame DEF disk
  <2>2. ASSUME run'.pc \in {"exec", "drain"}, NEW t \in Steps
        PROVE  StepInv(t)'
    <3>1. StepInv(t)
      BY <2>1, <2>2 DEF StepsInv
    <3>2. CASE go'[t] = go[t]
      BY <2>1, <3>1, <3>2, StepInvKept
    <3>3. CASE \E v \in Versions : RunStep(t, v)
      <4>1. PICK v \in Versions : RunStep(t, v)
        BY <3>3
      <4>2. Agrees(t)' /\ (Hit(t, v)' <=> Hit(t, v))
        BY <2>1, <3>1 DEF StepInv, Agrees, Hit
      <4>3. go'[t].ver = v /\ go'[t].box = None
        BY <4>1, RunStepFrame
      <4>4. \/ go'[t].pc = "spawned" /\ ~Hit(t, v)
            \/ go'[t].pc = "done"
        BY <4>1, RunStepFrame
      <4>5. QED
        BY <4>2, <4>3, <4>4 DEF StepInv
    <3>4. QED
      BY <1>4, <3>2, <3>3, OtherGo, RunStepFrame
  <2>3. QED
    BY <2>2 DEF StepsInv
<1>5. CASE NewProcess
  BY <1>5 DEF NewProcess, OffRun, StepsInv
<1>6. CASE UNCHANGED vars
  BY <1>6 DEF vars, StepsInv, StepInv, Agrees, Hit
<1>7. QED
  BY <1>1, <1>2, <1>3, <1>4, <1>5, <1>6, StepKinds DEF StepsInv

\* What the goroutine of a step does to its record and to what was seen of it.
LEMMA RecordEffect ==
  ASSUME IInv, ~Fault, NEW s \in Steps, StepProgress(s) \/ FnProgress(s)
  PROVE  \/ journal' = journal /\ obs'[s] = obs[s]
         \/ /\ go[s].pc = "persist" /\ go[s].out.st \in Terminal
            /\ journal'.steps[s].st = go[s].out.st
            /\ journal'.steps[s].val = go[s].out.val
            /\ obs'[s] = obs[s] \cup
                 {[ver |-> go[s].ver, st |-> go[s].out.st, val |-> go[s].out.val]}
         \/ /\ go[s].pc = "record" /\ obs'[s] = obs[s]
            /\ journal'.steps[s].st = "waiting"
         \/ /\ go[s].pc = "resume" /\ obs'[s] = obs[s]
            /\ journal'.steps[s].st = "completed"
            /\ journal'.steps[s].val = go[s].out.val
         \/ /\ go[s].pc \in {"leave", "unset"} /\ journal' = journal
            /\ obs'[s] = IF go[s].out.st \in Terminal
                         THEN obs[s] \cup {[ver |-> go[s].ver, st |-> go[s].out.st,
                                            val |-> go[s].out.val]}
                         ELSE obs[s]
<1>1. /\ go \in [Steps -> StepState] /\ journal \in View /\ cache \in [Steps -> Record]
      /\ obs \in [Steps -> SUBSET Observation]
      /\ go[s].pc = "persist" => go[s].out.st \in Terminal
  BY DEF IInv, TypeInv, TypeOK, GoInv
<1>2. ErrorOutcome.st \notin Terminal
  BY DEF ErrorOutcome, Terminal
<1>3. CASE FnProgress(s)
  BY <1>3 DEF FnProgress, FnReturns
<1>4. CASE StartStep(s)
  BY <1>1, <1>2, <1>4, ReturnEffect DEF StartStep
<1>5. CASE InvokeStep(s) \/ CountWaiting(s) \/ SuspendRun(s) \/ RegisterChannel(s)
  BY <1>5 DEF InvokeStep, CountWaiting, SuspendRun, RegisterChannel
<1>6. CASE RereadJournal(s) \/ ReceiveSignal(s) \/ AbandonWait(s)
  BY <1>6 DEF RereadJournal, ReceiveSignal, AbandonWait
<1>7. CASE PersistOutcome(s)
  <2> DEFINE rec == [st |-> go[s].out.st, ver |-> go[s].stored, val |-> go[s].out.val]
  <2>1. /\ go[s].pc = "persist" /\ Return(s, go[s].out) /\ PutRecord(s, rec)
        /\ cache' = [cache EXCEPT ![s] = rec]
    BY <1>7 DEF PersistOutcome
  <2>2. journal'.steps[s] = rec
    BY <1>1, <2>1, PutRecordEffect
  <2>3. obs'[s] = obs[s] \cup
                    {[ver |-> go[s].ver, st |-> go[s].out.st, val |-> go[s].out.val]}
    BY <1>1, <2>1, ReturnEffect
  <2>4. QED
    BY <1>1, <2>1, <2>2, <2>3
<1>8. CASE RecordWaiting(s) \/ ResumeStep(s)
  BY <1>1, <1>8, PutRecordEffect DEF RecordWaiting, ResumeStep
<1>9. CASE LeaveWaiting(s) \/ UnsuspendRun(s)
  BY <1>1, <1>9, ReturnEffect DEF LeaveWaiting, UnsuspendRun
<1>10. QED
  BY <1>3, <1>4, <1>5, <1>6, <1>7, <1>8, <1>9 DEF StepProgress

LEMMA ValueStep ==
  ASSUME IInv, EndsOnce, SnapInv, StepsInv, ValueInv, ~Fault, [Next]_vars
  PROVE  ValueInv'
<1>1. CASE \E s \in Steps : StepProgress(s) \/ FnProgress(s)
  <2>1. PICK s \in Steps : StepProgress(s) \/ FnProgress(s)
    BY <1>1
  <2>2. /\ \A t \in Steps \ {s} : journal'.steps[t] = journal.steps[t]
        /\ StepInv(s)
    BY <2>1, StepFrame DEF StepsInv
  <2>3. journal.signals[s] \in Value \cup {None}
    BY DEF IInv, TypeInv, TypeOK, View, Ids
  <2>4. go[s].pc = "resume" => go[s].out.val \in Value
    BY <2>2, <2>3 DEF StepInv, Completed
  <2>5. journal'.steps[s].st \in Terminal => journal'.steps[s].val \in Value
    <3>1. go[s].pc = "persist" => go[s].out.val \in Value
      BY <2>2 DEF StepInv
    <3>2. \/ journal' = journal
          \/ journal'.steps[s].st = "waiting"
          \/ /\ go[s].pc \in {"persist", "resume"}
             /\ journal'.steps[s].val = go[s].out.val
      BY <2>1, RecordEffect
    <3>3. QED
      BY <2>4, <3>1, <3>2 DEF ValueInv, Terminal
  <2>6. QED
    BY <2>2, <2>5 DEF ValueInv
<1>2. CASE RunProgress
  BY <1>2, RunFrame DEF ValueInv, SnapInv
<1>3. ASSUME NEW c \in Callers, CallProgress(c) \/ \E id \in Ids : BeginCall(c, id)
      PROVE  ValueInv'
  BY <1>3, CallFrame DEF ValueInv
<1>4. CASE OtherSteps
  BY <1>4, OtherFrame DEF ValueInv, disk
<1>5. CASE NewProcess \/ UNCHANGED vars
  BY <1>5 DEF NewProcess, disk, vars, ValueInv
<1>6. QED
  BY <1>1, <1>2, <1>3, <1>4, <1>5, StepKinds

-----------------------------------------------------------------------------
\* The invariant and its consequences

Clean == EndsOnce /\ SignalInv /\ SnapInv /\ CancelInv /\ WaitingInv /\ StepsInv /\ ValueInv

CleanInv == NoFault => Clean

LEMMA CleanInit == Init => CleanInv
<1>1. Init => EndsOnce /\ SnapInv /\ WaitingInv /\ StepsInv
  BY DEF Init, EndsOnce, SnapInv, WaitingInv, StepsInv, OffRun, Compacting
<1>2. ASSUME Init PROVE SignalInv /\ CancelInv
  <2>1. \A c \in Callers : call[c] = IdleCall
    BY <1>2 DEF Init
  <2>2. \A c \in Callers : call[c].pc = "idle" /\ call[c].id = CancelSignal
    BY <2>1 DEF IdleCall
  <2>3. \A s \in Steps : ~go[s].late
    BY <1>2 DEF Init, IdleSteps, IdleStep
  <2>4. run.pc = "off"
    BY <1>2 DEF Init, OffRun
  <2>5. QED
    BY <2>2, <2>3, <2>4 DEF SignalInv, CancelInv, CancelAcked, Callers, Holding
<1>4. Init => ValueInv
  <2> SUFFICES ASSUME Init, NEW s \in Steps PROVE journal.steps[s].st \notin Terminal
    BY DEF ValueInv
  <2>1. journal.steps[s].st = "none"
    BY DEF Init, EmptyView, NoRecord
  <2>2. QED
    BY <2>1 DEF Terminal
<1>5. QED
  BY <1>1, <1>2, <1>4 DEF CleanInv, Clean

LEMMA CleanStep == IInv /\ CleanInv /\ [Next]_vars => CleanInv'
<1> SUFFICES ASSUME IInv, CleanInv, [Next]_vars, NoFault' PROVE Clean'
  BY DEF CleanInv
<1>1. Clean /\ ~Fault
  BY NoFaultBefore DEF CleanInv, IInv
<1>2. EndsOnce' /\ SignalInv' /\ SnapInv' /\ CancelInv'
  BY <1>1, EndsOnceStep, SignalStep, SnapStep, CancelStep DEF Clean
<1>3. WaitingInv' /\ StepsInv' /\ ValueInv'
  BY <1>1, WaitingStep, StepsStep, ValueStep DEF Clean
<1>4. QED
  BY <1>2, <1>3 DEF Clean

LEMMA CleanAlways == Spec => [](IInv /\ CleanInv)
<1>1. Init => IInv /\ CleanInv
  BY InvInit, CleanInit
<1>2. IInv /\ CleanInv /\ [Next]_vars => IInv' /\ CleanInv'
  BY InvStep, CleanStep
<1>3. QED
  BY <1>1, <1>2, PTL DEF Spec

\* A run with no step counted as waiting does not look suspended, for any number of
\* steps that suspend, are resumed, time out or are cancelled at the same time.
THEOREM NeverStaleWaiting == Spec => []NoStaleWaiting
<1>1. IInv /\ CleanInv => NoStaleWaiting
  <2> SUFFICES ASSUME IInv, CleanInv, used.faults = 0, run.pc \in {"exec", "drain"},
                      waiting = 0, \A s \in Steps : go[s].pc \notin {"suspend", "unset"}
               PROVE  meta.st # "waiting"
    BY DEF NoStaleWaiting
  <2>1. /\ IsFiniteSet(Counted) /\ Cardinality(Counted) = 0
        /\ meta.st = "waiting" => Counted # {} \/ \E s \in Steps : go[s].pc = "unset"
    BY DEF CleanInv, Clean, NoFault, WaitingInv
  <2>2. QED
    BY <2>1, FS_EmptySet
<1>2. QED
  BY <1>1, CleanAlways, PTL

\* fn only runs for a step without a settled record, whatever the versions and
\* however often the process dies.
THEOREM SettledNeverReruns == Spec => NoRerun
<1> DEFINE Fresh == used.faults = 0 =>
             \A s \in Steps : execs'[s] # execs[s] => ~Settled(s, go[s].ver)
<1>1. IInv /\ CleanInv /\ [Next]_vars => Fresh
  <2> SUFFICES ASSUME IInv, CleanInv, [Next]_vars, used.faults = 0,
                      NEW s \in Steps, execs'[s] # execs[s]
               PROVE  ~Settled(s, go[s].ver)
    OBVIOUS
  <2>1. InvokeStep(s)
    <3>1. execs \in [Steps -> Nat]
      BY DEF IInv, TypeInv, TypeOK
    <3>2. ASSUME NEW t \in Steps, StepProgress(t) \/ FnProgress(t)
          PROVE  InvokeStep(s)
      BY <3>1, <3>2 DEF StepProgress, FnProgress, FnReturns, StartStep, InvokeStep,
           PersistOutcome, CountWaiting, SuspendRun, RecordWaiting, RegisterChannel,
           RereadJournal, ReceiveSignal, AbandonWait, ResumeStep, LeaveWaiting, UnsuspendRun
    <3>3. CASE RunProgress
      BY <3>3 DEF RunProgress, LoadMeta, ResolveInput, ReplayJournal, EndAttempt, SaveOutput,
           SaveCompleted, SaveFailed, CompactRead, CompactWrite, CompactGeneration,
           execUnchanged
    <3>4. ASSUME NEW c \in Callers, CallProgress(c) \/ \E id \in Ids : BeginCall(c, id)
          PROVE  FALSE
      BY <3>4, CallFrame DEF history
    <3>5. CASE OtherSteps
      BY <3>5, OtherFrame
    <3>6. CASE NewProcess \/ UNCHANGED vars
      BY <3>6 DEF NewProcess, vars, history
    <3>7. CASE OpenCutsJournal
      BY <3>7 DEF OpenCutsJournal, history
    <3>8. QED
      BY <3>2, <3>3, <3>4, <3>5, <3>6, <3>7, StepKinds
  <2>2. /\ cache[s].st # "waiting" /\ ~Hit(s, go[s].ver) /\ Agrees(s)
        /\ journal.steps[s] \in Record
    <3>1. go[s].pc = "ready" /\ run.pc \in {"exec", "drain"}
      BY <2>1, StepFrame DEF InvokeStep, StepProgress
    <3>2. StepInv(s)
      BY <3>1 DEF CleanInv, Clean, NoFault, StepsInv
    <3>3. journal.steps[s] \in Record
      BY DEF IInv, TypeInv, TypeOK, View
    <3>4. QED
      BY <3>1, <3>2, <3>3 DEF StepInv
  <2>3. QED
    BY <2>2 DEF Hit, Agrees, Resumed, Settled, Record, Terminal
<1>2. QED
  BY <1>1, CleanAlways, PTL DEF Spec, NoRerun

\* After CancelRun returned nil no later RunStep call gets as far as invoking fn.
THEOREM CancelAlwaysStopsWork == Spec => CancelStopsWork
<1> DEFINE Stopped == used.faults = 0 =>
             \A s \in Steps : execs'[s] # execs[s] => ~go[s].late
<1>1. IInv /\ CleanInv => Stopped
  BY DEF CleanInv, Clean, NoFault, CancelInv
<1>2. QED
  BY <1>1, CleanAlways, PTL DEF Spec, CancelStopsWork

\* No CompleteStep call replaces the payload of another, for any number of callers
\* that race, retry, or outlive a crash.
THEOREM FirstSignalAlwaysWins == Spec => FirstSignalWins
<1> DEFINE Stays == \A s \in Steps :
             used'.faults = 0 /\ journal.signals[s] # None /\ meta.st \notin Terminal
               => journal'.signals[s] = journal.signals[s]
<1>1. IInv /\ CleanInv /\ [Next]_vars => Stays
  <2> SUFFICES ASSUME IInv, CleanInv, [Next]_vars, NEW s \in Steps,
                      used'.faults = 0, journal.signals[s] # None, meta.st \notin Terminal
               PROVE  journal'.signals[s] = journal.signals[s]
    OBVIOUS
  <2>1. NoFault /\ ~Fault
    BY NoFaultBefore DEF IInv, NoFault
  <2>2. Clean /\ s \in Ids
    BY <2>1 DEF CleanInv, Ids
  <2>3. QED
    BY <2>1, <2>2, SignalsStay DEF Clean
<1>2. QED
  BY <1>1, CleanAlways, PTL DEF Spec, FirstSignalWins

-----------------------------------------------------------------------------
\* The memo store: what a step's outcome is, and what the task saw of it

LEMMA DecidedByRecord ==
  ASSUME NEW s \in Steps, journal.steps[s].st \in Terminal
  PROVE  memoDecided[s] = [st |-> journal.steps[s].st, val |-> journal.steps[s].val]
BY DEF memoDecided

LEMMA DecidedBySignal ==
  ASSUME NEW s \in Steps, journal.steps[s].st = "waiting"
  PROVE  memoDecided[s] = IF /\ journal.signals[s] # None
                             /\ memoStatus = "active" \/ obs[s] # {}
                          THEN Completed(journal.signals[s]) ELSE NoOutcome
BY DEF memoDecided, Terminal

LEMMA NotDecided ==
  ASSUME NEW s \in Steps, journal.steps[s].st = "none"
  PROVE  memoDecided[s] = NoOutcome
BY DEF memoDecided, Terminal

\* The outcome of a step depends on its record, its signal, the status and on
\* whether it was seen, and on nothing else.
LEMMA DecidedSame ==
  ASSUME NEW s \in Steps, journal'.steps[s] = journal.steps[s],
         journal'.signals[s] = journal.signals[s], memoStatus' = memoStatus,
         obs'[s] = obs[s] \/ memoStatus = "active"
  PROVE  memoDecided'[s] = memoDecided[s]
BY DEF memoDecided

LEMMA SeenSame ==
  ASSUME NEW s \in Steps, obs'[s] = obs[s]
  PROVE  memoSeen'[s] = memoSeen[s]
BY DEF memoSeen

LEMMA SeenOneMore ==
  ASSUME NEW s \in Steps, NEW v, NEW a, NEW b,
         obs'[s] = obs[s] \cup {[ver |-> v, st |-> a, val |-> b]}
  PROVE  memoSeen'[s] = memoSeen[s] \cup {[st |-> a, val |-> b]}
<1>1. /\ memoSeen[s] = {[st |-> o.st, val |-> o.val] : o \in obs[s]}
      /\ memoSeen'[s] = {[st |-> o.st, val |-> o.val] : o \in obs'[s]}
  BY DEF memoSeen
<1> DEFINE new == [ver |-> v, st |-> a, val |-> b]
<1>2. new.st = a /\ new.val = b
  OBVIOUS
<1> HIDE DEF new
<1>3. obs'[s] = obs[s] \cup {new}
  BY DEF new
<1>4. QED
  BY <1>1, <1>2, <1>3

\* A step with no outcome was not seen to have one.
LEMMA UndecidedUnseen ==
  ASSUME SeenInv, NEW s \in Steps, memoDecided[s] = NoOutcome
  PROVE  obs[s] = {} /\ memoSeen[s] = {}
BY DEF SeenInv, memoSeen

\* The ways a step of the code may act on the outcome of s.
MemoAct(s) ==
  \/ memoDecided'[s] = memoDecided[s] /\ memoSeen'[s] = memoSeen[s]
  \/ /\ memoDecided[s] = NoOutcome /\ memoDecided'[s] \in MemoOutcomes
     /\ memoSeen'[s] \in {memoSeen[s], memoSeen[s] \cup {memoDecided'[s]}}
  \/ /\ memoDecided[s] # NoOutcome /\ memoDecided'[s] = memoDecided[s]
     /\ memoSeen'[s] = memoSeen[s] \cup {memoDecided[s]}

LEMMA MemoActStep ==
  ASSUME NEW s \in Steps, memoStatus = "active", memoStatus' = "active", MemoAct(s),
         \A t \in Steps \ {s} : memoDecided'[t] = memoDecided[t] /\ memoSeen'[t] = memoSeen[t]
  PROVE  [Memo!MemoNext]_(Memo!memoVars)
<1>1. /\ memoDecided = [t \in Steps |-> memoDecided[t]]
      /\ memoDecided' = [t \in Steps |-> memoDecided'[t]]
  BY DEF memoDecided
<1>2. /\ memoSeen = [t \in Steps |-> memoSeen[t]]
      /\ memoSeen' = [t \in Steps |-> memoSeen'[t]]
  BY DEF memoSeen
<1>3. CASE memoDecided'[s] = memoDecided[s] /\ memoSeen'[s] = memoSeen[s]
  <2>1. memoDecided' = memoDecided /\ memoSeen' = memoSeen
    BY <1>1, <1>2, <1>3
  <2>2. QED
    BY <2>1 DEF Memo!memoVars
<1>4. CASE /\ memoDecided[s] = NoOutcome /\ memoDecided'[s] \in MemoOutcomes
           /\ memoSeen'[s] \in {memoSeen[s], memoSeen[s] \cup {memoDecided'[s]}}
  <2>1. memoDecided' = [memoDecided EXCEPT ![s] = memoDecided'[s]]
    BY <1>1
  <2>2. memoSeen' \in {memoSeen, [memoSeen EXCEPT ![s] = @ \cup {memoDecided'[s]}]}
    BY <1>2, <1>4
  <2>3. Memo!Decide(s)
    BY <1>4, <2>1, <2>2 DEF Memo!Decide
  <2>4. QED
    BY <2>3 DEF Memo!MemoNext
<1>5. CASE /\ memoDecided[s] # NoOutcome /\ memoDecided'[s] = memoDecided[s]
           /\ memoSeen'[s] = memoSeen[s] \cup {memoDecided[s]}
  <2>1. memoDecided' = memoDecided
    BY <1>1, <1>5
  <2>2. memoSeen' = [memoSeen EXCEPT ![s] = @ \cup {memoDecided[s]}]
    BY <1>2, <1>5
  <2>3. Memo!Show(s)
    BY <1>5, <2>1, <2>2 DEF Memo!Show
  <2>4. QED
    BY <2>3 DEF Memo!MemoNext
<1>6. QED
  BY <1>3, <1>4, <1>5 DEF MemoAct

\* The task passes no version to RunStep.
Unversioned == Versions = {""}

\* Without versions, a step that was found in no decided state has no record.
LEMMA FreshUndecided ==
  ASSUME Unversioned, IInv, NEW s \in Steps, StepInv(s),
         go[s].pc \in {"persist", "record"}
  PROVE  journal.steps[s].st = "none"
<1>1. cache[s] \in Record /\ go[s].ver = ""
  BY DEF Unversioned, IInv, TypeInv, TypeOK, StepState
<1>2. cache[s].st \notin Terminal /\ cache[s].st # "waiting"
  BY <1>1 DEF StepInv, Hit, VersionMatches
<1>3. cache[s].st = "none"
  BY <1>1, <1>2 DEF Record, Terminal
<1>4. journal.steps[s] \in Record
  BY DEF IInv, TypeInv, TypeOK, View
<1>5. QED
  BY <1>3, <1>4 DEF StepInv, Agrees, Resumed, Record

LEMMA StepMemo ==
  ASSUME Unversioned, IInv, StepsInv, ~Fault,
         NEW s \in Steps, StepProgress(s) \/ FnProgress(s)
  PROVE  [Memo!MemoNext]_(Memo!memoVars)
<1>1. /\ memoStatus = "active" /\ memoStatus' = "active"
      /\ \A t \in Steps \ {s} : journal'.steps[t] = journal.steps[t] /\ obs'[t] = obs[t]
      /\ journal'.signals = journal.signals
      /\ StepInv(s)
  BY StepFrame DEF memoStatus, StepsInv
<1>2. /\ journal.signals[s] \in Value \cup {None} /\ journal.steps[s] \in Record
      /\ ErrorOutcome.st \notin Terminal
  BY DEF IInv, TypeInv, TypeOK, View, Ids, ErrorOutcome, Terminal
<1>3. \A t \in Steps \ {s} : memoDecided'[t] = memoDecided[t] /\ memoSeen'[t] = memoSeen[t]
  BY <1>1, DecidedSame, SeenSame
<1> SUFFICES MemoAct(s)
  BY <1>1, <1>3, MemoActStep
<1>4. CASE journal' = journal /\ obs'[s] = obs[s]
  BY <1>1, <1>4, DecidedSame, SeenSame DEF MemoAct
<1>5. CASE /\ go[s].pc = "persist" /\ go[s].out.st \in Terminal
           /\ journal'.steps[s].st = go[s].out.st /\ journal'.steps[s].val = go[s].out.val
           /\ obs'[s] = obs[s] \cup
                {[ver |-> go[s].ver, st |-> go[s].out.st, val |-> go[s].out.val]}
  <2>1. memoDecided[s] = NoOutcome
    BY <1>1, <1>5, FreshUndecided, NotDecided
  <2>2. memoDecided'[s] = [st |-> go[s].out.st, val |-> go[s].out.val]
    BY <1>5 DEF memoDecided
  <2>3. memoSeen'[s] = memoSeen[s] \cup {[st |-> go[s].out.st, val |-> go[s].out.val]}
    BY <1>5, SeenOneMore
  <2>4. memoDecided'[s] \in MemoOutcomes
    BY <1>1, <1>5, <2>2 DEF StepInv, MemoOutcomes
  <2>5. QED
    BY <2>1, <2>2, <2>3, <2>4 DEF MemoAct
<1>6. CASE go[s].pc = "record" /\ obs'[s] = obs[s] /\ journal'.steps[s].st = "waiting"
  <2>1. memoDecided[s] = NoOutcome
    BY <1>1, <1>6, FreshUndecided, NotDecided
  <2>2. memoDecided'[s] = IF journal.signals[s] # None THEN Completed(journal.signals[s])
                                                       ELSE NoOutcome
    BY <1>1, <1>6 DEF memoDecided, Terminal
  <2>3. memoDecided'[s] = NoOutcome \/ memoDecided'[s] \in MemoOutcomes
    BY <1>2, <2>2 DEF MemoOutcomes, Completed, Terminal
  <2>4. QED
    BY <1>6, <2>1, <2>3, SeenSame DEF MemoAct
<1>7. CASE /\ go[s].pc = "resume" /\ obs'[s] = obs[s]
           /\ journal'.steps[s].st = "completed" /\ journal'.steps[s].val = go[s].out.val
  <2>1. cache[s].st = "waiting" /\ go[s].out = Completed(journal.signals[s])
        /\ journal.signals[s] # None
    BY <1>1, <1>7 DEF StepInv
  <2>2. journal.steps[s].st = "waiting"
    BY <1>1, <1>2, <2>1 DEF StepInv, Agrees, Resumed, Record
  <2>3. memoDecided[s] = Completed(journal.signals[s])
    BY <1>1, <2>1, <2>2, DecidedBySignal
  <2>4. memoDecided'[s] = Completed(go[s].out.val)
    BY <1>7 DEF memoDecided, Terminal, Completed
  <2>5. go[s].out.val = journal.signals[s]
    BY <2>1 DEF Completed
  <2>6. QED
    BY <1>7, <2>3, <2>4, <2>5, SeenSame DEF MemoAct
<1>8. CASE /\ go[s].pc \in {"leave", "unset"} /\ journal' = journal
           /\ obs'[s] = IF go[s].out.st \in Terminal
                        THEN obs[s] \cup {[ver |-> go[s].ver, st |-> go[s].out.st,
                                           val |-> go[s].out.val]}
                        ELSE obs[s]
  <2>1. CASE go[s].out = ErrorOutcome
    BY <1>2, <1>4, <1>8, <2>1
  <2>2. CASE /\ cache[s] = journal.steps[s] /\ cache[s].st = "completed"
             /\ go[s].out = Completed(cache[s].val)
    <3>1. go[s].out.st = "completed" /\ go[s].out.val = cache[s].val
      BY <2>2 DEF Completed
    <3>2. memoDecided[s] = [st |-> go[s].out.st, val |-> go[s].out.val]
      BY <2>2, <3>1, DecidedByRecord DEF Terminal
    <3>3. memoSeen'[s] = memoSeen[s] \cup {[st |-> go[s].out.st, val |-> go[s].out.val]}
      BY <1>8, <3>1, SeenOneMore DEF Terminal
    <3>4. memoDecided'[s] = memoDecided[s]
      BY <1>1, <1>8, DecidedSame
    <3>5. memoDecided[s] # NoOutcome
      BY <3>1, <3>2 DEF NoOutcome
    <3>6. QED
      BY <3>2, <3>3, <3>4, <3>5 DEF MemoAct
  <2>3. QED
    BY <1>1, <1>8, <2>1, <2>2 DEF StepInv
<1>9. QED
  BY <1>4, <1>5, <1>6, <1>7, <1>8, RecordEffect

LEMMA MemoStutter ==
  ASSUME memoStatus' = memoStatus,
         \A t \in Steps : memoDecided'[t] = memoDecided[t] /\ memoSeen'[t] = memoSeen[t]
  PROVE  UNCHANGED Memo!memoVars
<1>1. /\ memoDecided = [t \in Steps |-> memoDecided[t]]
      /\ memoDecided' = [t \in Steps |-> memoDecided'[t]]
  BY DEF memoDecided
<1>2. /\ memoSeen = [t \in Steps |-> memoSeen[t]]
      /\ memoSeen' = [t \in Steps |-> memoSeen'[t]]
  BY DEF memoSeen
<1>3. memoDecided' = memoDecided /\ memoSeen' = memoSeen
  BY <1>1, <1>2
<1>4. QED
  BY <1>3 DEF Memo!memoVars

LEMMA SignalAdded ==
  ASSUME IInv, SignalInv, ~Fault,
         NEW c \in Callers, CallProgress(c) \/ \E id \in Ids : BeginCall(c, id)
  PROVE  \/ journal' = journal
         \/ \E i \in Ids : /\ journal.signals[i] = None /\ journal'.signals[i] \in Value
                           /\ \A j \in Ids \ {i} : journal'.signals[j] = journal.signals[j]
<1>1. journal \in View /\ call \in [Callers -> CallState]
  BY DEF IInv, TypeInv, TypeOK
<1>2. CASE AppendSignal(c)
  <2> DEFINE i == call[c].id
  <2>1. i \in Ids /\ journal.signals[i] = None
    BY <1>1, <1>2 DEF AppendSignal, SignalInv, CallState
  <2>2. journal' = [journal EXCEPT !.signals[i] = Payload(c)]
    BY <1>2 DEF AppendSignal
  <2>3. Payload(c) \in Value
    BY ValueTypes
  <2>4. journal'.signals[i] = Payload(c)
        /\ \A j \in Ids \ {i} : journal'.signals[j] = journal.signals[j]
    BY <1>1, <2>1, <2>2 DEF View
  <2>5. QED
    BY <2>1, <2>3, <2>4
<1>3. QED
  BY <1>2 DEF CallProgress, BeginCall, LockAndLoadMeta, ReadJournal, NotifyStep,
       CancelHandle

LEMMA CallMemo ==
  ASSUME IInv, SignalInv, SeenInv, ~Fault,
         NEW c \in Callers, CallProgress(c) \/ \E id \in Ids : BeginCall(c, id)
  PROVE  [Memo!MemoNext]_(Memo!memoVars)
<1>1. memoStatus' = memoStatus /\ obs' = obs /\ journal'.steps = journal.steps
  BY CallFrame DEF memoStatus, history
<1>2. \A t \in Steps : memoSeen'[t] = memoSeen[t]
  BY <1>1, SeenSame
<1>3. CASE \A t \in Steps : journal'.signals[t] = journal.signals[t]
  BY <1>1, <1>2, <1>3, DecidedSame, MemoStutter
<1>4. ASSUME NEW i \in Steps, journal.signals[i] = None, journal'.signals[i] \in Value,
             \A t \in Steps \ {i} : journal'.signals[t] = journal.signals[t]
      PROVE  [Memo!MemoNext]_(Memo!memoVars)
  <2>1. \A t \in Steps \ {i} : memoDecided'[t] = memoDecided[t] /\ memoSeen'[t] = memoSeen[t]
    BY <1>1, <1>2, <1>4, DecidedSame
  <2>2. CASE journal.steps[i].st # "waiting"
    <3>1. memoDecided'[i] = memoDecided[i]
      BY <1>1, <2>2 DEF memoDecided
    <3>2. QED
      BY <1>1, <1>2, <2>1, <3>1, MemoStutter
  <2>3. CASE journal.steps[i].st = "waiting"
    <3>1. memoDecided[i] = NoOutcome
      BY <1>4, <2>3, DecidedBySignal
    <3>2. obs[i] = {}
      BY <3>1, UndecidedUnseen
    <3>3. journal'.signals[i] # None
      BY <1>4, NoneIsNoValue
    <3>4. memoDecided'[i] = IF memoStatus = "active" THEN Completed(journal'.signals[i])
                            ELSE NoOutcome
      BY <1>1, <2>3, <3>2, <3>3 DEF memoDecided, Terminal
    <3>5. Completed(journal'.signals[i]) \in MemoOutcomes
      BY <1>4 DEF Completed, MemoOutcomes, Terminal
    <3>6. MemoAct(i)
      BY <1>2, <3>1, <3>4, <3>5 DEF MemoAct
    <3>7. CASE memoStatus = "active"
      BY <1>1, <2>1, <3>6, <3>7, MemoActStep
    <3>8. CASE memoStatus # "active"
      BY <1>1, <1>2, <2>1, <3>1, <3>4, <3>8, MemoStutter
    <3>9. QED
      BY <3>7, <3>8
  <2>4. QED
    BY <2>2, <2>3
<1>5. QED
  BY <1>3, <1>4, SignalAdded DEF Ids

LEMMA RunMemo ==
  ASSUME IInv, EndsOnce, SnapInv, SeenInv, ~Fault, RunProgress
  PROVE  [Memo!MemoNext]_(Memo!memoVars)
<1>1. /\ obs' = obs
      /\ journal' = journal \/ (run.pc = "rewrite" /\ meta.st \in Terminal /\ journal' = snap)
  BY RunFrame DEF execUnchanged
<1>2. \A t \in Steps : memoSeen'[t] = memoSeen[t]
  BY <1>1, SeenSame
<1>3. CASE meta.st \in Terminal
  <2>1. memoStatus' = memoStatus /\ memoStatus # "active"
    BY <1>3, TerminalStep DEF memoStatus, Next, Terminal
  <2>2. CASE journal' = journal
    BY <1>1, <1>2, <2>1, <2>2, DecidedSame, MemoStutter
  <2>3. CASE run.pc = "rewrite" /\ journal' = snap
    <3> SUFFICES ASSUME NEW t \in Steps PROVE memoDecided'[t] = memoDecided[t]
      BY <1>2, <2>1, MemoStutter
    <3>1. /\ journal'.steps[t] = journal.steps[t]
          /\ journal'.signals[t] \in {None, journal.signals[t]}
      BY <2>3 DEF SnapInv, Ids
    <3>2. CASE journal.steps[t].st # "waiting"
      BY <2>1, <3>1, <3>2 DEF memoDecided
    <3>3. CASE journal.steps[t].st = "waiting" /\ obs[t] = {}
      <4>1. memoDecided[t] = NoOutcome
        BY <2>1, <3>3, DecidedBySignal
      <4>2. memoDecided'[t] = NoOutcome
        BY <1>1, <2>1, <3>1, <3>3 DEF memoDecided, Terminal
      <4>3. QED
        BY <4>1, <4>2
    <3>4. CASE journal.steps[t].st = "waiting" /\ obs[t] # {}
      <4>1. journal'.signals[t] = journal.signals[t]
        BY <2>3, <3>1, <3>4 DEF SeenInv
      <4>2. QED
        BY <1>1, <2>1, <3>1, <4>1, DecidedSame
    <3>5. QED
      BY <3>2, <3>3, <3>4
  <2>4. QED
    BY <1>1, <2>2, <2>3
<1>4. CASE meta.st \notin Terminal /\ meta'.st \notin Terminal
  <2>1. memoStatus' = memoStatus /\ journal' = journal
    BY <1>1, <1>4 DEF memoStatus
  <2>2. QED
    BY <1>1, <1>2, <2>1, DecidedSame, MemoStutter
<1>5. CASE meta.st \notin Terminal /\ meta'.st \in Terminal
  <2>1. /\ memoStatus = "active" /\ memoStatus' = meta'.st /\ memoStatus' # "active"
        /\ memoStatus' \in {"completed", "failed"}
    BY <1>5 DEF memoStatus, Terminal
  <2> DEFINE lost == {t \in Steps : journal.steps[t].st = "waiting" /\ obs[t] = {}}
  <2>2. \A t \in Steps : memoDecided'[t] = IF t \in lost THEN NoOutcome ELSE memoDecided[t]
    <3> SUFFICES ASSUME NEW t \in Steps
                 PROVE  memoDecided'[t] = IF t \in lost THEN NoOutcome ELSE memoDecided[t]
      OBVIOUS
    <3>1. journal' = journal
      BY <1>1, <1>5
    <3>2. CASE journal.steps[t].st # "waiting"
      BY <3>1, <3>2 DEF memoDecided
    <3>3. CASE journal.steps[t].st = "waiting"
      BY <1>1, <2>1, <3>1, <3>3 DEF memoDecided, Terminal
    <3>4. QED
      BY <3>2, <3>3
  <2> HIDE DEF lost
  <2>3. memoDecided' = [t \in Steps |-> IF t \in lost THEN NoOutcome ELSE memoDecided[t]]
    <3>1. memoDecided' = [t \in Steps |-> memoDecided'[t]]
      BY DEF memoDecided
    <3>2. QED
      BY <2>2, <3>1
  <2>4. lost \in SUBSET {t \in Steps : memoSeen[t] = {}}
    BY DEF lost, memoSeen
  <2>5. memoSeen' = memoSeen
    BY <1>1 DEF memoSeen
  <2>6. Memo!End(meta'.st)
    BY <2>1, <2>3, <2>4, <2>5 DEF Memo!End
  <2>7. QED
    BY <2>1, <2>6 DEF Memo!MemoNext
<1>6. QED
  BY <1>3, <1>4, <1>5

\* What a RunStep call replays is the outcome the step has.
LEMMA ReplayIsDecided ==
  ASSUME NEW s \in Steps, Agrees(s), cache[s].st \in Terminal, memoStatus = "active",
         ReplayOutcome(cache[s]).st \in Terminal
  PROVE  memoDecided[s] = [st |-> ReplayOutcome(cache[s]).st,
                           val |-> ReplayOutcome(cache[s]).val]
<1> DEFINE out == ReplayOutcome(cache[s])
<1>1. out.st = cache[s].st /\ out.val = cache[s].val
  <2>1. ErrorOutcome.st \notin Terminal
    BY DEF ErrorOutcome, Terminal
  <2>2. cache[s].st \in {"completed", "failed"}
    BY DEF Terminal
  <2>3. \A v : /\ Completed(v).st = "completed" /\ Completed(v).val = v
               /\ Failed(v).st = "failed" /\ Failed(v).val = v
    BY DEF Completed, Failed
  <2>4. QED
    BY <2>1, <2>2, <2>3 DEF ReplayOutcome
<1>2. CASE cache[s] = journal.steps[s]
  BY <1>1, <1>2, DecidedByRecord
<1>3. CASE /\ journal.steps[s].st = "waiting" /\ journal.signals[s] # None
           /\ cache[s] = Resumed(journal.steps[s], journal.signals[s])
  <2>1. memoDecided[s] = Completed(journal.signals[s])
    BY <1>3, DecidedBySignal
  <2>2. cache[s].st = "completed" /\ cache[s].val = journal.signals[s]
    BY <1>3 DEF Resumed
  <2>3. QED
    BY <1>1, <2>1, <2>2 DEF Completed
<1>4. QED
  BY <1>2, <1>3 DEF Agrees

LEMMA OtherMemo ==
  ASSUME IInv, StepsInv, OtherSteps
  PROVE  [Memo!MemoNext]_(Memo!memoVars)
<1>1. memoStatus' = memoStatus /\ journal' = journal
  BY OtherFrame DEF memoStatus, disk
<1>2. CASE UNCHANGED <<go, obs>>
  BY <1>1, <1>2, DecidedSame, SeenSame, MemoStutter
<1>3. ASSUME NEW s \in Steps, NEW v \in Versions, RunStep(s, v)
      PROVE  [Memo!MemoNext]_(Memo!memoVars)
  <2> DEFINE out == ReplayOutcome(cache[s])
  <2>1. run.pc = "exec" /\ \A t \in Steps \ {s} : obs'[t] = obs[t]
    BY <1>3, RunStepFrame
  <2>2. /\ StepInv(s)
        /\ memoStatus = "active" /\ memoStatus' = "active"
    BY <1>1, <2>1 DEF StepsInv, IInv, EndInv, Compacting, memoStatus
  <2>3. /\ \A t \in Steps \ {s} :
             memoDecided'[t] = memoDecided[t] /\ memoSeen'[t] = memoSeen[t]
        /\ memoDecided'[s] = memoDecided[s]
    BY <1>1, <2>1, <2>2, DecidedSame, SeenSame
  <2>4. \/ obs'[s] = obs[s]
        \/ /\ cache[s].st \in Terminal /\ out.st \in Terminal
           /\ obs'[s] = obs[s] \cup {[ver |-> v, st |-> out.st, val |-> out.val]}
    BY <1>3, RunStepFrame DEF Hit
  <2>5. CASE obs'[s] = obs[s]
    BY <1>1, <2>2, <2>3, <2>5, SeenSame, MemoStutter
  <2>6. CASE /\ cache[s].st \in Terminal /\ out.st \in Terminal
             /\ obs'[s] = obs[s] \cup {[ver |-> v, st |-> out.st, val |-> out.val]}
    <3>1. memoDecided[s] = [st |-> out.st, val |-> out.val]
      BY <2>2, <2>6, ReplayIsDecided DEF StepInv
    <3> HIDE DEF out
    <3>2. memoSeen'[s] = memoSeen[s] \cup {memoDecided[s]}
      BY <2>6, <3>1, SeenOneMore
    <3>3. memoDecided[s] # NoOutcome
      <4>1. out.st # "none" /\ memoDecided[s].st = out.st
        BY <2>6, <3>1 DEF Terminal
      <4>2. QED
        BY <4>1 DEF NoOutcome
    <3>4. MemoAct(s)
      BY <2>3, <3>2, <3>3 DEF MemoAct
    <3>5. QED
      BY <2>2, <2>3, <3>4, MemoActStep
  <2>7. QED
    BY <2>4, <2>5, <2>6
<1>4. QED
  BY <1>2, <1>3, OtherGo

LEMMA MemoStep ==
  ASSUME IInv, Clean, SeenInv, Unversioned, ~Fault, [Next]_vars
  PROVE  [Memo!MemoNext]_(Memo!memoVars)
<1>1. CASE \E s \in Steps : StepProgress(s) \/ FnProgress(s)
  BY <1>1, StepMemo DEF Clean
<1>2. CASE RunProgress
  BY <1>2, RunMemo DEF Clean
<1>3. CASE \E c \in Callers : CallProgress(c) \/ \E id \in Ids : BeginCall(c, id)
  BY <1>3, CallMemo DEF Clean
<1>4. CASE OtherSteps
  BY <1>4, OtherMemo DEF Clean
<1>5. CASE NewProcess \/ UNCHANGED vars
  <2>1. memoStatus' = memoStatus /\ journal' = journal /\ obs' = obs
    BY <1>5 DEF NewProcess, vars, disk, history, memoStatus
  <2>2. QED
    BY <2>1, DecidedSame, SeenSame, MemoStutter
<1>6. QED
  BY <1>1, <1>2, <1>3, <1>4, <1>5, StepKinds

LEMMA SeenOrNot == ASSUME NEW s \in Steps PROVE obs[s] = {} <=> memoSeen[s] = {}
BY DEF memoSeen

\* The part of SeenInv that the memo store knows of.
SeenOnce ==
  \A s \in Steps : memoSeen[s] # {} => memoSeen[s] = {memoDecided[s]} /\ memoDecided[s] # NoOutcome

\* A step of the memo store keeps what was seen of a step equal to its outcome.
LEMMA SeenOnceStep ==
  ASSUME SeenOnce, [Memo!MemoNext]_(Memo!memoVars)
  PROVE  SeenOnce'
<1>1. /\ memoSeen = [t \in Steps |-> memoSeen[t]]
      /\ memoDecided = [t \in Steps |-> memoDecided[t]]
  BY DEF memoSeen, memoDecided
<1> SUFFICES ASSUME NEW s \in Steps, memoSeen'[s] # {}
             PROVE  memoSeen'[s] = {memoDecided'[s]} /\ memoDecided'[s] # NoOutcome
  BY DEF SeenOnce
<1>2. CASE UNCHANGED Memo!memoVars
  BY <1>2 DEF SeenOnce, Memo!memoVars
<1>3. ASSUME NEW t \in Steps, Memo!Show(t)
      PROVE  memoSeen'[s] = {memoDecided'[s]} /\ memoDecided'[s] # NoOutcome
  BY <1>1, <1>3 DEF SeenOnce, Memo!Show
<1>4. ASSUME NEW t \in Steps, Memo!Decide(t)
      PROVE  memoSeen'[s] = {memoDecided'[s]} /\ memoDecided'[s] # NoOutcome
  <2>1. \A o \in MemoOutcomes : o # NoOutcome
    BY DEF MemoOutcomes, NoOutcome, Terminal
  <2> DEFINE new == memoDecided'[t]
  <2>2. /\ memoDecided[t] = NoOutcome /\ new \in MemoOutcomes
        /\ memoDecided' = [memoDecided EXCEPT ![t] = new]
        /\ memoSeen' \in {memoSeen, [memoSeen EXCEPT ![t] = @ \cup {new}]}
    BY <1>4 DEF Memo!Decide
  <2>3. new # NoOutcome /\ memoSeen[t] = {}
    BY <2>1, <2>2 DEF SeenOnce
  <2> HIDE DEF new
  <2>4. CASE s = t
    BY <1>1, <2>2, <2>3, <2>4 DEF new
  <2>5. CASE s # t
    BY <1>1, <2>2, <2>5 DEF SeenOnce
  <2>6. QED
    BY <2>4, <2>5
<1>5. ASSUME NEW st, Memo!End(st)
      PROVE  memoSeen'[s] = {memoDecided'[s]} /\ memoDecided'[s] # NoOutcome
  BY <1>1, <1>5 DEF SeenOnce, Memo!End
<1>6. QED
  BY <1>2, <1>3, <1>4, <1>5 DEF Memo!MemoNext

LEMMA SeenStep ==
  ASSUME IInv, Clean, SeenInv, ~Fault, [Next]_vars, [Memo!MemoNext]_(Memo!memoVars)
  PROVE  SeenInv'
<1>1. SeenOnce'
  BY SeenOrNot, SeenOnceStep DEF SeenInv, SeenOnce
<1>2. \A s \in Steps : obs'[s] # {} =>
        memoSeen'[s] = {memoDecided'[s]} /\ memoDecided'[s] # NoOutcome
  <2>1. \A s \in Steps : obs'[s] # {} => memoSeen'[s] # {}
    BY DEF memoSeen
  <2>2. QED
    BY <1>1, <2>1 DEF SeenOnce
<1> SUFFICES ASSUME NEW s \in Steps, obs'[s] # {}, run'.pc = "rewrite",
                    journal'.steps[s].st = "waiting"
             PROVE  snap'.signals[s] # None
  BY <1>2 DEF SeenInv
<1>3. CASE \E t \in Steps : StepProgress(t) \/ FnProgress(t)
  BY <1>3, StepFrame DEF stepUnchanged
<1>4. CASE RunProgress
  <2>1. snap' = journal /\ journal' = journal
    BY <1>4, AttemptStart
  <2>2. journal'.signals[s] # None
    BY <1>2 DEF memoDecided, Terminal
  <2>3. QED
    BY <2>1, <2>2
<1>5. CASE \E c \in Callers : CallProgress(c) \/ \E id \in Ids : BeginCall(c, id)
  <2>1. obs' = obs /\ snap' = snap /\ run'.pc = run.pc /\ journal'.steps = journal.steps
    BY <1>5, CallFrame DEF history
  <2>2. QED
    BY <2>1 DEF SeenInv
<1>6. CASE OtherSteps
  <2>1. snap' = snap /\ journal' = journal /\ run.pc = "rewrite"
    BY <1>6, OtherFrame DEF disk
  <2>2. obs' = obs
    BY <1>6, <2>1, OtherGo, RunStepFrame
  <2>3. QED
    BY <2>1, <2>2 DEF SeenInv
<1>7. CASE NewProcess
  BY <1>7 DEF NewProcess, OffRun
<1>8. CASE UNCHANGED vars
  BY <1>8 DEF vars, SeenInv
<1>9. QED
  BY <1>3, <1>4, <1>5, <1>6, <1>7, <1>8, StepKinds

SeenCleanInv == NoFault => SeenInv

LEMMA SeenInit == Init => SeenInv
<1> SUFFICES ASSUME Init, NEW s \in Steps PROVE obs[s] = {}
  BY DEF SeenInv
<1>1. QED
  BY DEF Init

LEMMA SeenAlways ==
  ASSUME Unversioned
  PROVE  Spec => [](IInv /\ CleanInv /\ SeenCleanInv)
<1>1. Init => SeenCleanInv
  BY SeenInit DEF SeenCleanInv
<1>2. IInv /\ CleanInv /\ SeenCleanInv /\ [Next]_vars => SeenCleanInv'
  <2> SUFFICES ASSUME IInv, CleanInv, SeenCleanInv, [Next]_vars, NoFault' PROVE SeenInv'
    BY DEF SeenCleanInv
  <2>1. Clean /\ SeenInv /\ ~Fault
    BY NoFaultBefore DEF CleanInv, SeenCleanInv, IInv
  <2>2. QED
    BY <2>1, MemoStep, SeenStep
<1>3. QED
  BY <1>1, <1>2, CleanAlways, PTL DEF Spec

\* Every RunStep of a step ID gives the task the same outcome, across its retries,
\* crashes, restarts and concurrent signals, for any number of steps and callers: as
\* long as the task passes no versions and no I/O call has failed.
THEOREM OneOutcomePerStep ==
  ASSUME Unversioned
  PROVE  Spec => []MemoStable
<1>1. IInv /\ CleanInv /\ SeenCleanInv => MemoStable
  <2> SUFFICES ASSUME IInv, SeenInv, NEW s \in Steps, NEW a \in obs[s], NEW b \in obs[s]
               PROVE  a = b
    BY DEF SeenCleanInv, MemoStable, NoFault
  <2>1. a \in Observation /\ b \in Observation
    BY DEF IInv, TypeInv, TypeOK
  <2>2. memoSeen[s] = {memoDecided[s]}
    BY DEF SeenInv
  <2>3. [st |-> a.st, val |-> a.val] = [st |-> b.st, val |-> b.val]
    BY <2>2 DEF memoSeen
  <2>4. a.st = b.st /\ a.val = b.val
    BY <2>3
  <2>5. a.ver = b.ver
    <3>1. a.ver \in Versions /\ b.ver \in Versions
      BY <2>1 DEF Observation
    <3>2. QED
      BY <3>1 DEF Unversioned
  <2>6. \A o \in Observation : o = [ver |-> o.ver, st |-> o.st, val |-> o.val]
    BY DEF Observation
  <2>7. QED
    BY <2>1, <2>4, <2>5, <2>6
<1>2. QED
  BY <1>1, SeenAlways, PTL

\* No I/O call fails.
Faultless == MaxFaults = 0

\* No failing I/O call is counted when none may fail.
LEMMA NeverFaulty ==
  ASSUME Faultless
  PROVE  Spec => []NoFault
<1>1. Init => NoFault
  BY DEF Init, NoFault
<1>2. IInv /\ NoFault /\ [Next]_vars => NoFault'
  <2> SUFFICES ASSUME IInv, NoFault, [Next]_vars PROVE NoFault'
    OBVIOUS
  <2>1. ~Fault
    BY DEF Fault, NoFault, Faultless
  <2>2. QED
    BY <2>1, FaultsCounted DEF IInv, NoFault
<1>3. QED
  BY <1>1, <1>2, InvAlways, PTL DEF Spec

\* A run whose task passes no versions and whose writes succeed implements the memo
\* store: each step is decided once, is only ever shown as decided, and the run ends
\* once, whatever crashes, retries, signals and cancellations happen.
THEOREM RunImplementsMemoStore ==
  ASSUME Unversioned, Faultless
  PROVE  Spec => RefinesMemoStore
<1>1. Init => Memo!MemoInit
  <2> SUFFICES ASSUME Init PROVE Memo!MemoInit
    OBVIOUS
  <2>1. memoStatus = "active"
    BY DEF Init, memoStatus, Terminal
  <2>2. \A s \in Steps : journal.steps[s].st = "none" /\ obs[s] = {}
    <3>1. NoRecord.st = "none"
      BY DEF NoRecord
    <3>2. \A s \in Steps : journal.steps[s] = NoRecord
      BY DEF Init, EmptyView
    <3>3. QED
      BY <3>1, <3>2 DEF Init
  <2>3. memoDecided = [s \in Steps |-> NoOutcome]
    BY <2>2, NotDecided DEF memoDecided, Terminal
  <2>4. memoSeen = [s \in Steps |-> {}]
    BY <2>2 DEF memoSeen
  <2>5. QED
    BY <2>1, <2>3, <2>4 DEF Memo!MemoInit
<1>2. /\ IInv /\ CleanInv /\ SeenCleanInv /\ NoFault /\ NoFault' /\ [Next]_vars
      => [Memo!MemoNext]_(Memo!memoVars)
  BY MemoStep, NoFaultBefore DEF CleanInv, SeenCleanInv, IInv
<1>3. QED
  BY <1>1, <1>2, SeenAlways, NeverFaulty, PTL DEF Spec, RefinesMemoStore, Memo!MemoSpec

=============================================================================
