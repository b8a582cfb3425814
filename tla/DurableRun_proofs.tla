-------------------------- MODULE DurableRun_proofs --------------------------
(***************************************************************************)
(* For every number of steps, callers, retries, crashes and failing I/O    *)
(* calls: that everything keeps its shape (TypeOK), and how a run ends.    *)
(*                                                                         *)
(*   DrainedAtEnd       no step goroutine outlives the attempt it is of    *)
(*   TerminalIsFinal    a terminal status is never written over            *)
(*   CompletedIsDurable success is on disk before a caller hears of it     *)
(*   InputPinned        every attempt of every process gets the same input *)
(*                                                                         *)
(* TypeOK needs GoInv and ArgInv. The inductive invariant of the others    *)
(* has three parts more. EndInv ties the goroutines and meta.json to the   *)
(* run's program counter: step goroutines only live while it is at "exec"  *)
(* or "drain", and under a terminal status it is off, has not looked at    *)
(* meta.json yet, or is compacting. DurableInv follows the outcome from    *)
(* output.json to meta.json to the caller; InputInv follows the input from *)
(* input.json to the task closure.                                         *)
(***************************************************************************)
EXTENDS DurableRun, TLAPS

\* A goroutine about to append its outcome has one to append.
GoInv == /\ go \in [Steps -> StepState]
         /\ \A t \in Steps : go[t].pc = "persist" => go[t].out.st \in Terminal

\* The closure's argument is the caller's or the file's, never missing.
ArgInv == run.pc # "off" => run.arg # None

TypeInv == TypeOK /\ GoInv /\ ArgInv

LEMMA ValueTypes ==
  /\ \A n \in Nat : FnResult(n) \in Value
  /\ \A c \in Callers : Payload(c) \in Value
BY DEF FnResult, Payload, Value

LEMMA InitialValues ==
  /\ NoRecord \in Record
  /\ EmptyView \in View
  /\ OffRun \in RunState /\ OffRun.pc = "off"
  /\ IdleSteps \in [Steps -> StepState]
  /\ \A s \in Steps : IdleSteps[s].pc = "idle"
  /\ IdleCall \in CallState
  /\ NoOutcome \in Outcome /\ ErrorOutcome \in Outcome
BY NoVersionIsAVersion
   DEF NoRecord, Record, EmptyView, View, OffRun, RunState, RunPc, Cause, IdleSteps, IdleStep,
       StepState, StepPc, NoOutcome, ErrorOutcome, Outcome, IdleCall, CallState, CallPc, Ids

LEMMA TypeInit == Init => TypeInv
<1>1. Init => meta \in MetaState
  BY DEF Init, MetaState, Cause
<1>2. Init => GoInv /\ ArgInv
  BY InitialValues DEF Init, GoInv, ArgInv
<1>3. Init => /\ obs \in [Steps -> SUBSET Observation]
              /\ used \in [crashes : Nat, faults : Nat, timeouts : Nat]
              /\ fed \in SUBSET Inputs /\ reported \in SUBSET Terminal
  BY DEF Init
<1>4. QED
  <2> SUFFICES ASSUME Init PROVE TypeInv
    OBVIOUS
  <2>1. /\ output \in BOOLEAN /\ input \in Inputs \cup {None}
        /\ engine \in {"up", "closing", "closed"} /\ peeked \in BOOLEAN
        /\ waiting \in Nat /\ pruned \in Nat
    BY DEF Init
  <2>2. journal \in View /\ snap \in View /\ run \in RunState
    BY InitialValues DEF Init
  <2>3. cache \in [Steps -> Record] /\ go \in [Steps -> StepState]
    BY InitialValues DEF Init
  <2>4. call \in [Callers -> CallState]
    BY InitialValues DEF Init
  <2>5. execs \in [Steps -> Nat]
    BY InitialValues DEF Init
  <2>6. QED
    BY <1>1, <1>2, <1>3, <2>1, <2>2, <2>3, <2>4, <2>5 DEF TypeInv, TypeOK

LEMMA OneStepType ==
  ASSUME GoInv, NEW s \in Steps, NEW g \in StepState, go' = [go EXCEPT ![s] = g],
         g.pc = "persist" => g.out.st \in Terminal
  PROVE  GoInv'
BY DEF GoInv

LEMMA MoveType ==
  ASSUME GoInv, NEW s \in Steps, NEW pc \in StepPc, Move(s, pc), pc # "persist"
  PROVE  GoInv'
<1> DEFINE g == [go[s] EXCEPT !.pc = pc]
<1>1. g \in StepState /\ g.pc = pc
  BY DEF GoInv, StepState
<1>2. QED
  BY <1>1, OneStepType DEF Move

LEMMA MoveWithType ==
  ASSUME GoInv, NEW s \in Steps, NEW pc \in StepPc, NEW out \in Outcome,
         MoveWith(s, pc, out), pc = "persist" => out.st \in Terminal
  PROVE  GoInv'
<1> DEFINE g == [go[s] EXCEPT !.pc = pc, !.out = out]
<1>1. g \in StepState /\ g.pc = pc /\ g.out = out
  BY DEF GoInv, StepState
<1>2. QED
  BY <1>1, OneStepType DEF MoveWith

LEMMA RetryType ==
  ASSUME GoInv, NEW s \in Steps, NEW n \in Nat,
         go' = [go EXCEPT ![s] = [go[s] EXCEPT !.pc = "ready", !.try = n]]
  PROVE  GoInv'
<1> DEFINE g == [go[s] EXCEPT !.pc = "ready", !.try = n]
<1>1. g \in StepState /\ g.pc = "ready"
  BY DEF GoInv, StepState, StepPc
<1>2. QED
  BY <1>1, OneStepType

LEMMA ObserveType ==
  ASSUME TypeOK, NEW s \in Steps, NEW o \in Observation,
         obs' = [obs EXCEPT ![s] = @ \cup {o}]
  PROVE  obs' \in [Steps -> SUBSET Observation]
BY DEF TypeOK

LEMMA ReturnType ==
  ASSUME TypeOK, GoInv, NEW s \in Steps, NEW out \in Outcome, Return(s, out)
  PROVE  GoInv' /\ obs' \in [Steps -> SUBSET Observation]
<1> DEFINE g == [go[s] EXCEPT !.pc = "done", !.out = out, !.box = None]
           o == [ver |-> go[s].ver, st |-> out.st, val |-> out.val]
<1>1. g \in StepState /\ g.pc = "done"
  BY DEF GoInv, StepState, StepPc
<1>2. GoInv'
  BY <1>1, OneStepType DEF Return
<1>3. CASE out.st \in Terminal
  <2>1. o \in Observation
    BY <1>3 DEF Observation, Outcome, StepState, GoInv
  <2>2. obs' = [obs EXCEPT ![s] = @ \cup {o}]
    BY <1>3 DEF Return
  <2>3. QED
    BY <1>2, <2>1, <2>2, ObserveType
<1>4. CASE out.st \notin Terminal
  BY <1>2, <1>4 DEF Return, TypeOK
<1>5. QED
  BY <1>3, <1>4

LEMMA OutcomeTypes ==
  ASSUME NEW v \in Value \cup {None}
  PROVE  /\ Completed(v) \in Outcome /\ Completed(v).st \in Terminal
         /\ Failed(v) \in Outcome /\ Failed(v).st \in Terminal
BY DEF Completed, Failed, Outcome, Terminal

LEMMA PutRecordType ==
  ASSUME TypeOK, NEW s \in Steps, NEW rec \in Record, MaybePutRecord(s, rec)
  PROVE  journal' \in View
BY DEF TypeOK, MaybePutRecord, PutRecord, View

LEMMA CacheType ==
  ASSUME TypeOK, NEW s \in Steps, NEW rec \in Record, cache' = [cache EXCEPT ![s] = rec]
  PROVE  cache' \in [Steps -> Record]
BY DEF TypeOK

LEMMA UsedType ==
  ASSUME TypeOK, Healthy \/ Fault
  PROVE  used' \in [crashes : Nat, faults : Nat, timeouts : Nat]
BY DEF TypeOK, Healthy, Fault

LEMMA StatusType ==
  ASSUME TypeOK, NEW st \in {"running", "waiting"}, MaybeSetStatus(st)
  PROVE  meta' \in MetaState
BY DEF TypeOK, MaybeSetStatus, SetStatus, MetaState

\* What a goroutine of a step may change.
StepTypes ==
  /\ GoInv
  /\ obs \in [Steps -> SUBSET Observation]
  /\ journal \in View /\ cache \in [Steps -> Record]
  /\ meta \in MetaState /\ waiting \in Nat /\ execs \in [Steps -> Nat]
  /\ used \in [crashes : Nat, faults : Nat, timeouts : Nat]

LEMMA StepTypesSuffice ==
  ASSUME TypeInv, StepTypes', UNCHANGED stepUnchanged
  PROVE  TypeInv'
BY DEF TypeInv, TypeOK, StepTypes, GoInv, ArgInv, stepUnchanged

LEMMA StepProgressType ==
  ASSUME TypeInv, NEW s \in Steps, StepProgress(s)
  PROVE  TypeInv'
<1> USE DEF TypeInv
<1>0. StepTypes
  BY DEF TypeOK, StepTypes
<1>1. CASE StartStep(s)
  <2>1. GoInv' /\ obs' \in [Steps -> SUBSET Observation]
    BY <1>1, ReturnType, MoveType, InitialValues DEF StartStep, StepPc, TypeOK
  <2>2. QED
    BY <1>0, <1>1, <2>1, StepTypesSuffice DEF StartStep, StepTypes
<1>2. CASE InvokeStep(s)
  <2>1. GoInv'
    BY <1>2, MoveType DEF InvokeStep, StepPc
  <2>2. execs' \in [Steps -> Nat]
    BY <1>2 DEF InvokeStep, TypeOK
  <2>3. QED
    BY <1>0, <1>2, <2>1, <2>2, StepTypesSuffice DEF InvokeStep, StepTypes
<1>3. CASE PersistOutcome(s)
  <2> DEFINE rec == [st |-> go[s].out.st, ver |-> go[s].stored, val |-> go[s].out.val]
  <2>1. rec \in Record /\ go[s].out \in Outcome
    BY <1>3 DEF PersistOutcome, GoInv, StepState, Outcome, Terminal, Record
  <2>2. GoInv' /\ obs' \in [Steps -> SUBSET Observation]
    BY <1>3, <2>1, ReturnType, InitialValues DEF PersistOutcome
  <2>3. journal' \in View
    BY <1>3, <2>1, PutRecordType DEF PersistOutcome, MaybePutRecord
  <2>4. cache' \in [Steps -> Record]
    BY <1>3, <2>1, CacheType DEF PersistOutcome, TypeOK
  <2>5. QED
    BY <1>0, <1>3, <2>2, <2>3, <2>4, UsedType, StepTypesSuffice DEF PersistOutcome, StepTypes
<1>4. CASE CountWaiting(s)
  <2>1. GoInv'
    BY <1>4, MoveType DEF CountWaiting, StepPc
  <2>2. waiting' \in Nat
    BY <1>4 DEF CountWaiting, TypeOK
  <2>3. QED
    BY <1>0, <1>4, <2>1, <2>2, StepTypesSuffice DEF CountWaiting, StepTypes
<1>5. CASE SuspendRun(s)
  <2>1. GoInv' /\ obs' \in [Steps -> SUBSET Observation]
    BY <1>5, ReturnType, MoveType, InitialValues DEF SuspendRun, StepPc, TypeOK
  <2>2. meta' \in MetaState
    BY <1>5, StatusType DEF SuspendRun, MaybeSetStatus
  <2>3. QED
    BY <1>0, <1>5, <2>1, <2>2, UsedType, StepTypesSuffice DEF SuspendRun, StepTypes
<1>6. CASE RecordWaiting(s)
  <2> DEFINE rec == [st |-> "waiting", ver |-> go[s].stored, val |-> None]
  <2>1. rec \in Record
    BY DEF GoInv, StepState, Record
  <2>2. GoInv'
    BY <1>6, MoveType, MoveWithType, InitialValues DEF RecordWaiting, StepPc
  <2>3. journal' \in View
    BY <1>6, <2>1, PutRecordType DEF RecordWaiting, MaybePutRecord
  <2>4. cache' \in [Steps -> Record]
    BY <1>6, <2>1, CacheType DEF RecordWaiting, TypeOK
  <2>5. QED
    BY <1>0, <1>6, <2>2, <2>3, <2>4, UsedType, StepTypesSuffice DEF RecordWaiting, StepTypes
<1>7. CASE RegisterChannel(s)
  <2>1. GoInv'
    BY <1>7, MoveType DEF RegisterChannel, StepPc
  <2>2. QED
    BY <1>0, <1>7, <2>1, StepTypesSuffice DEF RegisterChannel, StepTypes
<1>8. CASE RereadJournal(s)
  <2>1. journal.signals[s] \in Value \cup {None}
    BY DEF TypeOK, View, Ids
  <2>2. GoInv'
    BY <1>8, <2>1, MoveType, MoveWithType, InitialValues, OutcomeTypes DEF RereadJournal, StepPc
  <2>3. QED
    BY <1>0, <1>8, <2>2, UsedType, StepTypesSuffice DEF RereadJournal, StepTypes
<1>9. CASE ReceiveSignal(s)
  <2>1. go[s].box \in Value \cup {None}
    BY DEF GoInv, StepState
  <2>2. GoInv'
    BY <1>9, <2>1, MoveWithType, OutcomeTypes DEF ReceiveSignal, StepPc
  <2>3. QED
    BY <1>0, <1>9, <2>2, StepTypesSuffice DEF ReceiveSignal, StepTypes
<1>10. CASE AbandonWait(s)
  <2>1. GoInv'
    BY <1>10, MoveWithType, InitialValues DEF AbandonWait, StepPc
  <2>2. QED
    BY <1>0, <1>10, <2>1, StepTypesSuffice DEF AbandonWait, StepTypes
<1>11. CASE ResumeStep(s)
  <2> DEFINE rec == [st |-> "completed", ver |-> go[s].stored, val |-> go[s].out.val]
  <2>1. rec \in Record
    BY DEF GoInv, StepState, Outcome, Record
  <2>2. GoInv'
    BY <1>11, MoveType, MoveWithType, InitialValues DEF ResumeStep, StepPc
  <2>3. journal' \in View
    BY <1>11, <2>1, PutRecordType DEF ResumeStep, MaybePutRecord, TypeOK
  <2>4. cache' \in [Steps -> Record]
    BY <1>11, <2>1, CacheType DEF ResumeStep, TypeOK
  <2>5. QED
    BY <1>0, <1>11, <2>2, <2>3, <2>4, UsedType, StepTypesSuffice DEF ResumeStep, StepTypes
<1>12. CASE LeaveWaiting(s)
  <2>1. go[s].out \in Outcome
    BY DEF GoInv, StepState
  <2>2. GoInv' /\ obs' \in [Steps -> SUBSET Observation]
    BY <1>12, <2>1, ReturnType, MoveType DEF LeaveWaiting, StepPc, TypeOK
  <2>3. waiting' \in Nat
    BY <1>12 DEF LeaveWaiting, TypeOK
  <2>4. QED
    BY <1>0, <1>12, <2>2, <2>3, StepTypesSuffice DEF LeaveWaiting, StepTypes
<1>13. CASE UnsuspendRun(s)
  <2>1. go[s].out \in Outcome
    BY DEF GoInv, StepState
  <2>2. GoInv' /\ obs' \in [Steps -> SUBSET Observation]
    BY <1>13, <2>1, ReturnType, InitialValues DEF UnsuspendRun
  <2>3. meta' \in MetaState
    BY <1>13, StatusType DEF UnsuspendRun, MaybeSetStatus
  <2>4. QED
    BY <1>0, <1>13, <2>2, <2>3, UsedType, StepTypesSuffice DEF UnsuspendRun, StepTypes
<1>14. QED
  BY <1>1, <1>2, <1>3, <1>4, <1>5, <1>6, <1>7, <1>8, <1>9, <1>10, <1>11, <1>12, <1>13
     DEF StepProgress

LEMMA FnProgressType ==
  ASSUME TypeInv, NEW s \in Steps, FnProgress(s)
  PROVE  TypeInv'
<1> USE DEF TypeInv
<1>0. StepTypes
  BY DEF TypeOK, StepTypes
<1>1. PICK o \in Outcomes : FnReturns(s, o)
  BY DEF FnProgress
<1>2. FnResult(execs[s]) \in Value \cup {None}
  BY ValueTypes DEF TypeOK
<1>3. GoInv'
  <2> DEFINE v == FnResult(execs[s])
             g == [go[s] EXCEPT !.pc = "ready", !.try = go[s].try + 1]
  <2>1. CASE MoveWith(s, "persist", Completed(v))
    BY <1>2, <2>1, MoveWithType, OutcomeTypes DEF StepPc
  <2>2. CASE MoveWith(s, "persist", Failed(v))
    BY <1>2, <2>2, MoveWithType, OutcomeTypes DEF StepPc
  <2>3. CASE Move(s, "pending")
    BY <2>3, MoveType DEF StepPc
  <2>4. CASE go' = [go EXCEPT ![s] = g]
    <3>1. go[s].try + 1 \in Nat
      BY DEF GoInv, StepState
    <3>2. QED
      BY <2>4, <3>1, RetryType
  <2>5. QED
    BY <1>1, <2>1, <2>2, <2>3, <2>4 DEF FnReturns
<1>4. QED
  BY <1>0, <1>1, <1>3, StepTypesSuffice DEF FnReturns, StepTypes

LEMMA RunStepType ==
  ASSUME TypeInv, NEW s \in Steps, NEW v \in Versions, RunStep(s, v)
  PROVE  TypeInv'
<1> USE DEF TypeInv
<1> DEFINE late == CancelAcked
           stored == IF cache[s].st = "waiting" THEN cache[s].ver ELSE v
           called == [IdleStep EXCEPT !.pc = "spawned", !.ver = v, !.late = late,
                                      !.stored = stored]
           out == ReplayOutcome(cache[s])
           hit == [called EXCEPT !.pc = "done", !.out = out]
           o == [ver |-> v, st |-> out.st, val |-> out.val]
<1>1. cache[s] \in Record
  BY DEF TypeOK
<1>2. stored \in Versions
  BY <1>1 DEF Record
<1>3. late \in BOOLEAN
  BY DEF CancelAcked
<1>4. called \in StepState /\ called.pc = "spawned"
  <2> HIDE DEF late, stored
  <2>1. QED
    BY <1>2, <1>3, InitialValues, NoVersionIsAVersion DEF IdleStep, StepState, StepPc
<1>5. CASE Hit(s, v)
  <2>1. out \in Outcome
    BY <1>1, <1>5, InitialValues, OutcomeTypes DEF Hit, Terminal, ReplayOutcome, Record
  <2>2. hit \in StepState /\ hit.pc = "done"
    <3> HIDE DEF called, out
    <3>1. QED
      BY <1>4, <2>1 DEF StepState, StepPc
  <2>3. go' = [go EXCEPT ![s] = hit]
    BY <1>5 DEF RunStep
  <2>4. GoInv'
    <3> HIDE DEF hit
    <3>1. QED
      BY <2>2, <2>3, OneStepType
  <2>5. obs' \in [Steps -> SUBSET Observation]
    <3>1. CASE out.st \in Terminal
      <4>1. o \in Observation
        <5> HIDE DEF out
        <5>1. QED
          BY <2>1, <3>1 DEF Observation, Outcome
      <4>2. obs' = [obs EXCEPT ![s] = @ \cup {o}]
        BY <1>5, <3>1 DEF RunStep
      <4>3. QED
        <5> HIDE DEF o
        <5>1. QED
          BY <4>1, <4>2, ObserveType
    <3>2. CASE out.st \notin Terminal
      BY <1>5, <3>2 DEF RunStep, TypeOK
    <3>3. QED
      BY <3>1, <3>2
  <2>6. QED
    BY <2>4, <2>5 DEF RunStep, TypeOK, GoInv, ArgInv, disk
<1>6. CASE ~Hit(s, v)
  <2>1. go' = [go EXCEPT ![s] = called] /\ UNCHANGED obs
    BY <1>6 DEF RunStep
  <2>2. GoInv'
    <3> HIDE DEF called
    <3>1. QED
      BY <1>4, <2>1, OneStepType
  <2>3. QED
    BY <2>1, <2>2 DEF RunStep, TypeOK, GoInv, ArgInv, disk
<1>7. QED
  BY <1>5, <1>6

\* What the run goroutine, its callers and the task closure may change.
RunTypes ==
  /\ meta \in MetaState /\ output \in BOOLEAN /\ input \in Inputs \cup {None}
  /\ journal \in View /\ run \in RunState /\ ArgInv
  /\ cache \in [Steps -> Record] /\ waiting \in Nat /\ GoInv
  /\ snap \in View /\ pruned \in Nat
  /\ fed \in SUBSET Inputs /\ reported \in SUBSET Terminal
  /\ used \in [crashes : Nat, faults : Nat, timeouts : Nat]

LEMMA RunTypesSuffice ==
  ASSUME TypeInv, RunTypes', UNCHANGED execUnchanged
  PROVE  TypeInv'
BY DEF TypeInv, TypeOK, RunTypes, GoInv, execUnchanged

LEMMA FinishType ==
  ASSUME TypeOK, NEW result \in Terminal, Finish(result)
  PROVE  /\ run' \in RunState /\ ArgInv'
         /\ pruned' \in Nat /\ reported' \in SUBSET Terminal
BY InitialValues DEF Finish, ArgInv, TypeOK

LEMMA NewRunnerType ==
  ASSUME NewRunner
  PROVE  GoInv' /\ waiting' \in Nat
BY InitialValues DEF NewRunner, GoInv

LEMMA OverlayType ==
  ASSUME NEW view \in View
  PROVE  Overlay(view) \in [Steps -> Record]
<1> SUFFICES ASSUME NEW s \in Steps
             PROVE  (IF view.steps[s].st = "waiting" /\ view.signals[s] # None
                     THEN [view.steps[s] EXCEPT !.st = "completed", !.val = view.signals[s]]
                     ELSE view.steps[s]) \in Record
  BY DEF Overlay
<1>1. view.steps[s] \in Record /\ view.signals[s] \in Value \cup {None}
  BY DEF View, Ids
<1>2. QED
  BY <1>1 DEF Record

\* A journal that seems to end early is one all the same.
LEMMA ShortenedType ==
  ASSUME NEW view \in View, NEW short \in Shortened(view)
  PROVE  short \in View
<1>1. PICK lost, earlier, gone : short = Without(view, lost, earlier, gone)
  BY DEF Shortened
<1>2. ASSUME NEW s \in Steps
      PROVE  (IF s \in lost THEN NoRecord
              ELSE IF s \in earlier
                   THEN [st |-> "waiting", ver |-> view.steps[s].ver, val |-> None]
              ELSE view.steps[s]) \in Record
  <2>1. view.steps[s] \in Record
    BY DEF View
  <2>2. [st |-> "waiting", ver |-> view.steps[s].ver, val |-> None] \in Record
    BY <2>1 DEF Record
  <2>3. QED
    BY <2>1, <2>2, InitialValues
<1>3. ASSUME NEW i \in Ids
      PROVE  (IF i \in gone THEN None ELSE view.signals[i]) \in Value \cup {None}
  BY DEF View
<1>4. QED
  BY <1>1, <1>2, <1>3 DEF Without, View

LEMMA RunProgressType ==
  ASSUME TypeInv, RunProgress
  PROVE  TypeInv'
<1> USE DEF TypeInv
<1>0. RunTypes
  BY DEF TypeOK, RunTypes
<1>1. CASE LoadMeta
  <2>1. meta' \in MetaState
    BY <1>1, StatusType DEF LoadMeta, MaybeSetStatus, TypeOK
  <2>2. run' \in RunState /\ ArgInv' /\ pruned' \in Nat /\ reported' \in SUBSET Terminal
    <3>1. CASE run' = [run EXCEPT !.pc = "input"] /\ UNCHANGED <<pruned, reported>>
      BY <1>1, <3>1 DEF LoadMeta, TypeOK, RunState, RunPc, ArgInv
    <3>2. ASSUME NEW result \in Terminal, Finish(result)
          PROVE  run' \in RunState /\ ArgInv' /\ pruned' \in Nat /\ reported' \in SUBSET Terminal
      BY <3>2, FinishType
    <3>3. QED
      BY <1>1, <3>1, <3>2 DEF LoadMeta, AlreadyFinished, Terminal
  <2>3. QED
    BY <1>0, <1>1, <2>1, <2>2, UsedType, RunTypesSuffice DEF LoadMeta, RunTypes, GoInv
<1>2. CASE ResolveInput
  <2>1. run.arg \in Inputs /\ input \in Inputs \cup {None}
    BY <1>2 DEF ResolveInput, TypeOK, RunState, ArgInv
  <2>2. InputToUse(input, run.arg) \in Inputs
    BY <2>1 DEF InputToUse
  <2>3. input' \in Inputs \cup {None}
    BY <1>2, <2>1, <2>2 DEF ResolveInput
  <2>4. run' \in RunState /\ ArgInv' /\ pruned' \in Nat /\ reported' \in SUBSET Terminal
    <3>1. CASE Finish("failed")
      BY <3>1, FinishType DEF Terminal
    <3>2. CASE /\ run' = [run EXCEPT !.pc = "replay", !.arg = InputToUse(input, run.arg)]
               /\ UNCHANGED <<pruned, reported>>
      <4> HIDE DEF InputToUse
      <4>1. run' \in RunState /\ run'.arg \in Inputs
        BY <2>2, <3>2 DEF TypeOK, RunState, RunPc
      <4>2. QED
        BY <3>2, <4>1, NoneIsNoInput DEF TypeOK, ArgInv
    <3>3. QED
      BY <1>2, <3>1, <3>2 DEF ResolveInput
  <2>5. QED
    BY <1>0, <1>2, <2>3, <2>4, UsedType, RunTypesSuffice DEF ResolveInput, RunTypes, GoInv
<1>3. CASE ReplayJournal
  <2>1. CASE Fault /\ Finish("failed") /\ UNCHANGED <<cache, waiting, go, fed>>
    <3>1. run' \in RunState /\ ArgInv' /\ pruned' \in Nat /\ reported' \in SUBSET Terminal
      BY <2>1, FinishType DEF Terminal
    <3>2. QED
      BY <1>0, <1>3, <2>1, <3>1, UsedType, RunTypesSuffice
         DEF ReplayJournal, RunTypes, GoInv, disk
  <2>2. ASSUME NEW view \in View, ReplayFrom(view), Healthy \/ Fault
        PROVE  TypeInv'
    <3>1. cache' \in [Steps -> Record]
      BY <2>2, OverlayType DEF ReplayFrom
    <3>2. run' \in RunState /\ ArgInv'
      BY <1>3, <2>2
         DEF ReplayJournal, ReplayFrom, TypeOK, RunState, RunPc, ArgInv, CancelPersisted
    <3>3. fed' \in SUBSET Inputs
      BY <1>3, <2>2 DEF ReplayJournal, ReplayFrom, TypeOK, RunState, ArgInv
    <3>4. GoInv' /\ waiting' \in Nat
      BY <2>2, NewRunnerType DEF ReplayFrom
    <3>5. QED
      BY <1>0, <1>3, <2>2, <3>1, <3>2, <3>3, <3>4, UsedType, RunTypesSuffice
         DEF ReplayJournal, ReplayFrom, RunTypes, disk
  <2>3. journal \in View
    BY DEF TypeOK
  <2>4. QED
    BY <1>3, <2>1, <2>2, <2>3, ShortenedType DEF ReplayJournal
<1>4. CASE EndAttempt
  <2>1. CASE AfterAttempt = "exec" /\ Healthy
    <3>1. run' \in RunState /\ ArgInv' /\ UNCHANGED <<pruned, reported>>
      <4>1. /\ run' = [run EXCEPT !.pc = "exec", !.err = "none", !.attempt = @ + 1]
            /\ run.pc = "drain" /\ UNCHANGED <<pruned, reported>>
        BY <1>4, <2>1 DEF EndAttempt
      <4>2. run.attempt + 1 \in Nat
        BY DEF TypeOK, RunState
      <4>3. QED
        BY <4>1, <4>2 DEF TypeOK, RunState, RunPc, Cause, ArgInv
    <3>2. fed' \in SUBSET Inputs
      BY <1>4, <2>1 DEF EndAttempt, TypeOK, RunState, ArgInv
    <3>3. GoInv' /\ waiting' \in Nat
      BY <1>4, <2>1, NewRunnerType DEF EndAttempt
    <3>4. QED
      BY <1>0, <1>4, <3>1, <3>2, <3>3, UsedType, RunTypesSuffice
         DEF EndAttempt, RunTypes, disk
  <2>2. CASE AfterAttempt # "exec"
    <3>1. AfterAttempt \in RunPc \ {"off"} /\ FinalError \in Cause
      BY DEF AfterAttempt, FinalError, TypeOK, RunState, RunPc, Cause
    <3>2. run' \in RunState /\ ArgInv' /\ pruned' \in Nat /\ reported' \in SUBSET Terminal
      BY <1>4, <2>2, <3>1, FinishType DEF EndAttempt, TypeOK, RunState, ArgInv, Terminal
    <3>3. UNCHANGED <<waiting, go, fed>>
      BY <1>4, <2>2 DEF EndAttempt
    <3>4. QED
      BY <1>0, <1>4, <3>2, <3>3, UsedType, RunTypesSuffice
         DEF EndAttempt, RunTypes, GoInv, disk
  <2>3. QED
    BY <1>4, <2>1, <2>2 DEF EndAttempt
<1>5. CASE SaveOutput
  <2>1. run' \in RunState /\ ArgInv' /\ pruned' \in Nat /\ reported' \in SUBSET Terminal
    BY <1>5, FinishType DEF SaveOutput, TypeOK, RunState, RunPc, ArgInv, Terminal
  <2>2. output' \in BOOLEAN
    BY <1>5 DEF SaveOutput, TypeOK
  <2>3. QED
    BY <1>0, <1>5, <2>1, <2>2, UsedType, RunTypesSuffice DEF SaveOutput, RunTypes, GoInv
<1>6. CASE SaveCompleted
  <2>1. run' \in RunState /\ ArgInv' /\ pruned' \in Nat /\ reported' \in SUBSET Terminal
    BY <1>6, FinishType DEF SaveCompleted, TypeOK, RunState, RunPc, ArgInv, Terminal
  <2>2. meta' \in MetaState
    BY <1>6 DEF SaveCompleted, EndMeta, TypeOK, MetaState, Cause
  <2>3. QED
    BY <1>0, <1>6, <2>1, <2>2, UsedType, RunTypesSuffice DEF SaveCompleted, RunTypes, GoInv
<1>7. CASE SaveFailed
  <2>1. run' \in RunState /\ ArgInv'
    BY <1>7 DEF SaveFailed, TypeOK, RunState, RunPc, ArgInv
  <2>2. meta' \in MetaState
    BY <1>7 DEF SaveFailed, EndMeta, TypeOK, MetaState, RunState
  <2>3. QED
    BY <1>0, <1>7, <2>1, <2>2, UsedType, RunTypesSuffice DEF SaveFailed, RunTypes, GoInv
<1>8. CASE CompactRead
  <2>1. run' \in RunState /\ ArgInv' /\ pruned' \in Nat /\ reported' \in SUBSET Terminal
    BY <1>8, FinishType DEF CompactRead, RunResult, TypeOK, RunState, RunPc, ArgInv, Terminal
  <2>2. snap' \in View
    BY <1>8, ShortenedType DEF CompactRead, TypeOK
  <2>3. QED
    BY <1>0, <1>8, <2>1, <2>2, UsedType, RunTypesSuffice
       DEF CompactRead, RunTypes, GoInv, disk
<1>9. CASE CompactWrite
  <2>1. run' \in RunState /\ ArgInv' /\ pruned' \in Nat /\ reported' \in SUBSET Terminal
    BY <1>9, FinishType DEF CompactWrite, RunResult, TypeOK, RunState, RunPc, ArgInv, Terminal
  <2>2. journal' \in View /\ snap' \in View
    BY <1>9, InitialValues DEF CompactWrite, TypeOK
  <2>3. QED
    BY <1>0, <1>9, <2>1, <2>2, UsedType, RunTypesSuffice DEF CompactWrite, RunTypes, GoInv
<1>10. CASE CompactGeneration
  <2>1. run' \in RunState /\ ArgInv' /\ pruned' \in Nat /\ reported' \in SUBSET Terminal
    BY <1>10, FinishType DEF CompactGeneration, RunResult, Terminal
  <2>2. meta' \in MetaState
    BY <1>10 DEF CompactGeneration, TypeOK, MetaState
  <2>3. QED
    BY <1>0, <1>10, <2>1, <2>2, UsedType, RunTypesSuffice
       DEF CompactGeneration, RunTypes, GoInv
<1>11. QED
  BY <1>1, <1>2, <1>3, <1>4, <1>5, <1>6, <1>7, <1>8, <1>9, <1>10 DEF RunProgress

LEMMA CallerStepType ==
  ASSUME TypeInv,
         RunTask \/ RunTimeout \/ \E err \in {"none", "task", "step"} : TaskReturns(err)
  PROVE  TypeInv'
<1> USE DEF TypeInv
<1>1. CASE PeekMeta
  BY <1>1 DEF PeekMeta, TypeOK, GoInv, ArgInv, disk, history
<1>2. ASSUME NEW arg \in Inputs, RegisterRun(arg)
      PROVE  TypeInv'
  <2>1. run' \in RunState /\ ArgInv'
    <3>1. [OffRun EXCEPT !.pc = "load", !.arg = arg] \in RunState
      BY DEF OffRun, RunState, RunPc, Cause
    <3>2. run' \in {run, [OffRun EXCEPT !.pc = "load", !.arg = arg]}
      BY <1>2 DEF RegisterRun
    <3>3. [OffRun EXCEPT !.pc = "load", !.arg = arg].arg # None
      BY NoneIsNoInput DEF OffRun
    <3>4. QED
      BY <3>1, <3>2, <3>3 DEF TypeOK, ArgInv
  <2>2. QED
    BY <1>2, <2>1 DEF RegisterRun, TypeOK, GoInv, disk, history
<1>3. ASSUME NEW err \in {"none", "task", "step"}, TaskReturns(err)
      PROVE  TypeInv'
  <2>1. run' \in RunState /\ ArgInv'
    BY <1>3 DEF TaskReturns, TypeOK, RunState, RunPc, Cause, ArgInv
  <2>2. QED
    BY <1>3, <2>1 DEF TaskReturns, TypeOK, GoInv, disk, execUnchanged
<1>4. CASE RunTimeout
  <2>1. run' \in RunState /\ ArgInv'
    BY <1>4 DEF RunTimeout, TypeOK, RunState, ArgInv
  <2>2. used' \in [crashes : Nat, faults : Nat, timeouts : Nat]
    BY <1>4 DEF RunTimeout, TypeOK
  <2>3. QED
    BY <1>4, <2>1, <2>2 DEF RunTimeout, TypeOK, GoInv, disk, execUnchanged
<1>5. QED
  BY <1>1, <1>2, <1>3, <1>4 DEF RunTask

\* A step of a call: call and go keep their types, and what else it changes has its own.
LEMMA MoveCallType ==
  ASSUME TypeOK, NEW c \in Callers, NEW pc \in CallPc, MoveCall(c, pc)
  PROVE  call' \in [Callers -> CallState]
BY DEF TypeOK, MoveCall, CallState

LEMMA CallType ==
  ASSUME TypeInv, NEW c \in Callers,
         CallProgress(c) \/ \E id \in Ids : BeginCall(c, id)
  PROVE  TypeInv'
<1> USE DEF TypeInv
<1>1. ASSUME NEW id \in Ids, BeginCall(c, id)
      PROVE  TypeInv'
  <2>1. [pc |-> "lock", id |-> id, gen |-> pruned] \in CallState
    BY DEF CallState, CallPc, TypeOK
  <2>2. call' \in [Callers -> CallState]
    BY <1>1, <2>1 DEF BeginCall, TypeOK
  <2>3. QED
    BY <1>1, <2>2 DEF BeginCall, callUnchanged, history, TypeOK, GoInv, ArgInv
<1>2. CASE LockAndLoadMeta(c)
  <2>1. call' \in [Callers -> CallState]
    BY <1>2, MoveCallType DEF LockAndLoadMeta, CallPc
  <2>2. QED
    BY <1>2, <2>1 DEF LockAndLoadMeta, callUnchanged, history, TypeOK, GoInv, ArgInv
<1>3. CASE ReadJournal(c)
  <2>1. call' \in [Callers -> CallState]
    BY <1>3, MoveCallType DEF ReadJournal, Decision, CallPc
  <2>2. QED
    BY <1>3, <2>1, UsedType DEF ReadJournal, history, TypeOK, GoInv, ArgInv
<1>4. CASE AppendSignal(c)
  <2>1. call' \in [Callers -> CallState]
    BY <1>4, MoveCallType DEF AppendSignal, CallPc
  <2>2. call[c].id \in Ids /\ Payload(c) \in Value
    BY ValueTypes DEF TypeOK, CallState
  <2>3. journal' \in View
    BY <1>4, <2>2 DEF AppendSignal, TypeOK, View
  <2>4. QED
    BY <1>4, <2>1, <2>3, UsedType DEF AppendSignal, history, TypeOK, GoInv, ArgInv
<1>5. CASE NotifyStep(c)
  <2>1. call' \in [Callers -> CallState]
    BY <1>5, MoveCallType DEF NotifyStep, CallPc
  <2>2. GoInv'
    <3> DEFINE s == call[c].id
               g == [go[s] EXCEPT !.box = Payload(c)]
    <3>1. CASE s \in Steps
      <4>1. go[s] \in StepState /\ Payload(c) \in Value
        BY <3>1, ValueTypes DEF GoInv
      <4>2. g \in StepState /\ g.pc = go[s].pc /\ g.out = go[s].out
        BY <4>1 DEF StepState
      <4>3. go' \in {go, [go EXCEPT ![s] = g]}
        BY <1>5 DEF NotifyStep
      <4>4. QED
        BY <3>1, <4>2, <4>3, OneStepType DEF GoInv
    <3>2. CASE s \notin Steps
      BY <1>5, <3>2 DEF NotifyStep, GoInv
    <3>3. QED
      BY <3>1, <3>2
  <2>3. QED
    BY <1>5, <2>1, <2>2 DEF NotifyStep, callUnchanged, history, TypeOK, GoInv, ArgInv
<1>6. CASE CancelHandle(c)
  <2>1. call' \in [Callers -> CallState]
    BY <1>6, MoveCallType DEF CancelHandle, CallPc
  <2>2. run' \in RunState /\ ArgInv'
    BY <1>6 DEF CancelHandle, TypeOK, RunState, ArgInv
  <2>3. QED
    BY <1>6, <2>1, <2>2 DEF CancelHandle, callUnchanged, history, TypeOK, GoInv
<1>7. QED
  BY <1>1, <1>2, <1>3, <1>4, <1>5, <1>6 DEF CallProgress

LEMMA NewProcessType ==
  ASSUME TypeInv, NewProcess,
         used' \in [crashes : Nat, faults : Nat, timeouts : Nat]
  PROVE  TypeInv'
<1> USE DEF TypeInv
<1>1. GoInv' /\ ArgInv' /\ run' \in RunState /\ snap' \in View
  BY InitialValues DEF NewProcess, GoInv, ArgInv
<1>2. cache' \in [Steps -> Record] /\ call' \in [Callers -> CallState]
  BY InitialValues DEF NewProcess, TypeOK
<1>3. QED
  BY <1>1, <1>2 DEF NewProcess, TypeOK, GoInv, disk, history

LEMMA EngineType ==
  ASSUME TypeInv, OpenCutsJournal \/ Close \/ StopRun \/ Closed \/ Reopen \/ Crash
  PROVE  TypeInv'
<1> USE DEF TypeInv
<1>0. CASE OpenCutsJournal
  <2>1. journal' \in View
    BY <1>0, ShortenedType DEF OpenCutsJournal, TypeOK
  <2>2. QED
    BY <1>0, <2>1, UsedType DEF OpenCutsJournal, history, TypeOK, GoInv, ArgInv
<1>1. CASE Close \/ Closed
  BY <1>1 DEF Close, Closed, engineUnchanged, disk, history, TypeOK, GoInv, ArgInv
<1>2. CASE StopRun
  <2>1. run' \in RunState /\ ArgInv'
    BY <1>2 DEF StopRun, TypeOK, RunState, ArgInv
  <2>2. QED
    BY <1>2, <2>1 DEF StopRun, engineUnchanged, disk, history, TypeOK, GoInv
<1>3. CASE Reopen
  BY <1>3, NewProcessType DEF Reopen, TypeOK
<1>4. CASE Crash
  <2>1. used' \in [crashes : Nat, faults : Nat, timeouts : Nat]
    BY <1>4 DEF Crash, TypeOK
  <2>2. QED
    BY <1>4, <2>1, NewProcessType DEF Crash
<1>5. QED
  BY <1>0, <1>1, <1>2, <1>3, <1>4

LEMMA TypeStep == TypeInv /\ [Next]_vars => TypeInv'
<1> SUFFICES ASSUME TypeInv, [Next]_vars PROVE TypeInv'
  OBVIOUS
<1>1. CASE UNCHANGED vars
  BY <1>1 DEF TypeInv, TypeOK, GoInv, ArgInv, vars
<1>2. CASE RunTask \/ RunTimeout
  BY <1>2, CallerStepType
<1>3. CASE RunProgress
  BY <1>3, RunProgressType
<1>4. CASE TaskBehaviour
  BY <1>4, RunStepType, CallerStepType DEF TaskBehaviour
<1>5. CASE \E s \in Steps : StepProgress(s) \/ FnProgress(s)
  BY <1>5, StepProgressType, FnProgressType
<1>6. CASE \E c \in Callers : (\E id \in Ids : BeginCall(c, id)) \/ CallProgress(c)
  BY <1>6, CallType
<1>7. CASE OpenCutsJournal \/ Close \/ StopRun \/ Closed \/ Reopen \/ Crash
  BY <1>7, EngineType
<1>8. QED
  BY <1>1, <1>2, <1>3, <1>4, <1>5, <1>6, <1>7 DEF Next

\* Type correctness, for every number of steps, callers, retries, crashes and
\* faults: the files, the executor, every goroutine and every call keep their shape.
THEOREM TypeCorrect == Spec => []TypeOK
<1>1. Spec => []TypeInv
  BY TypeInit, TypeStep, PTL DEF Spec
<1>2. TypeInv => TypeOK
  BY DEF TypeInv
<1>3. QED
  BY <1>1, <1>2, PTL

-----------------------------------------------------------------------------
\* The end of a run

Compacting == {"compact", "rewrite", "generation"}

EndInv ==
  /\ run.pc \notin {"exec", "drain"} => \A s \in Steps : ~InFlight(s)
  /\ meta.st \in Terminal => run.pc \in {"off", "load"} \cup Compacting

DurableInv ==
  /\ run.pc = "complete" => output
  /\ run.pc \in {"output", "complete"} => run.err = "none"
  /\ run.pc = "fail" => run.err # "none"
  /\ run.pc \in Compacting /\ run.err = "none" => meta.st = "completed"
  /\ CompletedIsDurable

InputInv ==
  /\ \A a \in fed : a = input
  /\ run.pc \in {"replay", "exec", "drain"} => run.arg = input

IInv == TypeInv /\ EndInv /\ DurableInv /\ InputInv

-----------------------------------------------------------------------------
\* Steps of the step goroutines

\* A goroutine of a step acts only while it is in flight, and meta.json then
\* says "running" or "waiting", or what it said before.
LEMMA StepEffects ==
  ASSUME TypeInv, NEW s \in Steps, StepProgress(s) \/ FnProgress(s)
  PROVE  /\ InFlight(s)
         /\ UNCHANGED stepUnchanged
         /\ meta' = meta \/ meta'.st \in {"running", "waiting"}
<1> USE DEF InFlight
<1>1. CASE FnProgress(s)
  BY <1>1 DEF FnProgress, FnReturns
<1>2. CASE StartStep(s) \/ InvokeStep(s) \/ CountWaiting(s) \/ RegisterChannel(s)
  BY <1>2 DEF StartStep, InvokeStep, CountWaiting, RegisterChannel
<1>3. CASE PersistOutcome(s) \/ RecordWaiting(s) \/ RereadJournal(s) \/ ReceiveSignal(s)
  BY <1>3 DEF PersistOutcome, RecordWaiting, RereadJournal, ReceiveSignal
<1>4. CASE AbandonWait(s) \/ ResumeStep(s) \/ LeaveWaiting(s)
  BY <1>4 DEF AbandonWait, ResumeStep, LeaveWaiting
<1>5. CASE SuspendRun(s) \/ UnsuspendRun(s)
  <2>1. meta' = meta \/ meta'.st \in {"running", "waiting"}
    BY <1>5
       DEF SuspendRun, UnsuspendRun, MaybeSetStatus, SetStatus, TypeInv, TypeOK, MetaState
  <2>2. QED
    BY <1>5, <2>1 DEF SuspendRun, UnsuspendRun
<1>6. QED
  BY <1>1, <1>2, <1>3, <1>4, <1>5 DEF StepProgress

LEMMA StepKeeps ==
  ASSUME IInv, NEW s \in Steps, StepProgress(s) \/ FnProgress(s)
  PROVE  EndInv' /\ DurableInv' /\ InputInv'
<1>1. /\ UNCHANGED <<run, output, input, fed, reported>>
      /\ InFlight(s) /\ (meta' = meta \/ meta'.st \in {"running", "waiting"})
  BY StepEffects DEF IInv, stepUnchanged
<1>2. run.pc \in {"exec", "drain"} /\ meta.st \notin Terminal
  BY <1>1 DEF IInv, EndInv, Compacting
<1>3. meta'.st \notin Terminal /\ "completed" \notin reported
  BY <1>1, <1>2 DEF IInv, DurableInv, CompletedIsDurable, Terminal
<1>4. QED
  BY <1>1, <1>2, <1>3
     DEF IInv, EndInv, DurableInv, InputInv, CompletedIsDurable, Compacting, Terminal

-----------------------------------------------------------------------------
\* Steps of the run

\* The run goroutine is gone: nothing is left of the attempt, and what was
\* reported is on disk.
LEMMA FinishKeeps ==
  ASSUME IInv, NEW result \in Terminal, Finish(result),
         run.pc \notin {"exec", "drain"} \/ \A s \in Steps : ~InFlight(s),
         UNCHANGED <<go, fed>>, CompletedIsDurable',
         fed = {} \/ UNCHANGED input
  PROVE  EndInv' /\ DurableInv' /\ InputInv'
<1>1. run'.pc = "off"
  BY DEF Finish, OffRun
<1>2. \A s \in Steps : ~InFlight(s)'
  BY DEF IInv, EndInv, InFlight
<1>3. QED
  BY <1>1, <1>2 DEF IInv, EndInv, DurableInv, InputInv, Compacting

LEMMA RunKeeps ==
  ASSUME IInv, RunProgress
  PROVE  EndInv' /\ DurableInv' /\ InputInv'
<1> USE DEF IInv
<1>1. CASE LoadMeta
  <2>1. ASSUME NEW result \in Terminal, Finish(result),
               result = "completed" => AlreadyFinished /\ result = meta.st,
               meta' = meta \/ (~AlreadyFinished /\ meta'.st \in {"running", "waiting"})
        PROVE  EndInv' /\ DurableInv' /\ InputInv'
    <3>1. CompletedIsDurable'
      BY <1>1, <2>1
         DEF LoadMeta, Finish, AlreadyFinished, DurableInv, CompletedIsDurable, Terminal
    <3>2. QED
      BY <1>1, <2>1, <3>1, FinishKeeps DEF LoadMeta, execUnchanged
  <2>2. CASE /\ ~AlreadyFinished /\ SetStatus("running")
             /\ run' = [run EXCEPT !.pc = "input"] /\ UNCHANGED <<pruned, reported>>
    <3>1. meta'.st = "running" /\ run'.pc = "input"
      BY <2>2 DEF SetStatus, TypeInv, TypeOK, MetaState, RunState
    <3>2. "completed" \notin reported
      BY <2>2 DEF AlreadyFinished, DurableInv, CompletedIsDurable, Terminal
    <3>3. QED
      BY <1>1, <2>2, <3>1, <3>2
         DEF LoadMeta, EndInv, DurableInv, InputInv, CompletedIsDurable, Compacting,
             Terminal, InFlight
  <2>3. meta' = meta \/ (~AlreadyFinished /\ meta'.st \in {"running", "waiting"})
    BY <1>1 DEF LoadMeta, SetStatus, MaybeSetStatus, TypeInv, TypeOK, MetaState
  <2>4. QED
    BY <1>1, <2>1, <2>2, <2>3 DEF LoadMeta, AlreadyFinished, Terminal
<1>2. CASE ResolveInput
  <2>1. run.arg \in Inputs /\ run.arg # None /\ (fed # {} => input # None)
    BY <1>2, NoneIsNoInput DEF ResolveInput, TypeInv, TypeOK, RunState, ArgInv, InputInv
  <2>2. meta.st \notin Terminal /\ run.pc = "input"
    BY <1>2 DEF ResolveInput, EndInv, Compacting
  <2>3. "completed" \notin reported
    BY <2>2 DEF DurableInv, CompletedIsDurable, Terminal
  <2>4. fed = {} \/ UNCHANGED input
    BY <1>2, <2>1 DEF ResolveInput, InputToUse
  <2>5. CASE Finish("failed")
    <3>1. CompletedIsDurable'
      BY <1>2, <2>2, <2>3, <2>5 DEF ResolveInput, Finish, CompletedIsDurable, Terminal
    <3>2. QED
      BY <1>2, <2>2, <2>4, <2>5, <3>1, FinishKeeps DEF ResolveInput, execUnchanged, Terminal
  <2>6. CASE /\ run' = [run EXCEPT !.pc = "replay", !.arg = input']
             /\ UNCHANGED <<pruned, reported>>
    <3>1. run'.pc = "replay" /\ run'.arg = input'
      BY <2>6 DEF TypeInv, TypeOK, RunState
    <3>2. QED
      BY <1>2, <2>2, <2>3, <2>4, <2>6, <3>1
         DEF ResolveInput, EndInv, DurableInv, InputInv, CompletedIsDurable, Compacting,
             Terminal, InFlight
  <2>7. QED
    BY <1>2, <2>5, <2>6 DEF ResolveInput
<1>3. CASE ReplayJournal
  <2>1. meta.st \notin Terminal /\ "completed" \notin reported
    BY <1>3 DEF ReplayJournal, EndInv, DurableInv, CompletedIsDurable, Compacting, Terminal
  <2>2. CASE Finish("failed") /\ UNCHANGED <<cache, waiting, go, fed>>
    <3>1. CompletedIsDurable'
      BY <1>3, <2>1, <2>2 DEF ReplayJournal, disk, Finish, CompletedIsDurable, Terminal
    <3>2. QED
      BY <1>3, <2>2, <3>1, FinishKeeps DEF ReplayJournal, disk, Terminal
  <2>3. CASE /\ run'.pc = "exec" /\ run'.arg = run.arg /\ fed' = fed \cup {run.arg}
             /\ UNCHANGED <<pruned, reported>>
    BY <1>3, <2>1, <2>3
       DEF ReplayJournal, disk, EndInv, DurableInv, InputInv, CompletedIsDurable,
           Compacting, Terminal
  <2>4. QED
    BY <1>3, <2>2, <2>3 DEF ReplayJournal, ReplayFrom, TypeInv, TypeOK, RunState
<1>4. CASE EndAttempt
  <2>1. meta.st \notin Terminal /\ "completed" \notin reported
    BY <1>4 DEF EndAttempt, EndInv, DurableInv, CompletedIsDurable, Compacting, Terminal
  <2>2. \A s \in Steps : ~InFlight(s)
    BY <1>4 DEF EndAttempt, Drained, InFlight
  <2>3. CASE AfterAttempt = "exec"
    <3>1. /\ run'.pc = "exec" /\ run'.arg = run.arg /\ fed' = fed \cup {run.arg}
          /\ UNCHANGED <<pruned, reported>>
      BY <1>4, <2>3 DEF EndAttempt, TypeInv, TypeOK, RunState
    <3>2. QED
      BY <1>4, <2>1, <3>1
         DEF EndAttempt, disk, EndInv, DurableInv, InputInv, CompletedIsDurable,
             Compacting, Terminal
  <2>4. CASE /\ AfterAttempt # "exec"
             /\ run' = [run EXCEPT !.pc = AfterAttempt, !.err = FinalError]
             /\ UNCHANGED <<waiting, go, fed, pruned, reported>>
    <3>1. \/ run'.pc = "output" /\ run'.err = "none"
          \/ run'.pc = "fail" /\ run'.err # "none"
      BY <2>4 DEF AfterAttempt, FinalError, TypeInv, TypeOK, RunState
    <3>2. QED
      BY <1>4, <2>1, <2>2, <2>4, <3>1
         DEF EndAttempt, disk, EndInv, DurableInv, InputInv, CompletedIsDurable,
             Compacting, Terminal, InFlight
  <2>5. CASE Finish("failed") /\ UNCHANGED <<waiting, go, fed>>
    <3>1. CompletedIsDurable'
      BY <1>4, <2>1, <2>5 DEF EndAttempt, disk, Finish, CompletedIsDurable, Terminal
    <3>2. QED
      BY <1>4, <2>2, <2>5, <3>1, FinishKeeps DEF EndAttempt, disk, Terminal
  <2>6. QED
    BY <1>4, <2>3, <2>4, <2>5 DEF EndAttempt
<1>5. CASE SaveOutput
  <2>1. meta.st \notin Terminal /\ "completed" \notin reported /\ run.err = "none"
    BY <1>5 DEF SaveOutput, EndInv, DurableInv, CompletedIsDurable, Compacting, Terminal
  <2>2. CASE Finish("failed")
    <3>1. CompletedIsDurable'
      BY <1>5, <2>1, <2>2 DEF SaveOutput, Finish, CompletedIsDurable, Terminal
    <3>2. QED
      BY <1>5, <2>2, <3>1, FinishKeeps DEF SaveOutput, Terminal
  <2>3. CASE /\ output' = TRUE /\ run' = [run EXCEPT !.pc = "complete"]
             /\ UNCHANGED <<pruned, reported>>
    <3>1. run'.pc = "complete" /\ run'.err = "none"
      BY <2>1, <2>3 DEF TypeInv, TypeOK, RunState
    <3>2. QED
      BY <1>5, <2>1, <2>3, <3>1
         DEF SaveOutput, EndInv, DurableInv, InputInv, CompletedIsDurable, Compacting,
             Terminal, InFlight
  <2>4. QED
    BY <1>5, <2>2, <2>3 DEF SaveOutput
<1>6. CASE SaveCompleted
  <2>1. meta.st \notin Terminal /\ "completed" \notin reported /\ output
    BY <1>6 DEF SaveCompleted, EndInv, DurableInv, CompletedIsDurable, Compacting, Terminal
  <2>2. CASE Finish("failed")
    <3>1. CompletedIsDurable'
      BY <1>6, <2>1, <2>2 DEF SaveCompleted, Finish, CompletedIsDurable, Terminal
    <3>2. QED
      BY <1>6, <2>2, <3>1, FinishKeeps DEF SaveCompleted, Terminal
  <2>3. CASE /\ EndMeta("completed", "none") /\ run' = [run EXCEPT !.pc = "compact"]
             /\ UNCHANGED <<pruned, reported>>
    <3>1. run'.pc = "compact" /\ meta'.st = "completed"
      BY <2>3 DEF EndMeta, TypeInv, TypeOK, RunState, MetaState
    <3>2. QED
      BY <1>6, <2>1, <2>3, <3>1
         DEF SaveCompleted, EndInv, DurableInv, InputInv, CompletedIsDurable, Compacting,
             Terminal, InFlight
  <2>4. QED
    BY <1>6, <2>2, <2>3 DEF SaveCompleted
<1>7. CASE SaveFailed
  <2>1. meta.st \notin Terminal /\ "completed" \notin reported /\ run.err # "none"
    BY <1>7 DEF SaveFailed, EndInv, DurableInv, CompletedIsDurable, Compacting, Terminal
  <2>2. run'.pc = "compact" /\ run'.err = run.err
    BY <1>7 DEF SaveFailed, TypeInv, TypeOK, RunState
  <2>3. meta' = meta \/ meta'.st = "failed"
    BY <1>7 DEF SaveFailed, EndMeta, TypeInv, TypeOK, MetaState
  <2>4. QED
    BY <1>7, <2>1, <2>2, <2>3
       DEF SaveFailed, EndInv, DurableInv, InputInv, CompletedIsDurable, Compacting,
           Terminal, InFlight
<1>8. CASE CompactRead \/ CompactWrite \/ CompactGeneration
  <2>1. /\ meta'.st = meta.st /\ run.pc \in Compacting
        /\ UNCHANGED <<output, input, go, fed>>
    BY <1>8
       DEF CompactRead, CompactWrite, CompactGeneration, disk, Compacting, TypeInv,
           TypeOK, MetaState
  <2>2. CASE Finish(RunResult)
    <3>1. CompletedIsDurable'
      BY <2>1, <2>2 DEF Finish, RunResult, DurableInv, CompletedIsDurable
    <3>2. QED
      BY <2>1, <2>2, <3>1, FinishKeeps DEF RunResult, Terminal, Compacting
  <2>3. CASE run'.pc \in Compacting /\ run'.err = run.err /\ UNCHANGED <<pruned, reported>>
    BY <2>1, <2>3 DEF EndInv, DurableInv, InputInv, CompletedIsDurable, Compacting, InFlight
  <2>4. QED
    BY <1>8, <2>2, <2>3
       DEF CompactRead, CompactWrite, CompactGeneration, Compacting, TypeInv, TypeOK,
           RunState
<1>9. QED
  BY <1>1, <1>2, <1>3, <1>4, <1>5, <1>6, <1>7, <1>8 DEF RunProgress

-----------------------------------------------------------------------------
\* Steps of everyone else

LEMMA OthersKeep ==
  ASSUME IInv,
         \/ TaskBehaviour \/ RunTask \/ RunTimeout
         \/ \E c \in Callers : CallProgress(c) \/ \E id \in Ids : BeginCall(c, id)
         \/ OpenCutsJournal \/ Close \/ StopRun \/ Closed \/ Reopen \/ Crash
  PROVE  meta' = meta /\ EndInv' /\ DurableInv' /\ InputInv'
<1> USE DEF IInv
<1> DEFINE Goal == EndInv' /\ DurableInv' /\ InputInv'
<1>1. ASSUME UNCHANGED <<meta, output, input, fed, reported>>,
             run' = run \/ (run'.pc = run.pc /\ run'.arg = run.arg /\ run'.err = run.err),
             \A s \in Steps : InFlight(s)' <=> InFlight(s)
      PROVE  Goal
  BY <1>1 DEF EndInv, DurableInv, InputInv, CompletedIsDurable, Compacting, Terminal
<1>2. CASE TaskBehaviour
  <2>1. UNCHANGED <<meta, output, input, fed, reported>> /\ run.pc = "exec"
    BY <1>2 DEF TaskBehaviour, RunStep, TaskReturns, disk
  <2>2. /\ run'.pc \in {"exec", "drain"} /\ run'.arg = run.arg
    BY <1>2 DEF TaskBehaviour, RunStep, TaskReturns, TypeInv, TypeOK, RunState
  <2>3. QED
    BY <2>1, <2>2 DEF EndInv, DurableInv, InputInv, CompletedIsDurable, Compacting
<1>3. CASE PeekMeta
  BY <1>1, <1>3 DEF PeekMeta, disk, history, InFlight
<1>4. ASSUME NEW arg \in Inputs, RegisterRun(arg)
      PROVE  meta' = meta /\ Goal
  <2>1. CASE UNCHANGED run
    BY <1>1, <1>4, <2>1 DEF RegisterRun, disk, history, InFlight
  <2>2. CASE run.pc = "off" /\ run' = [OffRun EXCEPT !.pc = "load", !.arg = arg]
    <3>1. run'.pc = "load"
      BY <2>2 DEF OffRun
    <3>2. QED
      BY <1>4, <2>2, <3>1 DEF RegisterRun, disk, history, EndInv, DurableInv, InputInv,
                              CompletedIsDurable, Compacting, InFlight
  <2>3. QED
    BY <1>4, <2>1, <2>2 DEF RegisterRun
<1>5. CASE RunTimeout \/ StopRun
  <2>1. run'.pc = run.pc /\ run'.arg = run.arg /\ run'.err = run.err
    BY <1>5 DEF RunTimeout, StopRun, TypeInv, TypeOK, RunState
  <2>2. QED
    BY <1>1, <1>5, <2>1 DEF RunTimeout, StopRun, engineUnchanged, disk, history, InFlight
<1>6. CASE OpenCutsJournal \/ Close \/ Closed
  BY <1>1, <1>6 DEF OpenCutsJournal, Close, Closed, engineUnchanged, disk, history, InFlight
<1>7. ASSUME NEW c \in Callers, CallProgress(c) \/ \E id \in Ids : BeginCall(c, id)
      PROVE  meta' = meta /\ Goal
  <2>1. UNCHANGED <<meta, output, input, fed, reported>>
    BY <1>7
       DEF CallProgress, BeginCall, LockAndLoadMeta, ReadJournal, AppendSignal, NotifyStep,
                CancelHandle, callUnchanged, history
  <2>2. run'.pc = run.pc /\ run'.arg = run.arg /\ run'.err = run.err
    BY <1>7
       DEF CallProgress, BeginCall, LockAndLoadMeta, ReadJournal, AppendSignal, NotifyStep,
                CancelHandle, TypeInv, TypeOK, RunState
  <2>3. \A s \in Steps : go'[s].pc = go[s].pc
    BY <1>7
       DEF CallProgress, BeginCall, LockAndLoadMeta, ReadJournal, AppendSignal, NotifyStep,
                CancelHandle, TypeInv, GoInv, StepState
  <2>4. QED
    BY <1>1, <2>1, <2>2, <2>3 DEF InFlight
<1>8. CASE Reopen \/ Crash
  <2>1. UNCHANGED <<meta, output, input, fed, reported>> /\ run' = OffRun /\ go' = IdleSteps
    BY <1>8 DEF Reopen, Crash, NewProcess, disk, history
  <2>2. run'.pc = "off" /\ \A s \in Steps : ~InFlight(s)'
    BY <2>1 DEF OffRun, IdleSteps, IdleStep, InFlight
  <2>3. QED
    BY <2>1, <2>2 DEF EndInv, DurableInv, InputInv, CompletedIsDurable, Compacting
<1>9. QED
  BY <1>2, <1>3, <1>4, <1>5, <1>6, <1>7, <1>8
     DEF RunTask, TaskBehaviour, RunStep, TaskReturns,
     disk, RunTimeout, StopRun, Close, Closed, engineUnchanged, PeekMeta,
     OpenCutsJournal

-----------------------------------------------------------------------------
\* The invariant is inductive

LEMMA InvInit == Init => IInv
<1>1. Init => EndInv
  BY InitialValues DEF Init, EndInv, Terminal, InFlight
<1>2. Init => DurableInv /\ InputInv
  BY InitialValues DEF Init, DurableInv, InputInv, CompletedIsDurable, Compacting
<1>3. QED
  BY <1>1, <1>2, TypeInit DEF IInv

LEMMA InvStep == IInv /\ [Next]_vars => IInv'
<1> SUFFICES ASSUME IInv, [Next]_vars PROVE EndInv' /\ DurableInv' /\ InputInv'
  BY TypeStep DEF IInv
<1>1. CASE UNCHANGED vars
  BY <1>1 DEF vars, IInv, EndInv, DurableInv, InputInv, CompletedIsDurable, InFlight
<1>2. CASE RunProgress
  BY <1>2, RunKeeps
<1>3. CASE \E s \in Steps : StepProgress(s) \/ FnProgress(s)
  BY <1>3, StepKeeps
<1>4. QED
  BY <1>1, <1>2, <1>3, OthersKeep DEF Next

LEMMA InvAlways == Spec => []IInv
BY InvInit, InvStep, PTL DEF Spec

-----------------------------------------------------------------------------
\* The theorems

\* No step goroutine, of this attempt or an earlier one, is alive once the run's
\* outcome is being written, or under a terminal status: waitInFlight suffices
\* whatever fails and whenever the process dies.
THEOREM StepsEndBeforeTheRun == Spec => []DrainedAtEnd
<1>1. IInv => DrainedAtEnd
  BY DEF IInv, EndInv, DrainedAtEnd, Compacting
<1>2. QED
  BY <1>1, InvAlways, PTL

\* A step that starts under a terminal status leaves status and cause alone.
LEMMA TerminalStep ==
  ASSUME IInv, [Next]_vars, meta.st \in Terminal
  PROVE  meta'.st = meta.st /\ meta'.err = meta.err
<1>1. run.pc \in {"off", "load"} \cup Compacting /\ \A s \in Steps : ~InFlight(s)
  BY DEF IInv, EndInv, Compacting
<1>2. ~\E s \in Steps : StepProgress(s) \/ FnProgress(s)
  BY <1>1, StepEffects DEF IInv
<1>3. CASE RunProgress
  BY <1>1, <1>3 DEF RunProgress, LoadMeta, AlreadyFinished, ResolveInput, ReplayJournal,
       EndAttempt, SaveOutput, SaveCompleted, SaveFailed, CompactRead, CompactWrite,
       CompactGeneration, disk, Compacting, IInv, TypeInv, TypeOK, MetaState
<1>4. CASE UNCHANGED vars
  BY <1>4 DEF vars
<1>5. QED
  BY <1>2, <1>3, <1>4, OthersKeep DEF Next

\* Nothing the code does, failing I/O included, replaces a terminal status or
\* its cause.
THEOREM TerminalStaysFinal == Spec => TerminalIsFinal
<1>1. IInv /\ [Next]_vars =>
        (meta.st \in Terminal => meta'.st = meta.st /\ meta'.err = meta.err)
  BY TerminalStep
<1>2. QED
  BY <1>1, InvAlways, PTL DEF Spec, TerminalIsFinal

\* A completed run has its output file, and no caller is told "completed" before
\* meta.json says so, for every pattern of failing I/O calls and crashes.
THEOREM SuccessIsDurable == Spec => []CompletedIsDurable
<1>1. IInv => CompletedIsDurable
  BY DEF IInv, DurableInv
<1>2. QED
  BY <1>1, InvAlways, PTL

\* However many callers start or resume the run, with whatever inputs, the task
\* closure is only ever given one of them.
THEOREM InputStaysPinned == Spec => []InputPinned
<1>1. IInv => InputPinned
  BY DEF IInv, InputInv, InputPinned
<1>2. QED
  BY <1>1, InvAlways, PTL
=============================================================================
