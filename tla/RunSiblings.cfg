\* Two concurrent steps that succeed, fail, panic, wait or time out; a retry of the
\* task, a crash, a CompleteStep; a failing I/O call, a timeout and a retry of a step, or
\* new versions of one, as Bound allows.
SPECIFICATION Spec
CONSTANTS
  Steps = {s1, s2}
  Versions = {"", "1"}
  Inputs = {i1}
  Completers = {c1}
  BadCompleters = {}
  Cancellers = {}
  CancelSignal = CancelSignal
  None = None
  Outcomes = {"ok", "err", "pending", "panic"}
  TaskRetries = 1
  StepRetries = 1
  StepTimeouts = TRUE
  CanClose = FALSE
  MaxCrashes = 1
  MaxFaults = 1
  MaxTimeouts = 1
SYMMETRY Symmetry
CONSTRAINT Bound
INVARIANT TypeOK
PROPERTY NoRerun
INVARIANT NoStaleWaiting
INVARIANT DrainedAtEnd
INVARIANT CompletedIsDurable
PROPERTY TerminalIsFinal
CHECK_DEADLOCK FALSE
