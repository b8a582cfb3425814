\* One step, two CompleteStep calls (one with a payload of the wrong type), CancelRun, two inputs, a retry, a crash.
SPECIFICATION Spec
CONSTANTS
  Steps = {s1}
  Versions = {""}
  Inputs = {i1, i2}
  Completers = {c1, c2}
  BadCompleters = {c2}
  Cancellers = {k1}
  CancelSignal = CancelSignal
  None = None
  Outcomes = {"ok", "err", "pending"}
  TaskRetries = 1
  StepRetries = 0
  StepTimeouts = FALSE
  CanClose = FALSE
  MaxCrashes = 1
  MaxFaults = 0
  MaxTimeouts = 0
SYMMETRY Symmetry
INVARIANT InputPinned
INVARIANT MemoStable
PROPERTY RefinesMemoStore
PROPERTY CancelStopsWork
PROPERTY FirstSignalWins
CHECK_DEADLOCK FALSE
