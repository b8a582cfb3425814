\* Liveness: CompleteStep, CancelRun and Close against one step; version bumps.
SPECIFICATION FairSpec
CONSTANTS
  Steps = {s1}
  Versions = {"", "1"}
  Inputs = {i1}
  Completers = {c1}
  BadCompleters = {}
  Cancellers = {k1}
  CancelSignal = CancelSignal
  None = None
  Outcomes = {"ok", "err", "pending"}
  TaskRetries = 1
  StepRetries = 0
  StepTimeouts = FALSE
  CanClose = TRUE
  MaxCrashes = 0
  MaxFaults = 0
  MaxTimeouts = 0
PROPERTY SignalDelivered
PROPERTY CloseReturns
PROPERTY CancelEndsAttempts
CHECK_DEADLOCK FALSE
