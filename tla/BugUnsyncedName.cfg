\* One appender whose first directory sync fails; then a power loss.
SPECIFICATION Spec
CONSTANTS
  Appenders = {a1}
  Evictor = evictor
  Compactor = compactor
  Handles = {h1, h2, h3}
  Files = {f1, f2}
  None = None
  MAC = FALSE
  MaxOps = 2
  MaxFaults = 1
  MaxCrashes = 1
INVARIANT AckedSurvivesAlone
CHECK_DEADLOCK FALSE
