\* Two appends that open the journal together.
SPECIFICATION Spec
CONSTANTS
  Appenders = {a1, a2}
  Evictor = evictor
  Compactor = compactor
  Handles = {h1, h2, h3}
  Files = {f1, f2}
  None = None
  MAC = FALSE
  MaxOps = 2
  MaxFaults = 0
  MaxCrashes = 0
INVARIANT AckedReadable
CHECK_DEADLOCK FALSE
