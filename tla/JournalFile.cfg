\* Two appenders, eviction, I/O errors, compaction and crashes.
SPECIFICATION Spec
CONSTANTS
  Appenders = {a1, a2}
  Evictor = evictor
  Compactor = compactor
  Handles = {h1, h2, h3, h4}
  Files = {f1, f2, f3}
  None = None
  MAC = TRUE
  MaxOps = 3
  MaxFaults = 2
  MaxCrashes = 2
CONSTRAINT Bound
SYMMETRY Symmetry
INVARIANTS
  AckedReadableAlone
  WellFormed
  HandleAgrees
  NoDeadHandle
CHECK_DEADLOCK FALSE
