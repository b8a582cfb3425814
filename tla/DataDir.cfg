SPECIFICATION Spec
CONSTANTS
  w1 = w1
  w2 = w2
  r1 = r1
  Writers <- MCWriters
  Readers <- MCReaders
  Processes <- MCProcesses
  MaxRuns = 2
  Callers = {c1}
  Removers = {d1, d2}
  KeepRuns = 1
  Executor = Executor
  Nobody = Nobody
  MaxCalls = 4
  MaxFaults = 1
CONSTRAINT Bound
SYMMETRY Symmetry
INVARIANTS Exclusive OccupancyCounts ReaderSnapshot
PROPERTIES OldestResumed PurgeOldestFirst PurgeSparesActive ListedSpared
CHECK_DEADLOCK FALSE
