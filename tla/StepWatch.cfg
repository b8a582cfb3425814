\* Two steps, the first may suspend; two clients.
SPECIFICATION FairSpec
CONSTANTS
  Steps = {s1, s2}
  First = s1
  Suspending = {s1}
  Watchers = {w1, w2}
  Sets = {o1, o2}
  None = None
  Buffer = 1
  MaxWatches = 2
  MaxFrames = 4
CONSTRAINT Bound
INVARIANTS
  TypeOK
  NoGap
  InOrder
  CaughtUp
PROPERTY WatchCloses
CHECK_DEADLOCK FALSE
