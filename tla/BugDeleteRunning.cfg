\* The last user of a tombstoned lock removes the entry of a fresh one.
SPECIFICATION Spec
CONSTANTS
  Runners = {r1}
  Deleters = {d1}
  Locks = {l1, l2, l3}
  None = None
INVARIANT DeleteSparesRunning
