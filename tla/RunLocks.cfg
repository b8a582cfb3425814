\* RunTask against a deleting caller, each calling again and again.
SPECIFICATION FairSpec
CONSTANTS
  Runners = {r1}
  Deleters = {d1}
  Locks = {l1, l2, l3}
  None = None
INVARIANTS
  RefsCounted
  TombstoneRespected
  TombstoneLeaves
PROPERTY CallsReturn
