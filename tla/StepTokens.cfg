\* Two openings, two given keys; TTLs that end within the clock's range and beyond.
SPECIFICATION Spec
CONSTANTS
  Field <- MCField
  Empty = ""
  Decimal <- MCDecimal
  PathIDs <- MCPathIDs
  StepIDs <- MCStepIDs
  Keys = {"k1", "k2"}
  TTLs = {0, 1}
  DefaultTTL = 2
  Default = Default
  MaxOpens = 2
  MaxTokens = 1
  MaxTime = 4
INVARIANTS
  NamesItsStep
  AcceptedInTime
  RefusedOtherwise
CHECK_DEADLOCK FALSE
