\* A prefix may claim up to 15 bytes: less than the limit or more, within the file
\* or beyond its end.
SPECIFICATION Spec
CONSTANTS
  Radix = 4
  Payloads <- MCPayloads
  MaxPayload = 8
  MaxFrames = 3
  MaxCrashes = 2
  MaxDamage = 2
INVARIANTS
  ReadsIntactFrames
  CrashRecovered
  BodyDamageReported
CHECK_DEADLOCK FALSE
