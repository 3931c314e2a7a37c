SPECIFICATION FairSpec
CONSTANTS
  Media = {m1}
  Variants = {v1}
  Calls = {c1, c2}
  Runs = {r1, r2}
  Modes = {"inline", "queue"}
  Attempts = 2
  MaxFaults = 1
  None = None
INVARIANTS
  ReadyIsComplete
  NoStrayBytes
PROPERTIES
  OnlyDueIsRemoved
  InterruptedIsRetried
  DueIsCollected
CHECK_DEADLOCK FALSE
