SPECIFICATION FairSpec
CONSTANTS
  Tabs = {t1, t2}
  Paths = {p, q}
  Values = {v0, v1}
  Initial = v0
  Unset = Unset
  NoDraft = NoDraft
  MaxEdits = 2
  MaxFaults = 1
  MaxFlushes = 1
INVARIANTS
  WorkHasAClock
  DurableQueue
  BaseIsAServerDocument
PROPERTIES
  NoSaveUndoesAnother
  EveryEditSettles
CHECK_DEADLOCK FALSE
