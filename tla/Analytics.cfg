SPECIFICATION CountingSpec
CONSTANTS
  Views = {v1, v2, v3}
  Visitors = {p1}
  Invitations = {i1, i2}
  Flushes = {worker, cron}
  Null = Null
  BatchSize = 2
  MaxBatches = 2
  BufferMax = 2
  LastDay = 1
  MaxFaults = 1
INVARIANTS
  EachViewOnce
  UniquesArePeople
SYMMETRY Symmetry
CHECK_DEADLOCK FALSE
