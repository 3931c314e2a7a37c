SPECIFICATION MCSpec
CONSTANTS
  Invitations = {i1, i2}
  Slugs = {s1, s2}
  Requests = {q1, q2, q3}
  Kinds = {"publish", "unpublish", "rollback", "suspend", "unsuspend", "delete"}
  None = None
  Never = Never
  MaxTime = 1
  Sweepers = {w1, w2}
  SweepLimit = 1
  Guests = {g1}
  Shelf = 2
INVARIANTS
  RedirectReachesItsInvitation
  EachPublishOwnsItsVersion
PROPERTIES
  SuspensionHoldsOnceQuiet
  SweepHonoursRepublish
  DueIsEventuallyExpired
  SuspendedStaysOffEdge
  EdgeCatchesUp
CHECK_DEADLOCK FALSE
