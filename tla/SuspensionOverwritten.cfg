SPECIFICATION MCSpec
CONSTANTS
  Invitations = {i1}
  Slugs = {s1}
  Requests = {q1, q2, q3}
  Kinds = {"publish", "unpublish", "suspend"}
  None = None
  Never = Never
  MaxTime = 1
  Sweepers = {w1}
  SweepLimit = 1
  Guests = {g1}
  Shelf = 1
PROPERTIES
  SuspensionLeftOnlyByStaff
CHECK_DEADLOCK FALSE
