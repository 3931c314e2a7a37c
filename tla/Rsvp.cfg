SPECIFICATION MCSpec
CONSTANTS
  Guests = {g1, g2}
  Requests = {q1, q2, q3}
  Kinds = {"submit", "edit", "delete"}
  Policies <- TwoPolicies
  None = None
  Never = Never
  PartyLimit = 1
  Window = 0
  MaxTime = 1
  Pages = {b1, b2}
  Scripted = {b1}
  Names = {g1}
  GuestOf <- OneName
  Budgets <- SmallBudgets
  HumanCheck = {TRUE, FALSE}
PROPERTIES
  KeepsGuestBook
  RepliesChangeByRight
  EveryGuestIsAnswered
CHECK_DEADLOCK FALSE
