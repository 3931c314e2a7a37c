SPECIFICATION MCSpec
CONSTANTS
  Requests = {q1, q2, q3}
  Devices = {d1}
  Asks = {a1, a2, a3}
  None = None
  Past = Past
  Kinds = {"register", "verify", "resend", "login", "requestReset", "reset", "suspend"}
  Threshold = 2
  Steps = 2
INVARIANTS
  DoneMeansDone
  TokenRedeemedOnce
  CodeOpensOneSession
  AnsweredThisFactor
PROPERTIES
  RevokedStaysRevoked
CHECK_DEADLOCK FALSE
