SPECIFICATION MCSpec
CONSTANTS
  Blueprints <- MCBlueprints
  Editable = {"PUBLIC_BASE_URL", "MAIL_FROM_NAME"}
  MaxStops = 1
  MaxMeddling = 0
PROPERTIES
  AlreadyLinkedIsLinked
CHECK_DEADLOCK FALSE
