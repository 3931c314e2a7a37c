SPECIFICATION MCSpec
CONSTANTS
  Blueprints <- MCBlueprints
  Editable = {"PUBLIC_BASE_URL", "MAIL_FROM_NAME"}
  MaxStops = 2
  MaxMeddling = 1
INVARIANTS
  AppliedMeansComplete
  ServesWhatWasReviewed
  CheckedBlueprintBoots
PROPERTIES
  RerunsRepair
CHECK_DEADLOCK FALSE
