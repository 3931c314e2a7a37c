SPECIFICATION Spec
CONSTANTS
  Null = Null
  Missing = Missing
  Refused = Refused
  MaxEvents = 3
  MaxGallery = 2
  MaxOperations = 3
  MaxHistory = 2
  Drafts <- MCDrafts
  Sittings <- MCSittings
INVARIANTS
  QueueRebuildsDocument
  FrameCatchesUp
  ReadyMeansPublishable
PROPERTIES
  UndoIsTimeTravel
  PublishTakesTheScreen
CHECK_DEADLOCK FALSE
