CONSTANTS
  notes = notes
  shop = shop
  x = x
  y = y
  artifact = artifact
  answer = answer
  other = other
  None = None
  Thread = {x, y}
  App = {notes, shop}
  AppOf <- OneEach
  Display = {0, 1, 2}
  Requested <- Asked
  OwnShot = {notes}
  Places <- Apart
  MaxAttempts = 2
  Contract <- OneOutput
  ArtifactKind = {answer, other}
  Capability = {"retrieve", "buy"}
  Provider <- Offers
  MaxSteps = 2
  MaxRuns = 1
SPECIFICATION FairUSpec
INVARIANTS ActsOnWhatItSaw ElementIdsUsedOnce TextReachesApp CompletionAccepted
PROPERTIES ObservationCoherent ExecutionEnds
CHECK_DEADLOCK FALSE
