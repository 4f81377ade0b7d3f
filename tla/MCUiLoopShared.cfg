CONSTANTS
  notes = notes
  shop = shop
  x = x
  y = y
  artifact = artifact
  answer = answer
  other = other
  None = None
  Thread = {x, y}
  App = {notes, shop}
  AppOf <- OneEach
  Display = {0, 1}
  Requested <- Asked
  OwnShot = {notes}
  Places <- Together
  MaxAttempts = 2
  Contract <- NoOutput
  ArtifactKind = {answer, other}
  Capability = {"retrieve", "buy"}
  Provider <- Offers
  MaxSteps = 2
  MaxRuns = 1
SPECIFICATION USpec
INVARIANTS TextReachesApp
CHECK_DEADLOCK FALSE
