CONSTANTS
  notes = notes
  shop = shop
  x = x
  y = y
  z = z
  None = None
  Thread = {x, y, z}
  App = {notes, shop}
  AppOf <- SharedAgent
  Display = {0, 1}
  Requested <- Asked
  OwnShot = {notes}
  Places <- Together
  MaxAttempts = 2
  MaxObserve = 1
SPECIFICATION FewSpec
SYMMETRY Alike
INVARIANTS LaunchedHasSurface LaunchedOnce ObservationUndisturbed
