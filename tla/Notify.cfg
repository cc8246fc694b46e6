CONSTANTS
  Dispatches = {p1, p2}
  Viewers = {v1, v2}
  MaxHalfDay = 3
  MaxRows = 3
  UTCOffset = 1
  Interrupts = TRUE
  ListLimit = 1
SPECIFICATION ViewSpec
INVARIANTS DuplicatesBounded OverrunNotified SurfacedWasSeen
PROPERTY EventuallySeen
