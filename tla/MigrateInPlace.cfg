CONSTANTS
  Migrators = {m1}
  Sessions = {s1}
  StillOpen = {}
  Events = {e1}
  Authorship = {a1}
  NoRow = NoRow
  MaxPasses = 1
SPECIFICATION Spec
INVARIANT OriginalsUntouched
