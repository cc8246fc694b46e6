CONSTANTS
  Migrators = {m1, m2}
  Sessions = {s1, s2}
  StillOpen = {s2}
  Events = {e1}
  Authorship = {a1}
  NoRow = NoRow
  MaxPasses = 2
SPECIFICATION Spec
SYMMETRY Symmetry
INVARIANTS ImportedOnce CleanExitMeansComplete
PROPERTY LiveSessionsKept
