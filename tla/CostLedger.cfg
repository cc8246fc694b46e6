CONSTANTS
  Sessions = {s1, s2}
  Procs = {p1, p2}
  MaxCost = 1
  MaxDay = 2
  None = None
  CrossMidnight = FALSE
SPECIFICATION Spec
SYMMETRY Symmetry
INVARIANTS TypeOK DailyViewsAgree EveryCostChargedOnce
PROPERTY NoUpdateLost
