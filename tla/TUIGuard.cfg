CONSTANTS
  Launchers = {l1, l2}
  PIDs = {p1}
  None = None
  MaxHandoffs = 2
  ManualLaunch = FALSE
  PIDReuse = FALSE
SPECIFICATION LaunchSpec
INVARIANTS TypeOK DuplicateNeedsStolenMarker
PROPERTY TUIComesUp
