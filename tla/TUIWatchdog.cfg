CONSTANTS
  Launchers = {}
  PIDs = {p1, p2, p3}
  None = None
  MaxHandoffs = 1
  ManualLaunch = TRUE
  PIDReuse = TRUE
SPECIFICATION WatchdogSpec
INVARIANT OnlyGrownTUIsStruck
PROPERTY Converges
