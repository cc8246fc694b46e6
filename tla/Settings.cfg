CONSTANTS
  Events = {"PreToolUse", "Stop"}
  Matchers = {"", "Bash"}
  Hooks <- MCHooks
  HotWarn = 1
  HotFail = 2
  ColdWarn = 0
  ColdFail = 1
  OffPath = {"gone"}
  OnNetwork = {"lint"}
  OtherGuards = {"lint"}
  Procs = {p1, p2}
  Requests <- MCRequests
  InitDocs <- MCInitDocs
  AddedGroup <- MCAddedGroup
  MaxEdits = 1
  MaxRuns = 1
  MaxClock = 1
SPECIFICATION Spec
SYMMETRY Symmetry
INVARIANTS WireIdempotent FixIsFaithful WreckRecoverable
PROPERTY HooksSurvive
CHECK_DEADLOCK FALSE
