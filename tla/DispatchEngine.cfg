CONSTANTS
  N = 2
  DBFails = TRUE
SPECIFICATION FairSpec
INVARIANTS OnlyGuardsDecide DecisionStands AskedUntilDecided RecordingAwaited
PROPERTY Terminates
