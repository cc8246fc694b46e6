CONSTANTS
  Daemons = {d1, d2}
  Inodes = {i1, i2}
  None = None
  Old = Old
  InodeReuse = TRUE
SPECIFICATION Spec
INVARIANT ListenerReachable
