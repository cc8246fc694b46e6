CONSTANTS
  Daemons = {d1, d2}
  Inodes = {i1, i2}
  None = None
  Old = Old
  InodeReuse = FALSE
SPECIFICATION FairSpec
INVARIANTS TypeOK LockInv ListenerReachable
PROPERTIES OwnerSpec Settles LaunchLeadsToService
