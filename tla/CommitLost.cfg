SPECIFICATION CRSpec
CONSTANTS
  MaxXid = 2
  MaxCid = 0
  NoSnapshot = NoSnapshot
  MaxLog = 4
  MaxCrashes = 0
  FlushIsExact = FALSE
INVARIANT VisibleIsDurable
CHECK_DEADLOCK FALSE
