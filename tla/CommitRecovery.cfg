SPECIFICATION CRSpec
CONSTANTS
  MaxXid = 2
  MaxCid = 0
  NoSnapshot = NoSnapshot
  MaxLog = 5
  MaxCrashes = 2
  FlushIsExact = TRUE
INVARIANTS
    VisibleIsDurable
    ClockAheadOfLog
PROPERTIES
    ImplementsTxnManager
    TerminalIsFinal
CHECK_DEADLOCK FALSE
