\* Two transactions, shared and exclusive table locks, upgrades, row waits.
SPECIFICATION DDFairSpec
CONSTANTS
    Xids = {1, 2}
    Tables = {t1}
    NoReq = NoReq
    NoXid = NoXid
    RequestModes <- MCTwo
PROPERTIES
    ImplementsLockManager
    DeadlocksBroken
    MarksTakeEffect
CHECK_DEADLOCK FALSE
