\* Three transactions that wait for each other's rows and for one table.
SPECIFICATION DDSpec
CONSTANTS
    Xids = {1, 2, 3}
    Tables = {t1}
    NoReq = NoReq
    NoXid = NoXid
    RequestModes <- MCThree
INVARIANTS
    LockTableSound
    NoWakeupLost
    MarksAreSound
PROPERTIES
    LockDiscipline
CHECK_DEADLOCK FALSE
