CONSTANTS
    PageCap = 2
    MaxPage = 4
    MaxXid = 4
    Cases <- AllCases
SPECIFICATION Spec
CHECK_DEADLOCK FALSE
CONSTRAINT NotStrayed
INVARIANTS
    RowLocksExcludeApart
    RowsCounted
    ScansExact
    ChainWhole
    

