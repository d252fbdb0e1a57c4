CONSTANTS
    PageCap = 3
    MaxPage = 3
    MaxLsn = 20
    Retained = 1
    Cases <- MCCases
SPECIFICATION Spec
INVARIANTS
    
    FreelistExactApart
    SuperblockHolds
    OidsUnique
CONSTRAINT NotStrayed
CHECK_DEADLOCK FALSE
