SPECIFICATION Spec
CONSTANTS
    LeafCap = 2
    NodeCap = 3
    MaxPage = 8
    Entries <- MCEntries
    Cases <- MCCases
CONSTRAINT NotStrayed
INVARIANTS
    RecoveryCompletesApart
    
    RightPageFirst
CHECK_DEADLOCK FALSE
