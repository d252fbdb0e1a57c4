SPECIFICATION Spec
CONSTANTS
    s1 = s1
    s2 = s2
    Sessions = {s1, s2}
    Names = {"t", "u"}
    PageCap = 2
    MaxPage = 5
    MaxXid = 7
    Cases <- MCCases
SYMMETRY SessionSymmetry
CONSTRAINT NotStrayed
INVARIANTS
    IndexExactApart
    IndexCallsSucceedApart
    TablesKeepTheirPages
    TablesSurviveApart
CHECK_DEADLOCK FALSE
