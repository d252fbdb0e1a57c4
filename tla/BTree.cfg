\* Two operations at a time on trees of one to three leaves.
SPECIFICATION Spec
CONSTANTS
    Threads = {t1, t2}
    Pages <- SmallPages
    Entries <- SmallEntries
    Loads <- SmallLoads
    Operations = {"insert", "delete", "lookup", "rangeScan"}
    MaxOps = 2
    MaxRestarts = 2
    LeafCap = 2
    NodeCap = 3
SYMMETRY Symmetry
INVARIANTS
    EntriesInOrder
    ReadsExact
    VerdictsTrue
    ChainIsWhole
CONSTRAINT NotMisplaced
CHECK_DEADLOCK FALSE
