SPECIFICATION Spec
CONSTANTS
    Pages = {p1, p2, p3}
    Fresh = {p3}
    Frames = {f1, f2}
    Threads = {t1, t2}
    Ckpt = Ckpt
    None = None
    MaxLsn = 3
    MaxPins = 3
    MaxFails = 1
SYMMETRY Symmetry
INVARIANTS  CacheIsCurrentApart
    WriteBackIsDurableApart  FpiBeforeChangeApart
CONSTRAINT NotOvertaken
CHECK_DEADLOCK FALSE
