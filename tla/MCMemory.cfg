SPECIFICATION Spec
CONSTANTS
    p1 = p1
    p2 = p2
    p3 = p3
    Pointers = {p1, p2, p3}
    ZONE_SIZE = 7
    MINFRAGMENT = 1
    ZoneSizes = {2, 3}
    s_hunkTotal = 4
    HunkSizes = {1, 2}
    Dedicated = {TRUE, FALSE}
    MaxDrops = 1
SYMMETRY Alike
INVARIANTS TypeOK HeapOK FailsOnlyWhenFull TempOnOneEnd
PROPERTY AllocatorSpec
CHECK_DEADLOCK FALSE
