SPECIFICATION Spec
CONSTANTS
    r1 = r1
    r2 = r2
    r3 = r3
    Trails = {r1, r2, r3}
    Reflush = FALSE
    MaxRecords = 2
SYMMETRY Interchangeable
INVARIANTS
    InOrderOnce
    FlushedOnDisk
    FinishedTrailReadable
CHECK_DEADLOCK FALSE
