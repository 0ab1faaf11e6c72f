SPECIFICATION Spec
CONSTANTS
    g1 = g1
    g2 = g2
    t1 = t1
    t2 = t2
    Tasks = {t1, t2}
    Groups = {g1, g2}
    SizeOf <- MCSizeOf
    MaxMessage = 6000
    HeaderBytes = 4
    Align = 4096
    LoadLimit = 6000
    Faults = {"open", "write", "short", "load", "mkdir"}
    Boot = 1
    LastTick = 2
    MaxCounter = 2
    MaxBatch = 2
SYMMETRY Symmetry
INVARIANT UniqueIds
PROPERTIES
    ImplementsSpillStore
CHECK_DEADLOCK FALSE
