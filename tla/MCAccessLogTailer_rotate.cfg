\* Four lines, two rotations of either kind, two failures of any kind (the open, the
\* mapping from email to link, the sink, a restart), the poll timer.
CONSTANTS
    MaxLines = 4
    Noise = {2}
    Chunk = 4
    Batch = 2
    SeenCap = 1
    Cuts = {"truncate", "rename"}
    MaxCuts = 2
    FaultKinds = {"open", "resolve", "sink", "restart"}
    MaxFaults = 2
SPECIFICATION FairSpec
INVARIANTS TypeOK RowsGenuine StoredInOrder NothingForgotten
PROPERTIES Drains
