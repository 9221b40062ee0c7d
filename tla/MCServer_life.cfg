\* Two starts over every earlier version of the database, two endpoints, a history of
\* two rounds.  After the last exit nothing happens any more.
CONSTANTS
    Probes = {p1, p2}
    MaxRounds = 2
    MaxTime = 2
    Rows = {r1}
    Intervals = {"expire", "ledger", "connCleanup", "sampleCleanup", "regionProbe", "reconcile"}
    MaxStarts = 2
SPECIFICATION FairSpec
INVARIANTS TypeOK NewestFirst SchemaReady
PROPERTIES RowsKept SnapshotCatchesUp QuietAfterStop
CHECK_DEADLOCK FALSE
