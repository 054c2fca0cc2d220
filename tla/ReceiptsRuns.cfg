CONSTANTS
    Nobody = Nobody
    Procs = {p1, p2}
    MaxReceipts = 2
    MaxFailures = 2
SPECIFICATION FairReceiptsSpec
INVARIANTS
    QueuedIsKept
PROPERTIES Delivered
