CONSTANTS
    m1 = m1
    c1 = c1
    a = a
    b = b
    g = g
    k = k
    None = None
    Clients = {r1, r2}
    Metas = {m1}
    Chunks = {c1}
    Bodies = {a, b, g, k}
    Garbled = {g}
    SizeOf <- Sizes
    ChunkBody <- OneChunk
    Channel = m1
    Receivers = {r1}
    SeqOf <- Sequence
    MaxBytes = 3
    CorruptFirst = 1
    MaxWrites = 1
    MaxFaults = 1
SPECIFICATION PipelineSpec
INVARIANTS
    CacheBound
    FlightHasLeader
    CleanIsFresh
    MetadataIsIntact
    SeenIsTold
PROPERTIES
    LoadReturns
    ReachesReceivers
