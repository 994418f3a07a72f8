SPECIFICATION MCRuntimeSpec
CONSTANTS
    Users = {1, 2, 3}
    Memories = {m1}
    Readers = {r1}
    Workers = {w}
    BufferLimit = 2
    BatchSize = 1
    Cancels = TRUE
    MaxServes = 3
    MaxFailures = 1
    Queues = {"telemetry", "usage", "profiles"}
    Items = {1, 2}
    MaxRecords = 2
    ChunkSize = 1
    QueueLimit = 1
    LifespanCancelled = TRUE
    MaxBroken = 1
    Requests <- MCRequests
    Handlers = {"plain", "stream", "await"}
    LoginBytes = 2
    GeneralBytes = 3
    NoLimit = 99
    TrustedHops = {"proxy1", "proxy2"}
    Garbage = "garbage"
    Dependencies = {"database", "embeddings"}
    ProbeTimeout = 2
    AggregateTimeout = 1
    MaxElapsed = 3
    Events = {1, 2, 3}
    Names <- MCNames
    MaxBuckets = 2
    InsertSize = 2
    MaxSpoiled = 1
INVARIANTS
    LossObservable
    NothingForgotten EngineOutlivesWorkers
    RequestIntact DisconnectsHeard OneRecord
    ProbesTold
    ActivityAddsUp
PROPERTY RuntimeMovesOn
CHECK_DEADLOCK FALSE
