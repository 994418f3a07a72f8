SPECIFICATION MCSpec
CONSTANTS
    c1 = c1
    pA = pA
    h1 = h1
    r1 = r1
    Clients = {c1}
    Projects = {pA}
    Global = Global
    Hashes = {h1}
    Prios = {0, 1}
    Kinds = {}
    Ttls = {}
    MergeMaxSources = 3
    MaxCalls = 3
    MaxTime = 2
    Readers = {r1}
    Worker = Worker
    StaticLimit = 1
    QueueLimit = 1
    BatchSize = 1
SYMMETRY Interchangeable
INVARIANTS StoredStaticCurrent QueueCatchesUp
PROPERTY ServesFreshView
