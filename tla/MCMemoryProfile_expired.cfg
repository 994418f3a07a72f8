SPECIFICATION SpecProfile
CONSTANTS
    c1 = c1
    h1 = h1
    r1 = r1
    Clients = {c1}
    Projects = {}
    Global = Global
    Hashes = {h1}
    Prios = {1}
    Kinds = {}
    Ttls = {1}
    MergeMaxSources = 3
    MaxCalls = 1
    MaxTime = 2
    Readers = {r1}
    Worker = Worker
    StaticLimit = 1
    QueueLimit = 2
    BatchSize = 2
SYMMETRY Interchangeable
INVARIANT ServedUnexpired
