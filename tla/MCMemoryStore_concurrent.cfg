SPECIFICATION MCSpec
CONSTANTS
    c1 = c1
    c2 = c2
    pA = pA
    pB = pB
    h1 = h1
    h2 = h2
    Clients = {c1, c2}
    Projects = {pA, pB}
    Global = Global
    Hashes = {h1, h2}
    Prios = {1}
    Kinds = {}
    Ttls = {1}
    MergeMaxSources = 2
    MaxCalls = 4
    MaxTime = 3
    MaxTimeTogether = 2
SYMMETRY Interchangeable
INVARIANT TypeOK
PROPERTY GenerationTracksCorpus
INVARIANT HistoryIsForest
PROPERTY RetiredForever
INVARIANT TrailIsWhole
PROPERTY HistoryIsFixed
