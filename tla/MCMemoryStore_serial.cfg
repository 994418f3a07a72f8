SPECIFICATION Spec
CONSTANTS
    c1 = c1
    h1 = h1
    h2 = h2
    Clients = {c1}
    Projects = {}
    Global = Global
    Hashes = {h1, h2}
    Prios = {1}
    Kinds = {"todo", "decision"}
    Ttls = {1}
    MergeMaxSources = 2
    MaxCalls = 4
    MaxTime = 2
    MaxTimeTogether = 2
SYMMETRY Interchangeable
INVARIANT TodoHasTtl
INVARIANT RememberNeverRaises
