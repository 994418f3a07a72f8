SPECIFICATION FairSpec
CONSTANTS
    u1 = u1
    m1 = m1
    r1 = r1
    r2 = r2
    w = w
    Users = {u1}
    Memories = {m1}
    Readers = {r1, r2}
    Workers = {w}
    BufferLimit = 2
    BatchSize = 1
    Cancels = TRUE
    MaxServes = 2
    MaxFailures = 0
PROPERTY ReadContinues
