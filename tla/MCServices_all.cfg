SPECIFICATION MCSpec
CONSTANTS
    q1 = q1
    q2 = q2
    Requests = {q1, q2}
    Operations = {"page", "logout"}
    Idle = 4
    Absolute = 6
    Threshold = 2
    Grace = 1
    Replays = TRUE
    Lossy = TRUE
    MaxLogins = 1
    MaxTime = 7
    MaxTimeTogether = 4
    BucketKeys <- MCBucketKeys
    MaxEntries = 3
    Attempts = {r1, r2}
    Ips = {i1}
    Accounts = {a1}
    ApiKeys = {t1, t2}
    BadTokens = {}
    McpAttempts = 2
    IpAttempts = 2
    AccountAttempts = 1
    McpWindow = 1
    IpWindow = 2
    AccountWindow = 2
    CacheTtl = 2
    MaxCached = 1
    MaxClock = 3
    MaxReservations = 4
    Savers = {s1, s2}
    Steps = {st1, st2}
    MaxSkills = 3
    Admins = {ad1, ad2}
    Operators = {o1}
    People = {u1, u2, u3}
    First = {u1, u2}
    Passwords = {"p"}
    MaxKeys = 1
    Depth = 2
    RemoteKeys = {"a", "b"}
    AnchorKeys = {"c"}
    GitBudget = 20
    GitPerCall = 6
    MaxChanges = 2
SYMMETRY Interchangeable
INVARIANTS
    ChainIsLine ClosedStaysClosedAlone ActiveUserStaysAlone
    CountsAreCharges RevocationDelay
    VersionsAreLines AnswersAreTrue
    AdminRemains
    KeyInTime
CHECK_DEADLOCK FALSE
