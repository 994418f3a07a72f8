SPECIFICATION MCKnowledgeSpec
CONSTANTS
    Batches = {"b1", "b2"}
    Texts = {"x", "y"}
    Invalid = "bad"
    ItemLists <- MCItemLists
    MaxForgets = 2
    RrfK = 60
    Scale = 991186560
    NoBudget = NoBudget
    Projects = {"pA", "pB"}
    Global = Global
    Size = 3
    Corpora <- MCCorpora
    Recalls <- MCRecalls
    Contexts <- MCContexts
    ProfileStatic <- MCProfileStatic
    ProfileDynamic <- MCProfileDynamic
    ProfileReserve <- MCProfileReserve
    CandidateLimit = 3
    FocusLimit = 1
    TruncateFloor = 2
    ImportanceWeight = 5
    TrigramWeight = 5
    MaxWrites = 1
    RowIds = {1, 2, 3}
    Runs = {"r1", "r2"}
    PageSize = 2
    MaxStores = 1
    Shapes <- MCShapes
    Models = {"m1"}
    NoModel = NoModel
    Everywhere = Everywhere
    GraphAsks <- MCGraphAsks
    MaxTouches = 1
    Procedures <- MCProcedures
    SkillCount = 3
    Queried = {{"pA", "global"}, {"global"}}
    MatchLimit = 2
    PoolLimit = 2
    SimilarLimit = 1
    MaxReplaced = 1
    Callers = {"c1", "c2"}
    Queries = {"q1", "q2", "q3"}
    CacheSize = 2
    Window = 2
    MaxAsks = 4
    MaxClock = 3
    Stored = 4
    Writers = 2
    Subjects = {1, 2, 3, 4, 5, 6}
    SimilarMost = 4
    PageSizes = {2}
    MaxOffset = 3
    MaxLeavings = 1
INVARIANT OneSnapshot
CHECK_DEADLOCK FALSE
