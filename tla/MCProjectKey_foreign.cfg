SPECIFICATION KeySpec
CONSTANTS
    Depth = 2
    RemoteKeys = {"a", "b"}
    AnchorKeys = {"c"}
    GitBudget = 20
    GitPerCall = 6
    MaxChanges = 2
INVARIANT OwnKey
