CONSTANTS
    None = None
    Recipes <- TwoRecipes
    MaxDrift = 1
    Jobs = {"j"}
    Nodes = {"self", "rival"}
    Self = "self"
    Wanted = {"one"}
    Lease = 1
    MaxAttempts = 2
    MaxUnfinished = 50
    MaxFaults = 1
SPECIFICATION FarmSpec
INVARIANTS
    PinnedRelease
CHECK_DEADLOCK FALSE
