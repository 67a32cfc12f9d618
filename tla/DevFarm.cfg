CONSTANTS
    None = None
    Recipes <- ThreeRecipes
    MaxDrift = 1
    Jobs = {"j"}
    Nodes = {"self", "rival"}
    Self = "self"
    Wanted = {"one", "bundled"}
    Lease = 1
    MaxAttempts = 2
    MaxUnfinished = 50
    MaxFaults = 1
SPECIFICATION FarmSpec
INVARIANTS
    ArtifactServed
    ReceiptsAgree
PROPERTIES
    NeverDowngraded
    FinalIsFinal
CHECK_DEADLOCK FALSE
