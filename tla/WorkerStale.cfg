CONSTANTS
    None = None
    Jobs = {"j"}
    Tasks = {"proc"}
    Nodes = {}
    Members = {"m", "o"}
    ControlJobs = {}
    ParentJob <- NoParentJob
    Plan <- SinglePlan
    Results <- PassResults
    EngineSets <- OneEngineSet
    Reports <- OneReport
    Suspendable = {}
    MaxAttempts = 2
    MinLease = 1
    MaxLease = 1
    LeaseRequests = {1}
    Targets = {"proc", None}
    HeartbeatLimit = 0
    Backoff <- OneTick
    RivalLocks <- NoRivals
    ClaimPauses = {0}
    Self = "m"
    Seconds = 1
    MaxPending = 2
    RunSlots = {"cpu"}
    Prefetch = TRUE
    OfflineSpeculation = TRUE
    Unsendable = {}
    MaxFaults = 1
SPECIFICATION FarmSpec
PROPERTIES
    DurableOutputReused
