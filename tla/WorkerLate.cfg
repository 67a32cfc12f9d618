CONSTANTS
    None = None
    Jobs = {"j"}
    Tasks = {"proc"}
    Nodes = {"n"}
    Members = {"o"}
    ControlJobs = {}
    ParentJob <- NoParentJob
    Plan <- SinglePlan
    Results <- PassResults
    EngineSets <- OneEngineSet
    Reports <- OneReport
    Suspendable = {}
    MaxAttempts = 2
    MinLease = 1
    MaxLease = 1
    LeaseRequests = {1}
    Targets = {"proc", None}
    HeartbeatLimit = 0
    Backoff <- OneTick
    RivalLocks <- NoRivals
    ClaimPauses = {0}
    Self = "n"
    Seconds = 1
    MaxPending = 1
    RunSlots = {"cpu"}
    Prefetch = FALSE
    OfflineSpeculation = FALSE
    Unsendable = {}
    MaxFaults = 0
SPECIFICATION FarmFairSpec
PROPERTIES
    LateResultSuperseded
