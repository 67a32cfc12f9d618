CONSTANTS
    None = None
    Jobs = {"j"}
    Tasks = {"proc"}
    Nodes = {"n"}
    Members = {"m"}
    ControlJobs = {"j"}
    ParentJob <- NoParentJob
    Plan <- SinglePlan
    Results <- PassResults
    EngineSets <- OneEngineSet
    Reports <- OneReport
    Suspendable = {}
    MaxAttempts = 3
    MinLease = 1
    MaxLease = 2
    LeaseRequests = {0, 5}
    Targets = {None}
    HeartbeatLimit = 0
    Backoff <- OneTick
    RivalLocks <- NoRivals
    ClaimPauses = {0, 1}
SPECIFICATION FairSpec
INVARIANTS
    TypeOK
    SingleCommit
    AttemptLedger
PROPERTIES
    EveryTaskSettles
