CONSTANTS
    None = None
    Jobs = {"j", "x"}
    Tasks = {"recon1", "proc1", "view1", "recon2", "alien"}
    Nodes = {}
    Members = {"m"}
    ControlJobs = {"j", "x"}
    ParentJob <- NoParentJob
    Plan <- DagPlan
    Results <- DagResults
    EngineSets <- OneEngineSet
    Reports <- DagReport
    Suspendable = {}
    MaxAttempts = 1
    MinLease = 1
    MaxLease = 2
    LeaseRequests = {1}
    Targets = {None}
    HeartbeatLimit = 0
    Backoff <- OneTick
    RivalLocks <- NoRivals
    ClaimPauses = {0}
SPECIFICATION FarmsFairSpec
INVARIANTS
    ParentFirst
    ClosedJobsQuiet
    
    FailedForCause
PROPERTIES
    ResultStable
    OutcomeRefined
    OutboxInOrder
