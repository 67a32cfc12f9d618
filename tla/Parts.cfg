\* The parts beside the queues: caller commands on the local coordinator, signed
\* updates, device proofs, transfers, second-factor setup, meshes and sounds; one task of the
\* queue and the slots of one worker statement by statement; and one node of the queue
\* between two jobs.
SPECIFICATION PartsSpec
CONSTANTS
    None = None
    Parts = {"submit", "review", "update", "proof", "transfer", "mfa", "mesh", "sound",
             "locks", "slots", "crowd"}
    LocalLoops <- Loops
    LocalViews = {"front", "back"}
    LocalAttempts = 2
    Commands = {"one", "two"}
    MaxPlans = 3
    Manifests <- Releases
    Environments = {"old", "new"}
    Proofs = {p1, p2}
    Tolerance = 1
    Retention = 3
    MaxWait = 1
    MaxSkew = 1
    MaxNow = 6
    Objects <- Fetched
    LocalFile <- LongLocal
    MaxFactors = 3
    MeshEngines = {"triposr", "sf3d"}
    Notes = {noteA, noteB}
    Unfit = unfit
    Refused = refused
    Vocabulary <- Terms
    Directions <- Cards
    Hints <- Words
    Connections = {q1, q2}
    LockAttempts = 2
    TaskSlots <- WorkerTasks
    Daemons = {"d1", "d2"}
INVARIANTS
    RetrySamePlan
    ReadyApprovable
    UpdateCovered
    ProofOnce
    TransferExact
    SecretPaired
    TurnedOnce
    AcceptedCompiles
    ResultsOnRecord
    SlotShared
PROPERTIES
    LocalOutcome
    NodeEntitled
CHECK_DEADLOCK FALSE
