CONSTANTS
    None = None
    Users = {"a", "m"}
    Sessions <- TwoSessions
    SessionOf <- WhoseSession
    Strong = {"boss-mfa"}
    Keys = {"k"}
    PublicKeys = {"pk"}
    Grants = {"release-manager"}
    GrantLists <- OneList
    Handlers = {"h1", "h2"}
    MaxPending = 5
    MaxCalls = 6
    Files = {"mesh", "log"}
    MaxTurns = 2
    MaxRetries = 1
SPECIFICATION GatewaySpec
INVARIANTS
    GatewayTypeOK
    NodeFollowsDecision
    TransferAuthorised
    CommitBacked
PROPERTIES
    RevocationSettles
    CommitImmutable
CHECK_DEADLOCK FALSE
