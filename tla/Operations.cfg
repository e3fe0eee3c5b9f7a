SPECIFICATION MCSpec
CONSTANTS
    Parts = {"handoff", "replays", "upgrade", "quota", "admission", "evidence", "workers", "verifier", "readiness", "retries", "resumes", "siblings", "routing"}
    HRequest = {"r1", "r2"}
    HNode <- MCHNode
    HTarget <- MCHTarget
    HMaxAttempt <- MCHMaxAttempt
    HMaxAncestor <- MCHMaxAncestor
    HMaxSource <- MCHMaxSource
    HDisturbance <- MCHDisturbance
    HAmendments <- MCHAmendments
    UProcess = {"a", "b"}
    UVersion = {1, 2}
    UContent = {"x", "y"}
    UMaxUpgrades = 2
    QSlow = {"old"}
    QMaxClock = 3
    QMaxRows = 3
    QTtl = 1
    QWindow = {0, 3}
    AOrder <- MCAOrder
    ATaskOf <- MCATaskOf
    ADependsOn <- MCADependsOn
    ASerial = {"c"}
    AReads <- MCAReads
    AWrites <- MCAWrites
    AProvider <- MCAProvider
    AUnits <- MCAUnits
    ABrief = {"c"}
    AUnbound = {}
    ASparkWorkers = 1
    AMaxWorkers = 2
    AMaxAttempt <- MCAMaxAttempt
    AMaxObserved = 1
    DNode = {"v1", "v2", "m", "k"}
    DKind <- MCDKind
    DRetryLimit = 1
    DMaxAttempt = 3
    DMaxInput = 2
    DLossy = TRUE
    ERequirements <- MCERequirements
    ENeedsLinker = TRUE
    ETotal = 4
    EProbe = 4
    EMaxSlow = 1
    TOrder <- MCTOrder
    TFamily <- MCTFamily
    TExact = {"sol"}
    TCatalogs <- MCTCatalogs
    TEvidences <- MCTEvidences
    TQuotas <- MCTQuotas
    TContracts <- MCTContracts
    TWorks <- MCTWorks
    TBusy <- MCTBusy
    TSlots = 4
INVARIANTS TypeOK Exclusive NothingStale
PROPERTIES StepsSound RepairsSound
CHECK_DEADLOCK FALSE
