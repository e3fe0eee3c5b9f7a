SPECIFICATION MCSpec
CONSTANTS
    Parts = {"resent", "beside", "outbox", "reclaim", "blocked", "linkers", "amendments", "validation"}
    JClient = {"c1", "c2"}
    JRequest = {"r1", "r2"}
    JTask = {"t1", "t2"}
    JResent <- MCResent
    JBeside <- MCBeside
    JKind <- MCKind
    JTaskOf <- MCTaskOf
    JMaxInstance = 2
    NSession = {"s1", "s2"}
    NTask = {"t1"}
    NUnrouted = "none"
    NLimit = 2
    NMaxEvents = 4
    WOrder <- MCOrder
    WVerifier = "v"
    WSweeper = {"operator"}
    WMaxItems <- MCMaxItems
    WExternal = TRUE
    WMaxArchives = 1
    WMaxVersion = 1
    BRoute = {"resume", "extract", "repair", "local", "localExtract"}
    BMaxActions = 1
    BMaxAttempt = 3
    BMaxContent = 2
    LWorktree = {"a", "b"}
    LOrder <- MCLinkers
    CCall = {"a", "b"}
    CFixed = {"f"}
    CExact = "x"
    CLegacy = "x*"
    CRival = {{"x"}, {"x*"}}
    CMaxRevision = 4
    CMaxVersion = 2
    VRequest = {"a", "b"}
    VWrites <- MCWrites
    VCommands <- MCCommands
    VMaxRevision = 2
    VMaxSource = 2
    VMaxCrashes = 1
INVARIANTS TypeOK AnswersTrue 
PROPERTIES JournalAtMostOnce LateStepsAreFenced NobodyUntold
CHECK_DEADLOCK FALSE
