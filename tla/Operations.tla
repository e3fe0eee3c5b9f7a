----------------------------- MODULE Operations -----------------------------
(***************************************************************************)
(* What goes on around the ledger, side by side: the operations an         *)
(* operator starts, the models a submission chooses, the admission of       *)
(* claims and the attempt of a worker thread.  Init chooses the part that moves, the variables of the others  *)
(* stay as they start.  The constants and the variables of a part begin    *)
(* with its letter.                                                        *)
(***************************************************************************)
EXTENDS Integers, Sequences

CONSTANTS
    Parts,
    HRequest, HNode, HTarget, HMaxAttempt, HMaxAncestor, HMaxSource, HDisturbance, HAmendments,
    UProcess, UVersion, UContent, UMaxUpgrades,
    QSlow, QMaxClock, QMaxRows, QTtl, QWindow,
    AOrder, ATaskOf, ADependsOn, ASerial, AReads, AWrites, AProvider, AUnits, ABrief, AUnbound,
    ASparkWorkers, AMaxWorkers, AMaxAttempt, AMaxObserved,
    DNode, DKind, DRetryLimit, DMaxAttempt, DMaxInput, DLossy,
    ERequirements, ENeedsLinker, ETotal, EProbe, EMaxSlow,
    TOrder, TFamily, TExact, TCatalogs, TEvidences, TQuotas, TContracts, TWorks, TBusy, TSlots

VARIABLES
    part,
    hTask, hNode, hAncestor, hBusy, hFenced, hHand, hLog, hRun, hAmended,
    uOrigin, uSource, uInstalled, uCache, uPending, uResidue, uRetained, uReceipts, uLock, uCall,
    qClock, qHand, qRows,
    aNode, aWait, aDeferred, aFell, aQuota, aObserved, aFutures, aRouted, aTurn,
    dNode, dRun, dCache,
    eClock, eTodo, eReport, eProbes,
    tContract, tCatalog, tEvidence, tQuota, tFresh, tFamilies, tAt, tNode, tCall, tRoutes

handoffs == <<hTask, hNode, hAncestor, hBusy, hFenced, hHand, hLog, hRun, hAmended>>
upgrades == <<uOrigin, uSource, uInstalled, uCache, uPending, uResidue, uRetained, uReceipts, uLock, uCall>>
quotas == <<qClock, qHand, qRows>>
claims == <<aNode, aWait, aDeferred, aFell, aQuota, aObserved, aFutures, aRouted, aTurn>>
attempts == <<dNode, dRun, dCache>>
assessments == <<eClock, eTodo, eReport, eProbes>>
submissions == <<tContract, tCatalog, tEvidence, tQuota, tFresh, tFamilies, tAt, tNode, tCall, tRoutes>>
vars == <<part, handoffs, upgrades, quotas, claims, attempts, assessments, submissions>>

\* Siblings that compete for the lease of the repository.
Handoff == INSTANCE LockfileHandoff WITH
    Request <- HRequest, Node <- HNode["handoff"], Target <- HTarget["handoff"],
    MaxAttempt <- HMaxAttempt["handoff"], MaxAncestor <- HMaxAncestor["handoff"],
    MaxSource <- HMaxSource["handoff"], Disturbance <- HDisturbance["handoff"],
    Amendments <- HAmendments["handoff"],
    task <- hTask, node <- hNode, ancestor <- hAncestor, busy <- hBusy, fenced <- hFenced,
    hand <- hHand, log <- hLog, run <- hRun, amended <- hAmended

\* Workers that are given overlays, between refreshed ancestors and amendments.
Replays == INSTANCE LockfileHandoff WITH
    Request <- HRequest, Node <- HNode["replays"], Target <- HTarget["replays"],
    MaxAttempt <- HMaxAttempt["replays"], MaxAncestor <- HMaxAncestor["replays"],
    MaxSource <- HMaxSource["replays"], Disturbance <- HDisturbance["replays"],
    Amendments <- HAmendments["replays"],
    task <- hTask, node <- hNode, ancestor <- hAncestor, busy <- hBusy, fenced <- hFenced,
    hand <- hHand, log <- hLog, run <- hRun, amended <- hAmended

Upgrade == INSTANCE PluginCacheUpgrade WITH
    Process <- UProcess, Version <- UVersion, Content <- UContent, MaxUpgrades <- UMaxUpgrades,
    origin <- uOrigin, source <- uSource, installed <- uInstalled, cache <- uCache,
    pending <- uPending, residue <- uResidue, retained <- uRetained, receipts <- uReceipts,
    lock <- uLock, call <- uCall

Quota == INSTANCE QuotaLedger WITH
    Slow <- QSlow, MaxClock <- QMaxClock, MaxRows <- QMaxRows, Ttl <- QTtl, Window <- QWindow,
    clock <- qClock, hand <- qHand, rows <- qRows

Admits == INSTANCE Admission WITH
    Order <- AOrder, TaskOf <- ATaskOf, DependsOn <- ADependsOn, Serial <- ASerial,
    Reads <- AReads, Writes <- AWrites, Provider <- AProvider, Units <- AUnits,
    Brief <- ABrief, Unbound <- AUnbound, SparkWorkers <- ASparkWorkers,
    MaxWorkers <- AMaxWorkers, MaxAttempt <- AMaxAttempt, MaxObserved <- AMaxObserved,
    node <- aNode, wait <- aWait, deferred <- aDeferred, fell <- aFell, quota <- aQuota,
    observed <- aObserved, futures <- aFutures, routed <- aRouted, turn <- aTurn

\* The attempts of verifiers, of workers and of commands that check.
Attempts == INSTANCE Dispatch WITH
    Node <- DNode, Kind <- DKind, RetryLimit <- DRetryLimit, MaxAttempt <- DMaxAttempt,
    MaxInput <- DMaxInput, Lossy <- DLossy,
    node <- dNode, run <- dRun, cache <- dCache

Readiness == INSTANCE ExecutionReadiness WITH
    Requirements <- ERequirements, NeedsLinker <- ENeedsLinker,
    Total <- ETotal, Probe <- EProbe, MaxSlow <- EMaxSlow,
    clock <- eClock, todo <- eTodo, report <- eReport, probes <- eProbes

Routes == INSTANCE Routing WITH
    Order <- TOrder, Family <- TFamily, Exact <- TExact, Catalogs <- TCatalogs,
    Evidences <- TEvidences, Quotas <- TQuotas, Contracts <- TContracts, Works <- TWorks,
    Busy <- TBusy, Slots <- TSlots,
    contract <- tContract, catalog <- tCatalog, evidence <- tEvidence, quota <- tQuota,
    fresh <- tFresh, families <- tFamilies, at <- tAt, node <- tNode, call <- tCall, routes <- tRoutes

\* The attempts are looked at three times.
Attempted == {"evidence", "workers", "verifier"}

ASSUME OperationsAssumption ==
    /\ Handoff!HandoffAssumption /\ Replays!HandoffAssumption /\ Upgrade!UpgradeAssumption
    /\ Quota!QuotaAssumption /\ Admits!AdmissionAssumption /\ Attempts!DispatchAssumption
    /\ Readiness!ReadinessAssumption /\ Routes!RoutingAssumption

Init ==
    /\ part \in Parts
    /\ IF part = "replays" THEN Replays!Init ELSE Handoff!Init
    /\ Upgrade!Init /\ Quota!Init /\ Admits!Init /\ Attempts!Init /\ Readiness!Init
    /\ Routes!Init

Next ==
    \/ /\ (part = "handoff" /\ Handoff!Next) \/ (part = "replays" /\ Replays!Next)
       /\ UNCHANGED <<part, upgrades, quotas, claims, attempts, assessments, submissions>>
    \/ /\ part = "upgrade" /\ Upgrade!Next
       /\ UNCHANGED <<part, handoffs, quotas, claims, attempts, assessments, submissions>>
    \/ /\ part = "quota" /\ Quota!Next
       /\ UNCHANGED <<part, handoffs, upgrades, claims, attempts, assessments, submissions>>
    \/ /\ part = "admission" /\ Admits!Next
       /\ UNCHANGED <<part, handoffs, upgrades, quotas, attempts, assessments, submissions>>
    \/ /\ part \in Attempted /\ Attempts!Next
       /\ UNCHANGED <<part, handoffs, upgrades, quotas, claims, assessments, submissions>>
    \/ /\ part = "readiness" /\ Readiness!Next
       /\ UNCHANGED <<part, handoffs, upgrades, quotas, claims, attempts, submissions>>
    \/ /\ part = "routing" /\ Routes!Next
       /\ UNCHANGED <<part, handoffs, upgrades, quotas, claims, attempts, assessments>>

Spec == Init /\ [][Next]_vars

TypeOK ==
    /\ part = "handoff" => Handoff!TypeOK
    /\ part = "replays" => Replays!TypeOK
    /\ part = "upgrade" => Upgrade!TypeOK
    /\ part = "quota" => Quota!TypeOK
    /\ part = "admission" => Admits!TypeOK
    /\ part \in Attempted => Attempts!TypeOK
    /\ part = "readiness" => Readiness!TypeOK
    /\ part = "routing" => Routes!TypeOK

\* Who works beside whom: one lease or the workers, scopes, the capacity of Claude, and an
\* attempt beside what an earlier one of its node left at work.
Exclusive ==
    /\ part = "handoff" => Handoff!LeaseExclusive
    /\ part = "replays" => Replays!LeaseExclusive
    /\ part = "admission" => Admits!AdmissionSafe
    /\ part \in Attempted => Attempts!KnownEnd

\* What the current tool, the current subscription, evidence for these inputs, a worktree that
\* is ready and a model that may be chosen are said to be, they are.
NothingStale ==
    /\ part = "upgrade" => Upgrade!CacheConsistent
    /\ part = "quota" => Quota!AdmissionCurrent
    /\ part \in Attempted => Attempts!EvidenceSound
    /\ part = "readiness" => Readiness!ReadinessHonest
    /\ part = "routing" => Routes!RoutesHonest

\* A lease that was released stays released, a version in use stays, a refusal stays until
\* something newer is known; what a claim leaves waiting has something to wait for, what an
\* attempt ends as is what it did, and Claude is admitted while what was observed counts.
StepsSound ==
    [][/\ part = "handoff" => Handoff!KeepsFence
       /\ part = "replays" => Replays!KeepsFence
       /\ part = "upgrade" => Upgrade!KeepsVersions
       /\ part = "quota" => Quota!KeepsRefusal
       /\ part = "admission" => Admits!ClaimsSound
       /\ part \in Attempted => Attempts!EndsClear
       /\ part = "routing" => Routes!OnlyCurrentAdmits]_vars
=============================================================================
