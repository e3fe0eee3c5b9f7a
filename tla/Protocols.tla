----------------------------- MODULE Protocols -----------------------------
(***************************************************************************)
(* The protocols that do not interact, side by side: Init chooses the part *)
(* that moves, the variables of the others stay as they start.  The        *)
(* constants and the variables of a part begin with its letter.            *)
(***************************************************************************)
EXTENDS Naturals, Sequences

CONSTANTS
    Parts,
    JClient, JRequest, JTask, JResent, JBeside, JKind, JTaskOf, JMaxInstance,
    NSession, NTask, NUnrouted, NLimit, NMaxEvents,
    WOrder, WVerifier, WSweeper, WMaxItems, WExternal, WMaxArchives, WMaxVersion,
    BRoute, BMaxActions, BMaxAttempt, BMaxContent,
    LWorktree, LOrder,
    CCall, CFixed, CExact, CLegacy, CRival, CMaxRevision, CMaxVersion,
    VRequest, VWrites, VCommands, VMaxRevision, VMaxSource, VMaxCrashes

VARIABLES
    part,
    jRow, jEffects, jActive, jService, jThread, jClient, jSent,
    nLog, nCursor, nRoutes, nOutbox,
    wTask, wRow, wHeld, wPlace, wVersion, wArchives, wSweep,
    bTask, bNode, bAlloc, bFiles, bApproval, bValidating, bSpent, bOp, bPrep,
    lTree, lCut, lTemplate, lResidue, lLock, lStore, lCall,
    cTask, cD, cE, cRival, cFiles, cValidating, cCall,
    vTask, vSource, vRow, vRun, vOrphan, vCrashes

journal == <<jRow, jEffects, jActive, jService, jThread, jClient, jSent>>
outbox == <<nLog, nCursor, nRoutes, nOutbox>>
reclaim == <<wTask, wRow, wHeld, wPlace, wVersion, wArchives, wSweep>>
blocked == <<bTask, bNode, bAlloc, bFiles, bApproval, bValidating, bSpent, bOp, bPrep>>
linkers == <<lTree, lCut, lTemplate, lResidue, lLock, lStore, lCall>>
contracts == <<cTask, cD, cE, cRival, cFiles, cValidating, cCall>>
validation == <<vTask, vSource, vRow, vRun, vOrphan, vCrashes>>
vars == <<part, journal, outbox, reclaim, blocked, linkers, contracts, validation>>

Resent == INSTANCE RequestJournal WITH
    Client <- JClient, Request <- JRequest, Task <- JTask, Call <- JResent,
    Kind <- JKind, TaskOf <- JTaskOf, MaxInstance <- JMaxInstance,
    row <- jRow, effects <- jEffects, active <- jActive, service <- jService,
    thread <- jThread, client <- jClient, sent <- jSent

\* The same journal with other calls.
Beside == INSTANCE RequestJournal WITH
    Client <- JClient, Request <- JRequest, Task <- JTask, Call <- JBeside,
    Kind <- JKind, TaskOf <- JTaskOf, MaxInstance <- JMaxInstance,
    row <- jRow, effects <- jEffects, active <- jActive, service <- jService,
    thread <- jThread, client <- jClient, sent <- jSent

Outbox == INSTANCE SessionNotifications WITH
    Session <- NSession, Task <- NTask, Unrouted <- NUnrouted, Limit <- NLimit, MaxEvents <- NMaxEvents,
    log <- nLog, cursor <- nCursor, routes <- nRoutes, outbox <- nOutbox

Reclaim == INSTANCE WorktreeReclamation WITH
    Order <- WOrder, Verifier <- WVerifier, Sweeper <- WSweeper, MaxItems <- WMaxItems,
    External <- WExternal, MaxArchives <- WMaxArchives, MaxVersion <- WMaxVersion,
    task <- wTask, row <- wRow, held <- wHeld, place <- wPlace, version <- wVersion,
    archives <- wArchives, sweep <- wSweep

Blocked == INSTANCE BlockedRecovery WITH
    Route <- BRoute, MaxActions <- BMaxActions, MaxAttempt <- BMaxAttempt, MaxContent <- BMaxContent,
    task <- bTask, node <- bNode, alloc <- bAlloc, files <- bFiles, approval <- bApproval,
    validating <- bValidating, spent <- bSpent, op <- bOp, prep <- bPrep

Linkers == INSTANCE LinkerTemplates WITH
    Worktree <- LWorktree, Order <- LOrder,
    tree <- lTree, cut <- lCut, template <- lTemplate, residue <- lResidue,
    lock <- lLock, store <- lStore, call <- lCall

Amendments == INSTANCE ContractAmendments WITH
    Call <- CCall, Fixed <- CFixed, Exact <- CExact, Legacy <- CLegacy, Rival <- CRival,
    MaxRevision <- CMaxRevision, MaxVersion <- CMaxVersion,
    task <- cTask, d <- cD, e <- cE, rival <- cRival, files <- cFiles,
    validating <- cValidating, call <- cCall

Validation == INSTANCE ControlledValidation WITH
    Request <- VRequest, Writes <- VWrites, Commands <- VCommands,
    MaxRevision <- VMaxRevision, MaxSource <- VMaxSource, MaxCrashes <- VMaxCrashes,
    task <- vTask, source <- vSource, row <- vRow, run <- vRun, orphan <- vOrphan, crashes <- vCrashes

ASSUME ProtocolsAssumption ==
    /\ Parts \subseteq {"resent", "beside", "outbox", "reclaim", "blocked", "linkers", "amendments", "validation"}
    /\ Resent!RequestAssumption /\ Beside!RequestAssumption /\ Outbox!OutboxAssumption
    /\ Reclaim!ReclamationAssumption /\ Blocked!RecoveryAssumption /\ Linkers!LinkersAssumption
    /\ Amendments!AmendmentsAssumption /\ Validation!ValidationAssumption

Init ==
    /\ part \in Parts
    /\ IF part = "beside" THEN Beside!Init ELSE Resent!Init
    /\ Outbox!Init /\ Reclaim!Init /\ Blocked!Init /\ Linkers!Init /\ Amendments!Init /\ Validation!Init

Next ==
    \/ /\ (part = "resent" /\ Resent!Next) \/ (part = "beside" /\ Beside!Next)
       /\ UNCHANGED <<part, outbox, reclaim, blocked, linkers, contracts, validation>>
    \/ /\ part = "outbox" /\ Outbox!Next
       /\ UNCHANGED <<part, journal, reclaim, blocked, linkers, contracts, validation>>
    \/ /\ part = "reclaim" /\ Reclaim!Next
       /\ UNCHANGED <<part, journal, outbox, blocked, linkers, contracts, validation>>
    \/ /\ part = "blocked" /\ Blocked!Next
       /\ UNCHANGED <<part, journal, outbox, reclaim, linkers, contracts, validation>>
    \/ /\ part = "linkers" /\ Linkers!Next
       /\ UNCHANGED <<part, journal, outbox, reclaim, blocked, contracts, validation>>
    \/ /\ part = "amendments" /\ Amendments!Next
       /\ UNCHANGED <<part, journal, outbox, reclaim, blocked, linkers, validation>>
    \/ /\ part = "validation" /\ Validation!Next
       /\ UNCHANGED <<part, journal, outbox, reclaim, blocked, linkers, contracts>>

\* The control turn of the service projects again and again.
Fairness == WF_outbox(part = "outbox" /\ Outbox!Project)

Spec == Init /\ [][Next]_vars /\ Fairness

TypeOK ==
    /\ part = "resent" => Resent!TypeOK
    /\ part = "beside" => Beside!TypeOK
    /\ part = "outbox" => Outbox!TypeOK
    /\ part = "reclaim" => Reclaim!TypeOK
    /\ part = "blocked" => Blocked!TypeOK
    /\ part = "linkers" => Linkers!TypeOK
    /\ part = "amendments" => Amendments!TypeOK
    /\ part = "validation" => Validation!TypeOK
JournalAtMostOnce == Resent!JournalAtMostOnce
\* What a host was told, what an amendment said it wrote, and that a check passed, is so.
AnswersTrue ==
    /\ part = "resent" => Resent!AnswersTrue
    /\ part = "beside" => Beside!AnswersTrue
    /\ part = "amendments" => Amendments!AmendmentsKept
    /\ part = "validation" => Validation!ValidationHonest
NobodyUntold == Outbox!NobodyUntold

\* No work in a directory is lost: what is removed was archived, what a delivery or a
\* recovery counts on is left alone, a copy is whole unless it was cut short.
FilesAreKept ==
    /\ part = "reclaim" => Reclaim!RemovedIsArchived /\ Reclaim!DeliveryKeepsFiles
    /\ part = "blocked" => Blocked!WorkIsHeld
    /\ part = "linkers" => Linkers!WholeUnlessCut

\* What was decided on an earlier reading does not happen on a later state: no mutation is
\* admitted after the drain, no target is assigned that is not the preview's, no contract is
\* written over what it was not computed from, no check passes beside a recovery.
LateStepsAreFenced ==
    [][/\ part = "resent" => Resent!QuietAfterDrain
       /\ part = "beside" => Beside!QuietAfterDrain
       /\ part = "blocked" => Blocked!AssignsPreview
       /\ part = "amendments" => Amendments!AmendmentsFenced
       /\ part = "validation" => Validation!ValidationFenced]_vars

CrashedAttemptRecoverable == Blocked!CrashedAttemptRecoverable
============================================================================
