----------------------------- MODULE TaskLedger -----------------------------
(***************************************************************************)
(* The SQLite ledger of ONE Workbench task (store.py, WorkbenchStore) and   *)
(* everyone who writes to it: the coordinator's claim loop, the worker      *)
(* threads that run claimed attempts, the restart recovery of the next      *)
(* coordinator, and the operator's control calls (API, MCP, CLI).           *)
(*                                                                         *)
(* Every store method is one BEGIN IMMEDIATE transaction, so every method   *)
(* is one action.  What is NOT atomic is what the code does between two     *)
(* transactions: a worker prepares a worktree directory, commits the        *)
(* assignment, runs an executor for minutes and only then settles, while    *)
(* the operator pauses, the process dies, or a later coordinator starts.    *)
(*                                                                         *)
(* A worktree path and its allocation row are both determined by the node   *)
(* and the attempt number (worktrees.py, worktree_path and branch_name), so *)
(* both are the pair <<node, attempt>>; 0 stands for a NULL worktree.       *)
(***************************************************************************)
EXTENDS Integers, FiniteSets

CONSTANTS
    Worker,       \* the worker nodes of the task graph
    Verifier,     \* its one verifier node
    DependsOn,    \* DependsOn[n]: the nodes whose results n needs
    RetryLimit,   \* the contract's retry_limit
    MaxAttempt,   \* bound: attempts of one node
    MaxEpoch,     \* bound: coordinator activations
    MaxRev        \* bound: the operator stops acting at this task revision

Node == Worker \cup {Verifier}

\* create_task admits only acyclic graphs with one verifier that depends on
\* every worker; that no worker depends on itself is all the proofs need.
ASSUME GraphAssumption ==
    /\ Verifier \notin Worker
    /\ DependsOn \in [Node -> SUBSET Node]
    /\ DependsOn[Verifier] = Worker
    /\ \A w \in Worker : DependsOn[w] \subseteq Worker \ {w}

ASSUME BoundAssumption ==
    /\ RetryLimit \in Nat
    /\ MaxAttempt \in Nat
    /\ MaxEpoch \in Nat
    /\ MaxRev \in Nat

VARIABLES
    phase,      \* what the coordinator process is doing
    epoch,      \* metadata.coordinator_epoch
    leases,     \* metadata.node_lease_epoch, the last lease handed out
    replay,     \* orphan receipts the starting coordinator still has to replay
    task,       \* the task row: state and state_revision
    node,       \* the node rows
    allocated,  \* the rows of worktree_allocations
    active,     \* those of them in state 'active' (the others are superseded)
    asked,      \* the indeterminate_resolution approvals ever requested
    open,       \* those of them without a decision
    claims,     \* the attempts a worker thread, or its executor, still runs
    orphans,    \* orphan_cleanup_pending receipts without orphan_resolved
    disk        \* the worktree directories that exist

process == <<phase, epoch, leases, replay>>
rows    == <<task, node>>
trees   == <<allocated, active>>
approvals == <<asked, open>>
files   == <<orphans, disk>>
vars    == <<process, rows, trees, approvals, claims, files>>

-----------------------------------------------------------------------------
(* Rows and the small values they hold.                                     *)

Phases == {"down", "activated", "recovering", "replaying", "serving"}

TaskStates == {"inbox", "queued", "running", "verifying", "needs_fix",
               "needs_approval", "blocked", "paused", "accepted", "cancelled"}

NodeStates == {"pending", "running", "accepted", "failed", "blocked",
               "indeterminate", "cancelled"}

\* "outside" is a failed or blocked result that reports changes outside the
\* scopes, which no retry may pick up again.
Results == {"none", "succeeded", "failed", "blocked", "outside", "indeterminate"}

\* recovery_json: nothing, a failed attempt still to be captured, a captured one
\* already assigned to its retry, or an accepted attempt to be repaired.
BindKinds == {"none", "capture_pending", "assigned", "repair"}

Binds == [kind : BindKinds, source : Nat, result : Results]

NoBind == [kind |-> "none", source |-> 0, result |-> "none"]

NodeRows == [state : NodeStates, attempt : Nat, epoch : Nat, lease : Nat,
             worktree : Nat, result : Results, bind : Binds]

Claims == [node : Node, attempt : Nat, epoch : Nat, lease : Nat,
           step : {"claimed", "prepared", "assigned"}]

NewRow == [state |-> "pending", attempt |-> 0, epoch |-> 0, lease |-> 0,
           worktree |-> 0, result |-> "none", bind |-> NoBind]

Init ==
    /\ phase = "down" /\ epoch = 0 /\ leases = 0 /\ replay = {}
    /\ task = [state |-> "inbox", rev |-> 1]
    /\ node = [n \in Node |-> NewRow]
    /\ allocated = {} /\ active = {}
    /\ asked = {} /\ open = {}
    /\ claims = {}
    /\ orphans = {} /\ disk = {}

Path(n) == <<n, node[n].attempt>>

ControlledMutant == task.state = "paused"

\* An operator's pause or cancellation, which a settlement must not undo.
Controlled == task.state \in {"paused", "cancelled"}

At(s) == [state |-> s, rev |-> task.rev + 1]

SetTask(s) == task' = At(s)

\* The end of settle_node: the row is written when its state changes, or when a
\* blocker or a verdict is recorded with it.
SettledTask(s, noted) ==
    IF Controlled \/ (s = task.state /\ ~noted) THEN task ELSE At(s)

RequeuedMutant(row, bind) ==
    [row EXCEPT !.state = "pending", !.result = "none", !.bind = bind,
                !.epoch = 0, !.lease = 0]

\* A node row back in the queue, all it held of its last attempt cleared.
Requeued(row, bind) ==
    [row EXCEPT !.state = "pending", !.worktree = 0, !.result = "none",
                !.bind = bind, !.epoch = 0, !.lease = 0]

CaptureOf(n, r) == [kind |-> "capture_pending", source |-> node[n].attempt, result |-> r]

RepairOfMutant(n) ==
    [kind |-> "repair", source |-> node[n].attempt + 1, result |-> node[n].result]

RepairOf(n) == [kind |-> "repair", source |-> node[n].attempt, result |-> node[n].result]

\* A binding whose target worktree has not been assigned yet.
Unassigned(n) ==
    \/ node[n].bind.kind = "capture_pending"
    \/ node[n].bind.kind = "repair" /\ node[n].worktree = 0

\* INSERT OR IGNORE: the approval's identity is the node and the attempt.
RequestApproval(p) ==
    /\ asked' = asked \cup {p}
    /\ open' = IF p \in asked THEN open ELSE open \cup {p}

-----------------------------------------------------------------------------
(* The coordinator process: activation, restart recovery, claims.           *)

\* The process stops, and drains its worker threads before it gives up the file
\* lock, or it dies.  The last activation MaxEpoch allows is one that never stops.
Stop ==
    /\ phase \in {"activated", "replaying", "serving"}
    /\ epoch < MaxEpoch
    /\ phase' = "down"
    /\ replay' = {}
    /\ UNCHANGED <<epoch, leases, rows, trees, approvals, claims, files>>

\* serve: the file lock is free, so this process becomes the coordinator.  Threads
\* that had not drained died with the old process; executors may have outlived it.
ActivateCoordinator ==
    /\ phase = "down"
    /\ epoch < MaxEpoch
    /\ epoch' = epoch + 1
    /\ phase' = "activated"
    /\ claims' = {c \in claims : c.step = "assigned"}
    /\ UNCHANGED <<leases, replay, rows, trees, approvals, files>>

\* recover_interrupted_with_orphans is one transaction over every running row,
\* in no stated order.  It is taken row by row: nothing else can write while it
\* lasts, and a crash inside it is a crash before it.
BeginRecovery ==
    /\ phase = "activated"
    /\ phase' = "recovering"
    /\ UNCHANGED <<epoch, leases, replay, rows, trees, approvals, claims, files>>

Running == {n \in Node : node[n].state = "running"}

EndRecoveryMutant ==
    /\ phase = "recovering"
    /\ phase' = "replaying"
    /\ replay' = orphans
    /\ UNCHANGED <<epoch, leases, rows, trees, approvals, claims, files>>

EndRecovery ==
    /\ phase = "recovering"
    /\ Running = {}
    /\ phase' = "replaying"
    /\ replay' = orphans
    /\ UNCHANGED <<epoch, leases, rows, trees, approvals, claims, files>>

\* One orphan receipt.  The target is gone, or it is archived, or archiving fails
\* and the receipt is left for the next restart.
ReplayOrphan(p) ==
    /\ phase = "replaying"
    /\ p \in replay
    /\ replay' = replay \ {p}
    /\ \/ /\ orphans' = orphans \ {p}
          /\ disk' = disk \ {p}
       \/ /\ p \in disk
          /\ UNCHANGED files
    /\ UNCHANGED <<phase, epoch, leases, rows, trees, approvals, claims>>

Serve ==
    /\ phase = "replaying"
    /\ replay = {}
    /\ phase' = "serving"
    /\ UNCHANGED <<epoch, leases, replay, rows, trees, approvals, claims, files>>

\* The tasks whose pending nodes claim_ready_node selects from.
Claimable ==
    \/ task.state \in {"queued", "running", "verifying", "needs_fix"}
    \/ /\ task.state = "blocked"
       /\ \E m \in Node : node[m].state = "blocked"
       /\ \A m \in Node : node[m].state # "indeterminate"

DependenciesAcceptedMutant(n) ==
    \A m \in DependsOn[n] : node[m].state \notin {"pending", "running"}

DependenciesAccepted(n) == \A m \in DependsOn[n] : node[m].state = "accepted"

\* The binding parsers raise on any other source, and a raise fails the claim of
\* every node, not only of this one.
BindClaimable(n) ==
    CASE node[n].bind.kind = "capture_pending" -> node[n].bind.source = node[n].attempt
      [] node[n].bind.kind = "repair"          -> node[n].bind.source <= node[n].attempt
      [] OTHER                                 -> TRUE

NextLeaseEpochMutant ==
    LET held == {node[n].lease : n \in Node}
    IN  1 + (CHOOSE l \in held : \A k \in held : k <= l)

\* _next_lease_epoch: the counter in metadata, never one of a row.
NextLeaseEpoch == leases + 1

ClaimReadyNode(n) ==
    /\ phase = "serving"
    /\ node[n].attempt < MaxAttempt
    /\ node[n].state = "pending"
    /\ Claimable
    /\ DependenciesAccepted(n)
    /\ BindClaimable(n)
    /\ leases' = NextLeaseEpoch
    /\ node' = [node EXCEPT ![n] = [@ EXCEPT !.state = "running",
                                             !.attempt = node[n].attempt + 1,
                                             !.epoch = epoch,
                                             !.lease = NextLeaseEpoch]]
    /\ IF task.state \in {"queued", "needs_fix"} THEN SetTask("running")
                                                 ELSE UNCHANGED task
    /\ claims' = claims \cup {[node |-> n, attempt |-> node[n].attempt + 1,
                               epoch |-> epoch, lease |-> NextLeaseEpoch,
                               step |-> "claimed"]}
    /\ UNCHANGED <<phase, epoch, replay, trees, approvals, files>>

-----------------------------------------------------------------------------
(* A worker: prepare a directory, commit the assignment, run, settle.       *)

\* What every store call of a worker re-checks inside its transaction.
Fence(c) ==
    /\ c.epoch = epoch
    /\ node[c.node].state = "running"
    /\ node[c.node].attempt = c.attempt
    /\ node[c.node].epoch = c.epoch
    /\ node[c.node].lease = c.lease

Target(c) == <<c.node, c.attempt>>

Advance(c, s) == claims' = (claims \ {c}) \cup {[c EXCEPT !.step = s]}

\* WorktreeManager.prepare reuses the directory of this path, prepare_clean (for a
\* binding) archives it and makes a new one.  No store call, so no fence.
PrepareWorktree(c) ==
    /\ c.step = "claimed"
    /\ disk' = disk \cup {Target(c)}
    /\ Advance(c, "prepared")
    /\ UNCHANGED <<process, rows, trees, approvals, orphans>>

\* Commit the target as the node's worktree; a binding's source is superseded.
CommitTarget(c, bind) ==
    /\ node' = [node EXCEPT ![c.node] = [@ EXCEPT !.worktree = c.attempt, !.bind = bind]]
    /\ allocated' = allocated \cup {Target(c)}
    /\ LET source == <<c.node, node[c.node].bind.source>>
           added  == IF Target(c) \in allocated THEN {} ELSE {Target(c)}
       IN  active' = (active \ {source}) \cup added
    /\ Advance(c, "assigned")
    /\ UNCHANGED <<process, task, approvals, files>>

AssignPlain(c) ==
    /\ c.step = "prepared" /\ Fence(c)
    /\ node[c.node].bind.kind = "none"
    /\ CommitTarget(c, NoBind)

AssignAcceptedSourceRepair(c) ==
    /\ c.step = "prepared" /\ Fence(c)
    /\ node[c.node].bind.kind = "repair"
    /\ ~Controlled
    /\ node[c.node].worktree = 0
    /\ <<c.node, node[c.node].bind.source>> \in active
    /\ CommitTarget(c, NoBind)

\* A captured patch is kept in the binding; a clean source leaves none.
AssignFailedAttemptRecovery(c) ==
    /\ c.step = "prepared" /\ Fence(c)
    /\ node[c.node].bind.kind = "capture_pending"
    /\ node[c.node].worktree = 0
    /\ <<c.node, node[c.node].bind.source>> \in active
    /\ Target(c) \notin allocated
    /\ \E bind \in {NoBind, [node[c.node].bind EXCEPT !.kind = "assigned"]} :
          CommitTarget(c, bind)

\* settle_node on a node whose target is assigned (or never needed one): the row
\* and the task row are written together and the worker is done.
Settle(c, rowsAfter, taskAfter) ==
    /\ Fence(c)
    /\ ~Unassigned(c.node)
    /\ node' = rowsAfter
    /\ task' = taskAfter
    /\ claims' = claims \ {c}
    /\ UNCHANGED <<process, trees, files>>

Settled(n, s, r) ==
    [node EXCEPT ![n] = [@ EXCEPT !.state = s, !.result = r, !.bind = NoBind]]

SettleAccepted(c) ==
    LET rest == {w \in Worker \ {c.node} : node[w].state # "accepted"}
        next == CASE rest = {} -> SettledTask("verifying", FALSE)
                  [] rest # {} /\ \A w \in rest : node[w].state = "blocked"
                             -> SettledTask("blocked", TRUE)
                  [] OTHER   -> task
    IN  /\ c.step = "assigned" /\ c.node \in Worker
        /\ Settle(c, Settled(c.node, "accepted", "succeeded"), next)
        /\ UNCHANGED approvals

SettleVerified(c) ==
    /\ c.step = "assigned" /\ c.node = Verifier
    /\ Settle(c, Settled(Verifier, "accepted", "succeeded"), SettledTask("accepted", TRUE))
    /\ UNCHANGED approvals

\* A crash of the worker, or a state change after the dispatch.
SettleIndeterminate(c) ==
    /\ Settle(c, Settled(c.node, "indeterminate", "indeterminate"),
              SettledTask("needs_approval", TRUE))
    /\ RequestApproval(Target(c))

\* A blocked result that no retry follows; every failure to prepare is one.
SettleBlocked(c) ==
    /\ Settle(c, Settled(c.node, "blocked", "blocked"), SettledTask("blocked", TRUE))
    /\ UNCHANGED approvals

\* A blocked worker that left changes, within the retry budget: queued again with
\* its failed attempt bound, unless a change is out of scope.
SettleRetryable(c, r) ==
    /\ c.step = "assigned" /\ c.node \in Worker
    /\ c.attempt <= RetryLimit
    /\ \/ /\ r = "blocked"
          /\ Target(c) \in active /\ node[c.node].worktree = c.attempt
          /\ Settle(c, [node EXCEPT ![c.node] = Requeued(@, CaptureOf(c.node, r))],
                    SettledTask("queued", FALSE))
       \/ /\ r = "outside"
          /\ Settle(c, Settled(c.node, "blocked", r), SettledTask("needs_fix", TRUE))
    /\ UNCHANGED approvals

SettleFailed(c, r) ==
    /\ c.step = "assigned" /\ c.node \in Worker
    /\ Settle(c, Settled(c.node, "failed", r), SettledTask("needs_fix", TRUE))
    /\ UNCHANGED approvals

\* The nodes n needs, directly or not: the least set closed under DependsOn.
Ancestors(n) ==
    {m \in Node : \A S \in SUBSET Node :
        (DependsOn[n] \subseteq S /\ \A k \in S : DependsOn[k] \subseteq S) => m \in S}

RepairableMutant(owners) ==
    /\ task.state = "verifying"
    /\ \A w \in owners : /\ node[w].state = "accepted"
                         /\ node[w].bind = NoBind
                         /\ node[w].worktree = node[w].attempt
                         /\ Path(w) \in active

\* build_accepted_repair_bindings: the owners a rejecting verifier may send back.
\* An accepted descendant must be an owner too, or an ancestor of one.
Repairable(owners) ==
    LET covered == owners \cup UNION {Ancestors(w) : w \in owners}
    IN  /\ task.state = "verifying"
        /\ \A w \in owners : /\ node[w].state = "accepted"
                             /\ node[w].bind = NoBind
                             /\ node[w].worktree = node[w].attempt
                             /\ Path(w) \in active
        /\ \A d \in Worker : node[d].state = "accepted" /\ Ancestors(d) \cap owners # {}
                                => d \in covered

\* A verifier that rejects names the owners to repair.  They and the verifier are
\* queued again, or the whole verdict waits for the operator.  A verifier that
\* accepts without the required evidence is taken for one that names nobody.
SettleRejected(c, owners) ==
    /\ c.step = "assigned" /\ c.node = Verifier
    /\ IF owners # {} /\ c.attempt <= RetryLimit /\ Repairable(owners)
       THEN Settle(c, [n \in Node |->
                          CASE n = Verifier   -> Requeued(node[n], NoBind)
                            [] n \in owners   -> Requeued(node[n], RepairOf(n))
                            [] OTHER          -> node[n]],
                   SettledTask("queued", FALSE))
       ELSE Settle(c, Settled(Verifier, "failed", "failed"), SettledTask("needs_fix", TRUE))
    /\ UNCHANGED approvals

\* The retry of a failed attempt was never assigned: the node is the failed
\* attempt again.  Raises unless the source allocation is still active.
RollbackFailedAttemptRecovery(n) ==
    LET bind == node[n].bind
    IN  /\ bind.kind = "capture_pending"
        /\ <<n, bind.source>> \in active
        /\ node' = [node EXCEPT ![n] =
                      [Requeued(@, NoBind) EXCEPT !.state = "failed",
                                                  !.attempt = bind.source,
                                                  !.worktree = bind.source,
                                                  !.result = bind.result]]
        /\ task' = IF Controlled THEN task ELSE At("needs_fix")

\* The repair of an accepted attempt was never assigned: try the next attempt, or
\* stay blocked on the binding when the budget is spent or the operator took over.
RollbackUnassignedAcceptedSourceRepair(n) ==
    LET bind  == node[n].bind
        again == ~Controlled /\ node[n].attempt < bind.source + 1 + RetryLimit
        row   == Requeued(node[n], bind)
    IN  /\ bind.kind = "repair" /\ node[n].worktree = 0
        /\ <<n, bind.source>> \in active
        /\ node' = [node EXCEPT ![n] =
                      IF again THEN row ELSE [row EXCEPT !.state = "blocked", !.result = "blocked"]]
        /\ task' = IF Controlled THEN task ELSE At(IF again THEN "queued" ELSE "needs_fix")

\* A worker gives up before the assignment.  The target it prepared is archived,
\* unless archiving fails too.
SettleUnassigned(c) ==
    /\ c.step # "assigned"
    /\ Fence(c)
    /\ \/ RollbackFailedAttemptRecovery(c.node)
       \/ RollbackUnassignedAcceptedSourceRepair(c.node)
    /\ claims' = claims \ {c}
    /\ disk' \in {disk, disk \ {Target(c)}}
    /\ UNCHANGED <<process, trees, approvals, orphans>>

ReconcileSettlementConflictMutant(c) ==
    /\ Fence(c)
    /\ claims' = claims \ {c}
    /\ UNCHANGED <<process, rows, trees, approvals, files>>

\* The ledger refused the result of the current lease (a contract check, an
\* unassigned binding): the node must not stay running with nobody behind it.
ReconcileSettlementConflict(c) ==
    /\ Fence(c)
    /\ node' = [node EXCEPT ![c.node] = [@ EXCEPT !.state = "indeterminate",
                                                  !.result = "indeterminate"]]
    /\ IF Controlled THEN UNCHANGED <<task, approvals>>
                     ELSE SetTask("needs_approval") /\ RequestApproval(Target(c))
    /\ claims' = claims \ {c}
    /\ UNCHANGED <<process, trees, files>>

\* A late settlement is fenced off, or the worker died with its process.
DropClaim(c) ==
    /\ ~Fence(c) \/ phase = "down"
    /\ claims' = claims \ {c}
    /\ UNCHANGED <<process, rows, trees, approvals, files>>

\* One running row of the restart recovery.
RecoverInterrupted(n) ==
    /\ phase = "recovering"
    /\ node[n].state = "running"
    /\ \/ /\ RollbackUnassignedAcceptedSourceRepair(n)
          /\ UNCHANGED <<approvals, orphans>>
       \/ /\ RollbackFailedAttemptRecovery(n)
          /\ orphans' = orphans \cup {Path(n)}
          /\ UNCHANGED approvals
       \/ /\ ~Unassigned(n)
          /\ node' = [node EXCEPT ![n] = [@ EXCEPT !.state = "indeterminate",
                                                   !.result = "indeterminate"]]
          /\ SetTask("needs_approval")
          /\ RequestApproval(Path(n))
          /\ UNCHANGED orphans
    /\ UNCHANGED <<process, trees, claims, disk>>

-----------------------------------------------------------------------------
(* The operator, from any process that opens the ledger.                    *)

Operator ==
    /\ phase # "recovering"
    /\ task.rev < MaxRev

\* transition_task, as the API and MCP tools call it.
MayTransition(s) ==
    CASE task.state \in {"queued", "running", "verifying", "blocked"} -> s \in {"paused", "cancelled"}
      [] task.state \in {"inbox", "needs_fix", "needs_approval", "paused"} -> s = "cancelled"
      [] OTHER -> FALSE

TransitionTask(s) ==
    /\ Operator
    /\ MayTransition(s)
    /\ SetTask(s)
    /\ UNCHANGED <<process, node, trees, approvals, claims, files>>

\* _failed_attempt_recovery_authorization of a failed node: it raises, it binds the
\* failed attempt, or it finds nothing that would have to be captured.
Authorizable(n) ==
    /\ node[n].result \in {"failed", "blocked"}
    /\ IF Path(n) \in allocated
       THEN Path(n) \in active /\ node[n].worktree = node[n].attempt
       ELSE node[n].worktree = 0

ResetFailed(n) ==
    IF n \in Worker /\ Path(n) \in allocated
    THEN Requeued(node[n], CaptureOf(n, node[n].result))
    ELSE [node[n] EXCEPT !.state = "pending"]

\* Only a task that needs a fix has its failed nodes reset.
QueueTask ==
    LET failed == {n \in Node : task.state = "needs_fix" /\ node[n].state = "failed"}
    IN  /\ Operator
        /\ task.state \in {"inbox", "needs_fix", "paused"}
        /\ \A n \in failed : Authorizable(n)
        /\ node' = [n \in Node |-> IF n \in failed THEN ResetFailed(n) ELSE node[n]]
        /\ SetTask("queued")
        /\ UNCHANGED <<process, trees, approvals, claims, files>>

RetryIsSafeMutant(n) == node[n].bind = NoBind

\* A retry may discard nothing: no binding, and no worktree but a verifier's, which
\* only reads, and only once the operator confirms that its executor ended.
RetryIsSafe(n) ==
    /\ node[n].bind = NoBind
    /\ node[n].worktree = 0 \/ n = Verifier

ResolvedRow(n, decision) ==
    CASE decision = "retry"  -> [node[n] EXCEPT !.state = "pending", !.worktree = 0]
      [] decision = "fail"   -> [node[n] EXCEPT !.state = "failed"]
      [] decision = "cancel" -> [node[n] EXCEPT !.state = "cancelled"]

AfterDecisionMutant(decision, waiting) ==
    CASE decision = "cancel" -> "cancelled"
      [] decision = "retry"  -> "pending"
      [] decision = "fail"   -> "needs_fix"

AfterDecision(decision, waiting) ==
    CASE decision = "cancel"           -> "cancelled"
      [] decision # "cancel" /\ waiting -> "needs_approval"
      [] decision = "retry" /\ ~waiting -> "queued"
      [] decision = "fail" /\ ~waiting  -> "needs_fix"

\* decide_approval, which looks at the node and the revision, not at the task state.
DecideApproval(p, decision) ==
    LET n       == p[1]
        waiting == \E m \in Node \ {n} : node[m].state = "indeterminate"
    IN  /\ Operator
        /\ p \in open
        /\ node[n].state = "indeterminate"
        /\ decision = "retry" => RetryIsSafe(n)
        /\ node' = [node EXCEPT ![n] = ResolvedRow(n, decision)]
        /\ SetTask(AfterDecision(decision, waiting))
        /\ open' = open \ {p}
        /\ UNCHANGED <<process, trees, asked, claims, files>>

NobodyAskedMutant(n) == node[n].result = "indeterminate"

NobodyAsked(n) == \A p \in open : p[1] # n

\* resolve_indeterminate of a node nobody was asked about.
ResolveIndeterminate(n, decision) ==
    /\ Operator
    /\ node[n].state = "indeterminate"
    /\ NobodyAsked(n)
    /\ decision = "retry" => RetryIsSafe(n)
    /\ node' = [node EXCEPT ![n] = ResolvedRow(n, decision)]
    /\ SetTask(AfterDecision(decision, FALSE))
    /\ UNCHANGED <<process, trees, approvals, claims, files>>

\* The operator asserts that a blocked attempt without changes had no side effects.
RetryBlockedNode(n) ==
    /\ Operator
    /\ task.state = "blocked"
    /\ node[n].state = "blocked"
    /\ node[n].result = "blocked"
    /\ node[n].bind = NoBind       \* a rolled back repair has no effective route
    /\ \A m \in Node : node[m].state \notin {"running", "indeterminate"}
    /\ node' = [node EXCEPT ![n] = [@ EXCEPT !.state = "pending", !.worktree = 0,
                                             !.epoch = 0, !.lease = 0]]
    /\ SetTask("queued")
    /\ UNCHANGED <<process, trees, approvals, claims, files>>

-----------------------------------------------------------------------------
Process ==
    \/ Stop \/ ActivateCoordinator \/ BeginRecovery \/ EndRecovery \/ Serve
    \/ \E p \in replay : ReplayOrphan(p)
    \/ \E n \in Node : RecoverInterrupted(n)
    \/ \E n \in Node : ClaimReadyNode(n)

WorkerStep(c) ==
    /\ phase # "recovering"
    /\ \/ PrepareWorktree(c)
       \/ AssignPlain(c)
       \/ AssignAcceptedSourceRepair(c)
       \/ AssignFailedAttemptRecovery(c)
       \/ SettleAccepted(c)
       \/ SettleVerified(c)
       \/ SettleIndeterminate(c)
       \/ SettleBlocked(c)
       \/ \E r \in {"blocked", "outside"} : SettleRetryable(c, r)
       \/ \E r \in {"failed", "outside"} : SettleFailed(c, r)
       \/ \E owners \in SUBSET Worker : SettleRejected(c, owners)
       \/ SettleUnassigned(c)
       \/ ReconcileSettlementConflict(c)
       \/ DropClaim(c)

Control ==
    \/ \E s \in {"paused", "cancelled"} : TransitionTask(s)
    \/ QueueTask
    \/ \E p \in open, d \in {"retry", "fail", "cancel"} : DecideApproval(p, d)
    \/ \E n \in Node, d \in {"retry", "fail", "cancel"} : ResolveIndeterminate(n, d)
    \/ \E n \in Node : RetryBlockedNode(n)

Next == Process \/ (\E c \in claims : WorkerStep(c)) \/ Control

Spec == Init /\ [][Next]_vars

\* What the code schedules: serve keeps restarting until it serves, recovering
\* first, and while the process lives every claimed attempt ends, since its
\* executor has a timeout and its thread settles whatever comes of it.
Restart ==
    \/ ActivateCoordinator \/ BeginRecovery \/ EndRecovery \/ Serve
    \/ \E p \in replay : ReplayOrphan(p)
    \/ \E n \in Node : RecoverInterrupted(n)

AttemptStep(n) ==
    phase # "down" /\ \E c \in claims : c.node = n /\ Fence(c) /\ WorkerStep(c)

FairSpec == Spec /\ WF_vars(Restart) /\ \A n \in Node : WF_vars(AttemptStep(n))

-----------------------------------------------------------------------------
(* What is expected of the ledger.                                          *)

\* Every variable keeps its type; the active allocations, the open approvals and
\* the receipts being replayed are among those recorded.
TypeOK ==
    /\ phase \in Phases
    /\ epoch \in Nat /\ leases \in Nat
    /\ replay \subseteq orphans
    /\ task \in [state : TaskStates, rev : Nat]
    /\ node \in [Node -> NodeRows]
    /\ active \subseteq allocated /\ allocated \subseteq Node \X Nat
    /\ open \subseteq asked /\ asked \subseteq Node \X Nat
    /\ claims \subseteq Claims
    /\ orphans \subseteq Node \X Nat
    /\ disk \subseteq Node \X Nat

\* A task counts as accepted only while every node of it is: no retry, repair or
\* late settlement takes an accepted worker back behind the verdict that used it
\* (settle_node, SettleVerified against Requeued and ResetFailed).
AcceptedTaskComplete ==
    task.state = "accepted" => \A n \in Node : node[n].state = "accepted"

\* Two attempts of one worker node never write at the same time unnoticed: a thread
\* or executor that got its worktree holds the newest lease of the node as long as
\* it runs, however late it dies (_assert_indeterminate_retry_is_safe).
NoWriterOvertaken ==
    \A c, d \in claims :
        c.node = d.node /\ c.node \in Worker /\ c.step = "assigned" => d.lease <= c.lease

\* A recovery never loses its evidence: the attempt that a binding without a target
\* starts from keeps its active allocation, and the queued node can be claimed (a
\* binding the parsers refuse would fail the claims of every task).
RecoverySourceHeld ==
    \A n \in Node : Unassigned(n) =>
        /\ <<n, node[n].bind.source>> \in active
        /\ node[n].state = "pending" => BindClaimable(n)
        /\ node[n].state = "running" /\ node[n].bind.kind = "capture_pending"
              => node[n].attempt = node[n].bind.source + 1

\* The operator is never asked about an attempt that somebody else has resolved
\* meanwhile: an open approval is about the current attempt of a node that still
\* waits (decide_approval against resolve_indeterminate and the restart recovery).
OpenApprovalCurrent ==
    \A p \in open : node[p[1]].state = "indeterminate" /\ node[p[1]].attempt = p[2]

\* A node's worktree is the one of its current attempt, under an allocation that is
\* still active: no retry runs in, or captures from, an older attempt's directory.
WorktreeOwned ==
    \A w \in Worker : node[w].worktree # 0 =>
        node[w].worktree = node[w].attempt /\ Path(w) \in active

\* Once a coordinator has recovered, no node is running with nobody behind it: some
\* worker of this very lease will still settle it (docs/task-control-recovery.md).
RunningIsOwned ==
    phase \in {"replaying", "serving"} =>
        \A n \in Running : \E c \in claims : c.node = n /\ Fence(c)

\* While an accepted source is repaired, what was built on it neither runs nor
\* counts as accepted, unless it lies below another node of the repair frontier.
DependentsWaitForRepair ==
    \A n \in Worker, d \in Worker : node[n].bind.kind = "repair" /\ n \in DependsOn[d] =>
        /\ node[d].state # "running"
        /\ node[d].state = "accepted" => \E k \in Worker : d \in Ancestors(k)

\* A restart hands an attempt it interrupted to the operator.
AsksAbout(n) ==
    /\ node[n].state = "running" /\ node'[n].state = "indeterminate"
    /\ task'.state = "needs_approval" /\ Path(n) \in open'

\* Pause and cancellation win over whatever workers still report: a step of a worker
\* may write its node but never moves a paused or cancelled task (settle_node,
\* reconcile_settlement_conflict and both rollbacks).  A restart moves one only to ask
\* the operator, with an approval he can decide, about an attempt it interrupted.
ControlSurvivesWorkers ==
    [][(claims' # claims \/ phase = "recovering")
             /\ task.state \in {"paused", "cancelled"} /\ task' # task
          => claims' = claims /\ \E n \in Node : AsksAbout(n)]_vars

\* Every attempt ends: a running node is settled, rolled back or handed to the
\* operator, through any number of restarts.
AttemptsEnd == \A n \in Node : node[n].state = "running" ~> node[n].state # "running"

\* The rows implement the register of leases: no step hands out a lease twice, gives
\* a running node to somebody else, or revives an attempt that ended.
Register == INSTANCE LeaseRegister WITH
    last   <- leases,
    holder <- [n \in Node |-> IF node[n].state = "running" THEN node[n].lease ELSE 0]

LeasesImplemented == Register!Spec

-----------------------------------------------------------------------------
(* What the repository's documents say, and the code does not do.           *)


\* "The target has never become the node's authoritative allocation" (worktrees.py,
\* archive_failed_recovery): no directory with an active allocation is moved away.
ArchiveSparesAllocation == [][\A p \in disk \ disk' : p \notin active]_vars

=============================================================================
