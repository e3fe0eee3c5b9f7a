-------------------------- MODULE TaskLedgerProofs --------------------------
(* The theorems about TaskLedger, for every task graph and every bound.      *)
(* Each part names the inductive invariant, says which steps leave it alone, *)
(* and then treats the steps that do not.                                    *)
EXTENDS TaskLedger, TLAPS

(***************************************************************************)
(* Types.                                                                  *)
(***************************************************************************)

(* The values the operators of the ledger build.                            *)

LEMMA RowFields ==
    ASSUME TypeOK, NEW n \in Node
    PROVE  /\ node[n] \in NodeRows
           /\ node[n].state \in NodeStates
           /\ node[n].attempt \in Nat /\ node[n].epoch \in Nat
           /\ node[n].lease \in Nat /\ node[n].worktree \in Nat
           /\ node[n].result \in Results
           /\ node[n].bind \in Binds
           /\ node[n].bind.source \in Nat /\ node[n].bind.result \in Results
  BY DEF TypeOK, NodeRows, Binds

LEMMA ClaimFields ==
    ASSUME TypeOK, NEW c \in claims
    PROVE  /\ c \in Claims
           /\ c.node \in Node /\ c.attempt \in Nat /\ c.epoch \in Nat /\ c.lease \in Nat
           /\ c.step \in {"claimed", "prepared", "assigned"}
           /\ Target(c) \in Node \X Nat
  BY DEF TypeOK, Claims, Target

LEMMA NoBindType == NoBind \in Binds
  BY DEF NoBind, Binds, BindKinds, Results

LEMMA RequeuedType ==
    ASSUME NEW row \in NodeRows, NEW bind \in Binds
    PROVE  Requeued(row, bind) \in NodeRows
  BY DEF Requeued, NodeRows, NodeStates, Results

LEMMA RequeuedFields ==
    ASSUME NEW row \in NodeRows, NEW bind \in Binds
    PROVE  LET new == Requeued(row, bind)
           IN  /\ new.state = "pending" /\ new.worktree = 0 /\ new.result = "none"
               /\ new.bind = bind /\ new.attempt = row.attempt
  BY DEF Requeued, NodeRows

LEMMA IndeterminateType ==
    ASSUME NEW row \in NodeRows
    PROVE  [row EXCEPT !.state = "indeterminate", !.result = "indeterminate"] \in NodeRows
  BY DEF NodeRows, NodeStates, Results

LEMMA AtType ==
    ASSUME TypeOK, NEW s \in TaskStates
    PROVE  At(s) \in [state : TaskStates, rev : Nat]
  BY DEF TypeOK, At

LEMMA SettledTaskType ==
    ASSUME TypeOK, NEW s \in TaskStates, NEW b \in BOOLEAN
    PROVE  SettledTask(s, b) \in [state : TaskStates, rev : Nat]
  BY AtType DEF TypeOK, SettledTask

LEMMA SettledType ==
    ASSUME TypeOK, NEW n \in Node, NEW s \in NodeStates, NEW r \in Results
    PROVE  Settled(n, s, r) \in [Node -> NodeRows]
  BY NoBindType, RowFields DEF TypeOK, Settled, NodeRows

LEMMA RecoveryBindType ==
    ASSUME TypeOK, NEW n \in Node, NEW r \in Results
    PROVE  RepairOf(n) \in Binds /\ CaptureOf(n, r) \in Binds
  BY RowFields DEF RepairOf, CaptureOf, Binds, BindKinds
-----------------------------------------------------------------------------
(* Type correctness.                                                        *)

LEMMA InitType == Init => TypeOK
  BY NoBindType, GraphAssumption
  DEF Init, TypeOK, Phases, TaskStates, NodeRows, NodeStates, Results, NewRow

LEMMA RollbackCaptureType ==
    ASSUME TypeOK, NEW n \in Node, RollbackFailedAttemptRecovery(n)
    PROVE  /\ node' \in [Node -> NodeRows]
           /\ task' \in [state : TaskStates, rev : Nat]
<1>1. Requeued(node[n], NoBind) \in NodeRows
  BY RowFields, NoBindType, RequeuedType
<1>2. [Requeued(node[n], NoBind) EXCEPT !.state = "failed",
                                        !.attempt = node[n].bind.source,
                                        !.worktree = node[n].bind.source,
                                        !.result = node[n].bind.result] \in NodeRows
  BY <1>1, RowFields DEF NodeRows, NodeStates
<1>3. At("needs_fix") \in [state : TaskStates, rev : Nat]
  BY AtType DEF TaskStates
<1>4. QED
  BY <1>2, <1>3 DEF RollbackFailedAttemptRecovery, TypeOK

LEMMA RollbackRepairType ==
    ASSUME TypeOK, NEW n \in Node, RollbackUnassignedAcceptedSourceRepair(n)
    PROVE  /\ node' \in [Node -> NodeRows]
           /\ task' \in [state : TaskStates, rev : Nat]
<1> DEFINE row == Requeued(node[n], node[n].bind)
<1>1. row \in NodeRows
  BY RowFields, RequeuedType
<1>2. [row EXCEPT !.state = "blocked", !.result = "blocked"] \in NodeRows
  BY <1>1 DEF NodeRows, NodeStates, Results
<1>3. At("queued") \in [state : TaskStates, rev : Nat] /\ At("needs_fix") \in [state : TaskStates, rev : Nat]
  BY AtType DEF TaskStates
<1>4. QED
  BY <1>1, <1>2, <1>3 DEF RollbackUnassignedAcceptedSourceRepair, TypeOK

\* Both rollbacks replace the row of their node by one that does not run.
LEMMA RollbackRows ==
    ASSUME TypeOK, NEW n \in Node,
           RollbackFailedAttemptRecovery(n) \/ RollbackUnassignedAcceptedSourceRepair(n)
    PROVE  /\ \A m \in Node \ {n} : node'[m] = node[m]
           /\ node'[n].state \in {"pending", "failed", "blocked"}
<1>1. CASE RollbackFailedAttemptRecovery(n)
  <2>1. Requeued(node[n], NoBind) \in NodeRows
    BY RowFields, NoBindType, RequeuedType
  <2>2. QED
    BY <1>1, <2>1 DEF RollbackFailedAttemptRecovery, TypeOK, NodeRows
<1>2. CASE RollbackUnassignedAcceptedSourceRepair(n)
  <2> DEFINE row == Requeued(node[n], node[n].bind)
  <2>1. row \in NodeRows /\ row.state = "pending"
    BY RowFields, RequeuedType, RequeuedFields
  <2>2. \/ node' = [node EXCEPT ![n] = row]
        \/ node' = [node EXCEPT ![n] = [row EXCEPT !.state = "blocked", !.result = "blocked"]]
    BY <1>2 DEF RollbackUnassignedAcceptedSourceRepair
  <2> HIDE DEF row
  <2>3. QED
    BY <2>1, <2>2 DEF TypeOK, NodeRows
<1>3. QED
  BY <1>1, <1>2

LEMMA RecoverInterruptedType ==
    ASSUME TypeOK, NEW n \in Node, RecoverInterrupted(n)
    PROVE  TypeOK'
<1> USE DEF process, trees, approvals
<1>1. Path(n) \in Node \X Nat
  BY RowFields DEF Path
<1>2. CASE RollbackUnassignedAcceptedSourceRepair(n) /\ UNCHANGED <<approvals, orphans>>
  BY <1>2, RollbackRepairType DEF RecoverInterrupted, TypeOK
<1>3. CASE RollbackFailedAttemptRecovery(n) /\ orphans' = orphans \cup {Path(n)} /\ UNCHANGED approvals
  BY <1>1, <1>3, RollbackCaptureType DEF RecoverInterrupted, TypeOK
<1>4. CASE /\ node' = [node EXCEPT ![n] = [@ EXCEPT !.state = "indeterminate",
                                                   !.result = "indeterminate"]]
           /\ SetTask("needs_approval")
           /\ RequestApproval(Path(n))
           /\ UNCHANGED orphans
  <2>1. [node[n] EXCEPT !.state = "indeterminate", !.result = "indeterminate"] \in NodeRows
    BY RowFields, IndeterminateType
  <2>2. node' \in [Node -> NodeRows]
    BY <1>4, <2>1 DEF TypeOK
  <2>3. task' \in [state : TaskStates, rev : Nat]
    BY <1>4, AtType DEF SetTask, TaskStates
  <2>4. QED
    BY <1>1, <1>4, <2>2, <2>3 DEF RecoverInterrupted, RequestApproval, TypeOK
<1>5. QED
  BY <1>2, <1>3, <1>4 DEF RecoverInterrupted

LEMMA ClaimType ==
    ASSUME TypeOK, NEW n \in Node, ClaimReadyNode(n)
    PROVE  TypeOK'
<1> USE DEF trees, approvals, files
<1>1. [node[n] EXCEPT !.state = "running", !.attempt = node[n].attempt + 1, !.epoch = epoch, !.lease = leases + 1]
         \in NodeRows
  <2>1. epoch \in Nat /\ leases + 1 \in Nat /\ node[n].attempt + 1 \in Nat
    BY RowFields DEF TypeOK
  <2>2. node[n] \in NodeRows
    BY RowFields
  <2>3. "running" \in NodeStates
    BY DEF NodeStates
  <2>4. QED
    BY <2>1, <2>2, <2>3 DEF NodeRows
<1>2. node' \in [Node -> NodeRows]
  BY <1>1 DEF ClaimReadyNode, NextLeaseEpoch, TypeOK
<1>3. [node |-> n, attempt |-> node[n].attempt + 1, epoch |-> epoch, lease |-> leases + 1,
       step |-> "claimed"] \in Claims
  BY RowFields DEF TypeOK, Claims
<1>4. At("running") \in [state : TaskStates, rev : Nat]
  BY AtType DEF TaskStates
<1>5. task' \in [state : TaskStates, rev : Nat]
  BY <1>4 DEF ClaimReadyNode, SetTask, TypeOK
<1>6. QED
  BY <1>2, <1>3, <1>5 DEF ClaimReadyNode, NextLeaseEpoch, TypeOK

\* What the coordinator process does keeps the types.
LEMMA ProcessType ==
    ASSUME TypeOK, Process
    PROVE  TypeOK'
<1> USE DEF process, rows, trees, approvals, files
<1>1. CASE Stop
  BY <1>1 DEF Stop, TypeOK, Phases
<1>2. CASE ActivateCoordinator
  BY <1>2 DEF ActivateCoordinator, TypeOK, Phases
<1>3. CASE BeginRecovery
  BY <1>3 DEF BeginRecovery, TypeOK, Phases
<1>4. CASE EndRecovery
  BY <1>4 DEF EndRecovery, TypeOK, Phases
<1>5. CASE Serve
  BY <1>5 DEF Serve, TypeOK, Phases
<1>6. ASSUME NEW p \in replay, ReplayOrphan(p)
      PROVE  TypeOK'
  BY <1>6 DEF ReplayOrphan, TypeOK
<1>7. ASSUME NEW n \in Node, RecoverInterrupted(n)
      PROVE  TypeOK'
  BY <1>7, RecoverInterruptedType
<1>8. ASSUME NEW n \in Node, ClaimReadyNode(n)
      PROVE  TypeOK'
  BY <1>8, ClaimType
<1>9. QED
  BY <1>1, <1>2, <1>3, <1>4, <1>5, <1>6, <1>7, <1>8 DEF Process

\* A worker's row and claim stay well typed whatever it commits.
LEMMA AdvanceType ==
    ASSUME TypeOK, NEW c \in claims, NEW s \in {"claimed", "prepared", "assigned"}, Advance(c, s)
    PROVE  claims' \subseteq Claims
<1>1. [c EXCEPT !.step = s] \in Claims
  BY ClaimFields DEF Claims
<1>2. QED
  BY <1>1 DEF Advance, TypeOK

LEMMA CommitTargetType ==
    ASSUME TypeOK, NEW c \in claims, NEW bind \in Binds, CommitTarget(c, bind)
    PROVE  TypeOK'
<1> USE DEF process, approvals, files
<1>1. [node[c.node] EXCEPT !.worktree = c.attempt, !.bind = bind] \in NodeRows
  BY ClaimFields, RowFields DEF NodeRows
<1>2. node' \in [Node -> NodeRows]
  BY <1>1 DEF CommitTarget, TypeOK
<1>3. claims' \subseteq Claims
  BY AdvanceType DEF CommitTarget
<1>4. active' \subseteq allocated' /\ allocated' \subseteq Node \X Nat
  BY ClaimFields DEF CommitTarget, TypeOK
<1>5. QED
  BY <1>2, <1>3, <1>4 DEF CommitTarget, TypeOK

LEMMA SettleType ==
    ASSUME TypeOK, NEW c \in claims,
           NEW rowsAfter \in [Node -> NodeRows],
           NEW taskAfter \in [state : TaskStates, rev : Nat],
           Settle(c, rowsAfter, taskAfter),
           UNCHANGED approvals \/ RequestApproval(Target(c))
    PROVE  TypeOK'
<1>1. open' \subseteq asked' /\ asked' \subseteq Node \X Nat
  BY ClaimFields DEF RequestApproval, approvals, TypeOK
<1>2. QED
  BY <1>1 DEF Settle, process, trees, files, TypeOK

LEMMA SettleRejectedType ==
    ASSUME TypeOK, NEW c \in claims, NEW owners \in SUBSET Worker, SettleRejected(c, owners)
    PROVE  TypeOK'
<1> DEFINE back == [n \in Node |->
                      CASE n = Verifier   -> Requeued(node[n], NoBind)
                        [] n \in owners   -> Requeued(node[n], RepairOf(n))
                        [] OTHER          -> node[n]]
<1>1. ASSUME NEW n \in Node
      PROVE  back[n] \in NodeRows
  <2>1. Requeued(node[n], NoBind) \in NodeRows
    BY RowFields, NoBindType, RequeuedType
  <2>2. RepairOf(n) \in Binds
    BY RecoveryBindType DEF Results
  <2>3. Requeued(node[n], RepairOf(n)) \in NodeRows
    BY <2>2, RowFields, RequeuedType
  <2>4. QED
    BY <2>1, <2>3, RowFields
<1>2. back \in [Node -> NodeRows]
  BY <1>1
<1>3. SettledTask("queued", FALSE) \in [state : TaskStates, rev : Nat]
      /\ SettledTask("needs_fix", TRUE) \in [state : TaskStates, rev : Nat]
  BY SettledTaskType DEF TaskStates
<1>4. Settled(Verifier, "failed", "failed") \in [Node -> NodeRows]
  BY SettledType DEF NodeStates, Results, Node
<1>5. CASE Settle(c, back, SettledTask("queued", FALSE)) /\ UNCHANGED approvals
  <2> HIDE DEF back
  <2>1. QED
    BY <1>2, <1>3, <1>5, SettleType
<1>6. CASE /\ Settle(c, Settled(Verifier, "failed", "failed"), SettledTask("needs_fix", TRUE))
           /\ UNCHANGED approvals
  BY <1>3, <1>4, <1>6, SettleType
<1>7. QED
  BY <1>5, <1>6 DEF SettleRejected

LEMMA SettleRetryableType ==
    ASSUME TypeOK, NEW c \in claims, NEW r \in {"blocked", "outside"}, SettleRetryable(c, r)
    PROVE  TypeOK'
<1> DEFINE back == [node EXCEPT ![c.node] = Requeued(@, CaptureOf(c.node, r))]
<1>1. back \in [Node -> NodeRows]
  <2>1. CaptureOf(c.node, r) \in Binds
    BY ClaimFields, RecoveryBindType DEF Results
  <2>2. Requeued(node[c.node], CaptureOf(c.node, r)) \in NodeRows
    BY <2>1, ClaimFields, RowFields, RequeuedType
  <2>3. QED
    BY <2>2 DEF TypeOK
<1>2. SettledTask("queued", FALSE) \in [state : TaskStates, rev : Nat]
      /\ SettledTask("needs_fix", TRUE) \in [state : TaskStates, rev : Nat]
  BY SettledTaskType DEF TaskStates
<1>3. Settled(c.node, "blocked", r) \in [Node -> NodeRows]
  BY ClaimFields, SettledType DEF NodeStates, Results
<1>4. CASE Settle(c, back, SettledTask("queued", FALSE)) /\ UNCHANGED approvals
  <2> HIDE DEF back
  <2>1. QED
    BY <1>1, <1>2, <1>4, SettleType
<1>5. CASE /\ Settle(c, Settled(c.node, "blocked", r), SettledTask("needs_fix", TRUE))
           /\ UNCHANGED approvals
  BY <1>2, <1>3, <1>5, SettleType
<1>6. QED
  BY <1>4, <1>5 DEF SettleRetryable

LEMMA SettleUnassignedType ==
    ASSUME TypeOK, NEW c \in claims, SettleUnassigned(c)
    PROVE  TypeOK'
<1> USE DEF process, trees, approvals
<1>1. node' \in [Node -> NodeRows] /\ task' \in [state : TaskStates, rev : Nat]
  BY ClaimFields, RollbackCaptureType, RollbackRepairType DEF SettleUnassigned
<1>2. QED
  BY <1>1 DEF SettleUnassigned, TypeOK

LEMMA ReconcileType ==
    ASSUME TypeOK, NEW c \in claims, ReconcileSettlementConflict(c)
    PROVE  TypeOK'
<1> USE DEF process, trees, approvals, files
<1>1. [node[c.node] EXCEPT !.state = "indeterminate", !.result = "indeterminate"] \in NodeRows
  BY ClaimFields, RowFields, IndeterminateType
<1>2. node' \in [Node -> NodeRows]
  BY <1>1 DEF ReconcileSettlementConflict, TypeOK
<1>3. At("needs_approval") \in [state : TaskStates, rev : Nat]
  BY AtType DEF TaskStates
<1>4. task' \in [state : TaskStates, rev : Nat]
  BY <1>3 DEF ReconcileSettlementConflict, SetTask, TypeOK
<1>5. open' \subseteq asked' /\ asked' \subseteq Node \X Nat
  BY ClaimFields DEF ReconcileSettlementConflict, RequestApproval, TypeOK
<1>6. QED
  BY <1>2, <1>4, <1>5 DEF ReconcileSettlementConflict, TypeOK

LEMMA WorkerType ==
    ASSUME TypeOK, NEW c \in claims, WorkerStep(c)
    PROVE  TypeOK'
<1> DEFINE Tasks == [state : TaskStates, rev : Nat]
<1> USE DEF process, rows, trees, approvals, files
<1>1. CASE PrepareWorktree(c)
  <2>1. claims' \subseteq Claims
    BY <1>1, AdvanceType DEF PrepareWorktree
  <2>2. QED
    BY <1>1, <2>1, ClaimFields DEF PrepareWorktree, TypeOK
<1>2. CASE AssignPlain(c)
  BY <1>2, NoBindType, CommitTargetType DEF AssignPlain
<1>3. CASE AssignAcceptedSourceRepair(c)
  BY <1>3, NoBindType, CommitTargetType DEF AssignAcceptedSourceRepair
<1>4. CASE AssignFailedAttemptRecovery(c)
  <2>1. [node[c.node].bind EXCEPT !.kind = "assigned"] \in Binds
    BY ClaimFields, RowFields DEF Binds, BindKinds
  <2>2. QED
    BY <1>4, <2>1, NoBindType, CommitTargetType DEF AssignFailedAttemptRecovery
<1>5. CASE SettleAccepted(c)
  <2>1. Settled(c.node, "accepted", "succeeded") \in [Node -> NodeRows]
    BY ClaimFields, SettledType DEF NodeStates, Results
  <2>2. SettledTask("verifying", FALSE) \in Tasks /\ SettledTask("blocked", TRUE) \in Tasks /\ task \in Tasks
    BY SettledTaskType DEF TaskStates, TypeOK
  <2>3. PICK t \in Tasks : Settle(c, Settled(c.node, "accepted", "succeeded"), t)
    BY <1>5, <2>2 DEF SettleAccepted
  <2>4. QED
    BY <1>5, <2>1, <2>3, SettleType DEF SettleAccepted
<1>6. CASE SettleVerified(c)
  <2>1. Settled(Verifier, "accepted", "succeeded") \in [Node -> NodeRows]
    BY SettledType DEF NodeStates, Results, Node
  <2>2. SettledTask("accepted", TRUE) \in Tasks
    BY SettledTaskType DEF TaskStates
  <2>3. QED
    BY <1>6, <2>1, <2>2, SettleType DEF SettleVerified
<1>7. CASE SettleIndeterminate(c)
  <2>1. Settled(c.node, "indeterminate", "indeterminate") \in [Node -> NodeRows]
    BY ClaimFields, SettledType DEF NodeStates, Results
  <2>2. SettledTask("needs_approval", TRUE) \in Tasks
    BY SettledTaskType DEF TaskStates
  <2>3. QED
    BY <1>7, <2>1, <2>2, SettleType DEF SettleIndeterminate
<1>8. CASE SettleBlocked(c)
  <2>1. Settled(c.node, "blocked", "blocked") \in [Node -> NodeRows]
    BY ClaimFields, SettledType DEF NodeStates, Results
  <2>2. SettledTask("blocked", TRUE) \in Tasks
    BY SettledTaskType DEF TaskStates
  <2>3. QED
    BY <1>8, <2>1, <2>2, SettleType DEF SettleBlocked
<1>9. ASSUME NEW r \in {"blocked", "outside"}, SettleRetryable(c, r)
      PROVE  TypeOK'
  BY <1>9, SettleRetryableType
<1>10. ASSUME NEW r \in {"failed", "outside"}, SettleFailed(c, r)
       PROVE  TypeOK'
  <2>1. Settled(c.node, "failed", r) \in [Node -> NodeRows]
    BY ClaimFields, SettledType DEF NodeStates, Results
  <2>2. SettledTask("needs_fix", TRUE) \in Tasks
    BY SettledTaskType DEF TaskStates
  <2>3. QED
    BY <1>10, <2>1, <2>2, SettleType DEF SettleFailed
<1>11. ASSUME NEW owners \in SUBSET Worker, SettleRejected(c, owners)
       PROVE  TypeOK'
  BY <1>11, SettleRejectedType
<1>12. CASE SettleUnassigned(c)
  BY <1>12, SettleUnassignedType
<1>13. CASE ReconcileSettlementConflict(c)
  BY <1>13, ReconcileType
<1>14. CASE DropClaim(c)
  BY <1>14 DEF DropClaim, TypeOK
<1>15. QED
  BY <1>1, <1>2, <1>3, <1>4, <1>5, <1>6, <1>7, <1>8, <1>9, <1>10, <1>11, <1>12, <1>13, <1>14
  DEF WorkerStep

\* What the operator does keeps the types.
LEMMA ResolvedType ==
    ASSUME TypeOK, NEW n \in Node, NEW d \in {"retry", "fail", "cancel"}, NEW w \in BOOLEAN
    PROVE  /\ [node EXCEPT ![n] = ResolvedRow(n, d)] \in [Node -> NodeRows]
           /\ At(AfterDecision(d, w)) \in [state : TaskStates, rev : Nat]
<1>1. ResolvedRow(n, d) \in NodeRows
  BY RowFields DEF ResolvedRow, NodeRows, NodeStates
<1>2. AfterDecision(d, w) \in TaskStates
  BY DEF AfterDecision, TaskStates
<1>3. QED
  BY <1>1, <1>2, AtType DEF TypeOK

LEMMA ControlType ==
    ASSUME TypeOK, Control
    PROVE  TypeOK'
<1> USE DEF process, rows, trees, approvals, files
<1>1. ASSUME NEW s \in {"paused", "cancelled"}, TransitionTask(s)
      PROVE  TypeOK'
  <2>1. At(s) \in [state : TaskStates, rev : Nat]
    BY AtType DEF TaskStates
  <2>2. QED
    BY <1>1, <2>1 DEF TransitionTask, SetTask, TypeOK
<1>2. CASE QueueTask
  <2>1. ASSUME NEW n \in Node
        PROVE  ResetFailed(n) \in NodeRows
    <3>1. CaptureOf(n, node[n].result) \in Binds
      BY RowFields, RecoveryBindType
    <3>2. Requeued(node[n], CaptureOf(n, node[n].result)) \in NodeRows
      BY <3>1, RowFields, RequeuedType
    <3>3. [node[n] EXCEPT !.state = "pending"] \in NodeRows
      BY RowFields DEF NodeRows, NodeStates
    <3>4. QED
      BY <3>2, <3>3 DEF ResetFailed
  <2>2. node' \in [Node -> NodeRows]
    BY <1>2, <2>1, RowFields DEF QueueTask
  <2>3. task' \in [state : TaskStates, rev : Nat]
    BY <1>2, AtType DEF QueueTask, SetTask, TaskStates
  <2>4. QED
    BY <1>2, <2>2, <2>3 DEF QueueTask, TypeOK
<1>3. ASSUME NEW p \in open, NEW d \in {"retry", "fail", "cancel"}, DecideApproval(p, d)
      PROVE  TypeOK'
  <2>1. p[1] \in Node
    BY DEF TypeOK
  <2>2. node' \in [Node -> NodeRows] /\ task' \in [state : TaskStates, rev : Nat]
    BY <1>3, <2>1, ResolvedType DEF DecideApproval, SetTask
  <2>3. QED
    BY <1>3, <2>2 DEF DecideApproval, TypeOK
<1>4. ASSUME NEW n \in Node, NEW d \in {"retry", "fail", "cancel"}, ResolveIndeterminate(n, d)
      PROVE  TypeOK'
  <2>1. node' \in [Node -> NodeRows] /\ task' \in [state : TaskStates, rev : Nat]
    BY <1>4, ResolvedType DEF ResolveIndeterminate, SetTask
  <2>2. QED
    BY <1>4, <2>1 DEF ResolveIndeterminate, TypeOK
<1>5. ASSUME NEW n \in Node, RetryBlockedNode(n)
      PROVE  TypeOK'
  <2>1. [node[n] EXCEPT !.state = "pending", !.worktree = 0, !.epoch = 0, !.lease = 0] \in NodeRows
    BY RowFields DEF NodeRows, NodeStates
  <2>2. At("queued") \in [state : TaskStates, rev : Nat]
    BY AtType DEF TaskStates
  <2>3. QED
    BY <1>5, <2>1, <2>2 DEF RetryBlockedNode, SetTask, TypeOK
<1>6. QED
  BY <1>1, <1>2, <1>3, <1>4, <1>5 DEF Control

LEMMA StepType == TypeOK /\ [Next]_vars => TypeOK'
<1> SUFFICES ASSUME TypeOK, [Next]_vars
             PROVE  TypeOK'
  OBVIOUS
<1>1. CASE Process
  BY <1>1, ProcessType
<1>2. ASSUME NEW c \in claims, WorkerStep(c)
      PROVE  TypeOK'
  BY <1>2, WorkerType
<1>3. CASE Control
  BY <1>3, ControlType
<1>4. CASE UNCHANGED vars
  BY <1>4 DEF vars, process, rows, trees, approvals, files, TypeOK
<1>5. QED
  BY <1>1, <1>2, <1>3, <1>4 DEF Next

\* The ledger's rows, allocations, approvals and claims are always well typed, and
\* what is active, open or replayed is among what was recorded.
THEOREM TypeCorrect == Spec => []TypeOK
<1>1. QED
  BY InitType, StepType, PTL DEF Spec

(***************************************************************************)
(* Verdicts, pauses and answers.                                           *)
(***************************************************************************)

(* A task is accepted only when all of its nodes are.                       *)

\* A verifier leaves 'pending' only when every worker is accepted, and an accepted
\* task has an accepted verifier.
VerdictInv ==
    /\ node[Verifier].state # "pending" => \A w \in Worker : node[w].state = "accepted"
    /\ task.state = "accepted" => node[Verifier].state = "accepted"

\* A step that takes back no accepted row, starts no verifier and accepts no task.
Quiet ==
    /\ \A n \in Node : node[n].state = "accepted" => node'[n].state = "accepted"
    /\ node'[Verifier].state # "pending" => node[Verifier].state # "pending"
    /\ task'.state = "accepted" => task.state = "accepted"

LEMMA QuietKeepsVerdict == VerdictInv /\ Quiet => VerdictInv'
  BY DEF VerdictInv, Quiet, Node

LEMMA TaskAfter ==
    ASSUME TypeOK, NEW s \in TaskStates, NEW b \in BOOLEAN
    PROVE  At(s).state = s /\ SettledTask(s, b).state \in {task.state, s}
  BY DEF At, SettledTask

\* Replacing a row that is neither pending nor accepted is quiet.
LEMMA ReplacedRow ==
    ASSUME TypeOK, NEW n \in Node, NEW row \in NodeRows,
           node[n].state \notin {"pending", "accepted"},
           node' = [node EXCEPT ![n] = row],
           task'.state = "accepted" => task.state = "accepted"
    PROVE  Quiet
  BY DEF TypeOK, Quiet, Node

LEMMA RollbackQuiet ==
    ASSUME TypeOK, NEW n \in Node, node[n].state = "running",
           RollbackFailedAttemptRecovery(n) \/ RollbackUnassignedAcceptedSourceRepair(n)
    PROVE  Quiet
<1>1. task'.state = "accepted" => task.state = "accepted"
  BY DEF RollbackFailedAttemptRecovery, RollbackUnassignedAcceptedSourceRepair, At
<1>2. QED
  BY <1>1 DEF RollbackFailedAttemptRecovery, RollbackUnassignedAcceptedSourceRepair, TypeOK, Quiet, Node

\* The first claim of the verifier is the only step of the process that is not quiet.
LEMMA ProcessVerdict ==
    ASSUME TypeOK, VerdictInv, Process
    PROVE  VerdictInv'
<1> USE DEF process, rows
<1>1. CASE Stop \/ ActivateCoordinator \/ BeginRecovery \/ EndRecovery \/ Serve
  BY <1>1 DEF Stop, ActivateCoordinator, BeginRecovery, EndRecovery, Serve, VerdictInv
<1>2. ASSUME NEW p \in replay, ReplayOrphan(p)
      PROVE  VerdictInv'
  BY <1>2 DEF ReplayOrphan, VerdictInv
<1>3. ASSUME NEW n \in Node, RecoverInterrupted(n)
      PROVE  VerdictInv'
  <2>1. node[n].state = "running"
    BY <1>3 DEF RecoverInterrupted
  <2>2. CASE RollbackFailedAttemptRecovery(n) \/ RollbackUnassignedAcceptedSourceRepair(n)
    BY <2>1, <2>2, RollbackQuiet, QuietKeepsVerdict
  <2>3. CASE /\ node' = [node EXCEPT ![n] = [@ EXCEPT !.state = "indeterminate",
                                                     !.result = "indeterminate"]]
             /\ SetTask("needs_approval")
    <3>1. task'.state = "needs_approval"
      BY <2>3 DEF SetTask, At
    <3>2. Quiet
      BY <2>1, <2>3, <3>1 DEF TypeOK, Quiet, Node
    <3>3. QED
      BY <3>2, QuietKeepsVerdict
  <2>4. QED
    BY <1>3, <2>2, <2>3 DEF RecoverInterrupted
<1>4. ASSUME NEW n \in Node, ClaimReadyNode(n)
      PROVE  VerdictInv'
  <2>1. /\ node[n].state = "pending"
        /\ \A m \in Node \ {n} : node'[m] = node[m]
        /\ node'[n].state = "running"
    BY <1>4 DEF ClaimReadyNode, TypeOK
  <2>2. task'.state = "accepted" => task.state = "accepted"
    BY <1>4 DEF ClaimReadyNode, SetTask, At
  <2>3. CASE n # Verifier
    <3>1. Quiet
      BY <2>1, <2>2, <2>3 DEF Quiet, Node
    <3>2. QED
      BY <3>1, QuietKeepsVerdict
  <2>4. CASE n = Verifier
    <3>1. \A w \in Worker : node[w].state = "accepted"
      BY <1>4, <2>4, GraphAssumption DEF ClaimReadyNode, DependenciesAccepted
    <3>2. \A w \in Worker : node'[w].state = "accepted"
      BY <2>1, <2>4, <3>1, GraphAssumption DEF Node
    <3>3. task'.state # "accepted"
      BY <2>1, <2>2, <2>4 DEF VerdictInv
    <3>4. QED
      BY <3>2, <3>3 DEF VerdictInv
  <2>5. QED
    BY <2>3, <2>4
<1>5. QED
  BY <1>1, <1>2, <1>3, <1>4 DEF Process

\* A settled row replaces a running one.
LEMMA SettleQuiet ==
    ASSUME TypeOK, NEW c \in claims, NEW rowsAfter, NEW taskAfter,
           Settle(c, rowsAfter, taskAfter),
           \A n \in Node \ {c.node} : rowsAfter[n] = node[n],
           taskAfter.state = "accepted" => task.state = "accepted"
    PROVE  Quiet
  BY ClaimFields DEF Settle, Fence, Quiet, Node

LEMMA SettledElsewhere ==
    ASSUME TypeOK, NEW m \in Node, NEW s, NEW r
    PROVE  \A n \in Node \ {m} : Settled(m, s, r)[n] = node[n]
  BY DEF TypeOK, Settled

LEMMA SettledQuiet ==
    ASSUME TypeOK, NEW c \in claims, NEW s, NEW r, NEW taskAfter,
           Settle(c, Settled(c.node, s, r), taskAfter),
           taskAfter.state = "accepted" => task.state = "accepted"
    PROVE  Quiet
<1>1. \A n \in Node \ {c.node} : Settled(c.node, s, r)[n] = node[n]
  BY ClaimFields, SettledElsewhere
<1>2. QED
  BY <1>1, SettleQuiet

\* Only the verifier's two verdicts are not quiet: one accepts the task, the other
\* takes accepted workers back, but never without taking the verifier back too.
LEMMA WorkerVerdict ==
    ASSUME TypeOK, VerdictInv, NEW c \in claims, WorkerStep(c)
    PROVE  VerdictInv'
<1> USE DEF process, rows
<1>1. CASE PrepareWorktree(c) \/ DropClaim(c)
  BY <1>1 DEF PrepareWorktree, DropClaim, VerdictInv
<1>2. CASE AssignPlain(c) \/ AssignAcceptedSourceRepair(c) \/ AssignFailedAttemptRecovery(c)
  <2>1. PICK bind : CommitTarget(c, bind)
    BY <1>2 DEF AssignPlain, AssignAcceptedSourceRepair, AssignFailedAttemptRecovery
  <2>2. \A n \in Node : node'[n].state = node[n].state
    BY <2>1, ClaimFields DEF CommitTarget, TypeOK, NodeRows
  <2>3. task' = task
    BY <2>1 DEF CommitTarget
  <2>4. QED
    BY <2>2, <2>3 DEF VerdictInv, Node
<1>3. CASE SettleAccepted(c)
  <2>1. PICK t : /\ Settle(c, Settled(c.node, "accepted", "succeeded"), t)
                 /\ t \in {SettledTask("verifying", FALSE), SettledTask("blocked", TRUE), task}
    BY <1>3 DEF SettleAccepted
  <2>2. t.state = "accepted" => task.state = "accepted"
    BY <2>1 DEF SettledTask, At
  <2>3. Quiet
    BY <2>1, <2>2, SettledQuiet
  <2>4. QED
    BY <2>3, QuietKeepsVerdict
<1>4. CASE SettleIndeterminate(c)
  <2>1. SettledTask("needs_approval", TRUE).state = "accepted" => task.state = "accepted"
    BY DEF SettledTask, At
  <2>2. QED
    BY <1>4, <2>1, SettledQuiet, QuietKeepsVerdict DEF SettleIndeterminate
<1>5. CASE SettleBlocked(c)
  <2>1. SettledTask("blocked", TRUE).state = "accepted" => task.state = "accepted"
    BY DEF SettledTask, At
  <2>2. QED
    BY <1>5, <2>1, SettledQuiet, QuietKeepsVerdict DEF SettleBlocked
<1>6. ASSUME NEW r \in {"blocked", "outside"}, SettleRetryable(c, r)
       PROVE  VerdictInv'
  <2> DEFINE back == [node EXCEPT ![c.node] = Requeued(@, CaptureOf(c.node, r))]
  <2>1. \A n \in Node \ {c.node} : back[n] = node[n]
    BY ClaimFields DEF TypeOK
  <2>2. /\ SettledTask("queued", FALSE).state = "accepted" => task.state = "accepted"
        /\ SettledTask("needs_fix", TRUE).state = "accepted" => task.state = "accepted"
    BY DEF SettledTask, At
  <2>3. CASE Settle(c, back, SettledTask("queued", FALSE))
    <3> HIDE DEF back
    <3>1. QED
      BY <2>1, <2>2, <2>3, SettleQuiet, QuietKeepsVerdict
  <2>4. CASE Settle(c, Settled(c.node, "blocked", r), SettledTask("needs_fix", TRUE))
    BY <2>2, <2>4, SettledQuiet, QuietKeepsVerdict
  <2>5. QED
    BY <1>6, <2>3, <2>4 DEF SettleRetryable
<1>7. ASSUME NEW r \in {"failed", "outside"}, SettleFailed(c, r)
       PROVE  VerdictInv'
  <2>1. SettledTask("needs_fix", TRUE).state = "accepted" => task.state = "accepted"
    BY DEF SettledTask, At
  <2>2. QED
    BY <1>7, <2>1, SettledQuiet, QuietKeepsVerdict DEF SettleFailed
<1>8. CASE SettleVerified(c)
  <2>1. node[Verifier].state = "running"
    BY <1>8 DEF SettleVerified, Settle, Fence
  <2>2. /\ node'[Verifier].state = "accepted"
        /\ \A w \in Worker : node'[w] = node[w]
    BY <1>8, GraphAssumption DEF SettleVerified, Settle, Settled, TypeOK, NodeRows, Node
  <2>3. QED
    BY <2>1, <2>2 DEF VerdictInv
<1>9. ASSUME NEW owners \in SUBSET Worker, SettleRejected(c, owners)
      PROVE  VerdictInv'
  <2>1. node[Verifier].state = "running"
    BY <1>9 DEF SettleRejected, Settle, Fence
  <2>2. SettledTask("queued", FALSE).state # "accepted" /\ SettledTask("needs_fix", TRUE).state # "accepted"
    BY <2>1 DEF VerdictInv, SettledTask, At
  <2>3. task'.state # "accepted"
    BY <1>9, <2>2 DEF SettleRejected, Settle
  <2>4. CASE node'[Verifier].state = "pending"
    BY <2>3, <2>4 DEF VerdictInv
  <2>5. CASE node' = Settled(Verifier, "failed", "failed")
    <3>1. \A w \in Worker : node'[w] = node[w]
      BY <2>5, SettledElsewhere, GraphAssumption DEF Node
    <3>2. QED
      BY <2>1, <2>3, <3>1 DEF VerdictInv
  <2>6. node' = Settled(Verifier, "failed", "failed") \/ node'[Verifier].state = "pending"
    <3>1. Requeued(node[Verifier], NoBind).state = "pending"
      BY RowFields DEF Requeued, NodeRows, Node
    <3>2. QED
      <4> DEFINE back == [n \in Node |->
                            CASE n = Verifier   -> Requeued(node[n], NoBind)
                              [] n \in owners   -> Requeued(node[n], RepairOf(n))
                              [] OTHER          -> node[n]]
      <4>1. back[Verifier].state = "pending"
        BY <3>1, GraphAssumption DEF Node
      <4>2. node' = back \/ node' = Settled(Verifier, "failed", "failed")
        BY <1>9 DEF SettleRejected, Settle
      <4> HIDE DEF back
      <4>3. QED
        BY <4>1, <4>2
  <2>7. QED
    BY <2>4, <2>5, <2>6
<1>10. CASE SettleUnassigned(c)
  BY <1>10, ClaimFields, RollbackQuiet, QuietKeepsVerdict DEF SettleUnassigned, Fence
<1>11. CASE ReconcileSettlementConflict(c)
  <2>1. task'.state = "accepted" => task.state = "accepted"
    BY <1>11 DEF ReconcileSettlementConflict, SetTask, At
  <2>2. node[c.node].state = "running" /\ c.node \in Node
    BY <1>11, ClaimFields DEF ReconcileSettlementConflict, Fence
  <2>3. Quiet
    BY <1>11, <2>1, <2>2 DEF ReconcileSettlementConflict, TypeOK, Quiet, Node
  <2>4. QED
    BY <2>3, QuietKeepsVerdict
<1>12. QED
  BY <1>1, <1>2, <1>3, <1>4, <1>5, <1>6, <1>7, <1>8, <1>9, <1>10, <1>11 DEF WorkerStep

LEMMA ControlQuiet ==
    ASSUME TypeOK, Control
    PROVE  Quiet
<1> USE DEF process, rows
<1>1. ASSUME NEW s \in {"paused", "cancelled"}, TransitionTask(s)
      PROVE  Quiet
  BY <1>1 DEF TransitionTask, SetTask, At, Quiet
<1>2. CASE QueueTask
  <2>1. task'.state = "queued"
    BY <1>2 DEF QueueTask, SetTask, At
  <2>2. \A n \in Node : node[n].state # "failed" => node'[n] = node[n]
    BY <1>2 DEF QueueTask
  <2>3. QED
    BY <2>1, <2>2 DEF Quiet, Node
<1>3. ASSUME NEW p \in open, NEW d \in {"retry", "fail", "cancel"}, DecideApproval(p, d)
      PROVE  Quiet
  <2>1. p[1] \in Node /\ node[p[1]].state = "indeterminate"
    BY <1>3 DEF DecideApproval, TypeOK
  <2>2. task'.state # "accepted"
    BY <1>3 DEF DecideApproval, SetTask, At, AfterDecision
  <2>3. QED
    BY <1>3, <2>1, <2>2 DEF DecideApproval, TypeOK, Quiet, Node
<1>4. ASSUME NEW n \in Node, NEW d \in {"retry", "fail", "cancel"}, ResolveIndeterminate(n, d)
      PROVE  Quiet
  <2>1. task'.state # "accepted"
    BY <1>4 DEF ResolveIndeterminate, SetTask, At, AfterDecision
  <2>2. QED
    BY <1>4, <2>1 DEF ResolveIndeterminate, TypeOK, Quiet, Node
<1>5. ASSUME NEW n \in Node, RetryBlockedNode(n)
      PROVE  Quiet
  <2>1. task'.state = "queued"
    BY <1>5 DEF RetryBlockedNode, SetTask, At
  <2>2. QED
    BY <1>5, <2>1 DEF RetryBlockedNode, TypeOK, Quiet, Node
<1>6. QED
  BY <1>1, <1>2, <1>3, <1>4, <1>5 DEF Control

LEMMA VerdictStep == TypeOK /\ VerdictInv /\ [Next]_vars => VerdictInv'
<1> SUFFICES ASSUME TypeOK, VerdictInv, [Next]_vars
             PROVE  VerdictInv'
  OBVIOUS
<1>1. CASE Process
  BY <1>1, ProcessVerdict
<1>2. ASSUME NEW c \in claims, WorkerStep(c)
      PROVE  VerdictInv'
  BY <1>2, WorkerVerdict
<1>3. CASE Control
  BY <1>3, ControlQuiet, QuietKeepsVerdict
<1>4. CASE UNCHANGED vars
  BY <1>4 DEF vars, rows, VerdictInv
<1>5. QED
  BY <1>1, <1>2, <1>3, <1>4 DEF Next

\* An accepted task has only accepted nodes, whatever was retried, repaired or
\* settled late on the way.
THEOREM AcceptedComplete == Spec => []AcceptedTaskComplete
<1>1. Init => VerdictInv
  BY GraphAssumption DEF Init, VerdictInv, NewRow, Node
<1>2. VerdictInv => AcceptedTaskComplete
  BY DEF VerdictInv, AcceptedTaskComplete, Node
<1>3. QED
  BY <1>1, <1>2, VerdictStep, TypeCorrect, PTL DEF Spec

-----------------------------------------------------------------------------
(* Pause and cancellation win over the workers.                             *)

LEMMA SettledTaskControlled ==
    ASSUME Controlled, NEW s, NEW b
    PROVE  SettledTask(s, b) = task
  BY DEF SettledTask

LEMMA ControlledStep ==
    ASSUME TypeOK, [Next]_vars, claims' # claims, Controlled
    PROVE  task' = task
<1> USE DEF process, rows
<1>1. CASE Process
  <2>1. ASSUME NEW n \in Node, ClaimReadyNode(n)
        PROVE  FALSE
    BY <2>1 DEF ClaimReadyNode, Claimable, Controlled
  <2>2. QED
    BY <1>1, <2>1
    DEF Process, Stop, ActivateCoordinator, BeginRecovery, EndRecovery, Serve, ReplayOrphan, RecoverInterrupted
<1>2. ASSUME NEW c \in claims, WorkerStep(c)
      PROVE  task' = task
  <2>1. CASE PrepareWorktree(c) \/ DropClaim(c)
    BY <2>1 DEF PrepareWorktree, DropClaim
  <2>2. CASE AssignPlain(c) \/ AssignAcceptedSourceRepair(c) \/ AssignFailedAttemptRecovery(c)
    BY <2>2 DEF AssignPlain, AssignAcceptedSourceRepair, AssignFailedAttemptRecovery, CommitTarget
  <2>3. CASE SettleAccepted(c)
    BY <2>3 DEF SettleAccepted, Settle, SettledTask
  <2>4. CASE SettleVerified(c) \/ SettleIndeterminate(c) \/ SettleBlocked(c)
    BY <2>4 DEF SettleVerified, SettleIndeterminate, SettleBlocked, Settle, SettledTask
  <2>5. ASSUME NEW r, SettleRetryable(c, r) \/ SettleFailed(c, r)
        PROVE  task' = task
    BY <2>5, SettledTaskControlled DEF SettleRetryable, SettleFailed, Settle
  <2>6. ASSUME NEW owners, SettleRejected(c, owners)
        PROVE  task' = task
    BY <2>6, SettledTaskControlled DEF SettleRejected, Settle
  <2>7. CASE SettleUnassigned(c)
    BY <2>7
    DEF SettleUnassigned, RollbackFailedAttemptRecovery, RollbackUnassignedAcceptedSourceRepair
  <2>8. CASE ReconcileSettlementConflict(c)
    BY <2>8 DEF ReconcileSettlementConflict
  <2>9. QED
    BY <1>2, <2>1, <2>2, <2>3, <2>4, <2>5, <2>6, <2>7, <2>8 DEF WorkerStep
<1>3. CASE Control
  BY <1>3 DEF Control, TransitionTask, QueueTask, DecideApproval, ResolveIndeterminate, RetryBlockedNode
<1>4. CASE UNCHANGED vars
  BY <1>4 DEF vars
<1>5. QED
  BY <1>1, <1>2, <1>3, <1>4 DEF Next

-----------------------------------------------------------------------------
(* An open approval is about an attempt that still waits for it.            *)

\* A step that moves no indeterminate row and asks nothing keeps every question.
LEMMA NothingAsked ==
    ASSUME TypeOK, OpenApprovalCurrent, open' \subseteq open,
           \A p \in open' : /\ node'[p[1]].state = node[p[1]].state
                            /\ node'[p[1]].attempt = node[p[1]].attempt
    PROVE  OpenApprovalCurrent'
  BY DEF OpenApprovalCurrent

\* A step that changes the one row of a node nobody asks about.
LEMMA RowNotAsked ==
    ASSUME TypeOK, OpenApprovalCurrent, open' \subseteq open, NEW n \in Node,
           node[n].state # "indeterminate",
           \A m \in Node \ {n} : node'[m] = node[m]
    PROVE  OpenApprovalCurrent'
<1>1. \A p \in open : p[1] \in Node
  BY DEF TypeOK
<1>2. \A p \in open' : p[1] # n
  BY DEF OpenApprovalCurrent
<1>3. QED
  BY <1>1, <1>2, NothingAsked

\* The row of the attempt asked about is made indeterminate by the step that asks.
LEMMA RowAsked ==
    ASSUME TypeOK, OpenApprovalCurrent, NEW n \in Node,
           node[n].state # "indeterminate",
           \A m \in Node \ {n} : node'[m] = node[m],
           node'[n].state = "indeterminate", node'[n].attempt = node[n].attempt,
           RequestApproval(Path(n)) \/ UNCHANGED approvals
    PROVE  OpenApprovalCurrent'
<1>1. open' \subseteq open \cup {Path(n)}
  BY DEF RequestApproval, approvals
<1>2. \A p \in open : p[1] \in Node /\ p[1] # n
  BY DEF TypeOK, OpenApprovalCurrent
<1>3. \A p \in open' : node'[p[1]].state = "indeterminate" /\ node'[p[1]].attempt = p[2]
  BY <1>1, <1>2 DEF OpenApprovalCurrent, Path
<1>4. QED
  BY <1>3 DEF OpenApprovalCurrent

LEMMA ProcessApproval ==
    ASSUME TypeOK, OpenApprovalCurrent, Process
    PROVE  OpenApprovalCurrent'
<1> USE DEF process, rows, trees, approvals
<1>1. CASE Stop \/ ActivateCoordinator \/ BeginRecovery \/ EndRecovery \/ Serve
  BY <1>1 DEF Stop, ActivateCoordinator, BeginRecovery, EndRecovery, Serve, OpenApprovalCurrent
<1>2. ASSUME NEW p \in replay, ReplayOrphan(p)
      PROVE  OpenApprovalCurrent'
  BY <1>2 DEF ReplayOrphan, OpenApprovalCurrent
<1>3. ASSUME NEW n \in Node, RecoverInterrupted(n)
      PROVE  OpenApprovalCurrent'
  <2>1. node[n].state = "running"
    BY <1>3 DEF RecoverInterrupted
  <2>2. CASE /\ RollbackFailedAttemptRecovery(n) \/ RollbackUnassignedAcceptedSourceRepair(n)
             /\ UNCHANGED approvals
    <3>1. \A m \in Node \ {n} : node'[m] = node[m]
      BY <2>2, RollbackRows
    <3>2. open' \subseteq open
      BY <2>2
    <3>3. QED
      BY <2>1, <3>1, <3>2, RowNotAsked
  <2>3. CASE /\ node' = [node EXCEPT ![n] = [@ EXCEPT !.state = "indeterminate",
                                                     !.result = "indeterminate"]]
             /\ RequestApproval(Path(n))
    <3>1. /\ \A m \in Node \ {n} : node'[m] = node[m]
          /\ node'[n].state = "indeterminate" /\ node'[n].attempt = node[n].attempt
      BY <2>3, RowFields DEF TypeOK, NodeRows
    <3>2. QED
      BY <2>1, <2>3, <3>1, RowAsked
  <2>4. QED
    BY <1>3, <2>2, <2>3 DEF RecoverInterrupted
<1>4. ASSUME NEW n \in Node, ClaimReadyNode(n)
      PROVE  OpenApprovalCurrent'
  <2>1. /\ node[n].state = "pending" /\ open' \subseteq open
        /\ \A m \in Node \ {n} : node'[m] = node[m]
    BY <1>4 DEF ClaimReadyNode, TypeOK
  <2>2. QED
    BY <2>1, RowNotAsked
<1>5. QED
  BY <1>1, <1>2, <1>3, <1>4 DEF Process

LEMMA SettledApproval ==
    ASSUME TypeOK, OpenApprovalCurrent, NEW c \in claims, NEW rowsAfter, NEW taskAfter,
           Settle(c, rowsAfter, taskAfter), UNCHANGED approvals,
           \A n \in Node \ {c.node} : rowsAfter[n] = node[n]
    PROVE  OpenApprovalCurrent'
  BY ClaimFields, RowNotAsked DEF Settle, Fence, approvals

LEMMA SettledRowApproval ==
    ASSUME TypeOK, OpenApprovalCurrent, NEW c \in claims, NEW s, NEW r, NEW taskAfter,
           Settle(c, Settled(c.node, s, r), taskAfter), UNCHANGED approvals
    PROVE  OpenApprovalCurrent'
<1>1. \A n \in Node \ {c.node} : Settled(c.node, s, r)[n] = node[n]
  BY ClaimFields, SettledElsewhere
<1>2. QED
  BY <1>1, SettledApproval

LEMMA WorkerApproval ==
    ASSUME TypeOK, OpenApprovalCurrent, NEW c \in claims, WorkerStep(c)
    PROVE  OpenApprovalCurrent'
<1> USE DEF process, rows, trees
<1>1. CASE PrepareWorktree(c) \/ DropClaim(c)
  BY <1>1 DEF PrepareWorktree, DropClaim, approvals, OpenApprovalCurrent
<1>2. CASE AssignPlain(c) \/ AssignAcceptedSourceRepair(c) \/ AssignFailedAttemptRecovery(c)
  <2>1. PICK bind : CommitTarget(c, bind)
    BY <1>2 DEF AssignPlain, AssignAcceptedSourceRepair, AssignFailedAttemptRecovery
  <2>2. \A n \in Node : node'[n].state = node[n].state /\ node'[n].attempt = node[n].attempt
    BY <2>1, ClaimFields DEF CommitTarget, TypeOK, NodeRows
  <2>3. open' = open /\ \A p \in open : p[1] \in Node
    BY <2>1 DEF CommitTarget, approvals, TypeOK
  <2>4. QED
    BY <2>2, <2>3, NothingAsked
<1>3. CASE SettleAccepted(c) \/ SettleBlocked(c) \/ \E r \in {"failed", "outside"} : SettleFailed(c, r)
  BY <1>3, SettledRowApproval DEF SettleAccepted, SettleBlocked, SettleFailed
<1>4. CASE SettleVerified(c)
  BY <1>4, SettledRowApproval DEF SettleVerified
<1>5. CASE SettleIndeterminate(c)
  <2>1. /\ node[c.node].state = "running" /\ Target(c) = Path(c.node) /\ c.node \in Node
    BY <1>5, ClaimFields DEF SettleIndeterminate, Settle, Fence, Target, Path
  <2>2. /\ \A m \in Node \ {c.node} : node'[m] = node[m]
        /\ node'[c.node].state = "indeterminate" /\ node'[c.node].attempt = node[c.node].attempt
    BY <1>5, <2>1, RowFields DEF SettleIndeterminate, Settle, Settled, TypeOK, NodeRows
  <2>3. QED
    BY <1>5, <2>1, <2>2, RowAsked DEF SettleIndeterminate
<1>6. ASSUME NEW r \in {"blocked", "outside"}, SettleRetryable(c, r)
      PROVE  OpenApprovalCurrent'
  <2> DEFINE back == [node EXCEPT ![c.node] = Requeued(@, CaptureOf(c.node, r))]
  <2>1. CASE Settle(c, back, SettledTask("queued", FALSE)) /\ UNCHANGED approvals
    <3>1. \A n \in Node \ {c.node} : back[n] = node[n]
      BY ClaimFields DEF TypeOK
    <3> HIDE DEF back
    <3>2. QED
      BY <2>1, <3>1, SettledApproval
  <2>2. CASE /\ Settle(c, Settled(c.node, "blocked", r), SettledTask("needs_fix", TRUE))
             /\ UNCHANGED approvals
    BY <2>2, SettledRowApproval
  <2>3. QED
    BY <1>6, <2>1, <2>2 DEF SettleRetryable
<1>7. ASSUME NEW owners \in SUBSET Worker, SettleRejected(c, owners)
      PROVE  OpenApprovalCurrent'
  <2> DEFINE back == [n \in Node |->
                        CASE n = Verifier   -> Requeued(node[n], NoBind)
                          [] n \in owners   -> Requeued(node[n], RepairOf(n))
                          [] OTHER          -> node[n]]
  <2>1. c.node = Verifier /\ UNCHANGED approvals
    BY <1>7 DEF SettleRejected
  <2>2. CASE Settle(c, back, SettledTask("queued", FALSE)) /\ Repairable(owners)
    <3>1. \A n \in Node : n \notin owners \cup {Verifier} => back[n] = node[n]
      OBVIOUS
    <3>2. node[Verifier].state = "running" /\ node' = back
      BY <2>1, <2>2 DEF Settle, Fence
    <3> HIDE DEF back
    <3>3. \A w \in owners : node[w].state = "accepted"
      BY <2>2 DEF Repairable
    <3>4. open' = open /\ \A p \in open : p[1] \in Node
      BY <2>1 DEF approvals, TypeOK
    <3>5. \A p \in open : node'[p[1]] = node[p[1]]
      BY <3>1, <3>2, <3>3, <3>4 DEF OpenApprovalCurrent
    <3>6. QED
      BY <3>4, <3>5, NothingAsked
  <2>3. CASE Settle(c, Settled(Verifier, "failed", "failed"), SettledTask("needs_fix", TRUE))
    BY <2>1, <2>3, SettledRowApproval
  <2>4. QED
    BY <1>7, <2>2, <2>3 DEF SettleRejected
<1>8. CASE SettleUnassigned(c)
  <2>1. /\ \A n \in Node \ {c.node} : node'[n] = node[n]
        /\ node[c.node].state = "running" /\ c.node \in Node /\ open' \subseteq open
    BY <1>8, ClaimFields, RollbackRows DEF SettleUnassigned, Fence, approvals
  <2>2. QED
    BY <2>1, RowNotAsked
<1>9. CASE ReconcileSettlementConflict(c)
  <2>1. /\ node[c.node].state = "running" /\ Target(c) = Path(c.node) /\ c.node \in Node
    BY <1>9, ClaimFields DEF ReconcileSettlementConflict, Fence, Target, Path
  <2>2. /\ \A m \in Node \ {c.node} : node'[m] = node[m]
        /\ node'[c.node].state = "indeterminate" /\ node'[c.node].attempt = node[c.node].attempt
    BY <1>9, <2>1, RowFields DEF ReconcileSettlementConflict, TypeOK, NodeRows
  <2>3. QED
    BY <1>9, <2>1, <2>2, RowAsked DEF ReconcileSettlementConflict
<1>10. QED
  BY <1>1, <1>2, <1>3, <1>4, <1>5, <1>6, <1>7, <1>8, <1>9 DEF WorkerStep

LEMMA ControlApproval ==
    ASSUME TypeOK, OpenApprovalCurrent, Control
    PROVE  OpenApprovalCurrent'
<1> USE DEF process, rows, trees, approvals
<1>1. ASSUME NEW s \in {"paused", "cancelled"}, TransitionTask(s)
      PROVE  OpenApprovalCurrent'
  BY <1>1 DEF TransitionTask, OpenApprovalCurrent
<1>2. CASE QueueTask
  <2>1. open' = open /\ \A p \in open : p[1] \in Node
    BY <1>2 DEF QueueTask, TypeOK
  <2>2. \A n \in Node : node[n].state # "failed" => node'[n] = node[n]
    BY <1>2 DEF QueueTask
  <2>3. \A p \in open : node'[p[1]] = node[p[1]]
    BY <2>1, <2>2 DEF OpenApprovalCurrent
  <2>4. QED
    BY <2>1, <2>3, NothingAsked
<1>3. ASSUME NEW p \in open, NEW d \in {"retry", "fail", "cancel"}, DecideApproval(p, d)
      PROVE  OpenApprovalCurrent'
  <2>1. /\ \A q \in open : /\ q \in Node \X Nat
                           /\ q[2] = node[q[1]].attempt
        /\ open' = open \ {p}
    BY <1>3 DEF DecideApproval, TypeOK, OpenApprovalCurrent
  <2>2. \A q \in open' : q[1] # p[1]
    BY <2>1
  <2>3. \A q \in open' : node'[q[1]] = node[q[1]]
    BY <1>3, <2>1, <2>2 DEF DecideApproval, TypeOK
  <2>4. QED
    BY <2>1, <2>3, NothingAsked
<1>4. ASSUME NEW n \in Node, NEW d \in {"retry", "fail", "cancel"}, ResolveIndeterminate(n, d)
      PROVE  OpenApprovalCurrent'
  <2>1. open' = open /\ \A p \in open : p[1] \in Node /\ p[1] # n
    BY <1>4 DEF ResolveIndeterminate, NobodyAsked, TypeOK
  <2>2. \A p \in open : node'[p[1]] = node[p[1]]
    BY <1>4, <2>1 DEF ResolveIndeterminate, TypeOK
  <2>3. QED
    BY <2>1, <2>2, NothingAsked
<1>5. ASSUME NEW n \in Node, RetryBlockedNode(n)
      PROVE  OpenApprovalCurrent'
  <2>1. /\ node[n].state # "indeterminate" /\ open' \subseteq open
        /\ \A m \in Node \ {n} : node'[m] = node[m]
    BY <1>5 DEF RetryBlockedNode, TypeOK
  <2>2. QED
    BY <2>1, RowNotAsked
<1>6. QED
  BY <1>1, <1>2, <1>3, <1>4, <1>5 DEF Control

LEMMA ApprovalStep == TypeOK /\ OpenApprovalCurrent /\ [Next]_vars => OpenApprovalCurrent'
<1> SUFFICES ASSUME TypeOK, OpenApprovalCurrent, [Next]_vars
             PROVE  OpenApprovalCurrent'
  OBVIOUS
<1>1. CASE Process
  BY <1>1, ProcessApproval
<1>2. ASSUME NEW c \in claims, WorkerStep(c)
      PROVE  OpenApprovalCurrent'
  BY <1>2, WorkerApproval
<1>3. CASE Control
  BY <1>3, ControlApproval
<1>4. CASE UNCHANGED vars
  BY <1>4 DEF vars, rows, approvals, OpenApprovalCurrent
<1>5. QED
  BY <1>1, <1>2, <1>3, <1>4 DEF Next

\* The operator is asked only about attempts that still wait for his decision.
THEOREM ApprovalsAreCurrent == Spec => []OpenApprovalCurrent
<1>1. Init => OpenApprovalCurrent
  BY DEF Init, OpenApprovalCurrent
<1>2. QED
  BY <1>1, ApprovalStep, TypeCorrect, PTL DEF Spec

(***************************************************************************)
(* Leases: no attempt of a worker node overtakes one that still writes.    *)
(***************************************************************************)

\* Lease numbers are handed out once, and the row of a running node carries the
\* newest lease of that node.
LeaseInv ==
    /\ \A c \in claims : c.lease <= leases /\ c.attempt >= 1
    /\ \A c, d \in claims : c.lease = d.lease => c = d
    /\ \A c \in claims : node[c.node].state = "running" => c.lease <= node[c.node].lease

\* The node of c is still c's: it runs under c's lease in a worktree, or it waits
\* for the operator (or was given up by him) with that worktree attached.
Held(c) ==
    LET row == node[c.node]
    IN  /\ row.worktree # 0
        /\ \/ row.state = "running" /\ row.lease = c.lease /\ row.bind.kind # "capture_pending"
           \/ row.state \in {"indeterminate", "failed", "cancelled"} /\ row.result = "indeterminate"

Writer(c) == c.step = "assigned" /\ c.node \in Worker

\* An attempt that got its worktree holds its node, and is its newest attempt.
HolderInv ==
    \A c \in claims : Writer(c) =>
        /\ Held(c)
        /\ \A d \in claims : d.node = c.node => d.lease <= c.lease

LEMMA WriterFields ==
    ASSUME TypeOK, HolderInv, NEW c \in claims, Writer(c)
    PROVE  /\ c.node \in Node
           /\ node[c.node].state \in {"running", "indeterminate", "failed", "cancelled"}
           /\ node[c.node].state = "running" =>
                 node[c.node].lease = c.lease /\ ~Unassigned(c.node)
           /\ node[c.node].state # "running" => node[c.node].result = "indeterminate"
           /\ node[c.node].worktree # 0
  BY ClaimFields DEF HolderInv, Held, Unassigned

\* The worker of the current lease is alone on its node.
LEMMA FencedAlone ==
    ASSUME TypeOK, LeaseInv, HolderInv, NEW c \in claims, Fence(c),
           NEW d \in claims, Writer(d), d.node = c.node
    PROVE  d = c
<1>1. node[c.node].state = "running" /\ node[c.node].lease = c.lease
  BY DEF Fence
<1>2. d.lease = c.lease
  BY <1>1, WriterFields
<1>3. QED
  BY <1>2 DEF LeaseInv

\* A step that starts no claim keeps both invariants when the writers that remain
\* keep their nodes and no row starts to run.
LEMMA FewerClaims ==
    ASSUME TypeOK, LeaseInv, HolderInv,
           claims' \subseteq claims, leases' = leases,
           \A c \in claims' : node'[c.node].state = "running" =>
              node[c.node].state = "running" /\ node'[c.node].lease = node[c.node].lease,
           \A c \in claims' : Writer(c) => Held(c)'
    PROVE  LeaseInv' /\ HolderInv'
<1>1. LeaseInv'
  BY DEF LeaseInv
<1>2. HolderInv'
  BY DEF HolderInv, Writer
<1>3. QED
  BY <1>1, <1>2

LEMMA SameRow ==
    ASSUME HolderInv, NEW c \in claims, Writer(c), node'[c.node] = node[c.node]
    PROVE  Held(c)'
  BY DEF HolderInv, Held

LEMMA UnchangedLease ==
    ASSUME TypeOK, LeaseInv, HolderInv, claims' \subseteq claims, leases' = leases, node' = node
    PROVE  LeaseInv' /\ HolderInv'
  BY FewerClaims, SameRow

\* A settlement removes the only writer of the node it changes.
LEMMA SettledLease ==
    ASSUME TypeOK, LeaseInv, HolderInv, NEW c \in claims, Fence(c),
           claims' = claims \ {c}, leases' = leases,
           \A n \in Node \ {c.node} : node'[n] = node[n],
           node'[c.node].state # "running"
    PROVE  LeaseInv' /\ HolderInv'
<1>1. ASSUME NEW d \in claims', Writer(d)
      PROVE  Held(d)'
  <2>1. d \in claims /\ d.node # c.node
    BY <1>1, FencedAlone
  <2>2. QED
    BY <1>1, <2>1, ClaimFields, SameRow
<1>2. ASSUME NEW d \in claims', node'[d.node].state = "running"
      PROVE  node[d.node].state = "running" /\ node'[d.node].lease = node[d.node].lease
  BY <1>2, ClaimFields
<1>3. QED
  BY <1>1, <1>2, FewerClaims

\* Only rows that no writer holds are replaced, by rows that do not run.
LEMMA ReplacedLease ==
    ASSUME TypeOK, LeaseInv, HolderInv, NEW n \in Node,
           claims' = claims, leases' = leases,
           \A m \in Node \ {n} : node'[m] = node[m],
           node'[n].state # "running",
           n \in Worker => \/ node[n].state \in {"pending", "accepted", "blocked"}
                           \/ node[n].worktree = 0
                           \/ /\ node'[n].state \in {"indeterminate", "failed", "cancelled"}
                              /\ node'[n].result = "indeterminate"
                              /\ node'[n].worktree = node[n].worktree
    PROVE  LeaseInv' /\ HolderInv'
<1>1. ASSUME NEW d \in claims, Writer(d)
      PROVE  Held(d)'
  <2>1. CASE d.node # n
    BY <1>1, <2>1, ClaimFields, SameRow
  <2>2. CASE d.node = n
    BY <1>1, <2>2, WriterFields DEF Held, Writer
  <2>3. QED
    BY <2>1, <2>2
<1>2. ASSUME NEW d \in claims, node'[d.node].state = "running"
      PROVE  node[d.node].state = "running" /\ node'[d.node].lease = node[d.node].lease
  BY <1>2, ClaimFields
<1>3. QED
  BY <1>1, <1>2, FewerClaims

LEMMA ClaimLease ==
    ASSUME TypeOK, LeaseInv, HolderInv, NEW n \in Node, ClaimReadyNode(n)
    PROVE  LeaseInv' /\ HolderInv'
<1> DEFINE new == [node |-> n, attempt |-> node[n].attempt + 1, epoch |-> epoch,
                   lease |-> leases + 1, step |-> "claimed"]
<1>1. /\ leases' = leases + 1 /\ leases \in Nat /\ node[n].attempt \in Nat
      /\ claims' = claims \cup {new}
      /\ node[n].state = "pending"
      /\ \A m \in Node \ {n} : node'[m] = node[m]
      /\ node'[n].lease = leases + 1
  BY RowFields DEF ClaimReadyNode, NextLeaseEpoch, TypeOK, NodeRows
<1>2. \A c \in claims : c.lease \in Nat /\ c.lease <= leases /\ c.node \in Node
  BY ClaimFields DEF LeaseInv
<1>3. LeaseInv'
  <2>1. \A c \in claims' : c.lease <= leases' /\ c.attempt >= 1
    BY <1>1, <1>2 DEF LeaseInv
  <2>2. \A c, d \in claims' : c.lease = d.lease => c = d
    BY <1>1, <1>2 DEF LeaseInv
  <2>3. \A c \in claims' : node'[c.node].state = "running" => c.lease <= node'[c.node].lease
    BY <1>1, <1>2 DEF LeaseInv
  <2>4. QED
    BY <2>1, <2>2, <2>3 DEF LeaseInv
<1>4. HolderInv'
  <2>1. SUFFICES ASSUME NEW c \in claims', Writer(c)
                 PROVE  /\ Held(c)'
                        /\ \A d \in claims' : d.node = c.node => d.lease <= c.lease
    BY DEF HolderInv, Writer
  <2>2. c \in claims
    BY <1>1, <2>1 DEF Writer
  <2>3. c.node # n
    BY <1>1, <2>1, <2>2, WriterFields
  <2>4. Held(c)'
    BY <1>1, <2>1, <2>2, <2>3, ClaimFields, SameRow
  <2>5. \A d \in claims' : d.node = c.node => d.lease <= c.lease
    BY <1>1, <2>1, <2>2, <2>3 DEF HolderInv
  <2>6. QED
    BY <2>4, <2>5
<1>5. QED
  BY <1>3, <1>4

LEMMA RecoverInterruptedLease ==
    ASSUME TypeOK, LeaseInv, HolderInv, NEW n \in Node, RecoverInterrupted(n)
    PROVE  LeaseInv' /\ HolderInv'
<1> USE DEF process
<1>1. claims' = claims /\ leases' = leases
  BY DEF RecoverInterrupted
<1>2. CASE RollbackFailedAttemptRecovery(n) \/ RollbackUnassignedAcceptedSourceRepair(n)
  <2>1. /\ \A m \in Node \ {n} : node'[m] = node[m]
        /\ node'[n].state # "running"
    BY <1>2, RollbackRows
  <2>2. \A c \in claims : Writer(c) => c.node # n
    <3>1. Unassigned(n)
      BY <1>2 DEF RollbackFailedAttemptRecovery, RollbackUnassignedAcceptedSourceRepair, Unassigned
    <3>2. node[n].state = "running"
      BY DEF RecoverInterrupted
    <3>3. QED
      BY <3>1, <3>2, WriterFields
  <2>3. \A c \in claims : Writer(c) => Held(c)'
    BY <2>1, <2>2, ClaimFields, SameRow
  <2>4. \A c \in claims : node'[c.node].state = "running" =>
              node[c.node].state = "running" /\ node'[c.node].lease = node[c.node].lease
    BY <2>1, ClaimFields
  <2>5. QED
    BY <1>1, <2>3, <2>4, FewerClaims
<1>3. CASE node' = [node EXCEPT ![n] = [@ EXCEPT !.state = "indeterminate",
                                                !.result = "indeterminate"]]
  <2>1. /\ \A m \in Node \ {n} : node'[m] = node[m]
        /\ node'[n].state = "indeterminate" /\ node'[n].result = "indeterminate"
        /\ node'[n].worktree = node[n].worktree
    BY <1>3, RowFields DEF TypeOK, NodeRows
  <2>2. QED
    BY <1>1, <2>1, ReplacedLease
<1>4. QED
  BY <1>2, <1>3 DEF RecoverInterrupted

\* Moving a claim on leaves its lease where it was.
LEMMA AdvanceLease ==
    ASSUME TypeOK, LeaseInv, NEW c \in claims, NEW s \in {"prepared", "assigned"},
           Advance(c, s), leases' = leases,
           \A n \in Node : node'[n].state = node[n].state /\ node'[n].lease = node[n].lease
    PROVE  /\ LeaseInv'
           /\ [c EXCEPT !.step = s] \in claims'
           /\ \A d \in claims' : d = [c EXCEPT !.step = s] \/ d \in claims \ {c}
<1> DEFINE moved == [c EXCEPT !.step = s]
<1>1. /\ moved.lease = c.lease /\ moved.node = c.node /\ moved.attempt = c.attempt
      /\ c.node \in Node
  BY ClaimFields DEF Claims
<1>2. claims' = (claims \ {c}) \cup {moved}
  BY DEF Advance
<1> HIDE DEF moved
<1>3. \A d \in claims' : \E e \in claims : d.lease = e.lease /\ d.node = e.node /\ d.attempt = e.attempt
  BY <1>1, <1>2
<1>4. \A d \in claims : d.node \in Node
  BY ClaimFields
<1>5. \A d \in claims' : /\ d.lease <= leases' /\ d.attempt >= 1
                         /\ node'[d.node].state = "running" => d.lease <= node'[d.node].lease
  BY <1>3, <1>4 DEF LeaseInv
<1>6. \A d, e \in claims' : d.lease = e.lease => d = e
  BY <1>1, <1>2 DEF LeaseInv
<1>7. LeaseInv'
  BY <1>5, <1>6 DEF LeaseInv
<1>8. QED
  BY <1>2, <1>7 DEF moved

LEMMA PrepareLease ==
    ASSUME TypeOK, LeaseInv, HolderInv, NEW c \in claims, PrepareWorktree(c)
    PROVE  LeaseInv' /\ HolderInv'
<1> DEFINE moved == [c EXCEPT !.step = "prepared"]
<1> USE DEF process, rows
<1>1. node' = node /\ leases' = leases /\ Advance(c, "prepared") /\ c.step = "claimed"
  BY DEF PrepareWorktree
<1>2. /\ LeaseInv'
      /\ \A d \in claims' : d = moved \/ d \in claims \ {c}
  BY <1>1, AdvanceLease
<1>3. moved.node = c.node /\ moved.lease = c.lease /\ moved.step = "prepared"
  BY ClaimFields DEF Claims
<1> HIDE DEF moved
<1>4. HolderInv'
  <2>1. SUFFICES ASSUME NEW d \in claims', Writer(d)
                 PROVE  /\ Held(d)'
                        /\ \A e \in claims' : e.node = d.node => e.lease <= d.lease
    BY DEF HolderInv, Writer
  <2>2. d \in claims
    BY <1>2, <1>3, <2>1 DEF Writer
  <2>3. Held(d)'
    BY <1>1, <2>1, <2>2, SameRow
  <2>4. \A e \in claims' : e.node = d.node => e.lease <= d.lease
    BY <1>2, <1>3, <2>1, <2>2 DEF HolderInv
  <2>5. QED
    BY <2>3, <2>4
<1>5. QED
  BY <1>2, <1>4

LEMMA CommitLease ==
    ASSUME TypeOK, LeaseInv, HolderInv, NEW c \in claims, Fence(c),
           NEW bind \in Binds, bind.kind # "capture_pending", CommitTarget(c, bind)
    PROVE  LeaseInv' /\ HolderInv'
<1> DEFINE moved == [c EXCEPT !.step = "assigned"]
<1> USE DEF process
<1>1. /\ leases' = leases /\ Advance(c, "assigned")
      /\ c.node \in Node /\ c.attempt \in Nat /\ c.attempt # 0
      /\ node[c.node].state = "running" /\ node[c.node].lease = c.lease
  BY ClaimFields DEF CommitTarget, Fence, LeaseInv
<1>2. /\ \A n \in Node \ {c.node} : node'[n] = node[n]
      /\ node'[c.node].state = "running" /\ node'[c.node].lease = c.lease
      /\ node'[c.node].worktree = c.attempt /\ node'[c.node].bind = bind
  BY <1>1, RowFields DEF CommitTarget, TypeOK, NodeRows
<1>3. \A n \in Node : node'[n].state = node[n].state /\ node'[n].lease = node[n].lease
  BY <1>1, <1>2
<1>4. /\ LeaseInv'
      /\ \A d \in claims' : d = moved \/ d \in claims \ {c}
  BY <1>1, <1>3, AdvanceLease
<1>5. moved.node = c.node /\ moved.lease = c.lease
  BY ClaimFields DEF Claims
<1> HIDE DEF moved
<1>6. HolderInv'
  <2>1. SUFFICES ASSUME NEW d \in claims', Writer(d)
                 PROVE  /\ Held(d)'
                        /\ \A e \in claims' : e.node = d.node => e.lease <= d.lease
    BY DEF HolderInv, Writer
  <2>2. CASE d = moved
    <3>1. Held(d)'
      BY <1>1, <1>2, <1>5, <2>2 DEF Held
    <3>2. \A e \in claims' : e.node = d.node => e.lease <= d.lease
      BY <1>2, <1>4, <1>5, <2>2 DEF LeaseInv
    <3>3. QED
      BY <3>1, <3>2
  <2>3. CASE d \in claims \ {c}
    <3>1. d.node # c.node
      BY <2>1, <2>3, FencedAlone
    <3>2. Held(d)'
      BY <1>2, <2>1, <2>3, <3>1, ClaimFields, SameRow
    <3>3. \A e \in claims' : e.node = d.node => e.lease <= d.lease
      BY <1>4, <1>5, <2>1, <2>3, <3>1 DEF HolderInv
    <3>4. QED
      BY <3>2, <3>3
  <2>4. QED
    BY <1>4, <2>1, <2>2, <2>3
<1>7. QED
  BY <1>4, <1>6

\* A settlement on the row of its own worker.
LEMMA SettleLease ==
    ASSUME TypeOK, LeaseInv, HolderInv, NEW c \in claims, NEW rowsAfter, NEW taskAfter,
           Settle(c, rowsAfter, taskAfter),
           \A n \in Node \ {c.node} : rowsAfter[n] = node[n],
           rowsAfter[c.node].state # "running"
    PROVE  LeaseInv' /\ HolderInv'
  BY SettledLease DEF Settle, process

LEMMA SettledRowLease ==
    ASSUME TypeOK, LeaseInv, HolderInv, NEW c \in claims, NEW s, NEW r, NEW taskAfter,
           Settle(c, Settled(c.node, s, r), taskAfter), s # "running"
    PROVE  LeaseInv' /\ HolderInv'
<1>1. /\ \A n \in Node \ {c.node} : Settled(c.node, s, r)[n] = node[n]
      /\ Settled(c.node, s, r)[c.node].state = s
  BY ClaimFields, RowFields DEF TypeOK, Settled, NodeRows
<1>2. QED
  BY <1>1, SettleLease

\* A verdict takes back accepted rows, which no writer holds.
LEMMA RejectedLease ==
    ASSUME TypeOK, LeaseInv, HolderInv, NEW c \in claims, NEW owners \in SUBSET Worker,
           SettleRejected(c, owners)
    PROVE  LeaseInv' /\ HolderInv'
<1> DEFINE back == [n \in Node |->
                      CASE n = Verifier   -> Requeued(node[n], NoBind)
                        [] n \in owners   -> Requeued(node[n], RepairOf(n))
                        [] OTHER          -> node[n]]
<1>1. c.node = Verifier
  BY DEF SettleRejected
<1>2. CASE Settle(c, back, SettledTask("queued", FALSE)) /\ Repairable(owners)
  <2>1. \A n \in Node : back[n] = node[n] \/ back[n].state = "pending"
    <3>1. ASSUME NEW n \in Node
          PROVE  /\ Requeued(node[n], NoBind).state = "pending"
                 /\ Requeued(node[n], RepairOf(n)).state = "pending"
      BY RowFields, NoBindType, RecoveryBindType, RequeuedFields
    <3>2. QED
      BY <3>1
  <2>2. \A n \in Node \ owners : n # Verifier => back[n] = node[n]
    OBVIOUS
  <2>3. claims' = claims \ {c} /\ leases' = leases /\ node' = back
    BY <1>2 DEF Settle, process
  <2> HIDE DEF back
  <2>4. \A w \in owners : node[w].state = "accepted"
    BY <1>2 DEF Repairable
  <2>5. ASSUME NEW d \in claims', Writer(d)
        PROVE  Held(d)'
    <3>1. d \in claims /\ d.node \in Worker /\ d.node \notin owners
      BY <2>3, <2>4, <2>5, WriterFields DEF Writer
    <3>2. node'[d.node] = node[d.node]
      BY <2>2, <2>3, <3>1, ClaimFields, GraphAssumption
    <3>3. QED
      BY <2>5, <3>1, <3>2, SameRow
  <2>6. ASSUME NEW d \in claims', node'[d.node].state = "running"
        PROVE  node[d.node].state = "running" /\ node'[d.node].lease = node[d.node].lease
    BY <2>1, <2>3, <2>6, ClaimFields
  <2>7. QED
    BY <2>3, <2>5, <2>6, FewerClaims
<1>3. CASE Settle(c, Settled(Verifier, "failed", "failed"), SettledTask("needs_fix", TRUE))
  BY <1>1, <1>3, SettledRowLease
<1>4. QED
  BY <1>2, <1>3 DEF SettleRejected

LEMMA WorkerLease ==
    ASSUME TypeOK, LeaseInv, HolderInv, NEW c \in claims, WorkerStep(c)
    PROVE  LeaseInv' /\ HolderInv'
<1> USE DEF process, rows
<1>1. CASE PrepareWorktree(c)
  BY <1>1, PrepareLease
<1>2. CASE AssignPlain(c) \/ AssignAcceptedSourceRepair(c)
  <2>1. NoBind.kind # "capture_pending"
    BY DEF NoBind
  <2>2. QED
    BY <1>2, <2>1, NoBindType, CommitLease DEF AssignPlain, AssignAcceptedSourceRepair
<1>3. CASE AssignFailedAttemptRecovery(c)
  <2> DEFINE kept == [node[c.node].bind EXCEPT !.kind = "assigned"]
  <2>1. /\ NoBind \in Binds /\ NoBind.kind # "capture_pending"
        /\ kept \in Binds /\ kept.kind # "capture_pending"
    BY ClaimFields, RowFields, NoBindType DEF NoBind, Binds, BindKinds
  <2>2. PICK bind \in {NoBind, kept} : CommitTarget(c, bind)
    BY <1>3 DEF AssignFailedAttemptRecovery
  <2>3. Fence(c)
    BY <1>3 DEF AssignFailedAttemptRecovery
  <2> HIDE DEF kept
  <2>4. QED
    BY <2>1, <2>2, <2>3, CommitLease
<1>4. CASE SettleAccepted(c)
  BY <1>4, SettledRowLease DEF SettleAccepted
<1>5. CASE SettleVerified(c)
  BY <1>5, SettledRowLease DEF SettleVerified
<1>6. CASE SettleIndeterminate(c)
  BY <1>6, SettledRowLease DEF SettleIndeterminate
<1>7. CASE SettleBlocked(c)
  BY <1>7, SettledRowLease DEF SettleBlocked
<1>8. ASSUME NEW r \in {"blocked", "outside"}, SettleRetryable(c, r)
      PROVE  LeaseInv' /\ HolderInv'
  <2> DEFINE back == [node EXCEPT ![c.node] = Requeued(@, CaptureOf(c.node, r))]
  <2>1. CASE Settle(c, back, SettledTask("queued", FALSE))
    <3>1. CaptureOf(c.node, r) \in Binds
      BY ClaimFields, RecoveryBindType DEF Results
    <3>2. /\ \A n \in Node \ {c.node} : back[n] = node[n]
          /\ back[c.node].state = "pending"
      BY <3>1, ClaimFields, RowFields, RequeuedFields DEF TypeOK
    <3> HIDE DEF back
    <3>3. QED
      BY <2>1, <3>2, SettleLease
  <2>2. CASE Settle(c, Settled(c.node, "blocked", r), SettledTask("needs_fix", TRUE))
    BY <2>2, SettledRowLease
  <2>3. QED
    BY <1>8, <2>1, <2>2 DEF SettleRetryable
<1>9. ASSUME NEW r \in {"failed", "outside"}, SettleFailed(c, r)
      PROVE  LeaseInv' /\ HolderInv'
  BY <1>9, SettledRowLease DEF SettleFailed
<1>10. ASSUME NEW owners \in SUBSET Worker, SettleRejected(c, owners)
       PROVE  LeaseInv' /\ HolderInv'
  BY <1>10, RejectedLease
<1>11. CASE SettleUnassigned(c)
  <2>1. RollbackFailedAttemptRecovery(c.node) \/ RollbackUnassignedAcceptedSourceRepair(c.node)
    BY <1>11 DEF SettleUnassigned
  <2>2. /\ \A n \in Node \ {c.node} : node'[n] = node[n]
        /\ node'[c.node].state # "running"
    BY <2>1, ClaimFields, RollbackRows
  <2>3. QED
    BY <1>11, <2>2, SettledLease DEF SettleUnassigned
<1>12. CASE ReconcileSettlementConflict(c)
  <2>1. /\ \A n \in Node \ {c.node} : node'[n] = node[n]
        /\ node'[c.node].state # "running"
    BY <1>12, ClaimFields, RowFields DEF ReconcileSettlementConflict, TypeOK, NodeRows
  <2>2. QED
    BY <1>12, <2>1, SettledLease DEF ReconcileSettlementConflict
<1>13. CASE DropClaim(c)
  BY <1>13, UnchangedLease DEF DropClaim
<1>14. QED
  BY <1>1, <1>2, <1>3, <1>4, <1>5, <1>6, <1>7, <1>8, <1>9, <1>10, <1>11, <1>12, <1>13 DEF WorkerStep

LEMMA ProcessLease ==
    ASSUME TypeOK, LeaseInv, HolderInv, Process
    PROVE  LeaseInv' /\ HolderInv'
<1> USE DEF process, rows
<1>1. CASE Stop \/ ActivateCoordinator \/ BeginRecovery \/ EndRecovery \/ Serve
  BY <1>1, UnchangedLease DEF Stop, ActivateCoordinator, BeginRecovery, EndRecovery, Serve
<1>2. ASSUME NEW p \in replay, ReplayOrphan(p)
      PROVE  LeaseInv' /\ HolderInv'
  BY <1>2, UnchangedLease DEF ReplayOrphan
<1>3. QED
  BY <1>1, <1>2, RecoverInterruptedLease, ClaimLease DEF Process

\* The operator may fail or cancel a node somebody still writes, but not retry it.
LEMMA ResolvedLease ==
    ASSUME TypeOK, LeaseInv, HolderInv, NEW n \in Node, NEW d \in {"retry", "fail", "cancel"},
           node[n].state = "indeterminate",
           d = "retry" => RetryIsSafe(n),
           node' = [node EXCEPT ![n] = ResolvedRow(n, d)],
           claims' = claims, leases' = leases
    PROVE  LeaseInv' /\ HolderInv'
<1>1. \A m \in Node \ {n} : node'[m] = node[m]
  BY DEF TypeOK
<1>2. CASE d = "retry"
  <2>1. node'[n].state = "pending"
    BY <1>2, RowFields DEF ResolvedRow, TypeOK, NodeRows
  <2>2. n \in Worker => node[n].worktree = 0
    BY <1>2, GraphAssumption DEF RetryIsSafe
  <2>3. \A c \in claims : Writer(c) => c.node # n
    BY <2>2, WriterFields DEF Writer
  <2>4. QED
    BY <1>1, <2>1, <2>2, ReplacedLease
<1>3. CASE d \in {"fail", "cancel"}
  <2>1. /\ node'[n].state \in {"failed", "cancelled"}
        /\ node'[n].result = node[n].result /\ node'[n].worktree = node[n].worktree
    BY <1>3, RowFields DEF ResolvedRow, TypeOK, NodeRows
  <2>2. \A c \in claims : Writer(c) => Held(c)'
    <3>1. ASSUME NEW c \in claims, Writer(c), c.node = n
          PROVE  Held(c)'
      BY <2>1, <3>1, WriterFields DEF Held
    <3>2. ASSUME NEW c \in claims, Writer(c), c.node # n
          PROVE  Held(c)'
      BY <1>1, <3>2, ClaimFields, SameRow
    <3>3. QED
      BY <3>1, <3>2
  <2>3. \A c \in claims : node'[c.node].state = "running" =>
            node[c.node].state = "running" /\ node'[c.node].lease = node[c.node].lease
    BY <1>1, <2>1, ClaimFields
  <2>4. QED
    BY <2>2, <2>3, FewerClaims
<1>4. QED
  BY <1>2, <1>3

LEMMA ControlLease ==
    ASSUME TypeOK, LeaseInv, HolderInv, Control
    PROVE  LeaseInv' /\ HolderInv'
<1> USE DEF process, rows
<1>1. ASSUME NEW s \in {"paused", "cancelled"}, TransitionTask(s)
      PROVE  LeaseInv' /\ HolderInv'
  BY <1>1, UnchangedLease DEF TransitionTask
<1>2. CASE QueueTask
  <2> DEFINE failed == {n \in Node : task.state = "needs_fix" /\ node[n].state = "failed"}
  <2>1. /\ claims' = claims /\ leases' = leases
        /\ node' = [n \in Node |-> IF n \in failed THEN ResetFailed(n) ELSE node[n]]
        /\ \A n \in failed : node[n].state = "failed" /\ node[n].result \in {"failed", "blocked"}
    BY <1>2 DEF QueueTask, Authorizable
  <2>2. \A n \in failed : ResetFailed(n).state = "pending"
    BY RowFields, RecoveryBindType, RequeuedFields DEF ResetFailed, NodeRows
  <2> HIDE DEF failed
  <2>3. \A c \in claims : Writer(c) => node'[c.node] = node[c.node]
    BY <2>1, WriterFields
  <2>4. \A c \in claims : node'[c.node].state = "running" => node'[c.node] = node[c.node]
    BY <2>1, <2>2, ClaimFields
  <2>5. QED
    BY <2>1, <2>3, <2>4, SameRow, FewerClaims
<1>3. ASSUME NEW p \in open, NEW d \in {"retry", "fail", "cancel"}, DecideApproval(p, d)
      PROVE  LeaseInv' /\ HolderInv'
  <2>1. p[1] \in Node
    BY DEF TypeOK
  <2>2. QED
    BY <1>3, <2>1, ResolvedLease DEF DecideApproval
<1>4. ASSUME NEW n \in Node, NEW d \in {"retry", "fail", "cancel"}, ResolveIndeterminate(n, d)
      PROVE  LeaseInv' /\ HolderInv'
  BY <1>4, ResolvedLease DEF ResolveIndeterminate
<1>5. ASSUME NEW n \in Node, RetryBlockedNode(n)
      PROVE  LeaseInv' /\ HolderInv'
  <2>1. /\ \A m \in Node \ {n} : node'[m] = node[m]
        /\ node'[n].state = "pending" /\ node[n].state = "blocked"
    BY <1>5, RowFields DEF RetryBlockedNode, TypeOK, NodeRows
  <2>2. QED
    BY <1>5, <2>1, ReplacedLease DEF RetryBlockedNode
<1>6. QED
  BY <1>1, <1>2, <1>3, <1>4, <1>5 DEF Control

LEMMA LeaseStep == TypeOK /\ LeaseInv /\ HolderInv /\ [Next]_vars => LeaseInv' /\ HolderInv'
<1> SUFFICES ASSUME TypeOK, LeaseInv, HolderInv, [Next]_vars
             PROVE  LeaseInv' /\ HolderInv'
  OBVIOUS
<1>1. CASE Process
  BY <1>1, ProcessLease
<1>2. ASSUME NEW c \in claims, WorkerStep(c)
      PROVE  LeaseInv' /\ HolderInv'
  BY <1>2, WorkerLease
<1>3. CASE Control
  BY <1>3, ControlLease
<1>4. CASE UNCHANGED vars
  BY <1>4, UnchangedLease DEF vars, process, rows
<1>5. QED
  BY <1>1, <1>2, <1>3, <1>4 DEF Next

\* No worker node is claimed again while an earlier attempt that got a worktree may
\* still be writing it: a late thread or executor always holds the newest lease.
THEOREM NewestWriter == Spec => []NoWriterOvertaken
<1>1. Init => LeaseInv /\ HolderInv
  BY DEF Init, LeaseInv, HolderInv
<1>2. HolderInv => NoWriterOvertaken
  BY DEF HolderInv, Writer, NoWriterOvertaken
<1>3. QED
  BY <1>1, <1>2, LeaseStep, TypeCorrect, PTL DEF Spec

-----------------------------------------------------------------------------
(* The rows implement the register of leases.                               *)

\* The holder of a row in the register.
HolderOf(n) == IF node[n].state = "running" THEN node[n].lease ELSE 0

\* A row that runs carries a lease that was handed out.
RowLeaseInv == \A n \in Node : node[n].state = "running" => node[n].lease # 0

SameHolder(n) ==
    /\ node'[n].state = "running" <=> node[n].state = "running"
    /\ node[n].state = "running" => node'[n].lease = node[n].lease

\* What a step may do to the leases: nothing, end one, or hand out the next.
Idle == leases' = leases /\ \A n \in Node : SameHolder(n)

Ends(n) ==
    /\ leases' = leases
    /\ node[n].state = "running" /\ node'[n].state # "running"
    /\ \A m \in Node \ {n} : SameHolder(m)

Starts(n) ==
    /\ leases' = leases + 1
    /\ node[n].state # "running"
    /\ node'[n].state = "running" /\ node'[n].lease = leases + 1
    /\ \A m \in Node \ {n} : SameHolder(m)

LeaseChange == Idle \/ \E n \in Node : Ends(n) \/ Starts(n)

LEMMA ChangedRow ==
    ASSUME NEW n \in Node, \A m \in Node \ {n} : node'[m] = node[m], leases' = leases,
           node'[n].state # "running"
    PROVE  LeaseChange
<1>1. \A m \in Node \ {n} : SameHolder(m)
  BY DEF SameHolder
<1>2. CASE node[n].state = "running"
  BY <1>1, <1>2 DEF LeaseChange, Ends
<1>3. CASE node[n].state # "running"
  BY <1>1, <1>3 DEF LeaseChange, Idle, SameHolder
<1>4. QED
  BY <1>2, <1>3

LEMMA UnchangedRows ==
    ASSUME node' = node, leases' = leases
    PROVE  LeaseChange
  BY DEF LeaseChange, Idle, SameHolder

LEMMA ProcessLeases ==
    ASSUME TypeOK, Process
    PROVE  LeaseChange
<1> USE DEF process, rows
<1>1. CASE Stop \/ ActivateCoordinator \/ BeginRecovery \/ EndRecovery \/ Serve
  BY <1>1, UnchangedRows DEF Stop, ActivateCoordinator, BeginRecovery, EndRecovery, Serve
<1>2. ASSUME NEW p \in replay, ReplayOrphan(p)
      PROVE  LeaseChange
  BY <1>2, UnchangedRows DEF ReplayOrphan
<1>3. ASSUME NEW n \in Node, RecoverInterrupted(n)
      PROVE  LeaseChange
  <2>1. leases' = leases
    BY <1>3 DEF RecoverInterrupted
  <2>2. CASE RollbackFailedAttemptRecovery(n) \/ RollbackUnassignedAcceptedSourceRepair(n)
    BY <2>1, <2>2, RollbackRows, ChangedRow
  <2>3. CASE node' = [node EXCEPT ![n] = [@ EXCEPT !.state = "indeterminate",
                                                  !.result = "indeterminate"]]
    <3>1. /\ \A m \in Node \ {n} : node'[m] = node[m]
          /\ node'[n].state = "indeterminate"
      BY <2>3, RowFields DEF TypeOK, NodeRows
    <3>2. QED
      BY <2>1, <3>1, ChangedRow
  <2>4. QED
    BY <1>3, <2>2, <2>3 DEF RecoverInterrupted
<1>4. ASSUME NEW n \in Node, ClaimReadyNode(n)
      PROVE  LeaseChange
  <2>1. /\ leases' = leases + 1
        /\ node[n].state = "pending"
        /\ \A m \in Node \ {n} : node'[m] = node[m]
        /\ node'[n].state = "running" /\ node'[n].lease = leases + 1
    BY <1>4, RowFields DEF ClaimReadyNode, NextLeaseEpoch, TypeOK, NodeRows
  <2>2. Starts(n)
    BY <2>1 DEF Starts, SameHolder
  <2>3. QED
    BY <2>2 DEF LeaseChange
<1>5. QED
  BY <1>1, <1>2, <1>3, <1>4 DEF Process

LEMMA SettledLeases ==
    ASSUME TypeOK, NEW c \in claims, NEW s, NEW r, NEW taskAfter,
           Settle(c, Settled(c.node, s, r), taskAfter), s # "running"
    PROVE  LeaseChange
<1>1. /\ \A n \in Node \ {c.node} : Settled(c.node, s, r)[n] = node[n]
      /\ Settled(c.node, s, r)[c.node].state = s
  BY ClaimFields, RowFields DEF TypeOK, Settled, NodeRows
<1>2. QED
  BY <1>1, ClaimFields, ChangedRow DEF Settle, process

LEMMA WorkerLeases ==
    ASSUME TypeOK, NEW c \in claims, WorkerStep(c)
    PROVE  LeaseChange
<1> USE DEF process, rows
<1>1. CASE PrepareWorktree(c) \/ DropClaim(c)
  BY <1>1, UnchangedRows DEF PrepareWorktree, DropClaim
<1>2. CASE AssignPlain(c) \/ AssignAcceptedSourceRepair(c) \/ AssignFailedAttemptRecovery(c)
  <2>1. PICK bind : CommitTarget(c, bind)
    BY <1>2 DEF AssignPlain, AssignAcceptedSourceRepair, AssignFailedAttemptRecovery
  <2>2. \A n \in Node : node'[n].state = node[n].state /\ node'[n].lease = node[n].lease
    BY <2>1, ClaimFields DEF CommitTarget, TypeOK, NodeRows
  <2>3. QED
    BY <2>1, <2>2 DEF CommitTarget, LeaseChange, Idle, SameHolder
<1>3. CASE SettleAccepted(c) \/ SettleBlocked(c) \/ \E r \in {"failed", "outside"} : SettleFailed(c, r)
  BY <1>3, SettledLeases DEF SettleAccepted, SettleBlocked, SettleFailed
<1>4. CASE SettleVerified(c)
  BY <1>4, SettledLeases DEF SettleVerified
<1>5. CASE SettleIndeterminate(c)
  BY <1>5, SettledLeases DEF SettleIndeterminate
<1>6. ASSUME NEW r \in {"blocked", "outside"}, SettleRetryable(c, r)
      PROVE  LeaseChange
  <2> DEFINE back == [node EXCEPT ![c.node] = Requeued(@, CaptureOf(c.node, r))]
  <2>1. CASE Settle(c, back, SettledTask("queued", FALSE))
    <3>1. CaptureOf(c.node, r) \in Binds
      BY ClaimFields, RecoveryBindType DEF Results
    <3>2. /\ \A n \in Node \ {c.node} : back[n] = node[n]
          /\ back[c.node].state = "pending"
      BY <3>1, ClaimFields, RowFields, RequeuedFields DEF TypeOK
    <3> HIDE DEF back
    <3>3. QED
      BY <2>1, <3>2, ClaimFields, ChangedRow DEF Settle
  <2>2. CASE Settle(c, Settled(c.node, "blocked", r), SettledTask("needs_fix", TRUE))
    BY <2>2, SettledLeases
  <2>3. QED
    BY <1>6, <2>1, <2>2 DEF SettleRetryable
<1>7. ASSUME NEW owners \in SUBSET Worker, SettleRejected(c, owners)
      PROVE  LeaseChange
  <2> DEFINE back == [n \in Node |->
                        CASE n = Verifier   -> Requeued(node[n], NoBind)
                          [] n \in owners   -> Requeued(node[n], RepairOf(n))
                          [] OTHER          -> node[n]]
  <2>1. c.node = Verifier
    BY <1>7 DEF SettleRejected
  <2>2. CASE Settle(c, back, SettledTask("queued", FALSE)) /\ Repairable(owners)
    <3>1. \A n \in Node : back[n] = node[n] \/ back[n].state = "pending"
      <4>1. ASSUME NEW n \in Node
            PROVE  /\ Requeued(node[n], NoBind).state = "pending"
                   /\ Requeued(node[n], RepairOf(n)).state = "pending"
        BY RowFields, NoBindType, RecoveryBindType, RequeuedFields
      <4>2. QED
        BY <4>1
    <3>2. \A n \in Node : n \notin owners \cup {Verifier} => back[n] = node[n]
      OBVIOUS
    <3>3. back[Verifier].state = "pending"
      <4>1. Requeued(node[Verifier], NoBind).state = "pending"
        BY RowFields, NoBindType, RequeuedFields DEF Node
      <4>2. QED
        BY <4>1, GraphAssumption DEF Node
    <3> HIDE DEF back
    <3>4. node' = back /\ leases' = leases /\ node[Verifier].state = "running"
      BY <2>1, <2>2 DEF Settle, Fence
    <3>5. \A w \in owners : node[w].state = "accepted"
      BY <2>2 DEF Repairable
    <3>6. \A n \in Node \ {Verifier} : SameHolder(n)
      BY <3>1, <3>2, <3>4, <3>5 DEF SameHolder
    <3>7. Ends(Verifier)
      BY <3>3, <3>4, <3>6 DEF Ends
    <3>8. QED
      BY <3>7 DEF LeaseChange, Node
  <2>3. CASE Settle(c, Settled(Verifier, "failed", "failed"), SettledTask("needs_fix", TRUE))
    BY <2>1, <2>3, SettledLeases
  <2>4. QED
    BY <1>7, <2>2, <2>3 DEF SettleRejected
<1>8. CASE SettleUnassigned(c)
  BY <1>8, ClaimFields, RollbackRows, ChangedRow DEF SettleUnassigned
<1>9. CASE ReconcileSettlementConflict(c)
  <2>1. /\ \A n \in Node \ {c.node} : node'[n] = node[n]
        /\ node'[c.node].state # "running"
    BY <1>9, ClaimFields, RowFields DEF ReconcileSettlementConflict, TypeOK, NodeRows
  <2>2. QED
    BY <1>9, <2>1, ClaimFields, ChangedRow DEF ReconcileSettlementConflict
<1>10. QED
  BY <1>1, <1>2, <1>3, <1>4, <1>5, <1>6, <1>7, <1>8, <1>9 DEF WorkerStep

LEMMA ControlLeases ==
    ASSUME TypeOK, Control
    PROVE  LeaseChange
<1> USE DEF process, rows
<1>1. ASSUME NEW s \in {"paused", "cancelled"}, TransitionTask(s)
      PROVE  LeaseChange
  BY <1>1, UnchangedRows DEF TransitionTask
<1>2. CASE QueueTask
  <2>1. leases' = leases
    BY <1>2 DEF QueueTask
  <2>2. \A n \in Node : \/ node'[n] = node[n]
                        \/ node[n].state = "failed" /\ node'[n] = ResetFailed(n)
    BY <1>2 DEF QueueTask
  <2>3. \A n \in Node : ResetFailed(n).state = "pending"
    BY RowFields, RecoveryBindType, RequeuedFields DEF ResetFailed, NodeRows
  <2>4. QED
    BY <2>1, <2>2, <2>3 DEF LeaseChange, Idle, SameHolder
<1>3. ASSUME NEW n \in Node, NEW d \in {"retry", "fail", "cancel"},
             node' = [node EXCEPT ![n] = ResolvedRow(n, d)], leases' = leases
      PROVE  LeaseChange
  <2>1. ResolvedRow(n, d).state # "running"
    BY RowFields DEF ResolvedRow, NodeRows
  <2>2. (\A m \in Node \ {n} : node'[m] = node[m]) /\ node'[n].state # "running"
    BY <1>3, <2>1 DEF TypeOK
  <2>3. QED
    BY <1>3, <2>2, ChangedRow
<1>4. ASSUME NEW p \in open, NEW d \in {"retry", "fail", "cancel"}, DecideApproval(p, d)
      PROVE  LeaseChange
  <2>1. p[1] \in Node
    BY DEF TypeOK
  <2>2. QED
    BY <1>3, <1>4, <2>1 DEF DecideApproval
<1>5. ASSUME NEW n \in Node, NEW d \in {"retry", "fail", "cancel"}, ResolveIndeterminate(n, d)
      PROVE  LeaseChange
  BY <1>3, <1>5 DEF ResolveIndeterminate
<1>6. ASSUME NEW n \in Node, RetryBlockedNode(n)
      PROVE  LeaseChange
  <2>1. /\ \A m \in Node \ {n} : node'[m] = node[m]
        /\ node'[n].state = "pending"
    BY <1>6, RowFields DEF RetryBlockedNode, TypeOK, NodeRows
  <2>2. QED
    BY <1>6, <2>1, ChangedRow DEF RetryBlockedNode
<1>7. QED
  BY <1>1, <1>2, <1>4, <1>5, <1>6 DEF Control

LEMMA EveryStepLeases == TypeOK /\ [Next]_vars => LeaseChange
<1> SUFFICES ASSUME TypeOK, [Next]_vars
             PROVE  LeaseChange
  OBVIOUS
<1>1. CASE Process
  BY <1>1, ProcessLeases
<1>2. ASSUME NEW c \in claims, WorkerStep(c)
      PROVE  LeaseChange
  BY <1>2, WorkerLeases
<1>3. CASE Control
  BY <1>3, ControlLeases
<1>4. CASE UNCHANGED vars
  BY <1>4, UnchangedRows DEF vars, process, rows
<1>5. QED
  BY <1>1, <1>2, <1>3, <1>4 DEF Next

LEMMA RowLeaseStep == TypeOK /\ RowLeaseInv /\ [Next]_vars => RowLeaseInv'
<1> SUFFICES ASSUME TypeOK, RowLeaseInv, LeaseChange
             PROVE  RowLeaseInv'
  BY EveryStepLeases
<1>1. leases \in Nat
  BY DEF TypeOK
<1>2. QED
  BY <1>1 DEF RowLeaseInv, LeaseChange, Idle, Ends, Starts, SameHolder

\* One change of the rows is one step of the register, or none.
LEMMA RegisterStep ==
    ASSUME TypeOK, RowLeaseInv, LeaseChange
    PROVE  [Register!Next]_(Register!vars)
<1> DEFINE holder == [n \in Node |-> IF node[n].state = "running" THEN node[n].lease ELSE 0]
<1>1. CASE Idle
  BY <1>1 DEF Idle, SameHolder, Register!vars
<1>2. ASSUME NEW n \in Node, Ends(n)
      PROVE  Register!Release(n)
  BY <1>2 DEF Ends, SameHolder, RowLeaseInv, Register!Release
<1>3. ASSUME NEW n \in Node, Starts(n)
      PROVE  Register!Grant(n)
  BY <1>3 DEF Starts, SameHolder, Register!Grant
<1>4. QED
  BY <1>1, <1>2, <1>3 DEF LeaseChange, Register!Next

\* Every behaviour of the ledger is one of the register: a lease is handed out once,
\* to a node nobody holds, and an attempt that ended is never running again.
THEOREM LedgerImplementsLeases == Spec => LeasesImplemented
<1>1. Init => RowLeaseInv /\ Register!Init
  BY DEF Init, RowLeaseInv, NewRow, Register!Init
<1>2. TypeOK /\ RowLeaseInv /\ [Next]_vars => [Register!Next]_(Register!vars)
  BY EveryStepLeases, RegisterStep
<1>3. QED
  BY <1>1, <1>2, RowLeaseStep, TypeCorrect, PTL DEF Spec, LeasesImplemented, Register!Spec

(***************************************************************************)
(* Worktrees, bindings and repairs: what a row says of its directory is    *)
(* true, a recovery keeps its evidence, what was built on a source under   *)
(* repair waits, and nothing runs with nobody behind it.                   *)
(***************************************************************************)

(* Rows and allocations.                                                    *)

\* A worker's row against the allocations ever made (used) and those still active
\* (live): attempts count up past every allocation, and only a running node has the
\* allocation of its current attempt without having lost its worktree.
Kept(w, row, used, live) ==
    /\ row.worktree # 0 => row.worktree = row.attempt /\ <<w, row.attempt>> \in live
    /\ row.state = "pending" => row.worktree = 0
    /\ \A k \in Nat : <<w, k>> \in used => k <= row.attempt
    /\ row.state = "running" => row.attempt >= 1
    /\ row.state = "running" /\ <<w, row.attempt>> \in used => row.worktree = row.attempt

\* A worker's binding: its source is live until a target is committed, its attempt
\* fits the row's, and no row that an operator may queue again still carries one.
Tied(w, row, live) ==
    /\ row.bind.kind = "none" => row.bind = NoBind
    /\ row.bind.kind = "capture_pending" \/ (row.bind.kind = "repair" /\ row.worktree = 0)
          => <<w, row.bind.source>> \in live
    /\ row.bind.kind = "repair" => row.bind.source <= row.attempt /\ row.state # "accepted"
    /\ row.bind.kind = "capture_pending" =>
          /\ row.worktree = 0
          /\ row.state = "pending" => row.bind.source = row.attempt
          /\ row.state = "running" => row.attempt = row.bind.source + 1
    /\ row.state \in {"failed", "indeterminate"} /\ row.bind # NoBind => row.result = "indeterminate"

RowHolds(w, row, used, live) == Kept(w, row, used, live) /\ Tied(w, row, live)

TreeInv ==
    /\ node[Verifier].bind = NoBind
    /\ \A w \in Worker : RowHolds(w, node[w], allocated, active)

\* A step that leaves the allocations alone keeps the invariant when every row it
\* writes does.
LEMMA RowsWritten ==
    ASSUME TreeInv, UNCHANGED trees,
           \A w \in Worker : node'[w] = node[w] \/ RowHolds(w, node'[w], allocated, active),
           node'[Verifier].bind = NoBind
    PROVE  TreeInv'
  BY DEF TreeInv, trees

LEMMA RowWritten ==
    ASSUME TypeOK, TreeInv, UNCHANGED trees, NEW n \in Node,
           \A m \in Node \ {n} : node'[m] = node[m],
           n \in Worker => RowHolds(n, node'[n], allocated, active),
           n = Verifier => node'[n].bind = NoBind
    PROVE  TreeInv'
  BY RowsWritten, GraphAssumption DEF TreeInv, Node

LEMMA WorkerRow ==
    ASSUME TypeOK, TreeInv, NEW w \in Worker
    PROVE  /\ w \in Node /\ w # Verifier
           /\ node[w] \in NodeRows
           /\ RowHolds(w, node[w], allocated, active)
  BY RowFields, GraphAssumption DEF TreeInv, Node

\* A settled row has no binding left.
LEMMA SettledRow ==
    ASSUME TypeOK, TreeInv, NEW w \in Worker,
           NEW s \in {"accepted", "failed", "blocked", "indeterminate"}, NEW r \in Results
    PROVE  RowHolds(w, [node[w] EXCEPT !.state = s, !.result = r, !.bind = NoBind], allocated, active)
  BY WorkerRow DEF RowHolds, Kept, Tied, NoBind, NodeRows

\* A row may be queued with its own attempt bound while the allocation is active.
LEMMA BoundRow ==
    ASSUME TypeOK, TreeInv, NEW w \in Worker, <<w, node[w].attempt>> \in active,
           NEW bind \in Binds, bind.source = node[w].attempt,
           bind.kind \in {"capture_pending", "repair"}
    PROVE  RowHolds(w, Requeued(node[w], bind), allocated, active)
<1> DEFINE row == Requeued(node[w], bind)
<1>1. /\ row.state = "pending" /\ row.worktree = 0 /\ row.bind = bind
      /\ row.attempt = node[w].attempt
  BY WorkerRow, RequeuedFields
<1>2. node[w].attempt \in Nat
  BY WorkerRow, RowFields
<1>3. \A k \in Nat : <<w, k>> \in allocated => k <= node[w].attempt
  BY WorkerRow DEF RowHolds, Kept
<1> HIDE DEF row
<1>4. RowHolds(w, row, allocated, active)
  BY <1>1, <1>2, <1>3 DEF RowHolds, Kept, Tied
<1>5. QED
  BY <1>4 DEF row

\* An attempt nobody can account for keeps its worktree and its binding.
LEMMA UnknownRow ==
    ASSUME TypeOK, TreeInv, NEW w \in Worker, node[w].state = "running"
    PROVE  RowHolds(w, [node[w] EXCEPT !.state = "indeterminate", !.result = "indeterminate"],
                    allocated, active)
  BY WorkerRow DEF RowHolds, Kept, Tied, NodeRows

LEMMA CaptureRolledBack ==
    ASSUME TypeOK, TreeInv, NEW n \in Node, node[n].state = "running",
           RollbackFailedAttemptRecovery(n), UNCHANGED trees
    PROVE  TreeInv'
<1> DEFINE row == [Requeued(node[n], NoBind) EXCEPT !.state = "failed",
                                                    !.attempt = node[n].bind.source,
                                                    !.worktree = node[n].bind.source,
                                                    !.result = node[n].bind.result]
<1>1. n \in Worker
  BY DEF RollbackFailedAttemptRecovery, TreeInv, NoBind, Node
<1>2. /\ node[n].worktree = 0 /\ node[n].attempt = node[n].bind.source + 1
      /\ <<n, node[n].bind.source>> \in active
  BY <1>1, WorkerRow DEF RollbackFailedAttemptRecovery, RowHolds, Tied
<1>3. <<n, node[n].attempt>> \notin allocated
  BY <1>1, <1>2, WorkerRow, RowFields DEF RowHolds, Kept
<1>4. /\ row.state = "failed" /\ row.attempt = node[n].bind.source
      /\ row.worktree = node[n].bind.source /\ row.bind = NoBind
  BY <1>1, WorkerRow DEF Requeued, NodeRows
<1>5. \A k \in Nat : <<n, k>> \in allocated => k <= node[n].bind.source
  BY <1>1, <1>2, <1>3, WorkerRow, RowFields DEF RowHolds, Kept
<1> HIDE DEF row
<1>6. RowHolds(n, row, allocated, active)
  BY <1>2, <1>4, <1>5 DEF RowHolds, Kept, Tied, NoBind
<1>7. node'[n] = row /\ \A m \in Node \ {n} : node'[m] = node[m]
  BY DEF RollbackFailedAttemptRecovery, TypeOK, row
<1>8. QED
  BY <1>1, <1>6, <1>7, RowWritten, GraphAssumption

LEMMA RepairRolledBack ==
    ASSUME TypeOK, TreeInv, NEW n \in Node, node[n].state = "running",
           RollbackUnassignedAcceptedSourceRepair(n), UNCHANGED trees
    PROVE  TreeInv'
<1> DEFINE row == Requeued(node[n], node[n].bind)
           stopped == [row EXCEPT !.state = "blocked", !.result = "blocked"]
<1>1. n \in Worker
  BY DEF RollbackUnassignedAcceptedSourceRepair, TreeInv, NoBind, Node
<1>2. /\ node[n].bind.kind = "repair"
      /\ <<n, node[n].bind.source>> \in active
  BY DEF RollbackUnassignedAcceptedSourceRepair
<1>3. RowHolds(n, row, allocated, active)
  BY <1>1, <1>2, WorkerRow DEF RowHolds, Kept, Tied, Requeued, NodeRows
<1>4. RowHolds(n, stopped, allocated, active)
  BY <1>1, <1>2, WorkerRow DEF RowHolds, Kept, Tied, Requeued, NodeRows, NoBind
<1>5. node'[n] \in {row, stopped} /\ \A m \in Node \ {n} : node'[m] = node[m]
  BY DEF RollbackUnassignedAcceptedSourceRepair, TypeOK
<1> HIDE DEF row, stopped
<1>6. QED
  BY <1>1, <1>3, <1>4, <1>5, RowWritten, GraphAssumption

LEMMA RolledBack ==
    ASSUME TypeOK, TreeInv, NEW n \in Node, node[n].state = "running",
           RollbackFailedAttemptRecovery(n) \/ RollbackUnassignedAcceptedSourceRepair(n),
           UNCHANGED trees
    PROVE  TreeInv'
  BY CaptureRolledBack, RepairRolledBack

\* The target of a worker becomes its node's worktree, and the source is given up.
LEMMA TargetCommitted ==
    ASSUME TypeOK, TreeInv, NEW c \in claims, Fence(c),
           NEW bind \in Binds, bind = NoBind \/ bind.kind = "assigned",
           c.node = Verifier => bind = NoBind,
           node[c.node].bind.kind # "none" => node[c.node].worktree = 0,
           CommitTarget(c, bind)
    PROVE  TreeInv'
<1> DEFINE n == c.node
           row == [node[n] EXCEPT !.worktree = c.attempt, !.bind = bind]
<1>1. /\ n \in Node /\ node[n] \in NodeRows /\ node[n].state = "running"
      /\ node[n].attempt = c.attempt
  BY ClaimFields, RowFields DEF Fence
<1>2. /\ node'[n] = row /\ \A m \in Node \ {n} : node'[m] = node[m]
      /\ allocated' = allocated \cup {<<n, c.attempt>>}
      /\ active' = (active \ {<<n, node[n].bind.source>>})
                     \cup (IF <<n, c.attempt>> \in allocated THEN {} ELSE {<<n, c.attempt>>})
  BY <1>1 DEF CommitTarget, Target, TypeOK
<1>3. ASSUME NEW w \in Worker, w # n
      PROVE  RowHolds(w, node'[w], allocated', active')
  <2>1. node'[w] = node[w] /\ RowHolds(w, node[w], allocated, active)
    BY <1>2, <1>3, WorkerRow
  <2>2. \A k : (<<w, k>> \in allocated' <=> <<w, k>> \in allocated)
               /\ (<<w, k>> \in active' <=> <<w, k>> \in active)
    BY <1>2, <1>3
  <2>3. QED
    BY <2>1, <2>2 DEF RowHolds, Kept, Tied
<1>4. ASSUME n \in Worker
      PROVE  RowHolds(n, node'[n], allocated', active')
  <2>1. RowHolds(n, node[n], allocated, active)
    BY <1>4, WorkerRow
  <2>2. c.attempt \in Nat /\ c.attempt >= 1
    BY <1>1, <2>1, ClaimFields DEF RowHolds, Kept
  <2>3. <<n, c.attempt>> \in active'
    <3>1. CASE <<n, c.attempt>> \in allocated
      <4>1. node[n].worktree = c.attempt
        BY <1>1, <2>1, <3>1 DEF RowHolds, Kept
      <4>2. node[n].bind = NoBind
        BY <2>1, <2>2, <4>1 DEF RowHolds, Tied
      <4>3. <<n, c.attempt>> \in active
        BY <1>1, <2>1, <2>2, <4>1 DEF RowHolds, Kept
      <4>4. QED
        BY <1>2, <2>2, <4>2, <4>3 DEF NoBind
    <3>2. CASE <<n, c.attempt>> \notin allocated
      BY <1>2, <3>2
    <3>3. QED
      BY <3>1, <3>2
  <2>4. /\ row.worktree = c.attempt /\ row.attempt = c.attempt /\ row.state = "running"
        /\ row.bind = bind
    BY <1>1 DEF NodeRows
  <2>5. \A k \in Nat : <<n, k>> \in allocated' => k <= c.attempt
    BY <1>1, <1>2, <2>1, <2>2 DEF RowHolds, Kept
  <2> HIDE DEF row
  <2>6. QED
    BY <1>2, <2>2, <2>3, <2>4, <2>5 DEF RowHolds, Kept, Tied, NoBind
<1>5. node'[Verifier].bind = NoBind
  <2>1. CASE n = Verifier
    BY <1>1, <1>2, <2>1 DEF NodeRows
  <2>2. CASE n # Verifier
    BY <1>2, <2>2 DEF TreeInv, Node
  <2>3. QED
    BY <2>1, <2>2
<1>6. QED
  BY <1>3, <1>4, <1>5 DEF TreeInv


LEMMA ProcessTrees ==
    ASSUME TypeOK, TreeInv, Process
    PROVE  TreeInv'
<1> USE DEF process, rows
<1>1. CASE Stop \/ ActivateCoordinator \/ BeginRecovery \/ EndRecovery \/ Serve
  BY <1>1 DEF Stop, ActivateCoordinator, BeginRecovery, EndRecovery, Serve, TreeInv, trees
<1>2. ASSUME NEW p \in replay, ReplayOrphan(p)
      PROVE  TreeInv'
  BY <1>2 DEF ReplayOrphan, TreeInv, trees
<1>3. ASSUME NEW n \in Node, RecoverInterrupted(n)
      PROVE  TreeInv'
  <2>1. node[n].state = "running" /\ UNCHANGED trees
    BY <1>3 DEF RecoverInterrupted
  <2>2. CASE RollbackFailedAttemptRecovery(n) \/ RollbackUnassignedAcceptedSourceRepair(n)
    BY <2>1, <2>2, RolledBack
  <2>3. CASE node' = [node EXCEPT ![n] = [@ EXCEPT !.state = "indeterminate",
                                                  !.result = "indeterminate"]]
    <3>1. n \in Worker => RowHolds(n, node'[n], allocated, active)
      BY <2>1, <2>3, UnknownRow DEF TypeOK
    <3>2. n = Verifier => node'[n].bind = NoBind
      BY <2>3, RowFields DEF TreeInv, TypeOK, NodeRows
    <3>3. \A m \in Node \ {n} : node'[m] = node[m]
      BY <2>3 DEF TypeOK
    <3>4. QED
      BY <2>1, <3>1, <3>2, <3>3, RowWritten
  <2>4. QED
    BY <1>3, <2>2, <2>3 DEF RecoverInterrupted
<1>4. ASSUME NEW n \in Node, ClaimReadyNode(n)
      PROVE  TreeInv'
  <2> DEFINE row == [node[n] EXCEPT !.state = "running", !.attempt = node[n].attempt + 1,
                                    !.epoch = epoch, !.lease = NextLeaseEpoch]
  <2>1. /\ node' = [node EXCEPT ![n] = row] /\ UNCHANGED trees
        /\ node[n].state = "pending" /\ BindClaimable(n)
    BY <1>4 DEF ClaimReadyNode
  <2>2. /\ row.state = "running" /\ row.attempt = node[n].attempt + 1
        /\ row.worktree = node[n].worktree /\ row.bind = node[n].bind
        /\ row.result = node[n].result
    BY RowFields DEF NodeRows
  <2>3. node'[n] = row /\ \A m \in Node \ {n} : node'[m] = node[m]
    BY <2>1 DEF TypeOK
  <2> HIDE DEF row
  <2>4. ASSUME n \in Worker
        PROVE  RowHolds(n, row, allocated, active)
    <3>1. RowHolds(n, node[n], allocated, active) /\ node[n].attempt \in Nat
          /\ node[n].bind.source \in Nat
      BY <2>4, WorkerRow, RowFields
    <3>2. <<n, row.attempt>> \notin allocated
      BY <2>2, <3>1 DEF RowHolds, Kept
    <3>3. Kept(n, row, allocated, active)
      BY <2>1, <2>2, <3>1, <3>2 DEF RowHolds, Kept
    <3>4. Tied(n, row, active)
      BY <2>1, <2>2, <3>1 DEF RowHolds, Tied
    <3>5. QED
      BY <3>3, <3>4 DEF RowHolds
  <2>5. QED
    BY <2>1, <2>2, <2>3, <2>4, RowWritten DEF TreeInv
<1>5. QED
  BY <1>1, <1>2, <1>3, <1>4 DEF Process

\* A settlement writes the row of its worker's node, without a binding.
LEMMA SettledTrees ==
    ASSUME TypeOK, TreeInv, NEW c \in claims, NEW taskAfter,
           NEW s \in {"accepted", "failed", "blocked", "indeterminate"}, NEW r \in Results,
           Settle(c, Settled(c.node, s, r), taskAfter)
    PROVE  TreeInv'
<1> DEFINE row == [node[c.node] EXCEPT !.state = s, !.result = r, !.bind = NoBind]
<1>1. /\ c.node \in Node /\ UNCHANGED trees
      /\ node'[c.node] = row /\ \A m \in Node \ {c.node} : node'[m] = node[m]
  BY ClaimFields DEF Settle, Settled, TypeOK
<1>2. c.node \in Worker => RowHolds(c.node, row, allocated, active)
  BY SettledRow
<1>3. row.bind = NoBind
  BY <1>1, RowFields DEF NodeRows
<1> HIDE DEF row
<1>4. QED
  BY <1>1, <1>2, <1>3, RowWritten

\* A verdict sends accepted owners back with their own attempts bound.
LEMMA RejectedTrees ==
    ASSUME TypeOK, TreeInv, NEW c \in claims, NEW owners \in SUBSET Worker,
           SettleRejected(c, owners)
    PROVE  TreeInv'
<1> DEFINE back == [n \in Node |->
                      CASE n = Verifier   -> Requeued(node[n], NoBind)
                        [] n \in owners   -> Requeued(node[n], RepairOf(n))
                        [] OTHER          -> node[n]]
<1>1. CASE Settle(c, back, SettledTask("queued", FALSE)) /\ Repairable(owners)
  <2>1. node' = back /\ UNCHANGED trees
    BY <1>1 DEF Settle
  <2>2. \A w \in owners : <<w, node[w].attempt>> \in active
    BY <1>1 DEF Repairable, Path
  <2>3. ASSUME NEW w \in Worker
        PROVE  back[w] = node[w] \/ RowHolds(w, back[w], allocated, active)
    <3>1. CASE w \in owners
      <4>1. /\ RepairOf(w) \in Binds /\ RepairOf(w).source = node[w].attempt
            /\ RepairOf(w).kind = "repair"
        BY WorkerRow, RecoveryBindType DEF RepairOf, Results
      <4>2. RowHolds(w, Requeued(node[w], RepairOf(w)), allocated, active)
        BY <2>2, <3>1, <4>1, BoundRow
      <4>3. back[w] = Requeued(node[w], RepairOf(w))
        BY <3>1, WorkerRow
      <4>4. QED
        BY <4>2, <4>3
    <3>2. CASE w \notin owners
      BY <3>2, WorkerRow
    <3>3. QED
      BY <3>1, <3>2
  <2>4. back[Verifier].bind = NoBind
    <3>1. Verifier \in Node
      BY DEF Node
    <3>2. back[Verifier] = Requeued(node[Verifier], NoBind)
      BY <3>1, GraphAssumption
    <3>3. QED
      BY <3>1, <3>2, RowFields, NoBindType, RequeuedFields
  <2> HIDE DEF back
  <2>5. QED
    BY <2>1, <2>3, <2>4, RowsWritten
<1>2. CASE Settle(c, Settled(Verifier, "failed", "failed"), SettledTask("needs_fix", TRUE))
  BY <1>2, SettledTrees DEF SettleRejected, Results
<1>3. QED
  BY <1>1, <1>2 DEF SettleRejected

LEMMA WorkerTrees ==
    ASSUME TypeOK, TreeInv, NEW c \in claims, WorkerStep(c)
    PROVE  TreeInv'
<1> USE DEF process, rows
<1>1. CASE PrepareWorktree(c) \/ DropClaim(c)
  BY <1>1 DEF PrepareWorktree, DropClaim, TreeInv, trees
<1>2. CASE AssignPlain(c)
  BY <1>2, NoBindType, TargetCommitted DEF AssignPlain
<1>3. CASE AssignAcceptedSourceRepair(c)
  BY <1>3, NoBindType, TargetCommitted DEF AssignAcceptedSourceRepair
<1>4. CASE AssignFailedAttemptRecovery(c)
  <2> DEFINE kept == [node[c.node].bind EXCEPT !.kind = "assigned"]
  <2>1. /\ NoBind \in Binds
        /\ kept \in Binds /\ kept.kind = "assigned"
    BY ClaimFields, RowFields, NoBindType DEF Binds, BindKinds
  <2>2. PICK bind \in {NoBind, kept} : CommitTarget(c, bind)
    BY <1>4 DEF AssignFailedAttemptRecovery
  <2>3. Fence(c) /\ node[c.node].bind.kind = "capture_pending" /\ node[c.node].worktree = 0
    BY <1>4 DEF AssignFailedAttemptRecovery
  <2>4. c.node # Verifier
    BY <2>3 DEF TreeInv, NoBind
  <2> HIDE DEF kept
  <2>5. QED
    BY <2>1, <2>2, <2>3, <2>4, TargetCommitted
<1>5. CASE SettleAccepted(c)
  BY <1>5, SettledTrees DEF SettleAccepted, Results
<1>6. CASE SettleVerified(c)
  BY <1>6, SettledTrees DEF SettleVerified, Results
<1>7. CASE SettleIndeterminate(c)
  BY <1>7, SettledTrees DEF SettleIndeterminate, Results
<1>8. CASE SettleBlocked(c)
  BY <1>8, SettledTrees DEF SettleBlocked, Results
<1>9. ASSUME NEW r \in {"blocked", "outside"}, SettleRetryable(c, r)
      PROVE  TreeInv'
  <2> DEFINE row == Requeued(node[c.node], CaptureOf(c.node, r))
  <2>1. CASE /\ Settle(c, [node EXCEPT ![c.node] = row], SettledTask("queued", FALSE))
             /\ Target(c) \in active
    <3>1. c.node \in Worker /\ c.attempt = node[c.node].attempt
      BY <1>9, <2>1 DEF SettleRetryable, Settle, Fence
    <3>2. /\ CaptureOf(c.node, r) \in Binds /\ CaptureOf(c.node, r).kind = "capture_pending"
          /\ CaptureOf(c.node, r).source = node[c.node].attempt
      BY ClaimFields, RecoveryBindType DEF Results, CaptureOf
    <3>3. RowHolds(c.node, row, allocated, active)
      BY <2>1, <3>1, <3>2, BoundRow DEF Target
    <3> HIDE DEF row
    <3>4. /\ node'[c.node] = row /\ \A m \in Node \ {c.node} : node'[m] = node[m]
          /\ UNCHANGED trees
      BY <2>1, ClaimFields DEF Settle, TypeOK
    <3>5. QED
      BY <3>1, <3>3, <3>4, WorkerRow, RowWritten
  <2>2. CASE Settle(c, Settled(c.node, "blocked", r), SettledTask("needs_fix", TRUE))
    BY <2>2, SettledTrees DEF Results
  <2>3. QED
    BY <1>9, <2>1, <2>2 DEF SettleRetryable
<1>10. ASSUME NEW r \in {"failed", "outside"}, SettleFailed(c, r)
       PROVE  TreeInv'
  BY <1>10, SettledTrees DEF SettleFailed, Results
<1>11. ASSUME NEW owners \in SUBSET Worker, SettleRejected(c, owners)
       PROVE  TreeInv'
  BY <1>11, RejectedTrees
<1>12. CASE SettleUnassigned(c)
  BY <1>12, ClaimFields, RolledBack DEF SettleUnassigned, Fence
<1>13. CASE ReconcileSettlementConflict(c)
  <2> DEFINE n == c.node
             row == [node[n] EXCEPT !.state = "indeterminate", !.result = "indeterminate"]
  <2>1. /\ n \in Node /\ node[n].state = "running" /\ UNCHANGED trees
        /\ node'[n] = row /\ \A m \in Node \ {n} : node'[m] = node[m]
    BY <1>13, ClaimFields DEF ReconcileSettlementConflict, Fence, TypeOK
  <2>2. n \in Worker => RowHolds(n, row, allocated, active)
    BY <2>1, UnknownRow
  <2>3. row.bind = node[n].bind
    BY <2>1, RowFields DEF NodeRows
  <2> HIDE DEF row
  <2>4. QED
    BY <2>1, <2>2, <2>3, RowWritten DEF TreeInv
<1>14. QED
  BY <1>1, <1>2, <1>3, <1>4, <1>5, <1>6, <1>7, <1>8, <1>9, <1>10, <1>11, <1>12, <1>13 DEF WorkerStep

\* A decision keeps the binding, and queues nothing that has one.
LEMMA ResolvedTrees ==
    ASSUME TypeOK, TreeInv, NEW n \in Node, NEW d \in {"retry", "fail", "cancel"},
           node[n].state = "indeterminate", d = "retry" => RetryIsSafe(n),
           node' = [node EXCEPT ![n] = ResolvedRow(n, d)], UNCHANGED trees
    PROVE  TreeInv'
<1> DEFINE row == ResolvedRow(n, d)
<1>1. /\ node'[n] = row /\ \A m \in Node \ {n} : node'[m] = node[m]
  BY DEF TypeOK
<1>2. /\ row.bind = node[n].bind /\ row.attempt = node[n].attempt /\ row.result = node[n].result
      /\ d = "retry" => row.state = "pending" /\ row.worktree = 0
      /\ d # "retry" => row.state \in {"failed", "cancelled"} /\ row.worktree = node[n].worktree
  BY RowFields DEF ResolvedRow, NodeRows
<1> HIDE DEF row
<1>3. n \in Worker => RowHolds(n, row, allocated, active)
  BY <1>2, WorkerRow DEF RowHolds, Kept, Tied, RetryIsSafe, NoBind
<1>4. QED
  BY <1>1, <1>2, <1>3, RowWritten DEF TreeInv

\* A failed row is queued with the failed attempt bound, or has nothing to lose.
LEMMA ResetRow ==
    ASSUME TypeOK, TreeInv, NEW w \in Worker, node[w].state = "failed", Authorizable(w)
    PROVE  RowHolds(w, ResetFailed(w), allocated, active)
<1>1. CASE Path(w) \in allocated
  <2>1. /\ CaptureOf(w, node[w].result) \in Binds
        /\ CaptureOf(w, node[w].result).kind = "capture_pending"
        /\ CaptureOf(w, node[w].result).source = node[w].attempt
    BY WorkerRow, RowFields, RecoveryBindType DEF CaptureOf
  <2>2. <<w, node[w].attempt>> \in active
    BY <1>1 DEF Authorizable, Path
  <2>3. QED
    BY <1>1, <2>1, <2>2, BoundRow DEF ResetFailed
<1>2. CASE Path(w) \notin allocated
  <2>1. ResetFailed(w) = [node[w] EXCEPT !.state = "pending"]
    BY <1>2 DEF ResetFailed
  <2>2. node[w].worktree = 0 /\ node[w].result # "indeterminate"
    BY <1>2 DEF Authorizable
  <2>3. QED
    BY <2>1, <2>2, WorkerRow DEF RowHolds, Kept, Tied, NodeRows, NoBind
<1>3. QED
  BY <1>1, <1>2

LEMMA ControlTrees ==
    ASSUME TypeOK, TreeInv, Control
    PROVE  TreeInv'
<1> USE DEF process
<1>1. ASSUME NEW s \in {"paused", "cancelled"}, TransitionTask(s)
      PROVE  TreeInv'
  BY <1>1 DEF TransitionTask, TreeInv, trees
<1>2. CASE QueueTask
  <2> DEFINE failed == {n \in Node : task.state = "needs_fix" /\ node[n].state = "failed"}
  <2>1. /\ \A n \in failed : Authorizable(n)
        /\ node' = [n \in Node |-> IF n \in failed THEN ResetFailed(n) ELSE node[n]]
        /\ UNCHANGED trees
    BY <1>2 DEF QueueTask
  <2>2. \A w \in Worker : node'[w] = node[w] \/ RowHolds(w, node'[w], allocated, active)
    BY <2>1, WorkerRow, ResetRow
  <2>3. node'[Verifier].bind = NoBind
    BY <2>1, RowFields, GraphAssumption DEF ResetFailed, TreeInv, NodeRows, Node
  <2>4. QED
    BY <2>1, <2>2, <2>3, RowsWritten
<1>3. ASSUME NEW p \in open, NEW d \in {"retry", "fail", "cancel"}, DecideApproval(p, d)
      PROVE  TreeInv'
  <2>1. p[1] \in Node
    BY DEF TypeOK
  <2>2. QED
    BY <1>3, <2>1, ResolvedTrees DEF DecideApproval
<1>4. ASSUME NEW n \in Node, NEW d \in {"retry", "fail", "cancel"}, ResolveIndeterminate(n, d)
      PROVE  TreeInv'
  BY <1>4, ResolvedTrees DEF ResolveIndeterminate
<1>5. ASSUME NEW n \in Node, RetryBlockedNode(n)
      PROVE  TreeInv'
  <2> DEFINE row == [node[n] EXCEPT !.state = "pending", !.worktree = 0, !.epoch = 0, !.lease = 0]
  <2>1. /\ node[n].bind = NoBind /\ UNCHANGED trees
        /\ node'[n] = row /\ \A m \in Node \ {n} : node'[m] = node[m]
    BY <1>5 DEF RetryBlockedNode, TypeOK
  <2>2. /\ row.bind = NoBind /\ row.state = "pending" /\ row.worktree = 0
        /\ row.attempt = node[n].attempt
    BY <2>1, RowFields DEF NodeRows
  <2>3. ASSUME n \in Worker
        PROVE  RowHolds(n, row, allocated, active)
    <3> HIDE DEF row
    <3>1. Kept(n, row, allocated, active)
      BY <2>2, <2>3, WorkerRow DEF RowHolds, Kept
    <3>2. Tied(n, row, active)
      BY <2>2 DEF Tied, NoBind
    <3>3. QED
      BY <3>1, <3>2 DEF RowHolds
  <2> HIDE DEF row
  <2>4. QED
    BY <2>1, <2>2, <2>3, RowWritten
<1>6. QED
  BY <1>1, <1>2, <1>3, <1>4, <1>5 DEF Control

LEMMA TreeStep == TypeOK /\ TreeInv /\ [Next]_vars => TreeInv'
<1> SUFFICES ASSUME TypeOK, TreeInv, [Next]_vars
             PROVE  TreeInv'
  OBVIOUS
<1>1. CASE UNCHANGED vars
  BY <1>1 DEF vars, rows, trees, TreeInv
<1>2. QED
  BY <1>1, ProcessTrees, WorkerTrees, ControlTrees DEF Next

LEMMA TreeInit == Init => TreeInv
  BY GraphAssumption DEF Init, TreeInv, RowHolds, Kept, Tied, NewRow, NoBind, Node

\* A node's worktree is the one of its current attempt, under an active allocation.
THEOREM WorktreesAreOwned == Spec => []WorktreeOwned
<1>1. TreeInv => WorktreeOwned
  BY DEF TreeInv, RowHolds, Kept, WorktreeOwned, Path
<1>2. QED
  BY <1>1, TreeInit, TreeStep, TypeCorrect, PTL DEF Spec

\* The source of a recovery that has no target yet stays active, and the queued
\* node can be claimed, whatever crashed, was rolled back or decided in between.
THEOREM RecoverySourcesAreHeld == Spec => []RecoverySourceHeld
<1>1. ASSUME TypeOK, TreeInv
      PROVE  RecoverySourceHeld
  <2>1. ASSUME NEW n \in Node, Unassigned(n)
        PROVE  n \in Worker
    BY <1>1, <2>1 DEF Unassigned, TreeInv, NoBind, Node
  <2>2. ASSUME NEW n \in Node, Unassigned(n)
        PROVE  /\ <<n, node[n].bind.source>> \in active
               /\ node[n].state = "pending" => BindClaimable(n)
               /\ node[n].state = "running" /\ node[n].bind.kind = "capture_pending"
                     => node[n].attempt = node[n].bind.source + 1
    <3>1. Tied(n, node[n], active)
      BY <1>1, <2>1, <2>2 DEF TreeInv, RowHolds
    <3>2. QED
      BY <2>2, <3>1 DEF Unassigned, Tied, BindClaimable
  <2>3. QED
    BY <2>2 DEF RecoverySourceHeld
<1>2. QED
  BY <1>1, TreeInit, TreeStep, TypeCorrect, PTL DEF Spec

-----------------------------------------------------------------------------
(* What was built on a source under repair.                                 *)

\* A step that starts no node whose source is under repair, accepts only what ran,
\* and binds no accepted source, leaves the dependents waiting.
LEMMA DependentsKept ==
    ASSUME DependentsWaitForRepair,
           \A w \in Worker : node'[w].bind.kind = "repair" => node[w].bind.kind = "repair",
           \A d \in Worker : node'[d].state = "running" =>
              \/ node[d].state = "running"
              \/ \A n \in DependsOn[d] : node'[n].bind.kind # "repair",
           \A d \in Worker : node'[d].state = "accepted" => node[d].state \in {"running", "accepted"}
    PROVE  DependentsWaitForRepair'
  BY DEF DependentsWaitForRepair

\* The common case: rows that change neither start to run nor gain a repair.
LEMMA DependentsQuiet ==
    ASSUME TypeOK, DependentsWaitForRepair, NEW n \in Node,
           \A m \in Node \ {n} : node'[m] = node[m],
           node'[n].bind.kind = "repair" => node[n].bind.kind = "repair",
           node'[n].state = "running" => node[n].state = "running",
           node'[n].state = "accepted" => node[n].state \in {"running", "accepted"}
    PROVE  DependentsWaitForRepair'
  BY DependentsKept, GraphAssumption DEF Node

LEMMA RolledBackDependents ==
    ASSUME TypeOK, DependentsWaitForRepair, NEW n \in Node, node[n].state = "running",
           RollbackFailedAttemptRecovery(n) \/ RollbackUnassignedAcceptedSourceRepair(n)
    PROVE  DependentsWaitForRepair'
<1>1. /\ \A m \in Node \ {n} : node'[m] = node[m]
      /\ node'[n].state \in {"pending", "failed", "blocked"}
  BY RollbackRows
<1>2. node'[n].bind.kind = "repair" => node[n].bind.kind = "repair"
  <2>1. CASE RollbackFailedAttemptRecovery(n)
    <3>1. Requeued(node[n], NoBind) \in NodeRows /\ Requeued(node[n], NoBind).bind = NoBind
      BY RowFields, NoBindType, RequeuedType, RequeuedFields
    <3>2. node'[n].bind = NoBind
      BY <2>1, <3>1 DEF RollbackFailedAttemptRecovery, TypeOK, NodeRows
    <3>3. QED
      BY <3>2 DEF NoBind
  <2>2. CASE RollbackUnassignedAcceptedSourceRepair(n)
    BY <2>2 DEF RollbackUnassignedAcceptedSourceRepair
  <2>3. QED
    BY <2>1, <2>2
<1>3. QED
  BY <1>1, <1>2, DependentsQuiet

LEMMA ProcessDependents ==
    ASSUME TypeOK, TreeInv, DependentsWaitForRepair, Process
    PROVE  DependentsWaitForRepair'
<1> USE DEF process, rows
<1>1. CASE Stop \/ ActivateCoordinator \/ BeginRecovery \/ EndRecovery \/ Serve
  BY <1>1 DEF Stop, ActivateCoordinator, BeginRecovery, EndRecovery, Serve, DependentsWaitForRepair
<1>2. ASSUME NEW p \in replay, ReplayOrphan(p)
      PROVE  DependentsWaitForRepair'
  BY <1>2 DEF ReplayOrphan, DependentsWaitForRepair
<1>3. ASSUME NEW n \in Node, RecoverInterrupted(n)
      PROVE  DependentsWaitForRepair'
  <2>1. node[n].state = "running"
    BY <1>3 DEF RecoverInterrupted
  <2>2. CASE RollbackFailedAttemptRecovery(n) \/ RollbackUnassignedAcceptedSourceRepair(n)
    BY <2>1, <2>2, RolledBackDependents
  <2>3. CASE node' = [node EXCEPT ![n] = [@ EXCEPT !.state = "indeterminate",
                                                  !.result = "indeterminate"]]
    <3>1. /\ \A m \in Node \ {n} : node'[m] = node[m]
          /\ node'[n].state = "indeterminate" /\ node'[n].bind = node[n].bind
      BY <2>3, RowFields DEF TypeOK, NodeRows
    <3>2. QED
      BY <3>1, DependentsQuiet
  <2>4. QED
    BY <1>3, <2>2, <2>3 DEF RecoverInterrupted
<1>4. ASSUME NEW n \in Node, ClaimReadyNode(n)
      PROVE  DependentsWaitForRepair'
  <2>1. /\ \A m \in Node \ {n} : node'[m] = node[m]
        /\ node'[n].state = "running" /\ node'[n].bind = node[n].bind
        /\ \A m \in DependsOn[n] : node[m].state = "accepted"
    BY <1>4, RowFields DEF ClaimReadyNode, DependenciesAccepted, TypeOK, NodeRows
  <2>2. ASSUME n \in Worker, NEW m \in DependsOn[n]
        PROVE  node'[m].bind.kind # "repair"
    <3>1. m \in Worker /\ m # n
      BY <2>2, GraphAssumption
    <3>2. QED
      BY <2>1, <2>2, <3>1, WorkerRow DEF RowHolds, Tied
  <2>3. QED
    BY <2>1, <2>2, DependentsKept, GraphAssumption DEF Node
<1>5. QED
  BY <1>1, <1>2, <1>3, <1>4 DEF Process

LEMMA SettledDependents ==
    ASSUME TypeOK, DependentsWaitForRepair, NEW c \in claims, NEW s, NEW r, NEW taskAfter,
           s # "running", Settle(c, Settled(c.node, s, r), taskAfter)
    PROVE  DependentsWaitForRepair'
<1>1. /\ c.node \in Node /\ node[c.node].state = "running"
      /\ \A m \in Node \ {c.node} : node'[m] = node[m]
      /\ node'[c.node].state = s /\ node'[c.node].bind = NoBind
  BY ClaimFields, RowFields DEF Settle, Fence, Settled, TypeOK, NodeRows
<1>2. QED
  BY <1>1, DependentsQuiet DEF NoBind

\* When a verdict takes owners back, every worker is accepted, so none runs; an
\* accepted descendant of an owner is taken back with it or lies below another.
LEMMA RejectedDependents ==
    ASSUME TypeOK, VerdictInv, DependentsWaitForRepair, NEW c \in claims,
           NEW owners \in SUBSET Worker, SettleRejected(c, owners)
    PROVE  DependentsWaitForRepair'
<1> DEFINE back == [n \in Node |->
                      CASE n = Verifier   -> Requeued(node[n], NoBind)
                        [] n \in owners   -> Requeued(node[n], RepairOf(n))
                        [] OTHER          -> node[n]]
<1>1. CASE Settle(c, back, SettledTask("queued", FALSE)) /\ Repairable(owners)
  <2>1. node' = back
    BY <1>1 DEF Settle
  <2>2. \A w \in Worker : node[w].state = "accepted"
    BY <1>1 DEF SettleRejected, Settle, Fence, VerdictInv
  <2>3. ASSUME NEW w \in Worker
        PROVE  IF w \in owners THEN node'[w].state = "pending" ELSE node'[w] = node[w]
    <3>1. w \in Node /\ w # Verifier
      BY GraphAssumption DEF Node
    <3>2. Requeued(node[w], RepairOf(w)).state = "pending"
      BY <3>1, RowFields, RecoveryBindType, RequeuedFields DEF Results
    <3>3. QED
      BY <2>1, <3>1, <3>2
  <2>4. ASSUME NEW n \in Worker, NEW d \in Worker,
               node'[n].bind.kind = "repair", n \in DependsOn[d]
        PROVE  /\ node'[d].state # "running"
               /\ node'[d].state = "accepted" => \E k \in Worker : d \in Ancestors(k)
    <3>1. node'[d].state \in {"pending", "accepted"}
      BY <2>2, <2>3
    <3>2. ASSUME node'[d].state = "accepted"
          PROVE  \E k \in Worker : d \in Ancestors(k)
      <4>1. d \notin owners
        BY <2>3, <3>2
      <4>2. CASE n \in owners
        <5>1. n \in Ancestors(d)
          BY <2>4 DEF Ancestors, Node
        <5>2. d \in UNION {Ancestors(w) : w \in owners}
          BY <1>1, <2>2, <4>1, <4>2, <5>1 DEF Repairable
        <5>3. QED
          BY <5>2
      <4>3. CASE n \notin owners
        BY <2>2, <2>3, <2>4, <4>3 DEF DependentsWaitForRepair
      <4>4. QED
        BY <4>2, <4>3
    <3>3. QED
      BY <3>1, <3>2
  <2>5. QED
    BY <2>4 DEF DependentsWaitForRepair
<1>2. CASE Settle(c, Settled(Verifier, "failed", "failed"), SettledTask("needs_fix", TRUE))
  BY <1>2, SettledDependents DEF SettleRejected
<1>3. QED
  BY <1>1, <1>2 DEF SettleRejected

LEMMA WorkerDependents ==
    ASSUME TypeOK, VerdictInv, DependentsWaitForRepair, NEW c \in claims, WorkerStep(c)
    PROVE  DependentsWaitForRepair'
<1> USE DEF process, rows
<1>1. CASE PrepareWorktree(c) \/ DropClaim(c)
  BY <1>1 DEF PrepareWorktree, DropClaim, DependentsWaitForRepair
<1>2. CASE AssignPlain(c) \/ AssignAcceptedSourceRepair(c) \/ AssignFailedAttemptRecovery(c)
  <2>1. PICK bind \in {NoBind, [node[c.node].bind EXCEPT !.kind = "assigned"]} : CommitTarget(c, bind)
    BY <1>2 DEF AssignPlain, AssignAcceptedSourceRepair, AssignFailedAttemptRecovery
  <2>2. bind.kind # "repair"
    BY <2>1, ClaimFields, RowFields DEF NoBind, Binds
  <2>3. /\ \A m \in Node \ {c.node} : node'[m] = node[m]
        /\ node'[c.node].state = node[c.node].state /\ node'[c.node].bind = bind
    BY <2>1, ClaimFields, RowFields DEF CommitTarget, TypeOK, NodeRows
  <2>4. QED
    BY <2>2, <2>3, ClaimFields, DependentsQuiet
<1>3. CASE SettleAccepted(c)
  BY <1>3, SettledDependents DEF SettleAccepted
<1>4. CASE SettleVerified(c)
  BY <1>4, SettledDependents DEF SettleVerified
<1>5. CASE SettleIndeterminate(c)
  BY <1>5, SettledDependents DEF SettleIndeterminate
<1>6. CASE SettleBlocked(c)
  BY <1>6, SettledDependents DEF SettleBlocked
<1>7. ASSUME NEW r \in {"blocked", "outside"}, SettleRetryable(c, r)
      PROVE  DependentsWaitForRepair'
  <2> DEFINE row == Requeued(node[c.node], CaptureOf(c.node, r))
  <2>1. CASE Settle(c, [node EXCEPT ![c.node] = row], SettledTask("queued", FALSE))
    <3>1. /\ row.state = "pending" /\ row.bind.kind = "capture_pending"
      <4>1. CaptureOf(c.node, r) \in Binds /\ CaptureOf(c.node, r).kind = "capture_pending"
        BY ClaimFields, RecoveryBindType DEF Results, CaptureOf
      <4>2. QED
        BY <4>1, ClaimFields, RowFields, RequeuedFields
    <3> HIDE DEF row
    <3>2. /\ node'[c.node] = row /\ \A m \in Node \ {c.node} : node'[m] = node[m]
      BY <2>1, ClaimFields DEF Settle, TypeOK
    <3>3. QED
      BY <3>1, <3>2, ClaimFields, DependentsQuiet
  <2>2. CASE Settle(c, Settled(c.node, "blocked", r), SettledTask("needs_fix", TRUE))
    BY <2>2, SettledDependents
  <2>3. QED
    BY <1>7, <2>1, <2>2 DEF SettleRetryable
<1>8. ASSUME NEW r \in {"failed", "outside"}, SettleFailed(c, r)
      PROVE  DependentsWaitForRepair'
  BY <1>8, SettledDependents DEF SettleFailed
<1>9. ASSUME NEW owners \in SUBSET Worker, SettleRejected(c, owners)
      PROVE  DependentsWaitForRepair'
  BY <1>9, RejectedDependents
<1>10. CASE SettleUnassigned(c)
  BY <1>10, ClaimFields, RolledBackDependents DEF SettleUnassigned, Fence
<1>11. CASE ReconcileSettlementConflict(c)
  <2>1. /\ \A m \in Node \ {c.node} : node'[m] = node[m]
        /\ node'[c.node].state = "indeterminate" /\ node'[c.node].bind = node[c.node].bind
    BY <1>11, ClaimFields, RowFields DEF ReconcileSettlementConflict, TypeOK, NodeRows
  <2>2. QED
    BY <2>1, ClaimFields, DependentsQuiet
<1>12. QED
  BY <1>1, <1>2, <1>3, <1>4, <1>5, <1>6, <1>7, <1>8, <1>9, <1>10, <1>11 DEF WorkerStep

LEMMA ControlDependents ==
    ASSUME TypeOK, DependentsWaitForRepair, Control
    PROVE  DependentsWaitForRepair'
<1> USE DEF process
<1>1. ASSUME NEW s \in {"paused", "cancelled"}, TransitionTask(s)
      PROVE  DependentsWaitForRepair'
  BY <1>1 DEF TransitionTask, DependentsWaitForRepair
<1>2. CASE QueueTask
  <2>1. ASSUME NEW n \in Node
        PROVE  \/ node'[n] = node[n]
               \/ /\ node'[n].state = "pending"
                  /\ node'[n].bind.kind = "repair" => node[n].bind.kind = "repair"
    <3>1. CaptureOf(n, node[n].result) \in Binds /\ CaptureOf(n, node[n].result).kind = "capture_pending"
      BY RowFields, RecoveryBindType DEF CaptureOf
    <3>2. /\ ResetFailed(n).state = "pending"
          /\ ResetFailed(n).bind.kind = "repair" => node[n].bind.kind = "repair"
      <4>1. CASE ResetFailed(n) = Requeued(node[n], CaptureOf(n, node[n].result))
        BY <3>1, <4>1, RowFields, RequeuedFields
      <4>2. CASE ResetFailed(n) = [node[n] EXCEPT !.state = "pending"]
        BY <4>2, RowFields DEF NodeRows
      <4>3. QED
        BY <4>1, <4>2 DEF ResetFailed
    <3>3. node'[n] \in {node[n], ResetFailed(n)}
      BY <1>2 DEF QueueTask
    <3>4. QED
      BY <3>2, <3>3
  <2>2. QED
    BY <2>1, DependentsKept DEF Node
<1>3. ASSUME NEW n \in Node, NEW d \in {"retry", "fail", "cancel"},
             node' = [node EXCEPT ![n] = ResolvedRow(n, d)]
      PROVE  DependentsWaitForRepair'
  <2>1. /\ \A m \in Node \ {n} : node'[m] = node[m]
        /\ node'[n].state \in {"pending", "failed", "cancelled"} /\ node'[n].bind = node[n].bind
    BY <1>3, RowFields DEF ResolvedRow, TypeOK, NodeRows
  <2>2. QED
    BY <2>1, DependentsQuiet
<1>4. ASSUME NEW p \in open, NEW d \in {"retry", "fail", "cancel"}, DecideApproval(p, d)
      PROVE  DependentsWaitForRepair'
  <2>1. p[1] \in Node
    BY DEF TypeOK
  <2>2. QED
    BY <1>3, <1>4, <2>1 DEF DecideApproval
<1>5. ASSUME NEW n \in Node, NEW d \in {"retry", "fail", "cancel"}, ResolveIndeterminate(n, d)
      PROVE  DependentsWaitForRepair'
  BY <1>3, <1>5 DEF ResolveIndeterminate
<1>6. ASSUME NEW n \in Node, RetryBlockedNode(n)
      PROVE  DependentsWaitForRepair'
  <2>1. /\ \A m \in Node \ {n} : node'[m] = node[m]
        /\ node'[n].state = "pending" /\ node'[n].bind = node[n].bind
    BY <1>6, RowFields DEF RetryBlockedNode, TypeOK, NodeRows
  <2>2. QED
    BY <2>1, DependentsQuiet
<1>7. QED
  BY <1>1, <1>2, <1>4, <1>5, <1>6 DEF Control

LEMMA DependentsStep ==
    TypeOK /\ VerdictInv /\ TreeInv /\ DependentsWaitForRepair /\ [Next]_vars
        => DependentsWaitForRepair'
<1> SUFFICES ASSUME TypeOK, VerdictInv, TreeInv, DependentsWaitForRepair, [Next]_vars
             PROVE  DependentsWaitForRepair'
  OBVIOUS
<1>1. CASE UNCHANGED vars
  BY <1>1 DEF vars, rows, DependentsWaitForRepair
<1>2. QED
  BY <1>1, ProcessDependents, WorkerDependents, ControlDependents DEF Next

\* While an accepted source is repaired, nothing built on it runs, and what of it
\* still counts as accepted lies below another worker.
THEOREM DependentsWait == Spec => []DependentsWaitForRepair
<1>1. Init => VerdictInv /\ DependentsWaitForRepair
  BY GraphAssumption DEF Init, VerdictInv, DependentsWaitForRepair, NewRow, NoBind, Node
<1>2. QED
  BY <1>1, TreeInit, TreeStep, VerdictStep, DependentsStep, TypeCorrect, PTL DEF Spec

-----------------------------------------------------------------------------
(* Nothing runs with nobody behind it.                                      *)

\* The worker that holds a node's lease.
Behind(c, n) == c.node = n /\ Fence(c)

Served == phase \in {"replaying", "serving"}

\* Nothing starts to run, rows that go on running keep attempt and lease, and so do
\* the workers behind them.
LEMMA OwnersKept ==
    ASSUME TypeOK, RunningIsOwned, Served' => Served, epoch' = epoch,
           \A n \in Node : node'[n].state = "running" =>
              /\ node[n].state = "running" /\ node'[n].attempt = node[n].attempt
              /\ node'[n].epoch = node[n].epoch /\ node'[n].lease = node[n].lease,
           \A c \in claims : Fence(c) /\ node'[c.node].state = "running" =>
              \E d \in claims' : /\ d.node = c.node /\ d.attempt = c.attempt
                                 /\ d.epoch = c.epoch /\ d.lease = c.lease
    PROVE  RunningIsOwned'
<1>1. ASSUME Served', NEW n \in Node, node'[n].state = "running"
      PROVE  \E d \in claims' : d.node = n /\ Fence(d)'
  <2>1. PICK c \in claims : c.node = n /\ Fence(c)
    BY <1>1 DEF RunningIsOwned, Running, Served
  <2>2. PICK d \in claims' : /\ d.node = c.node /\ d.attempt = c.attempt
                             /\ d.epoch = c.epoch /\ d.lease = c.lease
    BY <1>1, <2>1
  <2>3. QED
    BY <1>1, <2>1, <2>2 DEF Fence
<1>2. QED
  BY <1>1 DEF RunningIsOwned, Running, Served

\* The same for a step that writes one row and drops at most the worker behind it.
LEMMA OwnerSettled ==
    ASSUME TypeOK, RunningIsOwned, phase' = phase, epoch' = epoch, NEW n \in Node,
           \A m \in Node \ {n} : node'[m] = node[m],
           node'[n].state # "running",
           \A c \in claims : c.node # n => c \in claims'
    PROVE  RunningIsOwned'
  BY OwnersKept, ClaimFields DEF Served

LEMMA ProcessOwners ==
    ASSUME TypeOK, RunningIsOwned, Process
    PROVE  RunningIsOwned'
<1> USE DEF process, rows
<1>1. CASE Stop \/ ActivateCoordinator \/ BeginRecovery \/ EndRecovery
  BY <1>1 DEF Stop, ActivateCoordinator, BeginRecovery, EndRecovery, RunningIsOwned, Running
<1>2. CASE Serve
  BY <1>2 DEF Serve, RunningIsOwned, Running, Fence
<1>3. ASSUME NEW p \in replay, ReplayOrphan(p)
      PROVE  RunningIsOwned'
  BY <1>3 DEF ReplayOrphan, RunningIsOwned, Running, Fence
<1>4. ASSUME NEW n \in Node, RecoverInterrupted(n)
      PROVE  RunningIsOwned'
  BY <1>4 DEF RecoverInterrupted, RunningIsOwned
<1>5. ASSUME NEW n \in Node, ClaimReadyNode(n)
      PROVE  RunningIsOwned'
  <2>1. /\ claims \subseteq claims' /\ epoch' = epoch /\ phase' = phase
        /\ phase = "serving" /\ \A m \in Node \ {n} : node'[m] = node[m]
        /\ node'[n].attempt = node[n].attempt + 1 /\ node'[n].epoch = epoch
        /\ node'[n].lease = NextLeaseEpoch /\ node'[n].state = "running"
    BY <1>5, RowFields DEF ClaimReadyNode, TypeOK, NodeRows
  <2>2. \E c \in claims' : c.node = n /\ Fence(c)'
    <3> DEFINE new == [node |-> n, attempt |-> node[n].attempt + 1, epoch |-> epoch,
                       lease |-> NextLeaseEpoch, step |-> "claimed"]
    <3>1. new \in claims'
      BY <1>5 DEF ClaimReadyNode
    <3>2. /\ new.node = n /\ new.attempt = node[n].attempt + 1
          /\ new.epoch = epoch /\ new.lease = NextLeaseEpoch
      OBVIOUS
    <3> HIDE DEF new
    <3>3. PICK c : c = new
      OBVIOUS
    <3>4. c \in claims' /\ c.node = n /\ Fence(c)'
      BY <2>1, <3>1, <3>2, <3>3 DEF Fence
    <3>5. QED
      BY <3>4
  <2>3. ASSUME NEW m \in Node \ {n}, node'[m].state = "running"
        PROVE  \E c \in claims' : c.node = m /\ Fence(c)'
    <3>1. PICK c \in claims : c.node = m /\ Fence(c)
      BY <2>1, <2>3 DEF RunningIsOwned, Running
    <3>2. QED
      BY <2>1, <2>3, <3>1 DEF Fence
  <2>4. QED
    BY <2>1, <2>2, <2>3 DEF RunningIsOwned, Running
<1>6. QED
  BY <1>1, <1>2, <1>3, <1>4, <1>5 DEF Process

LEMMA SettledOwner ==
    ASSUME TypeOK, RunningIsOwned, NEW c \in claims, NEW s, NEW r, NEW taskAfter,
           s # "running", Settle(c, Settled(c.node, s, r), taskAfter)
    PROVE  RunningIsOwned'
<1>1. /\ c.node \in Node /\ \A m \in Node \ {c.node} : node'[m] = node[m]
      /\ node'[c.node].state = s
  BY ClaimFields, RowFields DEF Settle, Settled, TypeOK, NodeRows
<1>2. phase' = phase /\ epoch' = epoch /\ claims' = claims \ {c}
  BY DEF Settle, process
<1>3. QED
  BY <1>1, <1>2, OwnerSettled

\* A worker's step to s is the same worker.
LEMMA OwnerAdvances ==
    ASSUME TypeOK, RunningIsOwned, NEW c \in claims, NEW s, Advance(c, s),
           UNCHANGED process,
           \A n \in Node : /\ node'[n].state = node[n].state /\ node'[n].attempt = node[n].attempt
                           /\ node'[n].epoch = node[n].epoch /\ node'[n].lease = node[n].lease
    PROVE  RunningIsOwned'
<1> DEFINE next == [c EXCEPT !.step = s]
<1>1. /\ next.node = c.node /\ next.attempt = c.attempt
      /\ next.epoch = c.epoch /\ next.lease = c.lease
  BY ClaimFields DEF Claims
<1>2. claims' = (claims \ {c}) \cup {next}
  BY DEF Advance
<1> HIDE DEF next
<1>3. ASSUME NEW b \in claims
      PROVE  \E d \in claims' : /\ d.node = b.node /\ d.attempt = b.attempt
                                /\ d.epoch = b.epoch /\ d.lease = b.lease
  BY <1>1, <1>2
<1>4. QED
  BY <1>3, OwnersKept DEF process, Served

LEMMA WorkerOwners ==
    ASSUME TypeOK, VerdictInv, RunningIsOwned, NEW c \in claims, WorkerStep(c)
    PROVE  RunningIsOwned'
<1> USE DEF process, rows
<1>1. CASE PrepareWorktree(c)
  BY <1>1, OwnerAdvances DEF PrepareWorktree
<1>2. CASE AssignPlain(c) \/ AssignAcceptedSourceRepair(c) \/ AssignFailedAttemptRecovery(c)
  <2>1. PICK bind : CommitTarget(c, bind)
    BY <1>2 DEF AssignPlain, AssignAcceptedSourceRepair, AssignFailedAttemptRecovery
  <2>2. \A n \in Node : /\ node'[n].state = node[n].state /\ node'[n].attempt = node[n].attempt
                        /\ node'[n].epoch = node[n].epoch /\ node'[n].lease = node[n].lease
    BY <2>1, ClaimFields, RowFields DEF CommitTarget, TypeOK, NodeRows
  <2>3. QED
    BY <2>1, <2>2, OwnerAdvances DEF CommitTarget
<1>3. CASE SettleAccepted(c)
  BY <1>3, SettledOwner DEF SettleAccepted
<1>4. CASE SettleVerified(c)
  BY <1>4, SettledOwner DEF SettleVerified
<1>5. CASE SettleIndeterminate(c)
  BY <1>5, SettledOwner DEF SettleIndeterminate
<1>6. CASE SettleBlocked(c)
  BY <1>6, SettledOwner DEF SettleBlocked
<1>7. ASSUME NEW r \in {"blocked", "outside"}, SettleRetryable(c, r)
      PROVE  RunningIsOwned'
  <2> DEFINE row == Requeued(node[c.node], CaptureOf(c.node, r))
  <2>1. CASE Settle(c, [node EXCEPT ![c.node] = row], SettledTask("queued", FALSE))
    <3>1. row.state = "pending"
      BY ClaimFields, RowFields, RecoveryBindType, RequeuedFields DEF Results
    <3> HIDE DEF row
    <3>2. /\ node'[c.node] = row /\ \A m \in Node \ {c.node} : node'[m] = node[m]
          /\ phase' = phase /\ epoch' = epoch /\ claims' = claims \ {c}
      BY <2>1, ClaimFields DEF Settle, TypeOK
    <3>3. QED
      BY <3>1, <3>2, ClaimFields, OwnerSettled
  <2>2. CASE Settle(c, Settled(c.node, "blocked", r), SettledTask("needs_fix", TRUE))
    BY <2>2, SettledOwner
  <2>3. QED
    BY <1>7, <2>1, <2>2 DEF SettleRetryable
<1>8. ASSUME NEW r \in {"failed", "outside"}, SettleFailed(c, r)
      PROVE  RunningIsOwned'
  BY <1>8, SettledOwner DEF SettleFailed
<1>9. ASSUME NEW owners \in SUBSET Worker, SettleRejected(c, owners)
      PROVE  RunningIsOwned'
  <2> DEFINE back == [n \in Node |->
                        CASE n = Verifier   -> Requeued(node[n], NoBind)
                          [] n \in owners   -> Requeued(node[n], RepairOf(n))
                          [] OTHER          -> node[n]]
  <2>1. CASE Settle(c, back, SettledTask("queued", FALSE))
    <3>1. \A n \in Node : back[n] = node[n] \/ back[n].state = "pending"
      <4>1. ASSUME NEW n \in Node
            PROVE  /\ Requeued(node[n], NoBind).state = "pending"
                   /\ Requeued(node[n], RepairOf(n)).state = "pending"
        BY RowFields, NoBindType, RecoveryBindType, RequeuedFields DEF Results
      <4>2. QED
        BY <4>1
    <3>2. back[Verifier].state = "pending"
      <4>1. Verifier \in Node /\ Verifier \notin owners
        BY GraphAssumption DEF Node
      <4>2. back[Verifier] = Requeued(node[Verifier], NoBind)
        BY <4>1
      <4>3. QED
        BY <4>1, <4>2, RowFields, NoBindType, RequeuedFields
    <3>3. /\ node' = back /\ phase' = phase /\ epoch' = epoch /\ claims' = claims \ {c}
          /\ c.node = Verifier
      BY <1>9, <2>1 DEF Settle, SettleRejected
    <3> HIDE DEF back
    <3>4. QED
      BY <3>1, <3>2, <3>3, OwnersKept DEF Served
  <2>2. CASE Settle(c, Settled(Verifier, "failed", "failed"), SettledTask("needs_fix", TRUE))
    BY <1>9, <2>2, SettledOwner DEF SettleRejected
  <2>3. QED
    BY <1>9, <2>1, <2>2 DEF SettleRejected
<1>10. CASE SettleUnassigned(c)
  <2>1. /\ \A m \in Node \ {c.node} : node'[m] = node[m]
        /\ node'[c.node].state # "running"
    BY <1>10, ClaimFields, RollbackRows DEF SettleUnassigned
  <2>2. QED
    BY <1>10, <2>1, ClaimFields, OwnerSettled DEF SettleUnassigned
<1>11. CASE ReconcileSettlementConflict(c)
  <2>1. /\ \A m \in Node \ {c.node} : node'[m] = node[m]
        /\ node'[c.node].state # "running"
    BY <1>11, ClaimFields, RowFields DEF ReconcileSettlementConflict, TypeOK, NodeRows
  <2>2. QED
    BY <1>11, <2>1, ClaimFields, OwnerSettled DEF ReconcileSettlementConflict
<1>12. CASE DropClaim(c)
  <2>1. CASE phase = "down"
    BY <1>12, <2>1 DEF DropClaim, RunningIsOwned
  <2>2. CASE ~Fence(c)
    BY <1>12, <2>2, OwnersKept DEF DropClaim, Served
  <2>3. QED
    BY <1>12, <2>1, <2>2 DEF DropClaim
<1>13. QED
  BY <1>1, <1>2, <1>3, <1>4, <1>5, <1>6, <1>7, <1>8, <1>9, <1>10, <1>11, <1>12 DEF WorkerStep

LEMMA ControlOwners ==
    ASSUME TypeOK, RunningIsOwned, Control
    PROVE  RunningIsOwned'
<1> USE DEF process
<1>1. phase' = phase /\ epoch' = epoch /\ claims' = claims
  BY DEF Control, TransitionTask, QueueTask, DecideApproval, ResolveIndeterminate, RetryBlockedNode
<1>2. ASSUME NEW n \in Node
      PROVE  node'[n] = node[n] \/ node'[n].state # "running"
  <2>1. ASSUME NEW s \in {"paused", "cancelled"}, TransitionTask(s)
        PROVE  node'[n] = node[n]
    BY <2>1 DEF TransitionTask
  <2>2. CASE QueueTask
    <3>1. ResetFailed(n).state = "pending"
      BY RowFields, RecoveryBindType, RequeuedFields DEF ResetFailed, NodeRows
    <3>2. QED
      BY <2>2, <3>1 DEF QueueTask
  <2>3. ASSUME NEW m \in Node, NEW d \in {"retry", "fail", "cancel"},
               node' = [node EXCEPT ![m] = ResolvedRow(m, d)]
        PROVE  node'[n] = node[n] \/ node'[n].state # "running"
    BY <2>3, RowFields DEF ResolvedRow, TypeOK, NodeRows
  <2>4. ASSUME NEW p \in open, NEW d \in {"retry", "fail", "cancel"}, DecideApproval(p, d)
        PROVE  node'[n] = node[n] \/ node'[n].state # "running"
    <3>1. p[1] \in Node
      BY DEF TypeOK
    <3>2. QED
      BY <2>3, <2>4, <3>1 DEF DecideApproval
  <2>5. ASSUME NEW m \in Node, RetryBlockedNode(m)
        PROVE  node'[n] = node[n] \/ node'[n].state # "running"
    BY <2>5, RowFields DEF RetryBlockedNode, TypeOK, NodeRows
  <2>6. QED
    BY <2>1, <2>2, <2>3, <2>4, <2>5 DEF Control, ResolveIndeterminate
<1>3. QED
  BY <1>1, <1>2, OwnersKept DEF Served

LEMMA OwnedStep == TypeOK /\ VerdictInv /\ RunningIsOwned /\ [Next]_vars => RunningIsOwned'
<1> SUFFICES ASSUME TypeOK, VerdictInv, RunningIsOwned, [Next]_vars
             PROVE  RunningIsOwned'
  OBVIOUS
<1>1. CASE UNCHANGED vars
  BY <1>1 DEF vars, rows, process, RunningIsOwned, Running, Fence
<1>2. QED
  BY <1>1, ProcessOwners, WorkerOwners, ControlOwners DEF Next

\* Once a coordinator has recovered, every running node has the worker of its lease.
THEOREM RunningNodesAreOwned == Spec => []RunningIsOwned
<1>1. Init => VerdictInv /\ RunningIsOwned
  BY GraphAssumption DEF Init, VerdictInv, RunningIsOwned, NewRow, Node
<1>2. QED
  BY <1>1, VerdictStep, OwnedStep, TypeCorrect, PTL DEF Spec

-----------------------------------------------------------------------------
(* Pause and cancellation win over a restart, which only asks.              *)

\* The operator was asked only about attempts a node has reached, and about the
\* attempt that runs nobody has asked yet.
AskedInv ==
    \A p \in asked : /\ p[2] <= node[p[1]].attempt
                     /\ p[2] = node[p[1]].attempt => node[p[1]].state # "running"

\* A node neither leaves its attempt nor starts to run.
SameAttempt(n) ==
    /\ node'[n].attempt = node[n].attempt
    /\ node'[n].state = "running" => node[n].state = "running"

AllSame == \A n \in Node : SameAttempt(n)

\* A node starts its next attempt, or gives up a running one that left nothing behind.
OtherAttempt(n) ==
    \/ node'[n].attempt = node[n].attempt + 1
    \/ /\ node[n].state = "running" /\ node'[n].state # "running"
       /\ node[n].attempt = node'[n].attempt + 1

\* What a step may do to the attempts and the questions.
Attempted ==
    \/ AllSame /\ asked' = asked
    \/ /\ AllSame
       /\ \E n \in Node : node'[n].state # "running" /\ asked' = asked \cup {Path(n)}
    \/ /\ asked' = asked
       /\ \E n \in Node : OtherAttempt(n) /\ \A m \in Node \ {n} : SameAttempt(m)

LEMMA AskedAfter ==
    ASSUME TypeOK, TypeOK', AskedInv, Attempted
    PROVE  AskedInv'
<1> DEFINE Reached(p) == /\ p[2] <= node'[p[1]].attempt
                         /\ p[2] = node'[p[1]].attempt => node'[p[1]].state # "running"
<1>1. /\ \A p \in asked : p[1] \in Node /\ p[2] \in Nat
      /\ \A n \in Node : node[n].attempt \in Nat /\ node'[n].attempt \in Nat
  BY RowFields, RowFields DEF TypeOK, NodeRows
<1>2. ASSUME NEW p \in asked, SameAttempt(p[1])
      PROVE  Reached(p)
  BY <1>2 DEF AskedInv, SameAttempt
<1>3. ASSUME NEW p \in asked, OtherAttempt(p[1])
      PROVE  Reached(p)
  BY <1>1, <1>3 DEF AskedInv, OtherAttempt
<1>4. ASSUME NEW n \in Node, node'[n].state # "running", SameAttempt(n)
      PROVE  Reached(Path(n))
  <2>1. Path(n)[1] = n /\ Path(n)[2] = node'[n].attempt
    BY <1>4 DEF Path, SameAttempt
  <2>2. QED
    BY <1>1, <1>4, <2>1
<1>5. \A p \in asked' : Reached(p)
  <2> HIDE DEF Reached
  <2>1. CASE AllSame /\ asked' = asked
    BY <1>1, <1>2, <2>1 DEF AllSame
  <2>2. CASE /\ AllSame
             /\ \E n \in Node : node'[n].state # "running" /\ asked' = asked \cup {Path(n)}
    BY <1>1, <1>2, <1>4, <2>2 DEF AllSame
  <2>3. CASE /\ asked' = asked
             /\ \E n \in Node : OtherAttempt(n) /\ \A m \in Node \ {n} : SameAttempt(m)
    BY <1>1, <1>2, <1>3, <2>3
  <2>4. QED
    BY <2>1, <2>2, <2>3 DEF Attempted
<1>6. QED
  BY <1>5 DEF AskedInv

\* A step that stops one row at its attempt asks about it or asks nothing.
LEMMA RowStopped ==
    ASSUME NEW n \in Node, \A m \in Node \ {n} : node'[m] = node[m],
           node'[n].attempt = node[n].attempt, node'[n].state # "running",
           RequestApproval(Path(n)) \/ UNCHANGED approvals
    PROVE  Attempted
<1>1. AllSame
  BY DEF AllSame, SameAttempt
<1>2. asked' = asked \/ asked' = asked \cup {Path(n)}
  BY DEF RequestApproval, approvals
<1>3. QED
  BY <1>1, <1>2 DEF Attempted

LEMMA NothingAttempted ==
    ASSUME asked' = asked,
           \A n \in Node : \/ node'[n] = node[n]
                           \/ /\ node'[n].attempt = node[n].attempt
                              /\ node'[n].state = "running" => node[n].state = "running"
    PROVE  Attempted
  BY DEF Attempted, AllSame, SameAttempt

LEMMA RolledBackAttempt ==
    ASSUME TypeOK, TreeInv, NEW n \in Node, node[n].state = "running",
           RollbackFailedAttemptRecovery(n) \/ RollbackUnassignedAcceptedSourceRepair(n),
           UNCHANGED approvals
    PROVE  Attempted
<1>1. \A m \in Node \ {n} : node'[m] = node[m]
  BY RollbackRows
<1>2. CASE RollbackFailedAttemptRecovery(n)
  <2>1. n \in Worker
    BY <1>2 DEF RollbackFailedAttemptRecovery, TreeInv, NoBind, Node
  <2>2. node[n].attempt = node[n].bind.source + 1
    BY <1>2, <2>1, WorkerRow DEF RollbackFailedAttemptRecovery, RowHolds, Tied
  <2>3. node'[n].attempt = node[n].bind.source /\ node'[n].state # "running"
    BY <1>2, RowFields DEF RollbackFailedAttemptRecovery, Requeued, TypeOK, NodeRows
  <2>4. OtherAttempt(n) /\ \A m \in Node \ {n} : SameAttempt(m)
    BY <1>1, <2>2, <2>3 DEF OtherAttempt, SameAttempt
  <2>5. QED
    BY <2>4 DEF Attempted, approvals
<1>3. CASE RollbackUnassignedAcceptedSourceRepair(n)
  <2>1. node'[n].attempt = node[n].attempt /\ node'[n].state # "running"
    BY <1>3, RowFields DEF RollbackUnassignedAcceptedSourceRepair, Requeued, TypeOK, NodeRows
  <2>2. QED
    BY <1>1, <2>1, RowStopped
<1>4. QED
  BY <1>2, <1>3

LEMMA ProcessAttempts ==
    ASSUME TypeOK, TreeInv, Process
    PROVE  Attempted
<1> USE DEF process, rows, approvals
<1>1. CASE Stop \/ ActivateCoordinator \/ BeginRecovery \/ EndRecovery \/ Serve
  BY <1>1, NothingAttempted DEF Stop, ActivateCoordinator, BeginRecovery, EndRecovery, Serve
<1>2. ASSUME NEW p \in replay, ReplayOrphan(p)
      PROVE  Attempted
  BY <1>2, NothingAttempted DEF ReplayOrphan
<1>3. ASSUME NEW n \in Node, RecoverInterrupted(n)
      PROVE  Attempted
  <2>1. node[n].state = "running"
    BY <1>3 DEF RecoverInterrupted
  <2>2. CASE /\ RollbackFailedAttemptRecovery(n) \/ RollbackUnassignedAcceptedSourceRepair(n)
             /\ UNCHANGED approvals
    BY <2>1, <2>2, RolledBackAttempt
  <2>3. CASE /\ node' = [node EXCEPT ![n] = [@ EXCEPT !.state = "indeterminate",
                                                     !.result = "indeterminate"]]
             /\ RequestApproval(Path(n))
    <3>1. /\ \A m \in Node \ {n} : node'[m] = node[m]
          /\ node'[n].state = "indeterminate" /\ node'[n].attempt = node[n].attempt
      BY <2>3, RowFields DEF TypeOK, NodeRows
    <3>2. QED
      BY <2>3, <3>1, RowStopped
  <2>4. QED
    BY <1>3, <2>2, <2>3 DEF RecoverInterrupted
<1>4. ASSUME NEW n \in Node, ClaimReadyNode(n)
      PROVE  Attempted
  <2>1. /\ asked' = asked
        /\ node'[n].attempt = node[n].attempt + 1
        /\ \A m \in Node \ {n} : node'[m] = node[m]
    BY <1>4, RowFields DEF ClaimReadyNode, TypeOK, NodeRows
  <2>2. OtherAttempt(n) /\ \A m \in Node \ {n} : SameAttempt(m)
    BY <2>1 DEF OtherAttempt, SameAttempt
  <2>3. QED
    BY <2>1, <2>2 DEF Attempted
<1>5. QED
  BY <1>1, <1>2, <1>3, <1>4 DEF Process

LEMMA SettledAttempt ==
    ASSUME TypeOK, NEW c \in claims, NEW s, NEW r, NEW taskAfter, s # "running",
           Settle(c, Settled(c.node, s, r), taskAfter),
           RequestApproval(Target(c)) \/ UNCHANGED approvals
    PROVE  Attempted
<1>1. Target(c) = Path(c.node) /\ c.node \in Node
  BY ClaimFields DEF Settle, Fence, Target, Path
<1>2. /\ \A m \in Node \ {c.node} : node'[m] = node[m]
      /\ node'[c.node].state = s /\ node'[c.node].attempt = node[c.node].attempt
  BY <1>1, RowFields DEF Settle, Settled, TypeOK, NodeRows
<1>3. QED
  BY <1>1, <1>2, RowStopped

LEMMA WorkerAttempts ==
    ASSUME TypeOK, TreeInv, NEW c \in claims, WorkerStep(c)
    PROVE  Attempted
<1> USE DEF process, rows
<1>1. CASE PrepareWorktree(c) \/ DropClaim(c)
  BY <1>1, NothingAttempted DEF PrepareWorktree, DropClaim, approvals
<1>2. CASE AssignPlain(c) \/ AssignAcceptedSourceRepair(c) \/ AssignFailedAttemptRecovery(c)
  <2>1. PICK bind : CommitTarget(c, bind)
    BY <1>2 DEF AssignPlain, AssignAcceptedSourceRepair, AssignFailedAttemptRecovery
  <2>2. \A n \in Node : node'[n].state = node[n].state /\ node'[n].attempt = node[n].attempt
    BY <2>1, ClaimFields DEF CommitTarget, TypeOK, NodeRows
  <2>3. QED
    BY <2>1, <2>2, NothingAttempted DEF CommitTarget, approvals
<1>3. CASE SettleAccepted(c) \/ SettleBlocked(c) \/ \E r \in {"failed", "outside"} : SettleFailed(c, r)
  BY <1>3, SettledAttempt DEF SettleAccepted, SettleBlocked, SettleFailed
<1>4. CASE SettleVerified(c) \/ SettleIndeterminate(c)
  BY <1>4, SettledAttempt DEF SettleVerified, SettleIndeterminate
<1>5. ASSUME NEW r \in {"blocked", "outside"}, SettleRetryable(c, r)
      PROVE  Attempted
  <2> DEFINE back == [node EXCEPT ![c.node] = Requeued(@, CaptureOf(c.node, r))]
  <2>1. CASE Settle(c, back, SettledTask("queued", FALSE)) /\ UNCHANGED approvals
    <3>1. CaptureOf(c.node, r) \in Binds
      BY ClaimFields, RecoveryBindType DEF Results
    <3>2. /\ \A n \in Node \ {c.node} : back[n] = node[n]
          /\ back[c.node].state = "pending" /\ back[c.node].attempt = node[c.node].attempt
      BY <3>1, ClaimFields, RowFields, RequeuedFields DEF TypeOK
    <3> HIDE DEF back
    <3>3. QED
      BY <2>1, <3>2, ClaimFields, RowStopped DEF Settle
  <2>2. CASE /\ Settle(c, Settled(c.node, "blocked", r), SettledTask("needs_fix", TRUE))
             /\ UNCHANGED approvals
    BY <2>2, SettledAttempt
  <2>3. QED
    BY <1>5, <2>1, <2>2 DEF SettleRetryable
<1>6. ASSUME NEW owners \in SUBSET Worker, SettleRejected(c, owners)
      PROVE  Attempted
  <2> DEFINE back == [n \in Node |->
                        CASE n = Verifier   -> Requeued(node[n], NoBind)
                          [] n \in owners   -> Requeued(node[n], RepairOf(n))
                          [] OTHER          -> node[n]]
  <2>1. c.node = Verifier /\ UNCHANGED approvals
    BY <1>6 DEF SettleRejected
  <2>2. CASE Settle(c, back, SettledTask("queued", FALSE)) /\ Repairable(owners)
    <3>1. ASSUME NEW n \in Node
          PROVE  /\ Requeued(node[n], NoBind).state = "pending"
                 /\ Requeued(node[n], NoBind).attempt = node[n].attempt
                 /\ Requeued(node[n], RepairOf(n)).state = "pending"
                 /\ Requeued(node[n], RepairOf(n)).attempt = node[n].attempt
      BY RowFields, NoBindType, RecoveryBindType, RequeuedFields
    <3>2. \A n \in Node : \/ back[n] = node[n]
                          \/ back[n].state = "pending" /\ back[n].attempt = node[n].attempt
      BY <3>1
    <3> HIDE DEF back
    <3>3. node' = back /\ asked' = asked
      BY <2>1, <2>2 DEF Settle, approvals
    <3>4. QED
      BY <3>2, <3>3, NothingAttempted
  <2>3. CASE Settle(c, Settled(Verifier, "failed", "failed"), SettledTask("needs_fix", TRUE))
    BY <2>1, <2>3, SettledAttempt
  <2>4. QED
    BY <1>6, <2>2, <2>3 DEF SettleRejected
<1>7. CASE SettleUnassigned(c)
  BY <1>7, ClaimFields, RolledBackAttempt DEF SettleUnassigned, Fence
<1>8. CASE ReconcileSettlementConflict(c)
  <2>1. Target(c) = Path(c.node) /\ c.node \in Node
    BY <1>8, ClaimFields DEF ReconcileSettlementConflict, Fence, Target, Path
  <2>2. /\ \A m \in Node \ {c.node} : node'[m] = node[m]
        /\ node'[c.node].state = "indeterminate" /\ node'[c.node].attempt = node[c.node].attempt
    BY <1>8, <2>1, RowFields DEF ReconcileSettlementConflict, TypeOK, NodeRows
  <2>3. QED
    BY <1>8, <2>1, <2>2, RowStopped DEF ReconcileSettlementConflict
<1>9. QED
  BY <1>1, <1>2, <1>3, <1>4, <1>5, <1>6, <1>7, <1>8 DEF WorkerStep

LEMMA ControlAttempts ==
    ASSUME TypeOK, Control
    PROVE  Attempted
<1> USE DEF process, rows, approvals
<1>1. ASSUME NEW s \in {"paused", "cancelled"}, TransitionTask(s)
      PROVE  Attempted
  BY <1>1, NothingAttempted DEF TransitionTask
<1>2. CASE QueueTask
  <2>1. \A n \in Node : node'[n] = node[n] \/ node'[n] = ResetFailed(n)
    BY <1>2 DEF QueueTask
  <2>2. \A n \in Node : /\ ResetFailed(n).state = "pending"
                        /\ ResetFailed(n).attempt = node[n].attempt
    BY RowFields, RecoveryBindType, RequeuedFields DEF ResetFailed, NodeRows
  <2>3. QED
    BY <1>2, <2>1, <2>2, NothingAttempted DEF QueueTask
<1>3. ASSUME NEW n \in Node, NEW d \in {"retry", "fail", "cancel"}, asked' = asked,
             node' = [node EXCEPT ![n] = ResolvedRow(n, d)]
      PROVE  Attempted
  <2>1. ResolvedRow(n, d).state # "running" /\ ResolvedRow(n, d).attempt = node[n].attempt
    BY RowFields DEF ResolvedRow, NodeRows
  <2>2. \A m \in Node : node'[m] = IF m = n THEN ResolvedRow(n, d) ELSE node[m]
    BY <1>3 DEF TypeOK
  <2>3. QED
    BY <1>3, <2>1, <2>2, NothingAttempted
<1>4. ASSUME NEW p \in open, NEW d \in {"retry", "fail", "cancel"}, DecideApproval(p, d)
      PROVE  Attempted
  <2>1. p[1] \in Node
    BY DEF TypeOK
  <2>2. QED
    BY <1>3, <1>4, <2>1 DEF DecideApproval
<1>5. ASSUME NEW n \in Node, NEW d \in {"retry", "fail", "cancel"}, ResolveIndeterminate(n, d)
      PROVE  Attempted
  BY <1>3, <1>5 DEF ResolveIndeterminate
<1>6. ASSUME NEW n \in Node, RetryBlockedNode(n)
      PROVE  Attempted
  <2>1. /\ \A m \in Node \ {n} : node'[m] = node[m]
        /\ node'[n].state = "pending" /\ node'[n].attempt = node[n].attempt
    BY <1>6, RowFields DEF RetryBlockedNode, TypeOK, NodeRows
  <2>2. QED
    BY <1>6, <2>1, RowStopped DEF RetryBlockedNode
<1>7. QED
  BY <1>1, <1>2, <1>4, <1>5, <1>6 DEF Control

LEMMA AskedStep == TypeOK /\ TypeOK' /\ TreeInv /\ AskedInv /\ [Next]_vars => AskedInv'
<1> SUFFICES ASSUME TypeOK, TypeOK', TreeInv, AskedInv, [Next]_vars
             PROVE  AskedInv'
  OBVIOUS
<1>1. CASE UNCHANGED vars
  BY <1>1 DEF vars, rows, approvals, AskedInv
<1>2. QED
  BY <1>1, ProcessAttempts, WorkerAttempts, ControlAttempts, AskedAfter DEF Next

\* The question a restart asks is a new one, so it is open.
LEMMA RestartAsks ==
    ASSUME TypeOK, AskedInv, Controlled, phase = "recovering", [Next]_vars, task' # task
    PROVE  claims' = claims /\ \E n \in Node : AsksAbout(n)
<1>1. \E n \in Node : RecoverInterrupted(n)
  <2>1. CASE Process
    BY <2>1 DEF Process, Stop, ActivateCoordinator, BeginRecovery, EndRecovery, Serve,
                ReplayOrphan, ClaimReadyNode, process, rows
  <2>2. CASE Control
    BY <2>2 DEF Control, Operator, TransitionTask, QueueTask, DecideApproval,
                ResolveIndeterminate, RetryBlockedNode
  <2>3. QED
    BY <2>1, <2>2 DEF Next, WorkerStep, vars, rows
<1>2. PICK n \in Node : RecoverInterrupted(n)
  BY <1>1
<1>3. /\ node' = [node EXCEPT ![n] = [@ EXCEPT !.state = "indeterminate",
                                              !.result = "indeterminate"]]
      /\ SetTask("needs_approval") /\ RequestApproval(Path(n))
      /\ node[n].state = "running" /\ claims' = claims
  BY <1>2 DEF RecoverInterrupted, RollbackFailedAttemptRecovery,
              RollbackUnassignedAcceptedSourceRepair, Controlled
<1>4. Path(n) \notin asked
  BY <1>3 DEF AskedInv, Path
<1>5. AsksAbout(n)
  BY <1>3, <1>4, RowFields DEF AsksAbout, SetTask, At, RequestApproval, TypeOK, NodeRows
<1>6. QED
  BY <1>3, <1>5

\* The task an operator paused or cancelled stays as he left it, whatever a worker
\* reports; a restart moves it only with an open question about what it interrupted.
THEOREM WorkersLeaveControl == Spec => ControlSurvivesWorkers
<1>1. Init => AskedInv
  BY DEF Init, AskedInv
<1>2. TypeOK /\ AskedInv /\ [Next]_vars
        => [(claims' # claims \/ phase = "recovering")
                  /\ task.state \in {"paused", "cancelled"} /\ task' # task
              => claims' = claims /\ \E n \in Node : AsksAbout(n)]_vars
  BY ControlledStep, RestartAsks DEF Controlled
<1>3. QED
  BY <1>1, <1>2, AskedStep, TreeInit, TreeStep, TypeCorrect, PTL DEF Spec, ControlSurvivesWorkers
=============================================================================
