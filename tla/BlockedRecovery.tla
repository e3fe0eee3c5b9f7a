-------------------------- MODULE BlockedRecovery --------------------------
(***************************************************************************)
(* How the worktree of an attempt that ended badly is carried into a new   *)
(* attempt.  Five calls do it: resume and extract (a blocked attempt,      *)
(* strictly or by its previewed source delta), repair (the same, for the   *)
(* original executor), local and localExtract (an indeterminate one).      *)
(* Each reads the ledger, inspects files outside the database, reads the   *)
(* ledger again and commits by compare-and-set; the coordinator then       *)
(* restores the patch on a clean target and hands the allocation over,     *)
(* or puts the source attempt back.  Late writers, the operator's control, *)
(* a controlled validation and restarts come between any two steps.        *)
(***************************************************************************)
EXTENDS Naturals, FiniteSets

CONSTANTS
    Route,         \* the calls that are made
    MaxActions,    \* repair's policy: max_action_attempts
    MaxAttempt,    \* bound: attempts of the node
    MaxContent     \* bound: what a worktree may hold

Attempt == 1..MaxAttempt
Calls == {"resume", "extract", "repair", "local", "localExtract"}

\* What the theorems about every recovery assume; Protocols assumes it of its own.
RecoveryAssumption ==
    /\ Route \subseteq Calls
    /\ MaxActions \in Nat /\ MaxAttempt \in Nat \ {0} /\ MaxContent \in Nat \ {0}

VARIABLES
    task,          \* tasks.state
    node,          \* the row of the worker
    alloc,         \* worktree_allocations.state, by attempt
    files,         \* what the directory of an attempt holds, 0 for no change
    approval,      \* an indeterminate_resolution that waits
    validating,    \* a controlled validation executes
    spent,         \* repairs queued under the policy
    op,            \* the recovery call in flight
    prep           \* the coordinator's thread on the node

vars == <<task, node, alloc, files, approval, validating, spent, op, prep>>

NoRecovery == [kind |-> "none", state |-> "none", source |-> 0, patch |-> 0,
               digest |-> 0, from |-> "none", back |-> "none"]
NoCall == [pc |-> "idle", route |-> "resume", current |-> FALSE, attempt |-> 0,
           patch |-> 0, digest |-> 0]
NoPrep == [pc |-> "idle", patch |-> 0, outcome |-> "none"]

Row(state, worktree, result) ==
    [state |-> state, attempt |-> 1, worktree |-> worktree, result |-> result,
     recovery |-> NoRecovery]

\* A first attempt that left changes: it said it is blocked, or it was running
\* when the coordinator went down.
Init ==
    /\ \/ task = "blocked" /\ node = Row("blocked", 1, "blocked") /\ approval = FALSE
       \/ task = "needs_approval" /\ node = Row("indeterminate", 1, "indeterminate")
          /\ approval = TRUE
    /\ alloc = [a \in Attempt |-> IF a = 1 THEN "active" ELSE "none"]
    /\ files = [a \in Attempt |-> IF a = 1 THEN 1 ELSE 0]
    /\ validating = FALSE /\ spent = 0
    /\ op = NoCall /\ prep = NoPrep

Controlled == task \in {"paused", "cancelled"}

\* A write of tasks.state_revision; the revision a call expects is no longer current.
SetTask(state) == task' = state /\ op' = [op EXCEPT !.current = FALSE]

---------------------------------------------------------------------------
(* The recovery calls. *)

OfBlocked(route) == route \in {"resume", "extract", "repair"}
ByDigest(route) == route \in {"extract", "repair", "localExtract"}

BlockedCandidate == node.state = "blocked" /\ task \in {"blocked", "queued", "running"}
LocalCandidate == node.state = "indeterminate" /\ task = "needs_approval"

\* One node with its own active worktree, in the state the route is for, at the
\* revision and attempt the caller expects, and with no recovery on its row.
Candidate(o) ==
    /\ o.current /\ node.attempt = o.attempt
    /\ node.recovery = NoRecovery
    /\ node.worktree = node.attempt /\ alloc[node.worktree] = "active"
    /\ IF OfBlocked(o.route) THEN BlockedCandidate ELSE LocalCandidate

Refuse == op' = NoCall /\ UNCHANGED <<task, node, alloc, files, approval, validating, spent, prep>>

Advance(next) == op' = next /\ UNCHANGED <<task, node, alloc, files, approval, validating, spent, prep>>

Call(route, digest) ==
    [pc |-> "asked", route |-> route, current |-> TRUE, attempt |-> node.attempt,
     patch |-> 0, digest |-> digest]

\* The caller learns the revision and the attempt, and of a dry run the digest.
Ask(route) ==
    /\ op.pc = "idle" /\ ~ByDigest(route)
    /\ Candidate(Call(route, 0)) /\ Advance(Call(route, 0))

\* inspect_recovery_source_delta; inspect_indeterminate_source_delta of a crashed one.
Delta(a) == files[a]

Preview(route) ==
    /\ op.pc = "idle" /\ ByDigest(route)
    /\ LET o == Call(route, Delta(node.attempt)) IN Candidate(o) /\ Advance(o)

MatchesPatch(source, patch) == patch # 0 => files[source] = patch
MatchesDigest(source, digest) == digest # 0 => Delta(source) = digest

UnchangedMutant(source, patch, digest) == MatchesPatch(source, patch)

\* The source still holds what was read from it.
Unchanged(source, patch, digest) ==
    MatchesPatch(source, patch) /\ MatchesDigest(source, digest)

\* capture: what a sealed recovery patch restores, tracked and untracked.
Sealed(a) == files[a]

\* resume and extract seal the patch now ...
Capture ==
    /\ op.pc = "asked" /\ op.route \in {"resume", "extract"}
    /\ IF Candidate(op) /\ Unchanged(op.attempt, 0, op.digest)
       THEN Advance([op EXCEPT !.pc = "captured", !.patch = Sealed(op.attempt)])
       ELSE Refuse

\* ... the other routes when they are prepared.
Inspect ==
    /\ op.pc = "asked" /\ op.route \notin {"resume", "extract"}
    /\ IF Candidate(op) /\ Unchanged(op.attempt, 0, op.digest)
       THEN Advance([op EXCEPT !.pc = "captured"])
       ELSE Refuse

Preflight ==
    /\ op.pc = "captured"
    /\ IF Candidate(op) /\ Unchanged(op.attempt, op.patch, op.digest)
       THEN Advance([op EXCEPT !.pc = "cleared"])
       ELSE Refuse

\* The receipt a call leaves in nodes.recovery_json.  A dirty one carries the patch
\* and is prepared without a model ...
DirtyReceipt(o) ==
    [kind |-> "dirty", state |-> "authorized", source |-> o.attempt,
     patch |-> o.patch, digest |-> o.digest, from |-> "blocked", back |-> "blocked"]

\* ... a failed one is captured at the next claim, for the executor.
FailedReceipt(o) ==
    [kind |-> "failed", state |-> "authorized", source |-> o.attempt, patch |-> 0, digest |-> o.digest,
     from |-> IF OfBlocked(o.route) THEN "blocked" ELSE "failed",
     back |-> IF OfBlocked(o.route) THEN "blocked" ELSE "needs_fix"]

Queued(recovery) ==
    [node EXCEPT !.state = "pending", !.worktree = 0, !.result = "none", !.recovery = recovery]

Cleared(routes) == op.pc = "cleared" /\ op.route \in routes

\* resume_blocked_worktree; an active task stays as it is.
Resume ==
    /\ Cleared({"resume", "extract"})
    /\ IF Candidate(op) /\ ~validating
       THEN /\ node' = Queued(DirtyReceipt(op))
            /\ task' = IF task = "blocked" THEN "queued" ELSE task
            /\ op' = NoCall
            /\ UNCHANGED <<alloc, files, approval, validating, spent, prep>>
       ELSE Refuse

\* blocked_source_repair takes a blocked or queued task, within its policy.
Repair ==
    /\ Cleared({"repair"})
    /\ IF Candidate(op) /\ ~validating /\ task # "running" /\ spent < MaxActions
       THEN /\ node' = Queued(FailedReceipt(op))
            /\ task' = "queued" /\ op' = NoCall
            /\ spent' = spent + 1
            /\ UNCHANGED <<alloc, files, approval, validating, prep>>
       ELSE Refuse

\* queue_indeterminate_local_recovery closes the approval.
QueueLocal ==
    /\ Cleared({"local", "localExtract"})
    /\ IF Candidate(op)
       THEN /\ node' = Queued(FailedReceipt(op))
            /\ task' = "queued" /\ op' = NoCall /\ approval' = FALSE
            /\ UNCHANGED <<alloc, files, validating, spent, prep>>
       ELSE Refuse

---------------------------------------------------------------------------
(* The coordinator: claim, prepare, assign, settle. *)

Claim ==
    /\ node.state = "pending" /\ task \in {"queued", "running", "verifying", "needs_fix"}
    /\ node.attempt < MaxAttempt
    /\ node' = [node EXCEPT !.state = "running", !.attempt = @ + 1]
    /\ prep' = [NoPrep EXCEPT !.pc = "claimed"]
    /\ IF task \in {"queued", "needs_fix"} THEN SetTask("running") ELSE UNCHANGED <<task, op>>
    /\ UNCHANGED <<alloc, files, approval, validating, spent>>

Source == node.recovery.source
Preparing(pc) == prep.pc = pc /\ node.state = "running"

PrepStep(next) ==
    prep' = next /\ UNCHANGED <<task, node, alloc, approval, validating, spent, op>>

GiveUp(outcome) == PrepStep([prep EXCEPT !.pc = "settling", !.outcome = outcome])

\* Every failure before the assignment ends in a receipt that puts the source back.
\* An exception leaves the target where it is; prepare_clean archives it next time.
Stumble ==
    /\ prep.pc \in {"claimed", "captured", "restored", "verified", "validated"}
    /\ GiveUp("blocked") /\ UNCHANGED files

CaptureRetry ==
    /\ Preparing("claimed") /\ node.recovery.kind = "failed"
    /\ IF Unchanged(Source, 0, node.recovery.digest)
       THEN PrepStep([prep EXCEPT !.pc = "captured", !.patch = files[Source]])
       ELSE GiveUp("blocked")
    /\ UNCHANGED files

ReceiveDirty ==
    /\ Preparing("claimed") /\ node.recovery.kind = "dirty"
    /\ PrepStep([prep EXCEPT !.pc = "captured", !.patch = node.recovery.patch])
    /\ UNCHANGED files

\* prepare_clean, the recorded input, the patch; the result must be the patch exactly.
Restore ==
    /\ Preparing("captured")
    /\ IF Unchanged(Source, prep.patch, node.recovery.digest)
       THEN /\ files' = [files EXCEPT ![node.attempt] = prep.patch]
            /\ PrepStep([prep EXCEPT !.pc = "restored"])
       ELSE GiveUp("blocked") /\ files' = [files EXCEPT ![node.attempt] = 0]

\* The dependencies are linked and the acceptance commands run in the target.  A
\* command that fails, a target it changed, a source that moved or a path out of
\* scope gives the target up to the recovery archive.
Accept ==
    /\ Preparing("restored") /\ node.recovery.kind = "dirty"
    /\ \/ /\ Unchanged(Source, prep.patch, node.recovery.digest)
          /\ PrepStep([prep EXCEPT !.pc = "verified"]) /\ UNCHANGED files
       \/ /\ \E outcome \in {"failed", "blocked"} : GiveUp(outcome)
          /\ files' = [files EXCEPT ![node.attempt] = 0]

\* _validate_dirty_worktree_recovery_target: the target holds the patch and no more.
TargetIsExact == files[node.attempt] = prep.patch

\* The target is read once more, outside the database, before the assignment.
Prevalidate ==
    /\ \/ Preparing("verified")
       \/ Preparing("restored") /\ node.recovery.kind = "failed"
    /\ IF /\ TargetIsExact
          /\ node.recovery.kind = "failed" => Unchanged(Source, 0, node.recovery.digest)
       THEN PrepStep([prep EXCEPT !.pc = "validated"])
       ELSE GiveUp("blocked")
    /\ UNCHANGED files

HandedOverMutant(source) == [alloc EXCEPT ![node.attempt] = "active"]

HandedOver(source) == [alloc EXCEPT ![source] = "superseded", ![node.attempt] = "active"]

\* In one transaction the target is the node's, the source superseded, the receipt
\* consumed but still there.
Assign(kind, next) ==
    /\ Preparing("validated") /\ node.recovery.kind = kind /\ alloc[Source] = "active"
    /\ node' = [node EXCEPT !.worktree = node.attempt, !.recovery.state = "assigned"]
    /\ alloc' = HandedOver(Source)
    /\ prep' = [prep EXCEPT !.pc = next, !.outcome = "succeeded"]
    /\ UNCHANGED <<task, files, approval, validating, spent, op>>

\* The commands have passed: the patch is the result.
AssignWorktree == Assign("dirty", "settling")
AssignFailedAttemptRecovery == Assign("failed", "executing")

\* The original executor goes on in the target.
Execute ==
    /\ Preparing("executing")
    /\ \E outcome \in {"succeeded", "blocked", "failed", "indeterminate"} : GiveUp(outcome)
    /\ UNCHANGED files

RestoredMutant(r) == [Row(r.from, r.source, r.from) EXCEPT !.attempt = node.attempt]

\* The row of the source attempt, with the receipt it had.
Restored(r) == [Row(r.from, r.source, r.from) EXCEPT !.attempt = r.source]

\* _rollback_authorized_dirty_worktree_recovery writes the task whatever its state ...
RollBackDirty == node' = Restored(node.recovery) /\ SetTask("blocked")

\* ... _rollback_failed_attempt_recovery keeps a pause or a cancellation.
RollBackFailed ==
    /\ node' = Restored(node.recovery)
    /\ IF Controlled THEN UNCHANGED <<task, op>> ELSE SetTask(node.recovery.back)

SettledState == CASE prep.outcome = "succeeded" -> "accepted" [] OTHER -> prep.outcome
SettledTask  == CASE prep.outcome = "succeeded" -> "verifying"
                  [] prep.outcome = "failed" -> "needs_fix"
                  [] prep.outcome = "indeterminate" -> "needs_approval"
                  [] OTHER -> "blocked"

\* A recovery that was not assigned and did not succeed is rolled back.
Unassigned == node.recovery.state = "authorized" /\ prep.outcome # "succeeded"

SettleRollBack ==
    /\ Preparing("settling") /\ Unassigned
    /\ IF node.recovery.kind = "dirty" THEN RollBackDirty ELSE RollBackFailed
    /\ prep' = NoPrep
    /\ UNCHANGED <<alloc, files, approval, validating, spent>>

Settle ==
    /\ Preparing("settling") /\ ~Unassigned
    /\ node' = [node EXCEPT !.state = SettledState, !.result = prep.outcome, !.recovery = NoRecovery]
    /\ IF Controlled THEN UNCHANGED <<task, op>> ELSE SetTask(SettledTask)
    /\ approval' = (approval \/ prep.outcome = "indeterminate")
    /\ prep' = NoPrep
    /\ UNCHANGED <<alloc, files, validating, spent>>

---------------------------------------------------------------------------
(* Whatever comes between. *)

\* A writer that outlived its attempt, or the executor in its target.
Write(a) ==
    /\ alloc[a] # "none" /\ files[a] \in 1..(MaxContent - 1)
    /\ files' = [files EXCEPT ![a] = @ + 1]
    /\ UNCHANGED <<task, node, alloc, approval, validating, spent, op, prep>>

Control ==
    /\ \/ task \in {"queued", "running", "verifying", "blocked"} /\ SetTask("paused")
       \/ task \notin {"cancelled", "accepted"} /\ SetTask("cancelled")
       \/ task = "paused" /\ SetTask("queued")
    /\ UNCHANGED <<node, alloc, files, approval, validating, spent, prep>>

\* A failed attempt with its own worktree is bound for its retry; one without a
\* failed or blocked receipt is refused, and the queue with it.
QueueFix ==
    /\ task = "needs_fix" /\ node.state = "failed"
    /\ node.result \in {"failed", "blocked"}
    /\ node.worktree = node.attempt /\ alloc[node.worktree] = "active"
    /\ node' = Queued([NoRecovery EXCEPT !.kind = "failed", !.state = "authorized",
                          !.source = node.attempt, !.from = "failed", !.back = "needs_fix"])
    /\ SetTask("queued")
    /\ UNCHANGED <<alloc, files, approval, validating, spent, prep>>

\* retry is refused to a node with a worktree or a receipt: every node here has one.
Decide ==
    /\ approval /\ node.state = "indeterminate"
    /\ \/ node' = [node EXCEPT !.state = "failed"] /\ SetTask("needs_fix")
       \/ node' = [node EXCEPT !.state = "cancelled"] /\ SetTask("cancelled")
    /\ approval' = FALSE
    /\ UNCHANGED <<alloc, files, validating, spent, prep>>

Validate ==
    /\ IF validating THEN validating' = FALSE
       ELSE /\ task = "blocked" /\ node.state = "blocked" /\ node.recovery = NoRecovery
            /\ alloc[node.attempt] = "active"
            /\ validating' = TRUE
    /\ UNCHANGED <<task, node, alloc, files, approval, spent, op, prep>>

\* recover_interrupted_with_orphans: a retry that was not assigned goes back to its
\* source; any other running node is indeterminate, its receipt as it was.
Restart ==
    /\ validating' = FALSE /\ prep' = NoPrep
    /\ IF node.state # "running" THEN op' = NoCall /\ UNCHANGED <<task, node, approval>>
       ELSE IF node.recovery.kind = "failed" /\ node.recovery.state = "authorized"
       THEN /\ node' = Restored(node.recovery)
            /\ task' = IF Controlled THEN task ELSE node.recovery.back
            /\ op' = NoCall /\ UNCHANGED approval
       ELSE /\ node' = [node EXCEPT !.state = "indeterminate", !.result = "indeterminate"]
            /\ task' = "needs_approval" /\ approval' = TRUE /\ op' = NoCall
    /\ UNCHANGED <<alloc, files, spent>>

Next ==
    \/ \E route \in Route : Ask(route) \/ Preview(route)
    \/ Capture \/ Inspect \/ Preflight \/ Resume \/ Repair \/ QueueLocal
    \/ Claim \/ CaptureRetry \/ ReceiveDirty \/ Restore \/ Accept \/ Prevalidate
    \/ AssignWorktree \/ AssignFailedAttemptRecovery \/ Execute \/ Stumble \/ SettleRollBack \/ Settle
    \/ \E a \in Attempt : Write(a)
    \/ Control \/ QueueFix \/ Decide \/ Validate \/ Restart

Spec == Init /\ [][Next]_vars

---------------------------------------------------------------------------
(* Properties. *)

RecoveryReceipt ==
    [kind : {"none", "dirty", "failed"}, state : {"none", "authorized", "assigned"},
     source : 0..MaxAttempt, patch : 0..MaxContent, digest : 0..MaxContent,
     from : {"none", "blocked", "failed"}, back : {"none", "blocked", "needs_fix"}]

\* Types, and that a receipt is on the row of a node that is queued, running or was
\* running when the coordinator went down.
TypeOK ==
    /\ task \in {"blocked", "needs_approval", "queued", "running", "verifying",
                 "needs_fix", "paused", "cancelled"}
    /\ node \in [state : {"blocked", "indeterminate", "pending", "running", "accepted",
                          "failed", "cancelled"},
                 attempt : Attempt, worktree : 0..MaxAttempt,
                 result : {"none", "blocked", "failed", "indeterminate", "succeeded"},
                 recovery : RecoveryReceipt]
    /\ alloc \in [Attempt -> {"none", "active", "superseded"}]
    /\ files \in [Attempt -> 0..MaxContent]
    /\ approval \in BOOLEAN /\ validating \in BOOLEAN /\ spent \in 0..MaxActions
    /\ op \in [pc : {"idle", "asked", "captured", "cleared"}, route : Calls,
               current : BOOLEAN, attempt : 0..MaxAttempt,
               patch : 0..MaxContent, digest : 0..MaxContent]
    /\ prep \in [pc : {"idle", "claimed", "captured", "restored", "verified", "validated",
                       "executing", "settling"},
                 patch : 0..MaxContent,
                 outcome : {"none", "succeeded", "blocked", "failed", "indeterminate"}]
    /\ node.state = "pending" => node.recovery.state = "authorized"

\* The work of the node has exactly one owner: one allocation is active, it is the
\* worktree of the row, or, while a recovery is authorized and not assigned, the
\* source that recovery would carry over -- through every failure to prepare it,
\* every rollback and every restart (store.py:13309, 13410, 14993).
WorkIsHeld ==
    \E a \in Attempt :
        /\ {b \in Attempt : alloc[b] = "active"} = {a}
        /\ files[a] # 0
        /\ IF node.recovery.state = "authorized"
           THEN node.recovery.source = a /\ node.worktree = 0
           ELSE node.worktree = a /\ node.attempt = a

\* What is handed over is what the caller saw: when a target takes over from a source
\* allocation, it holds the patch that was captured from it, which is the delta of the
\* preview for the routes that were given its digest, however the source was written
\* to in between (dirty_worktree_recovery.py:2203, service.py:2394).
AssignsPreview ==
    \A a \in Attempt : alloc[a] = "active" /\ alloc'[a] = "superseded" =>
        /\ files[node.attempt] = prep.patch
        /\ node.recovery.digest # 0 => files[node.attempt] = node.recovery.digest
TargetIsPreview == [][AssignsPreview]_vars

\* An attempt that was running in its own worktree when the coordinator went down can
\* be recovered from that worktree (docs/task-control-recovery.md:112).  The code
\* refuses it when that attempt was itself a recovery: its receipt is still there.
CrashedAttemptRecoverable ==
    task = "needs_approval" /\ node.state = "indeterminate" /\ node.worktree # 0
        => Candidate([NoCall EXCEPT !.route = "local", !.current = TRUE, !.attempt = node.attempt])
============================================================================
