--------------------------- MODULE NodeRecovery ---------------------------
(***************************************************************************)
(* Recovery of a blocked node (node_recovery.py, node_recovery_store.py    *)
(* and the action adapters): the coordinator's control turn observes the   *)
(* node, records an episode per attempt, plans with RecoveryPolicy, claims *)
(* the episode, records an intent, lets an adapter act and settles the     *)
(* receipt.  One task with one recovered node; the process may stop, be    *)
(* replaced while a turn is under way, or lose the time of its lease.      *)
(*                                                                         *)
(* Abstractions.  A revision that is only compared (of the task, of the    *)
(* policy) is a flag "still the current one"; the clock is a flag per      *)
(* deadline.  The adapters' calls are external: what they report is what   *)
(* the request journal or the task's event log keeps of them.              *)
(***************************************************************************)
EXTENDS RecoveryPolicy, FiniteSets

CONSTANTS
    Failure,      \* what a blocked attempt may look like: [category, facts]
    Grants,       \* what the policy may allow: sets of actions
    MaxTries,     \* max_action_attempts
    MaxAttempt,   \* bound: attempts of the node; the last one does not block
    MaxEpoch,     \* bound: coordinator processes
    MaxEvents     \* bound: restarts, operator calls, controlled source writes
                  \* and leases that run out under a turn, all together

\* What an observation reads from the repair relation, never from the attempt.
RelationFact == {"repair_linked", "repair_deployed"}

ASSUME BoundsAssumption ==
    /\ Grants \subseteq SUBSET RecoveryAction
    /\ {MaxTries, MaxAttempt, MaxEpoch} \subseteq Nat \ {0}
    /\ MaxEvents \in Nat
    /\ Failure \subseteq [category : Category, facts : SUBSET (Fact \ RelationFact)]

Granted == UNION Grants
Attempt == 1 .. MaxAttempt
Epoch   == 1 .. MaxEpoch
Key     == Attempt \X Granted \X (1 .. MaxTries)   \* a request id: episode, stage, number

VARIABLES
    task,      \* the task, its node and what the operator set
    policy,    \* the task's recovery policy: enabled, and what it allows
    episode,   \* node_recovery_episodes: per attempt
    intent,    \* node_recovery_actions: per request id
    repair,    \* node_recovery_repairs and the state of the repair's delivery
    receipt,   \* what a reader of the journal or event log finds per request id
    effects,   \* how often an adapter acted for a request id
    turn,      \* the control turn of each coordinator process
    epoch,     \* the active coordinator
    lapsed     \* a lease ran out under an action that was not settled

vars == <<task, policy, episode, intent, repair, receipt, effects, turn, epoch, lapsed>>

Active == {"waiting", "ready"}
Unsettled == {"executing", "unknown"}
\* Adapters that can find the receipt of an action whose reply was lost.
Reconciles == {"narrow_validation", "source_only_recovery", "resume_node", "repair_source",
               "request_repair", "resume_owner_repairs"}
\* Actions that hand the node back to the scheduler.
Resumes == {"source_only_recovery", "resume_node", "repair_source"}

NoEpisode == [state |-> "none", reason |-> "none", action |-> NoAction, auth |-> FALSE,
              stage |-> NoAction, tries |-> [s \in Granted |-> 0], facts |-> {}, last |-> NoAction,
              resting |-> FALSE, late |-> FALSE, aged |-> FALSE, audits |-> 0, notified |-> {},
              owner |-> 0, live |-> FALSE, seen |-> FALSE, granted |-> FALSE]
NoIntent == [state |-> "none", plan |-> "none", ok |-> "none"]
IdleTurn == [pc |-> "idle", key |-> <<>>, existing |-> FALSE, current |-> FALSE, got |-> "none"]

Init ==
    /\ task \in [control : {"open"}, node : {"blocked"}, attempt : {1}, approval : {FALSE},
                 failure : Failure, audit : {0}, events : {0}]
    /\ policy \in [enabled : {TRUE}, allowed : Grants]
    /\ episode = [a \in Attempt |-> NoEpisode]
    /\ intent = [k \in Key |-> NoIntent]
    /\ repair = [a \in Attempt |-> [linked |-> FALSE, deployed |-> FALSE, delivery |-> "none"]]
    /\ receipt = [k \in Key |-> "none"]
    /\ effects = [k \in Key |-> 0]
    /\ turn = [e \in Epoch |-> IdleTurn]
    /\ epoch = 1
    /\ lapsed = FALSE

---------------------------------------------------------------------------
(* Helpers over the rows of one episode. *)

Keys(a) == {k \in Key : k[1] = a}
HasUnsettledMutant(a) == \E k \in Keys(a) : intent[k].state = "executing"

HasUnsettled(a) == \E k \in Keys(a) : intent[k].state \in Unsettled

LeasedMutant(row) == row.owner # 0

Leased(row) == row.owner # 0 /\ row.live
Fenced == task.control \in {"paused", "cancelled"}   \* _user_fence

\* A change of the task or of the policy dates what was read before it.
Outdated(field) ==
    /\ episode' = [a \in Attempt |-> [episode[a] EXCEPT ![field] = FALSE]]
    /\ turn' = [e \in Epoch |-> [turn[e] EXCEPT !.current = FALSE]]

NoticedMutant(row) ==
    [row EXCEPT !.notified = IF row.state = "needs_action" /\ row.auth THEN @ \cup {row.reason} ELSE @]

\* _record_needs_action_notification: once per episode and reason.
Noticed(row) ==
    [row EXCEPT !.notified = IF row.state = "needs_action" THEN @ \cup {row.reason} ELSE @]

\* The columns a decision sets; a decision without action keeps the stage.
Decided(row, decision) ==
    The({Noticed([row EXCEPT !.state = d.state, !.reason = d.reason, !.action = d.action, !.auth = d.auth,
                             !.stage = IF d.action = NoAction THEN @ ELSE d.action]) : d \in {decision}})
Unleased(row) == [row EXCEPT !.owner = 0, !.live = FALSE]

UnknownEffects  == Ask("unknown_effects")
BudgetExhausted == Report("budget_exhausted")

\* The latest request for a repair was refused before it was enqueued.
EnqueueRejected(a) ==
    LET asked == {n \in 1 .. MaxTries : "request_repair" \in policy.allowed
                                        /\ intent[<<a, "request_repair", n>>].state # "none"}
    IN asked # {} /\ LET n == CHOOSE m \in asked : \A l \in asked : l <= m
                     IN intent[<<a, "request_repair", n>>].ok = "rejected"

\* _repeated_failure_trigger: a stage spent on nothing but known failures.
RepeatedFailure(a) ==
    /\ "request_repair" \in policy.allowed
    /\ repair[a].linked => EnqueueRejected(a)
    /\ \E s \in Granted \ {"request_repair"} :
          /\ episode[a].tries[s] >= MaxTries
          /\ LET taken == {k \in Keys(a) : k[2] = s /\ intent[k].state # "none"}
             IN /\ Cardinality(taken) >= episode[a].tries[s]
                /\ \A k \in taken : intent[k].state = "completed" /\ intent[k].ok # "ok"

\* What the policy is shown of attempt a, with the facts the row keeps.
Observed(a, row) ==
    [enabled |-> policy.enabled, allowed |-> policy.allowed, repairable |-> TRUE,
     control |-> task.control, node |-> task.node, category |-> task.failure.category,
     facts |-> (task.failure.facts \cup row.facts
                \cup (IF task.approval THEN {"approval_pending"} ELSE {})
                \cup (IF repair[a].linked /\ ~EnqueueRejected(a) THEN {"repair_linked"} ELSE {})
                \cup (IF repair[a].deployed THEN {"repair_deployed"} ELSE {})
                \cup (IF repair[a].delivery = "accepted" THEN {"repair_needs_action"} ELSE {})
                \cup (IF repair[a].delivery = "restarted" THEN {"fresh_readiness_required"} ELSE {})
                \cup (IF task.audit > 0 THEN {"controlled_repair_ready"} ELSE {})
                \cup (IF RepeatedFailure(a) THEN {"repeated_failure"} ELSE {}))
               \ (IF "validation_succeeded" \in row.facts THEN {"profile_left"} ELSE {}),
     spent |-> FALSE, late |-> row.aged, resting |-> NoAction]

\* _base_decision: plan once for the stage, then again with its attempts.
Replanned(first, o, row) ==
    LET stage == IF first.action # NoAction THEN first.action ELSE row.stage
        tried == IF stage = NoAction THEN 0 ELSE row.tries[stage]
    IN CASE first.state = "suspended" -> first
         [] first.state # "suspended" /\ "recovery_resumed" \in row.facts ->
                Resolve("original_node_resumed")
         [] OTHER ->
                IF stage = NoAction THEN first
                ELSE PlanRecovery([o EXCEPT
                        !.spent = tried >= MaxTries,
                        !.resting = IF row.resting /\ tried > 0 THEN row.last ELSE NoAction])

DecisionOf(o, row) == The({Replanned(first, o, row) : first \in {PlanRecovery(o)}})
Decide(a, row) == The({DecisionOf(o, row) : o \in {Observed(a, row)}})

---------------------------------------------------------------------------
(* The store's record of an observation. *)

\* record_episode, the insert: a new attempt starts a new clock.
Recorded(a) ==
    LET fresh == [NoEpisode EXCEPT !.seen = TRUE, !.granted = TRUE, !.audits = task.audit]
    IN Decided(fresh, Decide(a, fresh))

\* A waiting row is decided again when its wakeup is due, others when
\* something they were decided from changed.
Redecided(row, changed) ==
    changed \/ (row.state = "waiting" /\ ~(row.reason = "backoff" /\ row.resting))

\* _update_episode_if_material: what the row becomes.  Only a controlled
\* write that was not consumed yet renews the deadline.
Updated(a, event) ==
    LET row == episode[a]
        evidence == task.audit > row.audits
        changed == evidence \/ event \/ ~row.seen \/ ~row.granted
        base == [row EXCEPT !.audits = task.audit, !.late = @ /\ ~evidence,
                            !.seen = TRUE, !.granted = TRUE]
        d == IF base.late THEN BudgetExhausted ELSE Decide(a, base)
    IN IF base.late \/ Redecided(row, changed) THEN Decided(base, d) ELSE base

\* mark_repair_deployed: verified once, with a new deadline unless a person
\* holds the task; what was validated before the repair is dropped.
Deployed(row, fresh) ==
    LET facts == (row.facts \ {"validation_succeeded", "readiness_ready"})
                 \cup (IF fresh THEN {"readiness_ready"} ELSE {})
    IN IF Fenced
       THEN [Decided(row, Suspend("user_pause")) EXCEPT !.facts = facts, !.action = NoAction]
       ELSE [Decided(row, Wait("fresh_readiness_required")) EXCEPT
               !.facts = facts, !.late = FALSE, !.action = NoAction]

MarkRepairDeployed(e, a) ==
    /\ turn[e].pc = "idle" /\ e = epoch
    /\ a = task.attempt /\ task.node = "blocked" /\ policy.enabled
    /\ episode[a].state # "none" /\ ~HasUnsettled(a)
    /\ repair[a].linked /\ ~repair[a].deployed /\ ~EnqueueRejected(a)
    /\ repair[a].delivery = "verified"
    /\ \E fresh \in BOOLEAN : episode' = [episode EXCEPT ![a] = Deployed(@, fresh)]
    /\ repair' = [repair EXCEPT ![a].deployed = TRUE]
    /\ UNCHANGED <<task, policy, intent, receipt, effects, turn, epoch, lapsed>>

\* _refresh_node, reached from _refresh_task: an episode with an unsettled
\* intent is left alone, and a leased one refuses a material change.
RefreshNode(e, a) ==
    /\ turn[e].pc = "idle" /\ e = epoch
    /\ a = task.attempt /\ task.node = "blocked" /\ policy.enabled
    /\ ~HasUnsettled(a)
    /\ ~(repair[a].delivery = "verified" /\ repair[a].linked /\ ~repair[a].deployed)
    /\ ~Leased(episode[a])
    /\ \E row \in IF episode[a].state = "none" THEN {Recorded(a)}
                   ELSE {Updated(a, event) : event \in BOOLEAN} :
          /\ row # episode[a]
          /\ episode' = [episode EXCEPT ![a] = row]
    /\ UNCHANGED <<task, policy, intent, repair, receipt, effects, turn, epoch, lapsed>>

SupersedesMutant(a) ==
    /\ episode[a].state \in {"waiting", "ready", "needs_action"}
    /\ task.attempt > a
    /\ ~Leased(episode[a])

\* reconcile_superseded_attempts: a newer attempt has started.
Supersedes(a) ==
    /\ episode[a].state \in {"waiting", "ready", "needs_action"}
    /\ task.attempt > a
    /\ ~episode[a].auth
    /\ ~Leased(episode[a])
    /\ ~HasUnsettled(a)

ReconcileSuperseded(e) ==
    /\ turn[e].pc = "idle" /\ e = epoch
    /\ ~Fenced
    /\ \E a \in Attempt : Supersedes(a)
    /\ episode' = [a \in Attempt |->
          IF Supersedes(a)
          THEN [Unleased(Decided(episode[a], Resolve("attempt_superseded")))
                  EXCEPT !.stage = NoAction, !.seen = TRUE]
          ELSE episode[a]]
    /\ UNCHANGED <<task, policy, intent, repair, receipt, effects, turn, epoch, lapsed>>

---------------------------------------------------------------------------
(* Settling a receipt. *)

StageSucceeded(got) == got = "ok"

\* _receipt_progress and _merge_observation: what the receipt of an action
\* leaves in the observation of its episode.
Patched(row, action, got) ==
    LET gained == CASE action = "observe_readiness" /\ got = "ok" -> {"readiness_ready"}
                    [] action = "materialize_dependencies" /\ got = "ok" -> {"dependencies_ready"}
                    [] action = "narrow_validation" /\ got = "ok" -> {"validation_succeeded"}
                    [] action \in Resumes /\ got = "ok" -> {"recovery_resumed"}
                    [] action = "request_repair" /\ got = "ok" -> {"repair_requested"}
                    [] OTHER -> {}
        dropped == CASE action = "observe_readiness" /\ got # "unknown" -> {"readiness_ready"}
                     [] action = "materialize_dependencies" /\ got # "unknown" ->
                            {"readiness_ready", "dependencies_ready"}
                     [] OTHER -> {}
    IN [row EXCEPT !.facts = (@ \ dropped) \cup gained, !.last = action, !.resting = TRUE]

\* settle_action and reconcile_action_receipt share the rest: a person's
\* control wins, an unknown effect asks, a spent stage reports its budget.
Outcome(stage, row, got, planned) ==
    IF Fenced THEN Suspend("user_pause")
    ELSE IF got = "unknown" THEN UnknownEffects
    ELSE IF planned.action = stage /\ row.tries[stage] >= MaxTries THEN BudgetExhausted
    ELSE planned

\* A stage advances only after a dispatched action that succeeded.
MayAdvance(stage, decision, dispatched, got) ==
    decision.action \in {NoAction, stage} \/ (dispatched /\ StageSucceeded(got))

Counted(row, stage, dispatched) ==
    IF dispatched THEN [row EXCEPT !.tries[stage] = @ + 1] ELSE row

Settled(row, stage, decision) ==
    [Decided(Unleased(row), decision) EXCEPT !.stage = IF decision.action = NoAction THEN stage ELSE @]

\* An unknown intent without an adapter plan makes every sweep raise before
\* the due episodes are listed.
Wedged == \E k \in Key : intent[k].state = "unknown" /\ intent[k].plan = "preflight"

AnsweredMutant(k, got) == [intent EXCEPT ![k].ok = got]

\* The receipt closes the intent.
Answered(k, got) == [intent EXCEPT ![k].state = "completed", ![k].ok = got]

\* _reconcile_unknown and reconcile_action_receipt: only a receipt of the same
\* request settles an intent whose effect is unknown; nothing is dispatched.
ReconcileUnknown(e, k) ==
    LET a == k[1]
        stage == k[2]
        got == receipt[k]
        patched == Patched(episode[a], stage, got)
        counted == Counted(patched, stage, TRUE)
        decision == Outcome(stage, counted, got, Decide(a, patched))
    IN /\ turn[e].pc = "idle" /\ e = epoch /\ policy.enabled /\ ~Wedged
       /\ intent[k].state = "unknown"
       /\ stage \in Reconciles
       /\ got \in {"ok", "failed"}
       /\ MayAdvance(stage, decision, TRUE, got)
       /\ intent' = Answered(k, got)
       /\ episode' = [episode EXCEPT ![a] = Settled(counted, stage, decision)]
       /\ UNCHANGED <<task, policy, repair, receipt, effects, turn, epoch, lapsed>>

---------------------------------------------------------------------------
(* One control turn: claim, intend, link, act, settle. *)

NextKey(a) == <<a, episode[a].stage, episode[a].tries[episode[a].stage] + 1>>

\* claim_due, after list_due and the refresh of the due row: a person's
\* control suspends the episode, whatever is under way.
Due(e, a) ==
    /\ turn[e].pc = "idle" /\ e = epoch /\ ~Wedged
    /\ a = task.attempt /\ task.node = "blocked"
    /\ episode[a].state = "ready" /\ episode[a].action # NoAction /\ ~episode[a].late

ClaimFenced(e, a) ==
    /\ Due(e, a) /\ Fenced
    /\ episode' = [episode EXCEPT ![a] = [Unleased(@) EXCEPT
                     !.state = "suspended", !.reason = "user_pause", !.action = NoAction, !.auth = FALSE]]
    /\ UNCHANGED <<task, policy, intent, repair, receipt, effects, turn, epoch, lapsed>>

Claim(e, a) ==
    /\ Due(e, a) /\ ~Fenced
    /\ episode[a].seen /\ episode[a].granted /\ policy.enabled
    /\ Leased(episode[a]) => episode[a].owner = e
    /\ episode[a].tries[episode[a].stage] < MaxTries
    /\ episode' = [episode EXCEPT ![a].owner = e, ![a].live = TRUE]
    /\ turn' = [turn EXCEPT ![e] = [IdleTurn EXCEPT !.pc = "claimed", !.key = NextKey(a), !.current = TRUE]]
    /\ UNCHANGED <<task, policy, intent, repair, receipt, effects, epoch, lapsed>>

\* The fences of begin_action; a raise ends the turn and writes nothing.
Holds(e, a) == Leased(episode[a]) /\ episode[a].owner = e /\ e = epoch
MayBegin(e) ==
    LET a == turn[e].key[1]
    IN /\ a = task.attempt /\ ~Fenced /\ ~task.approval
       /\ episode[a].seen /\ Holds(e, a)
       /\ policy.enabled /\ episode[a].granted
       /\ ~episode[a].late

\* adapter.prepare may fail; the intent is recorded either way.
BeginAction(e) ==
    LET k == turn[e].key
    IN /\ turn[e].pc = "claimed" /\ MayBegin(e)
       /\ \E plan \in {"adapter", "preflight"} :
             \/ /\ intent[k].state = "none"
                /\ intent' = [intent EXCEPT ![k] = [state |-> "executing", plan |-> plan, ok |-> "none"]]
                /\ turn' = [turn EXCEPT ![e].pc = "begun"]
             \/ /\ intent[k].state # "none" /\ intent[k].plan = plan
                /\ turn' = [turn EXCEPT ![e].pc = "begun", ![e].existing = TRUE]
                /\ UNCHANGED intent
       /\ UNCHANGED <<task, policy, episode, repair, receipt, effects, epoch, lapsed>>

\* A raise of begin_action: a fence, or an intent that differs.
BeginRefused(e) ==
    /\ turn[e].pc = "claimed"
    /\ MayBegin(e) => intent[turn[e].key].state # "none"
    /\ turn' = [turn EXCEPT ![e] = IdleTurn]
    /\ UNCHANGED <<task, policy, episode, intent, repair, receipt, effects, epoch, lapsed>>

\* link_repair precedes the request, so a crash leaves a reserved relation.
LinkRepair(e) ==
    LET a == turn[e].key[1]
    IN /\ turn[e].pc = "begun" /\ turn[e].key[2] = "request_repair"
       /\ intent[turn[e].key].plan = "adapter" /\ ~repair[a].linked
       /\ IF Holds(e, a)
          THEN /\ repair' = [repair EXCEPT ![a].linked = TRUE]
               /\ UNCHANGED turn
          ELSE /\ turn' = [turn EXCEPT ![e] = IdleTurn]
               /\ UNCHANGED repair
       /\ UNCHANGED <<task, policy, episode, intent, receipt, effects, epoch, lapsed>>

ReadyToAct(e) ==
    /\ turn[e].pc = "begun"
    /\ (turn[e].key[2] = "request_repair" /\ intent[turn[e].key].plan = "adapter")
          => repair[turn[e].key[1]].linked

FreshMutant(e) == ReadyToAct(e)

\* begin_action recorded the intent in this turn.
Fresh(e) == ReadyToAct(e) /\ ~turn[e].existing

\* An intent that exists is never executed: its stored or journalled receipt
\* is looked up, which raises when it holds no adapter plan.
LookUp(e) ==
    LET k == turn[e].key
    IN /\ ReadyToAct(e) /\ turn[e].existing
       /\ turn' = [turn EXCEPT ![e] =
             IF intent[k].state # "completed" /\ intent[k].plan = "preflight" THEN IdleTurn
             ELSE [@ EXCEPT !.pc = "acted",
                            !.got = IF intent[k].state = "completed" THEN intent[k].ok
                                    ELSE IF k[2] \in Reconciles /\ receipt[k] # "none" THEN receipt[k]
                                    ELSE "unknown"]]
       /\ UNCHANGED <<task, policy, episode, intent, repair, receipt, effects, epoch, lapsed>>

\* What the adapters do when the plan is not current any more.
Refusal(action) ==
    CASE action = "repair_source" -> "failed"
      [] action = "request_repair" -> "rejected"
      [] OTHER -> "unknown"

Refuse(e) ==
    LET k == turn[e].key
        current == turn[e].current /\ ~Fenced /\ ~task.approval /\ policy.enabled
    IN /\ Fresh(e)
       /\ intent[k].plan = "preflight" \/ ~current
       /\ turn' = [turn EXCEPT ![e].pc = "acted",
                               ![e].got = IF intent[k].plan = "preflight" THEN "failed" ELSE Refusal(k[2])]
       /\ UNCHANGED <<task, policy, episode, intent, repair, receipt, effects, epoch, lapsed>>

\* The effect on the task: a resumed node is queued, which is a new revision.
Affected(k, done) ==
    IF k[2] \in Resumes /\ done
    THEN /\ task' = [task EXCEPT !.node = "queued"]
         /\ episode' = [a \in Attempt |-> [episode[a] EXCEPT !.seen = FALSE]]
    ELSE /\ task' = IF k[2] = "resume_owner_repairs" /\ done
                    THEN [task EXCEPT !.failure.facts = @ \ {"owner_repairs_exhausted"}] ELSE task
         /\ UNCHANGED episode

\* adapter.execute: it acts and reports, or it acts and its reply and receipt
\* are lost, or it fails.
Execute(e) ==
    LET k == turn[e].key
    IN /\ Fresh(e)
       /\ intent[k].plan = "adapter"
       /\ turn[e].current /\ ~Fenced /\ ~task.approval /\ policy.enabled
       /\ \E got \in {"ok", "failed", "unknown"}, done \in BOOLEAN :
             /\ got = "ok" => done
             /\ got = "failed" => ~done
             /\ effects' = [effects EXCEPT ![k] = IF done THEN @ + 1 ELSE @]
             /\ receipt' = [receipt EXCEPT ![k] = IF got = "unknown" THEN @ ELSE got]
             /\ turn' = [f \in Epoch |->
                   IF f = e THEN [turn[e] EXCEPT !.pc = "acted", !.got = got]
                   ELSE IF k[2] \in Resumes /\ done THEN [turn[f] EXCEPT !.current = FALSE] ELSE turn[f]]
             /\ repair' = [repair EXCEPT ![k[1]].delivery =
                              IF k[2] = "request_repair" /\ done THEN "pending" ELSE @]
             /\ Affected(k, done)
       /\ UNCHANGED <<policy, intent, epoch, lapsed>>

\* The row with the receipt of the turn, and what is planned once it counts.
Received(e) == Patched(episode[turn[e].key[1]], turn[e].key[2], turn[e].got)
Planned(e) == Decide(turn[e].key[1], Counted(Received(e), turn[e].key[2], TRUE))

\* settle_action: the lease of the turn must hold; a receipt that would
\* advance the stage of an intent this turn did not dispatch is refused.
MaySettle(e) ==
    LET decision == IF Fenced THEN Suspend("user_pause")
                    ELSE IF turn[e].got = "unknown" THEN UnknownEffects
                    ELSE Planned(e)
    IN /\ Holds(e, turn[e].key[1])
       /\ intent[turn[e].key].state = "executing"
       /\ MayAdvance(turn[e].key[2], decision, ~turn[e].existing, turn[e].got)

Settlement(e) ==
    LET stage == turn[e].key[2]
        row == Counted(Received(e), stage, ~turn[e].existing)
    IN Settled(row, stage, Outcome(stage, row, turn[e].got, Planned(e)))

SettleAction(e) ==
    LET k == turn[e].key
    IN /\ turn[e].pc = "acted" /\ MaySettle(e)
       /\ episode' = [episode EXCEPT ![k[1]] = Settlement(e)]
       /\ intent' = IF turn[e].got = "unknown"
                    THEN [intent EXCEPT ![k].state = "unknown", ![k].ok = "unknown"]
                    ELSE Answered(k, turn[e].got)
       /\ turn' = [turn EXCEPT ![e] = IdleTurn]
       /\ UNCHANGED <<task, policy, repair, receipt, effects, epoch, lapsed>>

SettleRefused(e) ==
    /\ turn[e].pc = "acted" /\ ~MaySettle(e)
    /\ turn' = [turn EXCEPT ![e] = IdleTurn]
    /\ UNCHANGED <<task, policy, episode, intent, repair, receipt, effects, epoch, lapsed>>

---------------------------------------------------------------------------
(* Time, crashes, the scheduler, the operator and the repair's delivery. *)

\* What the bound counts.
Event(changed) == task.events < MaxEvents /\ task' = [changed EXCEPT !.events = @ + 1]

\* The lease of a turn that is gone runs out; that of a turn under way does
\* when the turn takes longer (nothing renews it: renew has no caller).
LeaseLapses(a) ==
    /\ Leased(episode[a])
    /\ IF turn[episode[a].owner].pc = "idle" THEN UNCHANGED task ELSE Event(task)
    /\ episode' = [episode EXCEPT ![a].live = FALSE]
    /\ lapsed' = (lapsed \/ HasUnsettled(a))
    /\ UNCHANGED <<policy, intent, repair, receipt, effects, turn, epoch>>

\* The clock of a superseded or resolved episode is not read again.
DeadlinePasses(a) ==
    /\ episode[a].state \notin {"none", "resolved"} /\ ~(episode[a].late /\ episode[a].aged)
    /\ episode' = [episode EXCEPT ![a].late = TRUE, ![a].aged = TRUE]
    /\ UNCHANGED <<task, policy, intent, repair, receipt, effects, turn, epoch, lapsed>>

BackoffEnds(a) ==
    /\ episode[a].resting /\ episode[a].state # "resolved"
    /\ episode' = [episode EXCEPT ![a].resting = FALSE]
    /\ UNCHANGED <<task, policy, intent, repair, receipt, effects, turn, epoch, lapsed>>

\* A new process takes over and recover_interrupted marks what was executing
\* as unknown; the old process may be gone or may not have noticed.
Interrupted(a) == \E k \in Keys(a) : intent[k].state = "executing"

Restart ==
    /\ epoch < MaxEpoch /\ Event(task)
    /\ epoch' = epoch + 1
    /\ intent' = [k \in Key |->
          IF intent[k].state = "executing"
          THEN [intent[k] EXCEPT !.state = "unknown", !.ok = "unknown"] ELSE intent[k]]
    /\ episode' = [a \in Attempt |->
          IF Interrupted(a) THEN Unleased(Decided(episode[a], UnknownEffects)) ELSE episode[a]]
    /\ \E gone \in BOOLEAN : turn' = IF gone THEN [turn EXCEPT ![epoch] = IdleTurn] ELSE turn
    /\ UNCHANGED <<policy, repair, receipt, effects, lapsed>>

\* The scheduler claims a queued node and its worker ends blocked or accepted.
WorkerStarts ==
    /\ task.node = "queued" /\ ~Fenced /\ task.attempt < MaxAttempt
    /\ task' = [task EXCEPT !.node = "running", !.attempt = @ + 1, !.audit = 0]
    /\ Outdated("seen")
    /\ UNCHANGED <<policy, intent, repair, receipt, effects, epoch, lapsed>>

WorkerEnds ==
    /\ task.node = "running"
    /\ \/ task' = [task EXCEPT !.node = "accepted"]
       \/ /\ task.attempt < MaxAttempt   \* the last attempt of the instance succeeds
          /\ \E f \in Failure : task' = [task EXCEPT !.node = "blocked", !.failure = f]
    /\ Outdated("seen")
    /\ UNCHANGED <<policy, intent, repair, receipt, effects, epoch, lapsed>>

\* Control, approvals and an explicit retry; each is a new task revision.
Operator ==
    /\ \/ task.control = "open" /\ \E c \in {"paused", "cancelled"} : Event([task EXCEPT !.control = c])
       \/ task.control = "paused" /\ Event([task EXCEPT !.control = "open"])
       \/ Event([task EXCEPT !.approval = ~@])
       \/ /\ task.node = "blocked" /\ ~Fenced /\ task.attempt < MaxAttempt
          /\ Event([task EXCEPT !.node = "queued"])
    /\ Outdated("seen")
    /\ UNCHANGED <<policy, intent, repair, receipt, effects, epoch, lapsed>>

\* configure_policy: a new policy revision, here switching it on or off.
ConfigurePolicy ==
    /\ Event(task)
    /\ policy' = [policy EXCEPT !.enabled = ~@]
    /\ Outdated("granted")
    /\ UNCHANGED <<intent, repair, receipt, effects, epoch, lapsed>>

\* A controlled write to the blocked source, which the observation reports.
ControlledWrite ==
    /\ task.node = "blocked"
    /\ Event([task EXCEPT !.audit = @ + 1])
    /\ UNCHANGED <<policy, episode, intent, repair, receipt, effects, turn, epoch, lapsed>>

\* observe_repair_delivery: the repair task is accepted, then installed and
\* the authority restarted; verified when that is observed as a whole.
RepairDelivery(a) ==
    /\ \/ repair[a].delivery = "pending" /\ repair' = [repair EXCEPT ![a].delivery = "accepted"]
       \/ repair[a].delivery = "accepted" /\ repair' = [repair EXCEPT ![a].delivery = "restarted"]
       \/ repair[a].delivery \in {"accepted", "restarted"}
          /\ repair' = [repair EXCEPT ![a].delivery = "verified"]
    /\ UNCHANGED <<task, policy, episode, intent, receipt, effects, turn, epoch, lapsed>>

Turn(e) ==
    \/ BeginAction(e) \/ BeginRefused(e) \/ LinkRepair(e)
    \/ LookUp(e) \/ Refuse(e) \/ Execute(e) \/ SettleAction(e) \/ SettleRefused(e)
Control(e) ==
    \/ \E a \in Attempt : MarkRepairDeployed(e, a) \/ RefreshNode(e, a) \/ ClaimFenced(e, a) \/ Claim(e, a)
    \/ \E k \in Key : ReconcileUnknown(e, k)
    \/ ReconcileSuperseded(e)
Clock == \E a \in Attempt : LeaseLapses(a) \/ DeadlinePasses(a) \/ BackoffEnds(a)
Worker == WorkerStarts \/ WorkerEnds

Next ==
    \/ \E e \in Epoch : Control(e) \/ Turn(e)
    \/ \E a \in Attempt : RepairDelivery(a)
    \/ Clock \/ Restart \/ Worker \/ Operator \/ ConfigurePolicy \/ ControlledWrite

\* The coordinator's loop keeps taking control turns, the scheduler keeps
\* running workers and time passes.  Nobody has to restart, to operate or to
\* deliver a repair.
Fairness ==
    /\ \A e \in Epoch : WF_vars(Control(e) \/ Turn(e))
    /\ WF_vars(Clock)
    /\ WF_vars(Worker)

Spec == Init /\ [][Next]_vars
FairSpec == Spec /\ Fairness

---------------------------------------------------------------------------
(* Properties. *)

\* The rows keep their columns' domains.  A stage's count stays within twice
\* its limit: an attempt that was settled as unknown and reconciled later is
\* counted twice (settle_action, reconcile_action_receipt).
TypeOK ==
    /\ task.control \in {"open", "paused", "cancelled"}
    /\ task.node \in {"blocked", "queued", "running", "accepted"}
    /\ task.attempt \in Attempt /\ task.failure.facts \subseteq Fact
    /\ \A a \in Attempt :
          /\ episode[a].state \in {"none", "waiting", "ready", "needs_action", "suspended", "resolved"}
          /\ {episode[a].action, episode[a].stage, episode[a].last} \subseteq Granted \cup {NoAction}
          /\ episode[a].tries \in [Granted -> 0 .. 2 * MaxTries]
          /\ episode[a].facts \subseteq Fact /\ episode[a].owner \in 0 .. MaxEpoch
    /\ intent \in [Key -> [state : {"none", "executing", "unknown", "completed"},
                           plan : {"none", "adapter", "preflight"},
                           ok : {"none", "ok", "failed", "rejected", "unknown"}]]
    /\ receipt \in [Key -> {"none", "ok", "failed"}]
    /\ effects \in [Key -> 0 .. 1]
    /\ \A e \in Epoch : turn[e].pc # "idle" => turn[e].key \in Key
    /\ epoch \in Epoch

\* An episode that asks a person has a notification for the reason it gives
\* (_record_needs_action_notification runs in the transaction of each write).
NeedsActionNotified ==
    \A a \in Attempt : episode[a].state = "needs_action" => episode[a].reason \in episode[a].notified

\* An episode is closed only when each of its effects is known: neither a
\* newer attempt nor a resumed node buries an intent without a receipt.
ResolvedSettled ==
    \A a \in Attempt : episode[a].state = "resolved" => ~HasUnsettled(a)

\* While the effect of one action is not known no other action of the attempt
\* takes effect, whichever process tries (begin_action, _refresh_node).
UnknownBlocks ==
    [][\A k \in Key : effects'[k] > effects[k]
          => \A j \in Keys(k[1]) \ {k} : intent[j].state \notin Unsettled]_vars

\* Once a repair was asked for, the parent is validated, recovered and resumed
\* only after its deployment was verified.
ParentActions == {"narrow_validation", "source_only_recovery", "resume_node"}
ParentWaitsForRepair ==
    [][\A k \in Key : (effects'[k] > effects[k] /\ k[2] \in ParentActions)
          => \/ ~repair[k[1]].linked \/ EnqueueRejected(k[1])
             \/ repair[k[1]].deployed]_vars

\* The journal of intents is one of at-most-once requests: an action whose
\* outcome is recorded as a success took effect once, and none takes effect
\* after its receipt, over lost replies, lapsed leases and restarts.
Requests == INSTANCE AtMostOnce WITH
    Id <- Key,
    status <- [k \in Key |->
        CASE intent[k].state = "none" -> "new"
          [] intent[k].state = "executing" -> "pending"
          [] intent[k].state = "unknown" -> "unknown"
          [] OTHER -> IF intent[k].ok = "ok" THEN "done" ELSE "failed"],
    count <- effects
AtMostOnceAction == Requests!Spec

\* A recovery ends: it is resolved, suspended or handed to a person, unless
\* the policy is switched off, a person holds the task, or a lease ran out
\* under an action (see the README for the two ways it then waits for ever).
EpisodeEnds ==
    \A a \in Attempt : episode[a].state \in Active
        ~> \/ episode[a].state \notin Active
           \/ ~policy.enabled \/ Fenced \/ lapsed \/ Wedged

\* "budget_exhausted" means what it says: a stage used its attempts or the
\* deadline the row shows has passed (mark_repair_deployed renews it).
BudgetIsSpent ==
    \A a \in Attempt : episode[a].reason = "budget_exhausted"
        => episode[a].late \/ \E s \in Granted : episode[a].tries[s] >= MaxTries
=============================================================================
