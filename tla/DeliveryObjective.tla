-------------------------- MODULE DeliveryObjective --------------------------
(***************************************************************************)
(* Delivery objectives (store.py, delivery_lifecycle.py): an objective goes *)
(* through its stages, and the coordinator runs one turn at a time: it      *)
(* claims a due objective, checks deadline and authority, writes down what  *)
(* it is about to do, lets an adapter do it, and records the outcome.       *)
(*                                                                         *)
(* Between any two of these transactions the process may die, the lease may *)
(* run out, an operator may grant or deny, workers may start.  A deployment *)
(* replaces the very process that watches it: a detached helper installs,   *)
(* and restarts the authority.                                              *)
(***************************************************************************)
EXTENDS Integers, Sequences

CONSTANTS
    Objective,     \* the objectives, numbered in the order of their creation
    Required,      \* the stages each one requires, in order
    Reversible,    \* the ones whose deployment may be rolled back
    Local,         \* the ones that the local adapter may deploy, by a detached helper
    AttemptLimit   \* budget.attempt_limit

\* plan, implement and verify only look at the task; integrate, ci and publish go
\* through one GitHub command.
Kinds == {"task", "github", "deploy", "live-verify"}

ASSUME RequiredAssumption ==
    /\ Objective \subseteq Nat
    /\ Required \in [Objective -> Seq(Kinds)]
    /\ \A o \in Objective :
          /\ Len(Required[o]) > 0 /\ Required[o][1] = "task"
          /\ \A i \in 1..Len(Required[o]) :
                /\ Required[o][i] = "deploy"
                      => i < Len(Required[o]) /\ Required[o][i + 1] = "live-verify"
                /\ Required[o][i] = "live-verify" => i > 1 /\ Required[o][i - 1] = "deploy"

ASSUME LimitAssumption == AttemptLimit \in Nat

VARIABLES
    phase,     \* whether a coordinator process serves
    row,       \* delivery_objectives
    dispatch,  \* delivery_stage_dispatches: the row of the current attempt
    noted,     \* receipts of the current attempt that belong to no dispatch
    granted,   \* the endpoints an objective is authorised for
    overdue,   \* the objectives whose due time has passed
    busy,      \* whether a worker or a planner runs somewhere
    turn,      \* the delivery turn of the coordinator
    effect,    \* how often an adapter was asked to act and to undo in the current attempt
    helper     \* the detached deployment helper of the current attempt

ledger == <<row, dispatch, noted>>
world == <<granted, overdue, busy>>
outside == <<effect, helper>>
vars == <<phase, ledger, world, turn, outside>>

States == {"active", "waiting", "needs_decision", "complete"}

\* wait_reason.kind; a safe point wait is "draining", then "ready".
Waits == {"none", "permission", "unknown", "other", "draining", "ready"}

Scopes == {"github", "deployment"}

Scope(kind) == IF kind = "github" THEN "github" ELSE "deployment"

Scoped(o) == {Scope(Required[o][i]) : i \in 1..Len(Required[o])}

Outcomes == {"succeeded", "failed", "blocked", "unknown", "denied", "deferred"}

Steps == {"idle", "claimed", "refused", "permitted", "held", "draining", "admitted",
          "invoking", "failed", "undoing", "undone", "recording"}

\* Epochs are only compared for equality: "this" is the one of the last activation.
Owners == {"none", "this", "former"}

\* "safe" tells a last_progress about a safe point from any other.
Rows == [state : States, stage : Nat, attempt : Nat, used : Nat, wait : Waits,
         safe : BOOLEAN, owner : Owners, live : BOOLEAN]

Dispatches == [state : {"none", "started", "settled"},
               rollback : {"none", "started", "settled"},
               unknown : BOOLEAN]

Turns == [o : Nat, step : Steps, new : BOOLEAN, outcome : {"none"} \cup Outcomes]

Helpers == [state : {"none", "launched", "running", "succeeded", "failed"},
            epoch : Owners]

NoDispatch == [state |-> "none", rollback |-> "none", unknown |-> FALSE]

NoEffect == [ran |-> 0, undone |-> 0]

NoHelper == [state |-> "none", epoch |-> "none"]

Idle == [o |-> 0, step |-> "idle", new |-> FALSE, outcome |-> "none"]

Created == [state |-> "active", stage |-> 1, attempt |-> 1, used |-> 0, wait |-> "none",
            safe |-> FALSE, owner |-> "none", live |-> FALSE]

Init ==
    /\ phase = "down"
    /\ row = [o \in Objective |-> Created]
    /\ dispatch = [o \in Objective |-> NoDispatch]
    /\ noted = [o \in Objective |-> {}]
    /\ granted = [o \in Objective |-> {}]
    /\ overdue = {} /\ busy = FALSE
    /\ turn = Idle
    /\ effect = [o \in Objective |-> NoEffect]
    /\ helper = [o \in Objective |-> NoHelper]

Kind(o) == Required[o][row[o].stage]

External(o) == Kind(o) # "task"

Authorized(o) == External(o) => Scope(Kind(o)) \in granted[o]

-----------------------------------------------------------------------------
(* The rollout gate and the safe point.                                     *)

NotVerified(o) ==
    /\ row[o].state # "complete"
    /\ Kind(o) = "deploy"
    /\ row[o].safe \/ dispatch[o].state = "started"

DispatchedOnly(o) ==
    /\ row[o].state # "complete"
    /\ Kind(o) = "deploy" /\ dispatch[o].state = "started"

\* A waiting, dispatched, undecided or unverified rollout keeps new work out.
Gate(o) ==
    /\ row[o].state # "complete"
    /\ \/ /\ Kind(o) = "deploy"
          /\ \/ row[o].safe
             \/ dispatch[o].state = "started"
             \/ row[o].wait = "unknown" /\ (dispatch[o].state # "none" \/ row[o].attempt > 1)
       \/ Kind(o) = "live-verify"

\* The gate names the oldest rollout; only that one may go on.
HeldByOther(o) == \E p \in Objective : Gate(p) /\ p # o /\ (Gate(o) => p < o)

Blocked(o) == Kind(o) = "deploy" /\ (HeldByOther(o) \/ busy)

\* _reconcile_delivery_safe_point_waits, in every claim and every turn of the loop.
Woken(r) ==
    IF r.state = "waiting" /\ r.wait = "draining" /\ ~busy
    THEN [r EXCEPT !.wait = "ready"] ELSE r

ReconcileSafePointWaits ==
    /\ phase = "serving"
    /\ row' = [o \in Objective |-> Woken(row[o])]
    /\ row' # row
    /\ UNCHANGED <<phase, dispatch, noted, world, turn, outside>>

\* A worker or planner claim, and the end of the last one that runs.
ClaimWork ==
    /\ phase = "serving" /\ ~busy
    /\ \A o \in Objective : ~Gate(o)
    /\ busy' = TRUE
    /\ UNCHANGED <<phase, ledger, granted, overdue, turn, outside>>

FinishWork ==
    /\ phase = "serving" /\ busy
    /\ busy' = FALSE
    /\ UNCHANGED <<phase, ledger, granted, overdue, turn, outside>>

-----------------------------------------------------------------------------
(* The coordinator's process, time, and the operator.                       *)

\* The process dies with its turn, or drains first (the helper asks it to).
Stop ==
    /\ phase = "serving"
    /\ phase' = "down"
    /\ turn' = Idle
    /\ UNCHANGED <<ledger, world, outside>>

Aged(owner) == IF owner = "this" THEN "former" ELSE owner

\* Recovery settles whatever ran before the coordinator serves.
ActivateCoordinator ==
    /\ phase = "down"
    /\ phase' = "serving"
    /\ row' = [o \in Objective |-> [row[o] EXCEPT !.owner = Aged(@)]]
    /\ helper' = [o \in Objective |-> [helper[o] EXCEPT !.epoch = Aged(@)]]
    /\ busy' = FALSE
    /\ UNCHANGED <<dispatch, noted, granted, overdue, turn, effect>>

\* A lease that is not renewed runs out: its owner is dead, or stalls for that long in
\* the turn that holds it.
LeaseExpires(o) ==
    /\ row[o].live
    /\ turn.o = o \/ (turn = Idle /\ row[o].owner = "former")
    /\ row' = [row EXCEPT ![o].live = FALSE]
    /\ UNCHANGED <<phase, dispatch, noted, world, turn, outside>>

\* Every store write that gives a row up clears owner, epochs and expiry.
Released(r) == [r EXCEPT !.owner = "none", !.live = FALSE]

\* A grant resumes a row that waits for a permission, of whatever endpoint.
Grant(o, s) ==
    /\ granted' = [granted EXCEPT ![o] = @ \cup ({s} \cap Scoped(o))]
    /\ row' = [row EXCEPT ![o] =
                 IF @.state \in {"waiting", "needs_decision"} /\ @.wait = "permission"
                 THEN [@ EXCEPT !.state = "active", !.wait = "none", !.safe = FALSE]
                 ELSE @]
    /\ UNCHANGED <<phase, dispatch, noted, overdue, busy, turn, outside>>

Deny(o, s) ==
    /\ granted' = [granted EXCEPT ![o] = @ \ {s}]
    /\ row' = [row EXCEPT ![o] =
                 IF @.state \in {"waiting", "needs_decision"}
                 THEN [Released(@) EXCEPT !.state = "needs_decision", !.wait = "permission",
                                          !.safe = FALSE]
                 ELSE @]
    /\ UNCHANGED <<phase, dispatch, noted, overdue, busy, turn, outside>>

\* A granted authorization runs out; nobody is told.
AuthorizationExpires(o, s) ==
    /\ s \in granted[o]
    /\ granted' = [granted EXCEPT ![o] = @ \ {s}]
    /\ UNCHANGED <<phase, ledger, overdue, busy, turn, outside>>

-----------------------------------------------------------------------------
(* One turn of the coordinator.  Each action is one transaction, or the call *)
(* of an adapter; a transaction that writes the row is fenced by its lease.  *)

At(o, step) == phase = "serving" /\ turn.o = o /\ turn.step = step

GoTo(step) == turn' = [turn EXCEPT !.step = step]

\* Epoch, lease epoch and revision: only a turn of this process moves an active row.
Fence(o) == row[o].state = "active" /\ row[o].owner = "this" /\ row[o].live

ClaimableMutant(r) ==
    \/ r.state = "waiting" /\ r.wait # "draining"
    \/ r.state = "active" /\ r.owner # "former"

\* next_wakeup_at passes sooner or later, so a waiting row may come up at any time.
Claimable(r) ==
    \/ r.state = "waiting" /\ r.wait # "draining"
    \/ r.state = "active" /\ (r.owner # "former" \/ ~r.live)

\* A turn takes up its own live lease where the last one left it.
Claimed(r) ==
    IF r.state = "active" /\ r.owner = "this" /\ r.live THEN r
    ELSE [r EXCEPT !.state = "active", !.wait = "none", !.owner = "this", !.live = TRUE]

ClaimDeliveryObjective(o) ==
    /\ phase = "serving" /\ turn = Idle
    /\ Claimable(Woken(row[o]))
    /\ row' = [p \in Objective |-> IF p = o THEN Claimed(Woken(row[p])) ELSE Woken(row[p])]
    /\ turn' = [Idle EXCEPT !.o = o, !.step = "claimed"]
    /\ UNCHANGED <<phase, dispatch, noted, world, outside>>

\* budget.attempts_used; beyond the last retry its value makes no difference.
Spent(n) == IF n + 1 < AttemptLimit THEN n + 1 ELSE n

NeedsDecision(o, wait) ==
    row' = [row EXCEPT ![o] = [Released(@) EXCEPT
              !.state = "needs_decision", !.wait = wait, !.safe = FALSE,
              !.used = Spent(row[o].used)]]

\* A receipt without a dispatch: a decision is asked for, once per attempt.
AskDecision(o, receipt, wait) ==
    /\ Fence(o) /\ receipt \notin noted[o]
    /\ NeedsDecision(o, wait)
    /\ noted' = [noted EXCEPT ![o] = @ \cup {receipt}]
    /\ turn' = Idle
    /\ UNCHANGED <<phase, dispatch, world, outside>>

\* When the due time passes matters only to the turn that looks at it.
DueTimePasses(o) ==
    /\ At(o, "claimed") /\ o \notin overdue
    /\ overdue' = overdue \cup {o}
    /\ UNCHANGED <<phase, ledger, granted, busy, turn, outside>>

RecordDeadline(o) ==
    /\ At(o, "claimed") /\ o \in overdue
    /\ AskDecision(o, "deadline", "other")

CheckAuthority(o) ==
    /\ At(o, "claimed") /\ o \notin overdue
    /\ GoTo(CASE ~Authorized(o) -> "refused"
              [] Authorized(o) /\ Kind(o) = "deploy" -> "permitted"
              [] OTHER -> "admitted")
    /\ UNCHANGED <<phase, ledger, world, outside>>

\* The receipt that settles the dispatch of the attempt.
Settle(o, outcome) ==
    dispatch' = [dispatch EXCEPT ![o].state = "settled", ![o].unknown = outcome = "unknown"]

\* Authority was lost: what a dispatch did is unknown, what was not begun is denied.
RecordRefusal(o) ==
    /\ At(o, "refused")
    /\ \/ /\ dispatch[o].state = "started" /\ Fence(o)
          /\ Settle(o, "unknown") /\ NeedsDecision(o, "unknown")
          /\ turn' = Idle
          /\ UNCHANGED <<phase, noted, world, outside>>
       \/ /\ dispatch[o].state # "started"
          /\ AskDecision(o, "authorization", "permission")

\* Gate and blockers are read before the transaction that acts on them.
CheckGate(o) ==
    /\ At(o, "permitted")
    /\ GoTo(IF HeldByOther(o) THEN "held" ELSE IF busy THEN "draining" ELSE "admitted")
    /\ UNCHANGED <<phase, ledger, world, outside>>

DeferAdmission(o) ==
    /\ At(o, "held") /\ Fence(o) /\ dispatch[o].state = "none"
    /\ row' = [row EXCEPT ![o] = [Released(@) EXCEPT
                 !.state = "waiting", !.wait = "other", !.safe = FALSE]]
    /\ turn' = Idle
    /\ UNCHANGED <<phase, dispatch, noted, world, outside>>

DeferSafePoint(o) ==
    /\ At(o, "draining") /\ Fence(o) /\ busy
    /\ row' = [row EXCEPT ![o] = [Released(@) EXCEPT
                 !.state = "waiting", !.wait = "draining", !.safe = TRUE]]
    /\ turn' = Idle
    /\ UNCHANGED <<phase, dispatch, noted, world, outside>>

NotSettled(o) == dispatch[o].state # "settled"

\* Only the turn that inserts the dispatch may run its effect.
IsNew(o) == dispatch[o].state = "none"

BeginStageDispatch(o) ==
    /\ At(o, "admitted") /\ Fence(o)
    /\ IF Blocked(o) THEN GoTo("held") /\ UNCHANGED <<row, dispatch>>
       ELSE /\ dispatch' = [dispatch EXCEPT ![o].state = IF @ = "none" THEN "started" ELSE @]
            /\ row' = [row EXCEPT ![o].safe = @ /\ dispatch[o].state # "none"]
            /\ turn' = [turn EXCEPT !.step = "invoking", !.new = IsNew(o)]
    /\ UNCHANGED <<phase, noted, world, outside>>

-----------------------------------------------------------------------------
(* The adapter, the rollback and the receipt.                               *)

\* What the local adapter makes of the helper's files.  The installer's epoch is
\* compared with that of the lease the observer holds.
ObserveDeploy(h) ==
    IF h.epoch # "this" THEN "unknown"
    ELSE CASE h.state = "succeeded" -> "succeeded"
           [] h.state = "failed" -> "failed"
           [] h.state = "running" -> "deferred"
           [] OTHER -> "unknown"

Detached(o) == helper[o].epoch # "none"

\* Any other adapter may answer anything.
Answers(o) == IF Detached(o) THEN {ObserveDeploy(helper[o])} ELSE Outcomes

Launches(o, answer) ==
    o \in Local /\ Kind(o) = "deploy" /\ turn.new /\ answer = "deferred"

InvokeAdapter(o) ==
    /\ At(o, "invoking")
    /\ \E answer \in Answers(o) :
          /\ turn' = [turn EXCEPT !.outcome = answer,
                        !.step = IF answer = "failed" /\ Kind(o) = "deploy" /\ o \in Reversible
                                 THEN "failed" ELSE "recording"]
          /\ \/ UNCHANGED helper
             \/ /\ Launches(o, answer)
                /\ helper' = [helper EXCEPT ![o] = [state |-> "launched", epoch |-> "this"]]
    /\ effect' = [effect EXCEPT ![o].ran = IF turn.new THEN @ + 1 ELSE @]
    /\ UNCHANGED <<phase, ledger, world>>

\* A rollback begun by an earlier turn and not verified is not repeated.
BeginStageRollback(o) ==
    /\ At(o, "failed") /\ Fence(o)
    /\ dispatch' = [dispatch EXCEPT ![o].rollback = IF @ = "none" THEN "started" ELSE @]
    /\ turn' = CASE dispatch[o].rollback = "none" -> [turn EXCEPT !.step = "undoing"]
                 [] dispatch[o].rollback # "none" ->
                      [turn EXCEPT !.step = "recording", !.outcome =
                         IF dispatch[o].state = "settled" THEN @ ELSE "unknown"]
    /\ UNCHANGED <<phase, row, noted, world, outside>>

\* The local adapter wants the epoch of a later activation in the receipt.
RollBack(o) ==
    /\ At(o, "undoing")
    /\ effect' = [effect EXCEPT ![o].undone = @ + 1]
    /\ \/ (Detached(o) => helper[o].epoch = "former") /\ GoTo("undone")
       \/ turn' = [turn EXCEPT !.step = "recording", !.outcome = "unknown"]
    /\ UNCHANGED <<phase, ledger, world, helper>>

SettleStageRollback(o) ==
    /\ At(o, "undone") /\ Fence(o)
    /\ dispatch' = [dispatch EXCEPT ![o].rollback = "settled"]
    /\ GoTo("recording")
    /\ UNCHANGED <<phase, row, noted, world, outside>>

\* A new stage or attempt has no dispatch, no receipt and no effect yet.
StartAfresh(o) ==
    /\ dispatch' = [dispatch EXCEPT ![o] = NoDispatch]
    /\ noted' = [noted EXCEPT ![o] = {}]
    /\ effect' = [effect EXCEPT ![o] = NoEffect]
    /\ helper' = [helper EXCEPT ![o] = NoHelper]

Answered(o, outcomes) ==
    /\ At(o, "recording") /\ turn.outcome \in outcomes
    /\ Fence(o) /\ dispatch[o].state = "started"
    /\ turn' = Idle
    /\ UNCHANGED <<phase, world>>

PastLastStage(o) == row[o].stage > Len(Required[o])

LastStage(o) == row[o].stage = Len(Required[o])

RecordSuccess(o) ==
    /\ Answered(o, {"succeeded"})
    /\ IF LastStage(o)
       THEN /\ row' = [row EXCEPT ![o] = [Released(@) EXCEPT
                         !.state = "complete", !.safe = FALSE]]
            /\ Settle(o, "succeeded") /\ UNCHANGED <<noted, outside>>
       ELSE /\ row' = [row EXCEPT ![o] = [@ EXCEPT
                         !.stage = row[o].stage + 1, !.attempt = 1, !.safe = FALSE]]
            /\ StartAfresh(o)

MayRetry(o) == row[o].used + 1 < AttemptLimit

\* An eligible failure is retried while the budget lasts.
RecordRetry(o) ==
    /\ Answered(o, {"failed"}) /\ MayRetry(o)
    /\ row' = [row EXCEPT ![o] = [Released(@) EXCEPT
                 !.state = "waiting", !.wait = "other", !.safe = FALSE,
                 !.attempt = row[o].attempt + 1, !.used = Spent(row[o].used)]]
    /\ StartAfresh(o)

RecordFailure(o) ==
    /\ Answered(o, {"failed", "blocked", "denied", "unknown"})
    /\ NeedsDecision(o, CASE turn.outcome = "denied" -> "permission"
                          [] turn.outcome = "unknown" -> "unknown"
                          [] OTHER -> "other")
    /\ Settle(o, turn.outcome)
    /\ UNCHANGED <<noted, outside>>

DeferObservation(o) ==
    /\ Answered(o, {"deferred"})
    /\ row' = [row EXCEPT ![o] = [Released(@) EXCEPT
                 !.state = "waiting", !.wait = "other", !.safe = FALSE]]
    /\ UNCHANGED <<dispatch, noted, outside>>

\* A transaction refuses: the turn ends and has written nothing.
Refuses(o) ==
    CASE turn.step = "claimed" -> o \in overdue /\ (~Fence(o) \/ "deadline" \in noted[o])
      [] turn.step = "refused" ->
           \/ ~Fence(o)
           \/ dispatch[o].state # "started" /\ "authorization" \in noted[o]
      [] turn.step = "held" -> ~Fence(o) \/ dispatch[o].state # "none"
      [] turn.step = "draining" -> ~Fence(o) \/ ~busy
      [] turn.step \in {"admitted", "failed", "undone"} -> ~Fence(o)
      [] turn.step = "recording" ->
           \* a success may lack a fingerprint, an identity or a check of its receipt
           ~Fence(o) \/ dispatch[o].state # "started" \/ turn.outcome = "succeeded"
      [] OTHER -> FALSE

AbandonTurn(o) ==
    /\ phase = "serving" /\ turn.o = o /\ Refuses(o)
    /\ turn' = Idle
    /\ UNCHANGED <<phase, ledger, world, outside>>

-----------------------------------------------------------------------------
(* The helper runs beside the authority, and stops and starts it to install. *)

Helper(o, from, to) ==
    /\ helper[o].state = from
    /\ helper' = [helper EXCEPT ![o].state = to]
    /\ UNCHANGED <<phase, ledger, world, turn, effect>>

HelperStarts(o) == Helper(o, "launched", "running")

HelperSucceeds(o) ==
    /\ phase = "down" \/ helper[o].epoch = "former"
    /\ Helper(o, "running", "succeeded")

HelperFails(o) == Helper(o, "running", "failed")

\* without a running record and without a result: what it did cannot be told
HelperDies(o) == Helper(o, "launched", "none") \/ Helper(o, "running", "none")

-----------------------------------------------------------------------------
Turn(o) ==
    \/ RecordDeadline(o) \/ CheckAuthority(o) \/ RecordRefusal(o)
    \/ CheckGate(o) \/ DeferAdmission(o) \/ DeferSafePoint(o) \/ BeginStageDispatch(o)
    \/ InvokeAdapter(o) \/ BeginStageRollback(o) \/ RollBack(o) \/ SettleStageRollback(o)
    \/ RecordSuccess(o) \/ RecordRetry(o) \/ RecordFailure(o) \/ DeferObservation(o)
    \/ AbandonTurn(o)

HelperStep(o) == HelperStarts(o) \/ HelperSucceeds(o) \/ HelperFails(o) \/ HelperDies(o)

Operator(o) ==
    \E s \in Scopes : Grant(o, s) \/ Deny(o, s) \/ AuthorizationExpires(o, s)

Next ==
    \/ Stop \/ ActivateCoordinator
    \/ ClaimWork \/ FinishWork \/ ReconcileSafePointWaits
    \/ \E o \in Objective :
          \/ LeaseExpires(o) \/ DueTimePasses(o) \/ Operator(o)
          \/ ClaimDeliveryObjective(o) \/ Turn(o) \/ HelperStep(o)

Spec == Init /\ [][Next]_vars

\* The process that serves loses the lease it holds, which its heartbeat renews.
Stall == \E o \in Objective : phase = "serving" /\ row[o].owner = "this" /\ LeaseExpires(o)

\* The service restarts; time passes; running work ends; a due objective is claimed in
\* its turn, and a turn goes on to its end.  A process may die or stall at any
\* time, but not forever.
FairSpec ==
    /\ Spec
    /\ WF_vars(ActivateCoordinator)
    /\ WF_vars(FinishWork)
    /\ WF_vars(ReconcileSafePointWaits)
    /\ \A o \in Objective :
          /\ WF_vars(LeaseExpires(o) /\ row[o].owner = "former")
          /\ SF_vars(ClaimDeliveryObjective(o))
          /\ WF_vars(Turn(o))
    /\ <>[][~Stop /\ ~Stall]_vars

-----------------------------------------------------------------------------
(* Properties.                                                              *)

\* Every row, dispatch, turn and helper is one the code can write.
TypeOK ==
    /\ phase \in {"down", "serving"}
    /\ row \in [Objective -> Rows]
    /\ \A o \in Objective : row[o].stage \in 1..Len(Required[o]) /\ row[o].attempt > 0
    /\ dispatch \in [Objective -> Dispatches]
    /\ noted \in [Objective -> SUBSET {"deadline", "authorization"}]
    /\ granted \in [Objective -> SUBSET Scopes]
    /\ overdue \subseteq Objective /\ busy \in BOOLEAN
    /\ turn \in Turns /\ (turn.o \in Objective \/ turn = Idle)
    /\ effect \in [Objective -> [ran : Nat, undone : Nat]]
    /\ helper \in [Objective -> Helpers]

\* One rollout at a time holds the gate, and from its dispatch to the end of its live
\* verification no worker and no planner runs (_deployment_admission_gate,
\* begin_delivery_stage_dispatch), whichever turn, restart or operator comes between.
RolloutAlone ==
    /\ \A o, p \in Objective : Gate(o) /\ Gate(p) => o = p
    /\ \A o \in Objective :
          /\ Kind(o) = "deploy" => ~(dispatch[o].state = "started" /\ busy)
          /\ Kind(o) = "live-verify" => row[o].state = "complete" \/ ~busy

\* The effect of an attempt is asked for at most once, and so is its undoing; an attempt
\* whose effect is unknown is never followed by another (begin_delivery_stage_dispatch:
\* "callers receive the old dispatch and must reconcile it").
Effects == INSTANCE StageEffects WITH
    at <- [o \in Objective |-> [stage |-> row[o].stage, attempt |-> row[o].attempt]],
    ran <- [o \in Objective |-> effect[o].ran],
    undone <- [o \in Objective |-> effect[o].undone],
    unknown <- [o \in Objective |-> dispatch[o].unknown]

EffectsOnce == Effects!Spec

\* A started dispatch is not forgotten (docs/delivery-objective-api.md:13): it is observed
\* again or settled, unless a decision is asked for, the deadline has passed or the
\* authority is withdrawn before that.
DispatchReconciled ==
    \A o \in Objective :
        dispatch[o].state = "started" ~>
            \/ dispatch[o].state # "started"
            \/ turn.o = o /\ turn.step = "invoking" /\ ~turn.new
            \/ row[o].state = "needs_decision" \/ o \in overdue \/ ~Authorized(o)

\* A rollout that waits for running work begins once that has ended: the gate keeps new
\* work out in the meantime.
RolloutStarts ==
    \A o \in Objective :
        row[o].safe /\ dispatch[o].state = "none" ~>
            \/ dispatch[o].state # "none" \/ row[o].state = "needs_decision"
            \/ o \in overdue \/ ~Authorized(o)


\* docs/delivery-objective-api.md:29: "A detached helper survives the authority restart";
\* a restarted owner that finds its installed result takes it for what it is.
InstalledIsRecognised ==
    [][\A o \in Local :
          At(o, "invoking") /\ Kind(o) = "deploy" /\ helper[o].state = "succeeded"
             /\ turn'.step = "recording" => turn'.outcome = "succeeded"]_vars
=============================================================================
