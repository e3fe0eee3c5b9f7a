----------------------------- MODULE OwnerRepair -----------------------------
(***************************************************************************)
(* Repairs that go back up the task graph: a blocked consumer, or a        *)
(* verifier, names accepted workers it depends on; they run again on their *)
(* own accepted source, each with an instruction for exactly its next      *)
(* attempt, and the one that asked continues on what they made.  The       *)
(* preparation of such a worker may fail before anything ran: it is tried  *)
(* again within the contract's retry limit, then waits for an operator or  *)
(* for a repair of the harness.                                            *)
(*                                                                         *)
(* TaskLedger has leases, allocations, approvals and cancellation; here a  *)
(* row is what these repairs read and write.  Workers end accepted, with   *)
(* changes of their own, or blocked for good; verdicts accept or name      *)
(* owners.  Failures of a worker, retries within the limit and the         *)
(* resolution of an indeterminate node are in TaskLedger.                  *)
(***************************************************************************)
EXTENDS Naturals, Sequences, FiniteSets, SequencesExt

CONSTANTS
    Worker,
    Verifier,
    DependsOn,    \* the nodes each node depends on; the verifier depends on all workers
    RetryLimit,
    MaxAttempt,   \* bound on the attempts of a node
    MaxSchedules, \* bound on the repairs asked for
    Repairs       \* deployed repairs of the harness, by fingerprint

VARIABLES
    task,      \* the state of the task
    node,      \* the row of each node
    notes,     \* task_steering: instructions for attempts
    schedules, \* the events that authorized repairs, in order
    rolled,    \* the last accepted_source_repair_rolled_back event of each worker
    spent      \* repairs of the harness a consumer's owners were resumed on

vars == <<task, node, notes, schedules, rolled, spent>>

Node == Worker \cup {Verifier}
Controlled == task = "paused"

\* recovery_json: the repair of an accepted source (of: the event that authorized it) or of a
\* blocked one, with the attempt that is repaired.
Binding == [kind : {"none", "owner", "source"}, of : Nat, source : Nat]
NoBind == [kind |-> "none", of |-> 0, source |-> 0]

\* stated: the result says that the state changed before anything ran, not that a restart
\* or a fault of the harness stopped the preparation.
NoRoll == [of |-> 0, retried |-> FALSE, stated |-> FALSE]

Above[n \in Node] == DependsOn[n] \cup UNION {Above[d] : d \in DependsOn[n]}
Ancestors(n) == Above[n]

\* parse_accepted_source_repair_binding: it names n among its owners and not the one that
\* asked, and its source is the attempt that was accepted then, before the next one.
Parses(b, n, next) ==
    LET s == schedules[b.of]
    IN  n \in DOMAIN s.source /\ s.by \notin DOMAIN s.source /\ b.source = s.source[n] /\ b.source < next

\* The input a worker prepared now would be given: every ancestor at its accepted attempt.
Input(n) == [a \in Ancestors(n) |-> node[a].attempt]
AncestorsAccepted(n) == \A a \in Ancestors(n) : node[a].state = "accepted"
InState(s) == {n \in Node : node[n].state = s}

TypeOK ==
    /\ task \in {"queued", "running", "verifying", "blocked", "needs_fix", "needs_approval",
                 "paused", "accepted"}
    /\ \A n \in Node :
          /\ node[n].state \in {"pending", "running", "accepted", "blocked", "failed", "indeterminate"}
          /\ node[n].attempt \in 0..MaxAttempt
          /\ node[n].step \in {"idle", "claimed", "built", "assigned"}
          /\ node[n].step = "idle" <=> node[n].state # "running"
          /\ node[n].bind \in Binding
          /\ node[n].names \subseteq Worker
    /\ Len(schedules) <= MaxSchedules
    /\ \A m \in notes : m.node \in Worker /\ m.of \in DOMAIN schedules
    /\ \A w \in Worker : rolled[w] \in [of : 0..Len(schedules), retried : BOOLEAN, stated : BOOLEAN]
    /\ spent \subseteq Worker \X Repairs

Init ==
    /\ task = "queued"
    /\ node = [n \in Node |-> [state |-> "pending", attempt |-> 0, step |-> "idle", bind |-> NoBind,
                               input |-> <<>>, worktree |-> FALSE, route |-> FALSE, names |-> {}]]
    /\ notes = {} /\ schedules = <<>> /\ rolled = [w \in Worker |-> NoRoll] /\ spent = {}

-----------------------------------------------------------------------------
(* Guidance.                                                                *)

\* What claim_ready_node delivers with attempt k of n.
Guidance(n, k) == {m \in notes : m.node = n /\ (IF m.only THEN m.from = k ELSE m.from <= k)}

ContinuedMutant(n) ==
    {[m EXCEPT !.traced = FALSE] : m \in {g \in Guidance(n, node[n].attempt) : g.only}}

\* _continue_attempt_steering: what was meant for this attempt only is copied to the next.
\* A copy is not traced to the event that authorized the repair.
Continued(n) ==
    {[m EXCEPT !.from = @ + 1, !.traced = FALSE] :
        m \in {g \in Guidance(n, node[n].attempt) : g.only}}

\* _accepted_owner_continuation_steering: only guidance that is traced goes on with a
\* blocked worker whose own source is repaired.
Traced(n) ==
    {[m EXCEPT !.from = @ + 1] : m \in {g \in Guidance(n, node[n].attempt) : g.only /\ g.traced}}

-----------------------------------------------------------------------------
(* An attempt.                                                              *)

Claimable(n) ==
    /\ node[n].state = "pending"
    /\ \/ task \in {"queued", "running", "verifying", "needs_fix"}
       \/ task = "blocked" /\ InState("blocked") # {} /\ InState("indeterminate") = {}
    /\ \A d \in DependsOn[n] : node[d].state = "accepted"

ClaimReadyNode(n) ==
    /\ Claimable(n) /\ node[n].attempt < MaxAttempt
    /\ node[n].bind.kind = "owner" => Parses(node[n].bind, n, node[n].attempt + 1)
    /\ node' = [node EXCEPT ![n].state = "running", ![n].step = "claimed", ![n].route = TRUE,
                            ![n].attempt = @ + 1]
    /\ task' = IF task \in {"queued", "needs_fix"} THEN "running" ELSE task
    /\ UNCHANGED <<notes, schedules, rolled, spent>>

\* _preparation_snapshot: the row is still claimed for this repair and has no worktree.  It
\* is taken before and after the preparation, whose only read of other rows is the input.
PreparationCurrent(n) ==
    /\ node[n].state = "running" /\ node[n].step = "claimed" /\ ~node[n].worktree
    /\ node[n].bind.kind = "owner" /\ Parses(node[n].bind, n, node[n].attempt)

\* _restore_dependency_input: a verifier's request runs on the input recorded with the
\* source; the others are refreshed, on what the ancestors are now.
RecordedInput(n) == node[n].input
Refreshes(n) == schedules[node[n].bind.of].kind \in {"blocked_consumer", "settled_verifier"}

PrepareRepair(n) ==
    /\ PreparationCurrent(n)
    /\ Refreshes(n) => AncestorsAccepted(n)
    /\ node' = [node EXCEPT ![n].step = "built",
                            ![n].input = IF Refreshes(n) THEN Input(n) ELSE RecordedInput(n)]
    /\ UNCHANGED <<task, notes, schedules, rolled, spent>>

AssignRepair(n) ==
    /\ node[n].step = "built" /\ ~Controlled
    /\ node' = [node EXCEPT ![n].step = "assigned", ![n].bind = NoBind, ![n].worktree = TRUE]
    /\ UNCHANGED <<task, notes, schedules, rolled, spent>>

\* A worktree is assigned, then given its input.  The repair of a blocked source takes the
\* input of its source, which must still be current, or a fresh one after owner repairs.
BeginAttempt(n) ==
    /\ node[n].step = "claimed" /\ node[n].bind.kind # "owner"
    /\ AncestorsAccepted(n)
    /\ node[n].bind.kind = "source" =>
          /\ ~Controlled
          /\ node[n].bind.of = 0 => node[n].input = Input(n)
    /\ node' = [node EXCEPT ![n].step = "assigned", ![n].input = Input(n), ![n].worktree = TRUE]
    /\ UNCHANGED <<task, notes, schedules, rolled, spent>>

-----------------------------------------------------------------------------
(* A preparation that ends before anything ran.                             *)

\* The budget of a repair counts from its source, whatever was resumed since.
RetryScheduled(n, t) ==
    /\ t # "paused"
    /\ node[n].attempt < node[n].bind.source + 1 + RetryLimit

Requeued(r, b) ==
    [r EXCEPT !.state = "pending", !.step = "idle", !.bind = b, !.worktree = FALSE, !.route = FALSE,
              !.names = {}]
Stopped(r, s, b) == [r EXCEPT !.state = s, !.step = "idle", !.bind = b]

\* The ledger after one row was taken back, from the ledger l.
\* _rollback_unassigned_accepted_source_repair
RollBackOwner(l, n, stated) ==
    LET again == RetryScheduled(n, l.task)
        gives == schedules[node[n].bind.of].kind
    IN  [l EXCEPT !.node[n] = IF again THEN Requeued(@, @.bind)
                                       ELSE [Stopped(@, "blocked", @.bind) EXCEPT !.route = FALSE],
                  !.rolled[n] = [of |-> node[n].bind.of, retried |-> again, stated |-> stated /\ ~again],
                  !.notes = IF again THEN @ \cup Continued(n) ELSE @,
                  !.task = CASE @ = "paused"               -> @
                             [] @ # "paused" /\ again      -> "queued"
                             [] @ # "paused" /\ ~again     ->
                                    IF gives = "blocked_consumer" THEN "blocked" ELSE "needs_fix"]

\* _rollback_failed_attempt_recovery: the blocked attempt is there again.
RollBackSource(l, n) ==
    [l EXCEPT !.node[n] = [Stopped(@, "blocked", NoBind) EXCEPT !.attempt = @ - 1, !.route = FALSE,
                                                               !.worktree = TRUE],
              !.task = IF @ = "paused" THEN @ ELSE "blocked"]

Ledger == [task |-> task, node |-> node, notes |-> notes, rolled |-> rolled]
Write(l) == task' = l.task /\ node' = l.node /\ notes' = l.notes /\ rolled' = l.rolled

Unassigned(n) == node[n].step \in {"claimed", "built"}
RollBack(l, n, stated) ==
    IF node[n].bind.kind = "owner" THEN RollBackOwner(l, n, stated) ELSE RollBackSource(l, n)

PreparationFails(n) ==
    /\ Unassigned(n) /\ node[n].bind.kind # "none"
    /\ \E stated \in BOOLEAN : Write(RollBack(Ledger, n, stated))
    /\ UNCHANGED <<schedules, spent>>

\* Of an ordinary attempt it is the result, with or without a worktree.
AttemptNotReady(n) ==
    /\ node[n].step = "claimed" /\ node[n].bind.kind = "none" /\ n \in Worker
    /\ \E w \in BOOLEAN :
          node' = [node EXCEPT ![n] = [Stopped(@, "blocked", NoBind) EXCEPT !.worktree = w]]
    /\ task' = IF Controlled THEN task ELSE "blocked"
    /\ UNCHANGED <<notes, schedules, rolled, spent>>

\* recover_interrupted_with_orphans takes the rows one after the other.  It asks about what
\* may have run, in whatever state the task is.
Recovered(l, n) ==
    IF Unassigned(n) /\ node[n].bind.kind # "none"
    THEN RollBack(l, n, FALSE)
    ELSE [l EXCEPT !.node[n] = Stopped(@, "indeterminate", @.bind), !.task = "needs_approval"]

Restart ==
    /\ InState("running") # {}
    /\ \E order \in SetToSeqs(InState("running")) : Write(FoldLeft(Recovered, Ledger, order))
    /\ UNCHANGED <<schedules, spent>>

-----------------------------------------------------------------------------
(* What an attempt ends as.                                                 *)

SettleAccepted(n) ==
    /\ node[n].step = "assigned" /\ n \in Worker
    /\ node' = [node EXCEPT ![n] = Stopped(@, "accepted", NoBind)]
    /\ LET rest == {w \in Worker \ {n} : node[w].state # "accepted"}
       IN  task' = CASE Controlled                                       -> task
                     [] ~Controlled /\ rest = {}                         -> "verifying"
                     [] ~Controlled /\ rest # {} /\ rest \subseteq InState("blocked") -> "blocked"
                     [] OTHER                                            -> task
    /\ UNCHANGED <<notes, schedules, rolled, spent>>

SettleBlocked(n) ==
    /\ node[n].step = "assigned" /\ n \in Worker
    /\ node' = [node EXCEPT ![n] = Stopped(@, "blocked", NoBind)]
    /\ task' = IF Controlled THEN task ELSE "blocked"
    /\ UNCHANGED <<notes, schedules, rolled, spent>>

\* reconcile_settlement_conflict: a result that cannot be written (a worker that crashed
\* before its repair was assigned) stops the attempt as indeterminate.
ReconcileSettlementConflict(n) ==
    /\ node[n].state = "running"
    /\ node' = [node EXCEPT ![n] = Stopped(@, "indeterminate", @.bind)]
    /\ task' = IF Controlled THEN task ELSE "needs_approval"
    /\ UNCHANGED <<notes, schedules, rolled, spent>>

SettleVerified ==
    /\ node[Verifier].step = "assigned"
    /\ node' = [node EXCEPT ![Verifier] = Stopped(@, "accepted", NoBind)]
    /\ task' = IF Controlled THEN task ELSE "accepted"
    /\ UNCHANGED <<notes, schedules, rolled, spent>>

-----------------------------------------------------------------------------
(* A repair is asked for.                                                   *)

\* _require_repaired_accepted_descendants
FrontierRepaired(owners) ==
    LET covered == owners \cup UNION {Ancestors(o) : o \in owners}
    IN  \A d \in Node : node[d].state = "accepted" /\ Ancestors(d) \cap owners # {} => d \in covered

\* validate_dependency_input_lineage: the recorded input is that of the ancestors as they
\* are, but for older attempts of those that are repaired with it.
LineageHolds(o, owners) ==
    /\ AncestorsAccepted(o)
    /\ \A a \in Ancestors(o) : \/ node[o].input[a] = node[a].attempt
                               \/ a \in owners /\ node[o].input[a] < node[a].attempt

\* Who may ask, and when: a blocked worker, a verifier that runs, or one that failed.
MayAsk(by, kind) ==
    \/ kind = "blocked_consumer" /\ task = "blocked" /\ by \in Worker /\ node[by].state = "blocked"
    \/ kind = "settled_verifier" /\ task = "needs_fix" /\ by = Verifier /\ node[by].state = "failed"
    \/ kind = "verifier" /\ task = "verifying" /\ by = Verifier /\ node[by].state = "running"

\* build_accepted_repair_bindings
Bindable(by, kind, owners) ==
    /\ MayAsk(by, kind)
    /\ owners # {} /\ by \notin owners /\ owners \subseteq InState("accepted")
    /\ kind = "blocked_consumer" => owners \subseteq Ancestors(by)
    /\ FrontierRepaired(owners)
    /\ \A o \in owners : node[o].worktree /\ node[o].bind = NoBind /\ LineageHolds(o, owners)

\* The owners are queued under their bindings, each with its instruction.  A verifier's own
\* feedback is for the owner from its next attempt on, not only for that one.  The workers
\* that run beside the repair are kept for the properties.
Authorize(by, kind, owners) ==
    LET s == Len(schedules) + 1
    IN  /\ Len(schedules) < MaxSchedules
        /\ schedules' = Append(schedules,
              [by |-> by, at |-> node[by].attempt, kind |-> kind,
               source |-> [o \in owners |-> node[o].attempt],
               beside |-> {w \in InState("running") \cap Worker : Ancestors(w) \cap owners # {}}])
        /\ notes' = notes \cup {[node |-> o, from |-> node[o].attempt + 1, only |-> kind # "verifier",
                                 of |-> s, traced |-> kind = "blocked_consumer"] : o \in owners}
        /\ node' = [n \in Node |->
              CASE n \in owners -> Requeued(node[n], [kind |-> "owner", of |-> s, source |-> node[n].attempt])
                [] n = by /\ kind # "blocked_consumer" -> Requeued(node[n], NoBind)
                [] OTHER -> node[n]]
        /\ task' = "queued"
        /\ UNCHANGED <<rolled, spent>>

ScheduleForConsumer(by, owners) ==
    /\ Bindable(by, "blocked_consumer", owners)
    /\ Authorize(by, "blocked_consumer", owners)

ScheduleForVerdict(owners) ==
    /\ Bindable(Verifier, "settled_verifier", owners) /\ node[Verifier].names = owners
    /\ Authorize(Verifier, "settled_verifier", owners)

\* settle_node for a verdict that names owners, while the budget of the verifier lasts.
Repairable(owners) == node[Verifier].attempt <= RetryLimit /\ Bindable(Verifier, "verifier", owners)

SettleRejected(owners) ==
    /\ node[Verifier].step = "assigned"
    /\ \/ Repairable(owners) /\ Authorize(Verifier, "verifier", owners)
       \/ /\ ~Repairable(owners)
          /\ node' = [node EXCEPT ![Verifier] = [Stopped(@, "failed", NoBind) EXCEPT !.names = owners]]
          /\ task' = IF Controlled THEN task ELSE "needs_fix"
          /\ UNCHANGED <<notes, schedules, rolled, spent>>

-----------------------------------------------------------------------------
(* The one that asked waits, and continues.                                 *)

Satisfied(s, o) ==
    /\ node[o].state = "accepted" /\ node[o].bind = NoBind
    /\ node[o].attempt >= schedules[s].source[o] + 1

\* blocked_owner_repair_wait: the last schedule of this attempt, 0 if it asked for none.
Asked(n) == {s \in DOMAIN schedules : schedules[s].by = n /\ schedules[s].kind = "blocked_consumer"}
Latest(S) == IF S = {} THEN 0 ELSE CHOOSE s \in S : \A r \in S : r <= s
WaitOf(n) == Latest({s \in Asked(n) : schedules[s].at = node[n].attempt})
Exhausted(n) ==
    LET s == WaitOf(n)
    IN  IF s = 0 THEN {}
        ELSE {o \in DOMAIN schedules[s].source :
                /\ ~Satisfied(s, o) /\ node[o].state \notin {"pending", "running"}
                /\ rolled[o].of = s /\ ~rolled[o].retried}

\* retry_blocked_node: a new attempt from the start, with no changes to keep.
RetryBlockedNode(n) ==
    /\ task = "blocked" /\ node[n].state = "blocked" /\ node[n].route
    /\ InState("running") \cup InState("indeterminate") = {}
    /\ node' = [node EXCEPT ![n].state = "pending", ![n].worktree = FALSE]
    /\ task' = "queued"
    /\ UNCHANGED <<notes, schedules, rolled, spent>>

\* _blocked_source_repair_authorization: the owners the node asked for last are done, and it
\* asked for them at this very attempt.
SourceRepairable(n) ==
    LET s == Latest(Asked(n))
    IN  /\ n \in Worker /\ task \in {"blocked", "queued"}
        /\ node[n].state = "blocked" /\ node[n].bind = NoBind /\ node[n].worktree
        /\ s # 0 => /\ schedules[s].at = node[n].attempt
                    /\ \A o \in DOMAIN schedules[s].source : Satisfied(s, o)
        /\ task = "queued" => Worker \ {n} \subseteq InState("accepted")

\* blocked_source_repair: the changes of the blocked attempt go on, on fresh ancestors if
\* owners were repaired.
RepairBlockedSource(n) ==
    /\ SourceRepairable(n)
    /\ InState("running") \cup InState("indeterminate") = {}
    /\ node' = [node EXCEPT ![n] =
          Requeued(@, [kind |-> "source", of |-> Latest(Asked(n)), source |-> node[n].attempt])]
    /\ notes' = notes \cup Traced(n)
    /\ task' = "queued"
    /\ UNCHANGED <<schedules, rolled, spent>>

\* exhausted_blocked_owner_repair_candidate
ExhaustedCandidate(n) == task = "blocked" /\ node[n].state = "blocked" /\ Exhausted(n) # {}

\* resume_exhausted_blocked_owner_repairs, on a deployed repair of the harness; for one
\* consumer each repair counts once.  What the plan was made from is compared, so the plan
\* and its execution are one step.
ResumeExhaustedOwners(n, repair) ==
    LET s == WaitOf(n) IN
    /\ ExhaustedCandidate(n) /\ <<n, repair>> \notin spent
    /\ \A o \in Exhausted(n) :
          /\ node[o].state = "blocked" /\ node[o].bind.kind = "owner"
          /\ LET given == schedules[node[o].bind.of]
             IN  given.kind = "blocked_consumer" /\ given.by = n /\ given.at = schedules[s].at
    /\ node' = [o \in Node |-> IF o \in Exhausted(n) THEN Requeued(node[o], node[o].bind) ELSE node[o]]
    /\ notes' = notes \cup UNION {Continued(o) : o \in Exhausted(n)}
    /\ spent' = spent \cup {<<n, repair>>}
    /\ task' = "queued"
    /\ UNCHANGED <<schedules, rolled>>

\* resume_exhausted_accepted_source_repair: by the operator, one owner at a time, and not one
\* whose last preparation a restart ended.
ResumeExhaustedPreparation(o) ==
    /\ task = "needs_fix" /\ node[o].state = "blocked" /\ ~node[o].worktree
    /\ node[o].bind.kind = "owner" /\ node[o].bind.source < node[o].attempt
    /\ rolled[o].stated
    /\ InState("running") \cup InState("indeterminate") = {}
    /\ node' = [node EXCEPT ![o] = Requeued(@, @.bind)]
    /\ notes' = notes \cup Continued(o)
    /\ task' = "queued"
    /\ UNCHANGED <<schedules, rolled, spent>>

-----------------------------------------------------------------------------
(* The operator.                                                            *)

Pause ==
    /\ task \in {"queued", "running", "verifying", "blocked"}
    /\ task' = "paused"
    /\ UNCHANGED <<node, notes, schedules, rolled, spent>>

\* Only out of needs_fix are failed nodes queued again.
QueueTask ==
    /\ task \in {"needs_fix", "paused"}
    /\ node' = IF task = "paused" THEN node
               ELSE [n \in Node |-> IF node[n].state = "failed"
                                    THEN [node[n] EXCEPT !.state = "pending"] ELSE node[n]]
    /\ task' = "queued"
    /\ UNCHANGED <<notes, schedules, rolled, spent>>

Next ==
    \/ \E n \in Node :
          \/ ClaimReadyNode(n) \/ PrepareRepair(n) \/ AssignRepair(n) \/ BeginAttempt(n)
          \/ PreparationFails(n) \/ AttemptNotReady(n)
          \/ SettleAccepted(n) \/ SettleBlocked(n) \/ ReconcileSettlementConflict(n)
          \/ RetryBlockedNode(n) \/ RepairBlockedSource(n) \/ ResumeExhaustedPreparation(n)
          \/ \E repair \in Repairs : ResumeExhaustedOwners(n, repair)
          \/ \E owners \in SUBSET Worker : ScheduleForConsumer(n, owners)
    \/ \E owners \in SUBSET Worker : SettleRejected(owners) \/ ScheduleForVerdict(owners)
    \/ SettleVerified \/ Restart \/ Pause \/ QueueTask

Spec == Init /\ [][Next]_vars

-----------------------------------------------------------------------------
(* Properties.                                                              *)

\* However often a repair is prepared, resumed or interrupted, the owner that is started
\* under it is given its instruction (claim_ready_node, _continue_attempt_steering).
OwnersAreTold ==
    \A n \in Worker : node[n].step = "built" =>
        \E g \in Guidance(n, node[n].attempt) : g.of = node[n].bind.of

\* A verdict named a worker and one of its ancestors: both run on the inputs of before.
Chained(s) ==
    /\ schedules[s].kind = "verifier"
    /\ \E o, a \in DOMAIN schedules[s].source : a \in Ancestors(o)
Owner(n) == \E s \in DOMAIN schedules : n \in DOMAIN schedules[s].source
Beside(n) == \E s \in DOMAIN schedules : n \in schedules[s].beside

\* What runs was given no accepted work built on an older attempt of an ancestor, unless a
\* repaired owner further down integrated the newer one (the rule on accepted descendants).
\* Two cases are left out, which the findings are about: chained owners of a verdict, and
\* a worker that was running when its ancestor was sent back.
ClosureCurrent ==
    \A n \in Node, x \in Worker :
        /\ node[n].step = "assigned" /\ x \in Ancestors(n)
        /\ node[x].state = "accepted" /\ ~Beside(x)
        /\ ~\E s \in DOMAIN schedules : Chained(s)
        => \A y \in Ancestors(x) :
              \/ node[x].input[y] = node[y].attempt
              \/ \E z \in Ancestors(n) \cup {n} :
                    Owner(z) /\ x \in Ancestors(z) /\ node[z].input[y] = node[y].attempt

\* Whoever queues an owner, for the first time or again, leaves the task with something to
\* do: owners are never queued behind a dependency nobody works on.  Left out is an owner
\* that, blocked itself, asked for repairs of its own (a finding).
OwnersMove ==
    /\ task' = "queued"
    /\ \E o \in Worker : /\ node'[o] # node[o] /\ Asked(o) = {}
                         /\ node'[o].state = "pending" /\ node'[o].bind.kind = "owner"
    => \E n \in Node : Claimable(n)' \/ node'[n].state = "running"

=============================================================================
