--------------------------- MODULE PlanningLedger ---------------------------
(***************************************************************************)
(* The planning requests of the ledger (store.py, planning_requests): a     *)
(* natural-language request reserves a task identity, a thread of the       *)
(* coordinator asks a model for the task graph, and one transaction         *)
(* materialises the task, binds it to the session and settles the request.  *)
(*                                                                         *)
(* Between the claim and that transaction the model is called, for minutes. *)
(* Meanwhile the process may die, the session may import another context,   *)
(* a caller may submit a ready contract, and a rollout may close the gate.  *)
(***************************************************************************)
EXTENDS Integers, FiniteSets

CONSTANTS
    Command,       \* command identities
    Task,          \* task identities
    Context,       \* context bundles the source session may import
    None,          \* a NULL column
    RetryLimit,    \* retry_limit of the requests
    AttemptLimit,  \* attempt_limit of the delivery objective that retries
    MaxEpoch       \* bound: coordinator activations

ASSUME IdentityAssumption ==
    IsFiniteSet(Command) /\ None \notin Command \cup Task \cup Context

ASSUME LimitAssumption == RetryLimit \in Nat /\ AttemptLimit \in Nat /\ MaxEpoch \in Nat

VARIABLES
    phase,      \* what the coordinator process is doing
    epoch,      \* metadata.coordinator_epoch
    rollout,    \* whether a deployment keeps new work out (_deployment_admission_gate)
    requests,   \* the rows of planning_requests
    threads,    \* the planning attempts in the coordinator's pool
    tasks,      \* the task rows: the command and the context they come from
    receipts,   \* command_receipts: the task a command created
    imported,   \* the contexts with an import receipt
    session     \* the session binding: its context and its active task

process == <<phase, epoch, rollout>>
created == <<tasks, receipts>>
sessions == <<imported, session>>
vars == <<process, requests, threads, created, sessions>>

States == {"absent", "pending", "running", "succeeded", "failed", "indeterminate"}

\* A validation error starts with PlannerError: or ValueError:.
Errors == {"none", "validation", "other"}

Requests == [state : States, task : Task \cup {None}, context : Context \cup {None},
             attempt : Nat, epoch : Nat, error : Errors, arrival : Nat]

Threads == [command : Command, attempt : Nat, epoch : Nat]

NoRequest == [state |-> "absent", task |-> None, context |-> None,
              attempt |-> 0, epoch |-> 0, error |-> "none", arrival |-> 0]

NoTask == [by |-> None, context |-> None]

Init ==
    /\ phase = "down" /\ epoch = 0 /\ rollout = FALSE
    /\ requests = [c \in Command |-> NoRequest]
    /\ threads = {}
    /\ tasks = [t \in Task |-> NoTask]
    /\ receipts = [c \in Command |-> None]
    /\ imported = {}
    /\ session = [context |-> None, active |-> None]

Reserved == {c \in Command : requests[c].state # "absent"}

\* A new task row with its command receipt.
Insert(c, t, x) ==
    /\ tasks' = [tasks EXCEPT ![t] = [by |-> c, context |-> x]]
    /\ receipts' = [receipts EXCEPT ![c] = t]

-----------------------------------------------------------------------------
(* The callers: they reserve a task, submit one, or import a context.       *)

\* created_at counts whole seconds: a request may arrive in the second of the one
\* before, and then either may be the older one.
EnqueuePlanningRequest(c, t, x) ==
    /\ c \notin Reserved
    /\ tasks[t] = NoTask
    /\ receipts[c] = None
    /\ \A d \in Reserved : requests[d].task # t
    /\ x \in imported \cup {None}
    /\ \E second \in {Cardinality(Reserved), Cardinality(Reserved) + 1} :
          requests' = [requests EXCEPT ![c] =
                         [NoRequest EXCEPT !.state = "pending", !.task = t, !.context = x,
                                           !.arrival = second]]
    /\ UNCHANGED <<process, threads, created, sessions>>

ReservesMutant(d) == requests[d].state \in {"pending", "running", "succeeded"}

\* A reservation holds in every state of its request.
Reserves(d) == requests[d].state # "absent"

\* create_task: a contract that needs no planning.
CreateTask(c, t) ==
    /\ \A d \in Command : Reserves(d) => d # c /\ requests[d].task # t
    /\ receipts[c] = None
    /\ tasks[t] = NoTask
    /\ Insert(c, t, None)
    /\ UNCHANGED <<process, requests, threads, sessions>>

\* Another context takes the session's task away from it.
StillActive(x) == IF session.context = x THEN session.active ELSE None

RecordSessionContext(x) ==
    /\ imported' = imported \cup {x}
    /\ session' = [context |-> x, active |-> StillActive(x)]
    /\ UNCHANGED <<process, requests, threads, created>>

-----------------------------------------------------------------------------
(* The coordinator.                                                         *)

\* The process drains its pool and stops, or dies with its threads.
Stop ==
    /\ phase # "down"
    /\ epoch < MaxEpoch
    /\ phase' = "down"
    /\ UNCHANGED <<epoch, rollout, requests, threads, created, sessions>>

ActivateCoordinator ==
    /\ phase = "down"
    /\ epoch < MaxEpoch
    /\ phase' = "activated"
    /\ epoch' = epoch + 1
    /\ threads' = {}
    /\ UNCHANGED <<rollout, requests, created, sessions>>

InterruptedUnknown(row) == [row EXCEPT !.state = "interrupted", !.error = "other"]

InterruptedMutant(row) == [row EXCEPT !.state = "pending"]

Interrupted(row) == [row EXCEPT !.state = "indeterminate", !.error = "other"]

\* Nobody knows whether the model was reached: no attempt is repeated.
RecoverInterruptedPlanningRequests ==
    /\ phase = "activated"
    /\ requests' = [c \in Command |->
                      IF requests[c].state = "running" THEN Interrupted(requests[c])
                                                       ELSE requests[c]]
    /\ phase' = "serving"
    /\ UNCHANGED <<epoch, rollout, threads, created, sessions>>

\* A deployment waits at its safe point until every running attempt has drained.
BeginRollout ==
    /\ phase = "serving" /\ ~rollout
    /\ rollout' = TRUE
    /\ UNCHANGED <<phase, epoch, requests, threads, created, sessions>>

EndRollout ==
    /\ phase = "serving" /\ rollout
    /\ \A c \in Command : requests[c].state # "running"
    /\ rollout' = FALSE
    /\ UNCHANGED <<phase, epoch, requests, threads, created, sessions>>

InFlightMutant == \E c \in Command : requests[c].state = "running"

\* _planning_in_flight looks at the pool, not at the rows.
InFlight == threads # {}

ClaimPlanningRequest(c) ==
    LET row == requests[c]
    IN  /\ phase = "serving" /\ ~InFlight /\ ~rollout
        /\ row.state = "pending"
        /\ \A d \in Command : requests[d].state = "pending" => row.arrival <= requests[d].arrival
        /\ requests' = [requests EXCEPT ![c] =
                          [row EXCEPT !.state = "running", !.attempt = row.attempt + 1,
                                      !.epoch = epoch, !.error = "none"]]
        /\ threads' = threads \cup {[command |-> c, attempt |-> row.attempt + 1, epoch |-> epoch]}
        /\ UNCHANGED <<process, created, sessions>>

\* What settlement and materialisation re-check inside their transaction.
Fence(h) ==
    /\ h.epoch = epoch
    /\ requests[h.command].state = "running"
    /\ requests[h.command].attempt = h.attempt
    /\ requests[h.command].epoch = h.epoch

\* The planner, the plan's validation or the materialisation raised.
FailPlanningRequest(h, e) ==
    /\ Fence(h)
    /\ requests' = [requests EXCEPT ![h.command] = [@ EXCEPT !.state = "failed", !.error = e]]
    /\ threads' = threads \ {h}
    /\ UNCHANGED <<process, created, sessions>>

SessionFitsMutant(x) == x = None \/ x \in imported

\* The session must still be bound to the context the plan was made from.
SessionFits(x) == x = None \/ session.context = x

Materializable(h) ==
    LET row == requests[h.command]
    IN  /\ Fence(h)
        /\ tasks[row.task] = NoTask
        /\ receipts[h.command] = None
        /\ SessionFits(row.context)

\* Task, receipt, session binding and settlement commit together.
MaterializePlanningRequest(h) ==
    LET row == requests[h.command]
    IN  /\ Materializable(h)
        /\ Insert(h.command, row.task, row.context)
        /\ session' = IF row.context = None THEN session
                                            ELSE [session EXCEPT !.active = row.task]
        /\ requests' = [requests EXCEPT ![h.command] =
                          [row EXCEPT !.state = "succeeded", !.error = "none"]]
        /\ threads' = threads \ {h}
        /\ UNCHANGED <<process, imported>>

\* A StateConflictError ends the thread and nothing else: the row stays running.
IgnoreCompletion(h) ==
    /\ ~Materializable(h)
    /\ threads' = threads \ {h}
    /\ UNCHANGED <<process, requests, created, sessions>>

RetryBudgetMutant(c) == requests[c].attempt <= RetryLimit

\* Both the request's limit and the objective's bound the attempts.
RetryBudget(c) == requests[c].attempt < RetryLimit /\ requests[c].attempt < AttemptLimit

\* A delivery objective in its plan stage queues a reservation again.
RetryPlanningRequest(c) ==
    /\ phase = "serving"
    /\ requests[c].state = "failed"
    /\ requests[c].error = "validation"
    /\ RetryBudget(c)
    /\ tasks[requests[c].task] = NoTask
    /\ requests' = [requests EXCEPT ![c] = [@ EXCEPT !.state = "pending", !.epoch = 0]]
    /\ UNCHANGED <<process, threads, created, sessions>>

-----------------------------------------------------------------------------
Callers ==
    \/ \E c \in Command, t \in Task, x \in Context \cup {None} : EnqueuePlanningRequest(c, t, x)
    \/ \E c \in Command, t \in Task : CreateTask(c, t)
    \/ \E x \in Context : RecordSessionContext(x)

Planning(h) ==
    \/ \E e \in {"validation", "other"} : FailPlanningRequest(h, e)
    \/ MaterializePlanningRequest(h)
    \/ IgnoreCompletion(h)

Coordinator ==
    \/ Stop \/ ActivateCoordinator \/ RecoverInterruptedPlanningRequests
    \/ BeginRollout \/ EndRollout
    \/ \E c \in Command : ClaimPlanningRequest(c)
    \/ \E c \in Command : RetryPlanningRequest(c)

Next == Callers \/ Coordinator \/ \E h \in threads : Planning(h)

Spec == Init /\ [][Next]_vars

\* serve restarts until it serves, its loop claims on every turn, and a planning
\* thread ends: the planner has a timeout and every exception is caught.
FairSpec ==
    /\ Spec
    /\ WF_vars(ActivateCoordinator \/ RecoverInterruptedPlanningRequests)
    /\ WF_vars(\E c \in Command : ClaimPlanningRequest(c))
    /\ WF_vars(phase # "down" /\ \E h \in threads : Planning(h))

-----------------------------------------------------------------------------
\* Every variable keeps its type.
TypeOK ==
    /\ phase \in {"down", "activated", "serving"}
    /\ epoch \in Nat /\ rollout \in BOOLEAN
    /\ requests \in [Command -> Requests]
    /\ threads \subseteq Threads
    /\ tasks \in [Task -> [by : Command \cup {None}, context : Context \cup {None}]]
    /\ receipts \in [Command -> Task \cup {None}]
    /\ imported \subseteq Context
    /\ session \in [context : Context \cup {None}, active : Task \cup {None}]

\* A reserved task exists exactly when its own request succeeded, whatever contracts
\* are submitted meanwhile and however often the planning is retried (create_task,
\* enqueue_planning_request and materialize_planning_request against each other).
ReservationHolds ==
    \A c \in Reserved :
        /\ requests[c].state = "succeeded" <=> tasks[requests[c].task].by = c
        /\ requests[c].state # "succeeded" => tasks[requests[c].task] = NoTask /\ receipts[c] = None
        /\ \A d \in Reserved : requests[d].task = requests[c].task => d = c

\* The session's active task was planned from the very context the session is bound
\* to, so that a message to the session never steers a task of an older context
\* (record_session_context against materialize_planning_request).
SessionTaskCurrent ==
    session.active # None => tasks[session.active].context = session.context

\* The model is asked again about a request only after it is known that the last
\* attempt ended in a plan that failed validation (README, planning: an interrupted
\* request never repeats the model call).
ReplanAfterValidationOnly ==
    [][\A c \in Command :
          requests'[c].attempt > requests[c].attempt /\ requests[c].attempt > 0
              => requests[c].error = "validation"]_vars

\* No sequence of retries outspends the smaller of the two budgets: the first
\* attempt is free, each further one is within both (retry_planning_request).
AttemptsWithinBudget ==
    \A c \in Command : requests[c].attempt > 1 =>
        requests[c].attempt <= RetryLimit /\ requests[c].attempt <= AttemptLimit

\* Every request is tried unless a rollout keeps the gate shut: neither a stranded
\* attempt nor an elder that is retried holds up the queue (service.py,
\* _dispatch_one_planning_request).
EveryRequestTried ==
    <>[]~rollout => \A c \in Command : requests[c].state = "pending" ~> requests[c].state # "pending"

-----------------------------------------------------------------------------
=============================================================================
