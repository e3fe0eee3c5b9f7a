------------------------ MODULE PlanningLedgerProofs ------------------------
(* The safety properties of PlanningLedger, for every set of commands,      *)
(* tasks and contexts and every budget.                                     *)
EXTENDS PlanningLedger, FiniteSetTheorems, TLAPS

-----------------------------------------------------------------------------
(* Types.                                                                   *)

LEMMA RowType ==
    ASSUME TypeOK, NEW c \in Command
    PROVE  /\ requests[c].state \in States
           /\ requests[c].task \in Task \cup {None}
           /\ requests[c].context \in Context \cup {None}
           /\ requests[c].attempt \in Nat
           /\ requests[c].epoch \in Nat
           /\ requests[c].error \in Errors
           /\ requests[c].arrival \in Nat
           /\ requests[c] \in Requests
  BY DEF TypeOK, Requests

LEMMA ThreadType ==
    ASSUME TypeOK, NEW h \in threads
    PROVE  h.command \in Command /\ h.attempt \in Nat /\ h.epoch \in Nat
  BY DEF TypeOK, Threads

LEMMA ArrivalType == {Cardinality(Reserved), Cardinality(Reserved) + 1} \subseteq Nat
<1>1. Reserved \subseteq Command
  BY DEF Reserved
<1>2. IsFiniteSet(Reserved)
  BY <1>1, FS_Subset, IdentityAssumption
<1>3. Cardinality(Reserved) \in Nat
  BY <1>2, FS_CardinalityType
<1>4. QED
  BY <1>3

LEMMA InitType == Init => TypeOK
<1>1. NoRequest \in Requests
  BY DEF NoRequest, Requests, States, Errors
<1>2. NoTask \in [by : Command \cup {None}, context : Context \cup {None}]
  BY DEF NoTask
<1>3. Init => /\ requests \in [Command -> Requests]
              /\ tasks \in [Task -> [by : Command \cup {None}, context : Context \cup {None}]]
              /\ receipts \in [Command -> Task \cup {None}]
  BY <1>1, <1>2 DEF Init
<1>4. Init => session \in [context : Context \cup {None}, active : Task \cup {None}]
  BY DEF Init
<1>5. Init => /\ phase \in {"down", "activated", "serving"} /\ epoch \in Nat
              /\ threads \subseteq Threads /\ imported \subseteq Context
  BY DEF Init
<1>6. Init => rollout \in BOOLEAN
  BY Zenon DEF Init
<1>7. QED
  BY <1>3, <1>4, <1>5, <1>6 DEF TypeOK

LEMMA CallersType ==
    ASSUME TypeOK, Callers
    PROVE  TypeOK'
<1> USE DEF process, created, sessions
<1>1. ASSUME NEW c \in Command, NEW t \in Task, NEW x \in Context \cup {None},
             EnqueuePlanningRequest(c, t, x)
      PROVE  TypeOK'
  <2>1. ASSUME NEW second \in Nat
        PROVE  [NoRequest EXCEPT !.state = "pending", !.task = t, !.context = x,
                                 !.arrival = second] \in Requests
    BY DEF NoRequest, Requests, States, Errors
  <2>2. ASSUME NEW second \in {Cardinality(Reserved), Cardinality(Reserved) + 1},
               requests' = [requests EXCEPT ![c] =
                              [NoRequest EXCEPT !.state = "pending", !.task = t, !.context = x,
                                                !.arrival = second]]
        PROVE  requests' \in [Command -> Requests]
    <3>1. [NoRequest EXCEPT !.state = "pending", !.task = t, !.context = x,
                            !.arrival = second] \in Requests
      BY <2>1, ArrivalType
    <3>2. QED
      BY <2>2, <3>1 DEF TypeOK
  <2>3. requests' \in [Command -> Requests]
    BY <1>1, <2>2 DEF EnqueuePlanningRequest
  <2>4. QED
    BY <1>1, <2>3 DEF EnqueuePlanningRequest, TypeOK
<1>2. ASSUME NEW c \in Command, NEW t \in Task, CreateTask(c, t)
      PROVE  TypeOK'
  BY <1>2 DEF CreateTask, Insert, TypeOK
<1>3. ASSUME NEW x \in Context, RecordSessionContext(x)
      PROVE  TypeOK'
  BY <1>3 DEF RecordSessionContext, StillActive, TypeOK
<1>4. QED
  BY <1>1, <1>2, <1>3 DEF Callers

LEMMA CoordinatorType ==
    ASSUME TypeOK, Coordinator
    PROVE  TypeOK'
<1> USE DEF process, created, sessions
<1>1. CASE Stop
  BY <1>1 DEF Stop, TypeOK
<1>2. CASE ActivateCoordinator
  BY <1>2 DEF ActivateCoordinator, TypeOK
<1>3. CASE RecoverInterruptedPlanningRequests
  <2>1. ASSUME NEW c \in Command
        PROVE  Interrupted(requests[c]) \in Requests
    BY RowType DEF Interrupted, Requests, States, Errors
  <2>2. QED
    BY <1>3, <2>1, RowType DEF RecoverInterruptedPlanningRequests, TypeOK
<1>4. CASE BeginRollout \/ EndRollout
  BY <1>4 DEF BeginRollout, EndRollout, TypeOK
<1>5. ASSUME NEW c \in Command, ClaimPlanningRequest(c)
      PROVE  TypeOK'
  <2>1. requests[c].attempt + 1 \in Nat /\ epoch \in Nat
    BY RowType DEF TypeOK
  <2>2. [requests[c] EXCEPT !.state = "running", !.attempt = requests[c].attempt + 1,
                            !.epoch = epoch, !.error = "none"] \in Requests
    BY <2>1, RowType DEF Requests, States, Errors
  <2>3. [command |-> c, attempt |-> requests[c].attempt + 1, epoch |-> epoch] \in Threads
    BY <2>1 DEF Threads
  <2>4. QED
    BY <1>5, <2>2, <2>3 DEF ClaimPlanningRequest, TypeOK
<1>6. ASSUME NEW c \in Command, RetryPlanningRequest(c)
      PROVE  TypeOK'
  <2>1. [requests[c] EXCEPT !.state = "pending", !.epoch = 0] \in Requests
    BY RowType DEF Requests, States
  <2>2. QED
    BY <1>6, <2>1 DEF RetryPlanningRequest, TypeOK
<1>7. QED
  BY <1>1, <1>2, <1>3, <1>4, <1>5, <1>6 DEF Coordinator

LEMMA PlanningType ==
    ASSUME TypeOK, NEW h \in threads, Planning(h)
    PROVE  TypeOK'
<1> USE DEF process, created, sessions
<1>0. h.command \in Command
  BY ThreadType
<1>1. ASSUME NEW e \in {"validation", "other"}, FailPlanningRequest(h, e)
      PROVE  TypeOK'
  <2>1. [requests[h.command] EXCEPT !.state = "failed", !.error = e] \in Requests
    BY <1>0, <1>1, RowType DEF Requests, States, Errors
  <2>2. QED
    BY <1>1, <2>1 DEF FailPlanningRequest, TypeOK
<1>2. CASE MaterializePlanningRequest(h)
  <2>1. [requests[h.command] EXCEPT !.state = "succeeded", !.error = "none"] \in Requests
    BY <1>0, RowType DEF Requests, States, Errors
  <2>2. requests' \in [Command -> Requests]
    BY <1>2, <2>1 DEF MaterializePlanningRequest, TypeOK
  <2>3. requests[h.command].task \in Task \cup {None} /\ requests[h.command].context \in Context \cup {None}
    BY RowType, ThreadType
  <2>4. /\ tasks' \in [Task -> [by : Command \cup {None}, context : Context \cup {None}]]
        /\ receipts' \in [Command -> Task \cup {None}]
    BY <1>2, <2>3, ThreadType DEF MaterializePlanningRequest, Insert, TypeOK
  <2>5. session' \in [context : Context \cup {None}, active : Task \cup {None}]
    BY <1>2, <2>3 DEF MaterializePlanningRequest, TypeOK
  <2>6. QED
    BY <1>2, <2>2, <2>4, <2>5 DEF MaterializePlanningRequest, TypeOK
<1>3. CASE IgnoreCompletion(h)
  BY <1>3 DEF IgnoreCompletion, TypeOK
<1>4. QED
  BY <1>1, <1>2, <1>3 DEF Planning

LEMMA StepType == TypeOK /\ [Next]_vars => TypeOK'
<1> SUFFICES ASSUME TypeOK, [Next]_vars
             PROVE  TypeOK'
  OBVIOUS
<1>1. CASE UNCHANGED vars
  BY <1>1 DEF vars, process, created, sessions, TypeOK
<1>2. QED
  BY <1>1, CallersType, CoordinatorType, PlanningType DEF Next

\* The planning rows, threads, task rows and the session binding are well typed.
THEOREM PlanningTypeCorrect == Spec => []TypeOK
<1>1. QED
  BY InitType, StepType, PTL DEF Spec

-----------------------------------------------------------------------------
(* Reservations.                                                            *)

\* A reservation names a task.
ReservationInv ==
    /\ ReservationHolds
    /\ \A c \in Reserved : requests[c].task \in Task

\* A step that creates no task and neither opens a reservation nor settles one as a
\* success, nor takes a success back.
KeepsReservations ==
    /\ UNCHANGED <<tasks, receipts>>
    /\ \A c \in Command :
          /\ requests'[c].task = requests[c].task
          /\ requests'[c].state = "absent" <=> requests[c].state = "absent"
          /\ requests'[c].state = "succeeded" <=> requests[c].state = "succeeded"

LEMMA KeepsReservationInv == ReservationInv /\ KeepsReservations => ReservationInv'
  BY DEF ReservationInv, ReservationHolds, Reserved, KeepsReservations

LEMMA ReservationStep ==
    ASSUME TypeOK, ReservationInv, [Next]_vars
    PROVE  ReservationInv'
<1> USE DEF process, created, sessions
<1>1. ASSUME NEW c \in Command, NEW t \in Task, NEW x \in Context \cup {None},
             EnqueuePlanningRequest(c, t, x)
      PROVE  ReservationInv'
  <2>1. /\ requests'[c].state = "pending" /\ requests'[c].task = t
        /\ \A d \in Command \ {c} : requests'[d] = requests[d]
    BY <1>1 DEF EnqueuePlanningRequest, TypeOK, NoRequest
  <2>2. tasks[t].by # c /\ receipts[c] = None /\ UNCHANGED <<tasks, receipts>>
    BY <1>1, IdentityAssumption DEF EnqueuePlanningRequest, NoTask
  <2>3. tasks[t] = NoTask /\ \A d \in Reserved : requests[d].task # t
    BY <1>1 DEF EnqueuePlanningRequest
  <2>4. QED
    BY <2>1, <2>2, <2>3 DEF ReservationInv, ReservationHolds, Reserved
<1>2. ASSUME NEW c \in Command, NEW t \in Task, CreateTask(c, t)
      PROVE  ReservationInv'
  <2>1. \A d \in Reserved : d # c /\ requests[d].task # t
    BY <1>2 DEF CreateTask, Reserves, Reserved
  <2>2. \A d \in Reserved : tasks'[requests[d].task] = tasks[requests[d].task] /\ receipts'[d] = receipts[d]
    BY <1>2, <2>1 DEF CreateTask, Insert, TypeOK, ReservationInv, Reserved
  <2>3. UNCHANGED requests
    BY <1>2 DEF CreateTask
  <2>4. QED
    BY <2>2, <2>3 DEF ReservationInv, ReservationHolds, Reserved
<1>3. ASSUME NEW x \in Context, RecordSessionContext(x)
      PROVE  ReservationInv'
  BY <1>3, KeepsReservationInv DEF RecordSessionContext, KeepsReservations
<1>4. CASE Stop \/ ActivateCoordinator \/ BeginRollout \/ EndRollout
  BY <1>4, KeepsReservationInv
  DEF Stop, ActivateCoordinator, BeginRollout, EndRollout, KeepsReservations
<1>5. CASE RecoverInterruptedPlanningRequests
  BY <1>5, KeepsReservationInv DEF RecoverInterruptedPlanningRequests, Interrupted, KeepsReservations, TypeOK, Requests
<1>6. ASSUME NEW c \in Command, ClaimPlanningRequest(c)
      PROVE  ReservationInv'
  BY <1>6, KeepsReservationInv DEF ClaimPlanningRequest, KeepsReservations, TypeOK, Requests
<1>7. ASSUME NEW c \in Command, RetryPlanningRequest(c)
      PROVE  ReservationInv'
  BY <1>7, KeepsReservationInv DEF RetryPlanningRequest, KeepsReservations, TypeOK, Requests
<1>8. ASSUME NEW h \in threads, NEW e \in {"validation", "other"}, FailPlanningRequest(h, e)
      PROVE  ReservationInv'
  BY <1>8, ThreadType, KeepsReservationInv
  DEF FailPlanningRequest, Fence, KeepsReservations, TypeOK, Requests
<1>9. ASSUME NEW h \in threads, IgnoreCompletion(h)
      PROVE  ReservationInv'
  BY <1>9, KeepsReservationInv DEF IgnoreCompletion, KeepsReservations
<1>10. ASSUME NEW h \in threads, MaterializePlanningRequest(h)
       PROVE  ReservationInv'
  <2> DEFINE c == h.command
             t == requests[c].task
  <2>1. c \in Command /\ c \in Reserved
    BY <1>10, ThreadType DEF MaterializePlanningRequest, Materializable, Fence, Reserved
  <2>2. t \in Task /\ \A d \in Reserved \ {c} : requests[d].task # t
    BY <2>1 DEF ReservationInv, ReservationHolds
  <2>3. /\ requests'[c].state = "succeeded" /\ requests'[c].task = t
        /\ \A d \in Command \ {c} : requests'[d] = requests[d]
    BY <1>10, <2>1 DEF MaterializePlanningRequest, TypeOK, Requests
  <2>4. /\ tasks'[t].by = c
        /\ \A u \in Task \ {t} : tasks'[u] = tasks[u]
        /\ \A d \in Command \ {c} : receipts'[d] = receipts[d]
    BY <1>10, <2>1, <2>2 DEF MaterializePlanningRequest, Insert, TypeOK
  <2>5. Reserved' = Reserved
    BY <2>1, <2>3 DEF Reserved
  <2>6. QED
    BY <2>1, <2>2, <2>3, <2>4, <2>5 DEF ReservationInv, ReservationHolds, Reserved
<1>11. CASE UNCHANGED vars
  BY <1>11, KeepsReservationInv DEF vars, KeepsReservations
<1>12. QED
  BY <1>1, <1>2, <1>3, <1>4, <1>5, <1>6, <1>7, <1>8, <1>9, <1>10, <1>11
  DEF Next, Callers, Coordinator, Planning

LEMMA ReservationInit == Init => ReservationInv
  BY DEF Init, ReservationInv, ReservationHolds, Reserved, NoRequest

\* The identity a request reserved is never used by another request or by a contract
\* submitted beside it, and its task exists exactly when the request succeeded.
THEOREM ReservationsHold == Spec => []ReservationHolds
<1>1. ReservationInv => ReservationHolds
  BY DEF ReservationInv
<1>2. QED
  BY <1>1, InitType, StepType, ReservationInit, ReservationStep, PTL DEF Spec

-----------------------------------------------------------------------------
(* The session's task.                                                      *)

\* A session with an active task is bound to a context.
SessionInv == session.active # None => /\ session.context # None
                                       /\ tasks[session.active].context = session.context

LEMMA SessionStep ==
    ASSUME TypeOK, SessionInv, [Next]_vars
    PROVE  SessionInv'
<1> USE DEF process, created, sessions
<1>1. ASSUME NEW c \in Command, NEW t \in Task, CreateTask(c, t)
      PROVE  SessionInv'
  <2>1. session.active # None => session.active # t
    BY <1>1 DEF CreateTask, SessionInv, NoTask
  <2>2. session.active # None => tasks'[session.active] = tasks[session.active]
    BY <1>1, <2>1 DEF CreateTask, Insert, TypeOK
  <2>3. QED
    BY <1>1, <2>2 DEF CreateTask, SessionInv
<1>2. ASSUME NEW x \in Context, RecordSessionContext(x)
      PROVE  SessionInv'
  BY <1>2, IdentityAssumption DEF RecordSessionContext, StillActive, SessionInv
<1>3. ASSUME NEW h \in threads, MaterializePlanningRequest(h)
      PROVE  SessionInv'
  <2> DEFINE row == requests[h.command]
  <2>1. h.command \in Command /\ row.task \in Task \cup {None}
    BY ThreadType, RowType
  <2>2. tasks[row.task] = NoTask /\ SessionFits(row.context)
    BY <1>3 DEF MaterializePlanningRequest, Materializable
  <2>3. CASE row.context = None
    <3>1. session.active # None => session.active # row.task
      BY <2>2 DEF SessionInv, NoTask
    <3>2. session' = session /\ (session.active # None => tasks'[session.active] = tasks[session.active])
      BY <1>3, <2>1, <2>3, <3>1 DEF MaterializePlanningRequest, Insert, TypeOK
    <3>3. QED
      BY <3>2 DEF SessionInv
  <2>4. CASE row.context # None
    <3>1. session' = [session EXCEPT !.active = row.task] /\ session.context = row.context
      BY <1>3, <2>2, <2>4 DEF MaterializePlanningRequest, SessionFits
    <3>2. session'.active = row.task /\ session'.context = row.context
      BY <3>1 DEF TypeOK
    <3>3. row.task # None => tasks'[row.task].context = row.context
      BY <1>3, <2>1 DEF MaterializePlanningRequest, Insert, TypeOK
    <3>4. QED
      BY <2>4, <3>2, <3>3 DEF SessionInv
  <2>5. QED
    BY <2>3, <2>4
<1>4. CASE UNCHANGED <<tasks, session>>
  BY <1>4 DEF SessionInv
<1>5. CASE Callers
  BY <1>1, <1>2, <1>4, <1>5 DEF Callers, EnqueuePlanningRequest
<1>6. CASE Coordinator
  BY <1>4, <1>6
  DEF Coordinator, Stop, ActivateCoordinator, RecoverInterruptedPlanningRequests, BeginRollout,
      EndRollout, ClaimPlanningRequest, RetryPlanningRequest
<1>7. ASSUME NEW h \in threads, Planning(h)
      PROVE  SessionInv'
  BY <1>3, <1>4, <1>7 DEF Planning, FailPlanningRequest, IgnoreCompletion
<1>8. QED
  BY <1>4, <1>5, <1>6, <1>7 DEF Next, vars

\* A message to the session can only reach a task that was planned from the context
\* the session is bound to now.
THEOREM SessionTasksAreCurrent == Spec => []SessionTaskCurrent
<1>1. Init => SessionInv
  BY DEF Init, SessionInv
<1>2. SessionInv => SessionTaskCurrent
  BY DEF SessionInv, SessionTaskCurrent
<1>3. QED
  BY <1>1, <1>2, InitType, StepType, SessionStep, PTL DEF Spec

-----------------------------------------------------------------------------
(* Retries.                                                                 *)

\* A request that waits for another attempt failed validation and is in budget.
RetryInv ==
    \A c \in Command :
        /\ requests[c].state = "absent" => requests[c].attempt = 0
        /\ requests[c].state = "pending" /\ requests[c].attempt > 0
              => requests[c].error = "validation" /\ RetryBudget(c)
        /\ requests[c].attempt > 1
              => requests[c].attempt <= RetryLimit /\ requests[c].attempt <= AttemptLimit

\* A step that queues nothing again and counts no attempt.
KeepsAttempts ==
    \A c \in Command :
        /\ requests'[c].attempt = requests[c].attempt
        /\ requests'[c].state = "absent" => requests[c].state = "absent"
        /\ requests'[c].state = "pending" /\ requests[c].attempt > 0
              => requests[c].state = "pending" /\ requests'[c].error = requests[c].error

LEMMA KeepsRetryInv == RetryInv /\ KeepsAttempts => RetryInv'
  BY DEF RetryInv, RetryBudget, KeepsAttempts

\* Every step but a claim keeps the attempts, or starts from none, and every step but
\* a retry queues nothing again.
LEMMA RetryStep ==
    ASSUME TypeOK, RetryInv, [Next]_vars
    PROVE  RetryInv'
<1> USE DEF process, created, sessions
<1>1. CASE UNCHANGED requests
  BY <1>1, KeepsRetryInv DEF KeepsAttempts
<1>2. ASSUME NEW c \in Command, NEW t \in Task, NEW x \in Context \cup {None},
             EnqueuePlanningRequest(c, t, x)
      PROVE  RetryInv'
  <2>1. /\ requests'[c].state = "pending" /\ requests'[c].attempt = 0
        /\ \A d \in Command \ {c} : requests'[d] = requests[d]
    BY <1>2 DEF EnqueuePlanningRequest, NoRequest, TypeOK
  <2>2. QED
    BY <2>1 DEF RetryInv, RetryBudget
<1>3. CASE RecoverInterruptedPlanningRequests
  BY <1>3, KeepsRetryInv
  DEF RecoverInterruptedPlanningRequests, Interrupted, KeepsAttempts, TypeOK, Requests
<1>4. ASSUME NEW c \in Command, ClaimPlanningRequest(c)
      PROVE  RetryInv'
  <2>1. /\ requests[c].state = "pending"
        /\ requests'[c].state = "running" /\ requests'[c].attempt = requests[c].attempt + 1
        /\ \A d \in Command \ {c} : requests'[d] = requests[d]
    BY <1>4 DEF ClaimPlanningRequest, TypeOK, Requests
  <2>2. requests[c].attempt \in Nat
    BY RowType
  <2>3. requests[c].attempt > 0 => requests[c].attempt < RetryLimit /\ requests[c].attempt < AttemptLimit
    BY <2>1 DEF RetryInv, RetryBudget
  <2>4. QED
    BY <2>1, <2>2, <2>3, LimitAssumption DEF RetryInv, RetryBudget
<1>5. ASSUME NEW c \in Command, RetryPlanningRequest(c)
      PROVE  RetryInv'
  <2>1. /\ requests[c].error = "validation" /\ RetryBudget(c)
        /\ requests'[c].state = "pending" /\ requests'[c].attempt = requests[c].attempt
        /\ requests'[c].error = requests[c].error
        /\ \A d \in Command \ {c} : requests'[d] = requests[d]
    BY <1>5 DEF RetryPlanningRequest, TypeOK, Requests
  <2>2. QED
    BY <2>1 DEF RetryInv, RetryBudget
<1>6. ASSUME NEW h \in threads, NEW e \in {"validation", "other"}, FailPlanningRequest(h, e)
      PROVE  RetryInv'
  BY <1>6, ThreadType, KeepsRetryInv DEF FailPlanningRequest, KeepsAttempts, TypeOK, Requests
<1>7. ASSUME NEW h \in threads, MaterializePlanningRequest(h)
      PROVE  RetryInv'
  BY <1>7, ThreadType, KeepsRetryInv DEF MaterializePlanningRequest, KeepsAttempts, TypeOK, Requests
<1>8. QED
  BY <1>1, <1>2, <1>3, <1>4, <1>5, <1>6, <1>7
  DEF Next, Callers, Coordinator, Planning, CreateTask, RecordSessionContext, Stop,
      ActivateCoordinator, BeginRollout, EndRollout, IgnoreCompletion, vars

LEMMA RetryInit == Init => RetryInv
  BY DEF Init, RetryInv, NoRequest

\* No interleaving of retries, restarts and failures spends more attempts than both
\* budgets allow.
THEOREM AttemptsAreBounded == Spec => []AttemptsWithinBudget
<1>1. RetryInv => AttemptsWithinBudget
  BY DEF RetryInv, AttemptsWithinBudget
<1>2. QED
  BY <1>1, InitType, StepType, RetryInit, RetryStep, PTL DEF Spec

\* The only step that counts an attempt is a claim.
LEMMA OnlyClaimsCount ==
    ASSUME TypeOK, RetryInv, [Next]_vars, NEW c \in Command,
           requests'[c].attempt > requests[c].attempt
    PROVE  ClaimPlanningRequest(c)
<1> USE DEF process, created, sessions
<1>1. requests[c].attempt \in Nat /\ ~(requests'[c].attempt = requests[c].attempt)
  BY RowType
<1>2. ~UNCHANGED requests
  BY <1>1
<1>3. ASSUME NEW d \in Command, NEW t \in Task, NEW x \in Context \cup {None},
             EnqueuePlanningRequest(d, t, x)
      PROVE  FALSE
  <2>1. d # c => requests'[c] = requests[c]
    BY <1>3 DEF EnqueuePlanningRequest, TypeOK
  <2>2. requests[d].attempt = 0 /\ requests'[d].attempt = 0
    BY <1>3 DEF EnqueuePlanningRequest, NoRequest, TypeOK, RetryInv, Reserved
  <2>3. QED
    BY <1>1, <2>1, <2>2
<1>4. CASE RecoverInterruptedPlanningRequests
  <2>1. requests'[c] \in {requests[c], Interrupted(requests[c])}
    BY <1>4 DEF RecoverInterruptedPlanningRequests
  <2>2. Interrupted(requests[c]).attempt = requests[c].attempt
    BY RowType DEF Interrupted, Requests
  <2>3. QED
    BY <1>1, <2>1, <2>2
<1>5. ASSUME NEW d \in Command, ClaimPlanningRequest(d)
      PROVE  ClaimPlanningRequest(c)
  <2>1. d # c => requests'[c] = requests[c]
    BY <1>5 DEF ClaimPlanningRequest, TypeOK
  <2>2. QED
    BY <1>1, <1>5, <2>1
<1>6. ASSUME NEW d \in Command, RetryPlanningRequest(d)
      PROVE  FALSE
  BY <1>1, <1>6 DEF RetryPlanningRequest, TypeOK, Requests
<1>7. ASSUME NEW h \in threads, NEW e \in {"validation", "other"}, FailPlanningRequest(h, e)
      PROVE  FALSE
  BY <1>1, <1>7, ThreadType DEF FailPlanningRequest, TypeOK, Requests
<1>8. ASSUME NEW h \in threads, MaterializePlanningRequest(h)
      PROVE  FALSE
  BY <1>1, <1>8, ThreadType DEF MaterializePlanningRequest, TypeOK, Requests
<1>9. QED
  BY <1>2, <1>3, <1>4, <1>5, <1>6, <1>7, <1>8
  DEF Next, Callers, Coordinator, Planning, CreateTask, RecordSessionContext, Stop,
      ActivateCoordinator, BeginRollout, EndRollout, IgnoreCompletion, vars

\* The model is asked again about a request only when its last plan failed validation.
THEOREM ReplansFollowValidation == Spec => ReplanAfterValidationOnly
<1>1. TypeOK /\ RetryInv /\ [Next]_vars =>
        [\A c \in Command :
            requests'[c].attempt > requests[c].attempt /\ requests[c].attempt > 0
                => requests[c].error = "validation"]_vars
  <2> SUFFICES ASSUME TypeOK, RetryInv, [Next]_vars, NEW c \in Command,
                      requests'[c].attempt > requests[c].attempt, requests[c].attempt > 0
               PROVE  requests[c].error = "validation"
    OBVIOUS
  <2>1. ClaimPlanningRequest(c)
    BY OnlyClaimsCount
  <2>2. QED
    BY <2>1 DEF ClaimPlanningRequest, RetryInv
<1>2. QED
  BY <1>1, InitType, StepType, RetryInit, RetryStep, PTL DEF Spec, ReplanAfterValidationOnly
=============================================================================
