------------------------ MODULE SessionNotifications ------------------------
(***************************************************************************)
(* The outbox of session_notifications.py.  Events of tasks are projected  *)
(* in the order of the log into rows for the sessions a task is routed to; *)
(* an event nobody is routed to gets an unrouted row.  A route may be      *)
(* recorded long after the cursor has passed the events of its task, and a *)
(* turn attaches a bounded number of old rows only.                        *)
(***************************************************************************)
EXTENDS Naturals, Sequences, FiniteSets

CONSTANTS
    Session,
    Task,
    Unrouted,   \* a NULL source_thread_id
    Limit,      \* events projected, and rows attached, in one turn
    MaxEvents   \* bound: length of the log

OutboxAssumption ==
    Unrouted \notin Session /\ Limit \in Nat \ {0} /\ MaxEvents \in Nat

VARIABLES
    log,      \* the events: a notice of a task, or context.task_bound
    cursor,   \* session_notification_projection.event_cursor
    routes,   \* session_notification_routes
    outbox    \* session_notifications: [event, session, acknowledged]

vars == <<log, cursor, routes, outbox>>

Notice(t) == [type |-> "notice", task |-> t, session |-> Unrouted]
Bound(s, t) == [type |-> "bound", task |-> t, session |-> s]
Row(e, s) == [event |-> e, session |-> s, acknowledged |-> FALSE]

\* The log may be older than the outbox: its bindings have no routes yet.
Init ==
    /\ log \in {<<>>} \cup {<<Bound(s, t)>> : s \in Session, t \in Task}
    /\ cursor = 0
    /\ routes = {}
    /\ outbox = {}

TaskOf(row) == log[row.event].task
Told(rows, e, s) == \E row \in rows : row.event = e /\ row.session = s

\* The joined rows of _backfill_route_notifications: a route without a row for
\* an event, and a row of that event to make it from.
Missing(rows, to) ==
    {p \in to \X rows : p[1][2] = TaskOf(p[2]) /\ ~Told(rows, p[2].event, p[1][1])}

\* The oldest events first, at most n of the joined rows.
Batches(missing, n) ==
    {b \in SUBSET missing :
        /\ Cardinality(b) = IF Cardinality(missing) < n THEN Cardinality(missing) ELSE n
        /\ \A p \in b, q \in missing \ b : p[2].event <= q[2].event}

AttachMutant(rows, batch) ==
    {row \in rows : ~(row.session = Unrouted /\ \E p \in batch : p[2] = row)}
\* An unrouted row becomes the first session's; the others get copies.
Attach(rows, batch) ==
    {row \in rows : ~(row.session = Unrouted /\ \E p \in batch : p[2] = row)}
    \cup {Row(p[2].event, p[1][1]) : p \in batch}

\* register_task_session within bind_task_to_session: the route, old rows of
\* the task, and the event that later turns meet again.
BindTask(s, t) ==
    LET mine == {<<s, t>>} IN
    /\ Len(log) < MaxEvents
    /\ routes' = routes \cup mine
    /\ \E batch \in Batches(Missing(outbox, mine), Limit) : outbox' = Attach(outbox, batch)
    /\ log' = Append(log, Bound(s, t))
    /\ UNCHANGED cursor

\* Any transaction of the ledger that writes one of NOTIFICATION_EVENT_TYPES.
Emit(t) ==
    /\ Len(log) < MaxEvents
    /\ log' = Append(log, Notice(t))
    /\ UNCHANGED <<cursor, routes, outbox>>

Scanned == {e \in DOMAIN log : cursor < e /\ e <= cursor + Limit}

\* The routes an event is projected to: those recorded, and those of the
\* bindings scanned before it.
RoutesAt(e) ==
    routes \cup {<<log[b].session, log[b].task>> : b \in {f \in Scanned : f < e /\ log[f].type = "bound"}}

Addressees(e) ==
    LET to == {r[1] : r \in {q \in RoutesAt(e) : q[2] = log[e].task}}
    IN IF to = {} THEN {Unrouted} ELSE to

\* The turn ends with a backfill over all routes.
CatchUp(rows, to) == Batches(Missing(rows, to), Limit)

\* project_notifications: one transaction of a control turn.
Project ==
    LET to == RoutesAt(cursor + Limit + 1)
        new == UNION {{Row(e, s) : s \in Addressees(e)} : e \in {f \in Scanned : log[f].type = "notice"}}
    IN /\ \E batch \in CatchUp(outbox \cup new, to) : outbox' = Attach(outbox \cup new, batch)
       /\ cursor' = cursor + Cardinality(Scanned)
       /\ routes' = to
       /\ UNCHANGED log

\* ack_session_notification: by the session the row is routed to.
Acknowledge(row) ==
    /\ row \in outbox /\ <<row.session, TaskOf(row)>> \in routes
    /\ outbox' = (outbox \ {row}) \cup {[row EXCEPT !.acknowledged = TRUE]}
    /\ UNCHANGED <<log, cursor, routes>>

Next ==
    \/ \E s \in Session, t \in Task : BindTask(s, t)
    \/ \E t \in Task : Emit(t)
    \/ Project
    \/ \E row \in outbox : Acknowledge(row)

\* A control turn of the service projects again and again.
Fairness == WF_vars(Project)

Spec == Init /\ [][Next]_vars /\ Fairness

---------------------------------------------------------------------------
TypeOK ==
    /\ cursor \in 0 .. Len(log)
    /\ routes \subseteq Session \X Task
    /\ \A row \in outbox : row.event \in 1 .. cursor /\ row.session \in Session \cup {Unrouted}
    /\ \A row, other \in outbox :
          row.event = other.event /\ row.session = other.session => row = other

Owed ==
    {p \in (1 .. cursor) \X routes : log[p[1]] = Notice(p[2][2]) /\ ~Told(outbox, p[1], p[2][1])}

\* However late a route is recorded, the session is in the end told every event of
\* its task the cursor has passed, by rows made from those that are there, and what
\* a session acknowledged stays so.
NobodyUntold ==
    /\ Owed # {} ~> Owed = {}
    /\ [][\A row \in outbox : row.acknowledged => row \in outbox']_vars
=============================================================================
