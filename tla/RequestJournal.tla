-------------------------- MODULE RequestJournal --------------------------
(***************************************************************************)
(* The journal of mutations between the hosts and the authority            *)
(* (authority_requests).  A host talks to a bridge, which remembers on its *)
(* own disk which request identities it ever sent; the bridge's child      *)
(* posts a mutation once; a thread of the authority reserves the identity, *)
(* runs the tool and settles the row.  Messages and replies may be lost,   *)
(* a bridge and the authority may die at any point, and two hosts may send *)
(* the same request.                                                       *)
(***************************************************************************)
EXTENDS Naturals, FiniteSets

CONSTANTS
    Client,       \* bridges, each with a private state file
    Request,      \* request identities
    Call,         \* which host asks for what: pairs of a client and a request
    Task,
    Kind,         \* the tool of a request: a mutation, a validation, a continuation
    TaskOf,       \* the task its arguments name
    MaxInstance   \* bound: authority processes

\* What the theorems about every journal assume; Protocols assumes it of its own.
RequestAssumption ==
    /\ Task # {} /\ Call \subseteq Client \X Request
    /\ Kind \in [Request -> {"mutation", "validation", "continue"}]
    /\ TaskOf \in [Request -> Task]
    /\ MaxInstance \in Nat \ {0}

VARIABLES
    row,      \* authority_requests
    effects,  \* how often the tool of a request changed the ledger
    active,   \* the active task of the session that continuations are bound to
    service,  \* the authority process: [state, instance]
    thread,   \* its dispatch of a client's request
    client,   \* the call a bridge is handling or handled last, and what it told its host
    sent      \* the identities a bridge has recorded as sent (mark_write_sent)

ledger == <<row, effects, active>>
hosts == <<client, sent>>
vars == <<row, effects, active, service, thread, client, sent>>

NoRow == [state |-> "none", task |-> "none", instance |-> 0, ok |-> FALSE]
NoThread == [pc |-> "none", task |-> "none", out |-> "none"]
Ended(t) == [t EXCEPT !.pc = "done"]
Idle == [pc |-> "idle", request |-> "none", told |-> "none"]

Init ==
    /\ row = [r \in Request |-> NoRow]
    /\ effects = [r \in Request |-> 0]
    /\ active = CHOOSE t \in Task : TRUE
    /\ service = [state |-> "serving", instance |-> 1]
    /\ thread = [x \in Call |-> NoThread]
    /\ client = [c \in Client |-> Idle]
    /\ sent = [c \in Client |-> {}]

---------------------------------------------------------------------------
(* The bridge: one call at a time. *)

ResendsMutant(c, r) == {}
\* has_write: an identity that was ever sent is only asked about.
Resends(c, r) == sent[c] \cap {r}

\* _handle_tool_call: the identity is on disk before the first byte is sent,
\* and the message arrives or is lost.
SendWrite(c, r) ==
    /\ client[c].pc = "idle"
    /\ IF Resends(c, r) # {}
       THEN /\ client' = [client EXCEPT ![c] = [pc |-> "uncertain", request |-> r, told |-> "none"]]
            /\ UNCHANGED <<thread, sent>>
       ELSE /\ client' = [client EXCEPT ![c] = [pc |-> "posted", request |-> r, told |-> "none"]]
            /\ sent' = [sent EXCEPT ![c] = @ \cup {r}]
            /\ \/ service.state # "down" /\ thread' = [thread EXCEPT ![<<c, r>>] = [NoThread EXCEPT !.pc = "arrived"]]
               \/ UNCHANGED thread
    /\ UNCHANGED <<ledger, service>>

Answer(c, what) == client' = [client EXCEPT ![c].pc = "idle", ![c].told = what]

\* What a receipt says of a request: "executing" and "unknown" say nothing.
Told(receipt) ==
    CASE receipt.state = "completed" -> IF receipt.ok THEN "completed" ELSE "failed"
      [] receipt.state = "rejected" -> "rejected"
      [] OTHER -> "indeterminate"

\* The thread ends; its reply reaches the waiting client, or is lost with the
\* connection.  A receipt that says nothing is asked about again.
Reply(c, r, what) ==
    /\ thread' = [thread EXCEPT ![<<c, r>>] = Ended(@)]
    /\ \/ client[c].pc = "posted" /\ client[c].request = r /\ what # "indeterminate" /\ Answer(c, what)
       \/ UNCHANGED client
    /\ UNCHANGED sent

\* The post times out, its connection breaks or it answers with 5xx.
PostUncertain(c) ==
    /\ client[c].pc = "posted"
    /\ client' = [client EXCEPT ![c].pc = "uncertain"]
    /\ UNCHANGED <<ledger, service, thread, sent>>

\* _resolve_write and _resolve_uncertain_write: the row is asked for a bounded
\* number of times; only a settled receipt of this identity is an answer.  A bridge that
\* its host closes, or that dies, gives none either; its state file stays.
ResolveWrite(c) ==
    /\ client[c].pc = "uncertain"
    /\ \/ service.state # "down" /\ Answer(c, Told(row[client[c].request]))
       \/ Answer(c, "indeterminate")
    /\ UNCHANGED <<ledger, service, thread, sent>>

---------------------------------------------------------------------------
(* The authority: one thread per request (dispatch). *)

Alive(x, pc) == service.state # "down" /\ thread[x].pc = pc
InFlight(x) == thread[x].pc \in {"admitted", "reserved", "checked", "acted"}

\* _freeze_session_task_binding: a continuation is bound to the task that is
\* active when it arrives.
BoundTask(r) == IF Kind[r] = "continue" THEN active ELSE TaskOf[r]

AdmitsMutant == TRUE
\* _begin_mutation, under the drain condition.
Admits == service.state = "serving"

Admit(c, r) ==
    /\ Alive(<<c, r>>, "arrived")
    /\ \/ /\ Admits
          /\ thread' = [thread EXCEPT ![<<c, r>>].pc = "admitted", ![<<c, r>>].task = BoundTask(r)]
          /\ UNCHANGED hosts
       \/ ~Admits /\ Reply(c, r, "error")
    /\ UNCHANGED <<ledger, service>>

Executing(t) == {r \in Request : row[r].state = "executing" /\ row[r].task = t}

ValidationExcludesMutant(r, t) == Kind[r] = "validation" /\ Executing(t) # {}
\* A validation runs alone on its task: nothing may start beside it
\* (assert_no_active_validation), and it starts beside nothing.
ValidationExcludes(r, t) ==
    \/ \E s \in Executing(t) : Kind[s] = "validation"
    \/ Kind[r] = "validation" /\ Executing(t) # {}

FreshMutant(r) == row[r].state # "executing"
Fresh(r) == row[r].state = "none"

\* _reserve: one immediate transaction.
Reserve(c, r) ==
    LET t == thread[<<c, r>>].task IN
    /\ Alive(<<c, r>>, "admitted")
    /\ \/ /\ Fresh(r) /\ ~ValidationExcludes(r, t)
          /\ row' = [row EXCEPT ![r] = [state |-> "executing", task |-> t,
                                        instance |-> service.instance, ok |-> FALSE]]
          /\ thread' = [thread EXCEPT ![<<c, r>>].pc = "reserved"]
          /\ UNCHANGED hosts
       \/ ~Fresh(r) /\ row[r].task # t /\ Reply(c, r, "error") /\ UNCHANGED row
       \/ ~Fresh(r) /\ row[r].task = t /\ Reply(c, r, Told(row[r])) /\ UNCHANGED row
       \/ Fresh(r) /\ ValidationExcludes(r, t) /\ Reply(c, r, "error") /\ UNCHANGED row
    /\ UNCHANGED <<effects, active, service>>

SettleableMutant(r) == TRUE
\* ... WHERE state = 'executing' AND instance_id = ?
Settleable(r) == row[r].state = "executing" /\ row[r].instance = service.instance

Settled(r, state, ok) ==
    IF Settleable(r) THEN [row EXCEPT ![r].state = state, ![r].ok = ok] ELSE row

\* The receipt is written and returned, or the write fails: the thread ends
\* with an error and the row stays as it is until the next start.
Settle(c, r, state, ok) ==
    \/ row' = Settled(r, state, ok) /\ Reply(c, r, Told(row'[r]))
    \/ UNCHANGED <<row, hosts>> /\ thread' = [thread EXCEPT ![<<c, r>>] = Ended(@)]

\* preflight_mutation: a classified rejection proves that nothing started.
Preflight(c, r) ==
    /\ Alive(<<c, r>>, "reserved")
    /\ \/ thread' = [thread EXCEPT ![<<c, r>>].pc = "checked"] /\ UNCHANGED <<row, hosts>>
       \/ Settle(c, r, "rejected", FALSE)
       \/ Settle(c, r, "unknown", FALSE)
    /\ UNCHANGED <<effects, active, service>>

\* The tool: its transaction commits, or it is refused, or it raises before or after it
\* committed.  The MCP server that runs it makes a result of most exceptions, the late ones
\* included ("late"); a few only reach the journal ("raised").  A continuation commits only
\* against the task it was bound to.
Invoke(c, r) ==
    LET commits == Kind[r] # "continue" \/ active = thread[<<c, r>>].task IN
    /\ Alive(<<c, r>>, "checked")
    /\ \/ \E out \in {"ok", "late", "raised"} :
             /\ commits
             /\ effects' = [effects EXCEPT ![r] = @ + 1]
             /\ thread' = [thread EXCEPT ![<<c, r>>].pc = "acted", ![<<c, r>>].out = out]
       \/ \E out \in {"refused", "raised"} :
             /\ thread' = [thread EXCEPT ![<<c, r>>].pc = "acted", ![<<c, r>>].out = out]
             /\ UNCHANGED effects
    /\ UNCHANGED <<row, active, service, hosts>>

OutcomeMutant(out) == IF out = "ok" THEN "completed" ELSE "rejected"
\* Only what raised is unknown: an error result counts as a result.
OutcomeOf(out) == IF out = "raised" THEN "unknown" ELSE "completed"

\* An error result that hides an effect.
Late(r) == \E x \in DOMAIN thread : x[2] = r /\ thread[x].out = "late"

Record(c, r) ==
    /\ Alive(<<c, r>>, "acted")
    /\ Settle(c, r, OutcomeOf(thread[<<c, r>>].out), thread[<<c, r>>].out = "ok")
    /\ UNCHANGED <<effects, active, service>>

\* A plan that materialises makes another task the session's active one.
SessionMoves ==
    /\ active' \in Task \ {active}
    /\ UNCHANGED <<row, effects, service, thread, hosts>>

---------------------------------------------------------------------------
(* The life of the authority process (command_serve). *)

BeginDrain ==
    /\ service.state = "serving"
    /\ service' = [service EXCEPT !.state = "draining"]
    /\ UNCHANGED <<ledger, thread, hosts>>

\* wait_for_idle: every admitted mutation has ended.  Threads that were not
\* admitted may still run until the process exits.
Stop ==
    /\ service.state = "draining"
    /\ \A x \in Call : ~InFlight(x)
    /\ service' = [service EXCEPT !.state = "stopped"]
    /\ UNCHANGED <<ledger, thread, hosts>>

\* The process ends: at its end, or at any point by a crash.
Exit ==
    /\ service.state # "down"
    /\ service' = [service EXCEPT !.state = "down"]
    /\ thread' = [x \in Call |-> IF thread[x].pc = "none" THEN NoThread ELSE Ended(thread[x])]
    /\ UNCHANGED <<ledger, hosts>>

InterruptedMutant == [r \in Request |-> IF row[r].state = "executing" THEN NoRow ELSE row[r]]
\* recover_interrupted, under the coordinator's lease, before requests arrive.
Interrupted ==
    [r \in Request |-> IF row[r].state = "executing" THEN [row[r] EXCEPT !.state = "unknown"] ELSE row[r]]

Start ==
    /\ service.state = "down" /\ service.instance < MaxInstance
    /\ service' = [state |-> "serving", instance |-> service.instance + 1]
    /\ row' = Interrupted
    /\ UNCHANGED <<effects, active, thread, hosts>>

Next ==
    \/ \E c \in Client, r \in Request :
          /\ <<c, r>> \in Call
          /\ SendWrite(c, r) \/ Admit(c, r) \/ Reserve(c, r) \/ Preflight(c, r) \/ Invoke(c, r) \/ Record(c, r)
    \/ \E c \in Client : PostUncertain(c) \/ ResolveWrite(c)
    \/ SessionMoves \/ BeginDrain \/ Stop \/ Exit \/ Start

Spec == Init /\ [][Next]_vars

---------------------------------------------------------------------------
(* Properties. *)

TypeOK ==
    /\ row \in [Request -> [state : {"none", "executing", "completed", "rejected", "unknown"},
                            task : Task \cup {"none"}, instance : 0 .. MaxInstance, ok : BOOLEAN]]
    /\ effects \in [Request -> 0 .. 1]
    /\ active \in Task
    /\ service \in [state : {"serving", "draining", "stopped", "down"}, instance : 1 .. MaxInstance]
    /\ thread \in [Call -> [pc : {"none", "arrived", "admitted", "reserved", "checked", "acted", "done"},
                            task : Task \cup {"none"}, out : {"none", "ok", "late", "refused", "raised"}]]
    /\ client \in [Client -> [pc : {"idle", "posted", "uncertain"}, request : Request \cup {"none"},
                            told : {"none", "completed", "failed", "rejected", "error", "indeterminate"}]]
    /\ sent \in [Client -> SUBSET Request]

\* Whatever is resent, lost or restarted, a mutation happens at most once, its
\* receipt never changes once settled, and the receipt says what happened, but for an error
\* that came after the effect.
Journal == INSTANCE AtMostOnce WITH
    Id <- Request,
    status <- [r \in Request |->
        CASE row[r].state = "none" -> "new"
          [] row[r].state = "executing" -> "pending"
          [] row[r].state = "unknown" -> "unknown"
          [] OTHER -> IF row[r].ok \/ Late(r) THEN "done" ELSE "failed"],
    count <- effects
JournalAtMostOnce == Journal!Spec

\* A host that was told an outcome was told the truth, for good: success only
\* of what happened, failure only of what never will, or failed after it happened.
AnswersTrue ==
    \A c \in Client : LET r == client[c].request IN
        /\ client[c].told = "completed" => effects[r] = 1
        /\ client[c].told \in {"failed", "rejected"} /\ ~Late(r) =>
              /\ effects[r] = 0
              /\ \A x \in Call : x[2] = r => thread[x].pc \notin {"reserved", "checked", "acted"}

\* While a validation observes a task no other mutation of the task is between
\* its reservation and its receipt.
ValidationAlone ==
    \A x, y \in Call : (/\ x[2] # y[2] /\ Kind[x[2]] = "validation" /\ thread[x].task = thread[y].task
                        /\ thread[x].pc \in {"reserved", "checked", "acted"})
        => thread[y].pc \notin {"reserved", "checked", "acted"}

\* When the stop of the authority is recorded the ledger is at rest.
QuietAfterDrain == service.state \in {"stopped", "down"} => effects' = effects
StoppedIsQuiet == [][QuietAfterDrain]_effects
=============================================================================
