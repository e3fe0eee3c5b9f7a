------------------------ MODULE RequestJournalProofs ------------------------
(* The journal of RequestJournal, for any number of bridges, requests and   *)
(* restarts: under one identity a mutation happens at most once, what a     *)
(* host is told is so, and nothing changes the ledger once the stop of the  *)
(* authority is recorded.                                                   *)
EXTENDS RequestJournal, TLAPS

-----------------------------------------------------------------------------
(* Threads.                                                                 *)

Working == {"reserved", "checked", "acted"}

Rows == [state : {"none", "executing", "completed", "rejected", "unknown"},
         task : Task \cup {"none"}, instance : 0 .. MaxInstance, ok : BOOLEAN]
Services == [state : {"serving", "draining", "stopped", "down"}, instance : 1 .. MaxInstance]
Threads == [pc : {"none", "arrived", "admitted", "reserved", "checked", "acted", "done"},
            task : Task \cup {"none"}, out : {"none", "ok", "late", "refused", "raised"}]
Clients == [pc : {"idle", "posted", "uncertain"}, request : Request \cup {"none"},
            told : {"none", "completed", "failed", "rejected", "error", "indeterminate"}]

\* TypeOK without the bound on the effects, which rests on the invariants below.
Typed ==
    /\ RequestAssumption
    /\ row \in [Request -> Rows]
    /\ effects \in [Request -> Nat]
    /\ active \in Task
    /\ service \in Services
    /\ thread \in [Call -> Threads]
    /\ client \in [Client -> Clients]
    /\ sent \in [Client -> SUBSET Request]

\* A thread at work belongs to the process that serves, and its row is executing under
\* that process; the work of a request is done by one thread.
OneWorker ==
    /\ \A x \in Call : thread[x].pc \in Working =>
          /\ service.state \in {"serving", "draining"}
          /\ row[x[2]].state = "executing" /\ row[x[2]].instance = service.instance
    /\ \A x, y \in Call :
          x[2] = y[2] /\ thread[x].pc \in Working /\ thread[y].pc \in Working => x = y
    /\ service.state \in {"stopped", "down"} => \A x \in Call : thread[x].pc # "admitted"

\* A bridge that has a thread, or had one, has recorded the identity as sent.
OnceSent ==
    \A x \in Call : thread[x].pc # "none" => x[2] \in sent[x[1]]

\* What a thread knows of its effect is so.
Accounted ==
    /\ \A r \in Request : effects[r] \in {0, 1}
    /\ \A r \in Request : row[r].state = "none" => effects[r] = 0
    /\ \A x \in Call : thread[x].pc \notin {"acted", "done"} => thread[x].out = "none"
    /\ \A x \in Call : thread[x].pc \in {"reserved", "checked"} => effects[x[2]] = 0
    /\ \A x \in Call : thread[x].out \in {"ok", "late"} => effects[x[2]] = 1
    /\ \A x \in Call : thread[x].pc = "acted" =>
          thread[x].out # "none" /\ (thread[x].out = "refused" => effects[x[2]] = 0)

\* What a settled row says is so, and what a host was told stands in its row.
Recorded ==
    /\ \A r \in Request : row[r].state = "completed" /\ row[r].ok => effects[r] = 1
    /\ \A r \in Request : row[r].state \in {"completed", "rejected"} /\ ~row[r].ok /\ ~Late(r)
                             => effects[r] = 0
    /\ \A r \in Request : row[r].state = "rejected" => ~row[r].ok
    /\ \A c \in Client : client[c].told = "completed" =>
          client[c].request \in Request /\ Told(row[client[c].request]) = "completed"
    /\ \A c \in Client : client[c].told \in {"failed", "rejected"} =>
          client[c].request \in Request /\ Told(row[client[c].request]) \in {"failed", "rejected"}

\* A bridge that handles a call handles one of its requests.
Asking == \A c \in Client : client[c].pc # "idle" => client[c].request \in Request

JournalInv == Typed /\ Asking /\ OneWorker /\ OnceSent /\ Accounted /\ Recorded

-----------------------------------------------------------------------------
(* Types.                                                                   *)

LEMMA CallFields ==
    ASSUME RequestAssumption, NEW x \in Call
    PROVE  x = <<x[1], x[2]>> /\ x[1] \in Client /\ x[2] \in Request
  BY DEF RequestAssumption

LEMMA ThreadFields ==
    ASSUME Typed, NEW x \in Call
    PROVE  /\ thread[x] \in Threads /\ thread[x].task \in Task \cup {"none"}
           /\ x[1] \in Client /\ x[2] \in Request
  BY CallFields DEF Typed, Threads

\* The part of a reply that clients and threads see.
LEMMA ReplyTyped ==
    ASSUME Typed, NEW c \in Client, NEW r \in Request, <<c, r>> \in Call,
           NEW what \in {"completed", "failed", "rejected", "error", "indeterminate"},
           Reply(c, r, what)
    PROVE  /\ thread' \in [Call -> Threads]
           /\ client' \in [Client -> Clients]
           /\ sent' = sent
<1>1. thread' \in [Call -> Threads]
  BY ThreadFields DEF Reply, Ended, Typed, Threads
<1>2. client' \in [Client -> Clients]
  BY DEF Reply, Answer, Typed, Clients
<1>3. QED
  BY <1>1, <1>2 DEF Reply

LEMMA ToldType ==
    ASSUME NEW receipt
    PROVE  Told(receipt) \in {"completed", "failed", "rejected", "indeterminate"}
  BY DEF Told

LEMMA SettledType ==
    ASSUME Typed, NEW r \in Request, NEW s \in {"completed", "rejected", "unknown"},
           NEW ok \in BOOLEAN
    PROVE  Settled(r, s, ok) \in [Request -> Rows]
  BY DEF Typed, Settled, Rows

LEMMA SettleTyped ==
    ASSUME Typed, NEW c \in Client, NEW r \in Request, <<c, r>> \in Call,
           NEW s \in {"completed", "rejected", "unknown"}, NEW ok \in BOOLEAN,
           Settle(c, r, s, ok)
    PROVE  /\ row' \in [Request -> Rows]
           /\ thread' \in [Call -> Threads]
           /\ client' \in [Client -> Clients]
           /\ sent' = sent
<1>1. CASE row' = Settled(r, s, ok) /\ Reply(c, r, Told(row'[r]))
  BY <1>1, SettledType, ReplyTyped, ToldType
<1>2. CASE UNCHANGED <<row, hosts>> /\ thread' = [thread EXCEPT ![<<c, r>>] = Ended(@)]
  BY <1>2, ThreadFields DEF hosts, Ended, Typed, Threads
<1>3. QED
  BY <1>1, <1>2 DEF Settle

LEMMA CallTyped ==
    ASSUME Typed, NEW c \in Client, NEW r \in Request, <<c, r>> \in Call,
           \/ SendWrite(c, r) \/ Admit(c, r) \/ Reserve(c, r)
           \/ Preflight(c, r) \/ Invoke(c, r) \/ Record(c, r)
    PROVE  Typed'
<1> USE DEF ledger, hosts
<1>1. CASE SendWrite(c, r)
  <2>1. thread' \in [Call -> Threads]
    <3>1. [NoThread EXCEPT !.pc = "arrived"] \in Threads
      BY DEF NoThread, Threads
    <3>2. QED
      BY <1>1, <3>1 DEF SendWrite, Typed
  <2>2. client' \in [Client -> Clients]
    BY <1>1 DEF SendWrite, Typed, Clients
  <2>3. QED
    BY <1>1, <2>1, <2>2 DEF SendWrite, Typed, RequestAssumption
<1>2. CASE Admit(c, r)
  <2>1. BoundTask(r) \in Task
    BY DEF BoundTask, Typed, RequestAssumption
  <2>2. CASE thread' = [thread EXCEPT ![<<c, r>>].pc = "admitted", ![<<c, r>>].task = BoundTask(r)]
             /\ UNCHANGED hosts
    BY <1>2, <2>1, <2>2, ThreadFields DEF Admit, Typed, RequestAssumption, Threads
  <2>3. CASE Reply(c, r, "error")
    BY <1>2, <2>3, ReplyTyped DEF Admit, Typed, RequestAssumption
  <2>4. QED
    BY <1>2, <2>2, <2>3 DEF Admit
<1>3. CASE Reserve(c, r)
  <2> DEFINE new == [state |-> "executing", task |-> thread[<<c, r>>].task,
                     instance |-> service.instance, ok |-> FALSE]
  <2>1. new \in Rows
    BY ThreadFields DEF Typed, Rows, Services, RequestAssumption
  <2>2. CASE /\ row' = [row EXCEPT ![r] = new]
             /\ thread' = [thread EXCEPT ![<<c, r>>].pc = "reserved"]
             /\ UNCHANGED hosts
    <3> HIDE DEF new
    <3>1. QED
      BY <1>3, <2>1, <2>2, ThreadFields DEF Reserve, Typed, RequestAssumption, Threads
  <2>3. CASE (Reply(c, r, "error") \/ Reply(c, r, Told(row[r]))) /\ UNCHANGED row
    BY <1>3, <2>3, ReplyTyped, ToldType DEF Reserve, Typed, RequestAssumption
  <2>4. QED
    BY <1>3, <2>2, <2>3 DEF Reserve
<1>4. CASE Preflight(c, r)
  <2>1. CASE thread' = [thread EXCEPT ![<<c, r>>].pc = "checked"] /\ UNCHANGED <<row, hosts>>
    BY <1>4, <2>1, ThreadFields DEF Preflight, Typed, RequestAssumption, Threads
  <2>2. CASE Settle(c, r, "rejected", FALSE) \/ Settle(c, r, "unknown", FALSE)
    BY <1>4, <2>2, SettleTyped DEF Preflight, Typed, RequestAssumption
  <2>3. QED
    BY <1>4, <2>1, <2>2 DEF Preflight
<1>5. CASE Invoke(c, r)
  <2>1. effects' \in [Request -> Nat]
    BY <1>5 DEF Invoke, Typed
  <2>2. PICK out \in {"ok", "late", "refused", "raised"} :
            thread' = [thread EXCEPT ![<<c, r>>].pc = "acted", ![<<c, r>>].out = out]
    BY <1>5 DEF Invoke
  <2>3. thread' \in [Call -> Threads]
    BY <2>2, ThreadFields DEF Typed, Threads
  <2>4. QED
    BY <1>5, <2>1, <2>3 DEF Invoke, Typed, RequestAssumption
<1>6. CASE Record(c, r)
  <2>1. OutcomeOf(thread[<<c, r>>].out) \in {"completed", "rejected", "unknown"}
    BY DEF OutcomeOf
  <2>2. PICK ok \in BOOLEAN : Settle(c, r, OutcomeOf(thread[<<c, r>>].out), ok)
    BY <1>6 DEF Record
  <2>3. QED
    BY <1>6, <2>1, <2>2, SettleTyped DEF Record, Typed, RequestAssumption
<1>7. QED
  BY <1>1, <1>2, <1>3, <1>4, <1>5, <1>6

LEMMA OtherTyped ==
    ASSUME Typed,
           \/ \E c \in Client : PostUncertain(c) \/ ResolveWrite(c)
           \/ SessionMoves \/ BeginDrain \/ Stop \/ Exit \/ Start
    PROVE  Typed'
<1> USE DEF ledger, hosts
<1>1. ASSUME NEW c \in Client, PostUncertain(c) \/ ResolveWrite(c)
      PROVE  Typed'
  <2>1. client' \in [Client -> Clients]
    BY <1>1, ToldType DEF PostUncertain, ResolveWrite, Answer, Typed, Clients
  <2>2. QED
    BY <1>1, <2>1 DEF PostUncertain, ResolveWrite, Typed, RequestAssumption
<1>2. CASE SessionMoves
  BY <1>2 DEF SessionMoves, Typed, RequestAssumption
<1>3. CASE BeginDrain \/ Stop
  BY <1>3 DEF BeginDrain, Stop, Typed, RequestAssumption, Services
<1>4. CASE Exit
  <2>1. thread' \in [Call -> Threads]
    BY <1>4, ThreadFields DEF Exit, NoThread, Ended, Threads
  <2>2. QED
    BY <1>4, <2>1 DEF Exit, Typed, RequestAssumption, Services
<1>5. CASE Start
  <2>1. row' \in [Request -> Rows]
    BY <1>5 DEF Start, Interrupted, Typed, Rows
  <2>2. service' \in Services
    BY <1>5 DEF Start, Typed, Services, RequestAssumption
  <2>3. QED
    BY <1>5, <2>1, <2>2 DEF Start, Typed, RequestAssumption
<1>6. QED
  BY <1>1, <1>2, <1>3, <1>4, <1>5

-----------------------------------------------------------------------------
(* The invariant, step by step.                                             *)

LEMMA LateKept ==
    ASSUME Typed, Typed', \A x \in Call : thread'[x].out = thread[x].out
    PROVE  \A r : Late(r)' <=> Late(r)
<1>1. DOMAIN thread = Call /\ DOMAIN thread' = Call
  BY DEF Typed
<1>2. QED
  BY <1>1 DEF Late

\* A thread that moves without touching the ledger: it arrives, is admitted, has
\* checked its request, or ends.
Advances(x) ==
    /\ thread'[x].out = thread[x].out
    /\ \/ thread'[x].pc = thread[x].pc
       \/ thread[x].pc = "none" /\ thread'[x].pc = "arrived" /\ x[2] \in sent'[x[1]]
       \/ thread[x].pc = "arrived" /\ thread'[x].pc = "admitted" /\ service.state = "serving"
       \/ thread[x].pc = "reserved" /\ thread'[x].pc = "checked"
       \/ thread[x].pc # "none" /\ thread'[x].pc = "done"

\* A bridge says nothing new, or what its request's row says.
Repeats(c) ==
    \/ client'[c].told \notin {"completed", "failed", "rejected"}
    \/ client'[c].told = client[c].told /\ client'[c].request = client[c].request
    \/ client'[c].request \in Request /\ client'[c].told = Told(row'[client'[c].request])

\* A step that leaves the ledger and the service alone.
LEMMA QuietStep ==
    ASSUME JournalInv, Typed', Asking', UNCHANGED <<row, effects, service>>,
           \A x \in Call : Advances(x),
           \A c \in Client : sent[c] \subseteq sent'[c] /\ Repeats(c)
    PROVE  JournalInv'
<1>1. Typed
  BY DEF JournalInv
<1>2. OneWorker'
  BY DEF JournalInv, OneWorker, Advances, Working
<1>3. OnceSent'
  BY <1>1, CallFields DEF JournalInv, Typed, OnceSent, Advances
<1>4. Accounted'
  BY DEF JournalInv, Accounted, Advances
<1>5. \A r : Late(r)' <=> Late(r)
  BY <1>1, LateKept DEF Advances
<1>6. Recorded'
  BY <1>5 DEF JournalInv, Recorded, Repeats
<1>7. QED
  BY <1>2, <1>3, <1>4, <1>6 DEF JournalInv

\* A thread ends, and its client may hear an answer that is its row's.
LEMMA ReplyAdvances ==
    ASSUME Typed, NEW c \in Client, NEW r \in Request, <<c, r>> \in Call,
           thread[<<c, r>>].pc # "none", NEW what,
           what = "error" \/ what = Told(row'[r]), Reply(c, r, what)
    PROVE  /\ \A x \in Call : Advances(x)
           /\ \A d \in Client : sent[d] \subseteq sent'[d] /\ Repeats(d)
<1>1. \A x \in Call : Advances(x)
  BY DEF Reply, Ended, Advances, Typed, Threads
<1>2. \A d \in Client : Repeats(d)
  BY DEF Reply, Answer, Repeats, Typed, Clients
<1>3. QED
  BY <1>1, <1>2 DEF Reply

LEMMA EndedAdvances ==
    ASSUME Typed, NEW c \in Client, NEW r \in Request, <<c, r>> \in Call,
           thread[<<c, r>>].pc # "none", UNCHANGED hosts,
           thread' = [thread EXCEPT ![<<c, r>>] = Ended(@)]
    PROVE  /\ \A x \in Call : Advances(x)
           /\ \A d \in Client : sent[d] \subseteq sent'[d] /\ Repeats(d)
  BY DEF hosts, Ended, Advances, Repeats, Typed, Threads

\* The receipt of a thread at work is written, whatever it says it is true.
LEMMA SettleStep ==
    ASSUME JournalInv, Typed', Asking', UNCHANGED <<effects, service>>,
           NEW c \in Client, NEW r \in Request, <<c, r>> \in Call,
           thread[<<c, r>>].pc \in Working,
           NEW s \in {"completed", "rejected", "unknown"}, NEW ok \in BOOLEAN,
           ok => s = "completed" /\ effects[r] = 1,
           ~ok /\ s \in {"completed", "rejected"} => effects[r] = 0 \/ Late(r),
           Settle(c, r, s, ok)
    PROVE  JournalInv'
<1> DEFINE x == <<c, r>>
<1>1. Typed /\ thread[x].pc # "none"
  BY DEF JournalInv, Working
<1>2. CASE UNCHANGED <<row, hosts>> /\ thread' = [thread EXCEPT ![x] = Ended(@)]
  BY <1>1, <1>2, EndedAdvances, QuietStep
<1>3. CASE row' = Settled(r, s, ok) /\ Reply(c, r, Told(row'[r]))
  <2>1. /\ row[r].state = "executing"
        /\ row' = [row EXCEPT ![r].state = s, ![r].ok = ok]
    BY <1>3 DEF JournalInv, OneWorker, Settled, Settleable
  <2>2. /\ \A q \in Request \ {r} : row'[q] = row[q]
        /\ row'[r].state = s /\ row'[r].ok = ok
    BY <1>1, <2>1 DEF Typed, Rows
  <2>3. /\ \A y \in Call : Advances(y)
        /\ \A d \in Client : sent[d] \subseteq sent'[d] /\ Repeats(d)
    BY <1>1, <1>3, ReplyAdvances
  <2>4. thread'[x].pc = "done" /\ \A y \in Call \ {x} : thread'[y] = thread[y]
    BY <1>1, <1>3 DEF Reply, Ended, Typed, Threads
  <2>5. \A y \in Call : y[2] = r => thread'[y].pc \notin Working
    BY <2>4 DEF JournalInv, OneWorker, Working
  <2>6. OneWorker'
    BY <1>1, <2>2, <2>4, <2>5, CallFields DEF JournalInv, Typed, OneWorker, Working
  <2>7. OnceSent'
    BY <1>1, <2>3, CallFields DEF JournalInv, Typed, OnceSent, Advances
  <2>8. Accounted'
    BY <2>2, <2>3 DEF JournalInv, Accounted, Advances
  <2>9. \A q : Late(q)' <=> Late(q)
    BY <1>1, <2>3, LateKept DEF Advances
  <2>10. Recorded'
    <3>1. \A d \in Client : client[d].told \in {"completed", "failed", "rejected"}
                              => client[d].request # r
      BY <2>1 DEF JournalInv, Recorded, Told
    <3>2. QED
      BY <2>2, <2>3, <2>9, <3>1 DEF JournalInv, Recorded, Repeats
  <2>11. QED
    BY <2>6, <2>7, <2>8, <2>10 DEF JournalInv
<1>4. QED
  BY <1>2, <1>3 DEF Settle

LEMMA SendWriteStep ==
    ASSUME JournalInv, Typed', Asking', NEW c \in Client, NEW r \in Request, <<c, r>> \in Call, SendWrite(c, r)
    PROVE  JournalInv'
<1>1. Typed
  BY DEF JournalInv
<1>2. UNCHANGED <<row, effects, service>>
  BY DEF SendWrite, ledger
<1>3. \A d \in Client : sent[d] \subseteq sent'[d] /\ Repeats(d)
  BY <1>1 DEF SendWrite, Typed, Clients, Repeats
<1>4. CASE Resends(c, r) # {}
  BY <1>2, <1>3, <1>4, QuietStep DEF SendWrite, Advances
<1>5. CASE Resends(c, r) = {}
  <2>1. thread[<<c, r>>].pc = "none" /\ r \in sent'[c]
    BY <1>1, <1>5, CallFields DEF SendWrite, JournalInv, OnceSent, Resends, Typed
  <2>2. thread[<<c, r>>].out = "none"
    BY <2>1 DEF JournalInv, Accounted
  <2>3. /\ \A x \in Call \ {<<c, r>>} : thread'[x] = thread[x]
        /\ thread'[<<c, r>>].out = "none" /\ thread'[<<c, r>>].pc \in {"none", "arrived"}
    BY <1>1, <1>5, <2>1, <2>2 DEF SendWrite, NoThread, Typed
  <2>4. \A x \in Call : Advances(x)
    BY <2>1, <2>2, <2>3 DEF Advances
  <2>5. QED
    BY <1>2, <1>3, <2>4, QuietStep
<1>6. QED
  BY <1>4, <1>5

LEMMA AdmitStep ==
    ASSUME JournalInv, Typed', Asking', NEW c \in Client, NEW r \in Request, <<c, r>> \in Call, Admit(c, r)
    PROVE  JournalInv'
<1>1. Typed /\ thread[<<c, r>>].pc = "arrived" /\ UNCHANGED <<row, effects, service>>
  BY DEF JournalInv, Admit, Alive, ledger
<1>2. CASE /\ Admits /\ UNCHANGED hosts
           /\ thread' = [thread EXCEPT ![<<c, r>>].pc = "admitted", ![<<c, r>>].task = BoundTask(r)]
  <2>1. /\ \A x \in Call \ {<<c, r>>} : thread'[x] = thread[x]
        /\ thread'[<<c, r>>].pc = "admitted" /\ thread'[<<c, r>>].out = thread[<<c, r>>].out
    BY <1>1, <1>2 DEF Typed, Threads
  <2>2. \A x \in Call : Advances(x)
    BY <1>1, <1>2, <2>1 DEF Admits, Advances
  <2>3. \A d \in Client : sent[d] \subseteq sent'[d] /\ Repeats(d)
    BY <1>2 DEF hosts, Repeats
  <2>4. QED
    BY <1>1, <2>2, <2>3, QuietStep
<1>3. CASE Reply(c, r, "error")
  BY <1>1, <1>3, ReplyAdvances, QuietStep
<1>4. QED
  BY <1>2, <1>3 DEF Admit

\* The row of a fresh identity: no thread worked for it, nobody was told about it.
LEMMA ReserveStep ==
    ASSUME JournalInv, Typed', Asking', NEW c \in Client, NEW r \in Request, <<c, r>> \in Call, Reserve(c, r)
    PROVE  JournalInv'
<1> DEFINE x == <<c, r>>
<1>1. Typed /\ thread[x].pc = "admitted" /\ UNCHANGED <<effects, service>>
  BY DEF JournalInv, Reserve, Alive
<1>2. CASE (Reply(c, r, "error") \/ Reply(c, r, Told(row[r]))) /\ UNCHANGED row
  BY <1>1, <1>2, ReplyAdvances, QuietStep
<1>3. CASE /\ Fresh(r) /\ UNCHANGED hosts
           /\ row' = [row EXCEPT ![r] = [state |-> "executing", task |-> thread[x].task,
                                        instance |-> service.instance, ok |-> FALSE]]
           /\ thread' = [thread EXCEPT ![x].pc = "reserved"]
  <2>1. /\ row[r].state = "none" /\ effects[r] = 0
        /\ \A q \in Request \ {r} : row'[q] = row[q]
        /\ row'[r].state = "executing" /\ row'[r].instance = service.instance
    BY <1>1, <1>3 DEF Fresh, JournalInv, Accounted, Typed
  <2>2. /\ \A y \in Call \ {x} : thread'[y] = thread[y]
        /\ thread'[x].pc = "reserved" /\ thread'[x].out = thread[x].out
    BY <1>1, <1>3 DEF Typed, Threads
  <2>3. \A y \in Call : y[2] = r => thread[y].pc \notin Working
    BY <2>1 DEF JournalInv, OneWorker
  <2>4. service.state \in {"serving", "draining"}
    BY <1>1 DEF JournalInv, OneWorker, Typed, Services
  <2>5. OneWorker'
    <3> HIDE DEF x
    <3>1. OneWorker /\ x[2] = r /\ UNCHANGED service
      BY <1>1, CallFields DEF JournalInv, x
    <3>2. \A y \in Call : thread'[y].pc \in Working => y = x \/ (thread[y].pc \in Working /\ y[2] # r /\ y # x)
      BY <2>2, <2>3
    <3>3. \A y \in Call : thread'[y].pc \in Working =>
             /\ service.state \in {"serving", "draining"}
             /\ row'[y[2]].state = "executing" /\ row'[y[2]].instance = service.instance
      <4>1. ASSUME NEW y \in Call, thread'[y].pc \in Working, y = x
            PROVE  row'[y[2]].state = "executing" /\ row'[y[2]].instance = service.instance
        BY <2>1, <3>1, <4>1
      <4>2. ASSUME NEW y \in Call, thread'[y].pc \in Working, y # x
            PROVE  row'[y[2]].state = "executing" /\ row'[y[2]].instance = service.instance
        <5>1. thread[y].pc \in Working /\ y[2] \in Request \ {r}
          BY <1>1, <3>2, <4>2, CallFields DEF Typed
        <5>2. row[y[2]].state = "executing" /\ row[y[2]].instance = service.instance
          BY <3>1, <5>1 DEF OneWorker
        <5>3. row'[y[2]] = row[y[2]]
          BY <2>1, <5>1
        <5>4. QED
          BY <5>2, <5>3
      <4>3. QED
        BY <2>4, <4>1, <4>2
    <3>4. \A y, z \in Call :
             y[2] = z[2] /\ thread'[y].pc \in Working /\ thread'[z].pc \in Working => y = z
      BY <3>1, <3>2 DEF OneWorker
    <3>5. service.state \notin {"stopped", "down"}
      BY <2>4
    <3>6. QED
      BY <3>1, <3>3, <3>4, <3>5 DEF OneWorker
  <2>6. OnceSent'
    BY <1>1, <1>3, <2>2, CallFields DEF JournalInv, Typed, OnceSent, hosts
  <2>7. Accounted'
    <3>1. thread'[x].out = "none"
      BY <1>1, <2>2 DEF JournalInv, Accounted
    <3>2. UNCHANGED effects /\ \A q \in Request : row'[q].state = "none" => row[q].state = "none"
      BY <1>1, <2>1
    <3>3. QED
      BY <2>1, <2>2, <3>1, <3>2 DEF JournalInv, Accounted
  <2>8. \A q : Late(q)' <=> Late(q)
    BY <1>1, <2>2, LateKept
  <2>9. Recorded'
    <3>1. Told(row[r]) = "indeterminate"
      BY <2>1 DEF Told
    <3>2. \A d \in Client : client[d].told \in {"completed", "failed", "rejected"}
                              => client[d].request # r
      BY <3>1 DEF JournalInv, Recorded
    <3>3. UNCHANGED <<client, effects>>
      BY <1>1, <1>3 DEF hosts
    <3>4. QED
      BY <2>1, <2>8, <3>2, <3>3 DEF JournalInv, Recorded
  <2>10. QED
    BY <2>5, <2>6, <2>7, <2>9 DEF JournalInv
<1>4. QED
  BY <1>2, <1>3 DEF Reserve

LEMMA PreflightStep ==
    ASSUME JournalInv, Typed', Asking', NEW c \in Client, NEW r \in Request, <<c, r>> \in Call, Preflight(c, r)
    PROVE  JournalInv'
<1>1. Typed /\ thread[<<c, r>>].pc = "reserved" /\ UNCHANGED <<effects, service>>
  BY DEF JournalInv, Preflight, Alive
<1>2. effects[r] = 0
  BY <1>1 DEF JournalInv, Accounted
<1>3. CASE thread' = [thread EXCEPT ![<<c, r>>].pc = "checked"] /\ UNCHANGED <<row, hosts>>
  <2>1. \A x \in Call : Advances(x)
    BY <1>1, <1>3 DEF Advances, Typed, Threads
  <2>2. \A d \in Client : sent[d] \subseteq sent'[d] /\ Repeats(d)
    BY <1>3 DEF hosts, Repeats
  <2>3. QED
    BY <1>1, <1>3, <2>1, <2>2, QuietStep
<1>4. CASE Settle(c, r, "rejected", FALSE) \/ Settle(c, r, "unknown", FALSE)
  BY <1>1, <1>2, <1>4, SettleStep DEF Working
<1>5. QED
  BY <1>3, <1>4 DEF Preflight

\* The one thread that works for a request acts once.
LEMMA InvokeStep ==
    ASSUME JournalInv, Typed', Asking', NEW c \in Client, NEW r \in Request, <<c, r>> \in Call, Invoke(c, r)
    PROVE  JournalInv'
<1> DEFINE x == <<c, r>>
<1>1. /\ Typed /\ thread[x].pc = "checked" /\ effects[r] = 0
      /\ UNCHANGED <<row, service, hosts>>
  BY DEF JournalInv, Accounted, Invoke, Alive
<1>2. PICK out \in {"ok", "late", "refused", "raised"} :
        /\ thread' = [thread EXCEPT ![x].pc = "acted", ![x].out = out]
        /\ \/ out # "refused" /\ effects' = [effects EXCEPT ![r] = @ + 1]
           \/ out \notin {"ok", "late"} /\ UNCHANGED effects
  BY DEF Invoke
<1>3. /\ \A y \in Call \ {x} : thread'[y] = thread[y]
      /\ thread'[x].pc = "acted" /\ thread'[x].out = out
  BY <1>1, <1>2 DEF Typed, Threads
<1>4. /\ \A q \in Request \ {r} : effects'[q] = effects[q]
      /\ out \in {"ok", "late"} => effects'[r] = 1
      /\ out = "refused" => effects'[r] = 0
      /\ effects'[r] \in {0, 1}
  BY <1>1, <1>2 DEF Typed
<1>5. row[r].state = "executing"
  BY <1>1 DEF JournalInv, OneWorker, Working
<1>6. \A y \in Call : y[2] = r /\ y # x => thread[y].pc \notin Working /\ thread[y].out \notin {"ok", "late"}
  BY <1>1 DEF JournalInv, OneWorker, Accounted, Working
<1>7. OneWorker'
  BY <1>1, <1>3 DEF JournalInv, OneWorker, Working
<1>8. OnceSent'
  BY <1>1, <1>3, CallFields DEF JournalInv, OnceSent, hosts
<1>9. Accounted'
  <2>1. ASSUME NEW y \in Call \ {x}, y[2] = r
        PROVE  /\ thread'[y].pc \notin Working /\ thread'[y].out \notin {"ok", "late"}
               /\ thread'[y] = thread[y]
    BY <1>3, <1>6, <2>1
  <2>2. ASSUME NEW y \in Call, y[2] # r
        PROVE  thread'[y] = thread[y] /\ effects'[y[2]] = effects[y[2]]
    BY <1>1, <1>3, <1>4, <2>2, CallFields DEF Typed
  <2>3. /\ \A q \in Request : effects'[q] \in {0, 1}
        /\ \A q \in Request : row'[q].state = "none" => effects'[q] = 0
    BY <1>1, <1>4, <1>5 DEF JournalInv, Accounted
  <2>4. QED
    BY <1>3, <1>4, <2>1, <2>2, <2>3 DEF JournalInv, Accounted, Working
<1>10. Recorded'
  <2>1. ASSUME NEW q \in Request \ {r}
        PROVE  Late(q)' <=> Late(q)
    <3>1. DOMAIN thread = Call /\ DOMAIN thread' = Call
      BY <1>1 DEF Typed
    <3>2. \A y \in Call : y[2] = q => thread'[y] = thread[y]
      BY <1>3
    <3>3. QED
      BY <3>1, <3>2 DEF Late
  <2>2. QED
    BY <1>1, <1>4, <1>5, <2>1 DEF JournalInv, Recorded, hosts, Told
<1>11. QED
  BY <1>7, <1>8, <1>9, <1>10 DEF JournalInv

LEMMA RecordStep ==
    ASSUME JournalInv, Typed', Asking', NEW c \in Client, NEW r \in Request, <<c, r>> \in Call, Record(c, r)
    PROVE  JournalInv'
<1> DEFINE out == thread[<<c, r>>].out
<1>1. /\ Typed /\ thread[<<c, r>>].pc = "acted" /\ UNCHANGED <<effects, service>>
      /\ DOMAIN thread = Call
  BY DEF JournalInv, Record, Alive, Typed
<1>2. /\ out \in {"ok", "late"} => effects[r] = 1
      /\ out = "refused" => effects[r] = 0
      /\ out = "late" => Late(r)
  BY <1>1 DEF JournalInv, Accounted, Late
<1>3. PICK ok \in BOOLEAN : Settle(c, r, OutcomeOf(out), ok) /\ (ok <=> out = "ok")
  BY DEF Record
<1>4. out \in {"none", "ok", "late", "refused", "raised"}
  BY <1>1 DEF Typed, Threads
<1>5. out # "none"
  BY <1>1 DEF JournalInv, Accounted
<1>6. /\ OutcomeOf(out) \in {"completed", "rejected", "unknown"}
      /\ ok => OutcomeOf(out) = "completed" /\ effects[r] = 1
      /\ ~ok /\ OutcomeOf(out) \in {"completed", "rejected"} => effects[r] = 0 \/ Late(r)
  BY <1>2, <1>3, <1>4, <1>5 DEF OutcomeOf
<1> HIDE DEF out
<1>7. thread[<<c, r>>].pc \in Working
  BY <1>1 DEF Working
<1>8. QED
  BY <1>1, <1>3, <1>6, <1>7, SettleStep

LEMMA HostStep ==
    ASSUME JournalInv, Typed', Asking', NEW c \in Client, PostUncertain(c) \/ ResolveWrite(c)
    PROVE  JournalInv'
<1>1. Typed /\ UNCHANGED <<row, effects, service, thread, sent>>
  BY DEF JournalInv, PostUncertain, ResolveWrite, ledger
<1>2. \A x \in Call : Advances(x)
  BY <1>1 DEF Advances
<1>3. \A d \in Client : Repeats(d)
  <2>1. CASE PostUncertain(c)
    BY <1>1, <2>1 DEF PostUncertain, Repeats, Typed, Clients
  <2>2. CASE ResolveWrite(c)
    <3>1. CASE Answer(c, "indeterminate")
      BY <1>1, <3>1 DEF Answer, Repeats, Typed, Clients
    <3>2. CASE Answer(c, Told(row[client[c].request]))
      <4>1. /\ client'[c].told = Told(row'[client'[c].request])
            /\ client'[c].request = client[c].request
            /\ \A d \in Client \ {c} : client'[d] = client[d]
        BY <1>1, <3>2 DEF Answer, Typed, Clients
      <4>2. client[c].request \in Request
        BY <2>2 DEF ResolveWrite, JournalInv, Asking
      <4>3. QED
        BY <4>1, <4>2 DEF Repeats
    <3>3. QED
      BY <2>2, <3>1, <3>2 DEF ResolveWrite
  <2>3. QED
    BY <2>1, <2>2
<1>4. QED
  BY <1>1, <1>2, <1>3, QuietStep

LEMMA AskingStep ==
    ASSUME Typed, Asking, Next
    PROVE  Asking'
<1>1. ASSUME NEW c \in Client, NEW r \in Request, NEW what, Reply(c, r, what)
      PROVE  Asking'
  BY <1>1 DEF Reply, Answer, Asking, Typed, Clients
<1>2. ASSUME NEW c \in Client, NEW r \in Request, SendWrite(c, r)
      PROVE  Asking'
  BY <1>2 DEF SendWrite, Asking, Typed
<1>3. ASSUME NEW c \in Client, NEW r \in Request,
             Admit(c, r) \/ Reserve(c, r) \/ Preflight(c, r) \/ Invoke(c, r) \/ Record(c, r)
      PROVE  Asking'
  <2>1. client' = client \/ \E what : Reply(c, r, what)
    BY <1>3 DEF Admit, Reserve, Preflight, Invoke, Record, Settle, hosts
  <2>2. QED
    BY <1>1, <2>1 DEF Asking
<1>4. ASSUME NEW c \in Client, PostUncertain(c) \/ ResolveWrite(c)
      PROVE  Asking'
  BY <1>4 DEF PostUncertain, ResolveWrite, Answer, Asking, Typed, Clients
<1>5. CASE SessionMoves \/ BeginDrain \/ Stop \/ Exit \/ Start
  BY <1>5 DEF SessionMoves, BeginDrain, Stop, Exit, Start, hosts, Asking
<1>6. QED
  BY <1>2, <1>3, <1>4, <1>5 DEF Next

\* The process drains, stops, dies and starts again: whoever worked has ended, and
\* what was executing is unknown.
LEMMA ServiceStep ==
    ASSUME JournalInv, Typed', Asking', SessionMoves \/ BeginDrain \/ Stop \/ Exit \/ Start
    PROVE  JournalInv'
<1>1. Typed
  BY DEF JournalInv
<1>2. CASE SessionMoves
  BY <1>2, QuietStep DEF SessionMoves, hosts, Advances, Repeats
<1>3. CASE BeginDrain \/ Stop
  <2>1. UNCHANGED <<row, effects, thread, client, sent>> /\ service'.instance = service.instance
    BY <1>1, <1>3 DEF BeginDrain, Stop, ledger, hosts, Typed, Services
  <2>2. OneWorker'
    BY <1>1, <1>3, <2>1 DEF BeginDrain, Stop, InFlight, JournalInv, OneWorker, Working, Typed, Services
  <2>3. \A q : Late(q)' <=> Late(q)
    BY <2>1 DEF Late
  <2>4. QED
    BY <2>1, <2>2, <2>3 DEF JournalInv, OnceSent, Accounted, Recorded
<1>4. CASE Exit
  <2>1. /\ UNCHANGED <<row, effects, client, sent>>
        /\ \A x \in Call : IF thread[x].pc = "none" THEN thread'[x] = NoThread
                                                   ELSE thread'[x] = Ended(thread[x])
    BY <1>4 DEF Exit, ledger, hosts
  <2>2. \A x \in Call : /\ thread'[x].pc \in {"none", "done"} /\ thread'[x].out = thread[x].out
                        /\ thread'[x].pc = "none" <=> thread[x].pc = "none"
                        /\ thread'[x].pc = "none" => thread'[x].out = "none"
    <3>1. ASSUME NEW x \in Call
          PROVE  /\ thread[x].pc = "none" => thread[x].out = "none"
                 /\ Ended(thread[x]).pc = "done" /\ Ended(thread[x]).out = thread[x].out
                 /\ NoThread.pc = "none" /\ NoThread.out = "none"
      BY <1>1 DEF JournalInv, Accounted, Ended, NoThread, Typed, Threads
    <3>2. QED
      BY <2>1, <3>1
  <2>3. OneWorker'
    <3>1. \A x \in Call : thread'[x].pc \notin Working /\ thread'[x].pc # "admitted"
      BY <2>2 DEF Working
    <3>2. QED
      BY <3>1 DEF OneWorker, Working
  <2>4. OnceSent'
    BY <2>1, <2>2, CallFields, <1>1 DEF JournalInv, OnceSent, Typed
  <2>5. Accounted'
    BY <2>1, <2>2 DEF JournalInv, Accounted
  <2>6. \A q : Late(q)' <=> Late(q)
    BY <1>1, <2>2, LateKept
  <2>7. Recorded'
    BY <2>1, <2>6 DEF JournalInv, Recorded
  <2>8. QED
    BY <2>3, <2>4, <2>5, <2>7 DEF JournalInv
<1>5. CASE Start
  <2>1. /\ UNCHANGED <<effects, thread, client, sent>>
        /\ service.state = "down" /\ service'.state = "serving"
        /\ \A r \in Request : IF row[r].state = "executing" THEN row'[r].state = "unknown"
                                                             ELSE row'[r] = row[r]
    BY <1>1, <1>5 DEF Start, Interrupted, hosts, Typed, Rows
  <2>2. \A x \in Call : thread[x].pc \notin Working
    BY <2>1 DEF JournalInv, OneWorker
  <2>3. \A q : Late(q)' <=> Late(q)
    BY <2>1 DEF Late
  <2>4. OneWorker'
    BY <2>1, <2>2 DEF OneWorker
  <2>5. Recorded'
    <3>1. \A d \in Client : client[d].told \in {"completed", "failed", "rejected"}
                              => row[client[d].request].state # "executing"
      BY DEF JournalInv, Recorded, Told
    <3>2. QED
      BY <2>1, <2>3, <3>1 DEF JournalInv, Recorded
  <2>6. QED
    BY <2>1, <2>4, <2>5 DEF JournalInv, OnceSent, Accounted
<1>6. QED
  BY <1>2, <1>3, <1>4, <1>5

LEMMA TypedStep ==
    ASSUME Typed, Next
    PROVE  Typed'
  BY CallTyped, OtherTyped DEF Next

LEMMA JournalStep == JournalInv /\ [Next]_vars => JournalInv'
<1> SUFFICES ASSUME JournalInv, [Next]_vars
             PROVE  JournalInv'
  OBVIOUS
<1>1. CASE UNCHANGED vars
  <2>1. \A q : Late(q)' <=> Late(q)
    BY <1>1 DEF vars, Late
  <2>2. QED
    BY <1>1, <2>1 DEF vars, JournalInv, Typed, RequestAssumption, Asking, OneWorker, OnceSent, Accounted, Recorded
<1>2. CASE Next
  <2>1. Typed' /\ Asking'
    BY <1>2, TypedStep, AskingStep DEF JournalInv
  <2>2. QED
    BY <1>2, <2>1, SendWriteStep, AdmitStep, ReserveStep, PreflightStep, InvokeStep, RecordStep,
       HostStep, ServiceStep DEF Next
<1>3. QED
  BY <1>1, <1>2

LEMMA JournalInit == RequestAssumption /\ Init => JournalInv
<1> SUFFICES ASSUME RequestAssumption, Init
             PROVE  JournalInv
  OBVIOUS
<1>1. Typed
  <2>1. NoRow \in Rows /\ NoThread \in Threads /\ Idle \in Clients
    BY DEF NoRow, Rows, NoThread, Threads, Idle, Clients, RequestAssumption
  <2>2. active \in Task
    BY DEF Init, RequestAssumption
  <2>3. service \in Services
    BY DEF Init, Services, RequestAssumption
  <2>4. QED
    BY <2>1, <2>2, <2>3 DEF Init, Typed
<1>2. /\ \A x \in Call : thread[x].pc = "none" /\ thread[x].out = "none"
      /\ \A r \in Request : row[r].state = "none" /\ effects[r] = 0
      /\ \A c \in Client : client[c].pc = "idle" /\ client[c].told = "none"
      /\ service.state = "serving"
  BY DEF Init, NoThread, NoRow, Idle
<1>3. QED
  BY <1>1, <1>2 DEF JournalInv, Asking, OneWorker, Working, OnceSent, Accounted, Recorded

-----------------------------------------------------------------------------
(* What the invariant is for.                                               *)

LEMMA JournalAlways == RequestAssumption /\ Spec => []JournalInv
<1>1. RequestAssumption /\ Init => JournalInv
  BY JournalInit
<1>2. JournalInv /\ [Next]_vars => JournalInv'
  BY JournalStep
<1>3. QED
  BY <1>1, <1>2, PTL DEF Spec

\* Every variable keeps its type, and no request changes the ledger twice.
THEOREM JournalTypeCorrect == RequestAssumption /\ Spec => []TypeOK
<1>1. JournalInv => TypeOK
  <2>1. SUFFICES ASSUME JournalInv
                 PROVE  effects \in [Request -> 0 .. 1]
    BY DEF JournalInv, Typed, TypeOK, Rows, Services, Threads, Clients
  <2>2. \A r \in Request : effects[r] \in 0 .. 1
    BY <2>1 DEF JournalInv, Accounted
  <2>3. QED
    BY <2>1, <2>2 DEF JournalInv, Typed
<1>2. QED
  BY <1>1, JournalAlways, PTL

\* A host that was told an outcome was told the truth: success only of what happened, and
\* failure only where nothing happened and nobody is still at work on it, or where the
\* effect hides behind an error result.
THEOREM AnswersAreTrue == RequestAssumption /\ Spec => []AnswersTrue
<1>1. JournalInv => AnswersTrue
  <2> SUFFICES ASSUME JournalInv, NEW c \in Client
               PROVE  /\ client[c].told = "completed" => effects[client[c].request] = 1
                      /\ client[c].told \in {"failed", "rejected"} /\ ~Late(client[c].request) =>
                            /\ effects[client[c].request] = 0
                            /\ \A x \in Call : x[2] = client[c].request =>
                                  thread[x].pc \notin {"reserved", "checked", "acted"}
    BY DEF AnswersTrue
  <2> DEFINE q == client[c].request
  <2>1. ASSUME client[c].told = "completed"
        PROVE  effects[q] = 1
    <3>1. q \in Request /\ row[q].state = "completed" /\ row[q].ok
      BY <2>1 DEF JournalInv, Recorded, Told
    <3>2. QED
      BY <3>1 DEF JournalInv, Recorded
  <2>2. ASSUME client[c].told \in {"failed", "rejected"}, ~Late(q)
        PROVE  /\ effects[q] = 0
               /\ \A x \in Call : x[2] = q => thread[x].pc \notin {"reserved", "checked", "acted"}
    <3>1. q \in Request /\ Told(row[q]) \in {"failed", "rejected"}
      BY <2>2 DEF JournalInv, Recorded
    <3>2. row[q].state \in {"completed", "rejected"} /\ (row[q].state = "completed" => ~row[q].ok)
      BY <3>1 DEF Told
    <3>3. row[q].state = "rejected" => ~row[q].ok
      BY <3>1 DEF JournalInv, Recorded
    <3>4. effects[q] = 0
      BY <2>2, <3>1, <3>2, <3>3 DEF JournalInv, Recorded
    <3>5. QED
      BY <3>2, <3>4 DEF JournalInv, OneWorker, Working
  <2>3. QED
    BY <2>1, <2>2
<1>2. QED
  BY <1>1, JournalAlways, PTL

\* When the stop of the authority is recorded the ledger is at rest: only a thread that
\* passed its checks acts, and none does once the process has stopped or died.
THEOREM StopsQuietly == RequestAssumption /\ Spec => StoppedIsQuiet
<1>1. JournalInv /\ [Next]_vars => [QuietAfterDrain]_effects
  <2> SUFFICES ASSUME JournalInv, Next, effects' # effects
               PROVE  service.state \notin {"stopped", "down"}
    BY DEF vars, QuietAfterDrain
  <2>1. PICK c \in Client, r \in Request : <<c, r>> \in Call /\ Invoke(c, r)
    BY DEF Next, SendWrite, Admit, Reserve, Preflight, Record, PostUncertain, ResolveWrite,
           SessionMoves, BeginDrain, Stop, Exit, Start, ledger
  <2>2. thread[<<c, r>>].pc \in Working
    BY <2>1 DEF Invoke, Alive, Working
  <2>3. service.state \in {"serving", "draining"}
    BY <2>1, <2>2 DEF JournalInv, OneWorker
  <2>4. QED
    BY <2>3
<1>2. QED
  BY <1>1, JournalAlways, PTL DEF Spec, StoppedIsQuiet

-----------------------------------------------------------------------------
(* The journal does what AtMostOnce promises.                               *)

\* What the journal's promise sees of a request: the outcome the row stands for.
StatusOf(q) ==
    CASE row[q].state = "none" -> "new"
      [] row[q].state = "executing" -> "pending"
      [] row[q].state = "unknown" -> "unknown"
      [] OTHER -> IF row[q].ok \/ Late(q) THEN "done" ELSE "failed"

\* One request moves, the others stay.
Moves(r, old, new) ==
    /\ StatusOf(r) = old /\ StatusOf(r)' = new
    /\ \A q \in Request \ {r} : StatusOf(q)' = StatusOf(q)
    /\ UNCHANGED effects

Acts(r) ==
    /\ StatusOf(r) = "pending" /\ effects[r] = 0
    /\ effects' = [effects EXCEPT ![r] = 1]
    /\ \A q \in Request : StatusOf(q)' = StatusOf(q)

Same == UNCHANGED effects /\ \A q \in Request : StatusOf(q)' = StatusOf(q)

GivesUpAll ==
    /\ UNCHANGED effects
    /\ \A q \in Request :
          StatusOf(q)' = IF StatusOf(q) = "pending" THEN "unknown" ELSE StatusOf(q)

JournalChange ==
    \/ Same
    \/ GivesUpAll
    \/ \E r \in Request :
          \/ Moves(r, "new", "pending") \/ Moves(r, "pending", "unknown")
          \/ Moves(r, "pending", "done") /\ effects[r] = 1
          \/ Moves(r, "pending", "failed") /\ effects[r] = 0
          \/ Acts(r)

LEMMA RowsKeptSame ==
    ASSUME Typed, Typed', UNCHANGED <<row, effects>>,
           \A x \in Call : thread'[x].out = thread[x].out
    PROVE  Same
<1>1. \A q \in Request : Late(q)' <=> Late(q)
  BY LateKept
<1>2. QED
  BY <1>1 DEF Same, StatusOf

\* The receipt of a thread at work: the status it gives is what happened.
LEMMA SettleMoves ==
    ASSUME JournalInv, Typed', UNCHANGED <<effects, service>>,
           NEW c \in Client, NEW r \in Request, <<c, r>> \in Call,
           thread[<<c, r>>].pc \in Working,
           NEW s \in {"completed", "rejected", "unknown"}, NEW ok \in BOOLEAN,
           ok => s = "completed" /\ effects[r] = 1,
           ~ok /\ s \in {"completed", "rejected"} => effects[r] = 0 \/ Late(r),
           Settle(c, r, s, ok)
    PROVE  JournalChange
<1>1. Typed /\ row[r].state = "executing" /\ row[r].instance = service.instance
  BY CallFields DEF JournalInv, OneWorker
<1>2. \A x \in Call : thread'[x].out = thread[x].out
  <2>1. thread' = [thread EXCEPT ![<<c, r>>] = Ended(@)]
    BY DEF Settle, Reply
  <2>2. QED
    BY <1>1, <2>1 DEF Ended, Typed, Threads
<1>3. \A q \in Request : Late(q)' <=> Late(q)
  BY <1>1, <1>2, LateKept
<1>4. CASE row' = row
  BY <1>1, <1>2, <1>4, RowsKeptSame DEF JournalChange
<1>5. CASE row' = Settled(r, s, ok)
  <2>1. /\ \A q \in Request \ {r} : row'[q] = row[q]
        /\ row'[r].state = s /\ row'[r].ok = ok
    BY <1>1, <1>5 DEF Settled, Settleable, Typed, Rows
  <2>2. \A q \in Request \ {r} : StatusOf(q)' = StatusOf(q)
    BY <1>3, <2>1 DEF StatusOf
  <2>3. StatusOf(r) = "pending"
    BY <1>1 DEF StatusOf
  <2>4. Late(r) => effects[r] = 1
    BY <1>1 DEF JournalInv, Accounted, Late, Typed
  <2>5. StatusOf(r)' = IF s = "unknown" THEN "unknown" ELSE IF ok \/ Late(r) THEN "done" ELSE "failed"
    BY <1>3, <2>1 DEF StatusOf
  <2>6. \/ StatusOf(r)' = "unknown"
        \/ StatusOf(r)' = "done" /\ effects[r] = 1
        \/ StatusOf(r)' = "failed" /\ effects[r] = 0
    BY <2>4, <2>5
  <2>7. QED
    BY <2>2, <2>3, <2>6 DEF JournalChange, Moves
<1>6. QED
  BY <1>4, <1>5 DEF Settle

LEMMA InvokeMoves ==
    ASSUME JournalInv, Typed', NEW c \in Client, NEW r \in Request, <<c, r>> \in Call, Invoke(c, r)
    PROVE  JournalChange
<1> DEFINE x == <<c, r>>
<1>1. Typed /\ thread[x].pc = "checked" /\ effects[r] = 0 /\ row' = row
  BY DEF JournalInv, Accounted, Invoke, Alive
<1>2. row[r].state = "executing"
  BY <1>1 DEF JournalInv, OneWorker, Working
<1>3. ASSUME NEW q \in Request \ {r}
      PROVE  Late(q)' <=> Late(q)
  <2>1. DOMAIN thread = Call /\ DOMAIN thread' = Call
    BY <1>1 DEF Typed
  <2>2. \A y \in Call : y[2] = q => thread'[y] = thread[y]
    BY <1>1 DEF Invoke, Typed
  <2>3. QED
    BY <2>1, <2>2 DEF Late
<1>4. \A q \in Request : StatusOf(q)' = StatusOf(q)
  BY <1>1, <1>2, <1>3 DEF StatusOf
<1>5. effects' = effects \/ effects' = [effects EXCEPT ![r] = 1]
  BY <1>1 DEF Invoke
<1>6. StatusOf(r) = "pending"
  BY <1>2 DEF StatusOf
<1>7. QED
  BY <1>1, <1>4, <1>5, <1>6 DEF JournalChange, Same, Acts

LEMMA CallMoves ==
    ASSUME JournalInv, JournalInv', NEW c \in Client, NEW r \in Request, <<c, r>> \in Call,
           \/ SendWrite(c, r) \/ Admit(c, r) \/ Reserve(c, r)
           \/ Preflight(c, r) \/ Invoke(c, r) \/ Record(c, r)
    PROVE  JournalChange
<1> DEFINE x == <<c, r>>
<1>1. Typed /\ Typed'
  BY DEF JournalInv
<1>2. ASSUME UNCHANGED <<row, effects>>, NEW what, Reply(c, r, what)
      PROVE  JournalChange
  <2>1. \A y \in Call : thread'[y].out = thread[y].out
    BY <1>1, <1>2 DEF Reply, Ended, Typed, Threads
  <2>2. QED
    BY <1>1, <1>2, <2>1, RowsKeptSame DEF JournalChange
<1>3. CASE SendWrite(c, r)
  <2>1. thread[x].pc = "none" \/ UNCHANGED thread
    BY <1>1, <1>3, CallFields DEF SendWrite, JournalInv, OnceSent, Resends, Typed
  <2>2. thread[x].pc = "none" => thread[x].out = "none"
    BY DEF JournalInv, Accounted
  <2>3. \A y \in Call : thread'[y].out = thread[y].out
    BY <1>1, <1>3, <2>1, <2>2 DEF SendWrite, NoThread, Typed
  <2>4. QED
    BY <1>1, <1>3, <2>3, RowsKeptSame DEF SendWrite, ledger, JournalChange
<1>4. CASE Admit(c, r)
  <2>1. CASE thread' = [thread EXCEPT ![x].pc = "admitted", ![x].task = BoundTask(r)]
    <3>1. \A y \in Call : thread'[y].out = thread[y].out
      BY <1>1, <2>1 DEF Typed, Threads
    <3>2. QED
      BY <1>1, <1>4, <3>1, RowsKeptSame DEF Admit, ledger, JournalChange
  <2>2. QED
    BY <1>2, <1>4, <2>1 DEF Admit, ledger
<1>5. CASE Reserve(c, r)
  <2>1. CASE /\ Fresh(r)
             /\ row' = [row EXCEPT ![r] = [state |-> "executing", task |-> thread[x].task,
                                          instance |-> service.instance, ok |-> FALSE]]
             /\ thread' = [thread EXCEPT ![x].pc = "reserved"]
    <3>1. \A y \in Call : thread'[y].out = thread[y].out
      <4>1. thread' = [thread EXCEPT ![x].pc = "reserved"]
        BY <2>1
      <4>2. thread'[x].out = thread[x].out /\ \A y \in Call \ {x} : thread'[y] = thread[y]
        BY <1>1, <4>1 DEF Typed, Threads
      <4>3. QED
        BY <4>2
    <3>2. \A q \in Request : Late(q)' <=> Late(q)
      BY <1>1, <3>1, LateKept
    <3>3. /\ \A q \in Request \ {r} : row'[q] = row[q]
          /\ row'[r].state = "executing" /\ row[r].state = "none"
      BY <1>1, <2>1 DEF Typed, Fresh
    <3>4. QED
      BY <1>5, <3>2, <3>3 DEF Reserve, JournalChange, Moves, StatusOf
  <2>2. QED
    BY <1>2, <1>5, <2>1 DEF Reserve
<1>6. CASE Preflight(c, r)
  <2>1. thread[x].pc \in Working /\ effects[r] = 0 /\ UNCHANGED <<effects, service>>
    BY <1>6 DEF Preflight, Alive, Working, JournalInv, Accounted
  <2>2. CASE thread' = [thread EXCEPT ![x].pc = "checked"] /\ UNCHANGED row
    <3>1. \A y \in Call : thread'[y].out = thread[y].out
      BY <1>1, <2>2 DEF Typed, Threads
    <3>2. QED
      BY <1>1, <2>1, <2>2, <3>1, RowsKeptSame DEF JournalChange
  <2>3. CASE Settle(c, r, "rejected", FALSE) \/ Settle(c, r, "unknown", FALSE)
    BY <1>1, <2>1, <2>3, SettleMoves
  <2>4. QED
    BY <1>6, <2>2, <2>3 DEF Preflight
<1>7. CASE Invoke(c, r)
  BY <1>1, <1>7, InvokeMoves
<1>8. CASE Record(c, r)
  <2>1. /\ thread[x].pc = "acted" /\ UNCHANGED <<effects, service>>
        /\ Settle(c, r, OutcomeOf(thread[x].out), thread[x].out = "ok")
    BY <1>8 DEF Record, Alive
  <2>2. thread[x].out \in {"ok", "late", "refused", "raised"}
    BY <1>1, <2>1 DEF JournalInv, Accounted, Typed, Threads
  <2>3. PICK s \in {"completed", "unknown"}, ok \in BOOLEAN :
          s = OutcomeOf(thread[x].out) /\ (ok <=> thread[x].out = "ok") /\ Settle(c, r, s, ok)
    BY <2>1 DEF OutcomeOf
  <2>4. ok => s = "completed" /\ effects[r] = 1
    BY <2>1, <2>2, <2>3 DEF OutcomeOf, JournalInv, Accounted
  <2>5. ~ok /\ s = "completed" => effects[r] = 0 \/ Late(r)
    <3>1. thread[x].out = "late" => Late(r)
      BY <1>1 DEF Late, Typed
    <3>2. QED
      BY <2>1, <2>2, <2>3, <3>1 DEF OutcomeOf, JournalInv, Accounted
  <2>6. QED
    BY <1>1, <2>1, <2>3, <2>4, <2>5, SettleMoves DEF Working
<1>9. QED
  BY <1>3, <1>4, <1>5, <1>6, <1>7, <1>8

LEMMA ServiceMoves ==
    ASSUME JournalInv, JournalInv', SessionMoves \/ BeginDrain \/ Stop \/ Exit \/ Start
    PROVE  JournalChange
<1>1. Typed /\ Typed'
  BY DEF JournalInv
<1>2. CASE SessionMoves \/ BeginDrain \/ Stop
  BY <1>1, <1>2, RowsKeptSame DEF SessionMoves, BeginDrain, Stop, ledger, JournalChange
<1>3. CASE Exit
  <2>1. \A x \in Call : thread[x].pc = "none" => thread[x].out = "none"
    BY DEF JournalInv, Accounted
  <2>2. \A x \in Call : thread'[x].out = thread[x].out
    BY <1>1, <1>3, <2>1 DEF Exit, Ended, NoThread, Typed, Threads
  <2>3. QED
    BY <1>1, <1>3, <2>2, RowsKeptSame DEF Exit, ledger, JournalChange
<1>4. CASE Start
  <2>1. /\ UNCHANGED <<effects, thread>>
        /\ \A q \in Request : IF row[q].state = "executing" THEN row'[q].state = "unknown"
                                                             ELSE row'[q] = row[q]
    BY <1>1, <1>4 DEF Start, Interrupted, Typed, Rows
  <2>2. \A q \in Request : Late(q)' <=> Late(q)
    BY <2>1 DEF Late
  <2>3. GivesUpAll
    BY <2>1, <2>2 DEF GivesUpAll, StatusOf
  <2>4. QED
    BY <2>3 DEF JournalChange
<1>5. QED
  BY <1>2, <1>3, <1>4

LEMMA EveryStepMoves == JournalInv /\ JournalInv' /\ [Next]_vars => JournalChange
<1> SUFFICES ASSUME JournalInv, JournalInv', [Next]_vars
             PROVE  JournalChange
  OBVIOUS
<1>1. Typed /\ Typed'
  BY DEF JournalInv
<1>2. CASE UNCHANGED vars
  BY <1>1, <1>2, RowsKeptSame DEF vars, JournalChange
<1>3. ASSUME NEW c \in Client, PostUncertain(c) \/ ResolveWrite(c)
      PROVE  JournalChange
  BY <1>1, <1>3, RowsKeptSame DEF PostUncertain, ResolveWrite, ledger, JournalChange
<1>4. QED
  BY <1>2, <1>3, CallMoves, ServiceMoves DEF Next

\* One change of the statuses is one step of the promise, or none.
LEMMA PromiseStep ==
    ASSUME JournalInv, JournalInv', JournalChange
    PROVE  [Journal!Next]_(Journal!vars)
<1> DEFINE status == [q \in Request |-> StatusOf(q)]
<1>1. CASE Same
  BY <1>1 DEF Same, StatusOf, Journal!vars
<1>2. CASE GivesUpAll
  <2>1. CASE \E q \in Request : StatusOf(q) = "pending"
    <3>1. Journal!GiveUpAll
      BY <1>2, <2>1 DEF GivesUpAll, StatusOf, Journal!GiveUpAll
    <3>2. QED
      BY <3>1 DEF Journal!Next
  <2>2. CASE \A q \in Request : StatusOf(q) # "pending"
    <3>1. Same
      BY <1>2, <2>2 DEF GivesUpAll, Same
    <3>2. QED
      BY <3>1 DEF Same, StatusOf, Journal!vars
  <2>3. QED
    BY <2>1, <2>2
<1>3. ASSUME NEW r \in Request, Moves(r, "new", "pending")
      PROVE  Journal!Begin(r)
  BY <1>3 DEF Moves, StatusOf, Journal!Begin
<1>4. ASSUME NEW r \in Request, Moves(r, "pending", "unknown")
      PROVE  Journal!GiveUp(r)
  BY <1>4 DEF Moves, StatusOf, Journal!GiveUp
<1>5. ASSUME NEW r \in Request,
             \/ Moves(r, "pending", "done") /\ effects[r] = 1
             \/ Moves(r, "pending", "failed") /\ effects[r] = 0
      PROVE  Journal!Record(r)
  BY <1>5 DEF Moves, StatusOf, Journal!Record
<1>6. ASSUME NEW r \in Request, Acts(r)
      PROVE  Journal!Act(r)
  BY <1>6 DEF Acts, StatusOf, Journal!Act
<1>7. QED
  BY <1>1, <1>2, <1>3, <1>4, <1>5, <1>6 DEF JournalChange, Journal!Next

\* Every behaviour of the journal is one of AtMostOnce: whatever is lost, resent or
\* restarted, a mutation happens at most once under its identity, and its outcome, once
\* recorded, stays and says what happened.
THEOREM JournalImplementsAtMostOnce == RequestAssumption /\ Spec => JournalAtMostOnce
<1>1. Init => Journal!Init
  BY DEF Init, NoRow, Journal!Init
<1>2. JournalInv /\ JournalInv' /\ [Next]_vars => [Journal!Next]_(Journal!vars)
  BY EveryStepMoves, PromiseStep
<1>3. QED
  BY <1>1, <1>2, JournalAlways, PTL DEF Spec, JournalAtMostOnce, Journal!Spec
=============================================================================
