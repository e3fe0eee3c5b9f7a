----------------------- MODULE LockfileHandoffProofs -----------------------
(* The lease of LockfileHandoff, for any number of workers and requests:    *)
(* one writer at a time, and a lease that was released stays released       *)
(* however long its runner goes on.  What an input is made of is left open: *)
(* how overlays are replayed plays no part in it.                           *)
EXTENDS LockfileHandoff, TLAPS

-----------------------------------------------------------------------------
(* The invariant.                                                           *)

\* The records, with any input and any reading.
Rows(in) == [state : {"blocked", "pending", "running", "indeterminate", "accepted"},
             attempt : Nat, source : Nat, input : {in}]
Leases(in) == [state : Terminal \cup {"reserved"}, node : Node, attempt : Nat, input : {in},
               contract : Nat, revision : Nat]
Works == {"admitted", "reserved", "confirmed", "failing"}
Runners(seen) == [pc : Works, seen : {seen}]
Over == [pc |-> "ended"]

NodesTyped == DOMAIN node = Node /\ \A n \in Node : node[n] \in Rows(node[n].input)
LeasesTyped == DOMAIN hand = Request /\ \A r \in Request : hand[r] = NoLease \/ hand[r] \in Leases(hand[r].input)
RunnersTyped == DOMAIN run = Request /\ \A r \in Request : run[r] \in {NoRun, Over} \/ run[r] \in Runners(run[r].seen)
TaskStates == {"blocked", "queued", "verifying", "cancelled"}
TaskTyped == task \in [state : TaskStates, revision : Nat, contract : Nat]

\* What the runner of r has read, and what of it still holds: before the reservation there
\* is no lease to lose; under it the input it saw is the lease's, and, once confirmed, the
\* node's.
Reads(r) ==
    LET seen == run[r].seen
        d == seen.durable
    IN  run[r].pc \in Works =>
          /\ d.node \in Node /\ d.attempt \in Nat /\ d.contract \in Nat /\ d.revision \in Nat
          /\ "here" \notin d.busy
          /\ run[r].pc = "admitted" => hand[r].state = None
          /\ run[r].pc # "admitted" /\ hand[r].state = "reserved" => hand[r].input = seen.source.input
          /\ run[r].pc = "confirmed" /\ hand[r].state = "reserved" =>
                node[d.node].input = seen.source.input

OneHolder == \A r, q \in Request : hand[r].state = "reserved" /\ hand[q].state = "reserved" => r = q

\* Nobody works in the repository.
Quiet == "here" \notin busy /\ \A n \in Node : node[n].state # "running"

HandoffInv ==
    /\ HandoffAssumption /\ NodesTyped /\ LeasesTyped /\ RunnersTyped /\ TaskTyped
    /\ log \in Seq(Request) /\ amended \subseteq Amendments
    /\ \A r \in Request : Reads(r)
    /\ OneHolder
    /\ \A r \in Request : hand[r].state = "reserved" => Quiet

-----------------------------------------------------------------------------
(* Lemmas.                                                                  *)

\* A task that changes its state, its contract or only its revision.
LEMMA TaskMoves ==
    ASSUME TaskTyped, NEW state \in TaskStates, NEW revision \in Nat,
           task' = [task EXCEPT !.state = state, !.revision = revision]
    PROVE  TaskTyped'
  BY DEF TaskTyped

LEMMA TaskRebound ==
    ASSUME TaskTyped, NEW contract \in Nat, NEW revision \in Nat,
           task' = [task EXCEPT !.contract = contract, !.revision = revision]
    PROVE  TaskTyped'
  BY DEF TaskTyped

LEMMA TaskCounts ==
    ASSUME HandoffInv
    PROVE  TaskTyped /\ task.state \in TaskStates /\ task.revision + 1 \in Nat /\ task.contract + 1 \in Nat
  BY DEF HandoffInv, TaskTyped

LEMMA HeldLease ==
    ASSUME HandoffInv, NEW r \in Request, hand[r].state # None
    PROVE  hand[r] \in Leases(hand[r].input)
  BY DEF HandoffInv, LeasesTyped, NoLease

LEMMA AtWork ==
    ASSUME HandoffInv, NEW r \in Request, run[r].pc \in Works
    PROVE  run[r] \in Runners(run[r].seen)
  BY DEF HandoffInv, RunnersTyped, NoRun, Over, Works

LEMMA RunnerGoes ==
    ASSUME HandoffInv, NEW r \in Request, run[r].pc \in Works, NEW pc \in Works, Goes(r, pc)
    PROVE  /\ DOMAIN run' = Request /\ run'[r] \in Runners(run[r].seen)
           /\ run'[r].pc = pc /\ run'[r].seen = run[r].seen
           /\ \A q \in Request \ {r} : run'[q] = run[q]
<1>1. run[r] \in Runners(run[r].seen) /\ DOMAIN run = Request
  BY AtWork DEF HandoffInv, RunnersTyped
<1>2. run' = [run EXCEPT ![r] = [@ EXCEPT !.pc = pc]]
  BY <1>1 DEF Goes
<1>3. run'[r] = [run[r] EXCEPT !.pc = pc]
  BY <1>1, <1>2
<1>4. QED
  BY <1>1, <1>2, <1>3 DEF Runners, Works

LEMMA RunnerEnds ==
    ASSUME HandoffInv, NEW r \in Request, Ends(r)
    PROVE  /\ DOMAIN run' = Request /\ run'[r] = Over /\ run'[r].pc \notin Works
           /\ \A q \in Request \ {r} : run'[q] = run[q]
  BY DEF HandoffInv, RunnersTyped, Ends, Over, Works

\* A step of the ledger: the leases and the runners are left alone, and nothing starts in
\* the repository while somebody holds the lease.
LEMMA LedgerKeeps ==
    ASSUME HandoffInv, UNCHANGED <<hand, run, amended>>, log' \in Seq(Request), NodesTyped', TaskTyped',
           Active # {} => /\ "here" \in busy' => "here" \in busy
                          /\ \A n \in Node : /\ node'[n].input = node[n].input
                                             /\ node'[n].state = "running" => node[n].state = "running"
    PROVE  HandoffInv' /\ KeepsFence
<1> USE DEF HandoffInv
<1>1. LeasesTyped' /\ RunnersTyped' /\ OneHolder'
  BY DEF LeasesTyped, RunnersTyped, OneHolder
<1>2. \A r \in Request : hand[r].state = "reserved" => Active # {}
  BY DEF Active
<1>3. \A r \in Request : Reads(r)'
  <2> SUFFICES ASSUME NEW r \in Request
               PROVE  Reads(r)'
    OBVIOUS
  <2>1. Reads(r)
    OBVIOUS
  <2>2. QED
    BY <1>2, <2>1 DEF Reads
<1>4. \A r \in Request : hand'[r].state = "reserved" => Quiet'
  BY <1>2 DEF Quiet
<1>5. KeepsFence
  BY DEF KeepsFence
<1>6. QED
  BY <1>1, <1>3, <1>4, <1>5

\* A step of one request: it takes the lease only if nobody else has it and nobody works.
LEMMA RequestKeeps ==
    ASSUME HandoffInv, NEW r \in Request, UNCHANGED <<node, busy, amended>>, log' \in Seq(Request), TaskTyped',
           DOMAIN hand' = Request, DOMAIN run' = Request,
           \A q \in Request \ {r} : hand'[q] = hand[q] /\ run'[q] = run[q],
           hand'[r] = NoLease \/ hand'[r] \in Leases(hand'[r].input),
           run'[r] \in {NoRun, Over} \/ run'[r] \in Runners(run'[r].seen),
           Reads(r)',
           hand'[r].state = "reserved" => hand[r].state = "reserved" \/ (NoOtherActive(r) /\ Quiet)
    PROVE  HandoffInv'
<1> USE DEF HandoffInv
<1>1. LeasesTyped' /\ RunnersTyped' /\ NodesTyped'
  BY DEF LeasesTyped, RunnersTyped, NodesTyped
<1>2. \A q \in Request : Reads(q)'
  <2> SUFFICES ASSUME NEW q \in Request, q # r
               PROVE  Reads(q)'
    OBVIOUS
  <2>1. Reads(q) /\ hand'[q] = hand[q] /\ run'[q] = run[q]
    OBVIOUS
  <2>2. QED
    BY <2>1 DEF Reads
<1>3. OneHolder'
  BY DEF OneHolder, NoOtherActive, Active
<1>4. \A q \in Request : hand'[q].state = "reserved" => Quiet'
  BY DEF Quiet
<1>5. QED
  BY <1>1, <1>2, <1>3, <1>4

\* A step at which no request becomes ready and none leaves its end keeps the fence.
LEMMA FenceKept ==
    ASSUME NEW r \in Request, \A q \in Request \ {r} : hand'[q] = hand[q],
           hand[r].state \in Terminal => hand'[r].state = hand[r].state,
           hand[r].state # "ready" => hand'[r].state # "ready"
    PROVE  KeepsFence
  BY DEF KeepsFence

-----------------------------------------------------------------------------
(* The requests.                                                            *)

LEMMA ApplyStep ==
    ASSUME HandoffInv, NEW r \in Request, Apply(r, Target[r])
    PROVE  HandoffInv' /\ KeepsFence
<1> DEFINE n == Target[r]
<1>1. n \in Node /\ TaskTyped /\ NodesTyped
  BY DEF HandoffInv, HandoffAssumption
<1>2. /\ hand' = hand /\ hand[r] = NoLease /\ "here" \notin busy
      /\ run' = [run EXCEPT ![r] = [pc |-> "admitted", seen |-> Preflight(n)]]
      /\ UNCHANGED <<task, node, busy, log, amended>>
  BY DEF Apply, Admits
<1>3. /\ DOMAIN run' = Request /\ run'[r] = [pc |-> "admitted", seen |-> Preflight(n)]
      /\ \A q \in Request \ {r} : run'[q] = run[q]
  BY <1>2 DEF HandoffInv, RunnersTyped
<1>4. run'[r] \in Runners(run'[r].seen) /\ run'[r].pc = "admitted" /\ run'[r].seen = Preflight(n)
  BY <1>3 DEF Runners, Works
<1>5. Preflight(n).durable = Durable(n)
  BY DEF Preflight
<1>6. /\ Durable(n).node = n /\ Durable(n).attempt = node[n].attempt /\ Durable(n).contract = task.contract
      /\ Durable(n).revision = task.revision /\ Durable(n).busy = busy
  BY DEF Durable, RunningOwners
<1>7. node[n].attempt \in Nat /\ task.contract \in Nat /\ task.revision \in Nat
  BY <1>1 DEF NodesTyped, Rows, TaskTyped
<1> HIDE DEF n
<1>8. Reads(r)'
  BY <1>1, <1>2, <1>4, <1>5, <1>6, <1>7 DEF Reads, NoLease
<1>9. HandoffInv'
  BY <1>2, <1>3, <1>4, <1>8, RequestKeeps DEF HandoffInv, LeasesTyped, NoLease, TaskTyped, None
<1>10. KeepsFence
  BY <1>2 DEF KeepsFence
<1>11. QED
  BY <1>9, <1>10

LEMMA ReserveStep ==
    ASSUME HandoffInv, NEW r \in Request, Reserve(r)
    PROVE  HandoffInv' /\ KeepsFence
<1> DEFINE seen == run[r].seen
           d == seen.durable
<1>1. run[r].pc = "admitted" /\ UNCHANGED <<task, node, busy, log, amended>>
  BY DEF Reserve
<1>2. /\ d.node \in Node /\ d.attempt \in Nat /\ d.contract \in Nat /\ d.revision \in Nat
      /\ "here" \notin d.busy /\ hand[r].state = None
  BY <1>1 DEF HandoffInv, Reads, Works
<1>3. DOMAIN hand = Request /\ TaskTyped' /\ log' \in Seq(Request) /\ hand[r] = NoLease
  BY <1>1, <1>2 DEF HandoffInv, LeasesTyped, TaskTyped, Leases, Terminal, None
<1>4. CASE Ends(r) /\ UNCHANGED hand
  <2>1. DOMAIN run' = Request /\ run'[r] = Over /\ run'[r].pc \notin Works /\ \A q \in Request \ {r} : run'[q] = run[q]
    BY <1>4, RunnerEnds
  <2>2. Reads(r)'
    BY <2>1 DEF Reads
  <2>3. HandoffInv'
    BY <1>1, <1>2, <1>3, <1>4, <2>1, <2>2, RequestKeeps DEF None
  <2>4. QED
    BY <1>4, <2>3 DEF KeepsFence
<1>5. CASE /\ Unchanged(r) /\ NoOtherActive(r)
           /\ hand' = [hand EXCEPT ![r] = [state |-> "reserved", node |-> d.node, attempt |-> d.attempt,
                 input |-> seen.source.input, contract |-> d.contract, revision |-> d.revision]]
           /\ Goes(r, "reserved")
  <2>1. /\ DOMAIN run' = Request /\ run'[r] \in Runners(seen) /\ run'[r].pc = "reserved" /\ run'[r].seen = seen
        /\ \A q \in Request \ {r} : run'[q] = run[q]
    BY <1>1, <1>5, RunnerGoes DEF Works
  <2>2. /\ DOMAIN hand' = Request /\ \A q \in Request \ {r} : hand'[q] = hand[q]
        /\ hand'[r] = [state |-> "reserved", node |-> d.node, attempt |-> d.attempt,
                 input |-> seen.source.input, contract |-> d.contract, revision |-> d.revision]
    BY <1>3, <1>5
  <2>3. hand'[r].input = seen.source.input /\ hand'[r].state = "reserved"
    BY <2>2
  <2>4. hand'[r] \in Leases(hand'[r].input)
    BY <1>2, <2>2, <2>3 DEF Leases
  <2>5. Quiet
    <3>1. Eligible(d.node) /\ Durable(d.node) = d
      BY <1>5 DEF Unchanged
    <3>2. busy = d.busy
      BY <3>1 DEF Durable, RunningOwners
    <3>3. QED
      BY <1>2, <3>1, <3>2 DEF Eligible, Quiet
  <2>6. Reads(r)'
    BY <1>2, <2>1, <2>3 DEF Reads
  <2>7. HandoffInv'
    BY <1>1, <1>3, <1>5, <2>1, <2>2, <2>4, <2>5, <2>6, RequestKeeps
  <2>8. KeepsFence
    BY <1>2, <2>2, <2>3, FenceKept DEF Terminal, None
  <2>9. QED
    BY <2>7, <2>8
<1>6. QED
  BY <1>4, <1>5 DEF Reserve

\* A repair goes on only under a reading that still holds.
LEMMA RepairStep ==
    ASSUME HandoffInv, NEW r \in Request, Repair(r)
    PROVE  HandoffInv' /\ KeepsFence
<1> DEFINE seen == run[r].seen
           d == seen.durable
<1>1. run[r].pc = "reserved" /\ UNCHANGED <<task, node, busy, hand, log, amended>>
  BY DEF Repair
<1>2. Reads(r) /\ DOMAIN hand = Request /\ TaskTyped' /\ log' \in Seq(Request)
  BY <1>1 DEF HandoffInv, LeasesTyped, TaskTyped
<1>3. hand'[r] = NoLease \/ hand'[r] \in Leases(hand'[r].input)
  BY <1>1 DEF HandoffInv, LeasesTyped
<1>4. PICK pc \in {"confirmed", "failing"} : Goes(r, pc) /\ (pc = "confirmed" => Confirms(r))
  BY DEF Repair, RepairFails
<1>5. /\ DOMAIN run' = Request /\ run'[r] \in Runners(seen) /\ run'[r].pc = pc /\ run'[r].seen = seen
      /\ \A q \in Request \ {r} : run'[q] = run[q]
  BY <1>1, <1>4, RunnerGoes DEF Works
<1>6. pc = "confirmed" => node[d.node].input = seen.source.input
  <2>1. pc = "confirmed" => Preflight(d.node) = seen
    BY <1>4 DEF Confirms
  <2>2. Preflight(d.node).source.input = node[d.node].input
    BY DEF Preflight, Source, Lineage
  <2>3. QED
    BY <2>1, <2>2
<1>7. Reads(r)'
  BY <1>1, <1>2, <1>5, <1>6 DEF Reads, Works
<1>8. HandoffInv'
  BY <1>1, <1>2, <1>3, <1>5, <1>7, RequestKeeps
<1>9. QED
  BY <1>1, <1>8 DEF KeepsFence

\* What becomes ready is still held, and still what was seen.
LEMMA PublishStep ==
    ASSUME HandoffInv, NEW r \in Request, PublishReady(r)
    PROVE  HandoffInv' /\ KeepsFence
<1> DEFINE seen == run[r].seen
           d == seen.durable
<1>1. run[r].pc = "confirmed" /\ UNCHANGED <<node, busy, amended>>
  BY DEF PublishReady
<1>2. Reads(r) /\ DOMAIN hand = Request /\ TaskTyped /\ log \in Seq(Request)
  BY DEF HandoffInv, LeasesTyped
<1>3. hand[r] = NoLease \/ hand[r] \in Leases(hand[r].input)
  BY DEF HandoffInv, LeasesTyped
<1>4. ASSUME UNCHANGED <<task, hand, log>>, Ends(r)
      PROVE  HandoffInv' /\ KeepsFence
  <2>1. DOMAIN run' = Request /\ run'[r] = Over /\ run'[r].pc \notin Works /\ \A q \in Request \ {r} : run'[q] = run[q]
    BY <1>4, RunnerEnds
  <2>2. Reads(r)' /\ TaskTyped'
    BY <1>2, <1>4, <2>1 DEF Reads, TaskTyped
  <2>3. HandoffInv'
    BY <1>1, <1>2, <1>3, <1>4, <2>1, <2>2, RequestKeeps
  <2>4. QED
    BY <1>4, <2>3 DEF KeepsFence
<1>5. ASSUME UNCHANGED <<task, hand, log>>, Goes(r, "failing")
      PROVE  HandoffInv' /\ KeepsFence
  <2>1. /\ DOMAIN run' = Request /\ run'[r] \in Runners(seen) /\ run'[r].pc = "failing" /\ run'[r].seen = seen
        /\ \A q \in Request \ {r} : run'[q] = run[q]
    BY <1>1, <1>5, RunnerGoes DEF Works
  <2>2. Reads(r)' /\ TaskTyped'
    BY <1>1, <1>2, <1>5, <2>1 DEF Reads, TaskTyped, Works
  <2>3. HandoffInv'
    BY <1>1, <1>2, <1>3, <1>5, <2>1, <2>2, RequestKeeps
  <2>4. QED
    BY <1>5, <2>3 DEF KeepsFence
<1>6. ASSUME OwnLease(r), Unchanged(r), task' = [task EXCEPT !.revision = @ + 1],
             hand' = [hand EXCEPT ![r].state = "ready", ![r].revision = task.revision + 1],
             log' = Append(log, r), Ends(r)
      PROVE  HandoffInv' /\ KeepsFence
  <2>1. DOMAIN run' = Request /\ run'[r] = Over /\ run'[r].pc \notin Works /\ \A q \in Request \ {r} : run'[q] = run[q]
    BY <1>6, RunnerEnds
  <2>2. hand[r] \in Leases(hand[r].input) /\ hand[r].state = "reserved"
    BY <1>6, HeldLease DEF OwnLease, None
  <2>3. hand' = [hand EXCEPT ![r] = [hand[r] EXCEPT !.state = "ready", !.revision = task.revision + 1]]
    BY <1>2, <1>6, <2>2
  <2>4. task.revision + 1 \in Nat /\ TaskTyped'
    <3>1. task' = [task EXCEPT !.revision = task.revision + 1]
      BY <1>6
    <3>2. task' = [task EXCEPT !.state = task.state, !.revision = task.revision + 1]
      BY <1>2, <3>1 DEF TaskTyped
    <3>3. QED
      BY <3>2, TaskCounts, TaskMoves
  <2>5. /\ DOMAIN hand' = Request /\ \A q \in Request \ {r} : hand'[q] = hand[q]
        /\ hand'[r] = [hand[r] EXCEPT !.state = "ready", !.revision = task.revision + 1]
    BY <1>2, <2>3
  <2>6. hand'[r] \in Leases(hand[r].input) /\ hand'[r].state = "ready" /\ hand'[r].input = hand[r].input
    BY <2>2, <2>4, <2>5 DEF Leases, Terminal
  <2>7. Reads(r)'
    BY <2>1 DEF Reads
  <2>8. log' \in Seq(Request)
    BY <1>2, <1>6
  <2>9. HandoffInv'
    BY <1>1, <2>1, <2>4, <2>5, <2>6, <2>7, <2>8, RequestKeeps
  <2>10. Eligible(d.node) /\ Durable(d.node) = d
    BY <1>6 DEF Unchanged
  <2>11. hand'[r].input = node[d.node].input
    BY <1>1, <1>2, <2>2, <2>6 DEF Reads, Works
  <2>12. KeepsFence
    BY <2>2, <2>5, <2>10, <2>11 DEF KeepsFence, Terminal
  <2>13. QED
    BY <2>9, <2>12
<1>7. QED
  BY <1>4, <1>5, <1>6 DEF PublishReady

\* A release is made by whoever holds the lease, and only then.
LEMMA ReleaseChanges ==
    ASSUME HandoffInv, NEW r \in Request, NEW how \in Terminal \ {"ready"}, Released(r, how)
    PROVE  /\ DOMAIN hand' = Request /\ \A q \in Request \ {r} : hand'[q] = hand[q]
           /\ hand'[r] = NoLease \/ hand'[r] \in Leases(hand'[r].input)
           /\ hand'[r].state # "reserved"
           /\ hand[r].state # "reserved" => hand'[r] = hand[r]
           /\ hand[r].state = "reserved" => hand'[r].state # "ready"
<1>1. DOMAIN hand = Request /\ (hand[r] = NoLease \/ hand[r] \in Leases(hand[r].input))
  BY DEF HandoffInv, LeasesTyped
<1>2. CASE OwnLease(r)
  <2>1. hand[r] \in Leases(hand[r].input)
    BY <1>2, HeldLease DEF OwnLease, None
  <2>2. PICK state \in Terminal \ {"ready"} : hand' = [hand EXCEPT ![r] = [hand[r] EXCEPT !.state = state]]
    <3>1. "cancelled" \in Terminal \ {"ready"}
      BY DEF Terminal
    <3>2. QED
      BY <1>2, <3>1 DEF Released
  <2>3. hand'[r] = [hand[r] EXCEPT !.state = state]
    BY <1>1, <2>2
  <2>4. hand'[r] \in Leases(hand[r].input) /\ hand'[r].state = state /\ hand'[r].input = hand[r].input
    BY <2>1, <2>2, <2>3 DEF Leases
  <2>5. QED
    BY <1>1, <1>2, <2>2, <2>4 DEF OwnLease, Terminal
<1>3. CASE ~OwnLease(r)
  BY <1>1, <1>3 DEF Released, OwnLease
<1>4. QED
  BY <1>2, <1>3

LEMMA ReleaseStep ==
    ASSUME HandoffInv, NEW r \in Request, Fail(r) \/ Cancel(r) \/ Reconcile(r)
    PROVE  HandoffInv' /\ KeepsFence
<1>1. PICK how \in Terminal \ {"ready"} : Released(r, how)
  BY DEF Fail, Cancel, Reconcile, Terminal
<1>2. /\ DOMAIN hand' = Request /\ \A q \in Request \ {r} : hand'[q] = hand[q]
      /\ hand'[r] = NoLease \/ hand'[r] \in Leases(hand'[r].input)
      /\ hand'[r].state # "reserved"
      /\ hand[r].state # "reserved" => hand'[r] = hand[r]
      /\ hand[r].state = "reserved" => hand'[r].state # "ready"
  BY <1>1, ReleaseChanges
<1>3. UNCHANGED <<task, node, busy, amended, log>> /\ TaskTyped' /\ log' \in Seq(Request)
  BY DEF Fail, Cancel, Reconcile, HandoffInv, TaskTyped
<1>4. DOMAIN run' = Request /\ \A q \in Request \ {r} : run'[q] = run[q]
  BY RunnerEnds DEF Fail, Cancel, Reconcile, HandoffInv, RunnersTyped
<1>5. (run'[r] \in {NoRun, Over} \/ run'[r] \in Runners(run'[r].seen)) /\ Reads(r)'
  <2>1. CASE Fail(r)
    <3>1. run'[r] = Over /\ run'[r].pc \notin Works
      BY <2>1, RunnerEnds DEF Fail
    <3>2. QED
      BY <3>1 DEF Reads
  <2>2. CASE run' = run /\ hand[r].state = "reserved"
    <3>1. run[r] \in {NoRun, Over} \/ run[r] \in Runners(run[r].seen)
      BY DEF HandoffInv, RunnersTyped
    <3>2. Reads(r)
      BY DEF HandoffInv
    <3>3. Reads(r)'
      BY <1>2, <1>3, <2>2, <3>2 DEF Reads, None
    <3>4. QED
      BY <2>2, <3>1, <3>3
  <2>3. QED
    BY <2>1, <2>2 DEF Fail, Cancel, Reconcile, OwnLease
<1>6. HandoffInv'
  BY <1>2, <1>3, <1>4, <1>5, RequestKeeps
<1>7. KeepsFence
  BY <1>2, FenceKept DEF Terminal
<1>8. QED
  BY <1>6, <1>7

-----------------------------------------------------------------------------
(* The ledger around them.                                                  *)

\* A worker changes its state; it does not start to work.
LEMMA NodeMoves ==
    ASSUME HandoffInv, NEW n \in Node, NEW state \in {"blocked", "pending", "indeterminate", "accepted"},
           node' = [node EXCEPT ![n].state = state]
    PROVE  /\ NodesTyped'
           /\ \A m \in Node : node'[m].input = node[m].input /\ (node'[m].state = "running" => node[m].state = "running")
<1>1. DOMAIN node = Node /\ \A m \in Node : node[m] \in Rows(node[m].input)
  BY DEF HandoffInv, NodesTyped
<1>2. node' = [node EXCEPT ![n] = [node[n] EXCEPT !.state = state]]
  BY <1>1
<1>3. node'[n] = [node[n] EXCEPT !.state = state] /\ \A m \in Node \ {n} : node'[m] = node[m]
  BY <1>1, <1>2
<1>4. node'[n] \in Rows(node[n].input) /\ node'[n].state = state /\ node'[n].input = node[n].input
  BY <1>1, <1>3 DEF Rows
<1>5. DOMAIN node' = Node
  BY <1>1, <1>2
<1>6. QED
  BY <1>1, <1>3, <1>4, <1>5 DEF NodesTyped

LEMMA QueueStep ==
    ASSUME HandoffInv, NEW n \in Node, Queue(n)
    PROVE  HandoffInv' /\ KeepsFence
<1>1. node' = [node EXCEPT ![n].state = "pending"] /\ UNCHANGED <<busy, hand, log, run, amended>>
  BY DEF Queue
<1>2. TaskTyped'
  <2>1. task' = [task EXCEPT !.state = "queued", !.revision = task.revision + 1]
    BY DEF Queue
  <2>2. QED
    BY <2>1, TaskCounts, TaskMoves DEF TaskStates
<1>3. log' \in Seq(Request)
  BY <1>1 DEF HandoffInv
<1>4. QED
  BY <1>1, <1>2, <1>3, NodeMoves, LedgerKeeps

LEMMA SettleStep ==
    ASSUME HandoffInv, NEW n \in Node, NEW state \in {"accepted", "blocked"}, Settle(n, state)
    PROVE  HandoffInv' /\ KeepsFence
<1>1. node' = [node EXCEPT ![n].state = state] /\ UNCHANGED <<busy, hand, log, run, amended>>
  BY DEF Settle
<1>2. TaskTyped'
  <2>1. PICK s \in TaskStates : task' = [task EXCEPT !.revision = @ + 1, !.state = s]
    <3>1. TaskTyped
      BY TaskCounts
    <3> DEFINE rest == {node[m].state : m \in Node \ {n}}
               s == IF task.state = "cancelled" THEN task.state
                    ELSE IF state = "blocked" THEN "blocked"
                    ELSE IF rest \subseteq {"accepted"} THEN "verifying"
                    ELSE IF rest \subseteq {"accepted", "blocked"} THEN "blocked" ELSE "queued"
    <3>2. task' = [task EXCEPT !.revision = @ + 1, !.state = s]
      BY DEF Settle
    <3>3. s \in TaskStates
      BY TaskCounts DEF TaskStates
    <3>4. QED
      BY <3>2, <3>3
  <2>2. task' = [task EXCEPT !.state = s, !.revision = task.revision + 1]
    BY <2>1, TaskCounts DEF TaskTyped
  <2>3. QED
    BY <2>2, TaskCounts, TaskMoves
<1>3. log' \in Seq(Request)
  BY <1>1 DEF HandoffInv
<1>4. QED
  BY <1>1, <1>2, <1>3, NodeMoves, LedgerKeeps

\* A claim starts a worker, with an input of any kind: nobody holds the lease.
LEMMA ClaimStep ==
    ASSUME HandoffInv, NEW n \in Node, NEW in, Claim(n, in)
    PROVE  HandoffInv' /\ KeepsFence
<1> DEFINE row == [state |-> IF in = Refused THEN "blocked" ELSE "running",
                   attempt |-> node[n].attempt + 1, source |-> 1, input |-> in]
<1>1. DOMAIN node = Node /\ \A m \in Node : node[m] \in Rows(node[m].input)
  BY DEF HandoffInv, NodesTyped
<1>2. node' = [node EXCEPT ![n] = row] /\ Active = {} /\ UNCHANGED <<busy, hand, log, run, amended>>
  BY DEF Claim, Claimable
<1>3. row \in Rows(in) /\ row.input = in
  BY <1>1 DEF Rows
<1> HIDE DEF row
<1>4. NodesTyped'
  BY <1>1, <1>2, <1>3 DEF NodesTyped
<1>5. TaskTyped'
  <2>1. CASE task' = [task EXCEPT !.state = "blocked", !.revision = @ + 1]
    <3>1. task' = [task EXCEPT !.state = "blocked", !.revision = task.revision + 1]
      BY <2>1
    <3>2. QED
      BY <3>1, TaskCounts, TaskMoves DEF TaskStates
  <2>2. CASE UNCHANGED task
    BY <2>2, TaskCounts DEF TaskTyped
  <2>3. QED
    BY <2>1, <2>2 DEF Claim
<1>6. log' \in Seq(Request)
  BY <1>2 DEF HandoffInv
<1>7. QED
  BY <1>2, <1>4, <1>5, <1>6, LedgerKeeps

LEMMA DriftStep ==
    ASSUME HandoffInv, NEW n \in Node, Drift(n)
    PROVE  HandoffInv' /\ KeepsFence
<1>1. DOMAIN node = Node /\ \A m \in Node : node[m] \in Rows(node[m].input)
  BY DEF HandoffInv, NodesTyped
<1>2. node' = [node EXCEPT ![n] = [node[n] EXCEPT !.source = node[n].source + 1]]
  BY <1>1 DEF Drift
<1>3. UNCHANGED <<task, busy, hand, log, run, amended>>
  BY DEF Drift
<1>4. /\ [node[n] EXCEPT !.source = node[n].source + 1] \in Rows(node[n].input)
      /\ [node[n] EXCEPT !.source = node[n].source + 1].input = node[n].input
      /\ [node[n] EXCEPT !.source = node[n].source + 1].state = node[n].state
  BY <1>1 DEF Rows
<1>5. NodesTyped'
  BY <1>1, <1>2, <1>4 DEF NodesTyped
<1>6. \A m \in Node : node'[m].input = node[m].input /\ node'[m].state = node[m].state
  BY <1>1, <1>2, <1>4
<1>7. TaskTyped' /\ log' \in Seq(Request)
  BY <1>3 DEF HandoffInv, TaskTyped
<1>8. QED
  BY <1>3, <1>5, <1>6, <1>7, LedgerKeeps

\* Several workers change their state, and none of them starts to work.
LEMMA NodesMove ==
    ASSUME HandoffInv, NEW from, NEW state \in {"blocked", "pending", "indeterminate", "accepted"},
           node' = [n \in Node |-> IF node[n].state = from THEN [node[n] EXCEPT !.state = state] ELSE node[n]]
    PROVE  /\ NodesTyped'
           /\ \A m \in Node : node'[m].input = node[m].input /\ (node'[m].state = "running" => node[m].state = "running")
<1>1. \A m \in Node : node[m] \in Rows(node[m].input)
  BY DEF HandoffInv, NodesTyped
<1>2. \A m \in Node : LET r == [node[m] EXCEPT !.state = state] IN
                      r \in Rows(node[m].input) /\ r.state = state /\ r.input = node[m].input
  BY <1>1 DEF Rows
<1>3. DOMAIN node' = Node
  OBVIOUS
<1>4. \A m \in Node : /\ node'[m] \in Rows(node[m].input) /\ node'[m].input = node[m].input
                      /\ node'[m].state = "running" => node[m].state = "running"
  BY <1>1, <1>2 DEF Rows
<1>5. QED
  BY <1>3, <1>4 DEF NodesTyped

LEMMA RefreshStep ==
    ASSUME HandoffInv, NEW manifest, RefreshAncestor(manifest)
    PROVE  HandoffInv' /\ KeepsFence
<1>1. /\ node' = [n \in Node |-> IF node[n].state = "accepted" THEN [node[n] EXCEPT !.state = "pending"] ELSE node[n]]
      /\ UNCHANGED <<busy, hand, log, run, amended>>
  BY DEF RefreshAncestor
<1>2. TaskTyped'
  <2>1. PICK s \in {"queued", "blocked"} : task' = [task EXCEPT !.revision = @ + 1, !.state = s]
    BY DEF RefreshAncestor
  <2>2. task' = [task EXCEPT !.state = s, !.revision = task.revision + 1]
    BY <2>1, TaskCounts DEF TaskTyped
  <2>3. QED
    BY <2>2, TaskCounts, TaskMoves DEF TaskStates
<1>3. log' \in Seq(Request)
  BY <1>1 DEF HandoffInv
<1>4. /\ NodesTyped'
      /\ \A m \in Node : node'[m].input = node[m].input /\ (node'[m].state = "running" => node[m].state = "running")
  BY <1>1, NodesMove
<1>5. QED
  BY <1>1, <1>2, <1>3, <1>4, LedgerKeeps

\* An amendment rebinds what is ready; leases that are held stay as they are.
LEMMA AmendStep ==
    ASSUME HandoffInv, NEW kind \in Amendments, Amend(kind)
    PROVE  HandoffInv' /\ KeepsFence
<1>1. /\ UNCHANGED <<node, busy, log, run>> /\ amended' = amended \cup {kind}
      /\ hand' = [r \in Request |->
             IF Rebinds(kind, r)
             THEN [hand[r] EXCEPT !.contract = @ + 1, !.revision = task.revision + 1] ELSE hand[r]]
  BY DEF Amend
<1>2. TaskTyped' /\ task.revision + 1 \in Nat /\ TaskTyped
  <2>1. task' = [task EXCEPT !.contract = task.contract + 1, !.revision = task.revision + 1]
    BY DEF Amend
  <2>2. QED
    BY <2>1, TaskCounts, TaskRebound
<1>3. \A r \in Request : /\ hand'[r] = NoLease \/ hand'[r] \in Leases(hand'[r].input)
                         /\ hand'[r].state = hand[r].state
                         /\ hand[r].state = "reserved" => hand'[r] = hand[r]
  <2> SUFFICES ASSUME NEW r \in Request
               PROVE  /\ hand'[r] = NoLease \/ hand'[r] \in Leases(hand'[r].input)
                      /\ hand'[r].state = hand[r].state
                      /\ hand[r].state = "reserved" => hand'[r] = hand[r]
    OBVIOUS
  <2>1. CASE Rebinds(kind, r)
    <3>1. hand[r].state = "ready" /\ hand[r] \in Leases(hand[r].input)
      BY <2>1, HeldLease DEF Rebinds, None
    <3>2. hand'[r] = [hand[r] EXCEPT !.contract = @ + 1, !.revision = task.revision + 1]
      BY <1>1, <2>1
    <3>3. hand'[r] \in Leases(hand[r].input) /\ hand'[r].state = hand[r].state /\ hand'[r].input = hand[r].input
      <4>1. hand[r].contract + 1 \in Nat
        BY <3>1 DEF Leases
      <4>2. hand'[r] = [hand[r] EXCEPT !.contract = hand[r].contract + 1, !.revision = task.revision + 1]
        BY <3>2
      <4>3. QED
        BY <1>2, <3>1, <4>1, <4>2 DEF Leases
    <3>4. QED
      BY <3>1, <3>3
  <2>2. CASE ~Rebinds(kind, r)
    BY <1>1, <2>2 DEF HandoffInv, LeasesTyped
  <2>3. QED
    BY <2>1, <2>2
<1>4. DOMAIN hand' = Request
  BY <1>1
<1>5. LeasesTyped' /\ RunnersTyped' /\ NodesTyped' /\ OneHolder'
  BY <1>1, <1>3, <1>4 DEF HandoffInv, LeasesTyped, RunnersTyped, NodesTyped, OneHolder
<1>6. \A r \in Request : Reads(r)'
  <2> SUFFICES ASSUME NEW r \in Request
               PROVE  Reads(r)'
    OBVIOUS
  <2>1. Reads(r)
    BY DEF HandoffInv
  <2>2. QED
    BY <1>1, <1>3, <2>1 DEF Reads
<1>7. \A r \in Request : hand'[r].state = "reserved" => Quiet'
  BY <1>1, <1>3 DEF HandoffInv, Quiet
<1>8. log' \in Seq(Request) /\ amended' \subseteq Amendments
  BY <1>1 DEF HandoffInv
<1>9. KeepsFence
  BY <1>3 DEF KeepsFence
<1>10. QED
  BY <1>2, <1>5, <1>6, <1>7, <1>8, <1>9 DEF HandoffInv

LEMMA AroundStep ==
    ASSUME HandoffInv, CancelTask \/ Fence \/ (\E where \in {"here", "away"} : Others(where))
    PROVE  HandoffInv' /\ KeepsFence
<1>1. UNCHANGED <<node, hand, log, run, amended>>
  BY DEF CancelTask, Fence, Others
<1>2. TaskTyped' /\ NodesTyped' /\ log' \in Seq(Request)
  <2>1. TaskTyped /\ NodesTyped /\ log \in Seq(Request)
    BY DEF HandoffInv
  <2>2. TaskTyped'
    <3>1. CASE UNCHANGED task
      BY <2>1, <3>1 DEF TaskTyped
    <3>2. CASE CancelTask
      <4>1. task' = [task EXCEPT !.state = "cancelled", !.revision = task.revision + 1]
        BY <3>2 DEF CancelTask
      <4>2. QED
        BY <4>1, TaskCounts, TaskMoves DEF TaskStates
    <3>3. QED
      BY <3>1, <3>2 DEF Fence, Others
  <2>3. QED
    BY <1>1, <2>1, <2>2 DEF NodesTyped
<1>3. Active # {} /\ "here" \in busy' => "here" \in busy
  BY DEF CancelTask, Fence, Others, Claimable
<1>4. QED
  BY <1>1, <1>2, <1>3, LedgerKeeps

\* A restart ends every runner; the leases stay until somebody releases them.
LEMMA RestartStep ==
    ASSUME HandoffInv, Restart
    PROVE  HandoffInv' /\ KeepsFence
<1>1. /\ run' = [r \in Request |-> IF run[r] = NoRun THEN NoRun ELSE Over]
      /\ node' = [n \in Node |-> IF node[n].state = "running" THEN [node[n] EXCEPT !.state = "indeterminate"] ELSE node[n]]
      /\ UNCHANGED <<task, busy, hand, log, amended>>
  BY DEF Restart, Over
<1>2. /\ NodesTyped'
      /\ \A m \in Node : node'[m].input = node[m].input /\ (node'[m].state = "running" => node[m].state = "running")
  BY <1>1, NodesMove
<1>3. DOMAIN run' = Request /\ \A r \in Request : run'[r] \in {NoRun, Over} /\ run'[r].pc \notin Works
  BY <1>1 DEF NoRun, Over, Works
<1>4. RunnersTyped' /\ LeasesTyped' /\ TaskTyped' /\ OneHolder'
  BY <1>1, <1>3 DEF RunnersTyped, HandoffInv, LeasesTyped, TaskTyped, OneHolder
<1>5. \A r \in Request : Reads(r)'
  BY <1>3 DEF Reads
<1>6. \A r \in Request : hand'[r].state = "reserved" => Quiet'
  BY <1>1, <1>2 DEF HandoffInv, Quiet
<1>7. KeepsFence
  BY <1>1 DEF KeepsFence
<1>8. QED
  BY <1>1, <1>2, <1>4, <1>5, <1>6, <1>7 DEF HandoffInv

-----------------------------------------------------------------------------
(* The theorems.                                                            *)

LEMMA InvInit == HandoffAssumption /\ Init => HandoffInv
<1> SUFFICES ASSUME HandoffAssumption, Init
             PROVE  HandoffInv
  OBVIOUS
<1>1. NodesTyped
  <2>1. \A n \in Node : node[n] = [state |-> "blocked", attempt |-> 1, source |-> 1, input |-> Base]
    BY DEF Init
  <2>2. [state |-> "blocked", attempt |-> 1, source |-> 1, input |-> Base] \in Rows(Base)
    BY DEF Rows
  <2>3. DOMAIN node = Node
    BY DEF Init
  <2>4. \A n \in Node : node[n].input = Base
    BY <2>1
  <2>5. QED
    BY <2>1, <2>2, <2>3, <2>4 DEF NodesTyped
<1>2. DOMAIN hand = Request /\ DOMAIN run = Request
  BY DEF Init
<1>3. \A r \in Request : /\ hand[r] = NoLease /\ hand[r].state # "reserved"
                         /\ run[r] = NoRun /\ run[r].pc \notin Works
  BY DEF Init, NoLease, NoRun, None, Works
<1>4. LeasesTyped /\ RunnersTyped /\ OneHolder
  BY <1>2, <1>3 DEF LeasesTyped, RunnersTyped, OneHolder
<1>5. \A r \in Request : Reads(r)
  BY <1>3 DEF Reads
<1>6. TaskTyped /\ log \in Seq(Request) /\ amended \subseteq Amendments
  BY DEF Init, TaskTyped, TaskStates
<1>7. QED
  BY <1>1, <1>3, <1>4, <1>5, <1>6 DEF HandoffInv

LEMMA InvNext == HandoffInv /\ [Next]_vars => HandoffInv' /\ [KeepsFence]_vars
<1> SUFFICES ASSUME HandoffInv, [Next]_vars
             PROVE  HandoffInv' /\ [KeepsFence]_vars
  OBVIOUS
<1>1. CASE UNCHANGED vars
  <2>1. NodesTyped' /\ TaskTyped' /\ log' \in Seq(Request)
    BY <1>1 DEF vars, HandoffInv, NodesTyped, TaskTyped
  <2>2. QED
    BY <1>1, <2>1, LedgerKeeps DEF vars
<1>2. ASSUME NEW r \in Request,
             \/ Apply(r, Target[r]) \/ Reserve(r) \/ Repair(r) \/ PublishReady(r) \/ Fail(r)
             \/ Cancel(r) \/ Reconcile(r)
      PROVE  HandoffInv' /\ KeepsFence
  BY <1>2, ApplyStep, ReserveStep, RepairStep, PublishStep, ReleaseStep
<1>3. ASSUME NEW n \in Node,
             \/ Queue(n) \/ Claim(n, Refreshed(n)) \/ Claim(n, Recorded(n)) \/ Drift(n)
             \/ \E state \in {"accepted", "blocked"} : Settle(n, state)
      PROVE  HandoffInv' /\ KeepsFence
  BY <1>3, QueueStep, ClaimStep, DriftStep, SettleStep
<1>4. ASSUME NEW manifest, RefreshAncestor(manifest)
      PROVE  HandoffInv' /\ KeepsFence
  BY <1>4, RefreshStep
<1>5. ASSUME NEW kind \in Amendments, Amend(kind)
      PROVE  HandoffInv' /\ KeepsFence
  BY <1>5, AmendStep
<1>6. CASE CancelTask \/ Fence \/ Restart \/ (\E where \in {"here", "away"} : Others(where))
  BY <1>6, AroundStep, RestartStep
<1>7. QED
  BY <1>1, <1>2, <1>3, <1>4, <1>5, <1>6 DEF Next

LEMMA HandoffsHold == HandoffAssumption /\ Spec => []HandoffInv
<1>1. HandoffInv /\ [Next]_vars => HandoffInv'
  BY InvNext
<1>2. QED
  BY InvInit, <1>1, PTL DEF Spec

\* The states of tasks, workers and requests are those of the code, and only requests are
\* in the log (lockfile_handoff.py, lockfile_handoff_store.py).
THEOREM HandoffTypeCorrect == HandoffAssumption /\ Spec => []TypeOK
<1>1. HandoffInv => TypeOK
  <2> SUFFICES ASSUME HandoffInv
               PROVE  TypeOK
    OBVIOUS
  <2>1. task.state \in {"blocked", "queued", "verifying", "cancelled"}
    BY DEF HandoffInv, TaskTyped, TaskStates
  <2>2. \A n \in Node : node[n].state \in {"blocked", "pending", "running", "indeterminate", "accepted"}
    BY DEF HandoffInv, NodesTyped, Rows
  <2>3. \A r \in Request : hand[r].state \in Terminal \cup {None, "reserved"}
    BY DEF HandoffInv, LeasesTyped, Leases, NoLease
  <2>4. ToSet(log) \subseteq Request
    BY DEF HandoffInv, ToSet
  <2>5. QED
    BY <2>1, <2>2, <2>3, <2>4 DEF TypeOK, HandoffInv
<1>2. QED
  BY <1>1, HandoffsHold, PTL

\* One writer: at most one request holds the lease, and while it does no worker and no other
\* owner of the lockfile runs in the repository, however claims, ancestors, control and
\* restarts come in between (lockfile_handoff_store.py, store.py: claim_ready_node).
THEOREM OneWriter == HandoffAssumption /\ Spec => []LeaseExclusive
<1>1. HandoffInv => LeaseExclusive
  BY DEF HandoffInv, LeaseExclusive, OneHolder, Quiet, Active
<1>2. QED
  BY <1>1, HandoffsHold, PTL

\* A lease that was released stays released, whatever its runner still does, and what
\* becomes ready is bound to the task, the worker and the input its preview saw.
THEOREM RunnersAreFenced == HandoffAssumption /\ Spec => [][KeepsFence]_vars
<1>1. HandoffInv /\ [Next]_vars => [KeepsFence]_vars
  BY InvNext
<1>2. QED
  BY <1>1, HandoffsHold, PTL DEF Spec

=============================================================================
