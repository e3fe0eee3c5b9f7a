------------------------------ MODULE Admission ------------------------------
(***************************************************************************)
(* Which pending node starts next, and on which provider: the claim loop   *)
(* of service.py with WorkbenchStore.claim_ready_node, the scopes and      *)
(* lanes it respects, the waits it records, and the fallbacks of a worker. *)
(*                                                                         *)
(* The loop looks at the quota and at its futures, claims a node in a      *)
(* transaction, records who had to wait, decides the provider and submits  *)
(* a worker; workers, retries and quota observations come between any two  *)
(* of these steps.  A future stays counted until the loop collects it.     *)
(*                                                                         *)
(* A path stands for all that overlaps with it.  The quota is the decision *)
(* it admits, "none" also for a missing reference.  One repository; the    *)
(* deployment gate, task states and recoveries are those of TaskLedger.    *)
(***************************************************************************)
EXTENDS Naturals, FiniteSets, Sequences, Functions

CONSTANTS
    Order,          \* the nodes, by priority and age
    TaskOf, DependsOn, Serial, Reads, Writes,
    Provider,       \* of the specification: "claude" or "codex"
    Units,          \* of the shared capacity a Claude node asks for
    Brief,          \* nodes whose Codex model of the first attempt is Spark
    Unbound,        \* Claude nodes whose binding differs from their contract's
    SparkWorkers, MaxWorkers,
    MaxAttempt,     \* per node
    MaxObserved     \* bounds the observations of the quota

VARIABLES
    node, wait, deferred,
    fell,       \* why the last attempt left Claude for Codex
    quota,      \* "green", "yellow", "none"
    observed,   \* counts its observations
    futures, routed,
    turn        \* where the loop is, and what it looked at

vars == <<node, wait, deferred, fell, quota, observed, futures, routed, turn>>

Node == Range(Order)

\* What the planner and the contract leave to chance.
AdmissionAssumption ==
    /\ Order \in Seq(Node) /\ Order # <<>>
    /\ Units \in [Node -> 1..2]
    /\ \A n \in Node : MaxAttempt[n] \in Nat /\ MaxAttempt[n] > 0
    /\ Provider \in [Node -> {"claude", "codex"}]
    /\ MaxWorkers \in Nat /\ MaxObserved \in Nat

Quotas == {"green", "yellow", "none"}

Init ==
    /\ node = [n \in Node |-> [state |-> "pending", attempt |-> 0, route |-> "none", since |-> FALSE]]
    /\ wait = [n \in Node |-> {}]
    /\ deferred = [n \in Node |-> 0]
    /\ fell = [n \in Node |-> "none"]
    /\ quota = "green" /\ observed = 0 /\ futures = {} /\ routed = {}
    /\ turn = [at |-> "top", quota |-> "none", units |-> 0, node |-> Order[1], waits |-> {}]

---------------------------------------------------------------------------
\* The capacity of Claude

\* A row that left Claude on its way, or was reset, is no completion of Claude's.
LatestCompleted == {n \in Node : node[n].route = "claude" /\ node[n].since}

Active == {f \in futures : f.claude /\ f.node \notin routed}

\* A turn counts once or twice.
UnitsOf(fs) == Cardinality(fs) + Cardinality({f \in fs : Units[f.node] = 2})

\* Only small turns when it gets low, and one at a time.
DispatchDecision(n, q, units) ==
    IF q = "none" \/ (q = "yellow" /\ Units[n] > 1) THEN "codex"
    ELSE IF Units[n] + units > (IF q = "yellow" THEN 1 ELSE 2) THEN "defer"
    ELSE "claude"

\* Busy, or what it used is not known yet: the node keeps waiting for Claude.
PendingAdmission(n) ==
    LET d == DispatchDecision(n, turn.quota, turn.units)
    IN  d = "defer" \/ (d = "claude" /\ LatestCompleted # {})

ClaimTimeDecision(n) ==
    IF n \in Unbound \/ LatestCompleted # {} THEN "codex"
    ELSE DispatchDecision(n, turn.quota, turn.units)

---------------------------------------------------------------------------
\* The claim

Running == {n \in Node : node[n].state = "running"}

\* A retry stays where its last attempt fell, unless Claude only answered badly.
Route(n) ==
    IF fell[n] = "policy" THEN "codex"
    ELSE IF fell[n] = "none" /\ node[n].route # "none" THEN node[n].route
    ELSE Provider[n]

\* Later attempts of a brief node run on a larger model.
Lane(n, route, attempt) == IF route = "codex" /\ n \in Brief /\ attempt = 1 THEN "spark" ELSE "general"

LaneFull(lane) ==
    /\ lane = "spark"
    /\ Cardinality({n \in Running : Lane(n, node[n].route, node[n].attempt) = lane}) >= SparkWorkers

ScopeConflict(n, m) ==
    \/ Writes[n] \cap (Writes[m] \cup Reads[m]) # {}
    \/ Reads[n] \cap Writes[m] # {}

BlockersMutant(n) == {<<m, node[m].attempt>> : m \in {m \in Running : Writes[n] \cap Writes[m] # {}}}

Blockers(n) == {<<m, node[m].attempt>> : m \in {m \in Running : ScopeConflict(n, m)}}

AloneInTask(n) ==
    \A m \in Running : TaskOf[m] = TaskOf[n] => n \notin Serial /\ m \notin Serial

Considered(n, lane) ==
    /\ node[n].state = "pending" /\ node[n].attempt < MaxAttempt[n]
    /\ Lane(n, Route(n), node[n].attempt + 1) = lane /\ ~LaneFull(lane)
    /\ \A m \in DependsOn[n] : node[m].state = "accepted"
    /\ AloneInTask(n)

Admissible(n) == Route(n) # "claude" \/ ~PendingAdmission(n)

Reconciled ==
    [n \in Node |->
        IF /\ node[n].state = "pending"
           /\ \E b \in wait[n] : node[b[1]].state = "running" /\ node[b[1]].attempt = b[2]
        THEN wait[n] ELSE {}]

Takes(n, lane) == Considered(n, lane) /\ Blockers(n) = {} /\ Admissible(n)

\* One transaction: the first in the order that nothing holds, and a wait for those scopes hold.
Claim(lane) ==
    LET takers == {i \in DOMAIN Order : Takes(Order[i], lane)}
        first == CHOOSE i \in takers : \A j \in takers : i <= j
        seen == IF takers = {} THEN Node ELSE {Order[j] : j \in 1..first}
        held == {n \in seen : Considered(n, lane) /\ Blockers(n) # {}}
        passed == {n \in seen : Considered(n, lane) /\ Blockers(n) = {} /\ ~Admissible(n)}
        waits == [n \in Node |-> IF n \in held THEN Blockers(n) ELSE Reconciled[n]]
    IN  /\ IF takers = {}
           THEN /\ turn' = [turn EXCEPT !.waits = @ \cup passed,
                                        !.at = IF lane = "spark" THEN "general" ELSE "record"]
                /\ wait' = waits /\ UNCHANGED <<node, fell>>
           ELSE LET n == Order[first]
                IN  /\ turn' = [turn EXCEPT !.waits = @ \cup passed, !.at = "claimed", !.node = n]
                    /\ wait' = [waits EXCEPT ![n] = {}]
                    /\ node' = [node EXCEPT ![n].state = "running", ![n].attempt = @ + 1,
                                            ![n].route = Route(n)]
                    /\ fell' = [fell EXCEPT ![n] = "none"]
        /\ UNCHANGED <<deferred, quota, observed, futures, routed>>

ClaimSpark == turn.at = "spark" /\ Claim("spark")
ClaimGeneral == turn.at = "general" /\ Claim("general")

---------------------------------------------------------------------------
\* The loop

\* Futures that are done leave, with the mark that they left Claude.
Collect ==
    /\ turn.at = "top"
    /\ futures' = {f \in futures : f.at # "done"}
    /\ routed' = routed \ {f.node : f \in futures \ futures'}
    /\ turn' = [turn EXCEPT !.at = "look"]
    /\ UNCHANGED <<node, wait, deferred, fell, quota, observed>>

Look ==
    /\ turn.at = "look"
    /\ turn' = IF Cardinality(futures) < MaxWorkers
               THEN [turn EXCEPT !.at = IF SparkWorkers > 0 THEN "spark" ELSE "general",
                                 !.quota = quota, !.units = UnitsOf(Active), !.waits = {}]
               ELSE [turn EXCEPT !.at = "top"]
    /\ UNCHANGED <<node, wait, deferred, fell, quota, observed, futures, routed>>

\* Of the nodes that had to wait for Claude, those that still do.
RecordDeferred ==
    /\ turn.at \in {"record", "claimed"}
    /\ deferred' = [n \in Node |-> IF n \in turn.waits /\ node[n].state = "pending"
                                   THEN node[n].attempt + 1 ELSE deferred[n]]
    /\ turn' = [turn EXCEPT !.at = IF @ = "record" THEN "top" ELSE "submit", !.waits = {}]
    /\ UNCHANGED <<node, wait, fell, quota, observed, futures, routed>>

\* twice: an earlier future of the node is still counted (and may still be marked).
Submit ==
    LET n == turn.node
    IN  /\ turn.at = "submit"
        /\ futures' = futures \cup
              {[node |-> n, attempt |-> node[n].attempt, at |-> "start",
                claude |-> node[n].route = "claude" /\ ClaimTimeDecision(n) = "claude",
                twice |-> \E f \in futures : f.node = n]}
        /\ turn' = [turn EXCEPT !.at = "look"]
        /\ UNCHANGED <<node, wait, deferred, fell, quota, observed, routed>>

---------------------------------------------------------------------------
\* Workers

Moves(f, at) == futures' = (futures \ {f}) \cup {[f EXCEPT !.at = at]}

Fallback(f, why) ==
    /\ routed' = routed \cup {f.node}
    /\ node' = [node EXCEPT ![f.node].route = "codex"]
    /\ fell' = [fell EXCEPT ![f.node] = why]
    /\ Moves(f, "codex")
    /\ UNCHANGED <<wait, deferred, quota, observed, turn>>

\* At the provider's boundary: a turn that was reserved is revoked by the quota alone.
RuntimeRefuses(n) == quota = "none" \/ (quota = "yellow" /\ Units[n] > 1)

StartFallback(f) ==
    /\ f.at = "start" /\ node[f.node].route = "claude"
    /\ ~f.claude \/ RuntimeRefuses(f.node)
    /\ Fallback(f, "policy")

StartModel(f) ==
    /\ f.at = "start"
    /\ node[f.node].route = "claude" => f.claude /\ ~RuntimeRefuses(f.node)
    /\ Moves(f, node[f.node].route)
    /\ UNCHANGED <<node, wait, deferred, fell, quota, observed, routed, turn>>

\* Claude fails or is blocked: Codex takes the same attempt.
ClaudeFails(f) == f.at = "claude" /\ \E why \in {"policy", "cli"} : Fallback(f, why)

Settle(f) ==
    /\ f.at \in {"claude", "codex"}
    /\ \E s \in {"accepted"} \cup (IF f.at = "codex" THEN {"failed"} ELSE {}) :
          node' = [node EXCEPT ![f.node].state = s, ![f.node].since = TRUE]
    /\ Moves(f, "done")
    /\ UNCHANGED <<wait, deferred, fell, quota, observed, routed, turn>>

\* A retry forgets when the row was settled, and one that recovers its files the route too.
Retry(n) ==
    /\ node[n].state = "failed" /\ node[n].attempt < MaxAttempt[n]
    /\ \E route \in {"none", node[n].route} :
          node' = [node EXCEPT ![n].state = "pending", ![n].route = route, ![n].since = FALSE]
    /\ UNCHANGED <<wait, deferred, fell, quota, observed, futures, routed, turn>>

\* An observation that is newer than the settled rows, or than none of them.
Observe ==
    /\ observed < MaxObserved /\ observed' = observed + 1
    /\ quota' \in Quotas
    /\ \E n \in {TRUE, FALSE} :
          node' = [m \in Node |-> [node[m] EXCEPT !.since = @ /\ ~n]]
    /\ UNCHANGED <<wait, deferred, fell, futures, routed, turn>>

Worker(f) == StartFallback(f) \/ StartModel(f) \/ ClaudeFails(f) \/ Settle(f)

Next ==
    \/ Collect \/ Look \/ ClaimSpark \/ ClaimGeneral \/ RecordDeferred \/ Submit
    \/ \E f \in futures : Worker(f)
    \/ \E n \in Node : Retry(n)
    \/ Observe

Spec == Init /\ [][Next]_vars

---------------------------------------------------------------------------
\* Properties

TypeOK ==
    /\ node \in [Node -> [state : {"pending", "running", "accepted", "failed"}, attempt : Nat,
                          route : {"none", "claude", "codex"}, since : BOOLEAN]]
    /\ \A n \in Node : node[n].attempt <= MaxAttempt[n]
    /\ wait \in [Node -> SUBSET (Node \X Nat)]
    /\ deferred \in [Node -> Nat]
    /\ fell \in [Node -> {"none", "policy", "cli"}]
    /\ quota \in Quotas /\ observed \in 0..MaxObserved /\ routed \subseteq Node
    /\ futures \subseteq [node : Node, attempt : Nat, at : {"start", "claude", "codex", "done"},
                          claude : BOOLEAN, twice : BOOLEAN]
    /\ turn \in [at : {"top", "look", "spark", "general", "record", "claimed", "submit"},
                 quota : Quotas, units : 0..2 * MaxWorkers, node : Node, waits : SUBSET Node]

\* No two workers touch the same path when one of them writes; one that may not run beside
\* others of its task does not (README.md, "scopes").
ScopesDisjoint ==
    \A n, m \in Running :
        n # m => /\ ~ScopeConflict(n, m)
                 /\ TaskOf[n] = TaskOf[m] => n \notin Serial /\ m \notin Serial

\* The Claude turns that run at once fit the shared capacity, whatever settled, fell back or was
\* observed between the look and the submission.  A turn submitted while an earlier future
\* of its node was not collected escapes the count (see the findings) and is left out.
CapacityKept ==
    UnitsOf({f \in futures : f.claude /\ ~f.twice /\ f.at \in {"start", "claude"}}) <= 2

AdmissionSafe == ScopesDisjoint /\ CapacityKept

\* After a claim every wait names an attempt that runs; a round that takes nobody while nothing
\* runs and no future is left has found every ready node waiting for a newer observation;
\* and the retry of an attempt that a policy took from Claude does not go back to it.
ClaimsSound ==
    turn.at \in {"spark", "general"} /\ turn'.at # turn.at =>
        /\ \A n \in Node : wait'[n] # {} =>
              /\ node'[n].state = "pending"
              /\ \E b \in wait'[n] : node[b[1]].state = "running" /\ node[b[1]].attempt = b[2]
        /\ turn'.at = "record" /\ Running = {} /\ Active = {} /\ turn.units = 0 =>
              \A n \in Node :
                  node[n].state = "pending" /\ (\A m \in DependsOn[n] : node[m].state = "accepted") =>
                      \/ n \in turn'.waits /\ LatestCompleted # {}
                      \/ Lane(n, Route(n), node[n].attempt + 1) = "spark"
        /\ \A n \in Node :
              node'[n].state # node[n].state /\ fell[n] = "policy" => node'[n].route = "codex"
=============================================================================
