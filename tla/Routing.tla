------------------------------- MODULE Routing -------------------------------
(***************************************************************************)
(* How a submission chooses its models (submission.py, planner.py,         *)
(* routing.py, routing_v3.py, public_evidence_ranking.py,                  *)
(* capabilities.py).  The catalog is pinned, the quota is read and Claude  *)
(* is asked whether it is logged in; then the planner is routed and runs,  *)
(* for as long as an observation counts; then its node is routed, at the   *)
(* complexity the advisor may have raised, and the verifier, all of them   *)
(* on what was read before.                                                *)
(*                                                                         *)
(* A plan is one node and its verifier.  Zones of the quota are numbers, 0 *)
(* protected, 1 red, 2 yellow, 3 green; measured values are integers.      *)
(***************************************************************************)
EXTENDS Integers, Sequences, FiniteSets

CONSTANTS
    Order,      \* the capabilities, in the order of their provider and identity
    Family,     \* of a capability
    Exact,      \* the control-plane models that are named exactly
    Catalogs,   \* qualities of what may be catalogued and routable; empty: no catalog
    Evidences,  \* what is known of the capabilities, at home and in public
    Quotas,     \* observations of the subscription
    Contracts, Works,
    Busy,       \* the units a caller says are in use
    Slots       \* those of Codex

VARIABLES
    contract, catalog, evidence, quota,
    fresh,      \* whether the observation counts still
    families,   \* of Claude, that were admitted when the task was submitted
    at, node,
    call,       \* the routing at work
    routes      \* what was chosen, with the worker's call

vars == <<contract, catalog, evidence, quota, fresh, families, at, node, call, routes>>

Capability == {Order[i] : i \in DOMAIN Order}
Place(c) == CHOOSE i \in DOMAIN Order : Order[i] = c
Lesser(a, b) == IF a < b THEN a ELSE b

ClaudeFamily == {"sonnet", "opus", "fable"}
ControlFamily == {"sol", "astra"}
ControlPlane == {"planner", "verifier", "control"}
Building == {"implementation", "debugging", "tests", "docs", "exploration"}
Deciding == {"architecture", "review", "research", "creative"}
Higher(a, b) == IF a = "high" \/ b = "low" THEN a ELSE IF b = "high" \/ a = "low" THEN b ELSE a

Declared(roles, types, cost, throughput, weight) ==
    [roles |-> roles, types |-> types, cost |-> cost, throughput |-> throughput, weight |-> weight]
Control == Declared({"planner", "verifier", "architecture", "research"},
                    {"architecture", "review", "exploration"}, 5, 1, 3)
Policy ==
    [spark |-> Declared({"worker"}, Building, 1, 4, 1),
     luna |-> Declared({"worker"}, Building, 2, 4, 1),
     terra |-> Declared({"worker"}, Building, 3, 2, 2),
     sol |-> Control, astra |-> Control,
     sonnet |-> Declared({"worker", "reviewer"}, Building \cup {"review"}, 3, 4, 1),
     opus |-> Declared({"architecture_challenge", "reviewer", "research"},
                       {"architecture", "review", "exploration"}, 4, 2, 2),
     fable |-> Declared({"architecture_challenge", "reviewer", "research", "creative"},
                        {"architecture", "review", "creative", "exploration"}, 4, 2, 2)]
Of(c) == Policy[Family[c]]
IsClaude(c) == Family[c] \in ClaudeFamily

Idle == [pass |-> "none", role |-> "none", asked |-> "any", type |-> "none", complexity |-> "low",
         floor |-> 0, parallel |-> FALSE, short |-> FALSE, mechanical |-> FALSE, claude |-> FALSE,
         spark |-> FALSE, zone |-> 0, active |-> [codex |-> 0, claude |-> 0],
         shared |-> [capacity |-> 0, active |-> 0], admitted |-> {}, band |-> {}]

\* The strategy of the contract, which a node may narrow.
Default(c) == [type |-> "implementation", declared |-> c.complexity, complexity |-> c.complexity,
               parallel |-> c.parallel, claude |-> c.claude, mechanical |-> c.command,
               plain |-> TRUE, narrow |-> TRUE]

Init ==
    /\ contract \in Contracts /\ catalog \in Catalogs /\ evidence \in Evidences /\ quota \in Quotas
    /\ fresh = TRUE /\ families = {} /\ at = "submit" /\ node = Default(contract) /\ call = Idle
    /\ routes = [planner |-> "none", worker |-> "none", verifier |-> "none", by |-> Idle]

---------------------------------------------------------------------------
\* The subscription

\* For the dispatcher: the general balance, and the family's own pool.
FamilyZone(f) ==
    IF ~(fresh /\ quota.native /\ quota.certain) THEN -1
    ELSE CASE f = "sonnet" -> Lesser(quota.general, quota.sonnet)
           [] f = "fable" -> Lesser(quota.general, quota.fable)
           [] OTHER -> quota.general

\* For the routing: one zone, of the least of all pools.
PayloadZone ==
    IF fresh /\ quota.native THEN Lesser(quota.general, Lesser(quota.sonnet, quota.fable)) ELSE -1

UnitsOf(f) == IF f = "sonnet" THEN 1 ELSE 2
Fits(f, active) ==
    \/ FamilyZone(f) = 3 /\ UnitsOf(f) + active <= 2
    \/ FamilyZone(f) = 2 /\ f = "sonnet" /\ active = 0

\* What Claude may carry: the units of the first family that has some.
SharedRoom(active) ==
    IF FamilyZone("sonnet") >= 2 THEN [capacity |-> FamilyZone("sonnet") - 1, active |-> active]
    ELSE IF FamilyZone("opus") >= 2
    THEN [capacity |-> FamilyZone("opus") - 1, active |-> IF FamilyZone("opus") = 3 THEN active ELSE 0]
    ELSE [capacity |-> 2, active |-> 0]

Catalogued(f) == \E c \in DOMAIN catalog : Family[c] = f

\* Claude is asked only if the quota would let it run.
Submit ==
    /\ at = "submit" /\ at' = "planner"
    /\ \E authenticated \in BOOLEAN :
        families' = IF authenticated /\ contract.claude
                    THEN {f \in ClaudeFamily : (DOMAIN catalog = {} \/ Catalogued(f)) /\ Fits(f, 0)}
                    ELSE {}
    /\ UNCHANGED <<contract, catalog, evidence, quota, fresh, node, call, routes>>

\* The time an observation counts is over.
Age ==
    /\ fresh /\ at \notin {"done", "refused"} /\ fresh' = FALSE
    /\ UNCHANGED <<contract, catalog, evidence, quota, families, at, node, call, routes>>

---------------------------------------------------------------------------
\* Which capabilities a request admits

Serves == [planner |-> {"planner"}, verifier |-> {"verifier"}, control |-> {"control", "architecture", "research"},
           worker |-> {"worker", "reviewer"},
           challenge |-> {"challenge", "architecture_challenge", "reviewer", "research"}]

RoleFor(stage, w) ==
    IF stage # "worker" THEN stage
    ELSE IF \/ w.type \in {"architecture", "review", "creative"}
            \/ w.type = "exploration" /\ w.complexity = "high"
    THEN "challenge" ELSE "worker"

\* A short mechanical action on its own: only Spark is asked, if it is catalogued.
SparkLane(w) == w.complexity = "low" /\ w.parallel /\ w.mechanical /\ w.narrow /\ w.plain

Request(pass, role, w, active) ==
    [pass |-> pass, role |-> role,
     asked |-> IF role = "verifier" THEN contract.verifier
               ELSE IF role \in ControlPlane THEN contract.planner ELSE "any",
     type |-> IF role \in ControlPlane THEN "architecture" ELSE w.type, complexity |-> w.complexity,
     floor |-> IF w.complexity = "low" /\ w.mechanical THEN 60 ELSE 80,
     parallel |-> w.parallel, mechanical |-> w.mechanical,
     short |-> w.complexity = "low" /\ w.parallel /\ w.narrow /\ w.mechanical, claude |-> w.claude,
     spark |-> role = "worker" /\ SparkLane(w) /\ Catalogued("spark"),
     zone |-> PayloadZone, active |-> active, shared |-> SharedRoom(active.claude),
     admitted |-> {}, band |-> {}]

\* What a family is kept for, whatever it declares.
TierAdmits(c, q) ==
    LET f == Family[c] IN
    /\ f \in ControlFamily <=> q.role \in ControlPlane
    /\ f \in ControlFamily => c \in Exact
    /\ f = "spark" => q.role = "worker" /\ q.complexity = "low" /\ q.short /\ q.mechanical
    /\ f = "luna" => q.role = "worker" /\ q.complexity # "high" /\ q.type \in Building
    /\ f = "terra" => q.role = "worker" /\ q.complexity # "low" /\ q.parallel
    /\ f = "sonnet" => q.type \in Building \cup {"review"}
    /\ f = "opus" => q.type \in Deciding \/ q.complexity = "high"
    /\ f = "fable" => q.type \in Deciding \/ q.role = "challenge"

Able(c, q) ==
    /\ q.asked \in {"any", c} /\ Of(c).roles \cap Serves[q.role] # {} /\ q.type \in Of(c).types
    /\ catalog[c] >= q.floor /\ TierAdmits(c, q)
    /\ q.spark => Family[c] = "spark"
    /\ IsClaude(c) => q.claude

Room(c, q) == IF IsClaude(c) THEN q.shared ELSE [capacity |-> Slots, active |-> q.active.codex]

\* Why a capability is refused.
Gates(c, q) ==
    (IF Able(c, q) THEN {} ELSE {"unable"})
        \cup (IF IsClaude(c) /\ q.claude /\ Family[c] \notin families THEN {"admission"} ELSE {})
        \cup (IF IsClaude(c) /\ q.zone < (IF Family[c] = "sonnet" THEN 2 ELSE 3) THEN {"quota"} ELSE {})
        \cup (IF Room(c, q).active + Of(c).weight > Room(c, q).capacity THEN {"occupied"} ELSE {})

OnlyOccupied(q) == \E c \in DOMAIN catalog : Gates(c, q) = {"occupied"}

---------------------------------------------------------------------------
\* Which of the admitted is chosen

\* In half points.
Tolerance(complexity) == CASE complexity = "low" -> 8 [] complexity = "standard" -> 4 [] OTHER -> 1
Gap(a, b) == 2 * (catalog[a] - catalog[b])
Within(band, q) == {c \in band : \A o \in band : Gap(o, c) <= Tolerance(q.complexity)}

\* Who is admitted, and who of them is as good as the best; the others are never chosen.
Judged(q) ==
    LET admitted == {c \in DOMAIN catalog : Gates(c, q) = {}}
    IN  [q EXCEPT !.admitted = admitted, !.band = Within(admitted, q)]

\* On the edge of the band.
Edge(c, q) == IF \A o \in q.band : Gap(o, c) < Tolerance(q.complexity) THEN 0 ELSE 1

Preferred(q) ==
    IF q.role = "challenge" /\ q.type = "review" THEN <<"opus", "fable", "sonnet">>
    ELSE IF q.role = "challenge" THEN <<"fable", "opus", "terra">>
    ELSE IF q.complexity = "low" THEN <<"spark", "luna">>
    ELSE IF q.type \in {"tests", "docs"} THEN <<"luna", "sonnet", "terra">>
    ELSE IF q.complexity = "standard" THEN <<"sonnet", "luna", "terra">>
    ELSE <<"terra", "luna", "sonnet">>
Preference(c, q) ==
    LET p == Preferred(q) IN
    IF \E i \in DOMAIN p : p[i] = Family[c] THEN CHOOSE i \in DOMAIN p : p[i] = Family[c] ELSE Len(p) + 1

\* Own measurements count if everything in the band was measured, under one set of conditions.
Measured(q) ==
    /\ q.band \subseteq DOMAIN evidence.local
    /\ \A c, o \in q.band : evidence.local[c].cohort = evidence.local[o].cohort
    /\ \A c \in q.band : evidence.local[c].cohort # "none"
\* Each of them only if it is known of all (-1: it is not).
Measures(c, q) ==
    LET known(f) == \A o \in q.band : evidence.local[o][f] >= 0
        m == evidence.local[c]
    IN  IF ~Measured(q) THEN <<0, 0, 0, 0, 0>>
        ELSE <<-m.bound, IF known("attempts") THEN m.attempts ELSE 0, IF known("rework") THEN m.rework ELSE 0,
               IF known("latency") THEN m.latency ELSE 0, IF known("attempts") THEN m.attempts * Of(c).cost ELSE 0>>

\* Public comparisons: who is better by all sources that tell the two apart.
Shared(a, b) == {v \in evidence.votes : {v.better, v.worse} = {a, b}}
Beats(a, b) ==
    /\ \E v \in Shared(a, b) : v.clear /\ v.better = a
    /\ \A v \in Shared(a, b) : v.clear => v.better = a
\* They count where nothing was measured at home and any two were compared.
Compared(q) ==
    /\ q.band \cap DOMAIN evidence.local = {}
    /\ \A a, b \in q.band : a # b => Shared(a, b) # {}
\* The tier of a capability is above those of all that beat it; a cycle has no tiers.
Tierings(q) ==
    {t \in [q.band -> 0..(Cardinality(q.band) - 1)] : \A c \in q.band :
        /\ \A o \in q.band : Beats(o, c) => t[o] < t[c]
        /\ t[c] = 0 \/ \E o \in q.band : Beats(o, c) /\ t[c] = t[o] + 1}
Tiering(q) ==
    IF Compared(q) /\ Tierings(q) # {} THEN CHOOSE t \in Tierings(q) : TRUE ELSE [c \in q.band |-> 0]

\* Preference, then the edge of the band, then evidence, then cost and how full the room would be.
Score(c, q, tiering) ==
    LET m == Measures(c, q) IN
    <<Preference(c, q), Edge(c, q), tiering[c], m[1], m[2], m[3], m[4], m[5], Of(c).cost,
      -Of(c).throughput, (12 * (Room(c, q).active + Of(c).weight)) \div Room(c, q).capacity, Place(c)>>

Before(s, t) == \E i \in DOMAIN s : s[i] < t[i] /\ \A j \in 1..(i - 1) : s[j] = t[j]
First(c, q, tiering) == \A o \in q.band \ {c} : Before(Score(c, q, tiering), Score(o, q, tiering))

---------------------------------------------------------------------------
\* A routing

Stage == {"planner", "worker", "verifier"}
After(stage) == CASE stage = "planner" -> "planning" [] stage = "worker" -> "verifier" [] OTHER -> "done"

Strategy == IF at = "worker" THEN node ELSE Default(contract)

Ask ==
    /\ at \in Stage /\ call = Idle /\ DOMAIN catalog # {}
    /\ \E active \in Busy : call' = Judged(Request("first", RoleFor(at, Strategy), Strategy, active))
    /\ UNCHANGED <<contract, catalog, evidence, quota, fresh, families, at, node, routes>>

Chosen(c, by) ==
    /\ routes' = [routes EXCEPT ![at] = c, !.by = IF at = "worker" THEN by ELSE @]
    /\ at' = After(at) /\ call' = Idle

Choose ==
    /\ call # Idle
    /\ \E tiering \in {Tiering(call)}, c \in call.band : First(c, call, tiering) /\ Chosen(c, call)
    /\ UNCHANGED <<contract, catalog, evidence, quota, fresh, families, node>>

\* Nobody has room: the same request as if nothing ran, the node waits for its turn.
Defer ==
    /\ call.pass = "first" /\ call.admitted = {} /\ OnlyOccupied(call)
    /\ call' = Judged([call EXCEPT !.pass = "deferred", !.active.codex = 0, !.shared.active = 0])
    /\ UNCHANGED <<contract, catalog, evidence, quota, fresh, families, at, node, routes>>

\* The challenge families of the catalog, all of them without quota.
QuotaBlocks(q) ==
    LET asked == {f \in ClaudeFamily : Catalogued(f) /\ \E i \in 1..3 : Preferred(q)[i] = f}
    IN  asked # {} /\ \A f \in asked : ~Fits(f, q.active.claude) /\ FamilyZone(f) < 3

\* A challenge nobody of Claude can take goes to the control plane.
Unchallenged(q) ==
    /\ q.role = "challenge"
    /\ q.type \in {"architecture", "review", "exploration"}
    /\ \/ ~q.claude
       \/ QuotaBlocks(q)
       \/ \E c \in DOMAIN catalog : "admission" \in Gates(c, q)

Stuck == call.pass = "first" /\ call.admitted = {} /\ ~OnlyOccupied(call)

Fallback ==
    /\ Stuck
    /\ Unchallenged(call)
    /\ call' = Judged(Request("control", "control", node, call.active))
    /\ UNCHANGED <<contract, catalog, evidence, quota, fresh, families, at, node, routes>>

Refuse ==
    /\ \/ Stuck /\ ~Unchallenged(call)
       \/ call.pass = "control" /\ call.admitted = {}
    /\ at' = "refused" /\ call' = Idle
    /\ UNCHANGED <<contract, catalog, evidence, quota, fresh, families, node, routes>>

---------------------------------------------------------------------------
\* Without a catalog

\* The first family of Claude that may run, by the strategy of the task.
OldFamilies(w) ==
    IF contract.old
    THEN IF w.complexity # "high" /\ w.type \notin {"architecture", "review"} THEN <<>>
         ELSE IF w.type = "creative" THEN <<"fable", "opus">>
         ELSE IF w.type = "review" THEN <<"sonnet", "opus">> ELSE <<"opus", "sonnet">>
    ELSE IF w.complexity = "low" THEN <<>>
         ELSE IF w.type \in {"architecture", "review"} THEN <<"opus", "fable", "sonnet">>
         ELSE IF w.type = "creative" THEN <<"fable", "opus", "sonnet">>
         ELSE IF w.complexity = "standard" THEN <<"sonnet">> ELSE <<"opus", "sonnet">>

OldCodex(w) ==
    IF contract.old
    THEN IF \/ w.type = "implementation" /\ w.complexity # "high" /\ w.parallel
            \/ w.complexity = "low" /\ w.type \in {"implementation", "tests", "docs"}
         THEN "luna" ELSE "terra"
    ELSE IF w.complexity = "low" /\ w.type \in Building THEN IF SparkLane(w) THEN "spark" ELSE "luna"
    ELSE IF w.complexity = "standard" /\ w.parallel /\ w.type \in Building THEN "luna" ELSE "terra"

RouteOld ==
    LET may == {i \in DOMAIN OldFamilies(node) : OldFamilies(node)[i] \in families /\ Fits(OldFamilies(node)[i], 0)}
    IN
    /\ at \in Stage /\ DOMAIN catalog = {}
    /\ IF at # "worker" THEN Chosen(IF at = "verifier" THEN contract.verifier ELSE contract.planner, Idle)
       ELSE IF node.claude /\ may # {}
       THEN \E i \in may : (\A j \in may : i <= j) /\ Chosen(OldFamilies(node)[i], [Idle EXCEPT !.pass = "old"])
       ELSE Chosen(OldCodex(node), [Idle EXCEPT !.pass = "old"])
    /\ UNCHANGED <<contract, catalog, evidence, quota, fresh, families, node>>

---------------------------------------------------------------------------
\* The plan

\* The planner fails, or its node asks for Claude where the contract does not; advice raises
\* the complexity, it never lowers it.
Plan ==
    /\ at = "planning"
    /\ \/ at' = "refused" /\ UNCHANGED node
       \/ \E w \in Works, advised \in {"low", "standard", "high"} :
           /\ w.claude => contract.claude
           /\ at' = "worker" /\ node' = [w EXCEPT !.complexity = Higher(w.declared, advised)]
    /\ UNCHANGED <<contract, catalog, evidence, quota, fresh, families, call, routes>>

Next == Submit \/ Age \/ Ask \/ Choose \/ Defer \/ Fallback \/ Refuse \/ RouteOld \/ Plan

Spec == Init /\ [][Next]_vars

Active == [codex : Nat, claude : Nat]
Call ==
    [pass : {"none", "first", "deferred", "control", "old"},
     role : {"none", "challenge", "worker"} \cup ControlPlane, asked : Capability \cup {"any"},
     type : {"none"} \cup Building \cup Deciding, complexity : {"low", "standard", "high"}, floor : {0, 60, 80},
     parallel : BOOLEAN, short : BOOLEAN, mechanical : BOOLEAN, claude : BOOLEAN, spark : BOOLEAN,
     zone : -1..3, active : Active, shared : [capacity : 0..2, active : Nat],
     admitted : SUBSET Capability, band : SUBSET Capability]
Work ==
    [type : Building \cup Deciding, declared : {"low", "standard", "high"}, complexity : {"low", "standard", "high"},
     parallel : BOOLEAN, claude : BOOLEAN, mechanical : BOOLEAN, plain : BOOLEAN, narrow : BOOLEAN]
TypeOK ==
    /\ contract \in Contracts /\ catalog \in Catalogs /\ evidence \in Evidences /\ quota \in Quotas
    /\ fresh \in BOOLEAN /\ families \subseteq ClaudeFamily
    /\ at \in Stage \cup {"submit", "planning", "done", "refused"}
    /\ node \in Work /\ call \in Call
    /\ routes \in [planner : Capability \cup {"none"}, worker : Capability \cup {"none"},
                   verifier : Capability \cup {"none"}, by : Call]

\* What is assumed of every instance: Codex has room for what a capability may ask, a family
\* is one of those the policy knows, and where there is no catalog its name is that of a model.
Uncatalogued == {"fable", "opus", "sonnet", "spark", "luna", "terra"}
RoutingAssumption ==
    /\ Slots \in Nat /\ Slots >= 4
    /\ Family \in [Capability -> DOMAIN Policy]
    /\ "any" \notin Capability /\ "none" \notin Capability
    /\ \A f \in Uncatalogued : f \in Capability /\ Family[f] = f
    /\ \A q \in Catalogs : DOMAIN q \subseteq Capability /\ \A c \in DOMAIN q : q[c] \in Int
    /\ Quotas \subseteq [native : BOOLEAN, certain : BOOLEAN, general : 0..3, sonnet : 0..3, fable : 0..3]
    /\ Contracts \subseteq [planner : Capability, verifier : Capability,
                            complexity : {"low", "standard", "high"}, parallel : BOOLEAN,
                            command : BOOLEAN, claude : BOOLEAN, old : BOOLEAN]
    /\ Works \subseteq Work /\ Busy \subseteq Active

---------------------------------------------------------------------------
\* What is chosen

\* Planner and verifier are the models that were asked for, and the control plane takes a
\* worker's place only where a challenge was.
AskedKept ==
    /\ routes.planner \in {"none", contract.planner}
    /\ routes.verifier \in {"none", contract.verifier}
    /\ routes.worker # "none" /\ Family[routes.worker] \in ControlFamily =>
        /\ routes.by.pass = "control" /\ routes.worker = contract.planner
        /\ RoleFor("worker", node) = "challenge"

\* Claude works only with the consent of contract and node, by an admitted family, and on
\* enough of its balance.
ClaudeAdmitted ==
    routes.worker # "none" /\ IsClaude(routes.worker) =>
        /\ contract.claude /\ node.claude /\ Family[routes.worker] \in families
        /\ routes.by.pass \in {"first", "deferred"} =>
            routes.by.zone >= IF Family[routes.worker] = "sonnet" THEN 2 ELSE 3

\* Neither advice nor cost takes more of the quality than the task that was declared allows.
QualityKept ==
    routes.worker # "none" /\ routes.by.pass # "old" =>
        /\ catalog[routes.worker] >= IF node.declared = "low" /\ node.mechanical THEN 60 ELSE 80
        /\ \A c \in DOMAIN catalog : Gates(c, routes.by) = {} =>
            2 * (catalog[c] - catalog[routes.worker]) <= Tolerance(node.declared)

\* A node that waits for room waits for nothing else.
RoomAlone ==
    routes.by.pass = "deferred" =>
        Able(routes.worker, routes.by) /\ (IsClaude(routes.worker) => Family[routes.worker] \in families)

\* No comparison of public sources that counts speaks against the choice, but for what was
\* asked for before it.
VotesHeard ==
    \A c \in routes.by.band : Beats(c, routes.worker) =>
        \/ Preference(routes.worker, routes.by) < Preference(c, routes.by)
        \/ Edge(routes.worker, routes.by) < Edge(c, routes.by)
        \/ ~Compared(routes.by) \/ Tierings(routes.by) = {}

\* Once the observation has run out, nothing of Claude is admitted any more: a planner that takes
\* that long leaves its nodes to Codex.
OnlyCurrentAdmits ==
    ~fresh /\ call' # call /\ call'.pass # "deferred" => \A c \in call'.admitted : ~IsClaude(c)

\* What a submission's nodes were given is what it may be given.
RoutesHonest == AskedKept /\ ClaudeAdmitted /\ QualityKept /\ RoomAlone /\ VotesHeard
=============================================================================
