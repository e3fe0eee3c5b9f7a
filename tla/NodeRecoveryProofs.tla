------------------------ MODULE NodeRecoveryProofs ------------------------
(***************************************************************************)
(* Recovery of a blocked node, for every instance of NodeRecovery: the     *)
(* inductive invariant IInv, the safety properties it implies, and the     *)
(* proof that the journal of intents implements AtMostOnce.                *)
(*                                                                         *)
(* The argument: a request id is formed from a row and stays the only open *)
(* request of its attempt until a receipt closes it, whoever finds it;    *)
(* the row waits meanwhile (IntentsFit).  A turn acts only for the request *)
(* it recorded itself (DispatchedOnce), so what it answers is what         *)
(* happened, and a receipt found later is final (OutcomesTrue).  The       *)
(* planner's tables show that a linked repair holds its parent             *)
(* (RepairHoldsParent), which the row and the turn carry to the adapter    *)
(* (ParentsWait).                                                          *)
(***************************************************************************)
EXTENDS NodeRecovery, SequenceTheorems, WellFoundedInduction, TLAPS

---------------------------------------------------------------------------
(* The planner. *)

\* A set of numbers has a least one, and a bounded one has a greatest.
LEMMA LeastOf ==
    ASSUME NEW S, S \subseteq Nat, S # {}
    PROVE  \E i \in S : \A j \in S : i <= j
<1> DEFINE R == {ss \in Nat \X Nat : ss[1] < ss[2]}
<1>1. IsWellFoundedOn(R, Nat)
    BY NatLessThanWellFounded DEF OpToRel
<1>2. \E x \in S : \A y \in S : ~(<<y, x>> \in R)
    <2> HIDE DEF R
    <2> QED BY <1>1, WFMin
<1>3. \A x, y \in S : ~(<<y, x>> \in R) => x <= y
    OBVIOUS
<1> QED BY <1>2, <1>3

\* So with the greatest of a bounded set.
LEMMA GreatestOf ==
    ASSUME NEW N \in Nat, NEW S, S \subseteq 1 .. N, S # {}
    PROVE  \E i \in S : \A j \in S : j <= i
<1> DEFINE T == {n \in Nat : N - n \in S}
<1>1. \A i \in S : N - i \in T
    <2> SUFFICES ASSUME NEW i \in S PROVE N - i \in T
        OBVIOUS
    <2>1. i \in Int /\ 1 <= i /\ i <= N
        OBVIOUS
    <2>2. N - i \in Nat /\ N - (N - i) = i
        BY <2>1
    <2> QED BY <2>2
<1>2. T \subseteq Nat /\ T # {}
    BY <1>1
<1> HIDE DEF T
<1>3. PICK t \in T : \A u \in T : t <= u
    BY <1>2, LeastOf
<1>4. N - t \in S
    BY <1>3 DEF T
<1>5. \A j \in S : j <= N - t
    <2> SUFFICES ASSUME NEW j \in S PROVE j <= N - t
        OBVIOUS
    <2>1. t <= N - j
        BY <1>1, <1>3
    <2>2. j \in Int /\ t \in Int
        BY <1>2
    <2> QED BY <2>1, <2>2
<1> QED BY <1>4, <1>5

\* FirstOf answers with what the first rule that applies proposes.
LEMMA FirstOfRule ==
    ASSUME NEW n \in Nat, NEW rules, DOMAIN rules = 1 .. n, \E i \in 1 .. n : rules[i] # {}
    PROVE  \E i \in 1 .. n : /\ FirstOf(rules) \in rules[i]
                             /\ \A j \in 1 .. n : rules[j] # {} => i <= j
<1> DEFINE hits == {i \in DOMAIN rules : rules[i] # {}}
<1>1. hits # {} /\ hits \subseteq Nat
    OBVIOUS
<1>2. \E i \in hits : \A j \in hits : i <= j
    BY <1>1, LeastOf
<1>3. PICK i \in hits : i = (CHOOSE k \in hits : \A j \in hits : k <= j) /\ \A j \in hits : i <= j
    BY <1>2
<1>4. FirstOf(rules) \in rules[i]
    BY <1>3 DEF FirstOf
<1> QED BY <1>3, <1>4

Reason == {"accepted", "accepted_owner_repair_preparation_exhausted",
           "accepted_owner_repair_readiness_unavailable",
           "accepted_owner_repair_repair_unavailable",
           "accepted_owner_repair_resume_action_unconfigured", "accepted_owner_repairs_pending",
           "action_not_authorized", "approval_denied", "approval_pending", "attempt_superseded",
           "authorization_required", "backoff", "blocked_source_repair_authorized",
           "budget_exhausted", "capacity_wait", "controlled_source_write_verified",
           "dependency_materialization", "fresh_authority_readiness_required",
           "fresh_readiness_required", "implementation_not_ready",
           "implementation_readiness_required", "indeterminate", "none", "original_node_resumed",
           "parent_validation_authorization_required", "policy_disabled",
           "readiness_already_satisfied", "readiness_not_authorized", "readiness_observation",
           "repair_authorization_required", "repair_authorized", "repair_deployment_wait",
           "repair_request_pending", "repair_requires_parent_validation", "repair_wait",
           "repeated_recovery_failure", "resume_after_readiness", "resume_not_authorized",
           "source_only_after_repair_validation", "source_only_after_validation",
           "source_recovery_not_authorized", "unknown_effects", "unknown_evidence", "user_pause",
           "validation_authorization_required", "validation_authorized",
           "verified_repair_resumes_exhausted_owners"}
States == {"none", "waiting", "ready", "needs_action", "suspended", "resolved"}
Proposals(actions) ==
    [state : States, action : actions \cup {NoAction}, reason : Reason, auth : BOOLEAN]

\* What a rule may answer is a proposal.
LEMMA ReplyProposes ==
    ASSUME NEW A, NEW reason \in Reason
    PROVE  /\ Ask(reason) \in Proposals(A) /\ Report(reason) \in Proposals(A)
           /\ Wait(reason) \in Proposals(A) /\ Suspend(reason) \in Proposals(A)
           /\ Halt(reason) \in Proposals(A) /\ Resolve(reason) \in Proposals(A)
BY DEF Ask, Report, Wait, Suspend, Halt, Resolve, Result, Proposals, States

\* A rule proposes an action only when the policy allows it.
LEMMA TakeProposes ==
    ASSUME NEW A, NEW o, NEW action \in A, NEW reason \in Reason
    PROVE  Take(o, action, reason) \in Proposals(A)
<1>1. CASE o.resting = action
    BY <1>1, ReplyProposes DEF Take, Reason
<1>2. CASE o.resting # action
    BY <1>2 DEF Take, Result, Proposals, States
<1> QED BY <1>1, <1>2

Holding(o) == Proposals(o.allowed \ ParentActions)
Open(o) == Proposals(o.allowed)

\* The tables up to the rules of the repair never propose to validate, to
\* recover or to resume the node itself.
LEMMA HeldRules ==
    ASSUME NEW o
    PROVE  /\ ControlRules(o) \in Seq(SUBSET Holding(o))
           /\ OwnerRules(o) \in Seq(SUBSET Holding(o))
           /\ BudgetRules(o) \in Seq(SUBSET Holding(o))
           /\ RepairRules(o) \in Seq(SUBSET Holding(o))
<1>1. ControlRules(o) \in Seq(SUBSET Holding(o))
    BY ReplyProposes DEF ControlRules, Rule, Reason, Holding
<1>2. OwnerRules(o) \in Seq(SUBSET Holding(o))
    BY TakeProposes, ReplyProposes DEF OwnerRules, Rule, Reason, MayRequestRepair, May, Holding, ParentActions
<1>3. BudgetRules(o) \in Seq(SUBSET Holding(o))
    BY TakeProposes, ReplyProposes DEF BudgetRules, Rule, Reason, MayRequestRepair, MayRepairSource, May, Holding, ParentActions
<1>4. RepairRules(o) \in Seq(SUBSET Holding(o))
    BY TakeProposes, ReplyProposes DEF RepairRules, Rule, Reason, May, Holding, ParentActions
<1> QED BY <1>1, <1>2, <1>3, <1>4

\* Every table proposes only what the policy allows.
LEMMA OpenRules ==
    ASSUME NEW o, NEW failed \in BOOLEAN
    PROVE  /\ SourceRules(o, failed) \in Seq(SUBSET Open(o))
           /\ ImplementationRules(o, failed) \in Seq(SUBSET Open(o))
           /\ ResumeRules(o) \in Seq(SUBSET Open(o))
           /\ EnvironmentRules(o) \in Seq(SUBSET Open(o))
           /\ ToolRules(o) \in Seq(SUBSET Open(o))
<1>1. SourceRules(o, failed) \in Seq(SUBSET Open(o))
    BY TakeProposes, ReplyProposes DEF SourceRules, Rule, Reason, MayRepairSource, May, Open
<1>2. ImplementationRules(o, failed) \in Seq(SUBSET Open(o))
    BY TakeProposes, ReplyProposes DEF ImplementationRules, Rule, Reason, May, Open
<1>3. ResumeRules(o) \in Seq(SUBSET Open(o))
    BY TakeProposes, ReplyProposes DEF ResumeRules, Rule, Reason, May, Open
<1>4. EnvironmentRules(o) \in Seq(SUBSET Open(o))
    BY TakeProposes, ReplyProposes DEF EnvironmentRules, Rule, Reason, May, Open
<1>5. ToolRules(o) \in Seq(SUBSET Open(o))
    BY TakeProposes, ReplyProposes DEF ToolRules, Rule, Reason, May, Open
<1> QED BY <1>1, <1>2, <1>3, <1>4, <1>5

\* Some rule of a sequence applies: its answer is in the range of the rules.
LEMMA FirstOfSome ==
    ASSUME NEW P, NEW rules \in Seq(SUBSET P), \E i \in 1 .. Len(rules) : rules[i] # {}
    PROVE  FirstOf(rules) \in P
<1>1. DOMAIN rules = 1 .. Len(rules) /\ Len(rules) \in Nat
    OBVIOUS
<1>2. PICK i \in 1 .. Len(rules) : FirstOf(rules) \in rules[i]
    BY <1>1, FirstOfRule
<1> QED BY <1>2

\* Of two tables the first decides alone when one of its rules applies.
LEMMA FirstOfBefore ==
    ASSUME NEW P, NEW Q, NEW before \in Seq(SUBSET P), NEW after \in Seq(SUBSET Q), P \subseteq Q,
           \E i \in 1 .. Len(before) : before[i] # {}
    PROVE  FirstOf(before \o after) \in P
<1> DEFINE rules == before \o after
<1>1. /\ DOMAIN rules = 1 .. Len(before) + Len(after)
      /\ Len(before) \in Nat /\ Len(after) \in Nat
      /\ \A i \in 1 .. Len(before) : rules[i] = before[i]
    OBVIOUS
<1> HIDE DEF rules
<1>2. PICK k \in 1 .. Len(before) : before[k] # {}
    OBVIOUS
<1>3. PICK i \in 1 .. Len(before) + Len(after) :
          FirstOf(rules) \in rules[i] /\ \A j \in 1 .. Len(before) + Len(after) : rules[j] # {} => i <= j
    BY <1>1, <1>2, FirstOfRule
<1>4. i \in 1 .. Len(before)
    BY <1>1, <1>2, <1>3
<1>5. FirstOf(rules) \in before[i]
    BY <1>1, <1>3, <1>4
<1> QED BY <1>4, <1>5 DEF rules

\* The rules of plan_recovery are its tables one after another.
LEMMA TablesOfRules ==
    ASSUME NEW o
    PROVE  /\ ControlRules(o) \o OwnerRules(o) \o BudgetRules(o) \o RepairRules(o)
                 \in Seq(SUBSET Holding(o))
           /\ ReadyRules(o) \in Seq(SUBSET Open(o))
           /\ CauseRules(o) \in Seq(SUBSET Open(o))
           /\ \E i \in 1 .. Len(CauseRules(o)) : CauseRules(o)[i] # {}
<1> DEFINE H == SUBSET Holding(o)
           P == SUBSET Open(o)
           bad == o.category = "validation_failure"
<1>1. /\ ControlRules(o) \in Seq(H) /\ OwnerRules(o) \in Seq(H)
      /\ BudgetRules(o) \in Seq(H) /\ RepairRules(o) \in Seq(H)
    BY HeldRules
<1>2. /\ SourceRules(o, Validates(o)) \in Seq(P) /\ ImplementationRules(o, Validates(o)) \in Seq(P)
      /\ ResumeRules(o) \in Seq(P)
    BY OpenRules DEF Validates
<1>3. /\ EnvironmentRules(o) \in Seq(P) /\ ImplementationRules(o, bad) \in Seq(P)
      /\ ToolRules(o) \in Seq(P)
    BY OpenRules
<1>4. ToolRules(o)[5] # {} /\ Len(ToolRules(o)) = 5
    BY DEF ToolRules, Rule
<1> HIDE DEF H, P
<1>5. ControlRules(o) \o OwnerRules(o) \in Seq(H)
    BY <1>1, ConcatProperties
<1>6. ControlRules(o) \o OwnerRules(o) \o BudgetRules(o) \in Seq(H)
    BY <1>1, <1>5, ConcatProperties
<1>7. ControlRules(o) \o OwnerRules(o) \o BudgetRules(o) \o RepairRules(o) \in Seq(H)
    BY <1>1, <1>6, ConcatProperties
<1>8. ReadyRules(o) \in Seq(P)
    <2> DEFINE r1 == SourceRules(o, Validates(o))
               r2 == ImplementationRules(o, Validates(o))
    <2>1. r1 \in Seq(P) /\ r2 \in Seq(P)
        BY <1>2
    <2>2. ReadyRules(o) = r1 \o r2 \o ResumeRules(o)
        BY DEF ReadyRules
    <2> HIDE DEF r1, r2
    <2>3. r1 \o r2 \in Seq(P)
        BY <2>1, ConcatProperties
    <2> QED BY <1>2, <2>2, <2>3, ConcatProperties
<1>9. CauseRules(o) \in Seq(P) /\ \E i \in 1 .. Len(CauseRules(o)) : CauseRules(o)[i] # {}
    <2> DEFINE r1 == EnvironmentRules(o)
               r2 == ImplementationRules(o, bad)
               r3 == ToolRules(o)
    <2>1. r1 \in Seq(P) /\ r2 \in Seq(P) /\ r3 \in Seq(P) /\ r3[5] # {} /\ Len(r3) = 5
        BY <1>3, <1>4
    <2>2. CauseRules(o) = r1 \o r2 \o r3
        BY DEF CauseRules
    <2> HIDE DEF r1, r2, r3
    <2>3. r1 \o r2 \in Seq(P)
        BY <2>1, ConcatProperties
    <2> DEFINE r == r1 \o r2
    <2>4. r \in Seq(P)
        BY <2>3
    <2>5. CauseRules(o) = r \o r3
        BY <2>2
    <2> HIDE DEF r
    <2>6. /\ r \o r3 \in Seq(P)
          /\ Len(r \o r3) = Len(r) + Len(r3)
          /\ \A i \in 1 .. Len(r) + Len(r3) : (r \o r3)[i] = IF i <= Len(r) THEN r[i] ELSE r3[i - Len(r)]
        BY <2>1, <2>4, ConcatProperties
    <2>7. Len(r) \in Nat
        BY <2>4
    <2>8. (r \o r3)[Len(r) + 5] = r3[5] /\ Len(r) + 5 \in 1 .. Len(r) + 5
        BY <2>1, <2>6, <2>7
    <2> QED BY <2>1, <2>5, <2>6, <2>8
<1> QED BY <1>7, <1>8, <1>9 DEF H, P

\* A value that is bound once is the value.
LEMMA TheOne == ASSUME NEW v PROVE The({v}) = v
BY DEF The

LEMMA PlanIs == ASSUME NEW o PROVE PlanRecovery(o) = FirstOf(Rules(o))
<1>1. {FirstOf(rules) : rules \in {Rules(x) : x \in {o}}} = {FirstOf(Rules(o))}
    OBVIOUS
<1> QED BY <1>1, TheOne DEF PlanRecovery

\* plan_recovery proposes only actions the policy allows.
LEMMA PlanProposes ==
    ASSUME NEW o
    PROVE  PlanRecovery(o) \in Proposals(o.allowed)
<1> DEFINE s1 == ControlRules(o) \o OwnerRules(o) \o BudgetRules(o) \o RepairRules(o)
           s2 == ReadyRules(o)
           s3 == CauseRules(o)
           P == SUBSET Open(o)
<1>1. Holding(o) \subseteq Open(o)
    BY DEF Holding, Open, Proposals
<1>2. s1 \in Seq(SUBSET Holding(o)) /\ s2 \in Seq(P) /\ s3 \in Seq(P)
      /\ \E i \in 1 .. Len(s3) : s3[i] # {}
    BY TablesOfRules
<1>3. PlanRecovery(o) = FirstOf(s1 \o s2 \o s3)
    BY PlanIs DEF Rules
<1> HIDE DEF s1, s2, s3
<1>4. s1 \in Seq(P)
    BY <1>1, <1>2
<1> HIDE DEF P
<1>5. s1 \o s2 \in Seq(P)
    BY <1>2, <1>4, ConcatProperties
<1> DEFINE s == s1 \o s2
<1>6. s \in Seq(P) /\ PlanRecovery(o) = FirstOf(s \o s3)
    BY <1>3, <1>5
<1> HIDE DEF s
<1>7. /\ s \o s3 \in Seq(P)
      /\ Len(s \o s3) = Len(s) + Len(s3)
      /\ \A i \in 1 .. Len(s) + Len(s3) : (s \o s3)[i] = IF i <= Len(s) THEN s[i] ELSE s3[i - Len(s)]
    BY <1>2, <1>6, ConcatProperties
<1>8. \E i \in 1 .. Len(s \o s3) : (s \o s3)[i] # {}
    <2>1. PICK i \in 1 .. Len(s3) : s3[i] # {}
        BY <1>2
    <2>2. Len(s) \in Nat /\ Len(s3) \in Nat
        BY <1>2, <1>6
    <2>3. (s \o s3)[Len(s) + i] = s3[i] /\ Len(s) + i \in 1 .. Len(s \o s3)
        BY <1>7, <2>1, <2>2
    <2> QED BY <2>1, <2>3
<1>9. FirstOf(s \o s3) \in Open(o)
    BY <1>7, <1>8, FirstOfSome DEF P
<1> QED BY <1>6, <1>9 DEF Open

\* A linked repair that is not deployed keeps plan_recovery from proposing a
\* validation, a source recovery or a resume of its parent.
LEMMA RepairHoldsParent ==
    ASSUME NEW o, "repair_linked" \in o.facts, "repair_deployed" \notin o.facts
    PROVE  PlanRecovery(o).action \notin ParentActions
<1> DEFINE r == ControlRules(o) \o OwnerRules(o) \o BudgetRules(o)
           s == r \o RepairRules(o)
           t == ReadyRules(o) \o CauseRules(o)
           H == SUBSET Holding(o)
           P == SUBSET Open(o)
<1>1. s \in Seq(H) /\ ReadyRules(o) \in Seq(P) /\ CauseRules(o) \in Seq(P)
    BY TablesOfRules
<1>2. RepairRules(o) \in Seq(H) /\ RepairRules(o)[3] # {} /\ Len(RepairRules(o)) = 5
    <2>1. RepairRules(o)[3] # {} /\ Len(RepairRules(o)) = 5
        BY DEF RepairRules, Rule, Has
    <2> QED BY <2>1, HeldRules
<1>3. r \in Seq(H)
    <2>1. ControlRules(o) \in Seq(H) /\ OwnerRules(o) \in Seq(H) /\ BudgetRules(o) \in Seq(H)
        BY HeldRules
    <2> HIDE DEF H
    <2>2. ControlRules(o) \o OwnerRules(o) \in Seq(H)
        BY <2>1, ConcatProperties
    <2> QED BY <2>1, <2>2, ConcatProperties
<1>4. Rules(o) = s \o ReadyRules(o) \o CauseRules(o)
    BY DEF Rules
<1> HIDE DEF H, P, r
<1>5. \E i \in 1 .. Len(s) : s[i] # {}
    <2> DEFINE w == RepairRules(o)
    <2> HIDE DEF w
    <2>1. /\ Len(r \o w) = Len(r) + Len(w)
          /\ \A i \in 1 .. Len(r) + Len(w) : (r \o w)[i] = IF i <= Len(r) THEN r[i] ELSE w[i - Len(r)]
        BY <1>2, <1>3, ConcatProperties DEF w
    <2>2. Len(r) \in Nat /\ Len(w) = 5
        BY <1>2, <1>3 DEF w
    <2>3. s[Len(r) + 3] = RepairRules(o)[3] /\ Len(r) + 3 \in 1 .. Len(s)
        BY <2>1, <2>2 DEF w
    <2> QED BY <1>2, <2>3
<1> HIDE DEF s
<1>6. t \in Seq(P)
    BY <1>1, ConcatProperties
<1>7. Rules(o) = s \o t
    BY <1>1, <1>4, ConcatAssociative DEF H, P
<1> HIDE DEF t
<1>8. FirstOf(s \o t) \in Holding(o)
    <2>1. Holding(o) \subseteq Open(o)
        BY DEF Holding, Open, Proposals
    <2>2. s \in Seq(SUBSET Holding(o)) /\ t \in Seq(SUBSET Open(o))
        BY <1>1, <1>6 DEF H, P
    <2> QED BY <1>5, <2>1, <2>2, FirstOfBefore
<1>9. PlanRecovery(o) \in Holding(o)
    BY <1>7, <1>8, PlanIs
<1> QED BY <1>9 DEF Holding, Proposals, ParentActions, NoAction

---------------------------------------------------------------------------
(* Rows. *)

KeptFact == {"readiness_ready", "dependencies_ready", "validation_succeeded", "recovery_resumed",
             "repair_requested"}
Answer == {"ok", "failed", "rejected"}
Stage == Granted \cup {NoAction}

Tasks == [control : {"open", "paused", "cancelled"}, node : {"blocked", "queued", "running", "accepted"},
          attempt : Attempt, approval : BOOLEAN,
          failure : [category : Category, facts : SUBSET (Fact \ RelationFact)], audit : Nat, events : Nat]
Rows == [state : States, reason : Reason, action : Stage, auth : BOOLEAN, stage : Stage,
         tries : [Granted -> 0 .. MaxTries + 1], facts : SUBSET KeptFact, last : Stage,
         resting : BOOLEAN, late : BOOLEAN, aged : BOOLEAN, audits : Nat, notified : SUBSET Reason,
         owner : 0 .. MaxEpoch, live : BOOLEAN, seen : BOOLEAN, granted : BOOLEAN]
Intents == [state : {"none", "executing", "unknown", "completed"}, plan : {"none", "adapter", "preflight"},
            ok : Answer \cup {"none", "unknown"}]
Repairs == [linked : BOOLEAN, deployed : BOOLEAN,
            delivery : {"none", "pending", "accepted", "restarted", "verified"}]
Turns == [pc : {"idle", "claimed", "begun", "acted"}, key : Key \cup {<<>>}, existing : BOOLEAN,
          current : BOOLEAN, got : Answer \cup {"none", "unknown"}]

Types ==
    /\ task \in Tasks
    /\ policy \in [enabled : BOOLEAN, allowed : Grants]
    /\ episode \in [Attempt -> Rows]
    /\ intent \in [Key -> Intents]
    /\ repair \in [Attempt -> Repairs]
    /\ receipt \in [Key -> {"none", "ok", "failed"}]
    /\ effects \in [Key -> Nat]
    /\ turn \in [Epoch -> Turns]
    /\ epoch \in Epoch
    /\ lapsed \in BOOLEAN
    /\ \A e \in Epoch : turn[e].pc # "idle" => turn[e].key \in Key
    /\ \A e \in Epoch : e > epoch => turn[e] = IdleTurn

\* A row keeps the stage of the action it proposes and has told a person whom it asks.
GoodRow(row) ==
    /\ row.action # NoAction => row.stage = row.action
    /\ row.state = "needs_action" => row.reason \in row.notified

\* What the assumption says of the bounds and of the actions.
LEMMA Constants ==
    /\ MaxTries \in Nat \ {0} /\ MaxAttempt \in Nat \ {0} /\ MaxEpoch \in Nat \ {0}
    /\ Granted \subseteq RecoveryAction /\ NoAction \notin Granted
BY BoundsAssumption DEF Granted, RecoveryAction, NoAction

LEMMA DecidedIs ==
    ASSUME NEW row, NEW decision
    PROVE  Decided(row, decision) =
               Noticed([row EXCEPT !.state = decision.state, !.reason = decision.reason,
                                   !.action = decision.action, !.auth = decision.auth,
                                   !.stage = IF decision.action = NoAction THEN @ ELSE decision.action])
<1> DEFINE n(d) == Noticed([row EXCEPT !.state = d.state, !.reason = d.reason, !.action = d.action,
                             !.auth = d.auth, !.stage = IF d.action = NoAction THEN @ ELSE d.action])
<1>1. Decided(row, decision) = The({n(d) : d \in {decision}})
    BY DEF Decided
<1> HIDE DEF n
<1>2. {n(d) : d \in {decision}} = {n(decision)}
    OBVIOUS
<1>3. Decided(row, decision) = n(decision)
    BY <1>1, <1>2, TheOne
<1> QED BY <1>3 DEF n

\* A decision sets the columns it names and tells a person whom it asks.
LEMMA DecidedRow ==
    ASSUME NEW row \in Rows, NEW d \in Proposals(Granted)
    PROVE  /\ Decided(row, d) \in Rows
           /\ Decided(row, d).state = d.state
           /\ Decided(row, d).action = d.action
           /\ Decided(row, d).stage = IF d.action = NoAction THEN row.stage ELSE d.action
           /\ Decided(row, d).tries = row.tries
           /\ GoodRow(Decided(row, d))
<1> DEFINE r == [row EXCEPT !.state = d.state, !.reason = d.reason, !.action = d.action, !.auth = d.auth,
                        !.stage = IF d.action = NoAction THEN @ ELSE d.action]
<1>1. r \in Rows
    BY DEF Rows, Proposals, Stage
<1>2. /\ r.state = d.state /\ r.action = d.action /\ r.reason = d.reason
      /\ r.stage = (IF d.action = NoAction THEN row.stage ELSE d.action)
      /\ r.tries = row.tries
    BY DEF Rows
<1>3. Decided(row, d) = Noticed(r)
    BY DecidedIs
<1> HIDE DEF r
<1>4. /\ Noticed(r) \in Rows
      /\ Noticed(r).state = r.state /\ Noticed(r).action = r.action /\ Noticed(r).reason = r.reason
      /\ Noticed(r).stage = r.stage /\ Noticed(r).tries = r.tries
      /\ r.state = "needs_action" => r.reason \in Noticed(r).notified
    BY <1>1 DEF Noticed, Rows
<1> QED BY <1>2, <1>3, <1>4 DEF GoodRow

\* What a write leaves of the columns the decisions are made from.
Alike(r, row) ==
    r.state = row.state /\ r.reason = row.reason /\ r.action = row.action /\ r.stage = row.stage
    /\ r.tries = row.tries /\ r.notified = row.notified

\* The receipt changes the observation only.
LEMMA PatchedRow ==
    ASSUME NEW row \in Rows, NEW s \in Granted, NEW got
    PROVE  Patched(row, s, got) \in Rows /\ Alike(Patched(row, s, got), row)
<1> DEFINE gained == CASE s = "observe_readiness" /\ got = "ok" -> {"readiness_ready"}
                    [] s = "materialize_dependencies" /\ got = "ok" -> {"dependencies_ready"}
                    [] s = "narrow_validation" /\ got = "ok" -> {"validation_succeeded"}
                    [] s \in Resumes /\ got = "ok" -> {"recovery_resumed"}
                    [] s = "request_repair" /\ got = "ok" -> {"repair_requested"}
                    [] OTHER -> {}
           dropped == CASE s = "observe_readiness" /\ got # "unknown" -> {"readiness_ready"}
                     [] s = "materialize_dependencies" /\ got # "unknown" ->
                            {"readiness_ready", "dependencies_ready"}
                     [] OTHER -> {}
<1>1. gained \subseteq KeptFact
    BY DEF KeptFact, Resumes
<1>2. Patched(row, s, got) = [row EXCEPT !.facts = (@ \ dropped) \cup gained, !.last = s, !.resting = TRUE]
    BY DEF Patched
<1> HIDE DEF gained, dropped
<1> QED BY <1>1, <1>2 DEF Rows, Stage, Alike

\* A dispatched action counts once for its stage.
LEMMA CountedRow ==
    ASSUME NEW row \in Rows, NEW s \in Granted, row.tries[s] <= MaxTries, NEW dispatched \in BOOLEAN
    PROVE  /\ Counted(row, s, dispatched) \in Rows
           /\ Counted(row, s, dispatched).state = row.state
           /\ Counted(row, s, dispatched).stage = row.stage
           /\ Counted(row, s, dispatched).tries[s] \in {row.tries[s], row.tries[s] + 1}
           /\ dispatched => Counted(row, s, dispatched).tries[s] = row.tries[s] + 1
           /\ ~dispatched => Counted(row, s, dispatched).tries[s] = row.tries[s]
<1>1. row.tries \in [Granted -> 0 .. MaxTries + 1] /\ row.tries[s] \in 0 .. MaxTries + 1
    BY DEF Rows
<1>2. row.tries[s] + 1 \in 0 .. MaxTries + 1
    BY <1>1, Constants
<1>3. CASE dispatched
    <2> DEFINE r == [row EXCEPT !.tries[s] = @ + 1]
    <2>1. Counted(row, s, dispatched) = r
        BY <1>3 DEF Counted
    <2>2. r.tries = [row.tries EXCEPT ![s] = row.tries[s] + 1]
        BY DEF Rows
    <2>3. r.tries \in [Granted -> 0 .. MaxTries + 1] /\ r.tries[s] = row.tries[s] + 1
        BY <1>1, <1>2, <2>2
    <2>4. r \in Rows /\ r.state = row.state /\ r.stage = row.stage
        BY <1>1, <1>2, <2>3 DEF Rows
    <2> QED BY <1>3, <2>1, <2>3, <2>4
<1>4. CASE ~dispatched
    BY <1>4 DEF Counted
<1> QED BY <1>3, <1>4

\* Giving up the lease changes the lease only.
LEMMA UnleasedRow ==
    ASSUME NEW row \in Rows
    PROVE  Unleased(row) \in Rows /\ Alike(Unleased(row), row)
<1>1. 0 \in 0 .. MaxEpoch
    BY Constants
<1>2. Unleased(row) \in Rows
    BY <1>1 DEF Unleased, Rows
<1>3. Alike(Unleased(row), row)
    BY DEF Unleased, Rows, Alike
<1> QED BY <1>2, <1>3

\* A settled row shows the decision and keeps a stage for it.
LEMMA SettledRow ==
    ASSUME NEW row \in Rows, NEW s \in Granted, NEW d \in Proposals(Granted)
    PROVE  /\ Settled(row, s, d) \in Rows
           /\ GoodRow(Settled(row, s, d))
           /\ Settled(row, s, d).state = d.state
           /\ Settled(row, s, d).action = d.action
           /\ Settled(row, s, d).tries = row.tries
<1> DEFINE u == Decided(Unleased(row), d)
<1>1. /\ u \in Rows /\ u.state = d.state /\ u.action = d.action /\ u.tries = row.tries /\ GoodRow(u)
      /\ d.action # NoAction => u.stage = d.action
    BY UnleasedRow, DecidedRow DEF Alike
<1>2. Settled(row, s, d) = [u EXCEPT !.stage = IF d.action = NoAction THEN s ELSE @]
    BY DEF Settled
<1> HIDE DEF u
<1> QED BY <1>1, <1>2 DEF Rows, Stage, GoodRow

---------------------------------------------------------------------------
(* Decisions. *)

Unheld(a) == ~repair[a].linked \/ EnqueueRejected(a) \/ repair[a].deployed

\* An observation shows what the policy allows.
LEMMA ObservedPlan ==
    ASSUME NEW a, NEW row
    PROVE  Observed(a, row).allowed = policy.allowed
BY DEF Observed

LEMMA DecideIs ==
    ASSUME NEW a, NEW row
    PROVE  Decide(a, row) = Replanned(PlanRecovery(Observed(a, row)), Observed(a, row), row)
<1> DEFINE o == Observed(a, row)
<1>1. {DecisionOf(x, row) : x \in {o}} = {DecisionOf(o, row)}
    OBVIOUS
<1>2. {Replanned(first, o, row) : first \in {PlanRecovery(o)}} = {Replanned(PlanRecovery(o), o, row)}
    OBVIOUS
<1>3. Decide(a, row) = DecisionOf(o, row)
    BY <1>1, TheOne DEF Decide
<1>4. DecisionOf(o, row) = Replanned(PlanRecovery(o), o, row)
    BY <1>2, TheOne DEF DecisionOf
<1> QED BY <1>3, <1>4

\* A decision proposes only actions the policy allows.
LEMMA DecideProposes ==
    ASSUME Types, NEW a, NEW row
    PROVE  Decide(a, row) \in Proposals(policy.allowed)
<1> DEFINE o == Observed(a, row)
           first == PlanRecovery(o)
           stage == IF first.action # NoAction THEN first.action ELSE row.stage
           tried == IF stage = NoAction THEN 0 ELSE row.tries[stage]
           o2 == [o EXCEPT !.spent = tried >= MaxTries,
                           !.resting = IF row.resting /\ tried > 0 THEN row.last ELSE NoAction]
<1>1. o.allowed = policy.allowed /\ o2.allowed = policy.allowed
    BY DEF Observed
<1>2. first \in Proposals(policy.allowed) /\ PlanRecovery(o2) \in Proposals(policy.allowed)
    BY <1>1, PlanProposes
<1>3. Resolve("original_node_resumed") \in Proposals(policy.allowed)
    BY ReplyProposes DEF Reason
<1>4. Decide(a, row) \in {first, PlanRecovery(o2), Resolve("original_node_resumed")}
    BY DecideIs DEF Replanned
<1> QED BY <1>2, <1>3, <1>4

\* A decision proposes nothing for the parent of a repair that holds it.
LEMMA DecideWaits ==
    ASSUME Types, NEW a \in Attempt, NEW row, row.facts \subseteq KeptFact, ~Unheld(a)
    PROVE  Decide(a, row).action \notin ParentActions
<1> DEFINE o == Observed(a, row)
           first == PlanRecovery(o)
           stage == IF first.action # NoAction THEN first.action ELSE row.stage
           tried == IF stage = NoAction THEN 0 ELSE row.tries[stage]
           o2 == [o EXCEPT !.spent = tried >= MaxTries,
                           !.resting = IF row.resting /\ tried > 0 THEN row.last ELSE NoAction]
<1>1. "repair_linked" \in o.facts /\ "repair_deployed" \notin o.facts
    BY DEF Observed, Unheld, Types, Tasks, RelationFact, KeptFact
<1>2. o2.facts = o.facts
    BY DEF Observed
<1>3. first.action \notin ParentActions /\ PlanRecovery(o2).action \notin ParentActions
    <2> HIDE DEF o, o2
    <2> QED BY <1>1, <1>2, RepairHoldsParent DEF first
<1>4. Resolve("original_node_resumed").action \notin ParentActions
    BY DEF Resolve, Result, ParentActions, NoAction
<1>5. Decide(a, row) \in {first, PlanRecovery(o2), Resolve("original_node_resumed")}
    BY DecideIs DEF Replanned
<1> QED BY <1>3, <1>4, <1>5

\* What the policy allows is granted.
LEMMA AllowedGranted == ASSUME Types PROVE Proposals(policy.allowed) \subseteq Proposals(Granted)
BY DEF Types, Granted, Proposals

\* A proposal for a row of an attempt that is known not to be buried or to overtake a repair.
Fits(a, row) == GoodRow(row) /\ (row.state = "ready" /\ row.action \in ParentActions => Unheld(a))

\* The row of a new episode fits its attempt.
LEMMA RecordedRow ==
    ASSUME Types, NEW a \in Attempt
    PROVE  Recorded(a) \in Rows /\ Fits(a, Recorded(a))
<1> DEFINE fresh == [NoEpisode EXCEPT !.seen = TRUE, !.granted = TRUE, !.audits = task.audit]
<1>1. fresh \in Rows
    <2>1. 0 \in 0 .. MaxEpoch /\ 0 \in 0 .. MaxTries + 1
        BY Constants
    <2>2. NoEpisode \in Rows
        BY <2>1 DEF NoEpisode, Rows, States, Reason, Stage
    <2>3. task.audit \in Nat
        BY DEF Types, Tasks
    <2> HIDE DEF NoEpisode
    <2> QED BY <2>2, <2>3 DEF Rows
<1> HIDE DEF fresh
<1> DEFINE d == Decide(a, fresh)
<1>2. d \in Proposals(Granted)
    BY DecideProposes, AllowedGranted
<1>3. ~Unheld(a) => d.action \notin ParentActions
    <2>1. fresh.facts \subseteq KeptFact
        BY <1>1 DEF Rows
    <2> QED BY <2>1, DecideWaits
<1>4. Recorded(a) = Decided(fresh, d)
    BY DEF Recorded, fresh
<1> HIDE DEF d
<1>5. Decided(fresh, d) \in Rows /\ GoodRow(Decided(fresh, d)) /\ Decided(fresh, d).action = d.action
    BY <1>1, <1>2, DecidedRow
<1> QED BY <1>3, <1>4, <1>5 DEF Fits

\* So does the row that is observed again.
LEMMA UpdatedRow ==
    ASSUME Types, NEW a \in Attempt, NEW event \in BOOLEAN, Fits(a, episode[a])
    PROVE  Updated(a, event) \in Rows /\ Fits(a, Updated(a, event))
<1> DEFINE row == episode[a]
           evidence == task.audit > row.audits
           changed == evidence \/ event \/ ~row.seen \/ ~row.granted
           base == [row EXCEPT !.audits = task.audit, !.late = @ /\ ~evidence,
                            !.seen = TRUE, !.granted = TRUE]
           d == IF base.late THEN BudgetExhausted ELSE Decide(a, base)
<1>1. Updated(a, event) \in {Decided(base, d), base}
    BY DEF Updated
<1>2. row \in Rows /\ task.audit \in Nat
    BY DEF Types, Tasks
<1>3. PICK late \in BOOLEAN : base = [row EXCEPT !.audits = task.audit, !.late = late, !.seen = TRUE, !.granted = TRUE]
    BY <1>2 DEF Rows
<1>4. base \in Rows /\ Alike(base, row)
    <2> HIDE DEF base, row
    <2>1. base \in Rows
        BY <1>2, <1>3 DEF Rows
    <2>2. Alike(base, row)
        BY <1>2, <1>3 DEF Rows, Alike
    <2> QED BY <2>1, <2>2
<1> HIDE DEF base
<1>5. Fits(a, base)
    BY <1>4 DEF Fits, GoodRow, Alike
<1>6. BudgetExhausted \in Proposals(Granted) /\ BudgetExhausted.action \notin ParentActions
    <2>1. BudgetExhausted \in Proposals(Granted)
        BY ReplyProposes DEF BudgetExhausted, Reason
    <2> QED BY <2>1 DEF BudgetExhausted, Report, Result, NoAction, ParentActions
<1>7. Decide(a, base) \in Proposals(Granted)
    BY DecideProposes, AllowedGranted
<1>8. ~Unheld(a) => Decide(a, base).action \notin ParentActions
    <2>1. base.facts \subseteq KeptFact
        BY <1>4 DEF Rows
    <2> QED BY <2>1, DecideWaits
<1>9. d \in Proposals(Granted) /\ (~Unheld(a) => d.action \notin ParentActions)
    BY <1>6, <1>7, <1>8
<1> HIDE DEF d
<1>10. Decided(base, d) \in Rows /\ GoodRow(Decided(base, d)) /\ Decided(base, d).action = d.action
    BY <1>4, <1>9, DecidedRow
<1>11. Fits(a, Decided(base, d))
    BY <1>9, <1>10 DEF Fits
<1> QED BY <1>1, <1>4, <1>5, <1>10, <1>11

\* The row of a repair that was verified proposes no action.
LEMMA DeployedRow ==
    ASSUME NEW row \in Rows, NEW fresh \in BOOLEAN
    PROVE  /\ Deployed(row, fresh) \in Rows /\ GoodRow(Deployed(row, fresh))
           /\ Deployed(row, fresh).action = NoAction
<1> DEFINE facts == (row.facts \ {"validation_succeeded", "readiness_ready"})
                 \cup (IF fresh THEN {"readiness_ready"} ELSE {})
           s == Decided(row, Suspend("user_pause"))
           w == Decided(row, Wait("fresh_readiness_required"))
<1>1. facts \subseteq KeptFact
    BY DEF Rows, KeptFact
<1>2. /\ Suspend("user_pause") \in Proposals(Granted)
      /\ Wait("fresh_readiness_required") \in Proposals(Granted)
    BY ReplyProposes DEF Reason
<1>3. /\ s \in Rows /\ GoodRow(s) /\ w \in Rows /\ GoodRow(w)
    BY <1>2, DecidedRow
<1>4. Deployed(row, fresh) = IF Fenced THEN [s EXCEPT !.facts = facts, !.action = NoAction]
                             ELSE [w EXCEPT !.facts = facts, !.late = FALSE, !.action = NoAction]
    BY DEF Deployed
<1> HIDE DEF s, w, facts
<1>5. /\ [s EXCEPT !.facts = facts, !.action = NoAction] \in Rows
      /\ [s EXCEPT !.facts = facts, !.action = NoAction].action = NoAction
      /\ GoodRow([s EXCEPT !.facts = facts, !.action = NoAction])
    BY <1>1, <1>3 DEF Rows, GoodRow, Stage
<1>6. /\ [w EXCEPT !.facts = facts, !.late = FALSE, !.action = NoAction] \in Rows
      /\ [w EXCEPT !.facts = facts, !.late = FALSE, !.action = NoAction].action = NoAction
      /\ GoodRow([w EXCEPT !.facts = facts, !.late = FALSE, !.action = NoAction])
    BY <1>1, <1>3 DEF Rows, GoodRow, Stage
<1> QED BY <1>4, <1>5, <1>6

\* Nor does that of a superseded attempt.
LEMMA SupersededRow ==
    ASSUME NEW row \in Rows
    PROVE  LET r == [Unleased(Decided(row, Resolve("attempt_superseded"))) EXCEPT !.stage = NoAction, !.seen = TRUE]
           IN r \in Rows /\ GoodRow(r) /\ r.action = NoAction
<1> DEFINE d == Decided(row, Resolve("attempt_superseded"))
           u == Unleased(d)
<1>1. /\ Resolve("attempt_superseded") \in Proposals(Granted)
      /\ Resolve("attempt_superseded").action = NoAction
      /\ Resolve("attempt_superseded").state = "resolved"
    <2>1. Resolve("attempt_superseded") \in Proposals(Granted)
        BY ReplyProposes DEF Reason
    <2> QED BY <2>1 DEF Resolve, Result
<1>2. d \in Rows /\ d.action = NoAction /\ d.state = "resolved"
    BY <1>1, DecidedRow
<1> HIDE DEF d
<1>3. u \in Rows /\ u.action = NoAction /\ u.state = "resolved"
    BY <1>2, UnleasedRow DEF Alike
<1> HIDE DEF u
<1>4. [u EXCEPT !.stage = NoAction, !.seen = TRUE] \in Rows
    BY <1>3 DEF Rows, Stage
<1>5. GoodRow([u EXCEPT !.stage = NoAction, !.seen = TRUE]) /\ [u EXCEPT !.stage = NoAction, !.seen = TRUE].action = NoAction
    BY <1>3 DEF Rows, GoodRow
<1> QED BY <1>4, <1>5 DEF d, u

---------------------------------------------------------------------------
(* The inductive invariant. *)

RowsGood == \A a \in Attempt : GoodRow(episode[a])

\* An intent whose outcome is open is the one the row of its attempt waits for.
IntentOf(k) ==
    /\ intent[k].state \in {"none", "executing"} => intent[k].ok = "none"
    /\ intent[k].state = "unknown" => intent[k].ok = "unknown"
    /\ intent[k].state = "completed" => intent[k].ok \in Answer
    /\ intent[k].state = "executing" =>
          /\ episode[k[1]].state \in {"ready", "suspended"}
          /\ episode[k[1]].stage = k[2]
          /\ k[3] = episode[k[1]].tries[k[2]] + 1
    /\ intent[k].state = "unknown" =>
          /\ episode[k[1]].state \in {"needs_action", "suspended"}
          /\ episode[k[1]].tries[k[2]] <= k[3]
IntentsFit == \A k \in Key : IntentOf(k)

OneUnsettled ==
    \A j, k \in Key : j[1] = k[1] /\ intent[j].state \in Unsettled /\ intent[k].state \in Unsettled => j = k

\* The turn of the active coordinator holds the row it claimed.
TurnHolds ==
    turn[epoch].pc # "idle" =>
        LET k == turn[epoch].key
        IN /\ episode[k[1]].state = "ready" /\ episode[k[1]].action # NoAction
           /\ k[2] = episode[k[1]].stage /\ k[3] = episode[k[1]].tries[k[2]] + 1

\* The turns whose adapter may still act.
Dispatching(e) == turn[e].pc = "begun" /\ ~turn[e].existing
Truly(k, got) == effects[k] = IF got = "ok" THEN 1 ELSE 0

DispatchedOnce ==
    /\ \A e \in Epoch : turn[e].pc \in {"begun", "acted"} => intent[turn[e].key].state # "none"
    /\ \A e \in Epoch : Dispatching(e) =>
          /\ intent[turn[e].key].state \in Unsettled
          /\ effects[turn[e].key] = 0 /\ receipt[turn[e].key] = "none"
    /\ \A e, f \in Epoch : Dispatching(e) /\ Dispatching(f) /\ turn[e].key = turn[f].key => e = f
    /\ \A k \in Key : intent[k].state = "none" => effects[k] = 0 /\ receipt[k] = "none"
    /\ \A k \in Key : effects[k] \in 0 .. 1

OutcomesTrue ==
    /\ \A k \in Key : intent[k].state = "completed" => Truly(k, intent[k].ok)
    /\ \A k \in Key : receipt[k] # "none" => Truly(k, receipt[k])
    /\ \A e \in Epoch : turn[e].pc = "acted" =>
          /\ turn[e].got # "none"
          /\ turn[e].got # "unknown" =>
                /\ Truly(turn[e].key, turn[e].got)
                /\ \A f \in Epoch : Dispatching(f) => turn[f].key # turn[e].key

ParentsWait ==
    /\ \A a \in Attempt : episode[a].state = "ready" /\ episode[a].action \in ParentActions => Unheld(a)
    /\ \A e \in Epoch : Dispatching(e) /\ turn[e].key[2] \in ParentActions => Unheld(turn[e].key[1])

IInv ==
    /\ Types
    /\ RowsGood
    /\ IntentsFit
    /\ OneUnsettled
    /\ TurnHolds
    /\ DispatchedOnce
    /\ OutcomesTrue
    /\ ParentsWait

\* The initial states satisfy the invariant.
LEMMA Initially == Init => IInv
<1> SUFFICES ASSUME Init PROVE IInv
    OBVIOUS
<1>1. 0 \in 0 .. MaxEpoch /\ 0 \in 0 .. MaxTries + 1 /\ 1 \in Attempt /\ 1 \in Epoch
    BY Constants DEF Attempt, Epoch
<1>2. NoEpisode \in Rows /\ GoodRow(NoEpisode) /\ NoEpisode.state = "none"
    BY <1>1 DEF NoEpisode, Rows, States, Reason, Stage, GoodRow
<1>3. Types
    <2>1. task \in Tasks
        <3>1. Failure \subseteq [category : Category, facts : SUBSET (Fact \ RelationFact)]
            BY BoundsAssumption
        <3>2. task \in [control : {"open"}, node : {"blocked"}, attempt : {1}, approval : {FALSE},
                        failure : Failure, audit : {0}, events : {0}]
            BY DEF Init
        <3> DEFINE F == [category : Category, facts : SUBSET (Fact \ RelationFact)]
        <3>3. Failure \subseteq F
            BY <3>1
        <3> HIDE DEF F
        <3>4. task \in [control : {"open"}, node : {"blocked"}, attempt : {1}, approval : BOOLEAN,
                        failure : F, audit : {0}, events : {0}]
            BY <3>2, <3>3
        <3>5. task \in [control : {"open"}, node : {"blocked"}, attempt : Attempt, approval : BOOLEAN,
                        failure : F, audit : Nat, events : Nat]
            BY <1>1, <3>4
        <3>6. task \in [control : {"open", "paused", "cancelled"},
                        node : {"blocked", "queued", "running", "accepted"},
                        attempt : Attempt, approval : BOOLEAN, failure : F, audit : Nat, events : Nat]
            BY <3>5
        <3> QED BY <3>6 DEF Tasks, F
    <2>2. policy \in [enabled : BOOLEAN, allowed : Grants]
        BY DEF Init
    <2>3. episode \in [Attempt -> Rows]
        BY <1>2 DEF Init
    <2>4. intent \in [Key -> Intents]
        BY DEF Init, NoIntent, Intents
    <2>5. repair \in [Attempt -> Repairs]
        BY DEF Init, Repairs
    <2>6. turn \in [Epoch -> Turns] /\ \A e \in Epoch : turn[e] = IdleTurn /\ turn[e].pc = "idle"
        BY DEF Init, IdleTurn, Turns
    <2> QED BY <1>1, <2>1, <2>2, <2>3, <2>4, <2>5, <2>6 DEF Init, Types
<1>4. \A e \in Epoch : turn[e].pc = "idle"
    BY DEF Init, IdleTurn
<1>5. \A k \in Key : intent[k].state = "none" /\ intent[k].ok = "none"
    BY DEF Init, NoIntent
<1>6. \A a \in Attempt : episode[a] = NoEpisode
    BY DEF Init
<1>7. RowsGood
    BY <1>2, <1>6 DEF RowsGood
<1>8. IntentsFit /\ OneUnsettled
    BY <1>5 DEF IntentsFit, IntentOf, OneUnsettled, Unsettled
<1>9. TurnHolds
    BY <1>1, <1>4 DEF TurnHolds, Init
<1>10. DispatchedOnce
    BY <1>4, <1>5 DEF DispatchedOnce, Dispatching, Init
<1>11. OutcomesTrue
    BY <1>4, <1>5 DEF OutcomesTrue, Init
<1>12. ParentsWait
    BY <1>2, <1>4, <1>6 DEF ParentsWait, Dispatching
<1> QED BY <1>3, <1>7, <1>8, <1>9, <1>10, <1>11, <1>12 DEF IInv

---------------------------------------------------------------------------
(* What steps leave alone. *)

SameRows == \A a \in Attempt : Alike(episode'[a], episode[a])
SameTurn(e) ==
    /\ turn'[e].pc = turn[e].pc /\ turn'[e].key = turn[e].key
    /\ turn'[e].existing = turn[e].existing /\ turn'[e].got = turn[e].got
SameTurns == \A e \in Epoch : SameTurn(e)
SameIntents == intent' = intent /\ effects' = effects /\ receipt' = receipt
SameRelation == policy'.allowed = policy.allowed /\ \A a \in Attempt : repair'[a].linked = repair[a].linked /\ repair'[a].deployed = repair[a].deployed

\* Whether the request for a repair was rejected is read from the intents.
LEMMA RejectedSame ==
    ASSUME intent' = intent, policy'.allowed = policy.allowed, NEW a \in Attempt
    PROVE  EnqueueRejected(a)' <=> EnqueueRejected(a)
BY DEF EnqueueRejected

\* Steps that leave the rows' decisions, the turns and the intents alone.
LEMMA SilentSteps ==
    ASSUME IInv, Types', SameRows, SameTurns, SameIntents, epoch' = epoch, ParentsWait'
    PROVE  IInv'
<1>1. RowsGood'
    BY DEF IInv, RowsGood, GoodRow, SameRows, Alike
<1>2. IntentsFit'
    <2> SUFFICES ASSUME NEW k \in Key PROVE IntentOf(k)'
        BY DEF IntentsFit
    <2>1. k[1] \in Attempt
        BY DEF Key
    <2>2. IntentOf(k)
        BY DEF IInv, IntentsFit
    <2> QED BY <2>1, <2>2 DEF IntentOf, SameRows, Alike, SameIntents
<1>3. OneUnsettled'
    BY DEF IInv, OneUnsettled, SameIntents
<1>4. TurnHolds'
    <2>1. epoch \in Epoch /\ (turn[epoch].pc # "idle" => turn[epoch].key \in Key)
        BY DEF IInv, Types
    <2>2. turn[epoch].pc # "idle" => turn[epoch].key[1] \in Attempt
        BY <2>1 DEF Key
    <2> QED BY <2>1, <2>2 DEF IInv, TurnHolds, SameTurns, SameTurn, SameRows, Alike
<1>5. \A e \in Epoch : Dispatching(e)' <=> Dispatching(e)
    BY DEF Dispatching, SameTurns, SameTurn
<1>6. DispatchedOnce'
    BY <1>5 DEF IInv, DispatchedOnce, SameTurns, SameTurn, SameIntents
<1>7. OutcomesTrue'
    BY <1>5 DEF IInv, OutcomesTrue, Truly, SameTurns, SameTurn, SameIntents
<1> QED BY <1>1, <1>2, <1>3, <1>4, <1>6, <1>7 DEF IInv

\* If they leave the repair relation alone too, no parent is released or held.
LEMMA QuietSteps ==
    ASSUME IInv, Types', SameRows, SameTurns, SameIntents, SameRelation, epoch' = epoch
    PROVE  IInv'
<1>1. \A e \in Epoch : Dispatching(e)' <=> Dispatching(e)
    BY DEF Dispatching, SameTurns, SameTurn
<1>2. \A a \in Attempt : Unheld(a)' <=> Unheld(a)
    BY RejectedSame DEF Unheld, SameRelation, SameIntents
<1>3. ParentsWait'
    <2>1. \A e \in Epoch : Dispatching(e) => turn[e].key \in Key /\ turn[e].key[1] \in Attempt
        BY DEF IInv, Types, Dispatching, Key
    <2> QED BY <1>1, <1>2, <2>1 DEF IInv, ParentsWait, SameTurns, SameTurn, SameRows, Alike
<1> QED BY <1>3, SilentSteps

\* What Types says of the turns.
TurnsTyped ==
    /\ turn \in [Epoch -> Turns]
    /\ \A e \in Epoch : turn[e].pc # "idle" => turn[e].key \in Key
    /\ \A e \in Epoch : e > epoch => turn[e] = IdleTurn

\* Dating what was read before changes no decision and no turn's progress.
LEMMA OutdatedRows ==
    ASSUME Types, NEW field \in {"seen", "granted"}, Outdated(field), epoch' = epoch
    PROVE  episode' \in [Attempt -> Rows] /\ TurnsTyped' /\ SameRows /\ SameTurns
<1>1. \A a \in Attempt : [episode[a] EXCEPT ![field] = FALSE] \in Rows /\ Alike([episode[a] EXCEPT ![field] = FALSE], episode[a])
    <2> SUFFICES ASSUME NEW row \in Rows
                 PROVE  [row EXCEPT ![field] = FALSE] \in Rows /\ Alike([row EXCEPT ![field] = FALSE], row)
        BY DEF Types
    <2>1. CASE field = "seen"
        <3>1. [row EXCEPT ![field] = FALSE] \in Rows
            BY <2>1 DEF Rows
        <3>2. Alike([row EXCEPT ![field] = FALSE], row)
            BY <2>1 DEF Rows, Alike
        <3> QED BY <3>1, <3>2
    <2>2. CASE field = "granted"
        <3>1. [row EXCEPT ![field] = FALSE] \in Rows
            BY <2>2 DEF Rows
        <3>2. Alike([row EXCEPT ![field] = FALSE], row)
            BY <2>2 DEF Rows, Alike
        <3> QED BY <3>1, <3>2
    <2> QED BY <2>1, <2>2
<1>2. episode' \in [Attempt -> Rows] /\ SameRows
    BY <1>1 DEF Outdated, SameRows
<1>3. \A e \in Epoch : turn'[e] = [turn[e] EXCEPT !.current = FALSE] /\ turn'[e] \in Turns /\ SameTurn(e)
    BY DEF Outdated, Types, Turns, SameTurn
<1>4. turn' \in [Epoch -> Turns]
    <2> DEFINE dated(t) == [t EXCEPT !.current = FALSE]
    <2>1. turn' = [e \in Epoch |-> dated(turn[e])]
        BY DEF Outdated
    <2>2. \A t \in Turns : dated(t) \in Turns
        BY DEF Turns
    <2> HIDE DEF dated
    <2>3. \A e \in Epoch : turn[e] \in Turns
        BY DEF Types
    <2> QED BY <2>1, <2>2, <2>3
<1>5. [IdleTurn EXCEPT !.current = FALSE] = IdleTurn
    <2>1. IdleTurn.current = FALSE
        BY DEF IdleTurn
    <2>2. IdleTurn \in Turns
        BY DEF IdleTurn, Turns
    <2>3. \A t \in Turns : t.current = FALSE => [t EXCEPT !.current = FALSE] = t
        BY DEF Turns
    <2> QED BY <2>1, <2>2, <2>3
<1>6. TurnsTyped'
    BY <1>3, <1>4, <1>5 DEF Types, TurnsTyped, SameTurn
<1> QED BY <1>2, <1>3, <1>6 DEF SameTurns

\* The records of the task.
LEMMA TaskTyped == ASSUME Types PROVE task \in Tasks
BY DEF Types

\* An event advances the task's audit alone.
LEMMA EventTyped == ASSUME NEW t \in Tasks, Event(t) PROVE task' \in Tasks
BY DEF Event, Tasks

\* The types after a step that leaves the intents and the epoch alone.
LEMMA QuietTyped ==
    ASSUME Types, task' \in Tasks, policy' \in [enabled : BOOLEAN, allowed : Grants],
           episode' \in [Attempt -> Rows], repair' \in [Attempt -> Repairs], lapsed' \in BOOLEAN,
           TurnsTyped', SameIntents, epoch' = epoch
    PROVE  Types'
BY DEF Types, TurnsTyped, SameIntents

\* Turns that do not change keep their types.
LEMMA TurnsKept == ASSUME Types, turn' = turn, epoch' = epoch PROVE TurnsTyped' /\ SameTurns
BY DEF Types, TurnsTyped, SameTurns, SameTurn

\* So do rows.
LEMMA RowsKept == ASSUME Types, episode' = episode PROVE episode' \in [Attempt -> Rows] /\ SameRows
BY DEF Types, SameRows, Alike

\* A lease, a deadline or a backoff runs out.
LEMMA ClockKeeps ==
    ASSUME IInv, NEW a \in Attempt, LeaseLapses(a) \/ DeadlinePasses(a) \/ BackoffEnds(a)
    PROVE  IInv'
<1>1. Types /\ episode[a] \in Rows
    BY DEF IInv, Types
<1>2. task' \in Tasks /\ lapsed' \in BOOLEAN
    BY <1>1, EventTyped DEF LeaseLapses, DeadlinePasses, BackoffEnds, Types
<1>3. UNCHANGED <<policy, intent, repair, receipt, effects, turn, epoch>>
    BY DEF LeaseLapses, DeadlinePasses, BackoffEnds
<1>4. PICK row \in Rows : Alike(row, episode[a]) /\ episode' = [episode EXCEPT ![a] = row]
    <2>1. CASE LeaseLapses(a)
        <3>1. [episode[a] EXCEPT !.live = FALSE] \in Rows
            BY <1>1 DEF Rows
        <3>2. Alike([episode[a] EXCEPT !.live = FALSE], episode[a])
            BY <1>1 DEF Rows, Alike
        <3>3. episode' = [episode EXCEPT ![a] = [episode[a] EXCEPT !.live = FALSE]]
            BY <2>1 DEF LeaseLapses
        <3> QED BY <3>1, <3>2, <3>3
    <2>2. CASE DeadlinePasses(a)
        <3> DEFINE r == [episode[a] EXCEPT !.late = TRUE, !.aged = TRUE]
        <3>1. r \in Rows
            BY <1>1 DEF Rows
        <3>2. Alike(r, episode[a])
            BY <1>1 DEF Rows, Alike
        <3>3. episode' = [episode EXCEPT ![a] = r]
            BY <2>2 DEF DeadlinePasses
        <3> HIDE DEF r
        <3> QED BY <3>1, <3>2, <3>3
    <2>3. CASE BackoffEnds(a)
        <3>1. [episode[a] EXCEPT !.resting = FALSE] \in Rows
            BY <1>1 DEF Rows
        <3>2. Alike([episode[a] EXCEPT !.resting = FALSE], episode[a])
            BY <1>1 DEF Rows, Alike
        <3>3. episode' = [episode EXCEPT ![a] = [episode[a] EXCEPT !.resting = FALSE]]
            BY <2>3 DEF BackoffEnds
        <3> QED BY <3>1, <3>2, <3>3
    <2> QED BY <2>1, <2>2, <2>3
<1>5. episode' \in [Attempt -> Rows] /\ SameRows
    BY <1>1, <1>4 DEF Types, SameRows, Alike
<1>6. TurnsTyped' /\ SameTurns /\ SameIntents /\ SameRelation
    BY <1>1, <1>3, TurnsKept DEF SameIntents, SameRelation
<1>7. Types'
    BY <1>1, <1>2, <1>3, <1>5, <1>6, QuietTyped DEF Types
<1> QED BY <1>3, <1>5, <1>6, <1>7, QuietSteps

\* The scheduler starts the node, its worker ends.
LEMMA WorkerKeeps == IInv /\ Worker => IInv'
<1> SUFFICES ASSUME IInv, Worker PROVE IInv'
    OBVIOUS
<1>1. Types /\ Outdated("seen") /\ UNCHANGED <<policy, intent, repair, receipt, effects, epoch, lapsed>>
    BY DEF IInv, Worker, WorkerStarts, WorkerEnds
<1>2. task' \in Tasks
    <2>1. CASE WorkerStarts
        <3>1. task.attempt \in Attempt /\ task.attempt < MaxAttempt /\ MaxAttempt \in Nat
            BY <1>1, <2>1, Constants DEF WorkerStarts, Types, Tasks
        <3>2. task.attempt + 1 \in Attempt
            BY <3>1 DEF Attempt
        <3>3. task' = [task EXCEPT !.node = "running", !.attempt = @ + 1, !.audit = 0]
            BY <2>1 DEF WorkerStarts
        <3> QED BY <1>1, <3>2, <3>3 DEF Types, Tasks
    <2>2. CASE WorkerEnds
        <3>1. task' = [task EXCEPT !.node = "accepted"]
              \/ \E f \in Failure : task' = [task EXCEPT !.node = "blocked", !.failure = f]
            BY <2>2 DEF WorkerEnds
        <3>2. \A f \in Failure : f \in [category : Category, facts : SUBSET (Fact \ RelationFact)]
            BY BoundsAssumption
        <3> QED BY <1>1, <3>1, <3>2 DEF Types, Tasks
    <2> QED BY <2>1, <2>2 DEF Worker
<1>3. episode' \in [Attempt -> Rows] /\ TurnsTyped' /\ SameRows /\ SameTurns
    BY <1>1, OutdatedRows
<1>4. SameIntents /\ SameRelation
    BY <1>1 DEF SameIntents, SameRelation
<1>5. Types'
    BY <1>1, <1>2, <1>3, <1>4, QuietTyped DEF Types
<1> QED BY <1>1, <1>3, <1>4, <1>5, QuietSteps

\* The operator pauses, cancels, resumes, approves or retries.
LEMMA OperatorKeeps == IInv /\ Operator => IInv'
<1> SUFFICES ASSUME IInv, Operator PROVE IInv'
    OBVIOUS
<1>1. Types /\ Outdated("seen") /\ UNCHANGED <<policy, intent, repair, receipt, effects, epoch, lapsed>>
    BY DEF IInv, Operator
<1>2. \A c \in {"open", "paused", "cancelled"} : [task EXCEPT !.control = c] \in Tasks
    BY <1>1 DEF Types, Tasks
<1>3. [task EXCEPT !.approval = ~@] \in Tasks /\ [task EXCEPT !.node = "queued"] \in Tasks
    BY <1>1 DEF Types, Tasks
<1>4. PICK t \in Tasks : Event(t)
    BY <1>2, <1>3 DEF Operator
<1>5. task' \in Tasks
    BY <1>4, EventTyped
<1>6. episode' \in [Attempt -> Rows] /\ TurnsTyped' /\ SameRows /\ SameTurns
    BY <1>1, OutdatedRows
<1>7. SameIntents /\ SameRelation
    BY <1>1 DEF SameIntents, SameRelation
<1>8. Types'
    BY <1>1, <1>5, <1>6, <1>7, QuietTyped DEF Types
<1> QED BY <1>1, <1>6, <1>7, <1>8, QuietSteps

\* The policy is switched on or off.
LEMMA PolicyKeeps == IInv /\ ConfigurePolicy => IInv'
<1> SUFFICES ASSUME IInv, ConfigurePolicy PROVE IInv'
    OBVIOUS
<1>1. Types /\ Outdated("granted") /\ UNCHANGED <<intent, repair, receipt, effects, epoch, lapsed>>
    BY DEF IInv, ConfigurePolicy
<1>2. task' \in Tasks
    BY <1>1, TaskTyped, EventTyped DEF ConfigurePolicy
<1>3. policy' \in [enabled : BOOLEAN, allowed : Grants] /\ policy'.allowed = policy.allowed
    BY <1>1 DEF Types, ConfigurePolicy
<1>4. episode' \in [Attempt -> Rows] /\ TurnsTyped' /\ SameRows /\ SameTurns
    BY <1>1, OutdatedRows
<1>5. SameIntents /\ SameRelation
    BY <1>1, <1>3 DEF SameIntents, SameRelation
<1>6. Types'
    BY <1>1, <1>2, <1>3, <1>4, <1>5, QuietTyped DEF Types
<1> QED BY <1>1, <1>4, <1>5, <1>6, QuietSteps

\* A controlled write to the source.
LEMMA WriteKeeps == IInv /\ ControlledWrite => IInv'
<1> SUFFICES ASSUME IInv, ControlledWrite PROVE IInv'
    OBVIOUS
<1>1. Types /\ UNCHANGED <<policy, episode, intent, repair, receipt, effects, turn, epoch, lapsed>>
    BY DEF IInv, ControlledWrite
<1>2. [task EXCEPT !.audit = @ + 1] \in Tasks
    BY <1>1 DEF Types, Tasks
<1>3. task' \in Tasks
    BY <1>2, EventTyped DEF ControlledWrite
<1>4. episode' \in [Attempt -> Rows] /\ SameRows /\ TurnsTyped' /\ SameTurns
    BY <1>1, RowsKept, TurnsKept
<1>5. SameIntents /\ SameRelation
    BY <1>1 DEF SameIntents, SameRelation
<1>6. Types'
    BY <1>1, <1>3, <1>4, <1>5, QuietTyped DEF Types
<1> QED BY <1>1, <1>4, <1>5, <1>6, QuietSteps

\* The delivery of the repair advances.
LEMMA DeliveryKeeps ==
    ASSUME IInv, NEW a \in Attempt, RepairDelivery(a)
    PROVE  IInv'
<1>1. Types /\ UNCHANGED <<task, policy, episode, intent, receipt, effects, turn, epoch, lapsed>>
    BY DEF IInv, RepairDelivery
<1>2. \A d \in {"accepted", "restarted", "verified"} : [repair[a] EXCEPT !.delivery = d] \in Repairs
    BY <1>1 DEF Types, Repairs
<1>3. PICK d \in {"accepted", "restarted", "verified"} : repair' = [repair EXCEPT ![a].delivery = d]
    BY DEF RepairDelivery
<1>4. repair' \in [Attempt -> Repairs]
    BY <1>1, <1>2, <1>3 DEF Types
<1>5. SameIntents /\ SameRelation
    BY <1>1, <1>3 DEF SameIntents, SameRelation, Types, Repairs
<1>6. episode' \in [Attempt -> Rows] /\ SameRows /\ TurnsTyped' /\ SameTurns
    BY <1>1, RowsKept, TurnsKept
<1>7. Types'
    BY <1>1, <1>4, <1>5, <1>6, QuietTyped DEF Types
<1> QED BY <1>1, <1>5, <1>6, <1>7, QuietSteps

\* Nothing happens.
LEMMA StutterKeeps == IInv /\ UNCHANGED vars => IInv'
<1> SUFFICES ASSUME IInv, UNCHANGED vars PROVE IInv'
    OBVIOUS
<1>1. Types /\ UNCHANGED <<task, policy, episode, intent, repair, receipt, effects, turn, epoch, lapsed>>
    BY DEF IInv, vars
<1>2. episode' \in [Attempt -> Rows] /\ SameRows /\ TurnsTyped' /\ SameTurns
    BY <1>1, RowsKept, TurnsKept
<1>3. SameIntents /\ SameRelation
    BY <1>1 DEF SameIntents, SameRelation
<1>4. Types'
    BY <1>1, <1>2, <1>3, QuietTyped DEF Types
<1> QED BY <1>1, <1>2, <1>3, <1>4, QuietSteps

---------------------------------------------------------------------------
(* Steps of an idle turn that decide rows anew. *)

\* A row is decided anew when none of its intents is open, or it is suspended.
Redecides(a) ==
    \/ Alike(episode'[a], episode[a])
    \/ /\ Fits(a, episode[a])'
       /\ \/ ~HasUnsettled(a)
          \/ /\ episode'[a].state = "suspended"
             /\ episode'[a].tries = episode[a].tries /\ episode'[a].stage = episode[a].stage

\* A decision on a row without an open intent, or one that suspends it,
\* keeps the invariant.
LEMMA RedecidingSteps ==
    ASSUME IInv, Types', turn[epoch].pc = "idle", SameIntents, turn' = turn, epoch' = epoch,
           \A a \in Attempt : Unheld(a) => Unheld(a)',
           \A a \in Attempt : Redecides(a)
    PROVE  IInv'
<1>1. RowsGood'
    BY DEF IInv, RowsGood, GoodRow, Redecides, Alike, Fits
<1>2. IntentsFit'
    <2> SUFFICES ASSUME NEW k \in Key PROVE IntentOf(k)'
        BY DEF IntentsFit
    <2>1. k[1] \in Attempt
        BY DEF Key
    <2>2. IntentOf(k)
        BY DEF IInv, IntentsFit
    <2>3. ~HasUnsettled(k[1]) => intent[k].state \notin Unsettled
        BY DEF HasUnsettled, Keys
    <2>4. intent'[k] = intent[k]
        BY DEF SameIntents
    <2> QED BY <2>1, <2>2, <2>3, <2>4 DEF IntentOf, Redecides, Alike, Unsettled
<1>3. OneUnsettled'
    BY DEF IInv, OneUnsettled, SameIntents
<1>4. TurnHolds'
    BY DEF TurnHolds
<1>5. \A e \in Epoch : Dispatching(e)' <=> Dispatching(e)
    BY DEF Dispatching
<1>6. DispatchedOnce'
    BY <1>5 DEF IInv, DispatchedOnce, SameIntents
<1>7. OutcomesTrue'
    BY <1>5 DEF IInv, OutcomesTrue, Truly, SameIntents
<1>8. ParentsWait'
    <2>1. \A e \in Epoch : Dispatching(e) => turn[e].key \in Key /\ turn[e].key[1] \in Attempt
        BY DEF IInv, Types, Dispatching, Key
    <2>2. \A a \in Attempt : episode'[a].state = "ready" /\ episode'[a].action \in ParentActions => Unheld(a)'
        BY DEF IInv, ParentsWait, Redecides, Alike, Fits
    <2> QED BY <1>5, <2>1, <2>2 DEF IInv, ParentsWait
<1> QED BY <1>1, <1>2, <1>3, <1>4, <1>6, <1>7, <1>8 DEF IInv

\* An observation is recorded or updated.
LEMMA RefreshKeeps ==
    ASSUME IInv, NEW e \in Epoch, NEW a \in Attempt, RefreshNode(e, a)
    PROVE  IInv'
<1>1. /\ Types /\ ~HasUnsettled(a) /\ turn[epoch].pc = "idle"
      /\ UNCHANGED <<task, policy, intent, repair, receipt, effects, turn, epoch, lapsed>>
    BY DEF IInv, RefreshNode
<1>2. Fits(a, episode[a])
    BY DEF IInv, RowsGood, ParentsWait, Fits
<1>3. PICK row \in Rows : Fits(a, row) /\ episode' = [episode EXCEPT ![a] = row]
    <2>1. PICK row \in IF episode[a].state = "none" THEN {Recorded(a)}
                       ELSE {Updated(a, event) : event \in BOOLEAN} : episode' = [episode EXCEPT ![a] = row]
        BY DEF RefreshNode
    <2>2. row = Recorded(a) \/ \E event \in BOOLEAN : row = Updated(a, event)
        OBVIOUS
    <2>3. row \in Rows /\ Fits(a, row)
        BY <1>1, <1>2, <2>2, RecordedRow, UpdatedRow
    <2> QED BY <2>1, <2>3
<1>4. episode' \in [Attempt -> Rows]
    BY <1>1, <1>3 DEF Types
<1>5. TurnsTyped' /\ SameIntents
    BY <1>1, TurnsKept DEF SameIntents
<1>6. Types'
    BY <1>1, <1>4, <1>5, QuietTyped DEF Types
<1>7. \A b \in Attempt : Unheld(b)' <=> Unheld(b)
    BY <1>1, RejectedSame DEF Unheld
<1>8. episode'[a] = row /\ \A b \in Attempt \ {a} : episode'[b] = episode[b]
    BY <1>1, <1>3 DEF Types
<1>9. \A b \in Attempt : Redecides(b)
    BY <1>1, <1>3, <1>7, <1>8 DEF Redecides, Fits, Alike
<1> QED BY <1>1, <1>5, <1>6, <1>7, <1>9, RedecidingSteps

\* The deployment of the repair is verified.
LEMMA DeployedKeeps ==
    ASSUME IInv, NEW e \in Epoch, NEW a \in Attempt, MarkRepairDeployed(e, a)
    PROVE  IInv'
<1>1. /\ Types /\ ~HasUnsettled(a) /\ turn[epoch].pc = "idle"
      /\ UNCHANGED <<task, policy, intent, receipt, effects, turn, epoch, lapsed>>
    BY DEF IInv, MarkRepairDeployed
<1>2. PICK fresh \in BOOLEAN : episode' = [episode EXCEPT ![a] = Deployed(@, fresh)]
    BY DEF MarkRepairDeployed
<1>3. /\ Deployed(episode[a], fresh) \in Rows /\ GoodRow(Deployed(episode[a], fresh))
      /\ Deployed(episode[a], fresh).action = NoAction
    BY <1>1, DeployedRow DEF Types
<1>4. episode' \in [Attempt -> Rows]
    BY <1>1, <1>2, <1>3 DEF Types
<1>5. repair' = [repair EXCEPT ![a].deployed = TRUE]
    BY DEF MarkRepairDeployed
<1>6. repair' \in [Attempt -> Repairs] /\ \A b \in Attempt :
        repair'[b].linked = repair[b].linked /\ (repair[b].deployed => repair'[b].deployed)
    BY <1>1, <1>5 DEF Types, Repairs
<1>7. TurnsTyped' /\ SameIntents
    BY <1>1, TurnsKept DEF SameIntents
<1>8. Types'
    BY <1>1, <1>4, <1>6, <1>7, QuietTyped DEF Types
<1>9. \A b \in Attempt : Unheld(b) => Unheld(b)'
    BY <1>1, <1>6, RejectedSame DEF Unheld
<1>10. episode'[a] = Deployed(episode[a], fresh) /\ \A b \in Attempt \ {a} : episode'[b] = episode[b]
    BY <1>1, <1>2 DEF Types
<1>11. \A b \in Attempt : Redecides(b)
    BY <1>1, <1>3, <1>10 DEF Redecides, Fits, Alike, GoodRow, ParentActions, NoAction
<1> QED BY <1>1, <1>7, <1>8, <1>9, <1>11, RedecidingSteps

\* Older attempts are superseded.
LEMMA SupersededKeeps ==
    ASSUME IInv, NEW e \in Epoch, ReconcileSuperseded(e)
    PROVE  IInv'
<1> DEFINE r(row) == [Unleased(Decided(row, Resolve("attempt_superseded"))) EXCEPT !.stage = NoAction, !.seen = TRUE]
<1>1. /\ Types /\ turn[epoch].pc = "idle"
      /\ UNCHANGED <<task, policy, intent, repair, receipt, effects, turn, epoch, lapsed>>
    BY DEF IInv, ReconcileSuperseded
<1>2. \A a \in Attempt : episode[a] \in Rows
    BY <1>1 DEF Types
<1>3. \A row \in Rows : r(row) \in Rows /\ GoodRow(r(row)) /\ r(row).action = NoAction
    BY SupersededRow
<1>4. episode' = [a \in Attempt |-> IF Supersedes(a) THEN r(episode[a]) ELSE episode[a]]
    BY DEF ReconcileSuperseded
<1> HIDE DEF r
<1>5. episode' \in [Attempt -> Rows]
    BY <1>2, <1>3, <1>4
<1>6. TurnsTyped' /\ SameIntents
    BY <1>1, TurnsKept DEF SameIntents
<1>7. Types'
    BY <1>1, <1>5, <1>6, QuietTyped DEF Types
<1>8. \A b \in Attempt : Unheld(b)' <=> Unheld(b)
    BY <1>1, RejectedSame DEF Unheld
<1>9. \A b \in Attempt : Redecides(b)
    <2> SUFFICES ASSUME NEW b \in Attempt PROVE Redecides(b)
        OBVIOUS
    <2>1. CASE Supersedes(b)
        <3>1. episode'[b] = r(episode[b]) /\ ~HasUnsettled(b)
            BY <1>4, <2>1 DEF Supersedes
        <3>2. GoodRow(episode'[b]) /\ episode'[b].action = NoAction
            BY <1>2, <1>3, <3>1
        <3> QED BY <3>1, <3>2 DEF Redecides, Fits, GoodRow, ParentActions, NoAction
    <2>2. CASE ~Supersedes(b)
        BY <1>4, <2>2 DEF Redecides, Alike
    <2> QED BY <2>1, <2>2
<1> QED BY <1>1, <1>6, <1>7, <1>8, <1>9, RedecidingSteps

\* A person's control suspends the row that was due.
LEMMA FencedKeeps ==
    ASSUME IInv, NEW e \in Epoch, NEW a \in Attempt, ClaimFenced(e, a)
    PROVE  IInv'
<1> DEFINE u == Unleased(episode[a])
           row == [u EXCEPT !.state = "suspended", !.reason = "user_pause", !.action = NoAction, !.auth = FALSE]
<1>1. /\ Types /\ turn[epoch].pc = "idle"
      /\ UNCHANGED <<task, policy, intent, repair, receipt, effects, turn, epoch, lapsed>>
    BY DEF IInv, ClaimFenced, Due
<1>2. u \in Rows /\ Alike(u, episode[a])
    BY <1>1, UnleasedRow DEF Types
<1>3. episode' = [episode EXCEPT ![a] = row]
    BY DEF ClaimFenced
<1> HIDE DEF u
<1>4. row \in Rows
    BY <1>2 DEF Rows, States, Reason, Stage
<1>5. row.state = "suspended" /\ row.action = NoAction /\ row.tries = episode[a].tries /\ row.stage = episode[a].stage
    BY <1>2 DEF Rows, Alike
<1> HIDE DEF row
<1>6. episode' \in [Attempt -> Rows] /\ episode'[a] = row /\ \A b \in Attempt \ {a} : episode'[b] = episode[b]
    BY <1>1, <1>3, <1>4 DEF Types
<1>7. TurnsTyped' /\ SameIntents
    BY <1>1, TurnsKept DEF SameIntents
<1>8. Types'
    BY <1>1, <1>6, <1>7, QuietTyped DEF Types
<1>9. \A b \in Attempt : Unheld(b)' <=> Unheld(b)
    BY <1>1, RejectedSame DEF Unheld
<1>10. \A b \in Attempt : Redecides(b)
    BY <1>5, <1>6 DEF Redecides, Fits, Alike, GoodRow
<1> QED BY <1>1, <1>7, <1>8, <1>9, <1>10, RedecidingSteps

---------------------------------------------------------------------------
(* Steps of one turn that leave the intents and what they did alone. *)

\* The row of k's attempt is the one k was formed from, and still due.
Formed(k) ==
    /\ episode[k[1]].state = "ready" /\ episode[k[1]].action # NoAction
    /\ k[2] = episode[k[1]].stage /\ k[3] = episode[k[1]].tries[k[2]] + 1

\* An answer that is not lost says what happened, and nobody may still act.
AnswerTrue(e, k, got) ==
    /\ got # "none"
    /\ got # "unknown" =>
          /\ Truly(k, got)
          /\ \A f \in Epoch \ {e} : Dispatching(f) => turn[f].key # k

\* One turn advances without dispatching, the intents and effects stay.
LEMMA MovingSteps ==
    ASSUME IInv, Types', NEW e \in Epoch, SameRows, SameIntents, SameRelation, epoch' = epoch,
           \A f \in Epoch \ {e} : SameTurn(f),
           ~Dispatching(e)',
           turn'[e].pc # "idle" /\ e = epoch => Formed(turn'[e].key),
           turn'[e].pc \in {"begun", "acted"} => intent[turn'[e].key].state # "none",
           turn'[e].pc = "acted" => AnswerTrue(e, turn'[e].key, turn'[e].got)
    PROVE  IInv'
<1>1. RowsGood'
    BY DEF IInv, RowsGood, GoodRow, SameRows, Alike
<1>2. IntentsFit'
    <2> SUFFICES ASSUME NEW k \in Key PROVE IntentOf(k)'
        BY DEF IntentsFit
    <2>1. k[1] \in Attempt
        BY DEF Key
    <2>2. IntentOf(k)
        BY DEF IInv, IntentsFit
    <2> QED BY <2>1, <2>2 DEF IntentOf, SameRows, Alike, SameIntents
<1>3. OneUnsettled'
    BY DEF IInv, OneUnsettled, SameIntents
<1>4. TurnHolds'
    <2>1. epoch \in Epoch /\ (turn'[epoch].pc # "idle" => turn'[epoch].key \in Key)
        BY DEF IInv, Types
    <2>2. turn'[epoch].pc # "idle" => turn'[epoch].key[1] \in Attempt
        BY <2>1 DEF Key
    <2>3. turn'[epoch].pc # "idle" => Formed(turn'[epoch].key)
        BY <2>1 DEF IInv, TurnHolds, Formed, SameTurn
    <2> QED BY <2>1, <2>2, <2>3 DEF TurnHolds, Formed, SameRows, Alike
<1>5. \A f \in Epoch : Dispatching(f)' => Dispatching(f) /\ f # e
    BY DEF Dispatching, SameTurn
<1>6. DispatchedOnce'
    BY <1>5 DEF IInv, DispatchedOnce, SameTurn, SameIntents
<1>7. OutcomesTrue'
    BY <1>5 DEF IInv, OutcomesTrue, Truly, SameTurn, SameIntents, AnswerTrue
<1>8. \A a \in Attempt : Unheld(a)' <=> Unheld(a)
    BY RejectedSame DEF Unheld, SameRelation, SameIntents
<1>9. ParentsWait'
    <2>1. \A f \in Epoch : Dispatching(f) => turn[f].key \in Key /\ turn[f].key[1] \in Attempt
        BY DEF IInv, Types, Dispatching, Key
    <2> QED BY <1>5, <1>8, <2>1 DEF IInv, ParentsWait, SameTurn, SameRows, Alike
<1> QED BY <1>1, <1>2, <1>3, <1>4, <1>6, <1>7, <1>9 DEF IInv

\* Replacing one turn by one that is idle, or holds a request id.
LEMMA TurnTyped ==
    ASSUME Types, NEW e \in Epoch, NEW t \in Turns, turn' = [turn EXCEPT ![e] = t], epoch' = epoch,
           t.pc # "idle" => t.key \in Key, t = IdleTurn \/ e <= epoch
    PROVE  TurnsTyped' /\ turn'[e] = t /\ \A f \in Epoch \ {e} : SameTurn(f)
<1>1. turn'[e] = t /\ \A f \in Epoch \ {e} : turn'[f] = turn[f]
    BY DEF Types
<1>2. turn' \in [Epoch -> Turns]
    BY DEF Types
<1>3. e <= epoch => ~(e > epoch)
    BY DEF Types, Epoch
<1> QED BY <1>1, <1>2, <1>3 DEF Types, TurnsTyped, SameTurn

\* An idle turn is a turn.
LEMMA IdleTyped == IdleTurn \in Turns /\ IdleTurn.pc = "idle"
BY DEF IdleTurn, Turns

\* A turn that is under way belongs to a process that was started.
LEMMA StartedTurns ==
    ASSUME Types, NEW e \in Epoch, turn[e].pc # "idle"
    PROVE  e <= epoch
BY IdleTyped DEF Types, Epoch

\* A turn is given up.
LEMMA DroppedKeeps ==
    ASSUME IInv, NEW e \in Epoch, turn' = [turn EXCEPT ![e] = IdleTurn],
           UNCHANGED <<task, policy, episode, intent, repair, receipt, effects, epoch, lapsed>>
    PROVE  IInv'
<1>1. Types
    BY DEF IInv
<1>2. TurnsTyped' /\ turn'[e] = IdleTurn /\ \A f \in Epoch \ {e} : SameTurn(f)
    BY <1>1, TurnTyped, IdleTyped
<1>3. episode' \in [Attempt -> Rows] /\ SameRows /\ SameIntents /\ SameRelation
    BY <1>1, RowsKept DEF SameIntents, SameRelation
<1>4. Types'
    BY <1>1, <1>2, <1>3, QuietTyped DEF Types
<1>5. turn'[e].pc = "idle"
    BY <1>2, IdleTyped
<1>6. ~Dispatching(e)'
    BY <1>5 DEF Dispatching
<1> QED BY <1>2, <1>3, <1>4, <1>5, <1>6, MovingSteps

\* A turn that has its answer, and nothing else.
LEMMA ActedKeeps ==
    ASSUME IInv, NEW e \in Epoch, NEW t \in Turns, turn' = [turn EXCEPT ![e] = t],
           turn[e].pc = "begun", t.pc = "acted", t.key = turn[e].key, AnswerTrue(e, t.key, t.got),
           UNCHANGED <<task, policy, episode, intent, repair, receipt, effects, epoch, lapsed>>
    PROVE  IInv'
<1>1. Types /\ turn[e].key \in Key /\ intent[turn[e].key].state # "none"
    BY DEF IInv, Types, DispatchedOnce
<1>2. e <= epoch
    BY <1>1, StartedTurns
<1>3. TurnsTyped' /\ turn'[e] = t /\ \A f \in Epoch \ {e} : SameTurn(f)
    BY <1>1, <1>2, TurnTyped
<1>4. episode' \in [Attempt -> Rows] /\ SameRows /\ SameIntents /\ SameRelation
    BY <1>1, RowsKept DEF SameIntents, SameRelation
<1>5. Types'
    BY <1>1, <1>3, <1>4, QuietTyped DEF Types
<1>6. ~Dispatching(e)'
    BY <1>3 DEF Dispatching
<1>7. e = epoch => Formed(t.key)
    BY DEF IInv, TurnHolds, Formed
<1> QED BY <1>1, <1>3, <1>4, <1>5, <1>6, <1>7, MovingSteps

\* What an adapter answers when it refuses.
LEMMA RefusalAnswers == ASSUME NEW s PROVE Refusal(s) \in {"failed", "rejected", "unknown"}
BY DEF Refusal

\* An adapter refuses before it acts.
LEMMA RefuseKeeps ==
    ASSUME IInv, NEW e \in Epoch, Refuse(e)
    PROVE  IInv'
<1> DEFINE k == turn[e].key
<1>1. /\ Types /\ turn[e].pc = "begun" /\ Dispatching(e) /\ turn[e] \in Turns
      /\ UNCHANGED <<task, policy, episode, intent, repair, receipt, effects, epoch, lapsed>>
    BY DEF IInv, Types, Refuse, Fresh, ReadyToAct, Dispatching
<1>2. PICK got \in {"failed", "rejected", "unknown"} :
         turn' = [turn EXCEPT ![e].pc = "acted", ![e].got = got]
    BY RefusalAnswers DEF Refuse
<1> DEFINE t == [turn[e] EXCEPT !.pc = "acted", !.got = got]
<1>3. t \in Turns /\ t.pc = "acted" /\ t.key = turn[e].key /\ t.got = got
    BY <1>1 DEF Turns, Answer
<1>4. turn' = [turn EXCEPT ![e] = t]
    BY <1>2
<1> HIDE DEF t
<1>5. effects[k] = 0 /\ \A f \in Epoch \ {e} : Dispatching(f) => turn[f].key # k
    BY <1>1 DEF IInv, DispatchedOnce
<1>6. AnswerTrue(e, t.key, t.got)
    BY <1>3, <1>5 DEF AnswerTrue, Truly
<1> QED BY <1>1, <1>3, <1>4, <1>6, ActedKeeps

\* The receipt of an intent that existed is looked up: what it says is true
\* and final, for an adapter that may still act has left no receipt yet.
LEMMA LookUpKeeps ==
    ASSUME IInv, NEW e \in Epoch, LookUp(e)
    PROVE  IInv'
<1> DEFINE k == turn[e].key
           got == IF intent[k].state = "completed" THEN intent[k].ok
                  ELSE IF k[2] \in Reconciles /\ receipt[k] # "none" THEN receipt[k]
                  ELSE "unknown"
           t == [turn[e] EXCEPT !.pc = "acted", !.got = got]
<1>1. /\ Types /\ turn[e].pc = "begun" /\ turn[e] \in Turns /\ k \in Key
      /\ UNCHANGED <<task, policy, episode, intent, repair, receipt, effects, epoch, lapsed>>
    BY DEF IInv, Types, LookUp, ReadyToAct
<1>2. \/ turn' = [turn EXCEPT ![e] = IdleTurn]
      \/ turn' = [turn EXCEPT ![e] = t]
    BY DEF LookUp
<1>3. /\ intent[k] \in Intents /\ receipt[k] \in {"none", "ok", "failed"}
      /\ intent[k].state = "completed" => intent[k].ok \in Answer
    BY <1>1 DEF Types, IInv, IntentsFit, IntentOf
<1>4. got \in Answer \cup {"unknown"}
    BY <1>3 DEF Answer
<1>5. \/ intent[k].state = "completed" /\ got = intent[k].ok
      \/ receipt[k] # "none" /\ got = receipt[k]
      \/ got = "unknown"
    OBVIOUS
<1>6. AnswerTrue(e, k, got)
    <2>1. \A f \in Epoch : Dispatching(f) /\ turn[f].key = k => intent[k].state \in Unsettled /\ receipt[k] = "none"
        BY DEF IInv, DispatchedOnce
    <2>2. got # "unknown" => Truly(k, got)
        BY <1>1, <1>5 DEF IInv, OutcomesTrue
    <2>3. got # "unknown" => \A f \in Epoch : Dispatching(f) => turn[f].key # k
        BY <1>5, <2>1 DEF Unsettled
    <2> QED BY <1>4, <2>2, <2>3 DEF AnswerTrue, Answer
<1> HIDE DEF got
<1>7. t \in Turns /\ t.pc = "acted" /\ t.key = k /\ t.got = got
    BY <1>1, <1>4 DEF Turns
<1> HIDE DEF t
<1>8. CASE turn' = [turn EXCEPT ![e] = t]
    BY <1>1, <1>6, <1>7, <1>8, ActedKeeps
<1> QED BY <1>1, <1>2, <1>8, DroppedKeeps

\* A fence of begin_action or settle_action raises.
LEMMA RefusedKeeps ==
    ASSUME IInv, NEW e \in Epoch, BeginRefused(e) \/ SettleRefused(e)
    PROVE  IInv'
<1>1. /\ turn' = [turn EXCEPT ![e] = IdleTurn]
      /\ UNCHANGED <<task, policy, episode, intent, repair, receipt, effects, epoch, lapsed>>
    BY DEF BeginRefused, SettleRefused
<1> QED BY <1>1, DroppedKeeps

\* A due row is claimed: the id of the request is formed from it.
LEMMA ClaimKeeps ==
    ASSUME IInv, NEW e \in Epoch, NEW a \in Attempt, Claim(e, a)
    PROVE  IInv'
<1> DEFINE row == [episode[a] EXCEPT !.owner = e, !.live = TRUE]
           k == NextKey(a)
           t == [IdleTurn EXCEPT !.pc = "claimed", !.key = k, !.current = TRUE]
<1>1. /\ Types /\ e = epoch /\ episode[a] \in Rows /\ GoodRow(episode[a])
      /\ episode[a].state = "ready" /\ episode[a].action # NoAction
      /\ episode[a].tries[episode[a].stage] < MaxTries
      /\ UNCHANGED <<task, policy, intent, repair, receipt, effects, epoch, lapsed>>
    BY DEF IInv, Types, RowsGood, Claim, Due
<1>2. episode[a].stage \in Granted
    BY <1>1 DEF GoodRow, Rows, Stage
<1>3. k = <<a, episode[a].stage, episode[a].tries[episode[a].stage] + 1>>
    BY DEF NextKey
<1>4. episode[a].tries[episode[a].stage] + 1 \in 1 .. MaxTries
    <2>1. episode[a].tries[episode[a].stage] \in 0 .. MaxTries + 1
        BY <1>1, <1>2 DEF Rows
    <2> QED BY <1>1, <2>1, Constants
<1>5. k \in Key /\ Formed(k)
    BY <1>1, <1>2, <1>3, <1>4 DEF Key, Formed
<1>6. e \in 0 .. MaxEpoch
    BY Constants DEF Epoch
<1>7. row \in Rows /\ Alike(row, episode[a])
    <2>1. row \in Rows
        BY <1>1, <1>6 DEF Rows
    <2>2. Alike(row, episode[a])
        BY <1>1 DEF Rows, Alike
    <2> QED BY <2>1, <2>2
<1>8. episode' = [episode EXCEPT ![a] = row] /\ turn' = [turn EXCEPT ![e] = t]
    BY DEF Claim
<1> HIDE DEF row, k
<1>9. episode' \in [Attempt -> Rows] /\ SameRows
    BY <1>1, <1>7, <1>8 DEF Types, SameRows, Alike
<1>10. t \in Turns /\ t.pc = "claimed" /\ t.key = k
    BY <1>5 DEF IdleTurn, Turns
<1> HIDE DEF t
<1>11. e <= epoch
    BY <1>1 DEF Epoch
<1>12. TurnsTyped' /\ turn'[e] = t /\ \A f \in Epoch \ {e} : SameTurn(f)
    BY <1>1, <1>5, <1>8, <1>10, <1>11, TurnTyped
<1>13. SameIntents /\ SameRelation
    BY <1>1 DEF SameIntents, SameRelation
<1>14. Types'
    BY <1>1, <1>9, <1>12, <1>13, QuietTyped DEF Types
<1>15. ~Dispatching(e)'
    BY <1>10, <1>12 DEF Dispatching
<1> QED BY <1>1, <1>5, <1>9, <1>10, <1>12, <1>13, <1>14, <1>15, MovingSteps

\* What an answer or a new intent means for the rejected request of a repair.
LEMMA RejectedGrows ==
    ASSUME Types, Types', policy'.allowed = policy.allowed, NEW a \in Attempt,
           \A n \in 1 .. MaxTries :
              /\ intent'[<<a, "request_repair", n>>].state # "none" <=> intent[<<a, "request_repair", n>>].state # "none"
              /\ intent[<<a, "request_repair", n>>].ok = "rejected" => intent'[<<a, "request_repair", n>>].ok = "rejected"
    PROVE  EnqueueRejected(a) => EnqueueRejected(a)'
<1> DEFINE asked == {n \in 1 .. MaxTries : "request_repair" \in policy.allowed
                                        /\ intent[<<a, "request_repair", n>>].state # "none"}
<1>1. asked' = asked
    OBVIOUS
<1>2. EnqueueRejected(a) <=>
        asked # {} /\ intent[<<a, "request_repair", CHOOSE m \in asked : \A l \in asked : l <= m>>].ok = "rejected"
    BY DEF EnqueueRejected
<1>3. EnqueueRejected(a)' <=>
        asked' # {} /\ intent'[<<a, "request_repair", CHOOSE m \in asked' : \A l \in asked' : l <= m>>].ok = "rejected"
    BY DEF EnqueueRejected
<1>4. asked # {} => (CHOOSE m \in asked : \A l \in asked : l <= m) \in asked
    <2>1. asked \subseteq 1 .. MaxTries
        OBVIOUS
    <2> HIDE DEF asked
    <2> SUFFICES ASSUME asked # {} PROVE \E m \in asked : \A l \in asked : l <= m
        OBVIOUS
    <2> QED BY <2>1, Constants, GreatestOf
<1> QED BY <1>1, <1>2, <1>3, <1>4

\* While a row is ready, an open intent of its attempt is the one formed from it.
LEMMA ReadyOnly ==
    ASSUME IInv, NEW j \in Key, NEW k \in Key, Formed(k), j[1] = k[1], intent[j].state \in Unsettled
    PROVE  j = k
<1>1. IntentOf(j)
    BY DEF IInv, IntentsFit
<1>2. episode[k[1]].state = "ready"
    BY DEF Formed
<1>3. intent[j].state = "executing"
    BY <1>1, <1>2 DEF IntentOf, Unsettled
<1>4. j[2] = k[2] /\ j[3] = k[3]
    BY <1>1, <1>3 DEF IntentOf, Formed
<1> QED BY <1>4 DEF Key

\* An intent is recorded or found.  A new one is the only open one of its
\* attempt, since the row it was formed from is still ready.
LEMMA BeginKeeps ==
    ASSUME IInv, NEW e \in Epoch, BeginAction(e)
    PROVE  IInv'
<1> DEFINE k == turn[e].key
           a == k[1]
<1>1. /\ Types /\ turn[e].pc = "claimed" /\ turn[e] \in Turns /\ k \in Key /\ e = epoch
      /\ UNCHANGED <<task, policy, episode, repair, receipt, effects, epoch, lapsed>>
    BY DEF IInv, Types, BeginAction, MayBegin, Holds
<1>2. Formed(k) /\ a \in Attempt /\ e <= epoch
    BY <1>1 DEF IInv, TurnHolds, Formed, Key, Epoch
<1>3. episode' \in [Attempt -> Rows] /\ SameRows
    BY <1>1, RowsKept
<1>4. CASE intent[k].state # "none" /\ intent' = intent /\ turn' = [turn EXCEPT ![e].pc = "begun", ![e].existing = TRUE]
    <2> DEFINE t == [turn[e] EXCEPT !.pc = "begun", !.existing = TRUE]
    <2>1. t \in Turns /\ t.pc = "begun" /\ t.existing /\ t.key = k
        BY <1>1 DEF Turns
    <2>2. turn' = [turn EXCEPT ![e] = t]
        BY <1>4
    <2> HIDE DEF t
    <2>3. TurnsTyped' /\ turn'[e] = t /\ \A f \in Epoch \ {e} : SameTurn(f)
        BY <1>1, <1>2, <2>1, <2>2, TurnTyped
    <2>4. SameIntents /\ SameRelation
        BY <1>1, <1>4 DEF SameIntents, SameRelation
    <2>5. Types'
        BY <1>1, <1>3, <2>3, <2>4, QuietTyped DEF Types
    <2>6. ~Dispatching(e)'
        BY <2>1, <2>3 DEF Dispatching
    <2> QED BY <1>1, <1>2, <1>3, <1>4, <2>1, <2>3, <2>4, <2>5, <2>6, MovingSteps
<1>5. CASE /\ intent[k].state = "none"
           /\ \E plan \in {"adapter", "preflight"} :
                 intent' = [intent EXCEPT ![k] = [state |-> "executing", plan |-> plan, ok |-> "none"]]
           /\ turn' = [turn EXCEPT ![e].pc = "begun"]
    <2> DEFINE t == [turn[e] EXCEPT !.pc = "begun"]
    <2>1. t \in Turns /\ t.pc = "begun" /\ t.key = k
        BY <1>1 DEF Turns
    <2>2. turn' = [turn EXCEPT ![e] = t]
        BY <1>5
    <2> HIDE DEF t
    <2>3. TurnsTyped' /\ turn'[e] = t /\ \A f \in Epoch \ {e} : SameTurn(f)
        BY <1>1, <1>2, <2>1, <2>2, TurnTyped
    <2>4. PICK i \in Intents : /\ i.state = "executing" /\ i.ok = "none"
                               /\ intent' = [intent EXCEPT ![k] = i]
        BY <1>5 DEF Intents
    <2>5. /\ intent' \in [Key -> Intents] /\ intent'[k] = i
          /\ \A j \in Key \ {k} : intent'[j] = intent[j]
        BY <1>1, <2>4 DEF Types
    <2>6. Types'
        BY <1>1, <2>3, <2>5 DEF Types, TurnsTyped
    <2>7. RowsGood'
        BY <1>1 DEF IInv, RowsGood
    <2>8. IntentsFit'
        <3> SUFFICES ASSUME NEW j \in Key PROVE IntentOf(j)'
            BY DEF IntentsFit
        <3>1. IntentOf(j)
            BY DEF IInv, IntentsFit
        <3>2. CASE j = k
            BY <1>1, <1>2, <2>4, <2>5, <3>2 DEF IntentOf, Formed
        <3>3. CASE j # k
            BY <1>1, <2>5, <3>1, <3>3 DEF IntentOf
        <3> QED BY <3>2, <3>3
    <2>9. OneUnsettled'
        BY <1>1, <1>2, <1>5, <2>5, ReadyOnly DEF IInv, OneUnsettled
    <2>10. TurnHolds'
        BY <1>1, <1>2, <2>1, <2>3 DEF TurnHolds, Formed
    <2>11. \A f \in Epoch \ {e} : Dispatching(f)' <=> Dispatching(f)
        BY <2>3 DEF Dispatching, SameTurn
    <2>12. effects[k] = 0 /\ receipt[k] = "none" /\ \A f \in Epoch : turn[f].pc \in {"begun", "acted"} => turn[f].key # k
        BY <1>1, <1>5 DEF IInv, DispatchedOnce
    <2>13. \A f \in Epoch : turn[f].pc # "idle" => turn[f].key \in Key
        BY <1>1 DEF Types
    <2>14. DispatchedOnce'
        <3>1. \A f \in Epoch : turn'[f].pc \in {"begun", "acted"} => intent'[turn'[f].key].state # "none"
            BY <2>1, <2>3, <2>4, <2>5, <2>12, <2>13 DEF IInv, DispatchedOnce, SameTurn
        <3>2. \A f \in Epoch : Dispatching(f)' =>
                 /\ intent'[turn'[f].key].state \in Unsettled
                 /\ effects'[turn'[f].key] = 0 /\ receipt'[turn'[f].key] = "none"
            <4> SUFFICES ASSUME NEW f \in Epoch, Dispatching(f)'
                         PROVE  /\ intent'[turn'[f].key].state \in Unsettled
                                /\ effects'[turn'[f].key] = 0 /\ receipt'[turn'[f].key] = "none"
                OBVIOUS
            <4>1. CASE f = e
                BY <1>1, <2>1, <2>3, <2>4, <2>5, <2>12, <4>1 DEF Unsettled
            <4>2. CASE f # e
                <5>1. Dispatching(f) /\ turn'[f].key = turn[f].key /\ turn[f].key \in Key \ {k}
                    BY <2>3, <2>11, <2>12, <2>13, <4>2 DEF Dispatching, SameTurn
                <5> QED BY <1>1, <2>5, <5>1 DEF IInv, DispatchedOnce
            <4> QED BY <4>1, <4>2
        <3>3. \A f, g \in Epoch : Dispatching(f)' /\ Dispatching(g)' /\ turn'[f].key = turn'[g].key => f = g
            BY <2>1, <2>3, <2>11, <2>12 DEF IInv, DispatchedOnce, SameTurn, Dispatching
        <3>4. \A j \in Key : intent'[j].state = "none" => effects'[j] = 0 /\ receipt'[j] = "none"
            BY <1>1, <2>4, <2>5 DEF IInv, DispatchedOnce
        <3>5. \A j \in Key : effects'[j] \in 0 .. 1
            BY <1>1 DEF IInv, DispatchedOnce
        <3> QED BY <3>1, <3>2, <3>3, <3>4, <3>5 DEF DispatchedOnce
    <2>15. OutcomesTrue'
        <3>1. \A j \in Key : intent'[j].state = "completed" => Truly(j, intent[j].ok)'
            BY <1>1, <2>4, <2>5 DEF IInv, OutcomesTrue, Truly
        <3>2. \A j \in Key : receipt'[j] # "none" => Truly(j, receipt[j])'
            BY <1>1 DEF IInv, OutcomesTrue, Truly
        <3>3. \A f \in Epoch : turn'[f].pc = "acted" => f # e /\ turn[f].pc = "acted" /\ turn[f].key # k
            BY <2>1, <2>3, <2>12 DEF SameTurn
        <3>4. \A f \in Epoch : turn'[f].pc = "acted" =>
                /\ turn'[f].got # "none"
                /\ turn'[f].got # "unknown" =>
                      /\ Truly(turn[f].key, turn[f].got)'
                      /\ \A g \in Epoch : Dispatching(g)' => turn'[g].key # turn'[f].key
            BY <1>1, <2>1, <2>3, <2>11, <3>3 DEF IInv, OutcomesTrue, Truly, SameTurn
        <3> QED BY <3>1, <3>2, <3>4 DEF OutcomesTrue
    <2>16. \A b \in Attempt : (b # a \/ k[2] # "request_repair") /\ Unheld(b) => Unheld(b)'
        <3> SUFFICES ASSUME NEW b \in Attempt, b # a \/ k[2] # "request_repair", EnqueueRejected(b)
                     PROVE  EnqueueRejected(b)'
            BY <1>1 DEF Unheld
        <3>1. policy.allowed \in Grants
            BY <1>1 DEF Types
        <3>2. CASE "request_repair" \in policy.allowed
            <4>1. \A n \in 1 .. MaxTries : <<b, "request_repair", n>> \in Key \ {k}
                BY <3>1, <3>2 DEF Key, Granted
            <4> QED BY <1>1, <2>5, <2>6, <4>1, RejectedGrows
        <3>3. CASE "request_repair" \notin policy.allowed
            BY <3>3 DEF EnqueueRejected
        <3> QED BY <3>2, <3>3
    <2>17. ParentsWait'
        <3>1. episode[a].state = "ready" /\ episode[a].action = k[2]
            BY <1>2 DEF IInv, RowsGood, GoodRow, Formed
        <3>2. \A b \in Attempt : episode'[b].state = "ready" /\ episode'[b].action \in ParentActions => Unheld(b)'
            BY <1>1, <2>16, <3>1 DEF IInv, ParentsWait, ParentActions
        <3>3. \A f \in Epoch : Dispatching(f)' /\ turn'[f].key[2] \in ParentActions => Unheld(turn[f].key[1])'
            <4> SUFFICES ASSUME NEW f \in Epoch, Dispatching(f)', turn'[f].key[2] \in ParentActions
                         PROVE  Unheld(turn[f].key[1])'
                OBVIOUS
            <4>1. CASE f = e
                BY <1>1, <1>2, <2>1, <2>3, <3>1, <3>2, <4>1
            <4>2. CASE f # e
                <5>1. Dispatching(f) /\ turn'[f].key = turn[f].key /\ turn[f].key \in Key \ {k} /\ turn[f].key[1] \in Attempt
                    BY <2>3, <2>11, <2>12, <2>13, <4>2 DEF Dispatching, SameTurn, Key
                <5>2. turn[f].key[1] # a
                    BY <1>1, <1>2, <5>1, ReadyOnly DEF IInv, DispatchedOnce
                <5>3. Unheld(turn[f].key[1])
                    BY <5>1 DEF IInv, ParentsWait
                <5> QED BY <2>16, <5>1, <5>2, <5>3
            <4> QED BY <4>1, <4>2
        <3> QED BY <3>2, <3>3 DEF ParentsWait
    <2> QED BY <2>6, <2>7, <2>8, <2>9, <2>10, <2>14, <2>15, <2>17 DEF IInv
<1> QED BY <1>4, <1>5 DEF BeginAction

\* The repair is linked while its request is the only open intent of the
\* attempt, so that no action of the parent is under way.
LEMMA LinkKeeps ==
    ASSUME IInv, NEW e \in Epoch, LinkRepair(e)
    PROVE  IInv'
<1> DEFINE k == turn[e].key
           a == k[1]
<1>1. /\ Types /\ turn[e].pc = "begun" /\ k \in Key /\ k[2] = "request_repair"
      /\ UNCHANGED <<task, policy, episode, intent, receipt, effects, epoch, lapsed>>
    BY DEF IInv, Types, LinkRepair
<1>2. CASE turn' = [turn EXCEPT ![e] = IdleTurn] /\ repair' = repair
    BY <1>1, <1>2, DroppedKeeps
<1>3. CASE Holds(e, a) /\ repair' = [repair EXCEPT ![a].linked = TRUE] /\ turn' = turn
    <2>1. e = epoch /\ Formed(k) /\ a \in Attempt
        BY <1>1, <1>3 DEF Holds, IInv, TurnHolds, Formed, Key
    <2>2. repair' \in [Attempt -> Repairs] /\ \A b \in Attempt \ {a} : repair'[b] = repair[b]
        BY <1>1, <1>3 DEF Types, Repairs
    <2>3. episode' \in [Attempt -> Rows] /\ SameRows /\ TurnsTyped' /\ SameTurns /\ SameIntents
        BY <1>1, <1>3, RowsKept, TurnsKept DEF SameIntents
    <2>4. Types'
        BY <1>1, <2>2, <2>3, QuietTyped DEF Types
    <2>5. \A b \in Attempt \ {a} : Unheld(b)' <=> Unheld(b)
        BY <1>1, <2>2, RejectedSame DEF Unheld
    <2>6. \A b \in Attempt : episode'[b].state = "ready" /\ episode'[b].action \in ParentActions => Unheld(b)'
        <3>1. episode[a].action = k[2]
            BY <2>1 DEF IInv, RowsGood, GoodRow, Formed
        <3> QED BY <1>1, <2>5, <3>1 DEF IInv, ParentsWait, ParentActions
    <2>7. \A f \in Epoch : Dispatching(f)' /\ turn'[f].key[2] \in ParentActions => Unheld(turn[f].key[1])'
        <3> SUFFICES ASSUME NEW f \in Epoch, Dispatching(f)', turn'[f].key[2] \in ParentActions
                     PROVE  Unheld(turn[f].key[1])'
            OBVIOUS
        <3>1. Dispatching(f) /\ turn[f].key \in Key /\ turn[f].key[1] \in Attempt /\ turn'[f].key = turn[f].key
            BY <1>1, <1>3 DEF Types, Dispatching, Key
        <3>2. turn[f].key # k
            BY <1>1, <3>1 DEF ParentActions
        <3>3. turn[f].key[1] # a
            BY <1>1, <2>1, <3>1, <3>2, ReadyOnly DEF IInv, DispatchedOnce
        <3>4. Unheld(turn[f].key[1])
            BY <3>1 DEF IInv, ParentsWait
        <3> QED BY <2>5, <3>1, <3>3, <3>4
    <2>8. ParentsWait'
        BY <1>3, <2>6, <2>7 DEF ParentsWait
    <2> QED BY <1>1, <2>3, <2>4, <2>8, SilentSteps
<1> QED BY <1>2, <1>3 DEF LinkRepair

\* The adapter acts or fails: its request had no effect and no receipt.
LEMMA ExecuteKeeps ==
    ASSUME IInv, NEW e \in Epoch, Execute(e)
    PROVE  IInv'
<1> DEFINE k == turn[e].key
           a == k[1]
<1>1. /\ Types /\ turn[e].pc = "begun" /\ Dispatching(e) /\ turn[e] \in Turns
      /\ UNCHANGED <<policy, intent, epoch, lapsed>>
    BY DEF IInv, Types, Execute, Fresh, ReadyToAct, Dispatching
<1>2. k \in Key /\ a \in Attempt /\ e <= epoch
    BY <1>1, StartedTurns DEF Types, Key
<1>3. PICK got \in {"ok", "failed", "unknown"}, done \in BOOLEAN :
         /\ got = "ok" => done
         /\ got = "failed" => ~done
         /\ effects' = [effects EXCEPT ![k] = IF done THEN @ + 1 ELSE @]
         /\ receipt' = [receipt EXCEPT ![k] = IF got = "unknown" THEN @ ELSE got]
         /\ turn' = [f \in Epoch |->
               IF f = e THEN [turn[e] EXCEPT !.pc = "acted", !.got = got]
               ELSE IF k[2] \in Resumes /\ done THEN [turn[f] EXCEPT !.current = FALSE] ELSE turn[f]]
         /\ repair' = [repair EXCEPT ![k[1]].delivery =
                          IF k[2] = "request_repair" /\ done THEN "pending" ELSE @]
         /\ Affected(k, done)
    BY DEF Execute
<1>4. /\ intent[k].state \in Unsettled /\ effects[k] = 0 /\ receipt[k] = "none"
      /\ \A f \in Epoch \ {e} : Dispatching(f) => turn[f].key # k
    BY <1>1 DEF IInv, DispatchedOnce
<1>5. /\ effects'[k] = (IF done THEN 1 ELSE 0) /\ receipt'[k] = (IF got = "unknown" THEN "none" ELSE got)
      /\ \A j \in Key \ {k} : effects'[j] = effects[j] /\ receipt'[j] = receipt[j]
      /\ effects' \in [Key -> Nat] /\ receipt' \in [Key -> {"none", "ok", "failed"}]
    BY <1>1, <1>2, <1>3, <1>4 DEF Types
<1>6. turn'[e] \in Turns /\ turn'[e].pc = "acted" /\ turn'[e].key = k /\ turn'[e].got = got
    <2> DEFINE t == [turn[e] EXCEPT !.pc = "acted", !.got = got]
    <2>1. turn'[e] = t
        BY <1>3
    <2>2. t \in Turns /\ t.pc = "acted" /\ t.key = k /\ t.got = got
        BY <1>1 DEF Turns, Answer
    <2> QED BY <2>1, <2>2
<1>7. \A f \in Epoch \ {e} : turn'[f] \in Turns /\ SameTurn(f) /\ (turn[f] = IdleTurn => turn'[f] = IdleTurn)
    <2> SUFFICES ASSUME NEW f \in Epoch \ {e}
                 PROVE  turn'[f] \in Turns /\ SameTurn(f) /\ (turn[f] = IdleTurn => turn'[f] = IdleTurn)
        OBVIOUS
    <2>1. turn[f] \in Turns
        BY <1>1 DEF Types
    <2>2. CASE turn'[f] = [turn[f] EXCEPT !.current = FALSE]
        <3>1. turn'[f] \in Turns /\ SameTurn(f)
            BY <2>1, <2>2 DEF Turns, SameTurn
        <3>2. \A t \in Turns : t.current = FALSE => [t EXCEPT !.current = FALSE] = t
            BY DEF Turns
        <3>3. IdleTurn.current = FALSE
            BY DEF IdleTurn
        <3> QED BY <2>2, <3>1, <3>2, <3>3, IdleTyped
    <2>3. CASE turn'[f] = turn[f]
        BY <2>1, <2>3 DEF SameTurn
    <2> QED BY <1>3, <2>2, <2>3
<1>8. TurnsTyped'
    <2>1. turn' \in [Epoch -> Turns]
        <3>1. DOMAIN turn' = Epoch /\ turn' = [f \in Epoch |-> turn'[f]]
            BY <1>3
        <3> QED BY <1>6, <1>7, <3>1
    <2>2. \A f \in Epoch : turn'[f].pc # "idle" => turn'[f].key \in Key
        BY <1>1, <1>2, <1>6, <1>7 DEF Types, SameTurn
    <2>3. \A f \in Epoch : f > epoch => turn'[f] = IdleTurn
        BY <1>1, <1>2, <1>7 DEF Types, Epoch
    <2> QED BY <1>1, <2>1, <2>2, <2>3 DEF TurnsTyped
<1>9. task' \in Tasks /\ episode' \in [Attempt -> Rows] /\ SameRows
    <2>1. CASE k[2] \in Resumes /\ done
        <3>1. task' = [task EXCEPT !.node = "queued"] /\ episode' = [b \in Attempt |-> [episode[b] EXCEPT !.seen = FALSE]]
            BY <1>3, <2>1 DEF Affected
        <3>2. \A row \in Rows : [row EXCEPT !.seen = FALSE] \in Rows
            BY DEF Rows
        <3>3. \A row \in Rows : Alike([row EXCEPT !.seen = FALSE], row)
            BY DEF Rows, Alike
        <3>4. task' \in Tasks
            BY <1>1, <3>1 DEF Types, Tasks
        <3>5. \A b \in Attempt : episode[b] \in Rows
            BY <1>1 DEF Types
        <3>6. \A b \in Attempt : episode'[b] = [episode[b] EXCEPT !.seen = FALSE]
            BY <3>1
        <3>7. SameRows
            BY <3>3, <3>5, <3>6 DEF SameRows
        <3> DEFINE dated(row) == [row EXCEPT !.seen = FALSE]
        <3>8. episode' = [b \in Attempt |-> dated(episode[b])] /\ \A row \in Rows : dated(row) \in Rows
            BY <3>1, <3>2
        <3> HIDE DEF dated
        <3>9. episode' \in [Attempt -> Rows]
            BY <3>5, <3>8
        <3> QED BY <3>4, <3>7, <3>9
    <2>2. CASE ~(k[2] \in Resumes /\ done)
        <3>1. /\ task' \in {[task EXCEPT !.failure.facts = @ \ {"owner_repairs_exhausted"}], task}
              /\ episode' = episode
            BY <1>3, <2>2 DEF Affected
        <3>2. [task EXCEPT !.failure.facts = @ \ {"owner_repairs_exhausted"}] \in Tasks
            BY <1>1 DEF Types, Tasks
        <3> QED BY <1>1, <3>1, <3>2, RowsKept DEF Types
    <2> QED BY <2>1, <2>2
<1>10. repair' \in [Attempt -> Repairs]
       /\ \A b \in Attempt : repair'[b].linked = repair[b].linked /\ repair'[b].deployed = repair[b].deployed
    <2>1. \A r \in Repairs : \A d \in {"pending", r.delivery} :
             /\ [r EXCEPT !.delivery = d] \in Repairs
             /\ [r EXCEPT !.delivery = d].linked = r.linked /\ [r EXCEPT !.delivery = d].deployed = r.deployed
        BY DEF Repairs
    <2>2. PICK d \in {"pending", repair[a].delivery} : repair' = [repair EXCEPT ![a] = [repair[a] EXCEPT !.delivery = d]]
        BY <1>3
    <2>3. repair[a] \in Repairs
        BY <1>1, <1>2 DEF Types
    <2> DEFINE r == [repair[a] EXCEPT !.delivery = d]
    <2>4. r \in Repairs /\ r.linked = repair[a].linked /\ r.deployed = repair[a].deployed
        BY <2>1, <2>3
    <2>5. repair' = [repair EXCEPT ![a] = r]
        BY <2>2
    <2> HIDE DEF r
    <2> QED BY <1>1, <1>2, <2>4, <2>5 DEF Types
<1>11. Types'
    BY <1>1, <1>5, <1>8, <1>9, <1>10 DEF Types, TurnsTyped
<1>12. RowsGood'
    BY <1>9 DEF IInv, RowsGood, GoodRow, SameRows, Alike
<1>13. IntentsFit'
    <2> SUFFICES ASSUME NEW j \in Key PROVE IntentOf(j)'
        BY DEF IntentsFit
    <2>1. j[1] \in Attempt
        BY DEF Key
    <2>2. IntentOf(j)
        BY DEF IInv, IntentsFit
    <2> QED BY <1>1, <1>9, <2>1, <2>2 DEF IntentOf, SameRows, Alike
<1>14. OneUnsettled'
    BY <1>1 DEF IInv, OneUnsettled
<1>15. \A f \in Epoch : turn'[f].pc # "idle" => turn[f].pc # "idle" /\ turn'[f].key = turn[f].key /\ turn[f].key \in Key
    BY <1>1, <1>2, <1>6, <1>7 DEF SameTurn, Types
<1>16. TurnHolds'
    <2>1. epoch \in Epoch /\ (turn'[epoch].pc # "idle" => turn'[epoch].key[1] \in Attempt)
        BY <1>1, <1>15 DEF Types, Key
    <2> QED BY <1>1, <1>9, <1>15, <2>1 DEF IInv, TurnHolds, SameRows, Alike
<1>17. \A f \in Epoch : Dispatching(f)' <=> Dispatching(f) /\ f # e
    BY <1>6, <1>7 DEF Dispatching, SameTurn
<1>18. \A f \in Epoch : Dispatching(f)' => turn'[f].key = turn[f].key /\ turn[f].key \in Key \ {k}
    BY <1>4, <1>15, <1>17 DEF Dispatching
<1>19. DispatchedOnce'
    <2>1. \A f \in Epoch : turn'[f].pc \in {"begun", "acted"} => intent'[turn'[f].key].state # "none"
        BY <1>1, <1>6, <1>7 DEF IInv, DispatchedOnce, SameTurn
    <2>2. \A f \in Epoch : Dispatching(f)' =>
             /\ intent'[turn'[f].key].state \in Unsettled
             /\ effects'[turn'[f].key] = 0 /\ receipt'[turn'[f].key] = "none"
        BY <1>1, <1>5, <1>17, <1>18 DEF IInv, DispatchedOnce
    <2>3. \A f, g \in Epoch : Dispatching(f)' /\ Dispatching(g)' /\ turn'[f].key = turn'[g].key => f = g
        BY <1>17, <1>18 DEF IInv, DispatchedOnce
    <2>4. \A j \in Key : intent'[j].state = "none" => effects'[j] = 0 /\ receipt'[j] = "none"
        BY <1>1, <1>4, <1>5 DEF IInv, DispatchedOnce, Unsettled
    <2>5. \A j \in Key : effects'[j] \in 0 .. 1
        BY <1>5 DEF IInv, DispatchedOnce
    <2> QED BY <2>1, <2>2, <2>3, <2>4, <2>5 DEF DispatchedOnce
<1>20. OutcomesTrue'
    <2>1. \A j \in Key : intent'[j].state = "completed" => Truly(j, intent[j].ok)'
        BY <1>1, <1>4, <1>5 DEF IInv, OutcomesTrue, Truly, Unsettled
    <2>2. \A j \in Key : receipt'[j] # "none" => Truly(j, receipt[j])'
        <3> SUFFICES ASSUME NEW j \in Key, receipt'[j] # "none"
                     PROVE  effects'[j] = IF receipt'[j] = "ok" THEN 1 ELSE 0
            BY DEF Truly
        <3>1. CASE j = k
            BY <1>3, <1>5, <3>1
        <3>2. CASE j # k
            BY <1>5, <3>2 DEF IInv, OutcomesTrue, Truly
        <3> QED BY <3>1, <3>2
    <2>3. \A f \in Epoch : turn'[f].pc = "acted" =>
            /\ turn'[f].got # "none"
            /\ turn'[f].got # "unknown" =>
                  /\ effects'[turn'[f].key] = IF turn'[f].got = "ok" THEN 1 ELSE 0
                  /\ \A g \in Epoch : Dispatching(g)' => turn'[g].key # turn'[f].key
        <3> SUFFICES ASSUME NEW f \in Epoch, turn'[f].pc = "acted"
                     PROVE  /\ turn'[f].got # "none"
                            /\ turn'[f].got # "unknown" =>
                                 /\ effects'[turn'[f].key] = IF turn'[f].got = "ok" THEN 1 ELSE 0
                                 /\ \A g \in Epoch : Dispatching(g)' => turn'[g].key # turn'[f].key
            OBVIOUS
        <3>1. CASE f = e
            BY <1>3, <1>5, <1>6, <1>18, <3>1
        <3>2. CASE f # e
            <4>1. turn[f].pc = "acted" /\ turn'[f].got = turn[f].got /\ turn'[f].key = turn[f].key /\ turn[f].key \in Key
                BY <1>7, <1>15, <3>2 DEF SameTurn
            <4>2. turn[f].got # "none"
                BY <4>1 DEF IInv, OutcomesTrue
            <4>3. turn[f].got # "unknown" =>
                     /\ effects[turn[f].key] = IF turn[f].got = "ok" THEN 1 ELSE 0
                     /\ \A g \in Epoch : Dispatching(g) => turn[g].key # turn[f].key
                BY <4>1 DEF IInv, OutcomesTrue, Truly
            <4>4. turn[f].got # "unknown" => turn[f].key # k
                BY <1>1, <4>3
            <4> QED BY <1>5, <1>17, <1>18, <4>1, <4>2, <4>3, <4>4
        <3> QED BY <3>1, <3>2
    <2> QED BY <2>1, <2>2, <2>3 DEF OutcomesTrue, Truly
<1>21. \A b \in Attempt : Unheld(b)' <=> Unheld(b)
    BY <1>1, <1>10, RejectedSame DEF Unheld
<1>22. ParentsWait'
    <2>1. \A b \in Attempt : episode'[b].state = "ready" /\ episode'[b].action \in ParentActions => Unheld(b)'
        BY <1>9, <1>21 DEF IInv, ParentsWait, SameRows, Alike
    <2>2. \A f \in Epoch : Dispatching(f)' /\ turn'[f].key[2] \in ParentActions => Unheld(turn[f].key[1])'
        <3> SUFFICES ASSUME NEW f \in Epoch, Dispatching(f)', turn'[f].key[2] \in ParentActions
                     PROVE  Unheld(turn[f].key[1])'
            OBVIOUS
        <3>1. Dispatching(f) /\ turn'[f].key = turn[f].key /\ turn[f].key[1] \in Attempt
            BY <1>17, <1>18 DEF Key
        <3>2. Unheld(turn[f].key[1])
            BY <3>1 DEF IInv, ParentsWait
        <3> QED BY <1>21, <3>1, <3>2
    <2> QED BY <2>1, <2>2 DEF ParentsWait
<1> QED BY <1>11, <1>12, <1>13, <1>14, <1>16, <1>19, <1>20, <1>22 DEF IInv

---------------------------------------------------------------------------
(* Receipts. *)

\* What a receipt may write: the answer that is true and final, or that the
\* effect is not known, of which the row then asks a person or is suspended.
Closes(k, i, row) ==
    \/ /\ i.state = "completed" /\ i.ok \in Answer /\ Truly(k, i.ok)
       /\ \A f \in Epoch : Dispatching(f) => turn[f].key # k
    \/ /\ i.state = "unknown" /\ i.ok = "unknown" /\ row.state \in {"needs_action", "suspended"}
       /\ row.tries[k[2]] <= k[3]

\* A receipt closes the only open intent of an attempt and writes its row.
LEMMA AnsweringSteps ==
    ASSUME IInv, NEW k \in Key, intent[k].state \in Unsettled,
           NEW row \in Rows, Fits(k[1], row), NEW i \in Intents, Closes(k, i, row),
           intent' = [intent EXCEPT ![k] = i], episode' = [episode EXCEPT ![k[1]] = row],
           TurnsTyped', turn'[epoch].pc = "idle",
           \A f \in Epoch : turn'[f].pc # "idle" => SameTurn(f),
           UNCHANGED <<task, policy, repair, receipt, effects, epoch, lapsed>>
    PROVE  IInv'
<1> DEFINE a == k[1]
<1>1. Types /\ a \in Attempt
    BY DEF IInv, Key
<1>2. /\ intent' \in [Key -> Intents] /\ intent'[k] = i /\ \A j \in Key \ {k} : intent'[j] = intent[j]
      /\ episode' \in [Attempt -> Rows] /\ episode'[a] = row
      /\ \A b \in Attempt \ {a} : episode'[b] = episode[b]
    BY <1>1 DEF Types
<1>3. Types'
    BY <1>1, <1>2 DEF Types, TurnsTyped
<1>4. RowsGood'
    BY <1>2 DEF IInv, RowsGood, Fits
<1>5. i.state \in {"completed", "unknown"} /\ (i.state = "unknown" => i.ok = "unknown" /\ row.tries[k[2]] <= k[3])
    BY DEF Closes
<1>6. IntentsFit'
    <2> SUFFICES ASSUME NEW j \in Key PROVE IntentOf(j)'
        BY DEF IntentsFit
    <2>1. IntentOf(j) /\ j[1] \in Attempt
        BY DEF IInv, IntentsFit, Key
    <2>2. CASE j = k
        BY <1>2, <2>2 DEF IntentOf, Closes
    <2>3. CASE j # k /\ j[1] = a
        <3>1. intent[j].state \notin Unsettled
            BY <2>3 DEF IInv, OneUnsettled
        <3> QED BY <1>2, <2>1, <2>3, <3>1 DEF IntentOf, Unsettled
    <2>4. CASE j[1] # a
        BY <1>2, <2>1, <2>4 DEF IntentOf
    <2> QED BY <2>2, <2>3, <2>4
<1>7. OneUnsettled'
    BY <1>2 DEF IInv, OneUnsettled
<1>8. TurnHolds'
    BY DEF TurnHolds
<1>9. \A f \in Epoch : turn'[f].pc # "idle" =>
         SameTurn(f) /\ turn[f].pc # "idle" /\ turn[f].key \in Key /\ turn[f].key[1] \in Attempt
    BY <1>1 DEF SameTurn, Types, Key
<1>10. \A f \in Epoch : Dispatching(f)' => Dispatching(f) /\ turn'[f].key = turn[f].key /\ turn[f].key \in Key
    BY <1>9 DEF Dispatching, SameTurn
<1>11. \A f \in Epoch : Dispatching(f)' /\ turn[f].key = k => i.state = "unknown"
    BY <1>10 DEF Closes, Dispatching
<1>12. DispatchedOnce'
    <2>1. \A f \in Epoch : turn'[f].pc \in {"begun", "acted"} => intent'[turn'[f].key].state # "none"
        BY <1>2, <1>5, <1>9 DEF IInv, DispatchedOnce, SameTurn
    <2>2. \A f \in Epoch : Dispatching(f)' =>
             /\ intent'[turn'[f].key].state \in Unsettled
             /\ effects'[turn'[f].key] = 0 /\ receipt'[turn'[f].key] = "none"
        BY <1>2, <1>10, <1>11 DEF IInv, DispatchedOnce, Unsettled
    <2>3. \A f, g \in Epoch : Dispatching(f)' /\ Dispatching(g)' /\ turn'[f].key = turn'[g].key => f = g
        BY <1>10 DEF IInv, DispatchedOnce
    <2>4. \A j \in Key : intent'[j].state = "none" => effects'[j] = 0 /\ receipt'[j] = "none"
        BY <1>2, <1>5 DEF IInv, DispatchedOnce
    <2>5. \A j \in Key : effects'[j] \in 0 .. 1
        BY DEF IInv, DispatchedOnce
    <2> QED BY <2>1, <2>2, <2>3, <2>4, <2>5 DEF DispatchedOnce
<1>13. OutcomesTrue'
    <2>1. \A j \in Key : intent'[j].state = "completed" => Truly(j, intent[j].ok)'
        BY <1>2 DEF IInv, OutcomesTrue, Truly, Closes
    <2>2. \A j \in Key : receipt'[j] # "none" => Truly(j, receipt[j])'
        BY DEF IInv, OutcomesTrue, Truly
    <2>3. \A f \in Epoch : turn'[f].pc = "acted" =>
            /\ turn'[f].got # "none"
            /\ turn'[f].got # "unknown" =>
                  /\ Truly(turn[f].key, turn[f].got)'
                  /\ \A g \in Epoch : Dispatching(g)' => turn'[g].key # turn'[f].key
        BY <1>9, <1>10 DEF IInv, OutcomesTrue, Truly, SameTurn
    <2> QED BY <2>1, <2>2, <2>3 DEF OutcomesTrue
<1>14. \A b \in Attempt : Unheld(b) => Unheld(b)'
    <2> SUFFICES ASSUME NEW b \in Attempt, EnqueueRejected(b) PROVE EnqueueRejected(b)'
        BY DEF Unheld
    <2>1. policy.allowed \in Grants
        BY <1>1 DEF Types
    <2>2. CASE "request_repair" \in policy.allowed
        <3>1. \A n \in 1 .. MaxTries : <<b, "request_repair", n>> \in Key
            BY <2>1, <2>2 DEF Key, Granted
        <3>2. intent[k].ok # "rejected" /\ intent[k].state # "none" /\ intent'[k].state # "none"
            BY <1>2, <1>5 DEF IInv, IntentsFit, IntentOf, Unsettled
        <3>3. \A j \in Key : /\ intent'[j].state # "none" <=> intent[j].state # "none"
                             /\ intent[j].ok = "rejected" => intent'[j].ok = "rejected"
            BY <1>2, <3>2
        <3> QED BY <1>1, <1>3, <3>1, <3>3, RejectedGrows
    <2>3. CASE "request_repair" \notin policy.allowed
        BY <2>3 DEF EnqueueRejected
    <2> QED BY <2>2, <2>3
<1>15. ParentsWait'
    <2>1. \A b \in Attempt : episode'[b].state = "ready" /\ episode'[b].action \in ParentActions => Unheld(b)'
        BY <1>2, <1>14 DEF IInv, ParentsWait, Fits
    <2>2. \A f \in Epoch : Dispatching(f)' /\ turn'[f].key[2] \in ParentActions => Unheld(turn[f].key[1])'
        <3> SUFFICES ASSUME NEW f \in Epoch, Dispatching(f)', turn'[f].key[2] \in ParentActions
                     PROVE  Unheld(turn[f].key[1])'
            OBVIOUS
        <3>1. Dispatching(f) /\ turn'[f].key = turn[f].key /\ turn[f].key[1] \in Attempt
            BY <1>10 DEF Key
        <3>2. Unheld(turn[f].key[1])
            BY <3>1 DEF IInv, ParentsWait
        <3> QED BY <1>14, <3>1, <3>2
    <2> QED BY <2>1, <2>2 DEF ParentsWait
<1> QED BY <1>3, <1>4, <1>6, <1>7, <1>8, <1>12, <1>13, <1>15 DEF IInv

\* What an outcome is: the plan itself, or an order that proposes no action.
LEMMA OutcomeProposes ==
    ASSUME NEW s \in Granted, NEW row, NEW got, NEW d \in Proposals(Granted)
    PROVE  /\ Outcome(s, row, got, d) \in Proposals(Granted)
           /\ Outcome(s, row, got, d) = d \/ Outcome(s, row, got, d).action = NoAction
           /\ got = "unknown" => Outcome(s, row, got, d).state \in {"needs_action", "suspended"}
<1>1. /\ Suspend("user_pause") \in Proposals(Granted) /\ UnknownEffects \in Proposals(Granted)
      /\ BudgetExhausted \in Proposals(Granted)
    BY ReplyProposes DEF UnknownEffects, BudgetExhausted, Reason
<1>2. /\ Suspend("user_pause").action = NoAction /\ UnknownEffects.action = NoAction
      /\ BudgetExhausted.action = NoAction
      /\ Suspend("user_pause").state = "suspended" /\ UnknownEffects.state = "needs_action"
    BY DEF Suspend, UnknownEffects, BudgetExhausted, Ask, Report, Result
<1>3. Outcome(s, row, got, d) \in {Suspend("user_pause"), UnknownEffects, BudgetExhausted, d}
    BY DEF Outcome
<1>4. got = "unknown" => Outcome(s, row, got, d) \in {Suspend("user_pause"), UnknownEffects}
    BY DEF Outcome
<1> QED BY <1>1, <1>2, <1>3, <1>4

\* settle_action writes what the turn was answered.
LEMMA SettleKeeps ==
    ASSUME IInv, NEW e \in Epoch, SettleAction(e)
    PROVE  IInv'
<1> DEFINE k == turn[e].key
           a == k[1]
           stage == k[2]
           got == turn[e].got
           patched == Patched(episode[a], stage, got)
           counting == Counted(patched, stage, TRUE)
           settled == Counted(patched, stage, ~turn[e].existing)
           planned == Decide(a, counting)
           d == Outcome(stage, settled, got, planned)
           row == Settled(settled, stage, d)
<1>1. /\ Types /\ turn[e].pc = "acted" /\ turn[e] \in Turns /\ k \in Key
      /\ Holds(e, a) /\ intent[k].state = "executing"
      /\ UNCHANGED <<task, policy, repair, receipt, effects, epoch, lapsed>>
    BY DEF IInv, Types, SettleAction, MaySettle
<1>2. episode' = [episode EXCEPT ![a] = row] /\ turn' = [turn EXCEPT ![e] = IdleTurn]
    BY DEF SettleAction, Settlement, Planned, Received
<1>3. e = epoch /\ Formed(k) /\ a \in Attempt /\ stage \in Granted /\ k[3] \in 1 .. MaxTries
    BY <1>1 DEF Holds, IInv, TurnHolds, Formed, Key
<1>4. episode[a] \in Rows /\ episode[a].tries[stage] \in 0 .. MaxTries + 1 /\ k[3] = episode[a].tries[stage] + 1
    BY <1>1, <1>3 DEF Types, Rows, Formed
<1>5. episode[a].tries[stage] <= MaxTries
    BY <1>3, <1>4, Constants
<1>6. patched \in Rows /\ patched.tries = episode[a].tries
    BY <1>3, <1>4, PatchedRow DEF Alike
<1> HIDE DEF patched
<1>7. counting \in Rows
    BY <1>3, <1>5, <1>6, CountedRow
<1>8. PICK b \in BOOLEAN : b = ~turn[e].existing
    BY <1>1 DEF Turns
<1>9. settled \in Rows /\ settled.tries[stage] \in {patched.tries[stage], patched.tries[stage] + 1}
    BY <1>3, <1>5, <1>6, <1>8, CountedRow
<1> HIDE DEF settled, counting
<1>10. planned \in Proposals(Granted) /\ (~Unheld(a) => planned.action \notin ParentActions)
    <2>1. planned \in Proposals(Granted)
        BY <1>1, DecideProposes, AllowedGranted
    <2>2. counting.facts \subseteq KeptFact
        BY <1>7 DEF Rows
    <2> QED BY <1>1, <1>3, <2>1, <2>2, DecideWaits
<1> HIDE DEF planned
<1>11. /\ d \in Proposals(Granted) /\ (d = planned \/ d.action = NoAction)
       /\ got = "unknown" => d.state \in {"needs_action", "suspended"}
    BY <1>3, <1>10, OutcomeProposes
<1> HIDE DEF d
<1>12. row \in Rows /\ GoodRow(row) /\ row.state = d.state /\ row.action = d.action /\ row.tries = settled.tries
    BY <1>3, <1>9, <1>11, SettledRow
<1> HIDE DEF row
<1>13. Fits(a, row)
    BY <1>10, <1>11, <1>12 DEF Fits, ParentActions, NoAction
<1>14. row.tries[stage] <= k[3]
    BY <1>4, <1>6, <1>9, <1>12
<1>15. /\ TurnsTyped' /\ turn'[e] = IdleTurn /\ \A f \in Epoch \ {e} : SameTurn(f)
    BY <1>1, <1>2, TurnTyped, IdleTyped
<1>16. turn'[epoch].pc = "idle" /\ \A f \in Epoch : turn'[f].pc # "idle" => SameTurn(f)
    BY <1>3, <1>15, IdleTyped
<1>17. intent[k] \in Intents /\ got # "none" /\ got \in Answer \cup {"none", "unknown"}
    BY <1>1 DEF Types, Turns, IInv, OutcomesTrue
<1> HIDE DEF got
<1>18. CASE got = "unknown"
    <2> DEFINE i == [intent[k] EXCEPT !.state = "unknown", !.ok = "unknown"]
    <2>1. i \in Intents /\ i.state = "unknown" /\ i.ok = "unknown"
        BY <1>17 DEF Intents
    <2>2. intent' = [intent EXCEPT ![k] = i]
        BY <1>18 DEF SettleAction, got
    <2> HIDE DEF i
    <2>3. Closes(k, i, row)
        BY <1>11, <1>12, <1>14, <1>18, <2>1 DEF Closes
    <2> QED BY <1>1, <1>2, <1>12, <1>13, <1>15, <1>16, <2>1, <2>2, <2>3, AnsweringSteps DEF Unsettled
<1>19. CASE got # "unknown"
    <2> DEFINE i == [intent[k] EXCEPT !.state = "completed", !.ok = got]
    <2>1. i \in Intents /\ i.state = "completed" /\ i.ok = got /\ got \in Answer
        BY <1>17, <1>19 DEF Intents
    <2>2. intent' = [intent EXCEPT ![k] = i]
        BY <1>19 DEF SettleAction, Answered, got
    <2> HIDE DEF i
    <2>3. Truly(k, got) /\ \A f \in Epoch : Dispatching(f) => turn[f].key # k
        BY <1>1, <1>19 DEF IInv, OutcomesTrue, got
    <2>4. Closes(k, i, row)
        BY <2>1, <2>3 DEF Closes
    <2> QED BY <1>1, <1>2, <1>12, <1>13, <1>15, <1>16, <2>1, <2>2, <2>4, AnsweringSteps DEF Unsettled
<1> QED BY <1>18, <1>19

\* A receipt found later closes an intent whose effect was unknown.
LEMMA ReconcileKeeps ==
    ASSUME IInv, NEW e \in Epoch, NEW k \in Key, ReconcileUnknown(e, k)
    PROVE  IInv'
<1> DEFINE a == k[1]
           stage == k[2]
           got == receipt[k]
           patched == Patched(episode[a], stage, got)
           counted == Counted(patched, stage, TRUE)
           planned == Decide(a, patched)
           d == Outcome(stage, counted, got, planned)
           row == Settled(counted, stage, d)
           i == [intent[k] EXCEPT !.state = "completed", !.ok = got]
<1>1. /\ Types /\ turn[epoch].pc = "idle" /\ intent[k].state = "unknown" /\ got \in {"ok", "failed"}
      /\ UNCHANGED <<task, policy, repair, receipt, effects, turn, epoch, lapsed>>
    BY DEF IInv, ReconcileUnknown
<1>2. episode' = [episode EXCEPT ![a] = row] /\ intent' = [intent EXCEPT ![k] = i]
    BY DEF ReconcileUnknown, Answered
<1>3. a \in Attempt /\ stage \in Granted /\ k[3] \in 1 .. MaxTries
    BY DEF Key
<1>4. episode[a] \in Rows /\ episode[a].tries[stage] \in 0 .. MaxTries + 1 /\ episode[a].tries[stage] <= k[3]
    BY <1>1, <1>3 DEF Types, Rows, IInv, IntentsFit, IntentOf
<1>5. episode[a].tries[stage] <= MaxTries
    BY <1>3, <1>4, Constants
<1>6. patched \in Rows /\ patched.tries = episode[a].tries
    BY <1>3, <1>4, PatchedRow DEF Alike
<1> HIDE DEF patched
<1>7. counted \in Rows
    BY <1>3, <1>5, <1>6, CountedRow
<1> HIDE DEF counted
<1>8. planned \in Proposals(Granted) /\ (~Unheld(a) => planned.action \notin ParentActions)
    <2>1. planned \in Proposals(Granted)
        BY <1>1, DecideProposes, AllowedGranted
    <2>2. patched.facts \subseteq KeptFact
        BY <1>6 DEF Rows
    <2> QED BY <1>1, <1>3, <2>1, <2>2, DecideWaits
<1> HIDE DEF planned
<1>9. d \in Proposals(Granted) /\ (d = planned \/ d.action = NoAction)
    BY <1>3, <1>8, OutcomeProposes
<1> HIDE DEF d
<1>10. row \in Rows /\ GoodRow(row) /\ row.action = d.action
    BY <1>3, <1>7, <1>9, SettledRow
<1> HIDE DEF row
<1>11. Fits(a, row)
    BY <1>8, <1>9, <1>10 DEF Fits, ParentActions, NoAction
<1>12. TurnsTyped' /\ SameTurns
    BY <1>1, TurnsKept
<1>13. i \in Intents /\ i.state = "completed" /\ i.ok = got /\ got \in Answer
    <2>1. intent[k] \in Intents
        BY <1>1 DEF Types
    <2> QED BY <1>1, <2>1 DEF Intents, Answer
<1> HIDE DEF i
<1>14. Truly(k, got) /\ \A f \in Epoch : Dispatching(f) => turn[f].key # k
    BY <1>1 DEF IInv, OutcomesTrue, DispatchedOnce
<1>15. Closes(k, i, row)
    BY <1>13, <1>14 DEF Closes
<1> QED BY <1>1, <1>2, <1>10, <1>11, <1>12, <1>13, <1>15, AnsweringSteps DEF Unsettled, SameTurns

---------------------------------------------------------------------------
(* A new process. *)

\* A new process gives up what was executing and asks a person.
LEMMA RestartKeeps == IInv /\ Restart => IInv'
<1> SUFFICES ASSUME IInv, Restart PROVE IInv'
    OBVIOUS
<1>1. /\ Types /\ epoch' = epoch + 1 /\ epoch < MaxEpoch /\ epoch \in Epoch /\ epoch' \in Epoch
      /\ UNCHANGED <<policy, repair, receipt, effects, lapsed>>
    <2>1. /\ Types /\ epoch' = epoch + 1 /\ epoch < MaxEpoch /\ epoch \in Epoch
          /\ UNCHANGED <<policy, repair, receipt, effects, lapsed>>
        BY DEF IInv, Types, Restart
    <2>2. epoch + 1 \in 1 .. MaxEpoch
        BY <2>1, Constants DEF Epoch
    <2> QED BY <2>1, <2>2 DEF Epoch
<1>2. task' \in Tasks
    BY <1>1, TaskTyped, EventTyped DEF Restart
<1> DEFINE given(i) == [i EXCEPT !.state = "unknown", !.ok = "unknown"]
           asked(row) == Unleased(Decided(row, UnknownEffects))
<1>3. /\ intent' = [k \in Key |-> IF intent[k].state = "executing" THEN given(intent[k]) ELSE intent[k]]
      /\ episode' = [a \in Attempt |-> IF Interrupted(a) THEN asked(episode[a]) ELSE episode[a]]
    BY DEF Restart
<1>4. \A i \in Intents : given(i) \in Intents /\ given(i).state = "unknown" /\ given(i).ok = "unknown"
    BY DEF Intents
<1> HIDE DEF given
<1>5. /\ intent' \in [Key -> Intents]
      /\ \A k \in Key : intent[k].state # "executing" => intent'[k] = intent[k]
      /\ \A k \in Key : intent[k].state = "executing" => intent'[k].state = "unknown" /\ intent'[k].ok = "unknown"
    <2>1. \A k \in Key : intent[k] \in Intents
        BY <1>1 DEF Types
    <2> QED BY <1>3, <1>4, <2>1
<1>6. \A row \in Rows : /\ asked(row) \in Rows /\ GoodRow(asked(row)) /\ asked(row).state = "needs_action"
                        /\ asked(row).tries = row.tries
    <2> SUFFICES ASSUME NEW row \in Rows
                 PROVE  /\ asked(row) \in Rows /\ GoodRow(asked(row)) /\ asked(row).state = "needs_action"
                        /\ asked(row).tries = row.tries
        OBVIOUS
    <2> DEFINE d == Decided(row, UnknownEffects)
    <2>1. UnknownEffects \in Proposals(Granted) /\ UnknownEffects.state = "needs_action"
        <3>1. UnknownEffects \in Proposals(Granted)
            BY ReplyProposes DEF UnknownEffects, Reason
        <3> QED BY <3>1 DEF UnknownEffects, Ask, Result
    <2>2. d \in Rows /\ GoodRow(d) /\ d.state = "needs_action" /\ d.tries = row.tries
        BY <2>1, DecidedRow
    <2> HIDE DEF d
    <2>3. Unleased(d) \in Rows /\ Alike(Unleased(d), d)
        BY <2>2, UnleasedRow
    <2>4. GoodRow(Unleased(d)) /\ Unleased(d).state = "needs_action" /\ Unleased(d).tries = row.tries
        BY <2>2, <2>3 DEF Alike, GoodRow
    <2> QED BY <2>3, <2>4 DEF d
<1> HIDE DEF asked
<1>7. \A a \in Attempt : episode[a] \in Rows
    BY <1>1 DEF Types
<1>8. /\ episode' \in [Attempt -> Rows]
      /\ \A a \in Attempt : ~Interrupted(a) => episode'[a] = episode[a]
      /\ \A a \in Attempt : Interrupted(a) => /\ GoodRow(episode'[a]) /\ episode'[a].state = "needs_action"
                                              /\ episode'[a].tries = episode[a].tries
    BY <1>3, <1>6, <1>7
<1>9. /\ turn' \in [Epoch -> Turns]
      /\ \A e \in Epoch : turn'[e] = turn[e] \/ turn'[e] = IdleTurn
    <2>1. turn' = [turn EXCEPT ![epoch] = IdleTurn] \/ turn' = turn
        BY DEF Restart
    <2> QED BY <1>1, <2>1, IdleTyped DEF Types
<1>10. \A e \in Epoch : turn'[e].pc # "idle" => turn'[e] = turn[e] /\ turn[e].key \in Key /\ turn[e].key[1] \in Attempt
    BY <1>1, <1>9, IdleTyped DEF Types, Key
<1>11. \A e \in Epoch : e > epoch' => turn'[e] = IdleTurn
    BY <1>1, <1>9 DEF Types, Epoch
<1>12. turn'[epoch'] = IdleTurn
    <2>1. epoch' > epoch
        BY <1>1 DEF Epoch
    <2> QED BY <1>1, <1>9, <2>1 DEF Types
<1>13. Types'
    BY <1>1, <1>2, <1>5, <1>8, <1>9, <1>10, <1>11 DEF Types
<1>14. RowsGood'
    BY <1>8 DEF IInv, RowsGood
<1>15. IntentsFit'
    <2> SUFFICES ASSUME NEW k \in Key PROVE IntentOf(k)'
        BY DEF IntentsFit
    <2>1. IntentOf(k) /\ k[1] \in Attempt /\ k[3] \in 1 .. MaxTries /\ k[2] \in Granted
        BY DEF IInv, IntentsFit, Key
    <2>2. CASE intent[k].state = "executing"
        <3>1. Interrupted(k[1])
            BY <2>2 DEF Interrupted, Keys
        <3>2. episode[k[1]].tries[k[2]] \in 0 .. MaxTries + 1 /\ k[3] = episode[k[1]].tries[k[2]] + 1
            BY <1>7, <2>1, <2>2 DEF Rows, IntentOf
        <3>3. episode[k[1]].tries[k[2]] <= k[3]
            BY <3>2, Constants
        <3> QED BY <1>5, <1>8, <2>1, <2>2, <3>1, <3>3 DEF IntentOf
    <2>3. CASE intent[k].state # "executing"
        <3>1. intent'[k] = intent[k]
            BY <1>5, <2>3
        <3>2. CASE Interrupted(k[1])
            BY <1>8, <2>1, <2>3, <3>1, <3>2 DEF IntentOf
        <3>3. CASE ~Interrupted(k[1])
            BY <1>8, <2>1, <2>3, <3>1, <3>3 DEF IntentOf
        <3> QED BY <3>2, <3>3
    <2> QED BY <2>2, <2>3
<1>16. \A k \in Key : intent'[k].state \in Unsettled <=> intent[k].state \in Unsettled
    BY <1>5 DEF Unsettled
<1>17. OneUnsettled'
    BY <1>16 DEF IInv, OneUnsettled
<1>18. TurnHolds'
    BY <1>12, IdleTyped DEF TurnHolds
<1>19. \A e \in Epoch : Dispatching(e)' => Dispatching(e) /\ turn'[e] = turn[e] /\ turn[e].key \in Key
    BY <1>10 DEF Dispatching
<1>20. DispatchedOnce'
    <2>1. \A e \in Epoch : turn'[e].pc \in {"begun", "acted"} => intent'[turn'[e].key].state # "none"
        BY <1>5, <1>10 DEF IInv, DispatchedOnce
    <2>2. \A e \in Epoch : Dispatching(e)' =>
             /\ intent'[turn'[e].key].state \in Unsettled
             /\ effects'[turn'[e].key] = 0 /\ receipt'[turn'[e].key] = "none"
        BY <1>1, <1>16, <1>19 DEF IInv, DispatchedOnce
    <2>3. \A e, f \in Epoch : Dispatching(e)' /\ Dispatching(f)' /\ turn'[e].key = turn'[f].key => e = f
        BY <1>19 DEF IInv, DispatchedOnce
    <2>4. \A k \in Key : intent'[k].state = "none" => effects'[k] = 0 /\ receipt'[k] = "none"
        BY <1>1, <1>5 DEF IInv, DispatchedOnce
    <2>5. \A k \in Key : effects'[k] \in 0 .. 1
        BY <1>1 DEF IInv, DispatchedOnce
    <2> QED BY <2>1, <2>2, <2>3, <2>4, <2>5 DEF DispatchedOnce
<1>21. OutcomesTrue'
    <2>1. \A k \in Key : intent'[k].state = "completed" => Truly(k, intent[k].ok)'
        BY <1>1, <1>5 DEF IInv, OutcomesTrue, Truly
    <2>2. \A k \in Key : receipt'[k] # "none" => Truly(k, receipt[k])'
        BY <1>1 DEF IInv, OutcomesTrue, Truly
    <2>3. \A e \in Epoch : turn'[e].pc = "acted" =>
            /\ turn'[e].got # "none"
            /\ turn'[e].got # "unknown" =>
                  /\ Truly(turn[e].key, turn[e].got)'
                  /\ \A f \in Epoch : Dispatching(f)' => turn'[f].key # turn'[e].key
        BY <1>1, <1>10, <1>19 DEF IInv, OutcomesTrue, Truly
    <2> QED BY <2>1, <2>2, <2>3 DEF OutcomesTrue
<1>22. \A a \in Attempt : Unheld(a) => Unheld(a)'
    <2> SUFFICES ASSUME NEW a \in Attempt, EnqueueRejected(a) PROVE EnqueueRejected(a)'
        BY <1>1 DEF Unheld
    <2>1. policy.allowed \in Grants
        BY <1>1 DEF Types
    <2>2. CASE "request_repair" \in policy.allowed
        <3>1. \A n \in 1 .. MaxTries : <<a, "request_repair", n>> \in Key
            BY <2>1, <2>2 DEF Key, Granted
        <3>2. \A k \in Key : intent[k].state = "executing" => intent[k].ok = "none"
            BY DEF IInv, IntentsFit, IntentOf
        <3>3. \A k \in Key : /\ intent'[k].state # "none" <=> intent[k].state # "none"
                             /\ intent[k].ok = "rejected" => intent'[k].ok = "rejected"
            BY <1>5, <3>2
        <3> QED BY <1>1, <1>13, <3>1, <3>3, RejectedGrows
    <2>3. CASE "request_repair" \notin policy.allowed
        BY <1>1, <2>3 DEF EnqueueRejected
    <2> QED BY <2>2, <2>3
<1>23. ParentsWait'
    <2>1. \A a \in Attempt : episode'[a].state = "ready" /\ episode'[a].action \in ParentActions => Unheld(a)'
        BY <1>8, <1>22 DEF IInv, ParentsWait
    <2>2. \A e \in Epoch : Dispatching(e)' /\ turn'[e].key[2] \in ParentActions => Unheld(turn[e].key[1])'
        <3> SUFFICES ASSUME NEW e \in Epoch, Dispatching(e)', turn'[e].key[2] \in ParentActions
                     PROVE  Unheld(turn[e].key[1])'
            OBVIOUS
        <3>1. Dispatching(e) /\ turn'[e].key = turn[e].key /\ turn[e].key[1] \in Attempt
            BY <1>19 DEF Key
        <3>2. Unheld(turn[e].key[1])
            BY <3>1 DEF IInv, ParentsWait
        <3> QED BY <1>22, <3>1, <3>2
    <2> QED BY <2>1, <2>2 DEF ParentsWait
<1> QED BY <1>13, <1>14, <1>15, <1>17, <1>18, <1>20, <1>21, <1>23 DEF IInv

---------------------------------------------------------------------------
(* The theorems. *)

\* Every step of a turn,
LEMMA TurnKeeps ==
    ASSUME IInv, NEW e \in Epoch, Turn(e)
    PROVE  IInv'
BY BeginKeeps, RefusedKeeps, LinkKeeps, LookUpKeeps, RefuseKeeps, ExecuteKeeps, SettleKeeps DEF Turn

\* of the control loop
LEMMA ControlKeeps ==
    ASSUME IInv, NEW e \in Epoch, Control(e)
    PROVE  IInv'
BY DeployedKeeps, RefreshKeeps, FencedKeeps, ClaimKeeps, ReconcileKeeps, SupersededKeeps DEF Control

\* and of the system keeps the invariant.
LEMMA NextKeeps == IInv /\ [Next]_vars => IInv'
<1> SUFFICES ASSUME IInv, [Next]_vars PROVE IInv'
    OBVIOUS
<1> QED BY TurnKeeps, ControlKeeps, DeliveryKeeps, ClockKeeps, RestartKeeps, WorkerKeeps, OperatorKeeps,
           PolicyKeeps, WriteKeeps, StutterKeeps DEF Next, Clock

\* The invariant holds in every state: for any set of failures, policies, attempts, processes
\* and events, whatever the interleaving of turns, leases, restarts and operators.
THEOREM Inductive == Spec => []IInv
BY Initially, NextKeeps, PTL DEF Spec

\* The rows keep their columns' domains; a stage is counted at most once more than its limit,
\* and no request takes effect twice.
THEOREM RowsTyped == Spec => []TypeOK
<1>1. IInv => TypeOK
    <2> SUFFICES ASSUME IInv PROVE TypeOK
        OBVIOUS
    <2>1. Types
        BY DEF IInv
    <2>2. /\ task.control \in {"open", "paused", "cancelled"}
          /\ task.node \in {"blocked", "queued", "running", "accepted"}
          /\ task.attempt \in Attempt /\ task.failure.facts \subseteq Fact
        BY <2>1 DEF Types, Tasks
    <2>3. KeptFact \subseteq Fact
        BY DEF KeptFact, Fact
    <2>4. 0 .. MaxTries + 1 \subseteq 0 .. 2 * MaxTries
        BY Constants
    <2>5. ASSUME NEW a \in Attempt
          PROVE  /\ episode[a].state \in {"none", "waiting", "ready", "needs_action", "suspended", "resolved"}
                 /\ {episode[a].action, episode[a].stage, episode[a].last} \subseteq Granted \cup {NoAction}
                 /\ episode[a].tries \in [Granted -> 0 .. 2 * MaxTries]
                 /\ episode[a].facts \subseteq Fact /\ episode[a].owner \in 0 .. MaxEpoch
        <3>1. episode[a] \in Rows
            BY <2>1 DEF Types
        <3>2. episode[a].tries \in [Granted -> 0 .. MaxTries + 1]
            BY <3>1 DEF Rows
        <3>3. episode[a].tries \in [Granted -> 0 .. 2 * MaxTries]
            BY <2>4, <3>2
        <3> QED BY <2>3, <3>1, <3>3 DEF Rows, States, Stage
    <2>6. intent \in [Key -> [state : {"none", "executing", "unknown", "completed"},
                              plan : {"none", "adapter", "preflight"},
                              ok : {"none", "ok", "failed", "rejected", "unknown"}]]
        <3>1. Answer \cup {"none", "unknown"} = {"none", "ok", "failed", "rejected", "unknown"}
            BY DEF Answer
        <3> QED BY <2>1, <3>1 DEF Types, Intents
    <2>7. effects \in [Key -> 0 .. 1]
        BY <2>1 DEF Types, IInv, DispatchedOnce
    <2> QED BY <2>1, <2>2, <2>5, <2>6, <2>7 DEF Types, TypeOK
<1> QED BY <1>1, Inductive, PTL

\* Whoever is asked for a decision was notified of the reason the episode shows.
THEOREM PeopleTold == Spec => []NeedsActionNotified
<1>1. IInv => NeedsActionNotified
    BY DEF IInv, RowsGood, GoodRow, NeedsActionNotified
<1> QED BY <1>1, Inductive, PTL

\* No episode is resolved while the effect of one of its actions is open: an open intent
\* pins its row to ready, needs_action or suspended (IntentOf), which superseding, resuming and
\* settling respect.
THEOREM NothingBuried == Spec => []ResolvedSettled
<1>1. IInv => ResolvedSettled
    <2> SUFFICES ASSUME IInv, NEW a \in Attempt, episode[a].state = "resolved", NEW k \in Keys(a)
                 PROVE  intent[k].state \notin Unsettled
        BY DEF ResolvedSettled, HasUnsettled
    <2>1. k \in Key /\ k[1] = a
        BY DEF Keys
    <2>2. IntentOf(k)
        BY <2>1 DEF IInv, IntentsFit
    <2> QED BY <2>1, <2>2 DEF IntentOf, Unsettled
<1> QED BY <1>1, Inductive, PTL

\* Only an adapter that was dispatched by a turn takes effect.
LEMMA EffectOf ==
    ASSUME IInv, [Next]_vars, NEW k \in Key, effects'[k] > effects[k]
    PROVE  \E e \in Epoch : Dispatching(e) /\ turn[e].key = k
<1>1. Types /\ effects[k] \in Nat
    BY DEF IInv, Types
<1>2. effects' # effects
    BY <1>1
<1>3. PICK e \in Epoch : Execute(e)
    <2>1. ASSUME NEW e \in Epoch, Turn(e), ~Execute(e)
          PROVE  effects' = effects
        BY <2>1 DEF Turn, BeginAction, BeginRefused, LinkRepair, LookUp, Refuse, SettleAction, SettleRefused
    <2>2. ASSUME NEW e \in Epoch, Control(e)
          PROVE  effects' = effects
        BY <2>2 DEF Control, MarkRepairDeployed, RefreshNode, ClaimFenced, Claim, ReconcileUnknown, ReconcileSuperseded
    <2>3. ASSUME Clock \/ Restart \/ Worker \/ Operator \/ ConfigurePolicy \/ ControlledWrite
                 \/ \E a \in Attempt : RepairDelivery(a)
          PROVE  effects' = effects
        BY <2>3 DEF Clock, LeaseLapses, DeadlinePasses, BackoffEnds, Restart, Worker, WorkerStarts, WorkerEnds,
                    Operator, ConfigurePolicy, ControlledWrite, RepairDelivery
    <2>4. UNCHANGED vars => effects' = effects
        BY DEF vars
    <2> QED BY <1>2, <2>1, <2>2, <2>3, <2>4 DEF Next
<1>4. Dispatching(e) /\ turn[e].key \in Key
    BY <1>1, <1>3 DEF Execute, Fresh, ReadyToAct, Dispatching, Types
<1>5. turn[e].key = k
    BY <1>1, <1>2, <1>3, <1>4 DEF Execute, Types
<1> QED BY <1>4, <1>5

\* An action takes effect only while no other action of its attempt is open, whichever process
\* dispatched it: a row admits one open intent at a time (OneUnsettled).
THEOREM UnknownBlocked == Spec => UnknownBlocks
<1>1. IInv /\ [Next]_vars =>
        [\A k \in Key : effects'[k] > effects[k]
            => \A j \in Keys(k[1]) \ {k} : intent[j].state \notin Unsettled]_vars
    <2> SUFFICES ASSUME IInv, [Next]_vars, NEW k \in Key, effects'[k] > effects[k],
                        NEW j \in Keys(k[1]) \ {k}
                 PROVE  intent[j].state \notin Unsettled
        OBVIOUS
    <2>1. intent[k].state \in Unsettled
        BY EffectOf DEF IInv, DispatchedOnce
    <2>2. j \in Key /\ j[1] = k[1] /\ j # k
        BY DEF Keys
    <2> QED BY <2>1, <2>2 DEF IInv, OneUnsettled
<1> QED BY <1>1, Inductive, PTL DEF Spec, UnknownBlocks

\* Once a repair is linked, its parent is validated, recovered and resumed only after the
\* deployment was verified, or the request for the repair was rejected (ParentsWait).
THEOREM ParentsWaited == Spec => ParentWaitsForRepair
<1>1. IInv /\ [Next]_vars =>
        [\A k \in Key : (effects'[k] > effects[k] /\ k[2] \in ParentActions)
            => \/ ~repair[k[1]].linked \/ EnqueueRejected(k[1])
               \/ repair[k[1]].deployed]_vars
    <2> SUFFICES ASSUME IInv, [Next]_vars, NEW k \in Key, effects'[k] > effects[k], k[2] \in ParentActions
                 PROVE  \/ ~repair[k[1]].linked \/ EnqueueRejected(k[1]) \/ repair[k[1]].deployed
        OBVIOUS
    <2>1. Unheld(k[1])
        BY EffectOf DEF IInv, ParentsWait
    <2> QED BY <2>1 DEF Unheld
<1> QED BY <1>1, Inductive, PTL DEF Spec, ParentWaitsForRepair

---------------------------------------------------------------------------
(* The journal of intents implements AtMostOnce. *)

StatusOf(k) ==
    CASE intent[k].state = "none" -> "new"
      [] intent[k].state = "executing" -> "pending"
      [] intent[k].state = "unknown" -> "unknown"
      [] OTHER -> IF intent[k].ok = "ok" THEN "done" ELSE "failed"

Same == UNCHANGED effects /\ \A k \in Key : StatusOf(k)' = StatusOf(k)

\* One intent moves, the others stay.
Moves(k, old, new) ==
    /\ StatusOf(k) = old /\ StatusOf(k)' = new
    /\ \A j \in Key \ {k} : StatusOf(j)' = StatusOf(j)
    /\ UNCHANGED effects

Records(k) ==
    \E old \in {"pending", "unknown"} :
        \/ Moves(k, old, "done") /\ effects[k] = 1
        \/ Moves(k, old, "failed") /\ effects[k] = 0

Acts(k) ==
    /\ StatusOf(k) \in {"pending", "unknown"} /\ effects[k] = 0
    /\ effects' = [effects EXCEPT ![k] = 1]
    /\ \A j \in Key : StatusOf(j)' = StatusOf(j)

GivesUpAll ==
    /\ UNCHANGED effects
    /\ \A k \in Key : StatusOf(k)' = IF StatusOf(k) = "pending" THEN "unknown" ELSE StatusOf(k)

\* What a step does to the journal.
JournalChange ==
    \/ Same \/ GivesUpAll
    \/ \E k \in Key : Moves(k, "new", "pending") \/ Moves(k, "pending", "unknown") \/ Records(k) \/ Acts(k)

\* No intent and no effect changes.
LEMMA IntentsKept == ASSUME UNCHANGED <<intent, effects>> PROVE Same
BY DEF Same, StatusOf

\* One intent is rewritten, nothing takes effect.
LEMMA IntentMoves ==
    ASSUME Types, NEW k \in Key, NEW i \in Intents, intent' = [intent EXCEPT ![k] = i], UNCHANGED effects
    PROVE  /\ \A old, new : StatusOf(k) = old /\ new = StatusOf(k)' => Moves(k, old, new)
           /\ i.state = "executing" => StatusOf(k)' = "pending"
           /\ i.state = "unknown" => StatusOf(k)' = "unknown"
           /\ i.state = "completed" => StatusOf(k)' = IF i.ok = "ok" THEN "done" ELSE "failed"
<1>1. intent'[k] = i /\ \A j \in Key \ {k} : intent'[j] = intent[j]
    BY DEF Types
<1>2. \A j \in Key \ {k} : StatusOf(j)' = StatusOf(j)
    BY <1>1 DEF StatusOf
<1> QED BY <1>1, <1>2 DEF StatusOf, Moves

\* The status of an intent that is not completed.
LEMMA StatusKnown ==
    ASSUME NEW k \in Key
    PROVE  /\ intent[k].state = "none" => StatusOf(k) = "new"
           /\ intent[k].state = "executing" => StatusOf(k) = "pending"
           /\ intent[k].state = "unknown" => StatusOf(k) = "unknown"
BY DEF StatusOf

\* begin_action begins a request or finds it.
LEMMA BeginMoves ==
    ASSUME IInv, NEW e \in Epoch, BeginAction(e)
    PROVE  JournalChange
<1> DEFINE k == turn[e].key
<1>1. Types /\ k \in Key /\ UNCHANGED effects
    BY DEF IInv, Types, BeginAction
<1>2. CASE intent' = intent
    BY <1>1, <1>2, IntentsKept DEF JournalChange
<1>3. CASE intent[k].state = "none" /\ \E plan \in {"adapter", "preflight"} :
              intent' = [intent EXCEPT ![k] = [state |-> "executing", plan |-> plan, ok |-> "none"]]
    <2>1. PICK i \in Intents : i.state = "executing" /\ intent' = [intent EXCEPT ![k] = i]
        BY <1>3 DEF Intents
    <2>2. Moves(k, "new", "pending")
        BY <1>1, <1>3, <2>1, IntentMoves, StatusKnown
    <2> QED BY <1>1, <2>2 DEF JournalChange
<1> QED BY <1>2, <1>3 DEF BeginAction

\* An adapter that acts is the one effect of its request.
LEMMA ExecuteMoves ==
    ASSUME IInv, NEW e \in Epoch, Execute(e)
    PROVE  JournalChange
<1> DEFINE k == turn[e].key
<1>1. Types /\ k \in Key /\ intent' = intent /\ Dispatching(e)
    BY DEF IInv, Types, Execute, Fresh, ReadyToAct, Dispatching
<1>2. effects[k] = 0 /\ intent[k].state \in Unsettled
    BY <1>1 DEF IInv, DispatchedOnce
<1>3. PICK done \in BOOLEAN : effects' = [effects EXCEPT ![k] = IF done THEN @ + 1 ELSE @]
    BY DEF Execute
<1>4. \A j \in Key : StatusOf(j)' = StatusOf(j)
    BY <1>1 DEF StatusOf
<1>5. CASE done
    <2>1. effects' = [effects EXCEPT ![k] = 1]
        BY <1>1, <1>2, <1>3, <1>5 DEF Types
    <2>2. Acts(k)
        BY <1>1, <1>2, <1>4, <2>1, StatusKnown DEF Acts, Unsettled
    <2> QED BY <1>1, <2>2 DEF JournalChange
<1>6. CASE ~done
    <2>1. effects' = effects
        BY <1>1, <1>3, <1>6 DEF Types
    <2> QED BY <1>1, <2>1, IntentsKept DEF JournalChange
<1> QED BY <1>5, <1>6

\* A true answer of an intent that was open is recorded.
LEMMA AnswerRecords ==
    ASSUME Types, NEW k \in Key, intent[k].state \in Unsettled, NEW got \in Answer, Truly(k, got),
           intent' = Answered(k, got), UNCHANGED effects
    PROVE  Records(k)
<1> DEFINE i == [intent[k] EXCEPT !.state = "completed", !.ok = got]
<1>1. intent[k] \in Intents
    BY DEF Types
<1>2. i \in Intents /\ i.state = "completed" /\ i.ok = got
    BY <1>1 DEF Intents
<1>3. intent' = [intent EXCEPT ![k] = i]
    BY DEF Answered
<1> HIDE DEF i
<1>4. PICK old \in {"pending", "unknown"} : StatusOf(k) = old
    BY StatusKnown DEF Unsettled
<1>5. Moves(k, old, IF got = "ok" THEN "done" ELSE "failed")
    BY <1>2, <1>3, <1>4, IntentMoves
<1> QED BY <1>5 DEF Records, Truly

\* settle_action records a true answer or gives up.
LEMMA SettleMoves ==
    ASSUME IInv, NEW e \in Epoch, SettleAction(e)
    PROVE  JournalChange
<1> DEFINE k == turn[e].key
           got == turn[e].got
<1>1. /\ Types /\ k \in Key /\ turn[e].pc = "acted" /\ turn[e] \in Turns /\ intent[k].state = "executing"
      /\ UNCHANGED effects
    BY DEF IInv, Types, SettleAction, MaySettle
<1>2. CASE got = "unknown"
    <2> DEFINE i == [intent[k] EXCEPT !.state = "unknown", !.ok = "unknown"]
    <2>1. intent[k] \in Intents
        BY <1>1 DEF Types
    <2>2. i \in Intents /\ i.state = "unknown"
        BY <2>1 DEF Intents
    <2>3. intent' = [intent EXCEPT ![k] = i]
        BY <1>2 DEF SettleAction
    <2> HIDE DEF i
    <2>4. Moves(k, "pending", "unknown")
        BY <1>1, <2>2, <2>3, IntentMoves, StatusKnown
    <2> QED BY <1>1, <2>4 DEF JournalChange
<1>3. CASE got # "unknown"
    <2>1. got \in Answer /\ Truly(k, got)
        BY <1>1, <1>3 DEF IInv, OutcomesTrue, Turns
    <2>2. intent' = Answered(k, got)
        BY <1>3 DEF SettleAction
    <2>3. Records(k)
        BY <1>1, <2>1, <2>2, AnswerRecords DEF Unsettled
    <2> QED BY <1>1, <2>3 DEF JournalChange
<1> QED BY <1>2, <1>3

\* A receipt found later is recorded.
LEMMA ReconcileMoves ==
    ASSUME IInv, NEW e \in Epoch, NEW k \in Key, ReconcileUnknown(e, k)
    PROVE  JournalChange
<1>1. /\ Types /\ intent[k].state = "unknown" /\ receipt[k] \in Answer /\ receipt[k] # "none"
      /\ intent' = Answered(k, receipt[k]) /\ UNCHANGED effects
    BY DEF IInv, ReconcileUnknown, Answer
<1>2. Truly(k, receipt[k])
    BY <1>1 DEF IInv, OutcomesTrue
<1>3. Records(k)
    BY <1>1, <1>2, AnswerRecords DEF Unsettled
<1> QED BY <1>3 DEF JournalChange

\* A new process gives up every request that was pending.
LEMMA RestartMoves == IInv /\ Restart => JournalChange
<1> SUFFICES ASSUME IInv, Restart PROVE JournalChange
    OBVIOUS
<1>1. /\ Types /\ UNCHANGED effects
      /\ intent' = [k \in Key |->
            IF intent[k].state = "executing"
            THEN [intent[k] EXCEPT !.state = "unknown", !.ok = "unknown"] ELSE intent[k]]
    BY DEF IInv, Restart
<1>2. \A i \in Intents : [i EXCEPT !.state = "unknown", !.ok = "unknown"].state = "unknown"
    BY DEF Intents
<1>3. \A k \in Key : intent[k] \in Intents
    BY <1>1 DEF Types
<1>4. \A k \in Key : IF intent[k].state = "executing" THEN intent'[k].state = "unknown" ELSE intent'[k] = intent[k]
    BY <1>1, <1>2, <1>3
<1>5. GivesUpAll
    BY <1>1, <1>4 DEF GivesUpAll, StatusOf
<1> QED BY <1>5 DEF JournalChange

\* Every step is one change of the journal, or none.
LEMMA EveryStepMoves == IInv /\ [Next]_vars => JournalChange
<1> SUFFICES ASSUME IInv, [Next]_vars PROVE JournalChange
    OBVIOUS
<1>1. ASSUME NEW e \in Epoch, Turn(e)
      PROVE  JournalChange
    <2>1. BeginRefused(e) \/ LinkRepair(e) \/ LookUp(e) \/ Refuse(e) \/ SettleRefused(e) => UNCHANGED <<intent, effects>>
        BY DEF BeginRefused, LinkRepair, LookUp, Refuse, SettleRefused
    <2> QED BY <1>1, <2>1, IntentsKept, BeginMoves, ExecuteMoves, SettleMoves DEF Turn, JournalChange
<1>2. ASSUME NEW e \in Epoch, Control(e)
      PROVE  JournalChange
    <2>1. (\E a \in Attempt : MarkRepairDeployed(e, a) \/ RefreshNode(e, a) \/ ClaimFenced(e, a) \/ Claim(e, a))
              \/ ReconcileSuperseded(e) => UNCHANGED <<intent, effects>>
        BY DEF MarkRepairDeployed, RefreshNode, ClaimFenced, Claim, ReconcileSuperseded
    <2> QED BY <1>2, <2>1, IntentsKept, ReconcileMoves DEF Control, JournalChange
<1>3. ASSUME Clock \/ Worker \/ Operator \/ ConfigurePolicy \/ ControlledWrite \/ UNCHANGED vars
             \/ \E a \in Attempt : RepairDelivery(a)
      PROVE  JournalChange
    <2>1. UNCHANGED <<intent, effects>>
        BY <1>3 DEF Clock, LeaseLapses, DeadlinePasses, BackoffEnds, Worker, WorkerStarts, WorkerEnds, Operator,
                    ConfigurePolicy, ControlledWrite, RepairDelivery, vars
    <2> QED BY <2>1, IntentsKept DEF JournalChange
<1> QED BY <1>1, <1>2, <1>3, RestartMoves DEF Next

\* A change of the statuses is a step of the promise, or none.
LEMMA PromiseStep == JournalChange => [Requests!Next]_(Requests!vars)
<1> SUFFICES ASSUME JournalChange PROVE [Requests!Next]_(Requests!vars)
    OBVIOUS
<1>1. CASE Same
    BY <1>1 DEF Same, StatusOf, Requests!vars
<1>2. CASE GivesUpAll
    <2>1. CASE \E k \in Key : StatusOf(k) = "pending"
        <3>1. Requests!GiveUpAll
            BY <1>2, <2>1 DEF GivesUpAll, StatusOf, Requests!GiveUpAll
        <3> QED BY <3>1 DEF Requests!Next
    <2>2. CASE \A k \in Key : StatusOf(k) # "pending"
        <3>1. Same
            BY <1>2, <2>2 DEF GivesUpAll, Same
        <3> QED BY <3>1 DEF Same, StatusOf, Requests!vars
    <2> QED BY <2>1, <2>2
<1>3. ASSUME NEW k \in Key, Moves(k, "new", "pending")
      PROVE  Requests!Begin(k)
    BY <1>3 DEF Moves, StatusOf, Requests!Begin
<1>4. ASSUME NEW k \in Key, Moves(k, "pending", "unknown")
      PROVE  Requests!GiveUp(k)
    BY <1>4 DEF Moves, StatusOf, Requests!GiveUp
<1>5. ASSUME NEW k \in Key, Records(k)
      PROVE  Requests!Record(k)
    BY <1>5 DEF Records, Moves, StatusOf, Requests!Record
<1>6. ASSUME NEW k \in Key, Acts(k)
      PROVE  Requests!Act(k)
    BY <1>6 DEF Acts, StatusOf, Requests!Act
<1> QED BY <1>1, <1>2, <1>3, <1>4, <1>5, <1>6 DEF JournalChange, Requests!Next

\* Every behaviour of the journal of intents is one of AtMostOnce: a request takes effect at
\* most once, and its outcome, once recorded, stays and says what happened.
THEOREM JournalAtMostOnce == Spec => AtMostOnceAction
<1>1. Init => Requests!Init
    BY DEF Init, NoIntent, Requests!Init
<1>2. IInv /\ [Next]_vars => [Requests!Next]_(Requests!vars)
    BY EveryStepMoves, PromiseStep
<1> QED BY <1>1, <1>2, Inductive, PTL DEF Spec, AtMostOnceAction, Requests!Spec
=============================================================================
