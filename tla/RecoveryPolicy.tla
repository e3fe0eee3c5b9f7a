-------------------------- MODULE RecoveryPolicy --------------------------
(***************************************************************************)
(* The pure policy of blocked-node recovery (node_recovery_policy.py):     *)
(* plan_recovery turns an observation of a node into one proposal.  The    *)
(* proposal is the first rule, in the order of the code, whose condition   *)
(* holds; the rules are kept in the code's groups.                         *)
(*                                                                         *)
(* An observation o has the fields                                         *)
(*   enabled, allowed, repairable   the task's policy: whether it is on,   *)
(*                                  the actions it grants, and whether a   *)
(*                                  repair repository and scopes are named *)
(*   control, node, category        task control, node state, failure      *)
(*   facts                          the set of facts observed to be true   *)
(*   spent, late                    the stage's attempts and the elapsed   *)
(*                                  time have reached the policy's limits  *)
(*   resting                        the action taken last, while its       *)
(*                                  backoff has not passed                 *)
(***************************************************************************)
EXTENDS Naturals, Sequences

NoAction == "none"

RecoveryAction == {"observe_readiness", "materialize_dependencies", "narrow_validation",
                   "source_only_recovery", "request_repair", "resume_node",
                   "resume_owner_repairs", "repair_source"}

Category == {"capacity", "auth", "network", "environment", "tooling_bug",
             "validation_failure", "unknown_effects", "user_pause", "dependency", "unknown"}

\* The facts of an observation the policy tells apart.
Fact == {"approval_denied", "approval_pending", "owner_repairs_pending", "owner_repairs_exhausted",
         "repair_linked", "repair_requested", "repair_deployed", "repair_needs_action",
         "fresh_readiness_required", "repeated_failure", "controlled_repair_ready",
         "readiness_ready", "implementation_ready", "validation_succeeded", "profile_left",
         "verifier", "pre_execution", "not_started", "only_missing_dependency",
         "dependencies_ready", "dependencies_known", "recovery_resumed"}

Result(state, action, reason, auth) ==
    [state |-> state, action |-> action, reason |-> reason, auth |-> auth]
Wait(reason)      == Result("waiting", NoAction, reason, FALSE)
Ask(reason)       == Result("needs_action", NoAction, reason, TRUE)
Report(reason)    == Result("needs_action", NoAction, reason, FALSE)
Suspend(reason)   == Result("suspended", NoAction, reason, FALSE)
Halt(reason)      == Result("suspended", NoAction, reason, TRUE)
Resolve(reason)   == Result("resolved", NoAction, reason, FALSE)

\* _ready_action: the same action again waits for its backoff.
Take(o, action, reason) ==
    IF o.resting = action THEN Wait("backoff") ELSE Result("ready", action, reason, FALSE)

\* The element of a set of one.  {F(x) : x \in {v}} computes v once, however
\* often F uses it; an argument of F would be computed at every use.
The(single) == CHOOSE x \in single : TRUE

\* A rule of the table proposes its result when its condition holds; the first
\* rule that proposes something decides.
Rule(condition, result) == IF condition THEN {result} ELSE {}
FirstOf(rules) ==
    LET hits == {i \in DOMAIN rules : rules[i] # {}}
    IN CHOOSE d \in rules[CHOOSE i \in hits : \A j \in hits : i <= j] : TRUE

Has(o, fact) == fact \in o.facts
May(o, action) == action \in o.allowed
MayRequestRepair(o) == May(o, "request_repair") /\ o.repairable /\ ~o.late /\ ~o.spent
Unasked(o) == ~Has(o, "repair_linked") /\ ~Has(o, "repair_requested")
\* The node's own source is repaired, never a verifier's.
MayRepairSource(o) == May(o, "repair_source") /\ o.node = "blocked" /\ ~Has(o, "verifier")

\* What a person decided comes first, then what nobody may replay.
ControlRules(o) == <<
    Rule(~o.enabled, Suspend("policy_disabled")),
    Rule(o.control \in {"paused", "cancelled"}, Suspend("user_pause")),
    Rule(Has(o, "approval_denied"), Halt("approval_denied")),
    Rule(Has(o, "approval_pending"), Ask("approval_pending")),
    Rule(o.node = "indeterminate", Halt("indeterminate")),
    Rule(o.node = "accepted", Resolve("accepted")),
    Rule(o.category = "auth", Ask("authorization_required")),
    Rule(o.category = "unknown_effects", Ask("unknown_effects")) >>

\* The owners of this node's sources are being repaired, or could not be.
OwnerRules(o) ==
    LET exhausted == Has(o, "owner_repairs_pending") /\ Has(o, "owner_repairs_exhausted")
        deployed == Has(o, "repair_deployed")
        linked == Has(o, "repair_linked")
    IN << Rule(exhausted /\ linked /\ ~deployed /\ Has(o, "repair_needs_action"), Ask("repair_wait")),
          Rule(exhausted /\ linked /\ ~deployed, Wait("repair_deployment_wait")),
          Rule(exhausted /\ ~linked /\ Has(o, "repair_requested"), Wait("repair_request_pending")),
          Rule(exhausted /\ deployed /\ ~Has(o, "readiness_ready") /\ May(o, "observe_readiness"),
               Take(o, "observe_readiness", "fresh_authority_readiness_required")),
          Rule(exhausted /\ deployed /\ ~Has(o, "readiness_ready"),
               Report("accepted_owner_repair_readiness_unavailable")),
          Rule(exhausted /\ deployed /\ May(o, "resume_owner_repairs"),
               Take(o, "resume_owner_repairs", "verified_repair_resumes_exhausted_owners")),
          Rule(exhausted /\ deployed, Report("accepted_owner_repair_resume_action_unconfigured")),
          Rule(exhausted /\ MayRequestRepair(o),
               Take(o, "request_repair", "accepted_owner_repair_preparation_exhausted")),
          Rule(exhausted, Report("accepted_owner_repair_repair_unavailable")),
          Rule(Has(o, "owner_repairs_pending"), Wait("accepted_owner_repairs_pending")) >>

\* New evidence may open a stage; otherwise the budget closes the episode.
BudgetRules(o) == <<
    Rule(/\ Has(o, "repeated_failure") /\ Unasked(o) /\ MayRequestRepair(o)
         /\ o.category \in {"dependency", "environment", "network", "validation_failure", "tooling_bug"},
         Take(o, "request_repair", "repeated_recovery_failure")),
    Rule(/\ Has(o, "controlled_repair_ready") /\ Has(o, "readiness_ready")
         /\ MayRepairSource(o) /\ ~o.spent,
         Take(o, "repair_source", "controlled_source_write_verified")),
    Rule(o.spent \/ o.late, Report("budget_exhausted")) >>

\* A requested repair holds the parent until it is deployed and observed anew.
RepairRules(o) ==
    LET waits == Has(o, "repair_linked") /\ ~Has(o, "repair_deployed")
        unobserved == Has(o, "repair_deployed") /\ ~Has(o, "readiness_ready")
    IN << Rule(waits /\ Has(o, "repair_needs_action"), Ask("repair_wait")),
          Rule(waits /\ Has(o, "fresh_readiness_required") /\ May(o, "observe_readiness"),
               Take(o, "observe_readiness", "fresh_authority_readiness_required")),
          Rule(waits, Wait("repair_deployment_wait")),
          Rule(unobserved /\ May(o, "observe_readiness"),
               Take(o, "observe_readiness", "fresh_readiness_required")),
          Rule(unobserved, Ask("readiness_not_authorized")) >>

\* An implementation that is there is validated, then recovered from its source.
ImplementationRules(o, failed) == <<
    Rule(failed /\ Has(o, "validation_succeeded") /\ May(o, "source_only_recovery"),
         Take(o, "source_only_recovery", "source_only_after_validation")),
    Rule(failed /\ Has(o, "validation_succeeded"), Ask("source_recovery_not_authorized")),
    Rule(failed /\ Has(o, "profile_left") /\ May(o, "narrow_validation"),
         Take(o, "narrow_validation", "validation_authorized")),
    Rule(failed, Ask("validation_authorization_required")) >>

\* What a ready environment allows: a failed validation is repaired or repeated,
Validates(o) == Has(o, "readiness_ready") /\ o.category = "validation_failure"
SourceRules(o, failed) == <<
    Rule(failed /\ MayRepairSource(o) /\ ~Has(o, "validation_succeeded"),
         Take(o, "repair_source", "blocked_source_repair_authorized")),
    Rule(failed /\ ~Has(o, "implementation_ready"), Ask("implementation_not_ready")) >>

\* and a node that did not begin, or whose tool was repaired, is resumed.
ResumeRules(o) ==
    LET ready == Has(o, "readiness_ready")
        untouched == /\ ready /\ Has(o, "pre_execution")
                     /\ o.category \in {"dependency", "environment", "network", "tooling_bug"}
                     /\ \/ Has(o, "not_started")
                        \/ o.category = "dependency" /\ Has(o, "only_missing_dependency")
        repaired == ready /\ Has(o, "repair_deployed") /\ o.category = "tooling_bug"
    IN << Rule(untouched /\ May(o, "resume_node"), Take(o, "resume_node", "resume_after_readiness")),
          Rule(untouched, Ask("resume_not_authorized")),
          Rule(ready /\ o.category \in {"dependency", "environment", "network"},
               Ask("readiness_already_satisfied")),
          Rule(repaired /\ Has(o, "validation_succeeded") /\ May(o, "source_only_recovery"),
               Take(o, "source_only_recovery", "source_only_after_repair_validation")),
          Rule(repaired /\ Has(o, "profile_left") /\ May(o, "narrow_validation"),
               Take(o, "narrow_validation", "repair_requires_parent_validation")),
          Rule(repaired, Ask("parent_validation_authorization_required")) >>

ReadyRules(o) ==
    SourceRules(o, Validates(o)) \o ImplementationRules(o, Validates(o)) \o ResumeRules(o)

\* What is left: the environment is not ready, or nobody observed it.
EnvironmentRules(o) ==
    LET surroundings == o.category \in {"dependency", "environment", "network"}
        missing == o.category = "dependency" /\ Has(o, "dependencies_known") /\ ~Has(o, "dependencies_ready")
        failed == o.category = "validation_failure"
    IN << Rule(missing /\ May(o, "materialize_dependencies"),
               Take(o, "materialize_dependencies", "dependency_materialization")),
          Rule(surroundings /\ May(o, "observe_readiness"),
               Take(o, "observe_readiness", "readiness_observation")),
          Rule(surroundings, Ask("action_not_authorized")),
          Rule(failed /\ ~Has(o, "implementation_ready") /\ May(o, "observe_readiness"),
               Take(o, "observe_readiness", "implementation_readiness_required")),
          Rule(failed /\ ~Has(o, "implementation_ready"), Ask("implementation_not_ready")) >>

\* A broken tool is repaired; the last rule applies to anything.
ToolRules(o) ==
    LET bug == o.category = "tooling_bug"
    IN << Rule(bug /\ Has(o, "repair_requested"), Wait("repair_request_pending")),
          Rule(bug /\ May(o, "request_repair") /\ o.repairable,
               Take(o, "request_repair", "repair_authorized")),
          Rule(bug, Ask("repair_authorization_required")),
          Rule(o.category = "capacity", Wait("capacity_wait")),
          Rule(TRUE, Ask("unknown_evidence")) >>

CauseRules(o) ==
    EnvironmentRules(o) \o ImplementationRules(o, o.category = "validation_failure") \o ToolRules(o)

RulesMutant(o) ==
    ControlRules(o) \o OwnerRules(o) \o BudgetRules(o)
    \o ReadyRules(o) \o RepairRules(o) \o CauseRules(o)

\* The code's order.
Rules(o) ==
    ControlRules(o) \o OwnerRules(o) \o BudgetRules(o)
    \o RepairRules(o) \o ReadyRules(o) \o CauseRules(o)

PlanRecovery(o) == The({FirstOf(rules) : rules \in {Rules(x) : x \in {o}}})
=============================================================================
