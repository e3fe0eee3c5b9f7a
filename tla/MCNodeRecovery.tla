--------------------------- MODULE MCNodeRecovery ---------------------------
(* Small instances of NodeRecovery: a validation failure whose checks may be *)
(* repeated, and a broken tool that needs a repair before anything started.  *)
EXTENDS NodeRecovery

Validation == [category |-> "validation_failure", facts |-> {"implementation_ready", "profile_left"}]
BrokenTool == [category |-> "tooling_bug", facts |-> {"pre_execution", "not_started"}]

MCFailure == {Validation, BrokenTool}
RepairFailure == {BrokenTool}
MCGrants == {{"narrow_validation", "source_only_recovery"},
             {"observe_readiness", "request_repair", "resume_node"}}
LiveFailure == {Validation}
LiveGrants == {{"observe_readiness", "narrow_validation", "request_repair"},
               {"narrow_validation", "source_only_recovery"}}
=============================================================================
