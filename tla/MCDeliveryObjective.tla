------------------------- MODULE MCDeliveryObjective -------------------------
(* The stages of the objectives in the runs: one objective that goes all the *)
(* way, and two whose rollouts compete.                                      *)
EXTENDS DeliveryObjective, TLC

Publication == <<<<"task", "github", "deploy", "live-verify">>>>

TwoRollouts == <<<<"task", "deploy", "live-verify">>, <<"task", "deploy", "live-verify">>>>

\* effect is a record of what was asked for: no action and no invariant of the run of
\* the rollouts reads it.
RolloutView == <<phase, row, dispatch, noted, granted, overdue, busy, turn, helper>>
=============================================================================
