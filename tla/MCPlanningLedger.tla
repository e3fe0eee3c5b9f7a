-------------------------- MODULE MCPlanningLedger --------------------------
(* Two commands, two tasks and two contexts of one session, for TLC.        *)
EXTENDS PlanningLedger, TLC

CONSTANTS c1, c2, t1, t2, x1, x2

Alike == Permutations({c1, c2}) \cup Permutations({t1, t2}) \cup Permutations({x1, x2})
=============================================================================
