---------------------------- MODULE StageEffects ----------------------------
(***************************************************************************)
(* What a delivery objective promises the outside world.  It walks through *)
(* attempts; the effect of an attempt (a push, a rollout) is asked for at   *)
(* most once, it is undone at most once, and an attempt whose effect is     *)
(* unknown is the last one.                                                 *)
(***************************************************************************)
EXTENDS Naturals

CONSTANTS Objective, AttemptLimit

VARIABLES
    at,       \* the stage and the attempt an objective has come to
    ran,      \* how often the effect of that attempt was asked for
    undone,   \* how often undoing it was asked for
    unknown   \* whether its effect is given up as unknown

vars == <<at, ran, undone, unknown>>

Init ==
    /\ at = [o \in Objective |-> [stage |-> 1, attempt |-> 1]]
    /\ ran = [o \in Objective |-> 0]
    /\ undone = [o \in Objective |-> 0]
    /\ unknown = [o \in Objective |-> FALSE]

Run(o) ==
    /\ ran[o] = 0 /\ ~unknown[o]
    /\ ran' = [ran EXCEPT ![o] = 1]
    /\ UNCHANGED <<at, undone, unknown>>

Undo(o) ==
    /\ undone[o] = 0
    /\ undone' = [undone EXCEPT ![o] = 1]
    /\ UNCHANGED <<at, ran, unknown>>

\* The next stage after a success, the next attempt after a failure.
Successors(p) ==
    {[stage |-> p.stage + 1, attempt |-> 1]}
    \cup IF p.attempt < AttemptLimit THEN {[p EXCEPT !.attempt = @ + 1]} ELSE {}

MoveOn(o) ==
    /\ ~unknown[o]
    /\ \E p \in Successors(at[o]) : at' = [at EXCEPT ![o] = p]
    /\ ran' = [ran EXCEPT ![o] = 0]
    /\ undone' = [undone EXCEPT ![o] = 0]
    /\ UNCHANGED unknown

GiveUp(o) ==
    /\ ~unknown[o]
    /\ unknown' = [unknown EXCEPT ![o] = TRUE]
    /\ UNCHANGED <<at, ran, undone>>

Next == \E o \in Objective : Run(o) \/ Undo(o) \/ MoveOn(o) \/ GiveUp(o)

Spec == Init /\ [][Next]_vars
=============================================================================
