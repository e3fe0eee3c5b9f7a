---------------------------- MODULE MCTaskLedger ----------------------------
(* A chain of workers a <- b and the verifier v, for TLC.                   *)
EXTENDS TaskLedger

CONSTANTS a, b, v

ChainDependsOn == [n \in {a, b, v} |-> CASE n = a -> {} [] n = b -> {a} [] n = v -> {a, b}]

ChainDependsOn1 == [n \in {a, v} |-> CASE n = a -> {} [] n = v -> {a}]
=============================================================================
