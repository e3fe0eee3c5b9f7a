---------------------------- MODULE MCProtocols ----------------------------
(* A small instance of each protocol. *)
EXTENDS Protocols, TLC

\* Two bridges send one continuation; or one of them a continuation, the other a validation.
MCResent == {<<"c1", "r1">>, <<"c2", "r1">>}
MCBeside == {<<"c1", "r1">>, <<"c2", "r2">>}
MCKind == "r1" :> "continue" @@ "r2" :> "validation"
MCTaskOf == "r1" :> "t1" @@ "r2" :> "t1"

\* The operator sweeps two allocations at a time.
MCOrder == <<"w", "v">>
MCMaxItems == "operator" :> 2

MCLinkers == <<"apps", "root", "packages">>

\* Checks of two commands and of one, which write.
MCWrites == "a" :> "pairing" @@ "b" :> "note"
MCCommands == "a" :> 2 @@ "b" :> 1

\* Parts that do not move have one start.
MCInit ==
    /\ Init
    /\ part # "outbox" => nLog = <<>>
    /\ part # "blocked" => bTask = "blocked"
    /\ part # "amendments" => cTask.state = "blocked" /\ cTask.allowed = {"x"} /\ cE.attempt = 0

\* Calls are interchangeable.
InOrder == cCall'["b"].at # "idle" => cCall'["a"].at # "idle"

MCSpec == MCInit /\ [][Next /\ InOrder]_vars /\ Fairness
============================================================================
