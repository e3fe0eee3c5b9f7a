---------------------------- MODULE MCOperations ----------------------------
(* A small instance of each operation; owner repairs join them. *)
EXTENDS Operations, TLC

\* Two blocked siblings compete for the lease of the repository; one worker is given two overlays.
MCHNode == "handoff" :> {"b1", "b2"} @@ "replays" :> {"b1"}
MCHTarget == "handoff" :> ("r1" :> "b1" @@ "r2" :> "b2") @@ "replays" :> ("r1" :> "b1" @@ "r2" :> "b1")
MCHMaxAttempt == "handoff" :> 2 @@ "replays" :> 3
MCHMaxAncestor == "handoff" :> 1 @@ "replays" :> 2
MCHMaxSource == "handoff" :> 2 @@ "replays" :> 1
MCHDisturbance == "handoff" :> {"here", "fence"} @@ "replays" :> {}
MCHAmendments == "handoff" :> {} @@ "replays" :> {"scope", "acceptance"}

\* Two Claude nodes that share its capacity, the small one retried once; and a brief Codex
\* node that reads what the one writes and runs alone in the task of the other.
MCAOrder == <<"a", "b", "c">>
MCATaskOf == "a" :> "t1" @@ "b" :> "t2" @@ "c" :> "t2"
MCADependsOn == "a" :> {} @@ "b" :> {} @@ "c" :> {}
MCAReads == "a" :> {} @@ "b" :> {} @@ "c" :> {"p"}
MCAWrites == "a" :> {"p"} @@ "b" :> {"q"} @@ "c" :> {"r"}
MCAProvider == "a" :> "claude" @@ "b" :> "claude" @@ "c" :> "codex"
MCAUnits == "a" :> 1 @@ "b" :> 2 @@ "c" :> 1
MCAMaxAttempt == "a" :> 2 @@ "b" :> 1 @@ "c" :> 1

\* Two verifiers of one kind share their evidence, and artifacts get lost; a worker of Claude,
\* which Codex may replace, and a command that checks; one verifier, three attempts, sources
\* that change between them.
MCDKind == "v1" :> "verifier" @@ "v2" :> "verifier" @@ "m" :> "claude" @@ "k" :> "check"
Acting == "evidence" :> {"v1", "v2"} @@ "workers" :> {"m", "k"} @@ "verifier" :> {"v1"}
Tries == "evidence" :> 1 @@ "workers" :> 2 @@ "verifier" :> 3
Inputs == "evidence" :> 1 @@ "workers" :> 1 @@ "verifier" :> 2

\* A check of each kind, with a budget of two seconds.
MCERequirements ==
    <<[kind |-> "dependency", required |-> FALSE], [kind |-> "tool", required |-> TRUE],
      [kind |-> "source", required |-> TRUE], [kind |-> "pnpm", required |-> FALSE]>>

\* What goes back up the graph is beside them.
VARIABLES rTask, rNode, rNotes, rSchedules, rRolled, rSpent

repairs == <<rTask, rNode, rNotes, rSchedules, rRolled, rSpent>>

Chain == "lib" :> {} @@ "app" :> {"lib"} @@ "use" :> {"app"} @@ "check" :> {"lib", "app", "use"}
Fork == "lib" :> {} @@ "app" :> {"lib"} @@ "use" :> {"lib"} @@ "check" :> {"lib", "app", "use"}

\* One repair up a chain of workers; each preparation may be tried twice.
Retries == INSTANCE OwnerRepair WITH
    Worker <- {"lib", "app", "use"}, Verifier <- "check", DependsOn <- Chain,
    RetryLimit <- 1, MaxAttempt <- 3, MaxSchedules <- 1, Repairs <- {"p"},
    task <- rTask, node <- rNode, notes <- rNotes, schedules <- rSchedules,
    rolled <- rRolled, spent <- rSpent

\* Two repairs; preparations are not tried again but resumed.
Resumes == INSTANCE OwnerRepair WITH
    Worker <- {"lib", "app", "use"}, Verifier <- "check", DependsOn <- Chain,
    RetryLimit <- 0, MaxAttempt <- 3, MaxSchedules <- 2, Repairs <- {"p"},
    task <- rTask, node <- rNode, notes <- rNotes, schedules <- rSchedules,
    rolled <- rRolled, spent <- rSpent

\* Two workers that build on a third.
Siblings == INSTANCE OwnerRepair WITH
    Worker <- {"lib", "app", "use"}, Verifier <- "check", DependsOn <- Fork,
    RetryLimit <- 0, MaxAttempt <- 2, MaxSchedules <- 1, Repairs <- {"p"},
    task <- rTask, node <- rNode, notes <- rNotes, schedules <- rSchedules,
    rolled <- rRolled, spent <- rSpent

\* Without a catalog, with one, and with one that has neither Spark nor Opus nor Fable; nothing
\* is known of the models, some were measured, or all were compared in public, once in a circle.
MCTOrder == <<"fable", "opus", "sonnet", "spark", "luna", "luna6", "sol", "terra">>
MCTFamily == [c \in {MCTOrder[i] : i \in 1..8} |-> IF c = "luna6" THEN "luna" ELSE c]
MCTCatalogs ==
    {<<>>,
     "fable" :> 100 @@ "opus" :> 100 @@ "sonnet" :> 80 @@ "spark" :> 60 @@
         "luna" :> 80 @@ "luna6" :> 80 @@ "sol" :> 100 @@ "terra" :> 80,
     "sonnet" :> 87 @@ "luna" :> 90 @@ "luna6" :> 88 @@ "sol" :> 100 @@ "terra" :> 91}

Seen(general, fable) ==
    [native |-> TRUE, certain |-> TRUE, general |-> general, sonnet |-> 3, fable |-> fable]
Known(cohort, bound) == [cohort |-> cohort, bound |-> bound, attempts |-> 2, rework |-> -1, latency |-> 5]
Vote(better, worse, clear) == [better |-> better, worse |-> worse, clear |-> clear]
MCTQuotas == {Seen(3, 3), Seen(2, 3), Seen(3, 1), [Seen(3, 3) EXCEPT !.certain = FALSE]}
MCTEvidences ==
    {[local |-> <<>>, votes |-> {}],
     [local |-> [c \in {"luna", "luna6", "terra", "sonnet"} |-> Known("k", IF c = "luna6" THEN 90 ELSE 80)],
      votes |-> {}],
     [local |-> <<>>,
      votes |-> {Vote("luna6", "luna", TRUE), Vote("luna6", "luna", FALSE), Vote("luna", "terra", TRUE),
                 Vote("terra", "luna6", FALSE), Vote("sonnet", "luna6", TRUE), Vote("sonnet", "luna", TRUE),
                 Vote("sonnet", "terra", FALSE)}],
     [local |-> <<>>,
      votes |-> {Vote("luna6", "luna", TRUE), Vote("luna", "terra", TRUE), Vote("terra", "luna6", TRUE),
                 Vote("sonnet", "luna6", TRUE), Vote("sonnet", "luna", FALSE), Vote("sonnet", "terra", FALSE)}]}
MCTContracts ==
    {[planner |-> "sol", verifier |-> "sol", complexity |-> "standard", parallel |-> TRUE,
      command |-> TRUE, claude |-> c, old |-> o] : c \in BOOLEAN, o \in BOOLEAN}
\* The kinds of nodes, each of them a command.
Asked(type, declared, claude, plain) ==
    [type |-> type, declared |-> declared, complexity |-> declared, parallel |-> type # "exploration",
     claude |-> claude, mechanical |-> TRUE, plain |-> plain, narrow |-> TRUE]
MCTWorks ==
    {Asked("implementation", "low", FALSE, TRUE), Asked("implementation", "standard", TRUE, TRUE),
     Asked("docs", "low", TRUE, FALSE), Asked("tests", "high", TRUE, TRUE),
     Asked("review", "standard", TRUE, FALSE), Asked("exploration", "standard", TRUE, TRUE)}
MCTBusy == {[codex |-> 0, claude |-> 0], [codex |-> 3, claude |-> 2]}

\* Parts that do not move have one start; contents are interchangeable.
Starts ==
    /\ part \in Parts
    /\ \/ part = "upgrade" /\ uOrigin \in {"local", "git"}
       \/ part # "upgrade" /\ uOrigin = "local" /\ uSource = [version |-> 1, content |-> "x"]
                           /\ uInstalled = 1 /\ uCache = 1 :> "x"
    /\ tFresh = TRUE
    /\ part # "routing" =>
          /\ tCatalog = <<>> /\ tQuota = Seen(3, 3) /\ tEvidence = [local |-> <<>>, votes |-> {}]
          /\ tContract = CHOOSE c \in MCTContracts : c.claude /\ ~c.old
MCInit == Starts /\ Init /\ uCache[uInstalled] = "x" /\ Retries!Init

\* Each look at the attempts has its nodes, and its bounds, and workers keep their artifacts;
\* of the two repairs that are resumed the task is paused before the second.
Bounds ==
    /\ part \in Attempted =>
          /\ \A n \in DNode : dNode'[n] # dNode[n] =>
                n \in Acting[part] /\ dNode'[n].attempt <= Tries[part] /\ dNode'[n].input <= Inputs[part]
          /\ part = "workers" => \A row \in dCache' : row.whole
    /\ part = "resumes" /\ rTask' = "paused" => Len(rSchedules') < 2

MCNext ==
    /\ \/ Next /\ UNCHANGED repairs
       \/ /\ \/ part = "retries" /\ Retries!Next
             \/ part = "resumes" /\ Resumes!Next
             \/ part = "siblings" /\ Siblings!Next
          /\ UNCHANGED vars
    /\ Bounds

mcvars == <<vars, repairs>>
MCSpec == MCInit /\ [][MCNext]_mcvars

\* After every step: an owner that is repaired has its instruction, and what runs on accepted
\* work has what was repaired of it; an overlay makes an input impossible only for a cause; and
\* owners that are queued leave the task with something to do.
RepairsTrue ==
    /\ part = "handoff" => Handoff!RefusedForCause
    /\ part = "replays" => Replays!RefusedForCause
    /\ part = "retries" => Retries!TypeOK /\ Retries!OwnersAreTold /\ Retries!ClosureCurrent
    /\ part = "resumes" => Resumes!TypeOK /\ Resumes!OwnersAreTold /\ Resumes!ClosureCurrent
    /\ part = "siblings" => Siblings!TypeOK /\ Siblings!OwnersAreTold /\ Siblings!ClosureCurrent
RepairsMove ==
    /\ part = "retries" => Retries!OwnersMove
    /\ part = "resumes" => Resumes!OwnersMove
    /\ part = "siblings" => Siblings!OwnersMove
RepairsSound == [][RepairsTrue' /\ RepairsMove]_mcvars
=============================================================================
