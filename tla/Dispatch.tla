------------------------------ MODULE Dispatch ------------------------------
(***************************************************************************)
(* What a worker thread of the coordinator does with a node it claimed:    *)
(* _execute_claimed of service.py, the executors it calls, the evidence    *)
(* cache, and the contract WorkbenchStore.settle_node holds a result to.   *)
(*                                                                         *)
(* The worktree is prepared and the machine assessed; evidence of the same *)
(* inputs is reused, or an executor called and what it answered read,      *)
(* checked against the scopes and kept; the result is settled, or what was *)
(* refused is put to an approval.  Every step may fail in its own way, a   *)
(* takeover may come between any two, artifacts may get lost.              *)
(*                                                                         *)
(* Task states, leases and recoveries are those of TaskLedger; Archify     *)
(* receipts are left out.  Nodes of one kind have equal contracts, so that *)
(* their evidence is shared.                                               *)
(***************************************************************************)
EXTENDS Naturals, FiniteSets

CONSTANTS
    Node,
    Kind,           \* "verifier" (of Codex), "check" (deterministic, reads only), "codex", "claude"
    RetryLimit,
    MaxAttempt, MaxInput,   \* bound the attempts, and the revisions of sources and steering
    Lossy           \* whether artifacts get lost

\* What the theorems assume; Operations assumes it of its own.
DispatchAssumption ==
    /\ Node # {} /\ Kind \in [Node -> {"verifier", "check", "codex", "claude"}]
    /\ {RetryLimit, MaxAttempt} \subseteq Nat /\ MaxInput \in Nat /\ MaxInput > 0 /\ Lossy \in BOOLEAN

VARIABLES
    node,   \* open: an executor was called, and nobody knows that it ended
    run,    \* the thread of the node
    cache   \* rows of evidence_cache

vars == <<node, run, cache>>

Kinds == {"verifier", "check", "codex", "claude"}
Statuses == {"succeeded", "failed", "blocked", "indeterminate"}
\* What a result names as artifacts, as far as somebody asks for it.
Names == {"input", "materialization", "readiness", "harness", "structured", "required"}

Verifier(n) == Kind[n] = "verifier"

\* A result of the coordinator's own; on is the revision that an executor worked on.
Own(n, status) ==
    [status |-> status, verdict |-> IF Verifier(n) /\ status = "blocked" THEN "blocked" ELSE "none",
     checks |-> FALSE, model |-> "none", retryable |-> FALSE, names |-> {}, refs |-> {}, on |-> 0]

NoRun == [at |-> "idle", input |-> 1, ctx |-> {}, called |-> FALSE, reused |-> FALSE,
          provider |-> "codex", result |-> [Own(CHOOSE n \in Node : TRUE, "blocked") EXCEPT !.verdict = "none"]]

Init ==
    /\ node = [n \in Node |-> [state |-> "pending", attempt |-> 0, input |-> 1,
                               tree |-> FALSE, open |-> FALSE]]
    /\ run = [n \in Node |-> NoRun]
    /\ cache = {}

---------------------------------------------------------------------------
\* What an executor answers

\* exit: how the process ended; says: the status or verdict of its structured output, if any;
\* strays: whether the worktree changed outside of the scopes; recoverable: whether what
\* changed is all that a retry could restore, and the contract permits no outside effect.
Answer(n) ==
    {a \in [exit : {"zero", "nonzero", "late", "unqualified"},
            says : {"none", "succeeded", "failed", "blocked"},
            checks : BOOLEAN, required : BOOLEAN, strays : BOOLEAN, recoverable : BOOLEAN,
            model : {"leased", "other", "none"}] :
        /\ a.exit \in {"late", "unqualified"} =>
              a.says = "none" /\ ~a.strays /\ ~a.recoverable /\ a.model = "leased"
        /\ a.says = "none" => ~a.checks /\ ~a.required
        /\ a.says # "succeeded" => ~a.strays
        /\ a.recoverable => ~Verifier(n) /\ a.says = "blocked"
        /\ a.model # "leased" => run[n].provider = "claude"
        /\ Kind[n] = "check" => a.exit # "unqualified" /\ a.says = "none"}

\* Reading the answer; a turn that was late may go on.
Read(n, a, status) ==
    [status |-> status,
     verdict |-> IF ~Verifier(n) \/ a.says = "none" THEN "none"
                 ELSE CASE status = "succeeded" -> "accepted" [] status = "blocked" -> "blocked"
                        [] OTHER -> "needs_fix",
     checks |-> a.checks, model |-> a.model, retryable |-> FALSE,
     names |-> (IF a.says = "none" THEN {} ELSE {"structured"}) \cup (IF a.required THEN {"required"} ELSE {}),
     refs |-> {}, on |-> run[n].input]

CodexTurn(n, a) ==
    CASE a.exit = "unqualified" -> Own(n, "blocked")
      [] a.exit = "late" -> Own(n, "indeterminate")
      [] OTHER -> Read(n, a, IF a.exit # "zero" \/ a.says = "none" THEN "failed" ELSE a.says)

\* Exactly one model must attest the answer, and the answer be the one asked for.
ClaudeTurn(n, a) ==
    CASE a.exit = "unqualified" -> Own(n, "blocked")
      [] a.exit = "late" -> Own(n, "indeterminate")
      [] OTHER -> IF a.says = "none" \/ ~a.checks \/ a.model = "none"
                  THEN [Read(n, a, "failed") EXCEPT !.checks = FALSE]
                  ELSE Read(n, a, IF a.exit = "zero" THEN a.says ELSE "failed")

\* The exit is the check; a command that is late raises.
CheckTurn(n, a) ==
    IF a.exit = "late" THEN Own(n, "indeterminate")
    ELSE [Read(n, a, IF a.exit = "zero" THEN "succeeded" ELSE "failed") EXCEPT
             !.checks = TRUE, !.names = {"required"}]

Turn(n, a) ==
    IF Kind[n] = "check" THEN CheckTurn(n, a)
    ELSE IF run[n].provider = "claude" THEN ClaudeTurn(n, a) ELSE CodexTurn(n, a)

---------------------------------------------------------------------------
\* What the coordinator makes of it

\* The verdict of a verifier that strayed stays what it said.
InScope(a, r) == IF r.status = "succeeded" /\ a.strays THEN [r EXCEPT !.status = "failed"] ELSE r

\* A blocked worker that left files which can be restored may be retried.
Observed(n, a, r) ==
    IF ~Verifier(n) /\ r.status = "blocked" /\ a.recoverable THEN [r EXCEPT !.retryable = TRUE] ELSE r

\* The record of the attempt refers to what the context holds, and to what explains a failure.
References(r, ctx) ==
    (ctx \cap {"readiness", "input"})
    \cup (IF r.status = "succeeded" THEN {}
          ELSE IF r.on = 0 /\ r.status = "blocked" THEN ctx \cap {"materialization", "harness"}
          ELSE r.names \cap {"structured"})

\* What the context holds is attached before the record refers to it.
Attributed(r, ctx) == [r EXCEPT !.names = r.names \cup ctx, !.refs = References(r, ctx)]

Key(n) == <<Kind[n], run[n].input>>

\* Only what reads is evidence for somebody else.
Reusable(n) == Kind[n] \in {"verifier", "check"}

Row(key) == {row \in cache : row.key = key}

---------------------------------------------------------------------------
\* The contract of a result

\* References name artifacts of this result.
AttributionHolds(r) == r.refs \subseteq r.names

\* With the record of the attempt, a model that nothing attests is no mismatch.
ModelHolds(n, r) ==
    run[n].provider = "claude" /\ r.status \in {"succeeded", "failed"} => r.model # "other"

ContractMutant(n, r) == AttributionHolds(r) /\ ModelHolds(n, r)

ContractHolds(n, r) ==
    /\ AttributionHolds(r) /\ ModelHolds(n, r)
    /\ IF Verifier(n)
       THEN /\ r.status = "succeeded" => r.verdict = "accepted"
            /\ r.status = "failed" => r.verdict = "needs_fix"
            /\ r.status = "blocked" => r.verdict = "blocked"
            /\ r.status \in {"succeeded", "failed"} => r.checks
       ELSE r.status = "succeeded" => r.checks

\* A verifier that accepts without the artifacts the contract requires has failed.
Demanded(n, r) ==
    IF Verifier(n) /\ r.status = "succeeded" /\ "required" \notin r.names
    THEN [r EXCEPT !.status = "failed", !.verdict = "needs_fix"] ELSE r

---------------------------------------------------------------------------
\* The thread

Claim(n) ==
    /\ node[n].state = "pending" /\ node[n].attempt < MaxAttempt
    /\ node' = [node EXCEPT ![n].state = "running", ![n].attempt = @ + 1, ![n].tree = FALSE]
    /\ run' = [run EXCEPT ![n] = [NoRun EXCEPT !.at = "prepare", !.input = node[n].input,
                                               !.provider = IF Kind[n] = "claude" THEN "claude" ELSE "codex"]]
    /\ UNCHANGED cache

Moves(n, at) == run' = [run EXCEPT ![n].at = at]

Leaves(n, at) == run' = [run EXCEPT ![n] = [NoRun EXCEPT !.at = at]]

Working(n) == run[n].at \notin {"idle", "gone"}

Ends(n, r, ctx) ==
    run' = [run EXCEPT ![n].at = "settle", ![n].ctx = ctx, ![n].result = Attributed(r, ctx)]

\* Before the executor: inputs, files or dependencies are not to be had or the state changed;
\* a fault of the harness itself; anything else.
Fails(n, ctx) ==
    \/ Ends(n, Own(n, "blocked"), ctx)
    \/ Ends(n, Own(n, "blocked"), ctx \cup {"harness"})
    \/ Ends(n, Own(n, "indeterminate"), ctx)

Prepare(n) ==
    /\ run[n].at = "prepare" /\ node[n].state = "running"
    /\ \/ Fails(n, {}) /\ UNCHANGED node
       \/ /\ node' = [node EXCEPT ![n].tree = TRUE]
          /\ \/ \E ctx \in {{}, {"input"}, {"input", "materialization"}} : Fails(n, ctx)
             \/ run' = [run EXCEPT ![n].at = "assess", ![n].ctx = {"input", "materialization"}]
    /\ UNCHANGED cache

Assess(n) ==
    LET ctx == run[n].ctx \cup {"readiness"}
    IN  /\ run[n].at = "assess"
        /\ \/ Ends(n, Own(n, "blocked"), ctx)   \* not ready
           \/ Fails(n, ctx)
           \/ run' = [run EXCEPT ![n].at = IF Reusable(n) THEN "lookup" ELSE "route", ![n].ctx = ctx]
        /\ UNCHANGED <<node, cache>>

\* A row whose artifacts are not whole is dropped.
Lookup(n) ==
    LET whole == {row \in Row(Key(n)) : row.whole}
    IN  /\ run[n].at = "lookup"
        /\ IF whole # {}
           THEN run' = [run EXCEPT ![n].at = "reuse", ![n].result = (CHOOSE row \in whole : TRUE).result]
           ELSE Moves(n, "route")
        /\ cache' = cache \ (Row(Key(n)) \ whole)
        /\ UNCHANGED node

\* The row may be gone since.
Reuse(n) ==
    /\ run[n].at = "reuse"
    /\ IF Row(Key(n)) = {} THEN Ends(n, Own(n, "indeterminate"), run[n].ctx)
       ELSE run' = [run EXCEPT ![n].at = "settle", ![n].reused = TRUE,
                               ![n].result = Attributed(@, run[n].ctx)]
    /\ UNCHANGED <<node, cache>>

\* The call is noted before it is made; a claim that changed stops before.
Call(n) ==
    /\ run[n].at = "route"
    /\ \/ Fails(n, run[n].ctx) /\ UNCHANGED node
       \/ /\ run' = [run EXCEPT ![n].at = "called", ![n].called = TRUE]
          /\ node' = [node EXCEPT ![n].open = TRUE]
    /\ UNCHANGED cache

\* Codex takes over from a Claude that failed or did not run.
FallBack(n) ==
    /\ run[n].at = "called" /\ run[n].provider = "claude"
    /\ run' = [run EXCEPT ![n].provider = "codex"]
    /\ UNCHANGED <<node, cache>>

Closed(n, a) == node' = [node EXCEPT ![n].open = @ /\ a.exit = "late"]

\* Files can be unavailable after the call as before it; a state that changed, or anything else
\* that raises, says nothing of the executor's work.
Raised(n) ==
    \/ Ends(n, Own(n, "blocked"), run[n].ctx)
    \/ Ends(n, Own(n, "indeterminate"), run[n].ctx)

Return(n) ==
    /\ run[n].at = "called"
    /\ \E a \in Answer(n) :
          LET turn == Turn(n, a)
              r == InScope(a, Observed(n, a, turn))
          IN  /\ run[n].provider = "claude" => turn.status \notin {"failed", "blocked"}
              /\ Closed(n, a)
              /\ \/ /\ Reusable(n) /\ r.status = "succeeded"
                    /\ run' = [run EXCEPT ![n].at = "save", ![n].result = Attributed(r, run[n].ctx)]
                 \/ ~(Reusable(n) /\ r.status = "succeeded") /\ Ends(n, r, run[n].ctx)
                 \/ a.exit # "late" /\ Raised(n)
    /\ UNCHANGED cache

\* The first to save is kept.
Save(n) ==
    /\ run[n].at = "save"
    /\ cache' = IF Row(Key(n)) # {} THEN cache
                ELSE cache \cup {[key |-> Key(n), result |-> run[n].result, whole |-> TRUE]}
    /\ Moves(n, "settle")
    /\ UNCHANGED node

SettledState(r) ==
    CASE r.status = "succeeded" -> "accepted" [] OTHER -> r.status

\* A retry within the limit, or owners of the sources that a verifier named, make it pending.
Settle(n) ==
    LET r == Demanded(n, run[n].result)
        again == node[n].attempt <= RetryLimit
    IN  /\ run[n].at = "settle" /\ node[n].state = "running"
        /\ IF ~ContractHolds(n, run[n].result) THEN Moves(n, "refused") /\ UNCHANGED node
           ELSE /\ Leaves(n, "idle")
                /\ \/ node' = [node EXCEPT ![n].state = IF r.retryable /\ again THEN "pending" ELSE SettledState(r)]
                   \/ /\ Verifier(n) /\ r.status = "failed" /\ again /\ node[n].input < MaxInput
                      /\ node' = [node EXCEPT ![n].state = "pending", ![n].input = @ + 1]
        /\ UNCHANGED cache

\* What cannot be settled, and is still this thread's to settle, is put to an approval.
Reconcile(n) ==
    /\ run[n].at = "refused" /\ Leaves(n, "idle")
    /\ node' = IF node[n].state # "running" THEN node ELSE [node EXCEPT ![n].state = "indeterminate"]
    /\ UNCHANGED cache

\* After a takeover the thread finds its lease gone where it next asks for it.
Fenced(n) ==
    /\ run[n].at \in {"prepare", "settle"} /\ node[n].state # "running"
    /\ Leaves(n, "idle")
    /\ UNCHANGED <<node, cache>>

---------------------------------------------------------------------------
\* Others

\* Another coordinator takes over, or this one after its end: what ran is unknown.
Recover(n) ==
    /\ node[n].state = "running"
    /\ node' = [node EXCEPT ![n].state = "indeterminate"]
    /\ UNCHANGED run \/ Leaves(n, "gone")
    /\ UNCHANGED cache

\* An attempt with a worktree is retried only for a verifier, whose executor and thread were
\* confirmed to have ended.  What is decided as failed keeps a result that nothing continues.
Decide(n) ==
    /\ node[n].state = "indeterminate"
    /\ \/ /\ node[n].tree => Verifier(n) /\ ~Working(n)
          /\ node' = [node EXCEPT ![n].state = "pending", ![n].open = @ /\ ~node[n].tree]
       \/ node' = [node EXCEPT ![n].state = "closed"]
    /\ UNCHANGED <<run, cache>>

\* An operator continues what failed or is blocked.
Continue(n) ==
    /\ node[n].state \in {"failed", "blocked"}
    /\ \E i \in {node[n].input, node[n].input + 1} :
          i <= MaxInput /\ node' = [node EXCEPT ![n].state = "pending", ![n].input = i]
    /\ UNCHANGED <<run, cache>>

Steer(n) ==
    /\ node[n].state \in {"pending", "running"} /\ node[n].input < MaxInput
    /\ node' = [node EXCEPT ![n].input = @ + 1]
    /\ UNCHANGED <<run, cache>>

\* Files of the artifact store are damaged or removed.
Lose ==
    /\ Lossy
    /\ \E row \in cache : row.whole /\ cache' = (cache \ {row}) \cup {[row EXCEPT !.whole = FALSE]}
    /\ UNCHANGED <<node, run>>

Step(n) ==
    \/ Prepare(n) \/ Assess(n) \/ Lookup(n) \/ Reuse(n) \/ Call(n) \/ FallBack(n) \/ Return(n)
    \/ Save(n) \/ Settle(n) \/ Reconcile(n) \/ Fenced(n)

Next ==
    \/ \E n \in Node : Claim(n) \/ Step(n) \/ Recover(n) \/ Decide(n) \/ Continue(n) \/ Steer(n)
    \/ Lose

Spec == Init /\ [][Next]_vars

---------------------------------------------------------------------------
\* Properties

Results ==
    [status : Statuses, verdict : {"none", "accepted", "needs_fix", "blocked"}, checks : BOOLEAN,
     model : {"leased", "other", "none"}, retryable : BOOLEAN, names : SUBSET Names, refs : SUBSET Names,
     on : 0..MaxInput]

TypeOK ==
    /\ node \in [Node -> [state : {"pending", "running", "accepted", "failed", "blocked", "indeterminate", "closed"},
                          attempt : 0..MaxAttempt, input : 1..MaxInput, tree : BOOLEAN, open : BOOLEAN]]
    /\ \A n \in Node :
          /\ run[n].at \in {"idle", "gone", "prepare", "assess", "lookup", "reuse", "route", "called", "save",
                            "settle", "refused"}
          /\ run[n].input \in 1..MaxInput /\ run[n].ctx \subseteq Names
          /\ run[n].called \in BOOLEAN /\ run[n].reused \in BOOLEAN
          /\ run[n].provider \in {"codex", "claude"} /\ run[n].result \in Results
    /\ \A row \in cache : row.key \in Kinds \X (1..MaxInput) /\ row.result \in Results /\ row.whole \in BOOLEAN

\* A node is not free for another attempt while an executor of an earlier one may still be at
\* work, unless an operator has said that it ended (docs and README.md, indeterminate results);
\* and no attempt stays running once its thread has nothing left to do.
KnownEnd ==
    \A n \in Node :
        /\ node[n].state = "pending" => ~node[n].open
        /\ node[n].state = "running" => Working(n)

\* Evidence is that of the inputs it is kept under, from a turn that succeeded, and what is
\* about to be served from it is as well.
EvidenceSound ==
    /\ \A row \in cache : row.result.on = row.key[2] /\ row.result.status = "succeeded"
    /\ \A p, q \in cache : p.key = q.key => p = q
    /\ \A n \in Node :
          run[n].at = "settle" /\ run[n].result.status = "succeeded" => run[n].result.on = run[n].input

\* What its environment kept from starting ends blocked, and without an approval; what is accepted
\* succeeded on the inputs of the attempt, with checks, and a verifier with all that was required
\* and nothing changed elsewhere.
EndsClear ==
    \A n \in Node :
        node[n].state = "running" /\ run[n].at \in {"settle", "refused"}
        /\ run'[n].at \in {"idle", "refused"} /\ run'[n] # run[n] =>
            LET r == run[n].result
            IN  /\ ~run[n].called /\ ~run[n].reused /\ r.status = "blocked" => node'[n].state = "blocked"
                /\ node'[n].state = "accepted" =>
                      /\ r.status = "succeeded" /\ r.on = run[n].input /\ r.checks
                      /\ Verifier(n) => r.verdict = "accepted" /\ "required" \in r.names
=============================================================================
