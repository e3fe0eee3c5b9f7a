------------------------- MODULE ContractAmendments -------------------------
(***************************************************************************)
(* Changes to the contract of a stopped task, and to what its nodes may    *)
(* read and write: the acceptance prerequisite (acceptance_amendment.py),  *)
(* the scopes of the integration lane (d_integration_scope.py), the exact  *)
(* path in place of a legacy pattern and the Archify metadata (store.py).  *)
(*                                                                         *)
(* Each is previewed first.  Applying it reads the state, the files and    *)
(* the state again without a lock, compares that with the preview, and     *)
(* writes in one transaction that compares the state once more.  Retries,  *)
(* claims, other tasks of the repository and whoever edits the worktree    *)
(* come between.  What was read twice and found equal counts as one read:  *)
(* a revision never returns.                                               *)
(*                                                                         *)
(* "d" is the worker node that stopped, "e" the verifier after it, which   *)
(* stays pending: it depends on "d".                                       *)
(***************************************************************************)
EXTENDS Naturals, FiniteSets

CONSTANTS
    Call,
    Fixed,          \* paths that the scope profile adds
    Exact, Legacy,  \* a file, and the one pattern of the node that stands for it
    Rival,          \* what nodes of other tasks of the repository write; Legacy is a pattern
    MaxRevision, MaxVersion     \* bound the task's revisions and the edits

\* The pattern, the file it stands for and the fixed paths are different scopes.
AmendmentsAssumption ==
    /\ IsFiniteSet(Call)
    /\ Exact # Legacy /\ Exact \notin Fixed /\ Legacy \notin Fixed
    /\ MaxRevision \in Nat \ {0} /\ MaxVersion \in Nat \ {0}

VARIABLES
    task,   \* hosts: Host prerequisites among the acceptance commands
    d,
    e,      \* attempt 1: it failed once and its worktree is kept, busy or idle
    rival,  \* the scope of the running node of another task
    files,  \* of the worktree of "d": revision, processes at work, what matches the pattern
    validating,     \* a controlled validation of "d" executes
    call

vars == <<task, d, e, rival, files, validating, call>>

Kinds == {"acceptance", "scope", "exact"}
None == [at |-> "idle", kind |-> "acceptance", shown |-> <<>>]

Contract == [hosts |-> task.hosts, allowed |-> task.allowed]
Spec(n) == [reads |-> n.reads, writes |-> n.writes]

Init ==
    /\ \E p \in SUBSET Fixed, doubt \in BOOLEAN :
          /\ task = [state |-> IF doubt THEN "needs_approval" ELSE "blocked", revision |-> 1,
                     hosts |-> 0, allowed |-> p \cup {Exact}]
          /\ d = [state |-> IF doubt THEN "indeterminate" ELSE "blocked", attempt |-> 1,
                  reads |-> {}, writes |-> {Legacy}]
    /\ \E a \in 0..1 :
          e = [attempt |-> a, reads |-> {}, writes |-> {}, meta |-> "stale", busy |-> FALSE]
    /\ rival = {}
    /\ files = [version |-> 1, busy |-> FALSE, matches |-> {Exact}]
    /\ validating = FALSE
    /\ call = [c \in Call |-> None]

---------------------------------------------------------------------------
\* What each amendment asks of the durable state

\* Nothing of the task runs or waits for an approval.
StoppedBlocked == task.state = "blocked" /\ d.state = "blocked" /\ ~validating

\* Native fence of both amendments of a blocked task: contract, node and allocation.
Candidate == [task |-> task, node |-> [state |-> d.state, attempt |-> d.attempt]]

\* Of the verifier only what its last attempt left behind, proved by its events.
Retained == {a \in {e.attempt} : a > 0}

\* The lane's specifications besides.
LaneBinding == [native |-> Candidate, d |-> Spec(d), e |-> Spec(e), meta |-> e.meta, retained |-> Retained]

\* The set of running scopes is bound too.
ExactBinding == [native |-> Candidate, d |-> Spec(d), running |-> rival]

Eligible(kind) ==
    IF kind = "exact" THEN task.state = "needs_approval" /\ d.state = "indeterminate" ELSE StoppedBlocked

Binding(kind) ==
    CASE kind = "acceptance" -> Candidate [] kind = "scope" -> LaneBinding [] kind = "exact" -> ExactBinding

---------------------------------------------------------------------------
\* What the files must say, and what is written

\* Exactly one client build and no Host prerequisite yet.
TakesHost == task.hosts = 0

\* Only what no literal scope covers is added; a pattern covers nothing.
Uncovered(scopes) == Fixed \ scopes

\* The verifier writes nothing, and nobody works in what it left.
LaneStands == e.writes = {}
RetainedIdle == Retained # {} => ~e.busy

TakesScope ==
    /\ ~files.busy /\ LaneStands /\ RetainedIdle
    /\ \/ Uncovered(task.allowed) # {} \/ Uncovered(d.reads) # {}
       \/ Uncovered(d.writes) # {} \/ Uncovered(e.reads) # {}

\* Patterns cannot be compared: one that is left, or runs, refuses.
Conflicts(scopes) == Legacy \in scopes \/ Exact \in scopes

\* The pattern stands for this one file, and the file is a declared output.
StandsFor == files.matches = {Exact} /\ Legacy \in d.writes

TakesExact ==
    /\ ~files.busy /\ StandsFor
    /\ Exact \in task.allowed
    /\ ~Conflicts(rival)

Takes(kind) ==
    CASE kind = "acceptance" -> TakesHost [] kind = "scope" -> TakesScope [] kind = "exact" -> TakesExact

\* What the file side of a preview is a fingerprint of: configuration and entry points; the
\* whole delta and what lies at the fixed paths; the file and what else matches.
HostFacts == <<files.version>>
ScopeFacts == <<files.version, files.matches>>
ExactFacts == <<files.version, files.matches>>

Facts(kind) ==
    CASE kind = "acceptance" -> HostFacts [] kind = "scope" -> ScopeFacts [] kind = "exact" -> ExactFacts

Preview(kind) == [binding |-> Binding(kind), facts |-> Facts(kind)]

\* The amendment of what was bound, not of what is there now.
AddsHost(b) ==
    /\ task' = [task EXCEPT !.hosts = b.task.hosts + 1, !.allowed = b.task.allowed, !.revision = b.task.revision + 1]
    /\ UNCHANGED <<d, e>>

AddsScope(b) ==
    /\ task' = [task EXCEPT !.allowed = b.native.task.allowed \cup Fixed, !.hosts = b.native.task.hosts,
                            !.revision = b.native.task.revision + 1]
    /\ d' = [d EXCEPT !.reads = b.d.reads \cup Fixed, !.writes = b.d.writes \cup Fixed]
    /\ e' = [e EXCEPT !.reads = b.e.reads \cup Fixed]

Narrows(b) ==
    /\ task' = [task EXCEPT !.revision = b.native.task.revision + 1]
    /\ d' = [d EXCEPT !.writes = (b.d.writes \ {Legacy}) \cup {Exact}]
    /\ UNCHANGED e

Amended(kind, b) ==
    CASE kind = "acceptance" -> AddsHost(b) [] kind = "scope" -> AddsScope(b) [] kind = "exact" -> Narrows(b)

---------------------------------------------------------------------------
\* A call: preview, apply

Show(c, kind) ==
    /\ call[c].at = "idle" /\ Eligible(kind) /\ Takes(kind)
    /\ call' = [call EXCEPT ![c] = [at |-> "shown", kind |-> kind, shown |-> Preview(kind)]]
    /\ UNCHANGED <<task, d, e, rival, files, validating>>

Ends(c, at) == call' = [call EXCEPT ![c].at = at, ![c].shown = <<>>]

\* A preview is a fingerprint of everything, but for the exact path: there it names the
\* revision, the attempt and the file only.
Fingerprint(kind, p) ==
    IF kind = "exact" THEN <<p.binding.native, p.facts[1]>> ELSE p

\* The preview again, against the one that was shown.
Recheck(c) ==
    LET kind == call[c].kind
    IN  /\ call[c].at = "shown"
        /\ IF Eligible(kind) /\ Takes(kind) /\ Fingerprint(kind, Preview(kind)) = Fingerprint(kind, call[c].shown)
           THEN call' = [call EXCEPT ![c].at = "checked", ![c].shown = Preview(kind)]
           ELSE Ends(c, "refused")
        /\ UNCHANGED <<task, d, e, rival, files, validating>>

Unmoved(c) == Eligible(call[c].kind) /\ Binding(call[c].kind) = call[c].shown.binding

\* The transaction compares what is durable; it reads no file.
Commit(c) ==
    /\ call[c].at = "checked"
    /\ IF Unmoved(c) /\ task.revision < MaxRevision
       THEN Amended(call[c].kind, call[c].shown.binding) /\ Ends(c, "applied")
       ELSE Ends(c, "refused") /\ UNCHANGED <<task, d, e>>
    /\ UNCHANGED <<rival, files, validating>>

\* Nodes that never ran, and are told another thing than their dependencies say now.
Derivable == e.attempt = 0 /\ e.meta = "stale"

\* Their metadata, in one transaction.
ReconcileArchify ==
    /\ task.state = "blocked" /\ d.state \notin {"running", "indeterminate"}
    /\ Derivable /\ task.revision < MaxRevision
    /\ e' = [e EXCEPT !.meta = "derived"]
    /\ task' = [task EXCEPT !.revision = @ + 1]
    /\ UNCHANGED <<d, rival, files, validating, call>>

\* A priority is no part of the contract, but of the revision.
SetPriority ==
    /\ task.state \notin {"accepted", "cancelled"} /\ task.revision < MaxRevision
    /\ task' = [task EXCEPT !.revision = @ + 1]
    /\ UNCHANGED <<d, e, rival, files, validating, call>>

---------------------------------------------------------------------------
\* What comes between

RetryBlocked ==
    /\ StoppedBlocked /\ task.revision < MaxRevision
    /\ task' = [task EXCEPT !.state = "queued", !.revision = @ + 1]
    /\ d' = [d EXCEPT !.state = "pending"]
    /\ UNCHANGED <<e, rival, files, validating, call>>

\* A node in doubt, resolved by who saw its worktree.
ResolveLocally ==
    /\ task.state = "needs_approval" /\ d.state = "indeterminate" /\ ~files.busy
    /\ task.revision < MaxRevision
    /\ task' = [task EXCEPT !.state = "queued", !.revision = @ + 1]
    /\ d' = [d EXCEPT !.state = "pending"]
    /\ UNCHANGED <<e, rival, files, validating, call>>

\* Admission: a scope with a pattern, or one that meets the rival's, waits.
ClaimNode ==
    /\ task.state = "queued" /\ d.state = "pending" /\ task.revision < MaxRevision
    /\ rival \cap d.writes = {}
    /\ task' = [task EXCEPT !.state = "running", !.revision = @ + 1]
    /\ d' = [d EXCEPT !.state = "running", !.attempt = @ + 1]
    /\ files' = [version |-> 1, busy |-> TRUE, matches |-> {Exact}]
    /\ UNCHANGED <<e, rival, validating, call>>

\* Blocked, or in doubt with processes that may go on.
StopNode(state) ==
    /\ d.state = "running" /\ task.revision < MaxRevision
    /\ task' = [task EXCEPT !.state = IF state = "blocked" THEN "blocked" ELSE "needs_approval",
                            !.revision = @ + 1]
    /\ d' = [d EXCEPT !.state = state]
    /\ UNCHANGED <<e, rival, files, validating, call>>

RivalMoves ==
    /\ \/ rival = {} /\ rival' \in {r \in Rival : r # {} /\ (d.state # "running" \/ r \cap d.writes = {})}
       \/ rival # {} /\ rival' = {}
    /\ UNCHANGED <<task, d, e, files, validating, call>>

\* Processes that were left behind, and whoever edits the worktree.
FilesMove ==
    /\ d.state # "running"
    /\ \/ /\ files.version < MaxVersion
          /\ \E m \in {{Exact}, {Exact, Legacy}} :
                files' = [files EXCEPT !.version = @ + 1, !.matches = m]
          /\ UNCHANGED e
       \/ files.busy /\ files' = [files EXCEPT !.busy = FALSE] /\ UNCHANGED e
       \/ e.attempt > 0 /\ e' = [e EXCEPT !.busy = ~@] /\ UNCHANGED files
    /\ UNCHANGED <<task, d, rival, validating, call>>

\* The journal reserves a validation while no request for the task executes, and no request
\* while a validation does.
Validate ==
    /\ \/ ~validating /\ StoppedBlocked /\ \A c \in Call : call[c].at # "checked"
       \/ validating
    /\ validating' = ~validating
    /\ UNCHANGED <<task, d, e, rival, files, call>>

Next ==
    \/ \E c \in Call : \/ \E kind \in Kinds : Show(c, kind)
                       \/ Recheck(c) \/ Commit(c)
    \/ ReconcileArchify \/ SetPriority
    \/ RetryBlocked \/ ResolveLocally \/ ClaimNode
    \/ \E state \in {"blocked", "indeterminate"} : StopNode(state)
    \/ RivalMoves \/ FilesMove \/ Validate

Behaviours == Init /\ [][Next]_vars

---------------------------------------------------------------------------

TypeOK ==
    /\ task.state \in {"blocked", "needs_approval", "queued", "running"}
    /\ task.revision \in 1..MaxRevision /\ task.hosts \in 0..Cardinality(Call)
    /\ task.allowed \subseteq Fixed \cup {Exact}
    /\ d.state \in {"blocked", "indeterminate", "pending", "running"}
    /\ d.reads \subseteq Fixed /\ d.writes \subseteq Fixed \cup {Exact, Legacy}
    /\ e.reads \subseteq Fixed /\ e.writes = {}
    /\ files.version \in 1..MaxVersion
    /\ \A c \in Call :
          call[c].at \in {"idle", "shown", "checked", "applied", "refused"} /\ call[c].kind \in Kinds

\* No amendment is lost to another one that was prepared beside it, and none counts twice:
\* each of them writes whole documents, computed from what it read without a lock.
AmendmentsKept ==
    /\ task.hosts = Cardinality({c \in Call : call[c].at = "applied" /\ call[c].kind = "acceptance"})
    /\ task.hosts <= 1
    /\ \A c \in Call : call[c].at = "applied" =>
          CASE call[c].kind = "acceptance" -> TRUE
            [] call[c].kind = "scope" ->
                  Fixed \subseteq task.allowed /\ Fixed \subseteq d.writes /\ Fixed \subseteq e.reads
            [] call[c].kind = "exact" -> Legacy \notin d.writes /\ Exact \in d.writes

\* What is written applies to the state that the operator was shown, while no validation of
\* the node executes; an attempt runs under the contract and the scopes it was claimed with;
\* and no scope is narrowed onto a path that a running node of another task has.
AmendmentsFenced ==
    /\ \A c \in Call : call[c].at = "checked" /\ call'[c].at = "applied" =>
          /\ call[c].shown.binding = Binding(call[c].kind)
          /\ call[c].kind = "exact" => ~Conflicts(rival)
          /\ ~validating
    /\ d.state = "running" => <<Contract', Spec(d)'>> = <<Contract, Spec(d)>>
=============================================================================
