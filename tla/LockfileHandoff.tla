-------------------------- MODULE LockfileHandoff --------------------------
(***************************************************************************)
(* One-time handoff of pnpm-lock.yaml (workbench_handoff_lockfile).  Two   *)
(* workers that do not own the lockfile are blocked on it; an operator has *)
(* the missing importers computed in a worktree of its own and published   *)
(* as an overlay of the task's inputs.  While a request holds the lease of *)
(* the repository nothing is claimed in it; cancel and reconcile release   *)
(* the lease under a runner that may still work.  The second half is how   *)
(* later inputs (a retry, a refreshed ancestor, the verifier) replay the   *)
(* overlays.  A lockfile is the set of <<node, attempt>> whose importers it *)
(* has, a manifest set a number.                                           *)
(***************************************************************************)
EXTENDS Naturals, Sequences, FiniteSets, SequencesExt

CONSTANTS
    Node,           \* the blocked siblings; each depends on one accepted ancestor
    Request,
    Target,         \* the worker each request is about
    MaxAttempt, MaxAncestor, MaxSource,
    Disturbance,    \* what others do meanwhile: "here", "away", "fence"
    Amendments      \* the kinds of contract amendments there are, each once

\* What the theorems about every handoff assume; MCOperations assumes it of its own.
HandoffAssumption == Target \in [Request -> Node]

VARIABLES
    task,       \* [state, revision, contract]
    node,       \* per worker: [state, attempt, source, input]
    ancestor,   \* the accepted ancestor: [attempt, manifest]
    busy,       \* where a lockfile owner of another task runs: "here" (this repository), "away"
    fenced,     \* an approval or a validation of the task is open
    hand,       \* the latest event of a request, with what it binds
    log,        \* the ready requests in the order of their events
    run,        \* the runner of an apply and the preview it was given
    amended     \* the amendments made

vars == <<task, node, ancestor, busy, fenced, hand, log, run, amended>>

None == "none"
NoLease == [state |-> None]
NoRun == [pc |-> "idle"]
Refused == [refused |-> TRUE]
Terminal == {"ready", "failed", "cancelled", "needs_action"}

Base == [ancestor |-> 1, manifest |-> 1, lock |-> {}, has |-> {}]

Init ==
    /\ task = [state |-> "blocked", revision |-> 1, contract |-> 1]
    /\ node = [n \in Node |-> [state |-> "blocked", attempt |-> 1, source |-> 1, input |-> Base]]
    /\ ancestor = [attempt |-> 1, manifest |-> 1]
    /\ busy = {} /\ fenced = FALSE
    /\ hand = [r \in Request |-> NoLease]
    /\ log = <<>>
    /\ run = [r \in Request |-> NoRun]
    /\ amended = {}

---------------------------------------------------------------------------
(* The lease.                                                              *)

\* active_lockfile_handoff: the latest event of a request is its reservation.
Active == {r \in Request : hand[r].state = "reserved"}

\* _running_lock_owner_rows: of every repository.
RunningOwners == busy

\* What _durable_snapshot binds.
Durable(n) == [node |-> n, revision |-> task.revision, contract |-> task.contract,
               attempt |-> node[n].attempt, busy |-> RunningOwners]

\* The conditions it refuses on.
Eligible(n) ==
    /\ task.state = "blocked" /\ node[n].state = "blocked"
    /\ \A m \in Node : node[m].state \notin {"running", "indeterminate"}
    /\ ~fenced
    /\ node[n].input # Refused

\* _dependency_input, _lineage: the input the attempt recorded.
Lineage(n) == node[n].input
\* validate_dependency_input_lineage: it must still be the closure of the node.
SourceReadable(n) == Lineage(n).ancestor = ancestor.attempt

\* _source_snapshot
Source(n) == [source |-> node[n].source, input |-> Lineage(n)]

\* _preflight: the binding of a preview, with the source read between two equal snapshots.
Preflight(n) == [durable |-> Durable(n), source |-> Source(n)]
Admits(n, own) == Eligible(n) /\ SourceReadable(n) /\ "here" \notin busy /\ Active \subseteq own

Goes(r, pc) == run' = [run EXCEPT ![r].pc = pc]

Ends(r) == run' = [run EXCEPT ![r] = [pc |-> "ended"]]

\* apply, until the reservation.  The authority admits a request once; its preview must
\* be the one of this moment, so the preview and the reading it is compared with are one.
Apply(r, n) ==
    /\ run[r] = NoRun /\ hand[r] = NoLease
    /\ Admits(n, {})
    /\ run' = [run EXCEPT ![r] = [pc |-> "admitted", seen |-> Preflight(n)]]
    /\ UNCHANGED <<task, node, ancestor, busy, fenced, hand, log, amended>>

\* _assert_no_other_active_handoff
NoOtherActive(r) == Active \subseteq {r}

Unchanged(r) == LET d == run[r].seen.durable IN Eligible(d.node) /\ Durable(d.node) = d

Reserve(r) ==
    LET d == run[r].seen.durable IN
    /\ run[r].pc = "admitted"
    /\ IF Unchanged(r) /\ NoOtherActive(r)
       THEN /\ hand' = [hand EXCEPT ![r] = [state |-> "reserved", node |-> d.node, attempt |-> d.attempt,
                  input |-> run[r].seen.source.input, contract |-> d.contract, revision |-> d.revision]]
            /\ Goes(r, "reserved")
       ELSE Ends(r) /\ UNCHANGED hand
    /\ UNCHANGED <<task, node, ancestor, busy, fenced, log, amended>>

\* _assert_reserved_preflight, before and after the repair in a worktree of its own.
Confirms(r) ==
    LET n == run[r].seen.durable.node IN Admits(n, {r}) /\ Preflight(n) = run[r].seen
\* The input or the delta is not reproduced, something else than the lockfile changed, or
\* the frozen validation fails.
RepairFails(r) == Goes(r, "failing")
Repair(r) ==
    /\ run[r].pc = "reserved"
    /\ \/ Confirms(r) /\ Goes(r, "confirmed")
       \/ RepairFails(r)
    /\ UNCHANGED <<task, node, ancestor, busy, fenced, hand, log, amended>>

OwnLeaseMutant(r) == TRUE
\* The latest event is the reservation of this runner.
OwnLease(r) == hand[r].state = "reserved"

PublishReady(r) ==
    /\ run[r].pc = "confirmed"
    /\ IF ~OwnLease(r) THEN Ends(r) /\ UNCHANGED <<task, hand, log>>
       ELSE IF ~Unchanged(r) THEN Goes(r, "failing") /\ UNCHANGED <<task, hand, log>>
       ELSE /\ task' = [task EXCEPT !.revision = @ + 1]
            /\ hand' = [hand EXCEPT ![r].state = "ready", ![r].revision = task.revision + 1]
            /\ log' = Append(log, r)
            /\ Ends(r)
    /\ UNCHANGED <<node, ancestor, busy, fenced, amended>>

\* _settle_terminal
Released(r, how) ==
    hand' = IF OwnLease(r)
            THEN [hand EXCEPT ![r].state = IF task.state = "cancelled" THEN "cancelled" ELSE how]
            ELSE hand

Fail(r) ==
    /\ run[r].pc = "failing"
    /\ Released(r, "failed")
    /\ Ends(r)
    /\ UNCHANGED <<task, node, ancestor, busy, fenced, log, amended>>

\* cancel and reconcile: operations of their own, whatever the runner does.
Cancel(r) == OwnLease(r) /\ Released(r, "cancelled")
             /\ UNCHANGED <<task, node, ancestor, busy, fenced, log, run, amended>>
Reconcile(r) == OwnLease(r) /\ Released(r, "needs_action")
                /\ UNCHANGED <<task, node, ancestor, busy, fenced, log, run, amended>>

\* The service dies with its runners; workers that ran are indeterminate.
Restart ==
    /\ \/ \E r \in Request : run[r].pc \notin {"idle", "ended"}
       \/ \E n \in Node : node[n].state = "running"
    /\ run' = [r \in Request |-> IF run[r] = NoRun THEN NoRun ELSE [pc |-> "ended"]]
    /\ node' = [n \in Node |-> IF node[n].state = "running" THEN [node[n] EXCEPT !.state = "indeterminate"] ELSE node[n]]
    /\ UNCHANGED <<task, ancestor, busy, fenced, hand, log, amended>>

---------------------------------------------------------------------------
(* The inputs that replay what is ready.                                   *)

\* get_ready_lockfile_handoffs, for the node: in the order of their events.
ReadyOf(ns) == SelectSeq(log, LAMBDA r : hand[r].node \in ns)

\* The importers a repair adds for the manifests of the worktree.
Importers(n, attempt) == {<<n, attempt>>}
After(r) == hand[r].input.lock \cup Importers(hand[r].node, hand[r].attempt)

\* _replay_after_accepted_owner_refresh: the same ancestors, none older than recorded.
ReplayPoint(r, at) == at >= hand[r].input.ancestor

\* _normalize_handoff: a receipt of the contract of this moment.
Valid(r) == hand[r].contract = task.contract
\* _validate_baseline_manifest_files: the manifests the overlay was computed for.
ManifestsHold(in, r) == in.manifest = hand[r].input.manifest

\* _apply_handoff: on the bytes before it, or on its own.
Overlay(in, r) ==
    IF in = Refused THEN Refused
    ELSE IF Valid(r) /\ ReplayPoint(r, in.ancestor) /\ ManifestsHold(in, r)
            /\ in.lock \in {hand[r].input.lock, After(r)}
    THEN [in EXCEPT !.lock = After(r), !.has = @ \cup {r}]
    ELSE Refused

\* apply_pending_lockfile_handoffs
Replay(in, rs) == FoldLeft(Overlay, in, rs)

\* select_lockfile_handoffs_for_target: an owner that advanced, or one whose accepted
\* result records the overlay.
OwnerAdvanced(n, attempt) == \A r \in ToSet(ReadyOf({n})) : attempt > hand[r].attempt
Records(n) == \A r \in ToSet(ReadyOf({n})) : r \in node[n].input.has

\* base_dependency_input, with the patches of the accepted ancestors.
Fresh == [Base EXCEPT !.ancestor = ancestor.attempt, !.manifest = ancestor.manifest]
\* apply_accepted_ancestor_patches: the current closure, every overlay of the target.
Refreshed(n) ==
    IF OwnerAdvanced(n, node[n].attempt + 1) THEN Replay(Fresh, ReadyOf({n})) ELSE Refused

\* apply_recorded_dependency_input
Reproduced(n) ==
    IF node[n].input = Refused \/ ~SourceReadable(n) THEN Refused ELSE node[n].input
\* apply_ready_lockfile_handoffs_to_dependency_input: the overlays the input lacks.
Recorded(n) ==
    LET in == Reproduced(n) IN
    IF in = Refused THEN Refused ELSE Replay(in, SelectSeq(ReadyOf({n}), LAMBDA r : r \notin in.has))

\* _compose_worker_patches, for the verifier.
Composed ==
    IF \A n \in Node : node[n].state = "accepted" /\ OwnerAdvanced(n, node[n].attempt) /\ Records(n)
    THEN Replay(Fresh, ReadyOf(Node)) ELSE Refused

---------------------------------------------------------------------------
(* The rest of the ledger, as far as it meets the handoff.                 *)

\* The coordinator resumes a blocked worker, or the operator decides about an unknown one.
Queue(n) ==
    /\ task.state = "blocked" /\ node[n].state \in {"blocked", "indeterminate"}
    /\ node[n].attempt < MaxAttempt
    /\ node' = [node EXCEPT ![n].state = "pending"]
    /\ task' = [task EXCEPT !.state = "queued", !.revision = @ + 1]
    /\ UNCHANGED <<ancestor, busy, fenced, hand, log, run, amended>>

\* claim_ready_node skips every candidate of a repository with an active handoff.
Claimable == Active = {}

\* An input that cannot be prepared blocks the new attempt.
Claim(n, in) ==
    /\ task.state = "queued" /\ node[n].state = "pending" /\ Claimable
    /\ node' = [node EXCEPT ![n] = [state |-> IF in = Refused THEN "blocked" ELSE "running",
                                     attempt |-> @.attempt + 1, source |-> 1, input |-> in]]
    /\ task' = IF in = Refused THEN [task EXCEPT !.state = "blocked", !.revision = @ + 1] ELSE task
    /\ UNCHANGED <<ancestor, busy, fenced, hand, log, run, amended>>

Settle(n, state) ==
    LET rest == {node[m].state : m \in Node \ {n}} IN
    /\ node[n].state = "running"
    /\ node' = [node EXCEPT ![n].state = state]
    /\ task' = [task EXCEPT !.revision = @ + 1, !.state =
           IF @ = "cancelled" THEN @
           ELSE IF state = "blocked" THEN "blocked"
           ELSE IF rest \subseteq {"accepted"} THEN "verifying"
           ELSE IF rest \subseteq {"accepted", "blocked"} THEN "blocked" ELSE "queued"]
    /\ UNCHANGED <<ancestor, busy, fenced, hand, log, run, amended>>

\* An accepted-source repair: a newer attempt of the ancestor; accepted workers built on
\* it run again.
RefreshAncestor(manifest) ==
    /\ task.state \in {"blocked", "verifying"} /\ ancestor.attempt < MaxAncestor /\ Claimable
    /\ \A n \in Node : node[n].state \in {"blocked", "accepted"}
    /\ \A n \in Node : node[n].state = "accepted" => node[n].attempt < MaxAttempt
    /\ ancestor' = [attempt |-> ancestor.attempt + 1, manifest |-> manifest]
    /\ node' = [n \in Node |-> IF node[n].state = "accepted" THEN [node[n] EXCEPT !.state = "pending"] ELSE node[n]]
    /\ task' = [task EXCEPT !.revision = @ + 1,
           !.state = IF \E n \in Node : node[n].state = "accepted" THEN "queued" ELSE "blocked"]
    /\ UNCHANGED <<busy, fenced, hand, log, run, amended>>

\* _scope_amendment_projection: the receipts of the old contract, by a scope amendment only.
Rebinds(kind, r) == kind = "scope" /\ hand[r].state = "ready" /\ Valid(r)

\* A scope amendment rebinds the ready overlays; any other leaves them with the old contract.
Amend(kind) ==
    /\ kind \in Amendments \ amended /\ task.state = "blocked"
    /\ task' = [task EXCEPT !.contract = @ + 1, !.revision = @ + 1]
    /\ hand' = [r \in Request |->
           IF Rebinds(kind, r)
           THEN [hand[r] EXCEPT !.contract = @ + 1, !.revision = task.revision + 1] ELSE hand[r]]
    /\ amended' = amended \cup {kind}
    /\ UNCHANGED <<node, ancestor, busy, fenced, log, run>>

CancelTask ==
    /\ task.state # "cancelled" /\ Active # {}
    /\ task' = [task EXCEPT !.state = "cancelled", !.revision = @ + 1]
    /\ UNCHANGED <<node, ancestor, busy, fenced, hand, log, run, amended>>

\* Lockfile owners of other tasks, approvals and validations, a writer that outlived its attempt.
Others(where) ==
    /\ busy' = IF where \in busy THEN busy \ {where} ELSE busy \cup {where}
    /\ where = "here" /\ where \notin busy => Claimable
    /\ UNCHANGED <<task, node, ancestor, fenced, hand, log, run, amended>>
Fence == "fence" \in Disturbance /\ fenced' = ~fenced /\ UNCHANGED <<task, node, ancestor, busy, hand, log, run, amended>>
Drift(n) ==
    /\ node[n].state = "blocked" /\ node[n].source < MaxSource
    /\ node' = [node EXCEPT ![n].source = @ + 1]
    /\ UNCHANGED <<task, ancestor, busy, fenced, hand, log, run, amended>>

Next ==
    \/ \E r \in Request :
          \/ Apply(r, Target[r]) \/ Reserve(r) \/ Repair(r) \/ PublishReady(r) \/ Fail(r)
          \/ Cancel(r) \/ Reconcile(r)
    \/ \E n \in Node :
          \/ Queue(n) \/ Claim(n, Refreshed(n)) \/ Claim(n, Recorded(n)) \/ Drift(n)
          \/ \E state \in {"accepted", "blocked"} : Settle(n, state)
    \/ \E manifest \in {ancestor.manifest, ancestor.manifest + 1} : RefreshAncestor(manifest)
    \/ \E kind \in Amendments : Amend(kind)
    \/ \E where \in {"here", "away"} \cap Disturbance : Others(where)
    \/ Restart \/ CancelTask \/ Fence

Spec == Init /\ [][Next]_vars

---------------------------------------------------------------------------
TypeOK ==
    /\ task.state \in {"blocked", "queued", "verifying", "cancelled"}
    /\ \A n \in Node : node[n].state \in {"blocked", "pending", "running", "indeterminate", "accepted"}
    /\ \A r \in Request : hand[r].state \in Terminal \cup {None, "reserved"}
    /\ ToSet(log) \subseteq Request
    /\ amended \subseteq Amendments

\* One writer: a repository has one lease at most, and nothing of it runs under the lease,
\* neither a worker of the task nor a lockfile owner of another.
LeaseExclusive ==
    /\ \A r, q \in Active : r = q
    /\ Active # {} => "here" \notin busy /\ \A n \in Node : node[n].state # "running"

\* Fencing (docs/lockfile-handoff.md): a lease that was released stays released, whatever
\* its runner still does, and what becomes ready is bound to the task, the node and the
\* input of its preview at that moment.
KeepsFence ==
    \A r \in Request :
        /\ hand[r].state \in Terminal => hand'[r].state = hand[r].state
        /\ hand[r].state # "ready" /\ hand'[r].state = "ready" =>
              LET d == run[r].seen.durable IN
              Eligible(d.node) /\ Durable(d.node) = d /\ hand'[r].input = node[d.node].input

\* An overlay makes an input of its owner, or the verifier's, impossible only for a cause:
\* manifests that changed, a contract amended otherwise, or an overlay of a sibling.
\* (docs/lockfile-handoff.md has the verifier reproduce every overlay: two siblings that
\* were each given one leave a verifier whose input nothing prepares.)
Rivals == \E r, q \in ToSet(log) : hand[r].node # hand[q].node
RefusedForCause ==
    /\ \A n \in Node : Refreshed(n) = Refused =>
          \E r \in ToSet(ReadyOf({n})) : ~Valid(r) \/ ~ManifestsHold(Fresh, r)
    /\ (\A n \in Node : node[n].state = "accepted") /\ Composed = Refused =>
          Rivals \/ \E r \in ToSet(log) : ~Valid(r) \/ ~ManifestsHold(Fresh, r)
============================================================================
