------------------------ MODULE WorktreeReclamation ------------------------
(***************************************************************************)
(* What becomes of the worktrees of a task that is accepted or cancelled   *)
(* (recovery.py).  The maintenance thread and an operator's call sweep at  *)
(* the same time: each lists the reclaimable allocations and takes them    *)
(* one by one through quarantine, archive and purge, in many transactions  *)
(* and file operations, while the task may be queued again, its executor   *)
(* may still write and a delivery may claim its files.                     *)
(***************************************************************************)
EXTENDS Naturals, Sequences, FiniteSets

CONSTANTS
    Order,         \* the allocations of the task, by created_at
    Verifier,      \* that of the verifier
    Sweeper,       \* whoever calls sweep
    MaxItems,      \* of each sweeper
    External,      \* contract.external_write_permission
    MaxArchives,   \* bound: archive rows
    MaxVersion     \* bound: writes of a late executor

Allocation == {Order[i] : i \in DOMAIN Order}

\* Some worktree is the verifier's.
ReclamationAssumption ==
    /\ Order \in Seq(Allocation) /\ Verifier \in Allocation
    /\ MaxItems \in [Sweeper -> Nat] /\ External \in BOOLEAN
    /\ MaxArchives \in Nat /\ MaxVersion \in Nat

VARIABLES
    task,       \* [state, executing, wanted, delivered]: the task, its executor, its delivery
    row,        \* worktree_allocations.state
    held,       \* retained by a source-only recovery
    place,      \* where the files are: the worktree root, the recycle root, gone
    version,    \* what the files hold
    archives,   \* worktree_archives, oldest first
    sweep       \* the sweep each sweeper is in

vars == <<task, row, held, place, version, archives, sweep>>
files == <<place, version>>

\* todo: the listed rows; allowed: purge_allowed as it was read; pack: the content of the capsule.
Idle == [pc |-> "idle", todo |-> <<>>, state |-> "none", allowed |-> FALSE, archive |-> 0, pack |-> 0, remote |-> FALSE]

Init ==
    /\ task = [state |-> "live", executing |-> TRUE, wanted |-> FALSE, delivered |-> FALSE]
    /\ row = [a \in Allocation |-> "active"]
    /\ held = {}
    /\ place = [a \in Allocation |-> "work"]
    /\ version = [a \in Allocation |-> 0]
    /\ archives = <<>>
    /\ sweep = [s \in Sweeper |-> Idle]

---------------------------------------------------------------------------
(* The task. *)

\* The executor in the verifier's worktree, or in the worker's, writes on.
Write(a) ==
    /\ task.executing /\ place[a] # "gone" /\ version[a] < MaxVersion
    /\ version' = [version EXCEPT ![a] = @ + 1]
    /\ UNCHANGED <<task, row, held, place, archives, sweep>>

TaskStep(next) == task' = next /\ UNCHANGED <<row, held, files, archives, sweep>>

\* Acceptance settles the verifier; a cancellation leaves executors alone, and
\* an approval that is still open queues a cancelled task again.
Accept == task.state = "live" /\ TaskStep([task EXCEPT !.state = "accepted", !.executing = FALSE])
Cancel == task.state \in {"live", "reopened"} /\ TaskStep([task EXCEPT !.state = "cancelled"])
Reopen == task.state = "cancelled" /\ TaskStep([task EXCEPT !.state = "reopened"])
ExecutorEnds == task.executing /\ TaskStep([task EXCEPT !.executing = FALSE])

Hold(a) ==
    /\ task.state \in {"live", "reopened"} /\ a \notin held
    /\ held' = held \cup {a}
    /\ UNCHANGED <<task, row, files, archives, sweep>>

\* create_delivery_objective: refused once the verifier's worktree was claimed.
CreateObjective ==
    /\ ~task.wanted /\ row[Verifier] = "active"
    /\ TaskStep([task EXCEPT !.wanted = TRUE])
ObjectiveEnds == task.wanted /\ TaskStep([task EXCEPT !.wanted = FALSE])
\* A delivery receipt: merged or released.
Deliver == task.state = "accepted" /\ ~task.delivered /\ TaskStep([task EXCEPT !.delivered = TRUE])

---------------------------------------------------------------------------
(* What may be reclaimed. *)

Reclaims == {"active", "quarantine_pending", "quarantined", "archive_failed", "archived_verified", "purge_failed"}

FinishedMutant == TRUE
Finished == task.state \in {"accepted", "cancelled"}

PurgeAllowed(a) == task.state = "cancelled" \/ a # Verifier \/ ~External \/ task.delivered

\* reclaimable_worktree_allocations
Reclaimable(a) ==
    /\ row[a] \in Reclaims /\ a \notin held /\ ~task.wanted
    /\ Finished /\ PurgeAllowed(a)

RetainedMutant(a) == a \in held
\* What begin_worktree_quarantine asks again in its own transaction.
Retained(a) == a \in held \/ task.wanted

---------------------------------------------------------------------------
(* One sweep.  An exception ends it: the rest of the list is dropped. *)

At(s, pc) == sweep[s].pc = pc
Head1(s) == Head(sweep[s].todo)
Goes(s, pc) == sweep' = [sweep EXCEPT ![s].pc = pc]
Aborts(s) == sweep' = [sweep EXCEPT ![s] = Idle]
\* The next allocation of the list.
Moves(s) ==
    LET rest == Tail(sweep[s].todo) IN
    sweep' = [sweep EXCEPT ![s] = IF rest = <<>> THEN Idle ELSE [Idle EXCEPT !.pc = "listed", !.todo = rest]]

\* The first n places of reclaimable allocations, in their order; fewer when there are no more.
FirstReclaimable(n) ==
    {f \in UNION {[1 .. k -> DOMAIN Order] : k \in 1 .. n} :
        /\ \A i \in DOMAIN f : Reclaimable(Order[f[i]])
        /\ \A i, j \in DOMAIN f : i < j => f[i] < f[j]
        /\ \A m \in DOMAIN Order : Reclaimable(Order[m]) =>
              \/ \E i \in DOMAIN f : f[i] = m
              \/ Len(f) = n /\ \A i \in DOMAIN f : f[i] < m}

\* The rows are listed with the state they have now.
List(s) ==
    /\ At(s, "idle")
    /\ \E f \in FirstReclaimable(MaxItems[s]) :
          sweep' = [sweep EXCEPT ![s].pc = "listed",
                                 ![s].todo = [i \in DOMAIN f |-> [id |-> Order[f[i]], state |-> row[Order[f[i]]]]]]
    /\ UNCHANGED <<task, row, held, files, archives>>

\* Which branch of sweep the listed row takes.  quarantine first reads the row
\* again, and returns it if it is past quarantine.  A purge_failed row has no branch.
Take(s) ==
    LET a == Head1(s).id
        listed == Head1(s).state
        state == IF listed \in {"active", "quarantine_pending"} THEN row[a] ELSE listed
    IN /\ At(s, "listed")
       /\ CASE state \in {"active", "quarantine_pending"} -> Goes(s, "claim")
            [] state \in {"quarantined", "archive_failed"} -> Goes(s, "quarantined")
            [] listed = "archived_verified" ->
                  sweep' = [sweep EXCEPT ![s].pc = "purge", ![s].allowed = TRUE, ![s].state = "listed",
                      ![s].archive = CHOOSE i \in DOMAIN archives :
                          /\ archives[i].id = a /\ archives[i].state = "verified"
                          /\ \A j \in DOMAIN archives : archives[j].id = a /\ archives[j].state = "verified" => j <= i]
            [] OTHER -> Moves(s)
       /\ UNCHANGED <<task, row, held, files, archives>>

\* begin_worktree_quarantine: a row that is past quarantine is left alone, and
\* the caller goes on all the same.
BeginQuarantine(s) ==
    LET a == Head1(s).id IN
    /\ At(s, "claim")
    /\ \/ Retained(a) /\ Aborts(s) /\ UNCHANGED row
       \/ /\ ~Retained(a)
          /\ row' = [row EXCEPT ![a] = IF @ \in {"active", "quarantine_pending"} THEN "quarantine_pending" ELSE @]
          /\ Goes(s, "move")
    /\ UNCHANGED <<task, held, files, archives>>

\* git worktree move, unless an earlier sweep already did it.
Move(s) ==
    LET a == Head1(s).id IN
    /\ At(s, "move")
    /\ \/ place[a] # "gone" /\ place' = [place EXCEPT ![a] = "recycle"] /\ Goes(s, "moved")
       \/ Aborts(s) /\ UNCHANGED place
    /\ UNCHANGED <<task, row, held, version, archives>>

\* finish_worktree_quarantine, whatever the row says by now.
FinishQuarantine(s) ==
    /\ At(s, "moved")
    /\ row' = [row EXCEPT ![Head1(s).id] = "quarantined"]
    /\ Goes(s, "quarantined")
    /\ UNCHANGED <<task, held, files, archives>>

NewArchive(a) == [id |-> a, state |-> "pending", version |-> 0]

\* sweep goes on to archive_allocation on a verified share, or to
\* send_allocation, which also takes a row in any other reclaimable state; or
\* it goes on to the next one, without a home presence or too early.
Choose(s) ==
    LET a == Head1(s).id IN
    /\ At(s, "quarantined")
    /\ \/ Reclaimable(a) /\ row[a] \in {"quarantined", "archive_failed"} /\ sweep' =
              [sweep EXCEPT ![s].pc = "begin", ![s].allowed = PurgeAllowed(a), ![s].remote = FALSE]
       \/ Reclaimable(a) /\ sweep' =
              [sweep EXCEPT ![s].pc = "pack", ![s].allowed = PurgeAllowed(a), ![s].remote = TRUE]
       \/ ~(Reclaimable(a) /\ row[a] \in {"quarantined", "archive_failed"}) /\ Aborts(s)
       \/ Moves(s)
    /\ UNCHANGED <<task, row, held, files, archives>>

\* begin_worktree_archive: before a local capsule is made, after a remote one.
BeginArchive(s) ==
    /\ At(s, "begin") /\ Len(archives) < MaxArchives
    /\ archives' = Append(archives, NewArchive(Head1(s).id))
    /\ sweep' = [sweep EXCEPT ![s].archive = Len(archives) + 1, ![s].pc = IF sweep[s].remote THEN "send" ELSE "pack"]
    /\ UNCHANGED <<task, row, held, files>>

\* create_capsule and verify_capsule: only files in the recycle root are
\* packed, and the restored copy equals what was packed.
Pack(s) ==
    LET a == Head1(s).id IN
    /\ At(s, "pack")
    /\ \/ /\ place[a] = "recycle"
          /\ sweep' = [sweep EXCEPT ![s].pack = version[a], ![s].pc = IF sweep[s].remote THEN "begin" ELSE "finish"]
       \/ IF sweep[s].remote THEN Aborts(s) ELSE Goes(s, "fail")
    /\ UNCHANGED <<task, row, held, files, archives>>

\* The other host ingests the capsule and answers with its receipt, or the
\* transfer or the answer is lost.
Send(s) ==
    /\ At(s, "send")
    /\ Goes(s, "finish") \/ Goes(s, "fail")
    /\ UNCHANGED <<task, row, held, files, archives>>

PurgesMutant(ok) == "purge"
Purges(ok) == IF ok THEN "purge" ELSE "idle"

\* finish_worktree_archive and fail_worktree_archive.
EndArchive(s, ok) ==
    LET a == Head1(s).id IN
    /\ At(s, IF ok THEN "finish" ELSE "fail")
    /\ archives' = [archives EXCEPT ![sweep[s].archive].state = IF ok THEN "verified" ELSE "failed",
                                    ![sweep[s].archive].version = sweep[s].pack]
    /\ row' = [row EXCEPT ![a] = IF ok THEN "archived_verified" ELSE "archive_failed"]
    /\ IF Purges(ok) = "purge" THEN Goes(s, "purge") ELSE Aborts(s)
    /\ UNCHANGED <<task, held, files>>

\* _purge: git worktree remove and the branch; it is content with files that
\* are already gone, and may fail before or after the files went.
Purge(s) ==
    LET a == Head1(s).id IN
    /\ At(s, "purge") /\ sweep[s].allowed
    /\ \/ place' = [place EXCEPT ![a] = "gone"] /\ Goes(s, "removed")
       \/ /\ place' \in {place, [place EXCEPT ![a] = "gone"]}
          /\ IF sweep[s].state = "listed" THEN Aborts(s) ELSE Goes(s, "unremoved")
    /\ UNCHANGED <<task, row, held, version, archives>>

\* mark_worktree_purged and mark_worktree_purge_failed
EndPurge(s, ok) ==
    LET a == Head1(s).id IN
    /\ At(s, IF ok THEN "removed" ELSE "unremoved")
    /\ \/ ok /\ archives[sweep[s].archive].state = "verified"
             /\ row' = [row EXCEPT ![a] = "purged"] /\ Moves(s)
       \/ ok /\ archives[sweep[s].archive].state # "verified" /\ Aborts(s) /\ UNCHANGED row
       \/ ~ok /\ row' = [row EXCEPT ![a] = "purge_failed"] /\ Aborts(s)
    /\ UNCHANGED <<task, held, files, archives>>

\* The process of a sweeper dies.
Crash(s) == ~At(s, "idle") /\ Aborts(s) /\ UNCHANGED <<task, row, held, files, archives>>

Next ==
    \/ \E a \in Allocation : Write(a) \/ Hold(a)
    \/ Accept \/ Cancel \/ Reopen \/ ExecutorEnds \/ CreateObjective \/ ObjectiveEnds \/ Deliver
    \/ \E s \in Sweeper :
          \/ List(s) \/ Take(s) \/ BeginQuarantine(s) \/ Move(s) \/ FinishQuarantine(s) \/ Choose(s)
          \/ BeginArchive(s) \/ Pack(s) \/ Send(s) \/ Purge(s) \/ Crash(s)
          \/ \E ok \in BOOLEAN : EndArchive(s, ok) \/ EndPurge(s, ok)

Spec == Init /\ [][Next]_vars

---------------------------------------------------------------------------
TypeOK ==
    /\ task \in [state : {"live", "accepted", "cancelled", "reopened"},
                 executing : BOOLEAN, wanted : BOOLEAN, delivered : BOOLEAN]
    /\ row \in [Allocation -> Reclaims \cup {"purged"}]
    /\ held \subseteq Allocation
    /\ place \in [Allocation -> {"work", "recycle", "gone"}]
    /\ version \in [Allocation -> 0 .. MaxVersion]
    /\ \A i \in DOMAIN archives :
          archives[i] \in [id : Allocation, state : {"pending", "verified", "failed"}, version : 0 .. MaxVersion]
    /\ \A s \in Sweeper : sweep[s].archive \in 0 .. Len(archives)

\* Files are removed only after a verified archive of them exists, and of an
\* accepted task that archive holds what the files held.
RemovedIsArchived ==
    \A a \in Allocation : place[a] = "gone" =>
        \E i \in DOMAIN archives :
            /\ archives[i].id = a /\ archives[i].state = "verified"
            /\ task.state = "accepted" => archives[i].version = version[a]

\* While a delivery is unfinished, or the task was accepted for an external
\* delivery that has not happened, the verifier's files are where they were,
\* whichever candidates were listed before.
DeliveryKeepsFiles ==
    task.wanted \/ (task.state = "accepted" /\ External /\ ~task.delivered) => place[Verifier] = "work"

\* The documented order of an allocation's states.
Ordered ==
    {<<"active", "quarantine_pending">>, <<"quarantine_pending", "quarantined">>,
     <<"quarantined", "archive_failed">>, <<"quarantined", "archived_verified">>,
     <<"archive_failed", "archived_verified">>, <<"archived_verified", "purged">>,
     <<"archived_verified", "purge_failed">>}
OrderedTransitions ==
    [][\A a \in Allocation : row'[a] # row[a] => <<row[a], row'[a]>> \in Ordered]_row
=============================================================================
