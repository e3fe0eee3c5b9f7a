------------------------ MODULE ControlledValidation ------------------------
(***************************************************************************)
(* One fixed check on the worktree of a blocked node, without a new        *)
(* attempt: validate_blocked_node of controlled_validation_service.py, the *)
(* sandboxed runner of controlled_validation.py, and the reservation in    *)
(* the journal of authority_service.py that fences it.                     *)
(*                                                                         *)
(* Preview and run observe the same things: the durable state, the source, *)
(* the installation.  The run compares them with the preview, executes its *)
(* commands in a sandbox until one fails or the deadline passes, and       *)
(* compares again, one after the other, before it says that the check      *)
(* passed.  Each of its steps may also fail of itself: a file that cannot  *)
(* be read, the deadline.  The authority may die at any point; what it had *)
(* started in the sandbox goes on, and a command may leave something       *)
(* behind.  An edit that is taken back before it is looked at is not       *)
(* modelled.                                                               *)
(***************************************************************************)
EXTENDS Naturals, FiniteSets

CONSTANTS
    Request,
    Writes,         \* what the check of a request writes: "none", "pairing" sidecars, a "note"
    Commands,       \* how many commands its plan has
    MaxRevision, MaxSource, MaxCrashes     \* bound changes of the task, edits, and crashes

\* What the theorems about every validation assume; Protocols assumes it of its own.  A plan
\* has one command at least.
ValidationAssumption ==
    /\ Commands \in [Request -> Nat \ {0}]
    /\ MaxRevision \in Nat \ {0} /\ MaxSource \in Nat \ {0} /\ MaxCrashes \in Nat

VARIABLES
    task,       \* durable binding: whether task and node are blocked, the revision, and how
                \* many of its changes asked for the reservation
    source,     \* what the check reads, and what it may write; the installation
    row,        \* the journal
    run,        \* the thread of a request
    orphan,     \* the requests of which something is at work that nobody waits for: what a
                \* command left behind, or the command of an authority that died
    crashes

vars == <<task, source, row, run, orphan, crashes>>

\* The arguments and locals of one call.
NoRun == [at |-> "idle", shown |-> <<>>, step |-> 0, read |-> {}, ok |-> TRUE]

\* What a preview is a fingerprint of.
Observation == [task |-> task, source |-> source]

Init ==
    /\ task = [blocked |-> TRUE, revision |-> 1, fenced |-> 0]
    /\ source = [inputs |-> 1, outputs |-> "old", install |-> 1]
    /\ row = [r \in Request |-> "absent"]
    /\ run = [r \in Request |-> NoRun]
    /\ orphan = {}
    /\ crashes = 0

---------------------------------------------------------------------------
\* Observing

\* The lock of observations is held from the first reading to the receipt.
Locked == \E r \in Request : run[r].at \in {"start", "command", "ran", "held", "bound", "judged"}

\* No process works in the worktree.
Idle == orphan = {} /\ \A r \in Request : run[r].at # "command"

\* Task and node blocked, nothing of the task running, the allocation active and not sealed.
Observable == task.blocked

\* Between the death of an authority and the recovery of the next one nobody is served.
Down == \E r \in Request : run[r].at = "dead" /\ row[r] = "executing"

\* State, source and installation are each read twice and must agree, so that they were as
\* read at one moment.
Preview(r) ==
    /\ run[r].at = "idle" /\ row[r] = "absent" /\ ~Down /\ ~Locked
    /\ Observable /\ Idle
    /\ run' = [run EXCEPT ![r].at = "shown", ![r].shown = Observation]
    /\ UNCHANGED <<task, source, row, orphan, crashes>>

\* One validation of a task, and no other request for it beside.
Reserve(r) ==
    /\ run[r].at = "shown" /\ row[r] = "absent"
    /\ \A other \in Request : row[other] # "executing"
    /\ row' = [row EXCEPT ![r] = "executing"]
    /\ run' = [run EXCEPT ![r].at = "wait"]
    /\ UNCHANGED <<task, source, orphan, crashes>>

\* The call returns or raises, and its row says how.  An exception that is no answer of the
\* tool makes it unknown.
Settle(r, answer) ==
    /\ row' = [row EXCEPT ![r] = answer]
    /\ run' = [run EXCEPT ![r] = IF answer = "passed" THEN [@ EXCEPT !.at = "done"] ELSE [NoRun EXCEPT !.at = "done"]]

\* The lock, which a preview and other tasks share, is waited for for five seconds; then the
\* readings of the preview are taken anew and compared with it.
Observe(r) ==
    /\ run[r].at = "wait"
    /\ \/ /\ ~Locked /\ Observable /\ Idle /\ Observation = run[r].shown
          /\ run' = [run EXCEPT ![r].at = "start"]
          /\ UNCHANGED row
       \/ \E answer \in {"refused", "unknown"} : Settle(r, answer)
    /\ UNCHANGED <<task, source, orphan, crashes>>

---------------------------------------------------------------------------
\* Running

\* What a plan says of a source: the files to write as they are, and those inputs that it
\* names.  Whether an edit was of a file that is named is left open.
Plan(of, names) == [outputs |-> of.outputs, named |-> IF names THEN of.inputs ELSE 0]

\* It is derived again and must be the one that was previewed, its files as it says.
Unchanged(r, names) == Plan(source, names) = Plan(run[r].shown.source, names)

\* The runtime, the plan and its files, then the directories it needs; what fails here goes
\* back to the service with no command run.
Start(r, names) ==
    /\ run[r].at = "start"
    /\ \/ Unchanged(r, names) /\ run' = [run EXCEPT ![r].at = "command"]
       \/ run' = [run EXCEPT ![r] = [@ EXCEPT !.at = "held", !.ok = FALSE]]
    /\ UNCHANGED <<task, source, row, orphan, crashes>>

\* The first command of a check that writes is the one that writes; it verifies then.
Writing(r) == Writes[r] # "none" /\ run[r].step = 0
Last(r) == run[r].step + 1 = Commands[r]

\* A command reads the inputs, and may have written when it fails or is late.  It is well when
\* it exits with zero in time, with its output read and with the one test it names passed;
\* otherwise the rest is skipped.  Only its own process group is killed, and only when it was
\* late or its output does not end: something of it may be left at work.
Command(r, ok) ==
    /\ run[r].at = "command"
    /\ \/ source' = source /\ ~(Writing(r) /\ ok)
       \/ source' = [source EXCEPT !.outputs = "new"] /\ Writing(r)
    /\ orphan' \in {orphan, orphan \cup {r}}
    /\ run' = [run EXCEPT ![r].step = @ + 1, ![r].ok = ok, ![r].read = @ \cup {source.inputs},
                          ![r].at = IF ~ok \/ Last(r) THEN "ran" ELSE "command"]
    /\ UNCHANGED <<task, row, crashes>>

---------------------------------------------------------------------------
\* Comparing again

\* A comparison says no when what it looks at changed, and may say so when it cannot look.
Judged(r, at, holds) ==
    \E ok \in {FALSE, run[r].ok /\ holds} : run' = [run EXCEPT ![r].at = at, ![r].ok = ok]

\* What the runner checks of its files: a note is exactly what was planned, pairing sidecars
\* exist, and what is not written is as it was.
OutputsHeld(r) ==
    CASE Writes[r] = "note"    -> source.outputs = "new"
      [] Writes[r] = "pairing" -> TRUE
      [] Writes[r] = "none"    -> source.outputs = run[r].shown.source.outputs

\* The runner looks at its files in the time it has, also after a command that failed.
CheckOutputs(r, names) ==
    /\ run[r].at = "ran"
    /\ Judged(r, "held", OutputsHeld(r) /\ (names => source.inputs = run[r].shown.source.inputs))
    /\ UNCHANGED <<task, source, row, orphan, crashes>>

\* The service looks at the durable binding and at the installation.
CheckBinding(r) ==
    /\ run[r].at = "held"
    /\ Judged(r, "bound", /\ Observable /\ task = run[r].shown.task
                          /\ source.install = run[r].shown.source.install)
    /\ UNCHANGED <<task, source, row, orphan, crashes>>

\* Then it looks at the source, of which only what was previewed may have been written.
CheckSource(r) ==
    /\ run[r].at = "bound"
    /\ Judged(r, "judged", /\ Idle /\ source.inputs = run[r].shown.source.inputs
                           /\ Writes[r] = "none" => source.outputs = run[r].shown.source.outputs)
    /\ UNCHANGED <<task, source, row, orphan, crashes>>

\* The receipt.  When its audit cannot be written the call fails after its commands ran.
Answer(r) ==
    /\ run[r].at = "judged"
    /\ \E answer \in {IF run[r].ok THEN "passed" ELSE "failed", "refused", "unknown"} : Settle(r, answer)
    /\ UNCHANGED <<task, source, orphan, crashes>>

\* An exception that nothing on the way expects, of the database for one, ends the call.
Raise(r) ==
    /\ run[r].at \in {"start", "ran", "held", "bound"}
    /\ Settle(r, "unknown")
    /\ UNCHANGED <<task, source, orphan, crashes>>

---------------------------------------------------------------------------
\* The authority dies and comes back

Crash ==
    /\ crashes < MaxCrashes
    /\ crashes' = crashes + 1
    /\ orphan' = orphan \cup {r \in Request : run[r].at = "command"}
    /\ run' = [r \in Request |->
                  IF run[r].at \in {"idle", "shown", "done"} THEN run[r] ELSE [NoRun EXCEPT !.at = "dead"]]
    /\ UNCHANGED <<task, source, row>>

\* What executed is unknown, and never run again; a new request needs a new preview.
Recover ==
    /\ Down
    /\ row' = [r \in Request |-> IF row[r] = "executing" /\ run[r].at = "dead" THEN "unknown" ELSE row[r]]
    /\ UNCHANGED <<task, source, run, orphan, crashes>>

\* What nobody waits for writes or ends.
OrphanMoves(r) ==
    /\ r \in orphan
    /\ \/ Writes[r] # "none" /\ source' = [source EXCEPT !.outputs = "new"] /\ UNCHANGED orphan
       \/ orphan' = orphan \ {r} /\ UNCHANGED source
    /\ UNCHANGED <<task, row, run, crashes>>

---------------------------------------------------------------------------
\* What comes between

\* assert_no_active_validation
NoActiveValidation == \A r \in Request : row[r] # "executing"

\* Recoveries and amendments of the node, which ask for the reservation.
Recovery ==
    /\ task.blocked /\ NoActiveValidation /\ task.revision < MaxRevision
    /\ \E stays \in BOOLEAN :
          task' = [blocked |-> stays, revision |-> task.revision + 1, fenced |-> task.fenced + 1]
    /\ UNCHANGED <<source, row, run, orphan, crashes>>

\* What asks nobody: a priority or a cancellation of a client beside the service, and an owner
\* repair that the coordinator queues.
Unfenced ==
    /\ task.revision < MaxRevision
    /\ \E stays \in BOOLEAN :
          /\ stays => task.blocked
          /\ task' = [blocked |-> stays, revision |-> task.revision + 1, fenced |-> task.fenced]
    /\ UNCHANGED <<source, row, run, orphan, crashes>>

\* Whoever edits the worktree, and a new installation.
Edit ==
    /\ \/ source.inputs < MaxSource /\ source' = [source EXCEPT !.inputs = @ + 1]
       \/ source' = [source EXCEPT !.outputs = "other"]
       \/ source.install = 1 /\ source' = [source EXCEPT !.install = 2]
    /\ UNCHANGED <<task, row, run, orphan, crashes>>

Next ==
    \/ \E r \in Request :
          \/ Preview(r) \/ Reserve(r) \/ Observe(r)
          \/ \E names \in BOOLEAN : Start(r, names)
          \/ \E ok \in BOOLEAN : Command(r, ok)
          \/ \E names \in BOOLEAN : CheckOutputs(r, names)
          \/ CheckBinding(r) \/ CheckSource(r) \/ Answer(r) \/ Raise(r)
          \/ OrphanMoves(r)
    \/ Crash \/ Recover
    \/ Recovery \/ Unfenced \/ Edit

Spec == Init /\ [][Next]_vars

---------------------------------------------------------------------------

TypeOK ==
    /\ task.blocked \in BOOLEAN /\ task.revision \in 1..MaxRevision /\ task.fenced \in 0..MaxRevision
    /\ source.inputs \in 1..MaxSource /\ source.outputs \in {"old", "new", "other"}
    /\ source.install \in 1..2
    /\ \A r \in Request :
          /\ row[r] \in {"absent", "executing", "passed", "failed", "refused", "unknown"}
          /\ run[r].at \in {"idle", "shown", "wait", "start", "command", "ran", "held", "bound",
                            "judged", "done", "dead"}
          /\ run[r].step \in 0..Commands[r]
    /\ orphan \subseteq Request /\ crashes \in 0..MaxCrashes

\* A check that passed ran all of its commands on the inputs that were previewed and on no
\* others, whoever edited them meanwhile; and no two validations of the node work at once,
\* nor one beside what another left at work.
ValidationHonest ==
    /\ \A r \in Request : row[r] = "passed" =>
          /\ run[r].step = Commands[r]
          /\ run[r].read = {run[r].shown.source.inputs}
    /\ Cardinality(orphan \cup {r \in Request : run[r].at = "command"}) <= 1

\* A check passes only when nobody recovered the node or amended its contract since the
\* preview, and nothing of it or of another is at work: the binding is read before the
\* source and long before the row is settled, so that the reservation has to hold until then.
ValidationFenced ==
    \A r \in Request :
        row[r] = "executing" /\ row'[r] = "passed" =>
            task.fenced = run[r].shown.task.fenced /\ orphan = {}
=============================================================================
