------------------------- MODULE ExecutionReadiness -------------------------
(***************************************************************************)
(* execution_readiness.py: whether the worktree of an attempt has the      *)
(* dependencies, tools, sources and pnpm files it needs, asked before an   *)
(* executor is called (Assess of Dispatch).  Checks run one by one; those  *)
(* that start a process share one budget of time, and what could not be    *)
(* probed has failed.  Nothing is installed and nothing raises.            *)
(*                                                                         *)
(* The clock counts half seconds, since a timeout is rounded to seconds.   *)
(* Texts, versions and paths are the few facts that checks tell apart.     *)
(***************************************************************************)
EXTENDS Naturals, Sequences

CONSTANTS
    Requirements,   \* sequence of [kind, required] in the order of the checks
    NeedsLinker,    \* require_linker of the pnpm requirement
    Total, Probe,   \* total_timeout_seconds and probe_timeout_seconds, in half seconds (even)
    MaxSlow         \* bounds the time that one check takes without a process

Kinds == {"worktree", "dependency", "tool", "source", "pnpm", "toolchain", "linker"}

ReadinessAssumption ==
    /\ Requirements \in Seq([kind : Kinds, required : BOOLEAN])
    /\ NeedsLinker \in BOOLEAN
    /\ Total \in Nat /\ Probe \in Nat /\ MaxSlow \in Nat

VARIABLES
    clock,      \* since the assessment started
    todo,       \* the checks that are left
    report,     \* the checks that were made; fit: whether the need is met
    probes      \* when each probe began, and when the last one had ended

vars == <<clock, todo, report, probes>>

Init ==
    /\ clock = 0
    /\ todo = <<[kind |-> "worktree", required |-> TRUE]>>
    /\ report = <<>>
    /\ probes = [began |-> {}, ended |-> 0]

Turn(kind) == todo # <<>> /\ Head(todo).kind = kind

Checked(status, fit) == Append(report, [kind |-> Head(todo).kind, status |-> status, fit |-> fit])

\* A check that starts no process; later is what is left to check after it.
Says(status, fit, later) ==
    /\ report' = Checked(status, fit) /\ todo' = later
    /\ \E d \in 0..MaxSlow : clock' = clock + d
    /\ UNCHANGED probes

Passes == Says("passed", TRUE, Tail(todo))
Fails == Says("failed", FALSE, Tail(todo))
\* What is not asked for may be absent.
Misses == Says(IF Head(todo).required THEN "failed" ELSE "not-applicable", ~Head(todo).required, Tail(todo))

\* min(probe, max(1, remaining seconds rounded up))
Timeout == LET left == Total - clock
               rounded == left + (left % 2)
           IN  IF rounded < Probe THEN rounded ELSE Probe

\* A probe that ended by itself, and well, is all that counts.
Recorded(outcome) == outcome = "zero"

\* A check by a process; fact: what its output says.  Nothing is started without time.
Probed(facts) ==
    IF clock >= Total THEN Fails
    ELSE \E d \in 0..Timeout, outcome \in {"zero", "nonzero", "late", "error"}, fact \in facts :
            /\ outcome = "late" => d = Timeout
            /\ clock' = clock + d
            /\ probes' = [began |-> probes.began \cup {clock}, ended |-> clock + d]
            /\ LET well == outcome = "zero" /\ fact = "fits"
               IN  report' = Checked(IF Recorded(outcome) /\ fact = "fits" THEN "passed" ELSE "failed", well)
            /\ todo' = Tail(todo)

---------------------------------------------------------------------------
\* The checks

Worktree ==
    /\ Turn("worktree")
    /\ \/ Says("passed", TRUE, Requirements)
       \/ Says("failed", FALSE, <<>>)      \* nothing else is looked at

\* In the worktree, of its kind.
Dependency == Turn("dependency") /\ (Passes \/ Misses \/ Fails)

Tool == Turn("tool") /\ (Misses \/ Passes \/ Probed({"fits"}))

\* The roots of the package, the interpreter; and where the package is found.
Source == Turn("source") /\ (Fails \/ Probed({"fits", "invalid", "unresolved", "outside"}))

\* No pnpm project (required: the mode), half of one, one that names no version of pnpm.
Manifest ==
    /\ Turn("pnpm")
    /\ \/ Misses \/ Fails
       \/ Says("passed", TRUE,
               <<[kind |-> "toolchain", required |-> TRUE],
                 [kind |-> "linker", required |-> NeedsLinker]>> \o Tail(todo))

\* The pnpm of the machine, of the major version that the project declares.
Toolchain == Turn("toolchain") /\ (Fails \/ Probed({"fits", "mismatch"}))

\* The root linker with its markers, and every linker of a package.
Linker ==
    /\ Turn("linker")
    /\ IF Head(todo).required THEN Passes \/ Fails ELSE Says("not-applicable", TRUE, Tail(todo))

Next == Worktree \/ Dependency \/ Tool \/ Source \/ Manifest \/ Toolchain \/ Linker

Spec == Init /\ [][Next]_vars

---------------------------------------------------------------------------
\* Properties

Statuses == {"passed", "failed", "not-applicable"}

TypeOK ==
    /\ clock \in Nat /\ probes.ended \in Nat
    /\ \A c \in {todo[i] : i \in DOMAIN todo} : c.required \in BOOLEAN
    /\ \A c \in {report[i] : i \in DOMAIN report} : c.status \in Statuses /\ c.fit \in BOOLEAN

Ready == todo = <<>> /\ \A i \in DOMAIN report : report[i].status # "failed"

\* Whatever the probes and the files do, none begins after the budget and the last one has ended
\* half a second after it; and a report is ready only if every need was seen to be met: what ran
\* out of time, or was never asked, counts as missing (docs/scheduling-readiness-attribution.md).
ReadinessHonest ==
    /\ probes.ended <= Total + 1
    /\ \A t \in probes.began : t < Total
    /\ Ready => /\ \A i \in DOMAIN report : report[i].fit
                /\ \A r \in {Requirements[i] : i \in DOMAIN Requirements} :
                      \E i \in DOMAIN report : report[i].kind = r.kind
=============================================================================
