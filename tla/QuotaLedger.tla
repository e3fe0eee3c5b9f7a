----------------------------- MODULE QuotaLedger -----------------------------
(***************************************************************************)
(* The append-only ledger of Claude quota observations (claude_quota.py,   *)
(* quota.py, store.py, model.py).  A collector replaces a file, whose      *)
(* observation the coordinator appends; one that is being replaced may     *)
(* append late what it read before; an operator appends by hand.  Rows are *)
(* never changed: which row counts is recomputed at every reading, by the  *)
(* time of the observation and not by the order of the appends.            *)
(*                                                                         *)
(* A row without values (the collection failed, the subscription did not)  *)
(* may borrow the last complete row.  Balances are reduced to "enough" and *)
(* "low", the two windows to the first of their ends, the identity of the  *)
(* producer to whether it is the one the dispatcher trusts.  That an       *)
(* unchanged file is not appended twice by one refresher is left open.     *)
(***************************************************************************)
EXTENDS Naturals, Sequences

CONSTANTS
    Slow,       \* refreshers that may append what they read before
    MaxClock, MaxRows,
    Ttl,        \* how long an observation counts
    Window      \* ends of quota windows; 0: the row names none

QuotaAssumption ==
    /\ MaxClock \in Nat /\ MaxClock > 0 /\ MaxRows \in Nat /\ Ttl \in Nat
    /\ Window \subseteq Nat /\ 0 \in Window

VARIABLES
    clock,
    hand,   \* what a slow refresher has read and not appended yet
    rows    \* the ledger; a row's index is its id

vars == <<clock, hand, rows>>

Row(at, status, low, window, native) ==
    [at |-> at, status |-> status, low |-> low, window |-> window, native |-> native]

NoRow == Row(0, "none", FALSE, 0, FALSE)

Init == clock = 1 /\ rows = <<>> /\ hand = [r \in Slow |-> NoRow]

Tick == clock < MaxClock /\ clock' = clock + 1 /\ UNCHANGED <<hand, rows>>

---------------------------------------------------------------------------
\* Appends

\* A complete display, a logged-out subscription, a display that could not be read.
Open == {w \in Window : w = 0 \/ clock < w}
Collected ==
    {Row(clock, "lost", FALSE, 0, TRUE), Row(clock, "empty", FALSE, 0, TRUE)}
        \cup UNION {{Row(clock, "complete", low, w, TRUE) : low \in BOOLEAN} : w \in Open}

\* An export that is not the producer's may carry a time nobody can read (0).
Exported == {Row(at, "complete", FALSE, 0, FALSE) : at \in {0, clock}}

WriteQuota(row) == Len(rows) < MaxRows /\ rows' = Append(rows, row)

RefreshOnce == (\E row \in Collected \cup Exported : WriteQuota(row)) /\ UNCHANGED <<clock, hand>>

ReadSnapshot(r) ==
    /\ hand[r] = NoRow
    /\ \E row \in Collected \cup Exported : hand' = [hand EXCEPT ![r] = row]
    /\ UNCHANGED <<clock, rows>>

WriteLate(r) ==
    /\ hand[r] # NoRow /\ WriteQuota(hand[r])
    /\ hand' = [hand EXCEPT ![r] = NoRow]
    /\ UNCHANGED clock

\* By hand, now; never in the producer's name.
SetQuota ==
    /\ \E s \in {"complete", "empty"} : WriteQuota(Row(clock, s, FALSE, 0, FALSE))
    /\ UNCHANGED <<clock, hand>>

Next ==
    \/ Tick \/ RefreshOnce \/ SetQuota
    \/ \E r \in Slow : ReadSnapshot(r) \/ WriteLate(r)

Spec == Init /\ [][Next]_vars

---------------------------------------------------------------------------
\* The row that counts

Timed == {i \in DOMAIN rows : rows[i].at # 0}
Untimed == DOMAIN rows \ Timed

Fresh(row) == row.at # 0 /\ clock - row.at <= Ttl

Ambiguous == {rows[i].at : i \in {i \in Timed : \E j \in Timed : rows[j].at = rows[i].at /\ rows[j] # rows[i]}}

\* The order of the observations, newest first.
BeforeMutant(i, j) == i > j

Before(i, j) == rows[i].at > rows[j].at \/ (rows[i].at = rows[j].at /\ i > j)

First(S) == CHOOSE i \in S : \A j \in S \ {i} : Before(i, j)
Last(S) == CHOOSE i \in S : \A j \in S \ {i} : Before(j, i)

\* The row that counts, unless it borrows one; what the order lists before c, and just before it.
Latest == First(Timed)
Passed(c) == {i \in Timed : Before(i, c)}
Previous(c) == Last(Passed(c))

\* Nothing can be said of the order of the newest rows: nobody starts.
Barred ==
    \/ Timed = {}
    \/ \E i \in Untimed : i > Latest
    \/ rows[Latest].at \in Ambiguous

Binds(row) == row.window # 0 /\ clock < row.window

\* Why the scan, which comes from the row before, stops at c.
Refuses(c) ==
    LET p == Previous(c)
    IN  \/ rows[c].at \in Ambiguous
        \/ rows[c].at >= rows[p].at \/ c >= p
        \/ \E i \in Untimed : c < i /\ i < p
        \/ rows[c].status = "lost" \/ ~rows[c].native \/ ~Fresh(rows[c])
        \/ rows[c].status = "complete" /\ ~Binds(rows[c])

\* Past the empty rows to the complete row they may borrow.
Borrowed ==
    {c \in Timed \ {Latest} :
        /\ rows[c].status # "empty" /\ ~Refuses(c)
        /\ \A i \in Passed(c) \ {Latest} : rows[i].status = "empty" /\ ~Refuses(i)}

RecoveredQuota ==
    LET newest == rows[Latest]
    IN  IF newest.status = "empty" /\ newest.native /\ Fresh(newest) /\ Borrowed # {}
        THEN CHOOSE c \in Borrowed : TRUE ELSE Latest

\* Claude may start on this row.
DispatchDecision(row) == Fresh(row) /\ row.status = "complete" /\ row.native /\ ~row.low

Admits == rows # <<>> /\ ~Barred /\ DispatchDecision(rows[RecoveredQuota])

---------------------------------------------------------------------------
\* Properties

TypeOK ==
    LET Rows == [at : 0..MaxClock, status : {"none", "lost", "complete", "empty"}, low : BOOLEAN,
                 window : Window, native : BOOLEAN]
    IN  /\ clock \in 1..MaxClock /\ hand \in [Slow -> Rows]
        /\ rows \in Seq(Rows) /\ Len(rows) <= MaxRows

\* Claude starts only on a complete observation that still counts and that nothing contradicts:
\* whatever was observed after it, at the same time, or at a time nobody knows and appended
\* after it, is the same observation or a collection that failed while the login held.
AdmissionCurrent ==
    Admits =>
        LET e == RecoveredQuota IN
        /\ rows[e].native /\ rows[e].status = "complete" /\ ~rows[e].low
        /\ clock - rows[e].at <= Ttl
        /\ \A i \in DOMAIN rows :
              \/ rows[i].at = 0 /\ i < e
              \/ rows[i] = rows[e]
              \/ rows[i].at # 0 /\ rows[i].at < rows[e].at
              \/ /\ rows[i].at > rows[e].at /\ rows[i].native /\ rows[i].status = "empty"
                 /\ clock < rows[e].window

\* A refusal is lifted by an observation at least as recent as all known ones: neither the
\* passing of time nor the append of an older one, or of one of unknown time, lets Claude start.
KeepsRefusal ==
    Admits' /\ ~Admits =>
        /\ rows' # rows /\ rows'[Len(rows')].at # 0
        /\ \A i \in Timed : rows[i].at <= rows'[Len(rows')].at
=============================================================================
