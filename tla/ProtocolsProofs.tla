-------------------------- MODULE ProtocolsProofs --------------------------
(* The protocols of Protocols, each for any number of clients, calls, rows,  *)
(* directories, versions and crashes: the answers given are true, the work   *)
(* in a directory is kept, and what was decided on an earlier reading does   *)
(* not happen on a later state.  Each component has its section: its         *)
(* invariant, a lemma for each of its steps and what follows; the journal's  *)
(* proofs are those of RequestJournalProofs, taken twice.  The last section  *)
(* composes them.                                                            *)
EXTENDS Protocols, FiniteSetTheorems, SequenceTheorems, WellFoundedInduction, TLAPS

-----------------------------------------------------------------------------
(* RequestJournal, twice: with calls that are resent, and with others beside them. *)

ResentProofs == INSTANCE RequestJournalProofs WITH
    Client <- JClient, Request <- JRequest, Task <- JTask, Call <- JResent,
    Kind <- JKind, TaskOf <- JTaskOf, MaxInstance <- JMaxInstance,
    row <- jRow, effects <- jEffects, active <- jActive, service <- jService,
    thread <- jThread, client <- jClient, sent <- jSent

\* The instance of the proofs and that of Protocols are of the same formulas.
LEMMA ResentSame ==
    /\ ResentProofs!RequestAssumption <=> Resent!RequestAssumption
    /\ ResentProofs!Init <=> Resent!Init
    /\ ResentProofs!TypeOK <=> Resent!TypeOK
    /\ ResentProofs!AnswersTrue <=> Resent!AnswersTrue
    /\ ResentProofs!vars = Resent!vars /\ ([ResentProofs!Next]_(ResentProofs!vars) <=> [Resent!Next]_(Resent!vars))
    /\ [ResentProofs!QuietAfterDrain]_jEffects <=> [Resent!QuietAfterDrain]_jEffects
  BY DEF
      ResentProofs!RequestAssumption, ResentProofs!ledger, ResentProofs!hosts,
      ResentProofs!vars, ResentProofs!NoRow, ResentProofs!NoThread, ResentProofs!Ended,
      ResentProofs!Idle, ResentProofs!Init, ResentProofs!Resends, ResentProofs!SendWrite,
      ResentProofs!Answer, ResentProofs!Told, ResentProofs!Reply,
      ResentProofs!PostUncertain, ResentProofs!ResolveWrite, ResentProofs!Alive,
      ResentProofs!InFlight, ResentProofs!BoundTask, ResentProofs!Admits,
      ResentProofs!Admit, ResentProofs!Executing, ResentProofs!ValidationExcludes,
      ResentProofs!Fresh, ResentProofs!Reserve, ResentProofs!Settleable,
      ResentProofs!Settled, ResentProofs!Settle, ResentProofs!Preflight,
      ResentProofs!Invoke, ResentProofs!OutcomeOf, ResentProofs!Late, ResentProofs!Record,
      ResentProofs!SessionMoves, ResentProofs!BeginDrain, ResentProofs!Stop,
      ResentProofs!Exit, ResentProofs!Interrupted, ResentProofs!Start, ResentProofs!Next,
      ResentProofs!TypeOK, ResentProofs!AnswersTrue, ResentProofs!QuietAfterDrain,
      Resent!RequestAssumption, Resent!ledger, Resent!hosts, Resent!vars, Resent!NoRow,
      Resent!NoThread, Resent!Ended, Resent!Idle, Resent!Init, Resent!Resends,
      Resent!SendWrite, Resent!Answer, Resent!Told, Resent!Reply, Resent!PostUncertain,
      Resent!ResolveWrite, Resent!Alive, Resent!InFlight, Resent!BoundTask, Resent!Admits,
      Resent!Admit, Resent!Executing, Resent!ValidationExcludes, Resent!Fresh,
      Resent!Reserve, Resent!Settleable, Resent!Settled, Resent!Settle, Resent!Preflight,
      Resent!Invoke, Resent!OutcomeOf, Resent!Late, Resent!Record, Resent!SessionMoves,
      Resent!BeginDrain, Resent!Stop, Resent!Exit, Resent!Interrupted, Resent!Start,
      Resent!Next, Resent!TypeOK, Resent!AnswersTrue, Resent!QuietAfterDrain

BesideProofs == INSTANCE RequestJournalProofs WITH
    Client <- JClient, Request <- JRequest, Task <- JTask, Call <- JBeside,
    Kind <- JKind, TaskOf <- JTaskOf, MaxInstance <- JMaxInstance,
    row <- jRow, effects <- jEffects, active <- jActive, service <- jService,
    thread <- jThread, client <- jClient, sent <- jSent

\* The instance of the proofs and that of Protocols are of the same formulas.
LEMMA BesideSame ==
    /\ BesideProofs!RequestAssumption <=> Beside!RequestAssumption
    /\ BesideProofs!Init <=> Beside!Init
    /\ BesideProofs!TypeOK <=> Beside!TypeOK
    /\ BesideProofs!AnswersTrue <=> Beside!AnswersTrue
    /\ BesideProofs!vars = Beside!vars /\ ([BesideProofs!Next]_(BesideProofs!vars) <=> [Beside!Next]_(Beside!vars))
    /\ [BesideProofs!QuietAfterDrain]_jEffects <=> [Beside!QuietAfterDrain]_jEffects
  BY DEF
      BesideProofs!RequestAssumption, BesideProofs!ledger, BesideProofs!hosts,
      BesideProofs!vars, BesideProofs!NoRow, BesideProofs!NoThread, BesideProofs!Ended,
      BesideProofs!Idle, BesideProofs!Init, BesideProofs!Resends, BesideProofs!SendWrite,
      BesideProofs!Answer, BesideProofs!Told, BesideProofs!Reply,
      BesideProofs!PostUncertain, BesideProofs!ResolveWrite, BesideProofs!Alive,
      BesideProofs!InFlight, BesideProofs!BoundTask, BesideProofs!Admits,
      BesideProofs!Admit, BesideProofs!Executing, BesideProofs!ValidationExcludes,
      BesideProofs!Fresh, BesideProofs!Reserve, BesideProofs!Settleable,
      BesideProofs!Settled, BesideProofs!Settle, BesideProofs!Preflight,
      BesideProofs!Invoke, BesideProofs!OutcomeOf, BesideProofs!Late, BesideProofs!Record,
      BesideProofs!SessionMoves, BesideProofs!BeginDrain, BesideProofs!Stop,
      BesideProofs!Exit, BesideProofs!Interrupted, BesideProofs!Start, BesideProofs!Next,
      BesideProofs!TypeOK, BesideProofs!AnswersTrue, BesideProofs!QuietAfterDrain,
      Beside!RequestAssumption, Beside!ledger, Beside!hosts, Beside!vars, Beside!NoRow,
      Beside!NoThread, Beside!Ended, Beside!Idle, Beside!Init, Beside!Resends,
      Beside!SendWrite, Beside!Answer, Beside!Told, Beside!Reply, Beside!PostUncertain,
      Beside!ResolveWrite, Beside!Alive, Beside!InFlight, Beside!BoundTask, Beside!Admits,
      Beside!Admit, Beside!Executing, Beside!ValidationExcludes, Beside!Fresh,
      Beside!Reserve, Beside!Settleable, Beside!Settled, Beside!Settle, Beside!Preflight,
      Beside!Invoke, Beside!OutcomeOf, Beside!Late, Beside!Record, Beside!SessionMoves,
      Beside!BeginDrain, Beside!Stop, Beside!Exit, Beside!Interrupted, Beside!Start,
      Beside!Next, Beside!TypeOK, Beside!AnswersTrue, Beside!QuietAfterDrain

\* So are their promises: which calls there are is not in them.
LEMMA OnePromise ==
    /\ ResentProofs!Journal!Init <=> Resent!Journal!Init
    /\ BesideProofs!Journal!Init <=> Resent!Journal!Init
    /\ [ResentProofs!Journal!Next]_(ResentProofs!Journal!vars) <=> [Resent!Journal!Next]_(Resent!Journal!vars)
    /\ [BesideProofs!Journal!Next]_(BesideProofs!Journal!vars) <=> [Resent!Journal!Next]_(Resent!Journal!vars)
  BY DEF
      ResentProofs!Late, BesideProofs!Late, Resent!Late, ResentProofs!Journal!vars,
      ResentProofs!Journal!Final, ResentProofs!Journal!Init, ResentProofs!Journal!Begin,
      ResentProofs!Journal!Act, ResentProofs!Journal!GiveUp, ResentProofs!Journal!Record,
      ResentProofs!Journal!GiveUpAll, ResentProofs!Journal!Next, BesideProofs!Journal!vars,
      BesideProofs!Journal!Final, BesideProofs!Journal!Init, BesideProofs!Journal!Begin,
      BesideProofs!Journal!Act, BesideProofs!Journal!GiveUp, BesideProofs!Journal!Record,
      BesideProofs!Journal!GiveUpAll, BesideProofs!Journal!Next, Resent!Journal!vars,
      Resent!Journal!Final, Resent!Journal!Init, Resent!Journal!Begin, Resent!Journal!Act,
      Resent!Journal!GiveUp, Resent!Journal!Record, Resent!Journal!GiveUpAll,
      Resent!Journal!Next

\* What RequestJournalProofs shows of every journal, of this one.
LEMMA ResentHolds ==
    Resent!Spec =>
        /\ [](Resent!TypeOK /\ Resent!AnswersTrue)
        /\ [][Resent!QuietAfterDrain]_jEffects
        /\ Resent!JournalAtMostOnce
<1>1. ResentProofs!RequestAssumption
  BY ProtocolsAssumption, ResentSame
<1>2. Resent!Spec => ResentProofs!Spec
  BY ResentSame, PTL DEF Resent!Spec, ResentProofs!Spec
<1>3. Resent!Spec => [](Resent!TypeOK /\ Resent!AnswersTrue)
  BY <1>1, <1>2, ResentSame, ResentProofs!JournalTypeCorrect, ResentProofs!AnswersAreTrue, PTL
<1>4. Resent!Spec => [][Resent!QuietAfterDrain]_jEffects
  BY <1>1, <1>2, ResentSame, ResentProofs!StopsQuietly, PTL DEF ResentProofs!StoppedIsQuiet
<1>5. Resent!Spec => Resent!JournalAtMostOnce
  BY <1>1, <1>2, OnePromise, ResentProofs!JournalImplementsAtMostOnce, PTL
  DEF ResentProofs!JournalAtMostOnce, ResentProofs!Journal!Spec, Resent!JournalAtMostOnce, Resent!Journal!Spec
<1> QED
  BY <1>3, <1>4, <1>5, PTL

\* What RequestJournalProofs shows of every journal, of this one.
LEMMA BesideHolds ==
    Beside!Spec =>
        /\ [](Beside!TypeOK /\ Beside!AnswersTrue)
        /\ [][Beside!QuietAfterDrain]_jEffects
        /\ Resent!JournalAtMostOnce
<1>1. BesideProofs!RequestAssumption
  BY ProtocolsAssumption, BesideSame
<1>2. Beside!Spec => BesideProofs!Spec
  BY BesideSame, PTL DEF Beside!Spec, BesideProofs!Spec
<1>3. Beside!Spec => [](Beside!TypeOK /\ Beside!AnswersTrue)
  BY <1>1, <1>2, BesideSame, BesideProofs!JournalTypeCorrect, BesideProofs!AnswersAreTrue, PTL
<1>4. Beside!Spec => [][Beside!QuietAfterDrain]_jEffects
  BY <1>1, <1>2, BesideSame, BesideProofs!StopsQuietly, PTL DEF BesideProofs!StoppedIsQuiet
<1>5. Beside!Spec => Resent!JournalAtMostOnce
  BY <1>1, <1>2, OnePromise, BesideProofs!JournalImplementsAtMostOnce, PTL
  DEF BesideProofs!JournalAtMostOnce, BesideProofs!Journal!Spec, Resent!JournalAtMostOnce, Resent!Journal!Spec
<1> QED
  BY <1>3, <1>4, <1>5, PTL


-----------------------------------------------------------------------------
(* SessionNotifications: the rows a projection makes, and those that were     *)
(* acknowledged.                                                              *)

\* The operators of FiniteSets as the instance imports them.
LEMMA OutboxSizes ==
    /\ \A S : Outbox!Cardinality(S) = Cardinality(S)
    /\ \A S : Outbox!IsFiniteSet(S) <=> IsFiniteSet(S)
  BY DEF Outbox!Cardinality, Cardinality, Outbox!IsFiniteSet, IsFiniteSet

LEMMA OutboxAssumed == Outbox!OutboxAssumption
  BY ProtocolsAssumption


OutboxEvents == [type : {"notice", "bound"}, task : NTask, session : NSession \cup {NUnrouted}]
NoticeRows == [event : Nat, session : NSession \cup {NUnrouted}, acknowledged : BOOLEAN]

\* Rows for events up to the n-th, one for each session of an event.
OutboxRowsUpTo(rows, n) ==
    /\ rows \subseteq NoticeRows
    /\ \A x \in rows : x.event \in 1 .. n /\ (x.acknowledged => x.session # NUnrouted)
    /\ \A x, y \in rows : x.event = y.event /\ x.session = y.session => x = y

OutboxInv ==
    /\ nLog \in Seq(OutboxEvents) /\ \A i \in DOMAIN nLog : nLog[i].type = "bound" => nLog[i].session \in NSession
    /\ nCursor \in 0 .. Len(nLog)
    /\ nRoutes \subseteq NSession \X NTask
    /\ OutboxRowsUpTo(nOutbox, nCursor)

LEMMA OutboxRowFields ==
    ASSUME NEW e, NEW s
    PROVE  /\ Outbox!Row(e, s).event = e /\ Outbox!Row(e, s).session = s /\ ~Outbox!Row(e, s).acknowledged
           /\ e \in Nat /\ s \in NSession \cup {NUnrouted} => Outbox!Row(e, s) \in NoticeRows
  BY DEF Outbox!Row, NoticeRows

\* Attaching makes rows of rows, for sessions that had none.
LEMMA OutboxAttachKeepsRows ==
    ASSUME NEW n \in Nat, NEW rows, OutboxRowsUpTo(rows, n), NEW to \in SUBSET (NSession \X NTask),
           NEW k, NEW batch \in Outbox!Batches(Outbox!Missing(rows, to), k)
    PROVE  OutboxRowsUpTo(Outbox!Attach(rows, batch), n)
<1> DEFINE old == {row \in rows : ~(row.session = NUnrouted /\ \E p \in batch : p[2] = row)}
           new == {Outbox!Row(p[2].event, p[1][1]) : p \in batch}
<1>1. Outbox!Attach(rows, batch) = old \cup new /\ old \subseteq rows
  BY DEF Outbox!Attach
<1>2. \A p \in batch : /\ p[2] \in rows /\ p[2].event \in 1 .. n /\ p[1][1] \in NSession
                       /\ ~Outbox!Told(rows, p[2].event, p[1][1])
  BY DEF Outbox!Batches, Outbox!Missing, OutboxRowsUpTo
<1>3. \A y \in new : /\ y \in NoticeRows /\ y.event \in 1 .. n /\ ~y.acknowledged
                     /\ \A x \in rows : ~(x.event = y.event /\ x.session = y.session)
  BY <1>2, OutboxRowFields DEF Outbox!Told
<1>4. \A x, y \in new : x.event = y.event /\ x.session = y.session => x = y
  <2> SUFFICES ASSUME NEW x \in new, NEW y \in new, x.event = y.event, x.session = y.session
               PROVE  x = y
    OBVIOUS
  <2>1. PICK p \in batch : x = Outbox!Row(p[2].event, p[1][1])
    OBVIOUS
  <2>2. PICK q \in batch : y = Outbox!Row(q[2].event, q[1][1])
    OBVIOUS
  <2>3. p[2].event = q[2].event /\ p[1][1] = q[1][1]
    BY <2>1, <2>2, OutboxRowFields
  <2>4. QED
    BY <2>1, <2>2, <2>3
<1> HIDE DEF old, new
<1>5. QED
  BY <1>1, <1>3, <1>4 DEF OutboxRowsUpTo

\* The events of a turn follow the cursor, and are counted.
LEMMA OutboxCursorMoves ==
    ASSUME OutboxInv, Outbox!Project
    PROVE  nCursor' \in nCursor .. Len(nLog) /\ \A e \in Outbox!Scanned : e \in (nCursor + 1) .. nCursor' /\ e \in DOMAIN nLog
<1> DEFINE last == IF nCursor + NLimit <= Len(nLog) THEN nCursor + NLimit ELSE Len(nLog)
<1>1. nCursor \in Nat /\ Len(nLog) \in Nat /\ NLimit \in Nat \ {0} /\ nCursor <= Len(nLog) /\ DOMAIN nLog = 1 .. Len(nLog)
  BY OutboxAssumed DEF OutboxInv, Outbox!OutboxAssumption
<1>2. last \in Nat /\ nCursor <= last /\ last <= Len(nLog)
  BY <1>1
<1>3. Outbox!Scanned = (nCursor + 1) .. last
  BY <1>1, <1>2 DEF Outbox!Scanned
<1> HIDE DEF last
<1>4. Cardinality(Outbox!Scanned) = last - nCursor
  <2>1. nCursor + 1 \in Int /\ last \in Int
    BY <1>1, <1>2
  <2>2. Cardinality((nCursor + 1) .. last) = IF nCursor + 1 > last THEN 0 ELSE last - (nCursor + 1) + 1
    BY <2>1, FS_Interval
  <2>3. (IF nCursor + 1 > last THEN 0 ELSE last - (nCursor + 1) + 1) = last - nCursor
    BY <1>1, <1>2
  <2> QED
    BY <1>3, <2>2, <2>3
<1>5. nCursor' = last
  <2>1. nCursor' = nCursor + Cardinality(Outbox!Scanned)
    BY OutboxSizes DEF Outbox!Project
  <2> QED
    BY <1>1, <1>2, <1>4, <2>1
<1>6. QED
  BY <1>1, <1>2, <1>3, <1>5

LEMMA OutboxInitLemma == Outbox!Init => OutboxInv
<1> SUFFICES ASSUME Outbox!Init
             PROVE  OutboxInv
  OBVIOUS
<1>1. \A s \in NSession, t \in NTask : Outbox!Bound(s, t) \in OutboxEvents
  BY DEF Outbox!Bound, OutboxEvents
<1>2. nLog \in Seq(OutboxEvents) /\ \A i \in DOMAIN nLog : nLog[i].type = "bound" => nLog[i].session \in NSession
  <2>1. CASE nLog = <<>>
    BY <2>1
  <2>2. ASSUME NEW s \in NSession, NEW t \in NTask, nLog = <<Outbox!Bound(s, t)>>
        PROVE  nLog \in Seq(OutboxEvents) /\ \A i \in DOMAIN nLog : nLog[i].type = "bound" => nLog[i].session \in NSession
    <3>1. Outbox!Bound(s, t) \in OutboxEvents /\ Outbox!Bound(s, t).session = s
      BY <1>1 DEF Outbox!Bound
    <3> HIDE DEF Outbox!Bound
    <3> QED
      BY <2>2, <3>1
  <2> QED
    BY <2>1, <2>2 DEF Outbox!Init
<1>3. QED
  BY <1>2 DEF Outbox!Init, OutboxInv, OutboxRowsUpTo

LEMMA OutboxStepLemma == OutboxInv /\ [Outbox!Next]_Outbox!vars => OutboxInv'
<1> SUFFICES ASSUME OutboxInv, [Outbox!Next]_Outbox!vars
             PROVE  OutboxInv'
  OBVIOUS
<1>0. nCursor \in Nat /\ Len(nLog) \in Nat /\ nCursor <= Len(nLog) /\ nLog \in Seq(OutboxEvents)
  BY DEF OutboxInv
<1>1. ASSUME NEW x \in OutboxEvents, x.type = "bound" => x.session \in NSession, nLog' = Append(nLog, x)
      PROVE  /\ nLog' \in Seq(OutboxEvents) /\ Len(nLog') = Len(nLog) + 1
             /\ \A i \in DOMAIN nLog' : nLog'[i].type = "bound" => nLog'[i].session \in NSession
  <2>1. nLog' \in Seq(OutboxEvents) /\ Len(nLog') = Len(nLog) + 1
    BY <1>0, <1>1
  <2>2. \A i \in DOMAIN nLog' : nLog'[i] = x \/ (i \in DOMAIN nLog /\ nLog'[i] = nLog[i])
    BY <1>0, <1>1
  <2>3. QED
    BY <1>1, <2>1, <2>2 DEF OutboxInv
<1>2. ASSUME NEW s \in NSession, NEW t \in NTask, Outbox!BindTask(s, t)
      PROVE  OutboxInv'
  <2>1. Outbox!Bound(s, t) \in OutboxEvents /\ Outbox!Bound(s, t).session \in NSession
    BY DEF Outbox!Bound, OutboxEvents
  <2>2. {<<s, t>>} \in SUBSET (NSession \X NTask)
    OBVIOUS
  <2>3. OutboxRowsUpTo(nOutbox, nCursor)'
    <3>1. PICK batch \in Outbox!Batches(Outbox!Missing(nOutbox, {<<s, t>>}), NLimit) : nOutbox' = Outbox!Attach(nOutbox, batch)
      BY <1>2 DEF Outbox!BindTask
    <3>2. OutboxRowsUpTo(nOutbox', nCursor)
      BY <1>0, <2>2, <3>1, OutboxAttachKeepsRows DEF OutboxInv
    <3>3. QED
      BY <1>2, <3>2 DEF Outbox!BindTask, OutboxRowsUpTo
  <2>4. nRoutes' \subseteq NSession \X NTask /\ nCursor' = nCursor /\ nLog' = Append(nLog, Outbox!Bound(s, t))
    BY <1>2 DEF Outbox!BindTask, OutboxInv
  <2>5. QED
    BY <1>0, <1>1, <2>1, <2>3, <2>4 DEF OutboxInv
<1>3. ASSUME NEW t \in NTask, Outbox!Emit(t)
      PROVE  OutboxInv'
  <2>1. Outbox!Notice(t) \in OutboxEvents /\ Outbox!Notice(t).type # "bound"
    BY DEF Outbox!Notice, OutboxEvents
  <2>2. nLog' = Append(nLog, Outbox!Notice(t)) /\ UNCHANGED <<nCursor, nRoutes, nOutbox>>
    BY <1>3 DEF Outbox!Emit
  <2>3. QED
    BY <1>0, <1>1, <2>1, <2>2 DEF OutboxInv, OutboxRowsUpTo
<1>4. ASSUME Outbox!Project
      PROVE  OutboxInv'
  <2> DEFINE to == Outbox!RoutesAt(nCursor + NLimit + 1)
             new == UNION {{Outbox!Row(e, s) : s \in Outbox!Addressees(e)} : e \in {f \in Outbox!Scanned : nLog[f].type = "notice"}}
  <2>1. \A e : Outbox!RoutesAt(e) \subseteq NSession \X NTask
    <3>1. \A b \in Outbox!Scanned : nLog[b].type = "bound" => nLog[b].session \in NSession /\ nLog[b].task \in NTask
      <4>1. \A b \in Outbox!Scanned : b \in DOMAIN nLog
        BY DEF Outbox!Scanned
      <4>2. \A b \in DOMAIN nLog : nLog[b] \in OutboxEvents
        BY <1>0
      <4> QED
        BY <4>1, <4>2 DEF OutboxInv, OutboxEvents
    <3>2. \A e : \A b \in {f \in Outbox!Scanned : f < e /\ nLog[f].type = "bound"} : <<nLog[b].session, nLog[b].task>> \in NSession \X NTask
      BY <3>1
    <3> QED
      BY <3>2 DEF Outbox!RoutesAt, OutboxInv
  <2>2. \A e : Outbox!Addressees(e) \subseteq NSession \cup {NUnrouted}
    BY <2>1 DEF Outbox!Addressees
  <2>3. \A y \in new : \E e \in Outbox!Scanned, s \in NSession \cup {NUnrouted} : y = Outbox!Row(e, s)
    BY <2>2
  <2>4. OutboxRowsUpTo(nOutbox \cup new, nCursor')
    <3>1. nCursor' \in Nat /\ nCursor <= nCursor' /\ \A e \in Outbox!Scanned : e \in Nat /\ nCursor < e /\ e <= nCursor'
      BY <1>0, <1>4, OutboxCursorMoves
    <3>2. \A x \in nOutbox : /\ x \in NoticeRows /\ x.event \in Nat /\ 1 <= x.event /\ x.event <= nCursor
                             /\ x.acknowledged => x.session # NUnrouted
      BY <1>0 DEF OutboxInv, OutboxRowsUpTo
    <3>3. \A y \in new : y \in NoticeRows /\ y.event \in Nat /\ nCursor < y.event /\ y.event <= nCursor' /\ ~y.acknowledged
      BY <2>3, <3>1, OutboxRowFields
    <3>4. \A x, y \in new : x.event = y.event /\ x.session = y.session => x = y
      BY <2>3, OutboxRowFields
    <3> HIDE DEF new
    <3>5. \A x \in nOutbox \cup new : x \in NoticeRows /\ x.event \in 1 .. nCursor' /\ (x.acknowledged => x.session # NUnrouted)
      <4>1. \A x \in nOutbox : x \in NoticeRows /\ x.event \in 1 .. nCursor' /\ (x.acknowledged => x.session # NUnrouted)
        <5> SUFFICES ASSUME NEW x \in nOutbox PROVE x.event \in 1 .. nCursor'
          BY <3>2
        <5>1. x.event \in Nat /\ 1 <= x.event /\ x.event <= nCursor
          BY <3>2
        <5>2. nCursor \in Nat /\ nCursor' \in Nat /\ nCursor <= nCursor'
          BY <1>0, <3>1
        <5> QED
          BY <5>1, <5>2
      <4>2. \A x \in new : x \in NoticeRows /\ x.event \in 1 .. nCursor' /\ (x.acknowledged => x.session # NUnrouted)
        BY <1>0, <3>1, <3>3
      <4> QED
        BY <4>1, <4>2
    <3>6. ASSUME NEW x \in nOutbox \cup new, NEW y \in nOutbox \cup new, x.event = y.event, x.session = y.session
          PROVE  x = y
      <4>1. CASE x \in nOutbox /\ y \in nOutbox
        BY <3>6, <4>1 DEF OutboxInv, OutboxRowsUpTo
      <4>2. CASE x \in new /\ y \in new
        BY <3>4, <3>6, <4>2
      <4>3. \A u \in nOutbox, v \in new : u.event # v.event
        <5> SUFFICES ASSUME NEW u \in nOutbox, NEW v \in new PROVE u.event # v.event
          OBVIOUS
        <5>1. u.event \in Nat /\ u.event <= nCursor /\ v.event \in Nat /\ nCursor < v.event
          BY <3>2, <3>3
        <5> QED
          BY <1>0, <5>1
      <4>4. QED
        BY <3>6, <4>1, <4>2, <4>3
    <3>7. QED
      BY <3>5, <3>6 DEF OutboxRowsUpTo
  <2>5. PICK batch \in Outbox!Batches(Outbox!Missing(nOutbox \cup new, to), NLimit) : nOutbox' = Outbox!Attach(nOutbox \cup new, batch)
    <3>1. \E batch \in Outbox!CatchUp(nOutbox \cup new, to) : nOutbox' = Outbox!Attach(nOutbox \cup new, batch)
      BY <1>4 DEF Outbox!Project
    <3> HIDE DEF to, new
    <3> QED
      BY <3>1 DEF Outbox!CatchUp
  <2>6. nCursor' \in nCursor .. Len(nLog) /\ nCursor' \in Nat /\ UNCHANGED nLog /\ nRoutes' = to
    <3>1. nCursor' \in nCursor .. Len(nLog)
      BY <1>4, OutboxCursorMoves
    <3>2. UNCHANGED nLog /\ nRoutes' = to
      BY <1>4 DEF Outbox!Project
    <3> HIDE DEF to, new
    <3> QED
      BY <1>0, <3>1, <3>2
  <2>7. to \in SUBSET (NSession \X NTask)
    BY <2>1
  <2> HIDE DEF to, new
  <2>8. OutboxRowsUpTo(nOutbox', nCursor')
    BY <2>4, <2>5, <2>6, <2>7, OutboxAttachKeepsRows
  <2>9. QED
    BY <1>0, <2>6, <2>7, <2>8 DEF OutboxInv, OutboxRowsUpTo
<1>5. ASSUME NEW row \in nOutbox, Outbox!Acknowledge(row)
      PROVE  OutboxInv'
  <2> DEFINE after == [row EXCEPT !.acknowledged = TRUE]
  <2>1. after \in NoticeRows /\ after.event = row.event /\ after.session = row.session /\ row.session # NUnrouted
    <3>1. row \in NoticeRows /\ <<row.session, Outbox!TaskOf(row)>> \in NSession \X NTask
      BY <1>5 DEF OutboxInv, OutboxRowsUpTo, Outbox!Acknowledge
    <3> QED
      BY <3>1, OutboxAssumed DEF NoticeRows, Outbox!OutboxAssumption
  <2>2. nOutbox' = (nOutbox \ {row}) \cup {after} /\ UNCHANGED <<nLog, nCursor, nRoutes>>
    BY <1>5 DEF Outbox!Acknowledge
  <2> HIDE DEF after
  <2>3. OutboxRowsUpTo(nOutbox', nCursor)
    BY <2>1, <2>2 DEF OutboxInv, OutboxRowsUpTo
  <2>4. QED
    BY <2>2, <2>3 DEF OutboxInv, OutboxRowsUpTo
<1>6. CASE UNCHANGED Outbox!vars
  BY <1>6 DEF Outbox!vars, OutboxInv, OutboxRowsUpTo
<1>7. QED
  BY <1>2, <1>3, <1>4, <1>5, <1>6 DEF Outbox!Next

LEMMA OutboxImplies == OutboxInv => Outbox!TypeOK
  BY DEF OutboxInv, OutboxRowsUpTo, NoticeRows, Outbox!TypeOK

\* What a session acknowledged stays so.
LEMMA OutboxKeeps == OutboxInv /\ [Outbox!Next]_Outbox!vars => \A row \in nOutbox : row.acknowledged => row \in nOutbox'
<1> SUFFICES ASSUME OutboxInv, [Outbox!Next]_Outbox!vars, NEW x \in nOutbox, x.acknowledged
             PROVE  x \in nOutbox'
  OBVIOUS
<1>1. x.session # NUnrouted /\ x \in NoticeRows
  BY DEF OutboxInv, OutboxRowsUpTo
<1>2. \A rows, batch : x \in rows => x \in Outbox!Attach(rows, batch)
  BY <1>1 DEF Outbox!Attach
<1>3. ASSUME NEW s \in NSession, NEW t \in NTask, Outbox!BindTask(s, t) PROVE x \in nOutbox'
  BY <1>2, <1>3 DEF Outbox!BindTask
<1>4. CASE Outbox!Project
  BY <1>2, <1>4 DEF Outbox!Project
<1>5. ASSUME NEW row \in nOutbox, Outbox!Acknowledge(row) PROVE x \in nOutbox'
  <2>1. nOutbox' = (nOutbox \ {row}) \cup {[row EXCEPT !.acknowledged = TRUE]}
    BY <1>5 DEF Outbox!Acknowledge
  <2>2. CASE x = row
    <3>1. x.acknowledged = TRUE
      BY <1>1 DEF NoticeRows
    <3>2. [x EXCEPT !.acknowledged = TRUE] = x
      BY <1>1, <3>1 DEF NoticeRows
    <3> QED
      BY <2>1, <2>2, <3>2
  <2> QED
    BY <2>1, <2>2
<1> QED
  BY <1>3, <1>4, <1>5 DEF Outbox!Next, Outbox!Emit, Outbox!vars

\* A notice that a session acknowledged stays acknowledged (session_outbox), however often
\* the events are projected and the sessions are bound.
THEOREM NoticesStay ==
    Outbox!Init /\ [][Outbox!Next]_Outbox!vars => []Outbox!TypeOK /\ [][\A row \in nOutbox : row.acknowledged => row \in nOutbox']_Outbox!vars
<1>1. Outbox!Init /\ [][Outbox!Next]_Outbox!vars => []OutboxInv
  BY OutboxInitLemma, OutboxStepLemma, PTL
<1> QED
  BY <1>1, OutboxImplies, OutboxKeeps, PTL

-----------------------------------------------------------------------------
(* WorktreeReclamation: what an archive holds while the files of its row are  *)
(* archived, quarantined and removed, beside the life of the task.            *)

LEMMA ReclaimAssumed == Reclaim!ReclamationAssumption
  BY ProtocolsAssumption


\* A set of numbers has a least one, and a bounded one has a greatest.
LEMMA ReclaimLeast ==
    ASSUME NEW S, S \subseteq Nat, S # {}
    PROVE  \E i \in S : \A j \in S : i <= j
<1> DEFINE R == {ss \in Nat \X Nat : ss[1] < ss[2]}
<1>1. IsWellFoundedOn(R, Nat)
    BY NatLessThanWellFounded DEF OpToRel
<1>2. \E x \in S : \A y \in S : ~(<<y, x>> \in R)
    <2> HIDE DEF R
    <2> QED BY <1>1, WFMin
<1>3. \A x, y \in S : ~(<<y, x>> \in R) => x <= y
    OBVIOUS
<1> QED BY <1>2, <1>3

\* So with the greatest of a bounded set.
LEMMA ReclaimGreatest ==
    ASSUME NEW N \in Nat, NEW S, S \subseteq 1 .. N, S # {}
    PROVE  \E i \in S : \A j \in S : j <= i
<1> DEFINE T == {n \in Nat : N - n \in S}
<1>1. \A i \in S : N - i \in T
    <2> SUFFICES ASSUME NEW i \in S PROVE N - i \in T
        OBVIOUS
    <2>1. i \in Int /\ 1 <= i /\ i <= N
        OBVIOUS
    <2>2. N - i \in Nat /\ N - (N - i) = i
        BY <2>1
    <2> QED BY <2>2
<1>2. T \subseteq Nat /\ T # {}
    BY <1>1
<1> HIDE DEF T
<1>3. PICK t \in T : \A u \in T : t <= u
    BY <1>2, ReclaimLeast
<1>4. N - t \in S
    BY <1>3 DEF T
<1>5. \A j \in S : j <= N - t
    <2> SUFFICES ASSUME NEW j \in S PROVE j <= N - t
        OBVIOUS
    <2>1. t <= N - j
        BY <1>1, <1>3
    <2>2. j \in Int /\ t \in Int
        BY <1>2
    <2> QED BY <2>1, <2>2
<1> QED BY <1>4, <1>5


Phase == {"idle", "listed", "claim", "move", "moved", "quarantined", "begin", "pack", "send", "finish", "fail",
          "purge", "removed", "unremoved"}
Listed == [id : Reclaim!Allocation, state : Reclaim!Reclaims]
SweepOK == [pc : Phase, todo : Seq(Listed), state : {"none", "listed"}, allowed : BOOLEAN, archive : Nat,
            pack : 0 .. WMaxVersion, remote : BOOLEAN]
RowState == Reclaim!Reclaims \cup {"purged"}
ArchiveOK == [id : Reclaim!Allocation, state : {"pending", "verified", "failed"}, version : 0 .. WMaxVersion]
LifeOK == [state : {"live", "accepted", "cancelled", "reopened"}, executing : BOOLEAN, wanted : BOOLEAN, delivered : BOOLEAN]

Archived(a) == \E i \in DOMAIN wArchives : wArchives[i].id = a /\ wArchives[i].state = "verified"

\* A sweep whose archive row is open, and one whose files an archive holds.
Writing(s) == wSweep[s].pc \in {"send", "finish", "fail"} \/ (wSweep[s].pc = "pack" /\ ~wSweep[s].remote)
Removing(s) == wSweep[s].pc \in {"purge", "removed", "unremoved"}
Packed(s) == wSweep[s].pc \in {"send", "finish"} \/ (wSweep[s].pc = "begin" /\ wSweep[s].remote)
Kept == wTask.state = "accepted" /\ WExternal /\ ~wTask.delivered

\* What was listed, however long ago.
ListFits(s) ==
    \A i \in DOMAIN wSweep[s].todo :
        /\ wSweep[s].todo[i].state # "active" => wRow[wSweep[s].todo[i].id] # "active"
        /\ wSweep[s].todo[i].state = "archived_verified" => Archived(wSweep[s].todo[i].id)
        /\ Kept => wSweep[s].todo[i].id # WVerifier

Sweeping(s) ==
    /\ wSweep[s] \in SweepOK
    /\ wSweep[s].archive <= Len(wArchives)
    /\ wSweep[s].pc # "idle" => wSweep[s].todo # <<>>
    /\ ListFits(s)
    /\ wSweep[s].pc \notin {"idle", "listed", "claim"} => wRow[Reclaim!Head1(s).id] # "active"
    /\ Writing(s) => /\ wSweep[s].archive \in DOMAIN wArchives
                     /\ wArchives[wSweep[s].archive].id = Reclaim!Head1(s).id
                     /\ wArchives[wSweep[s].archive].state = "pending"
    /\ Removing(s) => /\ wSweep[s].archive \in DOMAIN wArchives
                      /\ wArchives[wSweep[s].archive].id = Reclaim!Head1(s).id
                      /\ wArchives[wSweep[s].archive].state = "verified"
    /\ Packed(s) /\ wTask.state = "accepted" => wSweep[s].pack = wVersion[Reclaim!Head1(s).id]

ReclaimTypes ==
    /\ wTask \in LifeOK
    /\ wRow \in [Reclaim!Allocation -> RowState]
    /\ wHeld \subseteq Reclaim!Allocation
    /\ wPlace \in [Reclaim!Allocation -> {"work", "recycle", "gone"}]
    /\ wVersion \in [Reclaim!Allocation -> 0 .. WMaxVersion]
    /\ wArchives \in Seq(ArchiveOK)
    /\ DOMAIN wSweep = WSweeper

\* The rows, the files and the archives.
HeldRow ==
    /\ \A a \in Reclaim!Allocation :
          /\ wPlace[a] # "work" => wRow[a] # "active"
          /\ wRow[a] = "archived_verified" \/ wPlace[a] = "gone" => Archived(a)
    /\ wTask.wanted \/ Kept => wRow[WVerifier] = "active"
    /\ wTask.state = "accepted" =>
          \A i \in DOMAIN wArchives : wArchives[i].state = "verified" => wArchives[i].version = wVersion[wArchives[i].id]

\* Before a task is accepted or cancelled nothing was swept.
Fresh ==
    /\ wTask.state = "accepted" => ~wTask.executing
    /\ wTask.state = "live" => /\ \A s \in WSweeper : wSweep[s] = Reclaim!Idle
                               /\ \A a \in Reclaim!Allocation : wRow[a] = "active"
                               /\ wArchives = <<>>

ReclaimInv ==
    /\ ReclaimTypes /\ HeldRow /\ Fresh
    /\ \A s \in WSweeper : Sweeping(s)
    /\ \A s, t \in WSweeper : s # t /\ Writing(s) /\ Writing(t) => wSweep[s].archive # wSweep[t].archive

LEMMA ReclaimOrder ==
    /\ WOrder \in Seq(Reclaim!Allocation) /\ DOMAIN WOrder = 1 .. Len(WOrder) /\ WVerifier \in Reclaim!Allocation
    /\ \A i \in DOMAIN WOrder : WOrder[i] \in Reclaim!Allocation
    /\ WMaxItems \in [WSweeper -> Nat] /\ WExternal \in BOOLEAN /\ WMaxVersion \in Nat
<1>1. WOrder \in Seq(Reclaim!Allocation) /\ WVerifier \in Reclaim!Allocation
      /\ WMaxItems \in [WSweeper -> Nat] /\ WExternal \in BOOLEAN /\ WMaxVersion \in Nat
  BY ReclaimAssumed DEF Reclaim!ReclamationAssumption
<1> QED
  BY <1>1

LEMMA ReclaimIdle == /\ Reclaim!Idle \in SweepOK /\ Reclaim!Idle.pc = "idle" /\ Reclaim!Idle.todo = <<>> /\ Reclaim!Idle.archive = 0
                     /\ ~Reclaim!Idle.remote
<1>1. 0 \in 0 .. WMaxVersion /\ <<>> \in Seq(Listed) /\ 0 \in Nat
  BY ReclaimOrder
<1>2. Reclaim!Idle \in SweepOK
  BY <1>1 DEF Reclaim!Idle, SweepOK, Phase
<1> QED
  BY <1>2 DEF Reclaim!Idle

\* The head of a list, and what is behind it.
LEMMA ReclaimHead ==
  ASSUME NEW s \in WSweeper, wSweep[s] \in SweepOK, wSweep[s].todo # <<>>
  PROVE  /\ Reclaim!Head1(s) = wSweep[s].todo[1] /\ 1 \in DOMAIN wSweep[s].todo /\ Reclaim!Head1(s) \in Listed
         /\ Reclaim!Head1(s).id \in Reclaim!Allocation /\ Reclaim!Head1(s).state \in Reclaim!Reclaims
         /\ Tail(wSweep[s].todo) \in Seq(Listed)
         /\ \A i \in DOMAIN Tail(wSweep[s].todo) : \E j \in DOMAIN wSweep[s].todo : Tail(wSweep[s].todo)[i] = wSweep[s].todo[j]
<1>1. wSweep[s].todo \in Seq(Listed)
  BY DEF SweepOK
<1> DEFINE q == wSweep[s].todo
<1> HIDE DEF q
<1>2. q \in Seq(Listed) /\ q # <<>>
  BY <1>1 DEF q
<1>3. Head(q) = q[1] /\ 1 \in DOMAIN q /\ q[1] \in Listed
  BY <1>2
<1>4. Tail(q) \in Seq(Listed) /\ \A i \in DOMAIN Tail(q) : \E j \in DOMAIN q : Tail(q)[i] = q[j]
  <2>1. Len(q) \in Nat \ {0} /\ DOMAIN q = 1 .. Len(q)
    BY <1>2
  <2>2. Tail(q) \in Seq(Listed) /\ Len(Tail(q)) = Len(q) - 1 /\ \A i \in 1 .. Len(Tail(q)) : Tail(q)[i] = q[i + 1]
    BY <1>2, HeadTailProperties
  <2>3. DOMAIN Tail(q) = 1 .. Len(q) - 1
    BY <2>2
  <2>4. ASSUME NEW i \in DOMAIN Tail(q) PROVE i + 1 \in DOMAIN q /\ Tail(q)[i] = q[i + 1]
    BY <2>1, <2>2, <2>3
  <2> QED
    BY <2>2, <2>4
<1>5. Reclaim!Head1(s) = Head(q)
  BY DEF q, Reclaim!Head1
<1>6. Reclaim!Head1(s).id \in Reclaim!Allocation /\ Reclaim!Head1(s).state \in Reclaim!Reclaims
  BY <1>3, <1>5 DEF Listed
<1> QED
  BY <1>3, <1>4, <1>5, <1>6 DEF q

\* Archive rows are added, and a verified one stays as it is.
Grows == /\ wArchives' \in Seq(ArchiveOK) /\ DOMAIN wArchives \subseteq DOMAIN wArchives' /\ Len(wArchives) <= Len(wArchives')
         /\ \A i \in DOMAIN wArchives : /\ wArchives'[i].id = wArchives[i].id
                                        /\ wArchives[i].state = "verified" => wArchives'[i] = wArchives[i]
Leave == \A a \in Reclaim!Allocation : wRow[a] # "active" => wRow'[a] # "active"
\* Acceptance is final and freezes the files, a delivery stays made.
Settled == wTask'.state = "accepted" => wTask.state = "accepted" /\ wVersion' = wVersion /\ (wTask.delivered => wTask'.delivered)

LEMMA ReclaimSame == wArchives \in Seq(ArchiveOK) /\ UNCHANGED wArchives => Grows
  BY DEF Grows

LEMMA ReclaimArchived ==
  ASSUME Grows, NEW a, Archived(a)
  PROVE  Archived(a)'
  BY DEF Grows, Archived

LEMMA ReclaimList ==
  ASSUME NEW s \in WSweeper, wSweep[s] \in SweepOK, ListFits(s), Grows, Leave, Settled, wTask \in LifeOK, wTask' \in LifeOK,
         \A i \in DOMAIN wSweep'[s].todo : \E j \in DOMAIN wSweep[s].todo : wSweep'[s].todo[i] = wSweep[s].todo[j]
  PROVE  ListFits(s)'
<1> SUFFICES ASSUME NEW i \in DOMAIN wSweep'[s].todo
             PROVE  /\ wSweep'[s].todo[i].state # "active" => wRow'[wSweep'[s].todo[i].id] # "active"
                    /\ wSweep'[s].todo[i].state = "archived_verified" =>
                          \E k \in DOMAIN wArchives' : /\ wArchives'[k].id = wSweep'[s].todo[i].id
                                                      /\ wArchives'[k].state = "verified"
                    /\ Kept' => wSweep'[s].todo[i].id # WVerifier
  BY DEF ListFits, Archived
<1>1. PICK j \in DOMAIN wSweep[s].todo : wSweep'[s].todo[i] = wSweep[s].todo[j]
  OBVIOUS
<1> DEFINE x == wSweep[s].todo[j]
<1>2. x.id \in Reclaim!Allocation
  <2>1. wSweep[s].todo \in Seq(Listed)
    BY DEF SweepOK
  <2> DEFINE q == wSweep[s].todo
  <2> HIDE DEF q
  <2>2. q[j] \in Listed
    BY <2>1 DEF q
  <2> QED
    BY <2>2 DEF q, Listed
<1>3. /\ x.state # "active" => wRow[x.id] # "active"
      /\ x.state = "archived_verified" => Archived(x.id)
      /\ Kept => x.id # WVerifier
  BY DEF ListFits
<1>4. Kept' => Kept
  BY DEF Settled, Kept, LifeOK
<1>5. wSweep'[s].todo[i] = x
  BY <1>1
<1> HIDE DEF x
<1>6. x.state = "archived_verified" =>
        \E k \in DOMAIN wArchives' : wArchives'[k].id = x.id /\ wArchives'[k].state = "verified"
  BY <1>3 DEF Grows, Archived
<1>7. x.state # "active" => wRow'[x.id] # "active"
  BY <1>2, <1>3 DEF Leave
<1> QED
  BY <1>3, <1>4, <1>5, <1>6, <1>7

\* The step of another sweep, or of none.
LEMMA ReclaimFrame ==
  ASSUME ReclaimTypes, NEW t \in WSweeper, Sweeping(t), wSweep'[t] = wSweep[t], Grows, Leave, Settled,
         wTask' \in LifeOK,
         Writing(t) => wArchives'[wSweep[t].archive] = wArchives[wSweep[t].archive]
  PROVE  Sweeping(t)'
<1>1. wSweep[t] \in SweepOK /\ wSweep[t].archive <= Len(wArchives) /\ (wSweep[t].pc # "idle" => wSweep[t].todo # <<>>)
  BY DEF Sweeping
<1>2. Reclaim!Head1(t)' = Reclaim!Head1(t) /\ (Writing(t)' <=> Writing(t)) /\ (Removing(t)' <=> Removing(t)) /\ (Packed(t)' <=> Packed(t))
  BY DEF Reclaim!Head1, Writing, Removing, Packed
<1>3. wSweep[t].pc # "idle" => Reclaim!Head1(t).id \in Reclaim!Allocation
  BY <1>1, ReclaimHead
<1>4. wSweep'[t].archive <= Len(wArchives')
  <2> DEFINE n == Len(wArchives)
             m == Len(wArchives')
             k == wSweep[t].archive
  <2>1. k \in Nat /\ n \in Nat /\ m \in Nat /\ k <= n /\ n <= m
    BY <1>1 DEF SweepOK, ReclaimTypes, Grows
  <2> HIDE DEF n, m, k
  <2>2. k <= m
    BY <2>1
  <2> QED
    BY <2>2 DEF k, m
<1>5. ListFits(t)'
  BY <1>1, ReclaimList DEF Sweeping, ReclaimTypes
<1>6. wSweep'[t].pc \notin {"idle", "listed", "claim"} => wRow'[Reclaim!Head1(t).id] # "active"
  BY <1>3 DEF Sweeping, Leave
<1>7. Writing(t) => /\ wSweep[t].archive \in DOMAIN wArchives'
                    /\ wArchives'[wSweep[t].archive].id = Reclaim!Head1(t).id
                    /\ wArchives'[wSweep[t].archive].state = "pending"
  BY DEF Sweeping, Grows
<1>8. Removing(t) => /\ wSweep[t].archive \in DOMAIN wArchives'
                     /\ wArchives'[wSweep[t].archive].id = Reclaim!Head1(t).id
                     /\ wArchives'[wSweep[t].archive].state = "verified"
  BY DEF Sweeping, Grows
<1>9. Packed(t) /\ wTask'.state = "accepted" => wSweep[t].pack = wVersion'[Reclaim!Head1(t).id]
  BY DEF Sweeping, Settled
<1> QED
  BY <1>1, <1>2, <1>4, <1>5, <1>6, <1>7, <1>8, <1>9 DEF Sweeping

\* A step of one sweep leaves to show what it does to its own list and to the rows.
LEMMA ReclaimStep ==
  ASSUME ReclaimInv, NEW s \in WSweeper, wTask.state # "live",
         DOMAIN wSweep' = WSweeper, \A t \in WSweeper \ {s} : wSweep'[t] = wSweep[t],
         UNCHANGED <<wTask, wVersion>>, ReclaimTypes', Grows, Leave, HeldRow', Sweeping(s)',
         \A t \in WSweeper \ {s} : Writing(t) => /\ wArchives'[wSweep[t].archive] = wArchives[wSweep[t].archive]
                                                 /\ Writing(s)' => wSweep[t].archive # wSweep'[s].archive
  PROVE  ReclaimInv'
<1>1. Settled /\ wTask' \in LifeOK
  BY DEF Settled, ReclaimInv, ReclaimTypes
<1>2. ASSUME NEW t \in WSweeper \ {s} PROVE Sweeping(t)'
  BY <1>1, ReclaimFrame DEF ReclaimInv
<1>3. \A t \in WSweeper \ {s} : Writing(t)' <=> Writing(t)
  BY DEF Writing
<1>4. Fresh'
  BY DEF ReclaimInv, Fresh
<1>5. \A t, u \in WSweeper : t # u /\ Writing(t)' /\ Writing(u)' => wSweep'[t].archive # wSweep'[u].archive
  BY <1>3 DEF ReclaimInv
<1> QED
  BY <1>2, <1>4, <1>5 DEF ReclaimInv

\* A sweep that is under way.
LEMMA ReclaimUnderWay ==
  ASSUME ReclaimInv, NEW s \in WSweeper, wSweep[s].pc # "idle"
  PROVE  /\ wTask.state # "live" /\ wSweep[s] \in SweepOK /\ wSweep[s].todo # <<>> /\ Sweeping(s)
         /\ Reclaim!Head1(s) = wSweep[s].todo[1] /\ 1 \in DOMAIN wSweep[s].todo
         /\ Reclaim!Head1(s).id \in Reclaim!Allocation /\ Reclaim!Head1(s).state \in Reclaim!Reclaims
<1>1. wTask.state # "live"
  BY ReclaimIdle DEF ReclaimInv, Fresh
<1>2. Sweeping(s)
  BY DEF ReclaimInv
<1>3. wSweep[s] \in SweepOK /\ wSweep[s].todo # <<>>
  BY <1>2 DEF Sweeping
<1> QED
  BY <1>1, <1>2, <1>3, ReclaimHead

\* A sweep ends, or goes on to the next candidate.
LEMMA ReclaimEnds ==
  ASSUME ReclaimInv, NEW s \in WSweeper, wSweep[s].pc # "idle", Reclaim!Aborts(s) \/ Reclaim!Moves(s),
         Grows, Leave, UNCHANGED <<wTask, wVersion>>
  PROVE  /\ Sweeping(s)' /\ ~Writing(s)' /\ DOMAIN wSweep' = WSweeper
         /\ \A t \in WSweeper \ {s} : wSweep'[t] = wSweep[t]
<1> DEFINE rest == Tail(wSweep[s].todo)
<1>1. wSweep[s] \in SweepOK /\ wSweep[s].todo # <<>> /\ Sweeping(s) /\ DOMAIN wSweep = WSweeper
  BY ReclaimUnderWay DEF ReclaimInv, ReclaimTypes
<1>2. rest \in Seq(Listed) /\ \A i \in DOMAIN rest : \E j \in DOMAIN wSweep[s].todo : rest[i] = wSweep[s].todo[j]
  BY <1>1, ReclaimHead
<1>3. 0 <= Len(wArchives')
  BY DEF Grows
<1>4. Settled /\ wTask \in LifeOK /\ wTask' \in LifeOK
  BY DEF Settled, ReclaimInv, ReclaimTypes
<1> HIDE DEF rest
<1>5. CASE wSweep' = [wSweep EXCEPT ![s] = Reclaim!Idle]
  <2>1. wSweep'[s] = Reclaim!Idle /\ DOMAIN wSweep' = WSweeper /\ \A t \in WSweeper \ {s} : wSweep'[t] = wSweep[t]
    BY <1>1, <1>5
  <2>2. ListFits(s)'
    BY <2>1, ReclaimIdle DEF ListFits
  <2> QED
    BY <1>3, <2>1, <2>2, ReclaimIdle DEF Sweeping, Writing, Removing, Packed
<1>6. CASE rest # <<>> /\ wSweep' = [wSweep EXCEPT ![s] = [Reclaim!Idle EXCEPT !.pc = "listed", !.todo = rest]]
  <2> DEFINE r == [Reclaim!Idle EXCEPT !.pc = "listed", !.todo = rest]
  <2>1. r \in SweepOK /\ r.pc = "listed" /\ r.todo = rest /\ r.archive = 0
    BY <1>2, ReclaimIdle DEF SweepOK, Phase
  <2> HIDE DEF r
  <2>2. wSweep'[s] = r /\ DOMAIN wSweep' = WSweeper /\ \A t \in WSweeper \ {s} : wSweep'[t] = wSweep[t]
    BY <1>1, <1>6 DEF r
  <2>3. ListFits(s)'
    BY <1>1, <1>2, <1>4, <2>1, <2>2, ReclaimList DEF Sweeping
  <2> QED
    BY <1>3, <1>6, <2>1, <2>2, <2>3 DEF Sweeping, Writing, Removing, Packed
<1> QED
  BY <1>5, <1>6 DEF Reclaim!Aborts, Reclaim!Moves, rest

LEMMA ReclaimGoes ==
  ASSUME ReclaimInv, NEW s \in WSweeper, NEW p \in Phase, Reclaim!Goes(s, p)
  PROVE  /\ wSweep'[s] \in SweepOK /\ wSweep'[s].pc = p /\ wSweep'[s].todo = wSweep[s].todo
         /\ wSweep'[s].archive = wSweep[s].archive /\ wSweep'[s].pack = wSweep[s].pack /\ wSweep'[s].remote = wSweep[s].remote
         /\ DOMAIN wSweep' = WSweeper /\ \A t \in WSweeper \ {s} : wSweep'[t] = wSweep[t]
<1>1. DOMAIN wSweep = WSweeper /\ wSweep[s] \in SweepOK
  BY DEF ReclaimInv, ReclaimTypes, Sweeping
<1>2. wSweep'[s] = [wSweep[s] EXCEPT !.pc = p] /\ DOMAIN wSweep' = WSweeper /\ \A t \in WSweeper \ {s} : wSweep'[t] = wSweep[t]
  BY <1>1 DEF Reclaim!Goes
<1> QED
  BY <1>1, <1>2 DEF SweepOK

\* The list and the archive of a sweep that stays on its candidate.
LEMMA ReclaimStays ==
  ASSUME ReclaimInv, NEW s \in WSweeper, wSweep[s].pc # "idle", wSweep'[s] \in SweepOK,
         wSweep'[s].todo = wSweep[s].todo, Grows, Leave, UNCHANGED <<wTask, wVersion>>
  PROVE  /\ wSweep'[s].todo # <<>> /\ ListFits(s)' /\ Reclaim!Head1(s)' = Reclaim!Head1(s)
         /\ wSweep'[s].archive = wSweep[s].archive => wSweep'[s].archive <= Len(wArchives')
<1>1. wSweep[s] \in SweepOK /\ wSweep[s].todo # <<>> /\ Sweeping(s)
  BY ReclaimUnderWay
<1>2. Settled /\ wTask \in LifeOK /\ wTask' \in LifeOK
  BY DEF Settled, ReclaimInv, ReclaimTypes
<1>3. ListFits(s)'
  BY <1>1, <1>2, ReclaimList DEF Sweeping
<1>4. wSweep[s].archive <= Len(wArchives')
  <2> DEFINE n == Len(wArchives)
             m == Len(wArchives')
             k == wSweep[s].archive
  <2>1. k \in Nat /\ n \in Nat /\ m \in Nat /\ k <= n /\ n <= m
    BY <1>1 DEF Sweeping, SweepOK, ReclaimInv, ReclaimTypes, Grows
  <2> HIDE DEF n, m, k
  <2>2. k <= m
    BY <2>1
  <2> QED
    BY <2>2 DEF k, m
<1> QED
  BY <1>1, <1>3, <1>4 DEF Reclaim!Head1

LEMMA ReclaimListing ==
  ASSUME ReclaimInv, NEW s \in WSweeper, Reclaim!List(s)
  PROVE  ReclaimInv'
<1>1. PICK f \in Reclaim!FirstReclaimable(WMaxItems[s]) :
         wSweep' = [wSweep EXCEPT ![s].pc = "listed",
                                  ![s].todo = [i \in DOMAIN f |-> [id |-> WOrder[f[i]], state |-> wRow[WOrder[f[i]]]]]]
  BY DEF Reclaim!List
<1>2. UNCHANGED <<wTask, wRow, wHeld, wPlace, wVersion, wArchives>>
  BY DEF Reclaim!List, Reclaim!files
<1>3. PICK n \in Nat \ {0} : f \in [1 .. n -> DOMAIN WOrder]
  BY ReclaimOrder DEF Reclaim!FirstReclaimable
<1>4. \A i \in 1 .. n : Reclaim!Reclaimable(WOrder[f[i]]) /\ WOrder[f[i]] \in Reclaim!Allocation
  BY <1>3, ReclaimOrder DEF Reclaim!FirstReclaimable
<1>5. wTask.state # "live"
  <2>1. 1 \in 1 .. n
    BY <1>3
  <2> QED
    BY <1>4, <2>1 DEF Reclaim!Reclaimable, Reclaim!Finished
<1> DEFINE q == [i \in DOMAIN f |-> [id |-> WOrder[f[i]], state |-> wRow[WOrder[f[i]]]]]
<1>6. \A i \in 1 .. n : q[i] \in Listed /\ q[i].id = WOrder[f[i]] /\ q[i].state = wRow[WOrder[f[i]]]
  BY <1>3, <1>4 DEF Listed, Reclaim!Reclaimable
<1>7. DOMAIN q = 1 .. n
  BY <1>3
<1>8. q \in Seq(Listed)
  <2>1. q = [i \in 1 .. n |-> q[i]]
    BY <1>3
  <2> HIDE DEF q
  <2>2. q \in [1 .. n -> Listed]
    BY <1>6, <1>7, <2>1
  <2> QED
    BY <1>3, <2>2
<1> HIDE DEF q
<1>9. DOMAIN wSweep = WSweeper /\ wSweep[s] \in SweepOK /\ Sweeping(s)
  BY DEF ReclaimInv, ReclaimTypes, Sweeping
<1>10. wSweep'[s] = [wSweep[s] EXCEPT !.pc = "listed", !.todo = q] /\ DOMAIN wSweep' = WSweeper
       /\ \A t \in WSweeper \ {s} : wSweep'[t] = wSweep[t]
  BY <1>1, <1>9 DEF q
<1>11. wSweep'[s] \in SweepOK /\ wSweep'[s].pc = "listed" /\ wSweep'[s].todo = q /\ wSweep'[s].archive = wSweep[s].archive
  BY <1>8, <1>9, <1>10 DEF SweepOK, Phase
<1>12. q # <<>>
  BY <1>3, <1>7
<1>13. ListFits(s)'
  <2>1. ASSUME NEW i \in 1 .. n
        PROVE  /\ q[i].state # "active" => wRow[q[i].id] # "active"
               /\ q[i].state = "archived_verified" => Archived(q[i].id)
               /\ Kept => q[i].id # WVerifier
    BY <1>4, <1>6 DEF ReclaimInv, HeldRow, Kept, Reclaim!Reclaimable, Reclaim!PurgeAllowed
  <2> QED
    BY <1>2, <1>7, <1>11, <2>1 DEF ListFits, Archived, Kept
<1>14. Sweeping(s)'
  BY <1>2, <1>9, <1>11, <1>12, <1>13 DEF Sweeping, Writing, Removing, Packed
<1>15. Grows /\ Leave /\ ReclaimTypes' /\ HeldRow' /\ ~Writing(s)'
  BY <1>2, <1>10, <1>11, ReclaimSame DEF ReclaimInv, ReclaimTypes, Leave, HeldRow, Archived, Kept, Writing
<1> QED
  BY <1>2, <1>5, <1>10, <1>14, <1>15, ReclaimStep

\* A sweep that ends, or goes on, and changes nothing else.
LEMMA ReclaimDrops ==
  ASSUME ReclaimInv, NEW s \in WSweeper, wSweep[s].pc # "idle", Reclaim!Aborts(s) \/ Reclaim!Moves(s),
         UNCHANGED <<wTask, wRow, wHeld, wPlace, wVersion, wArchives>>
  PROVE  ReclaimInv'
<1>1. Grows /\ Leave
  BY ReclaimSame DEF ReclaimInv, ReclaimTypes, Leave
<1>2. Sweeping(s)' /\ ~Writing(s)' /\ DOMAIN wSweep' = WSweeper /\ \A t \in WSweeper \ {s} : wSweep'[t] = wSweep[t]
  BY <1>1, ReclaimEnds
<1>3. ReclaimTypes' /\ HeldRow'
  BY <1>2 DEF ReclaimInv, ReclaimTypes, HeldRow, Archived, Kept
<1> QED
  BY <1>1, <1>2, <1>3, ReclaimUnderWay, ReclaimStep

\* A sweep that changes its phase, and nothing else.
LEMMA ReclaimPhase ==
  ASSUME ReclaimInv, NEW s \in WSweeper, wSweep[s].pc # "idle",
         DOMAIN wSweep' = WSweeper, \A t \in WSweeper \ {s} : wSweep'[t] = wSweep[t],
         wSweep'[s] \in SweepOK, wSweep'[s].todo = wSweep[s].todo, wSweep'[s].archive <= Len(wArchives),
         UNCHANGED <<wTask, wRow, wHeld, wPlace, wVersion, wArchives>>,
         wSweep'[s].pc \notin {"idle", "listed", "claim"} => wRow[Reclaim!Head1(s).id] # "active",
         Writing(s)' => Writing(s) /\ wSweep'[s].archive = wSweep[s].archive,
         Removing(s)' => /\ wSweep'[s].archive \in DOMAIN wArchives
                         /\ wArchives[wSweep'[s].archive].id = Reclaim!Head1(s).id
                         /\ wArchives[wSweep'[s].archive].state = "verified",
         Packed(s)' /\ wTask.state = "accepted" => wSweep'[s].pack = wVersion[Reclaim!Head1(s).id]
  PROVE  ReclaimInv'
<1>1. Grows /\ Leave
  BY ReclaimSame DEF ReclaimInv, ReclaimTypes, Leave
<1>2. wSweep'[s].todo # <<>> /\ ListFits(s)' /\ Reclaim!Head1(s)' = Reclaim!Head1(s)
  BY <1>1, ReclaimStays
<1>3. Sweeping(s) /\ wTask.state # "live"
  BY ReclaimUnderWay
<1>4. Writing(s)' => /\ wSweep'[s].archive \in DOMAIN wArchives
                     /\ wArchives[wSweep'[s].archive].id = Reclaim!Head1(s).id
                     /\ wArchives[wSweep'[s].archive].state = "pending"
  BY <1>3 DEF Sweeping
<1>5. Sweeping(s)'
  BY <1>2, <1>4 DEF Sweeping
<1>6. ReclaimTypes' /\ HeldRow'
  BY DEF ReclaimInv, ReclaimTypes, HeldRow, Archived, Kept
<1>7. \A t \in WSweeper \ {s} : Writing(t) /\ Writing(s)' => wSweep[t].archive # wSweep'[s].archive
  BY DEF ReclaimInv
<1> QED
  BY <1>1, <1>3, <1>5, <1>6, <1>7, ReclaimStep

\* Taking a candidate up: an archived one has a verified archive.
LEMMA ReclaimTake ==
  ASSUME ReclaimInv, NEW s \in WSweeper, Reclaim!Take(s)
  PROVE  ReclaimInv'
<1> DEFINE a == Reclaim!Head1(s).id
           listed == Reclaim!Head1(s).state
           st == IF listed \in {"active", "quarantine_pending"} THEN wRow[a] ELSE listed
<1>1. UNCHANGED <<wTask, wRow, wHeld, wPlace, wVersion, wArchives>> /\ wSweep[s].pc = "listed"
  BY DEF Reclaim!Take, Reclaim!files, Reclaim!At
<1>2. /\ wSweep[s] \in SweepOK /\ Sweeping(s) /\ Reclaim!Head1(s) = wSweep[s].todo[1] /\ 1 \in DOMAIN wSweep[s].todo
      /\ a \in Reclaim!Allocation
  BY <1>1, ReclaimUnderWay
<1>3. /\ listed # "active" => wRow[a] # "active"
      /\ listed = "archived_verified" => Archived(a)
  BY <1>2 DEF Sweeping, ListFits
<1>4. wSweep[s].archive <= Len(wArchives) /\ DOMAIN wSweep = WSweeper
  BY <1>2 DEF Sweeping, ReclaimInv, ReclaimTypes
<1>5. CASE Reclaim!Goes(s, "claim")
  <2>1. /\ wSweep'[s] \in SweepOK /\ wSweep'[s].pc = "claim" /\ wSweep'[s].todo = wSweep[s].todo
        /\ wSweep'[s].archive = wSweep[s].archive
        /\ DOMAIN wSweep' = WSweeper /\ \A t \in WSweeper \ {s} : wSweep'[t] = wSweep[t]
    BY <1>5, ReclaimGoes DEF Phase
  <2>2. ~Writing(s)' /\ ~Removing(s)' /\ ~Packed(s)'
    BY <2>1 DEF Writing, Removing, Packed
  <2> HIDE DEF a, listed, st
  <2> QED
    BY <1>1, <1>4, <2>1, <2>2, ReclaimPhase
<1>6. CASE st \in {"quarantined", "archive_failed"} /\ Reclaim!Goes(s, "quarantined")
  <2>1. /\ wSweep'[s] \in SweepOK /\ wSweep'[s].pc = "quarantined" /\ wSweep'[s].todo = wSweep[s].todo
        /\ wSweep'[s].archive = wSweep[s].archive
        /\ DOMAIN wSweep' = WSweeper /\ \A t \in WSweeper \ {s} : wSweep'[t] = wSweep[t]
    BY <1>6, ReclaimGoes DEF Phase
  <2>2. ~Writing(s)' /\ ~Removing(s)' /\ ~Packed(s)'
    BY <2>1 DEF Writing, Removing, Packed
  <2>3. wRow[Reclaim!Head1(s).id] # "active"
    BY <1>3, <1>6
  <2> HIDE DEF a, listed, st
  <2> QED
    BY <1>1, <1>4, <2>1, <2>2, <2>3, ReclaimPhase
<1> DEFINE Fits(i) == wArchives[i].id = a /\ wArchives[i].state = "verified"
           Last(i) == Fits(i) /\ \A j \in DOMAIN wArchives : Fits(j) => j <= i
<1>7. CASE /\ listed = "archived_verified"
           /\ wSweep' = [wSweep EXCEPT ![s].pc = "purge", ![s].allowed = TRUE, ![s].state = "listed",
                                       ![s].archive = CHOOSE i \in DOMAIN wArchives : Last(i)]
  <2>1. DOMAIN wArchives = 1 .. Len(wArchives) /\ Len(wArchives) \in Nat
    BY DEF ReclaimInv, ReclaimTypes
  <2>2. \E i \in DOMAIN wArchives : Last(i)
    <3> DEFINE S == {i \in DOMAIN wArchives : Fits(i)}
    <3>1. S \subseteq 1 .. Len(wArchives) /\ S # {}
      BY <1>3, <1>7, <2>1 DEF Archived
    <3> HIDE DEF S
    <3>2. \E i \in S : \A j \in S : j <= i
      BY <2>1, <3>1, ReclaimGreatest
    <3> QED
      BY <3>2 DEF S
  <2> DEFINE k == CHOOSE i \in DOMAIN wArchives : Last(i)
  <2>3. k \in DOMAIN wArchives /\ Last(k)
    BY <2>2
  <2>4. wSweep' = [wSweep EXCEPT ![s].pc = "purge", ![s].allowed = TRUE, ![s].state = "listed", ![s].archive = k]
    BY <1>7
  <2>5. wArchives[k].id = Reclaim!Head1(s).id /\ wArchives[k].state = "verified"
    BY <2>3
  <2> HIDE DEF k, Last, Fits, a, listed, st
  <2>6. k \in Nat /\ k <= Len(wArchives)
    BY <2>1, <2>3
  <2>7. /\ wSweep'[s] = [wSweep[s] EXCEPT !.pc = "purge", !.allowed = TRUE, !.state = "listed", !.archive = k]
        /\ DOMAIN wSweep' = WSweeper /\ \A t \in WSweeper \ {s} : wSweep'[t] = wSweep[t]
    BY <1>4, <2>4
  <2>8. wSweep'[s] \in SweepOK /\ wSweep'[s].pc = "purge" /\ wSweep'[s].todo = wSweep[s].todo /\ wSweep'[s].archive = k
    BY <1>2, <2>6, <2>7 DEF SweepOK, Phase
  <2>9. ~Writing(s)' /\ ~Packed(s)'
    BY <2>8 DEF Writing, Packed
  <2>10. wRow[Reclaim!Head1(s).id] # "active"
    BY <1>3, <1>7 DEF a, listed
  <2> QED
    BY <1>1, <2>3, <2>5, <2>6, <2>7, <2>8, <2>9, <2>10, ReclaimPhase
<1>8. CASE Reclaim!Moves(s)
  BY <1>1, <1>8, ReclaimDrops
<1> QED
  BY <1>5, <1>6, <1>7, <1>8 DEF Reclaim!Take

LEMMA ReclaimChoose ==
  ASSUME ReclaimInv, NEW s \in WSweeper, Reclaim!Choose(s)
  PROVE  ReclaimInv'
<1>1. UNCHANGED <<wTask, wRow, wHeld, wPlace, wVersion, wArchives>> /\ wSweep[s].pc = "quarantined"
  BY DEF Reclaim!Choose, Reclaim!files, Reclaim!At
<1>2. wSweep[s] \in SweepOK /\ Sweeping(s) /\ wSweep[s].archive <= Len(wArchives) /\ DOMAIN wSweep = WSweeper
      /\ wRow[Reclaim!Head1(s).id] # "active"
  BY <1>1, ReclaimUnderWay DEF Sweeping, ReclaimInv, ReclaimTypes
<1>3. ASSUME NEW p \in {"begin", "pack"}, NEW r \in BOOLEAN, NEW ok \in BOOLEAN, p = "pack" <=> r,
             wSweep' = [wSweep EXCEPT ![s].pc = p, ![s].allowed = ok, ![s].remote = r]
      PROVE  ReclaimInv'
  <2>1. /\ wSweep'[s] = [wSweep[s] EXCEPT !.pc = p, !.allowed = ok, !.remote = r]
        /\ DOMAIN wSweep' = WSweeper /\ \A t \in WSweeper \ {s} : wSweep'[t] = wSweep[t]
    BY <1>2, <1>3
  <2>2. /\ wSweep'[s] \in SweepOK /\ wSweep'[s].pc = p /\ wSweep'[s].remote = r /\ wSweep'[s].todo = wSweep[s].todo
        /\ wSweep'[s].archive = wSweep[s].archive
    BY <1>2, <2>1 DEF SweepOK, Phase
  <2>3. ~Writing(s)' /\ ~Removing(s)' /\ ~Packed(s)'
    BY <1>3, <2>2 DEF Writing, Removing, Packed
  <2> QED
    BY <1>1, <1>2, <2>1, <2>2, <2>3, ReclaimPhase
<1>4. Reclaim!PurgeAllowed(Reclaim!Head1(s).id) \in BOOLEAN
  BY DEF Reclaim!PurgeAllowed
<1>5. CASE wSweep' = [wSweep EXCEPT ![s].pc = "begin", ![s].allowed = Reclaim!PurgeAllowed(Reclaim!Head1(s).id), ![s].remote = FALSE]
  BY <1>3, <1>4, <1>5
<1>6. CASE wSweep' = [wSweep EXCEPT ![s].pc = "pack", ![s].allowed = Reclaim!PurgeAllowed(Reclaim!Head1(s).id), ![s].remote = TRUE]
  BY <1>3, <1>4, <1>6
<1>7. CASE Reclaim!Aborts(s) \/ Reclaim!Moves(s)
  BY <1>1, <1>7, ReclaimDrops
<1> QED
  BY <1>5, <1>6, <1>7 DEF Reclaim!Choose

LEMMA ReclaimPack ==
  ASSUME ReclaimInv, NEW s \in WSweeper, Reclaim!Pack(s)
  PROVE  ReclaimInv'
<1>1. UNCHANGED <<wTask, wRow, wHeld, wPlace, wVersion, wArchives>> /\ wSweep[s].pc = "pack"
  BY DEF Reclaim!Pack, Reclaim!files, Reclaim!At
<1>2. wSweep[s] \in SweepOK /\ Sweeping(s) /\ wSweep[s].archive <= Len(wArchives) /\ DOMAIN wSweep = WSweeper
      /\ wRow[Reclaim!Head1(s).id] # "active" /\ Reclaim!Head1(s).id \in Reclaim!Allocation
  BY <1>1, ReclaimUnderWay DEF Sweeping, ReclaimInv, ReclaimTypes
<1>3. CASE wSweep' = [wSweep EXCEPT ![s].pack = wVersion[Reclaim!Head1(s).id], ![s].pc = IF wSweep[s].remote THEN "begin" ELSE "finish"]
  <2> DEFINE v == wVersion[Reclaim!Head1(s).id]
             p == IF wSweep[s].remote THEN "begin" ELSE "finish"
  <2>1. v \in 0 .. WMaxVersion /\ p \in Phase /\ p \in {"begin", "finish"}
    BY <1>2 DEF ReclaimInv, ReclaimTypes, Phase
  <2>2. p = "finish" => ~wSweep[s].remote
    OBVIOUS
  <2>3. wSweep' = [wSweep EXCEPT ![s].pack = v, ![s].pc = p]
    BY <1>3
  <2>20. v = wVersion[Reclaim!Head1(s).id]
    OBVIOUS
  <2> HIDE DEF v, p
  <2>4. /\ wSweep'[s] = [wSweep[s] EXCEPT !.pack = v, !.pc = p]
        /\ DOMAIN wSweep' = WSweeper /\ \A t \in WSweeper \ {s} : wSweep'[t] = wSweep[t]
    BY <1>2, <2>3
  <2>5. /\ wSweep'[s] \in SweepOK /\ wSweep'[s].pc = p /\ wSweep'[s].remote = wSweep[s].remote /\ wSweep'[s].todo = wSweep[s].todo
        /\ wSweep'[s].archive = wSweep[s].archive /\ wSweep'[s].pack = v
    BY <1>2, <2>1, <2>4 DEF SweepOK
  <2>6. ~Removing(s)' /\ (Writing(s)' => Writing(s))
    BY <1>1, <2>1, <2>2, <2>5 DEF Writing, Removing
  <2> QED
    BY <1>1, <1>2, <2>4, <2>5, <2>6, <2>20, ReclaimPhase
<1>4. CASE Reclaim!Aborts(s)
  BY <1>1, <1>4, ReclaimDrops
<1>5. CASE ~wSweep[s].remote /\ Reclaim!Goes(s, "fail")
  <2>1. /\ wSweep'[s] \in SweepOK /\ wSweep'[s].pc = "fail" /\ wSweep'[s].todo = wSweep[s].todo
        /\ wSweep'[s].archive = wSweep[s].archive
        /\ DOMAIN wSweep' = WSweeper /\ \A t \in WSweeper \ {s} : wSweep'[t] = wSweep[t]
    BY <1>5, ReclaimGoes DEF Phase
  <2>2. Writing(s) /\ ~Removing(s)' /\ ~Packed(s)'
    BY <1>1, <1>5, <2>1 DEF Writing, Removing, Packed
  <2> QED
    BY <1>1, <1>2, <2>1, <2>2, ReclaimPhase
<1> QED
  BY <1>3, <1>4, <1>5 DEF Reclaim!Pack

LEMMA ReclaimSend ==
  ASSUME ReclaimInv, NEW s \in WSweeper, Reclaim!Send(s)
  PROVE  ReclaimInv'
<1>1. UNCHANGED <<wTask, wRow, wHeld, wPlace, wVersion, wArchives>> /\ wSweep[s].pc = "send"
  BY DEF Reclaim!Send, Reclaim!files, Reclaim!At
<1>2. wSweep[s] \in SweepOK /\ Sweeping(s) /\ wSweep[s].archive <= Len(wArchives)
      /\ wRow[Reclaim!Head1(s).id] # "active"
  BY <1>1, ReclaimUnderWay DEF Sweeping
<1>3. PICK p \in {"finish", "fail"} : Reclaim!Goes(s, p)
  BY DEF Reclaim!Send
<1>4. /\ wSweep'[s] \in SweepOK /\ wSweep'[s].pc = p /\ wSweep'[s].todo = wSweep[s].todo
      /\ wSweep'[s].archive = wSweep[s].archive /\ wSweep'[s].pack = wSweep[s].pack
      /\ DOMAIN wSweep' = WSweeper /\ \A t \in WSweeper \ {s} : wSweep'[t] = wSweep[t]
  BY <1>3, ReclaimGoes DEF Phase
<1>5. Writing(s) /\ Packed(s) /\ ~Removing(s)'
  BY <1>1, <1>4 DEF Writing, Removing, Packed
<1>6. wTask.state = "accepted" => wSweep[s].pack = wVersion[Reclaim!Head1(s).id]
  BY <1>2, <1>5 DEF Sweeping
<1> QED
  BY <1>1, <1>2, <1>4, <1>5, <1>6, ReclaimPhase

\* A sweep whose candidate may be taken is not one that a delivery keeps.
LEMMA ReclaimNotKept ==
  ASSUME ReclaimInv, NEW s \in WSweeper, wSweep[s].pc # "idle"
  PROVE  Kept => Reclaim!Head1(s).id # WVerifier
  BY ReclaimUnderWay DEF Sweeping, ListFits

\* The row of the candidate changes; the archives and the files do not.
LEMMA ReclaimRow ==
  ASSUME ReclaimInv, NEW s \in WSweeper, wSweep[s].pc # "idle", NEW x \in RowState \ {"active"},
         wRow' = [wRow EXCEPT ![Reclaim!Head1(s).id] = x], x = "archived_verified" => Archived(Reclaim!Head1(s).id),
         wTask.wanted => Reclaim!Head1(s).id # WVerifier,
         DOMAIN wSweep' = WSweeper, UNCHANGED <<wTask, wHeld, wPlace, wVersion, wArchives>>
  PROVE  Grows /\ Leave /\ ReclaimTypes' /\ HeldRow' /\ wRow'[Reclaim!Head1(s).id] = x
<1> DEFINE a == Reclaim!Head1(s).id
<1>1. a \in Reclaim!Allocation /\ (Kept => a # WVerifier)
  BY ReclaimUnderWay, ReclaimNotKept
<1>2. wRow \in [Reclaim!Allocation -> RowState] /\ wRow' = [wRow EXCEPT ![a] = x]
  BY DEF ReclaimInv, ReclaimTypes
<1> HIDE DEF a
<1>3. wRow' \in [Reclaim!Allocation -> RowState] /\ wRow'[a] = x /\ \A b \in Reclaim!Allocation \ {a} : wRow'[b] = wRow[b]
  BY <1>1, <1>2
<1>4. Grows /\ Leave
  BY <1>3, ReclaimSame DEF ReclaimInv, ReclaimTypes, Leave
<1>5. ReclaimTypes'
  BY <1>3 DEF ReclaimInv, ReclaimTypes
<1>6. \A b : Archived(b)' <=> Archived(b)
  BY DEF Archived
<1>7. wTask.wanted => a # WVerifier
  BY DEF a
<1>8. x = "archived_verified" => Archived(a)
  BY DEF a
<1>9. WVerifier \in Reclaim!Allocation
  BY ReclaimOrder
<1>10. HeldRow'
  <2>1. \A b \in Reclaim!Allocation : wPlace'[b] # "work" => wRow'[b] # "active"
    BY <1>3 DEF ReclaimInv, HeldRow
  <2>2. \A b \in Reclaim!Allocation : wRow'[b] = "archived_verified" \/ wPlace'[b] = "gone" => Archived(b)
    BY <1>3, <1>8 DEF ReclaimInv, HeldRow
  <2>3. (wTask.wanted \/ Kept => wRow[WVerifier] = "active")'
    BY <1>1, <1>3, <1>7, <1>9 DEF ReclaimInv, HeldRow, Kept
  <2> QED
    BY <1>6, <2>1, <2>2, <2>3 DEF ReclaimInv, HeldRow
<1> QED
  BY <1>3, <1>4, <1>5, <1>10 DEF a

LEMMA ReclaimBeginQuarantine ==
  ASSUME ReclaimInv, NEW s \in WSweeper, Reclaim!BeginQuarantine(s)
  PROVE  ReclaimInv'
<1>1. UNCHANGED <<wTask, wHeld, wPlace, wVersion, wArchives>> /\ wSweep[s].pc = "claim"
  BY DEF Reclaim!BeginQuarantine, Reclaim!files, Reclaim!At
<1>2. Sweeping(s) /\ wSweep[s].archive <= Len(wArchives) /\ Reclaim!Head1(s).id \in Reclaim!Allocation /\ wTask.state # "live"
      /\ wRow \in [Reclaim!Allocation -> RowState]
  BY <1>1, ReclaimUnderWay DEF Sweeping, ReclaimInv, ReclaimTypes
<1>3. CASE Reclaim!Aborts(s) /\ UNCHANGED wRow
  BY <1>1, <1>3, ReclaimDrops
<1>4. CASE /\ ~Reclaim!Retained(Reclaim!Head1(s).id) /\ Reclaim!Goes(s, "move")
           /\ wRow' = [wRow EXCEPT ![Reclaim!Head1(s).id] = IF @ \in {"active", "quarantine_pending"} THEN "quarantine_pending" ELSE @]
  <2> DEFINE x == IF wRow[Reclaim!Head1(s).id] \in {"active", "quarantine_pending"} THEN "quarantine_pending" ELSE wRow[Reclaim!Head1(s).id]
  <2>1. wRow' = [wRow EXCEPT ![Reclaim!Head1(s).id] = x]
    BY <1>2, <1>4
  <2>2. x \in RowState \ {"active"}
    BY <1>2 DEF RowState, Reclaim!Reclaims
  <2>3. x = "archived_verified" => Archived(Reclaim!Head1(s).id)
    BY <1>2 DEF ReclaimInv, HeldRow
  <2> HIDE DEF x
  <2>4. /\ wSweep'[s] \in SweepOK /\ wSweep'[s].pc = "move" /\ wSweep'[s].todo = wSweep[s].todo
        /\ wSweep'[s].archive = wSweep[s].archive
        /\ DOMAIN wSweep' = WSweeper /\ \A t \in WSweeper \ {s} : wSweep'[t] = wSweep[t]
    BY <1>4, ReclaimGoes DEF Phase
  <2>5. Grows /\ Leave /\ ReclaimTypes' /\ HeldRow' /\ wRow'[Reclaim!Head1(s).id] = x
    BY <1>1, <1>4, <2>1, <2>2, <2>3, <2>4, ReclaimRow DEF Reclaim!Retained
  <2>6. wSweep'[s].todo # <<>> /\ ListFits(s)' /\ Reclaim!Head1(s)' = Reclaim!Head1(s) /\ wSweep'[s].archive <= Len(wArchives')
    BY <1>1, <2>4, <2>5, ReclaimStays
  <2>7. ~Writing(s)' /\ ~Removing(s)' /\ ~Packed(s)'
    BY <2>4 DEF Writing, Removing, Packed
  <2>8. Sweeping(s)'
    BY <2>2, <2>4, <2>5, <2>6, <2>7 DEF Sweeping
  <2> QED
    BY <1>1, <1>2, <2>4, <2>5, <2>7, <2>8, ReclaimStep
<1> QED
  BY <1>3, <1>4 DEF Reclaim!BeginQuarantine

LEMMA ReclaimMove ==
  ASSUME ReclaimInv, NEW s \in WSweeper, Reclaim!Move(s)
  PROVE  ReclaimInv'
<1> DEFINE a == Reclaim!Head1(s).id
<1>1. UNCHANGED <<wTask, wRow, wHeld, wVersion, wArchives>> /\ wSweep[s].pc = "move"
  BY DEF Reclaim!Move, Reclaim!At
<1>2. Sweeping(s) /\ a \in Reclaim!Allocation /\ wTask.state # "live" /\ wRow[a] # "active"
  BY <1>1, ReclaimUnderWay DEF Sweeping
<1>3. CASE Reclaim!Aborts(s) /\ UNCHANGED wPlace
  BY <1>1, <1>3, ReclaimDrops
<1>4. CASE wPlace[a] # "gone" /\ wPlace' = [wPlace EXCEPT ![a] = "recycle"] /\ Reclaim!Goes(s, "moved")
  <2>1. /\ wSweep'[s] \in SweepOK /\ wSweep'[s].pc = "moved" /\ wSweep'[s].todo = wSweep[s].todo
        /\ wSweep'[s].archive = wSweep[s].archive
        /\ DOMAIN wSweep' = WSweeper /\ \A t \in WSweeper \ {s} : wSweep'[t] = wSweep[t]
    BY <1>4, ReclaimGoes DEF Phase
  <2>2. Grows /\ Leave
    BY <1>1, ReclaimSame DEF ReclaimInv, ReclaimTypes, Leave
  <2>3. wSweep'[s].todo # <<>> /\ ListFits(s)' /\ Reclaim!Head1(s)' = Reclaim!Head1(s) /\ wSweep'[s].archive <= Len(wArchives')
    BY <1>1, <2>1, <2>2, ReclaimStays
  <2>4. ~Writing(s)' /\ ~Removing(s)' /\ ~Packed(s)'
    BY <2>1 DEF Writing, Removing, Packed
  <2>5. Sweeping(s)'
    BY <1>1, <1>2, <2>1, <2>3, <2>4 DEF Sweeping
  <2>6. wPlace \in [Reclaim!Allocation -> {"work", "recycle", "gone"}]
    BY DEF ReclaimInv, ReclaimTypes
  <2> HIDE DEF a
  <2>7. /\ wPlace' \in [Reclaim!Allocation -> {"work", "recycle", "gone"}] /\ wPlace'[a] = "recycle"
        /\ \A b \in Reclaim!Allocation \ {a} : wPlace'[b] = wPlace[b]
    BY <1>2, <1>4, <2>6
  <2>8. ReclaimTypes'
    BY <1>1, <2>1, <2>7 DEF ReclaimInv, ReclaimTypes
  <2>9. \A b \in Reclaim!Allocation : /\ wPlace'[b] # "work" => wRow[b] # "active"
                                      /\ wRow[b] = "archived_verified" \/ wPlace'[b] = "gone" => Archived(b)
    BY <1>2, <2>7 DEF ReclaimInv, HeldRow
  <2>10. HeldRow'
    BY <1>1, <2>9 DEF ReclaimInv, HeldRow, Archived, Kept
  <2> QED
    BY <1>1, <1>2, <2>1, <2>2, <2>4, <2>5, <2>8, <2>10, ReclaimStep
<1> QED
  BY <1>3, <1>4 DEF Reclaim!Move

\* A candidate past its claim is not the verifier's while a delivery is wanted.
LEMMA ReclaimNotWanted ==
  ASSUME ReclaimInv, NEW s \in WSweeper, wSweep[s].pc \notin {"idle", "listed", "claim"}
  PROVE  wTask.wanted => Reclaim!Head1(s).id # WVerifier
  BY DEF ReclaimInv, HeldRow, Sweeping

LEMMA ReclaimFinishQuarantine ==
  ASSUME ReclaimInv, NEW s \in WSweeper, Reclaim!FinishQuarantine(s)
  PROVE  ReclaimInv'
<1>1. /\ UNCHANGED <<wTask, wHeld, wPlace, wVersion, wArchives>> /\ wSweep[s].pc = "moved"
      /\ wRow' = [wRow EXCEPT ![Reclaim!Head1(s).id] = "quarantined"] /\ Reclaim!Goes(s, "quarantined")
  BY DEF Reclaim!FinishQuarantine, Reclaim!files, Reclaim!At
<1>2. Sweeping(s) /\ wTask.state # "live"
  BY <1>1, ReclaimUnderWay
<1>3. /\ wSweep'[s] \in SweepOK /\ wSweep'[s].pc = "quarantined" /\ wSweep'[s].todo = wSweep[s].todo
      /\ wSweep'[s].archive = wSweep[s].archive
      /\ DOMAIN wSweep' = WSweeper /\ \A t \in WSweeper \ {s} : wSweep'[t] = wSweep[t]
  BY <1>1, ReclaimGoes DEF Phase
<1>4. Grows /\ Leave /\ ReclaimTypes' /\ HeldRow' /\ wRow'[Reclaim!Head1(s).id] = "quarantined"
  BY <1>1, <1>3, ReclaimRow, ReclaimNotWanted DEF RowState, Reclaim!Reclaims
<1>5. wSweep'[s].todo # <<>> /\ ListFits(s)' /\ Reclaim!Head1(s)' = Reclaim!Head1(s) /\ wSweep'[s].archive <= Len(wArchives')
  BY <1>1, <1>3, <1>4, ReclaimStays
<1>6. ~Writing(s)' /\ ~Removing(s)' /\ ~Packed(s)'
  BY <1>3 DEF Writing, Removing, Packed
<1>7. Sweeping(s)'
  BY <1>3, <1>4, <1>5, <1>6 DEF Sweeping
<1> QED
  BY <1>1, <1>2, <1>3, <1>4, <1>6, <1>7, ReclaimStep

LEMMA ReclaimBeginArchive ==
  ASSUME ReclaimInv, NEW s \in WSweeper, Reclaim!BeginArchive(s)
  PROVE  ReclaimInv'
<1> DEFINE a == Reclaim!Head1(s).id
           n == Len(wArchives)
           p == IF wSweep[s].remote THEN "send" ELSE "pack"
           new == Reclaim!NewArchive(a)
<1>1. /\ UNCHANGED <<wTask, wRow, wHeld, wPlace, wVersion>> /\ wSweep[s].pc = "begin" /\ wArchives' = Append(wArchives, new)
      /\ wSweep' = [wSweep EXCEPT ![s].archive = n + 1, ![s].pc = p]
  BY DEF Reclaim!BeginArchive, Reclaim!files, Reclaim!At
<1>2. Sweeping(s) /\ a \in Reclaim!Allocation /\ wTask.state # "live" /\ wRow[a] # "active" /\ wSweep[s] \in SweepOK /\ DOMAIN wSweep = WSweeper
  BY <1>1, ReclaimUnderWay DEF Sweeping, ReclaimInv, ReclaimTypes
<1>3. new \in ArchiveOK /\ new.id = a /\ new.state = "pending"
  <2>1. 0 \in 0 .. WMaxVersion
    BY ReclaimOrder
  <2> QED
    BY <1>2, <2>1 DEF Reclaim!NewArchive, ArchiveOK
<1>4. wArchives \in Seq(ArchiveOK) /\ n \in Nat /\ DOMAIN wArchives = 1 .. n
  BY DEF ReclaimInv, ReclaimTypes
<1>5. p \in {"send", "pack"} /\ (p = "pack" <=> ~wSweep[s].remote)
  OBVIOUS
<1>6. a = Reclaim!Head1(s).id /\ n = Len(wArchives)
  OBVIOUS
<1> HIDE DEF a, n, p, new
<1>7. /\ wArchives' \in Seq(ArchiveOK) /\ Len(wArchives') = n + 1 /\ DOMAIN wArchives' = 1 .. n + 1 /\ wArchives'[n + 1] = new
      /\ \A i \in 1 .. n : wArchives'[i] = wArchives[i]
  BY <1>1, <1>3, <1>4, <1>6
<1>8. Grows
  <2>1. n <= n + 1 /\ 1 .. n \subseteq 1 .. n + 1
    BY <1>4
  <2> QED
    BY <1>4, <1>6, <1>7, <2>1 DEF Grows
<1>9. Leave
  BY <1>1 DEF Leave
<1>10. /\ wSweep'[s] = [wSweep[s] EXCEPT !.archive = n + 1, !.pc = p]
       /\ DOMAIN wSweep' = WSweeper /\ \A t \in WSweeper \ {s} : wSweep'[t] = wSweep[t]
  BY <1>1, <1>2
<1>11. n + 1 \in Nat /\ n + 1 \in 1 .. n + 1 /\ n + 1 <= n + 1 /\ n + 1 \notin 1 .. n
  BY <1>4
<1>12. /\ wSweep'[s] \in SweepOK /\ wSweep'[s].pc = p /\ wSweep'[s].todo = wSweep[s].todo /\ wSweep'[s].remote = wSweep[s].remote
       /\ wSweep'[s].archive = n + 1 /\ wSweep'[s].pack = wSweep[s].pack
  BY <1>2, <1>5, <1>10, <1>11 DEF SweepOK, Phase
<1>13. wSweep'[s].todo # <<>> /\ ListFits(s)' /\ Reclaim!Head1(s)' = Reclaim!Head1(s)
  BY <1>1, <1>8, <1>9, <1>12, ReclaimStays
<1>14. ~Removing(s)' /\ (Packed(s)' => Packed(s))
  BY <1>1, <1>5, <1>12 DEF Removing, Packed
<1>15. Sweeping(s)'
  BY <1>1, <1>2, <1>3, <1>6, <1>7, <1>11, <1>12, <1>13, <1>14 DEF Sweeping
<1>16. ReclaimTypes'
  BY <1>1, <1>7, <1>10 DEF ReclaimInv, ReclaimTypes
<1>17. HeldRow'
  <2>1. \A b : Archived(b) => \E k \in DOMAIN wArchives' : wArchives'[k].id = b /\ wArchives'[k].state = "verified"
    BY <1>8 DEF Grows, Archived
  <2>2. \A i \in DOMAIN wArchives' : wArchives'[i].state = "verified" => i \in DOMAIN wArchives /\ wArchives'[i] = wArchives[i]
    BY <1>3, <1>4, <1>7
  <2>3. \A b \in Reclaim!Allocation : /\ wPlace'[b] # "work" => wRow'[b] # "active"
                                      /\ wRow'[b] = "archived_verified" \/ wPlace'[b] = "gone" => Archived(b)
    BY <1>1 DEF ReclaimInv, HeldRow
  <2>4. (wTask.wanted \/ Kept => wRow[WVerifier] = "active")'
    BY <1>1 DEF ReclaimInv, HeldRow, Kept
  <2>5. wTask'.state = "accepted" => \A i \in DOMAIN wArchives' : wArchives'[i].state = "verified" => wArchives'[i].version = wVersion'[wArchives'[i].id]
    BY <1>1, <2>2 DEF ReclaimInv, HeldRow
  <2> QED
    BY <2>1, <2>3, <2>4, <2>5 DEF HeldRow, Archived
<1>18. ASSUME NEW t \in WSweeper \ {s}, Writing(t)
       PROVE  wArchives'[wSweep[t].archive] = wArchives[wSweep[t].archive] /\ wSweep[t].archive # wSweep'[s].archive
  <2>1. wSweep[t].archive \in 1 .. n
    BY <1>4, <1>18 DEF ReclaimInv, Sweeping
  <2> QED
    BY <1>7, <1>11, <1>12, <2>1
<1> QED
  BY <1>1, <1>2, <1>8, <1>9, <1>10, <1>15, <1>16, <1>17, <1>18, ReclaimStep

LEMMA ReclaimEndArchive ==
  ASSUME ReclaimInv, NEW s \in WSweeper, NEW ok \in BOOLEAN, Reclaim!EndArchive(s, ok)
  PROVE  ReclaimInv'
<1> DEFINE a == Reclaim!Head1(s).id
           k == wSweep[s].archive
           z == IF ok THEN "verified" ELSE "failed"
           x == IF ok THEN "archived_verified" ELSE "archive_failed"
           v == wSweep[s].pack
<1>1. /\ UNCHANGED <<wTask, wHeld, wPlace, wVersion>> /\ wSweep[s].pc = IF ok THEN "finish" ELSE "fail"
      /\ wArchives' = [wArchives EXCEPT ![k].state = z, ![k].version = v] /\ wRow' = [wRow EXCEPT ![a] = x]
      /\ IF ok THEN Reclaim!Goes(s, "purge") ELSE Reclaim!Aborts(s)
  BY DEF Reclaim!EndArchive, Reclaim!files, Reclaim!At, Reclaim!Purges
<1>2. Sweeping(s) /\ a \in Reclaim!Allocation /\ wTask.state # "live" /\ wRow[a] # "active" /\ wSweep[s] \in SweepOK /\ (Kept => a # WVerifier)
  BY <1>1, ReclaimUnderWay, ReclaimNotKept DEF Sweeping
<1>3. k \in DOMAIN wArchives /\ wArchives[k].id = a /\ wArchives[k].state = "pending"
  BY <1>1, <1>2 DEF Sweeping, Writing
<1>4. z \in {"verified", "failed"} /\ x \in RowState \ {"active"} /\ v \in 0 .. WMaxVersion
      /\ (x = "archived_verified" <=> ok) /\ (z = "verified" <=> ok)
  BY <1>2 DEF RowState, Reclaim!Reclaims, SweepOK
<1>5. ok /\ wTask.state = "accepted" => v = wVersion[a]
  BY <1>1, <1>2 DEF Sweeping, Packed
<1>6. wTask.wanted => a # WVerifier
  BY <1>1, ReclaimNotWanted
<1>7. a = Reclaim!Head1(s).id /\ k = wSweep[s].archive
  OBVIOUS
<1>8. wArchives \in Seq(ArchiveOK) /\ wRow \in [Reclaim!Allocation -> RowState] /\ wPlace \in [Reclaim!Allocation -> {"work", "recycle", "gone"}]
  BY DEF ReclaimInv, ReclaimTypes
<1> HIDE DEF a, k, z, x, v
<1>9. /\ wArchives' \in Seq(ArchiveOK) /\ DOMAIN wArchives' = DOMAIN wArchives /\ Len(wArchives') = Len(wArchives)
      /\ wArchives'[k].id = a /\ wArchives'[k].state = z /\ wArchives'[k].version = v
      /\ \A i \in DOMAIN wArchives : i # k => wArchives'[i] = wArchives[i]
  <2> DEFINE new == [wArchives[k] EXCEPT !.state = z, !.version = v]
  <2>1. wArchives[k] \in ArchiveOK
    BY <1>3, <1>8
  <2>2. new \in ArchiveOK /\ new.id = a /\ new.state = z /\ new.version = v
    BY <1>3, <1>4, <2>1 DEF ArchiveOK
  <2>3. wArchives' = [wArchives EXCEPT ![k] = new]
    BY <1>1
  <2> HIDE DEF new
  <2>4. wArchives' \in Seq(ArchiveOK) /\ Len(wArchives') = Len(wArchives)
    BY <1>3, <1>8, <2>2, <2>3, ExceptSeq
  <2>5. wArchives'[k] = new /\ DOMAIN wArchives' = DOMAIN wArchives /\ \A i \in DOMAIN wArchives : i # k => wArchives'[i] = wArchives[i]
    BY <1>3, <2>3
  <2> QED
    BY <2>2, <2>4, <2>5
<1>10. Grows
  <2>1. Len(wArchives) <= Len(wArchives')
    BY <1>8, <1>9
  <2>2. \A i \in DOMAIN wArchives : /\ wArchives'[i].id = wArchives[i].id
                                    /\ wArchives[i].state = "verified" => wArchives'[i] = wArchives[i]
    BY <1>3, <1>9
  <2> QED
    BY <1>9, <2>1, <2>2 DEF Grows
<1>11. /\ wRow' \in [Reclaim!Allocation -> RowState] /\ wRow'[a] = x /\ \A b \in Reclaim!Allocation \ {a} : wRow'[b] = wRow[b]
  BY <1>1, <1>2, <1>4, <1>8
<1>12. Leave
  BY <1>4, <1>11 DEF Leave
<1>13. ok => \E i \in DOMAIN wArchives' : wArchives'[i].id = a /\ wArchives'[i].state = "verified"
  BY <1>3, <1>4, <1>9
<1>14. HeldRow'
  <2>1. \A b : Archived(b) => \E i \in DOMAIN wArchives' : wArchives'[i].id = b /\ wArchives'[i].state = "verified"
    BY <1>10 DEF Grows, Archived
  <2>2. \A b \in Reclaim!Allocation : wPlace'[b] # "work" => wRow'[b] # "active"
    BY <1>1, <1>4, <1>11 DEF ReclaimInv, HeldRow
  <2>3. \A b \in Reclaim!Allocation : wRow'[b] = "archived_verified" \/ wPlace'[b] = "gone" =>
            \E i \in DOMAIN wArchives' : wArchives'[i].id = b /\ wArchives'[i].state = "verified"
    <3> SUFFICES ASSUME NEW b \in Reclaim!Allocation, wRow'[b] = "archived_verified" \/ wPlace'[b] = "gone"
                 PROVE  \E i \in DOMAIN wArchives' : wArchives'[i].id = b /\ wArchives'[i].state = "verified"
      OBVIOUS
    <3>1. CASE b = a /\ x = "archived_verified"
      BY <1>4, <1>13, <3>1
    <3>2. CASE b # a \/ x # "archived_verified"
      <4>1. wRow[b] = "archived_verified" \/ wPlace[b] = "gone"
        BY <1>1, <1>11, <3>2
      <4> QED
        BY <2>1, <4>1 DEF ReclaimInv, HeldRow
    <3> QED
      BY <3>1, <3>2
  <2>4. (wTask.wanted \/ Kept => wRow[WVerifier] = "active")'
    BY <1>1, <1>2, <1>6, <1>11, ReclaimOrder DEF ReclaimInv, HeldRow, Kept
  <2>5. wTask'.state = "accepted" => \A i \in DOMAIN wArchives' : wArchives'[i].state = "verified" => wArchives'[i].version = wVersion'[wArchives'[i].id]
    <3> SUFFICES ASSUME wTask.state = "accepted", NEW i \in DOMAIN wArchives', wArchives'[i].state = "verified"
                 PROVE  wArchives'[i].version = wVersion[wArchives'[i].id]
      BY <1>1
    <3>1. CASE i = k
      BY <1>4, <1>5, <1>9, <3>1
    <3>2. CASE i # k
      BY <1>9, <3>2 DEF ReclaimInv, HeldRow
    <3> QED
      BY <3>1, <3>2
  <2> QED
    BY <2>2, <2>3, <2>4, <2>5 DEF HeldRow, Archived
<1>15. /\ DOMAIN wSweep' = WSweeper /\ \A t \in WSweeper \ {s} : wSweep'[t] = wSweep[t]
       /\ Sweeping(s)' /\ ~Writing(s)'
  <2>1. CASE ok
    <3>1. /\ wSweep'[s] \in SweepOK /\ wSweep'[s].pc = "purge" /\ wSweep'[s].todo = wSweep[s].todo
          /\ wSweep'[s].archive = wSweep[s].archive
          /\ DOMAIN wSweep' = WSweeper /\ \A t \in WSweeper \ {s} : wSweep'[t] = wSweep[t]
      BY <1>1, <2>1, ReclaimGoes DEF Phase
    <3>2. wSweep'[s].todo # <<>> /\ ListFits(s)' /\ Reclaim!Head1(s)' = Reclaim!Head1(s) /\ wSweep'[s].archive <= Len(wArchives')
      BY <1>1, <1>10, <1>12, <2>1, <3>1, ReclaimStays
    <3>3. ~Writing(s)' /\ ~Packed(s)'
      BY <3>1 DEF Writing, Packed
    <3>4. wRow'[a] # "active" /\ wArchives'[k].id = a /\ wArchives'[k].state = "verified" /\ k \in DOMAIN wArchives'
      BY <1>3, <1>4, <1>9, <1>11, <2>1
    <3>5. Sweeping(s)'
      BY <1>7, <3>1, <3>2, <3>3, <3>4 DEF Sweeping
    <3> QED
      BY <3>1, <3>3, <3>5
  <2>2. CASE ~ok
    BY <1>1, <1>10, <1>12, <2>2, ReclaimEnds
  <2> QED
    BY <2>1, <2>2
<1>16. ReclaimTypes'
  BY <1>1, <1>9, <1>11, <1>15 DEF ReclaimInv, ReclaimTypes
<1>17. ASSUME NEW t \in WSweeper \ {s}, Writing(t)
       PROVE  wArchives'[wSweep[t].archive] = wArchives[wSweep[t].archive]
  <2>1. Writing(s)
    BY <1>1 DEF Writing
  <2>2. wSweep[t].archive # k /\ wSweep[t].archive \in DOMAIN wArchives
    BY <1>7, <1>17, <2>1 DEF ReclaimInv, Sweeping
  <2> QED
    BY <1>9, <2>2
<1> QED
  BY <1>1, <1>2, <1>10, <1>12, <1>14, <1>15, <1>16, <1>17, ReclaimStep

LEMMA ReclaimPurge ==
  ASSUME ReclaimInv, NEW s \in WSweeper, Reclaim!Purge(s)
  PROVE  ReclaimInv'
<1> DEFINE a == Reclaim!Head1(s).id
<1>1. UNCHANGED <<wTask, wRow, wHeld, wVersion, wArchives>> /\ wSweep[s].pc = "purge"
  BY DEF Reclaim!Purge, Reclaim!At
<1>2. /\ Sweeping(s) /\ a \in Reclaim!Allocation /\ wTask.state # "live" /\ wRow[a] # "active"
      /\ wSweep[s].archive \in DOMAIN wArchives /\ wArchives[wSweep[s].archive].id = a
      /\ wArchives[wSweep[s].archive].state = "verified"
  BY <1>1, ReclaimUnderWay DEF Sweeping, Removing
<1>3. Archived(a)
  BY <1>2 DEF Archived
<1>4. wPlace' \in {wPlace, [wPlace EXCEPT ![a] = "gone"]} /\ (Reclaim!Goes(s, "removed") \/ Reclaim!Goes(s, "unremoved") \/ Reclaim!Aborts(s))
  BY DEF Reclaim!Purge
<1>5. Grows /\ Leave
  BY <1>1, ReclaimSame DEF ReclaimInv, ReclaimTypes, Leave
<1>6. Sweeping(s)' /\ ~Writing(s)' /\ DOMAIN wSweep' = WSweeper /\ \A t \in WSweeper \ {s} : wSweep'[t] = wSweep[t]
  <2>1. ASSUME NEW p \in {"removed", "unremoved"}, Reclaim!Goes(s, p)
        PROVE  Sweeping(s)' /\ ~Writing(s)' /\ DOMAIN wSweep' = WSweeper /\ \A t \in WSweeper \ {s} : wSweep'[t] = wSweep[t]
    <3>1. /\ wSweep'[s] \in SweepOK /\ wSweep'[s].pc = p /\ wSweep'[s].todo = wSweep[s].todo
          /\ wSweep'[s].archive = wSweep[s].archive
          /\ DOMAIN wSweep' = WSweeper /\ \A t \in WSweeper \ {s} : wSweep'[t] = wSweep[t]
      BY <2>1, ReclaimGoes DEF Phase
    <3>2. wSweep'[s].todo # <<>> /\ ListFits(s)' /\ Reclaim!Head1(s)' = Reclaim!Head1(s) /\ wSweep'[s].archive <= Len(wArchives')
      BY <1>1, <1>5, <3>1, ReclaimStays
    <3>3. ~Writing(s)' /\ ~Packed(s)'
      BY <3>1 DEF Writing, Packed
    <3>4. Sweeping(s)'
      BY <1>1, <1>2, <3>1, <3>2, <3>3 DEF Sweeping
    <3> QED
      BY <3>1, <3>3, <3>4
  <2>2. CASE Reclaim!Aborts(s)
    BY <1>1, <1>5, <2>2, ReclaimEnds
  <2> QED
    BY <1>4, <2>1, <2>2
<1>7. wPlace \in [Reclaim!Allocation -> {"work", "recycle", "gone"}]
  BY DEF ReclaimInv, ReclaimTypes
<1> HIDE DEF a
<1>8. /\ wPlace' \in [Reclaim!Allocation -> {"work", "recycle", "gone"}]
      /\ \A b \in Reclaim!Allocation \ {a} : wPlace'[b] = wPlace[b]
  BY <1>2, <1>4, <1>7
<1>9. ReclaimTypes'
  BY <1>1, <1>6, <1>8 DEF ReclaimInv, ReclaimTypes
<1>10. \A b \in Reclaim!Allocation : /\ wPlace'[b] # "work" => wRow[b] # "active"
                                     /\ wRow[b] = "archived_verified" \/ wPlace'[b] = "gone" => Archived(b)
  BY <1>2, <1>3, <1>8 DEF ReclaimInv, HeldRow
<1>11. HeldRow'
  BY <1>1, <1>10 DEF ReclaimInv, HeldRow, Archived, Kept
<1> QED
  BY <1>1, <1>2, <1>5, <1>6, <1>9, <1>11, ReclaimStep

LEMMA ReclaimEndPurge ==
  ASSUME ReclaimInv, NEW s \in WSweeper, NEW ok \in BOOLEAN, Reclaim!EndPurge(s, ok)
  PROVE  ReclaimInv'
<1>1. UNCHANGED <<wTask, wHeld, wPlace, wVersion, wArchives>> /\ wSweep[s].pc \in {"removed", "unremoved"} /\ (Reclaim!Moves(s) \/ Reclaim!Aborts(s))
  BY DEF Reclaim!EndPurge, Reclaim!files, Reclaim!At
<1>2. wTask.state # "live"
  BY <1>1, ReclaimUnderWay
<1>3. CASE UNCHANGED wRow
  BY <1>1, <1>3, ReclaimDrops
<1>4. ASSUME NEW x \in {"purged", "purge_failed"}, wRow' = [wRow EXCEPT ![Reclaim!Head1(s).id] = x]
      PROVE  ReclaimInv'
  <2>0. x \in RowState \ {"active"} /\ x # "archived_verified"
    BY DEF RowState, Reclaim!Reclaims
  <2>1. DOMAIN wSweep' = WSweeper
    BY <1>1 DEF Reclaim!Moves, Reclaim!Aborts, ReclaimInv, ReclaimTypes
  <2>2. Grows /\ Leave /\ ReclaimTypes' /\ HeldRow'
    BY <1>1, <1>4, <2>0, <2>1, ReclaimRow, ReclaimNotWanted
  <2>3. Sweeping(s)' /\ ~Writing(s)' /\ \A t \in WSweeper \ {s} : wSweep'[t] = wSweep[t]
    BY <1>1, <2>2, ReclaimEnds
  <2> QED
    BY <1>1, <1>2, <2>1, <2>2, <2>3, ReclaimStep
<1> QED
  BY <1>3, <1>4 DEF Reclaim!EndPurge

---------------------------------------------------------------------------
\* The task, its executor and its delivery.
LEMMA ReclaimTask ==
  ASSUME ReclaimInv, wTask' \in LifeOK, UNCHANGED <<wRow, wPlace, wArchives, wSweep>>, Settled,
         wTask'.state = "live" => wTask.state = "live", wTask'.state = "accepted" => ~wTask'.executing,
         wHeld' \subseteq Reclaim!Allocation, wVersion' \in [Reclaim!Allocation -> 0 .. WMaxVersion],
         wTask'.wanted => wTask.wanted \/ wRow[WVerifier] = "active"
  PROVE  ReclaimInv'
<1>1. Grows /\ Leave
  BY ReclaimSame DEF ReclaimInv, ReclaimTypes, Leave
<1>2. \A t \in WSweeper : Sweeping(t)'
  BY <1>1, ReclaimFrame DEF ReclaimInv
<1>3. ReclaimTypes'
  BY DEF ReclaimInv, ReclaimTypes
<1>4. Kept' => Kept
  BY DEF Settled, Kept, ReclaimInv, ReclaimTypes, LifeOK
<1>5. HeldRow'
  <2>1. (wTask.wanted \/ Kept => wRow[WVerifier] = "active")'
    BY <1>4 DEF ReclaimInv, HeldRow
  <2>2. wTask'.state = "accepted" => \A i \in DOMAIN wArchives : wArchives[i].state = "verified" => wArchives[i].version = wVersion'[wArchives[i].id]
    BY DEF Settled, ReclaimInv, HeldRow
  <2> QED
    BY <2>1, <2>2 DEF ReclaimInv, HeldRow, Archived
<1>6. Fresh'
  BY DEF ReclaimInv, Fresh
<1>7. \A s, t \in WSweeper : s # t /\ Writing(s)' /\ Writing(t)' => wSweep'[s].archive # wSweep'[t].archive
  BY DEF ReclaimInv, Writing
<1> QED
  BY <1>2, <1>3, <1>5, <1>6, <1>7 DEF ReclaimInv

LEMMA ReclaimAccept ==
  ASSUME ReclaimInv, Reclaim!Accept
  PROVE  ReclaimInv'
<1>1. /\ wTask.state = "live" /\ wTask' = [wTask EXCEPT !.state = "accepted", !.executing = FALSE]
      /\ UNCHANGED <<wRow, wHeld, wPlace, wVersion, wArchives, wSweep>> /\ wTask \in LifeOK
  BY DEF Reclaim!Accept, Reclaim!TaskStep, Reclaim!files, ReclaimInv, ReclaimTypes
<1>2. /\ \A s \in WSweeper : wSweep[s] = Reclaim!Idle
      /\ \A a \in Reclaim!Allocation : wRow[a] = "active"
      /\ wArchives = <<>>
  BY <1>1 DEF ReclaimInv, Fresh
<1>3. wTask' \in LifeOK /\ wTask'.state = "accepted" /\ ~wTask'.executing
  BY <1>1 DEF LifeOK
<1>4. ReclaimTypes'
  BY <1>1, <1>3 DEF ReclaimInv, ReclaimTypes
<1>5. \A t \in WSweeper : Sweeping(t)'
  <2> SUFFICES ASSUME NEW t \in WSweeper PROVE Sweeping(t)'
    OBVIOUS
  <2>1. wSweep'[t] = Reclaim!Idle /\ Len(wArchives') = 0
    BY <1>1, <1>2
  <2>2. ListFits(t)'
    BY <2>1, ReclaimIdle DEF ListFits
  <2> QED
    BY <2>1, <2>2, ReclaimIdle DEF Sweeping, Writing, Removing, Packed
<1>6. HeldRow'
  BY <1>1, <1>2, ReclaimOrder DEF ReclaimInv, HeldRow, Archived
<1>7. Fresh'
  BY <1>3 DEF Fresh
<1>8. \A t \in WSweeper : ~Writing(t)'
  BY <1>1, <1>2, ReclaimIdle DEF Writing
<1> QED
  BY <1>4, <1>5, <1>6, <1>7, <1>8 DEF ReclaimInv

LEMMA ReclaimLife ==
  ASSUME ReclaimInv,
         \/ Reclaim!Cancel \/ Reclaim!Reopen \/ Reclaim!ExecutorEnds \/ Reclaim!CreateObjective \/ Reclaim!ObjectiveEnds \/ Reclaim!Deliver
         \/ \E a \in Reclaim!Allocation : Reclaim!Write(a) \/ Reclaim!Hold(a)
  PROVE  ReclaimInv'
<1>1. wTask \in LifeOK /\ wVersion \in [Reclaim!Allocation -> 0 .. WMaxVersion] /\ wHeld \subseteq Reclaim!Allocation
      /\ (wTask.state = "accepted" => ~wTask.executing)
  BY DEF ReclaimInv, ReclaimTypes, Fresh
<1>2. ASSUME NEW a \in Reclaim!Allocation, Reclaim!Write(a) PROVE ReclaimInv'
  <2>1. /\ wVersion' = [wVersion EXCEPT ![a] = wVersion[a] + 1] /\ wTask.executing /\ wVersion[a] < WMaxVersion
        /\ UNCHANGED <<wTask, wRow, wHeld, wPlace, wArchives, wSweep>>
    BY <1>1, <1>2 DEF Reclaim!Write
  <2>2. wVersion[a] + 1 \in 0 .. WMaxVersion
    BY <1>1, <2>1, ReclaimOrder
  <2>3. wVersion' \in [Reclaim!Allocation -> 0 .. WMaxVersion]
    BY <1>1, <2>1, <2>2
  <2> QED
    BY <1>1, <2>1, <2>3, ReclaimTask DEF Settled
<1>3. ASSUME NEW a \in Reclaim!Allocation, Reclaim!Hold(a) PROVE ReclaimInv'
  <2>1. wHeld' \subseteq Reclaim!Allocation /\ UNCHANGED <<wTask, wRow, wPlace, wVersion, wArchives, wSweep>>
    BY <1>1, <1>3 DEF Reclaim!Hold, Reclaim!files
  <2> QED
    BY <1>1, <2>1, ReclaimTask DEF Settled
<1>4. CASE Reclaim!Cancel \/ Reclaim!Reopen
  <2>1. /\ \E st \in {"cancelled", "reopened"} : wTask' = [wTask EXCEPT !.state = st]
        /\ UNCHANGED <<wRow, wHeld, wPlace, wVersion, wArchives, wSweep>>
    BY <1>4 DEF Reclaim!Cancel, Reclaim!Reopen, Reclaim!TaskStep, Reclaim!files
  <2>2. wTask' \in LifeOK /\ wTask'.state \in {"cancelled", "reopened"} /\ wTask'.wanted = wTask.wanted
    BY <1>1, <2>1 DEF LifeOK
  <2> QED
    BY <1>1, <2>1, <2>2, ReclaimTask DEF Settled
<1>5. CASE Reclaim!ExecutorEnds
  <2>1. wTask' = [wTask EXCEPT !.executing = FALSE] /\ UNCHANGED <<wRow, wHeld, wPlace, wVersion, wArchives, wSweep>>
    BY <1>5 DEF Reclaim!ExecutorEnds, Reclaim!TaskStep, Reclaim!files
  <2>2. /\ wTask' \in LifeOK /\ wTask'.state = wTask.state /\ wTask'.wanted = wTask.wanted /\ wTask'.delivered = wTask.delivered
        /\ ~wTask'.executing
    BY <1>1, <2>1 DEF LifeOK
  <2> QED
    BY <1>1, <2>1, <2>2, ReclaimTask DEF Settled
<1>6. CASE Reclaim!CreateObjective \/ Reclaim!ObjectiveEnds
  <2>1. /\ \E w \in BOOLEAN : wTask' = [wTask EXCEPT !.wanted = w] /\ (w => wRow[WVerifier] = "active")
        /\ UNCHANGED <<wRow, wHeld, wPlace, wVersion, wArchives, wSweep>>
    BY <1>6 DEF Reclaim!CreateObjective, Reclaim!ObjectiveEnds, Reclaim!TaskStep, Reclaim!files
  <2>2. PICK w \in BOOLEAN : wTask' = [wTask EXCEPT !.wanted = w] /\ (w => wRow[WVerifier] = "active")
    BY <2>1
  <2>3. /\ wTask' \in LifeOK /\ wTask'.state = wTask.state /\ wTask'.delivered = wTask.delivered /\ wTask'.wanted = w
        /\ wTask'.executing = wTask.executing
    BY <1>1, <2>2 DEF LifeOK
  <2> QED
    BY <1>1, <2>1, <2>2, <2>3, ReclaimTask DEF Settled
<1>7. CASE Reclaim!Deliver
  <2>1. wTask' = [wTask EXCEPT !.delivered = TRUE] /\ UNCHANGED <<wRow, wHeld, wPlace, wVersion, wArchives, wSweep>>
    BY <1>7 DEF Reclaim!Deliver, Reclaim!TaskStep, Reclaim!files
  <2>2. /\ wTask' \in LifeOK /\ wTask'.state = wTask.state /\ wTask'.wanted = wTask.wanted /\ wTask'.delivered
        /\ wTask'.executing = wTask.executing
    BY <1>1, <2>1 DEF LifeOK
  <2> QED
    BY <1>1, <2>1, <2>2, ReclaimTask DEF Settled
<1> QED
  BY <1>2, <1>3, <1>4, <1>5, <1>6, <1>7

LEMMA ReclaimInitLemma == Reclaim!Init => ReclaimInv
<1> SUFFICES ASSUME Reclaim!Init PROVE ReclaimInv
  OBVIOUS
<1>1. /\ wTask = [state |-> "live", executing |-> TRUE, wanted |-> FALSE, delivered |-> FALSE]
      /\ wRow = [a \in Reclaim!Allocation |-> "active"] /\ wHeld = {} /\ wPlace = [a \in Reclaim!Allocation |-> "work"]
      /\ wVersion = [a \in Reclaim!Allocation |-> 0] /\ wArchives = <<>> /\ wSweep = [s \in WSweeper |-> Reclaim!Idle]
  BY DEF Reclaim!Init
<1>2. wTask \in LifeOK /\ wTask.state = "live" /\ ~wTask.wanted
  BY <1>1 DEF LifeOK
<1>3. 0 \in 0 .. WMaxVersion /\ "active" \in RowState
  BY ReclaimOrder DEF RowState, Reclaim!Reclaims
<1>4. ReclaimTypes
  BY <1>1, <1>2, <1>3 DEF ReclaimTypes
<1>5. \A t \in WSweeper : Sweeping(t) /\ ~Writing(t)
  <2> SUFFICES ASSUME NEW t \in WSweeper PROVE Sweeping(t) /\ ~Writing(t)
    OBVIOUS
  <2>1. wSweep[t] = Reclaim!Idle /\ Len(wArchives) = 0
    BY <1>1
  <2>2. ListFits(t)
    BY <2>1, ReclaimIdle DEF ListFits
  <2> QED
    BY <2>1, <2>2, ReclaimIdle DEF Sweeping, Writing, Removing, Packed
<1>6. HeldRow
  BY <1>1, <1>2, ReclaimOrder DEF HeldRow, Kept
<1>7. Fresh
  BY <1>1, <1>2 DEF Fresh
<1> QED
  BY <1>4, <1>5, <1>6, <1>7 DEF ReclaimInv

LEMMA ReclaimNextLemma == ReclaimInv /\ [Reclaim!Next]_Reclaim!vars => ReclaimInv'
<1> SUFFICES ASSUME ReclaimInv, [Reclaim!Next]_Reclaim!vars PROVE ReclaimInv'
  OBVIOUS
<1>1. CASE UNCHANGED Reclaim!vars
  <2>1. UNCHANGED <<wTask, wRow, wHeld, wPlace, wVersion, wArchives, wSweep>> /\ Settled
    BY <1>1 DEF Reclaim!vars, Settled
  <2> QED
    BY <2>1, ReclaimTask DEF ReclaimInv, ReclaimTypes, Fresh
<1>2. ASSUME NEW s \in WSweeper,
             \/ Reclaim!List(s) \/ Reclaim!Take(s) \/ Reclaim!BeginQuarantine(s) \/ Reclaim!Move(s) \/ Reclaim!FinishQuarantine(s) \/ Reclaim!Choose(s)
             \/ Reclaim!BeginArchive(s) \/ Reclaim!Pack(s) \/ Reclaim!Send(s) \/ Reclaim!Purge(s)
      PROVE  ReclaimInv'
  BY <1>2, ReclaimListing, ReclaimTake, ReclaimBeginQuarantine, ReclaimMove, ReclaimFinishQuarantine,
     ReclaimChoose,
     ReclaimBeginArchive, ReclaimPack, ReclaimSend, ReclaimPurge
<1>3. ASSUME NEW s \in WSweeper, Reclaim!Crash(s) PROVE ReclaimInv'
  BY <1>3, ReclaimDrops DEF Reclaim!Crash, Reclaim!At, Reclaim!files
<1>4. ASSUME NEW s \in WSweeper, NEW ok \in BOOLEAN, Reclaim!EndArchive(s, ok) \/ Reclaim!EndPurge(s, ok) PROVE ReclaimInv'
  BY <1>4, ReclaimEndArchive, ReclaimEndPurge
<1> QED
  BY <1>1, <1>2, <1>3, <1>4, ReclaimAccept, ReclaimLife DEF Reclaim!Next

LEMMA ReclaimImplies == ReclaimInv => Reclaim!TypeOK /\ Reclaim!RemovedIsArchived /\ Reclaim!DeliveryKeepsFiles
<1> SUFFICES ASSUME ReclaimInv PROVE Reclaim!TypeOK /\ Reclaim!RemovedIsArchived /\ Reclaim!DeliveryKeepsFiles
  OBVIOUS
<1>1. Reclaim!TypeOK
  <2>1. \A i \in DOMAIN wArchives : wArchives[i] \in ArchiveOK
    BY DEF ReclaimInv, ReclaimTypes
  <2>2. \A s \in WSweeper : wSweep[s].archive \in 0 .. Len(wArchives)
    <3>1. \A s \in WSweeper : wSweep[s].archive \in Nat /\ wSweep[s].archive <= Len(wArchives)
      BY DEF ReclaimInv, Sweeping, SweepOK
    <3>2. Len(wArchives) \in Nat
      BY DEF ReclaimInv, ReclaimTypes
    <3> QED
      BY <3>1, <3>2
  <2> QED
    BY <2>1, <2>2 DEF ReclaimInv, ReclaimTypes, Reclaim!TypeOK, ArchiveOK, LifeOK, RowState
<1>2. Reclaim!RemovedIsArchived
  BY DEF ReclaimInv, HeldRow, Archived, Reclaim!RemovedIsArchived
<1>3. Reclaim!DeliveryKeepsFiles
  <2>1. wPlace[WVerifier] # "work" => wRow[WVerifier] # "active"
    BY ReclaimOrder DEF ReclaimInv, HeldRow
  <2> QED
    BY <2>1 DEF ReclaimInv, HeldRow, Kept, Reclaim!DeliveryKeepsFiles
<1> QED
  BY <1>1, <1>2, <1>3

\* Files are removed after an archive of them was verified, one of an accepted task holds
\* their last state, and a delivery finds the files it needs, whatever was listed before.
THEOREM FilesGoArchived == Reclaim!Spec => [](Reclaim!TypeOK /\ Reclaim!RemovedIsArchived /\ Reclaim!DeliveryKeepsFiles)
<1>1. Reclaim!Spec => []ReclaimInv
  BY ReclaimInitLemma, ReclaimNextLemma, PTL DEF Reclaim!Spec
<1> QED
  BY <1>1, ReclaimImplies, PTL

-----------------------------------------------------------------------------
(* LinkerTemplates: what a template, a copy and the installer leave behind,   *)
(* by the step a call has reached.                                            *)

LEMMA LinkAssumed == Linkers!LinkersAssumption
  BY ProtocolsAssumption


LinkEntry == {"none", "part", "marked", "bare", "whole"}
LinkStage == {"idle", "waits", "holds", "publish", "ready", "copies", "refused", "installs", "pnpm", "mark"}
LinkCallOK == [pc : LinkStage, cached : BOOLEAN, next : 1 .. Len(LOrder) + 1, told : {"none", "ready", "blocked"}]

\* A call that is past its wait has the lock; a copy has a template and is whole so far.
Standing(w) ==
    /\ lCall[w].pc \notin {"idle", "waits"} => lLock = w
    /\ lCall[w].told # "none" => lCall[w].pc = "idle"
    /\ lCall[w].pc \in {"idle", "waits", "holds"} => lCall[w].next = 1
    /\ lCall[w].pc = "copies" =>
          /\ lTemplate # Linkers!NoTemplate /\ lCall[w].next <= Len(LOrder)
          /\ w \notin lCut => \A i \in 1 .. lCall[w].next - 1 : lTree[w][LOrder[i]] = "whole"
    /\ lCall[w].pc = "mark" => \A l \in Linkers!Linker \ {"root"} : lTree[w][l] = "whole"
    /\ w \notin lCut /\ lCall[w].pc # "copies" /\ Linkers!HasMarker(lTree[w]["root"]) => Linkers!Whole(lTree[w])
    /\ w \notin lCut /\ (lCall[w].pc \in {"publish", "ready"} \/ lCall[w].told = "ready") => Linkers!Whole(lTree[w])

LinkTypes ==
    /\ lTree \in [LWorktree -> [Linkers!Linker -> LinkEntry]]
    /\ lCut \subseteq LWorktree \cup {"template"}
    /\ lTemplate \in [Linkers!Linker -> LinkEntry]
    /\ lResidue \in BOOLEAN
    /\ {lLock, lStore} \subseteq LWorktree \cup {Linkers!Nobody}
    /\ lCall \in [LWorktree -> LinkCallOK]

LinkInv ==
    /\ LinkTypes
    /\ \A w \in LWorktree : Standing(w)
    /\ lTemplate # Linkers!NoTemplate /\ "template" \notin lCut => Linkers!Whole(lTemplate)

LEMMA LinkOrder ==
    /\ Len(LOrder) \in Nat \ {0} /\ LOrder \in Seq(Linkers!Linker) /\ DOMAIN LOrder = 1 .. Len(LOrder)
    /\ "root" \in Linkers!Linker /\ \A i \in 1 .. Len(LOrder) : LOrder[i] \in Linkers!Linker
    /\ \A l \in Linkers!Linker : \E i \in 1 .. Len(LOrder) : LOrder[i] = l
<1>1. LOrder \in Seq(Linkers!Linker) /\ "root" \in Linkers!Linker
  BY LinkAssumed DEF Linkers!LinkersAssumption
<1>2. DOMAIN LOrder = 1 .. Len(LOrder) /\ Len(LOrder) \in Nat
  BY <1>1
<1> QED
  BY <1>1, <1>2 DEF Linkers!Linker

LEMMA LinkNames == Linkers!Nobody \notin LWorktree /\ "template" \notin LWorktree
  BY LinkAssumed DEF Linkers!LinkersAssumption, Linkers!Nobody

\* A call on another worktree changes nothing this one stands on.
LEMMA LinkFrame ==
  ASSUME NEW w \in LWorktree, NEW u \in LWorktree \ {w}, Standing(u),
         lTree'[u] = lTree[u], lCall'[u] = lCall[u], u \in lCut' <=> u \in lCut,
         lLock = u => lLock' = u, lTemplate # Linkers!NoTemplate => lTemplate' = lTemplate
  PROVE  Standing(u)'
  BY DEF Standing, Linkers!HasMarker, Linkers!Whole, Linkers!NoTemplate

LEMMA LinkInitLemma == Linkers!Init => LinkInv
<1> SUFFICES ASSUME Linkers!Init PROVE LinkInv
  OBVIOUS
<1>1. Linkers!NoTemplate \in [Linkers!Linker -> LinkEntry] /\ Linkers!NoTemplate["root"] = "none"
  BY LinkOrder DEF Linkers!NoTemplate, LinkEntry
<1>2. Linkers!NoCall \in LinkCallOK /\ Linkers!NoCall.pc = "idle" /\ Linkers!NoCall.told = "none" /\ Linkers!NoCall.next = 1
  BY LinkOrder DEF Linkers!NoCall, LinkCallOK, LinkStage
<1>3. LinkTypes
  BY <1>1, <1>2 DEF Linkers!Init, LinkTypes
<1>4. ASSUME NEW w \in LWorktree PROVE Standing(w)
  BY <1>1, <1>2 DEF Linkers!Init, Standing, Linkers!HasMarker
<1> QED
  BY <1>3, <1>4 DEF LinkInv, Linkers!Init

LEMMA LinkCalls ==
  ASSUME NEW pc \in LinkStage, NEW cached \in BOOLEAN, NEW what \in {"none", "ready", "blocked"}
  PROVE  /\ Linkers!NoCall \in LinkCallOK
         /\ [Linkers!NoCall EXCEPT !.told = what] \in LinkCallOK
         /\ [Linkers!NoCall EXCEPT !.pc = pc, !.cached = cached] \in LinkCallOK
<1>1. 1 \in 1 .. Len(LOrder) + 1
  BY LinkOrder
<1>2. Linkers!NoCall \in LinkCallOK
  BY <1>1 DEF LinkCallOK, Linkers!NoCall, LinkStage
<1> QED
  BY <1>2 DEF LinkCallOK

LEMMA LinkEnds ==
  ASSUME LinkInv, NEW w \in LWorktree, NEW what \in {"none", "ready", "blocked"}, Linkers!Ends(w, what)
  PROVE  /\ lCall' \in [LWorktree -> LinkCallOK]
         /\ {lLock', lStore'} \subseteq LWorktree \cup {Linkers!Nobody}
         /\ lCall'[w].pc = "idle" /\ lCall'[w].told = what /\ lCall'[w].next = 1
         /\ \A u \in LWorktree \ {w} : lCall'[u] = lCall[u] /\ (lLock = u => lLock' = u)
<1>1. lCall \in [LWorktree -> LinkCallOK] /\ {lLock, lStore} \subseteq LWorktree \cup {Linkers!Nobody}
  BY DEF LinkInv, LinkTypes
<1>2. [Linkers!NoCall EXCEPT !.told = what] \in LinkCallOK
  BY LinkCalls DEF LinkStage
<1>3. lCall' = [lCall EXCEPT ![w] = [Linkers!NoCall EXCEPT !.told = what]]
  BY DEF Linkers!Ends
<1>4. lCall'[w] = [Linkers!NoCall EXCEPT !.told = what]
  BY <1>1, <1>3
<1>5. lCall'[w].pc = "idle" /\ lCall'[w].told = what /\ lCall'[w].next = 1
  BY <1>4 DEF Linkers!NoCall
<1>6. lCall' \in [LWorktree -> LinkCallOK] /\ \A u \in LWorktree \ {w} : lCall'[u] = lCall[u]
  BY <1>1, <1>2, <1>3
<1>7. {lLock', lStore'} \subseteq LWorktree \cup {Linkers!Nobody} /\ \A u \in LWorktree \ {w} : lLock = u => lLock' = u
  BY <1>1 DEF Linkers!Ends, Linkers!Free
<1> QED
  BY <1>5, <1>6, <1>7

LEMMA LinkGoes ==
  ASSUME LinkInv, NEW w \in LWorktree, NEW pc \in LinkStage, Linkers!Goes(w, pc)
  PROVE  /\ lCall' \in [LWorktree -> LinkCallOK]
         /\ lCall'[w].pc = pc /\ lCall'[w].told = lCall[w].told /\ lCall'[w].next = lCall[w].next
         /\ \A u \in LWorktree \ {w} : lCall'[u] = lCall[u]
<1>1. lCall \in [LWorktree -> LinkCallOK]
  BY DEF LinkInv, LinkTypes
<1>2. lCall' = [lCall EXCEPT ![w].pc = pc]
  BY DEF Linkers!Goes
<1> QED
  BY <1>1, <1>2 DEF LinkCallOK

LEMMA LinkBegin ==
  ASSUME LinkInv, NEW w \in LWorktree, NEW cached \in BOOLEAN, Linkers!Begin(w, cached)
  PROVE  LinkInv'
<1>1. lCall \in [LWorktree -> LinkCallOK] /\ Standing(w) /\ lCall[w].pc = "idle"
  BY DEF LinkInv, LinkTypes, Linkers!Begin, Linkers!At
<1>2. [Linkers!NoCall EXCEPT !.pc = "waits", !.cached = cached] \in LinkCallOK
  BY LinkCalls DEF LinkStage
<1>3. lCall' = [lCall EXCEPT ![w] = [Linkers!NoCall EXCEPT !.pc = "waits", !.cached = cached]]
      /\ UNCHANGED <<lTree, lCut, lTemplate, lResidue, lLock, lStore>>
  BY DEF Linkers!Begin
<1>4. lCall'[w].pc = "waits" /\ lCall'[w].told = "none" /\ lCall'[w].next = 1
  BY <1>1, <1>3 DEF Linkers!NoCall
<1>5. LinkTypes'
  BY <1>1, <1>2, <1>3 DEF LinkInv, LinkTypes
<1>6. Standing(w)'
  BY <1>1, <1>3, <1>4 DEF Standing, Linkers!HasMarker, Linkers!Whole, Linkers!NoTemplate
<1>7. ASSUME NEW u \in LWorktree \ {w} PROVE Standing(u)'
  BY <1>1, <1>3, LinkFrame DEF LinkInv
<1> QED
  BY <1>3, <1>5, <1>6, <1>7 DEF LinkInv, Linkers!Whole, Linkers!NoTemplate

LEMMA LinkTakeLock ==
  ASSUME LinkInv, NEW w \in LWorktree, Linkers!TakeLock(w)
  PROVE  LinkInv'
<1>1. lCall \in [LWorktree -> LinkCallOK] /\ Standing(w) /\ lCall[w].pc = "waits"
  BY DEF LinkInv, LinkTypes, Linkers!TakeLock, Linkers!At
<1>2. UNCHANGED <<lTree, lCut, lTemplate>>
  BY DEF Linkers!TakeLock
<1>3. CASE lLock = Linkers!Nobody /\ lLock' = w /\ lResidue' = FALSE /\ Linkers!Goes(w, "holds") /\ UNCHANGED lStore
  <2>1. /\ lCall' \in [LWorktree -> LinkCallOK] /\ lCall'[w].pc = "holds" /\ lCall'[w].told = lCall[w].told
        /\ lCall'[w].next = lCall[w].next /\ \A u \in LWorktree \ {w} : lCall'[u] = lCall[u]
    BY <1>3, LinkGoes DEF LinkStage
  <2>2. LinkTypes'
    BY <1>2, <1>3, <2>1 DEF LinkInv, LinkTypes
  <2>3. Standing(w)'
    BY <1>1, <1>2, <1>3, <2>1 DEF Standing, Linkers!HasMarker, Linkers!Whole, Linkers!NoTemplate
  <2>4. ASSUME NEW u \in LWorktree \ {w} PROVE Standing(u)'
    BY <1>2, <1>3, <2>1, LinkFrame, LinkNames DEF LinkInv
  <2> QED
    BY <1>2, <2>2, <2>3, <2>4 DEF LinkInv, Linkers!Whole, Linkers!NoTemplate
<1>4. CASE lLock # Linkers!Nobody /\ Linkers!Ends(w, "blocked") /\ UNCHANGED lResidue
  <2>1. /\ lCall' \in [LWorktree -> LinkCallOK] /\ {lLock', lStore'} \subseteq LWorktree \cup {Linkers!Nobody}
        /\ lCall'[w].pc = "idle" /\ lCall'[w].told = "blocked" /\ lCall'[w].next = 1
        /\ \A u \in LWorktree \ {w} : lCall'[u] = lCall[u] /\ (lLock = u => lLock' = u)
    BY <1>4, LinkEnds
  <2>2. LinkTypes'
    BY <1>2, <1>4, <2>1 DEF LinkInv, LinkTypes
  <2>3. Standing(w)'
    BY <1>1, <1>2, <1>4, <2>1 DEF Standing, Linkers!HasMarker, Linkers!Whole, Linkers!NoTemplate
  <2>4. ASSUME NEW u \in LWorktree \ {w} PROVE Standing(u)'
    BY <1>2, <2>1, LinkFrame DEF LinkInv
  <2> QED
    BY <1>2, <2>2, <2>3, <2>4 DEF LinkInv, Linkers!Whole, Linkers!NoTemplate
<1> QED
  BY <1>3, <1>4 DEF Linkers!TakeLock

\* What is left to show of a step of the call on w that touches no other tree.
LEMMA LinkStep ==
  ASSUME LinkInv, NEW w \in LWorktree, LinkTypes', Standing(w)',
         \A u \in LWorktree \ {w} :
            lTree'[u] = lTree[u] /\ lCall'[u] = lCall[u] /\ (u \in lCut' <=> u \in lCut) /\ (lLock = u => lLock' = u),
         UNCHANGED lTemplate, "template" \notin lCut' => "template" \notin lCut
  PROVE  LinkInv'
<1>1. ASSUME NEW u \in LWorktree \ {w} PROVE Standing(u)'
  BY <1>1, LinkFrame DEF LinkInv
<1>2. (lTemplate # Linkers!NoTemplate /\ "template" \notin lCut => Linkers!Whole(lTemplate))'
  BY DEF LinkInv, Linkers!Whole, Linkers!NoTemplate
<1> QED
  BY <1>1, <1>2 DEF LinkInv

LEMMA LinkReuse ==
  ASSUME LinkInv, NEW w \in LWorktree, Linkers!Reuse(w)
  PROVE  LinkInv'
<1>1. lCall \in [LWorktree -> LinkCallOK] /\ lTree \in [LWorktree -> [Linkers!Linker -> LinkEntry]] /\ Standing(w) /\ lCall[w].pc = "holds"
      /\ lCall[w].next = 1 /\ lCall[w].told = "none" /\ lLock = w
  BY DEF LinkInv, LinkTypes, Linkers!Reuse, Linkers!At, Standing
<1>2. UNCHANGED <<lCut, lTemplate, lResidue, lLock, lStore>>
  BY DEF Linkers!Reuse
<1>3. SUFFICES ASSUME LinkTypes', Standing(w)', \A u \in LWorktree \ {w} : lTree'[u] = lTree[u] /\ lCall'[u] = lCall[u]
               PROVE LinkInv'
  <2>1. CASE ~lCall[w].cached /\ Linkers!TreeIsComplete(lTree[w], Linkers!Available(lTree[w])) /\ Linkers!Goes(w, "publish") /\ UNCHANGED lTree
    <3>1. /\ lCall' \in [LWorktree -> LinkCallOK] /\ lCall'[w].pc = "publish" /\ lCall'[w].told = "none"
          /\ lCall'[w].next = 1 /\ \A u \in LWorktree \ {w} : lCall'[u] = lCall[u]
      BY <1>1, <2>1, LinkGoes DEF LinkStage
    <3>2. LinkTypes'
      BY <1>2, <2>1, <3>1 DEF LinkInv, LinkTypes
    <3>3. w \notin lCut => Linkers!Whole(lTree[w])
      BY <1>1, <2>1 DEF Standing, Linkers!TreeIsComplete
    <3>4. Standing(w)'
      BY <1>1, <1>2, <2>1, <3>1, <3>3 DEF Standing, Linkers!HasMarker, Linkers!Whole
    <3> QED
      BY <1>3, <2>1, <3>1, <3>2, <3>4
  <2>2. CASE lTemplate # Linkers!NoTemplate /\ Linkers!TreeIsComplete(lTree[w], Linkers!Available(lTemplate)) /\ Linkers!Goes(w, "ready") /\ UNCHANGED lTree
    <3>1. /\ lCall' \in [LWorktree -> LinkCallOK] /\ lCall'[w].pc = "ready" /\ lCall'[w].told = "none"
          /\ lCall'[w].next = 1 /\ \A u \in LWorktree \ {w} : lCall'[u] = lCall[u]
      BY <1>1, <2>2, LinkGoes DEF LinkStage
    <3>2. LinkTypes'
      BY <1>2, <2>2, <3>1 DEF LinkInv, LinkTypes
    <3>3. w \notin lCut => Linkers!Whole(lTree[w])
      BY <1>1, <2>2 DEF Standing, Linkers!TreeIsComplete
    <3>4. Standing(w)'
      BY <1>1, <1>2, <2>2, <3>1, <3>3 DEF Standing, Linkers!HasMarker, Linkers!Whole
    <3> QED
      BY <1>3, <2>2, <3>1, <3>2, <3>4
  <2>3. CASE /\ lTemplate # Linkers!NoTemplate /\ Linkers!Goes(w, "copies")
             /\ lTree' = [lTree EXCEPT ![w] = [l \in Linkers!Linker |-> IF l \in Linkers!Available(lTemplate) THEN "none" ELSE @[l]]]
    <3>1. /\ lCall' \in [LWorktree -> LinkCallOK] /\ lCall'[w].pc = "copies" /\ lCall'[w].told = "none"
          /\ lCall'[w].next = 1 /\ \A u \in LWorktree \ {w} : lCall'[u] = lCall[u]
      BY <1>1, <2>3, LinkGoes DEF LinkStage
    <3>2. [l \in Linkers!Linker |-> IF l \in Linkers!Available(lTemplate) THEN "none" ELSE lTree[w][l]] \in [Linkers!Linker -> LinkEntry]
      BY <1>1 DEF LinkEntry
    <3>3. lTree' \in [LWorktree -> [Linkers!Linker -> LinkEntry]] /\ \A u \in LWorktree \ {w} : lTree'[u] = lTree[u]
      BY <1>1, <2>3, <3>2
    <3>4. LinkTypes'
      BY <1>2, <3>1, <3>3 DEF LinkInv, LinkTypes
    <3>5. Linkers!NoTemplate' = Linkers!NoTemplate /\ 1 <= Len(LOrder)
      BY LinkOrder DEF Linkers!NoTemplate
    <3>6. Standing(w)'
      BY <1>1, <1>2, <2>3, <3>1, <3>5 DEF Standing
    <3> QED
      BY <1>3, <3>1, <3>3, <3>4, <3>6
  <2>4. CASE lCall[w].cached /\ Linkers!Goes(w, "refused") /\ UNCHANGED lTree
    <3>1. /\ lCall' \in [LWorktree -> LinkCallOK] /\ lCall'[w].pc = "refused" /\ lCall'[w].told = "none"
          /\ lCall'[w].next = 1 /\ \A u \in LWorktree \ {w} : lCall'[u] = lCall[u]
      BY <1>1, <2>4, LinkGoes DEF LinkStage
    <3>2. LinkTypes'
      BY <1>2, <2>4, <3>1 DEF LinkInv, LinkTypes
    <3>4. Standing(w)'
      BY <1>1, <1>2, <2>4, <3>1 DEF Standing, Linkers!HasMarker, Linkers!Whole
    <3> QED
      BY <1>3, <2>4, <3>1, <3>2, <3>4
  <2>5. CASE ~lCall[w].cached /\ Linkers!Goes(w, "installs") /\ lTree' = [lTree EXCEPT ![w]["root"] = "none"]
    <3>1. /\ lCall' \in [LWorktree -> LinkCallOK] /\ lCall'[w].pc = "installs" /\ lCall'[w].told = "none"
          /\ lCall'[w].next = 1 /\ \A u \in LWorktree \ {w} : lCall'[u] = lCall[u]
      BY <1>1, <2>5, LinkGoes DEF LinkStage
    <3>2. lTree' \in [LWorktree -> [Linkers!Linker -> LinkEntry]] /\ lTree'[w]["root"] = "none" /\ \A u \in LWorktree \ {w} : lTree'[u] = lTree[u]
      BY <1>1, <2>5, LinkOrder DEF LinkEntry
    <3>3. LinkTypes'
      BY <1>2, <3>1, <3>2 DEF LinkInv, LinkTypes
    <3>4. Standing(w)'
      BY <1>1, <1>2, <3>1, <3>2 DEF Standing, Linkers!HasMarker
    <3> QED
      BY <1>3, <3>1, <3>2, <3>3, <3>4
  <2>6. CASE ~lCall[w].cached /\ Linkers!Goes(w, "installs") /\ UNCHANGED lTree
    <3>1. /\ lCall' \in [LWorktree -> LinkCallOK] /\ lCall'[w].pc = "installs" /\ lCall'[w].told = "none"
          /\ lCall'[w].next = 1 /\ \A u \in LWorktree \ {w} : lCall'[u] = lCall[u]
      BY <1>1, <2>6, LinkGoes DEF LinkStage
    <3>2. LinkTypes'
      BY <1>2, <2>6, <3>1 DEF LinkInv, LinkTypes
    <3>4. Standing(w)'
      BY <1>1, <1>2, <2>6, <3>1 DEF Standing, Linkers!HasMarker, Linkers!Whole
    <3> QED
      BY <1>3, <2>6, <3>1, <3>2, <3>4
  <2>7. lCall[w].cached \in BOOLEAN
    BY <1>1 DEF LinkCallOK
  <2> QED
    BY <2>1, <2>2, <2>3, <2>4, <2>5, <2>6, <2>7 DEF Linkers!Reuse
<1> QED
  BY <1>2, <1>3, LinkStep

LEMMA LinkCopy ==
  ASSUME LinkInv, NEW w \in LWorktree, Linkers!CopyTemplate(w)
  PROVE  LinkInv'
<1> DEFINE n == lCall[w].next
           l == LOrder[n]
<1>1. lCall \in [LWorktree -> LinkCallOK] /\ lTree \in [LWorktree -> [Linkers!Linker -> LinkEntry]] /\ Standing(w) /\ lCall[w].pc = "copies"
      /\ lTemplate \in [Linkers!Linker -> LinkEntry] /\ lCut \subseteq LWorktree \cup {"template"}
  BY DEF LinkInv, LinkTypes, Linkers!CopyTemplate, Linkers!At
<1>2. /\ lTemplate # Linkers!NoTemplate /\ n \in 1 .. Len(LOrder) /\ l \in Linkers!Linker /\ lCall[w].told = "none" /\ lLock = w
      /\ w \notin lCut => \A i \in 1 .. n - 1 : lTree[w][LOrder[i]] = "whole"
  BY <1>1, LinkOrder DEF Standing, LinkCallOK
<1>3. UNCHANGED <<lTemplate, lResidue>>
  BY DEF Linkers!CopyTemplate
<1>4. CASE /\ lTree' = [lTree EXCEPT ![w][l] = IF l \in Linkers!Available(lTemplate) THEN lTemplate[l] ELSE @]
           /\ lCall' = [lCall EXCEPT ![w].next = @ + 1, ![w].pc = IF n = Len(LOrder) THEN "ready" ELSE "copies"]
           /\ lCut' = IF "template" \in lCut THEN lCut \cup {w} ELSE IF n = 1 THEN lCut \ {w} ELSE lCut
           /\ UNCHANGED <<lLock, lStore>>
  <2>1. lCall' = [lCall EXCEPT ![w].next = n + 1, ![w].pc = IF n = Len(LOrder) THEN "ready" ELSE "copies"]
    BY <1>1, <1>4
  <2>2. n + 1 \in 1 .. Len(LOrder) + 1
    BY <1>2, LinkOrder
  <2>3. /\ lCall' \in [LWorktree -> LinkCallOK] /\ \A u \in LWorktree \ {w} : lCall'[u] = lCall[u]
        /\ lCall'[w].next = n + 1 /\ lCall'[w].told = "none" /\ lCall'[w].pc = IF n = Len(LOrder) THEN "ready" ELSE "copies"
    BY <1>1, <1>2, <2>1, <2>2 DEF LinkCallOK, LinkStage
  <2>4. /\ lTree' \in [LWorktree -> [Linkers!Linker -> LinkEntry]] /\ \A u \in LWorktree \ {w} : lTree'[u] = lTree[u]
        /\ \A k \in Linkers!Linker \ {l} : lTree'[w][k] = lTree[w][k]
        /\ l \in Linkers!Available(lTemplate) => lTree'[w][l] = lTemplate[l]
    BY <1>1, <1>2, <1>4
  <2>5. lCut' \subseteq LWorktree \cup {"template"} /\ \A u \in LWorktree \ {w} : u \in lCut' <=> u \in lCut
    BY <1>1, <1>4
  <2>6. LinkTypes'
    BY <1>3, <1>4, <2>3, <2>4, <2>5 DEF LinkInv, LinkTypes
  <2>7. w \notin lCut' => "template" \notin lCut /\ (n = 1 \/ w \notin lCut)
    BY <1>4
  <2>8. "template" \notin lCut => lTree'[w][l] = "whole"
    <3>1. "template" \notin lCut => lTemplate[l] = "whole"
      BY <1>2 DEF LinkInv, Linkers!Whole
    <3> QED
      BY <1>2, <2>4, <3>1 DEF Linkers!Available
  <2>9. w \notin lCut' => \A i \in 1 .. n : lTree'[w][LOrder[i]] = "whole"
    <3> SUFFICES ASSUME w \notin lCut', NEW i \in 1 .. n PROVE lTree'[w][LOrder[i]] = "whole"
      OBVIOUS
    <3>1. CASE LOrder[i] = l
      BY <2>7, <2>8, <3>1
    <3>2. CASE LOrder[i] # l
      <4>1. i # n /\ i \in 1 .. n - 1 /\ LOrder[i] \in Linkers!Linker
        BY <1>2, <3>2, LinkOrder
      <4> QED
        BY <1>2, <2>4, <2>7, <3>2, <4>1
    <3> QED
      BY <3>1, <3>2
  <2>10. n = Len(LOrder) /\ w \notin lCut' => \A k \in Linkers!Linker : lTree'[w][k] = "whole"
    BY <2>9, LinkOrder
  <2>11. n # Len(LOrder) => n + 1 <= Len(LOrder)
    BY <1>2, LinkOrder
  <2>12. n + 1 - 1 = n
    BY <1>2
  <2>13. Standing(w)'
    <3>1. CASE n = Len(LOrder)
      BY <1>2, <1>4, <2>3, <2>10, <3>1 DEF Standing, Linkers!Whole
    <3>2. CASE n # Len(LOrder)
      <4>1. lTemplate' # Linkers!NoTemplate'
        BY <1>2, <1>3 DEF Linkers!NoTemplate
      <4>2. lCall'[w].pc = "copies" /\ lCall'[w].told = "none" /\ lCall'[w].next <= Len(LOrder) /\ lCall'[w].next - 1 = n
        BY <1>2, <2>3, <2>11, <2>12, <3>2
      <4>3. w \notin lCut' => \A i \in 1 .. lCall'[w].next - 1 : lTree'[w][LOrder[i]] = "whole"
        BY <2>9, <4>2
      <4> HIDE DEF n, l
      <4> QED
        BY <1>2, <1>4, <4>1, <4>2, <4>3 DEF Standing
    <3> QED
      BY <3>1, <3>2
  <2>14. ("template" \notin lCut' => "template" \notin lCut) /\ UNCHANGED <<lTemplate, lLock>>
    BY <1>3, <1>4, LinkNames
  <2> QED
    BY <2>3, <2>4, <2>5, <2>6, <2>13, <2>14, LinkStep
<1>5. CASE /\ \E some \in Linkers!Cut(l) : lTree' = [lTree EXCEPT ![w][l] = some]
           /\ lCut' = lCut \cup {w}
           /\ Linkers!Ends(w, "blocked")
  <2>1. /\ lCall' \in [LWorktree -> LinkCallOK] /\ {lLock', lStore'} \subseteq LWorktree \cup {Linkers!Nobody}
        /\ lCall'[w].pc = "idle" /\ lCall'[w].told = "blocked" /\ lCall'[w].next = 1
        /\ \A u \in LWorktree \ {w} : lCall'[u] = lCall[u] /\ (lLock = u => lLock' = u)
    BY <1>5, LinkEnds
  <2>2. Linkers!Cut(l) \subseteq LinkEntry
    BY DEF Linkers!Cut, LinkEntry
  <2>3. lTree' \in [LWorktree -> [Linkers!Linker -> LinkEntry]] /\ \A u \in LWorktree \ {w} : lTree'[u] = lTree[u]
    BY <1>1, <1>2, <1>5, <2>2
  <2>4. LinkTypes'
    BY <1>1, <1>3, <1>5, <2>1, <2>3 DEF LinkInv, LinkTypes
  <2>5. Standing(w)'
    BY <1>5, <2>1 DEF Standing
  <2>6. UNCHANGED lTemplate /\ ("template" \notin lCut' => "template" \notin lCut) /\ \A u \in LWorktree \ {w} : u \in lCut' <=> u \in lCut
    BY <1>3, <1>5
  <2> QED
    BY <2>1, <2>3, <2>4, <2>5, <2>6, LinkStep
<1> QED
  BY <1>4, <1>5 DEF Linkers!CopyTemplate

LEMMA LinkTakeStore ==
  ASSUME LinkInv, NEW w \in LWorktree, Linkers!TakeStore(w)
  PROVE  LinkInv'
<1>1. lCall \in [LWorktree -> LinkCallOK] /\ Standing(w) /\ lCall[w].pc = "installs" /\ lCall[w].told = "none" /\ lLock = w
  BY DEF LinkInv, LinkTypes, Linkers!TakeStore, Linkers!At, Standing
<1>2. UNCHANGED <<lTree, lCut, lTemplate, lResidue>>
  BY DEF Linkers!TakeStore
<1>3. CASE lStore' = w /\ Linkers!Goes(w, "pnpm") /\ UNCHANGED lLock
  <2>1. /\ lCall' \in [LWorktree -> LinkCallOK] /\ lCall'[w].pc = "pnpm" /\ lCall'[w].told = "none"
        /\ lCall'[w].next = lCall[w].next /\ \A u \in LWorktree \ {w} : lCall'[u] = lCall[u]
    BY <1>1, <1>3, LinkGoes DEF LinkStage
  <2>2. LinkTypes'
    BY <1>2, <1>3, <2>1 DEF LinkInv, LinkTypes
  <2>3. Standing(w)'
    BY <1>1, <1>2, <1>3, <2>1 DEF Standing, Linkers!HasMarker, Linkers!Whole
  <2> QED
    BY <1>2, <1>3, <2>1, <2>2, <2>3, LinkStep
<1>4. CASE Linkers!Ends(w, "blocked")
  <2>1. /\ lCall' \in [LWorktree -> LinkCallOK] /\ {lLock', lStore'} \subseteq LWorktree \cup {Linkers!Nobody}
        /\ lCall'[w].pc = "idle" /\ lCall'[w].told = "blocked" /\ lCall'[w].next = 1
        /\ \A u \in LWorktree \ {w} : lCall'[u] = lCall[u] /\ (lLock = u => lLock' = u)
    BY <1>4, LinkEnds
  <2>2. LinkTypes'
    BY <1>2, <2>1 DEF LinkInv, LinkTypes
  <2>3. Standing(w)'
    BY <1>1, <1>2, <2>1 DEF Standing, Linkers!HasMarker, Linkers!Whole
  <2> QED
    BY <1>2, <2>1, <2>2, <2>3, LinkStep
<1> QED
  BY <1>3, <1>4 DEF Linkers!TakeStore

LEMMA LinkInstall ==
  ASSUME LinkInv, NEW w \in LWorktree, Linkers!Install(w)
  PROVE  LinkInv'
<1>1. /\ lCall \in [LWorktree -> LinkCallOK] /\ lTree \in [LWorktree -> [Linkers!Linker -> LinkEntry]] /\ lCut \subseteq LWorktree \cup {"template"}
      /\ Standing(w) /\ lCall[w].pc = "pnpm" /\ lCall[w].told = "none" /\ lLock = w /\ lStore \in LWorktree \cup {Linkers!Nobody}
  BY DEF LinkInv, LinkTypes, Linkers!Install, Linkers!At, Standing
<1>2. UNCHANGED <<lTemplate, lResidue>>
  BY DEF Linkers!Install
<1>3. CASE /\ lTree' = [lTree EXCEPT ![w] = [l \in Linkers!Linker |-> IF l = "root" THEN "bare" ELSE "whole"]]
           /\ lCut' = lCut \ {w}
           /\ lStore' = Linkers!Free(lStore, w) /\ Linkers!Goes(w, "mark") /\ UNCHANGED lLock
  <2>1. /\ lCall' \in [LWorktree -> LinkCallOK] /\ lCall'[w].pc = "mark" /\ lCall'[w].told = "none"
        /\ lCall'[w].next = lCall[w].next /\ \A u \in LWorktree \ {w} : lCall'[u] = lCall[u]
    BY <1>1, <1>3, LinkGoes DEF LinkStage
  <2>2. /\ lTree' \in [LWorktree -> [Linkers!Linker -> LinkEntry]] /\ \A u \in LWorktree \ {w} : lTree'[u] = lTree[u]
        /\ lTree'[w]["root"] = "bare" /\ \A l \in Linkers!Linker \ {"root"} : lTree'[w][l] = "whole"
    BY <1>1, <1>3, LinkOrder DEF LinkEntry
  <2>3. lStore' \in LWorktree \cup {Linkers!Nobody}
    BY <1>1, <1>3 DEF Linkers!Free
  <2>4. LinkTypes'
    BY <1>1, <1>2, <1>3, <2>1, <2>2, <2>3 DEF LinkInv, LinkTypes
  <2>5. Standing(w)'
    BY <1>1, <1>3, <2>1, <2>2 DEF Standing, Linkers!HasMarker
  <2>6. ("template" \notin lCut' => "template" \notin lCut) /\ \A u \in LWorktree \ {w} : u \in lCut' <=> u \in lCut
    BY <1>3, LinkNames
  <2> QED
    BY <1>2, <1>3, <2>1, <2>2, <2>4, <2>5, <2>6, LinkStep
<1>4. CASE /\ \E root \in {"part", "bare"}, others \in SUBSET (Linkers!Linker \ {"root"}) :
                 lTree' = [lTree EXCEPT ![w] = [l \in Linkers!Linker |->
                      IF l = "root" THEN root ELSE IF l \in others THEN "part" ELSE @[l]]]
           /\ Linkers!Ends(w, "blocked") /\ UNCHANGED lCut
  <2>1. /\ lCall' \in [LWorktree -> LinkCallOK] /\ {lLock', lStore'} \subseteq LWorktree \cup {Linkers!Nobody}
        /\ lCall'[w].pc = "idle" /\ lCall'[w].told = "blocked" /\ lCall'[w].next = 1
        /\ \A u \in LWorktree \ {w} : lCall'[u] = lCall[u] /\ (lLock = u => lLock' = u)
    BY <1>4, LinkEnds
  <2>2. PICK root \in {"part", "bare"}, others \in SUBSET (Linkers!Linker \ {"root"}) :
                 lTree' = [lTree EXCEPT ![w] = [l \in Linkers!Linker |->
                      IF l = "root" THEN root ELSE IF l \in others THEN "part" ELSE @[l]]]
    BY <1>4
  <2>3. [l \in Linkers!Linker |-> IF l = "root" THEN root ELSE IF l \in others THEN "part" ELSE lTree[w][l]] \in [Linkers!Linker -> LinkEntry]
    BY <1>1 DEF LinkEntry
  <2>4. /\ lTree' \in [LWorktree -> [Linkers!Linker -> LinkEntry]] /\ \A u \in LWorktree \ {w} : lTree'[u] = lTree[u]
        /\ lTree'[w]["root"] = root
    BY <1>1, <2>2, <2>3, LinkOrder
  <2>5. LinkTypes'
    BY <1>2, <1>4, <2>1, <2>4 DEF LinkInv, LinkTypes
  <2>6. Standing(w)'
    BY <2>1, <2>4 DEF Standing, Linkers!HasMarker
  <2> QED
    BY <1>2, <1>4, <2>1, <2>4, <2>5, <2>6, LinkStep
<1> QED
  BY <1>3, <1>4 DEF Linkers!Install

LEMMA LinkWriteMarker ==
  ASSUME LinkInv, NEW w \in LWorktree, Linkers!WriteMarker(w)
  PROVE  LinkInv'
<1>1. /\ lCall \in [LWorktree -> LinkCallOK] /\ lTree \in [LWorktree -> [Linkers!Linker -> LinkEntry]]
      /\ lCall[w].pc = "mark" /\ lCall[w].told = "none" /\ lLock = w
      /\ \A l \in Linkers!Linker \ {"root"} : lTree[w][l] = "whole"
  BY DEF LinkInv, LinkTypes, Linkers!WriteMarker, Linkers!At, Standing
<1>2. UNCHANGED <<lCut, lTemplate, lResidue, lLock, lStore>> /\ lTree' = [lTree EXCEPT ![w]["root"] = "whole"] /\ Linkers!Goes(w, "publish")
  BY DEF Linkers!WriteMarker
<1>3. /\ lCall' \in [LWorktree -> LinkCallOK] /\ lCall'[w].pc = "publish" /\ lCall'[w].told = "none"
      /\ lCall'[w].next = lCall[w].next /\ \A u \in LWorktree \ {w} : lCall'[u] = lCall[u]
  BY <1>1, <1>2, LinkGoes DEF LinkStage
<1>4. /\ lTree' \in [LWorktree -> [Linkers!Linker -> LinkEntry]] /\ \A u \in LWorktree \ {w} : lTree'[u] = lTree[u]
      /\ \A l \in Linkers!Linker : lTree'[w][l] = "whole"
  BY <1>1, <1>2, LinkOrder DEF LinkEntry
<1>5. LinkTypes'
  BY <1>2, <1>3, <1>4 DEF LinkInv, LinkTypes
<1>6. Standing(w)'
  BY <1>1, <1>2, <1>3, <1>4 DEF Standing, Linkers!Whole
<1> QED
  BY <1>2, <1>3, <1>4, <1>5, <1>6, LinkStep

LEMMA LinkPublish ==
  ASSUME LinkInv, NEW w \in LWorktree, Linkers!Publish(w)
  PROVE  LinkInv'
<1>1. /\ lCall \in [LWorktree -> LinkCallOK] /\ lTree \in [LWorktree -> [Linkers!Linker -> LinkEntry]] /\ lCut \subseteq LWorktree \cup {"template"}
      /\ lTemplate \in [Linkers!Linker -> LinkEntry] /\ Standing(w)
      /\ lCall[w].pc = "publish" /\ lCall[w].told = "none" /\ lLock = w
      /\ w \notin lCut => Linkers!Whole(lTree[w])
  BY DEF LinkInv, LinkTypes, Linkers!Publish, Linkers!At, Standing
<1>2. UNCHANGED <<lTree, lLock, lStore>> /\ Linkers!Goes(w, "ready")
  BY DEF Linkers!Publish
<1>3. /\ lCall' \in [LWorktree -> LinkCallOK] /\ lCall'[w].pc = "ready" /\ lCall'[w].told = "none"
      /\ lCall'[w].next = lCall[w].next /\ \A u \in LWorktree \ {w} : lCall'[u] = lCall[u]
  BY <1>1, <1>2, LinkGoes DEF LinkStage
<1>4. lCut' = IF lTemplate = Linkers!NoTemplate /\ w \in lCut THEN lCut \cup {"template"} ELSE lCut
  BY DEF Linkers!Publish
<1>5. lCut' \subseteq LWorktree \cup {"template"} /\ \A u \in LWorktree : u \in lCut' <=> u \in lCut
  BY <1>1, <1>4, LinkNames
<1>6. lResidue' \in BOOLEAN /\ \/ UNCHANGED lTemplate
                               \/ lTemplate = Linkers!NoTemplate /\ lTemplate' = lTree[w]
  BY DEF Linkers!Publish, LinkInv, LinkTypes, Linkers!Staged
<1>7. lTemplate' \in [Linkers!Linker -> LinkEntry]
  BY <1>1, <1>6
<1>8. LinkTypes'
  BY <1>2, <1>3, <1>5, <1>6, <1>7 DEF LinkInv, LinkTypes
<1>9. Standing(w)'
  BY <1>1, <1>2, <1>3, <1>5 DEF Standing, Linkers!Whole
<1>10. ASSUME NEW u \in LWorktree \ {w} PROVE Standing(u)'
  <2>1. lTemplate # Linkers!NoTemplate => lTemplate' = lTemplate
    BY <1>6
  <2> QED
    BY <1>2, <1>3, <1>5, <2>1, LinkFrame DEF LinkInv
<1>11. (lTemplate # Linkers!NoTemplate /\ "template" \notin lCut => Linkers!Whole(lTemplate))'
  <2>1. CASE UNCHANGED lTemplate
    <3>1. "template" \notin lCut' => "template" \notin lCut
      BY <1>4
    <3> QED
      BY <2>1, <3>1 DEF LinkInv, Linkers!Whole, Linkers!NoTemplate
  <2>2. CASE lTemplate = Linkers!NoTemplate /\ lTemplate' = lTree[w]
    BY <1>1, <1>4, <2>2 DEF Linkers!Whole
  <2> QED
    BY <1>6, <2>1, <2>2
<1> QED
  BY <1>8, <1>9, <1>10, <1>11 DEF LinkInv

LEMMA LinkEnd ==
  ASSUME LinkInv, NEW w \in LWorktree, Linkers!End(w)
  PROVE  LinkInv'
<1>1. lCall \in [LWorktree -> LinkCallOK] /\ Standing(w) /\ lCall[w].pc \in {"ready", "refused"}
  BY DEF LinkInv, LinkTypes, Linkers!End
<1>2. PICK what \in {"ready", "blocked"} : Linkers!Ends(w, what) /\ (what = "ready" => lCall[w].pc = "ready")
  BY DEF Linkers!End, Linkers!At
<1>3. UNCHANGED <<lTree, lCut, lTemplate, lResidue>>
  BY DEF Linkers!End
<1>4. /\ lCall' \in [LWorktree -> LinkCallOK] /\ {lLock', lStore'} \subseteq LWorktree \cup {Linkers!Nobody}
      /\ lCall'[w].pc = "idle" /\ lCall'[w].told = what /\ lCall'[w].next = 1
      /\ \A u \in LWorktree \ {w} : lCall'[u] = lCall[u] /\ (lLock = u => lLock' = u)
  BY <1>2, LinkEnds
<1>5. LinkTypes'
  BY <1>3, <1>4 DEF LinkInv, LinkTypes
<1>6. Standing(w)'
  BY <1>1, <1>2, <1>3, <1>4 DEF Standing, Linkers!HasMarker, Linkers!Whole
<1> QED
  BY <1>3, <1>4, <1>5, <1>6, LinkStep

LEMMA LinkDie ==
  ASSUME LinkInv, NEW w \in LWorktree, Linkers!Die(w)
  PROVE  LinkInv'
<1>1. /\ lCall \in [LWorktree -> LinkCallOK] /\ lTree \in [LWorktree -> [Linkers!Linker -> LinkEntry]] /\ lCut \subseteq LWorktree \cup {"template"}
      /\ Standing(w) /\ Linkers!Ends(w, "none")
  BY DEF LinkInv, LinkTypes, Linkers!Die
<1>2. /\ lCall' \in [LWorktree -> LinkCallOK] /\ {lLock', lStore'} \subseteq LWorktree \cup {Linkers!Nobody}
      /\ lCall'[w].pc = "idle" /\ lCall'[w].told = "none" /\ lCall'[w].next = 1
      /\ \A u \in LWorktree \ {w} : lCall'[u] = lCall[u] /\ (lLock = u => lLock' = u)
  BY <1>1, LinkEnds
<1>3. CASE lCall[w].pc = "copies"
  <2>1. /\ \E some \in Linkers!Cut(LOrder[lCall[w].next]) : lTree' = [lTree EXCEPT ![w][LOrder[lCall[w].next]] = some]
        /\ lCut' = lCut \cup {w} /\ UNCHANGED <<lTemplate, lResidue>>
    BY <1>3 DEF Linkers!Die, Linkers!At
  <2>2. LOrder[lCall[w].next] \in Linkers!Linker /\ Linkers!Cut(LOrder[lCall[w].next]) \subseteq LinkEntry
    <3>1. lCall[w].next \in 1 .. Len(LOrder)
      BY <1>1, <1>3, LinkOrder DEF Standing, LinkCallOK
    <3> QED
      BY <3>1, LinkOrder DEF Linkers!Cut, LinkEntry
  <2>3. lTree' \in [LWorktree -> [Linkers!Linker -> LinkEntry]] /\ \A u \in LWorktree \ {w} : lTree'[u] = lTree[u]
    BY <1>1, <2>1, <2>2
  <2>4. LinkTypes'
    BY <1>1, <1>2, <2>1, <2>3 DEF LinkInv, LinkTypes
  <2>5. Standing(w)'
    BY <1>2, <2>1 DEF Standing
  <2>6. UNCHANGED lTemplate /\ ("template" \notin lCut' => "template" \notin lCut) /\ \A u \in LWorktree \ {w} : u \in lCut' <=> u \in lCut
    BY <2>1
  <2> QED
    BY <1>2, <2>3, <2>4, <2>5, <2>6, LinkStep
<1>4. CASE lCall[w].pc # "copies"
  <2>1. /\ UNCHANGED <<lTree, lTemplate>> /\ lResidue' \in BOOLEAN
        /\ lCut' = lCut \/ lCut' = lCut \cup {"template"}
    BY <1>4 DEF Linkers!Die, Linkers!At, Linkers!Staged, LinkInv, LinkTypes
  <2>2. LinkTypes'
    BY <1>1, <1>2, <2>1 DEF LinkInv, LinkTypes
  <2>3. \A u \in LWorktree : u \in lCut' <=> u \in lCut
    BY <2>1, LinkNames
  <2>4. Standing(w)'
    BY <1>1, <1>2, <1>4, <2>1, <2>3 DEF Standing, Linkers!HasMarker, Linkers!Whole
  <2>5. "template" \notin lCut' => "template" \notin lCut
    BY <2>1
  <2> QED
    BY <1>2, <2>1, <2>2, <2>3, <2>4, <2>5, LinkStep
<1> QED
  BY <1>3, <1>4

LEMMA LinkRenew ==
  ASSUME LinkInv, NEW w \in LWorktree, Linkers!Renew(w)
  PROVE  LinkInv'
<1>1. /\ lCall \in [LWorktree -> LinkCallOK] /\ lTree \in [LWorktree -> [Linkers!Linker -> LinkEntry]] /\ lCut \subseteq LWorktree \cup {"template"}
  BY DEF LinkInv, LinkTypes
<1>2. /\ lTree' = [lTree EXCEPT ![w] = Linkers!NoTemplate] /\ lCut' = lCut \ {w}
      /\ lCall' = [lCall EXCEPT ![w] = Linkers!NoCall] /\ UNCHANGED <<lTemplate, lResidue, lLock, lStore>>
  BY DEF Linkers!Renew
<1>3. Linkers!NoCall \in LinkCallOK /\ Linkers!NoCall.pc = "idle" /\ Linkers!NoCall.told = "none" /\ Linkers!NoCall.next = 1
  BY LinkCalls DEF Linkers!NoCall, LinkStage
<1>4. Linkers!NoTemplate \in [Linkers!Linker -> LinkEntry] /\ Linkers!NoTemplate["root"] = "none"
  BY LinkOrder DEF Linkers!NoTemplate, LinkEntry
<1>5. /\ lCall' \in [LWorktree -> LinkCallOK] /\ lTree' \in [LWorktree -> [Linkers!Linker -> LinkEntry]]
      /\ lCall'[w] = Linkers!NoCall /\ lTree'[w] = Linkers!NoTemplate
      /\ \A u \in LWorktree \ {w} : lCall'[u] = lCall[u] /\ lTree'[u] = lTree[u]
  BY <1>1, <1>2, <1>3, <1>4
<1>6. LinkTypes'
  BY <1>1, <1>2, <1>5 DEF LinkInv, LinkTypes
<1>7. Standing(w)'
  BY <1>3, <1>4, <1>5 DEF Standing, Linkers!HasMarker
<1>8. ("template" \notin lCut' => "template" \notin lCut) /\ \A u \in LWorktree \ {w} : u \in lCut' <=> u \in lCut
  BY <1>2, LinkNames
<1> QED
  BY <1>2, <1>5, <1>6, <1>7, <1>8, LinkStep

LEMMA LinkNextLemma == LinkInv /\ [Linkers!Next]_Linkers!vars => LinkInv'
<1> SUFFICES ASSUME LinkInv, [Linkers!Next]_Linkers!vars PROVE LinkInv'
  OBVIOUS
<1>1. CASE UNCHANGED Linkers!vars
  BY <1>1 DEF Linkers!vars, LinkInv, LinkTypes, Standing, Linkers!HasMarker, Linkers!Whole, Linkers!NoTemplate
<1>2. ASSUME NEW w \in LWorktree, NEW cached \in BOOLEAN, Linkers!Begin(w, cached) PROVE LinkInv'
  BY <1>2, LinkBegin
<1>3. ASSUME NEW w \in LWorktree,
             \/ Linkers!TakeLock(w) \/ Linkers!Reuse(w) \/ Linkers!CopyTemplate(w) \/ Linkers!TakeStore(w) \/ Linkers!Install(w)
             \/ Linkers!WriteMarker(w) \/ Linkers!Publish(w) \/ Linkers!End(w) \/ Linkers!Die(w) \/ Linkers!Renew(w)
      PROVE LinkInv'
  BY <1>3, LinkTakeLock, LinkReuse, LinkCopy, LinkTakeStore, LinkInstall, LinkWriteMarker, LinkPublish,
     LinkEnd, LinkDie, LinkRenew
<1> QED
  BY <1>1, <1>2, <1>3 DEF Linkers!Next

LEMMA LinkImplies == LinkInv => Linkers!TypeOK /\ Linkers!WholeUnlessCut
<1> SUFFICES ASSUME LinkInv PROVE Linkers!TypeOK /\ Linkers!WholeUnlessCut
  OBVIOUS
<1>1. Linkers!TypeOK
  BY DEF LinkInv, LinkTypes, Linkers!TypeOK, LinkEntry, LinkCallOK
<1>2. Linkers!WholeUnlessCut
  BY DEF LinkInv, Standing, Linkers!WholeUnlessCut
<1> QED
  BY <1>1, <1>2

\* A template and a copy that is called ready have every linker and its marker, unless the
\* process that made them died or failed on the way (worktree linker templates).
THEOREM CopiesAreWhole == Linkers!Spec => [](Linkers!TypeOK /\ Linkers!WholeUnlessCut)
<1>1. Linkers!Spec => []LinkInv
  BY LinkInitLemma, LinkNextLemma, PTL DEF Linkers!Spec
<1> QED
  BY <1>1, LinkImplies, PTL

-----------------------------------------------------------------------------
(* ContractAmendments: what a prepared amendment was computed from, and what  *)
(* it makes of the contracts.                                                 *)

\* The operators of FiniteSets as the instance imports them.
LEMMA AmendmentsSizes ==
    /\ \A S : Amendments!Cardinality(S) = Cardinality(S)
    /\ \A S : Amendments!IsFiniteSet(S) <=> IsFiniteSet(S)
  BY DEF Amendments!Cardinality, Cardinality, Amendments!IsFiniteSet, IsFiniteSet

LEMMA AmendAssumed == Amendments!AmendmentsAssumption
  BY ProtocolsAssumption


TaskOK == [state : {"blocked", "needs_approval", "queued", "running"}, revision : 1 .. CMaxRevision,
           hosts : Nat, allowed : SUBSET (CFixed \cup {CExact})]
WorkerOK == [state : {"blocked", "indeterminate", "pending", "running"}, attempt : Nat,
             reads : SUBSET CFixed, writes : SUBSET (CFixed \cup {CExact, CLegacy})]
VerifierOK == [attempt : 0 .. 1, reads : SUBSET CFixed, writes : {{}}, meta : {"stale", "derived"}, busy : BOOLEAN]
FilesOK == [version : 1 .. CMaxVersion, busy : BOOLEAN, matches : SUBSET {CExact, CLegacy}]
AmendStep == {"idle", "shown", "checked", "applied", "refused"}
AskOK == [at : AmendStep, kind : Amendments!Kinds, shown : {cCall[c].shown : c \in CCall}]

AmendTypes ==
    /\ cTask \in TaskOK /\ cD \in WorkerOK /\ cE \in VerifierOK /\ cFiles \in FilesOK /\ cValidating \in BOOLEAN
    /\ cCall \in [CCall -> AskOK]

\* A validation executes on a stopped task only; what was checked was fit to be applied.
Prepared ==
    /\ cValidating => cTask.state = "blocked" /\ cD.state = "blocked"
    /\ \A c \in CCall : cCall[c].at = "checked" =>
          /\ cCall[c].kind = "acceptance" => cCall[c].shown.binding.task.hosts = 0
          /\ cCall[c].kind = "exact" => ~Amendments!Conflicts(cCall[c].shown.binding.running)

Hosts == {c \in CCall : cCall[c].at = "applied" /\ cCall[c].kind = "acceptance"}
AmendInv ==
    /\ AmendTypes
    /\ Prepared
    /\ cTask.hosts = Cardinality(Hosts)
    /\ cTask.hosts <= 1
    /\ \A c \in CCall : cCall[c].at = "applied" =>
          /\ cCall[c].kind = "scope" => CFixed \subseteq cTask.allowed /\ CFixed \subseteq cD.writes /\ CFixed \subseteq cE.reads
          /\ cCall[c].kind = "exact" => CLegacy \notin cD.writes /\ CExact \in cD.writes

LEMMA AmendConstants ==
    /\ IsFiniteSet(CCall) /\ CExact # CLegacy /\ CExact \notin CFixed /\ CLegacy \notin CFixed
    /\ CMaxRevision \in Nat \ {0} /\ CMaxVersion \in Nat \ {0}
  BY AmendAssumed, AmendmentsSizes DEF Amendments!AmendmentsAssumption

LEMMA AmendInitLemma == Amendments!Init => AmendInv
<1> SUFFICES ASSUME Amendments!Init PROVE AmendInv
  OBVIOUS
<1>1. Amendments!None.at = "idle" /\ Amendments!None.kind = "acceptance" /\ Amendments!None.shown = <<>>
  BY DEF Amendments!None
<1>2. \A c \in CCall : cCall[c] = Amendments!None
  BY DEF Amendments!Init
<1>3. Amendments!None \in [at : AmendStep, kind : Amendments!Kinds, shown : {<<>>}]
  BY DEF Amendments!None, AmendStep, Amendments!Kinds
<1>4. cCall \in [CCall -> AskOK]
  <2>1. \A c \in CCall : Amendments!None \in AskOK
    BY <1>1, <1>2, <1>3 DEF AskOK
  <2> QED
    BY <2>1 DEF Amendments!Init
<1>5. 1 \in 1 .. CMaxRevision /\ 1 \in 1 .. CMaxVersion
  BY AmendConstants
<1>6. AmendTypes
  <2>1. cTask \in TaskOK
    BY <1>5 DEF Amendments!Init, TaskOK
  <2>2. cD \in WorkerOK
    BY DEF Amendments!Init, WorkerOK
  <2>3. cE \in VerifierOK
    BY DEF Amendments!Init, VerifierOK
  <2>4. cFiles \in FilesOK
    BY <1>5 DEF Amendments!Init, FilesOK
  <2> QED
    BY <1>4, <2>1, <2>2, <2>3, <2>4 DEF Amendments!Init, AmendTypes
<1>7. Prepared
  BY <1>1, <1>2 DEF Amendments!Init, Prepared
<1>8. Hosts = {} /\ cTask.hosts = 0
  BY <1>1, <1>2 DEF Amendments!Init, Hosts
<1>9. cTask.hosts = Cardinality(Hosts)
  BY <1>8, FS_EmptySet
<1> QED
  BY <1>1, <1>2, <1>6, <1>7, <1>8, <1>9 DEF AmendInv

\* A step that changes states and revisions, and no call, no contract and no scope.
LEMMA AmendElsewhere ==
  ASSUME AmendInv, UNCHANGED cCall,
         cTask' \in TaskOK, cD' \in WorkerOK, cE' \in VerifierOK, cFiles' \in FilesOK, cValidating' \in BOOLEAN,
         cTask'.hosts = cTask.hosts, cTask'.allowed = cTask.allowed, cD'.writes = cD.writes, cE'.reads = cE.reads,
         cValidating' => cTask'.state = "blocked" /\ cD'.state = "blocked"
  PROVE  AmendInv'
<1>1. AmendTypes'
  BY DEF AmendInv, AmendTypes, AskOK
<1>2. Prepared'
  BY DEF AmendInv, Prepared, Amendments!Conflicts
<1>3. Hosts' = Hosts
  BY DEF Hosts
<1> QED
  BY <1>1, <1>2, <1>3 DEF AmendInv

LEMMA AmendEnds ==
  ASSUME AmendInv, NEW c \in CCall, NEW at \in AmendStep, Amendments!Ends(c, at)
  PROVE  /\ cCall' \in [CCall -> AskOK']
         /\ cCall'[c].at = at /\ cCall'[c].kind = cCall[c].kind
         /\ \A o \in CCall \ {c} : cCall'[o] = cCall[o]
<1>1. cCall \in [CCall -> AskOK] /\ cCall' = [cCall EXCEPT ![c].at = at, ![c].shown = <<>>]
  BY DEF AmendInv, AmendTypes, Amendments!Ends
<1>2. cCall'[c].at = at /\ cCall'[c].kind = cCall[c].kind /\ cCall'[c].shown = <<>> /\ cCall'[c] \in [at : AmendStep, kind : Amendments!Kinds, shown : {<<>>}]
  BY <1>1 DEF AskOK
<1>3. \A o \in CCall \ {c} : cCall'[o] = cCall[o]
  BY <1>1
<1>4. ASSUME NEW o \in CCall PROVE cCall'[o] \in AskOK'
  <2>1. cCall'[o].shown \in {cCall'[x].shown : x \in CCall}
    OBVIOUS
  <2>2. CASE o = c
    BY <1>2, <2>1, <2>2 DEF AskOK
  <2>3. CASE o # c
    BY <1>1, <1>3, <2>1, <2>3 DEF AskOK
  <2> QED
    BY <2>2, <2>3
<1> QED
  BY <1>1, <1>2, <1>3, <1>4

\* A call takes a preview, and nothing else changes.
LEMMA AmendShown ==
  ASSUME AmendInv, NEW c \in CCall, cCall[c].at \in {"idle", "shown"}, NEW at \in {"shown", "checked"},
         NEW kind \in Amendments!Kinds, NEW p,
         \/ cCall' = [cCall EXCEPT ![c] = [at |-> at, kind |-> kind, shown |-> p]]
         \/ kind = cCall[c].kind /\ cCall' = [cCall EXCEPT ![c].at = at, ![c].shown = p],
         at = "checked" /\ kind = "acceptance" => p.binding.task.hosts = 0,
         at = "checked" /\ kind = "exact" => ~Amendments!Conflicts(p.binding.running),
         UNCHANGED <<cTask, cD, cE, cRival, cFiles, cValidating>>
  PROVE  AmendInv'
<1>1. cCall \in [CCall -> AskOK]
  BY DEF AmendInv, AmendTypes
<1>2. cCall'[c].at = at /\ cCall'[c].kind = kind /\ cCall'[c].shown = p /\ cCall'[c] \in [at : AmendStep, kind : Amendments!Kinds, shown : {p}]
  BY <1>1 DEF AskOK, AmendStep
<1>3. \A o \in CCall \ {c} : cCall'[o] = cCall[o]
  BY <1>1
<1>4. ASSUME NEW o \in CCall PROVE cCall'[o] \in AskOK'
  <2>1. cCall'[o].shown \in {cCall'[x].shown : x \in CCall}
    OBVIOUS
  <2>2. CASE o = c
    BY <1>2, <2>1, <2>2 DEF AskOK
  <2>3. CASE o # c
    BY <1>1, <1>3, <2>1, <2>3 DEF AskOK
  <2> QED
    BY <2>2, <2>3
<1>5. cCall' \in [CCall -> AskOK']
  BY <1>1, <1>4
<1>6. AmendTypes'
  BY <1>5 DEF AmendInv, AmendTypes, TaskOK, WorkerOK, VerifierOK, FilesOK
<1>7. Prepared'
  BY <1>2, <1>3 DEF AmendInv, Prepared, Amendments!Conflicts
<1>8. Hosts' = Hosts
  BY <1>2, <1>3 DEF Hosts
<1> QED
  BY <1>2, <1>3, <1>6, <1>7, <1>8 DEF AmendInv

LEMMA AmendShow ==
  ASSUME AmendInv, NEW c \in CCall, NEW kind \in Amendments!Kinds, Amendments!Show(c, kind)
  PROVE  AmendInv'
  BY AmendShown DEF Amendments!Show

\* A refusal.
LEMMA AmendRefused ==
  ASSUME AmendInv, NEW c \in CCall, cCall[c].at \in {"shown", "checked"}, Amendments!Ends(c, "refused"),
         UNCHANGED <<cTask, cD, cE, cRival, cFiles, cValidating>>
  PROVE  AmendInv'
<1>1. /\ cCall' \in [CCall -> AskOK'] /\ cCall'[c].at = "refused" /\ cCall'[c].kind = cCall[c].kind
      /\ \A o \in CCall \ {c} : cCall'[o] = cCall[o]
  BY AmendEnds DEF AmendStep
<1>2. AmendTypes'
  BY <1>1 DEF AmendInv, AmendTypes, TaskOK, WorkerOK, VerifierOK, FilesOK
<1>3. Prepared'
  BY <1>1 DEF AmendInv, Prepared, Amendments!Conflicts
<1>4. Hosts' = Hosts
  BY <1>1 DEF Hosts
<1> QED
  BY <1>1, <1>2, <1>3, <1>4 DEF AmendInv

LEMMA AmendRecheck ==
  ASSUME AmendInv, NEW c \in CCall, Amendments!Recheck(c)
  PROVE  AmendInv'
<1> DEFINE kind == cCall[c].kind
<1>1. kind \in Amendments!Kinds /\ cCall[c].at = "shown" /\ UNCHANGED <<cTask, cD, cE, cRival, cFiles, cValidating>>
  BY DEF AmendInv, AmendTypes, AskOK, Amendments!Recheck
<1>2. CASE Amendments!Takes(kind) /\ cCall' = [cCall EXCEPT ![c].at = "checked", ![c].shown = Amendments!Preview(kind)]
  <2>1. kind = "acceptance" => Amendments!Preview(kind).binding.task.hosts = 0
    <3> SUFFICES ASSUME kind = "acceptance" PROVE Amendments!Preview(kind).binding.task.hosts = 0
      OBVIOUS
    <3>1. Amendments!Preview(kind).binding = Amendments!Candidate
      BY DEF Amendments!Preview, Amendments!Binding
    <3>2. Amendments!TakesHost
      BY <1>2 DEF Amendments!Takes
    <3> QED
      BY <3>1, <3>2 DEF Amendments!Candidate, Amendments!TakesHost
  <2>2. kind = "exact" => ~Amendments!Conflicts(Amendments!Preview(kind).binding.running)
    <3> SUFFICES ASSUME kind = "exact" PROVE ~Amendments!Conflicts(Amendments!Preview(kind).binding.running)
      OBVIOUS
    <3>1. Amendments!Preview(kind).binding = Amendments!ExactBinding
      BY DEF Amendments!Preview, Amendments!Binding
    <3>2. Amendments!TakesExact
      BY <1>2 DEF Amendments!Takes
    <3> QED
      BY <3>1, <3>2 DEF Amendments!ExactBinding, Amendments!TakesExact, Amendments!Conflicts
  <2> HIDE DEF kind
  <2> QED
    BY <1>1, <1>2, <2>1, <2>2, AmendShown DEF kind
<1>3. CASE Amendments!Ends(c, "refused")
  BY <1>1, <1>3, AmendRefused
<1> QED
  BY <1>2, <1>3 DEF Amendments!Recheck

\* What a commit finds: it applies the amendment to the present documents.
LEMMA AmendUnmoved ==
  ASSUME AmendInv, NEW c \in CCall, cCall[c].at = "checked", Amendments!Unmoved(c)
  PROVE  /\ ~cValidating /\ cD.state # "running"
         /\ cCall[c].kind = "acceptance" => cCall[c].shown.binding = Amendments!Candidate /\ cTask.hosts = 0
         /\ cCall[c].kind = "scope" => cCall[c].shown.binding = Amendments!LaneBinding
         /\ cCall[c].kind = "exact" => cCall[c].shown.binding = Amendments!ExactBinding /\ ~Amendments!Conflicts(cRival)
<1>1. cCall[c].kind \in Amendments!Kinds /\ Prepared /\ Amendments!Eligible(cCall[c].kind) /\ Amendments!Binding(cCall[c].kind) = cCall[c].shown.binding
  BY DEF AmendInv, AmendTypes, AskOK, Amendments!Unmoved
<1>2. ~cValidating /\ cD.state # "running"
  BY <1>1 DEF Amendments!Eligible, Amendments!StoppedBlocked, Prepared
<1>3. CASE cCall[c].kind = "acceptance"
  BY <1>1, <1>2, <1>3 DEF Amendments!Binding, Amendments!Candidate, Prepared
<1>4. CASE cCall[c].kind = "scope"
  BY <1>1, <1>2, <1>4 DEF Amendments!Binding
<1>5. CASE cCall[c].kind = "exact"
  BY <1>1, <1>2, <1>5 DEF Amendments!Binding, Amendments!ExactBinding, Prepared
<1> QED
  BY <1>1, <1>3, <1>4, <1>5 DEF Amendments!Kinds

LEMMA AmendCommit ==
  ASSUME AmendInv, NEW c \in CCall, Amendments!Commit(c)
  PROVE  AmendInv'
<1>1. cCall[c].at = "checked" /\ UNCHANGED <<cRival, cFiles, cValidating>> /\ cCall[c].kind \in Amendments!Kinds
  BY DEF Amendments!Commit, AmendInv, AmendTypes, AskOK
<1>2. CASE Amendments!Ends(c, "refused") /\ UNCHANGED <<cTask, cD, cE>>
  BY <1>1, <1>2, AmendRefused
<1>3. CASE Amendments!Unmoved(c) /\ cTask.revision < CMaxRevision /\ Amendments!Amended(cCall[c].kind, cCall[c].shown.binding) /\ Amendments!Ends(c, "applied")
  <2>1. /\ cCall' \in [CCall -> AskOK'] /\ cCall'[c].at = "applied" /\ cCall'[c].kind = cCall[c].kind
        /\ \A o \in CCall \ {c} : cCall'[o] = cCall[o]
    BY <1>3, AmendEnds DEF AmendStep
  <2>2. /\ ~cValidating
        /\ cCall[c].kind = "acceptance" => cCall[c].shown.binding = Amendments!Candidate /\ cTask.hosts = 0
        /\ cCall[c].kind = "scope" => cCall[c].shown.binding = Amendments!LaneBinding
        /\ cCall[c].kind = "exact" => cCall[c].shown.binding = Amendments!ExactBinding
    BY <1>1, <1>3, AmendUnmoved
  <2>3. /\ cTask \in TaskOK /\ cD \in WorkerOK /\ cE \in VerifierOK /\ cFiles \in FilesOK
        /\ cTask.revision + 1 \in 1 .. CMaxRevision
    BY <1>3, AmendConstants DEF AmendInv, AmendTypes, TaskOK
  <2>4. Prepared'
    BY <1>1, <2>1, <2>2 DEF AmendInv, Prepared, Amendments!Conflicts
  <2>5. IsFiniteSet(Hosts) /\ c \notin Hosts
    BY <1>1, AmendConstants, FS_Subset DEF Hosts
  <2>6. CASE cCall[c].kind = "acceptance"
    <3>1. /\ cTask' = [cTask EXCEPT !.hosts = cTask.hosts + 1, !.allowed = cTask.allowed, !.revision = cTask.revision + 1]
          /\ UNCHANGED <<cD, cE>>
      <4>1. Amendments!AddsHost(cCall[c].shown.binding) /\ cCall[c].shown.binding = Amendments!Candidate
        BY <1>3, <2>2, <2>6 DEF Amendments!Amended
      <4>2. Amendments!Candidate.task = cTask
        BY DEF Amendments!Candidate
      <4> QED
        BY <4>1, <4>2 DEF Amendments!AddsHost
    <3>20. cTask' = [cTask EXCEPT !.hosts = 1, !.allowed = cTask.allowed, !.revision = cTask.revision + 1]
      <4>1. cTask.hosts + 1 = 1
        BY <2>2, <2>6
      <4> QED
        BY <3>1, <4>1
    <3>21. cTask'.hosts = 1 /\ cTask'.allowed = cTask.allowed
      BY <2>3, <3>20 DEF TaskOK
    <3>22. 1 \in Nat
      OBVIOUS
    <3>2. cTask' \in TaskOK /\ cTask'.hosts = 1 /\ cTask'.allowed = cTask.allowed
      BY <2>3, <3>20, <3>21, <3>22 DEF TaskOK
    <3>3. Hosts' = Hosts \cup {c}
      BY <2>1, <2>6 DEF Hosts
    <3>4. Cardinality(Hosts') = 1
      <4>1. Cardinality(Hosts) = 0
        BY <2>2, <2>6 DEF AmendInv
      <4>2. Cardinality(Hosts') = Cardinality(Hosts) + 1
        BY <2>5, <3>3, FS_AddElement
      <4> QED
        BY <4>1, <4>2
    <3>5. AmendTypes'
      BY <1>1, <2>1, <3>1, <3>2 DEF AmendInv, AmendTypes, WorkerOK, VerifierOK, FilesOK
    <3> QED
      BY <2>1, <2>4, <2>6, <3>1, <3>2, <3>4, <3>5 DEF AmendInv
  <2>7. CASE cCall[c].kind # "acceptance"
    <3>1. Hosts' = Hosts
      BY <1>1, <2>1, <2>7 DEF Hosts
    <3>2. CASE cCall[c].kind = "scope"
      <4>1. /\ cTask' = [cTask EXCEPT !.allowed = cTask.allowed \cup CFixed, !.hosts = cTask.hosts, !.revision = cTask.revision + 1]
            /\ cD' = [cD EXCEPT !.reads = cD.reads \cup CFixed, !.writes = cD.writes \cup CFixed]
            /\ cE' = [cE EXCEPT !.reads = cE.reads \cup CFixed]
        <5>1. Amendments!AddsScope(cCall[c].shown.binding) /\ cCall[c].shown.binding = Amendments!LaneBinding
          BY <1>3, <2>2, <3>2 DEF Amendments!Amended
        <5>2. /\ Amendments!LaneBinding.native.task = cTask /\ Amendments!LaneBinding.d.reads = cD.reads /\ Amendments!LaneBinding.d.writes = cD.writes
              /\ Amendments!LaneBinding.e.reads = cE.reads
          BY DEF Amendments!LaneBinding, Amendments!Candidate, Amendments!Spec
        <5> QED
          BY <5>1, <5>2 DEF Amendments!AddsScope
      <4>2. cTask' \in TaskOK /\ cTask'.hosts = cTask.hosts /\ cTask'.allowed = cTask.allowed \cup CFixed
        BY <2>3, <4>1 DEF TaskOK
      <4>3. cD' \in WorkerOK /\ cD'.writes = cD.writes \cup CFixed
        BY <2>3, <4>1 DEF WorkerOK
      <4>4. cE' \in VerifierOK /\ cE'.reads = cE.reads \cup CFixed
        BY <2>3, <4>1 DEF VerifierOK
      <4>5. AmendTypes'
        BY <1>1, <2>1, <4>2, <4>3, <4>4 DEF AmendInv, AmendTypes, FilesOK
      <4> QED
        BY <2>1, <2>4, <3>1, <3>2, <4>2, <4>3, <4>4, <4>5, AmendConstants DEF AmendInv
    <3>3. CASE cCall[c].kind = "exact"
      <4>1. /\ cTask' = [cTask EXCEPT !.revision = cTask.revision + 1]
            /\ cD' = [cD EXCEPT !.writes = (cD.writes \ {CLegacy}) \cup {CExact}]
            /\ UNCHANGED cE
        <5>1. Amendments!Narrows(cCall[c].shown.binding) /\ cCall[c].shown.binding = Amendments!ExactBinding
          BY <1>3, <2>2, <3>3 DEF Amendments!Amended
        <5>2. Amendments!ExactBinding.native.task = cTask /\ Amendments!ExactBinding.d.writes = cD.writes
          BY DEF Amendments!ExactBinding, Amendments!Candidate, Amendments!Spec
        <5> QED
          BY <5>1, <5>2 DEF Amendments!Narrows
      <4>2. cTask' \in TaskOK /\ cTask'.hosts = cTask.hosts /\ cTask'.allowed = cTask.allowed
        BY <2>3, <4>1 DEF TaskOK
      <4>3. cD' \in WorkerOK /\ cD'.writes = (cD.writes \ {CLegacy}) \cup {CExact}
        BY <2>3, <4>1 DEF WorkerOK
      <4>5. AmendTypes'
        BY <1>1, <2>1, <4>1, <4>2, <4>3 DEF AmendInv, AmendTypes, VerifierOK, FilesOK
      <4> QED
        BY <2>1, <2>4, <3>1, <3>3, <4>1, <4>2, <4>3, <4>5, AmendConstants DEF AmendInv
    <3> QED
      BY <1>1, <2>7, <3>2, <3>3 DEF Amendments!Kinds
  <2> QED
    BY <2>6, <2>7
<1> QED
  BY <1>2, <1>3 DEF Amendments!Commit

LEMMA AmendOthers ==
  ASSUME AmendInv,
         \/ Amendments!ReconcileArchify \/ Amendments!SetPriority \/ Amendments!RetryBlocked \/ Amendments!ResolveLocally \/ Amendments!ClaimNode
         \/ \E state \in {"blocked", "indeterminate"} : Amendments!StopNode(state)
         \/ Amendments!RivalMoves \/ Amendments!FilesMove \/ Amendments!Validate
  PROVE  AmendInv'
<1>1. /\ cTask \in TaskOK /\ cD \in WorkerOK /\ cE \in VerifierOK /\ cFiles \in FilesOK /\ cValidating \in BOOLEAN
      /\ cValidating => cTask.state = "blocked" /\ cD.state = "blocked"
  BY DEF AmendInv, AmendTypes, Prepared
<1>2. cTask.revision < CMaxRevision => cTask.revision + 1 \in 1 .. CMaxRevision
  BY <1>1, AmendConstants DEF TaskOK
<1>3. cTask.revision < CMaxRevision => [cTask EXCEPT !.revision = cTask.revision + 1] \in TaskOK
  BY <1>1, <1>2 DEF TaskOK
<1>4. ASSUME NEW state \in {"blocked", "needs_approval", "queued", "running"}, cTask.revision < CMaxRevision
      PROVE  [cTask EXCEPT !.state = state, !.revision = cTask.revision + 1] \in TaskOK
  BY <1>1, <1>2, <1>4 DEF TaskOK
<1>5. CASE Amendments!ReconcileArchify
  <2>1. /\ cE' = [cE EXCEPT !.meta = "derived"] /\ cTask' = [cTask EXCEPT !.revision = cTask.revision + 1]
        /\ cTask.revision < CMaxRevision /\ UNCHANGED <<cD, cRival, cFiles, cValidating, cCall>>
    BY <1>1, <1>5 DEF Amendments!ReconcileArchify, TaskOK
  <2>2. cE' \in VerifierOK /\ cE'.reads = cE.reads
    BY <1>1, <2>1 DEF VerifierOK
  <2>3. cTask' \in TaskOK /\ cTask'.hosts = cTask.hosts /\ cTask'.allowed = cTask.allowed /\ cTask'.state = cTask.state
    BY <1>1, <1>3, <2>1 DEF TaskOK
  <2> QED
    BY <1>1, <2>1, <2>2, <2>3, AmendElsewhere
<1>6. CASE Amendments!SetPriority
  <2>1. /\ cTask' = [cTask EXCEPT !.revision = cTask.revision + 1]
        /\ cTask.revision < CMaxRevision /\ UNCHANGED <<cD, cE, cRival, cFiles, cValidating, cCall>>
    BY <1>1, <1>6 DEF Amendments!SetPriority, TaskOK
  <2>2. cTask' \in TaskOK /\ cTask'.hosts = cTask.hosts /\ cTask'.allowed = cTask.allowed /\ cTask'.state = cTask.state
    BY <1>1, <1>3, <2>1 DEF TaskOK
  <2> QED
    BY <1>1, <2>1, <2>2, AmendElsewhere
<1>7. CASE Amendments!RetryBlocked \/ Amendments!ResolveLocally
  <2>1. /\ cTask' = [cTask EXCEPT !.state = "queued", !.revision = cTask.revision + 1] /\ cD' = [cD EXCEPT !.state = "pending"]
        /\ cTask.revision < CMaxRevision /\ UNCHANGED <<cE, cRival, cFiles, cValidating, cCall>> /\ ~cValidating
    BY <1>1, <1>7 DEF Amendments!RetryBlocked, Amendments!ResolveLocally, Amendments!StoppedBlocked, TaskOK
  <2>2. cTask' \in TaskOK /\ cTask'.hosts = cTask.hosts /\ cTask'.allowed = cTask.allowed
    BY <1>1, <1>4, <2>1 DEF TaskOK
  <2>3. cD' \in WorkerOK /\ cD'.writes = cD.writes
    BY <1>1, <2>1 DEF WorkerOK
  <2> QED
    BY <1>1, <2>1, <2>2, <2>3, AmendElsewhere
<1>8. CASE Amendments!ClaimNode
  <2>1. /\ cTask' = [cTask EXCEPT !.state = "running", !.revision = cTask.revision + 1]
        /\ cD' = [cD EXCEPT !.state = "running", !.attempt = cD.attempt + 1]
        /\ cFiles' = [version |-> 1, busy |-> TRUE, matches |-> {CExact}]
        /\ cTask.revision < CMaxRevision /\ UNCHANGED <<cE, cRival, cValidating, cCall>> /\ ~cValidating
    BY <1>1, <1>8 DEF Amendments!ClaimNode, TaskOK, WorkerOK
  <2>2. cTask' \in TaskOK /\ cTask'.hosts = cTask.hosts /\ cTask'.allowed = cTask.allowed
    BY <1>1, <1>4, <2>1 DEF TaskOK
  <2>3. cD.attempt + 1 \in Nat
    BY <1>1 DEF WorkerOK
  <2>4. cD' \in WorkerOK /\ cD'.writes = cD.writes
    BY <1>1, <2>1, <2>3 DEF WorkerOK
  <2>5. 1 \in 1 .. CMaxVersion
    BY AmendConstants
  <2>6. cFiles' \in FilesOK
    BY <2>1, <2>5 DEF FilesOK
  <2> QED
    BY <1>1, <2>1, <2>2, <2>4, <2>6, AmendElsewhere
<1>9. ASSUME NEW state \in {"blocked", "indeterminate"}, Amendments!StopNode(state) PROVE AmendInv'
  <2>1. /\ \E s \in {"blocked", "needs_approval"} : cTask' = [cTask EXCEPT !.state = s, !.revision = cTask.revision + 1]
        /\ cD' = [cD EXCEPT !.state = state]
        /\ cTask.revision < CMaxRevision /\ UNCHANGED <<cE, cRival, cFiles, cValidating, cCall>> /\ ~cValidating
    BY <1>1, <1>9 DEF Amendments!StopNode, TaskOK
  <2>2. cTask' \in TaskOK /\ cTask'.hosts = cTask.hosts /\ cTask'.allowed = cTask.allowed
    BY <1>1, <1>4, <2>1 DEF TaskOK
  <2>3. cD' \in WorkerOK /\ cD'.writes = cD.writes
    BY <1>1, <2>1 DEF WorkerOK
  <2> QED
    BY <1>1, <2>1, <2>2, <2>3, AmendElsewhere
<1>10. CASE Amendments!RivalMoves
  BY <1>1, <1>10, AmendElsewhere DEF Amendments!RivalMoves
<1>11. CASE Amendments!FilesMove
  <2>1. /\ \/ cFiles.version < CMaxVersion /\ \E m \in {{CExact}, {CExact, CLegacy}} :
                 cFiles' = [cFiles EXCEPT !.version = cFiles.version + 1, !.matches = m] /\ UNCHANGED cE
           \/ cFiles' = [cFiles EXCEPT !.busy = FALSE] /\ UNCHANGED cE
           \/ cE' = [cE EXCEPT !.busy = ~cE.busy] /\ UNCHANGED cFiles
        /\ UNCHANGED <<cTask, cD, cRival, cValidating, cCall>>
    BY <1>1, <1>11 DEF Amendments!FilesMove, FilesOK, VerifierOK
  <2>2. cFiles.version < CMaxVersion => cFiles.version + 1 \in 1 .. CMaxVersion
    BY <1>1, AmendConstants DEF FilesOK
  <2>3. cFiles' \in FilesOK
    BY <1>1, <2>1, <2>2 DEF FilesOK
  <2>4. cE' \in VerifierOK /\ cE'.reads = cE.reads
    BY <1>1, <2>1 DEF VerifierOK
  <2> QED
    BY <1>1, <2>1, <2>3, <2>4, AmendElsewhere
<1>12. CASE Amendments!Validate
  BY <1>1, <1>12, AmendElsewhere DEF Amendments!Validate, Amendments!StoppedBlocked
<1> QED
  BY <1>5, <1>6, <1>7, <1>8, <1>9, <1>10, <1>11, <1>12

LEMMA AmendNextLemma == AmendInv /\ [Amendments!Next]_Amendments!vars => AmendInv'
<1> SUFFICES ASSUME AmendInv, [Amendments!Next]_Amendments!vars PROVE AmendInv'
  OBVIOUS
<1>1. CASE UNCHANGED Amendments!vars
  BY <1>1, AmendElsewhere DEF Amendments!vars, AmendInv, AmendTypes, Prepared
<1>2. ASSUME NEW c \in CCall, NEW kind \in Amendments!Kinds, Amendments!Show(c, kind) PROVE AmendInv'
  BY <1>2, AmendShow
<1>3. ASSUME NEW c \in CCall, Amendments!Recheck(c) \/ Amendments!Commit(c) PROVE AmendInv'
  BY <1>3, AmendRecheck, AmendCommit
<1> QED
  BY <1>1, <1>2, <1>3, AmendOthers DEF Amendments!Next

LEMMA AmendImplies == AmendInv => Amendments!TypeOK /\ Amendments!AmendmentsKept
<1> SUFFICES ASSUME AmendInv PROVE Amendments!TypeOK /\ Amendments!AmendmentsKept
  OBVIOUS
<1>1. Cardinality(Hosts) <= Cardinality(CCall) /\ Cardinality(CCall) \in Nat
  BY AmendConstants, FS_Subset, FS_CardinalityType DEF Hosts
<1>2. cTask.hosts \in 0 .. Cardinality(CCall)
  BY <1>1 DEF AmendInv, AmendTypes, TaskOK
<1>3. Amendments!TypeOK
  <2>1. /\ cTask.state \in {"blocked", "needs_approval", "queued", "running"} /\ cTask.revision \in 1 .. CMaxRevision
        /\ cTask.allowed \subseteq CFixed \cup {CExact}
    BY DEF AmendInv, AmendTypes, TaskOK
  <2>2. /\ cD.state \in {"blocked", "indeterminate", "pending", "running"}
        /\ cD.reads \subseteq CFixed /\ cD.writes \subseteq CFixed \cup {CExact, CLegacy}
    BY DEF AmendInv, AmendTypes, WorkerOK
  <2>3. cE.reads \subseteq CFixed /\ cE.writes = {} /\ cFiles.version \in 1 .. CMaxVersion
    BY DEF AmendInv, AmendTypes, VerifierOK, FilesOK
  <2>4. \A c \in CCall : cCall[c].at \in AmendStep /\ cCall[c].kind \in Amendments!Kinds
    BY DEF AmendInv, AmendTypes, AskOK
  <2> QED
    BY <1>2, <2>1, <2>2, <2>3, <2>4, AmendmentsSizes DEF Amendments!TypeOK, AmendStep
<1>4. Amendments!AmendmentsKept
  <2>1. cTask.hosts = Cardinality({c \in CCall : cCall[c].at = "applied" /\ cCall[c].kind = "acceptance"}) /\ cTask.hosts <= 1
    BY DEF AmendInv, Hosts
  <2>2. ASSUME NEW c \in CCall, cCall[c].at = "applied"
        PROVE  CASE cCall[c].kind = "acceptance" -> TRUE
                 [] cCall[c].kind = "scope" ->
                      CFixed \subseteq cTask.allowed /\ CFixed \subseteq cD.writes /\ CFixed \subseteq cE.reads
                 [] cCall[c].kind = "exact" -> CLegacy \notin cD.writes /\ CExact \in cD.writes
    <3>1. cCall[c].kind \in Amendments!Kinds
      BY DEF AmendInv, AmendTypes, AskOK
    <3> QED
      BY <2>2, <3>1 DEF AmendInv, Amendments!Kinds
  <2> QED
    BY <2>1, <2>2, AmendmentsSizes DEF Amendments!AmendmentsKept
<1> QED
  BY <1>3, <1>4

LEMMA AmendFencedLemma == AmendInv /\ [Amendments!Next]_Amendments!vars => Amendments!AmendmentsFenced
<1> SUFFICES ASSUME AmendInv, [Amendments!Next]_Amendments!vars PROVE Amendments!AmendmentsFenced
  OBVIOUS
<1>1. CASE UNCHANGED Amendments!vars
  BY <1>1 DEF Amendments!vars, Amendments!AmendmentsFenced, Amendments!Contract, Amendments!Spec
<1>2. ASSUME NEW c \in CCall, NEW kind \in Amendments!Kinds, Amendments!Show(c, kind) PROVE Amendments!AmendmentsFenced
  <2>1. /\ cCall' = [cCall EXCEPT ![c] = [at |-> "shown", kind |-> kind, shown |-> Amendments!Preview(kind)]]
        /\ UNCHANGED <<cTask, cD, cE, cRival, cFiles, cValidating>> /\ cCall[c].at = "idle"
    BY <1>2 DEF Amendments!Show
  <2>2. \A o \in CCall : cCall'[o].at = "applied" => cCall[o].at = "applied"
    BY <2>1 DEF AmendInv, AmendTypes
  <2> QED
    BY <2>1, <2>2 DEF Amendments!AmendmentsFenced, Amendments!Contract, Amendments!Spec
<1>3. ASSUME NEW c \in CCall, Amendments!Recheck(c) PROVE Amendments!AmendmentsFenced
  <2>1. UNCHANGED <<cTask, cD, cE, cRival, cFiles, cValidating>> /\ cCall[c].at = "shown"
    BY <1>3 DEF Amendments!Recheck
  <2>2. \A o \in CCall : o # c => cCall'[o] = cCall[o]
    BY <1>3 DEF Amendments!Recheck, Amendments!Ends, AmendInv, AmendTypes
  <2> QED
    BY <2>1, <2>2 DEF Amendments!AmendmentsFenced, Amendments!Contract, Amendments!Spec
<1>4. ASSUME NEW c \in CCall, Amendments!Commit(c) PROVE Amendments!AmendmentsFenced
  <2>1. cCall[c].at = "checked" /\ UNCHANGED <<cRival, cFiles, cValidating>>
    BY <1>4 DEF Amendments!Commit
  <2>2. CASE Amendments!Ends(c, "refused") /\ UNCHANGED <<cTask, cD, cE>>
    <3>1. cCall'[c].at = "refused" /\ \A o \in CCall \ {c} : cCall'[o] = cCall[o]
      BY <2>2, AmendEnds DEF AmendStep
    <3> QED
      BY <2>2, <3>1 DEF Amendments!AmendmentsFenced, Amendments!Contract, Amendments!Spec
  <2>3. CASE Amendments!Unmoved(c) /\ Amendments!Ends(c, "applied")
    <3>1. cCall'[c].at = "applied" /\ \A o \in CCall \ {c} : cCall'[o] = cCall[o]
      BY <2>3, AmendEnds DEF AmendStep
    <3>2. /\ ~cValidating /\ cD.state # "running" /\ (cCall[c].kind = "exact" => ~Amendments!Conflicts(cRival))
          /\ cCall[c].shown.binding = Amendments!Binding(cCall[c].kind)
      BY <2>1, <2>3, AmendUnmoved DEF Amendments!Unmoved
    <3> QED
      BY <3>1, <3>2 DEF Amendments!AmendmentsFenced
  <2> QED
    BY <1>4, <2>2, <2>3 DEF Amendments!Commit
<1>5. CASE Amendments!ReconcileArchify \/ Amendments!SetPriority \/ Amendments!RetryBlocked \/ Amendments!ResolveLocally \/ Amendments!ClaimNode
           \/ (\E state \in {"blocked", "indeterminate"} : Amendments!StopNode(state)) \/ Amendments!RivalMoves \/ Amendments!FilesMove \/ Amendments!Validate
  <2>1. cTask \in TaskOK /\ cD \in WorkerOK
    BY DEF AmendInv, AmendTypes
  <2>2. UNCHANGED cCall
    BY <1>5
    DEF Amendments!ReconcileArchify, Amendments!SetPriority, Amendments!RetryBlocked,
        Amendments!ResolveLocally, Amendments!ClaimNode, Amendments!StopNode, Amendments!RivalMoves,
        Amendments!FilesMove, Amendments!Validate
  <2>3. cTask'.hosts = cTask.hosts /\ cTask'.allowed = cTask.allowed
    BY <1>5, <2>1
    DEF Amendments!ReconcileArchify, Amendments!SetPriority, Amendments!RetryBlocked,
        Amendments!ResolveLocally, Amendments!ClaimNode, Amendments!StopNode, Amendments!RivalMoves,
        Amendments!FilesMove, Amendments!Validate, TaskOK
  <2>4. cD'.reads = cD.reads /\ cD'.writes = cD.writes
    BY <1>5, <2>1
    DEF Amendments!ReconcileArchify, Amendments!SetPriority, Amendments!RetryBlocked,
        Amendments!ResolveLocally, Amendments!ClaimNode, Amendments!StopNode, Amendments!RivalMoves,
        Amendments!FilesMove, Amendments!Validate, WorkerOK
  <2> QED
    BY <2>2, <2>3, <2>4 DEF Amendments!AmendmentsFenced, Amendments!Contract, Amendments!Spec
<1> QED
  BY <1>1, <1>2, <1>3, <1>4, <1>5 DEF Amendments!Next

\* No amendment is lost to another that was prepared beside it, none is written over what
\* it was not computed from, and none while a check observes the task or its node runs.
THEOREM AmendmentsStand == Amendments!Behaviours => [](Amendments!TypeOK /\ Amendments!AmendmentsKept) /\ [][Amendments!AmendmentsFenced]_Amendments!vars
<1>1. Amendments!Behaviours => []AmendInv
  BY AmendInitLemma, AmendNextLemma, PTL DEF Amendments!Behaviours
<1> QED
  BY <1>1, AmendImplies, AmendFencedLemma, PTL DEF Amendments!Behaviours

-----------------------------------------------------------------------------
(* ControlledValidation: a check that passed ran all its commands on what was *)
(* previewed, and passed while nobody recovered the node.                     *)

\* The operators of FiniteSets as the instance imports them.
LEMMA ValidationSizes ==
    /\ \A S : Validation!Cardinality(S) = Cardinality(S)
  BY DEF Validation!Cardinality, Cardinality


(* The invariant.                                                            *)

\* From the comparison with the preview to the receipt.
Observing == {"start", "command", "ran", "held", "bound", "judged"}
Executing == Observing \cup {"wait"}
ValidationStages == Executing \cup {"idle", "shown", "done", "dead"}
ValidationAnswers == {"absent", "executing", "passed", "failed", "refused", "unknown"}

ValidationTasks == [blocked : BOOLEAN, revision : Nat, fenced : Nat]
ValidationSources == [inputs : Nat, outputs : {"old", "new", "other"}, install : {1, 2}]
Observations == [task : ValidationTasks, source : ValidationSources]
ValidationRuns == [at : ValidationStages, shown : Observations \cup {<<>>}, step : Nat, read : SUBSET Nat, ok : BOOLEAN]

ValidationTyped ==
    /\ Validation!ValidationAssumption
    /\ vTask \in ValidationTasks /\ vTask.revision \in 1 .. VMaxRevision /\ vTask.fenced < vTask.revision
    /\ vSource \in ValidationSources /\ vSource.inputs \in 1 .. VMaxSource
    /\ vRow \in [VRequest -> ValidationAnswers]
    /\ vRun \in [VRequest -> ValidationRuns]
    /\ vOrphan \subseteq VRequest /\ vCrashes \in 0 .. VMaxCrashes

\* The row of a request says where its thread is, and one request executes at a time.
ValidationReserved ==
    /\ \A r \in VRequest :
          /\ vRun[r].at \in {"idle", "shown"} => vRow[r] = "absent"
          /\ vRun[r].at \in Executing => vRow[r] = "executing"
          /\ vRun[r].at = "done" => vRow[r] \notin {"absent", "executing"}
          /\ vRun[r].at = "dead" => vRow[r] \in {"executing", "unknown"}
    /\ \A r, q \in VRequest : vRow[r] = "executing" /\ vRow[q] = "executing" => r = q

\* Beside a request that observes works nothing but what it left itself, and nothing at all
\* once it found the source well; a dead authority left one command at most; and nobody has
\* recovered the node since the preview.
ValidationFencedFrom ==
    /\ \A r \in VRequest : vRun[r].at \in Observing =>
          /\ vOrphan \subseteq {r}
          /\ vRun[r].at = "judged" /\ vRun[r].ok => vOrphan = {}
          /\ vRun[r].shown \in Observations
          /\ vTask.fenced = vRun[r].shown.task.fenced
    /\ \A r, q \in vOrphan : r = q

\* What a request has read lies between the previewed inputs and those of now, and it has
\* run all its commands unless it says otherwise.
ValidationIsHonest(x, answer, commands, inputs) ==
    LET seen == x.shown.source.inputs IN
    /\ x.step \in 0 .. commands
    /\ x.at \in {"idle", "shown", "wait", "start"} => x.step = 0 /\ x.read = {}
    /\ x.at \in Observing => seen <= inputs /\ \A n \in x.read : seen <= n /\ n <= inputs
    /\ x.at \in Observing /\ x.step > 0 => x.read # {}
    /\ x.at = "command" => x.step < commands
    /\ x.at \in {"ran", "held", "bound", "judged"} /\ x.ok => x.step = commands
    /\ x.at = "judged" /\ x.ok => x.read = {seen}
    /\ answer = "passed" => x.step = commands /\ x.read = {seen}

ValidationFaithful == \A r \in VRequest : ValidationIsHonest(vRun[r], vRow[r], VCommands[r], vSource.inputs)

ValidationInv == ValidationTyped /\ ValidationReserved /\ ValidationFencedFrom /\ ValidationFaithful

-----------------------------------------------------------------------------
(* Types.                                                                    *)

LEMMA RunFields ==
    ASSUME ValidationTyped, NEW r \in VRequest
    PROVE  /\ vRun[r] \in ValidationRuns /\ vRun[r].at \in ValidationStages /\ vRun[r].step \in Nat
           /\ vRun[r].shown \in Observations \cup {<<>>}
           /\ vRun[r].read \subseteq Nat /\ vRun[r].ok \in BOOLEAN
           /\ vRow[r] \in ValidationAnswers
           /\ VCommands[r] \in Nat \ {0}
  BY DEF ValidationTyped, ValidationRuns, Validation!ValidationAssumption

LEMMA NoRunType == Validation!NoRun \in ValidationRuns /\ [Validation!NoRun EXCEPT !.at = "done"] \in ValidationRuns /\ [Validation!NoRun EXCEPT !.at = "dead"] \in ValidationRuns
<1>1. "idle" \in ValidationStages /\ "done" \in ValidationStages /\ "dead" \in ValidationStages
  BY DEF ValidationStages
<1>2. QED
  BY <1>1 DEF Validation!NoRun, ValidationRuns

LEMMA ObservationType == ValidationTyped => Validation!Observation \in Observations
  BY DEF ValidationTyped, Validation!Observation, Observations

\* What each step does to the thread of its request.
LEMMA SettleType ==
    ASSUME ValidationTyped, NEW r \in VRequest, NEW answer \in ValidationAnswers, Validation!Settle(r, answer)
    PROVE  vRun' \in [VRequest -> ValidationRuns] /\ vRow' \in [VRequest -> ValidationAnswers]
<1>1. \A x \in ValidationRuns : [x EXCEPT !.at = "done"] \in ValidationRuns
  BY DEF ValidationRuns, ValidationStages
<1>2. vRun' \in [VRequest -> ValidationRuns]
  BY <1>1, RunFields, NoRunType DEF Validation!Settle, ValidationTyped
<1>3. QED
  BY <1>2 DEF Validation!Settle, ValidationTyped

LEMMA JudgedType ==
    ASSUME ValidationTyped, NEW r \in VRequest, NEW at \in {"held", "bound", "judged"}, NEW holds, Validation!Judged(r, at, holds)
    PROVE  vRun' \in [VRequest -> ValidationRuns]
<1>1. PICK ok \in BOOLEAN : vRun' = [vRun EXCEPT ![r].at = at, ![r].ok = ok]
  BY RunFields DEF Validation!Judged
<1>2. \A x \in ValidationRuns : [x EXCEPT !.at = at, !.ok = ok] \in ValidationRuns
  BY <1>1 DEF ValidationRuns, ValidationStages, Executing, Observing
<1>3. QED
  BY <1>1, <1>2, RunFields DEF ValidationTyped

\* A comparison moves its thread on, and leaves it well only when it held.
LEMMA JudgedThread ==
    ASSUME ValidationTyped, NEW r \in VRequest, NEW at, NEW holds, Validation!Judged(r, at, holds)
    PROVE  /\ \A q \in VRequest \ {r} : vRun'[q] = vRun[q]
           /\ vRun'[r].at = at /\ vRun'[r].step = vRun[r].step /\ vRun'[r].read = vRun[r].read
           /\ vRun'[r].shown = vRun[r].shown /\ (vRun'[r].ok => vRun[r].ok /\ holds)
<1>1. PICK ok \in {FALSE, vRun[r].ok /\ holds} : vRun' = [vRun EXCEPT ![r].at = at, ![r].ok = ok]
  BY DEF Validation!Judged
<1>2. ok => vRun[r].ok /\ holds
  BY <1>1
<1>3. vRun'[r].ok = ok
  BY <1>1, RunFields DEF ValidationTyped, ValidationRuns
<1>4. QED
  BY <1>1, <1>2, <1>3, RunFields DEF ValidationTyped, ValidationRuns

LEMMA InitType == Validation!ValidationAssumption /\ Validation!Init => ValidationTyped
<1> SUFFICES ASSUME Validation!ValidationAssumption, Validation!Init
             PROVE  ValidationTyped
  OBVIOUS
<1>1. vRun \in [VRequest -> ValidationRuns]
  BY NoRunType DEF Validation!Init
<1>2. vRow \in [VRequest -> ValidationAnswers]
  BY DEF Validation!Init, ValidationAnswers
<1>3. vTask \in ValidationTasks /\ vTask.revision \in 1 .. VMaxRevision /\ vTask.fenced < vTask.revision
  BY DEF Validation!Init, ValidationTasks, Validation!ValidationAssumption
<1>4. vSource \in ValidationSources /\ vSource.inputs \in 1 .. VMaxSource
  BY DEF Validation!Init, ValidationSources, Validation!ValidationAssumption
<1>5. QED
  BY <1>1, <1>2, <1>3, <1>4 DEF Validation!Init, ValidationTyped, Validation!ValidationAssumption
LEMMA TypedStep == ValidationInv /\ [Validation!Next]_Validation!vars => ValidationTyped'
<1> SUFFICES ASSUME ValidationInv, [Validation!Next]_Validation!vars
             PROVE  ValidationTyped'
  OBVIOUS
<1> USE DEF ValidationInv
<1>1. ASSUME NEW r \in VRequest, Validation!Preview(r)
      PROVE  ValidationTyped'
  <2>1. vRun' \in [VRequest -> ValidationRuns]
    BY <1>1, RunFields, ObservationType
    DEF Validation!Preview, ValidationTyped, ValidationRuns, ValidationStages
  <2>2. QED
    BY <1>1, <2>1 DEF Validation!Preview, ValidationTyped
<1>2. ASSUME NEW r \in VRequest, Validation!Reserve(r)
      PROVE  ValidationTyped'
  <2>1. vRun' \in [VRequest -> ValidationRuns]
    BY <1>2, RunFields DEF Validation!Reserve, ValidationTyped, ValidationRuns, ValidationStages, Executing
  <2>2. vRow' \in [VRequest -> ValidationAnswers]
    BY <1>2 DEF Validation!Reserve, ValidationTyped, ValidationAnswers
  <2>3. QED
    BY <1>2, <2>1, <2>2 DEF Validation!Reserve, ValidationTyped
<1>3. ASSUME NEW r \in VRequest, Validation!Observe(r)
      PROVE  ValidationTyped'
  <2>1. CASE vRun' = [vRun EXCEPT ![r].at = "start"] /\ UNCHANGED vRow
    <3>1. vRun' \in [VRequest -> ValidationRuns]
      BY <2>1, RunFields DEF ValidationTyped, ValidationRuns, ValidationStages, Executing, Observing
    <3>2. QED
      BY <1>3, <2>1, <3>1 DEF Validation!Observe, ValidationTyped
  <2>2. CASE \E answer \in {"refused", "unknown"} : Validation!Settle(r, answer)
    BY <1>3, <2>2, SettleType DEF Validation!Observe, ValidationTyped, ValidationAnswers
  <2>3. QED
    BY <1>3, <2>1, <2>2 DEF Validation!Observe
<1>4. ASSUME NEW r \in VRequest, NEW names \in BOOLEAN, Validation!Start(r, names)
      PROVE  ValidationTyped'
  <2>1. \A x \in ValidationRuns : [x EXCEPT !.at = "command"] \in ValidationRuns /\ [x EXCEPT !.at = "held", !.ok = FALSE] \in ValidationRuns
    BY DEF ValidationRuns, ValidationStages, Executing, Observing
  <2>2. vRun' \in [VRequest -> ValidationRuns]
    <3>1. CASE vRun' = [vRun EXCEPT ![r].at = "command"]
      BY <2>1, <3>1, RunFields DEF ValidationTyped
    <3>2. CASE vRun' = [vRun EXCEPT ![r] = [@ EXCEPT !.at = "held", !.ok = FALSE]]
      BY <2>1, <3>2, RunFields DEF ValidationTyped
    <3>3. QED
      BY <1>4, <3>1, <3>2 DEF Validation!Start
  <2>3. QED
    BY <1>4, <2>2 DEF Validation!Start, ValidationTyped
<1>5. ASSUME NEW r \in VRequest, NEW ok \in BOOLEAN, Validation!Command(r, ok)
      PROVE  ValidationTyped'
  <2>1. vSource' \in ValidationSources /\ vSource'.inputs = vSource.inputs
    BY <1>5 DEF Validation!Command, ValidationTyped, ValidationSources
  <2>2. vSource.inputs \in Nat
    BY DEF ValidationTyped
  <2>3. \A x \in ValidationRuns : \A at \in {"ran", "command"} :
           [x EXCEPT !.step = @ + 1, !.ok = ok, !.read = @ \cup {vSource.inputs}, !.at = at] \in ValidationRuns
    <3> SUFFICES ASSUME NEW x \in ValidationRuns, NEW at \in {"ran", "command"}
                 PROVE  [x EXCEPT !.step = @ + 1, !.ok = ok, !.read = @ \cup {vSource.inputs}, !.at = at] \in ValidationRuns
      OBVIOUS
    <3>1. x.step + 1 \in Nat /\ x.read \cup {vSource.inputs} \in SUBSET Nat /\ at \in ValidationStages
      BY <2>2 DEF ValidationRuns, ValidationStages, Executing, Observing
    <3>2. QED
      BY <3>1 DEF ValidationRuns
  <2>4. vRun' \in [VRequest -> ValidationRuns]
    BY <1>5, <2>3, RunFields DEF Validation!Command, ValidationTyped
  <2>5. vOrphan' \subseteq VRequest
    BY <1>5 DEF Validation!Command, ValidationTyped
  <2>6. QED
    BY <1>5, <2>1, <2>4, <2>5 DEF Validation!Command, ValidationTyped
<1>6. ASSUME NEW r \in VRequest, Validation!CheckBinding(r)
      PROVE  ValidationTyped'
  BY <1>6, JudgedType DEF Validation!CheckBinding, ValidationTyped
<1>7. ASSUME NEW r \in VRequest, Validation!CheckSource(r)
      PROVE  ValidationTyped'
  BY <1>7, JudgedType DEF Validation!CheckSource, ValidationTyped
<1>8. ASSUME NEW r \in VRequest, Validation!Answer(r)
      PROVE  ValidationTyped'
  BY <1>8, SettleType DEF Validation!Answer, ValidationTyped, ValidationAnswers
<1>17. ASSUME NEW r \in VRequest, Validation!Raise(r)
       PROVE  ValidationTyped'
  BY <1>17, SettleType DEF Validation!Raise, ValidationTyped, ValidationAnswers
<1>18. ASSUME NEW r \in VRequest, NEW names \in BOOLEAN, Validation!CheckOutputs(r, names)
       PROVE  ValidationTyped'
  BY <1>18, JudgedType DEF Validation!CheckOutputs, ValidationTyped
<1>9. ASSUME NEW r \in VRequest, Validation!OrphanMoves(r)
      PROVE  ValidationTyped'
  <2>1. vSource' \in ValidationSources /\ vSource'.inputs = vSource.inputs
    BY <1>9 DEF Validation!OrphanMoves, ValidationTyped, ValidationSources
  <2>2. QED
    BY <1>9, <2>1 DEF Validation!OrphanMoves, ValidationTyped
<1>10. ASSUME Validation!Crash
       PROVE  ValidationTyped'
  <2>1. vRun' \in [VRequest -> ValidationRuns]
    BY <1>10, RunFields, NoRunType DEF Validation!Crash, ValidationTyped
  <2>2. vCrashes' \in 0 .. VMaxCrashes
    BY <1>10 DEF Validation!Crash, ValidationTyped, Validation!ValidationAssumption
  <2>3. QED
    BY <1>10, <2>1, <2>2 DEF Validation!Crash, ValidationTyped
<1>11. ASSUME Validation!Recover
       PROVE  ValidationTyped'
  <2>1. vRow' \in [VRequest -> ValidationAnswers]
    BY <1>11 DEF Validation!Recover, ValidationTyped, ValidationAnswers
  <2>2. QED
    BY <1>11, <2>1 DEF Validation!Recover, ValidationTyped
<1>12. ASSUME Validation!Recovery
       PROVE  ValidationTyped'
  <2>1. vTask' \in ValidationTasks /\ vTask'.revision \in 1 .. VMaxRevision /\ vTask'.fenced < vTask'.revision
    BY <1>12 DEF Validation!Recovery, ValidationTyped, ValidationTasks, Validation!ValidationAssumption
  <2>2. QED
    BY <1>12, <2>1 DEF Validation!Recovery, ValidationTyped
<1>13. ASSUME Validation!Unfenced
       PROVE  ValidationTyped'
  <2>1. vTask' \in ValidationTasks /\ vTask'.revision \in 1 .. VMaxRevision /\ vTask'.fenced < vTask'.revision
    BY <1>13 DEF Validation!Unfenced, ValidationTyped, ValidationTasks, Validation!ValidationAssumption
  <2>2. QED
    BY <1>13, <2>1 DEF Validation!Unfenced, ValidationTyped
<1>14. ASSUME Validation!Edit
       PROVE  ValidationTyped'
  <2>1. vSource' \in ValidationSources /\ vSource'.inputs \in 1 .. VMaxSource
    BY <1>14 DEF Validation!Edit, ValidationTyped, ValidationSources, Validation!ValidationAssumption
  <2>2. QED
    BY <1>14, <2>1 DEF Validation!Edit, ValidationTyped
<1>15. CASE UNCHANGED Validation!vars
  BY <1>15 DEF Validation!vars, ValidationTyped
<1>16. QED
  BY <1>1, <1>2, <1>3, <1>4, <1>5, <1>6, <1>7, <1>8, <1>9, <1>10, <1>11, <1>12, <1>13, <1>14, <1>15,
     <1>17, <1>18
  DEF Validation!Next

-----------------------------------------------------------------------------
(* One step.                                                                 *)

\* A step of one thread leaves the threads and the rows of the others.
ValidationOthers(r) == \A q \in VRequest \ {r} : vRun'[q] = vRun[q] /\ vRow'[q] = vRow[q]

\* Every step of a thread but the reservation leaves a request between its reservation and
\* its answer, or ends it.
ValidationProceeds(r) ==
    /\ ValidationOthers(r)
    /\ \/ vRun[r].at = "idle" /\ vRun'[r].at = "shown" /\ vRow'[r] = vRow[r]
       \/ vRun[r].at \in Executing /\ vRun'[r].at \in Executing /\ vRow'[r] = vRow[r]
       \/ vRun[r].at \in Executing /\ vRun'[r].at = "done" /\ vRow'[r] \in ValidationAnswers \ {"absent", "executing"}

LEMMA ThreadsProceed ==
    ASSUME ValidationTyped, NEW r \in VRequest,
           \/ Validation!Preview(r) \/ Validation!Observe(r) \/ (\E names \in BOOLEAN : Validation!Start(r, names))
           \/ (\E ok \in BOOLEAN : Validation!Command(r, ok))
           \/ (\E names \in BOOLEAN : Validation!CheckOutputs(r, names))
           \/ Validation!CheckBinding(r) \/ Validation!CheckSource(r) \/ Validation!Answer(r) \/ Validation!Raise(r)
    PROVE  ValidationProceeds(r)
<1>1. ASSUME Validation!Preview(r)
      PROVE  ValidationProceeds(r)
  <2>1. ValidationOthers(r)
    BY <1>1 DEF Validation!Preview, ValidationTyped, ValidationOthers
  <2>2. vRun[r].at = "idle" /\ vRun'[r].at = "shown" /\ vRow'[r] = vRow[r]
    BY <1>1, RunFields DEF Validation!Preview, ValidationTyped, ValidationRuns
  <2>3. QED
    BY <2>1, <2>2 DEF ValidationProceeds, Executing, Observing
<1>2. ASSUME NEW answer \in {"passed", "failed", "refused", "unknown"}, Validation!Settle(r, answer), vRun[r].at \in Executing
      PROVE  ValidationProceeds(r)
  <2>1. ValidationOthers(r)
    BY <1>2 DEF Validation!Settle, ValidationTyped, ValidationOthers
  <2>2. vRun'[r].at = "done" /\ vRow'[r] = answer
    BY <1>2, RunFields DEF Validation!Settle, ValidationTyped, ValidationRuns, Validation!NoRun
  <2>3. QED
    BY <1>2, <2>1, <2>2 DEF ValidationProceeds, ValidationAnswers
<1>3. ASSUME Validation!Observe(r)
      PROVE  ValidationProceeds(r)
  <2>1. CASE vRun' = [vRun EXCEPT ![r].at = "start"] /\ UNCHANGED vRow
    <3>1. ValidationOthers(r)
      BY <2>1 DEF ValidationTyped, ValidationOthers
    <3>2. vRun[r].at = "wait" /\ vRun'[r].at = "start" /\ vRow'[r] = vRow[r]
      BY <1>3, <2>1, RunFields DEF Validation!Observe, ValidationTyped, ValidationRuns
    <3>3. QED
      BY <3>1, <3>2 DEF ValidationProceeds, Executing, Observing
  <2>2. QED
    BY <1>2, <1>3, <2>1 DEF Validation!Observe, Executing
<1>4. ASSUME NEW names \in BOOLEAN, Validation!Start(r, names)
      PROVE  ValidationProceeds(r)
  <2>1. ValidationOthers(r)
    BY <1>4 DEF Validation!Start, ValidationTyped, ValidationOthers
  <2>2. vRun[r].at = "start" /\ vRun'[r].at \in {"command", "held"} /\ vRow'[r] = vRow[r]
    BY <1>4, RunFields DEF Validation!Start, ValidationTyped, ValidationRuns
  <2>3. QED
    BY <2>1, <2>2 DEF ValidationProceeds, Executing, Observing
<1>5. ASSUME NEW ok \in BOOLEAN, Validation!Command(r, ok)
      PROVE  ValidationProceeds(r)
  <2>1. ValidationOthers(r)
    BY <1>5 DEF Validation!Command, ValidationTyped, ValidationOthers
  <2>2. vRun[r].at = "command" /\ vRun'[r].at \in {"command", "ran"} /\ vRow'[r] = vRow[r]
    BY <1>5, RunFields DEF Validation!Command, ValidationTyped, ValidationRuns
  <2>3. QED
    BY <2>1, <2>2 DEF ValidationProceeds, Executing, Observing
<1>6. ASSUME NEW at \in {"held", "bound", "judged"}, NEW holds, Validation!Judged(r, at, holds), UNCHANGED vRow,
             vRun[r].at \in Executing
      PROVE  ValidationProceeds(r)
  BY <1>6, JudgedThread DEF ValidationProceeds, ValidationOthers, Executing, Observing
<1>7. ASSUME Validation!CheckBinding(r) \/ Validation!CheckSource(r) \/ \E names \in BOOLEAN : Validation!CheckOutputs(r, names)
      PROVE  ValidationProceeds(r)
  BY <1>6, <1>7
  DEF Validation!CheckBinding, Validation!CheckSource, Validation!CheckOutputs, Executing, Observing
<1>8. ASSUME Validation!Answer(r) \/ Validation!Raise(r)
      PROVE  ValidationProceeds(r)
  BY <1>2, <1>8 DEF Validation!Answer, Validation!Raise, Executing, Observing
<1>9. QED
  BY <1>1, <1>3, <1>4, <1>5, <1>7, <1>8

LEMMA ReservedStep == ValidationInv /\ [Validation!Next]_Validation!vars => ValidationReserved'
<1> SUFFICES ASSUME ValidationInv, [Validation!Next]_Validation!vars
             PROVE  ValidationReserved'
  OBVIOUS
<1> USE DEF ValidationInv
<1>1. ASSUME NEW r \in VRequest, ValidationProceeds(r)
      PROVE  ValidationReserved'
  BY <1>1 DEF ValidationReserved, ValidationProceeds, ValidationOthers, Executing, Observing
<1>2. ASSUME NEW r \in VRequest, Validation!Reserve(r)
      PROVE  ValidationReserved'
  BY <1>2, RunFields
  DEF ValidationReserved, Validation!Reserve, ValidationTyped, ValidationRuns, Executing, Observing
<1>3. ASSUME UNCHANGED <<vRow, vRun>>
      PROVE  ValidationReserved'
  BY <1>3 DEF ValidationReserved
<1>4. ASSUME Validation!Crash
      PROVE  ValidationReserved'
  BY <1>4, RunFields
  DEF ValidationReserved, Validation!Crash, ValidationTyped, ValidationRuns, Validation!NoRun, Executing,
      Observing, ValidationStages
<1>5. ASSUME Validation!Recover
      PROVE  ValidationReserved'
  BY <1>5, RunFields DEF ValidationReserved, Validation!Recover, ValidationTyped, Executing, Observing
<1>6. QED
  BY <1>1, <1>2, <1>3, <1>4, <1>5, ThreadsProceed
  DEF Validation!Next, Validation!vars, Validation!OrphanMoves, Validation!Recovery, Validation!Unfenced,
      Validation!Edit

LEMMA FencedStep == ValidationInv /\ [Validation!Next]_Validation!vars => ValidationFencedFrom'
<1> SUFFICES ASSUME ValidationInv, [Validation!Next]_Validation!vars
             PROVE  ValidationFencedFrom'
  OBVIOUS
<1> USE DEF ValidationInv
<1>1. ASSUME NEW r \in VRequest, Validation!Preview(r)
      PROVE  ValidationFencedFrom'
  BY <1>1, RunFields DEF ValidationFencedFrom, Validation!Preview, ValidationTyped, ValidationRuns, Observing
<1>2. ASSUME NEW r \in VRequest, Validation!Reserve(r)
      PROVE  ValidationFencedFrom'
  BY <1>2, RunFields DEF ValidationFencedFrom, Validation!Reserve, ValidationTyped, ValidationRuns, Observing
<1>3. ASSUME NEW r \in VRequest, NEW answer \in ValidationAnswers, Validation!Settle(r, answer), UNCHANGED <<vTask, vOrphan>>
      PROVE  ValidationFencedFrom'
  BY <1>3, RunFields
  DEF ValidationFencedFrom, Validation!Settle, ValidationTyped, ValidationRuns, Observing, Validation!NoRun
<1>4. ASSUME NEW r \in VRequest, Validation!Observe(r)
      PROVE  ValidationFencedFrom'
  <2>1. CASE Validation!Idle /\ Validation!Observation = vRun[r].shown /\ vRun' = [vRun EXCEPT ![r].at = "start"]
    <3>1. vOrphan = {} /\ vRun[r].shown \in Observations /\ vRun[r].shown.task = vTask
      BY <2>1, ObservationType DEF Validation!Idle, Validation!Observation
    <3>2. QED
      BY <1>4, <2>1, <3>1, RunFields
      DEF Validation!Observe, ValidationFencedFrom, ValidationTyped, ValidationRuns, Observing
  <2>2. QED
    BY <1>3, <1>4, <2>1 DEF Validation!Observe, ValidationAnswers
<1>0. ASSUME NEW r \in VRequest, vRun[r].at \in Observing
      PROVE  \A q \in VRequest : vRun[q].at \in Observing => q = r
  BY <1>0 DEF ValidationReserved, Executing
<1>5. ASSUME NEW r \in VRequest, vRun[r].at \in Observing, \A q \in VRequest \ {r} : vRun'[q] = vRun[q],
             vRun'[r].shown = vRun[r].shown, UNCHANGED vTask, vOrphan' \subseteq {r},
             vRun'[r].at = "judged" /\ vRun'[r].ok => vOrphan' = {}
      PROVE  ValidationFencedFrom'
  BY <1>0, <1>5 DEF ValidationFencedFrom
<1>6. ASSUME NEW r \in VRequest, \/ \E names \in BOOLEAN : Validation!Start(r, names)
                                 \/ \E ok \in BOOLEAN : Validation!Command(r, ok)
                                 \/ \E names \in BOOLEAN : Validation!CheckOutputs(r, names)
                                 \/ Validation!CheckBinding(r) \/ Validation!CheckSource(r)
      PROVE  ValidationFencedFrom'
  <2>1. /\ vRun[r].at \in Observing /\ UNCHANGED vTask
        /\ vOrphan' \in {vOrphan, vOrphan \cup {r}} /\ (Validation!CheckSource(r) => vOrphan' = vOrphan)
    BY <1>6
    DEF Validation!Start, Validation!Command, Validation!CheckOutputs, Validation!CheckBinding,
        Validation!CheckSource, Observing
  <2>2. \A q \in VRequest \ {r} : vRun'[q] = vRun[q]
    BY <1>6, ThreadsProceed DEF ValidationProceeds, ValidationOthers
  <2>3. /\ vRun'[r].shown = vRun[r].shown
        /\ vRun'[r].at = "judged" /\ vRun'[r].ok => vOrphan' = {}
    <3>1. ASSUME NEW names \in BOOLEAN, Validation!Start(r, names)
          PROVE  vRun'[r].shown = vRun[r].shown /\ vRun'[r].at # "judged"
      <4>1. CASE vRun' = [vRun EXCEPT ![r].at = "command"]
        BY <4>1, RunFields DEF ValidationTyped, ValidationRuns
      <4>2. CASE vRun' = [vRun EXCEPT ![r] = [@ EXCEPT !.at = "held", !.ok = FALSE]]
        BY <4>2, RunFields DEF ValidationTyped, ValidationRuns
      <4>3. QED
        BY <3>1, <4>1, <4>2 DEF Validation!Start
    <3>2. ASSUME NEW ok \in BOOLEAN, Validation!Command(r, ok)
          PROVE  vRun'[r].shown = vRun[r].shown /\ vRun'[r].at # "judged"
      BY <3>2, RunFields DEF Validation!Command, ValidationTyped, ValidationRuns
    <3>3. ASSUME Validation!CheckBinding(r) \/ \E names \in BOOLEAN : Validation!CheckOutputs(r, names)
          PROVE  vRun'[r].shown = vRun[r].shown /\ vRun'[r].at # "judged"
      <4>1. CASE Validation!CheckBinding(r)
        BY <4>1, RunFields DEF Validation!CheckBinding, Validation!Judged, ValidationTyped, ValidationRuns
      <4>2. ASSUME NEW names \in BOOLEAN, Validation!CheckOutputs(r, names)
            PROVE  vRun'[r].shown = vRun[r].shown /\ vRun'[r].at # "judged"
        BY <4>2, JudgedThread DEF Validation!CheckOutputs
      <4>3. QED
        BY <3>3, <4>1, <4>2
    <3>4. ASSUME Validation!CheckSource(r)
          PROVE  vRun'[r].shown = vRun[r].shown /\ (vRun'[r].ok => vOrphan = {})
      BY <3>4, JudgedThread DEF Validation!CheckSource, Validation!Idle
    <3>5. QED
      BY <1>6, <2>1, <3>1, <3>2, <3>3, <3>4
  <2>4. vOrphan' \subseteq {r}
    BY <2>1 DEF ValidationFencedFrom
  <2>5. QED
    BY <1>5, <2>1, <2>2, <2>3, <2>4
<1>7. ASSUME NEW r \in VRequest, Validation!Answer(r) \/ Validation!Raise(r)
      PROVE  ValidationFencedFrom'
  BY <1>3, <1>7 DEF Validation!Answer, Validation!Raise, ValidationAnswers
<1>8. ASSUME NEW r \in VRequest, Validation!OrphanMoves(r)
      PROVE  ValidationFencedFrom'
  BY <1>8 DEF ValidationFencedFrom, Validation!OrphanMoves
<1>9. ASSUME Validation!Crash
      PROVE  ValidationFencedFrom'
  <2>1. \A r \in VRequest : vRun'[r].at \notin Observing
    BY <1>9, RunFields DEF Validation!Crash, Validation!NoRun, Observing
  <2>2. \A r, q \in VRequest : vRun[r].at = "command" /\ vRun[q].at = "command" => r = q
    BY DEF ValidationReserved, Executing, Observing
  <2>3. \A r \in VRequest : vRun[r].at = "command" => vOrphan \subseteq {r}
    BY DEF ValidationFencedFrom, Observing
  <2>4. \A r, q \in vOrphan' : r = q
    BY <1>9, <2>2, <2>3 DEF Validation!Crash, ValidationFencedFrom
  <2>5. QED
    BY <2>1, <2>4 DEF ValidationFencedFrom
<1>10. ASSUME Validation!Recovery
       PROVE  ValidationFencedFrom'
  <2>1. \A r \in VRequest : vRun[r].at \notin Observing
    BY <1>10 DEF Validation!Recovery, Validation!NoActiveValidation, ValidationReserved, Executing
  <2>2. QED
    BY <1>10, <2>1 DEF Validation!Recovery, ValidationFencedFrom
<1>11. ASSUME Validation!Recover \/ Validation!Edit \/ UNCHANGED Validation!vars
       PROVE  ValidationFencedFrom'
  BY <1>11 DEF Validation!Recover, Validation!Edit, Validation!vars, ValidationFencedFrom
<1>12. ASSUME Validation!Unfenced
       PROVE  ValidationFencedFrom'
  <2>1. vTask'.fenced = vTask.fenced
    BY <1>12 DEF Validation!Unfenced
  <2>2. QED
    BY <1>12, <2>1 DEF Validation!Unfenced, ValidationFencedFrom
<1>13. QED
  BY <1>1, <1>2, <1>4, <1>6, <1>7, <1>8, <1>9, <1>10, <1>11, <1>12 DEF Validation!Next

LEMMA FaithfulStep == ValidationInv /\ [Validation!Next]_Validation!vars => ValidationFaithful'
<1> SUFFICES ASSUME ValidationInv, [Validation!Next]_Validation!vars
             PROVE  ValidationFaithful'
  OBVIOUS
<1> USE DEF ValidationInv
<1> DEFINE seen(r) == vRun[r].shown.source.inputs
           After(r) == ValidationIsHonest(vRun'[r], vRow'[r], VCommands[r], vSource'.inputs)
<1>0. vSource.inputs \in Nat /\ \A r \in VRequest : vRun[r].at \in Observing => seen(r) \in Nat
  BY DEF ValidationTyped, ValidationSources, Observations, ValidationFencedFrom
<1>1. ASSUME NEW r \in VRequest, ValidationOthers(r), After(r), vSource'.inputs = vSource.inputs
      PROVE  ValidationFaithful'
  BY <1>1 DEF ValidationOthers, ValidationFaithful
<1>2. ASSUME NEW r \in VRequest, Validation!Preview(r)
      PROVE  ValidationFaithful'
  <2>1. vRun'[r].at = "shown" /\ vRun'[r].step = vRun[r].step /\ vRun'[r].read = vRun[r].read
        /\ vRow'[r] = "absent" /\ vRun[r].at = "idle"
    BY <1>2, RunFields DEF Validation!Preview, ValidationTyped, ValidationRuns
  <2>2. After(r)
    BY <2>1, RunFields DEF ValidationIsHonest, ValidationFaithful, Observing
  <2>3. QED
    BY <1>1, <1>2, <2>2, ThreadsProceed DEF Validation!Preview, ValidationProceeds
<1>3. ASSUME NEW r \in VRequest, Validation!Reserve(r)
      PROVE  ValidationFaithful'
  <2>1. vRun'[r].at = "wait" /\ vRun'[r].step = vRun[r].step /\ vRun'[r].read = vRun[r].read
        /\ vRow'[r] = "executing" /\ vRun[r].at = "shown" /\ ValidationOthers(r)
    BY <1>3, RunFields DEF Validation!Reserve, ValidationTyped, ValidationRuns, ValidationOthers
  <2>2. After(r)
    BY <2>1, RunFields DEF ValidationIsHonest, ValidationFaithful, Observing
  <2>3. QED
    BY <1>1, <1>3, <2>1, <2>2 DEF Validation!Reserve
<1>4. ASSUME NEW r \in VRequest, NEW answer \in {"failed", "refused", "unknown"}, Validation!Settle(r, answer), UNCHANGED vSource
      PROVE  ValidationFaithful'
  <2>1. vRun'[r].at = "done" /\ vRun'[r].step = 0 /\ vRow'[r] = answer /\ ValidationOthers(r)
    BY <1>4, RunFields
    DEF Validation!Settle, ValidationTyped, ValidationRuns, Validation!NoRun, ValidationOthers
  <2>2. After(r)
    BY <2>1, RunFields DEF ValidationIsHonest, Observing
  <2>3. QED
    BY <1>1, <1>4, <2>1, <2>2
<1>5. ASSUME NEW r \in VRequest, Validation!Observe(r)
      PROVE  ValidationFaithful'
  <2>1. CASE Validation!Observation = vRun[r].shown /\ vRun' = [vRun EXCEPT ![r].at = "start"] /\ UNCHANGED vRow
    <3>1. vRun'[r].at = "start" /\ vRun'[r].step = vRun[r].step /\ vRun'[r].read = vRun[r].read
          /\ vRun'[r].shown = Validation!Observation /\ vRow'[r] = vRow[r] /\ vRun[r].at = "wait" /\ ValidationOthers(r)
      BY <1>5, <2>1, RunFields DEF Validation!Observe, ValidationTyped, ValidationRuns, ValidationOthers
    <3>2. vRow[r] = "executing" /\ Validation!Observation.source.inputs = vSource.inputs
      BY <3>1 DEF ValidationReserved, Executing, Validation!Observation
    <3>3. After(r)
      BY <1>0, <1>5, <3>1, <3>2, RunFields
      DEF ValidationIsHonest, ValidationFaithful, Observing, Validation!Observe
    <3>4. QED
      BY <1>1, <1>5, <3>1, <3>3 DEF Validation!Observe
  <2>2. QED
    BY <1>4, <1>5, <2>1 DEF Validation!Observe
<1>6. ASSUME NEW r \in VRequest, NEW names \in BOOLEAN, Validation!Start(r, names)
      PROVE  ValidationFaithful'
  <2>1. /\ vRun'[r].at = "command" \/ (vRun'[r].at = "held" /\ ~vRun'[r].ok)
        /\ vRun'[r].step = vRun[r].step /\ vRun'[r].read = vRun[r].read /\ vRun'[r].shown = vRun[r].shown
        /\ vRow'[r] = vRow[r] /\ vRun[r].at = "start"
    <3>1. CASE vRun' = [vRun EXCEPT ![r].at = "command"]
      BY <1>6, <3>1, RunFields DEF Validation!Start, ValidationTyped, ValidationRuns
    <3>2. CASE vRun' = [vRun EXCEPT ![r] = [@ EXCEPT !.at = "held", !.ok = FALSE]]
      BY <1>6, <3>2, RunFields DEF Validation!Start, ValidationTyped, ValidationRuns
    <3>3. QED
      BY <1>6, <3>1, <3>2 DEF Validation!Start
  <2>2. vRow[r] = "executing"
    BY <2>1 DEF ValidationReserved, Executing, Observing
  <2>3. After(r)
    BY <1>0, <1>6, <2>1, <2>2, RunFields DEF ValidationIsHonest, ValidationFaithful, Observing, Validation!Start
  <2>4. QED
    BY <1>1, <1>6, <2>3, ThreadsProceed DEF Validation!Start, ValidationProceeds
<1>7. ASSUME NEW r \in VRequest, NEW ok \in BOOLEAN, Validation!Command(r, ok)
      PROVE  ValidationFaithful'
  <2>1. vSource'.inputs = vSource.inputs
    BY <1>7 DEF Validation!Command, ValidationTyped, ValidationSources
  <2>2. /\ vRun'[r].step = vRun[r].step + 1 /\ vRun'[r].read = vRun[r].read \cup {vSource.inputs}
        /\ vRun'[r].shown = vRun[r].shown /\ vRow'[r] = vRow[r] /\ vRun[r].at = "command"
    BY <1>7, RunFields DEF Validation!Command, ValidationTyped, ValidationRuns
  <2>3. \/ vRun'[r].at = "command" /\ vRun[r].step + 1 # VCommands[r]
        \/ vRun'[r].at = "ran" /\ (vRun'[r].ok => vRun[r].step + 1 = VCommands[r])
    BY <1>7, RunFields DEF Validation!Command, ValidationTyped, ValidationRuns, Validation!Last
  <2>4. vRow[r] = "executing"
    BY <2>2 DEF ValidationReserved, Executing, Observing
  <2>5. After(r)
    BY <1>0, <2>1, <2>2, <2>3, <2>4, RunFields DEF ValidationIsHonest, ValidationFaithful, Observing
  <2>6. QED
    BY <1>1, <1>7, <2>1, <2>5, ThreadsProceed DEF ValidationProceeds
<1>8. ASSUME NEW r \in VRequest, Validation!CheckBinding(r) \/ \E names \in BOOLEAN : Validation!CheckOutputs(r, names)
      PROVE  ValidationFaithful'
  <2>1. /\ vRun'[r].step = vRun[r].step /\ vRun'[r].read = vRun[r].read /\ vRun'[r].shown = vRun[r].shown
        /\ vRow'[r] = vRow[r] /\ vRun[r].at \in {"ran", "held"} /\ vRun'[r].at \in {"held", "bound"}
        /\ (vRun'[r].ok => vRun[r].ok) /\ vSource'.inputs = vSource.inputs
    BY <1>8, JudgedThread DEF Validation!CheckBinding, Validation!CheckOutputs
  <2>2. After(r)
    BY <1>0, <2>1, RunFields DEF ValidationIsHonest, ValidationFaithful, Observing
  <2>3. QED
    BY <1>1, <1>8, <2>1, <2>2, ThreadsProceed DEF ValidationProceeds
<1>9. ASSUME NEW r \in VRequest, Validation!CheckSource(r)
      PROVE  ValidationFaithful'
  <2>1. /\ vRun'[r].step = vRun[r].step /\ vRun'[r].read = vRun[r].read /\ vRun'[r].shown = vRun[r].shown
        /\ vRow'[r] = vRow[r] /\ vRun[r].at = "bound" /\ vRun'[r].at = "judged"
    BY <1>9, JudgedThread DEF Validation!CheckSource
  <2>2. vRun'[r].ok => vRun[r].ok /\ vSource.inputs = seen(r)
    BY <1>9, JudgedThread DEF Validation!CheckSource
  <2>3. vRun'[r].ok => vRun[r].read = {seen(r)}
    <3>1. vRun'[r].ok => vRun[r].step > 0
      BY <2>1, <2>2, RunFields DEF ValidationIsHonest, ValidationFaithful
    <3>2. vRun'[r].ok => \A n \in vRun[r].read : n = seen(r)
      BY <1>0, <2>1, <2>2, RunFields DEF ValidationIsHonest, ValidationFaithful, Observing
    <3>3. QED
      BY <2>1, <3>1, <3>2 DEF ValidationIsHonest, ValidationFaithful, Observing
  <2>4. After(r)
    BY <1>0, <1>9, <2>1, <2>2, <2>3, RunFields
    DEF ValidationIsHonest, ValidationFaithful, Observing, Validation!CheckSource
  <2>5. QED
    BY <1>1, <1>9, <2>4, ThreadsProceed DEF Validation!CheckSource, ValidationProceeds
<1>10. ASSUME NEW r \in VRequest, Validation!Answer(r)
       PROVE  ValidationFaithful'
  <2>1. CASE vRun[r].ok /\ Validation!Settle(r, "passed")
    <3>1. /\ vRun'[r].step = vRun[r].step /\ vRun'[r].read = vRun[r].read /\ vRun'[r].shown = vRun[r].shown
          /\ vRun[r].at = "judged" /\ vRun'[r].at = "done" /\ ValidationOthers(r)
      BY <1>10, <2>1, RunFields
      DEF Validation!Answer, Validation!Settle, ValidationTyped, ValidationRuns, ValidationOthers
    <3>2. After(r)
      BY <2>1, <3>1, RunFields DEF ValidationIsHonest, ValidationFaithful, Observing
    <3>3. QED
      BY <1>1, <1>10, <3>1, <3>2 DEF Validation!Answer
  <2>2. QED
    BY <1>4, <1>10, <2>1 DEF Validation!Answer
<1>17. ASSUME NEW r \in VRequest, Validation!Raise(r)
       PROVE  ValidationFaithful'
  BY <1>4, <1>17 DEF Validation!Raise
<1>11. ASSUME NEW r \in VRequest, Validation!OrphanMoves(r)
       PROVE  ValidationFaithful'
  <2>1. vSource'.inputs = vSource.inputs
    BY <1>11 DEF Validation!OrphanMoves, ValidationTyped, ValidationSources
  <2>2. QED
    BY <1>11, <2>1 DEF Validation!OrphanMoves, ValidationFaithful
<1>12. ASSUME Validation!Crash
       PROVE  ValidationFaithful'
  <2>1. ASSUME NEW r \in VRequest, vRun'[r] # vRun[r]
        PROVE  After(r)
    <3>1. vRun'[r].at = "dead" /\ vRun'[r].step = 0 /\ vRun[r].at \notin {"idle", "shown", "done"}
      BY <1>12, <2>1 DEF Validation!Crash, Validation!NoRun
    <3>2. vRow'[r] # "passed"
      BY <1>12, <3>1, RunFields DEF Validation!Crash, ValidationReserved, ValidationStages
    <3>3. QED
      BY <3>1, <3>2, RunFields DEF ValidationIsHonest, Observing
  <2>2. QED
    BY <1>12, <2>1 DEF Validation!Crash, ValidationFaithful
<1>13. ASSUME Validation!Recover
       PROVE  ValidationFaithful'
  <2>1. \A r \in VRequest : vRow'[r] = vRow[r] \/ vRow'[r] = "unknown"
    BY <1>13 DEF Validation!Recover
  <2>2. QED
    BY <1>13, <2>1 DEF Validation!Recover, ValidationFaithful, ValidationIsHonest
<1>14. ASSUME Validation!Edit
       PROVE  ValidationFaithful'
  <2>1. vSource'.inputs \in Nat /\ vSource.inputs <= vSource'.inputs
    BY <1>0, <1>14 DEF Validation!Edit, ValidationTyped, ValidationSources
  <2>2. ASSUME NEW r \in VRequest
        PROVE  After(r)
    <3>1. ValidationIsHonest(vRun[r], vRow[r], VCommands[r], vSource.inputs) /\ vRun'[r] = vRun[r] /\ vRow'[r] = vRow[r]
      BY <1>14 DEF ValidationFaithful, Validation!Edit
    <3>2. QED
      BY <1>0, <2>1, <3>1, RunFields DEF ValidationIsHonest
  <2>3. QED
    BY <1>14, <2>2 DEF Validation!Edit, ValidationFaithful
<1>15. ASSUME Validation!Recovery \/ Validation!Unfenced \/ UNCHANGED Validation!vars
       PROVE  ValidationFaithful'
  BY <1>15 DEF Validation!Recovery, Validation!Unfenced, Validation!vars, ValidationFaithful
<1>16. QED
  BY <1>2, <1>3, <1>5, <1>6, <1>7, <1>8, <1>9, <1>10, <1>11, <1>12, <1>13, <1>14, <1>15, <1>17
  DEF Validation!Next

LEMMA ValidationInit == Validation!ValidationAssumption /\ Validation!Init => ValidationInv
<1> SUFFICES ASSUME Validation!ValidationAssumption, Validation!Init
             PROVE  ValidationInv
  OBVIOUS
<1>1. ValidationReserved /\ ValidationFencedFrom
  BY DEF Validation!Init, Validation!NoRun, ValidationReserved, ValidationFencedFrom, Executing, Observing
<1>2. ValidationFaithful
  BY
  DEF Validation!Init, Validation!NoRun, ValidationFaithful, ValidationIsHonest, Observing,
      Validation!ValidationAssumption
<1>3. QED
  BY <1>1, <1>2, InitType DEF ValidationInv

LEMMA ValidationAlways == Validation!ValidationAssumption /\ Validation!Spec => []ValidationInv
<1>1. ValidationInv /\ [Validation!Next]_Validation!vars => ValidationInv'
  BY TypedStep, ReservedStep, FencedStep, FaithfulStep DEF ValidationInv
<1>2. QED
  BY <1>1, ValidationInit, PTL DEF Validation!Spec

-----------------------------------------------------------------------------
(* The theorems.                                                             *)

\* Types, of the bounds too: a task is not recovered more often than it changes.
THEOREM ValidationTypeCorrect == Validation!ValidationAssumption /\ Validation!Spec => []Validation!TypeOK
<1>1. ValidationInv => Validation!TypeOK
  <2> SUFFICES ASSUME ValidationInv
               PROVE  Validation!TypeOK
    OBVIOUS
  <2>1. \A r \in VRequest : vRun[r].step \in 0 .. VCommands[r]
    BY DEF ValidationInv, ValidationFaithful, ValidationIsHonest
  <2>2. \A r \in VRequest : vRun[r].at \in ValidationStages /\ vRow[r] \in ValidationAnswers
    BY RunFields DEF ValidationInv
  <2>3. vTask.fenced \in 0 .. VMaxRevision
    BY DEF ValidationInv, ValidationTyped, ValidationTasks, Validation!ValidationAssumption
  <2>4. QED
    BY <2>1, <2>2, <2>3
    DEF ValidationInv, ValidationTyped, Validation!TypeOK, ValidationTasks, ValidationSources,
        ValidationAnswers, ValidationStages, Executing, Observing
<1>2. QED
  BY <1>1, ValidationAlways, PTL

\* What controlled_validation_service.py answers: a check that passed ran all its commands
\* on the previewed inputs, and one command is at work at a time, also across a restart.
THEOREM ChecksAreHonest == Validation!ValidationAssumption /\ Validation!Spec => []Validation!ValidationHonest
<1>1. ValidationInv => Validation!ValidationHonest
  <2> SUFFICES ASSUME ValidationInv
               PROVE  Validation!ValidationHonest
    OBVIOUS
  <2>1. \A r \in VRequest : vRow[r] = "passed" =>
           vRun[r].step = VCommands[r] /\ vRun[r].read = {vRun[r].shown.source.inputs}
    BY DEF ValidationInv, ValidationFaithful, ValidationIsHonest
  <2> DEFINE W == vOrphan \cup {r \in VRequest : vRun[r].at = "command"}
  <2>2. \A r, q \in W : r = q
    <3>1. \A r, q \in VRequest : vRun[r].at = "command" /\ vRun[q].at = "command" => r = q
      BY DEF ValidationInv, ValidationReserved, Executing, Observing
    <3>2. QED
      BY <3>1 DEF ValidationInv, ValidationFencedFrom, Observing
  <2>3. Cardinality(W) <= 1
    <3>1. CASE W = {}
      BY <3>1, FS_EmptySet
    <3>2. ASSUME NEW r \in W
          PROVE  Cardinality(W) <= 1
      <4>1. W = {r}
        BY <2>2, <3>2
      <4>2. Cardinality({r}) = 1
        BY FS_Singleton
      <4>3. QED
        BY <4>1, <4>2
    <3>3. QED
      BY <3>1, <3>2
  <2>4. QED
    BY <2>1, <2>3, ValidationSizes DEF Validation!ValidationHonest
<1>2. QED
  BY <1>1, ValidationAlways, PTL

\* The reservation holds from before the comparison with the preview until the answer, and
\* whatever recovers the node or amends its contract asks for it: nothing of that kind
\* happened under a check that passes.
THEOREM ChecksAreFenced == Validation!ValidationAssumption /\ Validation!Spec => [][Validation!ValidationFenced]_Validation!vars
<1>1. ValidationInv /\ [Validation!Next]_Validation!vars => [Validation!ValidationFenced]_Validation!vars
  <2> SUFFICES ASSUME ValidationInv, Validation!Next,
                      NEW r \in VRequest, vRow[r] = "executing", vRow'[r] = "passed"
               PROVE  vTask.fenced = vRun[r].shown.task.fenced /\ vOrphan = {}
    BY DEF Validation!ValidationFenced, Validation!vars
  <2>1. vRun[r].at = "judged" /\ vRun[r].ok
    <3>1. ASSUME NEW q \in VRequest, q # r, ValidationProceeds(q)
          PROVE  FALSE
      BY <3>1 DEF ValidationProceeds, ValidationOthers
    <3>5. ASSUME Validation!Answer(r)
          PROVE  vRun[r].at = "judged" /\ vRun[r].ok
      BY <3>5 DEF Validation!Answer, Validation!Settle, ValidationInv, ValidationTyped
    <3>6. ASSUME Validation!Raise(r)
          PROVE  FALSE
      BY <3>6 DEF Validation!Raise, Validation!Settle, ValidationInv, ValidationTyped
    <3>2. ASSUME \E q \in VRequest : Validation!Reserve(q)
          PROVE  FALSE
      BY <3>2 DEF Validation!Reserve, ValidationInv, ValidationTyped
    <3>3. ASSUME Validation!Observe(r)
          PROVE  FALSE
      BY <3>3 DEF Validation!Observe, Validation!Settle, ValidationInv, ValidationTyped
    <3>4. QED
      BY <3>1, <3>2, <3>3, <3>5, <3>6, ThreadsProceed
      DEF Validation!Next, ValidationInv, ValidationTyped, Validation!Preview, Validation!Start,
          Validation!Command, Validation!CheckOutputs, Validation!CheckBinding, Validation!CheckSource,
          Validation!OrphanMoves, Validation!Crash,
          Validation!Recover, Validation!Recovery, Validation!Unfenced, Validation!Edit
  <2>2. QED
    BY <2>1 DEF ValidationInv, ValidationFencedFrom, Observing
<1>2. QED
  BY <1>1, ValidationAlways, PTL DEF Validation!Spec

-----------------------------------------------------------------------------
(* BlockedRecovery: the work of the node always has one owner, and what is    *)
(* handed over is what was captured and shown.                                *)

(* The invariant.                                                           *)

Authorized == bNode.recovery.state = "authorized"

\* The allocation that holds the work: the source a recovery would carry over, or the
\* worktree of the row.
WorkOwner == IF Authorized THEN bNode.recovery.source ELSE bNode.attempt

\* It is the only active one and the newest, so that a target is not yet anybody's.
Held ==
    /\ WorkOwner \in Blocked!Attempt /\ bFiles[WorkOwner] # 0
    /\ \A a \in Blocked!Attempt : bAlloc[a] = "active" <=> a = WorkOwner
    /\ \A a \in Blocked!Attempt : a > WorkOwner => bAlloc[a] = "none"
    /\ bNode.worktree = IF Authorized THEN 0 ELSE WorkOwner

\* A patch was read from work, and is what the caller was shown if he was shown any.
Exact(patch, digest) == patch # 0 /\ (digest # 0 => patch = digest)

\* What an authorized receipt says; and that its target is the attempt after its source.
ReceiptFits ==
    /\ Authorized =>
          /\ bNode.recovery.kind \in {"dirty", "failed"}
          /\ bNode.recovery.from \in {"blocked", "failed"}
          /\ bNode.recovery.back \in {"blocked", "needs_fix"}
          /\ bNode.recovery.kind = "dirty" => Exact(bNode.recovery.patch, bNode.recovery.digest)
    /\ bNode.state = "pending" => bNode.attempt = bNode.recovery.source
    /\ bNode.state = "running" => /\ bNode.recovery.state # "none"
                                  /\ Authorized => bNode.attempt = bNode.recovery.source + 1

CallFits ==
    bOp.pc \in {"captured", "cleared"} /\ bOp.route \in {"resume", "extract"} => Exact(bOp.patch, bOp.digest)

\* The thread: a target takes over only at the end, holding the patch.
PrepFits ==
    /\ bPrep.pc # "idle" <=> bNode.state = "running"
    /\ bPrep.pc \in {"claimed", "captured", "restored", "verified", "validated"} => Authorized
    /\ bPrep.pc \in {"captured", "restored", "verified", "validated"} =>
          Exact(bPrep.patch, bNode.recovery.digest)
    /\ bPrep.pc = "validated" => bFiles[bNode.attempt] = bPrep.patch
    /\ bPrep.pc = "executing" \/ bPrep.outcome = "succeeded" => bNode.recovery.state = "assigned"
    /\ bPrep.pc = "settling" => bPrep.outcome # "none"
    /\ bPrep.pc = "idle" => bPrep = Blocked!NoPrep

RecoveryInv == Blocked!RecoveryAssumption /\ Blocked!TypeOK /\ Held /\ ReceiptFits /\ CallFits /\ PrepFits

-----------------------------------------------------------------------------
(* Types.                                                                   *)

NodeStates == {"blocked", "indeterminate", "pending", "running", "accepted", "failed", "cancelled"}
NodeResults == {"none", "blocked", "failed", "indeterminate", "succeeded"}
Outcomes == {"none", "succeeded", "blocked", "failed", "indeterminate"}

LEMMA NodeFields ==
    ASSUME Blocked!TypeOK
    PROVE  /\ bNode.state \in NodeStates /\ bNode.attempt \in Blocked!Attempt /\ bNode.worktree \in 0 .. BMaxAttempt
           /\ bNode.result \in NodeResults /\ bNode.recovery \in Blocked!RecoveryReceipt
  BY DEF Blocked!TypeOK, NodeStates, NodeResults

LEMMA ReceiptFields ==
    ASSUME Blocked!TypeOK
    PROVE  /\ bNode.recovery.kind \in {"none", "dirty", "failed"}
           /\ bNode.recovery.state \in {"none", "authorized", "assigned"}
           /\ bNode.recovery.source \in 0 .. BMaxAttempt
           /\ bNode.recovery.patch \in 0 .. BMaxContent /\ bNode.recovery.digest \in 0 .. BMaxContent
           /\ bNode.recovery.from \in {"none", "blocked", "failed"}
           /\ bNode.recovery.back \in {"none", "blocked", "needs_fix"}
  BY DEF Blocked!TypeOK, Blocked!RecoveryReceipt

LEMMA CallFields ==
    ASSUME Blocked!TypeOK
    PROVE  /\ bOp.pc \in {"idle", "asked", "captured", "cleared"} /\ bOp.route \in Blocked!Calls
           /\ bOp.attempt \in 0 .. BMaxAttempt /\ bOp.patch \in 0 .. BMaxContent /\ bOp.digest \in 0 .. BMaxContent
  BY DEF Blocked!TypeOK

LEMMA PrepFields ==
    ASSUME Blocked!TypeOK
    PROVE  /\ bPrep.pc \in {"idle", "claimed", "captured", "restored", "verified", "validated",
                            "executing", "settling"}
           /\ bPrep.patch \in 0 .. BMaxContent /\ bPrep.outcome \in Outcomes
  BY DEF Blocked!TypeOK, Outcomes

LEMMA NothingTypes ==
    ASSUME Blocked!RecoveryAssumption
    PROVE  /\ Blocked!NoRecovery \in Blocked!RecoveryReceipt
           /\ Blocked!NoCall \in [pc : {"idle", "asked", "captured", "cleared"}, route : Blocked!Calls,
                                  current : BOOLEAN, attempt : 0..BMaxAttempt,
                                  patch : 0..BMaxContent, digest : 0..BMaxContent]
           /\ Blocked!NoPrep \in [pc : {"idle", "claimed", "captured", "restored", "verified", "validated",
                                        "executing", "settling"},
                                  patch : 0..BMaxContent, outcome : Outcomes]
  BY
  DEF Blocked!NoRecovery, Blocked!NoCall, Blocked!NoPrep, Blocked!RecoveryReceipt, Blocked!RecoveryAssumption,
      Blocked!Calls, Outcomes

\* The receipts a call builds, and the row of a source that is put back.
LEMMA ReceiptTypes ==
    ASSUME Blocked!RecoveryAssumption, Blocked!TypeOK
    PROVE  Blocked!DirtyReceipt(bOp) \in Blocked!RecoveryReceipt /\ Blocked!FailedReceipt(bOp) \in Blocked!RecoveryReceipt
  BY CallFields
  DEF Blocked!DirtyReceipt, Blocked!FailedReceipt, Blocked!RecoveryReceipt, Blocked!RecoveryAssumption,
      Blocked!OfBlocked

NodeRows == [state : NodeStates, attempt : Blocked!Attempt, worktree : 0 .. BMaxAttempt, result : NodeResults,
             recovery : Blocked!RecoveryReceipt]
CallRows == [pc : {"idle", "asked", "captured", "cleared"}, route : Blocked!Calls, current : BOOLEAN,
             attempt : 0 .. BMaxAttempt, patch : 0 .. BMaxContent, digest : 0 .. BMaxContent]
PrepRows == [pc : {"idle", "claimed", "captured", "restored", "verified", "validated",
                   "executing", "settling"}, patch : 0 .. BMaxContent, outcome : Outcomes]
TaskStates == {"blocked", "needs_approval", "queued", "running", "verifying", "needs_fix", "paused", "cancelled"}

LEMMA TypeParts ==
    Blocked!TypeOK <=> /\ bTask \in TaskStates /\ bNode \in NodeRows
                       /\ bAlloc \in [Blocked!Attempt -> {"none", "active", "superseded"}]
                       /\ bFiles \in [Blocked!Attempt -> 0 .. BMaxContent]
                       /\ bApproval \in BOOLEAN /\ bValidating \in BOOLEAN /\ bSpent \in 0 .. BMaxActions
                       /\ bOp \in CallRows /\ bPrep \in PrepRows
                       /\ bNode.state = "pending" => Authorized
  BY DEF Blocked!TypeOK, TaskStates, NodeRows, NodeStates, NodeResults, CallRows, PrepRows, Outcomes, Authorized

LEMMA QueuedType ==
    ASSUME Blocked!RecoveryAssumption, Blocked!TypeOK, NEW r \in Blocked!RecoveryReceipt, r.state = "authorized", bNode' = Blocked!Queued(r)
    PROVE  bNode' \in NodeRows /\ bNode'.state = "pending" /\ bNode'.recovery = r
           /\ bNode'.attempt = bNode.attempt /\ bNode'.worktree = 0 /\ Authorized'
<1>1. bNode \in NodeRows
  BY TypeParts
<1> DEFINE row == [state |-> "pending", attempt |-> bNode.attempt, worktree |-> 0, result |-> "none",
                   recovery |-> r]
<1>2. bNode' = row
  BY <1>1 DEF Blocked!Queued, NodeRows
<1>3. row \in NodeRows
  <2>1. 0 \in 0 .. BMaxAttempt
    BY DEF Blocked!RecoveryAssumption
  <2>2. "pending" \in NodeStates /\ "none" \in NodeResults /\ bNode.attempt \in Blocked!Attempt
    BY NodeFields DEF NodeStates, NodeResults
  <2>3. QED
    BY <2>1, <2>2 DEF NodeRows
<1>4. QED
  BY <1>2, <1>3 DEF Authorized

LEMMA RestoredType ==
    ASSUME RecoveryInv, Authorized, bNode' = Blocked!Restored(bNode.recovery)
    PROVE  bNode' \in NodeRows /\ bNode'.state # "pending"
<1>1. Blocked!NoRecovery \in Blocked!RecoveryReceipt /\ bNode.recovery.source \in Blocked!Attempt
  BY NothingTypes DEF RecoveryInv, Held, WorkOwner
<1>2. bNode.recovery.from \in {"blocked", "failed"}
  BY DEF RecoveryInv, ReceiptFits
<1>3. QED
  BY <1>1, <1>2 DEF Blocked!Restored, Blocked!Row, NodeRows, NodeStates, NodeResults, Blocked!Attempt

LEMMA SetTaskType ==
    ASSUME Blocked!TypeOK, NEW state \in TaskStates, Blocked!SetTask(state)
    PROVE  bTask' \in TaskStates /\ bOp' \in CallRows
  BY TypeParts DEF Blocked!SetTask, CallRows

PrepSteps == {"claimed", "captured", "restored", "verified", "validated", "executing", "settling"}

LEMMA PrepAdvances ==
    ASSUME Blocked!TypeOK, NEW pc \in PrepSteps
    PROVE  [bPrep EXCEPT !.pc = pc] \in PrepRows
  BY TypeParts DEF PrepRows, PrepSteps

LEMMA PrepCaptures ==
    ASSUME Blocked!TypeOK, NEW pc \in PrepSteps, NEW patch \in 0 .. BMaxContent
    PROVE  [bPrep EXCEPT !.pc = pc, !.patch = patch] \in PrepRows
  BY TypeParts DEF PrepRows, PrepSteps

LEMMA PrepEnds ==
    ASSUME Blocked!TypeOK, NEW pc \in PrepSteps, NEW outcome \in Outcomes
    PROVE  [bPrep EXCEPT !.pc = pc, !.outcome = outcome] \in PrepRows
  BY TypeParts DEF PrepRows, PrepSteps

\* The steps that only move the call in flight.
CallOnly == UNCHANGED <<bTask, bNode, bAlloc, bFiles, bApproval, bValidating, bSpent, bPrep>>

CallStep == (\E route \in BRoute : Blocked!Ask(route) \/ Blocked!Preview(route)) \/ Blocked!Capture \/ Blocked!Inspect \/ Blocked!Preflight

LEMMA CallsMoveThemselves ==
    ASSUME RecoveryInv, CallStep
    PROVE  CallOnly /\ bOp' \in CallRows /\ CallFits'
<1> USE DEF RecoveryInv
<1>1. ASSUME Blocked!Refuse
      PROVE  CallOnly /\ bOp' \in CallRows /\ CallFits'
  BY <1>1, NothingTypes DEF Blocked!Refuse, CallOnly, CallRows, CallFits, Blocked!NoCall
<1>2. ASSUME NEW route \in BRoute, Blocked!Ask(route)
      PROVE  CallOnly /\ bOp' \in CallRows /\ CallFits'
  <2>1. bOp' = Blocked!Call(route, 0) /\ CallOnly
    BY <1>2 DEF Blocked!Ask, Blocked!Advance, CallOnly
  <2>2. bOp' \in CallRows
    BY <2>1, NodeFields DEF Blocked!Call, CallRows, Blocked!RecoveryAssumption, Blocked!Attempt
  <2>3. CallFits'
    BY <2>1 DEF Blocked!Call, CallFits
  <2>4. QED
    BY <2>1, <2>2, <2>3
<1>3. ASSUME NEW route \in BRoute, Blocked!Preview(route)
      PROVE  CallOnly /\ bOp' \in CallRows /\ CallFits'
  <2>1. bOp' = Blocked!Call(route, Blocked!Delta(bNode.attempt)) /\ CallOnly
    BY <1>3 DEF Blocked!Preview, Blocked!Advance, CallOnly
  <2>2. Blocked!Delta(bNode.attempt) \in 0 .. BMaxContent
    BY NodeFields, TypeParts DEF Blocked!Delta
  <2>3. bOp' \in CallRows
    BY <2>1, <2>2, NodeFields DEF Blocked!Call, CallRows, Blocked!RecoveryAssumption, Blocked!Attempt
  <2>4. CallFits'
    BY <2>1 DEF Blocked!Call, CallFits
  <2>5. QED
    BY <2>1, <2>3, <2>4
<1>4. ASSUME Blocked!Capture
      PROVE  CallOnly /\ bOp' \in CallRows /\ CallFits'
  <2>1. CASE Blocked!Candidate(bOp) /\ Blocked!Unchanged(bOp.attempt, 0, bOp.digest)
             /\ Blocked!Advance([bOp EXCEPT !.pc = "captured", !.patch = Blocked!Sealed(bOp.attempt)])
    <3>1. bOp.attempt = WorkOwner
      BY <2>1 DEF Blocked!Candidate, Blocked!NoRecovery, WorkOwner, Authorized
    <3>2. bFiles[bOp.attempt] \in 0 .. BMaxContent /\ Exact(bFiles[bOp.attempt], bOp.digest)
      BY <2>1, <3>1, TypeParts DEF Held, Blocked!Unchanged, Blocked!MatchesDigest, Blocked!Delta, Exact
    <3>3. bOp' \in CallRows
      BY <2>1, <3>2, TypeParts DEF Blocked!Advance, Blocked!Sealed, CallRows
    <3>4. bOp'.patch = bFiles[bOp.attempt] /\ bOp'.digest = bOp.digest
      BY <2>1, TypeParts DEF Blocked!Advance, Blocked!Sealed, CallRows
    <3>5. QED
      BY <2>1, <3>2, <3>3, <3>4 DEF Blocked!Advance, CallOnly, CallFits
  <2>2. QED
    BY <1>1, <1>4, <2>1 DEF Blocked!Capture
<1>5. ASSUME Blocked!Inspect
      PROVE  CallOnly /\ bOp' \in CallRows /\ CallFits'
  <2>1. CASE Blocked!Advance([bOp EXCEPT !.pc = "captured"])
    <3>1. bOp' \in CallRows /\ bOp'.route = bOp.route
      BY <2>1, TypeParts DEF Blocked!Advance, CallRows
    <3>2. QED
      BY <1>5, <2>1, <3>1 DEF Blocked!Inspect, Blocked!Advance, CallOnly, CallFits
  <2>2. QED
    BY <1>1, <1>5, <2>1 DEF Blocked!Inspect
<1>6. ASSUME Blocked!Preflight
      PROVE  CallOnly /\ bOp' \in CallRows /\ CallFits'
  <2>1. CASE Blocked!Advance([bOp EXCEPT !.pc = "cleared"])
    <3>1. bOp' \in CallRows /\ bOp'.route = bOp.route /\ bOp'.patch = bOp.patch /\ bOp'.digest = bOp.digest
      BY <2>1, TypeParts DEF Blocked!Advance, CallRows
    <3>2. QED
      BY <1>6, <2>1, <3>1 DEF Blocked!Preflight, Blocked!Advance, CallOnly, CallFits
  <2>2. QED
    BY <1>1, <1>6, <2>1 DEF Blocked!Preflight
<1>7. QED
  BY <1>2, <1>3, <1>4, <1>5, <1>6 DEF CallStep

\* A step that queues the node behind a receipt for its own work.
LEMMA QueuedHolds ==
    ASSUME RecoveryInv, NEW r \in Blocked!RecoveryReceipt, bNode' = Blocked!Queued(r), ~Authorized, bNode.state # "running",
           r.state = "authorized", r.source = bNode.attempt, r.kind \in {"dirty", "failed"},
           r.from \in {"blocked", "failed"}, r.back \in {"blocked", "needs_fix"},
           r.kind = "dirty" => Exact(r.patch, r.digest),
           UNCHANGED <<bAlloc, bFiles, bPrep>>
    PROVE  bNode' \in NodeRows /\ Authorized' /\ Held' /\ ReceiptFits' /\ PrepFits'
<1> USE DEF RecoveryInv
<1>1. /\ bNode' \in NodeRows /\ bNode'.state = "pending" /\ bNode'.recovery = r
      /\ bNode'.attempt = bNode.attempt /\ bNode'.worktree = 0 /\ Authorized'
  BY QueuedType
<1>2. WorkOwner' = WorkOwner /\ WorkOwner = bNode.attempt
  BY <1>1 DEF WorkOwner
<1>3. Held'
  BY <1>1, <1>2 DEF Held
<1>4. ReceiptFits'
  BY <1>1 DEF ReceiptFits
<1>5. bPrep.pc = "idle" /\ bPrep = Blocked!NoPrep
  BY DEF PrepFits
<1>6. PrepFits'
  BY <1>1, <1>5 DEF PrepFits, Blocked!NoPrep
<1>7. QED
  BY <1>1, <1>3, <1>4, <1>6

\* A step that puts the source attempt back.
LEMMA RestoredHolds ==
    ASSUME RecoveryInv, Authorized, bNode' = Blocked!Restored(bNode.recovery), bPrep' = Blocked!NoPrep, UNCHANGED <<bAlloc, bFiles>>
    PROVE  bNode' \in NodeRows /\ bNode'.state # "pending" /\ Held' /\ ReceiptFits' /\ PrepFits'
<1> USE DEF RecoveryInv
<1>1. bNode' \in NodeRows /\ bNode'.state # "pending"
  BY RestoredType
<1>2. /\ bNode'.attempt = bNode.recovery.source /\ bNode'.worktree = bNode.recovery.source
      /\ bNode'.recovery = Blocked!NoRecovery /\ bNode'.state = bNode.recovery.from
  BY DEF Blocked!Restored, Blocked!Row
<1>3. ~Authorized' /\ bNode'.recovery.state = "none" /\ bNode'.state # "running"
  BY <1>2 DEF Authorized, Blocked!NoRecovery, ReceiptFits
<1>4. WorkOwner' = WorkOwner
  BY <1>2, <1>3 DEF WorkOwner
<1>5. Held'
  BY <1>2, <1>3, <1>4 DEF Held, WorkOwner
<1>6. ReceiptFits'
  BY <1>1, <1>3 DEF ReceiptFits
<1>7. PrepFits'
  BY <1>3 DEF PrepFits, Blocked!NoPrep
<1>8. QED
  BY <1>1, <1>5, <1>6, <1>7

\* A step that leaves the node, its allocations and what they hold.
LEMMA StillHeld ==
    ASSUME RecoveryInv, UNCHANGED <<bNode, bAlloc, bFiles>>
    PROVE  Held' /\ ReceiptFits' /\ (UNCHANGED bPrep => PrepFits')
<1>1. WorkOwner' = WorkOwner /\ (Authorized' <=> Authorized)
  BY DEF WorkOwner, Authorized
<1>2. Held'
  BY <1>1 DEF RecoveryInv, Held
<1>3. ReceiptFits'
  BY <1>1 DEF RecoveryInv, ReceiptFits
<1>4. UNCHANGED bPrep => PrepFits'
  BY <1>1 DEF RecoveryInv, PrepFits
<1>5. QED
  BY <1>2, <1>3, <1>4

\* The operator's decision, and the claim and the settlement, leave the owner.
LEMMA TypedTogether ==
    ASSUME bTask' \in TaskStates, bNode' \in NodeRows, bAlloc' \in [Blocked!Attempt -> {"none", "active", "superseded"}],
           bFiles' \in [Blocked!Attempt -> 0 .. BMaxContent], bApproval' \in BOOLEAN, bValidating' \in BOOLEAN,
           bSpent' \in 0 .. BMaxActions, bOp' \in CallRows, bPrep' \in PrepRows,
           bNode'.state = "pending" => Authorized'
    PROVE  Blocked!TypeOK'
  BY DEF Blocked!TypeOK, TaskStates, NodeRows, NodeStates, NodeResults, CallRows, PrepRows, Outcomes, Authorized

-----------------------------------------------------------------------------
(* One step.                                                                *)

\* The calls that commit.
LEMMA CommitStep == RecoveryInv /\ (Blocked!Resume \/ Blocked!Repair \/ Blocked!QueueLocal) => RecoveryInv'
<1> SUFFICES ASSUME RecoveryInv, Blocked!Resume \/ Blocked!Repair \/ Blocked!QueueLocal
             PROVE  RecoveryInv'
  OBVIOUS
<1> USE DEF RecoveryInv
<1>1. CASE Blocked!Refuse
  <2>1. bOp' \in CallRows /\ CallFits'
    BY <1>1, NothingTypes DEF Blocked!Refuse, CallRows, CallFits, Blocked!NoCall
  <2>2. Held' /\ ReceiptFits' /\ PrepFits'
    BY <1>1, StillHeld DEF Blocked!Refuse
  <2>3. Blocked!TypeOK'
    BY <1>1, <2>1, TypeParts, TypedTogether DEF Blocked!Refuse, Authorized
  <2>4. QED
    BY <2>1, <2>2, <2>3
<1>2. ASSUME NEW r \in Blocked!RecoveryReceipt, Blocked!Candidate(bOp), bNode' = Blocked!Queued(r), bOp' = Blocked!NoCall,
             r.state = "authorized", r.source = bOp.attempt, r.kind \in {"dirty", "failed"},
             r.from \in {"blocked", "failed"}, r.back \in {"blocked", "needs_fix"},
             r.kind = "dirty" => Exact(r.patch, r.digest),
             bTask' \in TaskStates, bApproval' \in BOOLEAN, bSpent' \in 0 .. BMaxActions,
             UNCHANGED <<bAlloc, bFiles, bValidating, bPrep>>
      PROVE  RecoveryInv'
  <2>1. ~Authorized /\ bNode.state # "running" /\ bOp.attempt = bNode.attempt
    BY <1>2
    DEF Blocked!Candidate, Blocked!NoRecovery, Authorized, Blocked!BlockedCandidate, Blocked!LocalCandidate
  <2>2. bNode' \in NodeRows /\ Authorized' /\ Held' /\ ReceiptFits' /\ PrepFits'
    BY <1>2, <2>1, QueuedHolds
  <2>3. bOp' \in CallRows /\ CallFits'
    BY <1>2, NothingTypes DEF CallRows, CallFits, Blocked!NoCall
  <2>4. Blocked!TypeOK'
    BY <1>2, <2>2, <2>3, TypeParts, TypedTogether
  <2>5. QED
    BY <2>2, <2>3, <2>4
<1>3. /\ Blocked!FailedReceipt(bOp) \in Blocked!RecoveryReceipt
      /\ Blocked!FailedReceipt(bOp).state = "authorized" /\ Blocked!FailedReceipt(bOp).source = bOp.attempt
      /\ Blocked!FailedReceipt(bOp).kind = "failed"
      /\ Blocked!FailedReceipt(bOp).from \in {"blocked", "failed"}
      /\ Blocked!FailedReceipt(bOp).back \in {"blocked", "needs_fix"}
  BY ReceiptTypes DEF Blocked!FailedReceipt
<1>4. CASE Blocked!Resume
  <2>1. CASE /\ Blocked!Candidate(bOp) /\ bNode' = Blocked!Queued(Blocked!DirtyReceipt(bOp)) /\ bOp' = Blocked!NoCall
             /\ bTask' = IF bTask = "blocked" THEN "queued" ELSE bTask
             /\ UNCHANGED <<bAlloc, bFiles, bApproval, bValidating, bSpent, bPrep>>
    <3>1. bTask' \in TaskStates
      BY <2>1, TypeParts DEF TaskStates
    <3>2. Exact(Blocked!DirtyReceipt(bOp).patch, Blocked!DirtyReceipt(bOp).digest)
      BY <1>4 DEF Blocked!Resume, Blocked!Cleared, CallFits, Blocked!DirtyReceipt
    <3>3. /\ Blocked!DirtyReceipt(bOp) \in Blocked!RecoveryReceipt
          /\ Blocked!DirtyReceipt(bOp).state = "authorized" /\ Blocked!DirtyReceipt(bOp).source = bOp.attempt
          /\ Blocked!DirtyReceipt(bOp).kind = "dirty"
          /\ Blocked!DirtyReceipt(bOp).from = "blocked" /\ Blocked!DirtyReceipt(bOp).back = "blocked"
      BY ReceiptTypes DEF Blocked!DirtyReceipt
    <3>4. QED
      BY <1>2, <2>1, <3>1, <3>2, <3>3, TypeParts
  <2>2. QED
    BY <1>1, <1>4, <2>1 DEF Blocked!Resume
<1>5. CASE Blocked!Repair
  <2>1. CASE /\ Blocked!Candidate(bOp) /\ bNode' = Blocked!Queued(Blocked!FailedReceipt(bOp)) /\ bOp' = Blocked!NoCall /\ bTask' = "queued"
             /\ bSpent < BMaxActions /\ bSpent' = bSpent + 1
             /\ UNCHANGED <<bAlloc, bFiles, bApproval, bValidating, bPrep>>
    <3>1. bSpent' \in 0 .. BMaxActions
      BY <2>1, TypeParts DEF Blocked!RecoveryAssumption
    <3>2. QED
      BY <1>2, <1>3, <2>1, <3>1, TypeParts DEF TaskStates
  <2>2. QED
    BY <1>1, <1>5, <2>1 DEF Blocked!Repair
<1>6. CASE Blocked!QueueLocal
  <2>1. CASE /\ Blocked!Candidate(bOp) /\ bNode' = Blocked!Queued(Blocked!FailedReceipt(bOp)) /\ bOp' = Blocked!NoCall /\ bTask' = "queued"
             /\ bApproval' = FALSE /\ UNCHANGED <<bAlloc, bFiles, bValidating, bSpent, bPrep>>
    BY <1>2, <1>3, <2>1, TypeParts DEF TaskStates
  <2>2. QED
    BY <1>1, <1>6, <2>1 DEF Blocked!QueueLocal
<1>7. QED
  BY <1>4, <1>5, <1>6

\* What the claim does to the row and to the task.
LEMMA ClaimStep == RecoveryInv /\ Blocked!Claim => RecoveryInv'
<1> SUFFICES ASSUME RecoveryInv, Blocked!Claim
             PROVE  RecoveryInv'
  OBVIOUS
<1> USE DEF RecoveryInv
<1>1. bNode.state = "pending" /\ Authorized /\ bNode.attempt = bNode.recovery.source /\ bNode.attempt < BMaxAttempt
  BY DEF Blocked!Claim, Blocked!TypeOK, Authorized, ReceiptFits
<1>2. bNode.attempt \in Nat /\ bNode.attempt + 1 \in Blocked!Attempt
  BY <1>1, NodeFields DEF Blocked!Attempt, Blocked!RecoveryAssumption
<1>3. /\ bNode'.state = "running" /\ bNode'.attempt = bNode.attempt + 1 /\ bNode'.recovery = bNode.recovery
      /\ bNode'.worktree = bNode.worktree
  BY TypeParts DEF Blocked!Claim, NodeRows
<1>4. bNode' \in NodeRows
  BY <1>2, TypeParts DEF Blocked!Claim, NodeRows, NodeStates
<1>5. /\ bPrep' \in PrepRows /\ bPrep'.pc = "claimed" /\ bPrep'.outcome = "none"
  BY NothingTypes DEF Blocked!Claim, PrepRows, Blocked!NoPrep
<1>6. Authorized' /\ WorkOwner' = WorkOwner
  BY <1>1, <1>3 DEF Authorized, WorkOwner
<1>7. Held'
  BY <1>3, <1>6, <1>1 DEF Held, Blocked!Claim
<1>8. ReceiptFits'
  BY <1>1, <1>3, <1>6 DEF ReceiptFits, Authorized
<1>9. PrepFits'
  BY <1>3, <1>5, <1>6 DEF PrepFits
<1>10. bTask' \in TaskStates /\ bOp' \in CallRows /\ CallFits'
  <2>1. CASE Blocked!SetTask("running")
    <3>1. bOp'.pc = bOp.pc /\ bOp'.route = bOp.route /\ bOp'.patch = bOp.patch /\ bOp'.digest = bOp.digest
      BY <2>1, TypeParts DEF Blocked!SetTask, CallRows
    <3>2. QED
      BY <2>1, <3>1, SetTaskType DEF TaskStates, CallFits
  <2>2. CASE UNCHANGED <<bTask, bOp>>
    BY <2>2, TypeParts DEF CallFits
  <2>3. QED
    BY <2>1, <2>2 DEF Blocked!Claim
<1>11. Blocked!TypeOK'
  BY <1>4, <1>5, <1>6, <1>10, TypeParts, TypedTogether DEF Blocked!Claim
<1>12. QED
  BY <1>7, <1>8, <1>9, <1>10, <1>11

\* A write of the task's row leaves what a call has captured.
LEMMA SetTaskFits ==
    ASSUME RecoveryInv, NEW state \in TaskStates, Blocked!SetTask(state) \/ UNCHANGED <<bTask, bOp>>
    PROVE  bTask' \in TaskStates /\ bOp' \in CallRows /\ CallFits'
<1> USE DEF RecoveryInv
<1>1. CASE Blocked!SetTask(state)
  <2>1. bOp'.pc = bOp.pc /\ bOp'.route = bOp.route /\ bOp'.patch = bOp.patch /\ bOp'.digest = bOp.digest
    BY <1>1, TypeParts DEF Blocked!SetTask, CallRows
  <2>2. QED
    BY <1>1, <2>1, SetTaskType DEF CallFits
<1>2. CASE UNCHANGED <<bTask, bOp>>
  BY <1>2, TypeParts DEF CallFits
<1>3. QED
  BY <1>1, <1>2

\* A step of the thread that changes no row, and of the directories at most the target.
LEMMA ThreadHolds ==
    ASSUME RecoveryInv, bNode.state = "running", bPrep' \in PrepRows, PrepFits',
           UNCHANGED <<bTask, bNode, bAlloc, bApproval, bValidating, bSpent, bOp>>,
           bFiles' \in [Blocked!Attempt -> 0 .. BMaxContent], bFiles'[WorkOwner] = bFiles[WorkOwner]
    PROVE  RecoveryInv'
<1> USE DEF RecoveryInv
<1>1. WorkOwner' = WorkOwner /\ (Authorized' <=> Authorized)
  BY DEF WorkOwner, Authorized
<1>2. Held'
  BY <1>1 DEF Held
<1>3. ReceiptFits'
  BY <1>1 DEF ReceiptFits
<1>4. CallFits'
  BY DEF CallFits
<1>5. Blocked!TypeOK'
  BY <1>1, TypeParts, TypedTogether
<1>6. QED
  BY <1>2, <1>3, <1>4, <1>5

\* The target is another directory than the source.
LEMMA TargetIsFresh ==
    ASSUME RecoveryInv, bNode.state = "running", Authorized
    PROVE  /\ WorkOwner = bNode.recovery.source /\ Blocked!Source = WorkOwner /\ bNode.attempt # WorkOwner
           /\ bNode.attempt > WorkOwner /\ bAlloc[bNode.attempt] = "none"
<1> USE DEF RecoveryInv
<1>1. WorkOwner = bNode.recovery.source /\ bNode.attempt = bNode.recovery.source + 1 /\ WorkOwner \in Nat
  BY DEF WorkOwner, ReceiptFits, Held, Blocked!Attempt
<1>2. bNode.attempt \in Blocked!Attempt
  BY NodeFields
<1>3. QED
  BY <1>1, <1>2 DEF Held, Blocked!Source

\* Giving up leaves the row where it is and settles.
LEMMA GiveUpFits ==
    ASSUME RecoveryInv, bNode.state = "running", UNCHANGED bNode,
           NEW outcome \in Outcomes \ {"none"}, bPrep' = [bPrep EXCEPT !.pc = "settling", !.outcome = outcome],
           outcome = "succeeded" => bNode.recovery.state = "assigned"
    PROVE  bPrep' \in PrepRows /\ PrepFits'
<1> USE DEF RecoveryInv
<1>1. bPrep' \in PrepRows
  BY PrepEnds DEF PrepSteps
<1>2. bPrep'.pc = "settling" /\ bPrep'.outcome = outcome
  BY TypeParts DEF PrepRows
<1>3. QED
  BY <1>1, <1>2 DEF PrepFits, Outcomes

LEMMA GiveUpStep == RecoveryInv /\ (Blocked!Stumble \/ Blocked!Execute) => RecoveryInv'
<1> SUFFICES ASSUME RecoveryInv, Blocked!Stumble \/ Blocked!Execute
             PROVE  RecoveryInv'
  OBVIOUS
<1> USE DEF RecoveryInv
<1>1. bNode.state = "running" /\ UNCHANGED bFiles
  BY DEF Blocked!Stumble, Blocked!Execute, Blocked!Preparing, PrepFits
<1>2. PICK outcome \in Outcomes \ {"none"} :
          /\ Blocked!GiveUp(outcome)
          /\ outcome = "succeeded" => bNode.recovery.state = "assigned"
  BY DEF Blocked!Stumble, Blocked!Execute, Blocked!Preparing, PrepFits, Outcomes
<1>3. bPrep' \in PrepRows /\ PrepFits'
  BY <1>1, <1>2, GiveUpFits DEF Blocked!GiveUp, Blocked!PrepStep
<1>4. QED
  BY <1>1, <1>2, <1>3, ThreadHolds, TypeParts DEF Blocked!GiveUp, Blocked!PrepStep

LEMMA CaptureRetryStep == RecoveryInv /\ Blocked!CaptureRetry => RecoveryInv'
<1> SUFFICES ASSUME RecoveryInv, Blocked!CaptureRetry
             PROVE  RecoveryInv'
  OBVIOUS
<1> USE DEF RecoveryInv
<1>1. bNode.state = "running" /\ Authorized /\ UNCHANGED <<bFiles, bNode>>
  BY DEF Blocked!CaptureRetry, Blocked!Preparing, PrepFits, Blocked!PrepStep, Blocked!GiveUp
<1>2. CASE Blocked!GiveUp("blocked")
  <2>1. bPrep' \in PrepRows /\ PrepFits'
    BY <1>1, <1>2, GiveUpFits DEF Blocked!GiveUp, Blocked!PrepStep, Outcomes
  <2>2. QED
    BY <1>1, <1>2, <2>1, ThreadHolds, TypeParts DEF Blocked!GiveUp, Blocked!PrepStep
<1>3. CASE /\ Blocked!Unchanged(Blocked!Source, 0, bNode.recovery.digest)
           /\ Blocked!PrepStep([bPrep EXCEPT !.pc = "captured", !.patch = bFiles[Blocked!Source]])
  <2>1. Blocked!Source = WorkOwner
    BY <1>1, TargetIsFresh
  <2>2. bFiles[Blocked!Source] \in 0 .. BMaxContent /\ Exact(bFiles[Blocked!Source], bNode.recovery.digest)
    BY <1>3, <2>1, TypeParts DEF Blocked!Unchanged, Blocked!MatchesDigest, Blocked!Delta, Exact, Held
  <2>3. bPrep' \in PrepRows
    BY <1>3, <2>2, PrepCaptures DEF Blocked!PrepStep, PrepSteps
  <2>4. bPrep'.pc = "captured" /\ bPrep'.patch = bFiles[Blocked!Source] /\ bPrep'.outcome = bPrep.outcome
    BY <1>3, TypeParts DEF Blocked!PrepStep, PrepRows
  <2>5. PrepFits'
    BY <1>1, <2>2, <2>4 DEF PrepFits, Authorized
  <2>6. QED
    BY <1>1, <1>3, <2>3, <2>5, ThreadHolds, TypeParts DEF Blocked!PrepStep
<1>4. QED
  BY <1>2, <1>3 DEF Blocked!CaptureRetry

LEMMA ReceiveDirtyStep == RecoveryInv /\ Blocked!ReceiveDirty => RecoveryInv'
<1> SUFFICES ASSUME RecoveryInv, Blocked!ReceiveDirty
             PROVE  RecoveryInv'
  OBVIOUS
<1> USE DEF RecoveryInv
<1>1. /\ bNode.state = "running" /\ Authorized /\ UNCHANGED <<bFiles, bNode>>
      /\ Blocked!PrepStep([bPrep EXCEPT !.pc = "captured", !.patch = bNode.recovery.patch])
  BY DEF Blocked!ReceiveDirty, Blocked!Preparing, PrepFits, Blocked!PrepStep
<1>2. bNode.recovery.patch \in 0 .. BMaxContent /\ Exact(bNode.recovery.patch, bNode.recovery.digest)
  BY <1>1, ReceiptFields DEF ReceiptFits, Blocked!ReceiveDirty
<1>3. bPrep' \in PrepRows
  BY <1>1, <1>2, PrepCaptures DEF Blocked!PrepStep, PrepSteps
<1>4. bPrep'.pc = "captured" /\ bPrep'.patch = bNode.recovery.patch /\ bPrep'.outcome = bPrep.outcome
  BY <1>1, TypeParts DEF Blocked!PrepStep, PrepRows
<1>5. PrepFits'
  BY <1>1, <1>2, <1>4 DEF PrepFits, Authorized
<1>6. QED
  BY <1>1, <1>3, <1>5, ThreadHolds, TypeParts DEF Blocked!PrepStep

\* The steps that write to the target.
LEMMA RestoreStep == RecoveryInv /\ Blocked!Restore => RecoveryInv'
<1> SUFFICES ASSUME RecoveryInv, Blocked!Restore
             PROVE  RecoveryInv'
  OBVIOUS
<1> USE DEF RecoveryInv
<1>1. bNode.state = "running" /\ Authorized /\ bPrep.pc = "captured"
  BY DEF Blocked!Restore, Blocked!Preparing, PrepFits
<1>2. bNode.attempt # WorkOwner /\ bNode.attempt \in Blocked!Attempt
  BY <1>1, TargetIsFresh, NodeFields
<1>3. PICK content \in {0, bPrep.patch} : bFiles' = [bFiles EXCEPT ![bNode.attempt] = content]
  BY DEF Blocked!Restore
<1>4. bFiles' \in [Blocked!Attempt -> 0 .. BMaxContent] /\ bFiles'[WorkOwner] = bFiles[WorkOwner]
  <2>1. content \in 0 .. BMaxContent
    BY PrepFields DEF Blocked!RecoveryAssumption
  <2>2. QED
    BY <1>2, <1>3, <2>1, TypeParts DEF Held
<1>5. CASE Blocked!GiveUp("blocked")
  <2>1. bPrep' \in PrepRows /\ PrepFits'
    BY <1>1, <1>5, GiveUpFits DEF Blocked!GiveUp, Blocked!PrepStep, Outcomes
  <2>2. QED
    BY <1>1, <1>4, <1>5, <2>1, ThreadHolds DEF Blocked!GiveUp, Blocked!PrepStep
<1>6. CASE Blocked!PrepStep([bPrep EXCEPT !.pc = "restored"])
  <2>1. bPrep' \in PrepRows /\ bPrep'.pc = "restored" /\ bPrep'.patch = bPrep.patch /\ bPrep'.outcome = bPrep.outcome
    BY <1>6, PrepAdvances, TypeParts DEF Blocked!PrepStep, PrepRows, PrepSteps
  <2>2. PrepFits'
    BY <1>1, <1>6, <2>1 DEF PrepFits, Authorized, Blocked!PrepStep
  <2>3. QED
    BY <1>1, <1>4, <1>6, <2>1, <2>2, ThreadHolds DEF Blocked!PrepStep
<1>7. QED
  BY <1>5, <1>6 DEF Blocked!Restore

LEMMA AcceptStep == RecoveryInv /\ Blocked!Accept => RecoveryInv'
<1> SUFFICES ASSUME RecoveryInv, Blocked!Accept
             PROVE  RecoveryInv'
  OBVIOUS
<1> USE DEF RecoveryInv
<1>1. bNode.state = "running" /\ Authorized /\ bPrep.pc = "restored"
  BY DEF Blocked!Accept, Blocked!Preparing, PrepFits
<1>2. CASE Blocked!PrepStep([bPrep EXCEPT !.pc = "verified"]) /\ UNCHANGED bFiles
  <2>1. bPrep' \in PrepRows /\ bPrep'.pc = "verified" /\ bPrep'.patch = bPrep.patch /\ bPrep'.outcome = bPrep.outcome
    BY <1>2, PrepAdvances, TypeParts DEF Blocked!PrepStep, PrepRows, PrepSteps
  <2>2. PrepFits'
    BY <1>1, <1>2, <2>1 DEF PrepFits, Authorized, Blocked!PrepStep
  <2>3. QED
    BY <1>1, <1>2, <2>1, <2>2, ThreadHolds, TypeParts DEF Blocked!PrepStep
<1>3. ASSUME NEW outcome \in {"failed", "blocked"}, Blocked!GiveUp(outcome), bFiles' = [bFiles EXCEPT ![bNode.attempt] = 0]
      PROVE  RecoveryInv'
  <2>1. bPrep' \in PrepRows /\ PrepFits'
    BY <1>1, <1>3, GiveUpFits DEF Blocked!GiveUp, Blocked!PrepStep, Outcomes
  <2>2. bFiles'[WorkOwner] = bFiles[WorkOwner]
    BY <1>1, <1>3, TargetIsFresh, TypeParts DEF Held
  <2>3. bFiles' \in [Blocked!Attempt -> 0 .. BMaxContent]
    <3>1. 0 \in 0 .. BMaxContent
      BY DEF Blocked!RecoveryAssumption
    <3>2. QED
      BY <1>3, <3>1, TypeParts
  <2>4. QED
    BY <1>1, <1>3, <2>1, <2>2, <2>3, ThreadHolds DEF Blocked!GiveUp, Blocked!PrepStep
<1>4. QED
  BY <1>2, <1>3 DEF Blocked!Accept

LEMMA PrevalidateStep == RecoveryInv /\ Blocked!Prevalidate => RecoveryInv'
<1> SUFFICES ASSUME RecoveryInv, Blocked!Prevalidate
             PROVE  RecoveryInv'
  OBVIOUS
<1> USE DEF RecoveryInv
<1>1. bNode.state = "running" /\ Authorized /\ bPrep.pc \in {"verified", "restored"} /\ UNCHANGED bFiles
  BY DEF Blocked!Prevalidate, Blocked!Preparing, PrepFits
<1>2. CASE Blocked!GiveUp("blocked")
  <2>1. bPrep' \in PrepRows /\ PrepFits'
    BY <1>1, <1>2, GiveUpFits DEF Blocked!GiveUp, Blocked!PrepStep, Outcomes
  <2>2. QED
    BY <1>1, <1>2, <2>1, ThreadHolds, TypeParts DEF Blocked!GiveUp, Blocked!PrepStep
<1>3. CASE Blocked!TargetIsExact /\ Blocked!PrepStep([bPrep EXCEPT !.pc = "validated"])
  <2>1. bPrep' \in PrepRows /\ bPrep'.pc = "validated" /\ bPrep'.patch = bPrep.patch /\ bPrep'.outcome = bPrep.outcome
    BY <1>3, PrepAdvances, TypeParts DEF Blocked!PrepStep, PrepRows, PrepSteps
  <2>2. PrepFits'
    BY <1>1, <1>3, <2>1 DEF PrepFits, Authorized, Blocked!PrepStep, Blocked!TargetIsExact
  <2>3. QED
    BY <1>1, <1>3, <2>1, <2>2, ThreadHolds, TypeParts DEF Blocked!PrepStep
<1>4. QED
  BY <1>2, <1>3 DEF Blocked!Prevalidate

\* The assignment is the one step at which the work changes hands.
LEMMA AssignStep ==
    RecoveryInv /\ (Blocked!AssignWorktree \/ Blocked!AssignFailedAttemptRecovery) => RecoveryInv' /\ Blocked!AssignsPreview
<1> SUFFICES ASSUME RecoveryInv, Blocked!AssignWorktree \/ Blocked!AssignFailedAttemptRecovery
             PROVE  RecoveryInv' /\ Blocked!AssignsPreview
  OBVIOUS
<1> USE DEF RecoveryInv
<1>1. PICK next \in {"settling", "executing"} :
          /\ bPrep' = [bPrep EXCEPT !.pc = next, !.outcome = "succeeded"]
          /\ bNode' = [bNode EXCEPT !.worktree = bNode.attempt, !.recovery.state = "assigned"]
          /\ bAlloc' = Blocked!HandedOver(Blocked!Source) /\ Blocked!Preparing("validated")
          /\ UNCHANGED <<bTask, bFiles, bApproval, bValidating, bSpent, bOp>>
  BY DEF Blocked!AssignWorktree, Blocked!AssignFailedAttemptRecovery, Blocked!Assign
<1>2. bNode.state = "running" /\ Authorized /\ bPrep.pc = "validated"
  BY <1>1 DEF Blocked!Preparing, PrepFits
<1>3. /\ Blocked!Source = WorkOwner /\ bNode.attempt # WorkOwner /\ bNode.attempt > WorkOwner /\ bNode.attempt \in Blocked!Attempt
      /\ WorkOwner \in Blocked!Attempt
  BY <1>2, TargetIsFresh, NodeFields DEF Held
<1>4. /\ bNode' \in NodeRows /\ bNode'.state = "running" /\ bNode'.attempt = bNode.attempt
      /\ bNode'.worktree = bNode.attempt /\ bNode'.recovery.state = "assigned"
      /\ bNode'.recovery.digest = bNode.recovery.digest
  <2> DEFINE receipt == [bNode.recovery EXCEPT !.state = "assigned"]
  <2>1. receipt \in Blocked!RecoveryReceipt /\ receipt.state = "assigned" /\ receipt.digest = bNode.recovery.digest
    BY NodeFields DEF Blocked!RecoveryReceipt
  <2>2. bNode' = [bNode EXCEPT !.worktree = bNode.attempt, !.recovery = receipt]
    BY <1>1, TypeParts DEF NodeRows
  <2>3. bNode.attempt \in 0 .. BMaxAttempt
    BY <1>3 DEF Blocked!Attempt
  <2> HIDE DEF receipt
  <2>4. QED
    BY <1>2, <2>1, <2>2, <2>3, TypeParts DEF NodeRows
<1>5. ~Authorized' /\ WorkOwner' = bNode.attempt
  BY <1>4 DEF Authorized, WorkOwner
<1>6. bFiles[bNode.attempt] = bPrep.patch /\ Exact(bPrep.patch, bNode.recovery.digest)
  BY <1>2 DEF PrepFits
<1>7. bAlloc' \in [Blocked!Attempt -> {"none", "active", "superseded"}]
  BY <1>1, TypeParts DEF Blocked!HandedOver
<1>8. \A a \in Blocked!Attempt : bAlloc'[a] = IF a = bNode.attempt THEN "active"
                                             ELSE IF a = WorkOwner THEN "superseded" ELSE bAlloc[a]
  BY <1>1, <1>3, TypeParts DEF Blocked!HandedOver
<1>9. Held'
  <2>1. \A a \in Blocked!Attempt : bAlloc'[a] = "active" <=> a = bNode.attempt
    BY <1>3, <1>8 DEF Held
  <2>2. \A a \in Blocked!Attempt : a > bNode.attempt => bAlloc'[a] = "none"
    BY <1>3, <1>8 DEF Held, Blocked!Attempt
  <2>3. bFiles'[bNode.attempt] # 0
    BY <1>1, <1>6 DEF Exact
  <2>4. QED
    BY <1>3, <1>4, <1>5, <2>1, <2>2, <2>3 DEF Held
<1>10. ReceiptFits'
  BY <1>4, <1>5 DEF ReceiptFits
<1>11. bPrep' \in PrepRows /\ bPrep'.pc = next /\ bPrep'.outcome = "succeeded"
  <2>1. bPrep' \in PrepRows
    BY <1>1, PrepEnds DEF PrepSteps, Outcomes
  <2>2. QED
    BY <1>1, <2>1, TypeParts DEF PrepRows
<1>12. PrepFits'
  BY <1>4, <1>11 DEF PrepFits
<1>13. CallFits'
  BY <1>1 DEF CallFits
<1>14. Blocked!TypeOK'
  BY <1>1, <1>4, <1>7, <1>11, TypeParts, TypedTogether
<1>15. Blocked!AssignsPreview
  BY <1>1, <1>6 DEF Blocked!AssignsPreview, Exact
<1>16. QED
  BY <1>9, <1>10, <1>12, <1>13, <1>14, <1>15

LEMMA RollBackStep == RecoveryInv /\ Blocked!SettleRollBack => RecoveryInv'
<1> SUFFICES ASSUME RecoveryInv, Blocked!SettleRollBack
             PROVE  RecoveryInv'
  OBVIOUS
<1> USE DEF RecoveryInv
<1>1. Authorized /\ bPrep' = Blocked!NoPrep /\ UNCHANGED <<bAlloc, bFiles, bApproval, bValidating, bSpent>>
  BY DEF Blocked!SettleRollBack, Blocked!Unassigned, Authorized
<1>2. bNode' = Blocked!Restored(bNode.recovery)
  BY DEF Blocked!SettleRollBack, Blocked!RollBackDirty, Blocked!RollBackFailed
<1>3. bNode' \in NodeRows /\ bNode'.state # "pending" /\ Held' /\ ReceiptFits' /\ PrepFits'
  BY <1>1, <1>2, RestoredHolds
<1>4. PICK state \in TaskStates : Blocked!SetTask(state) \/ UNCHANGED <<bTask, bOp>>
  <2>1. bNode.recovery.back \in TaskStates /\ "blocked" \in TaskStates
    BY <1>1 DEF ReceiptFits, TaskStates
  <2>2. Blocked!SetTask(bNode.recovery.back) \/ Blocked!SetTask("blocked") \/ UNCHANGED <<bTask, bOp>>
    BY DEF Blocked!SettleRollBack, Blocked!RollBackDirty, Blocked!RollBackFailed
  <2>3. QED
    BY <2>1, <2>2
<1>5. bTask' \in TaskStates /\ bOp' \in CallRows /\ CallFits'
  BY <1>4, SetTaskFits
<1>6. Blocked!TypeOK'
  BY <1>1, <1>3, <1>5, NothingTypes, TypeParts, TypedTogether DEF PrepRows
<1>7. QED
  BY <1>3, <1>5, <1>6

\* The row of a node whose recovery is over, or was never asked for.
LEMMA RowMoves ==
    ASSUME RecoveryInv, ~Authorized, bNode' \in NodeRows, bNode'.state \notin {"pending", "running"},
           bNode'.attempt = bNode.attempt, bNode'.worktree = bNode.worktree, ~Authorized',
           bPrep' = Blocked!NoPrep, UNCHANGED <<bAlloc, bFiles>>
    PROVE  Held' /\ ReceiptFits' /\ PrepFits'
<1> USE DEF RecoveryInv
<1>1. WorkOwner' = WorkOwner /\ WorkOwner = bNode.attempt
  BY DEF WorkOwner
<1>2. Held'
  BY <1>1 DEF Held
<1>3. ReceiptFits'
  BY DEF ReceiptFits
<1>4. PrepFits'
  BY DEF PrepFits, Blocked!NoPrep
<1>5. QED
  BY <1>2, <1>3, <1>4

LEMMA SettleStep == RecoveryInv /\ Blocked!Settle => RecoveryInv'
<1> SUFFICES ASSUME RecoveryInv, Blocked!Settle
             PROVE  RecoveryInv'
  OBVIOUS
<1> USE DEF RecoveryInv
<1>1. /\ bNode.state = "running" /\ bPrep.pc = "settling" /\ bPrep.outcome \in Outcomes \ {"none"}
      /\ ~Authorized
  BY PrepFields DEF Blocked!Settle, Blocked!Preparing, Blocked!Unassigned, PrepFits, Authorized
<1>2. /\ bPrep' = Blocked!NoPrep /\ UNCHANGED <<bAlloc, bFiles, bValidating, bSpent>>
      /\ bNode' = [bNode EXCEPT !.state = Blocked!SettledState, !.result = bPrep.outcome, !.recovery = Blocked!NoRecovery]
  BY DEF Blocked!Settle
<1>3. Blocked!SettledState \in NodeStates \ {"pending", "running"}
  BY <1>1 DEF Blocked!SettledState, NodeStates, Outcomes
<1>4. bPrep.outcome \in NodeResults /\ Blocked!NoRecovery \in Blocked!RecoveryReceipt /\ Blocked!NoRecovery.state = "none"
  BY <1>1, NothingTypes DEF Outcomes, NodeResults, Blocked!NoRecovery
<1>5. /\ bNode'.state = Blocked!SettledState /\ bNode'.attempt = bNode.attempt /\ bNode'.worktree = bNode.worktree
      /\ bNode'.recovery = Blocked!NoRecovery /\ bNode' \in NodeRows
  BY <1>2, <1>3, <1>4, TypeParts DEF NodeRows
<1>6. Held' /\ ReceiptFits' /\ PrepFits'
  BY <1>1, <1>2, <1>3, <1>4, <1>5, RowMoves DEF Authorized
<1>7. bTask' \in TaskStates /\ bOp' \in CallRows /\ CallFits'
  <2>1. Blocked!SettledTask \in TaskStates
    BY <1>1 DEF Blocked!SettledTask, TaskStates, Outcomes
  <2>2. Blocked!SetTask(Blocked!SettledTask) \/ UNCHANGED <<bTask, bOp>>
    BY DEF Blocked!Settle
  <2>3. QED
    BY <2>1, <2>2, SetTaskFits
<1>8. bApproval' \in BOOLEAN
  BY DEF Blocked!Settle
<1>9. Blocked!TypeOK'
  BY <1>2, <1>3, <1>5, <1>7, <1>8, NothingTypes, TypeParts, TypedTogether DEF PrepRows
<1>10. QED
  BY <1>6, <1>7, <1>9

-----------------------------------------------------------------------------
(* Whatever comes between.                                                  *)

\* A late writer has no way to a target that is not assigned yet.
LEMMA WriteStep == RecoveryInv /\ (\E a \in Blocked!Attempt : Blocked!Write(a)) => RecoveryInv'
<1> SUFFICES ASSUME RecoveryInv, NEW a \in Blocked!Attempt, Blocked!Write(a)
             PROVE  RecoveryInv'
  OBVIOUS
<1> USE DEF RecoveryInv
<1>1. /\ bFiles' = [bFiles EXCEPT ![a] = @ + 1] /\ bAlloc[a] # "none"
      /\ UNCHANGED <<bTask, bNode, bAlloc, bApproval, bValidating, bSpent, bOp, bPrep>>
  BY DEF Blocked!Write
<1>2. bFiles[a] \in Nat /\ bFiles[a] + 1 \in 0 .. BMaxContent /\ bFiles[a] + 1 # 0
  BY DEF Blocked!Write, Blocked!RecoveryAssumption
<1>3. bFiles' \in [Blocked!Attempt -> 0 .. BMaxContent]
  BY <1>1, <1>2, TypeParts
<1>4. WorkOwner' = WorkOwner /\ (Authorized' <=> Authorized)
  BY <1>1 DEF WorkOwner, Authorized
<1>5. \A b \in Blocked!Attempt : b # a => bFiles'[b] = bFiles[b]
  BY <1>1, TypeParts
<1>6. bFiles'[WorkOwner] # 0
  BY <1>1, <1>2, <1>5, TypeParts DEF Held
<1>7. Held'
  BY <1>1, <1>4, <1>6 DEF Held
<1>8. ReceiptFits'
  BY <1>1, <1>4 DEF ReceiptFits
<1>9. bPrep.pc = "validated" => bFiles'[bNode.attempt] = bPrep.patch
  <2> SUFFICES ASSUME bPrep.pc = "validated"
               PROVE  bFiles'[bNode.attempt] = bPrep.patch
    OBVIOUS
  <2>1. bNode.state = "running" /\ Authorized /\ bFiles[bNode.attempt] = bPrep.patch
    BY DEF PrepFits
  <2>2. bNode.attempt # a /\ bNode.attempt \in Blocked!Attempt
    BY <1>1, <2>1, TargetIsFresh, NodeFields
  <2>3. QED
    BY <1>5, <2>1, <2>2
<1>10. PrepFits'
  BY <1>1, <1>4, <1>9 DEF PrepFits
<1>11. CallFits'
  BY <1>1 DEF CallFits
<1>12. Blocked!TypeOK'
  BY <1>1, <1>3, <1>4, TypeParts, TypedTogether
<1>13. QED
  BY <1>7, <1>8, <1>10, <1>11, <1>12

LEMMA ControlStep == RecoveryInv /\ (Blocked!Control \/ Blocked!Validate) => RecoveryInv'
<1> SUFFICES ASSUME RecoveryInv, Blocked!Control \/ Blocked!Validate
             PROVE  RecoveryInv'
  OBVIOUS
<1> USE DEF RecoveryInv
<1>1. UNCHANGED <<bNode, bAlloc, bFiles, bApproval, bSpent, bPrep>> /\ bValidating' \in BOOLEAN
  BY TypeParts DEF Blocked!Control, Blocked!Validate
<1>2. Held' /\ ReceiptFits' /\ PrepFits'
  BY <1>1, StillHeld
<1>3. PICK state \in TaskStates : Blocked!SetTask(state) \/ UNCHANGED <<bTask, bOp>>
  BY DEF Blocked!Control, Blocked!Validate, TaskStates
<1>4. bTask' \in TaskStates /\ bOp' \in CallRows /\ CallFits'
  BY <1>3, SetTaskFits
<1>5. Blocked!TypeOK'
  BY <1>1, <1>4, TypeParts, TypedTogether DEF Authorized
<1>6. QED
  BY <1>2, <1>4, <1>5

LEMMA QueueFixStep == RecoveryInv /\ Blocked!QueueFix => RecoveryInv'
<1> SUFFICES ASSUME RecoveryInv, Blocked!QueueFix
             PROVE  RecoveryInv'
  OBVIOUS
<1> USE DEF RecoveryInv
<1> DEFINE r == [Blocked!NoRecovery EXCEPT !.kind = "failed", !.state = "authorized",
                     !.source = bNode.attempt, !.from = "failed", !.back = "needs_fix"]
<1>1. /\ bNode' = Blocked!Queued(r) /\ Blocked!SetTask("queued") /\ bNode.state = "failed" /\ bNode.worktree = bNode.attempt
      /\ UNCHANGED <<bAlloc, bFiles, bApproval, bValidating, bSpent, bPrep>>
  BY DEF Blocked!QueueFix
<1>2. /\ r.state = "authorized" /\ r.source = bNode.attempt /\ r.kind = "failed"
      /\ r.from = "failed" /\ r.back = "needs_fix"
  BY DEF Blocked!NoRecovery
<1>3. r \in Blocked!RecoveryReceipt
  <2>1. bNode.attempt \in 0 .. BMaxAttempt /\ 0 \in 0 .. BMaxContent
    BY NodeFields DEF Blocked!Attempt, Blocked!RecoveryAssumption
  <2>2. QED
    BY <2>1 DEF Blocked!NoRecovery, Blocked!RecoveryReceipt
<1>4. ~Authorized
  BY <1>1, NodeFields DEF Held, Blocked!Attempt
<1> HIDE DEF r
<1>5. bNode' \in NodeRows /\ Authorized' /\ Held' /\ ReceiptFits' /\ PrepFits'
  BY <1>1, <1>2, <1>3, <1>4, QueuedHolds
<1>6. bTask' \in TaskStates /\ bOp' \in CallRows /\ CallFits'
  BY <1>1, SetTaskFits DEF TaskStates
<1>7. Blocked!TypeOK'
  BY <1>1, <1>5, <1>6, TypeParts, TypedTogether
<1>8. QED
  BY <1>5, <1>6, <1>7

\* A row that was not running moves among the states that wait for somebody.
LEMMA StateMoves ==
    ASSUME RecoveryInv, NEW state \in NodeStates \ {"pending", "running"}, NEW result \in NodeResults,
           bNode' = [bNode EXCEPT !.state = state, !.result = result], bPrep' = Blocked!NoPrep,
           UNCHANGED <<bAlloc, bFiles>>
    PROVE  bNode' \in NodeRows /\ bNode'.state = state /\ Held' /\ ReceiptFits' /\ PrepFits'
<1> USE DEF RecoveryInv
<1>1. /\ bNode' \in NodeRows /\ bNode'.state = state /\ bNode'.attempt = bNode.attempt
      /\ bNode'.worktree = bNode.worktree /\ bNode'.recovery = bNode.recovery
  BY TypeParts DEF NodeRows
<1>2. WorkOwner' = WorkOwner /\ (Authorized' <=> Authorized)
  BY <1>1 DEF WorkOwner, Authorized
<1>3. Held'
  BY <1>1, <1>2 DEF Held
<1>4. ReceiptFits'
  BY <1>1, <1>2 DEF ReceiptFits
<1>5. PrepFits'
  BY <1>1 DEF PrepFits, Blocked!NoPrep
<1>6. QED
  BY <1>1, <1>3, <1>4, <1>5

LEMMA DecideStep == RecoveryInv /\ Blocked!Decide => RecoveryInv'
<1> SUFFICES ASSUME RecoveryInv, Blocked!Decide
             PROVE  RecoveryInv'
  OBVIOUS
<1> USE DEF RecoveryInv
<1>1. PICK state \in {"failed", "cancelled"} :
          bNode' = [bNode EXCEPT !.state = state] /\ Blocked!SetTask(IF state = "failed" THEN "needs_fix" ELSE "cancelled")
  BY DEF Blocked!Decide
<1>2. /\ UNCHANGED <<bAlloc, bFiles, bValidating, bSpent, bPrep>> /\ bApproval' = FALSE
      /\ bNode.state = "indeterminate"
  BY DEF Blocked!Decide
<1>3. bPrep' = Blocked!NoPrep
  BY <1>2 DEF PrepFits
<1>4. bNode' = [bNode EXCEPT !.state = state, !.result = bNode.result] /\ bNode.result \in NodeResults
  BY <1>1, TypeParts, NodeFields DEF NodeRows
<1>5. bNode' \in NodeRows /\ bNode'.state = state /\ Held' /\ ReceiptFits' /\ PrepFits'
  BY <1>2, <1>3, <1>4, StateMoves DEF NodeStates
<1>6. bTask' \in TaskStates /\ bOp' \in CallRows /\ CallFits'
  BY <1>1, SetTaskFits DEF TaskStates
<1>7. Blocked!TypeOK'
  BY <1>2, <1>5, <1>6, TypeParts, TypedTogether
<1>8. QED
  BY <1>5, <1>6, <1>7

LEMMA RestartStep == RecoveryInv /\ Blocked!Restart => RecoveryInv'
<1> SUFFICES ASSUME RecoveryInv, Blocked!Restart
             PROVE  RecoveryInv'
  OBVIOUS
<1> USE DEF RecoveryInv
<1>1. bValidating' = FALSE /\ bPrep' = Blocked!NoPrep /\ bOp' = Blocked!NoCall /\ UNCHANGED <<bAlloc, bFiles, bSpent>>
  BY DEF Blocked!Restart
<1>2. bOp' \in CallRows /\ CallFits' /\ bPrep' \in PrepRows
  BY <1>1, NothingTypes DEF CallRows, CallFits, Blocked!NoCall, PrepRows
<1>3. CASE bNode.state # "running" /\ UNCHANGED <<bTask, bNode, bApproval>>
  <2>1. UNCHANGED bPrep
    BY <1>1, <1>3 DEF PrepFits
  <2>2. Held' /\ ReceiptFits' /\ PrepFits'
    BY <1>1, <1>3, <2>1, StillHeld
  <2>3. Blocked!TypeOK'
    BY <1>1, <1>2, <1>3, TypeParts, TypedTogether DEF Authorized
  <2>4. QED
    BY <1>2, <2>2, <2>3
<1>4. CASE /\ bNode.recovery.state = "authorized" /\ bNode' = Blocked!Restored(bNode.recovery)
           /\ bTask' \in {bTask, bNode.recovery.back} /\ UNCHANGED bApproval
  <2>1. bNode' \in NodeRows /\ bNode'.state # "pending" /\ Held' /\ ReceiptFits' /\ PrepFits'
    BY <1>1, <1>4, RestoredHolds DEF Authorized
  <2>2. bTask' \in TaskStates
    BY <1>4, TypeParts DEF ReceiptFits, Authorized, TaskStates
  <2>3. Blocked!TypeOK'
    BY <1>1, <1>2, <1>4, <2>1, <2>2, TypeParts, TypedTogether
  <2>4. QED
    BY <1>2, <2>1, <2>3
<1>5. CASE /\ bNode' = [bNode EXCEPT !.state = "indeterminate", !.result = "indeterminate"]
           /\ bTask' = "needs_approval" /\ bApproval' = TRUE
  <2>1. bNode' \in NodeRows /\ bNode'.state # "pending" /\ Held' /\ ReceiptFits' /\ PrepFits'
    <3>1. "indeterminate" \in NodeStates \ {"pending", "running"} /\ "indeterminate" \in NodeResults
      BY DEF NodeStates, NodeResults
    <3>2. bNode'.state = "indeterminate" => bNode'.state # "pending"
      OBVIOUS
    <3>3. QED
      BY <1>1, <1>5, <3>1, <3>2, StateMoves
  <2>2. Blocked!TypeOK'
    BY <1>1, <1>2, <1>5, <2>1, TypeParts, TypedTogether DEF TaskStates
  <2>3. QED
    BY <1>2, <2>1, <2>2
<1>6. QED
  BY <1>3, <1>4, <1>5 DEF Blocked!Restart

-----------------------------------------------------------------------------
(* The theorems.                                                            *)

LEMMA CallKeeps == RecoveryInv /\ CallStep => RecoveryInv'
<1> SUFFICES ASSUME RecoveryInv, CallStep
             PROVE  RecoveryInv'
  OBVIOUS
<1>1. CallOnly /\ bOp' \in CallRows /\ CallFits'
  BY CallsMoveThemselves
<1>2. Held' /\ ReceiptFits' /\ PrepFits'
  BY <1>1, StillHeld DEF CallOnly
<1>3. Blocked!TypeOK'
  BY <1>1, TypeParts, TypedTogether DEF CallOnly, RecoveryInv, Authorized
<1>4. QED
  BY <1>1, <1>2, <1>3 DEF RecoveryInv

LEMMA RecoveryInvInit == Blocked!RecoveryAssumption /\ Blocked!Init => RecoveryInv
<1> SUFFICES ASSUME Blocked!RecoveryAssumption, Blocked!Init
             PROVE  RecoveryInv
  OBVIOUS
<1>1. 1 \in Blocked!Attempt /\ 0 \in 0 .. BMaxContent /\ 1 \in 0 .. BMaxContent /\ 1 \in 0 .. BMaxAttempt
  BY DEF Blocked!Attempt, Blocked!RecoveryAssumption
<1>2. PICK state \in {"blocked", "indeterminate"} : bNode = Blocked!Row(state, 1, state)
  BY DEF Blocked!Init
<1>3. /\ bNode.state = state /\ bNode.attempt = 1 /\ bNode.worktree = 1 /\ bNode.recovery = Blocked!NoRecovery
      /\ bNode.recovery.state = "none"
  BY <1>2 DEF Blocked!Row, Blocked!NoRecovery
<1>4. bNode \in NodeRows
  BY <1>1, <1>2, NothingTypes DEF Blocked!Row, NodeRows, NodeStates, NodeResults
<1>5. /\ bAlloc \in [Blocked!Attempt -> {"none", "active", "superseded"}]
      /\ bFiles \in [Blocked!Attempt -> 0 .. BMaxContent]
  BY <1>1 DEF Blocked!Init
<1>6. bOp \in CallRows /\ bPrep \in PrepRows /\ CallFits
  BY NothingTypes DEF Blocked!Init, CallRows, PrepRows, CallFits, Blocked!NoCall
<1>7. bTask \in TaskStates /\ bApproval \in BOOLEAN /\ bValidating \in BOOLEAN /\ bSpent \in 0 .. BMaxActions
  <2>1. bTask \in TaskStates
    BY DEF Blocked!Init, TaskStates
  <2>2. bApproval \in BOOLEAN
    BY DEF Blocked!Init
  <2>3. bValidating \in BOOLEAN
    BY DEF Blocked!Init
  <2>4. bSpent \in 0 .. BMaxActions
    BY DEF Blocked!Init, Blocked!RecoveryAssumption
  <2>5. QED
    BY <2>1, <2>2, <2>3, <2>4
<1>8. Blocked!TypeOK
  BY <1>3, <1>4, <1>5, <1>6, <1>7, TypeParts
<1>9. Held
  BY <1>1, <1>3 DEF Blocked!Init, Held, WorkOwner, Authorized, Blocked!Attempt
<1>10. ReceiptFits
  BY <1>3 DEF ReceiptFits, Authorized
<1>11. PrepFits
  BY <1>3 DEF Blocked!Init, PrepFits, Blocked!NoPrep
<1>12. QED
  BY <1>6, <1>8, <1>9, <1>10, <1>11 DEF RecoveryInv

\* Only an assignment supersedes an allocation.
LEMMA OthersKeepAllocations ==
    ASSUME UNCHANGED bAlloc
    PROVE  Blocked!AssignsPreview
  BY DEF Blocked!AssignsPreview

LEMMA RecoveryInvNext == RecoveryInv /\ [Blocked!Next]_Blocked!vars => RecoveryInv' /\ Blocked!AssignsPreview
<1> SUFFICES ASSUME RecoveryInv, [Blocked!Next]_Blocked!vars
             PROVE  RecoveryInv' /\ Blocked!AssignsPreview
  OBVIOUS
<1>1. CASE UNCHANGED Blocked!vars
  <2>1. Held' /\ ReceiptFits' /\ PrepFits'
    BY <1>1, StillHeld DEF Blocked!vars
  <2>2. Blocked!TypeOK' /\ CallFits'
    BY <1>1 DEF Blocked!vars, RecoveryInv, Blocked!TypeOK, CallFits
  <2>3. QED
    BY <1>1, <2>1, <2>2, OthersKeepAllocations DEF Blocked!vars, RecoveryInv
<1>2. CASE CallStep
  BY <1>2, CallKeeps, CallsMoveThemselves, OthersKeepAllocations DEF CallOnly
<1>3. CASE Blocked!Resume \/ Blocked!Repair \/ Blocked!QueueLocal
  <2>1. UNCHANGED bAlloc
    BY <1>3 DEF Blocked!Resume, Blocked!Repair, Blocked!QueueLocal, Blocked!Refuse
  <2>2. QED
    BY <1>3, <2>1, CommitStep, OthersKeepAllocations
<1>4. CASE Blocked!Claim \/ Blocked!CaptureRetry \/ Blocked!ReceiveDirty \/ Blocked!Restore \/ Blocked!Accept \/ Blocked!Prevalidate
  <2>1. UNCHANGED bAlloc
    BY <1>4
    DEF Blocked!Claim, Blocked!CaptureRetry, Blocked!ReceiveDirty, Blocked!Restore, Blocked!Accept,
        Blocked!Prevalidate, Blocked!PrepStep, Blocked!GiveUp
  <2>2. QED
    BY <1>4, <2>1, ClaimStep, CaptureRetryStep, ReceiveDirtyStep, RestoreStep, AcceptStep,
       PrevalidateStep, OthersKeepAllocations
<1>5. CASE Blocked!AssignWorktree \/ Blocked!AssignFailedAttemptRecovery
  BY <1>5, AssignStep
<1>6. CASE Blocked!Execute \/ Blocked!Stumble \/ Blocked!SettleRollBack \/ Blocked!Settle
  <2>1. UNCHANGED bAlloc
    BY <1>6
    DEF Blocked!Execute, Blocked!Stumble, Blocked!SettleRollBack, Blocked!Settle, Blocked!PrepStep,
        Blocked!GiveUp
  <2>2. QED
    BY <1>6, <2>1, GiveUpStep, RollBackStep, SettleStep, OthersKeepAllocations
<1>7. CASE (\E a \in Blocked!Attempt : Blocked!Write(a)) \/ Blocked!Control \/ Blocked!QueueFix \/ Blocked!Decide \/ Blocked!Validate \/ Blocked!Restart
  <2>1. UNCHANGED bAlloc
    BY <1>7
    DEF Blocked!Write, Blocked!Control, Blocked!QueueFix, Blocked!Decide, Blocked!Validate, Blocked!Restart
  <2>2. QED
    BY <1>7, <2>1, WriteStep, ControlStep, QueueFixStep, DecideStep, RestartStep, OthersKeepAllocations
<1>8. QED
  BY <1>1, <1>2, <1>3, <1>4, <1>5, <1>6, <1>7 DEF Blocked!Next, CallStep

LEMMA RecoveriesHold == Blocked!RecoveryAssumption /\ Blocked!Spec => []RecoveryInv
<1>1. RecoveryInv /\ [Blocked!Next]_Blocked!vars => RecoveryInv'
  BY RecoveryInvNext
<1>2. QED
  BY RecoveryInvInit, <1>1, PTL DEF Blocked!Spec

\* Recoveries of any number of attempts keep to their types, and a queued node has an
\* authorized receipt (blocked_recovery.py, store.py).
THEOREM RecoveryTypeCorrect == Blocked!RecoveryAssumption /\ Blocked!Spec => []Blocked!TypeOK
<1>1. RecoveryInv => Blocked!TypeOK
  BY DEF RecoveryInv
<1>2. QED
  BY <1>1, RecoveriesHold, PTL

\* Through every refusal, failed preparation, rollback, late write and restart the work
\* of the node has exactly one owner, and it is still there (store.py:13309, 13410, 14993).
THEOREM WorkStaysHeld == Blocked!RecoveryAssumption /\ Blocked!Spec => []Blocked!WorkIsHeld
<1>1. RecoveryInv => Blocked!WorkIsHeld
  <2> SUFFICES ASSUME RecoveryInv
               PROVE  Blocked!WorkIsHeld
    OBVIOUS
  <2>1. WorkOwner \in Blocked!Attempt /\ bFiles[WorkOwner] # 0 /\ {b \in Blocked!Attempt : bAlloc[b] = "active"} = {WorkOwner}
    BY DEF RecoveryInv, Held
  <2>2. IF bNode.recovery.state = "authorized"
        THEN bNode.recovery.source = WorkOwner /\ bNode.worktree = 0
        ELSE bNode.worktree = WorkOwner /\ bNode.attempt = WorkOwner
    BY DEF RecoveryInv, Held, WorkOwner, Authorized
  <2>3. QED
    BY <2>1, <2>2 DEF Blocked!WorkIsHeld
<1>2. QED
  BY <1>1, RecoveriesHold, PTL

\* A target takes over from its source only with the patch that was captured from it,
\* which is the delta the caller was shown, whatever was written in between
\* (dirty_worktree_recovery.py:2203, service.py:2394).
THEOREM OnlyThePreviewIsAssigned == Blocked!RecoveryAssumption /\ Blocked!Spec => [][Blocked!AssignsPreview]_Blocked!vars
<1>1. RecoveryInv /\ [Blocked!Next]_Blocked!vars => [Blocked!AssignsPreview]_Blocked!vars
  BY RecoveryInvNext
<1>2. QED
  BY <1>1, RecoveriesHold, PTL DEF Blocked!Spec

-----------------------------------------------------------------------------
(* The composition. *)

\* Which journal moves is chosen once.
OtherCalls == part = "beside"

LEMMA OneJournal ==
    /\ Spec /\ OtherCalls => []OtherCalls
    /\ Spec /\ ~OtherCalls => []~OtherCalls
<1>1. OtherCalls /\ [Next]_vars => OtherCalls'
  BY DEF Next, vars, OtherCalls
<1>2. ~OtherCalls /\ [Next]_vars => ~OtherCalls'
  BY DEF Next, vars, OtherCalls
<1> QED
  BY <1>1, <1>2, PTL DEF Spec

\* Whatever part moves, what the others see is a behaviour of their own that stands still.
LEMMA PartsBehave ==
    /\ Spec /\ ~OtherCalls => Resent!Spec
    /\ Spec /\ OtherCalls => Beside!Spec
    /\ Spec => Outbox!Init /\ [][Outbox!Next]_(Outbox!vars)
    /\ Spec => Reclaim!Spec
    /\ Spec => Blocked!Spec
    /\ Spec => Linkers!Spec
    /\ Spec => Amendments!Behaviours
    /\ Spec => Validation!Spec
<1>1. Init => /\ ~OtherCalls => Resent!Init
              /\ OtherCalls => Beside!Init
              /\ Outbox!Init /\ Reclaim!Init /\ Blocked!Init /\ Linkers!Init /\ Amendments!Init /\ Validation!Init
  BY DEF Init, OtherCalls
<1>2. [Next]_vars => /\ ~OtherCalls => [Resent!Next]_(Resent!vars)
                     /\ OtherCalls => [Beside!Next]_(Beside!vars)
  BY DEF Next, vars, OtherCalls, journal, Resent!vars, Beside!vars
<1>3. [Next]_vars => [Outbox!Next]_(Outbox!vars)
  BY DEF Next, vars, outbox, Outbox!vars
<1>4. [Next]_vars => [Reclaim!Next]_(Reclaim!vars)
  BY DEF Next, vars, reclaim, Reclaim!vars
<1>5. [Next]_vars => [Blocked!Next]_(Blocked!vars)
  BY DEF Next, vars, blocked, Blocked!vars
<1>6. [Next]_vars => [Linkers!Next]_(Linkers!vars)
  BY DEF Next, vars, linkers, Linkers!vars
<1>7. [Next]_vars => [Amendments!Next]_(Amendments!vars)
  BY DEF Next, vars, contracts, Amendments!vars
<1>8. [Next]_vars => [Validation!Next]_(Validation!vars)
  BY DEF Next, vars, validation, Validation!vars
<1>9. (Spec /\ ~OtherCalls => Resent!Spec) /\ (Spec /\ OtherCalls => Beside!Spec)
  BY <1>1, <1>2, OneJournal, PTL DEF Spec, Resent!Spec, Beside!Spec
<1>10. (Spec => Outbox!Init /\ [][Outbox!Next]_(Outbox!vars)) /\ (Spec => Reclaim!Spec)
  BY <1>1, <1>3, <1>4, PTL DEF Spec, Reclaim!Spec
<1>11. (Spec => Blocked!Spec) /\ (Spec => Linkers!Spec)
  BY <1>1, <1>5, <1>6, PTL DEF Spec, Blocked!Spec, Linkers!Spec
<1>12. (Spec => Amendments!Behaviours) /\ (Spec => Validation!Spec)
  BY <1>1, <1>7, <1>8, PTL DEF Spec, Amendments!Behaviours, Validation!Spec
<1> QED
  BY <1>9, <1>10, <1>11, <1>12, PTL

\* A step of a part that changes nothing of it changes nothing.
LEMMA PartMoves ==
    ASSUME [Next]_vars
    PROVE  /\ part \in {"resent", "beside"} /\ UNCHANGED journal => UNCHANGED vars
           /\ part = "blocked" /\ UNCHANGED blocked => UNCHANGED vars
           /\ part = "amendments" /\ UNCHANGED contracts => UNCHANGED vars
           /\ part = "validation" /\ UNCHANGED validation => UNCHANGED vars
  BY DEF Next, vars

\* Each part keeps the types of its rows, calls and directories.
THEOREM ProtocolsTypeCorrect == Spec => []TypeOK
<1>1. Spec => [](part = "resent" => Resent!TypeOK) /\ [](part = "beside" => Beside!TypeOK)
  <2>1. (OtherCalls => Beside!TypeOK) /\ (~OtherCalls => Resent!TypeOK)
        => (part = "resent" => Resent!TypeOK) /\ (part = "beside" => Beside!TypeOK)
    BY DEF OtherCalls
  <2> QED
    BY <2>1, OneJournal, PartsBehave, ResentHolds, BesideHolds, PTL
<1>2. Spec => [](Outbox!TypeOK /\ Reclaim!TypeOK /\ Blocked!TypeOK /\ Linkers!TypeOK /\ Amendments!TypeOK /\ Validation!TypeOK)
  <2>1. Blocked!RecoveryAssumption /\ Validation!ValidationAssumption
    BY ProtocolsAssumption
  <2> QED
    BY <2>1, PartsBehave, NoticesStay, FilesGoArchived, CopiesAreWhole, AmendmentsStand,
       RecoveryTypeCorrect, ValidationTypeCorrect, PTL
<1>3. /\ part = "resent" => Resent!TypeOK
      /\ part = "beside" => Beside!TypeOK
      /\ Outbox!TypeOK /\ Reclaim!TypeOK /\ Blocked!TypeOK /\ Linkers!TypeOK /\ Amendments!TypeOK /\ Validation!TypeOK
      => TypeOK
  BY DEF TypeOK
<1> QED
  BY <1>1, <1>2, <1>3, PTL

\* Under one identity an effect happens at most once, its outcome once recorded stays and
\* says what happened (authority_requests): of calls that are resent, and beside other calls.
THEOREM ProtocolsActOnce == Spec => JournalAtMostOnce
  BY PartsBehave, ResentHolds, BesideHolds, PTL DEF JournalAtMostOnce

\* What a host was told of its request, that an amendment is in the contracts, and that a
\* check passed on what was shown, is so.
THEOREM AnswersStayTrue == Spec => []AnswersTrue
<1>1. Spec => [](part = "resent" => Resent!AnswersTrue) /\ [](part = "beside" => Beside!AnswersTrue)
  <2>1. (OtherCalls => Beside!AnswersTrue) /\ (~OtherCalls => Resent!AnswersTrue)
        => (part = "resent" => Resent!AnswersTrue) /\ (part = "beside" => Beside!AnswersTrue)
    BY DEF OtherCalls
  <2> QED
    BY <2>1, OneJournal, PartsBehave, ResentHolds, BesideHolds, PTL
<1>2. Spec => [](Amendments!AmendmentsKept /\ Validation!ValidationHonest)
  <2>1. Validation!ValidationAssumption
    BY ProtocolsAssumption
  <2> QED
    BY <2>1, PartsBehave, AmendmentsStand, ChecksAreHonest, PTL
<1>3. /\ part = "resent" => Resent!AnswersTrue
      /\ part = "beside" => Beside!AnswersTrue
      /\ Amendments!AmendmentsKept /\ Validation!ValidationHonest
      => AnswersTrue
  BY DEF AnswersTrue
<1> QED
  BY <1>1, <1>2, <1>3, PTL

\* No work in a directory is lost, whichever of the sweeps, deliveries, recoveries, installs
\* and crashes meet.
THEOREM FilesStayKept == Spec => []FilesAreKept
<1>1. Blocked!RecoveryAssumption
  BY ProtocolsAssumption
<1>2. Reclaim!RemovedIsArchived /\ Reclaim!DeliveryKeepsFiles /\ Blocked!WorkIsHeld /\ Linkers!WholeUnlessCut => FilesAreKept
  BY DEF FilesAreKept
<1> QED
  BY <1>1, <1>2, PartsBehave, FilesGoArchived, WorkStaysHeld, CopiesAreWhole, PTL

\* What was decided on an earlier reading does not happen on a later state: the thread, the
\* operator or the call that comes late is refused.
THEOREM LateStepsStayFenced == Spec => LateStepsAreFenced
<1>1. Blocked!RecoveryAssumption /\ Validation!ValidationAssumption
  BY ProtocolsAssumption
<1>2. /\ OtherCalls => [Beside!QuietAfterDrain]_jEffects
      /\ ~OtherCalls => [Resent!QuietAfterDrain]_jEffects
      => (part = "resent" => Resent!QuietAfterDrain) /\ (part = "beside" => Beside!QuietAfterDrain)
  BY DEF Resent!QuietAfterDrain, Beside!QuietAfterDrain, OtherCalls
<1>3. [Next]_vars /\ [Blocked!AssignsPreview]_(Blocked!vars) =>
          (part = "blocked" => Blocked!AssignsPreview) \/ UNCHANGED vars
  BY PartMoves DEF Blocked!vars, blocked
<1>4. [Next]_vars /\ [Amendments!AmendmentsFenced]_(Amendments!vars) =>
          (part = "amendments" => Amendments!AmendmentsFenced) \/ UNCHANGED vars
  BY PartMoves DEF Amendments!vars, contracts
<1>5. [Next]_vars /\ [Validation!ValidationFenced]_(Validation!vars) =>
          (part = "validation" => Validation!ValidationFenced) \/ UNCHANGED vars
  BY PartMoves DEF Validation!vars, validation
<1>6. /\ [(part = "resent" => Resent!QuietAfterDrain) /\ (part = "beside" => Beside!QuietAfterDrain)]_vars
      /\ (part = "blocked" => Blocked!AssignsPreview) \/ UNCHANGED vars
      /\ (part = "amendments" => Amendments!AmendmentsFenced) \/ UNCHANGED vars
      /\ (part = "validation" => Validation!ValidationFenced) \/ UNCHANGED vars
      => [/\ part = "resent" => Resent!QuietAfterDrain
          /\ part = "beside" => Beside!QuietAfterDrain
          /\ part = "blocked" => Blocked!AssignsPreview
          /\ part = "amendments" => Amendments!AmendmentsFenced
          /\ part = "validation" => Validation!ValidationFenced]_vars
  OBVIOUS
<1>7. Spec => [][(part = "resent" => Resent!QuietAfterDrain) /\ (part = "beside" => Beside!QuietAfterDrain)]_vars
  BY <1>2, OneJournal, PartsBehave, ResentHolds, BesideHolds, PTL
<1>8. Spec => /\ [][Blocked!AssignsPreview]_(Blocked!vars)
               /\ [][Amendments!AmendmentsFenced]_(Amendments!vars)
               /\ [][Validation!ValidationFenced]_(Validation!vars)
  BY <1>1, PartsBehave, OnlyThePreviewIsAssigned, AmendmentsStand, ChecksAreFenced, PTL
<1> QED
  BY <1>3, <1>4, <1>5, <1>6, <1>7, <1>8, PTL DEF Spec, LateStepsAreFenced
=============================================================================
