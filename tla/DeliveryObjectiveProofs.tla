----------------------- MODULE DeliveryObjectiveProofs -----------------------
(* The safety properties of DeliveryObjective, for every number of           *)
(* objectives, every list of stages and every budget.                        *)
EXTENDS DeliveryObjective, TLAPS

-----------------------------------------------------------------------------
(* Types.                                                                   *)

LEMMA RowType ==
    ASSUME TypeOK, NEW o \in Objective
    PROVE  /\ row[o] \in Rows
           /\ row[o].state \in States /\ row[o].stage \in Nat
           /\ row[o].attempt \in Nat /\ row[o].attempt > 0
           /\ row[o].used \in Nat /\ row[o].wait \in Waits /\ row[o].safe \in BOOLEAN
           /\ row[o].owner \in Owners /\ row[o].live \in BOOLEAN
           /\ row[o].stage \in 1..Len(Required[o])
  BY DEF TypeOK, Rows

LEMMA StageType ==
    ASSUME NEW o \in Objective
    PROVE  /\ Required[o] \in Seq(Kinds) /\ Len(Required[o]) \in Nat /\ Len(Required[o]) > 0
           /\ \A i \in 1..Len(Required[o]) : Required[o][i] \in Kinds
  BY RequiredAssumption

LEMMA InitType == Init => TypeOK
<1> SUFFICES ASSUME Init PROVE TypeOK
  OBVIOUS
<1>1. Created \in Rows
  BY DEF Created, Rows, States, Waits, Owners
<1>2. row \in [Objective -> Rows] /\ \A o \in Objective : row[o] = Created
  BY <1>1 DEF Init
<1>3. \A o \in Objective : row[o].stage \in 1..Len(Required[o]) /\ row[o].attempt > 0
  <2>1. ASSUME NEW o \in Objective
        PROVE  row[o].stage \in 1..Len(Required[o]) /\ row[o].attempt > 0
    <3>1. row[o].stage = 1 /\ row[o].attempt = 1
      BY <1>2 DEF Created
    <3>2. QED
      BY <3>1, StageType
  <2>2. QED
    BY <2>1
<1>4. dispatch \in [Objective -> Dispatches] /\ helper \in [Objective -> Helpers]
  BY DEF Init, NoDispatch, Dispatches, NoHelper, Helpers, Owners
<1>5. noted \in [Objective -> SUBSET {"deadline", "authorization"}]
      /\ granted \in [Objective -> SUBSET Scopes]
  BY DEF Init
<1>6. effect \in [Objective -> [ran : Nat, undone : Nat]]
  BY DEF Init, NoEffect
<1>7. turn \in Turns /\ turn = Idle
  BY DEF Init, Idle, Turns, Steps
<1>8. phase \in {"down", "serving"} /\ overdue \subseteq Objective /\ busy \in BOOLEAN
  BY DEF Init
<1>9. QED
  BY <1>2, <1>3, <1>4, <1>5, <1>6, <1>7, <1>8 DEF TypeOK

LEMMA IdleType == Idle \in Turns
  BY DEF Idle, Turns, Steps

LEMMA TurnType ==
    ASSUME TypeOK, NEW o \in Objective, turn.o = o,
           NEW s \in Steps, NEW n \in BOOLEAN, NEW out \in {"none"} \cup Outcomes,
           \/ turn' = Idle \/ turn' = turn
           \/ turn' = [turn EXCEPT !.step = s]
           \/ turn' = [turn EXCEPT !.step = s, !.new = n]
           \/ turn' = [turn EXCEPT !.step = s, !.outcome = out]
           \/ turn' = [turn EXCEPT !.outcome = out, !.step = s]
    PROVE  turn' \in Turns /\ (turn'.o \in Objective \/ turn' = Idle)
<1>1. Idle \in Turns
  BY DEF Idle, Turns, Steps
<1>2. turn \in Turns
  BY DEF TypeOK
<1>3. QED
  BY <1>1, <1>2 DEF Turns

\* The parts of TypeOK apart from the rows and the turn.
LEMMA DispatchType ==
    ASSUME TypeOK
    PROVE  dispatch \in [Objective -> Dispatches]
  BY DEF TypeOK

LEMMA SettleType ==
    ASSUME TypeOK, NEW o \in Objective, NEW out \in Outcomes, Settle(o, out)
    PROVE  dispatch' \in [Objective -> Dispatches]
<1>1. ASSUME NEW b \in BOOLEAN
      PROVE  [dispatch EXCEPT ![o].state = "settled", ![o].unknown = b]
               \in [Objective -> Dispatches]
  BY DispatchType DEF Dispatches
<1>2. (out = "unknown") \in BOOLEAN
  OBVIOUS
<1>3. QED
  BY <1>1, <1>2, Zenon DEF Settle

\* What TypeOK says of the rows.
RowsOK ==
    /\ row \in [Objective -> Rows]
    /\ \A o \in Objective : row[o].stage \in 1..Len(Required[o]) /\ row[o].attempt > 0

LEMMA RowUpdate ==
    ASSUME TypeOK, NEW o \in Objective, NEW r \in Rows, row' = [row EXCEPT ![o] = r],
           r.stage \in 1..Len(Required[o]), r.attempt > 0
    PROVE  RowsOK'
  BY RowType DEF TypeOK, RowsOK

LEMMA NeedsDecisionType ==
    ASSUME TypeOK, NEW o \in Objective, NEW wait \in Waits, NeedsDecision(o, wait)
    PROVE  RowsOK'
<1>1. Spent(row[o].used) \in Nat
  BY RowType DEF Spent
<1> DEFINE r == [Released(row[o]) EXCEPT !.state = "needs_decision", !.wait = wait,
                                         !.safe = FALSE, !.used = Spent(row[o].used)]
<1>2. r \in Rows /\ r.stage = row[o].stage /\ r.attempt = row[o].attempt
  BY <1>1, RowType DEF Released, Rows, States, Owners
<1>3. row' = [row EXCEPT ![o] = r]
  BY DEF NeedsDecision
<1>4. QED
  BY <1>2, <1>3, RowUpdate, RowType

LEMMA WaitingType ==
    ASSUME TypeOK, NEW o \in Objective, NEW wait \in Waits, NEW b \in BOOLEAN,
           row' = [row EXCEPT ![o] = [Released(@) EXCEPT
                     !.state = "waiting", !.wait = wait, !.safe = b]]
    PROVE  RowsOK'
<1> DEFINE r == [Released(row[o]) EXCEPT !.state = "waiting", !.wait = wait, !.safe = b]
<1>1. r \in Rows /\ r.stage = row[o].stage /\ r.attempt = row[o].attempt
  BY RowType DEF Released, Rows, States, Owners
<1>2. row' = [row EXCEPT ![o] = r]
  OBVIOUS
<1>3. QED
  BY <1>1, <1>2, RowUpdate, RowType

LEMMA WokenType ==
    ASSUME TypeOK, NEW o \in Objective
    PROVE  /\ Woken(row[o]) \in Rows
           /\ Woken(row[o]).stage = row[o].stage /\ Woken(row[o]).attempt = row[o].attempt
  BY RowType DEF Woken, Rows, Waits

LEMMA SurroundingsType ==
    ASSUME TypeOK,
           \/ Stop \/ ActivateCoordinator
           \/ ClaimWork \/ FinishWork \/ ReconcileSafePointWaits
    PROVE  TypeOK'
<1> USE DEF ledger, world, outside
<1>1. CASE Stop
  <2>1. turn' = Idle /\ Idle \in Turns
    BY <1>1 DEF Stop, Idle, Turns, Steps
  <2>2. QED
    BY <1>1, <2>1 DEF Stop, TypeOK
<1>2. CASE ActivateCoordinator
  <2>1. ASSUME NEW o \in Objective
        PROVE  /\ [row[o] EXCEPT !.owner = Aged(row[o].owner)] \in Rows
               /\ [row[o] EXCEPT !.owner = Aged(row[o].owner)].stage = row[o].stage
               /\ [row[o] EXCEPT !.owner = Aged(row[o].owner)].attempt = row[o].attempt
    BY RowType DEF Rows, Aged, Owners
  <2>2. ASSUME NEW o \in Objective
        PROVE  [helper[o] EXCEPT !.epoch = Aged(helper[o].epoch)] \in Helpers
    BY DEF TypeOK, Helpers, Aged, Owners
  <2>3. row' = [o \in Objective |-> [row[o] EXCEPT !.owner = Aged(row[o].owner)]]
    BY <1>2 DEF ActivateCoordinator
  <2>4. helper' = [o \in Objective |-> [helper[o] EXCEPT !.epoch = Aged(helper[o].epoch)]]
    BY <1>2 DEF ActivateCoordinator
  <2>5. RowsOK' /\ helper' \in [Objective -> Helpers]
    BY <2>1, <2>2, <2>3, <2>4, RowType DEF RowsOK
  <2>6. QED
    BY <1>2, <2>5 DEF ActivateCoordinator, TypeOK, RowsOK
<1>3. CASE ClaimWork \/ FinishWork
  BY <1>3 DEF ClaimWork, FinishWork, TypeOK
<1>4. CASE ReconcileSafePointWaits
  <2>1. RowsOK'
    BY <1>4, WokenType, RowType DEF ReconcileSafePointWaits, RowsOK
  <2>2. QED
    BY <1>4, <2>1 DEF ReconcileSafePointWaits, TypeOK, RowsOK
<1>5. QED
  BY <1>1, <1>2, <1>3, <1>4

LEMMA OperatorType ==
    ASSUME TypeOK, NEW o \in Objective, Operator(o)
    PROVE  TypeOK'
<1> USE DEF ledger, world, outside
<1>1. ASSUME NEW s \in Scopes, Grant(o, s)
      PROVE  TypeOK'
  <2>1. granted' \in [Objective -> SUBSET Scopes]
    BY <1>1 DEF Grant, TypeOK
  <2> DEFINE r == IF row[o].state \in {"waiting", "needs_decision"} /\ row[o].wait = "permission"
                  THEN [row[o] EXCEPT !.state = "active", !.wait = "none", !.safe = FALSE]
                  ELSE row[o]
  <2>2. r \in Rows /\ r.stage = row[o].stage /\ r.attempt = row[o].attempt
    BY RowType DEF Rows, States, Waits
  <2>3. row' = [row EXCEPT ![o] = r]
    BY <1>1 DEF Grant
  <2>4. RowsOK'
    BY <2>2, <2>3, RowUpdate, RowType
  <2>5. QED
    BY <1>1, <2>1, <2>4 DEF Grant, TypeOK, RowsOK
<1>2. ASSUME NEW s \in Scopes, Deny(o, s)
      PROVE  TypeOK'
  <2>1. granted' \in [Objective -> SUBSET Scopes]
    BY <1>2 DEF Deny, TypeOK
  <2> DEFINE r == IF row[o].state \in {"waiting", "needs_decision"}
                  THEN [Released(row[o]) EXCEPT !.state = "needs_decision",
                                                !.wait = "permission", !.safe = FALSE]
                  ELSE row[o]
  <2>2. r \in Rows /\ r.stage = row[o].stage /\ r.attempt = row[o].attempt
    BY RowType DEF Released, Rows, States, Waits, Owners
  <2>3. row' = [row EXCEPT ![o] = r]
    BY <1>2 DEF Deny
  <2>4. RowsOK'
    BY <2>2, <2>3, RowUpdate, RowType
  <2>5. QED
    BY <1>2, <2>1, <2>4 DEF Deny, TypeOK, RowsOK
<1>3. ASSUME NEW s \in Scopes, AuthorizationExpires(o, s)
      PROVE  TypeOK'
  BY <1>3 DEF AuthorizationExpires, TypeOK
<1>4. QED
  BY <1>1, <1>2, <1>3 DEF Operator

LEMMA HelperType ==
    ASSUME TypeOK, NEW o \in Objective, HelperStep(o)
    PROVE  TypeOK'
<1>1. ASSUME NEW from, NEW to \in {"none", "running", "succeeded", "failed"}, Helper(o, from, to)
      PROVE  TypeOK'
  <2>1. helper' \in [Objective -> Helpers]
    BY <1>1 DEF Helper, TypeOK, Helpers
  <2>2. QED
    BY <1>1, <2>1 DEF Helper, TypeOK, ledger, world
<1>2. QED
  BY <1>1 DEF HelperStep, HelperStarts, HelperSucceeds, HelperFails, HelperDies

LEMMA TimeType ==
    ASSUME TypeOK, NEW o \in Objective, LeaseExpires(o) \/ DueTimePasses(o)
    PROVE  TypeOK'
<1> USE DEF ledger, world, outside
<1>1. CASE LeaseExpires(o)
  <2> DEFINE r == [row[o] EXCEPT !.live = FALSE]
  <2>1. r \in Rows /\ r.stage = row[o].stage /\ r.attempt = row[o].attempt
    BY RowType DEF Rows
  <2>2. RowsOK'
    BY <1>1, <2>1, RowUpdate, RowType DEF LeaseExpires
  <2>3. QED
    BY <1>1, <2>2 DEF LeaseExpires, TypeOK, RowsOK
<1>2. CASE DueTimePasses(o)
  BY <1>2 DEF DueTimePasses, TypeOK
<1>3. QED
  BY <1>1, <1>2

-----------------------------------------------------------------------------
(* Types of a turn.                                                         *)

LEMMA ClaimType ==
    ASSUME TypeOK, NEW o \in Objective, ClaimDeliveryObjective(o)
    PROVE  TypeOK'
<1> USE DEF ledger, world, outside
<1>1. ASSUME NEW p \in Objective
      PROVE  /\ Claimed(Woken(row[p])) \in Rows
             /\ Claimed(Woken(row[p])).stage = row[p].stage
             /\ Claimed(Woken(row[p])).attempt = row[p].attempt
  BY WokenType DEF Claimed, Rows, States, Waits, Owners
<1>2. RowsOK'
  BY <1>1, WokenType, RowType DEF ClaimDeliveryObjective, RowsOK
<1>3. turn' \in Turns /\ turn'.o \in Objective
  BY RequiredAssumption DEF ClaimDeliveryObjective, Idle, Turns, Steps
<1>4. QED
  BY <1>2, <1>3 DEF ClaimDeliveryObjective, TypeOK, RowsOK

\* The refusals and the deferrals: the row is given up or the turn goes on.
LEMMA AdmissionType ==
    ASSUME TypeOK, NEW o \in Objective,
           \/ RecordDeadline(o) \/ CheckAuthority(o) \/ RecordRefusal(o)
           \/ CheckGate(o) \/ DeferAdmission(o) \/ DeferSafePoint(o) \/ BeginStageDispatch(o)
    PROVE  TypeOK'
<1> USE DEF ledger, world, outside
<1>1. ASSUME NEW receipt \in {"deadline", "authorization"}, NEW wait \in Waits,
             At(o, "claimed") \/ At(o, "refused"), AskDecision(o, receipt, wait)
      PROVE  TypeOK'
  <2>1. RowsOK'
    BY <1>1, NeedsDecisionType DEF AskDecision
  <2>2. noted' \in [Objective -> SUBSET {"deadline", "authorization"}]
    BY <1>1 DEF AskDecision, TypeOK
  <2>3. turn' \in Turns /\ turn' = Idle
    BY <1>1, IdleType DEF AskDecision
  <2>4. QED
    BY <1>1, <2>1, <2>2, <2>3 DEF AskDecision, TypeOK, RowsOK
<1>2. CASE RecordDeadline(o)
  BY <1>1, <1>2 DEF RecordDeadline, Waits
<1>3. CASE CheckAuthority(o) \/ CheckGate(o)
  <2>1. PICK s \in Steps : GoTo(s)
    BY <1>3 DEF CheckAuthority, CheckGate, Steps
  <2>2. turn' \in Turns /\ (turn'.o \in Objective \/ turn' = Idle)
    BY <1>3, <2>1, TurnType DEF CheckAuthority, CheckGate, At, GoTo, Outcomes
  <2>3. QED
    BY <1>3, <2>2 DEF CheckAuthority, CheckGate, TypeOK
<1>4. CASE RecordRefusal(o)
  <2>1. CASE dispatch[o].state = "started"
    <3>1. RowsOK'
      BY <1>4, <2>1, NeedsDecisionType DEF RecordRefusal, Waits
    <3>2. dispatch' \in [Objective -> Dispatches]
      BY <1>4, <2>1, SettleType DEF RecordRefusal, Outcomes
    <3>3. turn' \in Turns /\ turn' = Idle
      BY <1>4, <2>1, IdleType DEF RecordRefusal
    <3>4. QED
      BY <1>4, <2>1, <3>1, <3>2, <3>3 DEF RecordRefusal, TypeOK, RowsOK
  <2>2. CASE dispatch[o].state # "started"
    BY <1>1, <1>4, <2>2 DEF RecordRefusal, Waits
  <2>3. QED
    BY <2>1, <2>2
<1>5. CASE DeferAdmission(o) \/ DeferSafePoint(o)
  <2>1. RowsOK'
    BY <1>5, WaitingType DEF DeferAdmission, DeferSafePoint, Waits
  <2>2. turn' \in Turns /\ turn' = Idle
    BY <1>5, IdleType DEF DeferAdmission, DeferSafePoint
  <2>3. QED
    BY <1>5, <2>1, <2>2 DEF DeferAdmission, DeferSafePoint, TypeOK, RowsOK
<1>6. CASE BeginStageDispatch(o)
  <2>1. CASE Blocked(o)
    <3>1. turn' \in Turns /\ (turn'.o \in Objective \/ turn' = Idle)
      BY <1>6, <2>1, TurnType DEF BeginStageDispatch, At, GoTo, Steps, Outcomes
    <3>2. QED
      BY <1>6, <2>1, <3>1 DEF BeginStageDispatch, TypeOK
  <2>2. CASE ~Blocked(o)
    <3>1. ASSUME NEW b \in BOOLEAN
          PROVE  /\ [row[o] EXCEPT !.safe = b] \in Rows
                 /\ [row[o] EXCEPT !.safe = b].stage = row[o].stage
                 /\ [row[o] EXCEPT !.safe = b].attempt = row[o].attempt
      BY RowType DEF Rows
    <3>2. PICK b \in BOOLEAN : row' = [row EXCEPT ![o] = [row[o] EXCEPT !.safe = b]]
      <4>1. (row[o].safe /\ dispatch[o].state # "none") \in BOOLEAN
        OBVIOUS
      <4>2. row' = [row EXCEPT ![o] = [row[o] EXCEPT
                      !.safe = row[o].safe /\ dispatch[o].state # "none"]]
        BY <1>6, <2>2, Zenon DEF BeginStageDispatch
      <4>3. QED
        BY <4>1, <4>2, Zenon
    <3>3. RowsOK'
      BY <3>1, <3>2, RowUpdate, RowType
    <3>4. dispatch' \in [Objective -> Dispatches]
      <4>1. dispatch' = [dispatch EXCEPT ![o].state = IF @ = "none" THEN "started" ELSE @]
        BY <1>6, <2>2, Zenon DEF BeginStageDispatch
      <4>2. QED
        BY <4>1, DispatchType DEF Dispatches
    <3>5. PICK n \in BOOLEAN : turn' = [turn EXCEPT !.step = "invoking", !.new = n]
      <4>1. IsNew(o) \in BOOLEAN
        BY DEF IsNew
      <4>2. turn' = [turn EXCEPT !.step = "invoking", !.new = IsNew(o)]
        BY <1>6, <2>2, Zenon DEF BeginStageDispatch
      <4>3. QED
        BY <4>1, <4>2, Zenon
    <3>6. turn' \in Turns /\ (turn'.o \in Objective \/ turn' = Idle)
      BY <1>6, <3>5, TurnType DEF BeginStageDispatch, At, Steps, Outcomes
    <3>7. QED
      BY <1>6, <2>2, <3>3, <3>4, <3>6 DEF BeginStageDispatch, TypeOK, RowsOK
  <2>3. QED
    BY <2>1, <2>2
<1>7. QED
  BY <1>2, <1>3, <1>4, <1>5, <1>6

LEMMA EffectType ==
    ASSUME TypeOK, NEW o \in Objective,
           \/ InvokeAdapter(o) \/ BeginStageRollback(o) \/ RollBack(o) \/ SettleStageRollback(o)
    PROVE  TypeOK'
<1> USE DEF ledger, world, outside
<1>1. turn \in Turns /\ effect[o].ran \in Nat /\ effect[o].undone \in Nat
  BY DEF TypeOK
<1>2. CASE InvokeAdapter(o)
  <2>1. PICK answer \in Answers(o) :
          /\ turn' = [turn EXCEPT !.outcome = answer,
                        !.step = IF answer = "failed" /\ Kind(o) = "deploy" /\ o \in Reversible
                                 THEN "failed" ELSE "recording"]
          /\ \/ UNCHANGED helper
             \/ /\ Launches(o, answer)
                /\ helper' = [helper EXCEPT ![o] = [state |-> "launched", epoch |-> "this"]]
    BY <1>2 DEF InvokeAdapter
  <2>2. answer \in Outcomes
    BY DEF Answers, ObserveDeploy, Outcomes
  <2>3. turn' \in Turns /\ (turn'.o \in Objective \/ turn' = Idle)
    BY <1>2, <2>1, <2>2, TurnType DEF InvokeAdapter, At, Steps
  <2>4. helper' \in [Objective -> Helpers]
    <3>1. [state |-> "launched", epoch |-> "this"] \in Helpers
      BY DEF Helpers, Owners
    <3>2. helper' = helper \/ helper' = [helper EXCEPT ![o] = [state |-> "launched", epoch |-> "this"]]
      BY <2>1, Zenon
    <3>3. QED
      BY <3>1, <3>2 DEF TypeOK
  <2>5. effect' \in [Objective -> [ran : Nat, undone : Nat]]
    <3>1. PICK n \in Nat : effect' = [effect EXCEPT ![o].ran = n]
      <4>1. (IF turn.new THEN effect[o].ran + 1 ELSE effect[o].ran) \in Nat
        BY <1>1
      <4>2. effect' = [effect EXCEPT ![o].ran = IF turn.new THEN effect[o].ran + 1 ELSE effect[o].ran]
        BY <1>2 DEF InvokeAdapter, TypeOK
      <4>3. QED
        BY <4>1, <4>2, Zenon
    <3>2. QED
      BY <3>1 DEF TypeOK
  <2>6. QED
    BY <1>2, <2>3, <2>4, <2>5 DEF InvokeAdapter, TypeOK
<1>3. CASE BeginStageRollback(o)
  <2>1. dispatch' \in [Objective -> Dispatches]
    BY <1>3, DispatchType DEF BeginStageRollback, Dispatches
  <2>2. turn' \in Turns /\ (turn'.o \in Objective \/ turn' = Idle)
    <3>1. CASE dispatch[o].rollback = "none"
      BY <1>3, <3>1, TurnType DEF BeginStageRollback, At, Steps, Outcomes
    <3>2. CASE dispatch[o].rollback # "none"
      <4> DEFINE out == IF dispatch[o].state = "settled" THEN turn.outcome ELSE "unknown"
      <4>1. out \in {"none"} \cup Outcomes
        BY <1>1 DEF Turns, Outcomes
      <4>2. turn' = [turn EXCEPT !.step = "recording", !.outcome = out]
        BY <1>3, <3>2 DEF BeginStageRollback
      <4>3. QED
        BY <1>3, <4>1, <4>2, TurnType DEF BeginStageRollback, At, Steps
    <3>3. QED
      BY <3>1, <3>2
  <2>3. QED
    BY <1>3, <2>1, <2>2 DEF BeginStageRollback, TypeOK
<1>4. CASE RollBack(o)
  <2>1. effect' \in [Objective -> [ran : Nat, undone : Nat]]
    BY <1>1, <1>4 DEF RollBack, TypeOK
  <2>2. turn' \in Turns /\ (turn'.o \in Objective \/ turn' = Idle)
    BY <1>4, TurnType DEF RollBack, GoTo, At, Steps, Outcomes
  <2>3. QED
    BY <1>4, <2>1, <2>2 DEF RollBack, TypeOK
<1>5. CASE SettleStageRollback(o)
  <2>1. dispatch' \in [Objective -> Dispatches]
    BY <1>5, DispatchType DEF SettleStageRollback, Dispatches
  <2>2. turn' \in Turns /\ (turn'.o \in Objective \/ turn' = Idle)
    BY <1>5, TurnType DEF SettleStageRollback, GoTo, At, Steps, Outcomes
  <2>3. QED
    BY <1>5, <2>1, <2>2 DEF SettleStageRollback, TypeOK
<1>6. QED
  BY <1>2, <1>3, <1>4, <1>5

LEMMA FreshType ==
    ASSUME TypeOK, NEW o \in Objective, StartAfresh(o)
    PROVE  /\ dispatch' \in [Objective -> Dispatches]
           /\ noted' \in [Objective -> SUBSET {"deadline", "authorization"}]
           /\ effect' \in [Objective -> [ran : Nat, undone : Nat]]
           /\ helper' \in [Objective -> Helpers]
<1>1. NoDispatch \in Dispatches /\ NoEffect \in [ran : Nat, undone : Nat] /\ NoHelper \in Helpers
  BY DEF NoDispatch, Dispatches, NoEffect, NoHelper, Helpers, Owners
<1>2. QED
  BY <1>1 DEF TypeOK, StartAfresh

LEMMA ReceiptType ==
    ASSUME TypeOK, NEW o \in Objective,
           \/ RecordSuccess(o) \/ RecordRetry(o) \/ RecordFailure(o) \/ DeferObservation(o)
    PROVE  TypeOK'
<1> USE DEF ledger, world, outside
<1>1. turn' \in Turns /\ turn' = Idle
  BY IdleType DEF RecordSuccess, RecordRetry, RecordFailure, DeferObservation, Answered
<1>2. CASE RecordSuccess(o)
  <2>1. CASE LastStage(o)
    <3> DEFINE r == [Released(row[o]) EXCEPT !.state = "complete", !.safe = FALSE]
    <3>1. r \in Rows /\ r.stage = row[o].stage /\ r.attempt = row[o].attempt
      BY RowType DEF Released, Rows, States, Owners
    <3>2. row' = [row EXCEPT ![o] = r]
      BY <1>2, <2>1 DEF RecordSuccess
    <3>3. RowsOK'
      BY <3>1, <3>2, RowUpdate, RowType
    <3>4. dispatch' \in [Objective -> Dispatches]
      BY <1>2, <2>1, SettleType DEF RecordSuccess, Outcomes
    <3>5. QED
      BY <1>1, <1>2, <2>1, <3>3, <3>4 DEF RecordSuccess, Answered, TypeOK, RowsOK
  <2>2. CASE ~LastStage(o)
    <3> DEFINE r == [row[o] EXCEPT !.stage = row[o].stage + 1, !.attempt = 1, !.safe = FALSE]
    <3>1. row[o].stage + 1 \in 1..Len(Required[o])
      BY <2>2, RowType, StageType DEF LastStage
    <3>2. r \in Rows /\ r.stage = row[o].stage + 1 /\ r.attempt = 1
      <4>1. row[o].stage + 1 \in Nat
        BY RowType
      <4>2. r.stage = row[o].stage + 1 /\ r.attempt = 1
        BY RowType DEF Rows
      <4>3. QED
        BY <4>1, <4>2, RowType DEF Rows
    <3>3. row' = [row EXCEPT ![o] = r]
      BY <1>2, <2>2 DEF RecordSuccess
    <3> HIDE DEF r
    <3>4. RowsOK'
      <4>1. r.stage \in 1..Len(Required[o]) /\ r.attempt > 0
        BY <3>1, <3>2
      <4>2. QED
        BY <3>2, <3>3, <4>1, RowUpdate
    <3>5. QED
      BY <1>1, <1>2, <2>2, <3>4, FreshType DEF RecordSuccess, Answered, TypeOK, RowsOK
  <2>3. QED
    BY <2>1, <2>2
<1>3. CASE RecordRetry(o)
  <2> DEFINE r == [Released(row[o]) EXCEPT
                     !.state = "waiting", !.wait = "other", !.safe = FALSE,
                     !.attempt = row[o].attempt + 1, !.used = Spent(row[o].used)]
  <2>1. Spent(row[o].used) \in Nat
    BY RowType DEF Spent
  <2>2. r \in Rows /\ r.stage = row[o].stage /\ r.attempt = row[o].attempt + 1
    <3>1. row[o].attempt + 1 \in Nat
      BY RowType
    <3>2. Released(row[o]) \in Rows /\ Released(row[o]).stage = row[o].stage
      BY RowType DEF Released, Rows, Owners
    <3>3. r \in Rows
      BY <2>1, <3>1, <3>2 DEF Rows, States, Waits
    <3>4. r.stage = row[o].stage /\ r.attempt = row[o].attempt + 1
      BY <3>2 DEF Rows
    <3>5. QED
      BY <3>3, <3>4
  <2>3. row' = [row EXCEPT ![o] = r]
    BY <1>3, Zenon DEF RecordRetry
  <2> HIDE DEF r
  <2>4. RowsOK'
    <3>1. r.stage \in 1..Len(Required[o]) /\ r.attempt > 0
      BY <2>2, RowType
    <3>2. QED
      BY <2>2, <2>3, <3>1, RowUpdate
  <2>5. QED
    BY <1>1, <1>3, <2>4, FreshType DEF RecordRetry, Answered, TypeOK, RowsOK
<1>4. CASE RecordFailure(o)
  <2>1. RowsOK'
    BY <1>4, NeedsDecisionType DEF RecordFailure, Waits
  <2>2. dispatch' \in [Objective -> Dispatches]
    BY <1>4, SettleType DEF RecordFailure, Answered, Outcomes
  <2>3. QED
    BY <1>1, <1>4, <2>1, <2>2 DEF RecordFailure, Answered, TypeOK, RowsOK
<1>5. CASE DeferObservation(o)
  <2>1. RowsOK'
    BY <1>5, WaitingType DEF DeferObservation, Waits
  <2>2. QED
    BY <1>1, <1>5, <2>1 DEF DeferObservation, Answered, TypeOK, RowsOK
<1>6. QED
  BY <1>2, <1>3, <1>4, <1>5

LEMMA StepType == TypeOK /\ [Next]_vars => TypeOK'
<1> SUFFICES ASSUME TypeOK, [Next]_vars
             PROVE  TypeOK'
  OBVIOUS
<1>1. ASSUME NEW o \in Objective, AbandonTurn(o)
      PROVE  TypeOK'
  <2>1. turn' \in Turns /\ turn' = Idle
    BY <1>1, IdleType DEF AbandonTurn
  <2>2. QED
    BY <1>1, <2>1 DEF AbandonTurn, TypeOK, ledger, world, outside
<1>2. ASSUME NEW o \in Objective, Turn(o)
      PROVE  TypeOK'
  BY <1>1, <1>2, AdmissionType, EffectType, ReceiptType DEF Turn
<1>3. CASE UNCHANGED vars
  BY <1>3 DEF vars, ledger, world, outside, TypeOK
<1>4. QED
  BY <1>2, <1>3, SurroundingsType, OperatorType, HelperType, TimeType, ClaimType DEF Next

\* Every row, dispatch, turn and helper is one the code can write, whatever the stages,
\* the budget and the number of objectives.
THEOREM DeliveryTypeCorrect == Spec => []TypeOK
  BY InitType, StepType, PTL DEF Spec

-----------------------------------------------------------------------------
(* One rollout at a time.                                                   *)

\* A turn that is about to wait for the safe point found the gate free, and nothing is
\* started any more for an objective that is complete.
GateInv ==
    /\ RolloutAlone
    /\ turn.step = "draining" => \A p \in Objective \ {turn.o} : ~Gate(p)
    /\ \A o \in Objective : row[o].state = "complete" => dispatch[o].state # "started"

\* What most steps do to an objective: its gate does not close and nothing is started.
Quiet(o) ==
    /\ row'[o].stage = row[o].stage
    /\ row'[o].state = "complete" <=> row[o].state = "complete"
    /\ Gate(o)' => Gate(o)
    /\ dispatch'[o].state = "started" => dispatch[o].state = "started"

\* A new row or dispatch whose gate, if it is closed, was closed before.
Eased(o) ==
    /\ row'[o].stage = row[o].stage /\ row'[o].attempt = row[o].attempt
    /\ row'[o].state = "complete" <=> row[o].state = "complete"
    /\ row'[o].safe = TRUE => row[o].safe = TRUE
    /\ row'[o].wait = "unknown" => row[o].wait = "unknown" \/ dispatch[o].state = "started"
    /\ dispatch'[o].state # "none" => dispatch[o].state # "none"
    /\ dispatch'[o].state = "started" => dispatch[o].state = "started"

LEMMA EasedIsQuiet ==
    ASSUME TypeOK, TypeOK', NEW o \in Objective, Eased(o)
    PROVE  Quiet(o)
  BY RowType DEF Eased, Quiet, Gate, Kind, TypeOK, Rows

LEMMA SameIsQuiet ==
    ASSUME NEW o \in Objective, row'[o] = row[o], dispatch'[o] = dispatch[o]
    PROVE  Quiet(o)
  BY DEF Quiet, Gate, Kind

LEMMA QuietKeepsGates ==
    ASSUME TypeOK, TypeOK', GateInv, \A o \in Objective : Quiet(o),
           busy' = TRUE => busy = TRUE,
           turn'.step = "draining" => turn.step = "draining" /\ turn'.o = turn.o
    PROVE  GateInv'
<1>1. (\A o, p \in Objective : Gate(o) /\ Gate(p) => o = p)'
  BY DEF GateInv, RolloutAlone, Quiet
<1>2. \A o \in Objective : Kind(o)' = Kind(o)
  BY DEF Quiet, Kind
<1>3. busy \in BOOLEAN /\ busy' \in BOOLEAN
  BY DEF TypeOK
<1>4. (\A o \in Objective : Kind(o) = "deploy" => ~(dispatch[o].state = "started" /\ busy))'
  BY <1>2, <1>3 DEF GateInv, RolloutAlone, Quiet
<1>5. (\A o \in Objective : Kind(o) = "live-verify" => row[o].state = "complete" \/ ~busy)'
  BY <1>2, <1>3 DEF GateInv, RolloutAlone, Quiet
<1>6. (turn.step = "draining" => \A p \in Objective \ {turn.o} : ~Gate(p))'
  BY DEF GateInv, Quiet
<1>7. (\A o \in Objective : row[o].state = "complete" => dispatch[o].state # "started")'
  BY DEF GateInv, Quiet
<1>8. QED
  BY <1>1, <1>4, <1>5, <1>6, <1>7 DEF GateInv, RolloutAlone

LEMMA InitGates == Init => GateInv
<1> SUFFICES ASSUME Init PROVE GateInv
  OBVIOUS
<1>1. ASSUME NEW o \in Objective
      PROVE  /\ row[o] = Created /\ dispatch[o] = NoDispatch /\ Kind(o) = "task"
             /\ row[o].state # "complete" /\ dispatch[o].state = "none" /\ ~Gate(o)
  <2>1. row[o] = Created /\ dispatch[o] = NoDispatch
    BY DEF Init
  <2>2. Kind(o) = "task"
    BY <2>1, RequiredAssumption DEF Kind, Created
  <2>3. QED
    BY <2>1, <2>2 DEF Gate, Created, NoDispatch
<1>2. turn.step # "draining"
  BY DEF Init, Idle
<1>3. QED
  BY <1>1, <1>2 DEF GateInv, RolloutAlone

LEMMA SurroundingsGates ==
    ASSUME TypeOK, TypeOK', GateInv,
           Stop \/ ActivateCoordinator \/ ClaimWork \/ FinishWork \/ ReconcileSafePointWaits
    PROVE  GateInv'
<1> USE DEF ledger, world, outside
<1>1. CASE Stop \/ FinishWork
  <2>1. turn'.step = "draining" => turn.step = "draining" /\ turn'.o = turn.o
    BY <1>1 DEF Stop, FinishWork, Idle
  <2>2. QED
    BY <1>1, <2>1, SameIsQuiet, QuietKeepsGates DEF Stop, FinishWork
<1>2. CASE ActivateCoordinator
  <2>1. ASSUME NEW o \in Objective
        PROVE  Quiet(o)
    BY <1>2, RowType, EasedIsQuiet DEF ActivateCoordinator, Eased, Rows
  <2>2. QED
    BY <1>2, <2>1, QuietKeepsGates DEF ActivateCoordinator
<1>3. CASE ReconcileSafePointWaits
  <2>1. ASSUME NEW o \in Objective
        PROVE  Quiet(o)
    BY <1>3, RowType, EasedIsQuiet DEF ReconcileSafePointWaits, Woken, Eased, Rows
  <2>2. QED
    BY <1>3, <2>1, QuietKeepsGates DEF ReconcileSafePointWaits
<1>4. CASE ClaimWork
  <2>1. \A o \in Objective : ~Gate(o) /\ Gate(o)' = Gate(o) /\ Kind(o)' = Kind(o)
    BY <1>4 DEF ClaimWork, Gate, Kind
  <2>2. ASSUME NEW o \in Objective
        PROVE  /\ Kind(o) = "deploy" => dispatch[o].state # "started"
               /\ Kind(o) = "live-verify" => row[o].state = "complete"
    BY <2>1 DEF GateInv, Gate
  <2>3. UNCHANGED <<row, dispatch, turn>>
    BY <1>4 DEF ClaimWork
  <2>4. QED
    BY <2>1, <2>2, <2>3 DEF GateInv, RolloutAlone
<1>5. QED
  BY <1>1, <1>2, <1>3, <1>4

LEMMA OperatorGates ==
    ASSUME TypeOK, TypeOK', GateInv, NEW o \in Objective, Operator(o)
    PROVE  GateInv'
<1>1. ASSUME NEW p \in Objective
      PROVE  Quiet(p)
  <2>1. CASE p # o
    BY <2>1, SameIsQuiet
       DEF Operator, Grant, Deny, AuthorizationExpires, TypeOK, ledger
  <2>2. ASSUME NEW s \in Scopes, Grant(o, s)
        PROVE  Eased(o)
    <3>1. /\ \/ row'[o] = row[o]
             \/ /\ row[o].state \in {"waiting", "needs_decision"}
                /\ row'[o] = [row[o] EXCEPT !.state = "active", !.wait = "none", !.safe = FALSE]
          /\ dispatch' = dispatch
      BY <2>2 DEF Grant, TypeOK
    <3>2. QED
      BY <3>1, RowType DEF Eased, Rows
  <2>3. ASSUME NEW s \in Scopes, Deny(o, s)
        PROVE  Eased(o)
    <3>1. /\ \/ row'[o] = row[o]
             \/ /\ row[o].state \in {"waiting", "needs_decision"}
                /\ row'[o] = [Released(row[o]) EXCEPT !.state = "needs_decision",
                                                     !.wait = "permission", !.safe = FALSE]
          /\ dispatch' = dispatch
      BY <2>3 DEF Deny, TypeOK
    <3>2. QED
      BY <3>1, RowType DEF Released, Eased, Rows
  <2>4. ASSUME NEW s \in Scopes, AuthorizationExpires(o, s)
        PROVE  Eased(o)
    BY <2>4 DEF AuthorizationExpires, Eased, ledger
  <2>5. QED
    BY <2>1, <2>2, <2>3, <2>4, EasedIsQuiet DEF Operator
<1>2. busy' = busy /\ turn' = turn
  BY DEF Operator, Grant, Deny, AuthorizationExpires
<1>3. QED
  BY <1>1, <1>2, QuietKeepsGates

LEMMA TimeAndHelperGates ==
    ASSUME TypeOK, TypeOK', GateInv, NEW o \in Objective,
           LeaseExpires(o) \/ DueTimePasses(o) \/ HelperStep(o)
    PROVE  GateInv'
<1> USE DEF ledger, world, outside
<1>1. CASE LeaseExpires(o)
  <2>1. ASSUME NEW p \in Objective
        PROVE  Quiet(p)
    <3>1. dispatch' = dispatch /\ (row'[p] = row[p] \/ row'[p] = [row[p] EXCEPT !.live = FALSE])
      BY <1>1 DEF LeaseExpires, TypeOK
    <3>2. Eased(p)
      BY <3>1, RowType DEF Eased, Rows
    <3>3. QED
      BY <3>2, EasedIsQuiet
  <2>2. QED
    BY <1>1, <2>1, QuietKeepsGates DEF LeaseExpires
<1>2. CASE DueTimePasses(o) \/ HelperStep(o)
  <2>1. UNCHANGED <<row, dispatch, busy, turn>>
    BY <1>2 DEF DueTimePasses, HelperStep, HelperStarts, HelperSucceeds, HelperFails,
                HelperDies, Helper
  <2>2. QED
    BY <2>1, SameIsQuiet, QuietKeepsGates
<1>3. QED
  BY <1>1, <1>2

LEMMA ClaimGates ==
    ASSUME TypeOK, TypeOK', GateInv, NEW o \in Objective, ClaimDeliveryObjective(o)
    PROVE  GateInv'
<1>1. ASSUME NEW p \in Objective
      PROVE  Quiet(p)
  <2>1. /\ row'[p] = Woken(row[p]) \/ (p = o /\ row'[p] = Claimed(Woken(row[p])))
        /\ dispatch' = dispatch
        /\ Claimable(Woken(row[o]))
    BY DEF ClaimDeliveryObjective
  <2> DEFINE w == Woken(row[p])
  <2>2. /\ w \in Rows /\ w.stage = row[p].stage /\ w.attempt = row[p].attempt
        /\ w.state = row[p].state /\ w.safe = row[p].safe
        /\ w.wait = "unknown" => row[p].wait = "unknown"
    BY RowType DEF Woken, Rows, Waits
  <2>3. row'[p] = w \/ (p = o /\ row'[p] = Claimed(w) /\ Claimable(w))
    BY <2>1
  <2> HIDE DEF w
  <2>4. Eased(p)
    BY <2>1, <2>2, <2>3 DEF Claimed, Claimable, Eased, Rows
  <2>5. QED
    BY <2>4, EasedIsQuiet
<1>2. turn'.step # "draining" /\ busy' = busy
  BY DEF ClaimDeliveryObjective, Idle, world
<1>3. QED
  BY <1>1, <1>2, QuietKeepsGates

LEMMA DecisionIsEased ==
    ASSUME TypeOK, NEW o \in Objective, NEW wait \in Waits, NeedsDecision(o, wait), Fence(o),
           wait = "unknown" => dispatch[o].state = "started",
           dispatch'[o].state # "none" => dispatch[o].state # "none",
           dispatch'[o].state = "started" => dispatch[o].state = "started"
    PROVE  Eased(o) /\ \A p \in Objective \ {o} : row'[p] = row[p]
<1> DEFINE r == [Released(row[o]) EXCEPT !.state = "needs_decision", !.wait = wait,
                                         !.safe = FALSE, !.used = Spent(row[o].used)]
<1>1. row' = [row EXCEPT ![o] = r]
  BY DEF NeedsDecision
<1>2. /\ r.stage = row[o].stage /\ r.attempt = row[o].attempt /\ r.state = "needs_decision"
      /\ r.safe = FALSE /\ r.wait = wait
  BY RowType DEF Released, Rows
<1>3. row'[o] = r /\ \A p \in Objective \ {o} : row'[p] = row[p]
  BY <1>1 DEF TypeOK
<1> HIDE DEF r
<1>4. QED
  BY <1>2, <1>3 DEF Eased, Fence

LEMMA WaitingIsEased ==
    ASSUME TypeOK, NEW o \in Objective, Fence(o), dispatch' = dispatch,
           row' = [row EXCEPT ![o] = [Released(@) EXCEPT
                     !.state = "waiting", !.wait = "other", !.safe = FALSE]]
    PROVE  Eased(o) /\ \A p \in Objective \ {o} : row'[p] = row[p]
<1> DEFINE r == [Released(row[o]) EXCEPT !.state = "waiting", !.wait = "other", !.safe = FALSE]
<1>1. /\ r.stage = row[o].stage /\ r.attempt = row[o].attempt /\ r.state = "waiting"
      /\ r.safe = FALSE /\ r.wait = "other"
  BY RowType DEF Released, Rows
<1>2. row'[o] = r /\ \A p \in Objective \ {o} : row'[p] = row[p]
  BY DEF TypeOK
<1> HIDE DEF r
<1>3. QED
  BY <1>1, <1>2 DEF Eased, Fence

\* The turn ends or goes on, the row of its objective is eased, the others stay.
LEMMA EasedTurn ==
    ASSUME TypeOK, TypeOK', GateInv, NEW o \in Objective, Eased(o),
           \A p \in Objective \ {o} : row'[p] = row[p] /\ dispatch'[p] = dispatch[p],
           busy' = busy, turn'.step # "draining"
    PROVE  GateInv'
<1>1. ASSUME NEW p \in Objective
      PROVE  Quiet(p)
  BY EasedIsQuiet, SameIsQuiet
<1>2. QED
  BY <1>1, QuietKeepsGates

LEMMA GateIsAlone ==
    ASSUME GateInv, NEW o \in Objective, ~HeldByOther(o)
    PROVE  \A p \in Objective \ {o} : ~Gate(p)
  BY DEF GateInv, RolloutAlone, HeldByOther

LEMMA AdmissionGates ==
    ASSUME TypeOK, TypeOK', GateInv, NEW o \in Objective,
           \/ RecordDeadline(o) \/ CheckAuthority(o) \/ RecordRefusal(o)
           \/ CheckGate(o) \/ DeferAdmission(o) \/ DeferSafePoint(o)
    PROVE  GateInv'
<1> USE DEF ledger, world, outside
<1>1. ASSUME NEW receipt, NEW wait \in Waits \ {"unknown"}, AskDecision(o, receipt, wait)
      PROVE  GateInv'
  <2>1. dispatch' = dispatch /\ busy' = busy /\ turn'.step # "draining"
    BY <1>1 DEF AskDecision, Idle
  <2>2. Eased(o) /\ \A p \in Objective \ {o} : row'[p] = row[p]
    BY <1>1, <2>1, DecisionIsEased DEF AskDecision
  <2>3. QED
    BY <2>1, <2>2, EasedTurn
<1>2. CASE RecordDeadline(o)
  BY <1>1, <1>2 DEF RecordDeadline, Waits
<1>3. CASE CheckAuthority(o)
  <2>1. UNCHANGED <<row, dispatch, busy>>
    BY <1>3 DEF CheckAuthority
  <2>2. turn \in Turns
    BY DEF TypeOK
  <2>3. turn'.step # "draining"
    BY <1>3, <2>2 DEF CheckAuthority, GoTo, Turns
  <2>4. QED
    BY <2>1, <2>3, SameIsQuiet, QuietKeepsGates
<1>4. CASE RecordRefusal(o)
  <2>1. CASE dispatch[o].state = "started"
    <3>1. /\ Settle(o, "unknown") /\ NeedsDecision(o, "unknown") /\ Fence(o)
          /\ busy' = busy /\ turn' = Idle
      BY <1>4, <2>1 DEF RecordRefusal
    <3>2. dispatch'[o].state = "settled" /\ \A p \in Objective \ {o} : dispatch'[p] = dispatch[p]
      BY <3>1 DEF Settle, TypeOK, Dispatches
    <3>3. Eased(o) /\ \A p \in Objective \ {o} : row'[p] = row[p]
      BY <2>1, <3>1, <3>2, DecisionIsEased DEF Waits
    <3>4. QED
      BY <3>1, <3>2, <3>3, EasedTurn DEF Idle
  <2>2. CASE dispatch[o].state # "started"
    BY <1>1, <1>4, <2>2 DEF RecordRefusal, Waits
  <2>3. QED
    BY <2>1, <2>2
<1>5. CASE CheckGate(o)
  <2>1. /\ row' = row /\ dispatch' = dispatch /\ busy' = busy
        /\ turn.o = o /\ turn' = [turn EXCEPT !.step =
             IF HeldByOther(o) THEN "held" ELSE IF busy THEN "draining" ELSE "admitted"]
    BY <1>5 DEF CheckGate, At, GoTo
  <2>2. turn \in Turns
    BY DEF TypeOK
  <2>3. turn'.o = o /\ (turn'.step = "draining" => ~HeldByOther(o))
    BY <2>1, <2>2 DEF Turns
  <2>4. \A p \in Objective : Gate(p)' = Gate(p) /\ Kind(p)' = Kind(p)
    BY <2>1 DEF Gate, Kind
  <2>5. turn'.step = "draining" => \A p \in Objective \ {turn'.o} : ~Gate(p)'
    BY <2>3, <2>4, GateIsAlone
  <2>6. QED
    BY <2>1, <2>4, <2>5 DEF GateInv, RolloutAlone
<1>6. CASE DeferAdmission(o)
  <2>1. Eased(o) /\ \A p \in Objective \ {o} : row'[p] = row[p]
    BY <1>6, WaitingIsEased DEF DeferAdmission
  <2>2. QED
    BY <1>6, <2>1, EasedTurn DEF DeferAdmission, Idle
<1>7. CASE DeferSafePoint(o)
  <2> DEFINE r == [Released(row[o]) EXCEPT !.state = "waiting", !.wait = "draining", !.safe = TRUE]
  <2>1. r.stage = row[o].stage /\ r.state = "waiting" /\ row[o].state = "active"
    BY <1>7, RowType DEF DeferSafePoint, Fence, Released, Rows
  <2>2. row'[o] = r /\ \A p \in Objective \ {o} : row'[p] = row[p]
    BY <1>7 DEF DeferSafePoint, TypeOK
  <2> HIDE DEF r
  <2>3. dispatch' = dispatch /\ busy' = busy /\ turn'.step # "draining"
    BY <1>7 DEF DeferSafePoint, Idle
  <2>4. \A p \in Objective \ {o} : ~Gate(p)
    BY <1>7 DEF DeferSafePoint, At, GateInv
  <2>5. \A p \in Objective \ {o} : ~Gate(p)'
    BY <2>2, <2>3, <2>4 DEF Gate, Kind
  <2>6. ASSUME NEW p \in Objective
        PROVE  /\ Kind(p)' = Kind(p)
               /\ row'[p].state = "complete" <=> row[p].state = "complete"
    BY <2>1, <2>2 DEF Kind
  <2>7. QED
    BY <2>3, <2>5, <2>6 DEF GateInv, RolloutAlone
<1>8. QED
  BY <1>2, <1>3, <1>4, <1>5, <1>6, <1>7

\* The durable intent of a deployment is written only when the gate and the workers
\* let it.
LEMMA DispatchGates ==
    ASSUME TypeOK, TypeOK', GateInv, NEW o \in Objective, BeginStageDispatch(o)
    PROVE  GateInv'
<1>1. turn'.step # "draining" /\ busy' = busy
  <2>1. turn \in Turns
    BY DEF TypeOK
  <2>2. QED
    BY <2>1 DEF BeginStageDispatch, GoTo, Turns, world
<1>2. CASE Blocked(o)
  <2>1. row' = row /\ dispatch' = dispatch
    BY <1>2 DEF BeginStageDispatch
  <2>2. QED
    BY <1>1, <2>1, SameIsQuiet, QuietKeepsGates
<1>3. CASE ~Blocked(o)
  <2>1. dispatch' = [dispatch EXCEPT ![o].state = IF @ = "none" THEN "started" ELSE @]
    BY <1>3, Zenon DEF BeginStageDispatch
  <2>2. row' = [row EXCEPT ![o].safe = @ /\ dispatch[o].state # "none"]
    BY <1>3, Zenon DEF BeginStageDispatch
  <2>3. /\ row'[o].stage = row[o].stage /\ row'[o].attempt = row[o].attempt
        /\ row'[o].state = row[o].state /\ row'[o].wait = row[o].wait
        /\ \A p \in Objective \ {o} : row'[p] = row[p]
    BY <2>2, RowType DEF TypeOK, Rows
  <2>4. /\ \A p \in Objective \ {o} : dispatch'[p] = dispatch[p]
        /\ dispatch[o].state # "none" => dispatch'[o].state = dispatch[o].state
        /\ dispatch[o].state = "none" => dispatch'[o].state = "started"
    BY <2>1 DEF TypeOK, Dispatches
  <2>5. row[o].state = "active"
    BY DEF BeginStageDispatch, Fence
  <2>6. \A p \in Objective \ {o} : Gate(p)' = Gate(p)
    BY <2>3, <2>4 DEF Gate, Kind
  <2>7. \A p \in Objective : Kind(p)' = Kind(p)
    BY <2>3 DEF Kind
  <2>8. CASE Kind(o) = "deploy"
    <3>1. ~HeldByOther(o) /\ ~busy
      BY <1>3, <2>8 DEF Blocked
    <3>2. \A p \in Objective \ {o} : ~Gate(p)'
      BY <2>6, <3>1, GateIsAlone
    <3>3. QED
      BY <1>1, <2>3, <2>4, <2>5, <2>7, <3>1, <3>2 DEF GateInv, RolloutAlone
  <2>9. CASE Kind(o) # "deploy"
    <3>1. Gate(o)' = Gate(o)
      BY <2>3, <2>7, <2>9 DEF Gate
    <3>2. QED
      BY <1>1, <2>3, <2>4, <2>5, <2>6, <2>7, <2>9, <3>1 DEF GateInv, RolloutAlone
  <2>10. QED
    BY <2>8, <2>9
<1>4. QED
  BY <1>2, <1>3

LEMMA EffectGates ==
    ASSUME TypeOK, TypeOK', GateInv, NEW o \in Objective,
           \/ InvokeAdapter(o) \/ BeginStageRollback(o) \/ RollBack(o) \/ SettleStageRollback(o)
           \/ AbandonTurn(o)
    PROVE  GateInv'
<1> USE DEF ledger, world, outside
<1>1. row' = row /\ busy' = busy
  BY DEF InvokeAdapter, BeginStageRollback, RollBack, SettleStageRollback, AbandonTurn
<1>2. turn'.step # "draining"
  <2>1. turn \in Turns
    BY DEF TypeOK
  <2>2. CASE InvokeAdapter(o)
    <3>1. PICK answer \in Answers(o) :
            turn' = [turn EXCEPT !.outcome = answer,
                       !.step = IF answer = "failed" /\ Kind(o) = "deploy" /\ o \in Reversible
                                THEN "failed" ELSE "recording"]
      BY <2>2, Zenon DEF InvokeAdapter
    <3>2. QED
      BY <2>1, <3>1 DEF Turns
  <2>3. CASE BeginStageRollback(o)
    BY <2>1, <2>3 DEF BeginStageRollback, Turns
  <2>4. CASE RollBack(o)
    BY <2>1, <2>4 DEF RollBack, GoTo, Turns
  <2>5. CASE SettleStageRollback(o)
    BY <2>1, <2>5 DEF SettleStageRollback, GoTo, Turns
  <2>6. CASE AbandonTurn(o)
    BY <2>6 DEF AbandonTurn, Idle
  <2>7. QED
    BY <2>2, <2>3, <2>4, <2>5, <2>6
<1>3. \A p \in Objective : dispatch'[p].state = dispatch[p].state
  <2>1. dispatch \in [Objective -> Dispatches]
    BY DEF TypeOK
  <2>2. CASE InvokeAdapter(o) \/ RollBack(o) \/ AbandonTurn(o)
    <3>1. dispatch' = dispatch
      BY <2>2 DEF InvokeAdapter, RollBack, AbandonTurn
    <3>2. QED
      BY <3>1
  <2>3. CASE BeginStageRollback(o)
    BY <2>1, <2>3 DEF BeginStageRollback, Dispatches
  <2>4. CASE SettleStageRollback(o)
    BY <2>1, <2>4 DEF SettleStageRollback, Dispatches
  <2>5. QED
    BY <2>2, <2>3, <2>4
<1>4. ASSUME NEW p \in Objective
      PROVE  Quiet(p)
  BY <1>1, <1>3 DEF Quiet, Gate, Kind
<1>5. QED
  BY <1>1, <1>2, <1>4, QuietKeepsGates

LEMMA FreshDispatch ==
    ASSUME TypeOK, NEW o \in Objective, StartAfresh(o)
    PROVE  /\ dispatch'[o].state = "none" /\ dispatch'[o].unknown = FALSE
           /\ dispatch'[o].rollback = "none" /\ effect'[o] = NoEffect
           /\ \A p \in Objective \ {o} : dispatch'[p] = dispatch[p] /\ effect'[p] = effect[p]
  BY DEF StartAfresh, TypeOK, NoDispatch

LEMMA ReceiptGates ==
    ASSUME TypeOK, TypeOK', GateInv, NEW o \in Objective,
           RecordRetry(o) \/ RecordFailure(o) \/ DeferObservation(o)
    PROVE  GateInv'
<1>1. /\ Fence(o) /\ dispatch[o].state = "started"
      /\ turn'.step # "draining" /\ busy' = busy
  BY DEF RecordRetry, RecordFailure, DeferObservation, Answered, Idle, world
<1>2. CASE RecordRetry(o)
  <2> DEFINE r == [Released(row[o]) EXCEPT
                     !.state = "waiting", !.wait = "other", !.safe = FALSE,
                     !.attempt = row[o].attempt + 1, !.used = Spent(row[o].used)]
  <2>1. /\ r.stage = row[o].stage /\ r.state = "waiting" /\ r.wait = "other" /\ r.safe = FALSE
    BY RowType DEF Released, Rows
  <2>2. row' = [row EXCEPT ![o] = r]
    BY <1>2, Zenon DEF RecordRetry
  <2>3. row'[o] = r /\ \A p \in Objective \ {o} : row'[p] = row[p]
    BY <2>2 DEF TypeOK
  <2> HIDE DEF r
  <2>4. /\ dispatch'[o].state = "none"
        /\ \A p \in Objective \ {o} : dispatch'[p] = dispatch[p]
    BY <1>2, FreshDispatch DEF RecordRetry
  <2>5. Gate(o)' => Gate(o)
    BY <2>1, <2>3, <2>4, <1>1 DEF Gate, Kind, Fence
  <2>6. ASSUME NEW p \in Objective
        PROVE  Quiet(p)
    BY <1>1, <2>1, <2>3, <2>4, <2>5, SameIsQuiet DEF Quiet, Fence
  <2>7. QED
    BY <1>1, <2>6, QuietKeepsGates
<1>3. CASE RecordFailure(o)
  <2>1. PICK wait \in Waits : NeedsDecision(o, wait)
    BY <1>3 DEF RecordFailure, Waits
  <2>2. dispatch'[o].state = "settled" /\ \A p \in Objective \ {o} : dispatch'[p] = dispatch[p]
    BY <1>3 DEF RecordFailure, Settle, TypeOK, Dispatches
  <2>3. Eased(o) /\ \A p \in Objective \ {o} : row'[p] = row[p]
    BY <1>1, <2>1, <2>2, DecisionIsEased
  <2>4. QED
    BY <1>1, <2>2, <2>3, EasedTurn
<1>4. CASE DeferObservation(o)
  <2>1. dispatch' = dispatch
    BY <1>4 DEF DeferObservation
  <2>2. Eased(o) /\ \A p \in Objective \ {o} : row'[p] = row[p]
    BY <1>1, <1>4, <2>1, WaitingIsEased DEF DeferObservation
  <2>3. QED
    BY <1>1, <2>1, <2>2, EasedTurn
<1>5. QED
  BY <1>2, <1>3, <1>4

\* A deployment that succeeds hands its gate on to the live verification.
LEMMA SuccessGates ==
    ASSUME TypeOK, TypeOK', GateInv, NEW o \in Objective, RecordSuccess(o)
    PROVE  GateInv'
<1>1. /\ Fence(o) /\ dispatch[o].state = "started"
      /\ turn'.step # "draining" /\ busy' = busy
  BY DEF RecordSuccess, Answered, Idle, world
<1>2. row[o].state = "active"
  BY <1>1 DEF Fence
<1>3. CASE LastStage(o)
  <2> DEFINE r == [Released(row[o]) EXCEPT !.state = "complete", !.safe = FALSE]
  <2>1. r.stage = row[o].stage /\ r.state = "complete"
    BY RowType DEF Released, Rows
  <2>2. row'[o] = r /\ \A p \in Objective \ {o} : row'[p] = row[p]
    BY <1>3 DEF RecordSuccess, TypeOK
  <2> HIDE DEF r
  <2>3. dispatch'[o].state = "settled" /\ \A p \in Objective \ {o} : dispatch'[p] = dispatch[p]
    BY <1>3 DEF RecordSuccess, Settle, TypeOK, Dispatches
  <2>4. ~Gate(o)' /\ \A p \in Objective \ {o} : Gate(p)' = Gate(p)
    BY <2>1, <2>2, <2>3 DEF Gate, Kind
  <2>5. \A p \in Objective : Kind(p)' = Kind(p)
    BY <2>1, <2>2 DEF Kind
  <2>6. QED
    BY <1>1, <2>1, <2>2, <2>3, <2>4, <2>5 DEF GateInv, RolloutAlone
<1>4. CASE ~LastStage(o)
  <2> DEFINE r == [row[o] EXCEPT !.stage = row[o].stage + 1, !.attempt = 1, !.safe = FALSE]
  <2>1. /\ r.stage = row[o].stage + 1 /\ r.attempt = 1 /\ r.safe = FALSE
        /\ r.state = "active"
    BY <1>2, RowType DEF Rows
  <2>2. row'[o] = r /\ \A p \in Objective \ {o} : row'[p] = row[p]
    BY <1>4 DEF RecordSuccess, TypeOK
  <2> HIDE DEF r
  <2>3. /\ dispatch'[o].state = "none"
        /\ \A p \in Objective \ {o} : dispatch'[p] = dispatch[p]
    BY <1>4, FreshDispatch DEF RecordSuccess
  <2>4. \A p \in Objective \ {o} : Gate(p)' = Gate(p) /\ Kind(p)' = Kind(p)
    BY <2>2, <2>3 DEF Gate, Kind
  <2>5. row[o].stage + 1 \in 1..Len(Required[o]) /\ Kind(o)' = Required[o][row[o].stage + 1]
    BY <1>4, <2>1, <2>2, RowType, StageType DEF LastStage, Kind
  <2>6. CASE Kind(o)' = "live-verify"
    <3>1. Required[o][(row[o].stage + 1) - 1] = "deploy"
      BY <2>5, <2>6, RequiredAssumption
    <3>2. Kind(o) = "deploy"
      BY <3>1, RowType DEF Kind
    <3>3. Gate(o) /\ ~busy
      BY <1>1, <1>2, <3>2 DEF Gate, GateInv, RolloutAlone
    <3>4. \A p \in Objective \ {o} : ~Gate(p)'
      BY <2>4, <3>3 DEF GateInv, RolloutAlone
    <3>5. QED
      BY <1>1, <2>1, <2>2, <2>3, <2>4, <3>3, <3>4 DEF GateInv, RolloutAlone
  <2>7. CASE Kind(o)' # "live-verify"
    <3>1. ~Gate(o)'
      BY <2>1, <2>2, <2>3, <2>7 DEF Gate
    <3>2. QED
      BY <1>1, <2>1, <2>2, <2>3, <2>4, <2>7, <3>1 DEF GateInv, RolloutAlone
  <2>8. QED
    BY <2>6, <2>7
<1>5. QED
  BY <1>3, <1>4

LEMMA StepGates == TypeOK /\ TypeOK' /\ GateInv /\ [Next]_vars => GateInv'
<1> SUFFICES ASSUME TypeOK, TypeOK', GateInv, [Next]_vars
             PROVE  GateInv'
  OBVIOUS
<1>1. ASSUME NEW o \in Objective, Turn(o)
      PROVE  GateInv'
  BY <1>1, AdmissionGates, DispatchGates, EffectGates, SuccessGates, ReceiptGates DEF Turn
<1>2. CASE UNCHANGED vars
  BY <1>2, SameIsQuiet, QuietKeepsGates DEF vars, ledger, world
<1>3. QED
  BY <1>1, <1>2, SurroundingsGates, OperatorGates, TimeAndHelperGates, ClaimGates DEF Next

\* Whatever the number of objectives: one rollout holds the gate, and no worker and no
\* planner runs from its dispatch to the end of its live verification.
THEOREM RolloutsAreAlone == Spec => []RolloutAlone
<1>1. GateInv => RolloutAlone
  BY DEF GateInv
<1>2. QED
  BY <1>1, InitGates, StepGates, DeliveryTypeCorrect, PTL DEF Spec

-----------------------------------------------------------------------------
(* The effect of an attempt is asked for once.                              *)

\* What was asked for has a dispatch or a rollback that says so, only a settled dispatch is
\* unknown, the attempts of a stage were paid for, and the turn that is about to act is the
\* first to do so.
EffectInv ==
    /\ \A o \in Objective :
          /\ effect[o].ran = 0 \/ dispatch[o].state # "none"
          /\ effect[o].undone = 0 \/ dispatch[o].rollback # "none"
          /\ dispatch[o].unknown => dispatch[o].state = "settled"
          /\ row[o].attempt <= row[o].used + 1
    /\ turn.step = "invoking" /\ turn.new =>
          dispatch[turn.o].state = "started" /\ effect[turn.o].ran = 0
    /\ turn.step = "undoing" =>
          dispatch[turn.o].rollback # "none" /\ effect[turn.o].undone = 0

EffectStep == EffectInv' /\ [Effects!Next]_(Effects!vars)

\* Where an objective stands is as it was, and as much of its budget is used, or more.
Stands(o) ==
    /\ row'[o].stage = row[o].stage /\ row'[o].attempt = row[o].attempt
    /\ row'[o].used >= row[o].used

Untouched(o) == Stands(o) /\ dispatch'[o] = dispatch[o] /\ effect'[o] = effect[o]

\* The turn does not come to a step that acts.
Looks == turn'.step \in {"invoking", "undoing"} => turn' = turn

LEMMA EffectFields ==
    ASSUME TypeOK, NEW o \in Objective
    PROVE  /\ dispatch[o] \in Dispatches /\ effect[o] \in [ran : Nat, undone : Nat]
           /\ effect[o].ran \in Nat /\ effect[o].undone \in Nat
           /\ dispatch[o].unknown \in BOOLEAN
           /\ dispatch[o].state \in {"none", "started", "settled"}
           /\ dispatch[o].rollback \in {"none", "started", "settled"}
  BY DEF TypeOK, Dispatches

LEMMA SameStands ==
    ASSUME TypeOK, NEW o \in Objective, row'[o].stage = row[o].stage,
           row'[o].attempt = row[o].attempt, row'[o].used = row[o].used
    PROVE  Stands(o)
  BY RowType DEF Stands

LEMMA UntouchedEffects ==
    ASSUME TypeOK, TypeOK', EffectInv, \A o \in Objective : Untouched(o), Looks
    PROVE  EffectStep
<1>1. ASSUME NEW o \in Objective
      PROVE  row'[o].attempt <= row'[o].used + 1
  <2>1. row[o].attempt \in Nat /\ row[o].used \in Nat /\ row'[o].used \in Nat
    BY RowType DEF TypeOK, Rows
  <2>2. QED
    BY <2>1 DEF Untouched, Stands, EffectInv
<1>2. /\ turn'.step \in {"invoking", "undoing"} => turn'.o \in Objective
  BY DEF TypeOK, Idle
<1>3. EffectInv'
  BY <1>1, <1>2 DEF EffectInv, Untouched, Looks
<1>4. UNCHANGED Effects!vars
  BY DEF Effects!vars, Untouched, Stands
<1>5. QED
  BY <1>3, <1>4 DEF EffectStep

LEMMA SurroundingEffects ==
    ASSUME TypeOK, TypeOK', EffectInv,
           \/ Stop \/ ActivateCoordinator \/ ClaimWork \/ FinishWork \/ ReconcileSafePointWaits
           \/ \E o \in Objective : \/ LeaseExpires(o) \/ DueTimePasses(o) \/ HelperStep(o)
                                   \/ ClaimDeliveryObjective(o)
    PROVE  EffectStep
<1> USE DEF ledger, world, outside
<1>1. dispatch' = dispatch /\ effect' = effect
  BY DEF Stop, ActivateCoordinator, ClaimWork, FinishWork, ReconcileSafePointWaits, LeaseExpires,
         DueTimePasses, HelperStep, HelperStarts, HelperSucceeds, HelperFails, HelperDies, Helper,
         ClaimDeliveryObjective
<1>2. Looks
  <2>1. ASSUME NEW o \in Objective, ClaimDeliveryObjective(o)
        PROVE  Looks
    BY <2>1 DEF ClaimDeliveryObjective, Idle, Looks
  <2>2. CASE Stop
    BY <2>2 DEF Stop, Idle, Looks
  <2>3. turn' = turn => Looks
    BY DEF Looks
  <2>4. QED
    BY <2>1, <2>2, <2>3
       DEF ActivateCoordinator, ClaimWork, FinishWork, ReconcileSafePointWaits, LeaseExpires,
           DueTimePasses, HelperStep, HelperStarts, HelperSucceeds, HelperFails, HelperDies, Helper
<1>3. ASSUME NEW o \in Objective
      PROVE  Stands(o)
  <2>1. CASE ActivateCoordinator \/ ReconcileSafePointWaits
    <3>1. row'[o] = Woken(row[o]) \/ row'[o] = [row[o] EXCEPT !.owner = Aged(row[o].owner)]
      BY <2>1 DEF ActivateCoordinator, ReconcileSafePointWaits
    <3>2. /\ row'[o].stage = row[o].stage /\ row'[o].attempt = row[o].attempt
          /\ row'[o].used = row[o].used
      BY <3>1, RowType DEF Woken, Rows
    <3>3. QED
      BY <3>2, SameStands
  <2>2. CASE Stop \/ ClaimWork \/ FinishWork
    BY <2>2, SameStands DEF Stop, ClaimWork, FinishWork
  <2>3. ASSUME NEW p \in Objective, LeaseExpires(p)
        PROVE  Stands(o)
    <3>1. row'[o] = row[o] \/ row'[o] = [row[o] EXCEPT !.live = FALSE]
      BY <2>3 DEF LeaseExpires, TypeOK
    <3>2. /\ row'[o].stage = row[o].stage /\ row'[o].attempt = row[o].attempt
          /\ row'[o].used = row[o].used
      BY <3>1, RowType DEF Rows
    <3>3. QED
      BY <3>2, SameStands
  <2>4. ASSUME NEW p \in Objective, DueTimePasses(p) \/ HelperStep(p)
        PROVE  Stands(o)
    <3>1. row' = row
      BY <2>4 DEF DueTimePasses, HelperStep, HelperStarts, HelperSucceeds, HelperFails,
                  HelperDies, Helper
    <3>2. QED
      BY <3>1, SameStands
  <2>5. ASSUME NEW p \in Objective, ClaimDeliveryObjective(p)
        PROVE  Stands(o)
    <3>1. row'[o] = Woken(row[o]) \/ row'[o] = Claimed(Woken(row[o]))
      BY <2>5 DEF ClaimDeliveryObjective
    <3>2. /\ row'[o].stage = row[o].stage /\ row'[o].attempt = row[o].attempt
          /\ row'[o].used = row[o].used
      BY <3>1, RowType DEF Woken, Claimed, Rows
    <3>3. QED
      BY <3>2, SameStands
  <2>6. QED
    BY <2>1, <2>2, <2>3, <2>4, <2>5
<1>4. QED
  BY <1>1, <1>2, <1>3, UntouchedEffects DEF Untouched

LEMMA OperatorEffects ==
    ASSUME TypeOK, TypeOK', EffectInv, NEW o \in Objective, Operator(o)
    PROVE  EffectStep
<1>1. /\ UNCHANGED <<dispatch, effect, turn>>
  BY DEF Operator, Grant, Deny, AuthorizationExpires, ledger, outside
<1>2. ASSUME NEW p \in Objective
      PROVE  Stands(p)
  <2>1. PICK s \in Scopes : Grant(o, s) \/ Deny(o, s) \/ AuthorizationExpires(o, s)
    BY DEF Operator
  <2>2. CASE Grant(o, s)
    <3>1. \/ row'[p] = row[p]
          \/ row'[p] = [row[p] EXCEPT !.state = "active", !.wait = "none", !.safe = FALSE]
      BY <2>2 DEF Grant, TypeOK
    <3>2. /\ row'[p].stage = row[p].stage /\ row'[p].attempt = row[p].attempt
          /\ row'[p].used = row[p].used
      BY <3>1, RowType DEF Rows
    <3>3. QED
      BY <3>2, SameStands
  <2>3. CASE Deny(o, s)
    <3>1. \/ row'[p] = row[p]
          \/ row'[p] = [Released(row[p]) EXCEPT !.state = "needs_decision",
                                               !.wait = "permission", !.safe = FALSE]
      BY <2>3 DEF Deny, TypeOK
    <3>2. /\ row'[p].stage = row[p].stage /\ row'[p].attempt = row[p].attempt
          /\ row'[p].used = row[p].used
      BY <3>1, RowType DEF Released, Rows
    <3>3. QED
      BY <3>2, SameStands
  <2>4. CASE AuthorizationExpires(o, s)
    BY <2>4, SameStands DEF AuthorizationExpires, ledger
  <2>5. QED
    BY <2>1, <2>2, <2>3, <2>4
<1>3. QED
  BY <1>1, <1>2, UntouchedEffects DEF Untouched, Looks

LEMMA SpentMore ==
    ASSUME NEW n \in Nat
    PROVE  Spent(n) \in Nat /\ Spent(n) >= n
  BY DEF Spent

LEMMA DecisionStands ==
    ASSUME TypeOK, NEW o \in Objective, NEW wait, NeedsDecision(o, wait)
    PROVE  \A p \in Objective : Stands(p)
<1> DEFINE r == [Released(row[o]) EXCEPT !.state = "needs_decision", !.wait = wait,
                                         !.safe = FALSE, !.used = Spent(row[o].used)]
<1>1. row' = [row EXCEPT ![o] = r]
  BY DEF NeedsDecision
<1>2. r.stage = row[o].stage /\ r.attempt = row[o].attempt /\ r.used >= row[o].used
  BY RowType, SpentMore DEF Released, Rows
<1>3. row'[o] = r /\ \A p \in Objective \ {o} : row'[p] = row[p]
  BY <1>1 DEF TypeOK
<1> HIDE DEF r
<1>4. QED
  BY <1>2, <1>3, RowType DEF Stands

LEMMA WaitingStands ==
    ASSUME TypeOK, NEW o \in Objective, NEW wait, NEW b,
           row' = [row EXCEPT ![o] = [Released(@) EXCEPT
                     !.state = "waiting", !.wait = wait, !.safe = b]]
    PROVE  \A p \in Objective : Stands(p)
<1> DEFINE r == [Released(row[o]) EXCEPT !.state = "waiting", !.wait = wait, !.safe = b]
<1>1. r.stage = row[o].stage /\ r.attempt = row[o].attempt /\ r.used = row[o].used
  BY RowType DEF Released, Rows
<1>2. row'[o] = r /\ \A p \in Objective \ {o} : row'[p] = row[p]
  BY DEF TypeOK
<1> HIDE DEF r
<1>3. QED
  BY <1>1, <1>2, SameStands

LEMMA AdmissionEffects ==
    ASSUME TypeOK, TypeOK', EffectInv, NEW o \in Objective,
           \/ RecordDeadline(o) \/ CheckAuthority(o)
           \/ (RecordRefusal(o) /\ dispatch[o].state # "started")
           \/ CheckGate(o) \/ DeferAdmission(o) \/ DeferSafePoint(o)
           \/ DeferObservation(o) \/ AbandonTurn(o)
    PROVE  EffectStep
<1> USE DEF ledger, world, outside
<1>1. CASE RecordDeadline(o) \/ (RecordRefusal(o) /\ dispatch[o].state # "started")
  <2>1. PICK receipt, wait : AskDecision(o, receipt, wait)
    BY <1>1 DEF RecordDeadline, RecordRefusal
  <2>2. /\ NeedsDecision(o, wait) /\ dispatch' = dispatch /\ effect' = effect
        /\ turn' = Idle
    BY <2>1 DEF AskDecision
  <2>3. Looks
    BY <2>2 DEF Looks, Idle
  <2>4. QED
    BY <2>2, <2>3, DecisionStands, UntouchedEffects DEF Untouched
<1>2. CASE CheckAuthority(o) \/ CheckGate(o) \/ AbandonTurn(o)
  <2>1. UNCHANGED <<row, dispatch, effect>>
    BY <1>2 DEF CheckAuthority, CheckGate, AbandonTurn
  <2>2. turn \in Turns
    BY DEF TypeOK
  <2>3. Looks
    BY <1>2, <2>2 DEF CheckAuthority, CheckGate, AbandonTurn, GoTo, Turns, Idle, Looks
  <2>4. QED
    BY <2>1, <2>3, SameStands, UntouchedEffects DEF Untouched
<1>3. CASE DeferAdmission(o) \/ DeferObservation(o) \/ DeferSafePoint(o)
  <2>1. /\ UNCHANGED <<dispatch, effect>> /\ turn' = Idle
        /\ \E wait, b : row' = [row EXCEPT ![o] = [Released(@) EXCEPT
                                   !.state = "waiting", !.wait = wait, !.safe = b]]
    BY <1>3 DEF DeferAdmission, DeferObservation, DeferSafePoint, Answered
  <2>2. \A p \in Objective : Stands(p)
    BY <2>1, WaitingStands
  <2>3. QED
    BY <2>1, <2>2, UntouchedEffects DEF Untouched, Looks, Idle
<1>4. QED
  BY <1>1, <1>2, <1>3

\* Only the row and the dispatch of o may change, and in a way that the register of
\* effects does not see.
LEMMA HiddenEffects ==
    ASSUME TypeOK, TypeOK', EffectInv, NEW o \in Objective, effect' = effect,
           \A p \in Objective : Stands(p),
           \A p \in Objective \ {o} : dispatch'[p] = dispatch[p],
           dispatch'[o].unknown = dispatch[o].unknown,
           dispatch'[o].unknown => dispatch'[o].state = "settled",
           dispatch[o].state # "none" => dispatch'[o].state # "none",
           dispatch[o].rollback # "none" => dispatch'[o].rollback # "none",
           turn'.o = o \/ turn' = Idle,
           turn'.step = "invoking" /\ turn'.new =>
              dispatch[o].state = "none" /\ dispatch'[o].state = "started",
           turn'.step = "undoing" =>
              dispatch[o].rollback = "none" /\ dispatch'[o].rollback # "none"
    PROVE  EffectStep
<1>1. ASSUME NEW p \in Objective
      PROVE  /\ effect'[p].ran = 0 \/ dispatch'[p].state # "none"
             /\ effect'[p].undone = 0 \/ dispatch'[p].rollback # "none"
             /\ dispatch'[p].unknown => dispatch'[p].state = "settled"
  BY DEF EffectInv
<1>2. ASSUME NEW p \in Objective
      PROVE  row'[p].attempt <= row'[p].used + 1
  <2>1. row[p].attempt \in Nat /\ row[p].used \in Nat /\ row'[p].used \in Nat
    BY RowType DEF TypeOK, Rows
  <2>2. QED
    BY <2>1 DEF Stands, EffectInv
<1>3. /\ turn'.step = "invoking" /\ turn'.new =>
            dispatch'[turn'.o].state = "started" /\ effect'[turn'.o].ran = 0
      /\ turn'.step = "undoing" =>
            dispatch'[turn'.o].rollback # "none" /\ effect'[turn'.o].undone = 0
  BY DEF EffectInv, Idle
<1>4. EffectInv'
  BY <1>1, <1>2, <1>3 DEF EffectInv
<1>5. UNCHANGED Effects!vars
  <2>1. \A p \in Objective : dispatch'[p].unknown = dispatch[p].unknown
    OBVIOUS
  <2>2. QED
    BY <2>1 DEF Effects!vars, Stands
<1>6. QED
  BY <1>4, <1>5 DEF EffectStep

LEMMA DispatchEffects ==
    ASSUME TypeOK, TypeOK', EffectInv, NEW o \in Objective,
           BeginStageDispatch(o) \/ BeginStageRollback(o) \/ SettleStageRollback(o)
    PROVE  EffectStep
<1> USE DEF ledger, world, outside
<1>1. /\ turn \in Turns /\ turn.o = o /\ dispatch \in [Objective -> Dispatches]
      /\ effect' = effect
  BY DEF BeginStageDispatch, BeginStageRollback, SettleStageRollback, At, TypeOK
<1>2. CASE BeginStageDispatch(o) /\ Blocked(o)
  <2>1. UNCHANGED <<row, dispatch>> /\ turn' = [turn EXCEPT !.step = "held"]
    BY <1>2 DEF BeginStageDispatch, GoTo
  <2>2. Looks
    BY <1>1, <2>1 DEF Turns, Looks
  <2>3. QED
    BY <1>1, <2>1, <2>2, SameStands, UntouchedEffects DEF Untouched
<1>3. CASE BeginStageDispatch(o) /\ ~Blocked(o)
  <2>1. dispatch' = [dispatch EXCEPT ![o].state = IF @ = "none" THEN "started" ELSE @]
    BY <1>3, Zenon DEF BeginStageDispatch
  <2>2. row' = [row EXCEPT ![o].safe = @ /\ dispatch[o].state # "none"]
    BY <1>3, Zenon DEF BeginStageDispatch
  <2>3. turn' = [turn EXCEPT !.step = "invoking", !.new = IsNew(o)]
    BY <1>3, Zenon DEF BeginStageDispatch
  <2>4. /\ row'[o].stage = row[o].stage /\ row'[o].attempt = row[o].attempt
        /\ row'[o].used = row[o].used
        /\ \A p \in Objective \ {o} : row'[p] = row[p]
    BY <2>2, RowType DEF TypeOK, Rows
  <2>5. \A p \in Objective : Stands(p)
    BY <2>4, SameStands
  <2>6. /\ \A p \in Objective \ {o} : dispatch'[p] = dispatch[p]
        /\ dispatch'[o].unknown = dispatch[o].unknown
        /\ dispatch'[o].rollback = dispatch[o].rollback
        /\ dispatch[o].state # "none" => dispatch'[o].state = dispatch[o].state
        /\ dispatch[o].state = "none" => dispatch'[o].state = "started"
    BY <1>1, <2>1 DEF Dispatches
  <2>7. turn'.o = o /\ turn'.step = "invoking" /\ turn'.new = IsNew(o)
    BY <1>1, <2>3 DEF Turns
  <2>8. dispatch[o].unknown => dispatch[o].state = "settled"
    BY DEF EffectInv
  <2>9. QED
    BY <1>1, <2>5, <2>6, <2>7, <2>8, HiddenEffects DEF IsNew
<1>4. CASE BeginStageRollback(o)
  <2>1. dispatch' = [dispatch EXCEPT ![o].rollback = IF @ = "none" THEN "started" ELSE @]
    BY <1>4, Zenon DEF BeginStageRollback
  <2>2. /\ \A p \in Objective \ {o} : dispatch'[p] = dispatch[p]
        /\ dispatch'[o].unknown = dispatch[o].unknown
        /\ dispatch'[o].state = dispatch[o].state
        /\ dispatch'[o].rollback # "none"
    BY <1>1, <2>1 DEF Dispatches
  <2>3. \A p \in Objective : Stands(p)
    BY <1>4, SameStands DEF BeginStageRollback
  <2>4. CASE dispatch[o].rollback = "none"
    <3>1. turn' = [turn EXCEPT !.step = "undoing"]
      BY <1>4, <2>4 DEF BeginStageRollback
    <3>2. turn'.o = o /\ turn'.step = "undoing"
      BY <1>1, <3>1 DEF Turns
    <3>3. dispatch[o].unknown => dispatch[o].state = "settled"
      BY DEF EffectInv
    <3>4. QED
      BY <1>1, <2>2, <2>3, <2>4, <3>2, <3>3, HiddenEffects
  <2>5. CASE dispatch[o].rollback # "none"
    <3>1. turn'.o = o /\ turn'.step = "recording"
      BY <1>1, <1>4, <2>5 DEF BeginStageRollback, Turns
    <3>2. dispatch[o].unknown => dispatch[o].state = "settled"
      BY DEF EffectInv
    <3>3. QED
      BY <1>1, <2>2, <2>3, <3>1, <3>2, HiddenEffects
  <2>6. QED
    BY <2>4, <2>5
<1>5. CASE SettleStageRollback(o)
  <2>1. /\ \A p \in Objective \ {o} : dispatch'[p] = dispatch[p]
        /\ dispatch'[o].unknown = dispatch[o].unknown
        /\ dispatch'[o].state = dispatch[o].state
        /\ dispatch'[o].rollback = "settled"
    BY <1>1, <1>5 DEF SettleStageRollback, Dispatches
  <2>2. \A p \in Objective : Stands(p)
    BY <1>5, SameStands DEF SettleStageRollback
  <2>3. turn'.o = o /\ turn'.step = "recording"
    BY <1>1, <1>5 DEF SettleStageRollback, GoTo, Turns
  <2>4. dispatch[o].unknown => dispatch[o].state = "settled"
    BY DEF EffectInv
  <2>5. QED
    BY <1>1, <2>1, <2>2, <2>3, <2>4, HiddenEffects
<1>6. QED
  BY <1>2, <1>3, <1>4, <1>5

\* An adapter acts only for the turn that wrote the dispatch down, a rollback only for the
\* turn that wrote the rollback down.
LEMMA AdapterEffects ==
    ASSUME TypeOK, TypeOK', EffectInv, NEW o \in Objective, InvokeAdapter(o) \/ RollBack(o)
    PROVE  EffectStep
<1> USE DEF ledger, world, outside
<1>1. /\ turn \in Turns /\ turn.o = o /\ UNCHANGED <<row, dispatch>>
  BY DEF InvokeAdapter, RollBack, At, TypeOK
<1>2. \A p \in Objective : Stands(p)
  BY <1>1, SameStands
<1>3. effect[o] \in [ran : Nat, undone : Nat] /\ effect \in [Objective -> [ran : Nat, undone : Nat]]
  BY DEF TypeOK
<1>4. turn'.step \notin {"invoking", "undoing"}
  <2>1. CASE InvokeAdapter(o)
    <3>1. PICK answer \in Answers(o) :
            turn' = [turn EXCEPT !.outcome = answer,
                       !.step = IF answer = "failed" /\ Kind(o) = "deploy" /\ o \in Reversible
                                THEN "failed" ELSE "recording"]
      BY <2>1, Zenon DEF InvokeAdapter
    <3>2. QED
      BY <1>1, <3>1 DEF Turns
  <2>2. CASE RollBack(o)
    BY <1>1, <2>2 DEF RollBack, GoTo, Turns
  <2>3. QED
    BY <2>1, <2>2
<1>5. CASE InvokeAdapter(o) /\ turn.new
  <2>1. effect' = [effect EXCEPT ![o].ran = @ + 1]
    <3>1. effect' = [effect EXCEPT ![o].ran = IF turn.new THEN @ + 1 ELSE @]
      BY <1>5, Zenon DEF InvokeAdapter
    <3>2. QED
      BY <1>5, <3>1
  <2>2. effect[o].ran = 0 /\ dispatch[o].state = "started" /\ ~dispatch[o].unknown
    BY <1>1, <1>5 DEF EffectInv, InvokeAdapter, At
  <2>3. /\ effect'[o].ran = 1 /\ effect'[o].undone = effect[o].undone
        /\ \A p \in Objective \ {o} : effect'[p] = effect[p]
    BY <1>3, <2>1, <2>2
  <2>4. EffectInv'
    BY <1>1, <1>4, <2>2, <2>3 DEF EffectInv
  <2>5. Effects!Run(o)
    BY <1>1, <2>2, <2>3 DEF Effects!Run
  <2>6. QED
    BY <2>4, <2>5 DEF EffectStep, Effects!Next
<1>6. CASE InvokeAdapter(o) /\ ~turn.new
  <2>1. effect' = [effect EXCEPT ![o].ran = @]
    <3>1. effect' = [effect EXCEPT ![o].ran = IF turn.new THEN @ + 1 ELSE @]
      BY <1>6, Zenon DEF InvokeAdapter
    <3>2. QED
      BY <1>6, <3>1
  <2>2. effect' = effect
    BY <1>3, <2>1
  <2>3. QED
    BY <1>1, <1>2, <1>4, <2>2, UntouchedEffects DEF Untouched, Looks
<1>7. CASE RollBack(o)
  <2>1. effect' = [effect EXCEPT ![o].undone = @ + 1]
    BY <1>7 DEF RollBack
  <2>2. effect[o].undone = 0 /\ dispatch[o].rollback # "none"
    BY <1>1, <1>7 DEF EffectInv, RollBack, At
  <2>3. /\ effect'[o].undone = 1 /\ effect'[o].ran = effect[o].ran
        /\ \A p \in Objective \ {o} : effect'[p] = effect[p]
    BY <1>3, <2>1, <2>2
  <2>4. EffectInv'
    BY <1>1, <1>4, <2>2, <2>3 DEF EffectInv
  <2>5. Effects!Undo(o)
    BY <1>1, <2>2, <2>3 DEF Effects!Undo
  <2>6. QED
    BY <2>4, <2>5 DEF EffectStep, Effects!Next
<1>8. QED
  BY <1>5, <1>6, <1>7

\* The receipt of an unknown effect ends the objective's run of effects; any other one
\* settles the attempt as it was.
LEMMA SettledEffects ==
    ASSUME TypeOK, TypeOK', EffectInv, NEW o \in Objective, NEW out \in Outcomes,
           Settle(o, out), dispatch[o].state = "started", effect' = effect, turn' = Idle,
           \A p \in Objective : Stands(p)
    PROVE  EffectStep
<1>1. dispatch \in [Objective -> Dispatches] /\ ~dispatch[o].unknown
  BY DEF TypeOK, EffectInv
<1>2. PICK b \in BOOLEAN :
        dispatch' = [dispatch EXCEPT ![o].state = "settled", ![o].unknown = b]
  <2>1. (out = "unknown") \in BOOLEAN
    OBVIOUS
  <2>2. dispatch' = [dispatch EXCEPT ![o].state = "settled", ![o].unknown = (out = "unknown")]
    BY Zenon DEF Settle
  <2>3. QED
    BY <2>1, <2>2, Zenon
<1>3. /\ \A p \in Objective \ {o} : dispatch'[p] = dispatch[p]
      /\ dispatch'[o].unknown = b /\ dispatch'[o].state = "settled"
      /\ dispatch'[o].rollback = dispatch[o].rollback
  BY <1>1, <1>2 DEF Dispatches
<1>4. CASE ~b
  <2>1. dispatch[o].unknown \in BOOLEAN
    BY EffectFields
  <2>2. dispatch'[o].unknown = dispatch[o].unknown
    BY <1>1, <1>3, <1>4, <2>1
  <2>3. turn'.step = "idle"
    BY DEF Idle
  <2>4. QED
    BY <1>3, <2>2, <2>3, HiddenEffects
<1>5. CASE b
  <2>1. EffectInv'
    <3>1. ASSUME NEW p \in Objective
          PROVE  row'[p].attempt <= row'[p].used + 1
      <4>1. row[p].attempt \in Nat /\ row[p].used \in Nat /\ row'[p].used \in Nat
        BY RowType DEF TypeOK, Rows
      <4>2. QED
        BY <4>1 DEF Stands, EffectInv
    <3>2. QED
      BY <1>3, <3>1 DEF EffectInv, Idle
  <2>2. Effects!GiveUp(o)
    <3>1. UNCHANGED [p \in Objective |-> [stage |-> row[p].stage, attempt |-> row[p].attempt]]
      BY DEF Stands
    <3>2. [p \in Objective |-> dispatch'[p].unknown]
            = [[p \in Objective |-> dispatch[p].unknown] EXCEPT ![o] = TRUE]
      BY <1>3, <1>5
    <3>3. QED
      BY <1>1, <3>1, <3>2 DEF Effects!GiveUp
  <2>3. QED
    BY <2>1, <2>2 DEF EffectStep, Effects!Next
<1>6. QED
  BY <1>4, <1>5

\* The next stage or the next attempt begins without dispatch and without effect.
LEMMA FreshEffects ==
    ASSUME TypeOK, TypeOK', EffectInv, NEW o \in Objective, StartAfresh(o), turn' = Idle,
           ~dispatch[o].unknown,
           \A p \in Objective \ {o} : row'[p] = row[p],
           \/ row'[o].stage = row[o].stage + 1 /\ row'[o].attempt = 1
           \/ /\ row'[o].stage = row[o].stage /\ row'[o].attempt = row[o].attempt + 1
              /\ row'[o].used = row[o].used + 1 /\ row[o].used + 1 < AttemptLimit
    PROVE  EffectStep
<1>1. /\ dispatch'[o].state = "none" /\ dispatch'[o].unknown = FALSE
      /\ dispatch'[o].rollback = "none" /\ effect'[o].ran = 0 /\ effect'[o].undone = 0
      /\ \A p \in Objective \ {o} : dispatch'[p] = dispatch[p] /\ effect'[p] = effect[p]
  <2>1. NoEffect.ran = 0 /\ NoEffect.undone = 0
    BY DEF NoEffect
  <2>2. QED
    BY <2>1, FreshDispatch
<1>2. /\ row[o].attempt \in Nat /\ row[o].stage \in Nat /\ row[o].used \in Nat
      /\ row'[o].used \in Nat /\ row[o].attempt <= row[o].used + 1
  BY RowType DEF TypeOK, Rows, EffectInv
<1>3. ASSUME NEW p \in Objective
      PROVE  row'[p].attempt <= row'[p].used + 1
  BY <1>2 DEF EffectInv
<1>4. EffectInv'
  BY <1>1, <1>3 DEF EffectInv, Idle
<1> DEFINE at == [p \in Objective |-> [stage |-> row[p].stage, attempt |-> row[p].attempt]]
           next == [stage |-> row'[o].stage, attempt |-> row'[o].attempt]
<1>5. next \in Effects!Successors(at[o])
  <2>1. at[o] = [stage |-> row[o].stage, attempt |-> row[o].attempt]
    OBVIOUS
  <2>2. CASE row'[o].stage = row[o].stage + 1 /\ row'[o].attempt = 1
    BY <2>1, <2>2 DEF Effects!Successors
  <2>3. CASE /\ row'[o].stage = row[o].stage /\ row'[o].attempt = row[o].attempt + 1
             /\ row[o].used + 1 < AttemptLimit
    <3>1. row[o].attempt < AttemptLimit
      BY <1>2, <2>3, LimitAssumption
    <3>2. next = [at[o] EXCEPT !.attempt = @ + 1]
      BY <2>1, <2>3
    <3>3. QED
      BY <2>1, <3>1, <3>2 DEF Effects!Successors
  <2>4. QED
    BY <2>2, <2>3
<1>6. at' = [at EXCEPT ![o] = next]
  OBVIOUS
<1>7. [p \in Objective |-> effect'[p].ran]
        = [[p \in Objective |-> effect[p].ran] EXCEPT ![o] = 0]
  BY <1>1
<1>8. [p \in Objective |-> effect'[p].undone]
        = [[p \in Objective |-> effect[p].undone] EXCEPT ![o] = 0]
  BY <1>1
<1>9. UNCHANGED [p \in Objective |-> dispatch[p].unknown]
  <2>1. dispatch[o].unknown \in BOOLEAN
    BY EffectFields
  <2>2. dispatch'[o].unknown = dispatch[o].unknown
    BY <1>1, <2>1
  <2>3. QED
    BY <1>1, <2>2
<1> HIDE DEF next
<1>10. Effects!MoveOn(o)
  BY <1>5, <1>6, <1>7, <1>8, <1>9 DEF Effects!MoveOn
<1>11. QED
  BY <1>4, <1>10 DEF EffectStep, Effects!Next

LEMMA ReceiptEffects ==
    ASSUME TypeOK, TypeOK', EffectInv, NEW o \in Objective,
           \/ RecordSuccess(o) \/ RecordRetry(o) \/ RecordFailure(o)
           \/ (RecordRefusal(o) /\ dispatch[o].state = "started")
    PROVE  EffectStep
<1> USE DEF outside
<1>1. /\ dispatch[o].state = "started" /\ ~dispatch[o].unknown /\ turn' = Idle
  BY DEF RecordSuccess, RecordRetry, RecordFailure, RecordRefusal, Answered, EffectInv
<1>2. CASE RecordSuccess(o) /\ LastStage(o)
  <2> DEFINE r == [Released(row[o]) EXCEPT !.state = "complete", !.safe = FALSE]
  <2>1. r.stage = row[o].stage /\ r.attempt = row[o].attempt /\ r.used = row[o].used
    BY RowType DEF Released, Rows
  <2>2. row'[o] = r /\ \A p \in Objective \ {o} : row'[p] = row[p]
    BY <1>2 DEF RecordSuccess, TypeOK
  <2> HIDE DEF r
  <2>3. \A p \in Objective : Stands(p)
    BY <2>1, <2>2, SameStands
  <2>4. Settle(o, "succeeded") /\ effect' = effect
    BY <1>2 DEF RecordSuccess
  <2>5. QED
    BY <1>1, <2>3, <2>4, SettledEffects DEF Outcomes
<1>3. CASE RecordSuccess(o) /\ ~LastStage(o)
  <2> DEFINE r == [row[o] EXCEPT !.stage = row[o].stage + 1, !.attempt = 1, !.safe = FALSE]
  <2>1. r.stage = row[o].stage + 1 /\ r.attempt = 1
    BY RowType DEF Rows
  <2>2. row'[o] = r /\ \A p \in Objective \ {o} : row'[p] = row[p]
    BY <1>3 DEF RecordSuccess, TypeOK
  <2> HIDE DEF r
  <2>3. StartAfresh(o)
    BY <1>3 DEF RecordSuccess
  <2>4. QED
    BY <1>1, <2>1, <2>2, <2>3, FreshEffects
<1>4. CASE RecordRetry(o)
  <2> DEFINE r == [Released(row[o]) EXCEPT
                     !.state = "waiting", !.wait = "other", !.safe = FALSE,
                     !.attempt = row[o].attempt + 1, !.used = Spent(row[o].used)]
  <2>1. Spent(row[o].used) = row[o].used + 1 /\ row[o].used + 1 < AttemptLimit
    BY <1>4 DEF RecordRetry, MayRetry, Spent
  <2>2. r.stage = row[o].stage /\ r.attempt = row[o].attempt + 1 /\ r.used = row[o].used + 1
    BY <2>1, RowType DEF Released, Rows
  <2>3. row' = [row EXCEPT ![o] = r]
    BY <1>4, Zenon DEF RecordRetry
  <2>4. row'[o] = r /\ \A p \in Objective \ {o} : row'[p] = row[p]
    BY <2>3 DEF TypeOK
  <2> HIDE DEF r
  <2>5. StartAfresh(o)
    BY <1>4 DEF RecordRetry
  <2>6. QED
    BY <1>1, <2>1, <2>2, <2>4, <2>5, FreshEffects
<1>5. CASE RecordFailure(o)
  <2>1. PICK wait : NeedsDecision(o, wait)
    BY <1>5 DEF RecordFailure
  <2>2. Settle(o, turn.outcome) /\ effect' = effect /\ turn.outcome \in Outcomes
    BY <1>5 DEF RecordFailure, Answered, Outcomes
  <2>3. QED
    BY <1>1, <2>1, <2>2, DecisionStands, SettledEffects
<1>6. CASE RecordRefusal(o) /\ dispatch[o].state = "started"
  <2>1. Settle(o, "unknown") /\ NeedsDecision(o, "unknown") /\ effect' = effect
    BY <1>6 DEF RecordRefusal
  <2>2. QED
    BY <1>1, <2>1, DecisionStands, SettledEffects DEF Outcomes
<1>7. QED
  BY <1>2, <1>3, <1>4, <1>5, <1>6

LEMMA EveryEffectStep == TypeOK /\ TypeOK' /\ EffectInv /\ [Next]_vars => EffectStep
<1> SUFFICES ASSUME TypeOK, TypeOK', EffectInv, [Next]_vars
             PROVE  EffectStep
  OBVIOUS
<1>1. ASSUME NEW o \in Objective, Turn(o)
      PROVE  EffectStep
  BY <1>1, AdmissionEffects, DispatchEffects, AdapterEffects, ReceiptEffects DEF Turn
<1>2. CASE UNCHANGED vars
  BY <1>2, SameStands, UntouchedEffects DEF vars, ledger, outside, Untouched, Looks
<1>3. QED
  BY <1>1, <1>2, SurroundingEffects, OperatorEffects DEF Next

LEMMA InitEffects == Init => EffectInv /\ Effects!Init
<1> SUFFICES ASSUME Init PROVE EffectInv /\ Effects!Init
  OBVIOUS
<1>1. ASSUME NEW o \in Objective
      PROVE  /\ row[o].stage = 1 /\ row[o].attempt = 1 /\ row[o].used = 0
             /\ dispatch[o].unknown = FALSE /\ effect[o].ran = 0 /\ effect[o].undone = 0
  BY DEF Init, Created, NoDispatch, NoEffect
<1>2. turn.step = "idle"
  BY DEF Init, Idle
<1>3. EffectInv
  <2>1. ASSUME NEW o \in Objective
        PROVE  ~dispatch[o].unknown /\ row[o].attempt <= row[o].used + 1
    <3>1. ~dispatch[o].unknown
      BY <1>1, Zenon
    <3>2. row[o].attempt <= row[o].used + 1
      <4>1. row[o].attempt = 1 /\ row[o].used = 0
        BY <1>1, Zenon
      <4>2. QED
        BY <4>1
    <3>3. QED
      BY <3>1, <3>2
  <2>2. QED
    BY <1>1, <1>2, <2>1 DEF EffectInv
<1>4. Effects!Init
  BY <1>1 DEF Effects!Init
<1>5. QED
  BY <1>3, <1>4

\* Whatever stages an objective has and whatever dies, stalls or comes late: the effect of an
\* attempt is asked for once, undone once, and not repeated when it is unknown.
THEOREM EffectsAreOnce == Spec => EffectsOnce
<1>1. EffectStep => EffectInv' /\ [Effects!Next]_(Effects!vars)
  BY DEF EffectStep
<1>2. QED
  BY <1>1, InitEffects, EveryEffectStep, DeliveryTypeCorrect, PTL
     DEF Spec, EffectsOnce, Effects!Spec
=============================================================================
