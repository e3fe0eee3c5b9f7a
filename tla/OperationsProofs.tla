-------------------------- MODULE OperationsProofs --------------------------
(* The operations of Operations, each for any number of processes, versions,  *)
(* rows, nodes, attempts, inputs and models: who works beside whom, that      *)
(* nothing stale is taken for current, and what a step keeps.  Each has its   *)
(* section: its invariant, a lemma for each of its steps and what follows;    *)
(* the handoff's proofs are those of LockfileHandoffProofs, taken twice.  The *)
(* last section composes them.                                                *)
EXTENDS Operations, FiniteSetTheorems, SequenceTheorems, WellFoundedInduction, NaturalsInduction, TLAPS

(* Every set of naturals has a least element. *)

LEMMA NatLess == IsWellFoundedOn({r \in Nat \X Nat : r[1] < r[2]}, Nat)
  BY NatLessThanWellFounded DEF OpToRel

LEMMA NatMin == ASSUME NEW T, T \subseteq Nat, T # {} PROVE \E x \in T : \A y \in T : x <= y
<1> DEFINE R == {r \in Nat \X Nat : r[1] < r[2]}
<1>1. \E x \in T : \A y \in T : <<y, x>> \notin R
  <2>1. IsWellFoundedOn(R, Nat)
    BY NatLess
  <2> HIDE DEF R
  <2> QED
    BY <2>1, WFMin
<1>2. PICK x \in T : \A y \in T : <<y, x>> \notin R
  BY <1>1
<1>3. \A y \in T : y \in Nat /\ ~(y < x)
  BY <1>2
<1> HIDE DEF R
<1> QED
  BY <1>3

\* The operators that the components have from FiniteSets are those of the library.
LEMMA Cardinals == \A S : /\ Admits!Cardinality(S) = Cardinality(S) /\ Upgrade!Cardinality(S) = Cardinality(S)
                          /\ Admits!IsFiniteSet(S) <=> IsFiniteSet(S)
  BY DEF Admits!Cardinality, Upgrade!Cardinality, Cardinality, Admits!IsFiniteSet, IsFiniteSet

-----------------------------------------------------------------------------
(* PluginCacheUpgrade: what the caches, the snapshot and the receipts hold by the *)
(* phase a process has reached.                                               *)

LEMMA UpgradeAssumed == Upgrade!UpgradeAssumption
  BY OperationsAssumption

Caches == UNION {[D -> UContent] : D \in SUBSET UVersion}
Pcs == {"idle", "check", "inspect", "stage", "publish", "refresh", "target", "native", "restore",
        "attest", "receipt", "retain"}
Before == {"check", "inspect", "stage", "publish"}
Within == {"refresh", "target", "native", "restore", "attest", "receipt", "retain"}
Phases == {"none", "apply", "undo", "repair", "giveup", "recover"}
Planned == [pc : Pcs, phase : Phases, only : BOOLEAN,
            plan : [versions : Caches, installed : UVersion, source : Upgrade!Tree]]
Calls == [pc : Pcs, phase : Phases, only : BOOLEAN] \cup Planned
Snapshots == [id : Nat, versions : Caches, target : Upgrade!Tree \cup {Upgrade!NoTarget}]

\* What holds where a call is.
Fits(c) ==
    /\ c.pc \in Before => uPending = Upgrade!NoPending
    /\ c.pc \in Within => uPending # Upgrade!NoPending
    /\ c.pc \in {"inspect", "stage", "publish"} => c.phase = "none"
    /\ c.pc = "check" => c.phase \in {"none", "recover", "repair"}
    /\ c.pc \in {"refresh", "target"} => c.phase = "apply"
    /\ c.pc \in Within => c.phase # "none"
    /\ c.pc \in {"stage", "publish", "refresh", "target"} => c \in Planned
    /\ c.pc = "publish" => Cardinality(uRetained) < UMaxUpgrades
    /\ c.pc \in {"attest", "receipt", "retain"} => Upgrade!Missing = {}
    /\ c.pc \in {"receipt", "retain"} => uInstalled \in DOMAIN uCache
    /\ c.pc = "receipt" /\ c.phase = "apply" =>
          <<uPending.target.version, uPending.target.content>> \in Upgrade!Entries(uCache)
    /\ c.pc = "retain" =>
          /\ uPending.id \in DOMAIN uReceipts
          /\ uReceipts[uPending.id].status = "upgraded" =>
                <<uReceipts[uPending.id].target.version, uReceipts[uPending.id].target.content>> \in Upgrade!Entries(uCache)

Disk ==
    /\ uSource \in Upgrade!Tree /\ uInstalled \in UVersion /\ uCache \in Caches
    /\ uPending = Upgrade!NoPending \/ uPending \in Snapshots

Counted ==
    /\ \E k \in 0..UMaxUpgrades :
          uRetained = 1..k /\ (uPending # Upgrade!NoPending => uPending.id = k + 1 /\ k < UMaxUpgrades)
    /\ DOMAIN uReceipts \subseteq 1..(UMaxUpgrades + 1)

Locked ==
    /\ uLock \in UProcess \cup {Upgrade!Nobody}
    /\ uCall \in [UProcess -> Calls]
    /\ \A p \in UProcess : (uCall[p].pc = "idle" <=> uLock # p)
       /\ (uCall[p].pc = "idle" => uCall[p] = Upgrade!Idle)

UpgradeInv == Disk /\ Counted /\ Locked /\ Upgrade!CacheConsistent /\ \A p \in UProcess : Fits(uCall[p])

LEMMA CachesAre ==
    /\ \A c \in Caches : DOMAIN c \subseteq UVersion /\ (\A v \in DOMAIN c : c[v] \in UContent)
       /\ c = [v \in DOMAIN c |-> c[v]]
    /\ \A D \in SUBSET UVersion : \A c \in [D -> UContent] : c \in Caches
  BY DEF Caches

LEMMA IdleIs == Upgrade!Idle \in Calls /\ Upgrade!Idle.pc = "idle" /\ Upgrade!Idle.phase = "none"
    /\ Fits(Upgrade!Idle)
  BY DEF Upgrade!Idle, Calls, Pcs, Phases, Fits, Before, Within

LEMMA UpgradeInit == Upgrade!Init => UpgradeInv
<1> SUFFICES ASSUME Upgrade!Init PROVE UpgradeInv
  OBVIOUS
<1>1. Disk
  BY CachesAre DEF Upgrade!Init, Disk
<1>2. Counted
  <2>1. 0 \in 0..UMaxUpgrades /\ uRetained = 1..0 /\ uPending = Upgrade!NoPending
    BY UpgradeAssumed DEF Upgrade!Init, Upgrade!UpgradeAssumption
  <2>2. DOMAIN uReceipts = {}
    BY DEF Upgrade!Init
  <2> QED
    BY <2>1, <2>2 DEF Counted
<1>3. Locked
  BY IdleIs, UpgradeAssumed DEF Upgrade!Init, Locked, Upgrade!UpgradeAssumption, Upgrade!Nobody
<1>4. Upgrade!CacheConsistent
  <2>1. DOMAIN uCache \subseteq UVersion /\ uInstalled \in DOMAIN uCache
    BY DEF Upgrade!Init
  <2> QED
    BY <2>1 DEF Upgrade!Init, Upgrade!CacheConsistent
<1>5. \A p \in UProcess : Fits(uCall[p])
  BY IdleIs DEF Upgrade!Init
<1> QED
  BY <1>1, <1>2, <1>3, <1>4, <1>5 DEF UpgradeInv

LEMMA CallMoves ==
    ASSUME Locked, NEW p \in UProcess, NEW c \in Calls, c.pc # "idle", uLock = p, uLock' = uLock,
           uCall' = [uCall EXCEPT ![p] = c]
    PROVE  Locked' /\ uCall'[p] = c /\ \A q \in UProcess : q # p => uCall'[q] = Upgrade!Idle
  BY UpgradeAssumed DEF Locked, Upgrade!UpgradeAssumption, Upgrade!Nobody

LEMMA CallEnds ==
    ASSUME Locked, NEW p \in UProcess, uLock = p, Upgrade!Ends(p)
    PROVE  Locked' /\ \A q \in UProcess : uCall'[q] = Upgrade!Idle
  BY IdleIs, UpgradeAssumed DEF Locked, Upgrade!UpgradeAssumption, Upgrade!Nobody, Upgrade!Ends

LEMMA PlacedCall ==
    ASSUME NEW c \in Calls, NEW pc \in Pcs, NEW phase \in Phases
    PROVE  /\ [c EXCEPT !.pc = pc, !.phase = phase] \in Calls
           /\ c \in Planned => [c EXCEPT !.pc = pc, !.phase = phase] \in Planned
           /\ [c EXCEPT !.pc = pc, !.phase = phase].pc = pc
           /\ [c EXCEPT !.pc = pc, !.phase = phase].phase = phase
  BY DEF Calls, Planned

LEMMA MovedCall ==
    ASSUME NEW c \in Calls, NEW pc \in Pcs
    PROVE  /\ [c EXCEPT !.pc = pc] \in Calls
           /\ c \in Planned => [c EXCEPT !.pc = pc] \in Planned
           /\ [c EXCEPT !.pc = pc].pc = pc
           /\ [c EXCEPT !.pc = pc].phase = c.phase
  BY DEF Calls, Planned

LEMMA Going ==
    ASSUME Locked, NEW p \in UProcess, uLock = p, NEW pc \in Pcs \ {"idle"}, Upgrade!Goes(p, pc)
    PROVE  /\ Locked' /\ uCall'[p] \in Calls /\ uCall'[p].pc = pc /\ uCall'[p].phase = uCall[p].phase
           /\ uCall[p] \in Planned => uCall'[p] \in Planned
           /\ \A q \in UProcess : q # p => uCall'[q] = Upgrade!Idle
<1>1. uCall[p] \in Calls
  BY DEF Locked
<1>2. PICK c \in Calls : /\ c = [uCall[p] EXCEPT !.pc = pc]
                         /\ c.pc = pc /\ c.phase = uCall[p].phase /\ (uCall[p] \in Planned => c \in Planned)
  BY <1>1, MovedCall
<1>3. uCall' = [uCall EXCEPT ![p] = c] /\ uLock' = uLock
  BY <1>2 DEF Upgrade!Goes
<1> QED
  BY <1>2, <1>3, CallMoves

LEMMA Turning ==
    ASSUME Locked, NEW p \in UProcess, uLock = p, NEW pc \in Pcs \ {"idle"}, NEW phase \in Phases,
           Upgrade!Turns(p, pc, phase)
    PROVE  /\ Locked' /\ uCall'[p] \in Calls /\ uCall'[p].pc = pc /\ uCall'[p].phase = phase
           /\ uCall[p] \in Planned => uCall'[p] \in Planned
           /\ \A q \in UProcess : q # p => uCall'[q] = Upgrade!Idle
<1>1. uCall[p] \in Calls
  BY DEF Locked
<1>2. PICK c \in Calls : /\ c = [uCall[p] EXCEPT !.pc = pc, !.phase = phase]
                         /\ c.pc = pc /\ c.phase = phase /\ (uCall[p] \in Planned => c \in Planned)
  <2> DEFINE d == [uCall[p] EXCEPT !.pc = pc, !.phase = phase]
  <2>1. d \in Calls
    BY <1>1, PlacedCall
  <2>2. uCall[p] \in Planned => d \in Planned
    BY <1>1, PlacedCall
  <2>3. d.pc = pc /\ d.phase = phase
    BY <1>1 DEF Calls, Planned
  <2> QED
    BY <2>1, <2>2, <2>3
<1>3. uCall' = [uCall EXCEPT ![p] = c] /\ uLock' = uLock
  BY <1>2 DEF Upgrade!Turns
<1> QED
  BY <1>2, <1>3, CallMoves

\* A step that fails: the call ends, or restores what is published.
LEMMA Raising ==
    ASSUME Locked, NEW p \in UProcess, uLock = p, Upgrade!Raise(p), uCall[p].phase = "apply"
           \/ uCall[p].phase = "repair" => uPending' # Upgrade!NoPending
    PROVE  Locked' /\ \A q \in UProcess : Fits(uCall[q])'
<1>1. CASE uCall[p].phase = "apply"
  <2>1. Upgrade!Turns(p, "restore", "undo")
    BY <1>1 DEF Upgrade!Raise
  <2>2. Locked' /\ uCall'[p].pc = "restore" /\ uCall'[p].phase = "undo" /\ \A q \in UProcess : q # p
        => uCall'[q] = Upgrade!Idle
    BY <2>1, Turning DEF Pcs, Phases
  <2>3. Fits(uCall[p])'
    BY <2>2, <1>1 DEF Fits, Before, Within
  <2> QED
    BY <2>2, <2>3 DEF Fits, Upgrade!Idle, Before, Within
<1>2. CASE uCall[p].phase = "repair"
  <2>1. Upgrade!Turns(p, "restore", "giveup")
    BY <1>2 DEF Upgrade!Raise
  <2>2. Locked' /\ uCall'[p].pc = "restore" /\ uCall'[p].phase = "giveup" /\ \A q \in UProcess : q # p
        => uCall'[q] = Upgrade!Idle
    BY <2>1, Turning DEF Pcs, Phases
  <2>3. Fits(uCall[p])'
    BY <2>2, <1>2 DEF Fits, Before, Within
  <2> QED
    BY <2>2, <2>3 DEF Fits, Upgrade!Idle, Before, Within
<1>3. CASE uCall[p].phase # "apply" /\ uCall[p].phase # "repair"
  <2>1. Upgrade!Ends(p)
    BY <1>3 DEF Upgrade!Raise
  <2>2. Locked' /\ \A q \in UProcess : uCall'[q] = Upgrade!Idle
    BY <2>1, CallEnds
  <2> QED
    BY <2>2 DEF Fits, Upgrade!Idle, Before, Within
<1> QED
  BY <1>1, <1>2, <1>3

\* The call that moves holds the lock, the others are idle.
LEMMA HolderIs ==
    ASSUME UpgradeInv, NEW p \in UProcess, uCall[p].pc # "idle"
    PROVE  /\ uLock = p /\ Locked /\ Fits(uCall[p]) /\ uCall[p] \in Calls
           /\ \A q \in UProcess : q # p => uCall[q] = Upgrade!Idle
  BY DEF UpgradeInv, Locked

LEMMA GoesOn ==
    ASSUME UpgradeInv, NEW p \in UProcess, uCall[p].pc # "idle", NEW pc \in Pcs \ {"idle"},
           Upgrade!Goes(p, pc), Disk', Counted', Upgrade!CacheConsistent',
           (uCall'[p] \in Calls /\ uCall'[p].pc = pc /\ uCall'[p].phase = uCall[p].phase
              /\ (uCall[p] \in Planned => uCall'[p] \in Planned)) => Fits(uCall[p])'
    PROVE  UpgradeInv'
<1>1. uLock = p /\ Locked
  BY HolderIs
<1>2. /\ Locked' /\ uCall'[p] \in Calls /\ uCall'[p].pc = pc /\ uCall'[p].phase = uCall[p].phase
      /\ uCall[p] \in Planned => uCall'[p] \in Planned
      /\ \A q \in UProcess : q # p => uCall'[q] = Upgrade!Idle
  BY <1>1, Going
<1>3. Fits(uCall[p])'
  BY <1>2
<1>4. \A q \in UProcess : q # p => Fits(uCall[q])'
  BY <1>2 DEF Fits, Upgrade!Idle, Before, Within
<1> QED
  BY <1>2, <1>3, <1>4 DEF UpgradeInv

LEMMA TurnsTo ==
    ASSUME UpgradeInv, NEW p \in UProcess, uCall[p].pc # "idle", NEW pc \in Pcs \ {"idle"},
           NEW phase \in Phases,
           Upgrade!Turns(p, pc, phase), Disk', Counted', Upgrade!CacheConsistent',
           (uCall'[p] \in Calls /\ uCall'[p].pc = pc /\ uCall'[p].phase = phase
              /\ (uCall[p] \in Planned => uCall'[p] \in Planned)) => Fits(uCall[p])'
    PROVE  UpgradeInv'
<1>1. uLock = p /\ Locked
  BY HolderIs
<1>2. /\ Locked' /\ uCall'[p] \in Calls /\ uCall'[p].pc = pc /\ uCall'[p].phase = phase
      /\ uCall[p] \in Planned => uCall'[p] \in Planned
      /\ \A q \in UProcess : q # p => uCall'[q] = Upgrade!Idle
  BY <1>1, Turning
<1>3. Fits(uCall[p])'
  BY <1>2
<1>4. \A q \in UProcess : q # p => Fits(uCall[q])'
  BY <1>2 DEF Fits, Upgrade!Idle, Before, Within
<1> QED
  BY <1>2, <1>3, <1>4 DEF UpgradeInv

LEMMA EndsThere ==
    ASSUME UpgradeInv, NEW p \in UProcess, uCall[p].pc # "idle", Upgrade!Ends(p), Disk', Counted',
           Upgrade!CacheConsistent'
    PROVE  UpgradeInv'
<1>1. Locked' /\ \A q \in UProcess : uCall'[q] = Upgrade!Idle
  BY HolderIs, CallEnds
<1>2. \A q \in UProcess : Fits(uCall[q])'
  BY <1>1 DEF Fits, Upgrade!Idle, Before, Within
<1> QED
  BY <1>1, <1>2 DEF UpgradeInv

LEMMA RaisesThere ==
    ASSUME UpgradeInv, NEW p \in UProcess, uCall[p].pc # "idle", Upgrade!Raise(p), Disk', Counted',
           Upgrade!CacheConsistent',
           uCall[p].phase = "apply" \/ uCall[p].phase = "repair" => uPending' # Upgrade!NoPending
    PROVE  UpgradeInv'
<1>1. Locked' /\ \A q \in UProcess : Fits(uCall[q])'
  BY HolderIs, Raising
<1> QED
  BY <1>1 DEF UpgradeInv

\* What a step that leaves the files alone keeps.
LEMMA DiskStays ==
    ASSUME UpgradeInv, UNCHANGED Upgrade!disk
    PROVE  /\ Disk' /\ Counted' /\ Upgrade!CacheConsistent' /\ Upgrade!KeepsVersions
              /\ Upgrade!Missing' = Upgrade!Missing
           /\ Upgrade!Entries(uCache)' = Upgrade!Entries(uCache)
  BY
  DEF UpgradeInv, Upgrade!disk, Disk, Counted, Upgrade!CacheConsistent, Upgrade!KeepsVersions,
      Upgrade!Protected, Upgrade!Missing, Upgrade!Entries

LEMMA BeginStep ==
    ASSUME UpgradeInv, NEW p \in UProcess, NEW only \in BOOLEAN, Upgrade!Begin(p, only)
    PROVE  UpgradeInv' /\ Upgrade!KeepsVersions
<1>1. Disk' /\ Counted' /\ Upgrade!CacheConsistent' /\ Upgrade!KeepsVersions
  BY DiskStays DEF Upgrade!Begin
<1>2. PICK c : /\ c = [only |-> only, pc |-> IF uPending = Upgrade!NoPending THEN "check" ELSE "restore",
                        phase |-> IF uPending = Upgrade!NoPending THEN "none" ELSE "recover"]
               /\ c \in Calls /\ c.pc # "idle"
  <2> DEFINE d == [only |-> only, pc |-> IF uPending = Upgrade!NoPending THEN "check" ELSE "restore",
                   phase |-> IF uPending = Upgrade!NoPending THEN "none" ELSE "recover"]
  <2>1. d \in Calls /\ d.pc # "idle"
    BY DEF Calls, Pcs, Phases
  <2> QED
    BY <2>1
<1>3. uLock = Upgrade!Nobody /\ uLock' = p /\ uCall' = [uCall EXCEPT ![p] = c] /\ uPending' = uPending
  BY <1>2 DEF Upgrade!Begin, Upgrade!LockFree, Upgrade!disk
<1>4. Locked /\ \A q \in UProcess : uCall[q] = Upgrade!Idle
  BY <1>3, UpgradeAssumed DEF UpgradeInv, Locked, Upgrade!UpgradeAssumption, Upgrade!Nobody
<1>5. Fits(c)'
  BY <1>2, <1>3 DEF Fits, Before, Within
<1>6. uCall'[p] = c /\ \A q \in UProcess : q # p => uCall'[q] = Upgrade!Idle
  BY <1>3, <1>4 DEF Locked
<1>7. Locked'
  <2>1. uCall' \in [UProcess -> Calls]
    BY <1>2, <1>3, <1>4 DEF Locked
  <2>2. \A q \in UProcess : (uCall'[q].pc = "idle" <=> uLock' # q)
        /\ (uCall'[q].pc = "idle" => uCall'[q] = Upgrade!Idle)
    BY <1>2, <1>3, <1>6, IdleIs
  <2> QED
    BY <2>1, <2>2, <1>3 DEF Locked
<1>8. \A q \in UProcess : Fits(uCall[q])'
  <2>1. \A q \in UProcess : q # p => Fits(uCall[q])'
    BY <1>6 DEF Fits, Upgrade!Idle, Before, Within
  <2>2. Fits(uCall[p])'
    BY <1>5, <1>6
  <2> QED
    BY <2>1, <2>2
<1> QED
  BY <1>1, <1>7, <1>8 DEF UpgradeInv

\* The steps that only look.
LEMMA LookSteps ==
    ASSUME UpgradeInv, NEW p \in UProcess, Upgrade!Check(p) \/ Upgrade!Inspect(p) \/ Upgrade!Attest(p)
           \/ Upgrade!Kill(p)
    PROVE  UpgradeInv' /\ Upgrade!KeepsVersions
<1>1. UNCHANGED Upgrade!disk
  BY DEF Upgrade!Check, Upgrade!Inspect, Upgrade!Attest, Upgrade!Kill
<1>2. Disk' /\ Counted' /\ Upgrade!CacheConsistent' /\ Upgrade!KeepsVersions
      /\ Upgrade!Missing' = Upgrade!Missing /\ Upgrade!Entries(uCache)' = Upgrade!Entries(uCache)
  BY <1>1, DiskStays
<1>3. uCall[p].pc # "idle"
  BY DEF Upgrade!Check, Upgrade!Inspect, Upgrade!Attest, Upgrade!Kill, Upgrade!At
<1>4. uLock = p /\ Locked /\ Fits(uCall[p]) /\ uCall[p] \in Calls /\ UpgradeInv
  BY <1>3, HolderIs
<1>5. uPending' = uPending /\ uRetained' = uRetained /\ uCache' = uCache /\ uInstalled' = uInstalled
      /\ uReceipts' = uReceipts
  BY <1>1 DEF Upgrade!disk
<1>6. CASE Upgrade!Check(p)
  <2>1. CASE Upgrade!Ends(p)
    BY <2>1, <1>2, <1>3, EndsThere
  <2>2. CASE Upgrade!Turns(p, "inspect", "none")
    <3>1. uPending' = Upgrade!NoPending
      BY <1>4, <1>5, <1>6 DEF Upgrade!Check, Upgrade!At, Fits, Before
    <3>2. uCall'[p].pc = "inspect" /\ uCall'[p].phase = "none" => Fits(uCall[p])'
      BY <3>1 DEF Fits, Before, Within
    <3> QED
      BY <2>2, <3>2, <1>2, <1>3, TurnsTo DEF Pcs, Phases
  <2> QED
    BY <1>6, <2>1, <2>2, <1>2 DEF Upgrade!Check
<1>7. CASE Upgrade!Inspect(p)
  <2>1. CASE Upgrade!Ends(p)
    BY <2>1, <1>2, <1>3, EndsThere
  <2>2. CASE ~Upgrade!Ends(p)
    <3>1. PICK c : /\ c = [pc |-> "stage", phase |-> "none", only |-> FALSE,
                            plan |-> [versions |-> uCache, installed |-> uInstalled, source |-> uSource]]
                   /\ c \in Planned /\ c \in Calls /\ c.pc = "stage" /\ c.phase = "none"
      <4> DEFINE d == [pc |-> "stage", phase |-> "none", only |-> FALSE,
                       plan |-> [versions |-> uCache, installed |-> uInstalled, source |-> uSource]]
      <4>1. uCache \in Caches /\ uInstalled \in UVersion /\ uSource \in Upgrade!Tree
        BY DEF UpgradeInv, Disk
      <4>2. d \in Planned
        BY <4>1 DEF Planned, Pcs, Phases
      <4>3. d \in Calls
        BY <4>2 DEF Calls
      <4> QED
        BY <4>2, <4>3
    <3>2. uCall' = [uCall EXCEPT ![p] = c] /\ uLock' = uLock
      BY <1>7, <2>2, <3>1 DEF Upgrade!Inspect
    <3>3. Locked' /\ uCall'[p] = c /\ \A q \in UProcess : q # p => uCall'[q] = Upgrade!Idle
      BY <3>1, <3>2, <1>4, CallMoves
    <3>4. uPending' = Upgrade!NoPending
      BY <1>4, <1>5, <1>7 DEF Upgrade!Inspect, Upgrade!At, Fits, Before
    <3>5. Fits(uCall[p])'
      BY <3>1, <3>3, <3>4 DEF Fits, Before, Within
    <3>6. \A q \in UProcess : q # p => Fits(uCall[q])'
      BY <3>3 DEF Fits, Upgrade!Idle, Before, Within
    <3> QED
      BY <3>3, <3>5, <3>6, <1>2 DEF UpgradeInv
  <2> QED
    BY <2>1, <2>2, <1>2
<1>8. CASE Upgrade!Attest(p)
  <2>1. /\ uCall[p].pc = "attest" /\ uPending # Upgrade!NoPending /\ Upgrade!Missing = {}
           /\ uCall[p].phase # "none"
    BY <1>4, <1>8 DEF Upgrade!Attest, Upgrade!At, Fits, Within
  <2>2. CASE Upgrade!Ends(p)
    BY <2>2, <1>2, <1>3, EndsThere
  <2>3. CASE Upgrade!Raise(p)
    BY <2>1, <2>3, <1>2, <1>3, <1>5, RaisesThere
  <2>4. CASE Upgrade!Goes(p, "receipt") /\ Upgrade!Consistent
             /\ (uCall[p].phase \in {"apply", "repair"} => Upgrade!IsExact(uPending.target))
    <3>1. uInstalled \in DOMAIN uCache
      BY <2>4 DEF Upgrade!Consistent
    <3>2. uCall[p].phase = "apply"
          => <<uPending.target.version, uPending.target.content>> \in Upgrade!Entries(uCache)
      BY <2>4, <3>1 DEF Upgrade!IsExact, Upgrade!Entries
    <3>3. uCall'[p].pc = "receipt" /\ uCall'[p].phase = uCall[p].phase => Fits(uCall[p])'
      BY <2>1, <3>1, <3>2, <1>2, <1>5 DEF Fits, Before, Within
    <3> QED
      BY <2>4, <3>3, <1>2, <1>3, GoesOn DEF Pcs
  <2>5. CASE Upgrade!Turns(p, "native", "repair")
    <3>1. uCall'[p].pc = "native" /\ uCall'[p].phase = "repair" => Fits(uCall[p])'
      BY <2>1, <1>5 DEF Fits, Before, Within
    <3> QED
      BY <2>5, <3>1, <1>2, <1>3, TurnsTo DEF Pcs, Phases
  <2>6. \/ Upgrade!Ends(p) \/ Upgrade!Raise(p) \/ Upgrade!Turns(p, "native", "repair")
        \/ Upgrade!Goes(p, "receipt") /\ Upgrade!Consistent
           /\ (uCall[p].phase \in {"apply", "repair"} => Upgrade!IsExact(uPending.target))
    BY <1>8 DEF Upgrade!Attest
  <2> QED
    BY <2>2, <2>3, <2>4, <2>5, <2>6, <1>2
<1>9. CASE Upgrade!Kill(p)
  <2>1. Upgrade!Ends(p)
    BY <1>9 DEF Upgrade!Kill
  <2> QED
    BY <2>1, <1>2, <1>3, EndsThere
<1> QED
  BY <1>6, <1>7, <1>8, <1>9

LEMMA CardinalOf == ASSUME NEW k \in Nat PROVE Cardinality(1..k) = k
  BY FS_Interval

\* A step that changes neither the cache, the registry, the snapshots nor the receipts.
LEMMA RecordsStay ==
    ASSUME UpgradeInv, UNCHANGED <<uInstalled, uCache, uPending, uRetained, uReceipts>>,
           uSource' \in Upgrade!Tree
    PROVE  Disk' /\ Counted' /\ Upgrade!CacheConsistent' /\ Upgrade!KeepsVersions
           /\ Upgrade!Missing' = Upgrade!Missing
           /\ Upgrade!Entries(uCache)' = Upgrade!Entries(uCache)
  BY
  DEF UpgradeInv, Disk, Counted, Upgrade!CacheConsistent, Upgrade!KeepsVersions, Upgrade!Protected,
      Upgrade!Missing, Upgrade!Entries

LEMMA StageStep ==
    ASSUME UpgradeInv, NEW p \in UProcess, Upgrade!Stage(p)
    PROVE  UpgradeInv' /\ Upgrade!KeepsVersions
<1>1. UNCHANGED <<uInstalled, uCache, uPending, uRetained, uReceipts>> /\ uSource' = uSource
  BY DEF Upgrade!Stage
<1>2. Disk' /\ Counted' /\ Upgrade!CacheConsistent' /\ Upgrade!KeepsVersions
  BY <1>1, RecordsStay DEF UpgradeInv, Disk
<1>3. uCall[p].pc = "stage"
  BY DEF Upgrade!Stage, Upgrade!At
<1>4. CASE Upgrade!Ends(p)
  BY <1>2, <1>3, <1>4, EndsThere
<1>5. CASE Upgrade!Goes(p, "publish")
  <2>1. Fits(uCall[p])
    BY <1>3, HolderIs
  <2>2. uPending' = Upgrade!NoPending /\ uCall[p].phase = "none" /\ uCall[p] \in Planned
        /\ Cardinality(uRetained') < UMaxUpgrades
    BY <2>1, <1>1, <1>3, Cardinals DEF Fits, Before, Upgrade!Stage
  <2>3. uCall'[p].pc = "publish" /\ uCall'[p].phase = "none" /\ uCall'[p] \in Planned => Fits(uCall[p])'
    BY <2>2 DEF Fits, Before, Within
  <2> QED
    BY <2>2, <2>3, <1>2, <1>3, <1>5, GoesOn DEF Pcs
<1> QED
  BY <1>2, <1>4, <1>5 DEF Upgrade!Stage

LEMMA PublishStep ==
    ASSUME UpgradeInv, NEW p \in UProcess, Upgrade!Publish(p)
    PROVE  UpgradeInv' /\ Upgrade!KeepsVersions
<1>1. UNCHANGED <<uSource, uInstalled, uCache, uRetained, uReceipts>> /\ uCall[p].pc = "publish"
  BY DEF Upgrade!Publish, Upgrade!At
<1>2. Fits(uCall[p]) /\ uLock = p
  BY <1>1, HolderIs
<1>3. uPending = Upgrade!NoPending /\ uCall[p] \in Planned /\ Cardinality(uRetained) < UMaxUpgrades
  BY <1>1, <1>2 DEF Fits, Before
<1>4. CASE Upgrade!Ends(p) /\ UNCHANGED uPending
  <2>1. Disk' /\ Counted' /\ Upgrade!CacheConsistent' /\ Upgrade!KeepsVersions
    BY <1>1, <1>4, RecordsStay DEF UpgradeInv, Disk
  <2> QED
    BY <2>1, <1>1, <1>4, EndsThere
<1>5. CASE uCache = uCall[p].plan.versions
  <2>1. PICK k \in 0..UMaxUpgrades : uRetained = 1..k
    BY DEF UpgradeInv, Counted
  <2>2. Cardinality(uRetained) = k /\ k \in Nat /\ k < UMaxUpgrades /\ UMaxUpgrades \in Nat
    BY <2>1, <1>3, CardinalOf, UpgradeAssumed DEF Upgrade!UpgradeAssumption
  <2>3. PICK t \in Upgrade!Tree \cup {Upgrade!NoTarget} : uPending' = [id |-> k + 1, versions |-> uCache, target |-> t]
    <3>1. uCall[p].plan.source \in Upgrade!Tree
      BY <1>3 DEF Planned
    <3>2. uPending' = [id |-> k + 1, versions |-> uCache,
                       target |-> IF uOrigin = "local" THEN uCall[p].plan.source ELSE Upgrade!NoTarget]
      BY <1>5, <2>2, Cardinals DEF Upgrade!Publish
    <3> QED
      BY <3>1, <3>2
  <2>4. uPending' \in Snapshots /\ uPending'.id = k + 1 /\ uPending'.versions = uCache
    BY <2>2, <2>3 DEF UpgradeInv, Disk, Snapshots
  <2>5. uPending' # Upgrade!NoPending
    BY <2>2, <2>4 DEF Upgrade!NoPending
  <2>6. Disk'
    BY <1>1, <2>4 DEF UpgradeInv, Disk
  <2>7. Counted'
    BY <1>1, <2>1, <2>2, <2>4 DEF UpgradeInv, Counted
  <2>8. Upgrade!Protected' = Upgrade!Protected
    BY <1>1, <1>3, <2>4, <2>5 DEF Upgrade!Protected
  <2>9. Upgrade!CacheConsistent'
    BY <1>1, <2>5, <2>8 DEF UpgradeInv, Upgrade!CacheConsistent
  <2>10. ASSUME NEW pc \in {"refresh", "target"}, Upgrade!Turns(p, pc, "apply") PROVE UpgradeInv'
    <3>1. uCall'[p].pc = pc /\ uCall'[p].phase = "apply" /\ uCall'[p] \in Planned => Fits(uCall[p])'
      BY <2>5 DEF Fits, Before, Within
    <3> QED
      BY <2>6, <2>7, <2>9, <2>10, <3>1, <1>1, <1>3, TurnsTo DEF Pcs, Phases
  <2>11. Upgrade!Turns(p, "refresh", "apply") \/ Upgrade!Turns(p, "target", "apply")
    BY <1>5 DEF Upgrade!Publish
  <2> QED
    BY <2>8, <2>10, <2>11 DEF Upgrade!KeepsVersions
<1> QED
  BY <1>4, <1>5 DEF Upgrade!Publish

LEMMA RefreshStep ==
    ASSUME UpgradeInv, NEW p \in UProcess, Upgrade!Refresh(p)
    PROVE  UpgradeInv' /\ Upgrade!KeepsVersions
<1>1. UNCHANGED <<uInstalled, uCache, uPending, uRetained, uReceipts>> /\ uSource' \in Upgrade!Tree
  BY DEF Upgrade!Refresh
<1>2. Disk' /\ Counted' /\ Upgrade!CacheConsistent' /\ Upgrade!KeepsVersions
  BY <1>1, RecordsStay
<1>3. uCall[p].pc = "refresh" /\ Upgrade!Goes(p, "target")
  BY DEF Upgrade!Refresh, Upgrade!At
<1>4. Fits(uCall[p])
  BY <1>3, HolderIs
<1>5. uPending' # Upgrade!NoPending /\ uCall[p].phase = "apply" /\ uCall[p] \in Planned
  BY <1>1, <1>3, <1>4 DEF Fits, Within
<1>6. uCall'[p].pc = "target" /\ uCall'[p].phase = "apply" /\ uCall'[p] \in Planned => Fits(uCall[p])'
  BY <1>5 DEF Fits, Before, Within
<1> QED
  BY <1>2, <1>3, <1>5, <1>6, GoesOn DEF Pcs

LEMMA TargetStep ==
    ASSUME UpgradeInv, NEW p \in UProcess, Upgrade!SetPendingTarget(p)
    PROVE  UpgradeInv' /\ Upgrade!KeepsVersions
<1>1. UNCHANGED <<uSource, uInstalled, uCache, uRetained, uReceipts>> /\ uCall[p].pc = "target"
  BY DEF Upgrade!SetPendingTarget, Upgrade!At
<1>2. Fits(uCall[p])
  BY <1>1, HolderIs
<1>3. uPending # Upgrade!NoPending /\ uCall[p].phase = "apply"
  BY <1>1, <1>2 DEF Fits, Within
<1>4. uPending \in Snapshots /\ uSource \in Upgrade!Tree
  BY <1>3 DEF UpgradeInv, Disk
<1>5. uPending' = [uPending EXCEPT !.target = uSource]
  BY <1>3 DEF Upgrade!SetPendingTarget
<1>6. uPending' \in Snapshots /\ uPending'.id = uPending.id /\ uPending'.versions = uPending.versions
  BY <1>4, <1>5 DEF Snapshots
<1>7. PICK k \in 0..UMaxUpgrades : uRetained = 1..k /\ uPending.id = k + 1 /\ k < UMaxUpgrades
  BY <1>3 DEF UpgradeInv, Counted
<1>8. uPending' # Upgrade!NoPending
  BY <1>6, <1>7 DEF Upgrade!NoPending
<1>9. Disk'
  BY <1>1, <1>6 DEF UpgradeInv, Disk
<1>10. Counted'
  BY <1>1, <1>6, <1>7 DEF UpgradeInv, Counted
<1>11. Upgrade!Protected' = Upgrade!Protected
  BY <1>1, <1>3, <1>6, <1>8 DEF Upgrade!Protected
<1>12. Upgrade!CacheConsistent'
  BY <1>1, <1>8, <1>11 DEF UpgradeInv, Upgrade!CacheConsistent
<1>13. ASSUME NEW pc \in {"restore", "native"}, Upgrade!Goes(p, pc) PROVE UpgradeInv'
  <2>1. uCall'[p].pc = pc /\ uCall'[p].phase = "apply" => Fits(uCall[p])'
    BY <1>8 DEF Fits, Before, Within
  <2> QED
    BY <1>1, <1>3, <1>9, <1>10, <1>12, <1>13, <2>1, GoesOn DEF Pcs
<1>14. Upgrade!Goes(p, "restore") \/ Upgrade!Goes(p, "native")
  BY <1>3 DEF Upgrade!SetPendingTarget
<1> QED
  BY <1>11, <1>13, <1>14 DEF Upgrade!KeepsVersions

LEMMA NativeStep ==
    ASSUME UpgradeInv, NEW p \in UProcess, Upgrade!NativeAdd(p)
    PROVE  UpgradeInv' /\ Upgrade!KeepsVersions
<1>1. UNCHANGED <<uSource, uPending, uRetained, uReceipts>> /\ uCall[p].pc = "native"
  BY DEF Upgrade!NativeAdd, Upgrade!At
<1>2. Fits(uCall[p])
  BY <1>1, HolderIs
<1>3. uPending # Upgrade!NoPending /\ uPending' # Upgrade!NoPending /\ uCall[p].phase # "none"
  BY <1>1, <1>2 DEF Fits, Within
<1>4. uSource \in Upgrade!Tree /\ uInstalled \in UVersion /\ uCache \in Caches
  BY DEF UpgradeInv, Disk
<1>5. PICK keep \in SUBSET (DOMAIN uCache), copied \in BOOLEAN, moved \in BOOLEAN :
        /\ uCache' = [v \in keep \cup (IF copied THEN {uSource.version} ELSE {}) |->
                        IF copied /\ v = uSource.version THEN uSource.content ELSE uCache[v]]
        /\ uInstalled' = IF moved THEN uSource.version ELSE uInstalled
        /\ IF copied /\ moved /\ uSource.version = uPending.target.version
           THEN Upgrade!Goes(p, "restore") ELSE Upgrade!Raise(p)
  BY DEF Upgrade!NativeAdd
<1>6. uSource.version \in UVersion /\ uSource.content \in UContent
  BY <1>4 DEF Upgrade!Tree
<1>7. uCache' \in Caches
  <2> DEFINE D == keep \cup (IF copied THEN {uSource.version} ELSE {})
  <2>1. D \in SUBSET UVersion
    BY <1>4, <1>6, CachesAre
  <2>2. \A v \in D : (IF copied /\ v = uSource.version THEN uSource.content ELSE uCache[v]) \in UContent
    BY <1>4, <1>6, CachesAre
  <2>3. uCache' \in [D -> UContent]
    BY <1>5, <2>2
  <2> HIDE DEF D
  <2> QED
    BY <2>1, <2>3, CachesAre
<1>8. Disk'
  BY <1>1, <1>4, <1>5, <1>6, <1>7 DEF UpgradeInv, Disk
<1>9. Counted'
  BY <1>1 DEF UpgradeInv, Counted
<1>10. Upgrade!Protected' = Upgrade!Protected
  BY <1>1, <1>3 DEF Upgrade!Protected
<1>11. Upgrade!CacheConsistent'
  BY <1>1, <1>3, <1>10 DEF UpgradeInv, Upgrade!CacheConsistent
<1>12. CASE Upgrade!Goes(p, "restore")
  <2>1. uCall'[p].pc = "restore" /\ uCall'[p].phase = uCall[p].phase => Fits(uCall[p])'
    BY <1>3 DEF Fits, Before, Within
  <2> QED
    BY <1>1, <1>8, <1>9, <1>10, <1>11, <1>12, <2>1, GoesOn DEF Pcs, Upgrade!KeepsVersions
<1>13. CASE Upgrade!Raise(p)
  BY <1>1, <1>3, <1>8, <1>9, <1>10, <1>11, <1>13, RaisesThere DEF Upgrade!KeepsVersions
<1> QED
  BY <1>5, <1>12, <1>13

LEMMA RestoreStep ==
    ASSUME UpgradeInv, NEW p \in UProcess, Upgrade!Restore(p)
    PROVE  UpgradeInv' /\ Upgrade!KeepsVersions
<1>1. UNCHANGED <<uSource, uInstalled, uPending, uRetained, uReceipts>> /\ uCall[p].pc = "restore"
  BY DEF Upgrade!Restore, Upgrade!At
<1>2. Fits(uCall[p]) /\ Locked /\ uLock = p
  BY <1>1, HolderIs
<1>3. uPending # Upgrade!NoPending /\ uPending' # Upgrade!NoPending /\ uCall[p].phase # "none"
  BY <1>1, <1>2 DEF Fits, Within
<1>4. uPending \in Snapshots /\ uCache \in Caches
  BY <1>3 DEF UpgradeInv, Disk
<1>5. uPending.versions \in Caches
  BY <1>4 DEF Snapshots
<1>6. CASE UNCHANGED uCache
  <2>1. Disk' /\ Counted' /\ Upgrade!CacheConsistent' /\ Upgrade!KeepsVersions
        /\ Upgrade!Missing' = Upgrade!Missing
    BY <1>1, <1>6, RecordsStay DEF UpgradeInv, Disk
  <2>2. CASE Upgrade!Raise(p)
    BY <2>1, <2>2, <1>1, <1>3, RaisesThere
  <2>3. CASE Upgrade!Goes(p, "attest") /\ Upgrade!Missing = {}
    <3>1. uCall'[p].pc = "attest" /\ uCall'[p].phase = uCall[p].phase => Fits(uCall[p])'
      BY <1>3, <2>1, <2>3 DEF Fits, Before, Within
    <3> QED
      BY <1>1, <2>1, <2>3, <3>1, GoesOn DEF Pcs
  <2>4. CASE UNCHANGED <<uLock, uCall>>
    <3>1. Locked'
      BY <1>2, <2>4 DEF Locked
    <3>2. \A q \in UProcess : Fits(uCall[q])'
      BY <1>1, <1>6, <2>1, <2>4 DEF UpgradeInv, Fits, Upgrade!Entries
    <3> QED
      BY <2>1, <3>1, <3>2 DEF UpgradeInv
  <2> QED
    BY <1>3, <2>1, <2>2, <2>3, <2>4 DEF Upgrade!Restore
<1>7. CASE ~UNCHANGED uCache
  <2> DEFINE v == CHOOSE x \in Upgrade!Missing : \A y \in Upgrade!Missing : x <= y
  <2>1. Upgrade!Missing # {} /\ UNCHANGED <<uLock, uCall>>
        /\ uCache' = [x \in DOMAIN uCache \cup {v} |-> IF x = v THEN uPending.versions[v] ELSE uCache[x]]
    BY <1>3, <1>7 DEF Upgrade!Restore
  <2>2. Upgrade!Missing \subseteq DOMAIN uPending.versions
    BY DEF Upgrade!Missing
  <2>3. v \in DOMAIN uPending.versions
    <3>1. Upgrade!Missing \subseteq Nat
      BY <2>2, <1>5, CachesAre, UpgradeAssumed DEF Upgrade!UpgradeAssumption
    <3>2. \E x \in Upgrade!Missing : \A y \in Upgrade!Missing : x <= y
      BY <2>1, <3>1, NatMin
    <3>3. v \in Upgrade!Missing
      BY <3>2
    <3> QED
      BY <2>2, <3>3
  <2>4. PICK w : w = v
    OBVIOUS
  <2> HIDE DEF v
  <2>5. w \in UVersion /\ uPending.versions[w] \in UContent
    BY <2>3, <2>4, <1>5, CachesAre
  <2>6. uCache' \in Caches
    <3>1. DOMAIN uCache \cup {w} \in SUBSET UVersion
      BY <1>4, <2>5, CachesAre
    <3>2. \A x \in DOMAIN uCache \cup {w} : (IF x = w THEN uPending.versions[w] ELSE uCache[x]) \in UContent
      BY <1>4, <2>5, CachesAre
    <3>3. uCache' \in [DOMAIN uCache \cup {w} -> UContent]
      BY <2>1, <2>4, <3>2
    <3> QED
      BY <3>1, <3>3, CachesAre
  <2>7. Disk'
    BY <1>1, <2>6 DEF UpgradeInv, Disk
  <2>8. Counted'
    BY <1>1 DEF UpgradeInv, Counted
  <2>9. Upgrade!Protected' = Upgrade!Protected
    BY <1>1, <1>3 DEF Upgrade!Protected
  <2>10. Upgrade!CacheConsistent'
    BY <1>1, <1>3, <2>9 DEF UpgradeInv, Upgrade!CacheConsistent
  <2>11. Locked'
    BY <1>2, <2>1 DEF Locked
  <2>12. \A q \in UProcess : Fits(uCall[q])'
    <3>1. uCall' = uCall
      BY <2>1
    <3>2. \A q \in UProcess : q # p => uCall[q] = Upgrade!Idle
      BY <1>1, HolderIs
    <3>3. \A q \in UProcess : q # p => Fits(uCall[q])'
      BY <3>1, <3>2 DEF Fits, Upgrade!Idle, Before, Within
    <3>4. Fits(uCall[p])'
      BY <3>1, <1>1, <1>3 DEF Fits, Before, Within
    <3> QED
      BY <3>3, <3>4
  <2> QED
    BY <2>7, <2>8, <2>9, <2>10, <2>11, <2>12 DEF UpgradeInv, Upgrade!KeepsVersions
<1> QED
  BY <1>6, <1>7

LEMMA ReceiptStep ==
    ASSUME UpgradeInv, NEW p \in UProcess, Upgrade!WriteReceipt(p)
    PROVE  UpgradeInv' /\ Upgrade!KeepsVersions
<1>1. UNCHANGED <<uSource, uInstalled, uCache, uPending, uRetained>> /\ uCall[p].pc = "receipt"
      /\ Upgrade!Goes(p, "retain")
  BY DEF Upgrade!WriteReceipt, Upgrade!At
<1>2. Fits(uCall[p])
  BY <1>1, HolderIs
<1>3. /\ uPending # Upgrade!NoPending /\ uCall[p].phase # "none" /\ Upgrade!Missing = {}
         /\ uInstalled \in DOMAIN uCache
      /\ uCall[p].phase = "apply"
         => <<uPending.target.version, uPending.target.content>> \in Upgrade!Entries(uCache)
  BY <1>1, <1>2 DEF Fits, Within
<1>4. PICK k \in 0..UMaxUpgrades : uRetained = 1..k /\ uPending.id = k + 1 /\ k < UMaxUpgrades
  BY <1>3 DEF UpgradeInv, Counted
<1>5. PICK r : r = [status |-> Upgrade!StatusOf(p), target |-> uPending.target]
  OBVIOUS
<1>6. r.target = uPending.target /\ (r.status = "upgraded" => uCall[p].phase = "apply")
  BY <1>5 DEF Upgrade!StatusOf
<1>7. uReceipts' = [id \in DOMAIN uReceipts \cup {uPending.id} |-> IF id = uPending.id THEN r ELSE uReceipts[id]]
  BY <1>5 DEF Upgrade!WriteReceipt
<1>8. /\ DOMAIN uReceipts' = DOMAIN uReceipts \cup {uPending.id} /\ uReceipts'[uPending.id] = r
      /\ \A id \in DOMAIN uReceipts : id # uPending.id => uReceipts'[id] = uReceipts[id]
  BY <1>7
<1>9. Disk'
  BY <1>1 DEF UpgradeInv, Disk
<1>10. Counted'
  <2>1. UMaxUpgrades \in Nat
    BY UpgradeAssumed DEF Upgrade!UpgradeAssumption
  <2>2. DOMAIN uReceipts' \subseteq 1..(UMaxUpgrades + 1)
    BY <1>4, <1>8, <2>1 DEF UpgradeInv, Counted
  <2> QED
    BY <1>1, <1>4, <2>2 DEF Counted
<1>11. Upgrade!Protected' = Upgrade!Protected /\ Upgrade!Missing' = Upgrade!Missing
       /\ Upgrade!Entries(uCache)' = Upgrade!Entries(uCache)
  BY <1>1 DEF Upgrade!Protected, Upgrade!Missing, Upgrade!Entries
<1>12. Upgrade!CacheConsistent'
  <2>1. ASSUME NEW id \in uRetained PROVE id \in DOMAIN uReceipts' /\ uReceipts'[id] = uReceipts[id]
    <3>1. id # uPending.id
      BY <1>4, <2>1
    <3>2. id \in DOMAIN uReceipts
      BY <2>1 DEF UpgradeInv, Upgrade!CacheConsistent
    <3> QED
      BY <3>1, <3>2, <1>8
  <2> QED
    BY <2>1, <1>1, <1>3, <1>11 DEF UpgradeInv, Upgrade!CacheConsistent
<1>13. uCall'[p].pc = "retain" /\ uCall'[p].phase = uCall[p].phase => Fits(uCall[p])'
  BY <1>1, <1>3, <1>6, <1>8, <1>11 DEF Fits, Before, Within
<1>14. UpgradeInv'
  BY <1>1, <1>9, <1>10, <1>12, <1>13, GoesOn DEF Pcs
<1> QED
  BY <1>11, <1>14 DEF Upgrade!KeepsVersions

LEMMA RetainStep ==
    ASSUME UpgradeInv, NEW p \in UProcess, Upgrade!Retain(p)
    PROVE  UpgradeInv' /\ Upgrade!KeepsVersions
<1>1. UNCHANGED <<uSource, uInstalled, uCache, uReceipts>> /\ uCall[p].pc = "retain"
  BY DEF Upgrade!Retain, Upgrade!At
<1>2. Fits(uCall[p])
  BY <1>1, HolderIs
<1>3. /\ uPending # Upgrade!NoPending /\ uCall[p].phase # "none" /\ Upgrade!Missing = {}
         /\ uInstalled \in DOMAIN uCache
      /\ uPending.id \in DOMAIN uReceipts
      /\ uReceipts[uPending.id].status = "upgraded" =>
            <<uReceipts[uPending.id].target.version, uReceipts[uPending.id].target.content>> \in Upgrade!Entries(uCache)
  BY <1>1, <1>2 DEF Fits, Within
<1>4. PICK k \in 0..UMaxUpgrades : uRetained = 1..k /\ uPending.id = k + 1 /\ k < UMaxUpgrades
  BY <1>3 DEF UpgradeInv, Counted
<1>5. /\ uRetained' = uRetained \cup {uPending.id} /\ uPending' = Upgrade!NoPending
      /\ Upgrade!Ends(p) \/ (Upgrade!Goes(p, "check") /\ uCall[p].phase \in {"recover", "repair"})
  BY <1>3 DEF Upgrade!Retain
<1>6. Upgrade!Protected = Upgrade!Entries(uPending.versions) /\ Upgrade!Protected' = Upgrade!Entries(uCache)
  BY <1>1, <1>3, <1>5 DEF Upgrade!Protected, Upgrade!Entries
<1>7. Upgrade!Protected \subseteq Upgrade!Protected'
  <2>1. \A v \in DOMAIN uPending.versions : v \in DOMAIN uCache /\ uCache[v] = uPending.versions[v]
    BY <1>3 DEF Upgrade!Missing
  <2> QED
    BY <1>6, <2>1 DEF Upgrade!Entries
<1>8. Disk'
  BY <1>1, <1>5 DEF UpgradeInv, Disk
<1>9. Counted'
  <2>1. UMaxUpgrades \in Nat
    BY UpgradeAssumed DEF Upgrade!UpgradeAssumption
  <2>2. k + 1 \in 0..UMaxUpgrades /\ uRetained' = 1..(k + 1)
    BY <1>4, <1>5, <2>1
  <2> QED
    BY <1>1, <1>5, <2>2 DEF UpgradeInv, Counted
<1>10. Upgrade!CacheConsistent'
  <2>1. ASSUME NEW id \in uRetained PROVE
          /\ id \in DOMAIN uReceipts
          /\ uReceipts[id].status = "upgraded" =>
                <<uReceipts[id].target.version, uReceipts[id].target.content>> \in Upgrade!Protected'
    BY <1>7, <2>1 DEF UpgradeInv, Upgrade!CacheConsistent
  <2>2. \A id \in uRetained' :
          /\ id \in DOMAIN uReceipts
          /\ uReceipts[id].status = "upgraded" =>
                <<uReceipts[id].target.version, uReceipts[id].target.content>> \in Upgrade!Protected'
    BY <2>1, <1>3, <1>5, <1>6
  <2> QED
    BY <2>2, <1>1, <1>3 DEF Upgrade!CacheConsistent
<1>11. CASE Upgrade!Ends(p)
  BY <1>1, <1>7, <1>8, <1>9, <1>10, <1>11, EndsThere DEF Upgrade!KeepsVersions
<1>12. CASE Upgrade!Goes(p, "check") /\ uCall[p].phase \in {"recover", "repair"}
  <2>1. uCall'[p].pc = "check" /\ uCall'[p].phase = uCall[p].phase => Fits(uCall[p])'
    BY <1>5, <1>12 DEF Fits, Before, Within
  <2> QED
    BY <1>1, <1>7, <1>8, <1>9, <1>10, <1>12, <2>1, GoesOn DEF Pcs, Upgrade!KeepsVersions
<1> QED
  BY <1>5, <1>11, <1>12

LEMMA InterruptStep ==
    ASSUME UpgradeInv, NEW p \in UProcess, Upgrade!Interrupt(p)
    PROVE  UpgradeInv' /\ Upgrade!KeepsVersions
<1>1. UNCHANGED <<uInstalled, uCache, uPending, uRetained, uReceipts>> /\ uSource' = uSource
      /\ uCall[p].pc # "idle"
  BY DEF Upgrade!Interrupt, Upgrade!At
<1>2. Disk' /\ Counted' /\ Upgrade!CacheConsistent' /\ Upgrade!KeepsVersions
  BY <1>1, RecordsStay DEF UpgradeInv, Disk
<1>3. CASE uCall[p].phase = "apply"
  <2>1. Fits(uCall[p]) /\ uCall[p] \in Calls
    BY <1>1, HolderIs
  <2>2. uCall[p].pc \in Pcs
    BY <2>1 DEF Calls, Planned
  <2>3. uPending' # Upgrade!NoPending
    BY <1>1, <1>3, <2>1, <2>2 DEF Fits, Pcs, Before, Within
  <2>4. Upgrade!Raise(p)
    BY <1>3 DEF Upgrade!Interrupt
  <2> QED
    BY <1>1, <1>2, <2>3, <2>4, RaisesThere
<1>4. CASE uCall[p].phase # "apply"
  BY <1>1, <1>2, <1>4, EndsThere DEF Upgrade!Interrupt
<1> QED
  BY <1>3, <1>4

LEMMA NobodyMoves ==
    ASSUME UpgradeInv, UNCHANGED <<uInstalled, uCache, uPending, uRetained, uReceipts, uLock, uCall>>,
           uSource' \in Upgrade!Tree
    PROVE  UpgradeInv' /\ Upgrade!KeepsVersions
<1>1. Disk' /\ Counted' /\ Upgrade!CacheConsistent' /\ Upgrade!KeepsVersions
      /\ Upgrade!Missing' = Upgrade!Missing /\ Upgrade!Entries(uCache)' = Upgrade!Entries(uCache)
  BY RecordsStay
<1>2. Locked'
  BY DEF UpgradeInv, Locked
<1>3. \A q \in UProcess : Fits(uCall[q])'
  BY <1>1 DEF UpgradeInv, Fits, Upgrade!Entries
<1> QED
  BY <1>1, <1>2, <1>3 DEF UpgradeInv

LEMMA UpgradeNext == UpgradeInv /\ [Upgrade!Next]_Upgrade!vars => UpgradeInv' /\ Upgrade!KeepsVersions
<1> SUFFICES ASSUME UpgradeInv, [Upgrade!Next]_Upgrade!vars PROVE UpgradeInv' /\ Upgrade!KeepsVersions
  OBVIOUS
<1>1. ASSUME NEW p \in UProcess,
             \/ \E only \in BOOLEAN : Upgrade!Begin(p, only)
             \/ Upgrade!Check(p) \/ Upgrade!Inspect(p) \/ Upgrade!Stage(p) \/ Upgrade!Publish(p)
                \/ Upgrade!Refresh(p)
             \/ Upgrade!SetPendingTarget(p) \/ Upgrade!NativeAdd(p) \/ Upgrade!Restore(p) \/ Upgrade!Attest(p)
             \/ Upgrade!WriteReceipt(p) \/ Upgrade!Retain(p) \/ Upgrade!Interrupt(p) \/ Upgrade!Kill(p)
      PROVE  UpgradeInv' /\ Upgrade!KeepsVersions
  BY <1>1, BeginStep, LookSteps, StageStep, PublishStep, RefreshStep, TargetStep, NativeStep,
     RestoreStep, ReceiptStep, RetainStep, InterruptStep
<1>2. CASE Upgrade!ClearResidue
  BY <1>2, NobodyMoves DEF Upgrade!ClearResidue, UpgradeInv, Disk
<1>3. CASE Upgrade!SourceMoves
  BY <1>3, NobodyMoves DEF Upgrade!SourceMoves
<1>4. CASE UNCHANGED Upgrade!vars
  BY <1>4, NobodyMoves DEF Upgrade!vars, UpgradeInv, Disk
<1> QED
  BY <1>1, <1>2, <1>3, <1>4 DEF Upgrade!Next

LEMMA UpgradeMeans == UpgradeInv => Upgrade!TypeOK /\ Upgrade!CacheConsistent
<1> SUFFICES ASSUME UpgradeInv PROVE Upgrade!TypeOK /\ Upgrade!CacheConsistent
  OBVIOUS
<1>1. uSource \in Upgrade!Tree /\ uInstalled \in UVersion
  BY DEF UpgradeInv, Disk
<1>2. DOMAIN uCache \subseteq UVersion /\ Upgrade!Range(uCache) \subseteq UContent
  BY CachesAre DEF UpgradeInv, Disk, Upgrade!Range
<1>3. uPending # Upgrade!NoPending => uPending.target \in Upgrade!Tree \cup {Upgrade!NoTarget}
  BY DEF UpgradeInv, Disk, Snapshots
<1>4. uRetained \subseteq 1..UMaxUpgrades /\ DOMAIN uReceipts \subseteq 1..(UMaxUpgrades + 1)
  BY UpgradeAssumed DEF UpgradeInv, Counted, Upgrade!UpgradeAssumption
<1>5. uLock \in UProcess \cup {Upgrade!Nobody} /\ \A p \in UProcess : Upgrade!At(p, "idle") <=> uLock # p
  BY DEF UpgradeInv, Locked, Upgrade!At
<1> QED
  BY <1>1, <1>2, <1>3, <1>4, <1>5 DEF Upgrade!TypeOK, UpgradeInv

\* Killed, interrupted or started twice at any step: when nothing is pending the cache has the
\* version the registry names, what a receipt calls upgraded is kept, and no version is lost
\* (plugin_cache_upgrade.py).
THEOREM UpgradeHolds == Upgrade!Spec => [](Upgrade!TypeOK /\ Upgrade!CacheConsistent)
    /\ [][Upgrade!KeepsVersions]_Upgrade!vars
<1>1. Upgrade!Spec => []UpgradeInv
  BY UpgradeInit, UpgradeNext, PTL DEF Upgrade!Spec
<1>2. UpgradeInv /\ [Upgrade!Next]_Upgrade!vars => [Upgrade!KeepsVersions]_Upgrade!vars
  BY UpgradeNext
<1> QED
  BY <1>1, <1>2, UpgradeMeans, PTL DEF Upgrade!Spec

-----------------------------------------------------------------------------
(* QuotaLedger: an order of the rows that makes the latest one the last.      *)

LEMMA QuotaAssumed == Quota!QuotaAssumption
  BY OperationsAssumption

LEMMA NatMax == ASSUME NEW T, T \subseteq Nat, T # {}, NEW b \in Nat, \A y \in T : y <= b
                PROVE \E x \in T : \A y \in T : y <= x
<1> DEFINE D == {b - y : y \in T}
<1>1. D \subseteq Nat /\ D # {}
  <2>1. \A y \in T : b - y \in Nat
    OBVIOUS
  <2> QED
    BY <2>1
<1>2. PICK d \in D : \A e \in D : d <= e
  <2> HIDE DEF D
  <2> QED
    BY <1>1, NatMin
<1>3. PICK x \in T : d = b - x
  OBVIOUS
<1>4. ASSUME NEW y \in T PROVE y <= x
  <2>1. b - y \in D
    OBVIOUS
  <2>2. d <= b - y
    BY <1>2, <2>1
  <2>3. x \in Nat /\ y \in Nat
    OBVIOUS
  <2> HIDE DEF D
  <2> QED
    BY <1>3, <2>2, <2>3
<1> QED
  BY <1>4

QRow == [at : 0..QMaxClock, status : {"none", "lost", "complete", "empty"}, low : BOOLEAN,
         window : QWindow, native : BOOLEAN]

LEMMA RowsTyped == ASSUME Quota!TypeOK PROVE /\ qClock \in Nat /\ qRows \in Seq(QRow) /\ Len(qRows) \in Nat
                                             /\ DOMAIN qRows = 1..Len(qRows)
                                             /\ \A i \in DOMAIN qRows : qRows[i] \in QRow /\ qRows[i].at \in Nat
<1>1. qClock \in Nat /\ qRows \in Seq(QRow)
  BY QuotaAssumed DEF Quota!TypeOK, Quota!QuotaAssumption, QRow
<1>2. Len(qRows) \in Nat /\ DOMAIN qRows = 1..Len(qRows) /\ \A i \in DOMAIN qRows : qRows[i] \in QRow
  BY <1>1
<1>3. \A q \in QRow : q.at \in Nat
  BY QuotaAssumed DEF Quota!QuotaAssumption, QRow
<1> QED
  BY <1>1, <1>2, <1>3

LEMMA FirstExists ==
    ASSUME Quota!TypeOK, NEW S, S \subseteq Quota!Timed, S # {}
    PROVE  \E i \in S : \A j \in S \ {i} : Quota!Before(i, j)
<1>1. \A i \in S : qRows[i].at \in Nat /\ qRows[i].at <= QMaxClock /\ i \in Nat /\ i <= Len(qRows)
  BY RowsTyped, QuotaAssumed DEF Quota!Timed, QRow, Quota!QuotaAssumption
<1>2. PICK a \in S : \A j \in S : qRows[j].at <= qRows[a].at
  <2> DEFINE T == {qRows[i].at : i \in S}
  <2>1. T \subseteq Nat /\ T # {} /\ \A y \in T : y <= QMaxClock
    BY <1>1
  <2>2. PICK x \in T : \A y \in T : y <= x
    <3> HIDE DEF T
    <3> QED
      BY <2>1, NatMax, QuotaAssumed DEF Quota!QuotaAssumption
  <2> QED
    BY <2>2
<1>3. PICK i \in S : qRows[i].at = qRows[a].at /\ \A j \in S : qRows[j].at = qRows[a].at => j <= i
  <2> DEFINE T == {i \in S : qRows[i].at = qRows[a].at}
  <2>1. T \subseteq Nat /\ T # {} /\ \A y \in T : y <= Len(qRows)
    BY <1>1
  <2>3. Len(qRows) \in Nat
    BY RowsTyped
  <2>2. PICK x \in T : \A y \in T : y <= x
    <3> HIDE DEF T
    <3> QED
      BY <2>1, <2>3, NatMax
  <2> QED
    BY <2>2
<1>4. ASSUME NEW j \in S \ {i} PROVE Quota!Before(i, j)
  <2>1. qRows[j].at <= qRows[i].at /\ (qRows[j].at = qRows[i].at => j <= i)
    BY <1>2, <1>3
  <2>2. qRows[j].at \in Nat /\ qRows[i].at \in Nat /\ i \in Nat /\ j \in Nat /\ j # i
    BY <1>1
  <2> QED
    BY <2>1, <2>2 DEF Quota!Before
<1> QED
  BY <1>4

LEMMA LastExists ==
    ASSUME Quota!TypeOK, NEW S, S \subseteq Quota!Timed, S # {}
    PROVE  \E i \in S : \A j \in S \ {i} : Quota!Before(j, i)
<1>1. \A i \in S : qRows[i].at \in Nat /\ i \in Nat
  BY RowsTyped DEF Quota!Timed
<1>2. PICK a \in S : \A j \in S : qRows[a].at <= qRows[j].at
  <2> DEFINE T == {qRows[i].at : i \in S}
  <2>1. T \subseteq Nat /\ T # {}
    BY <1>1
  <2>2. PICK x \in T : \A y \in T : x <= y
    <3> HIDE DEF T
    <3> QED
      BY <2>1, NatMin
  <2> QED
    BY <2>2
<1>3. PICK i \in S : qRows[i].at = qRows[a].at /\ \A j \in S : qRows[j].at = qRows[a].at => i <= j
  <2> DEFINE T == {i \in S : qRows[i].at = qRows[a].at}
  <2>1. T \subseteq Nat /\ T # {}
    BY <1>1
  <2>2. PICK x \in T : \A y \in T : x <= y
    <3> HIDE DEF T
    <3> QED
      BY <2>1, NatMin
  <2> QED
    BY <2>2
<1>4. ASSUME NEW j \in S \ {i} PROVE Quota!Before(j, i)
  <2>1. qRows[i].at <= qRows[j].at /\ (qRows[j].at = qRows[i].at => i <= j)
    BY <1>2, <1>3
  <2>2. qRows[j].at \in Nat /\ qRows[i].at \in Nat /\ i \in Nat /\ j \in Nat /\ j # i
    BY <1>1
  <2> QED
    BY <2>1, <2>2 DEF Quota!Before
<1> QED
  BY <1>4

LEMMA BeforeOrder ==
    ASSUME Quota!TypeOK, NEW i \in Quota!Timed, NEW j \in Quota!Timed
    PROVE  /\ Quota!Before(i, j) => ~Quota!Before(j, i)
           /\ i # j => Quota!Before(i, j) \/ Quota!Before(j, i)
           /\ \A k \in Quota!Timed : Quota!Before(i, j) /\ Quota!Before(j, k) => Quota!Before(i, k)
  BY RowsTyped DEF Quota!Timed, Quota!Before

LEMMA LatestIs ==
    ASSUME Quota!TypeOK, Quota!Timed # {}
    PROVE  Quota!Latest \in Quota!Timed /\ \A j \in Quota!Timed \ {Quota!Latest} : Quota!Before(Quota!Latest, j)
  BY FirstExists DEF Quota!Latest, Quota!First

LEMMA PreviousIs ==
    ASSUME Quota!TypeOK, NEW c \in Quota!Timed, c # Quota!Latest
    PROVE  /\ Quota!Previous(c) \in Quota!Timed /\ Quota!Before(Quota!Previous(c), c)
           /\ \A j \in Quota!Timed : Quota!Before(j, c) /\ j # Quota!Previous(c)
              => Quota!Before(j, Quota!Previous(c))
<1>1. Quota!Latest \in Quota!Passed(c)
  BY LatestIs DEF Quota!Passed
<1>2. Quota!Passed(c) \subseteq Quota!Timed
  BY DEF Quota!Passed
<1> QED
  BY <1>1, <1>2, LastExists DEF Quota!Previous, Quota!Last, Quota!Passed

LEMMA BorrowedIs ==
    ASSUME Quota!TypeOK, NEW c \in Quota!Borrowed, NEW d \in Quota!Borrowed
    PROVE  c = d
<1>1. c \in Quota!Timed /\ d \in Quota!Timed /\ c # Quota!Latest /\ d # Quota!Latest
  BY DEF Quota!Borrowed
<1>2. CASE Quota!Before(c, d)
  BY <1>1, <1>2 DEF Quota!Borrowed, Quota!Passed
<1>3. CASE Quota!Before(d, c)
  BY <1>1, <1>3 DEF Quota!Borrowed, Quota!Passed
<1> QED
  BY <1>1, <1>2, <1>3, BeforeOrder

LEMMA RecoveredIs ==
    ASSUME Quota!TypeOK, Quota!Timed # {}
    PROVE  /\ Quota!RecoveredQuota \in Quota!Timed
           /\ \/ Quota!RecoveredQuota = Quota!Latest
              \/ /\ Quota!RecoveredQuota \in Quota!Borrowed
                 /\ qRows[Quota!Latest].status = "empty" /\ qRows[Quota!Latest].native
                    /\ Quota!Fresh(qRows[Quota!Latest])
<1>1. Quota!Latest \in Quota!Timed
  BY LatestIs
<1>2. Quota!Borrowed \subseteq Quota!Timed
  BY DEF Quota!Borrowed
<1> QED
  BY <1>1, <1>2 DEF Quota!RecoveredQuota

\* Nothing of unknown time lies between a row that may be borrowed and the newest.
LEMMA NothingBetween ==
    ASSUME Quota!TypeOK, NEW e \in Quota!Borrowed, NEW i \in Quota!Untimed, e < i
    PROVE  i > Quota!Latest
<1>1. e \in Quota!Timed /\ e # Quota!Latest /\ i \in DOMAIN qRows /\ i \notin Quota!Timed
  BY DEF Quota!Borrowed, Quota!Untimed
<1>2. Quota!Latest \in Quota!Timed /\ \A j \in Quota!Timed \ {Quota!Latest} : Quota!Before(Quota!Latest, j)
  BY LatestIs, <1>1
<1>3. \A j \in Quota!Timed : j \in Nat
  BY RowsTyped DEF Quota!Timed
<1>4. i \in Nat
  BY <1>1, RowsTyped
<1> SUFFICES ASSUME ~(i > Quota!Latest) PROVE FALSE
  OBVIOUS
<1>5. i < Quota!Latest
  BY <1>1, <1>2, <1>3, <1>4
<1> DEFINE S == {j \in Quota!Passed(e) \cup {e} : j < i}
<1>6. S \subseteq Quota!Timed /\ e \in S
  BY <1>1 DEF Quota!Passed
<1>7. PICK x \in S : \A j \in S \ {x} : Quota!Before(x, j)
  <2> HIDE DEF S
  <2> QED
    BY <1>6, FirstExists
<1>8. x \in Quota!Timed /\ x < i /\ (x = e \/ Quota!Before(x, e))
  BY <1>6, <1>7 DEF Quota!Passed
<1>9. x # Quota!Latest
  BY <1>8, <1>5, <1>3, <1>4
<1>10. ~Quota!Refuses(x)
  BY <1>8, <1>9 DEF Quota!Borrowed, Quota!Passed
<1> DEFINE p == Quota!Previous(x)
<1>11. p \in Quota!Timed /\ Quota!Before(p, x)
  BY <1>8, <1>9, PreviousIs
<1>12. Quota!Before(p, e)
  BY <1>8, <1>11, <1>1, BeforeOrder
<1>13. ~(p < i)
  <2> SUFFICES ASSUME p < i PROVE FALSE
    OBVIOUS
  <2>1. p \in S
    BY <1>12, <1>11 DEF Quota!Passed
  <2>2. p # x
    BY <1>11, BeforeOrder
  <2>3. Quota!Before(x, p)
    BY <2>1, <2>2, <1>7
  <2> HIDE DEF p, S
  <2> QED
    BY <2>3, <1>11, <1>8, BeforeOrder
<1>14. i < p
  <2>1. p # i
    BY <1>11, <1>1
  <2> HIDE DEF p
  <2> QED
    BY <1>13, <1>11, <1>3, <1>4, <2>1
<1>15. i \in Quota!Untimed /\ x < i
  BY <1>8
<1> QED
  BY <1>10, <1>14, <1>15 DEF Quota!Refuses

LEMMA QuotaAdmissionCurrent == Quota!TypeOK => Quota!AdmissionCurrent
<1> SUFFICES ASSUME Quota!TypeOK, Quota!Admits PROVE Quota!AdmissionCurrent
  BY DEF Quota!AdmissionCurrent
<1> DEFINE e == Quota!RecoveredQuota
<1>1. Quota!Timed # {} /\ ~Quota!Barred /\ Quota!DispatchDecision(qRows[e])
  BY DEF Quota!Admits, Quota!Barred
<1>2. e \in Quota!Timed /\ (e = Quota!Latest \/ e \in Quota!Borrowed)
  BY <1>1, RecoveredIs
<1>3. Quota!Latest \in Quota!Timed /\ \A j \in Quota!Timed \ {Quota!Latest} : Quota!Before(Quota!Latest, j)
  BY <1>1, LatestIs
<1>4. qRows[e].native /\ qRows[e].status = "complete" /\ ~qRows[e].low /\ qClock - qRows[e].at <= QTtl
  BY <1>1 DEF Quota!DispatchDecision, Quota!Fresh
<1>5. qRows[e].at \notin Quota!Ambiguous
  <2>1. CASE e = Quota!Latest
    BY <2>1, <1>1 DEF Quota!Barred
  <2>2. CASE e \in Quota!Borrowed
    BY <2>2 DEF Quota!Borrowed, Quota!Refuses
  <2> QED
    BY <1>2, <2>1, <2>2
<1>6. ASSUME NEW i \in DOMAIN qRows
      PROVE  \/ qRows[i].at = 0 /\ i < e
             \/ qRows[i] = qRows[e]
             \/ qRows[i].at # 0 /\ qRows[i].at < qRows[e].at
             \/ /\ qRows[i].at > qRows[e].at /\ qRows[i].native /\ qRows[i].status = "empty"
                /\ qClock < qRows[e].window
  <2>1. i \in Nat /\ e \in Nat /\ Quota!Latest \in Nat /\ qRows[i].at \in Nat /\ qRows[e].at \in Nat
    BY RowsTyped, <1>2, <1>3 DEF Quota!Timed
  <2>2. CASE i \in Quota!Untimed
    <3>1. qRows[i].at = 0 /\ i # e
      BY <2>2, <1>2 DEF Quota!Untimed, Quota!Timed
    <3>2. ~(i > Quota!Latest)
      BY <2>2, <1>1 DEF Quota!Barred
    <3>3. ~(e < i)
      <4>1. CASE e = Quota!Latest
        BY <4>1, <3>2, <2>1
      <4>2. CASE e \in Quota!Borrowed
        BY <4>2, <3>2, <2>2, NothingBetween
      <4> QED
        BY <4>1, <4>2, <1>2
    <3> HIDE DEF e
    <3> QED
      BY <3>1, <3>3, <2>1
  <2>3. CASE i \in Quota!Timed
    <3>1. qRows[i].at # 0
      BY <2>3 DEF Quota!Timed
    <3>2. CASE qRows[i].at = qRows[e].at
      <4>1. qRows[i] = qRows[e]
        BY <3>2, <2>3, <1>2, <1>5 DEF Quota!Ambiguous
      <4> QED
        BY <4>1
    <3>3. CASE qRows[i].at < qRows[e].at
      BY <3>1, <3>3
    <3>4. CASE qRows[i].at > qRows[e].at
      <4>7. i # e
        <5> HIDE DEF e
        <5> QED
          BY <3>4, <2>1
      <4>1. Quota!Before(i, e) /\ i # e
        BY <3>4, <4>7 DEF Quota!Before
      <4>2. e # Quota!Latest
        BY <4>1, <1>3, <2>3, <1>2, BeforeOrder
      <4>3. e \in Quota!Borrowed /\ qRows[Quota!Latest].status = "empty" /\ qRows[Quota!Latest].native
        BY <4>2, <1>1, RecoveredIs
      <4>4. i \in Quota!Passed(e)
        BY <4>1, <2>3 DEF Quota!Passed
      <4>5. qRows[i].status = "empty" /\ qRows[i].native
        <5>1. CASE i = Quota!Latest
          BY <5>1, <4>3
        <5>2. CASE i # Quota!Latest
          BY <5>2, <4>3, <4>4 DEF Quota!Borrowed, Quota!Refuses
        <5> QED
          BY <5>1, <5>2
      <4>6. qClock < qRows[e].window
        BY <4>3, <1>4 DEF Quota!Borrowed, Quota!Refuses, Quota!Binds
      <4> QED
        BY <3>4, <4>5, <4>6
    <3> HIDE DEF e
    <3> QED
      BY <3>2, <3>3, <3>4, <2>1
  <2> QED
    BY <2>2, <2>3 DEF Quota!Untimed
<1> QED
  BY <1>4, <1>6 DEF Quota!AdmissionCurrent

\* What holds of the order in every state.
OrderFacts ==
    /\ \A i, j \in Quota!Timed : Quota!Before(i, j) => ~Quota!Before(j, i)
    /\ \A i, j \in Quota!Timed : i # j => Quota!Before(i, j) \/ Quota!Before(j, i)
    /\ \A i, j, k \in Quota!Timed : Quota!Before(i, j) /\ Quota!Before(j, k) => Quota!Before(i, k)
    /\ Quota!Timed # {} => /\ Quota!Latest \in Quota!Timed /\ \A j \in Quota!Timed \ {Quota!Latest} : Quota!Before(Quota!Latest, j)
                           /\ Quota!RecoveredQuota \in Quota!Timed
                           /\ \/ Quota!RecoveredQuota = Quota!Latest
                              \/ /\ Quota!RecoveredQuota \in Quota!Borrowed
                                 /\ qRows[Quota!Latest].status = "empty" /\ qRows[Quota!Latest].native
                                    /\ Quota!Fresh(qRows[Quota!Latest])
    /\ \A c \in Quota!Timed : c # Quota!Latest =>
          /\ Quota!Previous(c) \in Quota!Timed /\ Quota!Before(Quota!Previous(c), c)
          /\ \A j \in Quota!Timed : Quota!Before(j, c) /\ j # Quota!Previous(c)
             => Quota!Before(j, Quota!Previous(c))
    /\ \A c, d \in Quota!Borrowed : c = d

LEMMA OrderHolds == Quota!TypeOK => OrderFacts
<1> SUFFICES ASSUME Quota!TypeOK PROVE OrderFacts
  OBVIOUS
<1>1. \A c \in Quota!Timed : c # Quota!Latest =>
          /\ Quota!Previous(c) \in Quota!Timed /\ Quota!Before(Quota!Previous(c), c)
          /\ \A j \in Quota!Timed : Quota!Before(j, c) /\ j # Quota!Previous(c)
             => Quota!Before(j, Quota!Previous(c))
  BY PreviousIs
<1>2. \A c, d \in Quota!Borrowed : c = d
  BY BorrowedIs
<1> QED
  BY <1>1, <1>2, BeforeOrder, LatestIs, RecoveredIs DEF OrderFacts

LEMMA OrderHoldsAfter == Quota!TypeOK' => OrderFacts'
  BY OrderHolds, PTL

LEMMA QuotaInit == Quota!Init => Quota!TypeOK
<1> SUFFICES ASSUME Quota!Init PROVE Quota!TypeOK
  OBVIOUS
<1>1. Quota!NoRow \in QRow
  BY QuotaAssumed DEF Quota!NoRow, Quota!Row, QRow, Quota!QuotaAssumption
<1>2. qHand \in [QSlow -> QRow]
  BY <1>1 DEF Quota!Init
<1>3. qClock \in 1..QMaxClock
  BY QuotaAssumed DEF Quota!Init, Quota!QuotaAssumption
<1>4. qRows \in Seq(QRow) /\ Len(qRows) <= QMaxRows
  BY QuotaAssumed DEF Quota!Init, Quota!QuotaAssumption
<1> QED
  BY <1>2, <1>3, <1>4 DEF Quota!TypeOK, QRow

LEMMA Appends ==
    ASSUME Quota!TypeOK, NEW row \in QRow, Quota!WriteQuota(row)
    PROVE  qRows' \in Seq(QRow) /\ Len(qRows') <= QMaxRows
<1>1. qRows \in Seq(QRow)
  BY RowsTyped
<1> QED
  BY <1>1, QuotaAssumed DEF Quota!WriteQuota, Quota!QuotaAssumption

LEMMA RowMade ==
    ASSUME NEW at \in 0..QMaxClock, NEW s \in {"none", "lost", "complete", "empty"}, NEW low \in BOOLEAN,
           NEW w \in QWindow, NEW native \in BOOLEAN
    PROVE  Quota!Row(at, s, low, w, native) \in QRow
  BY DEF Quota!Row, QRow

LEMMA RowsMade ==
    ASSUME Quota!TypeOK
    PROVE  /\ Quota!Collected \cup Quota!Exported \subseteq QRow
           /\ \A s \in {"complete", "empty"} : Quota!Row(qClock, s, FALSE, 0, FALSE) \in QRow
<1>1. qClock \in 0..QMaxClock /\ 0 \in 0..QMaxClock
  BY QuotaAssumed DEF Quota!TypeOK, Quota!QuotaAssumption
<1>2. 0 \in QWindow /\ TRUE \in BOOLEAN /\ FALSE \in BOOLEAN
  BY QuotaAssumed DEF Quota!QuotaAssumption
<1>3. Quota!Exported \subseteq QRow
  <2> SUFFICES ASSUME NEW at \in {0, qClock} PROVE Quota!Row(at, "complete", FALSE, 0, FALSE) \in QRow
    BY DEF Quota!Exported
  <2> QED
    BY <1>1, <1>2, RowMade
<1>4. \A s \in {"complete", "empty"} : Quota!Row(qClock, s, FALSE, 0, FALSE) \in QRow
  BY <1>1, <1>2, RowMade
<1>5. Quota!Collected \subseteq QRow
  <2>1. \A low \in BOOLEAN, w \in QWindow : Quota!Row(qClock, "complete", low, w, TRUE) \in QRow
    BY <1>1, <1>2, RowMade
  <2>2. Quota!Row(qClock, "lost", FALSE, 0, TRUE) \in QRow
        /\ Quota!Row(qClock, "empty", FALSE, 0, TRUE) \in QRow
    BY <1>1, <1>2, RowMade
  <2> SUFFICES ASSUME NEW q \in Quota!Collected PROVE q \in QRow
    OBVIOUS
  <2>3. \/ q \in {Quota!Row(qClock, "lost", FALSE, 0, TRUE), Quota!Row(qClock, "empty", FALSE, 0, TRUE)}
        \/ \E w \in QWindow : q \in {Quota!Row(qClock, "complete", low, w, TRUE) : low \in BOOLEAN}
    BY DEF Quota!Collected, Quota!Open
  <2> QED
    BY <2>1, <2>2, <2>3
<1> QED
  BY <1>3, <1>4, <1>5

LEMMA QuotaTypes == Quota!TypeOK /\ [Quota!Next]_Quota!vars => Quota!TypeOK'
<1> SUFFICES ASSUME Quota!TypeOK, [Quota!Next]_Quota!vars PROVE Quota!TypeOK'
  OBVIOUS
<1>1. qClock \in 1..QMaxClock /\ qHand \in [QSlow -> QRow] /\ qRows \in Seq(QRow) /\ Len(qRows) <= QMaxRows
  BY DEF Quota!TypeOK, QRow
<1> SUFFICES qClock' \in 1..QMaxClock /\ qHand' \in [QSlow -> QRow] /\ qRows' \in Seq(QRow)
             /\ Len(qRows') <= QMaxRows
  BY DEF Quota!TypeOK, QRow
<1>2. CASE Quota!Tick
  BY <1>1, <1>2, QuotaAssumed DEF Quota!Tick, Quota!QuotaAssumption
<1>3. CASE Quota!RefreshOnce
  <2>1. PICK row \in Quota!Collected \cup Quota!Exported : Quota!WriteQuota(row)
    BY <1>3 DEF Quota!RefreshOnce
  <2> QED
    BY <2>1, <1>3, <1>1, RowsMade, Appends DEF Quota!RefreshOnce
<1>4. CASE Quota!SetQuota
  <2>1. PICK s \in {"complete", "empty"} : Quota!WriteQuota(Quota!Row(qClock, s, FALSE, 0, FALSE))
    BY <1>4 DEF Quota!SetQuota
  <2> QED
    BY <2>1, <1>4, <1>1, RowsMade, Appends DEF Quota!SetQuota
<1>5. ASSUME NEW r \in QSlow, Quota!ReadSnapshot(r) PROVE qClock' \in 1..QMaxClock
             /\ qHand' \in [QSlow -> QRow] /\ qRows' \in Seq(QRow) /\ Len(qRows') <= QMaxRows
  BY <1>5, <1>1, RowsMade DEF Quota!ReadSnapshot
<1>6. ASSUME NEW r \in QSlow, Quota!WriteLate(r) PROVE qClock' \in 1..QMaxClock
             /\ qHand' \in [QSlow -> QRow] /\ qRows' \in Seq(QRow) /\ Len(qRows') <= QMaxRows
  <2>1. Quota!NoRow \in QRow
    BY QuotaAssumed DEF Quota!NoRow, Quota!Row, QRow, Quota!QuotaAssumption
  <2>2. qHand[r] \in QRow /\ Quota!WriteQuota(qHand[r])
    BY <1>6, <1>1 DEF Quota!WriteLate
  <2> QED
    BY <2>1, <2>2, <1>6, <1>1, Appends DEF Quota!WriteLate
<1>7. CASE UNCHANGED Quota!vars
  BY <1>1, <1>7 DEF Quota!vars
<1> QED
  BY <1>2, <1>3, <1>4, <1>5, <1>6, <1>7 DEF Quota!Next

\* A row that may be borrowed later may be borrowed now, when no row came.
LEMMA TimePasses ==
    ASSUME Quota!TypeOK, Quota!TypeOK', OrderFacts, OrderFacts', qRows' = qRows, qClock' \in Nat,
           qClock <= qClock', Quota!Admits'
    PROVE  Quota!Admits
<1>1. Quota!Timed' = Quota!Timed /\ Quota!Untimed' = Quota!Untimed /\ Quota!Ambiguous' = Quota!Ambiguous
  BY DEF Quota!Timed, Quota!Untimed, Quota!Ambiguous
<1>2. Quota!Latest' = Quota!Latest /\ \A c : Quota!Passed(c)' = Quota!Passed(c)
      /\ Quota!Previous(c)' = Quota!Previous(c)
  BY <1>1 DEF Quota!Latest, Quota!First, Quota!Last, Quota!Passed, Quota!Previous, Quota!Before
<1>3. qClock \in Nat /\ \A i \in DOMAIN qRows : qRows[i].at \in Nat /\ qRows[i].window \in Nat
  BY RowsTyped, QuotaAssumed DEF QRow, Quota!QuotaAssumption
<1>4. \A i \in DOMAIN qRows : qRows[i].at # 0 /\ qClock' - qRows[i].at <= QTtl => Quota!Fresh(qRows[i])
  BY <1>3, QuotaAssumed DEF Quota!Fresh, Quota!QuotaAssumption
<1>5. \A i \in DOMAIN qRows : qRows[i].window # 0 /\ qClock' < qRows[i].window => Quota!Binds(qRows[i])
  BY <1>3 DEF Quota!Binds
<1>6. \A c \in Quota!Timed : ~Quota!Refuses(c)' => ~Quota!Refuses(c)
  <2> SUFFICES ASSUME NEW c \in Quota!Timed, Quota!Refuses(c) PROVE Quota!Refuses(c)'
    OBVIOUS
  <2>1. c \in DOMAIN qRows
    BY DEF Quota!Timed
  <2> QED
    BY <2>1, <1>1, <1>2, <1>4, <1>5 DEF Quota!Refuses, Quota!Fresh, Quota!Binds
<1>7. Quota!Borrowed' \subseteq Quota!Borrowed
  <2> SUFFICES ASSUME NEW c \in Quota!Borrowed' PROVE c \in Quota!Borrowed
    OBVIOUS
  <2>1. c \in Quota!Timed \ {Quota!Latest} /\ qRows[c].status # "empty" /\ ~Quota!Refuses(c)'
    BY <1>1, <1>2 DEF Quota!Borrowed
  <2>2. \A i \in Quota!Passed(c) \ {Quota!Latest} : qRows[i].status = "empty" /\ ~Quota!Refuses(i)'
    BY <1>1, <1>2 DEF Quota!Borrowed
  <2>3. Quota!Passed(c) \subseteq Quota!Timed
    BY DEF Quota!Passed
  <2> QED
    BY <2>1, <2>2, <2>3, <1>6 DEF Quota!Borrowed
<1>8. qRows # <<>> /\ ~Quota!Barred /\ Quota!DispatchDecision(qRows[Quota!RecoveredQuota])'
  BY <1>1, <1>2 DEF Quota!Admits, Quota!Barred
<1>9. Quota!Timed # {}
  BY <1>8 DEF Quota!Barred
<1>10. Quota!RecoveredQuota' \in Quota!Timed
  BY <1>1, <1>9 DEF OrderFacts
<1>11. Quota!RecoveredQuota' = Quota!RecoveredQuota
  <2>1. CASE Quota!RecoveredQuota' = Quota!Latest /\ Quota!RecoveredQuota' \notin Quota!Borrowed'
    <3>1. qRows[Quota!Latest].status = "complete"
      BY <1>8, <2>1 DEF Quota!DispatchDecision
    <3>2. qRows[Quota!Latest].status # "empty"
      BY <3>1
    <3> QED
      BY <2>1, <3>2 DEF Quota!RecoveredQuota
  <2>2. CASE Quota!RecoveredQuota' \in Quota!Borrowed'
    <3>1. Quota!RecoveredQuota' # Quota!Latest
      BY <2>2, <1>2 DEF Quota!Borrowed
    <3>2. qRows[Quota!Latest].status = "empty" /\ qRows[Quota!Latest].native
      BY <3>1, <1>1, <1>2, <1>9 DEF OrderFacts
    <3>7. qRows[Quota!Latest].at # 0 /\ qClock' - qRows[Quota!Latest].at <= QTtl
      BY <3>1, <1>1, <1>2, <1>9 DEF OrderFacts, Quota!Fresh
    <3>3. Quota!Latest \in DOMAIN qRows
      BY <1>9 DEF OrderFacts, Quota!Timed
    <3>4. Quota!Fresh(qRows[Quota!Latest])
      BY <3>7, <3>3, <1>4
    <3>5. Quota!RecoveredQuota' \in Quota!Borrowed
      BY <2>2, <1>7
    <3>6. Quota!RecoveredQuota \in Quota!Borrowed
      BY <3>2, <3>4, <3>5 DEF Quota!RecoveredQuota
    <3> QED
      BY <3>5, <3>6 DEF OrderFacts
  <2> QED
    BY <2>1, <2>2, <1>1, <1>2, <1>9 DEF OrderFacts
<1>12. Quota!DispatchDecision(qRows[Quota!RecoveredQuota])
  <2> DEFINE e == Quota!RecoveredQuota'
  <2>1. qRows'[Quota!RecoveredQuota'] = qRows[e]
    OBVIOUS
  <2>2. e \in DOMAIN qRows
    BY <1>10 DEF Quota!Timed
  <2>3. qRows[e].at # 0 /\ qClock' - qRows[e].at <= QTtl
        /\ qRows[e].status = "complete" /\ qRows[e].native /\ ~qRows[e].low
    BY <1>8 DEF Quota!DispatchDecision, Quota!Fresh
  <2>4. Quota!Fresh(qRows[e])
    BY <2>2, <2>3, <1>4
  <2> QED
    BY <2>3, <2>4, <1>11 DEF Quota!DispatchDecision
<1> QED
  BY <1>8, <1>12 DEF Quota!Admits

\* Neither an append of unknown time nor one that is older than some row lifts a refusal.
LEMMA AppendKeeps ==
    ASSUME Quota!TypeOK, Quota!TypeOK', OrderFacts, OrderFacts', qClock' = qClock, NEW row \in QRow,
           Quota!WriteQuota(row), Quota!Admits',
           row.at = 0 \/ \E k \in Quota!Timed : qRows[k].at > row.at,
           NEW m, m = Len(qRows) + 1
    PROVE  Quota!Admits
<1>1. /\ Len(qRows) \in Nat /\ DOMAIN qRows = 1..Len(qRows) /\ DOMAIN qRows' = 1..m
      /\ qRows'[m] = row /\ \A i \in DOMAIN qRows : qRows'[i] = qRows[i]
  <2>1. qRows \in Seq(QRow) /\ qRows' = Append(qRows, row)
    BY RowsTyped DEF Quota!WriteQuota
  <2> QED
    BY <2>1
<1>2. DOMAIN qRows' = DOMAIN qRows \cup {m} /\ m \notin DOMAIN qRows /\ m \in Nat
      /\ \A i \in DOMAIN qRows : i < m /\ i \in Nat
  BY <1>1
<1>3. row.at \in Nat /\ \A i \in DOMAIN qRows : qRows[i].at \in Nat
  BY RowsTyped, QuotaAssumed DEF QRow, Quota!QuotaAssumption
<1>4. Quota!Timed' # {} /\ ~Quota!Barred' /\ Quota!DispatchDecision(qRows[Quota!RecoveredQuota])'
  BY DEF Quota!Admits, Quota!Barred
<1>5. row.at # 0
  <2> SUFFICES ASSUME row.at = 0 PROVE FALSE
    OBVIOUS
  <2>1. m \in DOMAIN qRows' /\ qRows'[m].at = 0
    BY <1>1, <1>2
  <2>5. m \in Quota!Untimed'
    BY <2>1 DEF Quota!Timed, Quota!Untimed
  <2>2. Quota!Latest' \in Quota!Timed'
    BY <1>4 DEF OrderFacts
  <2>3. Quota!Latest' \in DOMAIN qRows
    BY <2>2, <1>1, <1>2 DEF Quota!Timed
  <2>4. m > Quota!Latest'
    BY <2>3, <1>2
  <2> QED
    BY <2>5, <2>4, <1>4 DEF Quota!Barred
<1>6. PICK k \in Quota!Timed : qRows[k].at > row.at
  BY <1>5
<1>7. Quota!Timed' = Quota!Timed \cup {m} /\ m \notin Quota!Timed /\ Quota!Untimed' = Quota!Untimed
  BY <1>1, <1>2, <1>5 DEF Quota!Timed, Quota!Untimed
<1>8. Quota!Timed \subseteq DOMAIN qRows
  BY DEF Quota!Timed
<1>9. \A i, j \in Quota!Timed : Quota!Before(i, j)' <=> Quota!Before(i, j)
  BY <1>1, <1>8 DEF Quota!Before
<1>10. Quota!Latest' # m
  <2> SUFFICES ASSUME Quota!Latest' = m PROVE FALSE
    OBVIOUS
  <2>1. Quota!Before(m, k)'
    BY <1>4, <1>7 DEF OrderFacts
  <2>2. row.at > qRows[k].at \/ row.at = qRows[k].at
    BY <2>1, <1>1, <1>8 DEF Quota!Before
  <2> QED
    BY <2>2, <1>6, <1>3, <1>8
<1>11. Quota!Latest' = Quota!Latest
  <2>1. Quota!Latest' \in Quota!Timed /\ \A j \in Quota!Timed \ {Quota!Latest'} : Quota!Before(Quota!Latest', j)
    BY <1>4, <1>7, <1>9, <1>10 DEF OrderFacts
  <2>2. Quota!Latest \in Quota!Timed /\ \A j \in Quota!Timed \ {Quota!Latest} : Quota!Before(Quota!Latest, j)
    BY <1>6 DEF OrderFacts
  <2> QED
    BY <2>1, <2>2 DEF OrderFacts
<1>12. Quota!Ambiguous \subseteq Quota!Ambiguous'
  <2> SUFFICES ASSUME NEW i \in Quota!Timed, NEW j \in Quota!Timed, qRows[j].at = qRows[i].at,
                      qRows[j] # qRows[i]
               PROVE  qRows[i].at \in Quota!Ambiguous'
    BY DEF Quota!Ambiguous
  <2>1. i \in Quota!Timed' /\ j \in Quota!Timed' /\ qRows'[i] = qRows[i] /\ qRows'[j] = qRows[j]
    BY <1>1, <1>7, <1>8
  <2> QED
    BY <2>1 DEF Quota!Ambiguous
<1>13. Quota!Latest \in Quota!Timed
  BY <1>6 DEF OrderFacts
<1>14. ~Quota!Barred
  <2>1. qRows'[Quota!Latest] = qRows[Quota!Latest]
    BY <1>1, <1>8, <1>13
  <2> QED
    BY <2>1, <1>4, <1>6, <1>7, <1>11, <1>12 DEF Quota!Barred
\* What is reached is not the new row, and is reached as before.
<1>15. ASSUME NEW c \in Quota!Timed, m \notin Quota!Passed(c)', c # Quota!Latest,
              ~Quota!Refuses(c)' PROVE ~Quota!Refuses(c)
  <2>1. Quota!Passed(c)' = Quota!Passed(c)
    BY <1>7, <1>9, <1>15 DEF Quota!Passed
  <2>2. Quota!Previous(c)' = Quota!Previous(c)
    <3>1. Quota!Previous(c)' \in Quota!Passed(c)' /\ \A j \in Quota!Passed(c)' : j # Quota!Previous(c)'
          => Quota!Before(j, Quota!Previous(c))'
      BY <1>7, <1>11, <1>15 DEF OrderFacts, Quota!Passed
    <3>2. Quota!Previous(c) \in Quota!Passed(c) /\ \A j \in Quota!Passed(c) : j # Quota!Previous(c)
          => Quota!Before(j, Quota!Previous(c))
      BY <1>15 DEF OrderFacts, Quota!Passed
    <3>3. Quota!Passed(c) \subseteq Quota!Timed
      BY DEF Quota!Passed
    <3>4. \A j \in Quota!Passed(c) : j # Quota!Previous(c)' => Quota!Before(j, Quota!Previous(c)')
      BY <3>1, <3>3, <2>1, <1>9
    <3> QED
      BY <3>1, <3>2, <3>3, <3>4, <2>1 DEF OrderFacts
  <2>3. Quota!Previous(c) \in Quota!Timed
    BY <1>15 DEF OrderFacts
  <2>4. qRows'[c] = qRows[c] /\ qRows'[Quota!Previous(c)] = qRows[Quota!Previous(c)]
    BY <1>1, <1>8, <2>3
  <2> QED
    BY <1>15, <1>7, <1>12, <2>2, <2>4 DEF Quota!Refuses, Quota!Fresh, Quota!Binds
<1>16. ASSUME NEW c \in Quota!Timed', c = m PROVE Quota!Refuses(c)'
  <2>1. Quota!Previous(c)' \in Quota!Timed' /\ Quota!Before(Quota!Previous(c), c)'
    BY <1>10, <1>11, <1>16 DEF OrderFacts
  <2>2. Quota!Previous(c)' # m
    BY <2>1, <1>16 DEF OrderFacts
  <2>3. Quota!Previous(c)' \in DOMAIN qRows
    BY <2>1, <2>2, <1>7, <1>8
  <2>4. c >= Quota!Previous(c)'
    BY <2>3, <1>2, <1>16
  <2> QED
    BY <2>4 DEF Quota!Refuses
<1>17. Quota!Borrowed' \subseteq Quota!Borrowed
  <2> SUFFICES ASSUME NEW c \in Quota!Borrowed' PROVE c \in Quota!Borrowed
    OBVIOUS
  <2>1. c \in Quota!Timed' /\ c # Quota!Latest /\ qRows'[c].status # "empty" /\ ~Quota!Refuses(c)'
    BY <1>11 DEF Quota!Borrowed
  <2>2. \A i \in Quota!Passed(c)' : i # Quota!Latest => qRows'[i].status = "empty" /\ ~Quota!Refuses(i)'
    BY <1>11 DEF Quota!Borrowed
  <2>3. c \in Quota!Timed
    BY <2>1, <1>16, <1>7
  <2>4. m \notin Quota!Passed(c)'
    <3> SUFFICES ASSUME m \in Quota!Passed(c)' PROVE FALSE
      OBVIOUS
    <3>1. ~Quota!Refuses(m)'
      BY <2>2, <1>10, <1>11
    <3> QED
      BY <3>1, <1>16, <1>7
  <2>5. Quota!Passed(c)' = Quota!Passed(c)
    BY <1>7, <1>9, <2>3, <2>4 DEF Quota!Passed
  <2>6. ~Quota!Refuses(c)
    BY <1>15, <2>1, <2>3, <2>4
  <2>7. ASSUME NEW i \in Quota!Passed(c), i # Quota!Latest PROVE qRows[i].status = "empty" /\ ~Quota!Refuses(i)
    <3>1. i \in Quota!Timed /\ Quota!Before(i, c)'
      BY <2>7, <2>5, <1>9, <2>3 DEF Quota!Passed
    <3>2. m \notin Quota!Passed(i)'
      <4> SUFFICES ASSUME m \in Quota!Passed(i)' PROVE FALSE
        OBVIOUS
      <4>1. Quota!Before(m, i)'
        BY DEF Quota!Passed
      <4>2. Quota!Before(m, c)'
        BY <4>1, <3>1, <2>3, <1>7 DEF OrderFacts
      <4> QED
        BY <4>2, <2>4, <1>7 DEF Quota!Passed
    <3>3. qRows'[i].status = "empty" /\ ~Quota!Refuses(i)'
      BY <2>2, <2>5, <2>7
    <3> QED
      BY <3>1, <3>2, <3>3, <1>15, <2>7, <1>1, <1>8
  <2> QED
    BY <2>1, <2>3, <2>6, <2>7, <1>1, <1>8 DEF Quota!Borrowed
<1>18. Quota!RecoveredQuota' = Quota!RecoveredQuota
  <2>1. CASE Quota!RecoveredQuota' = Quota!Latest /\ Quota!RecoveredQuota' \notin Quota!Borrowed'
    <3>1. qRows'[Quota!Latest].status = "complete"
      BY <1>4, <2>1 DEF Quota!DispatchDecision
    <3>2. qRows[Quota!Latest].status # "empty"
      BY <3>1, <1>1, <1>8, <1>13
    <3> QED
      BY <2>1, <3>2 DEF Quota!RecoveredQuota
  <2>2. CASE Quota!RecoveredQuota' \in Quota!Borrowed'
    <3>1. Quota!RecoveredQuota' # Quota!Latest'
      BY <2>2 DEF Quota!Borrowed
    <3>2. qRows'[Quota!Latest].status = "empty" /\ qRows'[Quota!Latest].native
          /\ qRows'[Quota!Latest].at # 0 /\ qClock - qRows'[Quota!Latest].at <= QTtl
      BY <3>1, <1>4, <1>11 DEF OrderFacts, Quota!Fresh
    <3>4. qRows[Quota!Latest].status = "empty" /\ qRows[Quota!Latest].native /\ Quota!Fresh(qRows[Quota!Latest])
      BY <3>2, <1>1, <1>8, <1>13 DEF Quota!Fresh
    <3>5. Quota!RecoveredQuota' \in Quota!Borrowed
      BY <2>2, <1>17
    <3>6. Quota!RecoveredQuota \in Quota!Borrowed
      BY <3>4, <3>5 DEF Quota!RecoveredQuota
    <3> QED
      BY <3>5, <3>6 DEF OrderFacts
  <2> QED
    BY <2>1, <2>2, <1>4, <1>11 DEF OrderFacts
<1>19. Quota!DispatchDecision(qRows[Quota!RecoveredQuota])
  <2>1. Quota!RecoveredQuota \in Quota!Timed
    BY <1>6 DEF OrderFacts
  <2>2. qRows'[Quota!RecoveredQuota'] = qRows[Quota!RecoveredQuota]
    BY <2>1, <1>1, <1>8, <1>18
  <2> QED
    BY <2>2, <1>4 DEF Quota!DispatchDecision, Quota!Fresh
<1> QED
  BY <1>14, <1>19, <1>6, <1>8 DEF Quota!Admits

LEMMA QuotaKeepsRefusal == Quota!TypeOK /\ [Quota!Next]_Quota!vars => Quota!KeepsRefusal
<1> SUFFICES ASSUME Quota!TypeOK, [Quota!Next]_Quota!vars, Quota!Admits',
                    ~Quota!Admits PROVE qRows' # qRows /\ qRows'[Len(qRows')].at # 0
                    /\ \A i \in Quota!Timed : qRows[i].at <= qRows'[Len(qRows')].at
  BY DEF Quota!KeepsRefusal
<1>1. Quota!TypeOK' /\ OrderFacts /\ OrderFacts'
  BY QuotaTypes, OrderHolds, OrderHoldsAfter
<1>2. qRows' # qRows
  <2> SUFFICES ASSUME qRows' = qRows PROVE FALSE
    OBVIOUS
  <2>1. qClock \in Nat /\ qClock' \in Nat
    BY <1>1, QuotaAssumed DEF Quota!TypeOK, Quota!QuotaAssumption
  <2>2. qClock' = qClock + 1 \/ qClock' = qClock
    BY
    DEF Quota!Next, Quota!vars, Quota!Tick, Quota!RefreshOnce, Quota!SetQuota, Quota!ReadSnapshot,
        Quota!WriteLate
  <2>3. qClock <= qClock'
    BY <2>1, <2>2
  <2> QED
    BY <1>1, <2>1, <2>3, TimePasses
<1>3. qClock' = qClock /\ \E row \in QRow : Quota!WriteQuota(row)
  <2>1. CASE Quota!RefreshOnce
    BY <2>1, RowsMade DEF Quota!RefreshOnce
  <2>2. CASE Quota!SetQuota
    BY <2>2, RowsMade DEF Quota!SetQuota
  <2>3. ASSUME NEW r \in QSlow, Quota!WriteLate(r) PROVE qClock' = qClock
               /\ \E row \in QRow : Quota!WriteQuota(row)
    <3>1. qHand[r] \in QRow
      BY DEF Quota!TypeOK, QRow
    <3> QED
      BY <2>3, <3>1 DEF Quota!WriteLate
  <2> QED
    BY <1>2, <2>1, <2>2, <2>3 DEF Quota!Next, Quota!vars, Quota!Tick, Quota!ReadSnapshot
<1>4. PICK row \in QRow : Quota!WriteQuota(row)
  BY <1>3
<1>5. row.at # 0 /\ \A k \in Quota!Timed : ~(qRows[k].at > row.at)
  BY <1>1, <1>3, <1>4, AppendKeeps
<1>6. qRows'[Len(qRows')] = row
  <2>1. qRows \in Seq(QRow) /\ qRows' = Append(qRows, row)
    BY RowsTyped, <1>4 DEF Quota!WriteQuota
  <2> QED
    BY <2>1
<1>7. row.at \in Nat /\ \A i \in Quota!Timed : qRows[i].at \in Nat
  BY RowsTyped, QuotaAssumed DEF QRow, Quota!QuotaAssumption, Quota!Timed
<1> QED
  BY <1>2, <1>5, <1>6, <1>7

\* Whatever is appended late, twice or under one time: an admission rests on the observation that
\* counts, and a refusal stays until something newer is known (store.py: latest_quota).
THEOREM QuotaHolds == Quota!Spec => [](Quota!TypeOK /\ Quota!AdmissionCurrent)
    /\ [][Quota!KeepsRefusal]_Quota!vars
<1>1. Quota!Spec => []Quota!TypeOK
  BY QuotaInit, QuotaTypes, PTL DEF Quota!Spec
<1>2. Quota!TypeOK /\ [Quota!Next]_Quota!vars => [Quota!KeepsRefusal]_Quota!vars
  BY QuotaKeepsRefusal
<1> QED
  BY <1>1, <1>2, QuotaAdmissionCurrent, PTL DEF Quota!Spec

-----------------------------------------------------------------------------
(* Admission: the units of Claude that futures hold, row by row.              *)

LEMMA AdmissionAssumed == Admits!AdmissionAssumption
  BY OperationsAssumption

\* Starting
Future == [node : Admits!Node, attempt : Nat, at : {"start", "claude", "codex", "done"}, claude : BOOLEAN, twice : BOOLEAN]
Row == [state : {"pending", "running", "accepted", "failed"}, attempt : Nat, route : {"none", "claude", "codex"},
        since : BOOLEAN]
Turn == [at : {"top", "look", "spark", "general", "record", "claimed", "submit"},
         quota : Admits!Quotas, units : 0..2 * AMaxWorkers, node : Admits!Node, waits : SUBSET Admits!Node]
Live == {f \in aFutures : f.claude /\ ~f.twice /\ f.at \in {"start", "claude"}}
Rounds == {"spark", "general", "record", "claimed", "submit"}

Waiting ==
    \A n \in Admits!Node :
        /\ aNode[n].state = "pending" => aNode[n].attempt < AMaxAttempt[n]
        /\ aNode[n].state = "running" => aNode[n].route \in {"claude", "codex"}

\* A future that is not done is the attempt its row runs, and there is one of an attempt.
Fitting ==
    /\ \A f \in aFutures :
          /\ f.attempt <= aNode[f.node].attempt
          /\ f.at # "done" => aNode[f.node].state = "running" /\ f.attempt = aNode[f.node].attempt
    /\ \A f, g \in aFutures : f.node = g.node /\ f.attempt = g.attempt => f = g
    /\ aTurn.at \in {"claimed", "submit"} =>
          /\ aNode[aTurn.node].state = "running"
          /\ \A f \in aFutures : f.node = aTurn.node => f.attempt < aNode[aTurn.node].attempt

\* The turns the capacity is about carry no mark, and what the loop looked at bounds what it counts.
Counting ==
    /\ IsFiniteSet(aFutures)
    /\ \A n \in aRouted : \E f \in aFutures : f.node = n
    /\ \A f \in Live : f.node \notin aRouted
    /\ aTurn.at \in Rounds => Admits!UnitsOf(Admits!Active) <= aTurn.units

AdmissionInv == Admits!TypeOK /\ Waiting /\ Admits!ScopesDisjoint /\ Fitting /\ Counting /\ Admits!CapacityKept

LEMMA CapacityIs == Admits!CapacityKept <=> Admits!UnitsOf(Live) <= 2
  BY DEF Admits!CapacityKept, Live

-----------------------------------------------------------------------------
LEMMA UnitsBound ==
    ASSUME NEW B, IsFiniteSet(B), NEW A \in SUBSET B
    PROVE  IsFiniteSet(A) /\ Admits!UnitsOf(A) \in Nat /\ Admits!UnitsOf(A) <= Admits!UnitsOf(B)
           /\ Admits!UnitsOf(A) <= 2 * Cardinality(A)
<1> DEFINE H(C) == {f \in C : AUnits[f.node] = 2}
<1>1. IsFiniteSet(A) /\ Cardinality(A) \in Nat /\ Cardinality(B) \in Nat /\ Cardinality(A) <= Cardinality(B)
  BY FS_Subset, FS_CardinalityType
<1>2. H(A) \in SUBSET A /\ H(B) \in SUBSET B /\ H(A) \in SUBSET H(B)
  OBVIOUS
<1>3. Admits!UnitsOf(A) = Cardinality(A) + Cardinality(H(A))
      /\ Admits!UnitsOf(B) = Cardinality(B) + Cardinality(H(B))
  BY Cardinals DEF Admits!UnitsOf
<1> HIDE DEF H
<1>4. IsFiniteSet(H(B)) /\ IsFiniteSet(H(A)) /\ Cardinality(H(A)) <= Cardinality(A)
  BY <1>1, <1>2, FS_Subset
<1>5. Cardinality(H(A)) \in Nat /\ Cardinality(H(B)) \in Nat
  BY <1>4, FS_CardinalityType
<1>6. Cardinality(H(A)) <= Cardinality(H(B))
  BY <1>2, <1>4, FS_Subset
<1> QED
  BY <1>1, <1>3, <1>4, <1>5, <1>6

LEMMA UnitsAdd ==
    ASSUME NEW A, IsFiniteSet(A), NEW f, f \notin A, AUnits[f.node] \in 1..2
    PROVE  Admits!UnitsOf(A \cup {f}) = Admits!UnitsOf(A) + AUnits[f.node] /\ IsFiniteSet(A \cup {f})
<1> DEFINE H(C) == {g \in C : AUnits[g.node] = 2}
<1>1. Cardinality(A \cup {f}) = Cardinality(A) + 1 /\ IsFiniteSet(A \cup {f})
  BY FS_AddElement
<1>2. Admits!UnitsOf(A) = Cardinality(A) + Cardinality(H(A))
      /\ Admits!UnitsOf(A \cup {f}) = Cardinality(A \cup {f}) + Cardinality(H(A \cup {f}))
  BY Cardinals DEF Admits!UnitsOf
<1>3. H(A) \in SUBSET A /\ f \notin H(A)
  OBVIOUS
<1>4. H(A \cup {f}) = IF AUnits[f.node] = 2 THEN H(A) \cup {f} ELSE H(A)
  OBVIOUS
<1> HIDE DEF H
<1>5. IsFiniteSet(H(A))
  BY <1>3, FS_Subset
<1>6. Cardinality(H(A) \cup {f}) = Cardinality(H(A)) + 1
  BY <1>3, <1>5, FS_AddElement
<1>7. Cardinality(A) \in Nat /\ Cardinality(H(A)) \in Nat
  BY <1>5, FS_CardinalityType
<1>8. CASE AUnits[f.node] = 2
  <2>1. Cardinality(H(A \cup {f})) = Cardinality(H(A)) + 1
    BY <1>4, <1>6, <1>8
  <2>2. Admits!UnitsOf(A \cup {f}) = Cardinality(A) + 1 + (Cardinality(H(A)) + 1)
    BY <1>1, <1>2, <2>1
  <2> QED
    BY <1>1, <1>2, <1>7, <1>8, <2>2
<1>9. CASE AUnits[f.node] # 2
  <2>1. AUnits[f.node] = 1
    BY <1>9
  <2> QED
    BY <1>1, <1>2, <1>4, <1>7, <2>1
<1> QED
  BY <1>8, <1>9

LEMMA UnitsAtMost ==
    ASSUME NEW A, IsFiniteSet(A), NEW f, AUnits[f.node] \in 1..2
    PROVE  Admits!UnitsOf(A \cup {f}) <= Admits!UnitsOf(A) + AUnits[f.node] /\ Admits!UnitsOf(A) \in Nat
           /\ IsFiniteSet(A \cup {f})
<1>1. Admits!UnitsOf(A) \in Nat
  BY UnitsBound
<1>2. CASE f \in A
  <2>1. Admits!UnitsOf(A \cup {f}) = Admits!UnitsOf(A) /\ IsFiniteSet(A \cup {f})
    <3>1. A \cup {f} = A
      BY <1>2
    <3> QED
      BY <3>1
  <2>2. AUnits[f.node] \in Nat
    OBVIOUS
  <2> QED
    BY <1>1, <2>1, <2>2
<1>3. CASE f \notin A
  BY <1>1, <1>3, UnitsAdd
<1> QED
  BY <1>2, <1>3

LEMMA UnitsSwap ==
    ASSUME NEW A, IsFiniteSet(A), NEW f \in A, NEW g, g.node = f.node, AUnits[f.node] \in 1..2
    PROVE  Admits!UnitsOf((A \ {f}) \cup {g}) <= Admits!UnitsOf(A) /\ IsFiniteSet((A \ {f}) \cup {g})
<1> DEFINE B == A \ {f}
<1>1. B \in SUBSET A /\ f \notin B /\ B \cup {f} = A
  OBVIOUS
<1> HIDE DEF B
<1>2. IsFiniteSet(B)
  BY <1>1, UnitsBound
<1>3. Admits!UnitsOf(B \cup {f}) = Admits!UnitsOf(B) + AUnits[f.node]
  BY <1>1, <1>2, UnitsAdd
<1>4. Admits!UnitsOf(B \cup {g}) <= Admits!UnitsOf(B) + AUnits[g.node] /\ IsFiniteSet(B \cup {g})
  BY <1>2, UnitsAtMost
<1>5. Admits!UnitsOf(B \cup {g}) <= Admits!UnitsOf(A)
  BY <1>1, <1>3, <1>4
<1> QED
  BY <1>4, <1>5 DEF B

\* A worker's step takes nothing from the capacity.
LEMMA MovedUnits ==
    ASSUME AdmissionInv, NEW f \in aFutures, NEW g \in Future, aFutures' = (aFutures \ {f}) \cup {g},
           g.node = f.node, g.claude = f.claude, g.twice = f.twice, aRouted \subseteq aRouted',
           g.at \in {"start", "claude"} => f.at \in {"start", "claude"}
    PROVE  /\ IsFiniteSet(aFutures') /\ Admits!UnitsOf(Admits!Active)' <= Admits!UnitsOf(Admits!Active)
              /\ Admits!UnitsOf(Admits!Active) \in Nat /\ Admits!CapacityKept'
           /\ Admits!UnitsOf(Admits!Active)' \in Nat
<1>1. IsFiniteSet(aFutures) /\ Live \in SUBSET aFutures /\ Admits!Active \in SUBSET aFutures
  BY DEF AdmissionInv, Counting, Live, Admits!Active
<1>2. IsFiniteSet(Live) /\ IsFiniteSet(Admits!Active) /\ Admits!UnitsOf(Admits!Active) \in Nat
      /\ Admits!UnitsOf(Live) \in Nat
  BY <1>1, UnitsBound
<1>3. f.node \in Admits!Node /\ AUnits[f.node] \in 1..2
  BY AdmissionAssumed DEF AdmissionInv, Admits!TypeOK, Admits!AdmissionAssumption
<1>4. IsFiniteSet(aFutures')
  <2>1. IsFiniteSet(aFutures \ {f})
    BY <1>1, FS_RemoveElement
  <2> QED
    BY <2>1, FS_AddElement
<1>5. Admits!UnitsOf(Admits!Active') <= Admits!UnitsOf(Admits!Active) /\ Admits!UnitsOf(Admits!Active') \in Nat
  <2>1. CASE f \in Admits!Active
    <3>1. Admits!Active' \in SUBSET ((Admits!Active \ {f}) \cup {g})
      BY DEF Admits!Active
    <3>2. Admits!UnitsOf((Admits!Active \ {f}) \cup {g}) <= Admits!UnitsOf(Admits!Active)
          /\ IsFiniteSet((Admits!Active \ {f}) \cup {g})
      BY <2>1, <1>2, <1>3, UnitsSwap
    <3>3. Admits!UnitsOf((Admits!Active \ {f}) \cup {g}) \in Nat
      BY <3>2, UnitsBound
    <3> QED
      BY <1>2, <3>1, <3>2, <3>3, UnitsBound
  <2>2. CASE f \notin Admits!Active
    <3>1. Admits!Active' \in SUBSET Admits!Active
      BY <2>2 DEF Admits!Active
    <3> QED
      BY <1>2, <3>1, UnitsBound
  <2> QED
    BY <2>1, <2>2
<1>6. Admits!UnitsOf(Live') <= Admits!UnitsOf(Live) /\ Admits!UnitsOf(Live') \in Nat
  <2>1. CASE f \in Live
    <3>1. Live' \in SUBSET ((Live \ {f}) \cup {g})
      BY DEF Live
    <3>2. Admits!UnitsOf((Live \ {f}) \cup {g}) <= Admits!UnitsOf(Live) /\ IsFiniteSet((Live \ {f}) \cup {g})
      BY <2>1, <1>2, <1>3, UnitsSwap
    <3>3. Admits!UnitsOf((Live \ {f}) \cup {g}) \in Nat
      BY <3>2, UnitsBound
    <3> QED
      BY <1>2, <3>1, <3>2, <3>3, UnitsBound
  <2>2. CASE f \notin Live
    <3>1. Live' \in SUBSET Live
      BY <2>2 DEF Live
    <3> QED
      BY <1>2, <3>1, UnitsBound
  <2> QED
    BY <2>1, <2>2
<1>7. Admits!UnitsOf(Live) <= 2
  BY CapacityIs DEF AdmissionInv
<1>8. Admits!CapacityKept'
  <2>1. Admits!UnitsOf(Live') <= 2
    BY <1>2, <1>6, <1>7
  <2> QED
    BY <2>1 DEF Admits!CapacityKept, Live
<1> QED
  BY <1>2, <1>4, <1>5, <1>8

-----------------------------------------------------------------------------
LEMMA AdmissionInit == Admits!Init => AdmissionInv
<1> SUFFICES ASSUME Admits!Init PROVE AdmissionInv
  OBVIOUS
<1>1. AOrder[1] \in Admits!Node
  BY AdmissionAssumed DEF Admits!AdmissionAssumption, Admits!Node, Admits!Range
<1>2. aNode = [n \in Admits!Node |-> [state |-> "pending", attempt |-> 0, route |-> "none", since |-> FALSE]]
  BY DEF Admits!Init
<1>3. \A n \in Admits!Node : aNode[n] = [state |-> "pending", attempt |-> 0, route |-> "none", since |-> FALSE]
  BY <1>2
<1>4. Admits!TypeOK
  <2>1. aTurn \in Turn
    BY <1>1, AdmissionAssumed DEF Admits!Init, Turn, Admits!Quotas, Admits!AdmissionAssumption
  <2>2. \A n \in Admits!Node : AMaxAttempt[n] \in Nat \ {0}
    BY AdmissionAssumed DEF Admits!AdmissionAssumption
  <2>3. \A n \in Admits!Node : aNode[n].attempt <= AMaxAttempt[n]
    BY <1>3, <2>2
  <2> QED
    BY <1>2, <2>1, <2>3, AdmissionAssumed
    DEF Admits!Init, Admits!TypeOK, Turn, Admits!Quotas, Admits!AdmissionAssumption
<1>5. Waiting
  <2>1. \A n \in Admits!Node : AMaxAttempt[n] \in Nat \ {0}
    BY AdmissionAssumed DEF Admits!AdmissionAssumption
  <2> QED
    BY <1>3, <2>1 DEF Waiting
<1>6. Admits!ScopesDisjoint
  BY <1>3 DEF Admits!ScopesDisjoint, Admits!Running
<1>7. Fitting
  BY DEF Admits!Init, Fitting
<1>8. Counting
  BY FS_EmptySet DEF Admits!Init, Counting, Live, Rounds
<1>9. Admits!CapacityKept
  <2>1. Live = {}
    BY DEF Admits!Init, Live
  <2>2. IsFiniteSet({}) /\ Cardinality({}) = 0
    BY FS_EmptySet
  <2>3. Admits!UnitsOf({}) <= 2
    BY <2>2, UnitsBound
  <2> QED
    BY <2>1, <2>3, CapacityIs
<1> QED
  BY <1>4, <1>5, <1>6, <1>7, <1>8, <1>9 DEF AdmissionInv

\* Fewer that run disturb nobody.
LEMMA FewerRun == ASSUME Admits!ScopesDisjoint,
    Admits!Running' \subseteq Admits!Running PROVE Admits!ScopesDisjoint'
  BY DEF Admits!ScopesDisjoint, Admits!ScopeConflict

LEMMA FutureTyped ==
    ASSUME Admits!TypeOK, NEW f \in aFutures
    PROVE  f \in Future /\ f.node \in Admits!Node /\ f.attempt \in Nat /\ aNode[f.node] \in Row
  BY DEF Admits!TypeOK, Future, Row

LEMMA CollectStep == AdmissionInv /\ Admits!Collect => AdmissionInv'
<1> SUFFICES ASSUME AdmissionInv, Admits!Collect PROVE AdmissionInv'
  OBVIOUS
<1>1. /\ aFutures' = {f \in aFutures : f.at # "done"} /\ aTurn' = [aTurn EXCEPT !.at = "look"]
      /\ aRouted' = aRouted \ {f.node : f \in aFutures \ aFutures'}
      /\ UNCHANGED <<aNode, aWait, aDeferred, aFell, aQuota, aObserved>>
  BY DEF Admits!Collect
<1>2. Admits!TypeOK'
  BY <1>1 DEF AdmissionInv, Admits!TypeOK
<1>3. aTurn'.at = "look"
  BY <1>1 DEF AdmissionInv, Admits!TypeOK
<1>4. Waiting'
  BY <1>1 DEF AdmissionInv, Waiting
<1>5. Admits!ScopesDisjoint'
  BY <1>1, FewerRun DEF AdmissionInv, Admits!Running
<1>6. Fitting'
  <2>1. Fitting
    BY DEF AdmissionInv
  <2> QED
    BY <1>1, <1>3, <2>1 DEF Fitting
<1>7. Live' = Live
  BY <1>1 DEF Live
<1>8. Counting'
  <2>1. Counting
    BY DEF AdmissionInv
  <2>2. aFutures' \in SUBSET aFutures
    BY <1>1
  <2>3. IsFiniteSet(aFutures')
    BY <2>1, <2>2, FS_Subset DEF Counting
  <2>4. \A n \in aRouted' : \E f \in aFutures' : f.node = n
    BY <1>1, <2>1 DEF Counting
  <2>5. \A f \in Live' : f.node \notin aRouted'
    BY <1>1, <1>7, <2>1 DEF Counting
  <2> QED
    BY <1>3, <2>3, <2>4, <2>5 DEF Counting, Rounds
<1>9. Admits!CapacityKept'
  <2>1. Admits!UnitsOf(Live') <= 2
    BY <1>7, CapacityIs DEF AdmissionInv
  <2> QED
    BY <2>1 DEF Admits!CapacityKept, Live
<1> QED
  BY <1>2, <1>4, <1>5, <1>6, <1>8, <1>9 DEF AdmissionInv

\* What the steps that leave futures, marks and attempts alone keep.
LEMMA CapacityStays ==
    ASSUME AdmissionInv, aFutures' = aFutures, aRouted' = aRouted
    PROVE  Admits!CapacityKept' /\ Live' = Live /\ Admits!Active' = Admits!Active
           /\ Admits!UnitsOf(Admits!Active)' = Admits!UnitsOf(Admits!Active)
<1>1. Live' = Live /\ Admits!Active' = Admits!Active
  BY DEF Live, Admits!Active
<1>2. Admits!UnitsOf(Live') <= 2
  BY <1>1, CapacityIs DEF AdmissionInv
<1> QED
  BY <1>1, <1>2 DEF Admits!CapacityKept, Live

LEMMA LookStep == AdmissionInv /\ Admits!Look => AdmissionInv'
<1> SUFFICES ASSUME AdmissionInv, Admits!Look PROVE AdmissionInv'
  OBVIOUS
<1>1. UNCHANGED <<aNode, aWait, aDeferred, aFell, aQuota, aObserved, aFutures, aRouted>>
  BY DEF Admits!Look
<1>2. aTurn \in Turn /\ aQuota \in Admits!Quotas /\ aFutures \subseteq Future
  BY DEF AdmissionInv, Admits!TypeOK, Turn, Future
<1>3. Admits!Active \in SUBSET aFutures /\ IsFiniteSet(aFutures)
  BY DEF Admits!Active, AdmissionInv, Counting
<1>4. IsFiniteSet(Admits!Active) /\ Admits!UnitsOf(Admits!Active) \in Nat
      /\ Admits!UnitsOf(Admits!Active) <= 2 * Cardinality(Admits!Active)
  BY <1>3, UnitsBound
<1>5. Cardinality(Admits!Active) <= Cardinality(aFutures) /\ Cardinality(Admits!Active) \in Nat
      /\ Cardinality(aFutures) \in Nat
  BY <1>3, <1>4, FS_Subset, FS_CardinalityType
<1>6. PICK u : u = Admits!UnitsOf(Admits!Active)
  OBVIOUS
<1>7. aTurn' \in Turn /\ aTurn'.at \in {"top", "spark", "general"} /\ (aTurn'.at # "top" => aTurn'.units = u)
  <2>1. CASE Cardinality(aFutures) < AMaxWorkers
    <3>1. u \in 0..2 * AMaxWorkers
      BY <1>4, <1>5, <1>6, <2>1, AdmissionAssumed DEF Admits!AdmissionAssumption
    <3>2. PICK a \in {"spark", "general"} :
            aTurn' = [aTurn EXCEPT !.at = a, !.quota = aQuota, !.units = u, !.waits = {}]
      BY <2>1, <1>6, Cardinals DEF Admits!Look
    <3> QED
      BY <3>1, <3>2, <1>2 DEF Turn
  <2>2. CASE ~(Cardinality(aFutures) < AMaxWorkers)
    <3>1. aTurn' = [aTurn EXCEPT !.at = "top"]
      BY <2>2, Cardinals DEF Admits!Look
    <3> QED
      BY <3>1, <1>2 DEF Turn
  <2> QED
    BY <2>1, <2>2
<1>8. Admits!TypeOK'
  BY <1>1, <1>7 DEF AdmissionInv, Admits!TypeOK, Turn
<1>9. Waiting' /\ Admits!ScopesDisjoint'
  BY <1>1, FewerRun DEF AdmissionInv, Waiting, Admits!Running
<1>10. Fitting'
  <2>1. Fitting
    BY DEF AdmissionInv
  <2> QED
    BY <1>1, <1>7, <2>1 DEF Fitting
<1>11. Admits!CapacityKept' /\ Live' = Live /\ Admits!UnitsOf(Admits!Active)' = u
  BY <1>1, <1>6, CapacityStays
<1>12. Counting'
  <2>1. Counting
    BY DEF AdmissionInv
  <2> QED
    BY <1>1, <1>4, <1>6, <1>7, <1>11, <2>1 DEF Counting, Rounds
<1> QED
  BY <1>8, <1>9, <1>10, <1>11, <1>12 DEF AdmissionInv

\* What a claim takes, or whom it leaves.
Taken(lane, n, ws, w) ==
    /\ Admits!Takes(n, lane)
    /\ aTurn' = [aTurn EXCEPT !.waits = ws, !.at = "claimed", !.node = n]
    /\ aNode' = [aNode EXCEPT ![n].state = "running", ![n].attempt = @ + 1, ![n].route = Admits!Route(n)]
    /\ aFell' = [aFell EXCEPT ![n] = "none"]
    /\ aWait' = [w EXCEPT ![n] = {}]
    /\ \A m \in Admits!Node : w[m] # {} => (Admits!Considered(m, lane) /\ w[m] = Admits!Blockers(m))
       \/ w[m] = Admits!Reconciled[m]
Left(lane, ws, at) ==
    /\ at = (IF lane = "spark" THEN "general" ELSE "record")
    /\ aTurn' = [aTurn EXCEPT !.waits = ws, !.at = at]
    /\ UNCHANGED <<aNode, aFell>> /\ aWait' \in [Admits!Node -> SUBSET (Admits!Node \X Nat)]
    /\ \A m \in Admits!Node : aWait'[m] # {} =>
          (Admits!Considered(m, lane) /\ aWait'[m] = Admits!Blockers(m)) \/ aWait'[m] = Admits!Reconciled[m]
    /\ \A m \in Admits!Node : Admits!Considered(m, lane) /\ Admits!Blockers(m) = {} => m \in ws
       /\ ~Admits!Admissible(m)

LEMMA ClaimTakes ==
    ASSUME AdmissionInv, NEW lane, Admits!Claim(lane)
    PROVE  \/ \E n \in Admits!Node, ws \in SUBSET Admits!Node,
              w \in [Admits!Node -> SUBSET (Admits!Node \X Nat)] : Taken(lane, n, ws, w)
           \/ \E ws \in SUBSET Admits!Node, at \in {"general", "record"} : Left(lane, ws, at)
<1> DEFINE takers == {i \in DOMAIN AOrder : Admits!Takes(AOrder[i], lane)}
           first == CHOOSE i \in takers : \A j \in takers : i <= j
           seen == IF takers = {} THEN Admits!Node ELSE {AOrder[j] : j \in 1..first}
           held == {n \in seen : Admits!Considered(n, lane) /\ Admits!Blockers(n) # {}}
           passed == {n \in seen : Admits!Considered(n, lane) /\ Admits!Blockers(n) = {}
           /\ ~Admits!Admissible(n)}
           waits == [n \in Admits!Node |-> IF n \in held THEN Admits!Blockers(n) ELSE Admits!Reconciled[n]]
           ws == aTurn.waits \cup passed
<1>1. PICK k \in Nat \ {0} : DOMAIN AOrder = 1..k
  BY AdmissionAssumed DEF Admits!AdmissionAssumption
<1>2. aTurn.waits \in SUBSET Admits!Node /\ aWait \in [Admits!Node -> SUBSET (Admits!Node \X Nat)]
  BY DEF AdmissionInv, Admits!TypeOK
<1>3. takers # {} => first \in takers
  <2>1. takers \subseteq Nat
    BY <1>1
  <2>2. takers # {} => \E i \in takers : \A j \in takers : i <= j
    BY <2>1, NatMin
  <2> HIDE DEF takers
  <2> QED
    BY <2>2
<1>4. takers # {} => first \in 1..k /\ AOrder[first] \in Admits!Node /\ Admits!Takes(AOrder[first], lane)
  BY <1>1, <1>3 DEF Admits!Node, Admits!Range
<1>5. seen \subseteq Admits!Node
  <2>1. CASE takers = {}
    BY <2>1
  <2>2. CASE takers # {}
    <3>1. \A j \in 1..first : j \in DOMAIN AOrder
      BY <1>1, <1>4, <2>2
    <3>2. \A j \in 1..first : AOrder[j] \in Admits!Node
      BY <3>1 DEF Admits!Node, Admits!Range
    <3> QED
      BY <2>2, <3>2
  <2> QED
    BY <2>1, <2>2
<1>6. ws \in SUBSET Admits!Node
  <2>1. passed \subseteq Admits!Node
    BY <1>5
  <2> QED
    BY <1>2, <2>1
<1>7. waits \in [Admits!Node -> SUBSET (Admits!Node \X Nat)]
  <2>1. \A m \in Admits!Node : Admits!Blockers(m) \in SUBSET (Admits!Node \X Nat)
    BY DEF Admits!Blockers, Admits!Running, AdmissionInv, Admits!TypeOK
  <2>2. \A m \in Admits!Node : Admits!Reconciled[m] \in SUBSET (Admits!Node \X Nat)
    BY <1>2 DEF Admits!Reconciled
  <2> QED
    BY <2>1, <2>2
<1>8. \A m \in Admits!Node : waits[m] # {}
      => (Admits!Considered(m, lane) /\ waits[m] = Admits!Blockers(m)) \/ waits[m] = Admits!Reconciled[m]
  OBVIOUS
<1>9. CASE takers = {}
  <2>1. /\ aTurn' = [aTurn EXCEPT !.waits = ws, !.at = IF lane = "spark" THEN "general" ELSE "record"]
        /\ aWait' = waits /\ UNCHANGED <<aNode, aFell>>
    <3>1. aTurn' = [aTurn EXCEPT !.waits = @ \cup passed, !.at = IF lane = "spark" THEN "general" ELSE "record"]
          /\ aWait' = waits /\ UNCHANGED <<aNode, aFell>>
      BY <1>9 DEF Admits!Claim
    <3> QED
      BY <3>1, <1>2 DEF AdmissionInv, Admits!TypeOK
  <2>2. \A m \in Admits!Node : Admits!Considered(m, lane) /\ Admits!Blockers(m) = {} => ~Admits!Admissible(m)
    <3>1. ASSUME NEW m \in Admits!Node, Admits!Considered(m, lane), Admits!Blockers(m) = {},
                 Admits!Admissible(m) PROVE FALSE
      <4>1. PICK i \in DOMAIN AOrder : AOrder[i] = m
        BY DEF Admits!Node, Admits!Range
      <4>2. i \in takers
        BY <3>1, <4>1 DEF Admits!Takes
      <4> QED
        BY <4>2, <1>9
    <3> QED
      BY <3>1
  <2>3. \A m \in Admits!Node : Admits!Considered(m, lane) /\ Admits!Blockers(m) = {} => m \in ws
    BY <2>2, <1>9
  <2>4. PICK at \in {"general", "record"} : at = (IF lane = "spark" THEN "general" ELSE "record")
    OBVIOUS
  <2>5. PICK vs \in SUBSET Admits!Node : vs = ws
    BY <1>6
  <2>6. PICK w \in [Admits!Node -> SUBSET (Admits!Node \X Nat)] : w = waits
    BY <1>7
  <2> HIDE DEF takers, first, seen, held, passed, waits, ws
  <2>7. aTurn' = [aTurn EXCEPT !.waits = vs, !.at = at] /\ aWait' = w
    BY <2>1, <2>4, <2>5, <2>6
  <2>8. \A m \in Admits!Node : aWait'[m] # {} =>
            (Admits!Considered(m, lane) /\ aWait'[m] = Admits!Blockers(m)) \/ aWait'[m] = Admits!Reconciled[m]
    BY <1>8, <2>6, <2>7
  <2>9. \A m \in Admits!Node : Admits!Considered(m, lane) /\ Admits!Blockers(m) = {} => m \in vs
        /\ ~Admits!Admissible(m)
    BY <2>2, <2>3, <2>5
  <2> QED
    BY <2>1, <2>4, <2>7, <2>8, <2>9 DEF Left
<1>10. CASE takers # {}
  <2>1. PICK n \in Admits!Node : n = AOrder[first] /\ Admits!Takes(n, lane)
    BY <1>4, <1>10
  <2>2. /\ aTurn' = [aTurn EXCEPT !.waits = @ \cup passed, !.at = "claimed", !.node = n]
        /\ aWait' = [waits EXCEPT ![n] = {}]
        /\ aNode' = [aNode EXCEPT ![n].state = "running", ![n].attempt = @ + 1, ![n].route = Admits!Route(n)]
        /\ aFell' = [aFell EXCEPT ![n] = "none"]
    BY <1>10, <2>1 DEF Admits!Claim
  <2>3. PICK vs \in SUBSET Admits!Node : vs = ws
    BY <1>6
  <2>4. PICK w \in [Admits!Node -> SUBSET (Admits!Node \X Nat)] : w = waits
    BY <1>7
  <2>5. aTurn' = [aTurn EXCEPT !.waits = vs, !.at = "claimed", !.node = n]
    BY <2>2, <2>3 DEF AdmissionInv, Admits!TypeOK
  <2> HIDE DEF takers, first, seen, held, passed, waits, ws
  <2>6. \A m \in Admits!Node : w[m] # {} => (Admits!Considered(m, lane) /\ w[m] = Admits!Blockers(m))
        \/ w[m] = Admits!Reconciled[m]
    BY <1>8, <2>4
  <2> QED
    BY <2>1, <2>2, <2>4, <2>5, <2>6 DEF Taken
<1> QED
  BY <1>9, <1>10

LEMMA RouteIs == ASSUME Admits!TypeOK, NEW n \in Admits!Node PROVE Admits!Route(n) \in {"claude", "codex"}
  BY AdmissionAssumed DEF Admits!TypeOK, Admits!Route, Admits!AdmissionAssumption

\* The node that is taken.
LEMMA TakenRow ==
    ASSUME AdmissionInv, NEW n \in Admits!Node, aNode[n].state = "pending",
           aNode' = [aNode EXCEPT ![n].state = "running", ![n].attempt = @ + 1, ![n].route = Admits!Route(n)]
    PROVE  /\ aNode' \in [Admits!Node -> Row] /\ aNode'[n].state = "running"
              /\ aNode'[n].attempt = aNode[n].attempt + 1
           /\ aNode'[n].route = Admits!Route(n) /\ Admits!Route(n) \in {"claude", "codex"}
              /\ aNode'[n].attempt <= AMaxAttempt[n] /\ aNode[n].attempt \in Nat
           /\ \A m \in Admits!Node : m # n => aNode'[m] = aNode[m]
<1>1. aNode \in [Admits!Node -> Row] /\ AMaxAttempt[n] \in Nat /\ aNode[n].attempt < AMaxAttempt[n]
  BY AdmissionAssumed DEF AdmissionInv, Admits!TypeOK, Row, Admits!AdmissionAssumption, Waiting
<1>2. aNode[n] \in Row /\ Admits!Route(n) \in {"claude", "codex"}
  BY <1>1, RouteIs DEF AdmissionInv
<1>3. aNode[n].attempt \in Nat
  BY <1>2 DEF Row
<1>4. PICK r \in Row : r.state = "running" /\ r.attempt = aNode[n].attempt + 1 /\ r.route = Admits!Route(n)
                       /\ aNode' = [aNode EXCEPT ![n] = r]
  <2> DEFINE d == [[[aNode[n] EXCEPT !.state = "running"] EXCEPT !.attempt = aNode[n].attempt + 1] EXCEPT !.route = Admits!Route(n)]
  <2>1. aNode[n].attempt + 1 \in Nat
    BY <1>3
  <2>2. d \in Row /\ d.state = "running" /\ d.attempt = aNode[n].attempt + 1 /\ d.route = Admits!Route(n)
    BY <1>2, <2>1 DEF Row
  <2>3. aNode' = [aNode EXCEPT ![n] = d]
    BY <1>1, <1>2 DEF Row
  <2> HIDE DEF d
  <2> QED
    BY <2>2, <2>3
<1>5. aNode' \in [Admits!Node -> Row] /\ aNode'[n] = r /\ \A m \in Admits!Node : m # n => aNode'[m] = aNode[m]
  BY <1>1, <1>4
<1>6. aNode[n].attempt + 1 <= AMaxAttempt[n]
  BY <1>1, <1>3
<1> QED
  BY <1>2, <1>3, <1>4, <1>5, <1>6

LEMMA ClaimStep == ASSUME AdmissionInv, NEW lane, aTurn.at \in {"spark", "general"},
    Admits!Claim(lane) PROVE AdmissionInv'
<1>1. UNCHANGED <<aDeferred, aQuota, aObserved, aFutures, aRouted>>
  BY DEF Admits!Claim
<1>2. aTurn \in Turn /\ aNode \in [Admits!Node -> Row] /\ aFell \in [Admits!Node -> {"none", "policy", "cli"}]
  BY DEF AdmissionInv, Admits!TypeOK, Turn, Row
<1>3. Admits!CapacityKept' /\ Live' = Live /\ Admits!UnitsOf(Admits!Active)' = Admits!UnitsOf(Admits!Active)
  BY <1>1, CapacityStays
<1>4. Fitting /\ Counting /\ aTurn.at \in Rounds /\ Admits!UnitsOf(Admits!Active) <= aTurn.units
  BY DEF AdmissionInv, Counting, Rounds
<1>5. ASSUME NEW ws \in SUBSET Admits!Node, NEW at \in {"general", "record"},
             Left(lane, ws, at) PROVE AdmissionInv'
  <2>1. /\ aTurn' = [aTurn EXCEPT !.waits = ws, !.at = at]
        /\ UNCHANGED <<aNode, aFell>> /\ aWait' \in [Admits!Node -> SUBSET (Admits!Node \X Nat)]
    BY <1>5 DEF Left
  <2>2. aTurn' \in Turn /\ aTurn'.at = at /\ aTurn'.units = aTurn.units
    BY <1>2, <2>1 DEF Turn
  <2>3. Admits!TypeOK'
    BY <1>1, <2>1, <2>2 DEF AdmissionInv, Admits!TypeOK, Turn
  <2>4. Waiting' /\ Admits!ScopesDisjoint'
    BY <2>1, FewerRun DEF AdmissionInv, Waiting, Admits!Running
  <2>5. Fitting'
    BY <1>1, <1>4, <2>1, <2>2 DEF Fitting
  <2>6. Counting'
    BY <1>1, <1>3, <1>4, <2>2 DEF Counting
  <2> QED
    BY <1>3, <2>3, <2>4, <2>5, <2>6 DEF AdmissionInv
<1>6. ASSUME NEW n \in Admits!Node, NEW ws \in SUBSET Admits!Node,
             NEW w \in [Admits!Node -> SUBSET (Admits!Node \X Nat)], Taken(lane, n, ws, w)
      PROVE  AdmissionInv'
  <2>1. /\ Admits!Takes(n, lane)
        /\ aTurn' = [aTurn EXCEPT !.waits = ws, !.at = "claimed", !.node = n]
        /\ aNode' = [aNode EXCEPT ![n].state = "running", ![n].attempt = @ + 1, ![n].route = Admits!Route(n)]
        /\ aFell' = [aFell EXCEPT ![n] = "none"]
        /\ aWait' = [w EXCEPT ![n] = {}]
    BY <1>6 DEF Taken
  <2>2. aNode[n].state = "pending" /\ Admits!AloneInTask(n) /\ Admits!Blockers(n) = {}
    BY <2>1 DEF Admits!Takes, Admits!Considered
  <2>3. /\ aNode' \in [Admits!Node -> Row] /\ aNode'[n].state = "running"
           /\ aNode'[n].attempt = aNode[n].attempt + 1
        /\ aNode'[n].attempt <= AMaxAttempt[n] /\ aNode[n].attempt \in Nat
           /\ aNode'[n].route \in {"claude", "codex"}
        /\ \A m \in Admits!Node : m # n => aNode'[m] = aNode[m]
    BY <2>1, <2>2, TakenRow
  <2>4. aTurn' \in Turn /\ aTurn'.at = "claimed" /\ aTurn'.node = n /\ aTurn'.units = aTurn.units
    BY <1>2, <2>1 DEF Turn
  <2>5. Admits!TypeOK'
    <3>1. \A m \in Admits!Node : aNode'[m].attempt <= AMaxAttempt[m]
      BY <2>3 DEF AdmissionInv, Admits!TypeOK
    <3>2. aFell' \in [Admits!Node -> {"none", "policy", "cli"}]
      BY <1>2, <2>1
    <3>3. aWait' \in [Admits!Node -> SUBSET (Admits!Node \X Nat)]
      BY <2>1
    <3> QED
      BY <1>1, <2>3, <2>4, <3>1, <3>2, <3>3 DEF AdmissionInv, Admits!TypeOK, Turn, Row
  <2>6. Waiting'
    BY <2>3 DEF AdmissionInv, Waiting
  <2>7. Admits!ScopesDisjoint'
    <3>1. Admits!Running' = Admits!Running \cup {n}
      BY <2>3 DEF Admits!Running
    <3>2. \A m \in Admits!Running : ~Admits!ScopeConflict(n, m)
      BY <2>2 DEF Admits!Blockers
    <3>3. \A m \in Admits!Running : ~Admits!ScopeConflict(m, n)
      BY <3>2 DEF Admits!ScopeConflict
    <3>4. \A m \in Admits!Running : ATaskOf[m] = ATaskOf[n] => n \notin ASerial /\ m \notin ASerial
      BY <2>2 DEF Admits!AloneInTask
    <3>5. \A x, y \in Admits!Running' : x # y => ~Admits!ScopeConflict(x, y)
          /\ (ATaskOf[x] = ATaskOf[y] => x \notin ASerial /\ y \notin ASerial)
      BY <3>1, <3>2, <3>3, <3>4 DEF AdmissionInv, Admits!ScopesDisjoint
    <3> QED
      BY <3>5 DEF Admits!ScopesDisjoint, Admits!ScopeConflict
  <2>8. Fitting'
    <3>1. \A f \in aFutures : f.node \in Admits!Node /\ f.attempt \in Nat
      BY DEF AdmissionInv, Admits!TypeOK
    <3>2. \A f \in aFutures : f.node # n => aNode'[f.node] = aNode[f.node]
      BY <2>3, <3>1
    <3>3. \A f \in aFutures : f.node = n => f.at = "done" /\ f.attempt <= aNode[n].attempt
      BY <1>4, <2>2 DEF Fitting
    <3>4. \A f \in aFutures : f.node = n => f.attempt < aNode'[n].attempt
      BY <2>3, <3>1, <3>3
    <3>5. \A f \in aFutures : f.attempt <= aNode'[f.node].attempt
      <4>1. ASSUME NEW f \in aFutures PROVE f.attempt <= aNode'[f.node].attempt
        <5>1. CASE f.node # n
          BY <1>4, <3>2, <5>1 DEF Fitting
        <5>2. CASE f.node = n
          BY <2>3, <3>1, <3>4, <5>2
        <5> QED
          BY <5>1, <5>2
      <4> QED
        BY <4>1
    <3>6. \A f \in aFutures : f.at # "done" => aNode'[f.node].state = "running"
          /\ f.attempt = aNode'[f.node].attempt
      BY <1>4, <3>2, <3>3 DEF Fitting
    <3> QED
      BY <1>1, <1>4, <2>3, <2>4, <3>4, <3>5, <3>6 DEF Fitting
  <2>9. Counting'
    BY <1>1, <1>3, <1>4, <2>4 DEF Counting
  <2> QED
    BY <1>3, <2>5, <2>6, <2>7, <2>8, <2>9 DEF AdmissionInv
<1> QED
  BY <1>5, <1>6, ClaimTakes

LEMMA RecordStep == AdmissionInv /\ Admits!RecordDeferred => AdmissionInv'
<1> SUFFICES ASSUME AdmissionInv, Admits!RecordDeferred PROVE AdmissionInv'
  OBVIOUS
<1>1. UNCHANGED <<aNode, aWait, aFell, aQuota, aObserved, aFutures, aRouted>>
      /\ aTurn.at \in {"record", "claimed"}
  BY DEF Admits!RecordDeferred
<1>2. aTurn \in Turn
  BY DEF AdmissionInv, Admits!TypeOK, Turn
<1>3. aTurn' = [aTurn EXCEPT !.at = IF aTurn.at = "record" THEN "top" ELSE "submit", !.waits = {}]
  BY <1>2 DEF Admits!RecordDeferred, Turn
<1>4. /\ aTurn' \in Turn /\ aTurn'.units = aTurn.units /\ aTurn'.node = aTurn.node
      /\ aTurn'.at = "top" \/ (aTurn'.at = "submit" /\ aTurn.at = "claimed")
  BY <1>1, <1>2, <1>3 DEF Turn
<1>5. aDeferred' \in [Admits!Node -> Nat]
  <2>1. \A n \in Admits!Node : aNode[n].attempt + 1 \in Nat /\ aDeferred[n] \in Nat
    BY DEF AdmissionInv, Admits!TypeOK
  <2> QED
    BY <2>1 DEF Admits!RecordDeferred
<1>6. Admits!TypeOK'
  BY <1>1, <1>4, <1>5 DEF AdmissionInv, Admits!TypeOK, Turn
<1>7. Waiting' /\ Admits!ScopesDisjoint'
  BY <1>1, FewerRun DEF AdmissionInv, Waiting, Admits!Running
<1>8. Fitting'
  <2>1. Fitting
    BY DEF AdmissionInv
  <2> QED
    BY <1>1, <1>4, <2>1 DEF Fitting
<1>9. Admits!CapacityKept' /\ Live' = Live /\ Admits!UnitsOf(Admits!Active)' = Admits!UnitsOf(Admits!Active)
  BY <1>1, CapacityStays
<1>10. Counting'
  <2>1. Counting
    BY DEF AdmissionInv
  <2> QED
    BY <1>1, <1>4, <1>9, <2>1 DEF Counting, Rounds
<1> QED
  BY <1>6, <1>7, <1>8, <1>9, <1>10 DEF AdmissionInv

LEMMA SubmitStep == AdmissionInv /\ Admits!Submit => AdmissionInv'
<1> SUFFICES ASSUME AdmissionInv, Admits!Submit PROVE AdmissionInv'
  OBVIOUS
<1> DEFINE n == aTurn.node
           cl == aNode[n].route = "claude" /\ Admits!ClaimTimeDecision(n) = "claude"
           tw == \E f \in aFutures : f.node = n
<1>1. UNCHANGED <<aNode, aWait, aDeferred, aFell, aQuota, aObserved, aRouted>> /\ aTurn.at = "submit"
  BY DEF Admits!Submit
<1>2. aTurn \in Turn /\ aFutures \subseteq Future /\ aNode \in [Admits!Node -> Row]
  BY DEF AdmissionInv, Admits!TypeOK, Turn, Future, Row
<1>3. n \in Admits!Node /\ aNode[n].attempt \in Nat /\ AUnits[n] \in 1..2
  BY <1>2, AdmissionAssumed DEF Turn, Row, Admits!AdmissionAssumption
<1>4. aTurn' \in Turn /\ aTurn'.at = "look"
  BY <1>2 DEF Admits!Submit, Turn
<1>5. PICK b \in BOOLEAN : b = cl
  OBVIOUS
<1>6. PICK c \in BOOLEAN : c = tw
  OBVIOUS
<1>7. aFutures' = aFutures \cup {[node |-> n, attempt |-> aNode[n].attempt, at |-> "start", claude |-> b, twice |-> c]}
  BY <1>5, <1>6 DEF Admits!Submit
<1>8. b => Admits!ClaimTimeDecision(n) = "claude"
  BY <1>5
<1>9. ~c => \A f \in aFutures : f.node # n
  BY <1>6
<1> HIDE DEF cl, tw
<1>10. PICK g \in Future : /\ g.node = n /\ g.attempt = aNode[n].attempt /\ g.at = "start" /\ g.claude = b /\ g.twice = c
                           /\ aFutures' = aFutures \cup {g}
  <2> DEFINE d == [node |-> n, attempt |-> aNode[n].attempt, at |-> "start", claude |-> b, twice |-> c]
  <2>1. d \in Future
    BY <1>3 DEF Future
  <2> QED
    BY <1>7, <2>1
<1>11. Admits!TypeOK'
  BY <1>1, <1>2, <1>4, <1>10 DEF AdmissionInv, Admits!TypeOK, Turn, Future
<1>12. Waiting' /\ Admits!ScopesDisjoint'
  BY <1>1, FewerRun DEF AdmissionInv, Waiting, Admits!Running
<1>13. aNode[n].state = "running" /\ \A f \in aFutures : f.node = n => f.attempt < aNode[n].attempt
  BY <1>1 DEF AdmissionInv, Fitting
<1>14. Fitting'
  <2>1. Fitting
    BY DEF AdmissionInv
  <2>2. \A f \in aFutures : f.attempt \in Nat
    BY <1>2 DEF Future
  <2>3. \A f \in aFutures' :
          /\ f.attempt <= aNode[f.node].attempt
          /\ f.at # "done" => aNode[f.node].state = "running" /\ f.attempt = aNode[f.node].attempt
    <3>1. g.attempt <= aNode[g.node].attempt
      BY <1>3, <1>10
    <3> QED
      BY <1>10, <1>13, <2>1, <3>1 DEF Fitting
  <2>4. \A f \in aFutures : f.node = g.node => f.attempt # g.attempt
    BY <1>3, <1>10, <1>13, <2>2
  <2>5. \A f, h \in aFutures' : f.node = h.node /\ f.attempt = h.attempt => f = h
    BY <1>10, <2>1, <2>4 DEF Fitting
  <2> QED
    BY <1>1, <1>4, <2>3, <2>5 DEF Fitting
<1>15. Counting
  BY DEF AdmissionInv
<1>16. Live \in SUBSET aFutures /\ Admits!Active \in SUBSET aFutures /\ IsFiniteSet(aFutures)
  BY <1>15 DEF Live, Admits!Active, Counting
<1>17. Live \in SUBSET Admits!Active
  BY <1>15 DEF Live, Admits!Active, Counting
<1>18. IsFiniteSet(Live) /\ IsFiniteSet(Admits!Active)
       /\ Admits!UnitsOf(Live) <= Admits!UnitsOf(Admits!Active) /\ Admits!UnitsOf(Live) \in Nat
          /\ Admits!UnitsOf(Admits!Active) \in Nat
  BY <1>16, <1>17, UnitsBound
<1>19. Live' = IF b /\ ~c THEN Live \cup {g} ELSE Live
  BY <1>10 DEF Live
<1>20. Counting'
  <2>1. IsFiniteSet(aFutures')
    BY <1>10, <1>16, FS_AddElement
  <2>2. \A m \in aRouted : \E f \in aFutures' : f.node = m
    BY <1>10, <1>15 DEF Counting
  <2>3. \A f \in Live' : f.node \notin aRouted
    BY <1>9, <1>10, <1>15, <1>19 DEF Counting
  <2> QED
    BY <1>1, <1>4, <2>1, <2>2, <2>3 DEF Counting, Rounds
<1>21. Admits!CapacityKept'
  <2>1. Admits!UnitsOf(Live) <= 2
    BY CapacityIs DEF AdmissionInv
  <2>2. Admits!UnitsOf(Live') <= 2
    <3>1. CASE b /\ ~c
      <4>1. Admits!DispatchDecision(n, aTurn.quota, aTurn.units) = "claude"
        BY <1>8, <3>1 DEF Admits!ClaimTimeDecision
      <4>2. aTurn.units \in Nat /\ Admits!UnitsOf(Admits!Active) <= aTurn.units
        BY <1>1, <1>2, <1>15, AdmissionAssumed DEF Counting, Rounds, Turn, Admits!AdmissionAssumption
      <4>3. AUnits[n] + aTurn.units <= 2
        BY <1>3, <4>1, <4>2 DEF Admits!DispatchDecision
      <4>4. Admits!UnitsOf(Live \cup {g}) <= Admits!UnitsOf(Live) + AUnits[g.node] /\ IsFiniteSet(Live \cup {g})
        BY <1>3, <1>10, <1>18, UnitsAtMost
      <4>5. Admits!UnitsOf(Live \cup {g}) \in Nat
        BY <4>4, UnitsBound
      <4>6. Admits!UnitsOf(Live \cup {g}) <= 2
        BY <1>3, <1>10, <1>18, <4>2, <4>3, <4>4, <4>5
      <4> QED
        BY <1>19, <3>1, <4>6
    <3>2. CASE ~(b /\ ~c)
      BY <1>19, <2>1, <3>2
    <3> QED
      BY <3>1, <3>2
  <2> QED
    BY <2>2 DEF Admits!CapacityKept, Live
<1> QED
  BY <1>11, <1>12, <1>14, <1>20, <1>21 DEF AdmissionInv

\* What a worker's step makes of its future.
LEMMA MovedFuture ==
    ASSUME Admits!TypeOK, NEW f \in aFutures, NEW at \in {"start", "claude", "codex", "done"},
           Admits!Moves(f, at)
    PROVE  \E g \in Future : /\ g.node = f.node /\ g.attempt = f.attempt /\ g.claude = f.claude /\ g.twice = f.twice
                             /\ g.at = at /\ aFutures' = (aFutures \ {f}) \cup {g}
<1>1. f \in Future
  BY DEF Admits!TypeOK, Future
<1>2. [f EXCEPT !.at = at] \in Future /\ [f EXCEPT !.at = at].at = at
  BY <1>1 DEF Future
<1>3. /\ [f EXCEPT !.at = at].node = f.node /\ [f EXCEPT !.at = at].attempt = f.attempt
      /\ [f EXCEPT !.at = at].claude = f.claude /\ [f EXCEPT !.at = at].twice = f.twice
  BY <1>1 DEF Future
<1> QED
  BY <1>2, <1>3 DEF Admits!Moves

\* A worker that goes on: its row stays running, or the future is done with it.
LEMMA WorkerMoves ==
    ASSUME AdmissionInv, NEW f \in aFutures, NEW at \in {"start", "claude", "codex", "done"},
           Admits!Moves(f, at),
           f.at # "done", at \in {"start", "claude"} => f.at \in {"start", "claude"} /\ aRouted' = aRouted,
           aRouted' = aRouted \/ aRouted' = aRouted \cup {f.node},
           aNode' \in [Admits!Node -> Row], \A m \in Admits!Node : m # f.node => aNode'[m] = aNode[m],
           aNode'[f.node].attempt = aNode[f.node].attempt,
           aNode'[f.node].state # "pending", aNode'[f.node].route \in {"claude", "codex"}, at # "done"
           => aNode'[f.node].state = "running",
           aTurn' = aTurn, UNCHANGED <<aWait, aDeferred, aQuota, aObserved>>,
           aFell' \in [Admits!Node -> {"none", "policy", "cli"}]
    PROVE  AdmissionInv'
<1>1. PICK g \in Future : /\ g.node = f.node /\ g.attempt = f.attempt /\ g.claude = f.claude /\ g.twice = f.twice
                          /\ g.at = at /\ aFutures' = (aFutures \ {f}) \cup {g}
  BY MovedFuture DEF AdmissionInv
<1>2. aFutures \subseteq Future /\ f \in Future /\ aNode \in [Admits!Node -> Row]
  BY DEF AdmissionInv, Admits!TypeOK, Future, Row
<1>3. f.node \in Admits!Node /\ Fitting /\ Counting
  BY <1>2 DEF Future, AdmissionInv
<1>4. aNode[f.node].state = "running" /\ f.attempt = aNode[f.node].attempt
  BY <1>3 DEF Fitting
<1>5. Admits!TypeOK'
  <2>1. \A m \in Admits!Node : aNode'[m].attempt <= AMaxAttempt[m]
    BY DEF AdmissionInv, Admits!TypeOK
  <2>2. aRouted' \subseteq Admits!Node
    BY <1>3 DEF AdmissionInv, Admits!TypeOK
  <2>3. aFutures' \subseteq Future
    BY <1>1, <1>2
  <2> QED
    BY <2>1, <2>2, <2>3 DEF AdmissionInv, Admits!TypeOK, Future, Row
<1>6. Waiting'
  BY DEF AdmissionInv, Waiting
<1>7. Admits!ScopesDisjoint'
  <2>1. Admits!Running' \subseteq Admits!Running
    BY <1>4 DEF Admits!Running
  <2> QED
    BY <2>1, FewerRun DEF AdmissionInv
<1>8. Fitting'
  <2>1. \A h \in aFutures' : h = g \/ (h \in aFutures /\ h # f)
    BY <1>1
  <2>2. \A h \in aFutures : h # f /\ h.node = f.node => h.at = "done"
    <3>1. ASSUME NEW h \in aFutures, h.node = f.node, h.at # "done" PROVE h = f
      <4>1. h.attempt = f.attempt
        BY <1>3, <1>4, <3>1 DEF Fitting
      <4> QED
        BY <1>3, <3>1, <4>1 DEF Fitting
    <3> QED
      BY <3>1
  <2>3. \A h \in aFutures : h.node \in Admits!Node
    BY <1>2 DEF Future
  <2>4. ASSUME NEW h \in aFutures'
        PROVE  /\ h.attempt <= aNode'[h.node].attempt
               /\ h.at # "done" => aNode'[h.node].state = "running" /\ h.attempt = aNode'[h.node].attempt
    <3>1. CASE h = g
      BY <1>1, <1>3, <1>4, <3>1 DEF Fitting
    <3>2. CASE h \in aFutures /\ h # f /\ h.node = f.node
      BY <1>3, <2>2, <3>2 DEF Fitting
    <3>3. CASE h \in aFutures /\ h # f /\ h.node # f.node
      <4>1. aNode'[h.node] = aNode[h.node]
        BY <2>3, <3>3
      <4> QED
        BY <1>3, <3>3, <4>1 DEF Fitting
    <3> QED
      BY <2>1, <2>4, <3>1, <3>2, <3>3
  <2>5. \A h, i \in aFutures' : h.node = i.node /\ h.attempt = i.attempt => h = i
    <3>1. \A h \in aFutures : h.node = g.node /\ h.attempt = g.attempt => h = f
      BY <1>1, <1>3 DEF Fitting
    <3> QED
      BY <1>3, <2>1, <3>1 DEF Fitting
  <2>6. aTurn.at \in {"claimed", "submit"} =>
          /\ aNode'[aTurn.node].state = "running"
          /\ \A h \in aFutures' : h.node = aTurn.node => h.attempt < aNode'[aTurn.node].attempt
    <3>1. SUFFICES ASSUME aTurn.at \in {"claimed", "submit"}
                   PROVE  /\ aNode'[aTurn.node].state = "running"
                          /\ \A h \in aFutures' : h.node = aTurn.node => h.attempt < aNode'[aTurn.node].attempt
      OBVIOUS
    <3>2. aNode[aTurn.node].state = "running" /\ \A h \in aFutures : h.node = aTurn.node
          => h.attempt < aNode[aTurn.node].attempt
      BY <1>3, <3>1 DEF Fitting
    <3>3. f.node # aTurn.node
      <4>1. aNode[f.node].attempt \in Nat
        BY <1>2, <1>3 DEF Row
      <4> QED
        BY <1>4, <3>2, <4>1
    <3>4. aTurn.node \in Admits!Node
      BY DEF AdmissionInv, Admits!TypeOK
    <3>5. aNode'[aTurn.node] = aNode[aTurn.node]
      BY <3>3, <3>4
    <3> QED
      BY <1>1, <2>1, <3>2, <3>3, <3>5
  <2> QED
    BY <2>4, <2>5, <2>6 DEF Fitting
<1>9. /\ IsFiniteSet(aFutures') /\ Admits!UnitsOf(Admits!Active)' <= Admits!UnitsOf(Admits!Active)
         /\ Admits!UnitsOf(Admits!Active) \in Nat /\ Admits!CapacityKept'
      /\ Admits!UnitsOf(Admits!Active)' \in Nat
  BY <1>1, MovedUnits
<1>10. Counting'
  <2>1. \A m \in aRouted' : \E h \in aFutures' : h.node = m
    <3>1. ASSUME NEW m \in aRouted' PROVE \E h \in aFutures' : h.node = m
      <4>1. CASE m = f.node
        BY <1>1, <4>1
      <4>2. CASE m # f.node
        <5>1. PICK h \in aFutures : h.node = m
          BY <1>3, <3>1, <4>2 DEF Counting
        <5> QED
          BY <1>1, <4>2, <5>1
      <4> QED
        BY <4>1, <4>2
    <3> QED
      BY <3>1
  <2>2. ASSUME NEW h \in Live' PROVE h.node \notin aRouted'
    <3>1. h \in aFutures' /\ h.claude /\ ~h.twice /\ h.at \in {"start", "claude"}
      BY DEF Live
    <3>2. CASE h = g
      <4>1. aRouted' = aRouted /\ f \in Live
        BY <1>1, <3>1, <3>2 DEF Live
      <4> QED
        BY <1>1, <1>3, <3>2, <4>1 DEF Counting
    <3>3. CASE h \in aFutures /\ h # f
      <4>1. h \in Live
        BY <3>1, <3>3 DEF Live
      <4>2. h.node # f.node
        <5>1. h.at # "done"
          BY <3>1
        <5>2. h.attempt = aNode[h.node].attempt
          BY <1>3, <3>3, <5>1 DEF Fitting
        <5> QED
          BY <1>3, <1>4, <3>3, <5>2 DEF Fitting
      <4> QED
        BY <1>3, <4>1, <4>2 DEF Counting
    <3> QED
      BY <1>1, <3>1, <3>2, <3>3
  <2>3. aTurn.at \in Rounds => Admits!UnitsOf(Admits!Active)' <= aTurn.units
    <3>1. aTurn.at \in Rounds => Admits!UnitsOf(Admits!Active) <= aTurn.units /\ aTurn.units \in Nat
      BY <1>3, AdmissionAssumed DEF Counting, AdmissionInv, Admits!TypeOK, Admits!AdmissionAssumption
    <3> QED
      BY <1>9, <3>1
  <2> QED
    BY <1>9, <2>1, <2>2, <2>3 DEF Counting
<1> QED
  BY <1>5, <1>6, <1>7, <1>8, <1>9, <1>10 DEF AdmissionInv

LEMMA FallbackStep ==
    ASSUME AdmissionInv, NEW f \in aFutures, f.at \in {"start", "claude"}, NEW why \in {"policy", "cli"},
           Admits!Fallback(f, why)
    PROVE  AdmissionInv'
<1>1. /\ aNode \in [Admits!Node -> Row] /\ f.node \in Admits!Node
         /\ aFell \in [Admits!Node -> {"none", "policy", "cli"}]
      /\ aNode[f.node].state = "running"
  BY DEF AdmissionInv, Admits!TypeOK, Row, Fitting
<1>2. PICK r \in Row : r.state = "running" /\ r.attempt = aNode[f.node].attempt /\ r.route = "codex"
      /\ aNode' = [aNode EXCEPT ![f.node] = r]
  <2> DEFINE d == [aNode[f.node] EXCEPT !.route = "codex"]
  <2>1. d \in Row /\ d.state = "running" /\ d.attempt = aNode[f.node].attempt /\ d.route = "codex"
    BY <1>1 DEF Row
  <2>2. aNode' = [aNode EXCEPT ![f.node] = d]
    BY <1>1 DEF Admits!Fallback
  <2> HIDE DEF d
  <2> QED
    BY <2>1, <2>2
<1>3. aNode' \in [Admits!Node -> Row] /\ aNode'[f.node] = r /\ \A m \in Admits!Node : m # f.node
      => aNode'[m] = aNode[m]
  BY <1>1, <1>2
<1>4. aFell' \in [Admits!Node -> {"none", "policy", "cli"}]
  BY <1>1 DEF Admits!Fallback
<1>5. Admits!Moves(f, "codex") /\ aRouted' = aRouted \cup {f.node}
      /\ UNCHANGED <<aWait, aDeferred, aQuota, aObserved, aTurn>>
  BY DEF Admits!Fallback
<1> QED
  BY <1>2, <1>3, <1>4, <1>5, WorkerMoves

LEMMA WorkerStep == ASSUME AdmissionInv, NEW f \in aFutures, Admits!Worker(f) PROVE AdmissionInv'
<1>1. /\ aNode \in [Admits!Node -> Row] /\ f.node \in Admits!Node
         /\ aFell \in [Admits!Node -> {"none", "policy", "cli"}]
      /\ f.at # "done" => aNode[f.node].state = "running" /\ aNode[f.node].route \in {"claude", "codex"}
  BY DEF AdmissionInv, Admits!TypeOK, Row, Fitting, Waiting
<1>2. CASE Admits!StartFallback(f)
  BY <1>2, FallbackStep DEF Admits!StartFallback
<1>3. CASE Admits!ClaudeFails(f)
  BY <1>3, FallbackStep DEF Admits!ClaudeFails
<1>4. CASE Admits!StartModel(f)
  <2>1. /\ f.at = "start" /\ Admits!Moves(f, aNode[f.node].route)
        /\ UNCHANGED <<aNode, aWait, aDeferred, aFell, aQuota, aObserved, aRouted, aTurn>>
    BY <1>4 DEF Admits!StartModel
  <2>2. PICK at \in {"start", "claude", "codex", "done"} : at = aNode[f.node].route /\ at # "done"
    BY <1>1, <2>1
  <2> QED
    BY <1>1, <2>1, <2>2, WorkerMoves
<1>5. CASE Admits!Settle(f)
  <2>1. /\ f.at \in {"claude", "codex"} /\ Admits!Moves(f, "done")
        /\ UNCHANGED <<aWait, aDeferred, aFell, aQuota, aObserved, aRouted, aTurn>>
    BY <1>5 DEF Admits!Settle
  <2>2. PICK s \in {"accepted", "failed"} : aNode' = [aNode EXCEPT ![f.node].state = s, ![f.node].since = TRUE]
    BY <1>5 DEF Admits!Settle
  <2>3. PICK r \in Row : r.state = s /\ r.attempt = aNode[f.node].attempt /\ r.route = aNode[f.node].route
        /\ aNode' = [aNode EXCEPT ![f.node] = r]
    <3> DEFINE d == [[aNode[f.node] EXCEPT !.state = s] EXCEPT !.since = TRUE]
    <3>1. d \in Row /\ d.state = s /\ d.attempt = aNode[f.node].attempt /\ d.route = aNode[f.node].route
      BY <1>1 DEF Row
    <3>2. aNode' = [aNode EXCEPT ![f.node] = d]
      BY <1>1, <2>2
    <3> HIDE DEF d
    <3> QED
      BY <3>1, <3>2
  <2>4. aNode' \in [Admits!Node -> Row] /\ aNode'[f.node] = r /\ \A m \in Admits!Node : m # f.node
        => aNode'[m] = aNode[m]
    BY <1>1, <2>3
  <2> QED
    BY <1>1, <2>1, <2>3, <2>4, WorkerMoves
<1> QED
  BY <1>2, <1>3, <1>4, <1>5 DEF Admits!Worker

LEMMA RetryStep == ASSUME AdmissionInv, NEW n \in Admits!Node, Admits!Retry(n) PROVE AdmissionInv'
<1>1. /\ aNode[n].state = "failed" /\ aNode[n].attempt < AMaxAttempt[n] /\ aNode \in [Admits!Node -> Row]
      /\ UNCHANGED <<aWait, aDeferred, aFell, aQuota, aObserved, aFutures, aRouted, aTurn>>
  BY DEF Admits!Retry, AdmissionInv, Admits!TypeOK, Row
<1>2. PICK rt \in {"none", "claude", "codex"} :
        aNode' = [aNode EXCEPT ![n].state = "pending", ![n].route = rt, ![n].since = FALSE]
  BY <1>1 DEF Admits!Retry, Row
<1>3. PICK r \in Row : r.state = "pending" /\ r.attempt = aNode[n].attempt /\ aNode' = [aNode EXCEPT ![n] = r]
  <2> DEFINE d == [[[aNode[n] EXCEPT !.state = "pending"] EXCEPT !.route = rt] EXCEPT !.since = FALSE]
  <2>1. d \in Row /\ d.state = "pending" /\ d.attempt = aNode[n].attempt
    BY <1>1 DEF Row
  <2>2. aNode' = [aNode EXCEPT ![n] = d]
    BY <1>1, <1>2
  <2> HIDE DEF d
  <2> QED
    BY <2>1, <2>2
<1>4. aNode' \in [Admits!Node -> Row] /\ aNode'[n] = r /\ \A m \in Admits!Node : m # n => aNode'[m] = aNode[m]
  BY <1>1, <1>3
<1>5. Admits!TypeOK'
  <2>1. \A m \in Admits!Node : aNode'[m].attempt <= AMaxAttempt[m]
    BY <1>3, <1>4 DEF AdmissionInv, Admits!TypeOK
  <2> QED
    BY <1>1, <1>4, <2>1 DEF AdmissionInv, Admits!TypeOK, Row
<1>6. Waiting'
  BY <1>1, <1>3, <1>4 DEF AdmissionInv, Waiting
<1>7. Admits!ScopesDisjoint'
  <2>1. Admits!Running' \subseteq Admits!Running
    BY <1>3, <1>4 DEF Admits!Running
  <2> QED
    BY <2>1, FewerRun DEF AdmissionInv
<1>8. Fitting'
  <2>1. Fitting /\ aTurn.node \in Admits!Node /\ \A f \in aFutures : f.node \in Admits!Node
    BY DEF AdmissionInv, Admits!TypeOK
  <2>2. \A f \in aFutures : f.node = n => f.at = "done"
    BY <1>1, <2>1 DEF Fitting
  <2>3. aTurn.at \in {"claimed", "submit"} => aTurn.node # n
    BY <1>1, <2>1 DEF Fitting
  <2>4. \A m \in Admits!Node : aNode'[m].attempt = aNode[m].attempt
    BY <1>3, <1>4
  <2> QED
    BY <1>1, <1>4, <2>1, <2>2, <2>3, <2>4 DEF Fitting
<1>9. Admits!CapacityKept' /\ Live' = Live /\ Admits!UnitsOf(Admits!Active)' = Admits!UnitsOf(Admits!Active)
  BY <1>1, CapacityStays
<1>10. Counting'
  BY <1>1, <1>9 DEF AdmissionInv, Counting
<1> QED
  BY <1>5, <1>6, <1>7, <1>8, <1>9, <1>10 DEF AdmissionInv

\* What the rows say of their states, attempts and routes is all that counts.
LEMMA RowsStay ==
    ASSUME AdmissionInv, UNCHANGED <<aWait, aDeferred, aFell, aFutures, aRouted, aTurn>>,
           aQuota' \in Admits!Quotas,
           aObserved' \in 0..AMaxObserved, aNode' \in [Admits!Node -> Row],
           \A m \in Admits!Node : aNode'[m].state = aNode[m].state /\ aNode'[m].attempt = aNode[m].attempt
           /\ aNode'[m].route = aNode[m].route
    PROVE  AdmissionInv'
<1>1. Admits!TypeOK'
  BY DEF AdmissionInv, Admits!TypeOK, Row
<1>2. Waiting'
  BY DEF AdmissionInv, Waiting
<1>3. Admits!ScopesDisjoint'
  <2>1. Admits!Running' = Admits!Running
    BY DEF Admits!Running
  <2> QED
    BY <2>1, FewerRun DEF AdmissionInv
<1>4. Fitting'
  <2>1. Fitting /\ aTurn.node \in Admits!Node /\ \A f \in aFutures : f.node \in Admits!Node
    BY DEF AdmissionInv, Admits!TypeOK
  <2> QED
    BY <2>1 DEF Fitting
<1>5. Admits!CapacityKept' /\ Live' = Live /\ Admits!UnitsOf(Admits!Active)' = Admits!UnitsOf(Admits!Active)
  BY CapacityStays
<1>6. Counting'
  BY <1>5 DEF AdmissionInv, Counting
<1> QED
  BY <1>1, <1>2, <1>3, <1>4, <1>5, <1>6 DEF AdmissionInv

LEMMA ObserveStep == AdmissionInv /\ Admits!Observe => AdmissionInv'
<1> SUFFICES ASSUME AdmissionInv, Admits!Observe PROVE AdmissionInv'
  OBVIOUS
<1>1. /\ UNCHANGED <<aWait, aDeferred, aFell, aFutures, aRouted, aTurn>> /\ aQuota' \in Admits!Quotas
      /\ aObserved < AMaxObserved /\ aObserved' = aObserved + 1 /\ aNode \in [Admits!Node -> Row]
         /\ aObserved \in 0..AMaxObserved
  BY DEF Admits!Observe, AdmissionInv, Admits!TypeOK, Row
<1>2. aObserved' \in 0..AMaxObserved
  BY <1>1, AdmissionAssumed DEF Admits!AdmissionAssumption
<1>3. PICK b \in {TRUE, FALSE} : aNode' = [m \in Admits!Node |-> [aNode[m] EXCEPT !.since = @ /\ ~b]]
  BY DEF Admits!Observe
<1>4. ASSUME NEW m \in Admits!Node
      PROVE  /\ aNode'[m] \in Row
             /\ aNode'[m].state = aNode[m].state /\ aNode'[m].attempt = aNode[m].attempt
                /\ aNode'[m].route = aNode[m].route
  <2> DEFINE c == aNode[m].since /\ ~b
  <2>1. c \in BOOLEAN
    OBVIOUS
  <2>2. aNode'[m] = [aNode[m] EXCEPT !.since = c]
    BY <1>3
  <2> HIDE DEF c
  <2>3. aNode[m] \in Row
    BY <1>1
  <2> QED
    BY <2>1, <2>2, <2>3 DEF Row
<1>5. aNode' \in [Admits!Node -> Row]
  <2>1. DOMAIN aNode' = Admits!Node /\ aNode' = [m \in Admits!Node |-> aNode'[m]]
    BY <1>3
  <2> QED
    BY <1>4, <2>1
<1> QED
  BY <1>1, <1>2, <1>4, <1>5, RowsStay

LEMMA AdmissionNext == AdmissionInv /\ [Admits!Next]_Admits!vars => AdmissionInv'
<1> SUFFICES ASSUME AdmissionInv, [Admits!Next]_Admits!vars PROVE AdmissionInv'
  OBVIOUS
<1>1. CASE Admits!ClaimSpark
  BY <1>1, ClaimStep DEF Admits!ClaimSpark
<1>2. CASE Admits!ClaimGeneral
  BY <1>2, ClaimStep DEF Admits!ClaimGeneral
<1>3. CASE UNCHANGED Admits!vars
  <2>1. UNCHANGED <<aWait, aDeferred, aFell, aFutures, aRouted, aTurn, aQuota, aObserved, aNode>>
    BY <1>3 DEF Admits!vars
  <2>2. aQuota \in Admits!Quotas /\ aObserved \in 0..AMaxObserved /\ aNode \in [Admits!Node -> Row]
    BY DEF AdmissionInv, Admits!TypeOK, Row
  <2> QED
    BY <2>1, <2>2, RowsStay
<1> QED
  BY <1>1, <1>2, <1>3, CollectStep, LookStep, RecordStep, SubmitStep, WorkerStep, RetryStep, ObserveStep
  DEF Admits!Next

\* A claim that takes nobody while nothing runs has left each ready node to something newer.
LEMMA LeftWaiting ==
    ASSUME AdmissionInv, Admits!Claim("general"), Admits!Running = {}, aTurn.units = 0,
           NEW n \in Admits!Node, aNode[n].state = "pending",
           \A m \in ADependsOn[n] : aNode[m].state = "accepted",
           Admits!Lane(n, Admits!Route(n), aNode[n].attempt + 1) # "spark",
           NEW ws \in SUBSET Admits!Node, NEW at, Left("general", ws, at)
    PROVE  n \in aTurn'.waits /\ Admits!LatestCompleted # {}
<1>1. Admits!Considered(n, "general")
  <2>1. aNode[n].attempt < AMaxAttempt[n]
    BY DEF AdmissionInv, Waiting
  <2>2. Admits!Lane(n, Admits!Route(n), aNode[n].attempt + 1) = "general"
    BY DEF Admits!Lane
  <2>3. ~Admits!LaneFull("general")
    BY DEF Admits!LaneFull
  <2>4. Admits!AloneInTask(n)
    BY DEF Admits!AloneInTask
  <2> QED
    BY <2>1, <2>2, <2>3, <2>4 DEF Admits!Considered
<1>2. Admits!Blockers(n) = {}
  BY DEF Admits!Blockers
<1>3. n \in ws /\ ~Admits!Admissible(n)
  BY <1>1, <1>2 DEF Left
<1>4. aTurn' = [aTurn EXCEPT !.waits = ws, !.at = at]
  BY DEF Left
<1>5. aTurn'.waits = ws
  BY <1>4 DEF AdmissionInv, Admits!TypeOK
<1>6. Admits!DispatchDecision(n, aTurn.quota, aTurn.units) # "defer"
  <2>1. AUnits[n] \in 1..2
    BY AdmissionAssumed DEF Admits!AdmissionAssumption
  <2> QED
    BY <2>1 DEF Admits!DispatchDecision
<1> QED
  BY <1>3, <1>5, <1>6 DEF Admits!Admissible, Admits!PendingAdmission

LEMMA ClaimIsSound == ASSUME AdmissionInv, NEW lane \in {"spark", "general"}, aTurn.at = lane,
    Admits!Claim(lane) PROVE Admits!ClaimsSound
<1>1. aTurn \in Turn /\ aNode \in [Admits!Node -> Row]
  BY DEF AdmissionInv, Admits!TypeOK, Turn, Row
<1>2. \A m \in Admits!Node : \A b \in Admits!Blockers(m) : aNode[b[1]].state = "running"
      /\ aNode[b[1]].attempt = b[2]
  BY DEF Admits!Blockers, Admits!Running
<1>3. \A m \in Admits!Node : Admits!Reconciled[m] # {} =>
        /\ aNode[m].state = "pending"
        /\ \E b \in Admits!Reconciled[m] : aNode[b[1]].state = "running" /\ aNode[b[1]].attempt = b[2]
  BY DEF Admits!Reconciled
<1>4. ASSUME NEW n \in Admits!Node, NEW ws \in SUBSET Admits!Node,
             NEW w \in [Admits!Node -> SUBSET (Admits!Node \X Nat)], Taken(lane, n, ws, w)
      PROVE  Admits!ClaimsSound
  <2>1. aNode[n].state = "pending"
    BY <1>4 DEF Taken, Admits!Takes, Admits!Considered
  <2>2. /\ aWait' = [w EXCEPT ![n] = {}]
        /\ \A m \in Admits!Node : w[m] # {} => (Admits!Considered(m, lane) /\ w[m] = Admits!Blockers(m))
           \/ w[m] = Admits!Reconciled[m]
        /\ aNode' = [aNode EXCEPT ![n].state = "running", ![n].attempt = @ + 1, ![n].route = Admits!Route(n)]
        /\ aTurn' = [aTurn EXCEPT !.waits = ws, !.at = "claimed", !.node = n]
    BY <1>4 DEF Taken
  <2>3. aNode'[n].route = Admits!Route(n) /\ \A m \in Admits!Node : m # n => aNode'[m] = aNode[m]
    BY <2>1, <2>2, TakenRow
  <2>4. aTurn'.at = "claimed"
    BY <1>1, <2>2 DEF Turn
  <2>5. \A m \in Admits!Node : aWait'[m] # {} =>
          /\ aNode'[m].state = "pending"
          /\ \E b \in aWait'[m] : aNode[b[1]].state = "running" /\ aNode[b[1]].attempt = b[2]
    <3>1. SUFFICES ASSUME NEW m \in Admits!Node, aWait'[m] # {}
                   PROVE  /\ aNode'[m].state = "pending"
                          /\ \E b \in aWait'[m] : aNode[b[1]].state = "running" /\ aNode[b[1]].attempt = b[2]
      OBVIOUS
    <3>2. m # n /\ aWait'[m] = w[m]
      BY <2>2, <3>1
    <3>3. aNode'[m] = aNode[m]
      BY <2>3, <3>2
    <3> QED
      BY <1>2, <1>3, <2>2, <3>1, <3>2, <3>3 DEF Admits!Considered
  <2>6. \A m \in Admits!Node : aNode'[m].state # aNode[m].state /\ aFell[m] = "policy"
        => aNode'[m].route = "codex"
    BY <2>3 DEF Admits!Route
  <2> QED
    BY <2>4, <2>5, <2>6 DEF Admits!ClaimsSound
<1>5. ASSUME NEW ws \in SUBSET Admits!Node, NEW at \in {"general", "record"},
             Left(lane, ws, at) PROVE Admits!ClaimsSound
  <2>1. /\ at = (IF lane = "spark" THEN "general" ELSE "record") /\ aNode' = aNode
        /\ aTurn' = [aTurn EXCEPT !.waits = ws, !.at = at]
        /\ \A m \in Admits!Node : aWait'[m] # {} =>
              (Admits!Considered(m, lane) /\ aWait'[m] = Admits!Blockers(m)) \/ aWait'[m] = Admits!Reconciled[m]
    BY <1>5 DEF Left
  <2>2. aTurn'.at = at
    BY <1>1, <2>1 DEF Turn
  <2>3. \A m \in Admits!Node : aWait'[m] # {} =>
          /\ aNode'[m].state = "pending"
          /\ \E b \in aWait'[m] : aNode[b[1]].state = "running" /\ aNode[b[1]].attempt = b[2]
    BY <1>2, <1>3, <2>1 DEF Admits!Considered
  <2>4. aTurn'.at = "record" => lane = "general"
    BY <2>1, <2>2
  <2>5. aTurn'.at = "record" /\ Admits!Running = {} /\ Admits!Active = {} /\ aTurn.units = 0 =>
          \A n \in Admits!Node :
              aNode[n].state = "pending" /\ (\A m \in ADependsOn[n] : aNode[m].state = "accepted") =>
                   \/ n \in aTurn'.waits /\ Admits!LatestCompleted # {}
                   \/ Admits!Lane(n, Admits!Route(n), aNode[n].attempt + 1) = "spark"
    BY <1>5, <2>4, LeftWaiting
  <2> QED
    BY <2>1, <2>3, <2>5 DEF Admits!ClaimsSound
<1> QED
  BY <1>4, <1>5, ClaimTakes

LEMMA StepsAreSound == AdmissionInv /\ [Admits!Next]_Admits!vars => Admits!ClaimsSound
<1> SUFFICES ASSUME AdmissionInv, [Admits!Next]_Admits!vars PROVE Admits!ClaimsSound
  OBVIOUS
<1>1. CASE Admits!ClaimSpark
  BY <1>1, ClaimIsSound DEF Admits!ClaimSpark
<1>2. CASE Admits!ClaimGeneral
  BY <1>2, ClaimIsSound DEF Admits!ClaimGeneral
<1>3. CASE Admits!Collect \/ Admits!Look \/ Admits!RecordDeferred \/ Admits!Submit
  <2>1. aTurn.at \notin {"spark", "general"}
    BY <1>3 DEF Admits!Collect, Admits!Look, Admits!RecordDeferred, Admits!Submit
  <2> QED
    BY <2>1 DEF Admits!ClaimsSound
<1>4. CASE Admits!Observe \/ (\E n \in Admits!Node : Admits!Retry(n)) \/ UNCHANGED Admits!vars
  <2>1. aTurn' = aTurn
    BY <1>4 DEF Admits!Observe, Admits!Retry, Admits!vars
  <2> QED
    BY <2>1 DEF Admits!ClaimsSound
<1>5. ASSUME NEW f \in aFutures, Admits!Worker(f) PROVE Admits!ClaimsSound
  <2>1. aTurn' = aTurn
    BY <1>5
    DEF Admits!Worker, Admits!StartFallback, Admits!StartModel, Admits!ClaudeFails, Admits!Settle,
        Admits!Fallback
  <2> QED
    BY <2>1 DEF Admits!ClaimsSound
<1> QED
  BY <1>1, <1>2, <1>3, <1>4, <1>5 DEF Admits!Next

\* However claims, settlements, retries, fallbacks and collections interleave: workers that run
\* beside each other write apart, Claude's turns fit in its units, and a claim leaves nobody waiting
\* for a node that does not run (store.py: claim_ready_node, service.py: run_forever).
THEOREM AdmissionHolds == Admits!Spec => [](Admits!TypeOK /\ Admits!AdmissionSafe)
    /\ [][Admits!ClaimsSound]_Admits!vars
<1>1. Admits!Spec => []AdmissionInv
  BY AdmissionInit, AdmissionNext, PTL DEF Admits!Spec
<1>2. AdmissionInv => Admits!TypeOK /\ Admits!AdmissionSafe
  BY DEF AdmissionInv, Admits!AdmissionSafe
<1>3. AdmissionInv /\ [Admits!Next]_Admits!vars => [Admits!ClaimsSound]_Admits!vars
  BY StepsAreSound
<1> QED
  BY <1>1, <1>2, <1>3, PTL DEF Admits!Spec

-----------------------------------------------------------------------------
(* Dispatch: what is known of the end of an attempt, and what a stored verdict *)
(* was obtained from.                                                         *)

LEMMA DispatchAssumed == Attempts!DispatchAssumption
  BY OperationsAssumption

Threads == {"idle", "gone", "prepare", "assess", "lookup", "reuse", "route", "called", "save", "settle", "refused"}
NodeStates == {"pending", "running", "accepted", "failed", "blocked", "indeterminate", "closed"}
NodeOK == [state : NodeStates, attempt : 0..DMaxAttempt, input : 1..DMaxInput, tree : BOOLEAN, open : BOOLEAN]
RunOK == [at : Threads, input : 1..DMaxInput, ctx : SUBSET Attempts!Names, called : BOOLEAN, reused : BOOLEAN,
          provider : {"codex", "claude"}, result : Attempts!Results]
RowOK == [key : Attempts!Kinds \X (1..DMaxInput), result : Attempts!Results, whole : BOOLEAN]

DispatchTypes == dNode \in [DNode -> NodeOK] /\ dRun \in [DNode -> RunOK] /\ dCache \subseteq RowOK

\* A thread that has its worktree and has not yet a result; nobody frees its node.
InTree == {"assess", "lookup", "reuse", "route", "called", "save"}
Kept == {"running", "indeterminate", "closed"}

\* An executor that may be at work: its thread waits for it, has taken its end for unknown, or is gone.
Pending(n) == dNode[n].open =>
    /\ dNode[n].tree /\ dNode[n].state \in Kept
    /\ \/ dRun[n].at \in {"called", "idle", "gone"}
       \/ dRun[n].at \in {"settle", "refused"} /\ dRun[n].result.status = "indeterminate"

Placed(n) ==
    /\ dRun[n].at \in InTree => dNode[n].tree /\ dNode[n].state \in Kept
    /\ dNode[n].state = "running" => Attempts!Working(n)

\* What the thread carries to its settlement: success is of its inputs, whether it is of its own turn
\* or of the cache; a start that its environment refused is blocked and nothing else.
Carries(n) ==
    /\ dRun[n].result.retryable => dRun[n].result.status = "blocked"
    /\ dRun[n].at \in {"save", "reuse"} => dRun[n].result.status = "succeeded"
       /\ dRun[n].result.on = dRun[n].input
    /\ dRun[n].at = "settle" /\ dRun[n].result.status = "succeeded" => dRun[n].result.on = dRun[n].input
    /\ dRun[n].at \in {"called", "save"} => dRun[n].called
    /\ dRun[n].at \in {"settle", "refused"} /\ ~dRun[n].called /\ ~dRun[n].reused
       /\ dRun[n].result.status = "blocked" =>
           /\ dRun[n].at = "settle" /\ ~dRun[n].result.retryable
              /\ dRun[n].result.refs \subseteq dRun[n].result.names
           /\ Attempts!Verifier(n) => dRun[n].result.verdict = "blocked"

Stored ==
    /\ \A row \in dCache : row.result.on = row.key[2] /\ row.result.status = "succeeded"
       /\ row.result.retryable = FALSE
    /\ \A p, q \in dCache : p.key = q.key => p = q

Sound(n) == Pending(n) /\ Placed(n) /\ Carries(n)

DispatchInv == DispatchTypes /\ (\A n \in DNode : Sound(n)) /\ Stored

\* Results.
LEMMA DispatchOwn ==
    ASSUME NEW n \in DNode, NEW s \in {"blocked", "indeterminate"}
    PROVE  /\ Attempts!Own(n, s) \in Attempts!Results /\ Attempts!Own(n, s).status = s
              /\ Attempts!Own(n, s).retryable = FALSE /\ Attempts!Own(n, s).on = 0
           /\ s = "blocked" /\ Attempts!Verifier(n) => Attempts!Own(n, s).verdict = "blocked"
  BY DispatchAssumed
  DEF Attempts!DispatchAssumption, Attempts!Own, Attempts!Results, Attempts!Statuses, Attempts!Names

LEMMA DispatchNoRun ==
    Attempts!NoRun \in RunOK /\ Attempts!NoRun.at = "idle" /\ ~Attempts!NoRun.called
    /\ ~Attempts!NoRun.reused /\ Attempts!NoRun.result.retryable = FALSE
<1> DEFINE o == Attempts!Own(CHOOSE n \in DNode : TRUE, "blocked")
<1>1. o \in Attempts!Results /\ o.retryable = FALSE
  BY DispatchOwn, DispatchAssumed DEF Attempts!DispatchAssumption
<1>2. [o EXCEPT !.verdict = "none"] \in Attempts!Results /\ [o EXCEPT !.verdict = "none"].retryable = FALSE
  BY <1>1 DEF Attempts!Results
<1> HIDE DEF o
<1>3. 1 \in 1..DMaxInput
  BY DispatchAssumed DEF Attempts!DispatchAssumption
<1>4. Attempts!NoRun = [at |-> "idle", input |-> 1, ctx |-> {}, called |-> FALSE, reused |-> FALSE,
                        provider |-> "codex", result |-> [o EXCEPT !.verdict = "none"]]
  BY DEF Attempts!NoRun, o
<1> QED
  BY <1>2, <1>3, <1>4 DEF RunOK, Threads

LEMMA DispatchAttributed ==
    ASSUME NEW r \in Attempts!Results, NEW ctx \in SUBSET Attempts!Names
    PROVE  LET x == Attempts!Attributed(r, ctx)
           IN  /\ x \in Attempts!Results /\ x.status = r.status /\ x.verdict = r.verdict /\ x.checks = r.checks
               /\ x.retryable = r.retryable /\ x.on = r.on /\ x.refs \subseteq x.names
<1>1. Attempts!References(r, ctx) \subseteq r.names \cup ctx
      /\ Attempts!References(r, ctx) \subseteq Attempts!Names
  BY DEF Attempts!References, Attempts!Results, Attempts!Names
<1> QED
  BY <1>1 DEF Attempts!Attributed, Attempts!Results

\* An answer is read as a result of the inputs the turn was made on.
LEMMA DispatchTurn ==
    ASSUME NEW n \in DNode, dRun \in [DNode -> RunOK], NEW a \in Attempts!Answer(n)
    PROVE  LET t == Attempts!Turn(n, a)
               r == Attempts!InScope(a, Attempts!Observed(n, a, t))
           IN  /\ r \in Attempts!Results
               /\ r.status = "succeeded" => r.on = dRun[n].input
               /\ a.exit = "late" => r.status = "indeterminate"
               /\ r.retryable => r.status = "blocked"
<1> DEFINE t == Attempts!Turn(n, a)
<1> DEFINE o == Attempts!Observed(n, a, t)
<1>1. a \in [exit : {"zero", "nonzero", "late", "unqualified"},
            says : {"none", "succeeded", "failed", "blocked"},
            checks : BOOLEAN, required : BOOLEAN, strays : BOOLEAN, recoverable : BOOLEAN,
            model : {"leased", "other", "none"}]
  BY DEF Attempts!Answer
<1>2. a.exit = "late" => ~a.strays /\ ~a.recoverable
  BY DEF Attempts!Answer
<1>3. dRun[n] \in RunOK /\ dRun[n].input \in 0..DMaxInput /\ DMaxInput \in Nat
  BY DispatchAssumed DEF Attempts!DispatchAssumption, RunOK
<1>4. \A s \in {"succeeded", "failed", "blocked"} :
          /\ Attempts!Read(n, a, s) \in Attempts!Results /\ Attempts!Read(n, a, s).on = dRun[n].input
             /\ Attempts!Read(n, a, s).retryable = FALSE
  BY <1>1, <1>3 DEF Attempts!Read, Attempts!Results, Attempts!Statuses, Attempts!Names
<1>5. /\ t \in Attempts!Results
      /\ t.status = "succeeded" => t.on = dRun[n].input
      /\ a.exit = "late" => t.status = "indeterminate"
      /\ t.retryable = FALSE
  <2>1. CASE DKind[n] = "check"
    <3>1. t = Attempts!CheckTurn(n, a)
      BY <2>1 DEF Attempts!Turn
    <3>2. CASE a.exit = "late"
      <4>1. t = Attempts!Own(n, "indeterminate")
        BY <3>1, <3>2 DEF Attempts!CheckTurn
      <4> QED
        BY <4>1, DispatchOwn
    <3>3. CASE a.exit # "late"
      <4>1. \E s \in {"succeeded", "failed"} : t = [Attempts!Read(n, a, s) EXCEPT !.checks = TRUE, !.names = {"required"}]
        BY <3>1, <3>3 DEF Attempts!CheckTurn
      <4> QED
        <5>1. PICK s \in {"succeeded", "failed"} : t = [Attempts!Read(n, a, s) EXCEPT !.checks = TRUE, !.names = {"required"}]
          BY <4>1
        <5>2. Attempts!Read(n, a, s) \in Attempts!Results /\ Attempts!Read(n, a, s).on = dRun[n].input
              /\ Attempts!Read(n, a, s).retryable = FALSE
          BY <1>4
        <5> QED
          BY <5>1, <5>2, <3>3 DEF Attempts!Results, Attempts!Names
    <3> QED
      BY <3>2, <3>3
  <2>2. CASE DKind[n] # "check" /\ dRun[n].provider = "claude"
    <3>1. t = Attempts!ClaudeTurn(n, a)
      BY <2>2 DEF Attempts!Turn
    <3>2. CASE a.exit \in {"late", "unqualified"}
      <4>1. \/ a.exit = "late" /\ t = Attempts!Own(n, "indeterminate")
            \/ a.exit = "unqualified" /\ t = Attempts!Own(n, "blocked")
        BY <3>1, <3>2 DEF Attempts!ClaudeTurn
      <4> QED
        BY <4>1, DispatchOwn
    <3>3. CASE a.exit \notin {"late", "unqualified"} /\ (a.says = "none" \/ ~a.checks \/ a.model = "none")
      <4>1. t = [Attempts!Read(n, a, "failed") EXCEPT !.checks = FALSE]
        BY <3>1, <3>3 DEF Attempts!ClaudeTurn
      <4> QED
        BY <1>4, <4>1, <3>3 DEF Attempts!Results
    <3>4. CASE a.exit \notin {"late", "unqualified"} /\ ~(a.says = "none" \/ ~a.checks \/ a.model = "none")
      <4>1. \E s \in {"succeeded", "failed", "blocked"} : t = Attempts!Read(n, a, s)
        BY <1>1, <3>1, <3>4 DEF Attempts!ClaudeTurn
      <4> QED
        BY <1>4, <4>1, <3>4
    <3> QED
      BY <3>2, <3>3, <3>4
  <2>3. CASE DKind[n] # "check" /\ dRun[n].provider # "claude"
    <3>1. t = Attempts!CodexTurn(n, a)
      BY <2>3 DEF Attempts!Turn
    <3>2. CASE a.exit \in {"late", "unqualified"}
      <4>1. \/ a.exit = "late" /\ t = Attempts!Own(n, "indeterminate")
            \/ a.exit = "unqualified" /\ t = Attempts!Own(n, "blocked")
        BY <3>1, <3>2 DEF Attempts!CodexTurn
      <4> QED
        BY <4>1, DispatchOwn
    <3>3. CASE a.exit \notin {"late", "unqualified"}
      <4>1. \E s \in {"succeeded", "failed", "blocked"} : t = Attempts!Read(n, a, s)
        BY <1>1, <3>1, <3>3 DEF Attempts!CodexTurn
      <4> QED
        BY <1>4, <4>1, <3>3
    <3> QED
      BY <3>2, <3>3
  <2> QED
    BY <2>1, <2>2, <2>3
<1> HIDE DEF t
<1>6. /\ o \in Attempts!Results /\ o.status = t.status /\ o.on = t.on
      /\ o.retryable => o.status = "blocked"
  BY <1>5 DEF Attempts!Observed, Attempts!Results
<1> HIDE DEF o
<1>7. /\ Attempts!InScope(a, o) \in Attempts!Results /\ Attempts!InScope(a, o).on = o.on
         /\ Attempts!InScope(a, o).retryable = o.retryable
      /\ Attempts!InScope(a, o).status = "succeeded" => o.status = "succeeded"
      /\ o.status # "succeeded" => Attempts!InScope(a, o) = o
  BY <1>6 DEF Attempts!InScope, Attempts!Results, Attempts!Statuses
<1> QED
  BY <1>5, <1>6, <1>7 DEF t, o

\* A step is of one node; what it stores is checked apart.
LEMMA DispatchFrame ==
    ASSUME DispatchInv, NEW n \in DNode,
           dNode' \in [DNode -> NodeOK], dRun' \in [DNode -> RunOK], dCache' \subseteq RowOK,
           \A m \in DNode \ {n} : dNode'[m] = dNode[m] /\ dRun'[m] = dRun[m],
           Sound(n)', Stored'
    PROVE  DispatchInv'
<1>1. ASSUME NEW m \in DNode \ {n} PROVE Sound(m)'
  BY <1>1 DEF DispatchInv, Sound, Pending, Placed, Carries, Attempts!Working
<1>2. \A m \in DNode : Sound(m)'
  BY <1>1
<1> QED
  BY <1>2 DEF DispatchInv, DispatchTypes

\* The thread ends with a result of the coordinator's own.
LEMMA DispatchEnds ==
    ASSUME DispatchInv, NEW n \in DNode, NEW r \in Attempts!Results, NEW ctx \in SUBSET Attempts!Names,
           Attempts!Ends(n, r, ctx)
    PROVE  /\ dRun' \in [DNode -> RunOK] /\ \A m \in DNode \ {n} : dRun'[m] = dRun[m]
           /\ dRun'[n].at = "settle" /\ dRun'[n].called = dRun[n].called /\ dRun'[n].reused = dRun[n].reused
           /\ dRun'[n].input = dRun[n].input /\ dRun'[n].provider = dRun[n].provider
           /\ dRun'[n].result.status = r.status /\ dRun'[n].result.verdict = r.verdict
           /\ dRun'[n].result.retryable = r.retryable /\ dRun'[n].result.on = r.on
           /\ dRun'[n].result.refs \subseteq dRun'[n].result.names
<1>1. dRun \in [DNode -> RunOK]
  BY DEF DispatchInv, DispatchTypes
<1> DEFINE x == Attempts!Attributed(r, ctx)
<1>2. /\ x \in Attempts!Results /\ x.status = r.status /\ x.verdict = r.verdict
      /\ x.retryable = r.retryable /\ x.on = r.on /\ x.refs \subseteq x.names
  BY DispatchAttributed
<1>3. dRun' = [dRun EXCEPT ![n] = [dRun[n] EXCEPT !.at = "settle", !.ctx = ctx, !.result = x]]
  BY DEF Attempts!Ends
<1> HIDE DEF x
<1> DEFINE y == [dRun[n] EXCEPT !.at = "settle", !.ctx = ctx, !.result = x]
<1>4. y \in RunOK /\ y.at = "settle" /\ y.called = dRun[n].called /\ y.reused = dRun[n].reused
      /\ y.input = dRun[n].input /\ y.provider = dRun[n].provider /\ y.result = x
  BY <1>1, <1>2 DEF RunOK, Threads
<1>5. dRun' = [dRun EXCEPT ![n] = y]
  BY <1>3
<1> HIDE DEF y
<1>6. dRun' \in [DNode -> RunOK] /\ dRun'[n] = y /\ \A m \in DNode \ {n} : dRun'[m] = dRun[m]
  BY <1>1, <1>4, <1>5
<1> QED
  BY <1>2, <1>4, <1>6

\* A failure of the coordinator's own is fit to be settled.
LEMMA DispatchOwnEnds ==
    ASSUME DispatchInv, NEW n \in DNode, NEW s \in {"blocked", "indeterminate"},
           NEW ctx \in SUBSET Attempts!Names,
           Attempts!Ends(n, Attempts!Own(n, s), ctx)
    PROVE  /\ dRun' \in [DNode -> RunOK] /\ \A m \in DNode \ {n} : dRun'[m] = dRun[m]
           /\ dRun'[n].at = "settle" /\ dRun'[n].result.status = s
           /\ Carries(n)'
<1>1. /\ Attempts!Own(n, s) \in Attempts!Results /\ Attempts!Own(n, s).status = s
         /\ Attempts!Own(n, s).retryable = FALSE /\ Attempts!Own(n, s).on = 0
      /\ s = "blocked" /\ Attempts!Verifier(n) => Attempts!Own(n, s).verdict = "blocked"
  BY DispatchOwn
<1>2. /\ dRun' \in [DNode -> RunOK] /\ \A m \in DNode \ {n} : dRun'[m] = dRun[m]
      /\ dRun'[n].at = "settle" /\ dRun'[n].result.status = s
      /\ dRun'[n].result.verdict = Attempts!Own(n, s).verdict
      /\ dRun'[n].result.retryable = FALSE
      /\ dRun'[n].result.refs \subseteq dRun'[n].result.names
  BY <1>1, DispatchEnds
<1>3. Carries(n)'
  BY <1>1, <1>2 DEF Carries, Attempts!Verifier
<1> QED
  BY <1>2, <1>3

LEMMA DispatchFails ==
    ASSUME DispatchInv, NEW n \in DNode, NEW ctx \in SUBSET Attempts!Names, Attempts!Fails(n, ctx)
    PROVE  /\ dRun' \in [DNode -> RunOK] /\ \A m \in DNode \ {n} : dRun'[m] = dRun[m]
           /\ dRun'[n].at = "settle"
           /\ Carries(n)'
<1>1. ctx \cup {"harness"} \in SUBSET Attempts!Names
  BY DEF Attempts!Names
<1>2. \E s \in {"blocked", "indeterminate"},
      c \in SUBSET Attempts!Names : Attempts!Ends(n, Attempts!Own(n, s), c)
  BY <1>1 DEF Attempts!Fails
<1> QED
  BY <1>2, DispatchOwnEnds

\* The thread moves on.
LEMMA DispatchMoves ==
    ASSUME DispatchInv, NEW n \in DNode, NEW at \in Threads, Attempts!Moves(n, at)
    PROVE  /\ dRun' \in [DNode -> RunOK] /\ \A m \in DNode \ {n} : dRun'[m] = dRun[m]
           /\ dRun'[n] = [dRun[n] EXCEPT !.at = at]
           /\ dRun'[n].at = at /\ dRun'[n].called = dRun[n].called /\ dRun'[n].reused = dRun[n].reused
           /\ dRun'[n].input = dRun[n].input /\ dRun'[n].result = dRun[n].result
<1>1. dRun \in [DNode -> RunOK]
  BY DEF DispatchInv, DispatchTypes
<1> DEFINE y == [dRun[n] EXCEPT !.at = at]
<1>2. y \in RunOK /\ y.at = at /\ y.called = dRun[n].called /\ y.reused = dRun[n].reused
      /\ y.input = dRun[n].input /\ y.result = dRun[n].result
  BY <1>1 DEF RunOK
<1>3. dRun' = [dRun EXCEPT ![n] = y]
  BY DEF Attempts!Moves
<1> HIDE DEF y
<1>4. dRun' \in [DNode -> RunOK] /\ dRun'[n] = y /\ \A m \in DNode \ {n} : dRun'[m] = dRun[m]
  BY <1>1, <1>2, <1>3
<1> QED
  BY <1>2, <1>4 DEF y

\* The thread is gone.
LEMMA DispatchLeaves ==
    ASSUME DispatchInv, NEW n \in DNode, NEW at \in {"idle", "gone"}, Attempts!Leaves(n, at)
    PROVE  /\ dRun' \in [DNode -> RunOK] /\ \A m \in DNode \ {n} : dRun'[m] = dRun[m]
           /\ dRun'[n].at = at /\ Carries(n)'
<1>1. dRun \in [DNode -> RunOK]
  BY DEF DispatchInv, DispatchTypes
<1> DEFINE y == [Attempts!NoRun EXCEPT !.at = at]
<1>2. y \in RunOK /\ y.at = at /\ y.result.retryable = FALSE
  BY DispatchNoRun DEF RunOK, Threads
<1>3. dRun' = [dRun EXCEPT ![n] = y]
  BY DEF Attempts!Leaves
<1> HIDE DEF y
<1>4. dRun' \in [DNode -> RunOK] /\ dRun'[n] = y /\ \A m \in DNode \ {n} : dRun'[m] = dRun[m]
  BY <1>1, <1>2, <1>3
<1>5. Carries(n)'
  BY <1>2, <1>4 DEF Carries
<1> QED
  BY <1>2, <1>4, <1>5

LEMMA DispatchInitLemma == Attempts!Init => DispatchInv
<1> SUFFICES ASSUME Attempts!Init PROVE DispatchInv
  OBVIOUS
<1>1. \A n \in DNode : dNode[n] \in NodeOK /\ dNode[n].state = "pending" /\ dNode[n].open = FALSE
  BY DispatchAssumed DEF Attempts!DispatchAssumption, Attempts!Init, NodeOK, NodeStates
<1>2. \A n \in DNode : dRun[n] = Attempts!NoRun
  BY DEF Attempts!Init
<1>3. \A n \in DNode : Sound(n)
  BY <1>1, <1>2, DispatchNoRun DEF Sound, Pending, Placed, Carries, InTree
<1>4. dNode \in [DNode -> NodeOK] /\ dRun \in [DNode -> RunOK] /\ dCache = {}
  BY <1>1, <1>2, DispatchNoRun DEF Attempts!Init
<1> QED
  BY <1>3, <1>4 DEF DispatchInv, DispatchTypes, Stored

\* What the steps have in common.
LEMMA DispatchParts ==
    ASSUME DispatchInv, NEW n \in DNode
    PROVE  /\ dNode \in [DNode -> NodeOK] /\ dRun \in [DNode -> RunOK] /\ dCache \subseteq RowOK
           /\ dNode[n] \in NodeOK /\ dRun[n] \in RunOK /\ Pending(n) /\ Placed(n) /\ Carries(n) /\ Stored
           /\ (UNCHANGED dCache => Stored' /\ dCache' \subseteq RowOK)
  BY DEF DispatchInv, DispatchTypes, Sound, Stored

LEMMA DispatchClaim ==
    ASSUME DispatchInv, NEW n \in DNode, Attempts!Claim(n) PROVE DispatchInv'
<1>1. /\ dNode \in [DNode -> NodeOK] /\ dRun \in [DNode -> RunOK]
      /\ dNode[n] \in NodeOK /\ Pending(n) /\ Stored' /\ dCache' \subseteq RowOK
  BY DispatchParts DEF Attempts!Claim
<1> DEFINE x == [dNode[n] EXCEPT !.state = "running", !.attempt = dNode[n].attempt + 1, !.tree = FALSE]
           y == [Attempts!NoRun EXCEPT !.at = "prepare", !.input = dNode[n].input,
                                       !.provider = IF DKind[n] = "claude" THEN "claude" ELSE "codex"]
<1>2. dNode[n].state = "pending" /\ dNode[n].attempt + 1 \in 0..DMaxAttempt /\ dNode[n].open = FALSE
  BY <1>1, DispatchAssumed DEF Attempts!DispatchAssumption, Attempts!Claim, NodeOK, Pending, Kept
<1>3. x \in NodeOK /\ x.open = FALSE
  BY <1>1, <1>2 DEF NodeOK, NodeStates
<1>4. y \in RunOK /\ y.at = "prepare" /\ y.result.retryable = FALSE
  BY <1>1, DispatchNoRun DEF RunOK, Threads, NodeOK
<1>5. dNode' = [dNode EXCEPT ![n] = x] /\ dRun' = [dRun EXCEPT ![n] = y]
  BY DEF Attempts!Claim
<1> HIDE DEF x, y
<1>6. /\ dNode' \in [DNode -> NodeOK] /\ dRun' \in [DNode -> RunOK] /\ dNode'[n] = x /\ dRun'[n] = y
      /\ \A m \in DNode \ {n} : dNode'[m] = dNode[m] /\ dRun'[m] = dRun[m]
  BY <1>1, <1>3, <1>4, <1>5
<1>7. Sound(n)'
  BY <1>3, <1>4, <1>6 DEF Sound, Pending, Placed, Carries, InTree, Attempts!Working
<1> QED
  BY <1>1, <1>6, <1>7, DispatchFrame

\* A settled thread of a node that stays as it is, but for its worktree.
LEMMA DispatchFailed ==
    ASSUME DispatchInv, NEW n \in DNode, dRun' \in [DNode -> RunOK], \A m \in DNode \ {n} : dRun'[m] = dRun[m],
           dRun'[n].at = "settle", Carries(n)',
           dNode' \in [DNode -> NodeOK], \A m \in DNode \ {n} : dNode'[m] = dNode[m],
           dNode'[n].state = dNode[n].state, dNode'[n].open = FALSE, UNCHANGED dCache
    PROVE  DispatchInv'
<1>1. Stored' /\ dCache' \subseteq RowOK
  BY DispatchParts
<1>2. Sound(n)'
  BY DEF Sound, Pending, Placed, InTree, Attempts!Working
<1> QED
  BY <1>1, <1>2, DispatchFrame

LEMMA DispatchPrepare ==
    ASSUME DispatchInv, NEW n \in DNode, Attempts!Prepare(n) PROVE DispatchInv'
<1>1. /\ dNode \in [DNode -> NodeOK] /\ dRun \in [DNode -> RunOK] /\ dNode[n] \in NodeOK /\ dRun[n] \in RunOK
      /\ Pending(n) /\ Stored' /\ dCache' \subseteq RowOK
  BY DispatchParts DEF Attempts!Prepare
<1>2. dRun[n].at = "prepare" /\ dNode[n].state = "running" /\ UNCHANGED dCache
  BY DEF Attempts!Prepare
<1>3. dNode[n].open = FALSE
  BY <1>1, <1>2 DEF Pending, NodeOK
<1>4. CASE Attempts!Fails(n, {}) /\ UNCHANGED dNode
  <2>1. {} \in SUBSET Attempts!Names
    OBVIOUS
  <2> QED
    BY <1>1, <1>2, <1>3, <1>4, <2>1, DispatchFails, DispatchFailed
<1>5. CASE dNode' = [dNode EXCEPT ![n].tree = TRUE]
  <2> DEFINE x == [dNode[n] EXCEPT !.tree = TRUE]
  <2>1. x \in NodeOK /\ x.tree /\ x.state = "running" /\ x.open = FALSE
    BY <1>1, <1>2, <1>3 DEF NodeOK
  <2>2. dNode' = [dNode EXCEPT ![n] = x]
    BY <1>5
  <2> HIDE DEF x
  <2>3. dNode' \in [DNode -> NodeOK] /\ dNode'[n] = x /\ \A m \in DNode \ {n} : dNode'[m] = dNode[m]
    BY <1>1, <2>1, <2>2
  <2>4. CASE \E ctx \in {{}, {"input"}, {"input", "materialization"}} : Attempts!Fails(n, ctx)
    <3>1. \E ctx \in SUBSET Attempts!Names : Attempts!Fails(n, ctx)
      BY <2>4 DEF Attempts!Names
    <3> QED
      BY <1>1, <1>2, <2>1, <2>3, <3>1, DispatchFails, DispatchFailed
  <2>5. CASE dRun' = [dRun EXCEPT ![n].at = "assess", ![n].ctx = {"input", "materialization"}]
    <3> DEFINE y == [dRun[n] EXCEPT !.at = "assess", !.ctx = {"input", "materialization"}]
    <3>1. y \in RunOK /\ y.at = "assess" /\ y.result = dRun[n].result
      BY <1>1 DEF RunOK, Threads, Attempts!Names
    <3>2. dRun' = [dRun EXCEPT ![n] = y]
      BY <2>5
    <3> HIDE DEF y
    <3>3. dRun' \in [DNode -> RunOK] /\ dRun'[n] = y /\ \A m \in DNode \ {n} : dRun'[m] = dRun[m]
      BY <1>1, <3>1, <3>2
    <3>4. Carries(n)
      BY DispatchParts
    <3>5. Sound(n)'
      BY <2>1, <2>3, <3>1, <3>3, <3>4 DEF Sound, Pending, Placed, Carries, InTree, Kept, Attempts!Working
    <3> QED
      BY <1>1, <2>3, <3>3, <3>5, DispatchFrame
  <2> QED
    BY <1>4, <1>5, <2>4, <2>5 DEF Attempts!Prepare
<1> QED
  BY <1>4, <1>5 DEF Attempts!Prepare

\* The thread of a node in its worktree moves on to another step there.
LEMMA DispatchOn ==
    ASSUME DispatchInv, NEW n \in DNode, dRun[n].at \in InTree \ {"called"},
           dRun' \in [DNode -> RunOK], \A m \in DNode \ {n} : dRun'[m] = dRun[m],
           dRun'[n].at \in InTree \cup {"settle"}, Carries(n)', UNCHANGED dNode,
           dCache' \subseteq RowOK, Stored'
    PROVE  DispatchInv'
<1>1. dNode[n] \in NodeOK /\ Pending(n) /\ Placed(n) /\ dNode' \in [DNode -> NodeOK]
  BY DispatchParts
<1>2. dNode[n].open = FALSE /\ dNode[n].tree /\ dNode[n].state \in Kept
  BY <1>1 DEF Pending, Placed, InTree, NodeOK
<1>3. Sound(n)'
  BY <1>2 DEF Sound, Pending, Placed, InTree, Attempts!Working
<1> QED
  BY <1>1, <1>3, DispatchFrame

LEMMA DispatchAssess ==
    ASSUME DispatchInv, NEW n \in DNode, Attempts!Assess(n) PROVE DispatchInv'
<1>1. /\ dRun \in [DNode -> RunOK] /\ dRun[n] \in RunOK /\ Carries(n)
      /\ Stored' /\ dCache' \subseteq RowOK
  BY DispatchParts DEF Attempts!Assess
<1> DEFINE ctx == dRun[n].ctx \cup {"readiness"}
<1>2. dRun[n].at = "assess" /\ UNCHANGED dNode /\ ctx \in SUBSET Attempts!Names
  BY <1>1 DEF Attempts!Assess, RunOK, Attempts!Names
<1>3. CASE Attempts!Ends(n, Attempts!Own(n, "blocked"), ctx)
  BY <1>1, <1>2, <1>3, DispatchOwnEnds, DispatchOn DEF InTree
<1>4. CASE Attempts!Fails(n, ctx)
  BY <1>1, <1>2, <1>4, DispatchFails, DispatchOn DEF InTree
<1>5. CASE dRun' = [dRun EXCEPT ![n].at = IF Attempts!Reusable(n) THEN "lookup" ELSE "route", ![n].ctx = ctx]
  <2> DEFINE at == IF Attempts!Reusable(n) THEN "lookup" ELSE "route"
             y == [dRun[n] EXCEPT !.at = at, !.ctx = ctx]
  <2>1. at \in {"lookup", "route"}
    OBVIOUS
  <2>2. dRun' = [dRun EXCEPT ![n] = y]
    BY <1>5
  <2> HIDE DEF at
  <2>3. y \in RunOK /\ y.at = at /\ y.result = dRun[n].result
    BY <1>1, <1>2, <2>1 DEF RunOK, Threads
  <2> HIDE DEF y
  <2>4. dRun' \in [DNode -> RunOK] /\ dRun'[n] = y /\ \A m \in DNode \ {n} : dRun'[m] = dRun[m]
    BY <1>1, <2>2, <2>3
  <2>5. Carries(n)'
    BY <1>1, <2>1, <2>3, <2>4 DEF Carries
  <2> QED
    BY <1>1, <1>2, <2>1, <2>3, <2>4, <2>5, DispatchOn DEF InTree
<1> QED
  BY <1>3, <1>4, <1>5 DEF Attempts!Assess

LEMMA DispatchLookup ==
    ASSUME DispatchInv, NEW n \in DNode, Attempts!Lookup(n) PROVE DispatchInv'
<1>1. /\ dRun \in [DNode -> RunOK] /\ dRun[n] \in RunOK /\ Carries(n) /\ Stored /\ dCache \subseteq RowOK
  BY DispatchParts
<1>2. dRun[n].at = "lookup" /\ UNCHANGED dNode
  BY DEF Attempts!Lookup
<1> DEFINE whole == {row \in Attempts!Row(Attempts!Key(n)) : row.whole}
<1>3. dCache' \subseteq dCache
  BY DEF Attempts!Lookup
<1>4. Stored' /\ dCache' \subseteq RowOK
  BY <1>1, <1>3 DEF Stored
<1>5. CASE whole = {}
  <2>1. Attempts!Moves(n, "route")
    BY <1>5 DEF Attempts!Lookup
  <2>2. "route" \in Threads
    BY DEF Threads
  <2>3. /\ dRun' \in [DNode -> RunOK] /\ \A m \in DNode \ {n} : dRun'[m] = dRun[m]
        /\ dRun'[n].at = "route" /\ dRun'[n].result = dRun[n].result
    BY <2>1, <2>2, DispatchMoves
  <2>4. Carries(n)'
    BY <1>1, <2>3 DEF Carries
  <2> QED
    BY <1>2, <1>4, <2>3, <2>4, DispatchOn DEF InTree
<1>6. CASE whole # {}
  <2>1. PICK row \in whole : row = CHOOSE w \in whole : TRUE
    BY <1>6
  <2>2. row \in dCache /\ row.key = <<DKind[n], dRun[n].input>>
    BY <2>1 DEF Attempts!Row, Attempts!Key
  <2> DEFINE x == row.result
             y == [dRun[n] EXCEPT !.at = "reuse", !.result = x]
  <2>3. x \in Attempts!Results /\ x.status = "succeeded" /\ x.on = dRun[n].input
        /\ (x.retryable => x.status = "blocked")
    BY <1>1, <2>2 DEF Stored, RowOK
  <2>4. dRun' = [dRun EXCEPT ![n].at = "reuse", ![n].result = x]
    BY <1>6, <2>1 DEF Attempts!Lookup
  <2> HIDE DEF x
  <2>5. dRun' = [dRun EXCEPT ![n] = y]
    BY <2>4
  <2>6. y \in RunOK /\ y.at = "reuse" /\ y.result = x /\ y.input = dRun[n].input
    BY <1>1, <2>3 DEF RunOK, Threads
  <2> HIDE DEF y
  <2>7. dRun' \in [DNode -> RunOK] /\ dRun'[n] = y /\ \A m \in DNode \ {n} : dRun'[m] = dRun[m]
    BY <1>1, <2>5, <2>6
  <2>8. Carries(n)'
    BY <2>3, <2>6, <2>7 DEF Carries
  <2> QED
    BY <1>2, <1>4, <2>6, <2>7, <2>8, DispatchOn DEF InTree
<1> QED
  BY <1>5, <1>6

LEMMA DispatchReuse ==
    ASSUME DispatchInv, NEW n \in DNode, Attempts!Reuse(n) PROVE DispatchInv'
<1>1. /\ dRun \in [DNode -> RunOK] /\ dRun[n] \in RunOK /\ Carries(n) /\ Stored' /\ dCache' \subseteq RowOK
  BY DispatchParts DEF Attempts!Reuse
<1>2. dRun[n].at = "reuse" /\ UNCHANGED dNode /\ dRun[n].ctx \in SUBSET Attempts!Names
  BY <1>1 DEF Attempts!Reuse, RunOK
<1>3. CASE Attempts!Row(Attempts!Key(n)) = {}
  <2>1. Attempts!Ends(n, Attempts!Own(n, "indeterminate"), dRun[n].ctx)
    BY <1>3 DEF Attempts!Reuse
  <2> QED
    BY <1>1, <1>2, <2>1, DispatchOwnEnds, DispatchOn DEF InTree
<1>4. CASE Attempts!Row(Attempts!Key(n)) # {}
  <2> DEFINE x == Attempts!Attributed(dRun[n].result, dRun[n].ctx)
             y == [dRun[n] EXCEPT !.at = "settle", !.reused = TRUE, !.result = x]
  <2>1. dRun[n].result \in Attempts!Results
    BY <1>1 DEF RunOK
  <2>2. x \in Attempts!Results /\ x.status = dRun[n].result.status
        /\ x.retryable = dRun[n].result.retryable /\ x.on = dRun[n].result.on
    BY <1>2, <2>1, DispatchAttributed
  <2>3. dRun' = [dRun EXCEPT ![n].at = "settle", ![n].reused = TRUE, ![n].result = x]
    BY <1>1, <1>4 DEF Attempts!Reuse
  <2> HIDE DEF x
  <2>4. dRun' = [dRun EXCEPT ![n] = y]
    BY <2>3
  <2>5. y \in RunOK /\ y.at = "settle" /\ y.result = x /\ y.input = dRun[n].input /\ y.reused = TRUE
    BY <1>1, <2>2 DEF RunOK, Threads
  <2> HIDE DEF y
  <2>6. dRun' \in [DNode -> RunOK] /\ dRun'[n] = y /\ \A m \in DNode \ {n} : dRun'[m] = dRun[m]
    BY <1>1, <2>4, <2>5
  <2>7. Carries(n)'
    BY <1>1, <1>2, <2>2, <2>5, <2>6 DEF Carries
  <2> QED
    BY <1>1, <1>2, <2>5, <2>6, <2>7, DispatchOn DEF InTree
<1> QED
  BY <1>3, <1>4

LEMMA DispatchCall ==
    ASSUME DispatchInv, NEW n \in DNode, Attempts!Call(n) PROVE DispatchInv'
<1>1. /\ dNode \in [DNode -> NodeOK] /\ dRun \in [DNode -> RunOK] /\ dNode[n] \in NodeOK /\ dRun[n] \in RunOK
      /\ Placed(n) /\ Carries(n) /\ Stored' /\ dCache' \subseteq RowOK
  BY DispatchParts DEF Attempts!Call
<1>2. dRun[n].at = "route" /\ dRun[n].ctx \in SUBSET Attempts!Names
  BY <1>1 DEF Attempts!Call, RunOK
<1>3. CASE Attempts!Fails(n, dRun[n].ctx) /\ UNCHANGED dNode
  BY <1>1, <1>2, <1>3, DispatchFails, DispatchOn DEF InTree
<1>4. CASE dRun' = [dRun EXCEPT ![n].at = "called", ![n].called = TRUE]
           /\ dNode' = [dNode EXCEPT ![n].open = TRUE]
  <2> DEFINE y == [dRun[n] EXCEPT !.at = "called", !.called = TRUE]
             x == [dNode[n] EXCEPT !.open = TRUE]
  <2>1. y \in RunOK /\ y.at = "called" /\ y.called = TRUE /\ y.result = dRun[n].result
    BY <1>1 DEF RunOK, Threads
  <2>2. x \in NodeOK /\ x.tree = dNode[n].tree /\ x.state = dNode[n].state
    BY <1>1 DEF NodeOK
  <2>3. dRun' = [dRun EXCEPT ![n] = y] /\ dNode' = [dNode EXCEPT ![n] = x]
    BY <1>4
  <2> HIDE DEF x, y
  <2>4. /\ dRun' \in [DNode -> RunOK] /\ dRun'[n] = y /\ \A m \in DNode \ {n} : dRun'[m] = dRun[m]
        /\ dNode' \in [DNode -> NodeOK] /\ dNode'[n] = x /\ \A m \in DNode \ {n} : dNode'[m] = dNode[m]
    BY <1>1, <2>1, <2>2, <2>3
  <2>5. dNode[n].tree /\ dNode[n].state \in Kept
    BY <1>1, <1>2 DEF Placed, InTree
  <2>6. Sound(n)'
    BY <1>1, <2>1, <2>2, <2>4, <2>5 DEF Sound, Pending, Placed, Carries, InTree, Attempts!Working
  <2> QED
    BY <1>1, <2>4, <2>6, DispatchFrame
<1> QED
  BY <1>3, <1>4 DEF Attempts!Call

LEMMA DispatchFallBack ==
    ASSUME DispatchInv, NEW n \in DNode, Attempts!FallBack(n) PROVE DispatchInv'
<1>1. /\ dNode \in [DNode -> NodeOK] /\ dRun \in [DNode -> RunOK] /\ dRun[n] \in RunOK
      /\ Pending(n) /\ Placed(n) /\ Carries(n) /\ Stored' /\ dCache' \subseteq RowOK
  BY DispatchParts DEF Attempts!FallBack
<1> DEFINE y == [dRun[n] EXCEPT !.provider = "codex"]
<1>2. /\ y \in RunOK /\ y.at = dRun[n].at /\ y.called = dRun[n].called /\ y.reused = dRun[n].reused
      /\ y.input = dRun[n].input /\ y.result = dRun[n].result
  BY <1>1 DEF RunOK
<1>3. dRun' = [dRun EXCEPT ![n] = y] /\ UNCHANGED dNode
  BY DEF Attempts!FallBack
<1> HIDE DEF y
<1>4. dRun' \in [DNode -> RunOK] /\ dRun'[n] = y /\ \A m \in DNode \ {n} : dRun'[m] = dRun[m]
      /\ dNode'[m] = dNode[m]
  BY <1>1, <1>2, <1>3
<1>5. Sound(n)'
  BY <1>1, <1>2, <1>3, <1>4 DEF Sound, Pending, Placed, Carries, Attempts!Working
<1> QED
  BY <1>1, <1>3, <1>4, <1>5, DispatchFrame

\* Of a thread that saw its executor end, or leaves what it does not know.
LEMMA DispatchReturned ==
    ASSUME DispatchInv, NEW n \in DNode, dRun[n].at = "called",
           dNode' \in [DNode -> NodeOK], \A m \in DNode \ {n} : dNode'[m] = dNode[m],
           dNode'[n].state = dNode[n].state, dNode'[n].tree = dNode[n].tree,
           dRun' \in [DNode -> RunOK], \A m \in DNode \ {n} : dRun'[m] = dRun[m],
           dRun'[n].at \in {"save", "settle"}, Carries(n)',
           dNode'[n].open => dRun'[n].at = "settle" /\ dRun'[n].result.status = "indeterminate",
           UNCHANGED dCache
    PROVE  DispatchInv'
<1>1. Placed(n) /\ Stored' /\ dCache' \subseteq RowOK
  BY DispatchParts
<1>2. dNode[n].tree /\ dNode[n].state \in Kept
  BY <1>1 DEF Placed, InTree
<1>3. Sound(n)'
  BY <1>2 DEF Sound, Pending, Placed, InTree, Attempts!Working
<1> QED
  BY <1>1, <1>3, DispatchFrame

LEMMA DispatchReturn ==
    ASSUME DispatchInv, NEW n \in DNode, Attempts!Return(n) PROVE DispatchInv'
<1>1. /\ dNode \in [DNode -> NodeOK] /\ dRun \in [DNode -> RunOK] /\ dNode[n] \in NodeOK
         /\ dRun[n] \in RunOK /\ Carries(n)
  BY DispatchParts
<1>2. dRun[n].at = "called" /\ dRun[n].called /\ dRun[n].ctx \in SUBSET Attempts!Names /\ UNCHANGED dCache
  BY <1>1 DEF Attempts!Return, RunOK, Carries
<1>3. PICK a \in Attempts!Answer(n) :
          LET turn == Attempts!Turn(n, a)
              r == Attempts!InScope(a, Attempts!Observed(n, a, turn))
          IN  /\ dRun[n].provider = "claude" => turn.status \notin {"failed", "blocked"}
              /\ Attempts!Closed(n, a)
              /\ \/ /\ Attempts!Reusable(n) /\ r.status = "succeeded"
                    /\ dRun' = [dRun EXCEPT ![n].at = "save", ![n].result = Attempts!Attributed(r, dRun[n].ctx)]
                 \/ ~(Attempts!Reusable(n) /\ r.status = "succeeded") /\ Attempts!Ends(n, r, dRun[n].ctx)
                 \/ a.exit # "late" /\ Attempts!Raised(n)
  BY DEF Attempts!Return
<1> DEFINE r == Attempts!InScope(a, Attempts!Observed(n, a, Attempts!Turn(n, a)))
<1>4. /\ r \in Attempts!Results
      /\ r.status = "succeeded" => r.on = dRun[n].input
      /\ a.exit = "late" => r.status = "indeterminate"
      /\ r.retryable => r.status = "blocked"
  BY <1>1, DispatchTurn
<1>5. Attempts!Closed(n, a)
  BY <1>3
<1>6. \/ /\ Attempts!Reusable(n) /\ r.status = "succeeded"
         /\ dRun' = [dRun EXCEPT ![n].at = "save", ![n].result = Attempts!Attributed(r, dRun[n].ctx)]
      \/ ~(Attempts!Reusable(n) /\ r.status = "succeeded") /\ Attempts!Ends(n, r, dRun[n].ctx)
      \/ a.exit # "late" /\ Attempts!Raised(n)
  BY <1>3
<1> HIDE DEF r
<1> DEFINE b == dNode[n].open /\ a.exit = "late"
           x == [dNode[n] EXCEPT !.open = b]
<1>7. b \in BOOLEAN /\ (b => a.exit = "late")
  OBVIOUS
<1>8. dNode' = [dNode EXCEPT ![n] = x]
  BY <1>5 DEF Attempts!Closed
<1> HIDE DEF b
<1>9. x \in NodeOK /\ x.state = dNode[n].state /\ x.tree = dNode[n].tree /\ x.open = b
  BY <1>1, <1>7 DEF NodeOK
<1> HIDE DEF x
<1>10. dNode' \in [DNode -> NodeOK] /\ dNode'[n] = x /\ \A m \in DNode \ {n} : dNode'[m] = dNode[m]
  BY <1>1, <1>8, <1>9
<1>11. dNode'[n].open => a.exit = "late"
  BY <1>7, <1>9, <1>10
<1>12. CASE Attempts!Reusable(n) /\ r.status = "succeeded"
            /\ dRun' = [dRun EXCEPT ![n].at = "save", ![n].result = Attempts!Attributed(r, dRun[n].ctx)]
  <2> DEFINE z == Attempts!Attributed(r, dRun[n].ctx)
             y == [dRun[n] EXCEPT !.at = "save", !.result = z]
  <2>1. z \in Attempts!Results /\ z.status = "succeeded" /\ z.retryable = r.retryable /\ z.on = dRun[n].input
    BY <1>2, <1>4, <1>12, DispatchAttributed
  <2>2. dRun' = [dRun EXCEPT ![n].at = "save", ![n].result = z]
    BY <1>12
  <2> HIDE DEF z
  <2>3. dRun' = [dRun EXCEPT ![n] = y]
    BY <2>2
  <2>4. y \in RunOK /\ y.at = "save" /\ y.result = z /\ y.input = dRun[n].input /\ y.called = dRun[n].called
    BY <1>1, <2>1 DEF RunOK, Threads
  <2> HIDE DEF y
  <2>5. dRun' \in [DNode -> RunOK] /\ dRun'[n] = y /\ \A m \in DNode \ {n} : dRun'[m] = dRun[m]
    BY <1>1, <2>3, <2>4
  <2>6. Carries(n)'
    BY <1>2, <1>4, <1>12, <2>1, <2>4, <2>5 DEF Carries
  <2>7. ~dNode'[n].open
    BY <1>4, <1>11, <1>12
  <2> QED
    BY <1>2, <1>9, <1>10, <2>4, <2>5, <2>6, <2>7, DispatchReturned
<1>13. CASE Attempts!Ends(n, r, dRun[n].ctx)
  <2>1. /\ dRun' \in [DNode -> RunOK] /\ \A m \in DNode \ {n} : dRun'[m] = dRun[m]
        /\ dRun'[n].at = "settle" /\ dRun'[n].called = dRun[n].called /\ dRun'[n].input = dRun[n].input
        /\ dRun'[n].result.status = r.status /\ dRun'[n].result.retryable = r.retryable
           /\ dRun'[n].result.on = r.on
    BY <1>2, <1>4, <1>13, DispatchEnds
  <2>2. Carries(n)'
    BY <1>2, <1>4, <2>1 DEF Carries
  <2> QED
    BY <1>2, <1>4, <1>9, <1>10, <1>11, <2>1, <2>2, DispatchReturned
<1>14. CASE a.exit # "late" /\ Attempts!Raised(n)
  <2>1. \E s \in {"blocked", "indeterminate"} : Attempts!Ends(n, Attempts!Own(n, s), dRun[n].ctx)
    BY <1>14 DEF Attempts!Raised
  <2>2. /\ dRun' \in [DNode -> RunOK] /\ \A m \in DNode \ {n} : dRun'[m] = dRun[m]
        /\ dRun'[n].at = "settle" /\ Carries(n)'
    BY <1>2, <2>1, DispatchOwnEnds
  <2> QED
    BY <1>2, <1>9, <1>10, <1>11, <1>14, <2>2, DispatchReturned
<1> QED
  BY <1>6, <1>12, <1>13, <1>14

LEMMA DispatchSave ==
    ASSUME DispatchInv, NEW n \in DNode, Attempts!Save(n) PROVE DispatchInv'
<1>1. /\ dRun \in [DNode -> RunOK] /\ dRun[n] \in RunOK /\ Carries(n) /\ Stored /\ dCache \subseteq RowOK
  BY DispatchParts
<1>2. dRun[n].at = "save" /\ UNCHANGED dNode /\ Attempts!Moves(n, "settle") /\ "settle" \in Threads
  BY DEF Attempts!Save, Threads
<1>3. dRun[n].called /\ dRun[n].result \in Attempts!Results /\ dRun[n].result.status = "succeeded"
      /\ dRun[n].result.on = dRun[n].input
      /\ dRun[n].input \in 1..DMaxInput /\ dRun[n].result.retryable = FALSE
  BY <1>1, <1>2 DEF Carries, RunOK, Attempts!Results
<1>4. Stored' /\ dCache' \subseteq RowOK
  <2> DEFINE row == [key |-> Attempts!Key(n), result |-> dRun[n].result, whole |-> TRUE]
  <2>1. Attempts!Key(n) \in Attempts!Kinds \X (1..DMaxInput) /\ Attempts!Key(n)[2] = dRun[n].input
    BY <1>3, DispatchAssumed DEF Attempts!Key, Attempts!DispatchAssumption, Attempts!Kinds
  <2>2. row \in RowOK /\ row.key = Attempts!Key(n) /\ row.result = dRun[n].result
    BY <1>3, <2>1 DEF RowOK
  <2>3. CASE Attempts!Row(Attempts!Key(n)) # {}
    BY <1>1, <2>3 DEF Attempts!Save, Stored
  <2>4. CASE Attempts!Row(Attempts!Key(n)) = {}
    <3>1. dCache' = dCache \cup {row}
      BY <2>4 DEF Attempts!Save
    <3>2. \A p \in dCache : p.key # row.key
      BY <2>2, <2>4 DEF Attempts!Row
    <3> HIDE DEF row
    <3>3. \A p \in dCache' : p.result.on = p.key[2] /\ p.result.status = "succeeded"
          /\ p.result.retryable = FALSE
      BY <1>1, <1>3, <2>1, <2>2, <3>1 DEF Stored
    <3>4. \A p, q \in dCache' : p.key = q.key => p = q
      BY <1>1, <3>1, <3>2 DEF Stored
    <3> QED
      BY <1>1, <2>2, <3>1, <3>3, <3>4 DEF Stored
  <2> QED
    BY <2>3, <2>4
<1>5. /\ dRun' \in [DNode -> RunOK] /\ \A m \in DNode \ {n} : dRun'[m] = dRun[m]
      /\ dRun'[n].at = "settle" /\ dRun'[n].called = dRun[n].called /\ dRun'[n].input = dRun[n].input
      /\ dRun'[n].result = dRun[n].result
  BY <1>2, DispatchMoves
<1>6. Carries(n)'
  BY <1>1, <1>3, <1>5 DEF Carries
<1> QED
  BY <1>2, <1>4, <1>5, <1>6, DispatchOn DEF InTree

\* What a result that is demanded more of becomes.
LEMMA DispatchDemanded ==
    ASSUME NEW n \in DNode, NEW r \in Attempts!Results
    PROVE  LET d == Attempts!Demanded(n, r)
           IN  /\ d.status \in Attempts!Statuses /\ d.retryable = r.retryable
               /\ d.status # r.status => r.status = "succeeded" /\ d.status = "failed"
               /\ d.status = "succeeded" => d = r /\ (Attempts!Verifier(n) => "required" \in r.names)
<1>1. CASE Attempts!Verifier(n) /\ r.status = "succeeded" /\ "required" \notin r.names
  <2>1. Attempts!Demanded(n, r) = [r EXCEPT !.status = "failed", !.verdict = "needs_fix"]
    BY <1>1 DEF Attempts!Demanded
  <2> QED
    BY <1>1, <2>1 DEF Attempts!Results, Attempts!Statuses
<1>2. CASE ~(Attempts!Verifier(n) /\ r.status = "succeeded" /\ "required" \notin r.names)
  <2>1. Attempts!Demanded(n, r) = r
    BY <1>2 DEF Attempts!Demanded
  <2> QED
    BY <1>2, <2>1 DEF Attempts!Results
<1> QED
  BY <1>1, <1>2

LEMMA DispatchSettled ==
    ASSUME NEW r, r.status \in Attempts!Statuses
    PROVE  /\ Attempts!SettledState(r) \in NodeStates \ {"pending", "running", "closed"}
           /\ r.status = "indeterminate" => Attempts!SettledState(r) = "indeterminate"
           /\ r.status = "blocked" => Attempts!SettledState(r) = "blocked"
           /\ Attempts!SettledState(r) = "accepted" => r.status = "succeeded"
  BY DEF Attempts!SettledState, Attempts!Statuses, NodeStates

\* The environment's refusals keep the contract.
LEMMA DispatchKeepsContract ==
    ASSUME NEW n \in DNode, dRun[n].result.status = "blocked",
           dRun[n].result.refs \subseteq dRun[n].result.names,
           Attempts!Verifier(n) => dRun[n].result.verdict = "blocked"
    PROVE  Attempts!ContractHolds(n, dRun[n].result)
  BY DEF Attempts!ContractHolds, Attempts!AttributionHolds, Attempts!ModelHolds

\* A settlement, step by step.
LEMMA DispatchSettleEffect ==
    ASSUME DispatchInv, NEW n \in DNode, Attempts!Settle(n)
    PROVE  /\ dRun[n].at = "settle" /\ dNode[n].state = "running" /\ UNCHANGED dCache
           /\ dRun[n].result \in Attempts!Results
           /\ \/ ~Attempts!ContractHolds(n, dRun[n].result) /\ Attempts!Moves(n, "refused") /\ UNCHANGED dNode
              \/ /\ Attempts!ContractHolds(n, dRun[n].result) /\ Attempts!Leaves(n, "idle")
                 /\ dNode' \in [DNode -> NodeOK] /\ \A m \in DNode \ {n} : dNode'[m] = dNode[m]
                 /\ dNode'[n].tree = dNode[n].tree /\ dNode'[n].open = dNode[n].open
                 /\ dNode'[n].state # "running"
                 /\ dNode[n].open => dNode'[n].state = "indeterminate"
                 /\ dNode'[n].state = "accepted" => Attempts!Demanded(n, dRun[n].result).status = "succeeded"
                 /\ dRun[n].result.status = "blocked" /\ ~dRun[n].result.retryable
                    => dNode'[n].state = "blocked"
<1>1. /\ dNode \in [DNode -> NodeOK] /\ dNode[n] \in NodeOK /\ dRun[n] \in RunOK /\ Pending(n) /\ Carries(n)
  BY DispatchParts
<1>2. /\ dRun[n].at = "settle" /\ dNode[n].state = "running" /\ UNCHANGED dCache
         /\ dRun[n].result \in Attempts!Results
  BY <1>1 DEF Attempts!Settle, RunOK
<1> DEFINE r == Attempts!Demanded(n, dRun[n].result)
<1>3. /\ r.status \in Attempts!Statuses /\ r.retryable = dRun[n].result.retryable
      /\ r.status # dRun[n].result.status => dRun[n].result.status = "succeeded" /\ r.status = "failed"
  BY <1>2, DispatchDemanded
<1>4. dNode[n].open => dRun[n].result.status = "indeterminate"
  BY <1>1, <1>2 DEF Pending
<1>5. r.retryable => dRun[n].result.status = "blocked"
  BY <1>1, <1>3 DEF Carries
<1>6. CASE ~Attempts!ContractHolds(n, dRun[n].result)
  BY <1>2, <1>6 DEF Attempts!Settle
<1>7. CASE Attempts!ContractHolds(n, dRun[n].result)
  <2>1. /\ Attempts!Leaves(n, "idle")
        /\ \/ dNode' = [dNode EXCEPT ![n].state = IF r.retryable
              /\ dNode[n].attempt <= DRetryLimit THEN "pending" ELSE Attempts!SettledState(r)]
           \/ /\ Attempts!Verifier(n) /\ r.status = "failed" /\ dNode[n].input < DMaxInput
              /\ dNode' = [dNode EXCEPT ![n].state = "pending", ![n].input = @ + 1]
    BY <1>7 DEF Attempts!Settle
  <2>2. CASE dNode' = [dNode EXCEPT ![n].state = IF r.retryable
             /\ dNode[n].attempt <= DRetryLimit THEN "pending" ELSE Attempts!SettledState(r)]
    <3> DEFINE to == IF r.retryable
        /\ dNode[n].attempt <= DRetryLimit THEN "pending" ELSE Attempts!SettledState(r)
               x == [dNode[n] EXCEPT !.state = to]
    <3>1. /\ to \in NodeStates /\ to # "running" /\ (dNode[n].open => to = "indeterminate")
          /\ to = "accepted" => r.status = "succeeded"
          /\ dRun[n].result.status = "blocked" /\ ~dRun[n].result.retryable => to = "blocked"
      <4>1. /\ Attempts!SettledState(r) \in NodeStates \ {"pending", "running", "closed"}
            /\ r.status = "indeterminate" => Attempts!SettledState(r) = "indeterminate"
            /\ r.status = "blocked" => Attempts!SettledState(r) = "blocked"
            /\ Attempts!SettledState(r) = "accepted" => r.status = "succeeded"
        BY <1>3, DispatchSettled
      <4>2. (to = "pending" /\ r.retryable) \/ to = Attempts!SettledState(r)
        OBVIOUS
      <4> HIDE DEF r, to
      <4> QED
        BY <1>3, <1>4, <1>5, <4>1, <4>2 DEF NodeStates
    <3>2. dNode' = [dNode EXCEPT ![n] = x]
      BY <2>2
    <3> HIDE DEF r, to
    <3>3. x \in NodeOK /\ x.state = to /\ x.tree = dNode[n].tree /\ x.open = dNode[n].open
      BY <1>1, <3>1 DEF NodeOK
    <3> HIDE DEF x
    <3>4. dNode' \in [DNode -> NodeOK] /\ dNode'[n] = x /\ \A m \in DNode \ {n} : dNode'[m] = dNode[m]
      BY <1>1, <3>2, <3>3
    <3> QED
      BY <1>2, <1>7, <2>1, <3>1, <3>3, <3>4 DEF r
  <2>3. CASE Attempts!Verifier(n) /\ r.status = "failed" /\ dNode[n].input < DMaxInput
             /\ dNode' = [dNode EXCEPT ![n].state = "pending", ![n].input = @ + 1]
    <3> DEFINE i == dNode[n].input + 1
               x == [dNode[n] EXCEPT !.state = "pending", !.input = i]
    <3>1. i \in 1..DMaxInput
      BY <1>1, <2>3, DispatchAssumed DEF Attempts!DispatchAssumption, NodeOK
    <3>2. dNode' = [dNode EXCEPT ![n] = x]
      BY <2>3
    <3> HIDE DEF i
    <3>3. x \in NodeOK /\ x.state = "pending" /\ x.tree = dNode[n].tree /\ x.open = dNode[n].open
      BY <1>1, <3>1 DEF NodeOK, NodeStates
    <3> HIDE DEF x
    <3>4. dNode' \in [DNode -> NodeOK] /\ dNode'[n] = x /\ \A m \in DNode \ {n} : dNode'[m] = dNode[m]
      BY <1>1, <3>2, <3>3
    <3>5. ~dNode[n].open /\ dRun[n].result.status # "blocked"
      BY <1>3, <1>4, <2>3
    <3> QED
      BY <1>2, <1>7, <2>1, <3>3, <3>4, <3>5
  <2> QED
    BY <2>1, <2>2, <2>3
<1> QED
  BY <1>6, <1>7

\* A thread that leaves, of a node that does not run any more.
LEMMA DispatchGone ==
    ASSUME DispatchInv, NEW n \in DNode, NEW at \in {"idle", "gone"}, Attempts!Leaves(n, at), UNCHANGED dCache,
           dNode' \in [DNode -> NodeOK], \A m \in DNode \ {n} : dNode'[m] = dNode[m],
           dNode'[n].state # "running",
           dNode'[n].open => dNode'[n].tree /\ dNode'[n].state \in Kept
    PROVE  DispatchInv'
<1>1. /\ dRun' \in [DNode -> RunOK] /\ \A m \in DNode \ {n} : dRun'[m] = dRun[m]
      /\ dRun'[n].at = at /\ Carries(n)'
  BY DispatchLeaves
<1>2. Stored' /\ dCache' \subseteq RowOK
  BY DispatchParts
<1>3. Sound(n)'
  BY <1>1 DEF Sound, Pending, Placed, InTree
<1> QED
  BY <1>1, <1>2, <1>3, DispatchFrame

LEMMA DispatchSettle ==
    ASSUME DispatchInv, NEW n \in DNode, Attempts!Settle(n) PROVE DispatchInv'
<1>1. /\ dNode \in [DNode -> NodeOK] /\ dRun[n] \in RunOK /\ Pending(n) /\ Carries(n) /\ Placed(n)
      /\ Stored' /\ dCache' \subseteq RowOK
  BY DispatchParts DEF Attempts!Settle
<1>2. dRun[n].at = "settle" /\ dNode[n].state = "running" /\ UNCHANGED dCache
  BY DispatchSettleEffect
<1>3. CASE ~Attempts!ContractHolds(n, dRun[n].result) /\ Attempts!Moves(n, "refused") /\ UNCHANGED dNode
  <2>1. "refused" \in Threads
    BY DEF Threads
  <2>2. /\ dRun' \in [DNode -> RunOK] /\ \A m \in DNode \ {n} : dRun'[m] = dRun[m]
        /\ dRun'[n].at = "refused" /\ dRun'[n].called = dRun[n].called /\ dRun'[n].reused = dRun[n].reused
        /\ dRun'[n].result = dRun[n].result
    BY <1>3, <2>1, DispatchMoves
  <2>3. ~(~dRun[n].called /\ ~dRun[n].reused /\ dRun[n].result.status = "blocked")
    BY <1>1, <1>2, <1>3, DispatchKeepsContract DEF Carries
  <2>4. Sound(n)'
    BY <1>1, <1>2, <1>3, <2>2, <2>3 DEF Sound, Pending, Placed, Carries, InTree, Attempts!Working
  <2> QED
    BY <1>1, <1>3, <2>2, <2>4, DispatchFrame
<1>4. CASE Attempts!ContractHolds(n, dRun[n].result)
  <2>1. /\ Attempts!Leaves(n, "idle")
        /\ dNode' \in [DNode -> NodeOK] /\ \A m \in DNode \ {n} : dNode'[m] = dNode[m]
        /\ dNode'[n].tree = dNode[n].tree /\ dNode'[n].open = dNode[n].open
        /\ dNode'[n].state # "running"
        /\ dNode[n].open => dNode'[n].state = "indeterminate"
    BY <1>4, DispatchSettleEffect
  <2>2. dNode'[n].open => dNode'[n].tree /\ dNode'[n].state \in Kept
    BY <1>1, <2>1 DEF Pending, Kept
  <2> QED
    BY <1>2, <2>1, <2>2, DispatchGone
<1> QED
  BY <1>3, <1>4, DispatchSettleEffect

LEMMA DispatchReconcile ==
    ASSUME DispatchInv, NEW n \in DNode, Attempts!Reconcile(n) PROVE DispatchInv'
<1>1. /\ dNode \in [DNode -> NodeOK] /\ dNode[n] \in NodeOK /\ Pending(n)
  BY DispatchParts
<1>2. Attempts!Leaves(n, "idle") /\ UNCHANGED dCache
  BY DEF Attempts!Reconcile
<1>3. CASE dNode[n].state # "running" /\ UNCHANGED dNode
  BY <1>1, <1>2, <1>3, DispatchGone DEF Pending
<1>4. CASE dNode' = [dNode EXCEPT ![n].state = "indeterminate"]
  <2> DEFINE x == [dNode[n] EXCEPT !.state = "indeterminate"]
  <2>1. x \in NodeOK /\ x.state = "indeterminate" /\ x.tree = dNode[n].tree /\ x.open = dNode[n].open
    BY <1>1 DEF NodeOK, NodeStates
  <2>2. dNode' = [dNode EXCEPT ![n] = x]
    BY <1>4
  <2> HIDE DEF x
  <2>3. dNode' \in [DNode -> NodeOK] /\ dNode'[n] = x /\ \A m \in DNode \ {n} : dNode'[m] = dNode[m]
    BY <1>1, <2>1, <2>2
  <2>4. dNode'[n].open => dNode'[n].tree /\ dNode'[n].state \in Kept
    BY <1>1, <2>1, <2>3 DEF Pending, Kept
  <2> QED
    BY <1>2, <2>1, <2>3, <2>4, DispatchGone
<1> QED
  BY <1>3, <1>4 DEF Attempts!Reconcile

LEMMA DispatchFenced ==
    ASSUME DispatchInv, NEW n \in DNode, Attempts!Fenced(n) PROVE DispatchInv'
<1>1. /\ dNode \in [DNode -> NodeOK] /\ Pending(n)
  BY DispatchParts
<1>2. Attempts!Leaves(n, "idle") /\ UNCHANGED <<dNode, dCache>> /\ dNode[n].state # "running"
  BY DEF Attempts!Fenced
<1> QED
  BY <1>1, <1>2, DispatchGone DEF Pending

\* The row changes, the thread does not.
LEMMA DispatchRow ==
    ASSUME DispatchInv, NEW n \in DNode, UNCHANGED <<dRun, dCache>>, NEW x \in NodeOK,
           dNode' = [dNode EXCEPT ![n] = x],
           x.tree = dNode[n].tree,
           x.state = "running" => dNode[n].state = "running",
           x.open => dNode[n].open /\ x.state \in Kept,
           dRun[n].at \in InTree => x.state \in Kept
    PROVE  DispatchInv'
<1>1. /\ dNode \in [DNode -> NodeOK] /\ dRun' \in [DNode -> RunOK] /\ Pending(n) /\ Placed(n) /\ Carries(n)
      /\ Stored' /\ dCache' \subseteq RowOK
  BY DispatchParts
<1>2. dNode' \in [DNode -> NodeOK] /\ dNode'[n] = x /\ \A m \in DNode \ {n} : dNode'[m] = dNode[m]
  BY <1>1
<1>3. Sound(n)'
  BY <1>1, <1>2 DEF Sound, Pending, Placed, Carries, Attempts!Working
<1> QED
  BY <1>1, <1>2, <1>3, DispatchFrame

LEMMA DispatchRecover ==
    ASSUME DispatchInv, NEW n \in DNode, Attempts!Recover(n) PROVE DispatchInv'
<1>1. /\ dNode \in [DNode -> NodeOK] /\ dNode[n] \in NodeOK /\ Pending(n)
  BY DispatchParts
<1> DEFINE x == [dNode[n] EXCEPT !.state = "indeterminate"]
<1>2. x \in NodeOK /\ x.state = "indeterminate" /\ x.tree = dNode[n].tree /\ x.open = dNode[n].open
  BY <1>1 DEF NodeOK, NodeStates
<1>3. dNode' = [dNode EXCEPT ![n] = x] /\ UNCHANGED dCache
  BY DEF Attempts!Recover
<1> HIDE DEF x
<1>4. CASE UNCHANGED dRun
  BY <1>2, <1>3, <1>4, DispatchRow DEF Kept
<1>5. CASE Attempts!Leaves(n, "gone")
  <2>1. dNode' \in [DNode -> NodeOK] /\ dNode'[n] = x /\ \A m \in DNode \ {n} : dNode'[m] = dNode[m]
    BY <1>1, <1>2, <1>3
  <2>2. dNode'[n].open => dNode'[n].tree /\ dNode'[n].state \in Kept
    BY <1>1, <1>2, <2>1 DEF Pending, Kept
  <2> QED
    BY <1>2, <1>3, <1>5, <2>1, <2>2, DispatchGone
<1> QED
  BY <1>4, <1>5 DEF Attempts!Recover

LEMMA DispatchDecide ==
    ASSUME DispatchInv, NEW n \in DNode, Attempts!Decide(n) PROVE DispatchInv'
<1>1. /\ dNode \in [DNode -> NodeOK] /\ dNode[n] \in NodeOK /\ Pending(n) /\ Placed(n)
  BY DispatchParts
<1>2. UNCHANGED <<dRun, dCache>>
  BY DEF Attempts!Decide
<1>3. CASE /\ dNode[n].tree => Attempts!Verifier(n) /\ ~Attempts!Working(n)
           /\ dNode' = [dNode EXCEPT ![n].state = "pending", ![n].open = @ /\ ~dNode[n].tree]
  <2> DEFINE b == dNode[n].open /\ ~dNode[n].tree
             x == [dNode[n] EXCEPT !.state = "pending", !.open = b]
  <2>1. b \in BOOLEAN /\ ~b
    BY <1>1 DEF Pending
  <2>2. dNode' = [dNode EXCEPT ![n] = x]
    BY <1>3
  <2> HIDE DEF b
  <2>3. x \in NodeOK /\ x.state = "pending" /\ x.tree = dNode[n].tree /\ x.open = b
    BY <1>1, <2>1 DEF NodeOK, NodeStates
  <2>4. dRun[n].at \notin InTree
    BY <1>1, <1>3 DEF Placed, Attempts!Working, InTree
  <2> HIDE DEF x
  <2> QED
    BY <1>2, <2>1, <2>2, <2>3, <2>4, DispatchRow
<1>4. CASE dNode' = [dNode EXCEPT ![n].state = "closed"]
  <2> DEFINE x == [dNode[n] EXCEPT !.state = "closed"]
  <2>1. x \in NodeOK /\ x.state = "closed" /\ x.tree = dNode[n].tree /\ x.open = dNode[n].open
    BY <1>1 DEF NodeOK, NodeStates
  <2>2. dNode' = [dNode EXCEPT ![n] = x]
    BY <1>4
  <2> HIDE DEF x
  <2> QED
    BY <1>2, <2>1, <2>2, DispatchRow DEF Kept
<1> QED
  BY <1>3, <1>4 DEF Attempts!Decide

LEMMA DispatchContinue ==
    ASSUME DispatchInv, NEW n \in DNode, Attempts!Continue(n) PROVE DispatchInv'
<1>1. /\ dNode \in [DNode -> NodeOK] /\ dNode[n] \in NodeOK /\ Pending(n) /\ Placed(n)
  BY DispatchParts
<1>2. UNCHANGED <<dRun, dCache>> /\ dNode[n].state \in {"failed", "blocked"}
  BY DEF Attempts!Continue
<1>3. PICK i \in {dNode[n].input, dNode[n].input + 1} :
          i <= DMaxInput /\ dNode' = [dNode EXCEPT ![n].state = "pending", ![n].input = i]
  BY DEF Attempts!Continue
<1>4. i \in 1..DMaxInput
  BY <1>1, <1>3, DispatchAssumed DEF Attempts!DispatchAssumption, NodeOK
<1>5. ~dNode[n].open /\ dRun[n].at \notin InTree
  BY <1>1, <1>2 DEF Pending, Placed, Kept
<1> DEFINE x == [dNode[n] EXCEPT !.state = "pending", !.input = i]
<1>6. x \in NodeOK /\ x.state = "pending" /\ x.tree = dNode[n].tree /\ x.open = dNode[n].open
  BY <1>1, <1>4 DEF NodeOK, NodeStates
<1>7. dNode' = [dNode EXCEPT ![n] = x]
  BY <1>3
<1> HIDE DEF x
<1> QED
  BY <1>2, <1>5, <1>6, <1>7, DispatchRow

LEMMA DispatchSteer ==
    ASSUME DispatchInv, NEW n \in DNode, Attempts!Steer(n) PROVE DispatchInv'
<1>1. /\ dNode \in [DNode -> NodeOK] /\ dNode[n] \in NodeOK /\ Pending(n) /\ Placed(n)
  BY DispatchParts
<1>2. UNCHANGED <<dRun, dCache>> /\ dNode[n].input < DMaxInput
  BY DEF Attempts!Steer
<1> DEFINE i == dNode[n].input + 1
           x == [dNode[n] EXCEPT !.input = i]
<1>3. i \in 1..DMaxInput
  BY <1>1, <1>2, DispatchAssumed DEF Attempts!DispatchAssumption, NodeOK
<1>4. dNode' = [dNode EXCEPT ![n] = x]
  BY DEF Attempts!Steer
<1> HIDE DEF i
<1>5. x \in NodeOK /\ x.state = dNode[n].state /\ x.tree = dNode[n].tree /\ x.open = dNode[n].open
  BY <1>1, <1>3 DEF NodeOK
<1> HIDE DEF x
<1> QED
  BY <1>1, <1>2, <1>4, <1>5, DispatchRow DEF Pending, Placed

LEMMA DispatchLose == ASSUME DispatchInv, Attempts!Lose PROVE DispatchInv'
<1>1. Stored /\ dCache \subseteq RowOK
  BY DEF DispatchInv, DispatchTypes
<1>2. PICK row \in dCache : row.whole /\ dCache' = (dCache \ {row}) \cup {[row EXCEPT !.whole = FALSE]}
  BY DEF Attempts!Lose
<1> DEFINE lost == [row EXCEPT !.whole = FALSE]
<1>3. lost \in RowOK /\ lost.key = row.key /\ lost.result = row.result
  BY <1>1, <1>2 DEF RowOK
<1>4. dCache' = (dCache \ {row}) \cup {lost}
  BY <1>2
<1> HIDE DEF lost
<1>5. \A p \in dCache' : \E o \in dCache : o.key = p.key /\ o.result = p.result /\ (p # lost => o = p)
      /\ (p = lost => o = row)
  BY <1>2, <1>3, <1>4
<1>6. \A p, q \in dCache' : p.key = q.key => p = q
  BY <1>1, <1>2, <1>3, <1>4 DEF Stored
<1>7. Stored' /\ dCache' \subseteq RowOK
  BY <1>1, <1>3, <1>4, <1>5, <1>6 DEF Stored
<1>8. UNCHANGED <<dNode, dRun>>
  BY DEF Attempts!Lose
<1> QED
  BY <1>7, <1>8 DEF DispatchInv, DispatchTypes, Sound, Pending, Placed, Carries, Attempts!Working

LEMMA DispatchNext == ASSUME DispatchInv, [Attempts!Next]_Attempts!vars PROVE DispatchInv'
<1>1. ASSUME NEW n \in DNode, Attempts!Claim(n) PROVE DispatchInv'
  BY <1>1, DispatchClaim
<1>2. ASSUME NEW n \in DNode, Attempts!Step(n) PROVE DispatchInv'
  BY <1>2, DispatchPrepare, DispatchAssess, DispatchLookup, DispatchReuse, DispatchCall, DispatchFallBack,
     DispatchReturn, DispatchSave, DispatchSettle, DispatchReconcile, DispatchFenced DEF Attempts!Step
<1>3. ASSUME NEW n \in DNode, Attempts!Recover(n) \/ Attempts!Decide(n) \/ Attempts!Continue(n)
             \/ Attempts!Steer(n) PROVE DispatchInv'
  BY <1>3, DispatchRecover, DispatchDecide, DispatchContinue, DispatchSteer
<1>4. CASE Attempts!Lose
  BY <1>4, DispatchLose
<1>5. CASE UNCHANGED Attempts!vars
  BY <1>5
  DEF Attempts!vars, DispatchInv, DispatchTypes, Sound, Pending, Placed, Carries, Attempts!Working, Stored
<1> QED
  BY <1>1, <1>2, <1>3, <1>4, <1>5 DEF Attempts!Next

LEMMA DispatchImplies == DispatchInv => Attempts!TypeOK /\ Attempts!KnownEnd /\ Attempts!EvidenceSound
<1> SUFFICES ASSUME DispatchInv PROVE Attempts!TypeOK /\ Attempts!KnownEnd /\ Attempts!EvidenceSound
  OBVIOUS
<1>1. Attempts!TypeOK
  BY DEF DispatchInv, DispatchTypes, Attempts!TypeOK, NodeOK, RunOK, RowOK, NodeStates, Threads
<1>2. Attempts!KnownEnd
  BY DEF DispatchInv, Sound, Pending, Placed, Attempts!KnownEnd, Kept
<1>3. Attempts!EvidenceSound
  BY DEF DispatchInv, Sound, Carries, Stored, Attempts!EvidenceSound
<1> QED
  BY <1>1, <1>2, <1>3

LEMMA DispatchClear == ASSUME DispatchInv, [Attempts!Next]_Attempts!vars PROVE Attempts!EndsClear
<1> SUFFICES ASSUME NEW n \in DNode, dNode[n].state = "running", dRun[n].at \in {"settle", "refused"},
                    dRun'[n].at \in {"idle", "refused"}, dRun'[n] # dRun[n]
             PROVE  /\ ~dRun[n].called /\ ~dRun[n].reused /\ dRun[n].result.status = "blocked"
                       => dNode'[n].state = "blocked"
                    /\ dNode'[n].state = "accepted" =>
                         /\ dRun[n].result.status = "succeeded" /\ dRun[n].result.on = dRun[n].input
                            /\ dRun[n].result.checks
                         /\ Attempts!Verifier(n) => dRun[n].result.verdict = "accepted"
                            /\ "required" \in dRun[n].result.names
  BY DEF Attempts!EndsClear
<1>1. /\ dNode \in [DNode -> NodeOK] /\ dRun \in [DNode -> RunOK] /\ dRun[n] \in RunOK /\ Carries(n)
  BY DispatchParts
<1>2. CASE Attempts!Settle(n)
  <2>1. CASE Attempts!ContractHolds(n, dRun[n].result)
    <3>1. /\ dNode'[n].state = "accepted" => Attempts!Demanded(n, dRun[n].result).status = "succeeded"
          /\ dRun[n].result.status = "blocked" /\ ~dRun[n].result.retryable => dNode'[n].state = "blocked"
          /\ dRun[n].result \in Attempts!Results /\ dRun[n].at = "settle"
      BY <1>2, <2>1, DispatchSettleEffect
    <3>2. ~dRun[n].called /\ ~dRun[n].reused /\ dRun[n].result.status = "blocked" => ~dRun[n].result.retryable
      BY <1>1, <3>1 DEF Carries
    <3>3. Attempts!Demanded(n, dRun[n].result).status = "succeeded" =>
             dRun[n].result.status = "succeeded"
             /\ (Attempts!Verifier(n) => "required" \in dRun[n].result.names)
      BY <3>1, DispatchDemanded
    <3>4. dRun[n].result.status = "succeeded" =>
              /\ dRun[n].result.on = dRun[n].input /\ dRun[n].result.checks
              /\ Attempts!Verifier(n) => dRun[n].result.verdict = "accepted"
      BY <1>1, <2>1, <3>1 DEF Carries, Attempts!ContractHolds
    <3> QED
      BY <3>1, <3>2, <3>3, <3>4
  <2>2. CASE ~Attempts!ContractHolds(n, dRun[n].result)
    <3>1. UNCHANGED dNode /\ dRun[n].at = "settle"
      BY <1>2, <2>2, DispatchSettleEffect
    <3>2. ~(~dRun[n].called /\ ~dRun[n].reused /\ dRun[n].result.status = "blocked")
      BY <1>1, <2>2, <3>1, DispatchKeepsContract DEF Carries
    <3> QED
      BY <3>1, <3>2
  <2> QED
    BY <2>1, <2>2
<1>3. CASE Attempts!Reconcile(n)
  <2>1. dRun[n].at = "refused" /\ dNode' = [dNode EXCEPT ![n].state = "indeterminate"]
    BY <1>3 DEF Attempts!Reconcile
  <2>2. dNode'[n].state = "indeterminate"
    BY <1>1, <2>1 DEF NodeOK
  <2> QED
    BY <1>1, <2>1, <2>2 DEF Carries
<1>4. CASE \E m \in DNode : Attempts!Claim(m) \/ Attempts!Step(m) \/ Attempts!Recover(m)
           \/ Attempts!Decide(m) \/ Attempts!Continue(m) \/ Attempts!Steer(m)
  <2>1. PICK m \in DNode : Attempts!Claim(m) \/ Attempts!Step(m) \/ Attempts!Recover(m)
        \/ Attempts!Decide(m) \/ Attempts!Continue(m) \/ Attempts!Steer(m)
    BY <1>4
  <2>2. m = n
    <3>1. ASSUME m # n PROVE dRun'[n] = dRun[n]
      BY <1>1, <2>1, <3>1
      DEF Attempts!Claim, Attempts!Step, Attempts!Recover, Attempts!Decide, Attempts!Continue, Attempts!Steer,
          Attempts!Prepare, Attempts!Assess, Attempts!Lookup, Attempts!Reuse, Attempts!Call,
          Attempts!FallBack,
         Attempts!Return, Attempts!Save, Attempts!Settle, Attempts!Reconcile, Attempts!Fenced,
         Attempts!Fails, Attempts!Raised, Attempts!Ends, Attempts!Moves, Attempts!Leaves
    <3> QED
      BY <3>1
  <2>3. CASE Attempts!Claim(m)
    BY <2>2, <2>3 DEF Attempts!Claim
  <2>4. CASE Attempts!Recover(m)
    <3>1. CASE UNCHANGED dRun
      BY <3>1
    <3>2. CASE Attempts!Leaves(m, "gone")
      BY <2>2, <3>2, DispatchLeaves
    <3> QED
      BY <2>4, <3>1, <3>2 DEF Attempts!Recover
  <2>5. CASE Attempts!Decide(m) \/ Attempts!Continue(m) \/ Attempts!Steer(m)
    BY <2>5 DEF Attempts!Decide, Attempts!Continue, Attempts!Steer
  <2>6. CASE Attempts!Step(m)
    <3>1. CASE Attempts!Settle(m) \/ Attempts!Reconcile(m)
      BY <1>2, <1>3, <2>2, <3>1
    <3>2. CASE ~(Attempts!Settle(m) \/ Attempts!Reconcile(m))
      <4>1. Attempts!Prepare(m) \/ Attempts!Assess(m) \/ Attempts!Lookup(m) \/ Attempts!Reuse(m)
            \/ Attempts!Call(m) \/ Attempts!FallBack(m) \/ Attempts!Return(m) \/ Attempts!Save(m)
               \/ Attempts!Fenced(m)
        BY <2>6, <3>2 DEF Attempts!Step
      <4> QED
        BY <2>2, <4>1
        DEF Attempts!Prepare, Attempts!Assess, Attempts!Lookup, Attempts!Reuse, Attempts!Call,
            Attempts!FallBack, Attempts!Return, Attempts!Save, Attempts!Fenced
    <3> QED
      BY <3>1, <3>2
  <2> QED
    BY <2>1, <2>3, <2>4, <2>5, <2>6
<1>5. CASE Attempts!Lose \/ UNCHANGED Attempts!vars
  BY <1>5 DEF Attempts!Lose, Attempts!vars
<1> QED
  BY <1>4, <1>5 DEF Attempts!Next

\* Whatever fails, is taken over or lost: no attempt starts beside an executor whose end nobody
\* knows, evidence was obtained for the inputs it is stored under, and an attempt ends as what it
\* did (service.py: _execute_claimed, store.py: settle_node).
THEOREM DispatchHolds == Attempts!Spec
    => [](Attempts!TypeOK /\ Attempts!KnownEnd /\ Attempts!EvidenceSound)
    /\ [][Attempts!EndsClear]_Attempts!vars
<1>1. Attempts!Spec => []DispatchInv
  BY DispatchInitLemma, DispatchNext, PTL DEF Attempts!Spec
<1> QED
  BY <1>1, DispatchImplies, DispatchClear, PTL DEF Attempts!Spec

-----------------------------------------------------------------------------
(* ExecutionReadiness: what a report says by the checks that were made, and the *)
(* time that is left.                                                         *)

LEMMA ReadinessAssumed == Readiness!ReadinessAssumption
  BY OperationsAssumption

Check == [kind : Readiness!Kinds, required : BOOLEAN]
Outcome == [kind : Readiness!Kinds, status : Readiness!Statuses, fit : BOOLEAN]

ReadyInv ==
    /\ eClock \in Nat /\ eTodo \in Seq(Check) /\ eReport \in Seq(Outcome)
    /\ eProbes.ended \in Nat /\ eProbes.ended <= ETotal + 1
    /\ \A t \in eProbes.began : t < ETotal
    /\ eReport = <<>> => eTodo # <<>> /\ Head(eTodo).kind = "worktree"
    /\ \A i \in DOMAIN eReport : eReport[i].status # "failed" => eReport[i].fit
    /\ \/ eReport = <<>>
       \/ \E i \in DOMAIN eReport : eReport[i].status = "failed"
       \/ \A k \in DOMAIN ERequirements :
             \/ \E i \in DOMAIN eReport : eReport[i].kind = ERequirements[k].kind
             \/ \E j \in DOMAIN eTodo : eTodo[j].kind = ERequirements[k].kind

\* What a check leaves.
CheckedBy(o, later) ==
    /\ eTodo # <<>> /\ o \in Outcome /\ o.kind = Head(eTodo).kind
    /\ o.status # "failed" => o.fit
    /\ eReport' = Append(eReport, o) /\ eTodo' = later

LEMMA ReadyInit == Readiness!Init => ReadyInv
<1> SUFFICES ASSUME Readiness!Init PROVE ReadyInv
  OBVIOUS
<1> DEFINE c == [kind |-> "worktree", required |-> TRUE]
<1>1. c \in Check
  BY DEF Check, Readiness!Kinds
<1>2. eTodo = <<c>>
  BY DEF Readiness!Init
<1> HIDE DEF c
<1>3. eTodo \in Seq(Check) /\ eTodo # <<>> /\ Head(eTodo) = c
  BY <1>1, <1>2
<1>4. c.kind = "worktree"
  BY DEF c
<1> QED
  BY <1>3, <1>4, ReadinessAssumed DEF Readiness!Init, ReadyInv, Readiness!ReadinessAssumption

LEMMA RestAfter ==
    ASSUME ReadyInv, NEW o, NEW later \in Seq(Check), CheckedBy(o, later), eClock' \in Nat,
           eProbes'.ended \in Nat, eProbes'.ended <= ETotal + 1, \A t \in eProbes'.began : t < ETotal,
           \/ o.status = "failed"
           \/ later = ERequirements
           \/ eReport # <<>> /\ \A j \in DOMAIN Tail(eTodo) : \E i \in DOMAIN later : later[i] = Tail(eTodo)[j]
    PROVE  ReadyInv'
<1>1. eTodo \in Seq(Check) /\ eReport \in Seq(Outcome) /\ eTodo # <<>> /\ o \in Outcome
  BY DEF ReadyInv, CheckedBy
<1>2. eReport' \in Seq(Outcome) /\ eReport' # <<>> /\ eTodo' = later /\ eReport' = Append(eReport, o)
  BY <1>1 DEF CheckedBy
<1> DEFINE n == Len(eReport)
<1>3. /\ n \in Nat /\ DOMAIN eReport = 1..n /\ DOMAIN eReport' = 1..(n + 1) /\ eReport'[n + 1] = o
      /\ \A i \in 1..n : eReport'[i] = eReport[i]
  BY <1>1, <1>2
<1>4. DOMAIN eReport' = DOMAIN eReport \cup {n + 1} /\ n + 1 \in DOMAIN eReport'
      /\ \A i \in DOMAIN eReport : i \in DOMAIN eReport'
  BY <1>3
<1>5. \A i \in DOMAIN eReport' : eReport'[i].status # "failed" => eReport'[i].fit
  BY <1>3, <1>4 DEF ReadyInv, CheckedBy
<1>6. \/ \E i \in DOMAIN eReport' : eReport'[i].status = "failed"
      \/ \A k \in DOMAIN ERequirements :
            \/ \E i \in DOMAIN eReport' : eReport'[i].kind = ERequirements[k].kind
            \/ \E j \in DOMAIN eTodo' : eTodo'[j].kind = ERequirements[k].kind
  <2>1. CASE o.status = "failed"
    BY <2>1, <1>3, <1>4
  <2>2. CASE later = ERequirements
    BY <2>2, <1>2
  <2>3. CASE eReport # <<>> /\ \A j \in DOMAIN Tail(eTodo) : \E i \in DOMAIN later : later[i] = Tail(eTodo)[j]
    <3>1. CASE \E i \in DOMAIN eReport : eReport[i].status = "failed"
      BY <3>1, <1>3, <1>4
    <3>3. CASE \A k \in DOMAIN ERequirements :
             \/ \E i \in DOMAIN eReport : eReport[i].kind = ERequirements[k].kind
             \/ \E j \in DOMAIN eTodo : eTodo[j].kind = ERequirements[k].kind
      <4> SUFFICES ASSUME NEW k \in DOMAIN ERequirements
                   PROVE  \/ \E i \in DOMAIN eReport' : eReport'[i].kind = ERequirements[k].kind
                          \/ \E j \in DOMAIN eTodo' : eTodo'[j].kind = ERequirements[k].kind
        OBVIOUS
      <4>1. CASE \E i \in DOMAIN eReport : eReport[i].kind = ERequirements[k].kind
        BY <4>1, <1>3, <1>4
      <4>2. ASSUME NEW j \in DOMAIN eTodo, eTodo[j].kind = ERequirements[k].kind
            PROVE  \/ \E i \in DOMAIN eReport' : eReport'[i].kind = ERequirements[k].kind
                   \/ \E i \in DOMAIN eTodo' : eTodo'[i].kind = ERequirements[k].kind
        <5>1. CASE j = 1
          <6>1. Head(eTodo) = eTodo[1]
            BY <1>1
          <6> QED
            BY <5>1, <6>1, <4>2, <1>3, <1>4 DEF CheckedBy
        <5>2. CASE j # 1
          <6>1. j - 1 \in DOMAIN Tail(eTodo) /\ Tail(eTodo)[j - 1] = eTodo[j]
            BY <5>2, <1>1
          <6> QED
            BY <6>1, <2>3, <4>2, <1>2
        <5> QED
          BY <5>1, <5>2
      <4> QED
        BY <3>3, <4>1, <4>2
    <3> QED
      BY <2>3, <3>1, <3>3 DEF ReadyInv
  <2> QED
    BY <2>1, <2>2, <2>3
<1> QED
  BY <1>2, <1>5, <1>6 DEF ReadyInv

LEMMA SaysStep ==
    ASSUME ReadyInv, eTodo # <<>>, NEW status \in Readiness!Statuses, NEW fit \in BOOLEAN,
           NEW later \in Seq(Check),
           Readiness!Says(status, fit, later), status # "failed" => fit,
           \/ status = "failed"
           \/ later = ERequirements
           \/ eReport # <<>> /\ \A j \in DOMAIN Tail(eTodo) : \E i \in DOMAIN later : later[i] = Tail(eTodo)[j]
    PROVE  ReadyInv'
<1> DEFINE o == [kind |-> Head(eTodo).kind, status |-> status, fit |-> fit]
<1>1. Head(eTodo) \in Check
  BY DEF ReadyInv
<1>2. o \in Outcome /\ o.kind = Head(eTodo).kind /\ o.status = status /\ o.fit = fit
  BY <1>1 DEF Check, Outcome
<1>3. eReport' = Append(eReport, o) /\ eTodo' = later
  BY DEF Readiness!Says, Readiness!Checked
<1> HIDE DEF o
<1>4. CheckedBy(o, later)
  BY <1>2, <1>3 DEF CheckedBy
<1>5. eClock' \in Nat /\ eProbes' = eProbes
  BY ReadinessAssumed DEF Readiness!Says, ReadyInv, Readiness!ReadinessAssumption
<1>6. eProbes'.ended \in Nat /\ eProbes'.ended <= ETotal + 1 /\ \A t \in eProbes'.began : t < ETotal
  BY <1>5 DEF ReadyInv
<1> QED
  BY <1>2, <1>4, <1>5, <1>6, RestAfter

LEMMA TailChecks == ASSUME ReadyInv, eTodo # <<>> PROVE Tail(eTodo) \in Seq(Check) /\ Head(eTodo) \in Check
  BY DEF ReadyInv

LEMMA TailStep ==
    ASSUME ReadyInv, eTodo # <<>>, eReport # <<>>, NEW status \in Readiness!Statuses, NEW fit \in BOOLEAN,
           Readiness!Says(status, fit, Tail(eTodo)), status # "failed" => fit
    PROVE  ReadyInv'
<1>1. Tail(eTodo) \in Seq(Check)
  BY TailChecks
<1>2. \A j \in DOMAIN Tail(eTodo) : \E i \in DOMAIN Tail(eTodo) : Tail(eTodo)[i] = Tail(eTodo)[j]
  OBVIOUS
<1> QED
  BY <1>1, <1>2, SaysStep

LEMMA WithinBudget ==
    ASSUME ReadyInv, eClock < ETotal, NEW d \in 0..Readiness!Timeout
    PROVE  eClock + d \in Nat /\ eClock + d <= ETotal + 1
<1>1. eClock \in Nat /\ ETotal \in Nat /\ EProbe \in Nat
  BY ReadinessAssumed DEF ReadyInv, Readiness!ReadinessAssumption
<1> DEFINE left == ETotal - eClock
<1>2. left \in Nat
  BY <1>1
<1>3. left % 2 \in {0, 1}
  BY <1>2
<1>4. Readiness!Timeout \in Nat /\ Readiness!Timeout <= left + 1
  <2>1. Readiness!Timeout = IF left + (left % 2) < EProbe THEN left + (left % 2) ELSE EProbe
    BY DEF Readiness!Timeout
  <2> HIDE DEF left
  <2> DEFINE r == left % 2
  <2>2. r \in {0, 1}
    BY <1>3
  <2>3. Readiness!Timeout = IF left + r < EProbe THEN left + r ELSE EProbe
    BY <2>1
  <2> HIDE DEF r
  <2> QED
    BY <2>2, <2>3, <1>1, <1>2
<1> QED
  BY <1>1, <1>4

LEMMA ProbedStep ==
    ASSUME ReadyInv, eTodo # <<>>, eReport # <<>>, NEW facts, Readiness!Probed(facts)
    PROVE  ReadyInv'
<1>1. CASE eClock >= ETotal
  <2>1. Readiness!Fails
    BY <1>1 DEF Readiness!Probed
  <2> QED
    BY <2>1, TailStep DEF Readiness!Fails, Readiness!Statuses
<1>2. CASE ~(eClock >= ETotal)
  <2>1. PICK d \in 0..Readiness!Timeout, outcome \in {"zero", "nonzero", "late", "error"}, fact \in facts :
          /\ eClock' = eClock + d
          /\ eProbes' = [began |-> eProbes.began \cup {eClock}, ended |-> eClock + d]
          /\ eReport' = Readiness!Checked(IF Readiness!Recorded(outcome)
             /\ fact = "fits" THEN "passed" ELSE "failed",
                                          outcome = "zero" /\ fact = "fits")
          /\ eTodo' = Tail(eTodo)
    BY <1>2 DEF Readiness!Probed
  <2>2. eClock \in Nat /\ ETotal \in Nat /\ eClock < ETotal
    BY <1>2, ReadinessAssumed DEF ReadyInv, Readiness!ReadinessAssumption
  <2>3. eClock + d \in Nat /\ eClock + d <= ETotal + 1
    BY <2>2, WithinBudget
  <2> DEFINE good == outcome = "zero" /\ fact = "fits"
             o == [kind |-> Head(eTodo).kind, status |-> IF good THEN "passed" ELSE "failed", fit |-> good]
  <2>4. eReport' = Append(eReport, o)
    BY <2>1 DEF Readiness!Checked, Readiness!Recorded
  <2>5. Head(eTodo) \in Check /\ Tail(eTodo) \in Seq(Check)
    BY TailChecks
  <2>6. good \in BOOLEAN
    OBVIOUS
  <2> HIDE DEF good
  <2>7. o \in Outcome /\ o.kind = Head(eTodo).kind /\ (o.status # "failed" => o.fit)
    <3>1. Head(eTodo).kind \in Readiness!Kinds
      BY <2>5 DEF Check
    <3>2. (IF good THEN "passed" ELSE "failed") \in Readiness!Statuses
      BY DEF Readiness!Statuses
    <3>3. o \in Outcome
      BY <3>1, <3>2, <2>6 DEF Outcome
    <3>4. CASE good
      BY <3>3, <3>4
    <3>5. CASE ~good
      BY <3>3, <3>5
    <3> QED
      BY <3>4, <3>5
  <2> HIDE DEF o
  <2>8. CheckedBy(o, Tail(eTodo))
    BY <2>1, <2>4, <2>7 DEF CheckedBy
  <2>9. /\ eClock' \in Nat /\ eProbes'.ended \in Nat /\ eProbes'.ended <= ETotal + 1
        /\ \A t \in eProbes'.began : t < ETotal
    BY <2>1, <2>2, <2>3 DEF ReadyInv
  <2>10. \A j \in DOMAIN Tail(eTodo) : \E i \in DOMAIN Tail(eTodo) : Tail(eTodo)[i] = Tail(eTodo)[j]
    OBVIOUS
  <2> QED
    BY <2>5, <2>8, <2>9, <2>10, RestAfter
<1> QED
  BY <1>1, <1>2

LEMMA TurnIs ==
    ASSUME ReadyInv, NEW kind, Readiness!Turn(kind)
    PROVE  /\ eTodo # <<>> /\ Head(eTodo) \in Check
           /\ kind # "worktree" => eReport # <<>>
  BY TailChecks DEF ReadyInv, Readiness!Turn

LEMMA MissStep ==
    ASSUME ReadyInv, eTodo # <<>>, eReport # <<>>, Readiness!Misses
    PROVE  ReadyInv'
<1>1. Head(eTodo).required \in BOOLEAN
  BY TailChecks DEF Check
<1>2. CASE Head(eTodo).required
  <2>1. Readiness!Says("failed", FALSE, Tail(eTodo))
    BY <1>2 DEF Readiness!Misses
  <2> QED
    BY <2>1, TailStep DEF Readiness!Statuses
<1>3. CASE ~Head(eTodo).required
  <2>1. Readiness!Says("not-applicable", TRUE, Tail(eTodo))
    BY <1>3 DEF Readiness!Misses
  <2> QED
    BY <2>1, TailStep DEF Readiness!Statuses
<1> QED
  BY <1>2, <1>3

LEMMA PassFailStep ==
    ASSUME ReadyInv, eTodo # <<>>, eReport # <<>>, Readiness!Passes \/ Readiness!Fails
    PROVE  ReadyInv'
  BY TailStep DEF Readiness!Passes, Readiness!Fails, Readiness!Statuses

LEMMA ReadyNext == ReadyInv /\ [Readiness!Next]_Readiness!vars => ReadyInv'
<1> SUFFICES ASSUME ReadyInv, [Readiness!Next]_Readiness!vars PROVE ReadyInv'
  OBVIOUS
<1>1. CASE Readiness!Worktree
  <2>1. eTodo # <<>>
    BY <1>1, TurnIs DEF Readiness!Worktree
  <2>2. ERequirements \in Seq(Check) /\ <<>> \in Seq(Check)
    BY ReadinessAssumed DEF Readiness!ReadinessAssumption, Check
  <2>3. CASE Readiness!Says("passed", TRUE, ERequirements)
    BY <2>1, <2>2, <2>3, SaysStep DEF Readiness!Statuses
  <2>4. CASE Readiness!Says("failed", FALSE, <<>>)
    BY <2>1, <2>2, <2>4, SaysStep DEF Readiness!Statuses
  <2> QED
    BY <1>1, <2>3, <2>4 DEF Readiness!Worktree
<1>2. CASE Readiness!Dependency
  BY <1>2, TurnIs, MissStep, PassFailStep DEF Readiness!Dependency
<1>3. CASE Readiness!Tool
  BY <1>3, TurnIs, MissStep, PassFailStep, ProbedStep DEF Readiness!Tool
<1>4. CASE Readiness!Source
  BY <1>4, TurnIs, PassFailStep, ProbedStep DEF Readiness!Source
<1>5. CASE Readiness!Manifest
  <2>1. eTodo # <<>> /\ eReport # <<>>
    BY <1>5, TurnIs DEF Readiness!Manifest
  <2> DEFINE c == <<[kind |-> "toolchain", required |-> TRUE], [kind |-> "linker", required |-> ENeedsLinker]>>
             rest == Tail(eTodo)
  <2>2. CASE Readiness!Says("passed", TRUE, c \o rest)
    <3>1. c \in Seq(Check) /\ rest \in Seq(Check)
      <4>1. [kind |-> "toolchain", required |-> TRUE] \in Check
        BY DEF Check, Readiness!Kinds
      <4>2. [kind |-> "linker", required |-> ENeedsLinker] \in Check
        BY ReadinessAssumed DEF Check, Readiness!Kinds, Readiness!ReadinessAssumption
      <4> QED
        BY <4>1, <4>2, <2>1, TailChecks
    <3>2. \A j \in DOMAIN rest : \E i \in DOMAIN (c \o rest) : (c \o rest)[i] = rest[j]
      <4>1. Len(c) \in Nat
        BY <3>1
      <4> HIDE DEF c, rest
      <4>2. \A j \in DOMAIN rest : Len(c) + j \in DOMAIN (c \o rest) /\ (c \o rest)[Len(c) + j] = rest[j]
        BY <3>1, <4>1
      <4> QED
        BY <4>2
    <3>3. c \o rest \in Seq(Check)
      BY <3>1
    <3> DEFINE later == c \o rest
    <3> HIDE DEF c
    <3>4. Readiness!Says("passed", TRUE, later) /\ later \in Seq(Check)
          /\ \A j \in DOMAIN Tail(eTodo) : \E i \in DOMAIN later : later[i] = Tail(eTodo)[j]
      BY <2>2, <3>2, <3>3
    <3> HIDE DEF later
    <3>5. "passed" \in Readiness!Statuses /\ TRUE \in BOOLEAN
      BY DEF Readiness!Statuses
    <3> QED
      BY <2>1, <3>4, <3>5, SaysStep
  <2>3. Readiness!Misses \/ Readiness!Fails \/ Readiness!Says("passed", TRUE, c \o rest)
    BY <1>5 DEF Readiness!Manifest
  <2> QED
    BY <2>1, <2>2, <2>3, MissStep, PassFailStep
<1>6. CASE Readiness!Toolchain
  BY <1>6, TurnIs, PassFailStep, ProbedStep DEF Readiness!Toolchain
<1>7. CASE Readiness!Linker
  <2>1. eTodo # <<>> /\ eReport # <<>>
    BY <1>7, TurnIs DEF Readiness!Linker
  <2>2. Readiness!Passes \/ Readiness!Fails \/ Readiness!Says("not-applicable", TRUE, Tail(eTodo))
    BY <1>7 DEF Readiness!Linker
  <2> QED
    BY <2>1, <2>2, PassFailStep, TailStep DEF Readiness!Statuses
<1>8. CASE UNCHANGED Readiness!vars
  BY <1>8 DEF Readiness!vars, ReadyInv
<1> QED
  BY <1>1, <1>2, <1>3, <1>4, <1>5, <1>6, <1>7, <1>8 DEF Readiness!Next

LEMMA ReadyMeans == ReadyInv => Readiness!TypeOK /\ Readiness!ReadinessHonest
<1> SUFFICES ASSUME ReadyInv PROVE Readiness!TypeOK /\ Readiness!ReadinessHonest
  OBVIOUS
<1>1. \A i \in DOMAIN eTodo : eTodo[i] \in Check
  BY DEF ReadyInv
<1>2. \A i \in DOMAIN eReport : eReport[i] \in Outcome
  BY DEF ReadyInv
<1>3. Readiness!TypeOK
  BY <1>1, <1>2 DEF ReadyInv, Readiness!TypeOK, Check, Outcome
<1>4. ASSUME Readiness!Ready PROVE /\ \A i \in DOMAIN eReport : eReport[i].fit
                                   /\ \A r \in {ERequirements[i] : i \in DOMAIN ERequirements} :
                                         \E i \in DOMAIN eReport : eReport[i].kind = r.kind
  <2>1. eTodo = <<>> /\ \A i \in DOMAIN eReport : eReport[i].status # "failed"
    BY <1>4 DEF Readiness!Ready
  <2>2. DOMAIN eTodo = {} /\ eReport # <<>>
    BY <2>1 DEF ReadyInv
  <2> QED
    BY <2>1, <2>2 DEF ReadyInv
<1> QED
  BY <1>3, <1>4 DEF ReadyInv, Readiness!ReadinessHonest

\* Within any budget of time and however slow the probes: a worktree that is called ready was
\* found ready by every check it needs (execution_readiness.py).
THEOREM ReadinessHolds == Readiness!Spec => [](Readiness!TypeOK /\ Readiness!ReadinessHonest)
  BY ReadyInit, ReadyNext, ReadyMeans, PTL DEF Readiness!Spec

-----------------------------------------------------------------------------
(* Routing: what a request was judged to admit, and that it is the one of the *)
(* stage and the node.                                                        *)

LEMMA RoutingAssumed == Routes!RoutingAssumption
  BY OperationsAssumption

LEMMA KnownFamilies ==
    DOMAIN Routes!Policy = Routes!ClaudeFamily \cup Routes!ControlFamily \cup {"spark", "luna", "terra"}
  BY DEF Routes!Policy, Routes!ClaudeFamily, Routes!ControlFamily

LEMMA ConstantTypes ==
    /\ \A c \in Routes!Capability : TFamily[c] \in Routes!ClaudeFamily \cup Routes!ControlFamily \cup {"spark", "luna", "terra"}
    /\ "any" \notin Routes!Capability /\ "none" \notin Routes!Capability
    /\ \A f \in {"fable", "opus", "sonnet", "spark", "luna", "terra"} : f \in Routes!Capability
       /\ TFamily[f] = f
    /\ \A q \in TCatalogs : DOMAIN q \subseteq Routes!Capability /\ \A c \in DOMAIN q : q[c] \in Int
    /\ \A q \in TQuotas : /\ q.native \in BOOLEAN /\ q.certain \in BOOLEAN /\ q.general \in 0..3
                          /\ q.sonnet \in 0..3 /\ q.fable \in 0..3
    /\ \A k \in TContracts : /\ k.planner \in Routes!Capability /\ k.verifier \in Routes!Capability
                             /\ k.complexity \in {"low", "standard", "high"}
                             /\ k.parallel \in BOOLEAN /\ k.command \in BOOLEAN /\ k.claude \in BOOLEAN
    /\ TWorks \subseteq Routes!Work /\ TBusy \subseteq Routes!Active
<1>1. \A c \in Routes!Capability : TFamily[c] \in DOMAIN Routes!Policy
  BY RoutingAssumed DEF Routes!RoutingAssumption
<1>2. /\ "any" \notin Routes!Capability /\ "none" \notin Routes!Capability
      /\ \A f \in {"fable", "opus", "sonnet", "spark", "luna", "terra"} : f \in Routes!Capability
         /\ TFamily[f] = f
      /\ \A q \in TCatalogs : DOMAIN q \subseteq Routes!Capability /\ \A c \in DOMAIN q : q[c] \in Int
      /\ TWorks \subseteq Routes!Work /\ TBusy \subseteq Routes!Active
  BY RoutingAssumed DEF Routes!RoutingAssumption, Routes!Uncatalogued
<1>3. \A q \in TQuotas : /\ q.native \in BOOLEAN /\ q.certain \in BOOLEAN /\ q.general \in 0..3
                         /\ q.sonnet \in 0..3 /\ q.fable \in 0..3
  BY RoutingAssumed DEF Routes!RoutingAssumption
<1>4. \A k \in TContracts : /\ k.planner \in Routes!Capability /\ k.verifier \in Routes!Capability
                            /\ k.complexity \in {"low", "standard", "high"}
                            /\ k.parallel \in BOOLEAN /\ k.command \in BOOLEAN /\ k.claude \in BOOLEAN
  BY RoutingAssumed DEF Routes!RoutingAssumption
<1>5. QED
  BY <1>1, <1>2, <1>3, <1>4, KnownFamilies

\* A request that was judged: whom it admits, and who of them may be chosen.
Judges(q) ==
    /\ q.admitted = {c \in DOMAIN tCatalog : Routes!Gates(c, q) = {}}
    /\ q.band = Routes!Within(q.admitted, q)

\* It is that of the stage, and of the node where a worker is chosen.
Suits(q) ==
    /\ tAt \in Routes!Stage
    /\ q.pass \in {"first", "deferred", "control"}
    /\ q.pass = "control" <=> q.role = "control"
    /\ tAt = "planner" => q.role = "planner" /\ q.asked = tContract.planner
    /\ tAt = "verifier" => q.role = "verifier" /\ q.asked = tContract.verifier
    /\ tAt = "worker" =>
           /\ q.role \in {"worker", "challenge", "control"}
           /\ q.role = "control" => q.asked = tContract.planner
           /\ q.role \in {"control", "challenge"} => Routes!RoleFor("worker", tNode) = "challenge"
           /\ q.complexity = tNode.complexity /\ q.claude = tNode.claude
           /\ q.floor = IF tNode.complexity = "low" /\ tNode.mechanical THEN 60 ELSE 80

CallInv == tCall # Routes!Idle => Judges(tCall) /\ Suits(tCall)

\* A node may narrow what the contract allows, and advice raises its complexity.
NodeInv ==
    /\ tNode.claude => tContract.claude
    /\ tNode.declared \in {"low", "standard", "high"}
    /\ tNode.complexity = "low" => tNode.declared = "low"
    /\ tNode.complexity = "standard" => tNode.declared \in {"low", "standard"}

\* What was chosen stays chosen, for a node that stays as it is.
ChosenInv ==
    /\ tRoutes.worker # "none" => tAt \in {"verifier", "done", "refused"}
    /\ tRoutes.worker = "none" => tRoutes.by = Routes!Idle
    /\ tAt \in {"submit", "planner", "planning", "worker"} => tRoutes.worker = "none"

RoutingInv == Routes!TypeOK /\ CallInv /\ NodeInv /\ ChosenInv /\ Routes!RoutesHonest

-----------------------------------------------------------------------------
LEMMA IdleType == Routes!Idle \in Routes!Call /\ [Routes!Idle EXCEPT !.pass = "old"] \in Routes!Call
<1>1. Routes!Idle \in Routes!Call
  BY DEF Routes!Idle, Routes!Call, Routes!Active
<1>2. \A q \in Routes!Call : [q EXCEPT !.pass = "old"] \in Routes!Call
  BY DEF Routes!Call
<1>3. QED
  BY <1>1, <1>2

LEMMA DefaultType ==
    ASSUME NEW k \in TContracts
    PROVE  Routes!Default(k) \in Routes!Work
  BY ConstantTypes DEF Routes!Default, Routes!Work, Routes!Building, Routes!Deciding

LEMMA ZoneTypes ==
    ASSUME tQuota \in TQuotas, tFresh \in BOOLEAN
    PROVE  /\ Routes!PayloadZone \in -1..3 /\ (~tFresh => Routes!PayloadZone = -1)
           /\ \A f : Routes!FamilyZone(f) \in -1..3
<1>1. /\ tQuota.general \in 0..3 /\ tQuota.sonnet \in 0..3 /\ tQuota.fable \in 0..3
      /\ tQuota.native \in BOOLEAN /\ tQuota.certain \in BOOLEAN
  BY ConstantTypes
<1>2. \A a, b \in 0..3 : Routes!Lesser(a, b) \in 0..3
  BY DEF Routes!Lesser
<1>3. Routes!PayloadZone \in -1..3 /\ (~tFresh => Routes!PayloadZone = -1)
  BY <1>1, <1>2 DEF Routes!PayloadZone
<1>4. \A f : Routes!FamilyZone(f) \in -1..3
  BY <1>1, <1>2 DEF Routes!FamilyZone
<1>5. QED
  BY <1>3, <1>4

LEMMA RoomTypes ==
    ASSUME tQuota \in TQuotas, tFresh \in BOOLEAN, NEW a \in Nat
    PROVE  Routes!SharedRoom(a) \in [capacity : 0..2, active : Nat]
<1>1. Routes!FamilyZone("sonnet") \in -1..3 /\ Routes!FamilyZone("opus") \in -1..3
  BY ZoneTypes
<1>2. QED
  BY <1>1 DEF Routes!SharedRoom

LEMMA RequestFields ==
    ASSUME NEW pass, NEW role, NEW w, NEW active
    PROVE  LET q == Routes!Request(pass, role, w, active)
           IN  /\ q.pass = pass /\ q.role = role /\ q.complexity = w.complexity /\ q.claude = w.claude
               /\ q.floor = IF w.complexity = "low" /\ w.mechanical THEN 60 ELSE 80
               /\ q.asked = IF role = "verifier" THEN tContract.verifier
                            ELSE IF role \in Routes!ControlPlane THEN tContract.planner ELSE "any"
               /\ q.zone = Routes!PayloadZone
  BY DEF Routes!Request

LEMMA RequestType ==
    ASSUME Routes!TypeOK, NEW pass \in {"first", "control"},
           NEW role \in {"planner", "verifier", "control", "worker", "challenge"},
           NEW w \in Routes!Work, NEW active \in Routes!Active
    PROVE  Routes!Request(pass, role, w, active) \in Routes!Call
<1>1. /\ tContract.planner \in Routes!Capability /\ tContract.verifier \in Routes!Capability
  BY ConstantTypes DEF Routes!TypeOK
<1>2. Routes!PayloadZone \in -1..3
  BY ZoneTypes DEF Routes!TypeOK
<1>3. Routes!SharedRoom(active.claude) \in [capacity : 0..2, active : Nat]
  BY RoomTypes DEF Routes!TypeOK, Routes!Active
<1>4. /\ w.type \in Routes!Building \cup Routes!Deciding /\ w.complexity \in {"low", "standard", "high"}
      /\ w.parallel \in BOOLEAN /\ w.mechanical \in BOOLEAN /\ w.claude \in BOOLEAN
      /\ w.plain \in BOOLEAN /\ w.narrow \in BOOLEAN
  BY DEF Routes!Work
<1>5. "architecture" \in Routes!Deciding
  BY DEF Routes!Deciding
<1>6. (role = "worker" /\ Routes!SparkLane(w) /\ Routes!Catalogued("spark")) \in BOOLEAN
  OBVIOUS
<1>7. (w.complexity = "low" /\ w.parallel /\ w.narrow /\ w.mechanical) \in BOOLEAN
  OBVIOUS
<1>8. QED
  BY <1>1, <1>2, <1>3, <1>4, <1>5, <1>6, <1>7 DEF Routes!Request, Routes!Call, Routes!ControlPlane

\* What is judged keeps its request; whom it admits depends on the request alone.
LEMMA JudgedFields ==
    ASSUME NEW q \in Routes!Call, DOMAIN tCatalog \subseteq Routes!Capability
    PROVE  LET j == Routes!Judged(q)
           IN  /\ j \in Routes!Call
               /\ \A c : Routes!Gates(c, j) = Routes!Gates(c, q)
               /\ j.admitted = {c \in DOMAIN tCatalog : Routes!Gates(c, j) = {}}
               /\ j.band = Routes!Within(j.admitted, j)
               /\ j.pass = q.pass /\ j.role = q.role /\ j.asked = q.asked /\ j.floor = q.floor
               /\ j.complexity = q.complexity /\ j.claude = q.claude /\ j.zone = q.zone
<1> DEFINE admitted == {c \in DOMAIN tCatalog : Routes!Gates(c, q) = {}}
           band == Routes!Within(admitted, q)
           j == [q EXCEPT !.admitted = admitted, !.band = band]
<1>1. Routes!Judged(q) = j
  BY DEF Routes!Judged
<1>2. band \subseteq admitted /\ admitted \subseteq Routes!Capability
  BY DEF Routes!Within
<1> HIDE DEF admitted, band
<1>3. /\ j \in Routes!Call /\ j.admitted = admitted /\ j.band = band
      /\ j.pass = q.pass /\ j.role = q.role /\ j.asked = q.asked /\ j.floor = q.floor
      /\ j.complexity = q.complexity /\ j.claude = q.claude /\ j.zone = q.zone
      /\ j.type = q.type /\ j.parallel = q.parallel /\ j.short = q.short
      /\ j.mechanical = q.mechanical /\ j.spark = q.spark /\ j.active = q.active /\ j.shared = q.shared
  BY <1>2 DEF Routes!Call
<1> HIDE DEF j
<1>4. \A c : Routes!Able(c, j) <=> Routes!Able(c, q)
  BY <1>3 DEF Routes!Able, Routes!TierAdmits
<1>5. \A c : Routes!Room(c, j) = Routes!Room(c, q)
  BY <1>3 DEF Routes!Room
<1>6. \A c : Routes!Gates(c, j) = Routes!Gates(c, q)
  BY <1>3, <1>4, <1>5 DEF Routes!Gates
<1>7. Routes!Within(admitted, j) = Routes!Within(admitted, q)
  BY <1>3 DEF Routes!Within
<1>8. QED
  BY <1>1, <1>3, <1>6, <1>7 DEF admitted, band

-----------------------------------------------------------------------------
\* What holds of a routing that goes on with the stage and the node it was asked for.
LEMMA SameGates ==
    ASSUME UNCHANGED <<tCatalog, tFamilies>>, NEW q
    PROVE  /\ \A c : Routes!Able(c, q)' <=> Routes!Able(c, q)
           /\ \A c : Routes!Gates(c, q)' = Routes!Gates(c, q)
           /\ Judges(q)' <=> Judges(q)
<1>1. \A c : Routes!Able(c, q)' <=> Routes!Able(c, q)
  BY DEF Routes!Able, Routes!TierAdmits, Routes!Of, Routes!IsClaude
<1>2. \A c : Routes!Room(c, q)' = Routes!Room(c, q)
  BY DEF Routes!Room, Routes!IsClaude
<1>3. \A c : Routes!Gates(c, q)' = Routes!Gates(c, q)
  BY <1>1, <1>2 DEF Routes!Gates, Routes!Of, Routes!IsClaude
<1>4. \A S : Routes!Within(S, q)' = Routes!Within(S, q)
  BY DEF Routes!Within, Routes!Gap
<1>5. QED
  BY <1>1, <1>3, <1>4 DEF Judges

LEMMA CallAfter ==
    ASSUME UNCHANGED <<tContract, tCatalog, tFamilies, tNode, tAt>>, NEW q, tCall' = q, Judges(q), Suits(q)
    PROVE  CallInv'
<1>1. Judges(q)'
  BY SameGates
<1>2. Suits(q)'
  BY DEF Suits, Routes!RoleFor, Routes!Stage
<1>3. QED
  BY <1>1, <1>2 DEF CallInv

LEMMA SameCall ==
    ASSUME CallInv, UNCHANGED <<tContract, tCatalog, tFamilies, tNode, tAt, tCall>>
    PROVE  CallInv'
<1>1. PICK q : tCall' = q
  OBVIOUS
<1>2. tCall = q
  BY <1>1
<1>3. CASE tCall = Routes!Idle
  BY <1>3 DEF CallInv
<1>4. CASE tCall # Routes!Idle
  BY <1>1, <1>2, <1>4, CallAfter DEF CallInv
<1>5. QED
  BY <1>3, <1>4

LEMMA SameVotes ==
    ASSUME UNCHANGED <<tCatalog, tEvidence>>, NEW q
    PROVE  /\ \A a, b : Routes!Beats(a, b)' <=> Routes!Beats(a, b)
           /\ \A c : Routes!Edge(c, q)' = Routes!Edge(c, q)
           /\ Routes!Compared(q)' <=> Routes!Compared(q)
           /\ Routes!Tierings(q)' = Routes!Tierings(q)
           /\ \A c : Routes!Preference(c, q)' = Routes!Preference(c, q)
<1>1. \A a, b : Routes!Shared(a, b)' = Routes!Shared(a, b)
  BY DEF Routes!Shared
<1>2. \A a, b : Routes!Beats(a, b)' <=> Routes!Beats(a, b)
  BY <1>1 DEF Routes!Beats
<1>3. \A c : Routes!Edge(c, q)' = Routes!Edge(c, q)
  BY DEF Routes!Edge, Routes!Gap
<1>4. Routes!Compared(q)' <=> Routes!Compared(q)
  BY <1>1 DEF Routes!Compared
<1>5. Routes!Tierings(q)' = Routes!Tierings(q)
  BY <1>2 DEF Routes!Tierings
<1>6. \A c : Routes!Preference(c, q)' = Routes!Preference(c, q)
  BY DEF Routes!Preference, Routes!Preferred
<1>7. QED
  BY <1>2, <1>3, <1>4, <1>5, <1>6

LEMMA SameChoice ==
    ASSUME Routes!RoutesHonest, UNCHANGED <<tContract, tCatalog, tEvidence, tFamilies, tNode, tRoutes>>
    PROVE  Routes!RoutesHonest'
<1>1. PICK by : tRoutes'.by = by
  OBVIOUS
<1>2. tRoutes.by = by
  BY <1>1
<1>3. Routes!AskedKept'
  BY DEF Routes!RoutesHonest, Routes!AskedKept, Routes!RoleFor
<1>4. Routes!ClaudeAdmitted'
  BY DEF Routes!RoutesHonest, Routes!ClaudeAdmitted, Routes!IsClaude
<1>5. Routes!QualityKept'
  BY <1>1, <1>2, SameGates DEF Routes!RoutesHonest, Routes!QualityKept, Routes!Tolerance
<1>6. Routes!RoomAlone'
  BY <1>1, <1>2, SameGates DEF Routes!RoutesHonest, Routes!RoomAlone, Routes!IsClaude
<1>7. Routes!VotesHeard'
  BY <1>1, <1>2, SameVotes DEF Routes!RoutesHonest, Routes!VotesHeard
<1>8. QED
  BY <1>3, <1>4, <1>5, <1>6, <1>7 DEF Routes!RoutesHonest

LEMMA NoCall ==
    ASSUME tCall' = Routes!Idle
    PROVE  CallInv'
  BY DEF CallInv

LEMMA NothingChosen ==
    ASSUME ChosenInv, Routes!RoutesHonest, tRoutes.worker = "none", UNCHANGED <<tContract, tRoutes>>
    PROVE  Routes!RoutesHonest'
<1>1. tRoutes.by = Routes!Idle
  BY DEF ChosenInv
<1>2. Routes!Idle.pass = "none" /\ Routes!Idle.band = {}
  BY DEF Routes!Idle
<1>3. QED
  BY <1>1, <1>2
  DEF Routes!RoutesHonest, Routes!AskedKept, Routes!ClaudeAdmitted, Routes!QualityKept, Routes!RoomAlone,
      Routes!VotesHeard

LEMMA RoutingInit == Routes!Init => RoutingInv
<1> SUFFICES ASSUME Routes!Init
             PROVE  RoutingInv
  OBVIOUS
<1>1. tContract \in TContracts /\ tRoutes.worker = "none" /\ tRoutes.planner = "none"
      /\ tRoutes.verifier = "none" /\ tRoutes.by = Routes!Idle /\ tCall = Routes!Idle
         /\ tNode = Routes!Default(tContract)
  BY DEF Routes!Init
<1>2. Routes!TypeOK
  BY <1>1, IdleType, DefaultType DEF Routes!Init, Routes!TypeOK
<1>3. NodeInv
  BY <1>1, ConstantTypes DEF NodeInv, Routes!Default
<1>4. Routes!Idle.pass = "none" /\ Routes!Idle.band = {}
  BY DEF Routes!Idle
<1>5. Routes!RoutesHonest
  BY <1>1, <1>4
  DEF Routes!RoutesHonest, Routes!AskedKept, Routes!ClaudeAdmitted, Routes!QualityKept, Routes!RoomAlone,
      Routes!VotesHeard
<1>6. QED
  BY <1>1, <1>2, <1>3, <1>5 DEF Routes!Init, RoutingInv, CallInv, ChosenInv

LEMMA SubmissionStep ==
    ASSUME RoutingInv, Routes!Submit
    PROVE  RoutingInv'
<1>1. tAt = "submit" /\ tAt' = "planner" /\ tCall = Routes!Idle /\ tRoutes.worker = "none"
      /\ UNCHANGED <<tContract, tCatalog, tEvidence, tQuota, tFresh, tNode, tCall, tRoutes>>
  BY DEF Routes!Submit, RoutingInv, CallInv, Suits, ChosenInv, Routes!Stage
<1>2. tFamilies' \subseteq Routes!ClaudeFamily
  BY DEF Routes!Submit
<1>3. Routes!TypeOK'
  BY <1>1, <1>2 DEF RoutingInv, Routes!TypeOK, Routes!Stage
<1>4. QED
  BY <1>1, <1>3, NoCall, NothingChosen DEF RoutingInv, NodeInv, ChosenInv

LEMMA AgeStep ==
    ASSUME RoutingInv, Routes!Age
    PROVE  RoutingInv'
<1>1. tFresh' = FALSE /\ UNCHANGED <<tContract, tCatalog, tEvidence, tQuota, tFamilies, tAt, tNode, tCall, tRoutes>>
  BY DEF Routes!Age
<1>2. Routes!TypeOK'
  BY <1>1 DEF RoutingInv, Routes!TypeOK
<1>3. QED
  BY <1>1, <1>2, SameCall, SameChoice DEF RoutingInv, NodeInv, ChosenInv

LEMMA AskStep ==
    ASSUME RoutingInv, Routes!Ask
    PROVE  RoutingInv'
<1> DEFINE role == Routes!RoleFor(tAt, Routes!Strategy)
<1>1. PICK active \in TBusy : tCall' = Routes!Judged(Routes!Request("first", role, Routes!Strategy, active))
  BY DEF Routes!Ask
<1> DEFINE q == Routes!Request("first", role, Routes!Strategy, active)
<1>2. /\ tAt \in Routes!Stage
      /\ UNCHANGED <<tContract, tCatalog, tEvidence, tQuota, tFresh, tFamilies, tAt, tNode, tRoutes>>
      /\ Routes!TypeOK /\ tCatalog \in TCatalogs
  BY DEF Routes!Ask, RoutingInv, Routes!TypeOK
<1>3. Routes!Strategy \in Routes!Work /\ active \in Routes!Active
  BY <1>2, ConstantTypes, DefaultType DEF Routes!Strategy, Routes!TypeOK
<1>4. /\ tAt # "worker" => role = tAt
      /\ tAt = "worker" => role = Routes!RoleFor("worker", tNode) /\ role \in {"worker", "challenge"}
         /\ Routes!Strategy = tNode
  BY <1>2 DEF Routes!RoleFor, Routes!Strategy, Routes!Stage
<1>5. role \in {"planner", "verifier", "worker", "challenge"}
  BY <1>2, <1>4 DEF Routes!Stage
<1> HIDE DEF role
<1>6. q \in Routes!Call
  BY <1>2, <1>3, <1>5, RequestType
<1>7. /\ q.pass = "first" /\ q.role = role /\ q.complexity = Routes!Strategy.complexity
         /\ q.claude = Routes!Strategy.claude
      /\ q.floor = IF Routes!Strategy.complexity = "low" /\ Routes!Strategy.mechanical THEN 60 ELSE 80
      /\ q.asked = IF role = "verifier" THEN tContract.verifier
                   ELSE IF role \in Routes!ControlPlane THEN tContract.planner ELSE "any"
  BY RequestFields
<1> HIDE DEF q
<1>8. DOMAIN tCatalog \subseteq Routes!Capability
  BY <1>2, ConstantTypes
<1>9. PICK j : j = Routes!Judged(q)
  OBVIOUS
<1>10. /\ j \in Routes!Call /\ Judges(j) /\ j.pass = "first" /\ j.role = role /\ j.asked = q.asked
       /\ j.floor = q.floor /\ j.complexity = q.complexity /\ j.claude = q.claude
  BY <1>6, <1>7, <1>8, <1>9, JudgedFields DEF Judges
<1>11. Routes!TypeOK'
  BY <1>1, <1>2, <1>9, <1>10 DEF Routes!TypeOK, q
<1>12. Suits(j)
  BY <1>2, <1>4, <1>5, <1>7, <1>10 DEF Suits, Routes!ControlPlane, Routes!Stage
<1>13. CallInv'
  BY <1>1, <1>2, <1>9, <1>10, <1>12, CallAfter DEF q
<1>14. QED
  BY <1>2, <1>11, <1>13, SameChoice DEF RoutingInv, NodeInv, ChosenInv

LEMMA DeferStep ==
    ASSUME RoutingInv, Routes!Defer
    PROVE  RoutingInv'
<1> DEFINE q == [tCall EXCEPT !.pass = "deferred", !.active.codex = 0, !.shared.active = 0]
<1>1. /\ Routes!TypeOK /\ tCatalog \in TCatalogs /\ tCall \in Routes!Call
      /\ UNCHANGED <<tContract, tCatalog, tEvidence, tQuota, tFresh, tFamilies, tAt, tNode, tRoutes>>
      /\ tCall' = Routes!Judged(q)
  BY DEF Routes!Defer, RoutingInv, Routes!TypeOK
<1>2. tCall.pass = "first" /\ Routes!Idle.pass = "none"
  BY DEF Routes!Defer, Routes!Idle
<1>3. Suits(tCall)
  BY <1>2 DEF RoutingInv, CallInv
<1>4. /\ q \in Routes!Call /\ q.pass = "deferred" /\ q.role = tCall.role /\ q.asked = tCall.asked
      /\ q.floor = tCall.floor /\ q.complexity = tCall.complexity /\ q.claude = tCall.claude
  BY <1>1 DEF Routes!Call, Routes!Active
<1> HIDE DEF q
<1>5. PICK j : j = Routes!Judged(q)
  OBVIOUS
<1>6. /\ j \in Routes!Call /\ Judges(j) /\ j.pass = "deferred" /\ j.role = tCall.role /\ j.asked = tCall.asked
      /\ j.floor = tCall.floor /\ j.complexity = tCall.complexity /\ j.claude = tCall.claude
  BY <1>1, <1>4, <1>5, ConstantTypes, JudgedFields DEF Judges
<1>7. Suits(j)
  BY <1>2, <1>3, <1>6 DEF Suits
<1>8. Routes!TypeOK'
  BY <1>1, <1>5, <1>6 DEF Routes!TypeOK
<1>9. CallInv'
  BY <1>1, <1>5, <1>6, <1>7, CallAfter
<1>10. QED
  BY <1>1, <1>8, <1>9, SameChoice DEF RoutingInv, NodeInv, ChosenInv

LEMMA ControlFallbackStep ==
    ASSUME RoutingInv, Routes!Fallback
    PROVE  RoutingInv'
<1> DEFINE q == Routes!Request("control", "control", tNode, tCall.active)
<1>1. /\ Routes!TypeOK /\ tCatalog \in TCatalogs /\ tCall \in Routes!Call /\ tNode \in Routes!Work
      /\ UNCHANGED <<tContract, tCatalog, tEvidence, tQuota, tFresh, tFamilies, tAt, tNode, tRoutes>>
      /\ tCall' = Routes!Judged(q)
  BY DEF Routes!Fallback, RoutingInv, Routes!TypeOK
<1>2. tCall.pass = "first" /\ Routes!Idle.pass = "none" /\ tCall.role = "challenge"
  BY DEF Routes!Fallback, Routes!Stuck, Routes!Unchallenged, Routes!Idle
<1>3. Suits(tCall)
  BY <1>2 DEF RoutingInv, CallInv
<1>4. tAt = "worker" /\ Routes!RoleFor("worker", tNode) = "challenge"
  BY <1>2, <1>3 DEF Suits, Routes!Stage
<1>5. /\ q \in Routes!Call /\ q.pass = "control" /\ q.role = "control" /\ q.asked = tContract.planner
      /\ q.floor = IF tNode.complexity = "low" /\ tNode.mechanical THEN 60 ELSE 80
      /\ q.complexity = tNode.complexity /\ q.claude = tNode.claude
  BY <1>1, RequestType, RequestFields DEF Routes!Call, Routes!ControlPlane
<1> HIDE DEF q
<1>6. PICK j : j = Routes!Judged(q)
  OBVIOUS
<1>7. /\ j \in Routes!Call /\ Judges(j) /\ j.pass = "control" /\ j.role = "control"
         /\ j.asked = tContract.planner
      /\ j.floor = IF tNode.complexity = "low" /\ tNode.mechanical THEN 60 ELSE 80
      /\ j.complexity = tNode.complexity /\ j.claude = tNode.claude
  BY <1>1, <1>5, <1>6, ConstantTypes, JudgedFields DEF Judges
<1>8. Suits(j)
  BY <1>4, <1>7 DEF Suits, Routes!Stage
<1>9. Routes!TypeOK'
  BY <1>1, <1>6, <1>7 DEF Routes!TypeOK
<1>10. CallInv'
  BY <1>1, <1>6, <1>7, <1>8, CallAfter
<1>11. QED
  BY <1>1, <1>9, <1>10, SameChoice DEF RoutingInv, NodeInv, ChosenInv

LEMMA RefuseStep ==
    ASSUME RoutingInv, Routes!Refuse
    PROVE  RoutingInv'
<1>1. /\ tAt' = "refused" /\ tCall' = Routes!Idle
      /\ UNCHANGED <<tContract, tCatalog, tEvidence, tQuota, tFresh, tFamilies, tNode, tRoutes>>
  BY DEF Routes!Refuse
<1>2. Routes!TypeOK'
  BY <1>1, IdleType DEF RoutingInv, Routes!TypeOK
<1>3. QED
  BY <1>1, <1>2, NoCall, SameChoice DEF RoutingInv, NodeInv, ChosenInv

LEMMA PlanStep ==
    ASSUME RoutingInv, Routes!Plan
    PROVE  RoutingInv'
<1>1. /\ tAt = "planning" /\ tAt' \in {"refused", "worker"} /\ tRoutes.worker = "none" /\ tCall = Routes!Idle
      /\ UNCHANGED <<tContract, tCatalog, tEvidence, tQuota, tFresh, tFamilies, tCall, tRoutes>>
  BY DEF Routes!Plan, RoutingInv, ChosenInv, CallInv, Suits, Routes!Stage
<1>2. tNode' \in Routes!Work /\ NodeInv'
  <2>1. CASE tNode' = tNode
    BY <1>1, <2>1 DEF RoutingInv, Routes!TypeOK, NodeInv
  <2>2. ASSUME NEW w \in TWorks, NEW advised \in {"low", "standard", "high"}, w.claude => tContract.claude,
               tNode' = [w EXCEPT !.complexity = Routes!Higher(w.declared, advised)]
        PROVE  tNode' \in Routes!Work /\ NodeInv'
    <3>1. w \in Routes!Work
      BY ConstantTypes
    <3>2. /\ Routes!Higher(w.declared, advised) \in {"low", "standard", "high"}
          /\ Routes!Higher(w.declared, advised) = "low" => w.declared = "low"
          /\ Routes!Higher(w.declared, advised) = "standard" => w.declared \in {"low", "standard"}
          /\ w.declared \in {"low", "standard", "high"}
      BY <3>1 DEF Routes!Higher, Routes!Work
    <3>3. /\ tNode' \in Routes!Work /\ tNode'.claude = w.claude /\ tNode'.declared = w.declared
          /\ tNode'.complexity = Routes!Higher(w.declared, advised)
      BY <2>2, <3>1, <3>2 DEF Routes!Work
    <3>4. QED
      BY <1>1, <2>2, <3>2, <3>3 DEF NodeInv
  <2>3. QED
    BY <2>1, <2>2 DEF Routes!Plan
<1>3. Routes!TypeOK'
  BY <1>1, <1>2 DEF RoutingInv, Routes!TypeOK, Routes!Stage
<1>4. QED
  BY <1>1, <1>2, <1>3, NoCall, NothingChosen DEF RoutingInv, ChosenInv

-----------------------------------------------------------------------------
(* A choice. *)

\* What being admitted says.
LEMMA AdmittedFields ==
    ASSUME NEW q, NEW c, Routes!Gates(c, q) = {}, q.zone \in Int
    PROVE  /\ Routes!Able(c, q)
           /\ Routes!IsClaude(c) /\ q.claude => TFamily[c] \in tFamilies
           /\ Routes!IsClaude(c) => q.zone >= IF TFamily[c] = "sonnet" THEN 2 ELSE 3
<1>1. "unable" \notin Routes!Gates(c, q) /\ "admission" \notin Routes!Gates(c, q)
      /\ "quota" \notin Routes!Gates(c, q)
  OBVIOUS
<1>2. Routes!Able(c, q)
  BY <1>1 DEF Routes!Gates
<1>3. ~(Routes!IsClaude(c) /\ q.claude /\ TFamily[c] \notin tFamilies)
  BY <1>1 DEF Routes!Gates
<1>4. ~(Routes!IsClaude(c) /\ q.zone < (IF TFamily[c] = "sonnet" THEN 2 ELSE 3))
  BY <1>1 DEF Routes!Gates
<1>5. QED
  BY <1>2, <1>3, <1>4

\* The first by its scores is not beaten by what counts.
LEMMA FirstHeard ==
    ASSUME NEW q, NEW w \in q.band, NEW c \in q.band, Routes!First(w, q, Routes!Tiering(q)), Routes!Beats(c, w),
           Routes!Compared(q), Routes!Tierings(q) # {}
    PROVE  \/ Routes!Preference(w, q) < Routes!Preference(c, q)
           \/ Routes!Edge(w, q) < Routes!Edge(c, q)
<1> DEFINE t == Routes!Tiering(q)
<1>1. t \in Routes!Tierings(q)
  BY DEF Routes!Tiering
<1>2. \A x \in q.band : t[x] \in Int
  BY <1>1 DEF Routes!Tierings
<1>3. t[c] < t[w]
  BY <1>1 DEF Routes!Tierings
<1>4. w # c
  BY <1>2, <1>3
<1> HIDE DEF t
<1> DEFINE a == Routes!Score(w, q, t)
           b == Routes!Score(c, q, t)
<1>5. /\ DOMAIN a = 1..12 /\ DOMAIN b = 1..12
      /\ a[1] = Routes!Preference(w, q) /\ b[1] = Routes!Preference(c, q) /\ a[2] = Routes!Edge(w, q)
         /\ b[2] = Routes!Edge(c, q)
      /\ a[3] = t[w] /\ b[3] = t[c]
  BY DEF Routes!Score
<1>6. Routes!Before(a, b)
  BY <1>4 DEF Routes!First, t
<1> HIDE DEF a, b
<1>7. PICK i \in 1..12 : a[i] < b[i] /\ \A j \in 1..(i - 1) : a[j] = b[j]
  BY <1>5, <1>6 DEF Routes!Before
<1>8. i = 1 \/ i = 2
  <2>1. ASSUME i > 3
        PROVE  FALSE
    BY <1>2, <1>3, <1>5, <1>7, <2>1
  <2>2. ASSUME i = 3
        PROVE  FALSE
    BY <1>2, <1>3, <1>5, <1>7, <2>2
  <2>3. QED
    BY <2>1, <2>2
<1>9. QED
  BY <1>5, <1>7, <1>8

LEMMA ChooseStep ==
    ASSUME RoutingInv, Routes!Choose
    PROVE  RoutingInv'
<1>1. PICK c \in tCall.band : Routes!First(c, tCall, Routes!Tiering(tCall)) /\ Routes!Chosen(c, tCall)
  BY DEF Routes!Choose
<1>2. PICK q : q = tCall
  OBVIOUS
<1>3. /\ UNCHANGED <<tContract, tCatalog, tEvidence, tQuota, tFresh, tFamilies, tNode>>
      /\ tCall # Routes!Idle /\ Routes!TypeOK /\ q \in Routes!Call /\ tCatalog \in TCatalogs
         /\ tContract \in TContracts
      /\ Judges(q) /\ Suits(q) /\ tRoutes.worker \in Routes!Capability \cup {"none"}
  BY <1>2 DEF Routes!Choose, RoutingInv, CallInv, Routes!TypeOK
<1>4. c \in q.admitted /\ c \in DOMAIN tCatalog /\ c \in Routes!Capability /\ Routes!Gates(c, q) = {}
  BY <1>1, <1>2, <1>3, ConstantTypes DEF Judges, Routes!Within
<1>5. /\ Routes!Able(c, q)
      /\ Routes!IsClaude(c) /\ q.claude => TFamily[c] \in tFamilies
      /\ Routes!IsClaude(c) => q.zone >= IF TFamily[c] = "sonnet" THEN 2 ELSE 3
  <2>1. q.zone \in Int
    BY <1>3 DEF Routes!Call
  <2>2. QED
    BY <1>4, <2>1, AdmittedFields
<1>6. /\ tAt \in Routes!Stage /\ tAt' = Routes!After(tAt) /\ tCall' = Routes!Idle
      /\ tRoutes' = [tRoutes EXCEPT ![tAt] = c, !.by = IF tAt = "worker" THEN q ELSE @]
  BY <1>1, <1>2, <1>3 DEF Routes!Chosen, Suits
<1>7. tContract.planner # "any" /\ tContract.verifier # "any"
  BY <1>3, ConstantTypes
<1>8. CASE tAt \in {"planner", "verifier"}
  <2>1. /\ tRoutes'.worker = tRoutes.worker /\ tRoutes'.by = tRoutes.by
        /\ tAt = "planner" => tRoutes'.planner = c /\ tRoutes'.verifier = tRoutes.verifier
        /\ tAt = "verifier" => tRoutes'.verifier = c /\ tRoutes'.planner = tRoutes.planner
        /\ tRoutes' \in [planner : Routes!Capability \cup {"none"}, worker : Routes!Capability \cup {"none"},
                         verifier : Routes!Capability \cup {"none"}, by : Routes!Call]
    BY <1>3, <1>4, <1>6, <1>8 DEF Routes!TypeOK
  <2>2. /\ tAt = "planner" => tAt' = "planning" /\ tRoutes.worker = "none"
        /\ tAt = "verifier" => tAt' = "done"
    BY <1>6, <1>8 DEF Routes!After, RoutingInv, ChosenInv
  <2>3. Routes!TypeOK'
    BY <1>3, <1>6, <1>8, <2>1, <2>2, IdleType DEF Routes!TypeOK, Routes!Stage
  <2>4. /\ tAt = "planner" => c = tContract.planner
        /\ tAt = "verifier" => c = tContract.verifier
    BY <1>3, <1>5, <1>7 DEF Suits, Routes!Able
  <2>5. Routes!AskedKept'
    <3>1. Routes!AskedKept
      BY DEF RoutingInv, Routes!RoutesHonest
    <3>2. Routes!RoleFor("worker", tNode)' = Routes!RoleFor("worker", tNode)
      BY <1>3 DEF Routes!RoleFor
    <3>3. CASE tAt = "planner"
      BY <1>3, <2>1, <2>4, <3>1, <3>2, <3>3 DEF Routes!AskedKept
    <3>4. CASE tAt = "verifier"
      BY <1>3, <2>1, <2>4, <3>1, <3>2, <3>4 DEF Routes!AskedKept
    <3>5. QED
      BY <1>8, <3>3, <3>4
  <2>6. /\ Routes!ClaudeAdmitted' /\ Routes!QualityKept' /\ Routes!RoomAlone' /\ Routes!VotesHeard'
    <3>1. PICK by : tRoutes.by = by
      OBVIOUS
    <3>2. tRoutes'.by = by
      BY <2>1, <3>1
    <3>3. Routes!ClaudeAdmitted'
      BY <1>3, <2>1 DEF RoutingInv, Routes!RoutesHonest, Routes!ClaudeAdmitted, Routes!IsClaude
    <3>4. Routes!QualityKept'
      BY <1>3, <2>1, <3>1, <3>2, SameGates
      DEF RoutingInv, Routes!RoutesHonest, Routes!QualityKept, Routes!Tolerance
    <3>5. Routes!RoomAlone'
      BY <1>3, <2>1, <3>1, <3>2, SameGates
      DEF RoutingInv, Routes!RoutesHonest, Routes!RoomAlone, Routes!IsClaude
    <3>6. Routes!VotesHeard'
      BY <1>3, <2>1, <3>1, <3>2, SameVotes DEF RoutingInv, Routes!RoutesHonest, Routes!VotesHeard
    <3>7. QED
      BY <3>3, <3>4, <3>5, <3>6
  <2>7. ChosenInv'
    BY <1>6, <1>8, <2>1, <2>2 DEF RoutingInv, ChosenInv
  <2>8. QED
    BY <1>3, <1>6, <2>3, <2>5, <2>6, <2>7, NoCall DEF RoutingInv, NodeInv, Routes!RoutesHonest
<1>9. CASE tAt = "worker"
  <2>1. /\ tRoutes'.worker = c /\ tRoutes'.by = q
        /\ tRoutes'.verifier = tRoutes.verifier /\ tRoutes'.planner = tRoutes.planner
        /\ tRoutes' \in [planner : Routes!Capability \cup {"none"}, worker : Routes!Capability \cup {"none"},
                         verifier : Routes!Capability \cup {"none"}, by : Routes!Call]
    BY <1>3, <1>4, <1>6, <1>9 DEF Routes!TypeOK
  <2>2. tAt' = "verifier"
    BY <1>6, <1>9 DEF Routes!After
  <2>3. Routes!TypeOK'
    BY <1>3, <1>6, <2>1, <2>2, IdleType DEF Routes!TypeOK, Routes!Stage
  <2>4. Routes!AskedKept'
    <3>1. ASSUME TFamily[c] \in Routes!ControlFamily
          PROVE  q.pass = "control" /\ c = tContract.planner /\ Routes!RoleFor("worker", tNode) = "challenge"
      BY <1>3, <1>5, <1>7, <1>9, <3>1 DEF Suits, Routes!Able, Routes!TierAdmits, Routes!ControlPlane
    <3>2. QED
      BY <1>3, <2>1, <3>1 DEF RoutingInv, Routes!RoutesHonest, Routes!AskedKept, Routes!RoleFor
  <2>5. Routes!ClaudeAdmitted'
    BY <1>3, <1>5, <1>9, <2>1
    DEF RoutingInv, NodeInv, Routes!ClaudeAdmitted, Routes!IsClaude, Suits, Routes!Able
  <2>6. Routes!QualityKept'
    <3>1. q.pass # "old" /\ tCatalog[c] >= q.floor /\ q.complexity = tNode.complexity
      BY <1>3, <1>5, <1>9 DEF Suits, Routes!Able
    <3>2. tCatalog[c] \in Int /\ \A o \in DOMAIN tCatalog : tCatalog[o] \in Int
      BY <1>3, <1>4, ConstantTypes
    <3>3. q.floor >= IF tNode.declared = "low" /\ tNode.mechanical THEN 60 ELSE 80
      BY <1>3, <1>9 DEF RoutingInv, NodeInv, Suits
    <3>4. q.floor \in Int
      BY <1>3 DEF Routes!Call
    <3>5. Routes!Tolerance(tNode.complexity) <= Routes!Tolerance(tNode.declared)
          /\ Routes!Tolerance(tNode.declared) \in Int
          /\ Routes!Tolerance(tNode.complexity) \in Int
      BY DEF RoutingInv, NodeInv, Routes!Tolerance
    <3>6. \A o \in DOMAIN tCatalog : Routes!Gates(o, q) = {}
          => Routes!Gap(o, c) <= Routes!Tolerance(tNode.complexity)
      BY <1>1, <1>2, <1>3, <3>1 DEF Judges, Routes!Within
    <3>7. \A o \in DOMAIN tCatalog : Routes!Gates(o, q) = {}
          => 2 * (tCatalog[o] - tCatalog[c]) <= Routes!Tolerance(tNode.declared)
      BY <1>4, <3>2, <3>5, <3>6 DEF Routes!Gap
    <3>8. tCatalog[c] >= IF tNode.declared = "low" /\ tNode.mechanical THEN 60 ELSE 80
      BY <3>1, <3>2, <3>3, <3>4
    <3>9. QED
      BY <1>3, <2>1, <3>7, <3>8, SameGates DEF Routes!QualityKept, Routes!Tolerance
  <2>7. Routes!RoomAlone'
    <3>1. q.pass = "deferred" => Routes!Able(c, q) /\ (Routes!IsClaude(c) => TFamily[c] \in tFamilies)
      BY <1>5 DEF Routes!Able
    <3>2. QED
      BY <1>3, <2>1, <3>1, SameGates DEF Routes!RoomAlone, Routes!IsClaude
  <2>8. Routes!VotesHeard'
    <3>1. ASSUME NEW o \in q.band, Routes!Beats(o, c), Routes!Compared(q), Routes!Tierings(q) # {}
          PROVE  Routes!Preference(c, q) < Routes!Preference(o, q) \/ Routes!Edge(c, q) < Routes!Edge(o, q)
      BY <1>1, <1>2, <3>1, FirstHeard
    <3>2. QED
      BY <1>3, <2>1, <3>1, SameVotes DEF Routes!VotesHeard
  <2>9. QED
    BY <1>3, <1>4, <1>6, <2>1, <2>2, <2>3, <2>4, <2>5, <2>6, <2>7, <2>8, ConstantTypes, NoCall
    DEF RoutingInv, NodeInv, ChosenInv, Routes!RoutesHonest
<1>10. QED
  BY <1>6, <1>8, <1>9 DEF Routes!Stage

LEMMA OldNames ==
    ASSUME NEW w
    PROVE  /\ \A i \in DOMAIN Routes!OldFamilies(w) : Routes!OldFamilies(w)[i] \in Routes!ClaudeFamily
           /\ Routes!OldCodex(w) \in {"spark", "luna", "terra"}
<1>1. \A i \in DOMAIN Routes!OldFamilies(w) : Routes!OldFamilies(w)[i] \in Routes!ClaudeFamily
  BY DEF Routes!OldFamilies, Routes!ClaudeFamily
<1>2. Routes!OldCodex(w) \in {"spark", "luna", "terra"}
  BY DEF Routes!OldCodex
<1>3. QED
  BY <1>1, <1>2

LEMMA RouteOldStep ==
    ASSUME RoutingInv, Routes!RouteOld
    PROVE  RoutingInv'
<1> DEFINE old == [Routes!Idle EXCEPT !.pass = "old"]
<1>1. /\ UNCHANGED <<tContract, tCatalog, tEvidence, tQuota, tFresh, tFamilies, tNode>>
      /\ tAt \in Routes!Stage /\ Routes!TypeOK /\ tContract \in TContracts
  BY DEF Routes!RouteOld, RoutingInv, Routes!TypeOK
<1>2. PICK c : /\ tAt' = Routes!After(tAt) /\ tCall' = Routes!Idle
               /\ tRoutes' = [tRoutes EXCEPT ![tAt] = c, !.by = IF tAt = "worker" THEN old ELSE @]
               /\ tAt = "planner" => c = tContract.planner
               /\ tAt = "verifier" => c = tContract.verifier
               /\ tAt = "worker" => \/ c \in tFamilies /\ c \in Routes!ClaudeFamily /\ tNode.claude
                                    \/ c \in {"spark", "luna", "terra"}
  <2>1. CASE tAt # "worker"
    <3>1. Routes!Chosen(IF tAt = "verifier" THEN tContract.verifier ELSE tContract.planner, Routes!Idle)
      BY <2>1 DEF Routes!RouteOld
    <3>2. QED
      BY <2>1, <3>1 DEF Routes!Chosen
  <2>2. CASE tAt = "worker"
    <3>1. \/ \E i \in DOMAIN Routes!OldFamilies(tNode) :
                Routes!OldFamilies(tNode)[i] \in tFamilies /\ tNode.claude
                /\ Routes!Chosen(Routes!OldFamilies(tNode)[i], old)
          \/ Routes!Chosen(Routes!OldCodex(tNode), old)
      BY <2>2 DEF Routes!RouteOld
    <3>2. QED
      BY <2>2, <3>1, OldNames DEF Routes!Chosen
  <2>3. QED
    BY <2>1, <2>2
<1>3. c \in Routes!Capability
  BY <1>1, <1>2, ConstantTypes DEF Routes!Stage, Routes!ClaudeFamily
<1>4. old \in Routes!Call /\ old.pass = "old" /\ old.band = {}
  BY IdleType DEF Routes!Idle
<1> HIDE DEF old
<1>5. Routes!RoutesHonest
  BY DEF RoutingInv
<1>6. Routes!RoleFor("worker", tNode)' = Routes!RoleFor("worker", tNode)
  BY <1>1 DEF Routes!RoleFor
<1>7. CASE tAt \in {"planner", "verifier"}
  <2>1. /\ tRoutes'.worker = tRoutes.worker /\ tRoutes'.by = tRoutes.by
        /\ tAt = "planner" => tRoutes'.planner = c /\ tRoutes'.verifier = tRoutes.verifier
        /\ tAt = "verifier" => tRoutes'.verifier = c /\ tRoutes'.planner = tRoutes.planner
        /\ tRoutes' \in [planner : Routes!Capability \cup {"none"}, worker : Routes!Capability \cup {"none"},
                         verifier : Routes!Capability \cup {"none"}, by : Routes!Call]
    BY <1>1, <1>2, <1>3, <1>7 DEF Routes!TypeOK
  <2>2. /\ tAt = "planner" => tAt' = "planning" /\ tRoutes.worker = "none"
        /\ tAt = "verifier" => tAt' = "done"
    BY <1>2, <1>7 DEF Routes!After, RoutingInv, ChosenInv
  <2>3. Routes!TypeOK'
    BY <1>1, <1>2, <1>7, <2>1, <2>2, IdleType DEF Routes!TypeOK, Routes!Stage
  <2>4. Routes!AskedKept'
    <3>1. Routes!AskedKept
      BY <1>5 DEF Routes!RoutesHonest
    <3>2. CASE tAt = "planner"
      BY <1>1, <1>2, <1>6, <2>1, <3>1, <3>2 DEF Routes!AskedKept
    <3>3. CASE tAt = "verifier"
      BY <1>1, <1>2, <1>6, <2>1, <3>1, <3>3 DEF Routes!AskedKept
    <3>4. QED
      BY <1>7, <3>2, <3>3
  <2>5. PICK by : tRoutes.by = by
    OBVIOUS
  <2>6. tRoutes'.by = by
    BY <2>1, <2>5
  <2>7. Routes!ClaudeAdmitted'
    BY <1>1, <1>5, <2>1 DEF Routes!RoutesHonest, Routes!ClaudeAdmitted, Routes!IsClaude
  <2>8. Routes!QualityKept'
    BY <1>1, <1>5, <2>1, <2>5, <2>6, SameGates DEF Routes!RoutesHonest, Routes!QualityKept, Routes!Tolerance
  <2>9. Routes!RoomAlone'
    BY <1>1, <1>5, <2>1, <2>5, <2>6, SameGates DEF Routes!RoutesHonest, Routes!RoomAlone, Routes!IsClaude
  <2>10. Routes!VotesHeard'
    BY <1>1, <1>5, <2>1, <2>5, <2>6, SameVotes DEF Routes!RoutesHonest, Routes!VotesHeard
  <2>11. ChosenInv'
    BY <1>2, <1>7, <2>1, <2>2 DEF RoutingInv, ChosenInv
  <2>12. QED
    BY <1>1, <1>2, <2>3, <2>4, <2>7, <2>8, <2>9, <2>10, <2>11, NoCall
    DEF RoutingInv, NodeInv, Routes!RoutesHonest
<1>8. CASE tAt = "worker"
  <2>1. /\ tRoutes'.worker = c /\ tRoutes'.by = old /\ tRoutes'.verifier = tRoutes.verifier
        /\ tRoutes'.planner = tRoutes.planner
        /\ tRoutes' \in [planner : Routes!Capability \cup {"none"}, worker : Routes!Capability \cup {"none"},
                         verifier : Routes!Capability \cup {"none"}, by : Routes!Call]
    BY <1>1, <1>2, <1>3, <1>4, <1>8 DEF Routes!TypeOK
  <2>2. tAt' = "verifier"
    BY <1>2, <1>8 DEF Routes!After
  <2>3. Routes!TypeOK'
    BY <1>1, <1>2, <2>1, <2>2, IdleType DEF Routes!TypeOK, Routes!Stage
  <2>4. \/ c \in tFamilies /\ c \in Routes!ClaudeFamily /\ tNode.claude /\ TFamily[c] = c
        \/ ~Routes!IsClaude(c) /\ TFamily[c] \notin Routes!ControlFamily
    BY <1>2, <1>8, ConstantTypes DEF Routes!IsClaude, Routes!ClaudeFamily, Routes!ControlFamily
  <2>5. Routes!AskedKept'
    BY <1>1, <1>5, <2>1, <2>4
    DEF Routes!RoutesHonest, Routes!AskedKept, Routes!ClaudeFamily, Routes!ControlFamily
  <2>6. Routes!ClaudeAdmitted'
    BY <1>1, <1>4, <2>1, <2>4 DEF RoutingInv, NodeInv, Routes!ClaudeAdmitted, Routes!IsClaude
  <2>7. Routes!QualityKept' /\ Routes!RoomAlone' /\ Routes!VotesHeard'
    BY <1>4, <2>1 DEF Routes!QualityKept, Routes!RoomAlone, Routes!VotesHeard
  <2>8. QED
    BY <1>1, <1>2, <1>3, <2>1, <2>2, <2>3, <2>5, <2>6, <2>7, ConstantTypes, NoCall
    DEF RoutingInv, NodeInv, ChosenInv, Routes!RoutesHonest
<1>9. QED
  BY <1>1, <1>7, <1>8 DEF Routes!Stage

LEMMA RoutingStep == RoutingInv /\ [Routes!Next]_Routes!vars => RoutingInv'
<1> SUFFICES ASSUME RoutingInv, [Routes!Next]_Routes!vars
             PROVE  RoutingInv'
  OBVIOUS
<1>1. CASE UNCHANGED Routes!vars
  <2>1. UNCHANGED <<tContract, tCatalog, tEvidence, tQuota, tFresh, tFamilies, tAt, tNode, tCall, tRoutes>>
    BY <1>1 DEF Routes!vars
  <2>2. Routes!TypeOK'
    BY <2>1 DEF RoutingInv, Routes!TypeOK
  <2>3. QED
    BY <2>1, <2>2, SameCall, SameChoice DEF RoutingInv, NodeInv, ChosenInv
<1>2. QED
  BY <1>1, SubmissionStep, AgeStep, AskStep, ChooseStep, DeferStep, ControlFallbackStep, RefuseStep,
     RouteOldStep, PlanStep DEF Routes!Next

LEMMA OutdatedRequest ==
    ASSUME Routes!TypeOK, ~tFresh, NEW q \in Routes!Call, q.zone = -1
    PROVE  \A c \in Routes!Judged(q).admitted : ~Routes!IsClaude(c)
<1>1. DOMAIN tCatalog \subseteq Routes!Capability
  BY ConstantTypes DEF Routes!TypeOK
<1>2. PICK j : j = Routes!Judged(q)
  OBVIOUS
<1>3. j.admitted = {c \in DOMAIN tCatalog : Routes!Gates(c, j) = {}} /\ j.zone = -1
  BY <1>1, <1>2, JudgedFields
<1>4. \A c \in j.admitted : Routes!IsClaude(c) => -1 >= IF TFamily[c] = "sonnet" THEN 2 ELSE 3
  BY <1>3, AdmittedFields
<1>5. QED
  BY <1>2, <1>4

LEMMA CurrentStep == RoutingInv /\ [Routes!Next]_Routes!vars => [Routes!OnlyCurrentAdmits]_Routes!vars
<1> SUFFICES ASSUME RoutingInv, Routes!Next, ~tFresh, tCall' # tCall, tCall'.pass # "deferred"
             PROVE  \A c \in tCall'.admitted : ~Routes!IsClaude(c)
  BY DEF Routes!OnlyCurrentAdmits
<1>1. Routes!Idle.admitted = {} /\ Routes!TypeOK
  BY DEF Routes!Idle, RoutingInv
<1>2. CASE tCall' = Routes!Idle
  BY <1>1, <1>2
<1>3. CASE Routes!Ask
  <2>1. PICK active \in TBusy :
            tCall' = Routes!Judged(Routes!Request("first", Routes!RoleFor(tAt, Routes!Strategy), Routes!Strategy, active))
    BY <1>3 DEF Routes!Ask
  <2>2. Routes!Strategy \in Routes!Work /\ active \in Routes!Active
    BY <1>1, ConstantTypes, DefaultType DEF Routes!Strategy, Routes!TypeOK
  <2>3. Routes!RoleFor(tAt, Routes!Strategy) \in {"planner", "verifier", "worker", "challenge"}
    BY <1>3 DEF Routes!Ask, Routes!Stage, Routes!RoleFor
  <2>4. PICK q : q = Routes!Request("first", Routes!RoleFor(tAt, Routes!Strategy), Routes!Strategy, active)
    OBVIOUS
  <2>5. q \in Routes!Call /\ q.zone = -1
    BY <1>1, <2>2, <2>3, <2>4, RequestType, RequestFields, ZoneTypes DEF Routes!TypeOK
  <2>6. QED
    BY <1>1, <2>1, <2>4, <2>5, OutdatedRequest
<1>4. CASE Routes!Fallback
  <2>1. PICK q : q = Routes!Request("control", "control", tNode, tCall.active)
    OBVIOUS
  <2>2. q \in Routes!Call /\ q.zone = -1
    BY <1>1, <2>1, RequestType, RequestFields, ZoneTypes DEF Routes!TypeOK, Routes!Call
  <2>3. tCall' = Routes!Judged(q)
    BY <1>4, <2>1 DEF Routes!Fallback
  <2>4. QED
    BY <1>1, <2>2, <2>3, OutdatedRequest
<1>5. CASE Routes!Defer
  <2> DEFINE q == [tCall EXCEPT !.pass = "deferred", !.active.codex = 0, !.shared.active = 0]
  <2>1. q \in Routes!Call /\ q.pass = "deferred"
    BY <1>1 DEF Routes!TypeOK, Routes!Call, Routes!Active
  <2>2. tCall' = Routes!Judged(q)
    BY <1>5 DEF Routes!Defer
  <2> HIDE DEF q
  <2>3. tCall'.pass = "deferred"
    BY <1>1, <2>1, <2>2, ConstantTypes, JudgedFields DEF Routes!TypeOK
  <2>4. QED
    BY <2>3
<1>6. QED
  BY <1>2, <1>3, <1>4, <1>5
  DEF Routes!Next, Routes!Submit, Routes!Age, Routes!Choose, Routes!Chosen, Routes!Refuse, Routes!RouteOld,
      Routes!Plan

THEOREM RoutingHolds == Routes!Spec => []Routes!TypeOK /\ []Routes!RoutesHonest
    /\ [][Routes!OnlyCurrentAdmits]_Routes!vars
<1>1. RoutingInv => Routes!TypeOK /\ Routes!RoutesHonest
  BY DEF RoutingInv
<1>2. QED
  BY <1>1, RoutingInit, RoutingStep, CurrentStep, PTL DEF Routes!Spec

-----------------------------------------------------------------------------
(* LockfileHandoff, twice: LockfileHandoffProofs for siblings, and for overlays.  *)

HandoffProofs == INSTANCE LockfileHandoffProofs WITH
    Request <- HRequest, Node <- HNode["handoff"], Target <- HTarget["handoff"],
    MaxAttempt <- HMaxAttempt["handoff"], MaxAncestor <- HMaxAncestor["handoff"],
    MaxSource <- HMaxSource["handoff"], Disturbance <- HDisturbance["handoff"],
    Amendments <- HAmendments["handoff"],
    task <- hTask, node <- hNode, ancestor <- hAncestor, busy <- hBusy, fenced <- hFenced,
    hand <- hHand, log <- hLog, run <- hRun, amended <- hAmended

\* The instance of the proofs and that of Operations are of the same formulas.
LEMMA HandoffSame ==
    /\ HandoffProofs!HandoffAssumption <=> Handoff!HandoffAssumption
    /\ HandoffProofs!Init <=> Handoff!Init
    /\ HandoffProofs!TypeOK <=> Handoff!TypeOK
    /\ HandoffProofs!LeaseExclusive <=> Handoff!LeaseExclusive
    /\ HandoffProofs!vars = Handoff!vars
       /\ ([HandoffProofs!Next]_(HandoffProofs!vars) <=> [Handoff!Next]_(Handoff!vars))
    /\ [HandoffProofs!KeepsFence]_(HandoffProofs!vars) <=> [Handoff!KeepsFence]_(Handoff!vars)
  BY DEF
      HandoffProofs!HandoffAssumption, HandoffProofs!vars, HandoffProofs!None,
      HandoffProofs!NoLease, HandoffProofs!NoRun, HandoffProofs!Refused,
      HandoffProofs!Terminal, HandoffProofs!Base, HandoffProofs!Init, HandoffProofs!Active,
      HandoffProofs!RunningOwners, HandoffProofs!Durable, HandoffProofs!Eligible,
      HandoffProofs!Lineage, HandoffProofs!SourceReadable, HandoffProofs!Source,
      HandoffProofs!Preflight, HandoffProofs!Admits, HandoffProofs!Goes, HandoffProofs!Ends,
      HandoffProofs!Apply, HandoffProofs!NoOtherActive, HandoffProofs!Unchanged,
      HandoffProofs!Reserve, HandoffProofs!Confirms, HandoffProofs!RepairFails,
      HandoffProofs!Repair, HandoffProofs!OwnLease, HandoffProofs!PublishReady,
      HandoffProofs!Released, HandoffProofs!Fail, HandoffProofs!Cancel,
      HandoffProofs!Reconcile, HandoffProofs!Restart, HandoffProofs!ReadyOf,
      HandoffProofs!Importers, HandoffProofs!After, HandoffProofs!ReplayPoint,
      HandoffProofs!Valid, HandoffProofs!ManifestsHold, HandoffProofs!Overlay,
      HandoffProofs!Replay, HandoffProofs!OwnerAdvanced, HandoffProofs!Records,
      HandoffProofs!Fresh, HandoffProofs!Refreshed, HandoffProofs!Reproduced,
      HandoffProofs!Recorded, HandoffProofs!Composed, HandoffProofs!Queue,
      HandoffProofs!Claimable, HandoffProofs!Claim, HandoffProofs!Settle,
      HandoffProofs!RefreshAncestor, HandoffProofs!Rebinds, HandoffProofs!Amend,
      HandoffProofs!CancelTask, HandoffProofs!Others, HandoffProofs!Fence,
      HandoffProofs!Drift, HandoffProofs!Next, HandoffProofs!TypeOK,
      HandoffProofs!LeaseExclusive, HandoffProofs!KeepsFence, HandoffProofs!ToSet,
      HandoffProofs!FoldLeft, HandoffProofs!MapThenFoldSet, HandoffProofs!Max,
      Handoff!HandoffAssumption, Handoff!vars, Handoff!None, Handoff!NoLease, Handoff!NoRun,
      Handoff!Refused, Handoff!Terminal, Handoff!Base, Handoff!Init, Handoff!Active,
      Handoff!RunningOwners, Handoff!Durable, Handoff!Eligible, Handoff!Lineage,
      Handoff!SourceReadable, Handoff!Source, Handoff!Preflight, Handoff!Admits,
      Handoff!Goes, Handoff!Ends, Handoff!Apply, Handoff!NoOtherActive, Handoff!Unchanged,
      Handoff!Reserve, Handoff!Confirms, Handoff!RepairFails, Handoff!Repair,
      Handoff!OwnLease, Handoff!PublishReady, Handoff!Released, Handoff!Fail,
      Handoff!Cancel, Handoff!Reconcile, Handoff!Restart, Handoff!ReadyOf,
      Handoff!Importers, Handoff!After, Handoff!ReplayPoint, Handoff!Valid,
      Handoff!ManifestsHold, Handoff!Overlay, Handoff!Replay, Handoff!OwnerAdvanced,
      Handoff!Records, Handoff!Fresh, Handoff!Refreshed, Handoff!Reproduced,
      Handoff!Recorded, Handoff!Composed, Handoff!Queue, Handoff!Claimable, Handoff!Claim,
      Handoff!Settle, Handoff!RefreshAncestor, Handoff!Rebinds, Handoff!Amend,
      Handoff!CancelTask, Handoff!Others, Handoff!Fence, Handoff!Drift, Handoff!Next,
      Handoff!TypeOK, Handoff!LeaseExclusive, Handoff!KeepsFence, Handoff!ToSet,
      Handoff!FoldLeft, Handoff!MapThenFoldSet, Handoff!Max

\* What LockfileHandoffProofs shows of every handoff, of this one.
LEMMA HandoffHolds ==
    Handoff!Spec => /\ [](Handoff!TypeOK /\ Handoff!LeaseExclusive)
                  /\ [][Handoff!KeepsFence]_(Handoff!vars)
<1>1. HandoffProofs!HandoffAssumption
  BY OperationsAssumption, HandoffSame
<1>2. Handoff!Spec => HandoffProofs!Spec
  BY HandoffSame, PTL DEF Handoff!Spec, HandoffProofs!Spec
<1>3. Handoff!Spec => [](Handoff!TypeOK /\ Handoff!LeaseExclusive)
  BY <1>1, <1>2, HandoffSame, HandoffProofs!HandoffTypeCorrect, HandoffProofs!OneWriter, PTL
<1>4. Handoff!Spec => [][Handoff!KeepsFence]_(Handoff!vars)
  BY <1>1, <1>2, HandoffSame, HandoffProofs!RunnersAreFenced, PTL
<1> QED
  BY <1>3, <1>4, PTL

ReplaysProofs == INSTANCE LockfileHandoffProofs WITH
    Request <- HRequest, Node <- HNode["replays"], Target <- HTarget["replays"],
    MaxAttempt <- HMaxAttempt["replays"], MaxAncestor <- HMaxAncestor["replays"],
    MaxSource <- HMaxSource["replays"], Disturbance <- HDisturbance["replays"],
    Amendments <- HAmendments["replays"],
    task <- hTask, node <- hNode, ancestor <- hAncestor, busy <- hBusy, fenced <- hFenced,
    hand <- hHand, log <- hLog, run <- hRun, amended <- hAmended

\* The instance of the proofs and that of Operations are of the same formulas.
LEMMA ReplaysSame ==
    /\ ReplaysProofs!HandoffAssumption <=> Replays!HandoffAssumption
    /\ ReplaysProofs!Init <=> Replays!Init
    /\ ReplaysProofs!TypeOK <=> Replays!TypeOK
    /\ ReplaysProofs!LeaseExclusive <=> Replays!LeaseExclusive
    /\ ReplaysProofs!vars = Replays!vars
       /\ ([ReplaysProofs!Next]_(ReplaysProofs!vars) <=> [Replays!Next]_(Replays!vars))
    /\ [ReplaysProofs!KeepsFence]_(ReplaysProofs!vars) <=> [Replays!KeepsFence]_(Replays!vars)
  BY DEF
      ReplaysProofs!HandoffAssumption, ReplaysProofs!vars, ReplaysProofs!None,
      ReplaysProofs!NoLease, ReplaysProofs!NoRun, ReplaysProofs!Refused,
      ReplaysProofs!Terminal, ReplaysProofs!Base, ReplaysProofs!Init, ReplaysProofs!Active,
      ReplaysProofs!RunningOwners, ReplaysProofs!Durable, ReplaysProofs!Eligible,
      ReplaysProofs!Lineage, ReplaysProofs!SourceReadable, ReplaysProofs!Source,
      ReplaysProofs!Preflight, ReplaysProofs!Admits, ReplaysProofs!Goes, ReplaysProofs!Ends,
      ReplaysProofs!Apply, ReplaysProofs!NoOtherActive, ReplaysProofs!Unchanged,
      ReplaysProofs!Reserve, ReplaysProofs!Confirms, ReplaysProofs!RepairFails,
      ReplaysProofs!Repair, ReplaysProofs!OwnLease, ReplaysProofs!PublishReady,
      ReplaysProofs!Released, ReplaysProofs!Fail, ReplaysProofs!Cancel,
      ReplaysProofs!Reconcile, ReplaysProofs!Restart, ReplaysProofs!ReadyOf,
      ReplaysProofs!Importers, ReplaysProofs!After, ReplaysProofs!ReplayPoint,
      ReplaysProofs!Valid, ReplaysProofs!ManifestsHold, ReplaysProofs!Overlay,
      ReplaysProofs!Replay, ReplaysProofs!OwnerAdvanced, ReplaysProofs!Records,
      ReplaysProofs!Fresh, ReplaysProofs!Refreshed, ReplaysProofs!Reproduced,
      ReplaysProofs!Recorded, ReplaysProofs!Composed, ReplaysProofs!Queue,
      ReplaysProofs!Claimable, ReplaysProofs!Claim, ReplaysProofs!Settle,
      ReplaysProofs!RefreshAncestor, ReplaysProofs!Rebinds, ReplaysProofs!Amend,
      ReplaysProofs!CancelTask, ReplaysProofs!Others, ReplaysProofs!Fence,
      ReplaysProofs!Drift, ReplaysProofs!Next, ReplaysProofs!TypeOK,
      ReplaysProofs!LeaseExclusive, ReplaysProofs!KeepsFence, ReplaysProofs!ToSet,
      ReplaysProofs!FoldLeft, ReplaysProofs!MapThenFoldSet, ReplaysProofs!Max,
      Replays!HandoffAssumption, Replays!vars, Replays!None, Replays!NoLease, Replays!NoRun,
      Replays!Refused, Replays!Terminal, Replays!Base, Replays!Init, Replays!Active,
      Replays!RunningOwners, Replays!Durable, Replays!Eligible, Replays!Lineage,
      Replays!SourceReadable, Replays!Source, Replays!Preflight, Replays!Admits,
      Replays!Goes, Replays!Ends, Replays!Apply, Replays!NoOtherActive, Replays!Unchanged,
      Replays!Reserve, Replays!Confirms, Replays!RepairFails, Replays!Repair,
      Replays!OwnLease, Replays!PublishReady, Replays!Released, Replays!Fail,
      Replays!Cancel, Replays!Reconcile, Replays!Restart, Replays!ReadyOf,
      Replays!Importers, Replays!After, Replays!ReplayPoint, Replays!Valid,
      Replays!ManifestsHold, Replays!Overlay, Replays!Replay, Replays!OwnerAdvanced,
      Replays!Records, Replays!Fresh, Replays!Refreshed, Replays!Reproduced,
      Replays!Recorded, Replays!Composed, Replays!Queue, Replays!Claimable, Replays!Claim,
      Replays!Settle, Replays!RefreshAncestor, Replays!Rebinds, Replays!Amend,
      Replays!CancelTask, Replays!Others, Replays!Fence, Replays!Drift, Replays!Next,
      Replays!TypeOK, Replays!LeaseExclusive, Replays!KeepsFence, Replays!ToSet,
      Replays!FoldLeft, Replays!MapThenFoldSet, Replays!Max

\* What LockfileHandoffProofs shows of every handoff, of this one.
LEMMA ReplaysHolds ==
    Replays!Spec => /\ [](Replays!TypeOK /\ Replays!LeaseExclusive)
                  /\ [][Replays!KeepsFence]_(Replays!vars)
<1>1. ReplaysProofs!HandoffAssumption
  BY OperationsAssumption, ReplaysSame
<1>2. Replays!Spec => ReplaysProofs!Spec
  BY ReplaysSame, PTL DEF Replays!Spec, ReplaysProofs!Spec
<1>3. Replays!Spec => [](Replays!TypeOK /\ Replays!LeaseExclusive)
  BY <1>1, <1>2, ReplaysSame, ReplaysProofs!HandoffTypeCorrect, ReplaysProofs!OneWriter, PTL
<1>4. Replays!Spec => [][Replays!KeepsFence]_(Replays!vars)
  BY <1>1, <1>2, ReplaysSame, ReplaysProofs!RunnersAreFenced, PTL
<1> QED
  BY <1>3, <1>4, PTL

-----------------------------------------------------------------------------
(* The composition. *)

\* Which handoff moves is chosen once.
Overlays == part = "replays"

LEMMA OneHandoff ==
    /\ Spec /\ Overlays => []Overlays
    /\ Spec /\ ~Overlays => []~Overlays
<1>1. Overlays /\ [Next]_vars => Overlays'
  BY DEF Next, vars, Overlays
<1>2. ~Overlays /\ [Next]_vars => ~Overlays'
  BY DEF Next, vars, Overlays
<1> QED
  BY <1>1, <1>2, PTL DEF Spec

\* Whatever part moves, what the others see is a behaviour of their own that stands still.
LEMMA PartsBehave ==
    /\ Spec /\ ~Overlays => Handoff!Spec
    /\ Spec /\ Overlays => Replays!Spec
    /\ Spec => Upgrade!Spec
    /\ Spec => Quota!Spec
    /\ Spec => Admits!Spec
    /\ Spec => Attempts!Spec
    /\ Spec => Readiness!Spec
    /\ Spec => Routes!Spec
<1>1. Init => /\ ~Overlays => Handoff!Init
              /\ Overlays => Replays!Init
              /\ Upgrade!Init /\ Quota!Init /\ Admits!Init /\ Attempts!Init /\ Readiness!Init
              /\ Routes!Init
  BY DEF Init, Overlays
<1>2. [Next]_vars => /\ ~Overlays => [Handoff!Next]_(Handoff!vars)
                     /\ Overlays => [Replays!Next]_(Replays!vars)
  BY DEF Next, vars, Overlays, handoffs, Handoff!vars, Replays!vars
<1>3. [Next]_vars => [Upgrade!Next]_(Upgrade!vars)
  BY DEF Next, vars, upgrades, Upgrade!vars
<1>4. [Next]_vars => [Quota!Next]_(Quota!vars)
  BY DEF Next, vars, quotas, Quota!vars
<1>5. [Next]_vars => [Admits!Next]_(Admits!vars)
  BY DEF Next, vars, claims, Admits!vars
<1>6. [Next]_vars => [Attempts!Next]_(Attempts!vars)
  BY DEF Next, vars, attempts, Attempts!vars
<1>7. [Next]_vars => [Readiness!Next]_(Readiness!vars)
  BY DEF Next, vars, assessments, Readiness!vars
<1>8. [Next]_vars => [Routes!Next]_(Routes!vars)
  BY DEF Next, vars, submissions, Routes!vars
<1>9. (Spec /\ ~Overlays => Handoff!Spec) /\ (Spec /\ Overlays => Replays!Spec)
  BY <1>1, <1>2, OneHandoff, PTL DEF Spec, Handoff!Spec, Replays!Spec
<1>10. (Spec => Upgrade!Spec) /\ (Spec => Quota!Spec)
  BY <1>1, <1>3, <1>4, PTL DEF Spec, Upgrade!Spec, Quota!Spec
<1>11. (Spec => Admits!Spec) /\ (Spec => Attempts!Spec)
  BY <1>1, <1>5, <1>6, PTL DEF Spec, Admits!Spec, Attempts!Spec
<1>12. (Spec => Readiness!Spec) /\ (Spec => Routes!Spec)
  BY <1>1, <1>7, <1>8, PTL DEF Spec, Readiness!Spec, Routes!Spec
<1> QED
  BY <1>9, <1>10, <1>11, <1>12, PTL

\* A step of a part that changes nothing of it changes nothing.
LEMMA PartMoves ==
    ASSUME [Next]_vars
    PROVE  /\ part \in {"handoff", "replays"} /\ UNCHANGED handoffs => UNCHANGED vars
           /\ part = "upgrade" /\ UNCHANGED upgrades => UNCHANGED vars
           /\ part = "quota" /\ UNCHANGED quotas => UNCHANGED vars
           /\ part = "admission" /\ UNCHANGED claims => UNCHANGED vars
           /\ part \in Attempted /\ UNCHANGED attempts => UNCHANGED vars
           /\ part = "routing" /\ UNCHANGED submissions => UNCHANGED vars
  BY DEF Next, vars, Attempted

\* What holds of the handoff that moves.
LEMMA HandoffsHold ==
    Spec => /\ [](part = "handoff" => Handoff!TypeOK /\ Handoff!LeaseExclusive)
            /\ [](part = "replays" => Replays!TypeOK /\ Replays!LeaseExclusive)
<1>1. /\ Overlays => Replays!TypeOK /\ Replays!LeaseExclusive
      /\ ~Overlays => Handoff!TypeOK /\ Handoff!LeaseExclusive
      => /\ part = "handoff" => Handoff!TypeOK /\ Handoff!LeaseExclusive
         /\ part = "replays" => Replays!TypeOK /\ Replays!LeaseExclusive
  BY DEF Overlays
<1> QED
  BY <1>1, OneHandoff, PartsBehave, HandoffHolds, ReplaysHolds, PTL

\* Handoffs, upgrades, the quota, claims, attempts, reports on a worktree and what a submission
\* chooses keep to their types.
THEOREM OperationsTypeCorrect == Spec => []TypeOK
<1>1. Spec => [](Upgrade!TypeOK /\ Quota!TypeOK /\ Admits!TypeOK /\ Attempts!TypeOK /\ Readiness!TypeOK
      /\ Routes!TypeOK)
  BY PartsBehave, UpgradeHolds, QuotaHolds, AdmissionHolds, DispatchHolds, ReadinessHolds, RoutingHolds, PTL
<1>2. /\ part = "handoff" => Handoff!TypeOK /\ Handoff!LeaseExclusive
      /\ part = "replays" => Replays!TypeOK /\ Replays!LeaseExclusive
      /\ Upgrade!TypeOK /\ Quota!TypeOK /\ Admits!TypeOK /\ Attempts!TypeOK /\ Readiness!TypeOK
      /\ Routes!TypeOK
      => TypeOK
  BY DEF TypeOK
<1> QED
  BY <1>1, <1>2, HandoffsHold, PTL

\* Whoever else claims, retries, refreshes or restarts: a lease has the repository for itself,
\* workers that write the same paths are not started together, running attempts of Claude stay
\* within its units, and no attempt is started beside an executor nobody knows the end of
\* (lockfile_handoff.py, store.py: claim_ready_node, service.py).
THEOREM OperationsExclude == Spec => []Exclusive
<1>1. Spec => [](Admits!AdmissionSafe /\ Attempts!KnownEnd)
  BY PartsBehave, AdmissionHolds, DispatchHolds, PTL
<1>2. /\ part = "handoff" => Handoff!TypeOK /\ Handoff!LeaseExclusive
      /\ part = "replays" => Replays!TypeOK /\ Replays!LeaseExclusive
      /\ Admits!AdmissionSafe /\ Attempts!KnownEnd
      => Exclusive
  BY DEF Exclusive
<1> QED
  BY <1>1, <1>2, HandoffsHold, PTL

\* After any appends, upgrades, crashes and lost artifacts: the cache has the versions its
\* receipts and the registry name, claims are admitted on the observation that counts, evidence
\* was obtained for the inputs it is stored under, a worktree that is called ready is, and who
\* was chosen may be: asked for, consented to, good enough, and beaten by nobody who might have
\* been (plugin_cache_upgrade.py, store.py:15357, execution_readiness.py, routing_v3.py).
THEOREM NothingGoesStale == Spec => []NothingStale
<1>1. Spec => [](Upgrade!CacheConsistent /\ Quota!AdmissionCurrent /\ Attempts!EvidenceSound
      /\ Readiness!ReadinessHonest
              /\ Routes!RoutesHonest)
  BY PartsBehave, UpgradeHolds, QuotaHolds, DispatchHolds, ReadinessHolds, RoutingHolds, PTL
<1>2. /\ Upgrade!CacheConsistent /\ Quota!AdmissionCurrent /\ Attempts!EvidenceSound
         /\ Readiness!ReadinessHonest
      /\ Routes!RoutesHonest
      => NothingStale
  BY DEF NothingStale
<1> QED
  BY <1>1, <1>2, PTL

\* No step of any of them undoes what it must keep: a released lease, a version in use and a
\* refusal stay, a claim leaves nobody waiting for nothing, an attempt ends as what it did, and
\* Claude is admitted while what was observed counts.
THEOREM OperationsStepsSound == Spec => StepsSound
<1>1. /\ Overlays => [Replays!KeepsFence]_(Replays!vars)
      /\ ~Overlays => [Handoff!KeepsFence]_(Handoff!vars)
      => /\ part = "handoff" => [Handoff!KeepsFence]_(Handoff!vars)
         /\ part = "replays" => [Replays!KeepsFence]_(Replays!vars)
  BY DEF Overlays
<1>2. [Next]_vars /\ (part = "handoff" => [Handoff!KeepsFence]_(Handoff!vars))
      => (part = "handoff" => Handoff!KeepsFence) \/ UNCHANGED vars
  BY PartMoves DEF Handoff!vars, handoffs
<1>3. [Next]_vars /\ (part = "replays" => [Replays!KeepsFence]_(Replays!vars))
      => (part = "replays" => Replays!KeepsFence) \/ UNCHANGED vars
  BY PartMoves DEF Replays!vars, handoffs
<1>4. [Next]_vars /\ [Upgrade!KeepsVersions]_(Upgrade!vars)
      => (part = "upgrade" => Upgrade!KeepsVersions) \/ UNCHANGED vars
  BY PartMoves DEF Upgrade!vars, upgrades
<1>5. [Next]_vars /\ [Quota!KeepsRefusal]_(Quota!vars)
      => (part = "quota" => Quota!KeepsRefusal) \/ UNCHANGED vars
  BY PartMoves DEF Quota!vars, quotas
<1>6. [Next]_vars /\ [Admits!ClaimsSound]_(Admits!vars)
      => (part = "admission" => Admits!ClaimsSound) \/ UNCHANGED vars
  BY PartMoves DEF Admits!vars, claims
<1>7. [Next]_vars /\ [Attempts!EndsClear]_(Attempts!vars)
      => (part \in Attempted => Attempts!EndsClear) \/ UNCHANGED vars
  BY PartMoves DEF Attempts!vars, attempts
<1>8. [Next]_vars /\ [Routes!OnlyCurrentAdmits]_(Routes!vars)
      => (part = "routing" => Routes!OnlyCurrentAdmits) \/ UNCHANGED vars
  BY PartMoves DEF Routes!vars, submissions
<1>9. /\ [/\ part = "handoff" => Handoff!KeepsFence
          /\ part = "replays" => Replays!KeepsFence]_vars
      /\ [/\ part = "upgrade" => Upgrade!KeepsVersions
          /\ part = "quota" => Quota!KeepsRefusal]_vars
      /\ [/\ part = "admission" => Admits!ClaimsSound
          /\ part \in Attempted => Attempts!EndsClear
          /\ part = "routing" => Routes!OnlyCurrentAdmits]_vars
      => [/\ part = "handoff" => Handoff!KeepsFence
          /\ part = "replays" => Replays!KeepsFence
          /\ part = "upgrade" => Upgrade!KeepsVersions
          /\ part = "quota" => Quota!KeepsRefusal
          /\ part = "admission" => Admits!ClaimsSound
          /\ part \in Attempted => Attempts!EndsClear
          /\ part = "routing" => Routes!OnlyCurrentAdmits]_vars
  OBVIOUS
<1>10. Spec => [][/\ part = "handoff" => Handoff!KeepsFence
                  /\ part = "replays" => Replays!KeepsFence]_vars
  <2>1. Spec => [][/\ Overlays => [Replays!KeepsFence]_(Replays!vars)
                   /\ ~Overlays => [Handoff!KeepsFence]_(Handoff!vars)]_vars
    BY OneHandoff, PartsBehave, HandoffHolds, ReplaysHolds, PTL
  <2>2. /\ (part = "handoff" => Handoff!KeepsFence) \/ UNCHANGED vars
        /\ (part = "replays" => Replays!KeepsFence) \/ UNCHANGED vars
        => [/\ part = "handoff" => Handoff!KeepsFence
            /\ part = "replays" => Replays!KeepsFence]_vars
    OBVIOUS
  <2> QED
    BY <1>1, <1>2, <1>3, <2>1, <2>2, PTL DEF Spec
<1>11. Spec => [][/\ part = "upgrade" => Upgrade!KeepsVersions
                  /\ part = "quota" => Quota!KeepsRefusal]_vars
  <2>1. Spec => [][Upgrade!KeepsVersions]_(Upgrade!vars) /\ [][Quota!KeepsRefusal]_(Quota!vars)
    BY PartsBehave, UpgradeHolds, QuotaHolds, PTL
  <2>2. /\ (part = "upgrade" => Upgrade!KeepsVersions) \/ UNCHANGED vars
        /\ (part = "quota" => Quota!KeepsRefusal) \/ UNCHANGED vars
        => [/\ part = "upgrade" => Upgrade!KeepsVersions
            /\ part = "quota" => Quota!KeepsRefusal]_vars
    OBVIOUS
  <2> QED
    BY <1>4, <1>5, <2>1, <2>2, PTL DEF Spec
<1>12. Spec => [][/\ part = "admission" => Admits!ClaimsSound
                  /\ part \in Attempted => Attempts!EndsClear
                  /\ part = "routing" => Routes!OnlyCurrentAdmits]_vars
  <2>1. Spec => /\ [][Admits!ClaimsSound]_(Admits!vars)
                /\ [][Attempts!EndsClear]_(Attempts!vars)
                /\ [][Routes!OnlyCurrentAdmits]_(Routes!vars)
    BY PartsBehave, AdmissionHolds, DispatchHolds, RoutingHolds, PTL
  <2>2. /\ (part = "admission" => Admits!ClaimsSound) \/ UNCHANGED vars
        /\ (part \in Attempted => Attempts!EndsClear) \/ UNCHANGED vars
        /\ (part = "routing" => Routes!OnlyCurrentAdmits) \/ UNCHANGED vars
        => [/\ part = "admission" => Admits!ClaimsSound
            /\ part \in Attempted => Attempts!EndsClear
            /\ part = "routing" => Routes!OnlyCurrentAdmits]_vars
    OBVIOUS
  <2> QED
    BY <1>6, <1>7, <1>8, <2>1, <2>2, PTL DEF Spec
<1> QED
  BY <1>9, <1>10, <1>11, <1>12, PTL DEF StepsSound
=============================================================================
