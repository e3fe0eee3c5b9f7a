------------------------- MODULE PluginCacheUpgrade -------------------------
(***************************************************************************)
(* Upgrade of the installed plugin (plugin_cache_upgrade.py).  The cache   *)
(* holds a directory per version, and a host that runs may still use an    *)
(* old one; the native installation deletes them.  The upgrader therefore  *)
(* publishes a snapshot (pending), lets the native command work, restores  *)
(* what it deleted, attests the result and only then retires the snapshot. *)
(* It may be killed or interrupted at every step, and started twice.       *)
(***************************************************************************)
EXTENDS Naturals, FiniteSets, Functions

CONSTANTS
    Process,
    Version,        \* numbers; MaxUpgrades bounds the snapshots
    Content,        \* what a tree of files can be (its digest)
    MaxUpgrades

UpgradeAssumption ==
    /\ "nobody" \notin Process /\ MaxUpgrades \in Nat
    /\ \A v \in Version : v \in Nat /\ v > 0

VARIABLES
    origin,     \* the marketplace: "local" or "git"
    source,     \* the source tree it names: [version, content]
    installed,  \* the version the registry of the host has
    cache,      \* version -> content, of the directories there are
    pending,    \* the published snapshot: [id, versions, target]
    residue,    \* a staging directory was left behind
    retained,   \* the snapshots that were retired
    receipts,   \* id -> [status, target], of the receipts there are
    lock,       \* the process that holds the upgrade lock
    call        \* per process: [pc, phase, only, plan]

vars == <<origin, source, installed, cache, pending, residue, retained, receipts, lock, call>>
disk == <<source, installed, cache, pending, residue, retained, receipts>>

Tree == [version : Version, content : Content]
Nobody == "nobody"
NoTarget == [version |-> 0]
NoPending == [id |-> 0, versions |-> <<>>, target |-> NoTarget]
Idle == [pc |-> "idle", phase |-> "none", only |-> FALSE]

Entries(c) == {<<v, c[v]>> : v \in DOMAIN c}

Init ==
    /\ origin \in {"local", "git"}
    /\ source \in Tree /\ installed \in Version
    /\ \E vs \in SUBSET Version : installed \in vs /\ cache \in [vs -> Content]
    /\ pending = NoPending /\ residue = FALSE
    /\ retained = {} /\ receipts = <<>>
    /\ lock = Nobody /\ call = [p \in Process |-> Idle]

At(p, pc) == call[p].pc = pc
Goes(p, pc) == call' = [call EXCEPT ![p].pc = pc] /\ UNCHANGED lock
Turns(p, pc, phase) == call' = [call EXCEPT ![p].pc = pc, ![p].phase = phase] /\ UNCHANGED lock
Ends(p) == call' = [call EXCEPT ![p] = Idle] /\ lock' = Nobody

\* What becomes of a step that fails: an apply undoes itself, the repair of an interrupted
\* upgrade restores once more and gives up, anything else leaves the snapshot pending.
Raise(p) ==
    CASE call[p].phase = "apply"  -> Turns(p, "restore", "undo")
      [] call[p].phase = "repair" -> Turns(p, "restore", "giveup")
      [] OTHER                    -> Ends(p)

---------------------------------------------------------------------------
LockFreeMutant == TRUE
\* _exclusive_upgrade_lock does not wait: the second process is refused.
LockFree == lock = Nobody

\* safe_upgrade with apply (and recover_only).
Begin(p, only) ==
    /\ At(p, "idle") /\ LockFree
    /\ lock' = p
    /\ call' = [call EXCEPT ![p] = [only |-> only,
           pc |-> IF pending = NoPending THEN "check" ELSE "restore",
           phase |-> IF pending = NoPending THEN "none" ELSE "recover"]]
    /\ UNCHANGED <<origin, disk>>

\* _reject_prepublish_staging
Check(p) ==
    /\ At(p, "check")
    /\ IF residue \/ call[p].only THEN Ends(p) ELSE Turns(p, "inspect", "none")
    /\ UNCHANGED <<origin, disk>>

\* inspect_upgrade; what it read is the plan.
Inspect(p) ==
    /\ At(p, "inspect")
    /\ IF installed \notin DOMAIN cache \/ (origin = "local" /\ source.version = installed)
       THEN Ends(p)
       ELSE /\ call' = [call EXCEPT ![p] = [pc |-> "stage", phase |-> "none", only |-> FALSE,
                  plan |-> [versions |-> cache, installed |-> installed, source |-> source]]]
            /\ UNCHANGED lock
    /\ UNCHANGED <<origin, disk>>

\* _snapshot_cache: a staging directory is filled and renamed into place.
Stage(p) ==
    /\ At(p, "stage") /\ Cardinality(retained) < MaxUpgrades
    /\ IF pending # NoPending THEN Ends(p) /\ UNCHANGED residue
       ELSE residue' = TRUE /\ Goes(p, "publish")
    /\ UNCHANGED <<origin, source, installed, cache, pending, retained, receipts>>
Publish(p) ==
    /\ At(p, "publish")
    /\ residue' = FALSE
    /\ IF cache # call[p].plan.versions THEN Ends(p) /\ UNCHANGED pending
       ELSE /\ pending' = [id |-> Cardinality(retained) + 1, versions |-> call[p].plan.versions,
                           target |-> IF origin = "local" THEN call[p].plan.source ELSE NoTarget]
            /\ Turns(p, IF origin = "git" THEN "refresh" ELSE "target", "apply")
    /\ UNCHANGED <<origin, source, installed, cache, retained, receipts>>

\* codex plugin marketplace upgrade
Refresh(p) ==
    /\ At(p, "refresh")
    /\ source' \in Tree /\ Goes(p, "target")
    /\ UNCHANGED <<origin, installed, cache, pending, residue, retained, receipts>>

\* _set_pending_target: the exact target, before the native command.
SetPendingTarget(p) ==
    /\ At(p, "target")
    /\ IF pending = NoPending THEN Raise(p) /\ UNCHANGED pending
       ELSE /\ pending' = [pending EXCEPT !.target = source]
            /\ Goes(p, IF source.version = call[p].plan.installed THEN "restore" ELSE "native")
    /\ UNCHANGED <<origin, source, installed, cache, residue, retained, receipts>>

\* _native_add: codex plugin add deletes any of the directories and copies the source; it may
\* fail before or after either half, and it installs what the source is by now.
NativeAdd(p) ==
    /\ At(p, "native")
    /\ \E keep \in SUBSET (DOMAIN cache), copied, moved \in BOOLEAN :
          /\ cache' = [v \in keep \cup (IF copied THEN {source.version} ELSE {}) |->
                          IF copied /\ v = source.version THEN source.content ELSE cache[v]]
          /\ installed' = IF moved THEN source.version ELSE installed
          /\ IF copied /\ moved /\ source.version = pending.target.version
             THEN Goes(p, "restore") ELSE Raise(p)
    /\ UNCHANGED <<origin, source, pending, residue, retained, receipts>>

\* The first retained version that is not in the cache as it was.
Missing == {v \in DOMAIN pending.versions :
               v \notin DOMAIN cache \/ cache[v] # pending.versions[v]}

\* restore_pending_cache, one version at a time in the order of the receipt.
Restore(p) ==
    LET v == CHOOSE x \in Missing : \A y \in Missing : x <= y IN
    /\ At(p, "restore")
    /\ IF pending = NoPending THEN Raise(p) /\ UNCHANGED cache
       ELSE IF Missing = {} THEN Goes(p, "attest") /\ UNCHANGED cache
       ELSE IF v \in DOMAIN cache THEN Raise(p) /\ UNCHANGED cache
       ELSE /\ cache' = [x \in DOMAIN cache \cup {v} |->
                            IF x = v THEN pending.versions[v] ELSE cache[x]]
            /\ UNCHANGED <<lock, call>>
    /\ UNCHANGED <<origin, source, installed, pending, residue, retained, receipts>>

\* _attest_installed_cache, without and with what an apply or a repair expects.
Consistent == installed \in DOMAIN cache
IsExact(target) ==
    source = target /\ installed = target.version /\ cache[installed] = target.content

Attest(p) ==
    LET phase == call[p].phase IN
    /\ At(p, "attest")
    /\ IF Consistent /\ (phase \in {"apply", "repair"} => IsExact(pending.target))
       THEN IF phase = "giveup" THEN Ends(p) ELSE Goes(p, "receipt")
       ELSE IF phase = "recover" /\ pending.target # NoTarget THEN Turns(p, "native", "repair")
       ELSE Raise(p)
    /\ UNCHANGED <<origin, disk>>

\* _finish_pending: the receipt first, then the snapshot is renamed.
StatusOf(p) ==
    CASE call[p].phase = "undo" -> "upgrade_failed_cache_restored"
      [] call[p].phase = "apply" ->
            IF pending.target.version = call[p].plan.installed THEN "already_current" ELSE "upgraded"
      [] OTHER -> "interrupted_upgrade_recovered"
WriteReceipt(p) ==
    /\ At(p, "receipt")
    /\ receipts' = [id \in DOMAIN receipts \cup {pending.id} |->
           IF id = pending.id THEN [status |-> StatusOf(p), target |-> pending.target] ELSE receipts[id]]
    /\ Goes(p, "retain")
    /\ UNCHANGED <<origin, source, installed, cache, pending, residue, retained>>
Retain(p) ==
    /\ At(p, "retain")
    /\ IF pending = NoPending THEN Raise(p) /\ UNCHANGED <<retained, pending>>
       ELSE /\ retained' = retained \cup {pending.id} /\ pending' = NoPending
            /\ IF call[p].phase \in {"recover", "repair"} THEN Goes(p, "check") ELSE Ends(p)
    /\ UNCHANGED <<origin, source, installed, cache, residue, receipts>>

---------------------------------------------------------------------------
\* The operator presses ^C, or a file operation fails: an apply undoes itself, staging is
\* removed, a recovery ends where it is.
Interrupt(p) ==
    /\ ~At(p, "idle")
    /\ IF call[p].phase = "apply" THEN Raise(p) ELSE Ends(p)
    /\ residue' = (residue /\ ~At(p, "publish"))
    /\ UNCHANGED <<origin, source, installed, cache, pending, retained, receipts>>

\* SIGKILL or a power loss; the lock goes with the process, files stay.
Kill(p) == ~At(p, "idle") /\ Ends(p) /\ UNCHANGED <<origin, disk>>

\* The operator inspects and removes the residue; the checkout of a local marketplace moves.
ClearResidue ==
    /\ residue /\ LockFree /\ residue' = FALSE
    /\ UNCHANGED <<origin, source, installed, cache, pending, retained, receipts, lock, call>>
SourceMoves ==
    /\ origin = "local" /\ source' \in Tree
    /\ UNCHANGED <<origin, installed, cache, pending, residue, retained, receipts, lock, call>>

Next ==
    \/ \E p \in Process :
          \/ \E only \in BOOLEAN : Begin(p, only)
          \/ Check(p) \/ Inspect(p) \/ Stage(p) \/ Publish(p) \/ Refresh(p)
          \/ SetPendingTarget(p) \/ NativeAdd(p) \/ Restore(p) \/ Attest(p)
          \/ WriteReceipt(p) \/ Retain(p) \/ Interrupt(p) \/ Kill(p)
    \/ ClearResidue \/ SourceMoves

Spec == Init /\ [][Next]_vars

---------------------------------------------------------------------------
TypeOK ==
    /\ source \in Tree /\ installed \in Version
    /\ DOMAIN cache \subseteq Version /\ Range(cache) \subseteq Content
    /\ pending # NoPending => pending.target \in Tree \cup {NoTarget}
    /\ retained \subseteq 1..MaxUpgrades /\ DOMAIN receipts \subseteq 1..(MaxUpgrades + 1)
    /\ lock \in Process \cup {Nobody} /\ \A p \in Process : At(p, "idle") <=> lock # p

\* What no upgrade may lose: the published snapshot, or the cache when there is none.
Protected == Entries(IF pending = NoPending THEN cache ELSE pending.versions)

\* docs/AI_INSTALL.md: every old version comes back to its path as it was, and old and new
\* stand side by side, whatever the native command deleted and wherever the upgrader died.
KeepsVersions == Protected \subseteq Protected'

\* When nothing is pending the registry names a version that is in the cache, and what a
\* receipt calls upgraded is there as the tree it names.
CacheConsistent ==
    /\ pending = NoPending => installed \in DOMAIN cache
    /\ \A id \in retained :
          /\ id \in DOMAIN receipts
          /\ receipts[id].status = "upgraded" =>
                <<receipts[id].target.version, receipts[id].target.content>> \in Protected
=============================================================================
