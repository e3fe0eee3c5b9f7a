-------------------------- MODULE LinkerTemplates --------------------------
(***************************************************************************)
(* How a worktree gets its dependencies without a network                  *)
(* (PnpmOfflineMaterializer): a linker tree that is complete is used as it *)
(* is, else the template of its inputs is copied, else pnpm installs from  *)
(* the local store and the tree becomes the template.  The calls of        *)
(* several worktrees meet at the lock of the template and at that of the   *)
(* store; every wait, copy and install may run out of time, and a process  *)
(* may die at any point.  One key: other inputs have another template.     *)
(***************************************************************************)
EXTENDS Naturals, Sequences, FiniteSets

CONSTANTS
    Worktree,
    Order       \* the linker directories in the order of their paths, "root" among them

Linker == {Order[i] : i \in DOMAIN Order}

LinkersAssumption ==
    /\ Order \in Seq(Linker) /\ "root" \in Linker
    /\ Worktree \cap {"nobody", "template"} = {}

VARIABLES
    tree,       \* per worktree and linker: "none", "part", "marked", "bare" or "whole"
    cut,        \* trees that hold what a copy cut short left: worktrees, "template"
    template,   \* the linkers of the published template, or NoTemplate
    residue,    \* a staging directory is left beside it
    lock,       \* the call that holds the lock of the template
    store,      \* the call that holds the lock of the store
    call        \* the call on a worktree, and what it last said

vars == <<tree, cut, template, residue, lock, store, call>>

Nobody == "nobody"
NoTemplate == [l \in Linker |-> "none"]
NoCall == [pc |-> "idle", cached |-> FALSE, next |-> 1, told |-> "none"]

Init ==
    /\ tree = [w \in Worktree |-> NoTemplate]
    /\ cut = {}
    /\ template = NoTemplate
    /\ residue = FALSE
    /\ lock = Nobody /\ store = Nobody
    /\ call = [w \in Worktree |-> NoCall]

At(w, pc) == call[w].pc = pc
Goes(w, pc) == call' = [call EXCEPT ![w].pc = pc]

\* A call ends: its locks are free (flock), its staging directory is removed, or not if
\* the process died.
Free(holder, w) == IF holder = w THEN Nobody ELSE holder
Ends(w, what) ==
    /\ call' = [call EXCEPT ![w] = [NoCall EXCEPT !.told = what]]
    /\ lock' = Free(lock, w)
    /\ store' = Free(store, w)

\* The two completion files of pnpm, and the marker, are in the root linker; "marked"
\* has them all and lacks other entries.
Complete(root) == root \in {"marked", "bare", "whole"}
HasMarker(root) == root \in {"marked", "whole"}

\* _linker_paths: the root, and what there is of the others.
Available(t) == {"root"} \cup {l \in Linker : t[l] # "none"}

TreeIsCompleteMutant(t, linkers) == Complete(t["root"]) /\ \A l \in linkers : t[l] # "none"
\* _linker_tree_is_complete
TreeIsComplete(t, linkers) == HasMarker(t["root"]) /\ \A l \in linkers : t[l] # "none"

---------------------------------------------------------------------------
\* cached: source-only recovery accepts a template only (require_cached_template).
Begin(w, cached) ==
    /\ At(w, "idle")
    /\ call' = [call EXCEPT ![w] = [NoCall EXCEPT !.pc = "waits", !.cached = cached]]
    /\ UNCHANGED <<tree, cut, template, residue, lock, store>>

\* _template_lock and _discard_stale_template_staging, or the wait runs out of time.
TakeLock(w) ==
    /\ At(w, "waits")
    /\ \/ lock = Nobody /\ lock' = w /\ residue' = FALSE /\ Goes(w, "holds") /\ UNCHANGED store
       \/ lock # Nobody /\ Ends(w, "blocked") /\ UNCHANGED residue
    /\ UNCHANGED <<tree, cut, template>>

\* A complete tree is ready, and becomes the template if there is none.
Reuse(w) ==
    /\ At(w, "holds")
    /\ IF ~call[w].cached /\ TreeIsComplete(tree[w], Available(tree[w]))
       THEN /\ Goes(w, "publish")
            /\ UNCHANGED tree
       ELSE IF template # NoTemplate /\ TreeIsComplete(tree[w], Available(template))
       THEN Goes(w, "ready") /\ UNCHANGED tree
       ELSE IF template # NoTemplate
       THEN /\ tree' = [tree EXCEPT ![w] = [l \in Linker |-> IF l \in Available(template) THEN "none" ELSE @[l]]]
            /\ Goes(w, "copies")
       ELSE /\ Goes(w, IF call[w].cached THEN "refused" ELSE "installs")
            /\ tree' = IF call[w].cached \/ Complete(tree[w]["root"]) THEN tree
                       ELSE [tree EXCEPT ![w]["root"] = "none"]
    /\ UNCHANGED <<cut, template, residue, lock, store>>

\* A cut copy has some of the entries, in the order the directory lists them.
Cut(l) == IF l = "root" THEN {"none", "part", "marked"} ELSE {"none", "part"}

\* _clone_linker_tree: cp, one linker after the other.
CopyTemplate(w) ==
    LET l == Order[call[w].next] IN
    /\ At(w, "copies")
    /\ \/ /\ tree' = [tree EXCEPT ![w][l] = IF l \in Available(template) THEN template[l] ELSE @]
          /\ call' = [call EXCEPT ![w].next = @ + 1, ![w].pc = IF call[w].next = Len(Order) THEN "ready" ELSE "copies"]
          /\ cut' = IF "template" \in cut THEN cut \cup {w} ELSE IF call[w].next = 1 THEN cut \ {w} ELSE cut
          /\ UNCHANGED <<lock, store>>
       \/ /\ \E some \in Cut(l) : tree' = [tree EXCEPT ![w][l] = some]
          /\ cut' = cut \cup {w}
          /\ Ends(w, "blocked")
    /\ UNCHANGED <<template, residue>>

TakeStore(w) ==
    /\ At(w, "installs")
    /\ \/ store = Nobody /\ store' = w /\ Goes(w, "pnpm") /\ UNCHANGED lock
       \/ store # Nobody /\ Ends(w, "blocked")
    /\ UNCHANGED <<tree, cut, template, residue>>

\* pnpm install, frozen and offline: the whole tree, or what a failure leaves of it;
\* the marker is written afterwards.
Install(w) ==
    /\ At(w, "pnpm")
    /\ \/ /\ tree' = [tree EXCEPT ![w] = [l \in Linker |-> IF l = "root" THEN "bare" ELSE "whole"]]
          /\ cut' = cut \ {w}
          /\ store' = Free(store, w) /\ Goes(w, "mark") /\ UNCHANGED lock
       \/ /\ \E root \in {"part", "bare"}, linkers \in SUBSET (Linker \ {"root"}) :
                tree' = [tree EXCEPT ![w] = [l \in Linker |->
                    IF l = "root" THEN root ELSE IF l \in linkers THEN "part" ELSE @[l]]]
          /\ Ends(w, "blocked") /\ UNCHANGED cut
    /\ UNCHANGED <<template, residue>>

WriteMarker(w) ==
    /\ At(w, "mark")
    /\ tree' = [tree EXCEPT ![w]["root"] = "whole"]
    /\ Goes(w, "publish")
    /\ UNCHANGED <<cut, template, residue, lock, store>>

StagedMutant(w, some) == some
\* What a publication that does not end has made visible: nothing, it works in a
\* directory of its own.
Staged(w, some) == template

\* _publish_template: a copy in a staging directory, renamed when it is whole.  Its
\* failure costs the template, not the tree.
Publish(w) ==
    /\ At(w, "publish")
    /\ IF template # NoTemplate THEN UNCHANGED <<template, residue>>
       ELSE \/ template' = tree[w] /\ UNCHANGED residue
            \/ \E some \in Cut("root") :
                  /\ template' = Staged(w, [tree[w] EXCEPT !["root"] = some])
                  /\ residue' \in BOOLEAN
    /\ cut' = IF template = NoTemplate /\ w \in cut THEN cut \cup {"template"} ELSE cut
    /\ Goes(w, "ready")
    /\ UNCHANGED <<tree, lock, store>>

End(w) ==
    /\ call[w].pc \in {"ready", "refused"}
    /\ Ends(w, IF At(w, "ready") THEN "ready" ELSE "blocked")
    /\ UNCHANGED <<tree, cut, template, residue>>

\* The process dies; a copy or an install may be half done.
Die(w) ==
    /\ ~At(w, "idle")
    /\ Ends(w, "none")
    /\ IF At(w, "copies")
       THEN /\ \E some \in Cut(Order[call[w].next]) : tree' = [tree EXCEPT ![w][Order[call[w].next]] = some]
            /\ cut' = cut \cup {w} /\ UNCHANGED <<template, residue>>
       ELSE IF At(w, "publish") /\ template = NoTemplate
       THEN /\ \E some \in Cut("root") : template' = Staged(w, [tree[w] EXCEPT !["root"] = some])
            /\ residue' = TRUE
            /\ cut' = IF w \in cut THEN cut \cup {"template"} ELSE cut
            /\ UNCHANGED tree
       ELSE UNCHANGED <<tree, cut, template, residue>>

\* A new attempt has a new worktree.
Renew(w) ==
    /\ At(w, "idle") /\ tree[w] # NoTemplate
    /\ tree' = [tree EXCEPT ![w] = NoTemplate]
    /\ cut' = cut \ {w}
    /\ call' = [call EXCEPT ![w] = NoCall]
    /\ UNCHANGED <<template, residue, lock, store>>

Next ==
    \E w \in Worktree :
        \/ \E cached \in BOOLEAN : Begin(w, cached)
        \/ TakeLock(w) \/ Reuse(w) \/ CopyTemplate(w) \/ TakeStore(w) \/ Install(w)
        \/ WriteMarker(w) \/ Publish(w) \/ End(w) \/ Die(w) \/ Renew(w)

Spec == Init /\ [][Next]_vars

---------------------------------------------------------------------------
TypeOK ==
    /\ tree \in [Worktree -> [Linker -> {"none", "part", "marked", "bare", "whole"}]]
    /\ cut \subseteq Worktree \cup {"template"}
    /\ template \in [Linker -> {"none", "part", "marked", "bare", "whole"}]
    /\ residue \in BOOLEAN
    /\ {lock, store} \subseteq Worktree \cup {Nobody}
    /\ \A w \in Worktree : call[w].told \in {"none", "ready", "blocked"} /\ call[w].next \in 1 .. Len(Order) + 1

Whole(t) == \A l \in Linker : t[l] = "whole"

\* A tree that was called ready, and the template, have every entry
\* (README.md:420).  The code violates it: a copy that was cut short may hold the
\* marker already.
ReadyIsWhole ==
    /\ template # NoTemplate => Whole(template)
    /\ \A w \in Worktree : call[w].told = "ready" => Whole(tree[w])

\* Only such a copy makes them so: a failure or a death while the store is installed
\* from, or while a template is published, never does.
WholeUnlessCut ==
    /\ template # NoTemplate /\ "template" \notin cut => Whole(template)
    /\ \A w \in Worktree \ cut : call[w].told = "ready" => Whole(tree[w])
============================================================================
