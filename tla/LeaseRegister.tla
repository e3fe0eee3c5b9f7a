---------------------------- MODULE LeaseRegister ----------------------------
(* What the ledger promises the workers, whatever else its rows say: a node *)
(* is either free or held under one lease, leases are handed out in         *)
(* increasing order and each only once, and a lease that ended never comes  *)
(* back.  TaskLedger implements it (LeasesImplemented).                     *)
EXTENDS Naturals

CONSTANT Node

VARIABLES
    last,       \* the last lease handed out
    holder      \* holder[n]: the lease that may write the row of n; 0 for none

vars == <<last, holder>>

Init ==
    /\ last = 0
    /\ holder = [n \in Node |-> 0]

\* A free node is claimed under a lease nobody had before.
Grant(n) ==
    /\ holder[n] = 0
    /\ last' = last + 1
    /\ holder' = [holder EXCEPT ![n] = last + 1]

\* The lease ends: its worker settles, or a restart or the operator takes over.
Release(n) ==
    /\ holder[n] # 0
    /\ holder' = [holder EXCEPT ![n] = 0]
    /\ UNCHANGED last

Next == \E n \in Node : Grant(n) \/ Release(n)

Spec == Init /\ [][Next]_vars
=============================================================================
