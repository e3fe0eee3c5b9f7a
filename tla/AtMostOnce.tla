----------------------------- MODULE AtMostOnce -----------------------------
(***************************************************************************)
(* What a journal of requests promises whoever sends one: under one id an  *)
(* effect happens at most once, the outcome that is finally recorded never *)
(* changes, and "done" is recorded only of an effect that happened.  The   *)
(* effect may still happen after its outcome was given up as unknown, for  *)
(* nobody can call back a request that is under way.                       *)
(***************************************************************************)
EXTENDS Naturals

CONSTANT Id

VARIABLES status, count

vars == <<status, count>>

Final == {"done", "failed"}

Init ==
    /\ status = [i \in Id |-> "new"]
    /\ count = [i \in Id |-> 0]

Begin(i) ==
    /\ status[i] = "new"
    /\ status' = [status EXCEPT ![i] = "pending"]
    /\ UNCHANGED count

Act(i) ==
    /\ status[i] \in {"pending", "unknown"} /\ count[i] = 0
    /\ count' = [count EXCEPT ![i] = 1]
    /\ UNCHANGED status

GiveUp(i) ==
    /\ status[i] = "pending"
    /\ status' = [status EXCEPT ![i] = "unknown"]
    /\ UNCHANGED count

Record(i) ==
    /\ status[i] \in {"pending", "unknown"}
    /\ \/ count[i] = 1 /\ status' = [status EXCEPT ![i] = "done"]
       \/ count[i] = 0 /\ status' = [status EXCEPT ![i] = "failed"]
    /\ UNCHANGED count

\* A restart gives up every request that was pending.
GiveUpAll ==
    /\ \E i \in Id : status[i] = "pending"
    /\ status' = [i \in Id |-> IF status[i] = "pending" THEN "unknown" ELSE status[i]]
    /\ UNCHANGED count

Next == GiveUpAll \/ \E i \in Id : Begin(i) \/ Act(i) \/ GiveUp(i) \/ Record(i)
Spec == Init /\ [][Next]_vars
=============================================================================
