----------------------------- MODULE SerialExecutor -----------------------------
(***************************************************************************)
(* What the per-team serialization of trigger-droid.sh promises: at most   *)
(* one trigger owns the team at a time, only the owner runs a droid, and   *)
(* the ownership is given up only when no droid of the owner is running -  *)
(* even if the session that started it was killed.                         *)
(***************************************************************************)
CONSTANT Triggers

VARIABLE phase   \* trigger -> "idle", "owner" or "running"

Init == phase = [t \in Triggers |-> "idle"]

Acquire(t) ==
    /\ \A u \in Triggers : phase[u] = "idle"
    /\ phase' = [phase EXCEPT ![t] = "owner"]

Begin(t) ==
    /\ phase[t] = "owner"
    /\ phase' = [phase EXCEPT ![t] = "running"]

Finish(t) ==
    /\ phase[t] = "running"
    /\ phase' = [phase EXCEPT ![t] = "owner"]

Release(t) ==
    /\ phase[t] = "owner"
    /\ phase' = [phase EXCEPT ![t] = "idle"]

\* A droid that outlived its killed session ends and the lock goes with it.
FinishAndRelease(t) ==
    /\ phase[t] = "running"
    /\ phase' = [phase EXCEPT ![t] = "idle"]

PowerLoss == phase' = [t \in Triggers |-> "idle"]

Next ==
    \/ \E t \in Triggers :
          Acquire(t) \/ Begin(t) \/ Finish(t) \/ Release(t) \/ FinishAndRelease(t)
    \/ PowerLoss

Spec == Init /\ [][Next]_phase
================================================================================
