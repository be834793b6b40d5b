----------------------------- MODULE MCTriggerLocks -----------------------------
(***************************************************************************)
(* Values for TLC: two deliveries about issue i1 (a duplicated or repeated *)
(* webhook) and one about i2.                                              *)
(***************************************************************************)
EXTENDS TriggerLocks, TLC

CONSTANTS t1, t2, t3, i1, i2

MCTriggers == {t1, t2, t3}
MCIssues   == {i1, i2}
MCIssueOf  == (t1 :> i1) @@ (t2 :> i1) @@ (t3 :> i2)

\* A smaller instance, one delivery per issue.
MCPair   == {t1, t3}
MCPairOf == (t1 :> i1) @@ (t3 :> i2)

\* Two deliveries about the same issue.
MCTwice   == {t1, t2}
MCTwiceOf == (t1 :> i1) @@ (t2 :> i1)
================================================================================
