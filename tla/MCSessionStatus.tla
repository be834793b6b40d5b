---------------------------- MODULE MCSessionStatus ----------------------------
(***************************************************************************)
(* Values for TLC: two issues, the triggering one and a queued one, which  *)
(* may be the same.                                                        *)
(***************************************************************************)
EXTENDS SessionStatus

CONSTANTS i1, i2

MCRefs == {i1, i2}

================================================================================
