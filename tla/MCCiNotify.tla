------------------------------ MODULE MCCiNotify ------------------------------
(***************************************************************************)
(* CiNotify with two deliveries, which are interchangeable.                *)
(***************************************************************************)
EXTENDS CiNotify

CONSTANTS d1, d2

MCDeliveries == {d1, d2}
================================================================================
