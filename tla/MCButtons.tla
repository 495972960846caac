------------------------------ MODULE MCButtons ------------------------------
(* The buttons on a link without faults.                                   *)
EXTENDS Buttons

NoFaults == {}
=============================================================================
