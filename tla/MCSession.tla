------------------------------ MODULE MCSession ------------------------------
(* The fault models the session is checked under.                          *)
EXTENDS Session

AllFaults == FaultKinds
=============================================================================
