---------------------------- MODULE MCI2cTransfer ----------------------------
(* Lengths on both sides of every packet boundary, up to five packets.     *)
EXTENDS I2cTransfer

AllLens == 0 .. 200
=============================================================================
