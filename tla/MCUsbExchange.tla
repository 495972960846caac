---------------------------- MODULE MCUsbExchange ----------------------------
(* The fault models UsbExchange is checked under.                          *)
EXTENDS UsbExchange

CallFaults == {"write", "read"}
=============================================================================
