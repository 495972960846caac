---------------------------- MODULE I2cTransaction ----------------------------
(***************************************************************************)
(* What a call of the bus layer promises on the I2C wires, whatever way it *)
(* cuts the bytes into packets: one START, all the bytes asked for, one    *)
(* STOP; no packet that moves nothing while the bus is held, and no byte   *)
(* after the STOP.  A call that asks for no bytes may instead come to      *)
(* nothing.                                                                *)
(***************************************************************************)
EXTENDS Integers

VARIABLES
  total,         (* bytes asked for                                         *)
  phase,         (* "before" the START, "held", "after" the STOP, "nothing" *)
  count          (* bytes moved since the START                             *)

vars == <<total, phase, count>>

Init ==
  /\ total \in Nat
  /\ phase = "before"
  /\ count = 0

(* START, every byte and STOP at once.                                     *)
Whole ==
  /\ phase = "before"
  /\ phase' = "after"
  /\ count' = total
  /\ UNCHANGED total

(* START and some, but not all, of the bytes.                              *)
Open ==
  /\ phase = "before"
  /\ phase' = "held"
  /\ count' > 0 /\ count' < total
  /\ UNCHANGED total

(* More of the bytes.                                                      *)
Continue ==
  /\ phase = "held"
  /\ phase' = "held"
  /\ count' > count /\ count' < total
  /\ UNCHANGED total

(* The rest of them, and STOP.                                             *)
Close ==
  /\ phase = "held"
  /\ phase' = "after"
  /\ count < total
  /\ count' = total
  /\ UNCHANGED total

Nothing ==
  /\ phase = "before"
  /\ total = 0
  /\ phase' = "nothing"
  /\ UNCHANGED <<total, count>>

Next == Whole \/ Open \/ Continue \/ Close \/ Nothing

Spec == Init /\ [][Next]_vars
=============================================================================
