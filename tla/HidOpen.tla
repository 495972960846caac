------------------------------- MODULE HidOpen -------------------------------
(***************************************************************************)
(* How the tool finds its bridge: Cusb_hid::open_usb, OpenMyHIDDevice and  *)
(* close_usb (user_inc/usb_lib.h).  The dialog's constructor opens the     *)
(* device once and ~Cusb_hid closes it.                                    *)
(*                                                                         *)
(* Windows is external: a list of present HID interfaces, walked by        *)
(* number.  An interface is what the loop can tell of it: whether its      *)
(* detail can be fetched, whether its path names the bridge's vid and pid  *)
(* (check_vid, check_pid), whether CreateFile opens it, and what its       *)
(* attributes say once it is open.  The list does not change while it is   *)
(* walked; SetupDiDestroyDeviceInfoList ends it.                           *)
(*                                                                         *)
(* The handle of interface d is d.  hidHandle starts without a value and   *)
(* is given one by the first interface; a variable that was never assigned *)
(* holds anything, INVALID_HANDLE_VALUE included.                          *)
(***************************************************************************)
EXTENDS Integers, Sequences

CONSTANTS
  Lists,         (* the lists of interfaces that may be present             *)
  MaxFailures    (* bound: enumeration failures other than "no more items"  *)

Interface ==
  [detail : BOOLEAN, named : BOOLEAN, opens : BOOLEAN,
   attributes : {"bridge", "other", "unreadable"}]

ASSUME ListsAssumption    == Lists \subseteq Seq(Interface)
ASSUME FailuresAssumption == MaxFailures \in Nat

VARIABLES
  list,          (* the interfaces present                                  *)
  pc,            (* "start", "loop", "opened" once open_usb has returned,   *)
                 (* "closed" after close_usb                                *)
  deviceNo,      (* the interface the loop asks for                         *)
  hidHandle,     (* OpenMyHIDDevice's handle                                *)
  hDev, flag,    (* Cusb_hid's                                              *)
  open,          (* handles that are open                                   *)
  listed,        (* the device information list exists                      *)
  failures       (* enumeration failures so far                             *)

vars ==
  <<list, pc, deviceNo, hidHandle, hDev, flag, open, listed, failures>>

Unset   == -2
Invalid == -1

-----------------------------------------------------------------------------
Init ==
  /\ list \in Lists
  /\ pc = "start"
  /\ deviceNo = 0
  /\ hidHandle = Unset
  /\ hDev = Unset
  /\ flag = 0
  /\ open = {}
  /\ listed = FALSE
  /\ failures = 0

(* OpenMyHIDDevice returns h, and open_usb looks at it.                    *)
Opened(h) ==
  /\ pc' = "opened"
  /\ hDev' = h
  /\ flag' = IF h = Invalid THEN 0 ELSE 1
  /\ listed' = FALSE
  /\ UNCHANGED <<list, failures>>

(* SetupDiGetClassDevs.                                                    *)
GetClassDevs ==
  /\ pc = "start"
  /\ \/ /\ pc' = "loop"
        /\ listed' = TRUE
        /\ UNCHANGED <<list, hDev, flag, failures>>
     \/ Opened(Invalid)
  /\ UNCHANGED <<deviceNo, hidHandle, open>>

(* SetupDiEnumInterfaceDevice delivers the next interface.                 *)
Enumerated == pc = "loop" /\ deviceNo < Len(list)

Here == list[deviceNo + 1]

Continue_CountsTwice ==
  /\ deviceNo' = deviceNo + 2
  /\ UNCHANGED <<list, pc, hDev, flag, listed, failures>>

(* ++deviceNo                                                              *)
Continue ==
  /\ deviceNo' = deviceNo + 1
  /\ UNCHANGED <<list, pc, hDev, flag, listed, failures>>

Matches(i) == i.detail /\ i.named

(* The interface's path matched, it was opened, and its attributes say so. *)
Matched(attributes) ==
  /\ Enumerated
  /\ Matches(Here) /\ Here.opens
  /\ Here.attributes = attributes

(* The detail cannot be fetched: the search is over.                       *)
DetailFails ==
  /\ Enumerated /\ ~ Here.detail
  /\ Opened(Invalid)
  /\ UNCHANGED <<deviceNo, hidHandle, open>>

Skip_EndsSearch ==
  /\ Enumerated /\ Here.detail /\ ~ Here.named
  /\ hidHandle' = Invalid
  /\ Opened(Invalid)
  /\ UNCHANGED <<deviceNo, open>>

Skip_SameDevice ==
  /\ Enumerated /\ Here.detail /\ ~ Here.named
  /\ hidHandle' = Invalid
  /\ UNCHANGED <<list, pc, deviceNo, hDev, flag, open, listed, failures>>

Skip_LeavesUnset ==
  /\ Enumerated /\ Here.detail /\ ~ Here.named
  /\ Continue
  /\ UNCHANGED <<hidHandle, open>>

(* Another vid or pid in the path.                                         *)
Skip ==
  /\ Enumerated /\ Here.detail /\ ~ Here.named
  /\ hidHandle' = Invalid
  /\ Continue
  /\ UNCHANGED open

(* CreateFile fails: the search is over.                                   *)
CreateFails ==
  /\ Enumerated /\ Matches(Here) /\ ~ Here.opens
  /\ hidHandle' = Invalid
  /\ Opened(Invalid)
  /\ UNCHANGED <<deviceNo, open>>

AttributesFail_StaysOpen ==
  /\ Matched("unreadable")
  /\ hidHandle' = deviceNo
  /\ open' = open \union {deviceNo}
  /\ Opened(Invalid)
  /\ UNCHANGED deviceNo

(* HidD_GetAttributes fails: what was opened is closed, the search is over.*)
AttributesFail ==
  /\ Matched("unreadable")
  /\ hidHandle' = deviceNo
  /\ Opened(Invalid)
  /\ UNCHANGED <<deviceNo, open>>

(* A path that lied: closed again, hidHandle keeps the closed handle.      *)
CloseOther ==
  /\ Matched("other")
  /\ hidHandle' = deviceNo
  /\ Continue
  /\ UNCHANGED open

Found ==
  /\ Matched("bridge")
  /\ hidHandle' = deviceNo
  /\ open' = open \union {deviceNo}
  /\ Opened(deviceNo)
  /\ UNCHANGED deviceNo

(* The walk is over: whatever hidHandle holds is returned.                 *)
NoMoreItems ==
  /\ pc = "loop"
  /\ deviceNo = Len(list)
  /\ \/ Opened(hidHandle)
     \/ hidHandle = Unset /\ Opened(Invalid)
  /\ UNCHANGED <<deviceNo, hidHandle, open>>

(* Any other failure: the loop asks for the same interface again.          *)
EnumerationFails ==
  /\ pc = "loop"
  /\ failures < MaxFailures
  /\ failures' = failures + 1
  /\ UNCHANGED <<list, pc, deviceNo, hidHandle, hDev, flag, open, listed>>

(* close_usb                                                               *)
Close ==
  /\ pc = "opened"
  /\ pc' = "closed"
  /\ open' = IF flag = 1 THEN open \ {hDev} ELSE open
  /\ flag' = 0
  /\ UNCHANGED <<list, deviceNo, hidHandle, hDev, listed, failures>>

Over == pc = "closed" /\ UNCHANGED vars

Walk ==
  \/ DetailFails \/ Skip \/ CreateFails \/ AttributesFail \/ CloseOther
  \/ Found \/ NoMoreItems

Next == GetClassDevs \/ Walk \/ EnumerationFails \/ Close \/ Over

Spec == Init /\ [][Next]_vars

(* The thread inside open_usb runs, and an enumeration that fails does not *)
(* fail for ever.                                                          *)
FairSpec == Spec /\ WF_vars(GetClassDevs \/ Walk)

-----------------------------------------------------------------------------
Handles == {Unset, Invalid} \union Nat

(* Types of the search's state.                                            *)
TypeOK ==
  /\ list \in Seq(Interface)
  /\ pc \in {"start", "loop", "opened", "closed"}
  /\ deviceNo \in 0 .. Len(list)
  /\ hidHandle \in Handles /\ hDev \in Handles
  /\ flag \in {0, 1}
  /\ open \subseteq Nat
  /\ listed \in BOOLEAN
  /\ failures \in 0 .. MaxFailures

(* Paths tell the truth: one that names the bridge belongs to it.          *)
Truthful(l) ==
  \A d \in 1 .. Len(l) : l[d].named => l[d].attributes # "other"

(* With some HID interface present and paths that tell the truth, open_usb *)
(* reports success only with an open handle of a bridge, the first whose   *)
(* path matches.                                                           *)
OpenedIsBridge ==
  pc = "opened" /\ flag = 1 /\ list # <<>> /\ Truthful(list) =>
    /\ hDev \in open
    /\ list[hDev + 1].attributes = "bridge"
    /\ \A d \in 1 .. hDev : ~ list[d].named

(* An interface the search gives up at, and one it is looking for.         *)
GivesUpAt(i) ==
  ~ i.detail \/ (i.named /\ (~ i.opens \/ i.attributes = "unreadable"))

Works(i) == Matches(i) /\ i.opens /\ i.attributes = "bridge"

(* A search that got hold of the list and failed had a reason: ahead of    *)
(* every working bridge stands an interface it gives up at.  In particular *)
(* interfaces of other devices do not hide a bridge.                       *)
BridgeIsFound ==
  pc = "opened" /\ flag = 0 /\ hidHandle # Unset =>
    \A d \in 1 .. Len(list) :
      Works(list[d]) => \E e \in 1 .. d - 1 : GivesUpAt(list[e])

(* Whichever way the search ended, closing leaves no handle and no device  *)
(* information list behind.                                                *)
NothingLeft == pc = "closed" => open = {} /\ ~ listed

(* open_usb reports success only with an open handle.                      *)
SuccessIsOpen == pc = "opened" /\ flag = 1 => hDev \in open

(* open_usb returns.                                                       *)
Returns == <>(pc = "opened")
=============================================================================
