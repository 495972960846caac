---------------------------- MODULE HidOpen_proofs ----------------------------
(***************************************************************************)
(* Theorems about HidOpen for every list of interfaces and any number of   *)
(* enumeration failures.                                                   *)
(***************************************************************************)
EXTENDS HidOpen, TLAPS

(* The search has passed every interface before deviceNo: none of them     *)
(* ends the search, the paths that matched lied, and hidHandle is what the *)
(* last one left.                                                          *)
Passed ==
  pc \in {"start", "loop"} =>
    /\ \A d \in 1 .. deviceNo :
         /\ ~ GivesUpAt(list[d])
         /\ list[d].named => list[d].attributes = "other"
    /\ deviceNo = 0 => hidHandle = Unset
    /\ deviceNo > 0 => hidHandle # Unset
    /\ deviceNo > 0 /\ hidHandle # Invalid => list[deviceNo].named

(* At most one handle is ever open: the one that is reported.              *)
Owned ==
  /\ pc = "start" => deviceNo = 0
  /\ pc # "opened" => open = {} /\ flag = 0
  /\ pc = "opened" => open \subseteq {hDev}
  /\ pc = "opened" /\ flag = 0 => open = {}
  /\ listed <=> pc = "loop"

IInv == TypeOK /\ Passed /\ Owned /\ OpenedIsBridge /\ BridgeIsFound

-----------------------------------------------------------------------------
(* The invariant holds before the bridge is opened.                        *)
LEMMA InitHolds == Init => IInv
<1> SUFFICES ASSUME Init PROVE IInv
  OBVIOUS
<1>1. list \in Seq(Interface) /\ MaxFailures \in Nat /\ Len(list) \in Nat
  BY ListsAssumption, FailuresAssumption DEF Init
<1>2. TypeOK
  <2>1. deviceNo \in 0 .. Len(list) /\ failures \in 0 .. MaxFailures
    BY <1>1 DEF Init
  <2>2. hidHandle \in Handles /\ hDev \in Handles /\ open \subseteq Nat
    BY DEF Init, Handles
  <2> QED  BY <1>1, <2>1, <2>2 DEF Init, TypeOK
<1>3. Passed /\ Owned /\ OpenedIsBridge /\ BridgeIsFound
  BY DEF Init, Passed, Owned, OpenedIsBridge, BridgeIsFound
<1> QED  BY <1>2, <1>3 DEF IInv

(* What the loop looks at is an interface of the list.                     *)
LEMMA HereIsListed ==
  ASSUME TypeOK, Enumerated
  PROVE  /\ Here \in Interface
         /\ Here = list[deviceNo + 1]
         /\ deviceNo + 1 \in 1 .. Len(list)
         /\ deviceNo \in Nat /\ Len(list) \in Nat
BY DEF TypeOK, Enumerated, Here

(* A search that ends without a handle, with a reason or without a list.   *)
LEMMA GivingUp ==
  ASSUME IInv, pc \in {"start", "loop"}, Opened(Invalid),
         UNCHANGED <<deviceNo, open>>, hidHandle' \in Handles,
         hidHandle' = Unset \/ (Enumerated /\ GivesUpAt(Here))
                            \/ (pc = "loop" /\ deviceNo = Len(list))
  PROVE  IInv'
<1> USE DEF IInv
<1>1. TypeOK'
  BY DEF TypeOK, Opened, Handles, Invalid
<1>2. open' = {} /\ flag' = 0 /\ pc' = "opened" /\ ~ listed' /\ list' = list
  BY DEF Opened, Owned, Invalid
<1>3. Passed' /\ Owned' /\ OpenedIsBridge'
  BY <1>2 DEF Passed, Owned, OpenedIsBridge
<1>4. ASSUME hidHandle' # Unset, NEW d \in 1 .. Len(list), Works(list[d])
      PROVE  \E e \in 1 .. d - 1 : GivesUpAt(list[e])
  <2>1. deviceNo \in Nat /\ Len(list) \in Nat /\ deviceNo <= Len(list)
    BY DEF TypeOK
  <2>2. ~ (d <= deviceNo)
    <3> SUFFICES ASSUME d <= deviceNo PROVE FALSE
      OBVIOUS
    <3>1. list[d].named => list[d].attributes = "other"
      BY <2>1 DEF Passed
    <3> QED  BY <1>4, <3>1 DEF Works, Matches
  <2>3. Enumerated /\ GivesUpAt(Here)
    BY <1>4, <2>1, <2>2
  <2>4. ~ Works(Here)
    BY <2>3, HereIsListed DEF Works, GivesUpAt, Matches, Interface
  <2>5. Here = list[deviceNo + 1] /\ d # deviceNo + 1
    BY <1>4, <2>4 DEF Here
  <2>6. deviceNo + 1 \in 1 .. d - 1
    BY <2>1, <2>2, <2>5
  <2> QED  BY <2>3, <2>5, <2>6
<1>5. BridgeIsFound'
  BY <1>2, <1>4 DEF BridgeIsFound, Works, Matches, GivesUpAt
<1> QED  BY <1>1, <1>3, <1>5

(* Building the device list preserves it.                                  *)
LEMMA GetClassDevsStep == IInv /\ GetClassDevs => IInv'
<1> SUFFICES ASSUME IInv, GetClassDevs PROVE IInv'
  OBVIOUS
<1>1. pc = "start" /\ UNCHANGED <<deviceNo, hidHandle, open>>
  BY DEF GetClassDevs
<1>2. deviceNo = 0 /\ hidHandle = Unset /\ hidHandle \in Handles
  BY <1>1 DEF IInv, Owned, Passed, TypeOK
<1>3. CASE Opened(Invalid)
  BY <1>1, <1>2, <1>3, GivingUp
<1>4. CASE /\ pc' = "loop" /\ listed' = TRUE
           /\ UNCHANGED <<list, hDev, flag, failures>>
  <2>1. TypeOK'
    BY <1>1, <1>4 DEF IInv, TypeOK
  <2>2. Passed'
    BY <1>1, <1>2, <1>4 DEF Passed
  <2>3. Owned'
    BY <1>1, <1>4 DEF IInv, Owned
  <2>4. OpenedIsBridge' /\ BridgeIsFound'
    BY <1>4 DEF OpenedIsBridge, BridgeIsFound
  <2> QED  BY <2>1, <2>2, <2>3, <2>4 DEF IInv
<1> QED  BY <1>3, <1>4 DEF GetClassDevs

(* The three outcomes that end the search for good.                        *)
LEMMA GivingUpSteps ==
  IInv /\ (DetailFails \/ CreateFails \/ AttributesFail) => IInv'
<1> SUFFICES ASSUME IInv, DetailFails \/ CreateFails \/ AttributesFail
             PROVE  IInv'
  OBVIOUS
<1>1. Enumerated /\ pc = "loop" /\ TypeOK
  BY DEF DetailFails, CreateFails, AttributesFail, Matched, Enumerated, IInv
<1>2. GivesUpAt(Here)
  BY DEF DetailFails, CreateFails, AttributesFail, Matched, Matches, GivesUpAt
<1>3. Opened(Invalid) /\ UNCHANGED <<deviceNo, open>>
  BY DEF DetailFails, CreateFails, AttributesFail
<1>4. hidHandle' \in {hidHandle, Invalid, deviceNo}
  BY DEF DetailFails, CreateFails, AttributesFail
<1>5. hidHandle' \in Handles
  BY <1>1, <1>4 DEF TypeOK, Handles
<1> QED  BY <1>1, <1>2, <1>3, <1>5, GivingUp

(* An interface that does not end the search.                              *)
LEMMA ContinueSteps == IInv /\ (Skip \/ CloseOther) => IInv'
<1> SUFFICES ASSUME IInv, Skip \/ CloseOther PROVE IInv'
  OBVIOUS
<1>1. Enumerated /\ TypeOK /\ pc = "loop"
  BY DEF Skip, CloseOther, Matched, Enumerated, IInv
<1>2. /\ Here \in Interface /\ Here = list[deviceNo + 1]
      /\ deviceNo + 1 \in 1 .. Len(list)
      /\ deviceNo \in Nat /\ Len(list) \in Nat
  BY <1>1, HereIsListed
<1>3. /\ deviceNo' = deviceNo + 1
      /\ UNCHANGED <<list, pc, hDev, flag, open, listed, failures>>
      /\ hidHandle' = Invalid \/ (hidHandle' = deviceNo /\ Here.named)
  BY DEF Skip, CloseOther, Continue, Matched, Matches
<1>4. ~ GivesUpAt(Here) /\ (Here.named => Here.attributes = "other")
  BY DEF Skip, CloseOther, Matched, Matches, GivesUpAt
<1>5. TypeOK'
  BY <1>1, <1>2, <1>3 DEF TypeOK, Handles
<1>6. Passed'
  <2>1. \A d \in 1 .. deviceNo + 1 :
          /\ ~ GivesUpAt(list[d])
          /\ list[d].named => list[d].attributes = "other"
    BY <1>1, <1>2, <1>4 DEF IInv, Passed
  <2>2. /\ deviceNo' > 0 /\ hidHandle' # Unset
        /\ hidHandle' # Invalid => list[deviceNo'].named
    BY <1>2, <1>3 DEF Unset, Invalid
  <2> QED  BY <1>2, <1>3, <2>1, <2>2 DEF Passed, GivesUpAt
<1>7. Owned'
  BY <1>1, <1>3 DEF IInv, Owned
<1>8. OpenedIsBridge' /\ BridgeIsFound'
  BY <1>1, <1>3 DEF OpenedIsBridge, BridgeIsFound
<1> QED  BY <1>5, <1>6, <1>7, <1>8 DEF IInv

(* So does the device that is the bridge.                                  *)
LEMMA FoundStep == IInv /\ Found => IInv'
<1> SUFFICES ASSUME IInv, Found PROVE IInv'
  OBVIOUS
<1>1. Enumerated /\ TypeOK /\ pc = "loop" /\ open = {}
  BY DEF Found, Matched, Enumerated, IInv, Owned
<1>2. /\ Here \in Interface /\ Here = list[deviceNo + 1]
      /\ deviceNo + 1 \in 1 .. Len(list)
      /\ deviceNo \in Nat /\ Len(list) \in Nat
  BY <1>1, HereIsListed
<1>3. /\ hidHandle' = deviceNo /\ hDev' = deviceNo /\ flag' = 1
      /\ pc' = "opened" /\ open' = {deviceNo} /\ ~ listed' /\ listed' \in BOOLEAN
      /\ UNCHANGED <<list, deviceNo, failures>>
  <2>1. deviceNo # Invalid
    BY <1>2 DEF Invalid
  <2>2. open' = {deviceNo}
    BY <1>1 DEF Found
  <2>3. listed' = FALSE
    BY DEF Found, Opened
  <2> QED  BY <2>1, <2>2, <2>3 DEF Found, Opened
<1>4. TypeOK'
  BY <1>1, <1>2, <1>3 DEF TypeOK, Handles
<1>5. Passed' /\ Owned' /\ BridgeIsFound'
  BY <1>3 DEF Passed, Owned, BridgeIsFound
<1>6. ASSUME Truthful(list), NEW d \in 1 .. deviceNo
      PROVE  ~ list[d].named
  <2>1. list[d].named => list[d].attributes = "other"
    BY <1>1 DEF IInv, Passed
  <2>2. d \in 1 .. Len(list)
    BY <1>2
  <2> QED  BY <1>6, <2>1, <2>2 DEF Truthful
<1>7. list[deviceNo + 1].attributes = "bridge"
  BY <1>2 DEF Found, Matched
<1>8. OpenedIsBridge'
  BY <1>3, <1>6, <1>7 DEF OpenedIsBridge, Truthful
<1> QED  BY <1>4, <1>5, <1>8 DEF IInv

(* So does the end of the list.                                            *)
LEMMA NoMoreItemsStep == IInv /\ NoMoreItems => IInv'
<1> SUFFICES ASSUME IInv, NoMoreItems PROVE IInv'
  OBVIOUS
<1>1. /\ pc = "loop" /\ deviceNo = Len(list)
      /\ UNCHANGED <<deviceNo, hidHandle, open>>
      /\ hidHandle \in Handles /\ TypeOK /\ open = {}
      /\ Len(list) \in Nat /\ list \in Seq(Interface)
  BY DEF NoMoreItems, IInv, TypeOK, Owned
<1>2. CASE Opened(Invalid)
  BY <1>1, <1>2, GivingUp
<1>3. CASE Opened(hidHandle) /\ hidHandle # Invalid
  <2>1. /\ pc' = "opened" /\ hDev' = hidHandle /\ flag' = 1 /\ ~ listed'
        /\ listed' \in BOOLEAN /\ UNCHANGED <<list, failures>>
    BY <1>3 DEF Opened
  <2>2. TypeOK'
    BY <1>1, <2>1 DEF TypeOK
  <2>3. Passed' /\ Owned' /\ BridgeIsFound'
    BY <1>1, <2>1 DEF Passed, Owned, BridgeIsFound
  <2>4. ~ (list # <<>> /\ Truthful(list))
    <3> SUFFICES ASSUME list # <<>>, Truthful(list) PROVE FALSE
      OBVIOUS
    <3>1. deviceNo > 0 /\ deviceNo \in 1 .. deviceNo /\ deviceNo \in 1 .. Len(list)
      BY <1>1
    <3>2. list[deviceNo].named /\ list[deviceNo].attributes = "other"
      BY <1>1, <1>3, <3>1 DEF IInv, Passed
    <3> QED  BY <3>1, <3>2 DEF Truthful
  <2>5. OpenedIsBridge'
    BY <2>1, <2>4 DEF OpenedIsBridge, Truthful
  <2> QED  BY <2>2, <2>3, <2>5 DEF IInv
<1> QED  BY <1>2, <1>3 DEF NoMoreItems

(* So does an enumeration call that fails.                                 *)
LEMMA EnumerationFailsStep == IInv /\ EnumerationFails => IInv'
<1> SUFFICES ASSUME IInv, EnumerationFails PROVE IInv'
  OBVIOUS
<1>1. /\ pc = "loop" /\ failures' = failures + 1 /\ failures < MaxFailures
      /\ UNCHANGED <<list, pc, deviceNo, hidHandle, hDev, flag, open, listed>>
  BY DEF EnumerationFails
<1>2. TypeOK'
  BY <1>1, FailuresAssumption DEF IInv, TypeOK
<1>3. Passed'
  BY <1>1 DEF IInv, Passed, GivesUpAt
<1>4. Owned' /\ OpenedIsBridge' /\ BridgeIsFound'
  BY <1>1 DEF IInv, Owned, OpenedIsBridge, BridgeIsFound
<1> QED  BY <1>2, <1>3, <1>4 DEF IInv

(* So does closing the bridge.                                             *)
LEMMA CloseStep == IInv /\ Close => IInv'
<1> SUFFICES ASSUME IInv, Close PROVE IInv'
  OBVIOUS
<1>1. /\ pc = "opened" /\ pc' = "closed" /\ flag' = 0
      /\ UNCHANGED <<list, deviceNo, hidHandle, hDev, listed, failures>>
  BY DEF Close
<1>2. open' = {}
  BY <1>1 DEF Close, IInv, Owned, TypeOK
<1>3. TypeOK'
  BY <1>1, <1>2 DEF IInv, TypeOK
<1>4. Passed' /\ Owned' /\ OpenedIsBridge' /\ BridgeIsFound'
  BY <1>1, <1>2 DEF IInv, Passed, Owned, OpenedIsBridge, BridgeIsFound
<1> QED  BY <1>3, <1>4 DEF IInv

(* So does a step that changes nothing.                                    *)
LEMMA StutterStep == IInv /\ UNCHANGED vars => IInv'
BY DEF IInv, TypeOK, Passed, Owned, OpenedIsBridge, BridgeIsFound, Truthful,
       GivesUpAt, Works, Matches, vars

(* The invariant is inductive.                                             *)
LEMMA EveryStep == IInv /\ [Next]_vars => IInv'
BY GetClassDevsStep, GivingUpSteps, ContinueSteps, FoundStep, NoMoreItemsStep,
   EnumerationFailsStep, CloseStep, StutterStep DEF Next, Walk, Over

(* The search's state keeps its types.                                     *)
THEOREM TypeCorrect == Spec => []TypeOK
<1>1. IInv => TypeOK
  BY DEF IInv
<1> QED  BY <1>1, InitHolds, EveryStep, PTL DEF Spec

(* open_usb reports success, interfaces being present and their paths      *)
(* truthful, only with the open handle of the first bridge.                *)
THEOREM OpenedIsBridgeHolds == Spec => []OpenedIsBridge
<1>1. IInv => OpenedIsBridge
  BY DEF IInv
<1> QED  BY <1>1, InitHolds, EveryStep, PTL DEF Spec

(* open_usb misses a working bridge only behind an interface the search    *)
(* gives up at.                                                            *)
THEOREM BridgeIsFoundHolds == Spec => []BridgeIsFound
<1>1. IInv => BridgeIsFound
  BY DEF IInv
<1> QED  BY <1>1, InitHolds, EveryStep, PTL DEF Spec

(* close_usb leaves no handle and no device information list.              *)
THEOREM NothingLeftHolds == Spec => []NothingLeft
<1>1. IInv => NothingLeft
  BY DEF IInv, Owned, NothingLeft
<1> QED  BY <1>1, InitHolds, EveryStep, PTL DEF Spec
=============================================================================
