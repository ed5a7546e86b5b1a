-------------------------- MODULE UsbRequestsProofs --------------------------
(***************************************************************************)
(* Proofs about what the control requests do: an acknowledged request gets *)
(* its effect, host and device agree on the address, and main serves       *)
(* SetFanspeed once in a turn.                                             *)
(***************************************************************************)
EXTENDS UsbDeviceProofs

\* What the device is once it is awake.
Woken == IF config # 0 \/ addressed THEN "Configured" ELSE "Powered"

\* Without a reset the interrupt leaves the endpoints and the configuration
\* alone, and without a change of VBUS the device can only sleep or wake up.
LEMMA InterruptSelects ==
  ASSUME USB_GEN_vect
  PROVE  \/ /\ "EORSTI" \in flags
            /\ selected' = 0 /\ setup' = None /\ out' = FALSE
         \/ /\ "EORSTI" \notin flags
            /\ UNCHANGED <<selected, config, ep0Vars, bank>>
            /\ "VBUSTI" \in flags \/ state' \in {state, "Suspended", Woken}
<1> DEFINE r1 == VbusChange(Registers)
           r2 == Suspend(r1)
           r3 == WakeUp(r2)
           r4 == EndOfReset(r3)
           Keeps(r) == /\ r.selected = selected /\ r.reset = FALSE /\ r.config = config
                       /\ "EORSTI" \in r.flags <=> "EORSTI" \in flags
                       /\ "VBUSTI" \in flags \/ r.state \in {state, "Suspended", Woken}
<1>1. Keeps(r1)
  BY DEF VbusChange, Registers
<1>2. Keeps(r2)
  <2> HIDE DEF r1
  <2> QED
    BY <1>1 DEF Suspend
<1>3. Keeps(r3)
  <2> HIDE DEF r2
  <2> QED
    BY <1>2 DEF WakeUp, Woken
<1>4. IF "EORSTI" \in flags
        THEN r4.selected = 0 /\ r4.reset = TRUE
        ELSE /\ r4.selected = selected /\ r4.reset = FALSE /\ r4.config = config
             /\ "VBUSTI" \in flags \/ r4.state \in {state, "Suspended", Woken}
  <2> HIDE DEF r3
  <2> QED
    BY <1>3 DEF EndOfReset
<1>5. selected' = r4.selected /\ config' = r4.config /\ state' = r4.state
  BY DEF USB_GEN_vect
<1>6. IF r4.reset THEN setup' = None /\ out' = FALSE ELSE UNCHANGED <<ep0Vars, bank>>
  BY Zenon DEF USB_GEN_vect
<1> HIDE DEF r4
<1> QED
  BY <1>4, <1>5, <1>6
-----------------------------------------------------------------------------
(* How far main has come with the request that the host waits for.          *)

AckInv ==
  /\ Taken =>
       /\ pc \in {"read", "address"} => in = None
       /\ pc = "status" /\ request \notin Reads => in = None
       /\ request = "SetFanspeed" /\ ~ (pc = "read" /\ left > 0) => stage = "status"
       /\ request = "SetConfiguration" => config = 1
       /\ request = "Unconfigure" => config = 0
       /\ request = "SetAddress" => pc \in {"address", "address_end"}
  /\ AddressAgreed
  /\ pc = "status" => served \in {"GetStatus", "ClearFeature"} \cup Configures
  /\ pc \in {"configure", "config1", "config3"} => served \in Configures

LEMMA InitiallyAckInv == Init => AckInv
BY DEF Init, AckInv, Taken, AddressAgreed

LEMMA AckMain ==
  ASSUME UsbInv, AckInv, Main
  PROVE  AckInv'
<1> USE DEF UsbInv, AckInv, Taken, AnswerGiven, Serving, AddressAgreed, mainVars,
      devVars, ep0Vars
<1>0. UNCHANGED <<request, stage, haddr>>
  BY DEF Main, hostVars
<1>1. ASSUME Task PROVE AckInv'
  BY <1>0, <1>1 DEF Task, NextTask
<1>2. ASSUME Ready PROVE AckInv'
  BY <1>0, <1>2 DEF Ready
<1>3. ASSUME NotReady PROVE AckInv'
  BY <1>0, <1>3 DEF NotReady
<1>4. ASSUME Put PROVE AckInv'
  BY <1>0, <1>4 DEF Put, ClearIN, AnswerInv, Endpoints, TypeOK
<1>5. ASSUME Sent PROVE AckInv'
  BY <1>0, <1>5 DEF Sent, ClearIN, NextTask, AnswerInv
<1>6. ASSUME NoSetup PROVE AckInv'
  BY <1>0, <1>6 DEF NoSetup, Return
<1>7. ASSUME GetDescriptor PROVE AckInv'
  BY <1>0, <1>7 DEF GetDescriptor, Begin, None, TransferInv, Reads
<1>8. ASSUME SetFanspeed PROVE AckInv'
  BY <1>0, <1>8 DEF SetFanspeed, Begin, None, TransferInv, Reads
<1>9. ASSUME GetStatus PROVE AckInv'
  BY <1>0, <1>9 DEF GetStatus, Begin, None, TransferInv, Reads
<1>10. ASSUME ClearFeature PROVE AckInv'
  BY <1>0, <1>10 DEF ClearFeature, Begin, None, TransferInv, Reads
<1>11. ASSUME SetConfiguration PROVE AckInv'
  BY <1>0, <1>11 DEF SetConfiguration, Begin, None, TransferInv, Reads, Configures
<1>12. ASSUME SetAddress PROVE AckInv'
  BY <1>0, <1>12 DEF SetAddress, Begin, None, TransferInv, Reads
<1>13. ASSUME Unhandled PROVE AckInv'
  BY <1>0, <1>13 DEF Unhandled, Return, None
<1>14. ASSUME WriteStop PROVE AckInv'
  BY <1>0, <1>14 DEF WriteStop, WriteEnds, BusInv
<1>15. ASSUME WritePacket PROVE AckInv'
  BY <1>0, <1>15 DEF WritePacket, AnswerInv, ServedInv
<1>16. ASSUME WriteEnd PROVE AckInv'
  BY <1>0, <1>16 DEF WriteEnd, WriteEnds
<1>17. ASSUME ReadStop PROVE AckInv'
  BY <1>0, <1>17 DEF ReadStop, ReadEnds, BusInv, None
<1>18. ASSUME ReadPacket PROVE AckInv'
  BY <1>0, <1>18 DEF ReadPacket, AnswerInv, ServedInv, None
<1>19. ASSUME ReadEnd PROVE AckInv'
  BY <1>0, <1>19 DEF ReadEnd, ReadEnds, AnswerInv, ServedInv, BusInv, None
<1>20. ASSUME StatusStage PROVE AckInv'
  BY <1>0, <1>20 DEF StatusStage, AfterStatus, AnswerInv, BusInv, Gone, Reads, Configures, None
<1>21. ASSUME Configure PROVE AckInv'
  BY <1>0, <1>21 DEF Configure
<1>22. ASSUME ConfigureEndpoint PROVE AckInv'
  BY <1>0, <1>22 DEF ConfigureEndpoint
<1>23. ASSUME AddressStatus PROVE AckInv'
  BY <1>0, <1>23 DEF AddressStatus, AnswerInv, ServedInv, None
<1>24. ASSUME AddressEnd PROVE AckInv'
  BY <1>0, <1>24 DEF AddressEnd, AnswerInv, ServedInv
<1>25. ASSUME Check PROVE AckInv'
  BY <1>0, <1>25 DEF Check, Return, AnswerInv, Reads
<1>26. ASSUME ProcessRPCSetFanspeed PROVE AckInv'
  BY <1>0, <1>26 DEF ProcessRPCSetFanspeed
<1> QED
  BY <1>1, <1>2, <1>3, <1>4, <1>5, <1>6, <1>7, <1>8, <1>9, <1>10, <1>11, <1>12, <1>13,
     <1>14, <1>15, <1>16, <1>17, <1>18, <1>19, <1>20, <1>21, <1>22, <1>23, <1>24, <1>25, <1>26
     DEF Main

\* Without a reset the interrupt changes nothing that a transfer depends on.
LEMMA InterruptInTransfer ==
  ASSUME UsbInv, USB_GEN_vect, stage # "idle"
  PROVE  UNCHANGED <<ep0Vars, config>>
<1>1. "EORSTI" \notin flags
  BY DEF UsbInv, TransferInv
<1> QED
  BY <1>1, InterruptSelects

LEMMA AckInterrupt ==
  ASSUME UsbInv, AckInv, USB_GEN_vect
  PROVE  AckInv'
<1>1. UNCHANGED <<mainVars, fan_value, addressed, hostVars>> /\ ~ Masked
  BY DEF USB_GEN_vect
<1>2. AddressAgreed'
  BY <1>1 DEF AckInv, AddressAgreed, Masked, hostVars
<1>3. CASE stage = "idle"
  BY <1>1, <1>2, <1>3 DEF AckInv, Taken, mainVars, hostVars
<1>4. CASE stage # "idle"
  BY <1>1, <1>2, <1>4, InterruptInTransfer DEF AckInv, Taken, mainVars, hostVars, ep0Vars
<1> QED
  BY <1>3, <1>4

LEMMA AckHost ==
  ASSUME UsbInv, AckInv, HostToken \/ Environment
  PROVE  AckInv'
<1> USE DEF UsbInv, AckInv, Taken, AddressAgreed, Idle, ep0Vars, hostVars
<1>0. UNCHANGED <<pc, served, left, config, fan_value>>
  BY DEF HostToken, Environment, mainVars, devVars
<1>1. ASSUME HostIn PROVE AckInv'
  BY <1>0, <1>1 DEF HostIn, Transfer, Reads, None
<1>2. ASSUME HostOut PROVE AckInv'
  BY <1>0, <1>2 DEF HostOut, Transfer, TransferInv
<1>3. ASSUME HostStatus PROVE AckInv'
  <2>1. ~ Taken'
    BY <1>3 DEF HostStatus
  <2>2. AddressAgreed'
    <3>1. request = "SetAddress" => pc = "address_end" /\ in' = None
      BY <1>3 DEF HostStatus, Transfer, Reads
    <3> QED
      BY <1>0, <1>3, <3>1 DEF HostStatus
  <2> QED
    BY <1>0, <2>1, <2>2
<1>4. ASSUME HostStalled \/ HostGivesUp \/ BusReset \/ Detach PROVE AckInv'
  BY <1>0, <1>4 DEF HostStalled, HostGivesUp, BusReset, Detach
<1>5. ASSUME NEW r \in Requests, HostSetup(r) PROVE AckInv'
  <2>1. ~ Taken'
    BY <1>5, RequestsAssumption DEF HostSetup, AllRequests, None
  <2>2. in' = None /\ UNCHANGED <<haddr, addressed>>
    BY <1>5, Zenon DEF HostSetup
  <2> QED
    BY <1>0, <2>1, <2>2
<1>6. ASSUME NEW e \in Endpoints, HostPoll(e) PROVE AckInv'
  BY <1>0, <1>6 DEF HostPoll
<1>7. ASSUME BusIdle \/ BusActive \/ Attach PROVE AckInv'
  BY <1>0, <1>7 DEF BusIdle, BusActive, Attach
<1> QED
  BY <1>1, <1>2, <1>3, <1>4, <1>5, <1>6, <1>7 DEF HostToken, Environment
-----------------------------------------------------------------------------
(* The call of USB_USBTask inside Endpoint_Write_Stream_LE.                 *)

\* Requests that the host makes once the device has an address.
Late == Configures \cup {"ClearFeature", "SetFanspeed"}

\* Only a reset lets Endpoint_Write_Stream_LE call USB_USBTask: endpoint 0 is
\* selected, the host has given no address since and asks for nothing else
\* before main is back in the class driver.
NestInv ==
  /\ stage # "idle" /\ request \in Late => haddr
  /\ "EORSTI" \in flags => ~ haddr /\ setup = None /\ ~ out
  /\ pc = "put" /\ selected # 0 /\ "EORSTI" \notin flags => bank[selected] = "free"
  /\ pc = "put" /\ selected = 0 => ~ haddr /\ setup \notin Late /\ ~ out
  /\ pc = "ready" /\ selected = 0 => ~ out
  /\ nested =>
       /\ pc = "usb" \/ Serving
       /\ selected = 0
       /\ pc \in {"usb", "address", "address_end", "check"} => ~ out
       /\ pc \notin {"address_end", "check"} => ~ haddr /\ setup \notin Late
       /\ Serving => served \notin Late

LEMMA InitiallyNestInv == Init => NestInv
BY DEF Init, NestInv, None

LEMMA NestMain ==
  ASSUME UsbInv, AckInv, NestInv, Main
  PROVE  NestInv'
<1> USE DEF NestInv, Late, Configures, Serving, Masked, mainVars, devVars, ep0Vars
<1>0. /\ UNCHANGED <<flags, request, stage, haddr>>
      /\ Masked \/ "EORSTI" \notin flags
  BY DEF Main, hostVars, Interrupt
<1>1. ASSUME Task PROVE NestInv'
  BY <1>0, <1>1 DEF Task, NextTask, UsbInv, TypeOK, Endpoints
<1>2. ASSUME Ready PROVE NestInv'
  BY <1>0, <1>2 DEF Ready, UsbInv, TypeOK, Endpoints
<1>3. ASSUME NotReady PROVE NestInv'
  BY <1>0, <1>3 DEF NotReady
<1>4. ASSUME Put PROVE NestInv'
  BY <1>0, <1>4 DEF Put, ClearIN, UsbInv, TypeOK
<1>5. ASSUME Sent PROVE NestInv'
  BY <1>0, <1>5 DEF Sent, ClearIN, NextTask
<1>6. ASSUME NoSetup PROVE NestInv'
  BY <1>0, <1>6 DEF NoSetup, Return
<1>7. ASSUME GetDescriptor PROVE NestInv'
  BY <1>0, <1>7 DEF GetDescriptor, Begin, None, UsbInv, TransferInv
<1>8. ASSUME SetFanspeed PROVE NestInv'
  BY <1>0, <1>8 DEF SetFanspeed, Begin, None
<1>9. ASSUME GetStatus PROVE NestInv'
  BY <1>0, <1>9 DEF GetStatus, Begin, None, UsbInv, TransferInv
<1>10. ASSUME ClearFeature PROVE NestInv'
  BY <1>0, <1>10 DEF ClearFeature, Begin, None, UsbInv, TransferInv
<1>11. ASSUME SetConfiguration PROVE NestInv'
  BY <1>0, <1>11 DEF SetConfiguration, Begin, None, UsbInv, TransferInv
<1>12. ASSUME SetAddress PROVE NestInv'
  BY <1>0, <1>12 DEF SetAddress, Begin, None, UsbInv, TransferInv
<1>13. ASSUME Unhandled PROVE NestInv'
  BY <1>0, <1>13 DEF Unhandled, Return, None
<1>14. ASSUME WriteStop PROVE NestInv'
  BY <1>0, <1>14 DEF WriteStop, WriteEnds, UsbInv, ServedInv
<1>15. ASSUME WritePacket PROVE NestInv'
  BY <1>0, <1>15 DEF WritePacket
<1>16. ASSUME WriteEnd PROVE NestInv'
  BY <1>0, <1>16 DEF WriteEnd, WriteEnds, UsbInv, ServedInv
<1>17. ASSUME ReadStop PROVE NestInv'
  BY <1>0, <1>17 DEF ReadStop, ReadEnds, UsbInv, ServedInv
<1>18. ASSUME ReadPacket PROVE NestInv'
  BY <1>0, <1>18 DEF ReadPacket, UsbInv, ServedInv
<1>19. ASSUME ReadEnd PROVE NestInv'
  BY <1>0, <1>19 DEF ReadEnd, ReadEnds, UsbInv, ServedInv
<1>20. ASSUME StatusStage PROVE NestInv'
  BY <1>0, <1>20 DEF StatusStage, AfterStatus, AckInv, UsbInv, Reads
<1>21. ASSUME Configure PROVE NestInv'
  BY <1>0, <1>21 DEF Configure, AckInv
<1>22. ASSUME ConfigureEndpoint PROVE NestInv'
  BY <1>0, <1>22 DEF ConfigureEndpoint, AckInv
<1>23. ASSUME AddressStatus PROVE NestInv'
  BY <1>0, <1>23 DEF AddressStatus
<1>24. ASSUME AddressEnd PROVE NestInv'
  BY <1>0, <1>24 DEF AddressEnd
<1>25. ASSUME Check PROVE NestInv'
  BY <1>0, <1>25 DEF Check, Return
<1>26. ASSUME ProcessRPCSetFanspeed PROVE NestInv'
  BY <1>0, <1>26 DEF ProcessRPCSetFanspeed, UsbInv, ServedInv
<1> QED
  BY <1>1, <1>2, <1>3, <1>4, <1>5, <1>6, <1>7, <1>8, <1>9, <1>10, <1>11, <1>12, <1>13,
     <1>14, <1>15, <1>16, <1>17, <1>18, <1>19, <1>20, <1>21, <1>22, <1>23, <1>24, <1>25, <1>26
     DEF Main

LEMMA NestInterrupt ==
  ASSUME UsbInv, NestInv, USB_GEN_vect
  PROVE  NestInv'
<1>1. UNCHANGED <<mainVars, hostVars>> /\ (Serving' <=> Serving)
  BY DEF USB_GEN_vect, Serving, mainVars
<1>2. "EORSTI" \notin flags'
  BY InterruptServed DEF UsbInv
<1>3. None \notin Late
  BY DEF None, Late, Configures
<1> USE DEF NestInv, mainVars, hostVars, ep0Vars
<1>4. CASE "EORSTI" \in flags
  <2>1. selected' = 0 /\ setup' = None /\ out' = FALSE
    BY <1>4, InterruptSelects
  <2> QED
    BY <1>1, <1>2, <1>3, <1>4, <2>1
<1>5. CASE "EORSTI" \notin flags
  <2>1. UNCHANGED <<selected, ep0Vars, bank>>
    BY <1>5, InterruptSelects
  <2> QED
    BY <1>1, <1>2, <1>5, <2>1
<1> QED
  BY <1>4, <1>5

LEMMA NestHost ==
  ASSUME UsbInv, AckInv, NestInv, HostToken \/ Environment
  PROVE  NestInv'
<1> USE DEF UsbInv, NestInv, Taken, AnswerGiven, Idle, ep0Vars, hostVars
<1>0. /\ UNCHANGED <<pc, nested, served, left, selected>>
      /\ (Serving' <=> Serving) /\ (AnswerGiven' <=> AnswerGiven)
  BY DEF HostToken, Environment, Serving, AnswerGiven, mainVars, devVars
<1>1. ASSUME HostIn PROVE NestInv'
  BY <1>0, <1>1 DEF HostIn, Transfer
<1>2. ASSUME HostOut PROVE NestInv'
  <2>1. request = "SetFanspeed" /\ Taken /\ stage = "data"
    BY <1>2 DEF HostOut, Transfer, TransferInv, Reads
  <2>2. pc = "read" /\ served = "SetFanspeed" /\ Serving
    BY <2>1 DEF AckInv, ServedInv, Serving
  <2>3. ~ nested /\ "EORSTI" \notin flags
    BY <2>1, <2>2 DEF Late, TransferInv
  <2> QED
    BY <1>0, <1>2, <2>1, <2>2, <2>3 DEF HostOut
<1>3. ASSUME HostStatus PROVE NestInv'
  <2>1. Taken /\ "EORSTI" \notin flags /\ "EORSTI" \notin flags'
    BY <1>3 DEF HostStatus, Transfer, TransferInv
  <2>2. CASE request \in Reads
    <3>1. Serving /\ pc \notin {"address", "address_end", "check"}
      BY <2>1, <2>2 DEF AnswerInv, ServedInv, Reads
    <3>2. pc \notin {"put", "ready", "usb"}
      BY <3>1 DEF Serving
    <3>3. UNCHANGED <<setup, bank, flags>> /\ stage' = "idle" /\ (haddr' => haddr)
      BY <1>3, <2>2 DEF HostStatus, Reads
    <3> QED
      BY <1>0, <2>1, <3>1, <3>2, <3>3
  <2>3. CASE request \notin Reads
    <3>1. request = "SetAddress" => pc = "address_end"
      BY <1>3, <2>1, <2>3 DEF HostStatus, AckInv
    <3>2. UNCHANGED <<out, setup, bank, flags>> /\ stage' = "idle"
          /\ haddr' = (haddr \/ request = "SetAddress")
      BY <1>3, <2>3 DEF HostStatus
    <3> QED
      BY <1>0, <2>1, <3>1, <3>2
  <2> QED
    BY <2>2, <2>3
<1>4. ASSUME HostStalled \/ HostGivesUp PROVE NestInv'
  BY <1>0, <1>4 DEF HostStalled, HostGivesUp
<1>5. ASSUME NEW r \in Requests, HostSetup(r) PROVE NestInv'
  <2>1. /\ setup' = r /\ request' = r /\ out' = FALSE
        /\ UNCHANGED <<flags, bank, haddr>> /\ "EORSTI" \notin flags
        /\ r \in Late => haddr
    BY <1>5 DEF HostSetup, Late
  <2> QED
    BY <1>0, <2>1
<1>6. ASSUME NEW e \in Endpoints, HostPoll(e) PROVE NestInv'
  BY <1>0, <1>6 DEF HostPoll, TypeOK
<1>7. ASSUME BusReset PROVE NestInv'
  <2>1. None \notin Late
    BY DEF None, Late, Configures
  <2> QED
    BY <1>0, <1>7, <2>1 DEF BusReset
<1>8. ASSUME BusIdle \/ BusActive \/ Attach PROVE NestInv'
  <2>1. /\ UNCHANGED <<ep0Vars, bank, hostVars>>
        /\ "EORSTI" \in flags' <=> "EORSTI" \in flags
    BY <1>8 DEF BusIdle, BusActive, Attach
  <2> QED
    BY <1>0, <2>1
<1>9. ASSUME Detach PROVE NestInv'
  <2>1. /\ UNCHANGED <<ep0Vars, bank>> /\ haddr' = FALSE /\ stage' = "idle"
        /\ "EORSTI" \in flags' <=> "EORSTI" \in flags
    BY <1>9 DEF Detach
  <2> QED
    BY <1>0, <2>1
<1> QED
  BY <1>1, <1>2, <1>3, <1>4, <1>5, <1>6, <1>7, <1>8, <1>9 DEF HostToken, Environment
-----------------------------------------------------------------------------
(* The address of a configured device.                                      *)

\* Without an address the host asks for no configuration, and a device that is
\* told to give it up keeps the address.
AddressInv ==
  /\ setup \in Late => addressed
  /\ stage # "idle" /\ request \in Late => addressed
  /\ acked \in Late => addressed
  /\ ConfiguredHasAddress

LEMMA InitiallyAddressInv == Init => AddressInv
BY DEF Init, AddressInv, ConfiguredHasAddress, Late, Configures, None

LEMMA AddressMain ==
  ASSUME AddressInv, Main
  PROVE  AddressInv'
<1> USE DEF AddressInv, ConfiguredHasAddress, Late, Configures, None, mainVars, devVars, ep0Vars
<1>0. UNCHANGED <<flags, request, stage, acked>>
  BY DEF Main, hostVars
<1>1. ASSUME Task PROVE AddressInv'
  BY <1>0, <1>1 DEF Task, NextTask
<1>2. ASSUME Ready PROVE AddressInv'
  BY <1>0, <1>2 DEF Ready
<1>3. ASSUME NotReady PROVE AddressInv'
  BY <1>0, <1>3 DEF NotReady
<1>4. ASSUME Put PROVE AddressInv'
  BY <1>0, <1>4 DEF Put, ClearIN
<1>5. ASSUME Sent PROVE AddressInv'
  BY <1>0, <1>5 DEF Sent, ClearIN, NextTask
<1>6. ASSUME NoSetup PROVE AddressInv'
  BY <1>0, <1>6 DEF NoSetup, Return
<1>7. ASSUME GetDescriptor PROVE AddressInv'
  BY <1>0, <1>7 DEF GetDescriptor, Begin
<1>8. ASSUME SetFanspeed PROVE AddressInv'
  BY <1>0, <1>8 DEF SetFanspeed, Begin
<1>9. ASSUME GetStatus PROVE AddressInv'
  BY <1>0, <1>9 DEF GetStatus, Begin
<1>10. ASSUME ClearFeature PROVE AddressInv'
  BY <1>0, <1>10 DEF ClearFeature, Begin
<1>11. ASSUME SetConfiguration PROVE AddressInv'
  BY <1>0, <1>11 DEF SetConfiguration, Begin
<1>12. ASSUME SetAddress PROVE AddressInv'
  BY <1>0, <1>12 DEF SetAddress, Begin
<1>13. ASSUME Unhandled PROVE AddressInv'
  BY <1>0, <1>13 DEF Unhandled, Return
<1>14. ASSUME WriteStop PROVE AddressInv'
  BY <1>0, <1>14 DEF WriteStop, WriteEnds
<1>15. ASSUME WritePacket PROVE AddressInv'
  BY <1>0, <1>15 DEF WritePacket
<1>16. ASSUME WriteEnd PROVE AddressInv'
  BY <1>0, <1>16 DEF WriteEnd, WriteEnds
<1>17. ASSUME ReadStop PROVE AddressInv'
  BY <1>0, <1>17 DEF ReadStop, ReadEnds
<1>18. ASSUME ReadPacket PROVE AddressInv'
  BY <1>0, <1>18 DEF ReadPacket
<1>19. ASSUME ReadEnd PROVE AddressInv'
  BY <1>0, <1>19 DEF ReadEnd, ReadEnds
<1>20. ASSUME StatusStage PROVE AddressInv'
  BY <1>0, <1>20 DEF StatusStage, AfterStatus
<1>21. ASSUME Configure PROVE AddressInv'
  BY <1>0, <1>21 DEF Configure
<1>22. ASSUME ConfigureEndpoint PROVE AddressInv'
  BY <1>0, <1>22 DEF ConfigureEndpoint
<1>23. ASSUME AddressStatus PROVE AddressInv'
  BY <1>0, <1>23 DEF AddressStatus
<1>24. ASSUME AddressEnd PROVE AddressInv'
  BY <1>0, <1>24 DEF AddressEnd
<1>25. ASSUME Check PROVE AddressInv'
  BY <1>0, <1>25 DEF Check, Return
<1>26. ASSUME ProcessRPCSetFanspeed PROVE AddressInv'
  BY <1>0, <1>26 DEF ProcessRPCSetFanspeed
<1> QED
  BY <1>1, <1>2, <1>3, <1>4, <1>5, <1>6, <1>7, <1>8, <1>9, <1>10, <1>11, <1>12, <1>13,
     <1>14, <1>15, <1>16, <1>17, <1>18, <1>19, <1>20, <1>21, <1>22, <1>23, <1>24, <1>25, <1>26
     DEF Main

LEMMA AddressInterrupt ==
  ASSUME AddressInv, USB_GEN_vect
  PROVE  AddressInv'
<1> DEFINE r1 == VbusChange(Registers)
           r2 == Suspend(r1)
           r3 == WakeUp(r2)
           r4 == EndOfReset(r3)
           Known(r) == r.state = "Configured" => r.config # 0 \/ addressed
<1>0. CASE "EORSTI" \notin flags
  <2> USE DEF Known
  <2>1. Known(r1) /\ "EORSTI" \notin r1.flags
    BY <1>0 DEF VbusChange, Registers, AddressInv, ConfiguredHasAddress
  <2>2. Known(r2) /\ "EORSTI" \notin r2.flags
    <3> HIDE DEF r1
    <3> QED
      BY <2>1 DEF Suspend
  <2>3. Known(r3) /\ "EORSTI" \notin r3.flags
    <3> HIDE DEF r2
    <3> QED
      BY <2>2 DEF WakeUp
  <2>4. Known(r4)
    <3> HIDE DEF r3
    <3> QED
      BY <2>3 DEF EndOfReset
  <2>5. state' = r4.state /\ config' = r4.config /\ UNCHANGED <<addressed, hostVars>>
    BY DEF USB_GEN_vect
  <2>6. UNCHANGED setup
    BY <1>0, InterruptSelects DEF ep0Vars
  <2> HIDE DEF r4
  <2> QED
    BY <2>4, <2>5, <2>6 DEF AddressInv, ConfiguredHasAddress, hostVars
<1>1. CASE "EORSTI" \in flags
  <2>1. "EORSTI" \in r3.flags
    <3>1. "EORSTI" \in r1.flags
      BY <1>1 DEF VbusChange, Registers
    <3>2. "EORSTI" \in r2.flags
      <4> HIDE DEF r1
      <4> QED
        BY <3>1 DEF Suspend
    <3> HIDE DEF r2
    <3> QED
      BY <3>2 DEF WakeUp
  <2>2. r4.state = "Default"
    <3> HIDE DEF r3
    <3> QED
      BY <2>1 DEF EndOfReset
  <2>3. state' = "Default" /\ setup' = None /\ UNCHANGED <<addressed, hostVars>>
    BY <1>1, <2>2, InterruptSelects DEF USB_GEN_vect
  <2> QED
    BY <2>3 DEF AddressInv, ConfiguredHasAddress, Late, Configures, None, hostVars
<1> QED
  BY <1>0, <1>1

LEMMA AddressHost ==
  ASSUME AddressInv, HostToken \/ Environment
  PROVE  AddressInv'
<1> USE DEF AddressInv, ConfiguredHasAddress, Idle, ep0Vars, hostVars
<1>0. UNCHANGED <<state, config>> /\ None \notin Late
  BY DEF HostToken, Environment, devVars, None, Late, Configures
<1>1. ASSUME HostIn \/ HostOut PROVE AddressInv'
  BY <1>0, <1>1 DEF HostIn, HostOut, Transfer
<1>2. ASSUME HostStatus PROVE AddressInv'
  BY <1>0, <1>2 DEF HostStatus, Transfer
<1>3. ASSUME HostStalled \/ HostGivesUp PROVE AddressInv'
  BY <1>0, <1>3 DEF HostStalled, HostGivesUp
<1>4. ASSUME NEW r \in Requests, HostSetup(r) PROVE AddressInv'
  <2>1. /\ setup' = r /\ request' = r /\ acked' = None
        /\ UNCHANGED <<flags, addressed>> /\ (r \in Late => addressed)
    BY <1>4 DEF HostSetup, Reachable, Late
  <2> QED
    BY <1>0, <2>1
<1>5. ASSUME NEW e \in Endpoints, HostPoll(e) PROVE AddressInv'
  BY <1>0, <1>5 DEF HostPoll
<1>6. ASSUME BusReset PROVE AddressInv'
  BY <1>0, <1>6 DEF BusReset
<1>7. ASSUME BusIdle \/ BusActive \/ Attach PROVE AddressInv'
  <2>1. /\ UNCHANGED <<setup, addressed, hostVars>>
        /\ "EORSTI" \in flags' <=> "EORSTI" \in flags
    BY <1>7 DEF BusIdle, BusActive, Attach
  <2> QED
    BY <1>0, <2>1
<1>8. ASSUME Detach PROVE AddressInv'
  <2>1. /\ UNCHANGED <<setup, addressed>> /\ acked' = None /\ stage' = "idle"
        /\ "EORSTI" \in flags' <=> "EORSTI" \in flags
    BY <1>8 DEF Detach
  <2> QED
    BY <1>0, <2>1
<1> QED
  BY <1>1, <1>2, <1>3, <1>4, <1>5, <1>6, <1>7, <1>8 DEF HostToken, Environment
-----------------------------------------------------------------------------
(* Requests whose status the host may fetch, or has fetched.                *)

Enabled(e) == bank[e] \notin {"off", "disabled"}

\* What main has done of a request that it has acknowledged, on the way from
\* there to its next request.
Done(r) ==
  /\ r = "SetFanspeed" => IF pc = "speed" THEN left = 0 ELSE fan_value = "given"
  /\ r = "SetConfiguration" => config = 1
  /\ r = "Unconfigure" => config = 0
  /\ r \in Configures =>
       /\ pc # "configure" => state \in {"Configured", "Suspended"}
       /\ pc = "config1" => selected = 1
       /\ pc = "config3" => selected = 3 /\ Enabled(1)
       /\ pc \notin {"configure", "config1", "config3"} => Enabled(1) /\ Enabled(3)
  /\ r = "SetAddress" => pc = "address_end" \/ addressed

\* Once the host has the status, main is alone with the request: a new one, a
\* reset or a pulled cable also ends what the host takes for done.
DoneInv ==
  /\ Taken /\ in # None => Done(request)
  /\ acked # None =>
       /\ stage = "idle" /\ setup = None
       /\ bus \in {"active", "idle"} /\ "EORSTI" \notin flags
       /\ Serving => served = acked
       /\ pc \notin {"read", "address"}
       /\ pc = "status" => acked \notin Configures
       /\ Done(acked)
  /\ bus \in {"active", "idle"} /\ "VBUSTI" \in flags => "EORSTI" \in flags

LEMMA InitiallyDoneInv == Init => DoneInv
BY DEF Init, DoneInv, Taken

LEMMA DoneMain ==
  ASSUME UsbInv, AckInv, AddressInv, DoneInv, Main
  PROVE  DoneInv'
<1> USE DEF DoneInv, Done, Enabled, Taken, Serving, AnswerGiven, mainVars, devVars, ep0Vars
<1>0. UNCHANGED <<flags, bus, request, stage, acked>>
  BY DEF Main, hostVars
<1>setup. setup # None => acked = None /\ in = None
  BY DEF UsbInv, TransferInv
<1>1. ASSUME Task PROVE DoneInv'
  BY <1>0, <1>1 DEF Task, NextTask, None, UsbInv, AnswerInv
<1>2. ASSUME Ready PROVE DoneInv'
  BY <1>0, <1>2 DEF Ready, None, UsbInv, AnswerInv
<1>3. ASSUME NotReady PROVE DoneInv'
  BY <1>0, <1>3 DEF NotReady, None, UsbInv, AnswerInv
<1>4. ASSUME Put PROVE DoneInv'
  BY <1>0, <1>4 DEF Put, ClearIN, None, UsbInv, AnswerInv
<1>5. ASSUME Sent PROVE DoneInv'
  <2>1. \A e \in Endpoints : Enabled(e) => Enabled(e)'
    BY <1>5 DEF Sent, ClearIN, UsbInv, TypeOK
  <2>2. UNCHANGED <<addressed, stall>> /\ pc' \in {"task", "usb"}
        /\ UNCHANGED <<setup, state, config, fan_value>>
    BY <1>5 DEF Sent, NextTask
  <2>3. Taken /\ in' # None => in # None
    BY <1>5 DEF Sent, UsbInv, AnswerInv
  <2> QED
    BY <1>0, <1>5, <2>1, <2>2, <2>3 DEF Sent, Endpoints
<1>6. ASSUME NoSetup PROVE DoneInv'
  BY <1>0, <1>6 DEF NoSetup, Return, None, UsbInv, AnswerInv
<1>7. ASSUME GetDescriptor PROVE DoneInv'
  BY <1>0, <1>setup, <1>7 DEF GetDescriptor, Begin, None, Configures, UsbInv, TransferInv
<1>8. ASSUME SetFanspeed PROVE DoneInv'
  BY <1>0, <1>setup, <1>8 DEF SetFanspeed, Begin, None, Configures, UsbInv, TransferInv
<1>9. ASSUME GetStatus PROVE DoneInv'
  BY <1>0, <1>setup, <1>9 DEF GetStatus, Begin, None, Configures, UsbInv, TransferInv
<1>10. ASSUME ClearFeature PROVE DoneInv'
  BY <1>0, <1>setup, <1>10 DEF ClearFeature, Begin, None, Configures, UsbInv, TransferInv
<1>11. ASSUME SetConfiguration PROVE DoneInv'
  BY <1>0, <1>setup, <1>11 DEF SetConfiguration, Begin, None, Configures, UsbInv, TransferInv
<1>12. ASSUME SetAddress PROVE DoneInv'
  BY <1>0, <1>setup, <1>12 DEF SetAddress, Begin, None, Configures, UsbInv, TransferInv
<1>13. ASSUME Unhandled PROVE DoneInv'
  BY <1>0, <1>13 DEF Unhandled, Return, None, UsbInv, AnswerInv
<1>14. ASSUME WriteStop PROVE DoneInv'
  BY <1>0, <1>14 DEF WriteStop, WriteEnds, None, UsbInv, AnswerInv
<1>15. ASSUME WritePacket PROVE DoneInv'
  BY <1>0, <1>15 DEF WritePacket, None, Configures, UsbInv, AnswerInv, ServedInv
<1>16. ASSUME WriteEnd PROVE DoneInv'
  BY <1>0, <1>16 DEF WriteEnd, WriteEnds, None, UsbInv, AnswerInv
<1>17. ASSUME ReadStop PROVE DoneInv'
  BY <1>0, <1>17 DEF ReadStop, ReadEnds, None, UsbInv, BusInv, TransferInv
<1>18. ASSUME ReadPacket PROVE DoneInv'
  BY <1>0, <1>18 DEF ReadPacket, None, UsbInv, AnswerInv
<1>19. ASSUME ReadEnd PROVE DoneInv'
  BY <1>0, <1>19 DEF ReadEnd, ReadEnds, None, Configures, UsbInv, AnswerInv, ServedInv
<1>20. ASSUME StatusStage PROVE DoneInv'
  <2>1. CASE served \in Configures
    <3>1. acked = None /\ pc' = "configure"
      BY <1>20, <2>1 DEF StatusStage, AfterStatus
    <3> QED
      BY <1>0, <1>20, <2>1, <3>1 DEF StatusStage, Configures, AckInv, UsbInv, AnswerInv
  <2>2. CASE served \notin Configures
    <3>1. served \in {"GetStatus", "ClearFeature"} /\ pc' = "check"
      BY <1>20, <2>2 DEF StatusStage, AfterStatus, AckInv
    <3> QED
      BY <1>0, <1>20, <3>1 DEF StatusStage, Configures, UsbInv, AnswerInv
  <2> QED
    BY <2>1, <2>2
<1>21. ASSUME Configure PROVE DoneInv'
  <2>1. served \in Configures
    BY <1>21 DEF Configure, AckInv
  <2>2. acked # None \/ Taken => addressed
    BY <1>21, <2>1 DEF Configure, AddressInv, Late, UsbInv, AnswerInv
  <2> QED
    BY <1>0, <1>21, <2>1, <2>2 DEF Configure, Configures, None
<1>22. ASSUME ConfigureEndpoint PROVE DoneInv'
  <2>1. served \in Configures
    BY <1>22 DEF ConfigureEndpoint, AckInv
  <2>2. /\ pc = "config1" /\ selected = 1 => Enabled(1)'
        /\ pc = "config3" /\ selected = 3 => Enabled(3)' /\ (Enabled(1) => Enabled(1)')
    BY <1>22 DEF ConfigureEndpoint, Endpoints
  <2> QED
    BY <1>0, <1>22, <2>1, <2>2 DEF ConfigureEndpoint, Configures
<1>23. ASSUME AddressStatus PROVE DoneInv'
  BY <1>0, <1>23 DEF AddressStatus, Configures, UsbInv, AnswerInv, ServedInv
<1>24. ASSUME AddressEnd PROVE DoneInv'
  BY <1>0, <1>24 DEF AddressEnd, Configures, UsbInv, AnswerInv, ServedInv
<1>25. ASSUME Check PROVE DoneInv'
  BY <1>0, <1>25 DEF Check, Return, None, UsbInv, AnswerInv
<1>26. ASSUME ProcessRPCSetFanspeed PROVE DoneInv'
  BY <1>0, <1>26 DEF ProcessRPCSetFanspeed, None, UsbInv, AnswerInv
<1> QED
  BY <1>1, <1>2, <1>3, <1>4, <1>5, <1>6, <1>7, <1>8, <1>9, <1>10, <1>11, <1>12, <1>13,
     <1>14, <1>15, <1>16, <1>17, <1>18, <1>19, <1>20, <1>21, <1>22, <1>23, <1>24, <1>25, <1>26
     DEF Main

LEMMA DoneInterrupt ==
  ASSUME UsbInv, AddressInv, DoneInv, USB_GEN_vect
  PROVE  DoneInv'
<1>1. UNCHANGED <<mainVars, fan_value, addressed, bus, hostVars>> /\ (Serving' <=> Serving)
  BY DEF USB_GEN_vect, Serving, mainVars
<1>2. "VBUSTI" \notin flags' /\ "EORSTI" \notin flags'
  BY InterruptServed DEF UsbInv
<1>3. CASE "EORSTI" \in flags
  BY <1>1, <1>2, <1>3 DEF DoneInv, Taken, UsbInv, TransferInv, hostVars
<1>4. CASE "EORSTI" \notin flags
  <2>1. UNCHANGED <<selected, config, ep0Vars, bank>>
    BY <1>4, InterruptSelects
  <2> DEFINE Kept(r) == /\ r \in Configures => addressed
                        /\ "VBUSTI" \notin flags
                        /\ Done(r)
  <2>2. ASSUME NEW r, Kept(r) PROVE Done(r)'
    <3>1. state' \in {state, "Suspended", Woken}
      BY <1>4, <2>2, InterruptSelects
    <3>2. r \in Configures => Woken = "Configured"
      BY <2>2 DEF Woken
    <3> QED
      BY <1>1, <2>1, <2>2, <3>1, <3>2 DEF Done, Enabled, mainVars
  <2>3. ASSUME Taken, in # None PROVE Done(request)'
    <3>1. Kept(request)
      BY <1>4, <2>3 DEF DoneInv, Taken, UsbInv, BusInv, AddressInv, Late
    <3>2. UNCHANGED request
      BY <1>1 DEF hostVars
    <3> HIDE DEF Kept
    <3> QED
      BY <2>2, <3>1, <3>2 DEF Done, Enabled
  <2>4. ASSUME acked # None PROVE Done(acked)'
    <3>1. Kept(acked)
      BY <1>4, <2>4 DEF DoneInv, AddressInv, Late
    <3>2. UNCHANGED acked
      BY <1>1 DEF hostVars
    <3> HIDE DEF Kept
    <3> QED
      BY <2>2, <3>1, <3>2 DEF Done, Enabled
  <2> QED
    BY <1>1, <1>2, <2>1, <2>3, <2>4 DEF DoneInv, Taken, Done, mainVars, ep0Vars, hostVars
<1> QED
  BY <1>3, <1>4

LEMMA DoneHost ==
  ASSUME UsbInv, AckInv, AddressInv, DoneInv, HostToken \/ Environment
  PROVE  DoneInv'
<1> USE DEF DoneInv, Taken, Idle, ep0Vars, hostVars
<1>0. /\ UNCHANGED <<mainVars, devVars, fan_value>> /\ UNCHANGED <<pc, served, left, config>>
      /\ (Serving' <=> Serving)
  BY DEF HostToken, Environment, Serving, mainVars, devVars
<1>1. ASSUME UNCHANGED <<addressed, bank>>, NEW r, Done(r) PROVE Done(r)'
  BY <1>0, <1>1 DEF Done, Enabled, mainVars, devVars
<1>2. ASSUME HostIn PROVE DoneInv'
  BY <1>0, <1>2 DEF HostIn, Transfer
<1>3. ASSUME HostOut PROVE DoneInv'
  BY <1>0, <1>1, <1>3 DEF HostOut, Transfer
<1>4. ASSUME HostStatus PROVE DoneInv'
  <2>1. /\ Taken /\ bus = "active" /\ "EORSTI" \notin flags
        /\ Serving => served = request
    BY <1>4 DEF HostStatus, Transfer, Reachable, UsbInv, TransferInv, AnswerInv
  <2>2. /\ pc \notin {"read", "address"} /\ (pc = "status" => request \notin Configures)
        /\ Done(request)
    <3>1. CASE request \in Reads
      BY <2>1, <3>1 DEF Reads, Configures, Serving, Done, UsbInv, ServedInv
    <3>2. CASE request \notin Reads
      <4>1. in # None
        BY <1>4, <3>2 DEF HostStatus
      <4> QED
        BY <2>1, <3>2, <4>1 DEF AckInv
    <3> QED
      BY <3>1, <3>2
  <2>3. /\ acked' = request /\ stage' = "idle"
        /\ UNCHANGED <<flags, addressed, setup, bank, bus>>
    BY <1>4 DEF HostStatus
  <2>4. Done(acked)'
    BY <1>0, <2>2, <2>3 DEF Done, Enabled, mainVars, devVars
  <2> QED
    BY <1>0, <2>1, <2>2, <2>3, <2>4 DEF Done, Enabled
<1>5. ASSUME HostStalled \/ HostGivesUp PROVE DoneInv'
  BY <1>0, <1>1, <1>5 DEF HostStalled, HostGivesUp
<1>6. ASSUME NEW r \in Requests, HostSetup(r) PROVE DoneInv'
  BY <1>0, <1>6, RequestsAssumption DEF HostSetup, AllRequests, None
<1>7. ASSUME NEW e \in Endpoints, HostPoll(e) PROVE DoneInv'
  <2>1. Enabled(1) => Enabled(1)'
    BY <1>7 DEF HostPoll, Enabled, UsbInv, TypeOK, Endpoints
  <2>2. Enabled(3) => Enabled(3)'
    BY <1>7 DEF HostPoll, Enabled, UsbInv, TypeOK, Endpoints
  <2>3. UNCHANGED <<flags, addressed, ep0Vars, bus, hostVars>>
    BY <1>7 DEF HostPoll
  <2> HIDE DEF Enabled
  <2> QED
    BY <1>0, <2>1, <2>2, <2>3 DEF Done, mainVars, devVars
<1>8. ASSUME BusReset \/ Detach PROVE DoneInv'
  BY <1>0, <1>8 DEF BusReset, Detach
<1>9. ASSUME BusIdle \/ BusActive \/ Attach PROVE DoneInv'
  BY <1>0, <1>1, <1>9 DEF BusIdle, BusActive, Attach
<1> QED
  BY <1>2, <1>3, <1>4, <1>5, <1>6, <1>7, <1>8, <1>9 DEF HostToken, Environment
-----------------------------------------------------------------------------
RequestInv == UsbInv /\ AckInv /\ NestInv /\ AddressInv /\ DoneInv

LEMMA RequestStep == RequestInv /\ [Next]_vars => RequestInv'
<1> SUFFICES ASSUME RequestInv, [Next]_vars PROVE RequestInv'
  OBVIOUS
<1> USE DEF RequestInv
<1>1. UsbInv'
  BY UsbStep
<1>2. CASE Main
  BY <1>1, <1>2, AckMain, NestMain, AddressMain, DoneMain
<1>3. CASE USB_GEN_vect
  BY <1>1, <1>3, AckInterrupt, NestInterrupt, AddressInterrupt,
     DoneInterrupt
<1>4. CASE HostToken \/ Environment
  BY <1>1, <1>4, AckHost, NestHost, AddressHost, DoneHost
<1>5. CASE UNCHANGED vars
  BY <1>1, <1>5
     DEF AckInv, NestInv, AddressInv, DoneInv, Done, Enabled, ConfiguredHasAddress, Taken, AddressAgreed,
         Serving, vars, mainVars, devVars, ep0Vars, hostVars
<1> QED
  BY <1>2, <1>3, <1>4, <1>5 DEF Next

THEOREM RequestInvariant == Spec => []RequestInv
<1>1. Init => RequestInv
  BY InitiallyUsbInv, InitiallyAckInv, InitiallyNestInv, InitiallyAddressInv,
     InitiallyDoneInv
     DEF RequestInv
<1> QED
  BY <1>1, RequestStep, PTL DEF Spec

(***************************************************************************)
(* LUFA and RPC.c acknowledge SetFanspeed, a configuration and an address  *)
(* before they act on them; whatever reset, suspend, resume or cable       *)
(* comes in between, main has done what the host has the status of before  *)
(* it serves the next request or writes the next report.                   *)
(***************************************************************************)
THEOREM AcknowledgementsAreTrue == Spec => []AcknowledgedIsDone
<1>1. ASSUME RequestInv, ~ Serving, acked # None PROVE AcknowledgedIsDone
  <2>1. /\ Done(acked) /\ Awake
        /\ pc \notin {"speed", "configure", "config1", "config3", "address_end"}
    BY <1>1 DEF RequestInv, DoneInv, Serving, UsbInv, TypeOK, BusInv, Awake, Interrupt
  <2> QED
    BY <2>1 DEF Done, Enabled, Awake, Endpoints, Configures, AcknowledgedIsDone
<1>2. acked = None => AcknowledgedIsDone
  BY DEF AcknowledgedIsDone, Configures, None
<1>3. RequestInv => AcknowledgedIsDone
  BY <1>1, <1>2 DEF AcknowledgedIsDone
<1> QED
  BY <1>3, RequestInvariant, PTL

(***************************************************************************)
(* SetDeviceAddress and the host agree on the address: a reset between the *)
(* status stage and the enabling takes it away from both.                  *)
(***************************************************************************)
THEOREM AddressIsAgreed == Spec => []AddressAgreed
<1>1. RequestInv => AddressAgreed
  BY DEF RequestInv, AckInv
<1> QED
  BY <1>1, RequestInvariant, PTL

(***************************************************************************)
(* The call of USB_USBTask inside Endpoint_Write_Stream_LE serves no       *)
(* SetFanspeed: the host may ask for one only after an address, and has    *)
(* given none since the reset that led to the call.                        *)
(***************************************************************************)
THEOREM SpeedServedOncePerTurn == Spec => []SpeedOncePerTurn
<1>1. RequestInv => SpeedOncePerTurn
  BY DEF RequestInv, UsbInv, ServedInv, NestInv, SpeedOncePerTurn, Late, Serving
<1> QED
  BY <1>1, RequestInvariant, PTL

(***************************************************************************)
(* Configure and WakeUp take the device for configured only with a         *)
(* configuration or an address; ConfiguredIsConfigured asks for more, and  *)
(* is violated.                                                            *)
(***************************************************************************)
THEOREM ConfiguredDeviceHasAddress == Spec => []ConfiguredHasAddress
<1>1. RequestInv => ConfiguredHasAddress
  BY DEF RequestInv, AddressInv
<1> QED
  BY <1>1, RequestInvariant, PTL
=============================================================================
