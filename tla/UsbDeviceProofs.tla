--------------------------- MODULE UsbDeviceProofs ---------------------------
(***************************************************************************)
(* Proofs about the USB device, for any requests of the host and any       *)
(* number of packets.                                                      *)
(***************************************************************************)
EXTENDS UsbDevice, TLAPS

\* A SETUP packet comes to an endpoint without anything else in it; the host
\* is in a transfer only while no reset is pending.
TransferInv ==
  /\ stage = "data" => expect # 0 /\ request \in Reads \cup {"SetFanspeed"}
  /\ "EORSTI" \in flags => stage = "idle"
  /\ setup # None => ~ stall /\ ~ out /\ in = None
  /\ stage # "idle" /\ setup # None => setup = request /\ (Serving => overtook)
  /\ StallJustified

\* The host is in a transfer only with an active bus and a device that is
\* awake, and a device sleeps only with its wake-up interrupt enabled.
BusInv ==
  /\ bus # "active" => stage = "idle"
  /\ "SUSPI" \in flags => bus # "active"
  /\ bus # "off" /\ "VBUSTI" \notin flags => state # "Unattached"
  /\ state = "Unattached" => ~ Masked /\ bus \in {"off", "new"}
  /\ state = "Suspended" => armed = "WAKEUPI"
  /\ Gone => stage = "idle"

\* Each loop serves the request it is made for.
ServedInv ==
  /\ pc \in {"write", "write_end"} => served = "GetDescriptor"
  /\ pc \in {"read", "speed"} => served = "SetFanspeed"
  /\ pc \in {"address", "address_end"} => served = "SetAddress"

\* The host is in a transfer that the device has taken up.
Taken == stage # "idle" /\ setup = None /\ ~ stall

\* main has given its last answer to the request it serves, if it serves one.
AnswerGiven ==
  ~ Serving \/ pc \in {"speed", "configure", "config1", "config3", "address_end", "check"}

\* While the host has not fetched it, the last answer waits in endpoint 0 and
\* keeps everything else out.
AnswerInv ==
  Taken =>
    /\ Serving => served = request
    /\ out => request = "SetFanspeed" /\ stage = "status"
    /\ AnswerGiven => in # None /\ request \notin Reads
    /\ in # "stray"

\* A stream that ended without its packet was broken off with the transfer.
StreamInv == pc = "speed" /\ left # 0 => stage = "idle" \/ overtook

UsbInv == TypeOK /\ TransferInv /\ BusInv /\ ServedInv /\ AnswerInv /\ StreamInv
-----------------------------------------------------------------------------
LEMMA InitiallyUsbInv == Init => UsbInv
<1> SUFFICES ASSUME Init PROVE UsbInv
  OBVIOUS
<1> USE DEF Init, None, Endpoints
<1>1. TypeOK
  <2>1. bank \in [Endpoints -> {"off", "disabled", "free", "report", "stray"}]
    OBVIOUS
  <2>2. /\ nested \in BOOLEAN /\ addressed \in BOOLEAN /\ control \in BOOLEAN
        /\ out \in BOOLEAN /\ stall \in BOOLEAN /\ haddr \in BOOLEAN
        /\ overtook \in BOOLEAN
    BY Zenon
  <2> QED
    BY <2>1, <2>2, PacketsAssumption DEF TypeOK
<1>2. TransferInv /\ BusInv
  BY DEF TransferInv, BusInv, StallJustified, Masked, Gone
<1>3. ServedInv /\ AnswerInv /\ StreamInv
  BY DEF ServedInv, AnswerInv, StreamInv, Taken
<1> QED
  BY <1>1, <1>2, <1>3 DEF UsbInv
-----------------------------------------------------------------------------
(* Types.                                                                   *)

\* The records that USB_GEN_vect works on.
DeviceRegisters ==
  [state : {"Unattached", "Powered", "Default", "Addressed", "Configured", "Suspended"},
   config : {0, 1}, armed : {"SUSPI", "WAKEUPI"}, selected : {0} \cup Endpoints,
   flags : SUBSET {"VBUSTI", "SUSPI", "EORSTI"}, reset : BOOLEAN]

LEMMA VbusChangeType ==
  ASSUME NEW r \in DeviceRegisters
  PROVE  VbusChange(r) \in DeviceRegisters
BY DEF VbusChange, DeviceRegisters

LEMMA SuspendType ==
  ASSUME NEW r \in DeviceRegisters
  PROVE  Suspend(r) \in DeviceRegisters
BY DEF Suspend, DeviceRegisters

LEMMA WakeUpType ==
  ASSUME NEW r \in DeviceRegisters
  PROVE  WakeUp(r) \in DeviceRegisters
BY DEF WakeUp, DeviceRegisters

LEMMA EndOfResetType ==
  ASSUME NEW r \in DeviceRegisters
  PROVE  EndOfReset(r) \in DeviceRegisters
BY DEF EndOfReset, DeviceRegisters

LEMMA MainType ==
  ASSUME TypeOK, Main
  PROVE  TypeOK'
<1> USE RequestsAssumption, PacketsAssumption
    DEF TypeOK, AllRequests, mainVars, devVars, ep0Vars, hostVars, None,
        Endpoints
<1>0. UNCHANGED <<flags, bus, hostVars>>
  BY DEF Main
<1>1. ASSUME Task PROVE TypeOK'
  BY <1>0, <1>1 DEF Task, NextTask
<1>2. ASSUME Ready PROVE TypeOK'
  BY <1>0, <1>2 DEF Ready
<1>3. ASSUME NotReady PROVE TypeOK'
  BY <1>0, <1>3 DEF NotReady
<1>4. ASSUME Put PROVE TypeOK'
  <2>1. nested' \in BOOLEAN
    BY <1>4, Zenon DEF Put, ClearIN
  <2> QED
    BY <1>0, <1>4, <2>1 DEF Put, ClearIN
<1>5. ASSUME Sent PROVE TypeOK'
  BY <1>0, <1>5 DEF Sent, ClearIN, NextTask
<1>6. ASSUME NoSetup PROVE TypeOK'
  <2>1. nested' \in BOOLEAN
    BY <1>6, Zenon DEF NoSetup, Return
  <2> QED
    BY <1>0, <1>6, <2>1 DEF NoSetup, Return
<1>7. ASSUME GetDescriptor PROVE TypeOK'
  BY <1>0, <1>7 DEF GetDescriptor, Begin
<1>8. ASSUME SetFanspeed PROVE TypeOK'
  BY <1>0, <1>8 DEF SetFanspeed, Begin
<1>9. ASSUME GetStatus PROVE TypeOK'
  BY <1>0, <1>9 DEF GetStatus, Begin
<1>10. ASSUME ClearFeature PROVE TypeOK'
  BY <1>0, <1>10 DEF ClearFeature, Begin
<1>11. ASSUME SetConfiguration PROVE TypeOK'
  BY <1>0, <1>11 DEF SetConfiguration, Begin
<1>12. ASSUME SetAddress PROVE TypeOK'
  BY <1>0, <1>12 DEF SetAddress, Begin
<1>13. ASSUME Unhandled PROVE TypeOK'
  <2>1. nested' \in BOOLEAN /\ stall' \in BOOLEAN
    BY <1>13, Zenon DEF Unhandled, Return
  <2> QED
    BY <1>0, <1>13, <2>1 DEF Unhandled, Return
<1>14. ASSUME WriteStop PROVE TypeOK'
  <2>1. out' \in BOOLEAN
    BY <1>14, Zenon DEF WriteStop, WriteEnds
  <2> QED
    BY <1>0, <1>14, <2>1 DEF WriteStop, WriteEnds
<1>15. ASSUME WritePacket PROVE TypeOK'
  BY <1>0, <1>15 DEF WritePacket
<1>16. ASSUME WriteEnd PROVE TypeOK'
  <2>1. out' \in BOOLEAN
    BY <1>16, Zenon DEF WriteEnd, WriteEnds
  <2> QED
    BY <1>0, <1>16, <2>1 DEF WriteEnd, WriteEnds
<1>17. ASSUME ReadStop PROVE TypeOK'
  BY <1>0, <1>17 DEF ReadStop, ReadEnds
<1>18. ASSUME ReadPacket PROVE TypeOK'
  <2>1. out' \in BOOLEAN
    BY <1>18, Zenon DEF ReadPacket
  <2> QED
    BY <1>0, <1>18, <2>1 DEF ReadPacket
<1>19. ASSUME ReadEnd PROVE TypeOK'
  BY <1>0, <1>19 DEF ReadEnd, ReadEnds
<1>20. ASSUME StatusStage PROVE TypeOK'
  <2>1. out' \in BOOLEAN
    BY <1>20, Zenon DEF StatusStage, AfterStatus
  <2> QED
    BY <1>0, <1>20, <2>1 DEF StatusStage, AfterStatus
<1>21. ASSUME Configure PROVE TypeOK'
  BY <1>0, <1>21 DEF Configure
<1>22. ASSUME ConfigureEndpoint PROVE TypeOK'
  <2>1. control' \in BOOLEAN
    BY <1>22, Zenon DEF ConfigureEndpoint
  <2> QED
    BY <1>0, <1>22, <2>1 DEF ConfigureEndpoint
<1>23. ASSUME AddressStatus PROVE TypeOK'
  BY <1>0, <1>23 DEF AddressStatus
<1>24. ASSUME AddressEnd PROVE TypeOK'
  BY <1>0, <1>24 DEF AddressEnd
<1>25. ASSUME Check PROVE TypeOK'
  <2>1. nested' \in BOOLEAN /\ stall' \in BOOLEAN
    BY <1>25, Zenon DEF Check, Return
  <2> QED
    BY <1>0, <1>25, <2>1 DEF Check, Return
<1>26. ASSUME ProcessRPCSetFanspeed PROVE TypeOK'
  BY <1>0, <1>26 DEF ProcessRPCSetFanspeed
<1> QED
  BY <1>1, <1>2, <1>3, <1>4, <1>5, <1>6, <1>7, <1>8, <1>9, <1>10, <1>11, <1>12, <1>13,
     <1>14, <1>15, <1>16, <1>17, <1>18, <1>19, <1>20, <1>21, <1>22, <1>23, <1>24, <1>25, <1>26
     DEF Main


LEMMA InterruptType ==
  ASSUME TypeOK, USB_GEN_vect
  PROVE  TypeOK'
<1> DEFINE r == EndOfReset(WakeUp(Suspend(VbusChange(Registers))))
<1>1. Registers \in DeviceRegisters
  <2>1. FALSE \in BOOLEAN
    BY Zenon
  <2> QED
    BY <2>1 DEF Registers, DeviceRegisters, TypeOK
<1>2. r \in DeviceRegisters
  BY <1>1, VbusChangeType, SuspendType, WakeUpType, EndOfResetType
<1>3. /\ state' = r.state /\ config' = r.config /\ armed' = r.armed
      /\ selected' = r.selected /\ flags' = r.flags
  BY DEF USB_GEN_vect
<1> HIDE DEF r
<1>4. /\ state' \in {"Unattached", "Powered", "Default", "Addressed", "Configured", "Suspended"}
      /\ config' \in {0, 1} /\ armed' \in {"SUSPI", "WAKEUPI"}
      /\ selected' \in {0} \cup Endpoints /\ flags' \subseteq {"VBUSTI", "SUSPI", "EORSTI"}
  BY <1>2, <1>3 DEF DeviceRegisters
<1>5. UNCHANGED <<mainVars, fan_value, addressed, bus, hostVars>>
  BY DEF USB_GEN_vect
<1>6. /\ control' \in BOOLEAN /\ out' \in BOOLEAN /\ stall' \in BOOLEAN
      /\ setup' \in {setup, None} /\ in' \in {in, None}
      /\ bank' \in {bank, [e \in Endpoints |-> IF bank[e] = "off" THEN "off" ELSE "free"]}
  BY Zenon DEF USB_GEN_vect, TypeOK, ep0Vars
<1>7. /\ setup' \in Requests \cup {None} /\ in' \in {None, "full", "short", "stray"}
      /\ bank' \in [Endpoints -> {"off", "disabled", "free", "report", "stray"}]
  BY <1>6 DEF TypeOK
<1> QED
  BY <1>4, <1>5, <1>6, <1>7 DEF TypeOK, mainVars, hostVars

LEMMA HostType ==
  ASSUME TypeOK, TransferInv, HostToken \/ Environment
  PROVE  TypeOK'
<1> USE RequestsAssumption, PacketsAssumption
    DEF TypeOK, AllRequests, mainVars, devVars, ep0Vars, hostVars, None, Idle
<1>0. UNCHANGED <<mainVars, devVars, fan_value>>
  BY DEF HostToken, Environment
<1>1. ASSUME HostIn PROVE TypeOK'
  <2>1. stage = "data" /\ expect - 1 \in 0..Packets
    BY <1>1 DEF HostIn, Transfer, TransferInv
  <2>2. stage' \in {"data", "status"} /\ expect' \in {0, expect - 1}
    BY <1>1, <2>1 DEF HostIn
  <2> QED
    BY <1>0, <1>1, <2>1, <2>2 DEF HostIn
<1>2. ASSUME HostOut PROVE TypeOK'
  <2>1. out' \in BOOLEAN
    BY <1>2, Zenon DEF HostOut
  <2> QED
    BY <1>0, <1>2, <2>1 DEF HostOut
<1>3. ASSUME HostStatus PROVE TypeOK'
  <2>1. out' \in BOOLEAN /\ haddr' \in BOOLEAN /\ overtook' \in BOOLEAN
    BY <1>3, Zenon DEF HostStatus
  <2> QED
    BY <1>0, <1>3, <2>1 DEF HostStatus
<1>4. ASSUME HostStalled \/ HostGivesUp PROVE TypeOK'
  <2>1. Idle /\ UNCHANGED <<flags, addressed, control, ep0Vars, bank, bus, haddr, acked>>
    BY <1>4, Zenon DEF HostStalled, HostGivesUp
  <2>2. overtook' \in BOOLEAN
    BY <2>1, Zenon
  <2> QED
    BY <1>0, <2>1, <2>2
<1>5. ASSUME NEW r \in Requests, HostSetup(r) PROVE TypeOK'
  <2>1. out' \in BOOLEAN /\ stall' \in BOOLEAN /\ overtook' \in BOOLEAN
    BY <1>5, Zenon DEF HostSetup, Serving
  <2>2. expect' \in 0..Packets
    BY <1>5 DEF HostSetup
  <2>3. stage' \in {"idle", "data", "status"}
    BY <1>5 DEF HostSetup, FirstStage
  <2> QED
    BY <1>0, <1>5, <2>1, <2>2, <2>3 DEF HostSetup
<1>6. ASSUME NEW e \in Endpoints, HostPoll(e) PROVE TypeOK'
  BY <1>0, <1>6 DEF HostPoll
<1>7. ASSUME BusReset PROVE TypeOK'
  <2>1. /\ out' \in BOOLEAN /\ stall' \in BOOLEAN /\ overtook' \in BOOLEAN
        /\ addressed' \in BOOLEAN /\ haddr' \in BOOLEAN
    BY <1>7, Zenon DEF BusReset
  <2>2. bank' \in [Endpoints -> {"off", "disabled", "free", "report", "stray"}]
    BY <1>7 DEF BusReset
  <2>3. bus' = "active" /\ flags' \subseteq {"VBUSTI", "SUSPI", "EORSTI"}
    BY <1>7 DEF BusReset
  <2>4. /\ UNCHANGED control /\ Idle /\ setup' = None /\ in' \in {in, None}
        /\ acked' = None
    BY <1>7 DEF BusReset
  <2> QED
    BY <1>0, <2>1, <2>2, <2>3, <2>4
<1>8. ASSUME BusIdle \/ BusActive \/ Attach PROVE TypeOK'
  <2>1. UNCHANGED <<addressed, control, ep0Vars, bank, hostVars>>
    BY <1>8, Zenon DEF BusIdle, BusActive, Attach
  <2>2. /\ bus' \in {"new", "idle", "active"}
        /\ flags' \subseteq {"VBUSTI", "SUSPI", "EORSTI"}
    BY <1>8 DEF BusIdle, BusActive, Attach
  <2> QED
    BY <1>0, <2>1, <2>2
<1>9. ASSUME Detach PROVE TypeOK'
  <2>1. overtook' \in BOOLEAN /\ haddr' \in BOOLEAN
    BY <1>9, Zenon DEF Detach
  <2> QED
    BY <1>0, <1>9, <2>1 DEF Detach
<1> QED
  BY <1>1, <1>2, <1>3, <1>4, <1>5, <1>6, <1>7, <1>8, <1>9 DEF HostToken, Environment

LEMMA TypeStep == TypeOK /\ TransferInv /\ [Next]_vars => TypeOK'
<1>1. ASSUME TypeOK, UNCHANGED vars PROVE TypeOK'
  BY <1>1 DEF TypeOK, vars, mainVars, devVars, ep0Vars, hostVars
<1> QED
  BY <1>1, MainType, InterruptType, HostType DEF Next
-----------------------------------------------------------------------------
(* The control endpoint.                                                    *)

\* What a step of main does to a SETUP packet.
SetupKept    == UNCHANGED <<setup, stall>> /\ (Serving' => Serving)
SetupTaken   == setup # None /\ setup' = None /\ UNCHANGED stall
SetupRefused == setup # None /\ setup' = None /\ stall' = TRUE
                  /\ (setup = "Unknown" \/ Serving)
SetupStep    == SetupKept \/ SetupTaken \/ SetupRefused

LEMMA SetupMain ==
  ASSUME Main
  PROVE  SetupStep
<1> USE DEF SetupStep, SetupKept, SetupTaken, SetupRefused, Serving, ep0Vars
<1>1. ASSUME Task PROVE SetupStep
  BY <1>1 DEF Task, NextTask
<1>2. ASSUME Ready PROVE SetupStep
  BY <1>2 DEF Ready
<1>3. ASSUME NotReady PROVE SetupStep
  BY <1>3 DEF NotReady
<1>4. ASSUME Put PROVE SetupStep
  BY <1>4 DEF Put, ClearIN
<1>5. ASSUME Sent PROVE SetupStep
  BY <1>5 DEF Sent, ClearIN, NextTask
<1>6. ASSUME NoSetup PROVE SetupStep
  BY <1>6 DEF NoSetup, Return
<1>7. ASSUME GetDescriptor PROVE SetupStep
  BY <1>7 DEF GetDescriptor, Begin, None
<1>8. ASSUME SetFanspeed PROVE SetupStep
  BY <1>8 DEF SetFanspeed, Begin, None
<1>9. ASSUME GetStatus PROVE SetupStep
  BY <1>9 DEF GetStatus, Begin, None
<1>10. ASSUME ClearFeature PROVE SetupStep
  BY <1>10 DEF ClearFeature, Begin, None
<1>11. ASSUME SetConfiguration PROVE SetupStep
  BY <1>11 DEF SetConfiguration, Begin, None, Configures
<1>12. ASSUME SetAddress PROVE SetupStep
  BY <1>12 DEF SetAddress, Begin, None
<1>13. ASSUME Unhandled PROVE SetupStep
  BY <1>13 DEF Unhandled, Return, None
<1>14. ASSUME WriteStop PROVE SetupStep
  BY <1>14 DEF WriteStop, WriteEnds
<1>15. ASSUME WritePacket PROVE SetupStep
  BY <1>15 DEF WritePacket
<1>16. ASSUME WriteEnd PROVE SetupStep
  BY <1>16 DEF WriteEnd, WriteEnds
<1>17. ASSUME ReadStop PROVE SetupStep
  BY <1>17 DEF ReadStop, ReadEnds
<1>18. ASSUME ReadPacket PROVE SetupStep
  BY <1>18 DEF ReadPacket
<1>19. ASSUME ReadEnd PROVE SetupStep
  BY <1>19 DEF ReadEnd, ReadEnds
<1>20. ASSUME StatusStage PROVE SetupStep
  BY <1>20 DEF StatusStage, AfterStatus
<1>21. ASSUME Configure PROVE SetupStep
  BY <1>21 DEF Configure
<1>22. ASSUME ConfigureEndpoint PROVE SetupStep
  BY <1>22 DEF ConfigureEndpoint
<1>23. ASSUME AddressStatus PROVE SetupStep
  BY <1>23 DEF AddressStatus
<1>24. ASSUME AddressEnd PROVE SetupStep
  BY <1>24 DEF AddressEnd
<1>25. ASSUME Check PROVE SetupStep
  BY <1>25 DEF Check, Return
<1>26. ASSUME ProcessRPCSetFanspeed PROVE SetupStep
  BY <1>26 DEF ProcessRPCSetFanspeed
<1> QED
  BY <1>1, <1>2, <1>3, <1>4, <1>5, <1>6, <1>7, <1>8, <1>9, <1>10, <1>11, <1>12, <1>13,
     <1>14, <1>15, <1>16, <1>17, <1>18, <1>19, <1>20, <1>21, <1>22, <1>23, <1>24, <1>25, <1>26
     DEF Main


LEMMA ServedMain ==
  ASSUME ServedInv, Main
  PROVE  ServedInv'
<1> USE DEF ServedInv
<1>1. ASSUME Task PROVE ServedInv'
  BY <1>1 DEF Task, NextTask
<1>2. ASSUME Ready PROVE ServedInv'
  BY <1>2 DEF Ready
<1>3. ASSUME NotReady PROVE ServedInv'
  BY <1>3 DEF NotReady
<1>4. ASSUME Put PROVE ServedInv'
  BY <1>4 DEF Put, ClearIN
<1>5. ASSUME Sent PROVE ServedInv'
  BY <1>5 DEF Sent, ClearIN, NextTask
<1>6. ASSUME NoSetup PROVE ServedInv'
  BY <1>6 DEF NoSetup, Return
<1>7. ASSUME GetDescriptor PROVE ServedInv'
  BY <1>7 DEF GetDescriptor, Begin
<1>8. ASSUME SetFanspeed PROVE ServedInv'
  BY <1>8 DEF SetFanspeed, Begin
<1>9. ASSUME GetStatus PROVE ServedInv'
  BY <1>9 DEF GetStatus, Begin
<1>10. ASSUME ClearFeature PROVE ServedInv'
  BY <1>10 DEF ClearFeature, Begin
<1>11. ASSUME SetConfiguration PROVE ServedInv'
  BY <1>11 DEF SetConfiguration, Begin
<1>12. ASSUME SetAddress PROVE ServedInv'
  BY <1>12 DEF SetAddress, Begin
<1>13. ASSUME Unhandled PROVE ServedInv'
  BY <1>13 DEF Unhandled, Return
<1>14. ASSUME WriteStop PROVE ServedInv'
  BY <1>14 DEF WriteStop, WriteEnds
<1>15. ASSUME WritePacket PROVE ServedInv'
  BY <1>15 DEF WritePacket
<1>16. ASSUME WriteEnd PROVE ServedInv'
  BY <1>16 DEF WriteEnd, WriteEnds
<1>17. ASSUME ReadStop PROVE ServedInv'
  BY <1>17 DEF ReadStop, ReadEnds
<1>18. ASSUME ReadPacket PROVE ServedInv'
  BY <1>18 DEF ReadPacket
<1>19. ASSUME ReadEnd PROVE ServedInv'
  BY <1>19 DEF ReadEnd, ReadEnds
<1>20. ASSUME StatusStage PROVE ServedInv'
  BY <1>20 DEF StatusStage, AfterStatus
<1>21. ASSUME Configure PROVE ServedInv'
  BY <1>21 DEF Configure
<1>22. ASSUME ConfigureEndpoint PROVE ServedInv'
  BY <1>22 DEF ConfigureEndpoint
<1>23. ASSUME AddressStatus PROVE ServedInv'
  BY <1>23 DEF AddressStatus
<1>24. ASSUME AddressEnd PROVE ServedInv'
  BY <1>24 DEF AddressEnd
<1>25. ASSUME Check PROVE ServedInv'
  BY <1>25 DEF Check, Return, None
<1>26. ASSUME ProcessRPCSetFanspeed PROVE ServedInv'
  BY <1>26 DEF ProcessRPCSetFanspeed
<1> QED
  BY <1>1, <1>2, <1>3, <1>4, <1>5, <1>6, <1>7, <1>8, <1>9, <1>10, <1>11, <1>12, <1>13,
     <1>14, <1>15, <1>16, <1>17, <1>18, <1>19, <1>20, <1>21, <1>22, <1>23, <1>24, <1>25, <1>26
     DEF Main


\* Begin empties the bank of a request that the host has just made.
LEMMA TransferMain ==
  ASSUME TransferInv, Main
  PROVE  TransferInv'
<1>1. UNCHANGED <<flags, bus, hostVars>>
  BY DEF Main
<1>2. SetupStep
  BY SetupMain
<1>3. setup' # None => ~ out' /\ in' = None
  <2>1. SUFFICES ASSUME setup' # None, setup = setup', ~ out, in = None
                 PROVE  ~ out' /\ in' = None
    BY <1>2, Zenon DEF SetupStep, SetupKept, SetupTaken, SetupRefused, TransferInv
  <2> USE DEF ep0Vars
  <2>2. CASE Task
    BY <2>1, <2>2 DEF Task, NextTask
  <2>3. CASE Ready
    BY <2>1, <2>3 DEF Ready
  <2>4. CASE NotReady
    BY <2>1, <2>4 DEF NotReady
  <2>5. CASE Put
    BY <2>1, <2>5 DEF Put, ClearIN
  <2>6. CASE Sent
    BY <2>1, <2>6 DEF Sent, ClearIN, NextTask
  <2>7. CASE NoSetup
    BY <2>1, <2>7 DEF NoSetup, Return
  <2>8. CASE GetDescriptor
    BY <2>1, <2>8 DEF GetDescriptor, Begin, None
  <2>9. CASE SetFanspeed
    BY <2>1, <2>9 DEF SetFanspeed, Begin, None
  <2>10. CASE GetStatus
    BY <2>1, <2>10 DEF GetStatus, Begin, None
  <2>11. CASE ClearFeature
    BY <2>1, <2>11 DEF ClearFeature, Begin, None
  <2>12. CASE SetConfiguration
    BY <2>1, <2>12 DEF SetConfiguration, Begin, None, Configures
  <2>13. CASE SetAddress
    BY <2>1, <2>13 DEF SetAddress, Begin, None
  <2>14. CASE Unhandled
    BY <2>1, <2>14 DEF Unhandled, Return, None
  <2>15. CASE WriteStop
    BY <2>1, <2>15 DEF WriteStop, WriteEnds
  <2>16. CASE WritePacket
    BY <2>1, <2>16 DEF WritePacket
  <2>17. CASE WriteEnd
    BY <2>1, <2>17 DEF WriteEnd, WriteEnds
  <2>18. CASE ReadStop
    BY <2>1, <2>18 DEF ReadStop, ReadEnds
  <2>19. CASE ReadPacket
    BY <2>1, <2>19 DEF ReadPacket
  <2>20. CASE ReadEnd
    BY <2>1, <2>20 DEF ReadEnd, ReadEnds
  <2>21. CASE StatusStage
    BY <2>1, <2>21 DEF StatusStage, AfterStatus
  <2>22. CASE Configure
    BY <2>1, <2>22 DEF Configure
  <2>23. CASE ConfigureEndpoint
    BY <2>1, <2>23 DEF ConfigureEndpoint
  <2>24. CASE AddressStatus
    BY <2>1, <2>24 DEF AddressStatus
  <2>25. CASE AddressEnd
    BY <2>1, <2>25 DEF AddressEnd
  <2>26. CASE Check
    BY <2>1, <2>26 DEF Check, Return
  <2>27. CASE ProcessRPCSetFanspeed
    BY <2>1, <2>27 DEF ProcessRPCSetFanspeed
  <2> QED
    BY <2>2, <2>3, <2>4, <2>5, <2>6, <2>7, <2>8, <2>9, <2>10, <2>11, <2>12, <2>13, <2>14,
       <2>15, <2>16, <2>17, <2>18, <2>19, <2>20, <2>21, <2>22, <2>23, <2>24, <2>25, <2>26, <2>27
       DEF Main
<1>4. CASE SetupKept
  BY <1>1, <1>3, <1>4 DEF SetupKept, TransferInv, StallJustified, hostVars
<1>5. CASE SetupTaken
  BY <1>1, <1>5 DEF SetupTaken, TransferInv, StallJustified, hostVars
<1>6. CASE SetupRefused
  BY <1>1, <1>6 DEF SetupRefused, TransferInv, StallJustified, hostVars, None
<1> QED
  BY <1>2, <1>4, <1>5, <1>6 DEF SetupStep

LEMMA TransferHost ==
  ASSUME TypeOK, TransferInv, HostToken \/ Environment
  PROVE  TransferInv'
<1> USE DEF TransferInv, StallJustified, Idle, ep0Vars
<1>0. UNCHANGED <<mainVars, devVars, fan_value>> /\ (Serving' <=> Serving)
  BY DEF HostToken, Environment, Serving, mainVars
<1>1. ASSUME HostIn PROVE TransferInv'
  <2>1. expect' = expect - 1 => expect' # 0 \/ stage' # "data"
    BY <1>1 DEF HostIn, TypeOK
  <2> QED
    BY <1>0, <1>1, <2>1 DEF HostIn, Transfer
<1>2. ASSUME HostOut PROVE TransferInv'
  BY <1>0, <1>2 DEF HostOut, Transfer
<1>3. ASSUME HostStatus PROVE TransferInv'
  BY <1>0, <1>3 DEF HostStatus, Transfer
<1>4. ASSUME HostStalled \/ HostGivesUp PROVE TransferInv'
  BY <1>0, <1>4 DEF HostStalled, HostGivesUp
<1>5. ASSUME NEW r \in Requests, HostSetup(r) PROVE TransferInv'
  <2>1. stage' = "data" => expect' # 0 /\ request' \in Reads \cup {"SetFanspeed"}
    BY <1>5, PacketsAssumption DEF HostSetup, FirstStage
  <2>2. "EORSTI" \notin flags' /\ overtook' = Serving
    BY <1>5 DEF HostSetup
  <2>3. ~ stall' /\ ~ out' /\ in' = None
    BY <1>5, Zenon DEF HostSetup
  <2>4. setup' = request'
    BY <1>5 DEF HostSetup
  <2> QED
    BY <1>0, <2>1, <2>2, <2>3, <2>4
<1>6. ASSUME NEW e \in Endpoints, HostPoll(e) PROVE TransferInv'
  BY <1>0, <1>6 DEF HostPoll, hostVars
<1>7. ASSUME BusReset PROVE TransferInv'
  BY <1>0, <1>7 DEF BusReset
<1>8. ASSUME BusIdle \/ BusActive \/ Attach PROVE TransferInv'
  <2>1. UNCHANGED <<ep0Vars, hostVars>> /\ ("EORSTI" \in flags' => "EORSTI" \in flags)
    BY <1>8 DEF BusIdle, BusActive, Attach
  <2> QED
    BY <1>0, <2>1 DEF hostVars
<1>9. ASSUME Detach PROVE TransferInv'
  BY <1>0, <1>9 DEF Detach
<1> QED
  BY <1>1, <1>2, <1>3, <1>4, <1>5, <1>6, <1>7, <1>8, <1>9 DEF HostToken, Environment
-----------------------------------------------------------------------------
(* The device state.                                                        *)

\* What a chain of handlers makes of the state of the device.
VbusDone(r) ==
  /\ "VBUSTI" \notin r.flags
  /\ r.flags \subseteq flags
  /\ r.armed = armed
  /\ r.state = "Unattached" => bus = "off" \/ (state = "Unattached" /\ "VBUSTI" \notin flags)
  /\ r.state = "Suspended" => state = "Suspended"

SuspendDone(r) ==
  /\ "VBUSTI" \notin r.flags
  /\ r.flags \subseteq flags
  /\ r.state = "Unattached" => bus = "off" \/ (state = "Unattached" /\ "VBUSTI" \notin flags)
  /\ r.state = "Suspended" =>
       r.armed = "WAKEUPI" /\ (state = "Suspended" \/ "SUSPI" \in flags)

LEMMA InterruptServed ==
  ASSUME TypeOK, BusInv, USB_GEN_vect
  PROVE  /\ flags' \subseteq flags /\ "VBUSTI" \notin flags'
         /\ "EORSTI" \notin flags'
         /\ state' = "Unattached" => bus = "off" \/ (state = "Unattached" /\ "VBUSTI" \notin flags)
         /\ state' = "Suspended" =>
              armed' = "WAKEUPI" /\ (state = "Suspended" \/ "SUSPI" \in flags)
<1>1. Registers \in DeviceRegisters
  <2>1. FALSE \in BOOLEAN
    BY Zenon
  <2> QED
    BY <2>1 DEF Registers, DeviceRegisters, TypeOK
<1> DEFINE r1 == VbusChange(Registers)
           r2 == Suspend(r1)
           r3 == WakeUp(r2)
           r4 == EndOfReset(r3)
<1>2. r1 \in DeviceRegisters /\ VbusDone(r1)
  <2>1. r1 \in DeviceRegisters
    BY <1>1, VbusChangeType
  <2> QED
    BY <2>1 DEF VbusChange, Registers, VbusDone
<1>3. r2 \in DeviceRegisters /\ SuspendDone(r2)
  <2> HIDE DEF r1
  <2>1. r2 \in DeviceRegisters
    BY <1>2, SuspendType
  <2> QED
    BY <1>2, <2>1 DEF Suspend, VbusDone, SuspendDone, DeviceRegisters, BusInv
<1>4. r3 \in DeviceRegisters /\ SuspendDone(r3)
  <2> HIDE DEF r2
  <2>1. r3 \in DeviceRegisters
    BY <1>3, WakeUpType
  <2> QED
    BY <1>3, <2>1 DEF WakeUp, SuspendDone, DeviceRegisters
<1>5. SuspendDone(r4) /\ "EORSTI" \notin r4.flags
  <2> HIDE DEF r3
  <2> QED
    BY <1>4 DEF EndOfReset, SuspendDone, DeviceRegisters
<1>6. state' = r4.state /\ armed' = r4.armed /\ flags' = r4.flags
  BY DEF USB_GEN_vect
<1> HIDE DEF r4
<1> QED
  BY <1>5, <1>6 DEF SuspendDone

\* The interrupt touches the endpoints only while the host is in no transfer.
LEMMA NoResetInTransfer ==
  ASSUME TransferInv, stage # "idle"
  PROVE  EndOfReset(WakeUp(Suspend(VbusChange(Registers)))).reset = FALSE
<1> DEFINE r1 == VbusChange(Registers)
           r2 == Suspend(r1)
           r3 == WakeUp(r2)
<1>1. r1.reset = FALSE /\ "EORSTI" \notin r1.flags
  BY DEF VbusChange, Registers, TransferInv
<1>2. r2.reset = FALSE /\ "EORSTI" \notin r2.flags
  <2> HIDE DEF r1
  <2> QED
    BY <1>1 DEF Suspend
<1>3. r3.reset = FALSE /\ "EORSTI" \notin r3.flags
  <2> HIDE DEF r2
  <2> QED
    BY <1>2 DEF WakeUp
<1>4. EndOfReset(r3).reset = FALSE
  <2> HIDE DEF r3
  <2> QED
    BY <1>3 DEF EndOfReset
<1> QED
  BY <1>4

LEMMA TransferInterrupt ==
  ASSUME TypeOK, TransferInv, BusInv, USB_GEN_vect
  PROVE  TransferInv'
<1>1. UNCHANGED <<mainVars, hostVars>> /\ (Serving' <=> Serving)
  BY DEF USB_GEN_vect, mainVars, Serving
<1>2. "EORSTI" \notin flags'
  BY InterruptServed
<1>3. \/ UNCHANGED ep0Vars
      \/ stage = "idle" /\ setup' = None
  BY NoResetInTransfer DEF USB_GEN_vect
<1> QED
  BY <1>1, <1>2, <1>3 DEF TransferInv, StallJustified, hostVars, ep0Vars

LEMMA BusMain ==
  ASSUME TypeOK, BusInv, Main
  PROVE  BusInv'
<1>1. UNCHANGED <<flags, bus, hostVars>>
  BY DEF Main
<1>2. /\ UNCHANGED armed
      /\ state' = state \/ state' \in {"Configured", "Powered", "Addressed"}
      /\ Masked' => Masked \/ state' # "Unattached"
  <2> USE DEF Masked, devVars, mainVars
  <2>1. CASE Task
    BY <2>1 DEF Task, NextTask
  <2>2. CASE Ready
    BY <2>2 DEF Ready
  <2>3. CASE NotReady
    BY <2>3 DEF NotReady
  <2>4. CASE Put
    BY <2>4 DEF Put, ClearIN
  <2>5. CASE Sent
    BY <2>5 DEF Sent, ClearIN, NextTask
  <2>6. CASE NoSetup
    BY <2>6 DEF NoSetup, Return
  <2>7. CASE GetDescriptor
    BY <2>7 DEF GetDescriptor, Begin
  <2>8. CASE SetFanspeed
    BY <2>8 DEF SetFanspeed, Begin
  <2>9. CASE GetStatus
    BY <2>9 DEF GetStatus, Begin
  <2>10. CASE ClearFeature
    BY <2>10 DEF ClearFeature, Begin
  <2>11. CASE SetConfiguration
    BY <2>11 DEF SetConfiguration, Begin
  <2>12. CASE SetAddress
    BY <2>12 DEF SetAddress, Begin
  <2>13. CASE Unhandled
    BY <2>13 DEF Unhandled, Return
  <2>14. CASE WriteStop
    BY <2>14 DEF WriteStop, WriteEnds
  <2>15. CASE WritePacket
    BY <2>15 DEF WritePacket
  <2>16. CASE WriteEnd
    BY <2>16 DEF WriteEnd, WriteEnds
  <2>17. CASE ReadStop
    BY <2>17 DEF ReadStop, ReadEnds
  <2>18. CASE ReadPacket
    BY <2>18 DEF ReadPacket
  <2>19. CASE ReadEnd
    BY <2>19 DEF ReadEnd, ReadEnds
  <2>20. CASE StatusStage
    BY <2>20 DEF StatusStage, AfterStatus
  <2>21. CASE Configure
    BY <2>21 DEF Configure
  <2>22. CASE ConfigureEndpoint
    BY <2>22 DEF ConfigureEndpoint
  <2>23. CASE AddressStatus
    BY <2>23 DEF AddressStatus
  <2>24. CASE AddressEnd
    BY <2>24 DEF AddressEnd
  <2>25. CASE Check
    BY <2>25 DEF Check, Return
  <2>26. CASE ProcessRPCSetFanspeed
    BY <2>26 DEF ProcessRPCSetFanspeed
  <2> QED
    BY <2>1, <2>2, <2>3, <2>4, <2>5, <2>6, <2>7, <2>8, <2>9, <2>10, <2>11, <2>12, <2>13,
       <2>14, <2>15, <2>16, <2>17, <2>18, <2>19, <2>20, <2>21, <2>22, <2>23, <2>24, <2>25, <2>26
       DEF Main
<1> QED
  BY <1>1, <1>2 DEF BusInv, Gone, hostVars

LEMMA BusInterrupt ==
  ASSUME TypeOK, BusInv, USB_GEN_vect
  PROVE  BusInv'
<1>1. UNCHANGED <<mainVars, bus, hostVars>> /\ ~ Masked /\ (Masked' <=> Masked)
  BY DEF USB_GEN_vect, mainVars, Masked
<1> QED
  BY <1>1, InterruptServed DEF BusInv, Gone, hostVars

LEMMA BusHost ==
  ASSUME TypeOK, BusInv, HostToken \/ Environment
  PROVE  BusInv'
<1> USE DEF BusInv, Gone, Idle, hostVars
<1>0. UNCHANGED <<mainVars, devVars, fan_value>> /\ UNCHANGED <<state, armed>>
      /\ (Masked' <=> Masked)
  BY DEF HostToken, Environment, Masked, mainVars, devVars
<1>1. ASSUME HostToken PROVE BusInv'
  <2>1. UNCHANGED <<flags, bus>> /\ stage # "idle"
    BY <1>1 DEF HostToken, HostIn, HostOut, HostStatus, HostStalled, Transfer
  <2> QED
    BY <1>0, <2>1
<1>2. ASSUME HostGivesUp PROVE BusInv'
  BY <1>0, <1>2 DEF HostGivesUp
<1>3. ASSUME NEW r \in Requests, HostSetup(r) PROVE BusInv'
  <2>1. UNCHANGED <<flags, bus>> /\ bus = "active" /\ state # "Suspended"
    BY <1>3 DEF HostSetup, Reachable
  <2> QED
    BY <1>0, <2>1
<1>4. ASSUME NEW e \in Endpoints, HostPoll(e) PROVE BusInv'
  BY <1>0, <1>4 DEF HostPoll
<1>5. ASSUME BusReset PROVE BusInv'
  <2>1. bus # "off" /\ Settled /\ Idle
    BY <1>5 DEF BusReset
  <2>2. /\ bus' = "active" /\ "SUSPI" \notin flags'
        /\ "VBUSTI" \in flags' <=> "VBUSTI" \in flags
    BY <1>5 DEF BusReset
  <2>3. state # "Unattached"
    BY <2>1 DEF Settled, Interrupt
  <2> QED
    BY <1>0, <2>1, <2>2, <2>3
<1>6. ASSUME BusIdle PROVE BusInv'
  <2>1. state # "Unattached"
    BY <1>6 DEF BusIdle
  <2> QED
    BY <1>0, <1>6, <2>1 DEF BusIdle
<1>7. ASSUME BusActive PROVE BusInv'
  <2>1. state # "Unattached"
    BY <1>7 DEF BusActive, Settled, Interrupt
  <2> QED
    BY <1>0, <1>7, <2>1 DEF BusActive
<1>8. ASSUME Detach PROVE BusInv'
  BY <1>0, <1>8 DEF Detach
<1>9. ASSUME Attach PROVE BusInv'
  BY <1>0, <1>9 DEF Attach
<1> QED
  BY <1>1, <1>2, <1>3, <1>4, <1>5, <1>6, <1>7, <1>8, <1>9 DEF Environment
-----------------------------------------------------------------------------
(* The packets of endpoint 0.                                               *)

LEMMA AnswerMain ==
  ASSUME TypeOK, TransferInv, BusInv, ServedInv, AnswerInv, Main
  PROVE  AnswerInv'
<1> USE DEF AnswerInv, Taken, AnswerGiven, Serving, mainVars, ep0Vars
<1>0. UNCHANGED <<request, stage>>
  BY DEF Main, hostVars
<1>1. ASSUME Task PROVE AnswerInv'
  BY <1>0, <1>1 DEF Task, NextTask
<1>2. ASSUME Ready PROVE AnswerInv'
  BY <1>0, <1>2 DEF Ready
<1>3. ASSUME NotReady PROVE AnswerInv'
  BY <1>0, <1>3 DEF NotReady
<1>4. ASSUME Put PROVE AnswerInv'
  BY <1>0, <1>4 DEF Put, ClearIN
<1>5. ASSUME Sent PROVE AnswerInv'
  BY <1>0, <1>5 DEF Sent, ClearIN, NextTask
<1>6. ASSUME NoSetup PROVE AnswerInv'
  BY <1>0, <1>6 DEF NoSetup, Return
<1>7. ASSUME GetDescriptor PROVE AnswerInv'
  BY <1>0, <1>7 DEF GetDescriptor, Begin, None, TransferInv, Reads
<1>8. ASSUME SetFanspeed PROVE AnswerInv'
  BY <1>0, <1>8 DEF SetFanspeed, Begin, None, TransferInv, Reads
<1>9. ASSUME GetStatus PROVE AnswerInv'
  BY <1>0, <1>9 DEF GetStatus, Begin, None, TransferInv, Reads
<1>10. ASSUME ClearFeature PROVE AnswerInv'
  BY <1>0, <1>10 DEF ClearFeature, Begin, None, TransferInv, Reads
<1>11. ASSUME SetConfiguration PROVE AnswerInv'
  BY <1>0, <1>11 DEF SetConfiguration, Begin, None, TransferInv, Reads, Configures
<1>12. ASSUME SetAddress PROVE AnswerInv'
  BY <1>0, <1>12 DEF SetAddress, Begin, None, TransferInv, Reads
<1>13. ASSUME Unhandled PROVE AnswerInv'
  BY <1>0, <1>13 DEF Unhandled, Return
<1>14. ASSUME WriteStop PROVE AnswerInv'
  BY <1>0, <1>14 DEF WriteStop, WriteEnds, BusInv
<1>15. ASSUME WritePacket PROVE AnswerInv'
  BY <1>0, <1>15 DEF WritePacket
<1>16. ASSUME WriteEnd PROVE AnswerInv'
  BY <1>0, <1>16 DEF WriteEnd, WriteEnds, BusInv, ServedInv, Reads
<1>17. ASSUME ReadStop PROVE AnswerInv'
  BY <1>0, <1>17 DEF ReadStop, ReadEnds, BusInv
<1>18. ASSUME ReadPacket PROVE AnswerInv'
  BY <1>0, <1>18 DEF ReadPacket
<1>19. ASSUME ReadEnd PROVE AnswerInv'
  BY <1>0, <1>19 DEF ReadEnd, ReadEnds, BusInv, ServedInv, Reads, None
<1>20. ASSUME StatusStage PROVE AnswerInv'
  BY <1>0, <1>20 DEF StatusStage, AfterStatus, BusInv, Gone, Reads, None
<1>21. ASSUME Configure PROVE AnswerInv'
  BY <1>0, <1>21 DEF Configure
<1>22. ASSUME ConfigureEndpoint PROVE AnswerInv'
  BY <1>0, <1>22 DEF ConfigureEndpoint
<1>23. ASSUME AddressStatus PROVE AnswerInv'
  BY <1>0, <1>23 DEF AddressStatus, ServedInv, Reads, None
<1>24. ASSUME AddressEnd PROVE AnswerInv'
  BY <1>0, <1>24 DEF AddressEnd
<1>25. ASSUME Check PROVE AnswerInv'
  BY <1>0, <1>25 DEF Check, Return, None
<1>26. ASSUME ProcessRPCSetFanspeed PROVE AnswerInv'
  BY <1>0, <1>26 DEF ProcessRPCSetFanspeed
<1> QED
  BY <1>1, <1>2, <1>3, <1>4, <1>5, <1>6, <1>7, <1>8, <1>9, <1>10, <1>11, <1>12, <1>13,
     <1>14, <1>15, <1>16, <1>17, <1>18, <1>19, <1>20, <1>21, <1>22, <1>23, <1>24, <1>25, <1>26
     DEF Main


LEMMA AnswerInterrupt ==
  ASSUME TransferInv, AnswerInv, USB_GEN_vect
  PROVE  AnswerInv'
<1>1. UNCHANGED <<mainVars, hostVars>>
  BY DEF USB_GEN_vect
<1>2. CASE stage = "idle"
  BY <1>1, <1>2 DEF AnswerInv, Taken, hostVars
<1>3. CASE stage # "idle"
  <2> DEFINE r == EndOfReset(WakeUp(Suspend(VbusChange(Registers))))
  <2>1. UNCHANGED ep0Vars
    BY <1>3, NoResetInTransfer DEF USB_GEN_vect
  <2> QED
    BY <1>1, <2>1 DEF AnswerInv, Taken, AnswerGiven, Serving, mainVars, hostVars, ep0Vars
<1> QED
  BY <1>2, <1>3

LEMMA AnswerHost ==
  ASSUME TypeOK, TransferInv, AnswerInv, HostToken \/ Environment
  PROVE  AnswerInv'
<1> USE DEF AnswerInv, Taken, Idle, ep0Vars, hostVars
<1>0. UNCHANGED <<mainVars, devVars, fan_value>> /\ UNCHANGED served
      /\ (Serving' <=> Serving) /\ (AnswerGiven' <=> AnswerGiven)
  BY DEF HostToken, Environment, AnswerGiven, Serving, mainVars
<1>1. ASSUME HostIn PROVE AnswerInv'
  BY <1>0, <1>1 DEF HostIn, Transfer, None
<1>2. ASSUME HostOut PROVE AnswerInv'
  BY <1>0, <1>2 DEF HostOut, Transfer, TransferInv
<1>3. ASSUME HostStatus \/ HostStalled \/ HostGivesUp \/ BusReset \/ Detach
      PROVE AnswerInv'
  BY <1>3 DEF HostStatus, HostStalled, HostGivesUp, BusReset, Detach
<1>4. ASSUME NEW r \in Requests, HostSetup(r) PROVE AnswerInv'
  BY <1>4, RequestsAssumption DEF HostSetup, AllRequests, None
<1>5. ASSUME NEW e \in Endpoints, HostPoll(e) PROVE AnswerInv'
  BY <1>0, <1>5 DEF HostPoll
<1>6. ASSUME BusIdle \/ BusActive \/ Attach PROVE AnswerInv'
  BY <1>0, <1>6 DEF BusIdle, BusActive, Attach
<1> QED
  BY <1>1, <1>2, <1>3, <1>4, <1>5, <1>6 DEF HostToken, Environment
-----------------------------------------------------------------------------
LEMMA StreamStep ==
  ASSUME UsbInv, [Next]_vars
  PROVE  StreamInv'
<1> USE DEF StreamInv
<1>1. CASE Main
  <2>1. UNCHANGED <<stage, overtook>>
    BY <1>1 DEF Main, hostVars
  <2>2. CASE ReadStop
    <3>1. stage = "idle" \/ overtook
      BY <2>2 DEF ReadStop, UsbInv, TransferInv, BusInv, Serving
    <3> QED
      BY <2>1, <3>1
  <2>3. CASE ReadEnd
    BY <2>3 DEF ReadEnd
  <2>4. CASE ~ ReadStop /\ ~ ReadEnd
    <3>1. pc' # "speed"
      BY <1>1, <2>4 DEF Main, Task, NextTask, Ready, NotReady, Put, Sent, NoSetup,
        Return, GetDescriptor, SetFanspeed, GetStatus, ClearFeature,
        SetConfiguration, SetAddress, Unhandled, WriteStop, WritePacket, WriteEnd,
        WriteEnds, ReadPacket, ProcessRPCSetFanspeed, StatusStage, AfterStatus,
        Configure, ConfigureEndpoint, AddressStatus, AddressEnd, Check
    <3> QED
      BY <3>1
  <2> QED
    BY <2>2, <2>3, <2>4
<1>2. CASE USB_GEN_vect
  BY <1>2 DEF USB_GEN_vect, UsbInv, mainVars, hostVars
<1>3. CASE HostToken \/ Environment
  <2>1. UNCHANGED <<pc, left>>
    BY <1>3 DEF HostToken, Environment, mainVars
  <2>2. CASE HostGivesUp \/ HostStatus \/ HostStalled \/ BusReset \/ Detach
    BY <2>2 DEF HostGivesUp, HostStatus, HostStalled, BusReset, Detach, Idle
  <2>3. ASSUME NEW r \in Requests, HostSetup(r) PROVE StreamInv'
    BY <2>1, <2>3 DEF HostSetup, Serving
  <2>4. ASSUME HostIn \/ HostOut \/ BusIdle \/ BusActive \/ Attach
                 \/ \E e \in Endpoints : HostPoll(e)
        PROVE  StreamInv'
    BY <2>1, <2>4 DEF HostIn, HostOut, Transfer, HostPoll, BusIdle, BusActive, Attach,
      UsbInv, hostVars
  <2> QED
    BY <1>3, <2>2, <2>3, <2>4 DEF HostToken, Environment
<1>4. CASE UNCHANGED vars
  BY <1>4 DEF UsbInv, vars, mainVars, hostVars
<1> QED
  BY <1>1, <1>2, <1>3, <1>4 DEF Next

LEMMA UsbStep == UsbInv /\ [Next]_vars => UsbInv'
<1> SUFFICES ASSUME UsbInv, [Next]_vars PROVE UsbInv'
  OBVIOUS
<1>0. TypeOK /\ TransferInv /\ BusInv /\ ServedInv /\ AnswerInv
  BY DEF UsbInv
<1>1. TypeOK' /\ StreamInv'
  BY <1>0, TypeStep, StreamStep
<1>2. CASE Main
  BY <1>0, <1>1, <1>2, TransferMain, BusMain, ServedMain, AnswerMain DEF UsbInv
<1>3. CASE USB_GEN_vect
  <2>1. ServedInv'
    BY <1>0, <1>3 DEF USB_GEN_vect, ServedInv, mainVars
  <2> QED
    BY <1>0, <1>1, <1>3, <2>1, TransferInterrupt, BusInterrupt, AnswerInterrupt DEF UsbInv
<1>4. CASE HostToken \/ Environment
  <2>1. ServedInv'
    BY <1>0, <1>4 DEF HostToken, Environment, ServedInv, mainVars
  <2> QED
    BY <1>0, <1>1, <1>4, <2>1, TransferHost, BusHost, AnswerHost DEF UsbInv
<1>5. CASE UNCHANGED vars
  BY <1>0, <1>1, <1>5
     DEF UsbInv, TransferInv, StallJustified, BusInv, ServedInv, AnswerInv, Taken,
         AnswerGiven, Serving, Masked, Gone, vars, mainVars, devVars, ep0Vars, hostVars
<1> QED
  BY <1>2, <1>3, <1>4, <1>5 DEF Next

THEOREM UsbInvariant == Spec => []UsbInv
<1> QED
  BY InitiallyUsbInv, UsbStep, PTL DEF Spec

(***************************************************************************)
(* Every variable of the control endpoint and the device keeps its type:   *)
(* no stream moves more packets than it was asked to, whoever stops it.    *)
(***************************************************************************)
THEOREM UsbTypeCorrect == Spec => []TypeOK
<1>1. UsbInv => TypeOK
  BY DEF UsbInv
<1> QED
  BY <1>1, UsbInvariant, PTL

(***************************************************************************)
(* A request that rpc.c or LUFA can answer is stalled only if it overtook  *)
(* the one that main was still serving.                                    *)
(***************************************************************************)
THEOREM StallsAreJustified == Spec => []StallJustified
<1>1. UsbInv => StallJustified
  BY DEF UsbInv, TransferInv
<1> QED
  BY <1>1, UsbInvariant, PTL

(***************************************************************************)
(* In whatever order USB_GEN_vect meets suspend, resume, reset and the     *)
(* cable's events, it leaves the device awake on an active bus.            *)
(***************************************************************************)
THEOREM AwakeOnActiveBus == Spec => []Awake
<1>1. UsbInv => Awake
  BY DEF UsbInv, TypeOK, BusInv, Awake, Interrupt
<1> QED
  BY <1>1, UsbInvariant, PTL

(***************************************************************************)
(* A report that USB_GEN_vect diverted to endpoint 0 by selecting it under *)
(* the class driver never gets between the host and its answer.            *)
(***************************************************************************)
THEOREM NoReportInTransfers == Spec => []NoForeignPacket
<1>1. UsbInv => NoForeignPacket
  BY DEF UsbInv, AnswerInv, Taken, NoForeignPacket
<1> QED
  BY <1>1, UsbInvariant, PTL

(***************************************************************************)
(* The fan gets a speed nobody sent only when the host has left the        *)
(* transfer that should have brought it.                                   *)
(***************************************************************************)
THEOREM SpeedIsFromHost == Spec => SpeedFromHost
<1>1. UsbInv /\ [Next]_vars =>
        [pc = "speed" /\ pc' = "check" /\ fan_value' = "stack"
           => stage = "idle" \/ overtook]_vars
  <2> SUFFICES ASSUME UsbInv, Next, pc = "speed", pc' = "check", fan_value' = "stack"
               PROVE  stage = "idle" \/ overtook
    BY Zenon
  <2>1. Main
    BY DEF Next, USB_GEN_vect, HostToken, Environment, mainVars
  <2>2. ProcessRPCSetFanspeed
    BY <2>1 DEF Main, Task, Ready, NotReady, Put, Sent, NoSetup, GetDescriptor,
      SetFanspeed, GetStatus, ClearFeature, SetConfiguration, SetAddress,
      Unhandled, Begin, WriteStop, WritePacket, WriteEnd, ReadStop, ReadPacket,
      ReadEnd, StatusStage, Configure, ConfigureEndpoint, AddressStatus,
      AddressEnd, Check
  <2>3. left # 0
    BY <2>2 DEF ProcessRPCSetFanspeed
  <2> QED
    BY <2>3 DEF UsbInv, StreamInv
<1> QED
  BY <1>1, UsbInvariant, PTL DEF Spec, SpeedFromHost

(***************************************************************************)
(* The control endpoint implements ControlTransfer: every request is taken *)
(* or refused once, whatever the bus does in between.                      *)
(***************************************************************************)
THEOREM TransfersImplemented == Spec => ControlTransferSpec
<1> DEFINE phase == IF stage = "idle" THEN "idle" ELSE IF setup # None THEN "asked"
                    ELSE IF stall THEN "refused" ELSE "taken"
<1> USE DEF Transfers!Next, Transfers!Ask, Transfers!Take, Transfers!Refuse,
      Transfers!Complete, Transfers!Stall, Transfers!GiveUp
<1>1. Init => Transfers!Init
  BY DEF Init, Transfers!Init
<1>2. UsbInv /\ [Next]_vars => [Transfers!Next]_phase
  <2> SUFFICES ASSUME UsbInv, [Next]_vars PROVE [Transfers!Next]_phase
    OBVIOUS
  <2>1. CASE Main
    <3>1. UNCHANGED stage
      BY <2>1 DEF Main, hostVars
    <3>2. CASE SetupKept
      BY <3>1, <3>2 DEF SetupKept
    <3>3. CASE SetupTaken
      <4>1. ~ stall /\ ~ stall'
        BY <3>3 DEF SetupTaken, UsbInv, TransferInv
      <4> QED
        BY <3>1, <3>3, <4>1 DEF SetupTaken
    <3>4. CASE SetupRefused
      <4>1. stall' = TRUE /\ setup # None /\ setup' = None
        BY <3>4 DEF SetupRefused
      <4> QED
        BY <3>1, <4>1
    <3> QED
      BY <2>1, <3>1, <3>2, <3>3, <3>4, SetupMain DEF SetupStep
  <2>2. CASE USB_GEN_vect
    <3>1. UNCHANGED stage
      BY <2>2 DEF USB_GEN_vect, hostVars
    <3>2. stage # "idle" => UNCHANGED <<setup, stall>>
      BY <2>2, NoResetInTransfer DEF USB_GEN_vect, UsbInv, ep0Vars
    <3> QED
      BY <3>1, <3>2
  <2>3. CASE HostToken
    BY <2>3 DEF HostToken, HostIn, HostOut, HostStatus, HostStalled, Transfer, Idle, ep0Vars
  <2>4. CASE Environment
    <3>1. ASSUME NEW r \in Requests, HostSetup(r) PROVE Transfers!Ask
      BY <3>1, RequestsAssumption DEF HostSetup, FirstStage, AllRequests, None
    <3>2. CASE HostGivesUp \/ BusReset \/ Detach
      BY <3>2 DEF HostGivesUp, BusReset, Detach, Idle
    <3>3. CASE BusIdle \/ BusActive \/ Attach \/ \E e \in Endpoints : HostPoll(e)
      BY <3>3 DEF BusIdle, BusActive, Attach, HostPoll, ep0Vars, hostVars
    <3> QED
      BY <2>4, <3>1, <3>2, <3>3 DEF Environment
  <2>5. CASE UNCHANGED vars
    BY <2>5 DEF vars, ep0Vars, hostVars
  <2> QED
    BY <2>1, <2>2, <2>3, <2>4, <2>5 DEF Next
<1> QED
  BY <1>1, <1>2, UsbInvariant, PTL DEF Spec, ControlTransferSpec, Transfers!Spec
=============================================================================
