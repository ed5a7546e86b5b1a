------------------------------ MODULE UsbDevice ------------------------------
(***************************************************************************)
(* The USB side of the firmware: LUFA's control endpoint, its device state *)
(* machine and its interrupt, together with the endpoint handling of the   *)
(* two class drivers, as they are called from main in Firmware/rpc.c.      *)
(*                                                                         *)
(* main runs the HID task, the RPC task and USB_USBTask in turn.  A        *)
(* control request is served inside USB_USBTask by loops that wait for the *)
(* host; interrupts and bus events fall between any two steps.             *)
(***************************************************************************)
EXTENDS Naturals

CONSTANTS
  Requests,  \* the control requests the host makes
  Packets    \* the packets of a descriptor

AllRequests == {"SetAddress", "SetConfiguration", "Unconfigure", "ClearFeature",
                "GetStatus", "GetDescriptor", "SetFanspeed", "Unknown"}

ASSUME RequestsAssumption == Requests \subseteq AllRequests
ASSUME PacketsAssumption == Packets \in Nat \ {0}

VARIABLES
  pc,         \* where main is
  ep,         \* the endpoint of the class driver whose task runs
  nested,     \* USB_USBTask was called by Endpoint_Write_Stream_LE
  prev,       \* PrevEndpoint of USB_DeviceTask
  served,     \* USB_ControlRequest
  left,       \* packets of the data stage that are still to be moved
  state,      \* USB_DeviceState
  config,     \* USB_ConfigurationNumber
  armed,      \* which of the interrupts SUSPI and WAKEUPI is enabled
  selected,   \* UENUM
  fan_value,  \* "given" by rpc.c or the host, or what was on the "stack"

  flags,      \* the interrupt flags VBUSTI, SUSPI and EORSTI
  addressed,  \* UDADDR: a device address is enabled
  control,    \* endpoint 0 is configured as a control endpoint
  setup,      \* the request in endpoint 0's bank while RXSTPI is set
  out,        \* RXOUTI of endpoint 0
  in,         \* the packet that endpoint 0 sends next; TXINI: there is none
  stall,      \* STALLRQ of endpoint 0
  bank,       \* the banks of the two IN endpoints

  bus,        \* "off", "new" until the first reset, "idle" or "active"
  request,    \* the request the host is busy with
  stage,      \* and its stage
  expect,     \* packets the host still expects to move
  haddr,      \* the host has given the device an address
  overtook,   \* the request arrived while main served an earlier one
  acked       \* history: the latest request, once its status was fetched

mainVars == <<pc, ep, nested, prev, served, left>>
devVars  == <<state, config, armed, selected>>
ep0Vars  == <<setup, out, in, stall>>
hostVars == <<request, stage, expect, haddr, overtook, acked>>
vars == <<mainVars, devVars, fan_value, flags, addressed, control, ep0Vars,
          bank, bus, hostVars>>

None  == "none"
Reads == {"GetStatus", "GetDescriptor"}        \* data from the device
Configures == {"SetConfiguration", "Unconfigure"}
Endpoints  == {1, 3}                           \* KEYBOARD_EPNUM, RPC_IN_EPNUM

Init ==
  /\ pc = "task" /\ ep = 1 /\ nested = FALSE /\ prev = 0
  /\ served = None /\ left = 0
  /\ state = "Unattached" /\ config = 0 /\ armed = "SUSPI" /\ selected = 0
  /\ fan_value = "given"
  /\ flags = {} /\ addressed = FALSE /\ control = TRUE
  /\ setup = None /\ out = FALSE /\ in = None /\ stall = FALSE
  /\ bank = [e \in Endpoints |-> "off"]
  /\ bus = "off"
  /\ request = None /\ stage = "idle" /\ expect = 0 /\ haddr = FALSE
  /\ overtook = FALSE /\ acked = None
-----------------------------------------------------------------------------
(* The class drivers' tasks.                                                *)

\* The step after a task: the other task, then USB_USBTask.
NextTask ==
  IF ep = 1 THEN pc' = "task" /\ ep' = 3 ELSE pc' = "usb" /\ ep' = ep

\* Endpoint_ClearIN hands the bank of the selected endpoint to the host.  It
\* does nothing to a bank that is not free, or that holds a SETUP packet.
ClearIN(packet) ==
  IF selected = 0
    THEN /\ in' = IF setup = None /\ in = None THEN packet ELSE in
         /\ UNCHANGED bank
    ELSE /\ bank' = IF bank[selected] = "free"
                      THEN [bank EXCEPT ![selected] = packet] ELSE bank
         /\ UNCHANGED in

\* HID_Device_USBTask and RPC_Device_USBTask up to Endpoint_Write_Stream_LE.
\* The keyboard has a report to send only now and then.
Task ==
  /\ pc = "task"
  /\ IF state # "Configured"
       THEN NextTask /\ UNCHANGED selected
       ELSE /\ selected' = ep
            /\ \/ bank[ep] # "free" /\ NextTask
               \/ bank[ep] = "free" /\ ep = 1 /\ NextTask
               \/ bank[ep] = "free" /\ pc' = "ready" /\ UNCHANGED ep
  /\ UNCHANGED <<nested, prev, served, left, state, config, armed, fan_value,
       addressed, control, ep0Vars, bank>>

\* Endpoint_WaitUntilReady: the selected endpoint is ready.  Endpoint 0 is an
\* OUT endpoint.
Ready ==
  /\ pc = "ready"
  /\ IF selected = 0 THEN out ELSE bank[selected] = "free"
  /\ pc' = "put"
  /\ UNCHANGED <<ep, nested, prev, served, left, devVars, fan_value, addressed,
       control, ep0Vars, bank>>

\* Endpoint_WaitUntilReady gives up, after 100 frames at the latest.
NotReady ==
  /\ pc = "ready"
  /\ ~ IF selected = 0 THEN out ELSE bank[selected] = "free"
  /\ state \in {"Unattached", "Suspended"} \/ (selected = 0 /\ stall) \/ bus = "active"
  /\ pc' = "fail"
  /\ UNCHANGED <<ep, nested, prev, served, left, devVars, fan_value, addressed,
       control, ep0Vars, bank>>

\* Mutation: USB_USBTask is called for each packet, not only between two.
MutPut ==
  /\ pc = "put"
  /\ ClearIN("stray") /\ pc' = "usb" /\ nested' = TRUE
  /\ UNCHANGED <<ep, prev, served, left, devVars, fan_value, addressed,
       control, setup, out, stall>>

\* The loop of Endpoint_Write_Stream_LE: the report fits into the bank, unless
\* the selected endpoint is no longer the one that was asked for.
Put ==
  /\ pc = "put"
  /\ IF selected # 0 /\ bank[selected] = "free"
       THEN pc' = "sent" /\ UNCHANGED <<nested, in, bank>>
       ELSE ClearIN("stray") /\ pc' = "usb" /\ nested' = TRUE
  /\ UNCHANGED <<ep, prev, served, left, devVars, fan_value, addressed,
       control, setup, out, stall>>

\* The result of the stream is not looked at.
Sent ==
  /\ pc \in {"sent", "fail"}
  /\ ClearIN(IF pc = "sent" /\ selected = ep THEN "report" ELSE "stray")
  /\ NextTask
  /\ UNCHANGED <<nested, prev, served, left, devVars, fan_value, addressed,
       control, setup, out, stall>>
-----------------------------------------------------------------------------
(* USB_USBTask and the control requests.                                    *)

\* Back from USB_DeviceTask.
Return ==
  /\ IF nested THEN pc' = "ready" /\ ep' = ep ELSE pc' = "task" /\ ep' = 1
  /\ nested' = FALSE

NoSetup ==
  /\ pc = "usb"
  /\ state = "Unattached" \/ setup = None
  /\ Return
  /\ UNCHANGED <<prev, served, left, devVars, fan_value, addressed, control,
       ep0Vars, bank>>

\* USB_Device_ProcessControlRequest reads the packet and hands it to the
\* class drivers, then to the library.  A handler begins with
\* Endpoint_ClearSETUP.
Begin(requests) ==
  /\ pc = "usb" /\ state # "Unattached"
  /\ setup \in requests
  /\ served' = setup
  /\ prev' = selected /\ selected' = 0
  /\ setup' = None

\* CALLBACK_USB_GetDescriptor, or a report of the keyboard.
GetDescriptor ==
  /\ Begin({"GetDescriptor"})
  /\ left' = Packets
  /\ pc' = "write"
  /\ UNCHANGED <<ep, nested, state, config, armed, fan_value, addressed,
       control, out, in, stall, bank>>

\* Mutation: the SETUP packet is not acknowledged.
MutSetFanspeed ==
  /\ pc = "usb" /\ state # "Unattached" /\ setup = "SetFanspeed"
  /\ served' = setup /\ prev' = selected /\ selected' = 0
  /\ left' = 1
  /\ pc' = "read"
  /\ UNCHANGED <<ep, nested, state, config, armed, fan_value, addressed,
       control, ep0Vars, bank>>

SetFanspeed ==
  /\ Begin({"SetFanspeed"})
  /\ left' = 1
  /\ pc' = "read"
  /\ UNCHANGED <<ep, nested, state, config, armed, fan_value, addressed,
       control, out, in, stall, bank>>

\* The answer fits into one packet and is sent at once.
GetStatus ==
  /\ Begin({"GetStatus"})
  /\ in' = "short"
  /\ pc' = "status"
  /\ UNCHANGED <<ep, nested, left, state, config, armed, fan_value, addressed,
       control, out, stall, bank>>

\* Mutation: the SETUP packet is not acknowledged.
MutClearFeature ==
  /\ pc = "usb" /\ state # "Unattached" /\ setup = "ClearFeature"
  /\ served' = setup /\ prev' = selected /\ selected' = 0
  /\ pc' = "status"
  /\ UNCHANGED <<ep, nested, left, state, config, armed, fan_value, addressed,
       control, ep0Vars, bank>>

\* ClearFeature(ENDPOINT_HALT) of a class driver's endpoint.
ClearFeature ==
  /\ Begin({"ClearFeature"})
  /\ \E e \in Endpoints :
       bank' = [bank EXCEPT ![e] = IF @ \in {"off", "disabled"} THEN @ ELSE "free"]
  /\ pc' = "status"
  /\ UNCHANGED <<ep, nested, left, state, config, armed, fan_value, addressed,
       control, out, in, stall>>

SetConfiguration ==
  /\ Begin(Configures)
  /\ config' = IF setup = "SetConfiguration" THEN 1 ELSE 0
  /\ pc' = "status"
  /\ UNCHANGED <<ep, nested, left, state, armed, fan_value, addressed, control,
       out, in, stall, bank>>

\* Interrupts are off from here to the end of SetDeviceAddress.
SetAddress ==
  /\ Begin({"SetAddress"})
  /\ pc' = "address"
  /\ UNCHANGED <<ep, nested, left, state, config, armed, fan_value, addressed,
       control, out, in, stall, bank>>

\* Mutation: the request is dropped without a stall.
MutUnhandled ==
  /\ pc = "usb" /\ state # "Unattached"
  /\ setup = "Unknown"
  /\ setup' = None
  /\ Return
  /\ UNCHANGED <<prev, served, left, devVars, fan_value, addressed, control,
       out, in, stall, bank>>

\* No handler: the SETUP packet is still there, and the library stalls it.
Unhandled ==
  /\ pc = "usb" /\ state # "Unattached"
  /\ setup = "Unknown"
  /\ setup' = None /\ stall' = TRUE
  /\ Return
  /\ UNCHANGED <<prev, served, left, devVars, fan_value, addressed, control,
       out, in, bank>>
-----------------------------------------------------------------------------
(* Endpoint_Write_Control_Stream_LE.                                        *)

Gone == state \in {"Unattached", "Suspended"}

\* The caller's Endpoint_ClearOUT follows, however the stream ended.
WriteEnds ==
  /\ out' = FALSE
  /\ pc' = "check"
  /\ UNCHANGED <<left, in>>

\* The stream is broken off.
WriteStop ==
  /\ pc = "write"
  /\ Gone \/ setup # None
  /\ WriteEnds
  /\ UNCHANGED <<ep, nested, prev, served, devVars, fan_value, addressed,
       control, setup, stall, bank>>

\* Mutation: one packet too many.
MutWritePacket ==
  /\ pc = "write"
  /\ ~ Gone /\ setup = None
  /\ in = None
  /\ in' = "full" /\ left' = left - 1 /\ UNCHANGED pc
  /\ UNCHANGED <<ep, nested, prev, served, devVars, fan_value, addressed,
       control, setup, out, stall, bank>>

\* The next packet, or a zero length packet after a last one that was full, or
\* the host has had enough.
WritePacket ==
  /\ pc = "write"
  /\ ~ Gone /\ setup = None
  /\ IF out
       THEN pc' = "write_end" /\ UNCHANGED <<left, in>>
       ELSE /\ in = None
            /\ IF left > 1
                 THEN in' = "full" /\ left' = left - 1 /\ pc' = "write"
                 ELSE \/ in' = "short" /\ left' = 0 /\ pc' = "write_end"
                      \/ left = 1 /\ in' = "full" /\ left' = 0 /\ pc' = "write"
  /\ UNCHANGED <<ep, nested, prev, served, devVars, fan_value, addressed,
       control, setup, out, stall, bank>>

\* Mutation: the wait for the host's status stage is left out.
MutWriteEnd ==
  /\ pc = "write_end"
  /\ WriteEnds
  /\ UNCHANGED <<ep, nested, prev, served, devVars, fan_value, addressed,
       control, setup, stall, bank>>

WriteEnd ==
  /\ pc = "write_end"
  /\ out \/ Gone
  /\ WriteEnds
  /\ UNCHANGED <<ep, nested, prev, served, devVars, fan_value, addressed,
       control, setup, stall, bank>>
-----------------------------------------------------------------------------
(* Endpoint_Read_Control_Stream_LE, and what SetFanspeed makes of it.       *)

\* The caller's Endpoint_ClearIN: the status, however the stream has ended.
ReadEnds ==
  /\ in' = IF setup = None /\ in = None THEN "short" ELSE in
  /\ pc' = "speed"

ReadStop ==
  /\ pc = "read" /\ left > 0
  /\ Gone \/ setup # None
  /\ ReadEnds
  /\ UNCHANGED <<ep, nested, prev, served, left, devVars, fan_value, addressed,
       control, setup, out, stall, bank>>

ReadPacket ==
  /\ pc = "read" /\ left > 0
  /\ ~ Gone /\ setup = None
  /\ out
  /\ out' = FALSE
  /\ left' = left - 1
  /\ UNCHANGED <<pc, ep, nested, prev, served, devVars, fan_value, addressed,
       control, setup, in, stall, bank>>

ReadEnd ==
  /\ pc = "read" /\ left = 0
  /\ in = None \/ Gone
  /\ ReadEnds
  /\ UNCHANGED <<ep, nested, prev, served, left, devVars, fan_value, addressed,
       control, setup, out, stall, bank>>

\* ProcessRPCSetFanspeed takes what the stream has read: without a packet, what
\* lay on the stack.
ProcessRPCSetFanspeed ==
  /\ pc = "speed"
  /\ fan_value' = IF left = 0 THEN "given" ELSE "stack"
  /\ left' = 0
  /\ pc' = "check"
  /\ UNCHANGED <<ep, nested, prev, served, devVars, addressed, control, ep0Vars,
       bank>>
-----------------------------------------------------------------------------
(* Endpoint_ClearStatusStage and what follows it.                           *)

AfterStatus == pc' = IF served \in Configures THEN "configure" ELSE "check"

\* Mutation: the wait for the host does not end with a disconnect.
MutStatusStage ==
  /\ pc = "status"
  /\ IF served \in Reads
       THEN /\ out
            /\ out' = FALSE
            /\ UNCHANGED in
       ELSE /\ in = None
            /\ in' = IF setup = None THEN "short" ELSE in
            /\ UNCHANGED out
  /\ AfterStatus
  /\ UNCHANGED <<ep, nested, prev, served, left, devVars, fan_value, addressed,
       control, setup, stall, bank>>

StatusStage ==
  /\ pc = "status"
  /\ IF served \in Reads
       THEN /\ out \/ state = "Unattached"
            /\ out' = FALSE
            /\ UNCHANGED in
       ELSE /\ in = None \/ state = "Unattached"
            /\ in' = IF setup = None /\ in = None THEN "short" ELSE in
            /\ UNCHANGED out
  /\ AfterStatus
  /\ UNCHANGED <<ep, nested, prev, served, left, devVars, fan_value, addressed,
       control, setup, stall, bank>>

\* The rest of USB_Device_SetConfiguration, up to the endpoint that
\* HID_Device_ConfigureEndpoints selects.
Configure ==
  /\ pc = "configure"
  /\ state' = IF config # 0 \/ addressed THEN "Configured" ELSE "Powered"
  /\ selected' = 1
  /\ pc' = "config1"
  /\ UNCHANGED <<ep, nested, prev, served, left, config, armed, fan_value,
       addressed, control, ep0Vars, bank>>

\* Mutation: RPC_Device_ConfigureEndpoints is not called.
MutConfigureEndpoint ==
  /\ pc = "config1"
  /\ IF selected = 0
       THEN control' = FALSE /\ UNCHANGED bank
       ELSE /\ bank' = [e \in Endpoints |->
                          IF e = selected \/ (e > selected /\ bank[e] # "off")
                            THEN "free" ELSE bank[e]]
            /\ UNCHANGED control
  /\ pc' = "check"
  /\ UNCHANGED <<ep, nested, prev, served, left, devVars, fan_value, addressed,
       ep0Vars>>

\* Endpoint_ConfigureEndpoint_Prv writes to the endpoint that is selected by
\* then; those behind it move in the memory and lose what they hold.
ConfigureEndpoint ==
  /\ pc \in {"config1", "config3"}
  /\ IF selected = 0
       THEN control' = FALSE /\ UNCHANGED bank
       ELSE /\ bank' = [e \in Endpoints |->
                          IF e = selected \/ (e > selected /\ bank[e] # "off")
                            THEN "free" ELSE bank[e]]
            /\ UNCHANGED control
  /\ IF pc = "config1" THEN selected' = 3 /\ pc' = "config3"
                       ELSE selected' = selected /\ pc' = "check"
  /\ UNCHANGED <<ep, nested, prev, served, left, state, config, armed,
       fan_value, addressed, ep0Vars>>

\* The status stage of USB_Device_SetAddress.
AddressStatus ==
  /\ pc = "address"
  /\ in = None
  /\ in' = IF setup = None THEN "short" ELSE in
  /\ pc' = "address_end"
  /\ UNCHANGED <<ep, nested, prev, served, left, devVars, fan_value, addressed,
       control, setup, out, stall, bank>>

\* Mutation: the address is set but not enabled.
MutAddressEnd ==
  /\ pc = "address_end"
  /\ in = None
  /\ state' = "Addressed"
  /\ pc' = "check"
  /\ UNCHANGED <<ep, nested, prev, served, left, config, armed, selected,
       fan_value, addressed, control, ep0Vars, bank>>

\* The host has taken the status, or so it seems.
AddressEnd ==
  /\ pc = "address_end"
  /\ in = None
  /\ addressed' = TRUE
  /\ state' = "Addressed"
  /\ pc' = "check"
  /\ UNCHANGED <<ep, nested, prev, served, left, config, armed, selected,
       fan_value, control, ep0Vars, bank>>

\* Mutation: every request ends in a stall.
MutCheck ==
  /\ pc = "check"
  /\ setup' = None /\ stall' = TRUE
  /\ selected' = prev
  /\ served' = None /\ left' = 0 /\ prev' = 0
  /\ Return
  /\ UNCHANGED <<state, config, armed, fan_value, addressed, control, out, in,
       bank>>

\* The end of USB_Device_ProcessControlRequest: a SETUP packet that is there
\* now counts as one that nobody has handled.  After a SetConfiguration it is
\* looked for in endpoint 3, which is still selected.
Check ==
  /\ pc = "check"
  /\ IF selected = 0 /\ setup # None
       THEN setup' = None /\ stall' = TRUE
       ELSE UNCHANGED <<setup, stall>>
  /\ selected' = prev
  /\ served' = None /\ left' = 0 /\ prev' = 0
  /\ Return
  /\ UNCHANGED <<state, config, armed, fan_value, addressed, control, out, in,
       bank>>
-----------------------------------------------------------------------------
(* The interrupt.                                                           *)

Masked == pc \in {"address", "address_end"}

\* The device with the interrupt flags it has to deal with.
Registers ==
  [state |-> state, config |-> config, armed |-> armed, selected |-> selected,
   flags |-> flags, reset |-> FALSE]

VbusChange(r) ==
  IF "VBUSTI" \notin r.flags THEN r
  ELSE [r EXCEPT !.flags = @ \ {"VBUSTI"},
                 !.state = IF bus = "off" THEN "Unattached" ELSE "Powered"]

\* Mutation: the wake-up interrupt is not enabled.
MutSuspend(r) ==
  IF "SUSPI" \notin r.flags \/ r.armed # "SUSPI" THEN r
  ELSE [r EXCEPT !.flags = @ \ {"SUSPI"}, !.state = "Suspended"]

Suspend(r) ==
  IF "SUSPI" \notin r.flags \/ r.armed # "SUSPI" THEN r
  ELSE [r EXCEPT !.armed = "WAKEUPI", !.state = "Suspended"]

\* WAKEUPI is set again and again while the bus is active.
WakeUp(r) ==
  IF bus # "active" \/ r.armed # "WAKEUPI" THEN r
  ELSE [r EXCEPT !.armed = "SUSPI",
                 !.state = IF r.config # 0 \/ addressed THEN "Configured" ELSE "Powered"]

\* Mutation: endpoint 0 is not configured again.
MutEndOfReset(r) ==
  IF "EORSTI" \notin r.flags THEN r
  ELSE [r EXCEPT !.flags = @ \ {"EORSTI", "SUSPI"},
                 !.state = "Default", !.config = 0, !.armed = "WAKEUPI",
                 !.selected = 0, !.reset = FALSE]

\* Endpoint_ConfigureEndpoint(ENDPOINT_CONTROLEP) leaves endpoint 0 selected
\* and enables all endpoints that were configured before.
EndOfReset(r) ==
  IF "EORSTI" \notin r.flags THEN r
  ELSE [r EXCEPT !.flags = @ \ {"EORSTI", "SUSPI"},
                 !.state = "Default", !.config = 0, !.armed = "WAKEUPI",
                 !.selected = 0, !.reset = TRUE]

Interrupt ==
  \/ flags \cap {"VBUSTI", "EORSTI"} # {}
  \/ "SUSPI" \in flags /\ armed = "SUSPI"
  \/ bus = "active" /\ armed = "WAKEUPI"

USB_GEN_vect ==
  LET r == EndOfReset(WakeUp(Suspend(VbusChange(Registers))))
  IN /\ Interrupt /\ ~ Masked
     /\ state' = r.state /\ config' = r.config /\ armed' = r.armed
     /\ selected' = r.selected /\ flags' = r.flags
     /\ IF r.reset
          THEN /\ control' = TRUE
               /\ setup' = None /\ out' = FALSE /\ in' = None /\ stall' = FALSE
               /\ bank' = [e \in Endpoints |-> IF bank[e] = "off" THEN "off" ELSE "free"]
          ELSE UNCHANGED <<control, ep0Vars, bank>>
     /\ UNCHANGED <<mainVars, fan_value, addressed, bus, hostVars>>
-----------------------------------------------------------------------------
(* The host: control transfers and polls.                                   *)

\* A transfer with a data stage starts with it.
FirstStage(r) == IF r \in Reads \cup {"SetFanspeed"} THEN "data" ELSE "status"

\* Somebody answers at the address the host uses.
Reachable == bus = "active" /\ state # "Suspended" /\ control /\ addressed = haddr

Serving == pc \notin {"task", "ready", "put", "sent", "fail", "usb"}

\* A SETUP packet is always taken; it clears the other flags of the endpoint.
HostSetup(r) ==
  /\ stage = "idle" /\ Reachable /\ "EORSTI" \notin flags
  /\ r = "SetAddress" => ~ haddr
  /\ r \in Configures \cup {"ClearFeature", "SetFanspeed"} => haddr
  /\ setup' = r
  /\ out' = FALSE /\ in' = None /\ stall' = FALSE
  /\ request' = r
  /\ stage' = FirstStage(r)
  /\ expect' = IF r = "GetDescriptor" THEN Packets ELSE IF stage' = "data" THEN 1 ELSE 0
  /\ overtook' = Serving /\ acked' = None
  /\ UNCHANGED <<flags, addressed, control, bank, bus, haddr>>

Transfer(s) == stage = s /\ Reachable /\ setup = None

Idle == request' = None /\ stage' = "idle" /\ expect' = 0 /\ overtook' = FALSE

\* A data stage ends with a short packet or when all is there.
HostIn ==
  /\ Transfer("data") /\ request \in Reads /\ ~ stall
  /\ in # None
  /\ in' = None
  /\ IF in = "short" \/ expect = 1 THEN stage' = "status" /\ expect' = 0
                                   ELSE stage' = stage /\ expect' = expect - 1
  /\ UNCHANGED <<flags, addressed, control, setup, out, stall, bank, bus,
       request, haddr, overtook, acked>>

HostOut ==
  /\ Transfer("data") /\ request \notin Reads /\ ~ stall
  /\ ~ out
  /\ out' = TRUE
  /\ stage' = "status" /\ expect' = 0
  /\ UNCHANGED <<flags, addressed, control, setup, in, stall, bank, bus,
       request, haddr, overtook, acked>>

\* The status of a read is an OUT packet, which drops what waits to be sent,
\* that of any other request an empty IN packet.
HostStatus ==
  /\ Transfer("status") /\ ~ stall
  /\ IF request \in Reads
       THEN ~ out /\ out' = TRUE /\ in' = None
       ELSE in # None /\ in' = None /\ UNCHANGED out
  /\ haddr' = (haddr \/ request = "SetAddress")
  /\ acked' = request
  /\ Idle
  /\ UNCHANGED <<flags, addressed, control, setup, stall, bank, bus>>

HostStalled ==
  /\ stage # "idle" /\ Reachable /\ setup = None /\ stall
  /\ Idle
  /\ UNCHANGED <<flags, addressed, control, ep0Vars, bank, bus, haddr, acked>>

\* A timeout or a bus error.
HostGivesUp ==
  /\ stage # "idle"
  /\ Idle
  /\ UNCHANGED <<flags, addressed, control, ep0Vars, bank, bus, haddr, acked>>

HostPoll(e) ==
  /\ Reachable /\ haddr
  /\ bank[e] \in {"report", "stray"}
  /\ bank' = [bank EXCEPT ![e] = "free"]
  /\ UNCHANGED <<flags, addressed, control, ep0Vars, bus, hostVars>>
-----------------------------------------------------------------------------
(* The bus.  Its events are milliseconds apart: before the next one the     *)
(* interrupt has been served unless SetAddress still waits with interrupts  *)
(* off, and a loop that looks at the device state has seen it.              *)

Settled ==
  /\ IF Masked THEN in # None ELSE ~ Interrupt
  /\ Gone => pc \notin {"write", "write_end", "read", "ready"}
  /\ state = "Unattached" => pc # "status"

\* Endpoints but endpoint 0 are disabled.
BusReset ==
  /\ bus # "off" /\ Settled
  /\ bus' = "active"
  /\ flags' = (flags \ {"SUSPI"}) \cup {"EORSTI"}
  /\ addressed' = FALSE
  /\ setup' = None /\ out' = FALSE /\ stall' = FALSE
  /\ in' \in {in, None}
  /\ bank' = [e \in Endpoints |-> IF bank[e] = "off" THEN "off" ELSE "disabled"]
  /\ haddr' = FALSE /\ acked' = None
  /\ Idle
  /\ UNCHANGED <<control>>

\* Nothing happens on the bus for 3 ms.
BusIdle ==
  /\ bus = "active" /\ Settled /\ stage = "idle"
  /\ pc \in {"task", "ready", "usb", "write", "write_end", "read", "status", "address_end"}
  /\ bus' = "idle"
  /\ flags' = flags \cup {"SUSPI"}
  /\ UNCHANGED <<addressed, control, ep0Vars, bank, hostVars>>

\* The host resumes a port only after it has reset it.
BusActive ==
  /\ bus = "idle" /\ Settled
  /\ bus' = "active"
  /\ flags' = flags \ {"SUSPI"}
  /\ UNCHANGED <<addressed, control, ep0Vars, bank, hostVars>>

Detach ==
  /\ bus # "off" /\ Settled
  /\ bus' = "off"
  /\ flags' = (flags \ {"SUSPI"}) \cup {"VBUSTI"}
  /\ haddr' = FALSE /\ acked' = None
  /\ Idle
  /\ UNCHANGED <<addressed, control, ep0Vars, bank>>

Attach ==
  /\ bus = "off" /\ Settled
  /\ bus' = "new"
  /\ flags' = flags \cup {"VBUSTI", "SUSPI"}
  /\ UNCHANGED <<addressed, control, ep0Vars, bank, hostVars>>
-----------------------------------------------------------------------------
\* An enabled interrupt comes before main's next step.
Main ==
  /\ Masked \/ ~ Interrupt
  /\ \/ Task \/ Ready \/ NotReady \/ Put \/ Sent
     \/ NoSetup \/ GetDescriptor \/ SetFanspeed \/ GetStatus \/ ClearFeature
     \/ SetConfiguration \/ SetAddress \/ Unhandled
     \/ WriteStop \/ WritePacket \/ WriteEnd
     \/ ReadStop \/ ReadPacket \/ ReadEnd \/ ProcessRPCSetFanspeed
     \/ StatusStage \/ Configure \/ ConfigureEndpoint
     \/ AddressStatus \/ AddressEnd \/ Check
  /\ UNCHANGED <<flags, bus, hostVars>>

HostToken ==
  /\ HostIn \/ HostOut \/ HostStatus \/ HostStalled
  /\ UNCHANGED <<mainVars, devVars, fan_value>>

Environment ==
  /\ \/ \E r \in Requests : HostSetup(r)
     \/ HostGivesUp
     \/ \E e \in Endpoints : HostPoll(e)
     \/ BusReset \/ BusIdle \/ BusActive \/ Detach \/ Attach
  /\ UNCHANGED <<mainVars, devVars, fan_value>>

Next == Main \/ USB_GEN_vect \/ HostToken \/ Environment

Spec == Init /\ [][Next]_vars

\* An enabled interrupt is served, and the host keeps polling a transfer that
\* it has begun.  main runs on between interrupts, which never come without a
\* pause: hence the strong fairness.
FairSpec ==
  /\ Spec
  /\ SF_vars(Main) /\ WF_vars(USB_GEN_vect) /\ WF_vars(HostToken)
-----------------------------------------------------------------------------
TypeOK ==
  /\ pc \in {"task", "ready", "put", "sent", "fail", "usb", "check", "write",
             "write_end", "read", "speed", "status", "configure", "config1",
             "config3", "address", "address_end"}
  /\ ep \in Endpoints /\ nested \in BOOLEAN /\ prev \in {0} \cup Endpoints
  /\ served \in Requests \cup {None} /\ left \in 0..Packets
  /\ state \in {"Unattached", "Powered", "Default", "Addressed", "Configured", "Suspended"}
  /\ config \in {0, 1} /\ armed \in {"SUSPI", "WAKEUPI"}
  /\ selected \in {0} \cup Endpoints
  /\ fan_value \in {"given", "stack"}
  /\ flags \subseteq {"VBUSTI", "SUSPI", "EORSTI"}
  /\ addressed \in BOOLEAN /\ control \in BOOLEAN
  /\ setup \in Requests \cup {None} /\ out \in BOOLEAN
  /\ in \in {None, "full", "short", "stray"} /\ stall \in BOOLEAN
  /\ bank \in [Endpoints -> {"off", "disabled", "free", "report", "stray"}]
  /\ bus \in {"off", "new", "idle", "active"}
  /\ request \in Requests \cup {None} /\ stage \in {"idle", "data", "status"}
  /\ expect \in 0..Packets
  /\ haddr \in BOOLEAN /\ overtook \in BOOLEAN
  /\ acked \in Requests \cup {None}

\* A request that has a handler is stalled only if it came while main was
\* busy with an earlier one (DeviceStandardReq.c:108).
StallJustified ==
  stage # "idle" /\ stall => request = "Unknown" \/ overtook

\* Device.h:86 says that a device with an address that is not yet configured is
\* Addressed, and that a Configured one is ready for communication; the code
\* also says Configured after a SetConfiguration(0) or a wake-up before the
\* configuration (DeviceStandardReq.c:194, USBInterrupt_AVR8.c:150).
ConfiguredIsConfigured ==
  pc = "task" /\ flags = {} /\ state = "Configured" => config # 0

\* As far as it goes: once the interrupts are served, a Configured device has
\* a configuration or an address (Configure and WakeUp ask for no more, and
\* neither is lost without a reset).
ConfiguredHasAddress ==
  state = "Configured" /\ "EORSTI" \notin flags => config # 0 \/ addressed

\* The fan gets a speed that the host did not send only when the host has left
\* the transfer: RPC.c:85 does not ask how the stream has ended.
SpeedFromHost ==
  [][pc = "speed" /\ pc' = "check" /\ fan_value' = "stack"
       => stage = "idle" \/ overtook]_vars

\* On an active bus the device is awake once the interrupts are served, in
\* whatever order reset, suspend, resume and the cable's events came.
Awake ==
  bus = "active" /\ ~ Interrupt => state \notin {"Unattached", "Suspended"}

\* A report that a reset diverted to endpoint 0 never gets into a transfer of
\* the host (USBInterrupt_AVR8.c:170 selects endpoint 0 under the class driver).
NoForeignPacket ==
  stage # "idle" /\ setup = None /\ ~ stall => in # "stray"

\* What the host takes for done is done before main serves another request or
\* writes another report, although the host has the status of SetFanspeed, of a
\* configuration and of an address before main has acted on it: the speed is
\* the host's, the number, the state and both endpoints are those of the
\* configuration, the address is enabled.
AcknowledgedIsDone ==
  ~ Serving =>
    /\ acked = "SetFanspeed" => fan_value = "given"
    /\ acked = "SetConfiguration" => config = 1
    /\ acked = "Unconfigure" => config = 0
    /\ acked \in Configures /\ ~ Interrupt =>
         /\ bus = "active" => state = "Configured"
         /\ \A e \in Endpoints : bank[e] \notin {"off", "disabled"}
    /\ acked = "SetAddress" => addressed

\* An address that the host uses is one the device answers at, whatever resets
\* and requests fell into SetAddress, or will be in main's next step.
AddressAgreed == haddr => addressed \/ (pc = "address_end" /\ in = None)

\* SetFanspeed is served once in a turn of main at most: never by the call of
\* USB_USBTask inside a report, so that Fans_Worker sees each accepted speed
\* before the next one comes.
SpeedOncePerTurn == pc \in {"read", "speed"} => ~ nested

Transfers == INSTANCE ControlTransfer WITH
  phase <- IF stage = "idle" THEN "idle" ELSE IF setup # None THEN "asked"
           ELSE IF stall THEN "refused" ELSE "taken"

\* Every request is taken or refused once, and a request that was taken is not
\* refused later.
ControlTransferSpec == Transfers!Spec

\* main comes back to the class drivers' tasks.  What can keep it is a wait for a
\* host that has left the transfer, or that the device does not hear: the loops
\* of a data stage only until suspend or disconnect, a status stage only until
\* disconnect, that of SetAddress for ever; and the wait for a bank, which counts
\* frames, only where the bus has none and the device has not noticed.
HostLeft == stage = "idle" \/ overtook \/ ~ Reachable
InHopelessWait ==
  \/ pc \in {"write", "write_end", "read"} /\ ~ Gone
  \/ pc = "ready" /\ ~ Gone /\ bus # "active"
  \/ pc = "status" /\ state # "Unattached"
  \/ Masked
MainComesBack == []<>(pc = "task") \/ <>[](HostLeft /\ InHopelessWait)

\* A request that comes while main serves no other one comes to its end.
PromptRequestsEnd == []<>HostLeft

\* A reset of the bus makes the device ready for a new enumeration, whatever
\* it was doing, unless interrupts are off in SetAddress.
ResetRevives ==
  "EORSTI" \in flags ~> Masked \/ bus # "active" \/ (control /\ state # "Suspended")
=============================================================================
