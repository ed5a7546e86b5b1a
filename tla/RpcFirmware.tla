---------------------------- MODULE RpcFirmware -----------------------------
(***************************************************************************)
(* The main loop of Firmware/rpc.c against its interrupts.                 *)
(*                                                                         *)
(* Main and interrupts share fan_flow_status, the captured timer values    *)
(* and rpc_values.  Nothing is volatile and interrupts are never masked,   *)
(* so main is split wherever an interrupt makes a difference: an access to *)
(* a 16-bit field is two steps, and fan_flow_status |= or &= is a load and *)
(* a store.  The load may be an earlier one of the same function that the  *)
(* compiler kept in a register.  An interrupt handler is one step.         *)
(*                                                                         *)
(* A reading is the set of its bytes that are not 0; that an accepted      *)
(* sample never gives the reading 0 is FilterConverges of SensorFilter. The *)
(* device stays configured, and t_water, adc_voltage and the front panel,  *)
(* which have no part in what is stated here, are left out.                *)
(***************************************************************************)
EXTENDS Integers, Sequences

Rotors == {"flow", "fan"}                  \* sensors that capture edges
Flags  == {"flow", "temp", "fan", "set"}   \* the bits of fan_flow_status
Bytes  == {"lo", "hi"}
None   == -1
Report == [flow : BOOLEAN, fan : BOOLEAN, p_fan : 0..255]

CONSTANTS
  Speeds,      \* the bytes a host may send with SetFanspeed
  Connected    \* the rotors that may turn at all

ASSUME SpeedsAssumption == Speeds \subseteq 0..255
ASSUME ConnectedAssumption == Connected \subseteq Rotors

VARIABLES
  pc,         \* main's next step: <<function, step>>
  flags,      \* fan_flow_status, the set of its bits
  seen,       \* the register with the last load of fan_flow_status
  nonzero,    \* nonzero[r]: the bytes of rpc_values.v_<r> that are not 0
  reading,    \* the bytes of a new reading that are not 0
  unstored,   \* the bytes of it that are still to be stored
  fan_value, ocr4a, pe2, p_fan,
  report,     \* report[r]: what is copied of v_<r> so far is not 0
  bank,       \* the bank of the IN endpoint: at most one report
  host,       \* the last report the host got
  turning,    \* the rotors that turn
  fresh,      \* the rotors with an edge since their last sample
  lastset     \* the last speed that was accepted

copyVars  == <<reading, unstored, report>>
mainVars  == <<pc, seen, copyVars>>
speedVars == <<fan_value, ocr4a, pe2, p_fan, lastset>>
usbVars   == <<bank, host>>
rotorVars == <<nonzero, turning, fresh>>
vars == <<mainVars, speedVars, usbVars, flags, rotorVars>>

LoopTop == <<"rpc", "begin">>

Init ==
  /\ pc = LoopTop
  /\ flags = {}
  /\ seen = {}
  /\ nonzero = [r \in Rotors |-> {}]
  /\ reading = {}
  /\ unstored = {}
  /\ fan_value = 0
  /\ ocr4a = 35
  /\ pe2 = FALSE
  /\ p_fan = 50
  /\ report = [r \in Rotors |-> FALSE]
  /\ bank = <<>>
  /\ host = [flow |-> FALSE, fan |-> FALSE, p_fan |-> 50]
  /\ turning = {}
  /\ fresh = {}
  /\ lastset = None
-----------------------------------------------------------------------------
(* RPC_Device_USBTask: when the bank is empty, memcpy rpc_values into the   *)
(* report, byte by byte, and hand it to the endpoint.                       *)

\* Mutation: Endpoint_IsReadWriteAllowed is not asked.
MutRPC_Device_USBTask ==
  /\ pc = LoopTop
  /\ pc' = <<"copy flow", "lo">>
  /\ seen' = {}
  /\ report' = [r \in Rotors |-> FALSE]
  /\ UNCHANGED <<reading, unstored, speedVars, usbVars, flags, rotorVars>>

RPC_Device_USBTask ==
  /\ pc = LoopTop
  /\ pc' = IF bank = <<>> THEN <<"copy flow", "lo">> ELSE <<"usb", "begin">>
  /\ seen' = {}
  /\ report' = [r \in Rotors |-> FALSE]
  /\ UNCHANGED <<reading, unstored, speedVars, usbVars, flags, rotorVars>>

CopyByte(r, b, here, next) ==
  /\ pc = here
  /\ pc' = next
  /\ report' = [report EXCEPT ![r] = @ \/ b \in nonzero[r]]
  /\ UNCHANGED <<seen, reading, unstored, speedVars, usbVars, flags, rotorVars>>

CreateRPCReport ==
  \/ CopyByte("flow", "lo", <<"copy flow", "lo">>, <<"copy flow", "hi">>)
  \/ CopyByte("flow", "hi", <<"copy flow", "hi">>, <<"copy fan", "lo">>)
  \/ CopyByte("fan", "lo", <<"copy fan", "lo">>, <<"copy fan", "hi">>)
  \/ CopyByte("fan", "hi", <<"copy fan", "hi">>, <<"rpc", "send">>)

SendReport ==
  /\ pc = <<"rpc", "send">>
  /\ pc' = <<"usb", "begin">>
  /\ bank' = Append(bank, [flow |-> report["flow"], fan |-> report["fan"], p_fan |-> p_fan])
  /\ UNCHANGED <<seen, copyVars, host, speedVars, flags, rotorVars>>

HostPoll ==
  /\ bank # <<>>
  /\ host' = Head(bank)
  /\ bank' = <<>>
  /\ UNCHANGED <<mainVars, speedVars, flags, rotorVars>>
-----------------------------------------------------------------------------
(* USB_USBTask serves at most one control request.                          *)

NoRequest ==
  /\ pc = <<"usb", "begin">>
  /\ pc' = <<"flow", "test">>
  /\ UNCHANGED <<seen, copyVars, speedVars, usbVars, flags, rotorVars>>

\* Mutation: requests are served by an interrupt, between any two steps.
MutProcessRPCSetFanspeed(v) ==
  /\ fan_value' = v
  /\ IF v \in 0..100
       THEN /\ lastset' = v
            /\ flags' = flags \cup {"set"}
       ELSE UNCHANGED <<lastset, flags>>
  /\ UNCHANGED <<mainVars, ocr4a, pe2, p_fan, usbVars, rotorVars>>

ProcessRPCSetFanspeed(v) ==
  /\ pc = <<"usb", "begin">>
  /\ fan_value' = v
  /\ \/ /\ v \in 0..100
        /\ pc' = <<"usb", "store">>
        /\ seen' = flags
        /\ lastset' = v
     \/ /\ v \notin 0..100
        /\ pc' = <<"flow", "test">>
        /\ UNCHANGED <<seen, lastset>>
  /\ UNCHANGED <<copyVars, ocr4a, pe2, p_fan, usbVars, flags, rotorVars>>

RaiseSetFlag ==
  /\ pc = <<"usb", "store">>
  /\ pc' = <<"flow", "test">>
  /\ flags' = seen \cup {"set"}
  /\ UNCHANGED <<seen, copyVars, speedVars, usbVars, rotorVars>>
-----------------------------------------------------------------------------
(* Waterflow_Worker, Watertemp_Worker and the two parts of Fans_Worker.     *)

Following(f) ==
  CASE f = "flow" -> <<"temp", "test">>
    [] f = "temp" -> <<"fan", "test">>
    [] f = "fan"  -> <<"set", "test">>
    [] f = "set"  -> LoopTop

\* Mutation: the workers share a register that is never loaded again.
MutTestFlag(f) ==
  /\ pc = <<f, "test">>
  /\ seen' \in {seen, flags}
  /\ pc' = IF f \in seen' THEN <<f, "work">> ELSE Following(f)
  /\ UNCHANGED <<copyVars, speedVars, usbVars, flags, rotorVars>>

\* The second test of Fans_Worker may use what its first part left in the
\* register.
TestFlag(f) ==
  /\ pc = <<f, "test">>
  /\ seen' \in IF f = "set" THEN {seen, flags} ELSE {flags}
  /\ pc' = IF f \in seen' THEN <<f, "work">> ELSE Following(f)
  /\ UNCHANGED <<copyVars, speedVars, usbVars, flags, rotorVars>>

\* Mutation: the sample is taken and its flag forgotten about.
MutTakeSample(r) ==
  /\ pc = <<r, "work">>
  /\ fresh' = fresh \ {r}
  /\ pc' = Following(r)
  /\ UNCHANGED <<seen, copyVars, speedVars, usbVars, flags, nonzero, turning>>

\* An out-of-range sample is dropped.
TakeSample(r) ==
  /\ pc = <<r, "work">>
  /\ fresh' = fresh \ {r}
  /\ \/ /\ pc' = <<r, "clear">>
        /\ UNCHANGED <<reading, unstored>>
     \/ /\ pc' = <<r, "store reading">>
        /\ reading' \in SUBSET Bytes \ {{}}
        /\ unstored' = Bytes
  /\ UNCHANGED <<seen, report, speedVars, usbVars, flags, nonzero, turning>>

StoreByte(r, b) ==
  /\ pc = <<r, "store reading">>
  /\ b \in unstored
  /\ nonzero' = [nonzero EXCEPT ![r] = IF b \in reading THEN @ \cup {b} ELSE @ \ {b}]
  /\ unstored' = unstored \ {b}
  /\ pc' = IF unstored' = {} THEN <<r, "clear">> ELSE pc
  /\ reading' = IF unstored' = {} THEN {} ELSE reading
  /\ UNCHANGED <<seen, report, speedVars, usbVars, flags, turning, fresh>>

TakeConversion ==
  /\ pc = <<"temp", "work">>
  /\ pc' = <<"temp", "clear">>
  /\ UNCHANGED <<seen, copyVars, speedVars, usbVars, flags, rotorVars>>

\* Mutation: the report is not told.
MutApplySpeed ==
  /\ pc = <<"set", "work">>
  /\ pc' = <<"set", "clear">>
  /\ ocr4a' = (30 + fan_value) % 256
  /\ pe2' = (fan_value # 0)
  /\ UNCHANGED <<seen, copyVars, fan_value, p_fan, lastset, usbVars, flags, rotorVars>>

ApplySpeed ==
  /\ pc = <<"set", "work">>
  /\ pc' = <<"set", "clear">>
  /\ ocr4a' = (30 + fan_value) % 256
  /\ pe2' = (fan_value # 0)
  /\ p_fan' = fan_value
  /\ UNCHANGED <<seen, copyVars, fan_value, lastset, usbVars, flags, rotorVars>>

LoadFlags(f) ==
  /\ pc = <<f, "clear">>
  /\ pc' = <<f, "store">>
  /\ seen' \in {seen, flags}
  /\ UNCHANGED <<copyVars, speedVars, usbVars, flags, rotorVars>>

ClearFlag(f) ==
  /\ pc = <<f, "store">>
  /\ pc' = Following(f)
  /\ flags' = seen \ {f}
  /\ seen' = seen \ {f}
  /\ UNCHANGED <<copyVars, speedVars, usbVars, rotorVars>>
-----------------------------------------------------------------------------
(* Interrupts, and the rotors.                                              *)

\* INT2_vect and INT3_vect.
INT_vect(r) ==
  /\ r \in turning
  /\ flags' = flags \cup {r}
  /\ fresh' = fresh \cup {r}
  /\ UNCHANGED <<mainVars, speedVars, usbVars, nonzero, turning>>

\* Mutation: the overflow interrupt is not enabled while the sensor is silent.
MutTIMER_OVF_vect(r) ==
  /\ r \in turning
  /\ nonzero' = [nonzero EXCEPT ![r] = {}]
  /\ UNCHANGED <<mainVars, speedVars, usbVars, flags, turning, fresh>>

\* TIMER1_OVF_vect and TIMER3_OVF_vect.
TIMER_OVF_vect(r) ==
  /\ nonzero' = [nonzero EXCEPT ![r] = {}]
  /\ UNCHANGED <<mainVars, speedVars, usbVars, flags, turning, fresh>>

ADC_vect ==
  /\ flags' = flags \cup {"temp"}
  /\ UNCHANGED <<mainVars, speedVars, usbVars, rotorVars>>

Spin(r) ==
  /\ turning' = turning \cup {r}
  /\ UNCHANGED <<mainVars, speedVars, usbVars, flags, nonzero, fresh>>

Halt(r) ==
  /\ turning' = turning \ {r}
  /\ UNCHANGED <<mainVars, speedVars, usbVars, flags, nonzero, fresh>>
-----------------------------------------------------------------------------
Main ==
  \/ RPC_Device_USBTask
  \/ CreateRPCReport
  \/ SendReport
  \/ NoRequest
  \/ \E v \in Speeds : ProcessRPCSetFanspeed(v)
  \/ RaiseSetFlag
  \/ \E f \in Flags : TestFlag(f) \/ LoadFlags(f) \/ ClearFlag(f)
  \/ \E r \in Rotors : TakeSample(r) \/ \E b \in Bytes : StoreByte(r, b)
  \/ TakeConversion
  \/ ApplySpeed

Next ==
  \/ Main
  \/ HostPoll
  \/ ADC_vect
  \/ \E r \in Rotors : INT_vect(r) \/ TIMER_OVF_vect(r) \/ Halt(r)
  \/ \E r \in Connected : Spin(r)

\* Interrupts leave time for main, the timer of a rotor that stands still
\* overflows again and again, and the host goes on polling.
Fairness ==
  /\ WF_vars(Main)
  /\ \A r \in Rotors : WF_vars(r \notin turning /\ TIMER_OVF_vect(r))
  /\ WF_vars(HostPoll)

Spec == Init /\ [][Next]_vars
FairSpec == Spec /\ Fairness
-----------------------------------------------------------------------------
Steps ==
  {LoopTop, <<"rpc", "send">>, <<"usb", "begin">>, <<"usb", "store">>}
    \cup {"copy flow", "copy fan"} \X Bytes
    \cup Flags \X {"test", "work", "clear", "store"}
    \cup Rotors \X {"store reading"}

MainTypeOK ==
  /\ pc \in Steps
  /\ flags \subseteq Flags
  /\ seen \subseteq Flags
  /\ reading \subseteq Bytes
  /\ unstored \subseteq Bytes
  /\ report \in [Rotors -> BOOLEAN]

SpeedTypeOK ==
  /\ fan_value \in 0..255
  /\ ocr4a \in 0..255
  /\ pe2 \in BOOLEAN
  /\ p_fan \in 0..255
  /\ lastset \in {None} \cup 0..100

RotorTypeOK ==
  /\ nonzero \in [Rotors -> SUBSET Bytes]
  /\ turning \subseteq Rotors
  /\ fresh \subseteq Rotors

\* The endpoint has one bank: it is never given a second report.
UsbTypeOK ==
  /\ bank \in Seq(Report) /\ Len(bank) <= 1
  /\ host \in Report

TypeOK == MainTypeOK /\ SpeedTypeOK /\ RotorTypeOK /\ UsbTypeOK

(***************************************************************************)
(* The duty cycle stays below the timer's top of 130 and the reported      *)
(* percentage below 100, although a refused speed is left in fan_value:    *)
(* nothing may come between a request and the Fans_Worker that serves it.  *)
(***************************************************************************)
PwmInRange == ocr4a <= 130 /\ p_fan <= 100

(***************************************************************************)
(* No race on fan_flow_status loses an accepted speed: one turn of the     *)
(* loop later it is what the outputs and the reported p_fan show.          *)
(***************************************************************************)
SpeedApplied ==
  pc = LoopTop /\ lastset # None =>
    p_fan = lastset /\ ocr4a = 30 + lastset /\ pe2 = (lastset # 0)

(***************************************************************************)
(* An edge is used for at most one sample: no store of a stale copy of     *)
(* fan_flow_status brings a flag back that was cleared.                    *)
(***************************************************************************)
SampleUsedOnce == \A r \in Rotors : pc = <<r, "work">> => r \in fresh

Fan == INSTANCE FanControl WITH
  accepted <- lastset,
  output   <- [duty |-> ocr4a, power |-> pe2, percent |-> p_fan],
  mail     <- IF bank = <<>> THEN <<>> ELSE <<Head(bank).p_fan>>,
  known    <- host.p_fan

(***************************************************************************)
(* Between a request and the fan no accepted speed is overtaken by the     *)
(* next one, whatever fan_value and fan_flow_status hold meanwhile, and no *)
(* report shows a speed that was not put out or is older than the last.    *)
(***************************************************************************)
FanControlSpec == Fan!Spec

(***************************************************************************)
(* A rotor that stops is reported as stopped, whatever sample was still    *)
(* under way and however its two bytes and the overflow were interleaved.  *)
(***************************************************************************)
StopReachesHost ==
  \A r \in Rotors : <>[](r \notin turning) => <>[](~ host[r])

(***************************************************************************)
(* A speed the host sets and leaves is reported back to it.                *)
(***************************************************************************)
SpeedReachesHost ==
  \A v \in Speeds : <>[](lastset = v) => <>[](host.p_fan = v)
=============================================================================
