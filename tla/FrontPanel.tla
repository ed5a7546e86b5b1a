----------------------------- MODULE FrontPanel -----------------------------
(***************************************************************************)
(* The keyboard of Firmware/rpc.c: CheckButtonState debounces the buttons  *)
(* and decodes the wheels, and HID_Device_USBTask of LUFA's HID class      *)
(* driver reports them to the host, along with the HID requests and bus    *)
(* resets that change what is reported.                                    *)
(*                                                                         *)
(* A report is the set of its keys.  Contacts are debounced together and   *)
(* decoded wheel by wheel.  A bus reset falls between two functions of the *)
(* main loop, or into the data stage of GetReport.                         *)
(***************************************************************************)
EXTENDS Integers, Sequences

CONSTANTS
  Buttons,    \* the buttons in play; with two wheels at most two, since a
              \* report has room for six keys
  Wheels,     \* the wheels, two on the device
  Turns,      \* bound: the turns of each wheel, from where to where, in
              \* quarters of a detent
  Together    \* bound: the sets of controls that one user touches

Clicks == Wheels \X {"CW", "CCW"}

ASSUME ButtonsAssumption == Buttons \cap Clicks = {}
ASSUME TurnsAssumption ==
  /\ Turns \in [Wheels -> SUBSET (Int \X Int)]
  /\ \A w \in Wheels : \A turn \in Turns[w] : turn[2] \in {turn[1] - 1, turn[1] + 1}
ASSUME TogetherAssumption == Together \subseteq SUBSET (Buttons \cup Wheels)

VARIABLES
  pc,         \* which function the main loop calls next
  touched,    \* the controls this user touches
  pressed,    \* the buttons that are held down
  position,   \* where each wheel stands
  old_btn_status, btn_status,
  old_whl_status, whl_status,  \* the contacts of each wheel
  clicks,     \* the WHL_n_CW and WHL_n_CCW bits of whl_status
  net,        \* history: each wheel's clicks so far, CW minus CCW
  prev,       \* PrevKeyboardHIDReportBuffer
  idle,       \* State.IdleCount is not 0
  waiting,    \* State.IdleMSRemaining is not 0
  bank,       \* the bank of the IN endpoint: at most one report
  host,       \* the last report the host got
  configured, \* USB_DeviceState = DEVICE_STATE_Configured
  disturbed   \* history: a request took prev away from what the host gets

inputVars == <<touched, pressed, position>>
panelVars == <<old_btn_status, btn_status, old_whl_status, whl_status, net>>
hidVars   == <<prev, idle, waiting>>
usbVars   == <<bank, host, configured, disturbed>>
vars == <<pc, inputVars, panelVars, clicks, hidVars, usbVars>>

\* The contacts that are closed in the four quarters of a detent.
Contacts(p) ==
  CASE p % 4 = 0 -> {}
    [] p % 4 = 1 -> {"A"}
    [] p % 4 = 2 -> {"A", "B"}
    [] p % 4 = 3 -> {"B"}

Init ==
  /\ pc = "hid"
  /\ touched \in Together
  /\ pressed = {} /\ position = [w \in Wheels |-> 0]
  /\ old_btn_status = {} /\ btn_status = {}
  /\ old_whl_status = [w \in Wheels |-> {}] /\ whl_status = [w \in Wheels |-> {}]
  /\ clicks = {}
  /\ net = [w \in Wheels |-> 0]
  /\ prev = {}
  /\ idle = FALSE /\ waiting = FALSE
  /\ bank = <<>> /\ host = {}
  /\ configured = FALSE
  /\ disturbed = FALSE
-----------------------------------------------------------------------------
(* Fingers.                                                                 *)

Push(b) ==
  /\ b \in touched
  /\ pressed' = IF b \in pressed THEN pressed \ {b} ELSE pressed \cup {b}
  /\ UNCHANGED <<pc, touched, position, panelVars, clicks, hidVars, usbVars>>

\* Not so fast that the debouncing misses a quarter of this wheel, which takes
\* the longer the more the other wheel moves.
Turn(w, turn) ==
  /\ w \in touched /\ turn[1] = position[w]
  /\ whl_status[w] = Contacts(position[w])
  /\ position' = [position EXCEPT ![w] = turn[2]]
  /\ UNCHANGED <<pc, touched, pressed, panelVars, clicks, hidVars, usbVars>>
-----------------------------------------------------------------------------
(* HID_Device_USBTask.                                                      *)

CreateHIDReport == btn_status \cup clicks

\* Nothing to do: not configured, or the bank is still full.
SkipReport ==
  /\ pc = "hid"
  /\ ~ configured \/ bank # <<>>
  /\ pc' = "usb"
  /\ UNCHANGED <<inputVars, panelVars, clicks, hidVars, usbVars>>

Send(report) ==
  bank' = Append(bank, report) /\ waiting' = idle /\ disturbed' = FALSE

\* Mutation: the report is not remembered.
MutHID_Device_USBTask ==
  /\ pc = "hid"
  /\ configured /\ bank = <<>>
  /\ pc' = "usb"
  /\ clicks' = {}
  /\ IF CreateHIDReport # prev \/ (idle /\ ~ waiting)
       THEN Send(CreateHIDReport)
       ELSE UNCHANGED <<bank, waiting, disturbed>>
  /\ UNCHANGED <<inputVars, panelVars, prev, idle, host, configured>>

\* Mutation: Endpoint_IsReadWriteAllowed is not asked.
MutEagerUSBTask ==
  /\ pc = "hid"
  /\ configured
  /\ pc' = "usb"
  /\ clicks' = {}
  /\ prev' = CreateHIDReport
  /\ IF CreateHIDReport # prev \/ (idle /\ ~ waiting)
       THEN Send(CreateHIDReport)
       ELSE UNCHANGED <<bank, waiting, disturbed>>
  /\ UNCHANGED <<inputVars, panelVars, idle, host, configured>>

\* The clicks are used up and the report is remembered even when it is not
\* sent; the idle time never runs down, nothing calls MillisecondElapsed.
HID_Device_USBTask ==
  /\ pc = "hid"
  /\ configured /\ bank = <<>>
  /\ pc' = "usb"
  /\ clicks' = {}
  /\ prev' = CreateHIDReport
  /\ IF CreateHIDReport # prev \/ (idle /\ ~ waiting)
       THEN Send(CreateHIDReport)
       ELSE UNCHANGED <<bank, waiting, disturbed>>
  /\ UNCHANGED <<inputVars, panelVars, idle, host, configured>>

HostPoll ==
  /\ bank # <<>>
  /\ host' = Head(bank)
  /\ bank' = <<>>
  /\ UNCHANGED <<pc, inputVars, panelVars, clicks, hidVars, configured, disturbed>>
-----------------------------------------------------------------------------
(* USB_USBTask serves at most one control request.                          *)

NoRequest ==
  /\ pc = "usb"
  /\ pc' = "check"
  /\ UNCHANGED <<inputVars, panelVars, clicks, hidVars, usbVars>>

\* HID_REQ_GetReport builds the same report and remembers it before a byte of
\* it is written to the control endpoint.
GetReport ==
  /\ pc = "usb" /\ configured
  /\ pc' = "answer"
  /\ clicks' = {}
  /\ prev' = CreateHIDReport
  /\ disturbed' = (disturbed \/ CreateHIDReport # prev)
  /\ UNCHANGED <<inputVars, panelVars, idle, waiting, bank, host, configured>>

\* Endpoint_Write_Control_Stream_LE returns, and nobody looks at its result.
\* A report that still waits in the bank reaches the host after this one.
GetReportDelivered ==
  /\ pc = "answer" /\ configured
  /\ pc' = "check"
  /\ host' = prev
  /\ disturbed' = (disturbed /\ bank # <<>>)
  /\ UNCHANGED <<inputVars, panelVars, clicks, hidVars, bank, configured>>

\* The host broke the transfer off or asked for a part only, or the bus was
\* suspended or reset: no report for the host.
GetReportLost ==
  /\ pc = "answer"
  /\ pc' = "check"
  /\ UNCHANGED <<inputVars, panelVars, clicks, hidVars, usbVars>>

SetIdle(i) ==
  /\ pc = "usb" /\ configured
  /\ pc' = "check"
  /\ idle' = i
  /\ UNCHANGED <<inputVars, panelVars, clicks, prev, waiting, usbVars>>

\* Mutation: the state of the class driver is not cleared.
MutSetConfiguration ==
  /\ pc = "usb"
  /\ pc' = "check"
  /\ idle' = TRUE
  /\ configured' = TRUE
  /\ bank' = <<>> /\ host' = {}
  /\ disturbed' = FALSE
  /\ UNCHANGED <<inputVars, panelVars, clicks, prev, waiting>>

\* HID_Device_ConfigureEndpoints clears the state and the endpoint, not the
\* previous report.  Configuration 0 leaves the device configured too.  The
\* host unbinds its driver first and takes every key for released.
SetConfiguration ==
  /\ pc = "usb"
  /\ pc' = "check"
  /\ idle' = TRUE /\ waiting' = FALSE
  /\ configured' = TRUE
  /\ bank' = <<>> /\ host' = {}
  /\ disturbed' = FALSE
  /\ UNCHANGED <<inputVars, panelVars, clicks, prev>>

\* ClearFeature(ENDPOINT_HALT) resets the endpoint.
ClearHalt ==
  /\ pc = "usb" /\ configured
  /\ pc' = "check"
  /\ bank' = <<>>
  /\ disturbed' = (disturbed \/ (bank # <<>> /\ Head(bank) # host))
  /\ UNCHANGED <<inputVars, panelVars, clicks, hidVars, host, configured>>

\* The reset interrupt, and the host taking every key for released.
BusReset ==
  /\ configured
  /\ configured' = FALSE
  /\ bank' = <<>> /\ host' = {}
  /\ disturbed' = FALSE
  /\ UNCHANGED <<pc, inputVars, panelVars, clicks, hidVars>>
-----------------------------------------------------------------------------
(* CheckButtonState.                                                        *)

NoTick ==
  /\ pc = "check"
  /\ pc' = "hid"
  /\ UNCHANGED <<inputVars, panelVars, clicks, hidVars, usbVars>>

\* Mutation: the other contact is not looked at.
MutDecoded(saved, new) ==
  IF "A" \notin saved /\ "A" \in new THEN {"CW"}
  ELSE IF "B" \in saved /\ "B" \notin new /\ "A" \notin new THEN {"CW"}
  ELSE IF "A" \in saved /\ "A" \notin new /\ "B" \notin new THEN {"CCW"}
  ELSE IF "B" \notin saved /\ "B" \in new /\ "A" \notin new THEN {"CCW"}
  ELSE {}

Decoded(saved, new) ==
  IF \/ "A" \notin saved /\ new = {"A"}
     \/ "B" \in saved /\ new = {}
    THEN {"CW"}
  ELSE IF \/ "A" \in saved /\ new = {}
          \/ "B" \notin saved /\ new = {"B"}
    THEN {"CCW"}
  ELSE {}

Debounced(new, old, status) == IF new = old THEN new ELSE status

NewClicks(new) ==
  {k \in Clicks : k[2] \in Decoded(whl_status[k[1]], new[k[1]])}

\* Timer0 has overflowed.  One comparison debounces the contacts of all wheels.
CheckButtonState ==
  LET new     == [w \in Wheels |-> Contacts(position[w])]
      decoded == IF new = old_whl_status THEN NewClicks(new) ELSE {}
      Turned(k) == IF k \in decoded THEN 1 ELSE 0
  IN /\ pc = "check"
     /\ pc' = "hid"
     /\ btn_status' = Debounced(pressed, old_btn_status, btn_status)
     /\ old_btn_status' = pressed
     /\ whl_status' = Debounced(new, old_whl_status, whl_status)
     /\ old_whl_status' = new
     /\ clicks' = clicks \cup decoded
     /\ net' = [w \in Wheels |-> net[w] + Turned(<<w, "CW">>) - Turned(<<w, "CCW">>)]
     /\ UNCHANGED <<inputVars, hidVars, usbVars>>
-----------------------------------------------------------------------------
Main ==
  \/ SkipReport \/ HID_Device_USBTask
  \/ NoRequest \/ GetReport \/ GetReportDelivered \/ GetReportLost
  \/ SetConfiguration \/ ClearHalt
  \/ \E i \in BOOLEAN : SetIdle(i)
  \/ NoTick \/ CheckButtonState

Next ==
  \/ Main
  \/ HostPoll
  \/ BusReset
  \/ \E b \in Buttons : Push(b)
  \/ \E w \in Wheels : \E turn \in Turns[w] : Turn(w, turn)

\* The main loop goes round, because the host goes on with a GetReport or gives
\* it up; Timer0 keeps its overflow until it is asked; the host goes on polling.
Fairness == WF_vars(Main) /\ SF_vars(CheckButtonState) /\ WF_vars(HostPoll)

Spec == Init /\ [][Next]_vars
FairSpec == Spec /\ Fairness
-----------------------------------------------------------------------------
Keys == Buttons \cup Clicks

Quarters == SUBSET {"A", "B"}

TypeOK ==
  /\ pc \in {"hid", "usb", "answer", "check"}
  /\ touched \in Together
  /\ pressed \subseteq Buttons /\ position \in [Wheels -> Int]
  /\ old_btn_status \subseteq Buttons /\ btn_status \subseteq Buttons
  /\ old_whl_status \in [Wheels -> Quarters] /\ whl_status \in [Wheels -> Quarters]
  /\ clicks \subseteq Clicks
  /\ net \in [Wheels -> Int]
  /\ prev \subseteq Keys
  /\ idle \in BOOLEAN /\ waiting \in BOOLEAN
  /\ bank \in Seq(SUBSET Keys) /\ Len(bank) <= 1
  /\ host \subseteq Keys
  /\ configured \in BOOLEAN /\ disturbed \in BOOLEAN

\* The clicks of a wheel that was turned from 0 to p: one on leaving a detent
\* clockwise and one on entering the next, and the same backwards.
ClicksAt(p) == 2 * (p \div 4) + (IF p % 4 = 0 THEN 0 ELSE 1)

(***************************************************************************)
(* Wherever each wheel is turned, to and fro and in between, the clicks    *)
(* decoded so far are those of where it stands: none is lost or made up,   *)
(* although the other wheel delays the debouncing of both.                 *)
(***************************************************************************)
WheelExact ==
  \A w \in Wheels :
    whl_status[w] = Contacts(position[w]) => net[w] = ClicksAt(position[w])

(***************************************************************************)
(* What the HID driver compares with to find out whether anything changed  *)
(* is what the host has, or will have once it has taken the report in the  *)
(* bank; across resets too, unless the next report is sent anyway.  Only a *)
(* GetReport that carries a change and is broken off or overtakes the      *)
(* bank, or a ClearFeature(ENDPOINT_HALT) that drops a change, breaks this,*)
(* and the next report that is sent mends it.                              *)
(***************************************************************************)
HostInSync ==
  configured /\ ~ disturbed /\ (idle => waiting) =>
    prev = IF bank = <<>> THEN host ELSE Head(bank)

(***************************************************************************)
(* Once the buttons and the wheels are left alone and the host has done    *)
(* configuring, it ends up with exactly the buttons that are held and no   *)
(* key of a wheel stuck, unless a change was lost with a GetReport or a    *)
(* ClearFeature and no other report is sent for ever after.                *)
(***************************************************************************)
HostSettles ==
  /\ <>[]configured
  /\ <>[][FALSE]_<<pressed, position>>
  /\ <>[][~ SetConfiguration]_vars
  => <>[](host = pressed) \/ <>[]disturbed
=============================================================================
