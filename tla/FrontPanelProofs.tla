-------------------------- MODULE FrontPanelProofs --------------------------
(***************************************************************************)
(* Proofs about the keyboard, for any buttons, wheels and turns.           *)
(***************************************************************************)
EXTENDS FrontPanel, TLAPS

\* A wheel is at most one quarter ahead of what has been decoded.
WheelAt(w) ==
  \E p \in {position[w] - 1, position[w], position[w] + 1} :
    whl_status[w] = Contacts(p) /\ net[w] = ClicksAt(p)

WheelInv == \A w \in Wheels : WheelAt(w)

Synced == prev = IF bank = <<>> THEN host ELSE Head(bank)

\* The first report after SetConfiguration: the HID task runs before the next
\* request can interfere.
FirstReportDue == idle /\ ~ waiting /\ bank = <<>> /\ pc \in {"check", "hid"}

SyncInv ==
  /\ ~ configured => bank = <<>>
  /\ configured /\ ~ disturbed => Synced \/ FirstReportDue

PanelInv == TypeOK /\ WheelInv /\ SyncInv
-----------------------------------------------------------------------------
LEMMA InitiallyPanelInv == Init => PanelInv
<1> SUFFICES ASSUME Init PROVE PanelInv
  OBVIOUS
<1>1. TypeOK
  <2>1. <<>> \in Seq(SUBSET Keys) /\ Len(<<>>) <= 1
    OBVIOUS
  <2>2. /\ [w \in Wheels |-> 0] \in [Wheels -> Int]
        /\ [w \in Wheels |-> {}] \in [Wheels -> Quarters]
    BY DEF Quarters
  <2> QED
    BY <2>1, <2>2 DEF Init, TypeOK
<1>2. WheelInv
  <2>1. Contacts(0) = {} /\ ClicksAt(0) = 0
    BY DEF Contacts, ClicksAt
  <2>2. \A w \in Wheels : position[w] = 0 /\ whl_status[w] = {} /\ net[w] = 0
    BY DEF Init
  <2> QED
    BY <2>1, <2>2 DEF WheelInv, WheelAt
<1>3. SyncInv
  BY DEF Init, SyncInv
<1> QED
  BY <1>1, <1>2, <1>3 DEF PanelInv

LEMMA TypeStep == TypeOK /\ [Next]_vars => TypeOK'
<1> SUFFICES ASSUME TypeOK, [Next]_vars PROVE TypeOK'
  OBVIOUS
<1>0. <<>> \in Seq(SUBSET Keys) /\ Len(<<>>) <= 1
  OBVIOUS
<1> USE DEF vars, inputVars, panelVars, hidVars, usbVars, TypeOK
<1>1. ASSUME SkipReport PROVE TypeOK'
  BY <1>1 DEF SkipReport
<1>2. ASSUME HID_Device_USBTask PROVE TypeOK'
  <2>1. CreateHIDReport \in SUBSET Keys
    BY DEF CreateHIDReport, Keys
  <2>2. bank' \in Seq(SUBSET Keys) /\ Len(bank') <= 1 /\ waiting' \in BOOLEAN
    <3>1. CASE CreateHIDReport # prev \/ (idle /\ ~ waiting)
      <4>1. bank' = Append(<<>>, CreateHIDReport) /\ waiting' = idle
        BY <1>2, <3>1 DEF HID_Device_USBTask, Send
      <4> QED
        BY <4>1, <2>1
    <3>2. CASE ~ (CreateHIDReport # prev \/ (idle /\ ~ waiting))
      BY <1>2, <3>2 DEF HID_Device_USBTask
    <3> QED
      BY <3>1, <3>2
  <2> QED
    BY <1>2, <2>1, <2>2 DEF HID_Device_USBTask, Send
<1>3. ASSUME NoRequest \/ NoTick PROVE TypeOK'
  BY <1>3 DEF NoRequest, NoTick
<1>4. ASSUME GetReport PROVE TypeOK'
  BY <1>4 DEF GetReport, CreateHIDReport, Keys
<1>14. ASSUME GetReportDelivered \/ GetReportLost PROVE TypeOK'
  BY <1>14 DEF GetReportDelivered, GetReportLost
<1>5. ASSUME SetConfiguration PROVE TypeOK'
  BY <1>0, <1>5 DEF SetConfiguration
<1>6. ASSUME NEW i \in BOOLEAN, SetIdle(i) PROVE TypeOK'
  BY <1>6 DEF SetIdle
<1>7. ASSUME CheckButtonState PROVE TypeOK'
  <2> DEFINE new == [w \in Wheels |-> Contacts(position[w])]
  <2>1. new \in [Wheels -> Quarters]
    BY DEF Contacts, Quarters
  <2>2. NewClicks(new) \subseteq Clicks
    BY DEF NewClicks
  <2>3. net' \in [Wheels -> Int]
    BY <1>7 DEF CheckButtonState
  <2>4. clicks' \subseteq Clicks
    BY <1>7, <2>2 DEF CheckButtonState
  <2>5. whl_status' \in [Wheels -> Quarters] /\ old_whl_status' \in [Wheels -> Quarters]
    BY <1>7, <2>1 DEF CheckButtonState, Debounced
  <2> QED
    BY <1>7, <2>3, <2>4, <2>5 DEF CheckButtonState, Debounced
<1>8. ASSUME HostPoll PROVE TypeOK'
  <2>1. bank' = <<>> /\ host' \subseteq Keys
    BY <1>8 DEF HostPoll
  <2> QED
    BY <1>0, <1>8, <2>1 DEF HostPoll
<1>9. ASSUME BusReset PROVE TypeOK'
  BY <1>0, <1>9 DEF BusReset
<1>10. ASSUME NEW b \in Buttons, Push(b) PROVE TypeOK'
  BY <1>10 DEF Push
<1>11. ASSUME NEW w \in Wheels, NEW turn \in Turns[w], Turn(w, turn) PROVE TypeOK'
  <2>1. turn[2] \in Int
    <3>1. turn \in Int \X Int
      BY TurnsAssumption
    <3> QED
      BY <3>1
  <2>2. position' \in [Wheels -> Int]
    BY <1>11, <2>1 DEF Turn
  <2> QED
    BY <1>11, <2>2 DEF Turn
<1>12. ASSUME ClearHalt PROVE TypeOK'
  BY <1>0, <1>12 DEF ClearHalt
<1>13. ASSUME UNCHANGED vars PROVE TypeOK'
  BY <1>13
<1> QED
  BY <1>1, <1>2, <1>3, <1>4, <1>5, <1>6, <1>7, <1>8, <1>9, <1>10, <1>11, <1>12, <1>13, <1>14
     DEF Next, Main
-----------------------------------------------------------------------------
LEMMA NextQuarter ==
  ASSUME NEW p \in Int
  PROVE  \/ /\ p % 4 = 0 /\ (p + 1) % 4 = 1
            /\ (p + 1) \div 4 = p \div 4
         \/ /\ p % 4 = 1 /\ (p + 1) % 4 = 2
            /\ (p + 1) \div 4 = p \div 4
         \/ /\ p % 4 = 2 /\ (p + 1) % 4 = 3
            /\ (p + 1) \div 4 = p \div 4
         \/ /\ p % 4 = 3 /\ (p + 1) % 4 = 0
            /\ (p + 1) \div 4 = (p \div 4) + 1
  OBVIOUS

\* A turn by a quarter is a click where ClicksAt says so, and no other.
LEMMA TurnedQuarter ==
  ASSUME NEW p \in Int
  PROVE  /\ ClicksAt(p) \in Int
         /\ Contacts(p) # Contacts(p + 1)
         /\ Decoded(Contacts(p), Contacts(p)) = {}
         /\ \/ /\ ClicksAt(p + 1) = ClicksAt(p)
               /\ Decoded(Contacts(p), Contacts(p + 1)) = {}
               /\ Decoded(Contacts(p + 1), Contacts(p)) = {}
            \/ /\ ClicksAt(p + 1) = ClicksAt(p) + 1
               /\ Decoded(Contacts(p), Contacts(p + 1)) = {"CW"}
               /\ Decoded(Contacts(p + 1), Contacts(p)) = {"CCW"}
<1>0. p \div 4 \in Int
  OBVIOUS
<1>1. CASE p % 4 = 0
  <2>1. Contacts(p) = {} /\ Contacts(p + 1) = {"A"}
    BY <1>1, NextQuarter DEF Contacts
  <2>2. /\ Decoded({}, {}) = {} /\ Decoded({}, {"A"}) = {"CW"}
        /\ Decoded({"A"}, {}) = {"CCW"}
    BY DEF Decoded
  <2>3. ClicksAt(p + 1) = ClicksAt(p) + 1 /\ ClicksAt(p) \in Int
    BY <1>0, <1>1, NextQuarter DEF ClicksAt
  <2> QED
    BY <2>1, <2>2, <2>3
<1>2. CASE p % 4 = 1
  <2>1. Contacts(p) = {"A"} /\ Contacts(p + 1) = {"A", "B"}
    BY <1>2, NextQuarter DEF Contacts
  <2>2. /\ Decoded({"A"}, {"A"}) = {} /\ Decoded({"A"}, {"A", "B"}) = {}
        /\ Decoded({"A", "B"}, {"A"}) = {}
    BY DEF Decoded
  <2>3. ClicksAt(p + 1) = ClicksAt(p) /\ ClicksAt(p) \in Int
    BY <1>0, <1>2, NextQuarter DEF ClicksAt
  <2> QED
    BY <2>1, <2>2, <2>3
<1>3. CASE p % 4 = 2
  <2>1. Contacts(p) = {"A", "B"} /\ Contacts(p + 1) = {"B"}
    BY <1>3, NextQuarter DEF Contacts
  <2>2. /\ Decoded({"A", "B"}, {"A", "B"}) = {}
        /\ Decoded({"A", "B"}, {"B"}) = {}
        /\ Decoded({"B"}, {"A", "B"}) = {}
    BY DEF Decoded
  <2>3. ClicksAt(p + 1) = ClicksAt(p) /\ ClicksAt(p) \in Int
    BY <1>0, <1>3, NextQuarter DEF ClicksAt
  <2> QED
    BY <2>1, <2>2, <2>3
<1>4. CASE p % 4 = 3
  <2>1. Contacts(p) = {"B"} /\ Contacts(p + 1) = {}
    BY <1>4, NextQuarter DEF Contacts
  <2>2. /\ Decoded({"B"}, {"B"}) = {} /\ Decoded({"B"}, {}) = {"CW"}
        /\ Decoded({}, {"B"}) = {"CCW"}
    BY DEF Decoded
  <2>3. ClicksAt(p + 1) = ClicksAt(p) + 1 /\ ClicksAt(p) \in Int
    BY <1>0, <1>4, NextQuarter DEF ClicksAt
  <2> QED
    BY <2>1, <2>2, <2>3
<1> QED
  BY <1>1, <1>2, <1>3, <1>4, NextQuarter

\* When the contacts are those of where the wheel stands, nothing is behind.
LEMMA DecodedIsHere ==
  ASSUME NEW w \in Wheels, position[w] \in Int, WheelAt(w),
         whl_status[w] = Contacts(position[w])
  PROVE  net[w] = ClicksAt(position[w])
<1>1. PICK p \in {position[w] - 1, position[w], position[w] + 1} :
        whl_status[w] = Contacts(p) /\ net[w] = ClicksAt(p)
  BY DEF WheelAt
<1>2. p # position[w] + 1
  BY <1>1, TurnedQuarter
<1>3. p # position[w] - 1
  <2> SUFFICES ASSUME p = position[w] - 1 PROVE FALSE
    OBVIOUS
  <2>1. p \in Int /\ p + 1 = position[w]
    OBVIOUS
  <2> QED
    BY <1>1, <2>1, TurnedQuarter
<1> QED
  BY <1>1, <1>2, <1>3

\* Decoding brings a wheel's clicks up to where it stands.
LEMMA DecodedCatchesUp ==
  ASSUME NEW w \in Wheels, NEW n, position[w] \in Int, net[w] \in Int, WheelAt(w),
         LET d == Decoded(whl_status[w], Contacts(position[w]))
         IN  n = net[w] + (IF "CW" \in d THEN 1 ELSE 0) - (IF "CCW" \in d THEN 1 ELSE 0)
  PROVE  n = ClicksAt(position[w])
<1> DEFINE d == Decoded(whl_status[w], Contacts(position[w]))
<1>1. n = net[w] + (IF "CW" \in d THEN 1 ELSE 0) - (IF "CCW" \in d THEN 1 ELSE 0)
  OBVIOUS
<1>2. PICK p \in {position[w] - 1, position[w], position[w] + 1} :
        whl_status[w] = Contacts(p) /\ net[w] = ClicksAt(p)
  BY DEF WheelAt
<1>3. CASE p = position[w]
  <2>1. d = {}
    BY <1>3, <1>2, TurnedQuarter
  <2> HIDE DEF d
  <2> QED
    BY <2>1, <1>1, <1>2, <1>3
<1>4. CASE p = position[w] - 1
  <2>1. p \in Int /\ p + 1 = position[w]
    BY <1>4
  <2>2. \/ ClicksAt(position[w]) = net[w] /\ d = {}
        \/ ClicksAt(position[w]) = net[w] + 1 /\ d = {"CW"}
    BY <2>1, <1>2, TurnedQuarter
  <2> HIDE DEF d
  <2> QED
    BY <2>2, <1>1
<1>5. CASE p = position[w] + 1
  <2>1. \/ net[w] = ClicksAt(position[w]) /\ d = {}
        \/ net[w] = ClicksAt(position[w]) + 1 /\ d = {"CCW"}
    BY <1>5, <1>2, TurnedQuarter
  <2>2. ClicksAt(position[w]) \in Int
    BY TurnedQuarter
  <2> HIDE DEF d
  <2> QED
    BY <2>1, <2>2, <1>1
<1> QED
  BY <1>2, <1>3, <1>4, <1>5

LEMMA WheelStep == TypeOK /\ WheelInv /\ [Next]_vars => WheelInv'
<1> SUFFICES ASSUME TypeOK, WheelInv, [Next]_vars, NEW w \in Wheels PROVE WheelAt(w)'
  BY DEF WheelInv
<1>1. position[w] \in Int /\ net[w] \in Int /\ WheelAt(w)
  BY DEF TypeOK, WheelInv
<1>2. ASSUME CheckButtonState PROVE WheelAt(w)'
  <2> DEFINE new == [v \in Wheels |-> Contacts(position[v])]
  <2>0. position' = position
    BY <1>2 DEF CheckButtonState, inputVars
  <2>1. CASE new # old_whl_status
    <3>1. whl_status' = whl_status
      BY <1>2, <2>1 DEF CheckButtonState, Debounced
    <3>2. net'[w] = net[w]
      BY <1>1, <1>2, <2>1 DEF CheckButtonState
    <3> QED
      BY <1>1, <2>0, <3>1, <3>2 DEF WheelAt
  <2>2. CASE new = old_whl_status
    <3> DEFINE d == Decoded(whl_status[w], Contacts(position[w]))
    <3>1. whl_status'[w] = Contacts(position[w])
      BY <1>2, <2>2 DEF CheckButtonState, Debounced
    <3>2. \A c \in {"CW", "CCW"} : <<w, c>> \in NewClicks(new) <=> c \in d
      BY DEF NewClicks, Clicks
    <3>3. net'[w] = net[w] + (IF <<w, "CW">> \in NewClicks(new) THEN 1 ELSE 0)
                      - (IF <<w, "CCW">> \in NewClicks(new) THEN 1 ELSE 0)
      BY <1>2, <2>2 DEF CheckButtonState
    <3>4. net'[w] = net[w] + (IF "CW" \in d THEN 1 ELSE 0) - (IF "CCW" \in d THEN 1 ELSE 0)
      BY <3>2, <3>3
    <3>5. net'[w] = ClicksAt(position[w])
      BY <1>1, <3>4, DecodedCatchesUp
    <3> QED
      BY <1>1, <2>0, <3>1, <3>5 DEF WheelAt
  <2> QED
    BY <2>1, <2>2
<1>3. ASSUME NEW v \in Wheels, NEW turn \in Turns[v], Turn(v, turn) PROVE WheelAt(w)'
  <2>1. UNCHANGED <<whl_status, net>>
    BY <1>3 DEF Turn, panelVars
  <2>2. CASE v = w
    <3>1. whl_status[w] = Contacts(position[w]) /\ position[w] = turn[1]
      BY <1>3, <2>2 DEF Turn
    <3>2. net[w] = ClicksAt(position[w])
      BY <1>1, <3>1, DecodedIsHere
    <3>3. position'[w] \in {position[w] - 1, position[w] + 1}
      BY <1>3, <2>2, <3>1, TurnsAssumption DEF Turn, TypeOK
    <3>4. position[w] \in {position'[w] - 1, position'[w] + 1}
      BY <1>1, <3>3
    <3> QED
      BY <2>1, <3>1, <3>2, <3>4 DEF WheelAt
  <2>3. CASE v # w
    <3>1. position'[w] = position[w]
      BY <1>3, <2>3 DEF Turn, TypeOK
    <3> QED
      BY <1>1, <2>1, <3>1 DEF WheelAt
  <2> QED
    BY <2>2, <2>3
<1>4. ASSUME UNCHANGED <<position, whl_status, net>> PROVE WheelAt(w)'
  BY <1>1, <1>4 DEF WheelAt
<1> QED
  <2> USE DEF vars, inputVars, panelVars, hidVars, usbVars
  <2>1. CASE Main
    BY <2>1, <1>2, <1>4 DEF Main, SkipReport, HID_Device_USBTask, NoRequest,
       GetReport, GetReportDelivered, GetReportLost, SetIdle, SetConfiguration,
       ClearHalt, NoTick
  <2> QED
    BY <2>1, <1>3, <1>4 DEF Next, HostPoll, BusReset, Push
-----------------------------------------------------------------------------
LEMMA SyncStep == TypeOK /\ SyncInv /\ [Next]_vars => SyncInv'
<1> SUFFICES ASSUME TypeOK, SyncInv, [Next]_vars PROVE SyncInv'
  OBVIOUS
<1> USE DEF vars, inputVars, panelVars, hidVars, usbVars, SyncInv, Synced, FirstReportDue
<1>1. ASSUME SkipReport PROVE SyncInv'
  BY <1>1 DEF SkipReport
<1>2. ASSUME HID_Device_USBTask PROVE SyncInv'
  <2>1. CASE CreateHIDReport # prev \/ (idle /\ ~ waiting)
    <3>1. bank' = Append(<<>>, CreateHIDReport) /\ prev' = CreateHIDReport
      BY <1>2, <2>1 DEF HID_Device_USBTask, Send
    <3>2. bank' # <<>> /\ Head(bank') = prev'
      BY <3>1
    <3>3. configured'
      BY <1>2 DEF HID_Device_USBTask
    <3> QED
      BY <3>2, <3>3
  <2>2. CASE CreateHIDReport = prev /\ ~ (idle /\ ~ waiting)
    BY <1>2, <2>2 DEF HID_Device_USBTask
  <2> QED
    BY <2>1, <2>2
<1>3. ASSUME NoRequest PROVE SyncInv'
  BY <1>3 DEF NoRequest
<1>4. ASSUME NoTick PROVE SyncInv'
  BY <1>4 DEF NoTick
<1>5. ASSUME GetReport PROVE SyncInv'
  BY <1>5 DEF GetReport
<1>15. ASSUME GetReportDelivered PROVE SyncInv'
  BY <1>15 DEF GetReportDelivered
<1>16. ASSUME GetReportLost PROVE SyncInv'
  BY <1>16 DEF GetReportLost
<1>6. ASSUME SetConfiguration PROVE SyncInv'
  BY <1>6 DEF SetConfiguration
<1>7. ASSUME NEW i \in BOOLEAN, SetIdle(i) PROVE SyncInv'
  BY <1>7 DEF SetIdle
<1>8. ASSUME CheckButtonState PROVE SyncInv'
  BY <1>8 DEF CheckButtonState
<1>9. ASSUME HostPoll PROVE SyncInv'
  BY <1>9 DEF HostPoll
<1>10. ASSUME BusReset PROVE SyncInv'
  BY <1>10 DEF BusReset
<1>11. ASSUME NEW b \in Buttons, Push(b) PROVE SyncInv'
  BY <1>11 DEF Push
<1>12. ASSUME NEW w \in Wheels, NEW turn \in Turns[w], Turn(w, turn) PROVE SyncInv'
  BY <1>12 DEF Turn
<1>13. ASSUME ClearHalt PROVE SyncInv'
  BY <1>13 DEF ClearHalt
<1>14. ASSUME UNCHANGED vars PROVE SyncInv'
  BY <1>14
<1> QED
  BY <1>1, <1>2, <1>3, <1>4, <1>5, <1>6, <1>7, <1>8, <1>9, <1>10, <1>11, <1>12, <1>13, <1>14,
     <1>15, <1>16 DEF Next, Main
-----------------------------------------------------------------------------
(***************************************************************************)
(* The inductive invariant of the keyboard.                                *)
(***************************************************************************)
THEOREM PanelInvariant == Spec => []PanelInv
<1>1. Init => PanelInv
  BY InitiallyPanelInv
<1>2. PanelInv /\ [Next]_vars => PanelInv'
  BY TypeStep, WheelStep, SyncStep DEF PanelInv
<1> QED
  BY <1>1, <1>2, PTL DEF Spec

(***************************************************************************)
(* Every variable of the keyboard keeps its type, and the endpoint never   *)
(* holds two reports, because HID_Device_USBTask asks first.               *)
(***************************************************************************)
THEOREM PanelTypeCorrect == Spec => []TypeOK
<1>1. PanelInv => TypeOK
  BY DEF PanelInv
<1> QED
  BY <1>1, PanelInvariant, PTL

(***************************************************************************)
(* CheckButtonState neither loses nor invents a click of any wheel, however*)
(* far and however often the wheels are turned to and fro.                 *)
(***************************************************************************)
THEOREM WheelIsExact == Spec => []WheelExact
<1>1. PanelInv => WheelExact
  <2> SUFFICES ASSUME TypeOK, WheelInv, NEW w \in Wheels,
                      whl_status[w] = Contacts(position[w])
               PROVE  net[w] = ClicksAt(position[w])
    BY DEF PanelInv, WheelExact
  <2>1. position[w] \in Int /\ WheelAt(w)
    BY DEF TypeOK, WheelInv
  <2> QED
    BY <2>1, DecodedIsHere
<1> QED
  BY <1>1, PanelInvariant, PTL

(***************************************************************************)
(* What HID_Device_USBTask compares with is what the host has or is about  *)
(* to get, for every order of requests, resets and polls, unless a         *)
(* GetReport or a ClearFeature has just lost a change for the host.        *)
(***************************************************************************)
THEOREM HostStaysInSync == Spec => []HostInSync
<1>1. PanelInv => HostInSync
  BY DEF PanelInv, SyncInv, Synced, FirstReportDue, HostInSync
<1> QED
  BY <1>1, PanelInvariant, PTL
=============================================================================
