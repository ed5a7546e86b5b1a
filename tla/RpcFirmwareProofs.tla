------------------------- MODULE RpcFirmwareProofs --------------------------
(***************************************************************************)
(* Proofs about the main loop of the firmware for any speeds the host      *)
(* sends and any rotors that turn.                                         *)
(***************************************************************************)
EXTENDS RpcFirmware, TLAPS

\* main has not yet reached the workers.
Early ==
  {LoopTop, <<"rpc", "send">>, <<"usb", "begin">>, <<"usb", "store">>}
    \cup {"copy flow", "copy fan"} \X Bytes

\* main holds a copy of fan_flow_status that it may store.
Holding ==
  {"flow", "temp", "fan"} \X {"work", "store reading", "clear", "store"}
    \cup {"set"} \X {"test", "work", "clear", "store"}

\* The edge that raised this rotor's flag is being used up.
Using(r) == {<<r, "store reading">>, <<r, "clear">>, <<r, "store">>}

Applied == p_fan = lastset /\ ocr4a = 30 + lastset /\ pe2 = (lastset # 0)

\* An accepted speed is either applied or pending.  While it is pending, the
\* flag stands in every copy of fan_flow_status main could store, and
\* fan_value is still the accepted one.
SpeedInv ==
  /\ pc \in Early => "set" \notin flags
  /\ "set" \in flags \/ pc = <<"usb", "store">> =>
       fan_value = lastset /\ lastset \in 0..100
  /\ lastset # None /\ "set" \notin flags /\ pc # <<"usb", "store">> => Applied
  /\ pc \in Holding => ("set" \in seen <=> "set" \in flags)
  /\ pc \in {"set"} \X {"work", "clear", "store"} => "set" \in flags
  /\ pc \in {"set"} \X {"clear", "store"} => Applied

\* Whoever holds a rotor's flag has an edge that is not used yet.
SampleInv ==
  /\ \A r \in Rotors : r \in flags \cup seen => r \in fresh \/ pc \in Using(r)
  /\ SampleUsedOnce

\* main copies a report only when the endpoint has room for it.
BankInv == pc \in {"copy flow", "copy fan"} \X Bytes \cup {<<"rpc", "send">>} => bank = <<>>

IInv == TypeOK /\ BankInv /\ PwmInRange /\ SpeedInv /\ SampleInv
-----------------------------------------------------------------------------
\* The steps keep every variable in its type.
LEMMA TypeStep == TypeOK /\ BankInv /\ [Next]_vars => TypeOK'
<1> SUFFICES ASSUME TypeOK, BankInv, [Next]_vars PROVE TypeOK'
  OBVIOUS
<1> USE DEF vars, mainVars, speedVars, usbVars, copyVars, rotorVars
<1>1. ASSUME RPC_Device_USBTask PROVE TypeOK'
  BY <1>1 DEF TypeOK, MainTypeOK, SpeedTypeOK, RotorTypeOK, UsbTypeOK, Steps,
     Report, Flags, Rotors, Bytes, LoopTop, None, RPC_Device_USBTask
<1>2. ASSUME CreateRPCReport PROVE TypeOK'
  <2>1. CASE CopyByte("flow", "lo", <<"copy flow", "lo">>, <<"copy flow", "hi">>)
    BY <2>1 DEF TypeOK, MainTypeOK, SpeedTypeOK, RotorTypeOK, UsbTypeOK, Steps,
       Report, Flags, Rotors, Bytes, LoopTop, None, CreateRPCReport, CopyByte
  <2>2. CASE CopyByte("flow", "hi", <<"copy flow", "hi">>, <<"copy fan", "lo">>)
    BY <2>2 DEF TypeOK, MainTypeOK, SpeedTypeOK, RotorTypeOK, UsbTypeOK, Steps,
       Report, Flags, Rotors, Bytes, LoopTop, None, CreateRPCReport, CopyByte
  <2>3. CASE CopyByte("fan", "lo", <<"copy fan", "lo">>, <<"copy fan", "hi">>)
    BY <2>3 DEF TypeOK, MainTypeOK, SpeedTypeOK, RotorTypeOK, UsbTypeOK, Steps,
       Report, Flags, Rotors, Bytes, LoopTop, None, CreateRPCReport, CopyByte
  <2>4. CASE CopyByte("fan", "hi", <<"copy fan", "hi">>, <<"rpc", "send">>)
    BY <2>4 DEF TypeOK, MainTypeOK, SpeedTypeOK, RotorTypeOK, UsbTypeOK, Steps,
       Report, Flags, Rotors, Bytes, LoopTop, None, CreateRPCReport, CopyByte
  <2> QED
    BY <1>2, <2>1, <2>2, <2>3, <2>4 DEF CreateRPCReport
<1>3. ASSUME SendReport PROVE TypeOK'
  <2>1. MainTypeOK'
    BY <1>3 DEF TypeOK, MainTypeOK, Steps, Flags, Rotors, Bytes, LoopTop,
       SendReport
  <2>2. SpeedTypeOK'
    BY <1>3 DEF TypeOK, SpeedTypeOK, None, SendReport
  <2>3. RotorTypeOK'
    BY <1>3 DEF TypeOK, RotorTypeOK, SendReport
  <2>4. UsbTypeOK'
    <3>1. bank = <<>>
      BY <1>3 DEF BankInv, SendReport
    <3> DEFINE x == [flow |-> report["flow"], fan |-> report["fan"], p_fan |-> p_fan]
    <3>2. x \in Report
      BY DEF TypeOK, MainTypeOK, SpeedTypeOK, Report, Rotors
    <3>3. bank' = <<x>> /\ host' = host
      BY <1>3, <3>1 DEF SendReport
    <3> HIDE DEF x
    <3> QED
      BY <3>2, <3>3 DEF TypeOK, UsbTypeOK
  <2> QED
    BY <2>1, <2>2, <2>3, <2>4 DEF TypeOK
<1>4. ASSUME NoRequest PROVE TypeOK'
  BY <1>4 DEF TypeOK, MainTypeOK, SpeedTypeOK, RotorTypeOK, UsbTypeOK, Steps,
     Report, Flags, Rotors, Bytes, LoopTop, None, NoRequest
<1>5. ASSUME NEW v \in Speeds, ProcessRPCSetFanspeed(v) PROVE TypeOK'
  <2>1. MainTypeOK'
    <3>1. pc' \in {<<"usb", "store">>, <<"flow", "test">>} /\ seen' \in {seen, flags}
      BY <1>5 DEF ProcessRPCSetFanspeed
    <3>2. UNCHANGED <<flags, reading, unstored, report>>
      BY <1>5 DEF ProcessRPCSetFanspeed, copyVars
    <3>3. pc' \in Steps
      <4>1. CASE pc' = <<"usb", "store">>
        BY <4>1 DEF Steps, Flags, Rotors
      <4>2. CASE pc' = <<"flow", "test">>
        BY <4>2 DEF Steps, Flags, Rotors
      <4> QED
        BY <3>1, <4>1, <4>2
    <3> QED
      BY <3>1, <3>2, <3>3 DEF TypeOK, MainTypeOK
  <2>2. SpeedTypeOK'
    <3>1. v \in 0..255
      BY SpeedsAssumption DEF SpeedsAssumption
    <3> QED
      BY <1>5, <3>1 DEF TypeOK, SpeedTypeOK, None, ProcessRPCSetFanspeed
  <2>3. RotorTypeOK'
    BY <1>5 DEF TypeOK, RotorTypeOK, ProcessRPCSetFanspeed
  <2>4. UsbTypeOK'
    BY <1>5 DEF TypeOK, UsbTypeOK, ProcessRPCSetFanspeed
  <2> QED
    BY <2>1, <2>2, <2>3, <2>4 DEF TypeOK
<1>6. ASSUME RaiseSetFlag PROVE TypeOK'
  BY <1>6 DEF TypeOK, MainTypeOK, SpeedTypeOK, RotorTypeOK, UsbTypeOK, Steps,
     Report, Flags, Rotors, Bytes, LoopTop, None, RaiseSetFlag
<1>7. ASSUME NEW f \in Flags, TestFlag(f) PROVE TypeOK'
  BY <1>7 DEF TypeOK, MainTypeOK, SpeedTypeOK, RotorTypeOK, UsbTypeOK, Steps,
     Report, Flags, Rotors, Bytes, LoopTop, None, TestFlag, Following
<1>8. ASSUME NEW f \in Flags, LoadFlags(f) PROVE TypeOK'
  BY <1>8 DEF TypeOK, MainTypeOK, SpeedTypeOK, RotorTypeOK, UsbTypeOK, Steps,
     Report, Flags, Rotors, Bytes, LoopTop, None, LoadFlags
<1>9. ASSUME NEW f \in Flags, ClearFlag(f) PROVE TypeOK'
  BY <1>9 DEF TypeOK, MainTypeOK, SpeedTypeOK, RotorTypeOK, UsbTypeOK, Steps,
     Report, Flags, Rotors, Bytes, LoopTop, None, ClearFlag, Following
<1>10. ASSUME NEW r \in Rotors, TakeSample(r) PROVE TypeOK'
  <2>1. MainTypeOK'
    <3>1. pc' \in {<<r, "clear">>, <<r, "store reading">>} /\ UNCHANGED <<seen, flags, report>>
      BY <1>10 DEF TakeSample
    <3>2. reading' \subseteq Bytes /\ unstored' \subseteq Bytes
      BY <1>10 DEF TypeOK, MainTypeOK, TakeSample
    <3>3. pc' \in Steps
      <4>1. CASE pc' = <<r, "clear">>
        BY <4>1 DEF Steps, Flags, Rotors
      <4>2. CASE pc' = <<r, "store reading">>
        BY <4>2 DEF Steps, Flags, Rotors
      <4> QED
        BY <3>1, <4>1, <4>2
    <3> QED
      BY <3>1, <3>2, <3>3 DEF TypeOK, MainTypeOK
  <2>2. SpeedTypeOK'
    BY <1>10 DEF TypeOK, SpeedTypeOK, None, TakeSample
  <2>3. RotorTypeOK'
    BY <1>10 DEF TypeOK, RotorTypeOK, TakeSample
  <2>4. UsbTypeOK'
    BY <1>10 DEF TypeOK, UsbTypeOK, TakeSample
  <2> QED
    BY <2>1, <2>2, <2>3, <2>4 DEF TypeOK
<1>11. ASSUME NEW r \in Rotors, NEW b \in Bytes, StoreByte(r, b) PROVE TypeOK'
  BY <1>11 DEF TypeOK, MainTypeOK, SpeedTypeOK, RotorTypeOK, UsbTypeOK, Steps,
     Report, Flags, Rotors, Bytes, LoopTop, None, StoreByte
<1>12. ASSUME TakeConversion PROVE TypeOK'
  BY <1>12 DEF TypeOK, MainTypeOK, SpeedTypeOK, RotorTypeOK, UsbTypeOK, Steps,
     Report, Flags, Rotors, Bytes, LoopTop, None, TakeConversion
<1>13. ASSUME ApplySpeed PROVE TypeOK'
  <2>1. MainTypeOK'
    BY <1>13 DEF TypeOK, MainTypeOK, Steps, Flags, Rotors, Bytes, LoopTop,
       ApplySpeed
  <2>2. SpeedTypeOK'
    BY <1>13 DEF TypeOK, SpeedTypeOK, None, ApplySpeed
  <2>3. RotorTypeOK'
    BY <1>13 DEF TypeOK, RotorTypeOK, ApplySpeed
  <2>4. UsbTypeOK'
    BY <1>13 DEF TypeOK, UsbTypeOK, ApplySpeed
  <2> QED
    BY <2>1, <2>2, <2>3, <2>4 DEF TypeOK
<1>14. ASSUME HostPoll PROVE TypeOK'
  <2>1. MainTypeOK'
    BY <1>14 DEF TypeOK, MainTypeOK, Steps, Flags, Rotors, Bytes, LoopTop,
       HostPoll
  <2>2. SpeedTypeOK'
    BY <1>14 DEF TypeOK, SpeedTypeOK, None, HostPoll
  <2>3. RotorTypeOK'
    BY <1>14 DEF TypeOK, RotorTypeOK, HostPoll
  <2>4. UsbTypeOK'
    <3>1. bank \in Seq(Report) /\ bank # <<>> /\ host' = Head(bank) /\ bank' = <<>>
      BY <1>14 DEF TypeOK, UsbTypeOK, HostPoll
    <3> QED
      BY <3>1 DEF UsbTypeOK
  <2> QED
    BY <2>1, <2>2, <2>3, <2>4 DEF TypeOK
<1>15. ASSUME ADC_vect PROVE TypeOK'
  <2>1. MainTypeOK'
    BY <1>15 DEF TypeOK, MainTypeOK, ADC_vect, Flags
  <2>2. SpeedTypeOK' /\ UsbTypeOK'
    BY <1>15 DEF TypeOK, SpeedTypeOK, UsbTypeOK, ADC_vect
  <2>3. RotorTypeOK'
    BY <1>15 DEF TypeOK, RotorTypeOK, ADC_vect
  <2> QED
    BY <2>1, <2>2, <2>3 DEF TypeOK
<1>16. ASSUME NEW r \in Rotors, INT_vect(r) PROVE TypeOK'
  <2>1. MainTypeOK'
    BY <1>16 DEF TypeOK, MainTypeOK, INT_vect, Flags, Rotors
  <2>2. SpeedTypeOK' /\ UsbTypeOK'
    BY <1>16 DEF TypeOK, SpeedTypeOK, UsbTypeOK, INT_vect
  <2>3. RotorTypeOK'
    BY <1>16 DEF TypeOK, RotorTypeOK, INT_vect
  <2> QED
    BY <2>1, <2>2, <2>3 DEF TypeOK
<1>17. ASSUME NEW r \in Rotors, TIMER_OVF_vect(r) PROVE TypeOK'
  <2>1. MainTypeOK'
    BY <1>17 DEF TypeOK, MainTypeOK, TIMER_OVF_vect, Flags, Rotors
  <2>2. SpeedTypeOK' /\ UsbTypeOK'
    BY <1>17 DEF TypeOK, SpeedTypeOK, UsbTypeOK, TIMER_OVF_vect
  <2>3. RotorTypeOK'
    BY <1>17 DEF TypeOK, RotorTypeOK, TIMER_OVF_vect
  <2> QED
    BY <2>1, <2>2, <2>3 DEF TypeOK
<1>18. ASSUME NEW r \in Rotors, Halt(r) PROVE TypeOK'
  <2>1. MainTypeOK'
    BY <1>18 DEF TypeOK, MainTypeOK, Halt
  <2>2. SpeedTypeOK' /\ UsbTypeOK'
    BY <1>18 DEF TypeOK, SpeedTypeOK, UsbTypeOK, Halt
  <2>3. RotorTypeOK'
    BY <1>18 DEF TypeOK, RotorTypeOK, Halt
  <2> QED
    BY <2>1, <2>2, <2>3 DEF TypeOK
<1>19. ASSUME NEW r \in Connected, Spin(r) PROVE TypeOK'
  <2>1. MainTypeOK'
    BY <1>19 DEF TypeOK, MainTypeOK, Steps, Flags, Rotors, Bytes, LoopTop, Spin
  <2>2. SpeedTypeOK'
    BY <1>19 DEF TypeOK, SpeedTypeOK, None, Spin
  <2>3. RotorTypeOK'
    BY <1>19, ConnectedAssumption DEF ConnectedAssumption, TypeOK, RotorTypeOK,
       Spin
  <2>4. UsbTypeOK'
    BY <1>19 DEF TypeOK, UsbTypeOK, Spin
  <2> QED
    BY <2>1, <2>2, <2>3, <2>4 DEF TypeOK
<1>20. ASSUME UNCHANGED vars PROVE TypeOK'
  BY <1>20 DEF TypeOK, MainTypeOK, SpeedTypeOK, RotorTypeOK, UsbTypeOK, Steps,
     Report, Flags, Rotors, Bytes, LoopTop, None
<1> QED
  BY <1>1, <1>2, <1>3, <1>4, <1>5, <1>6, <1>7, <1>8, <1>9, <1>10, <1>11, <1>12,
     <1>13, <1>14, <1>15, <1>16, <1>17, <1>18, <1>19, <1>20 DEF Next, Main

\* No step lets a flag stand without an unused edge.
LEMMA SampleStep == TypeOK /\ SampleInv /\ [Next]_vars => SampleInv'
<1> SUFFICES ASSUME TypeOK, SampleInv, [Next]_vars PROVE SampleInv'
  OBVIOUS
<1> USE DEF vars, mainVars, speedVars, usbVars, copyVars, rotorVars
<1>1. ASSUME RPC_Device_USBTask PROVE SampleInv'
  BY <1>1 DEF SampleInv, SampleUsedOnce, Using, Flags, Rotors, Bytes, LoopTop,
     RPC_Device_USBTask
<1>2. ASSUME CreateRPCReport PROVE SampleInv'
  <2>1. CASE CopyByte("flow", "lo", <<"copy flow", "lo">>, <<"copy flow", "hi">>)
    BY <2>1 DEF SampleInv, SampleUsedOnce, Using, Flags, Rotors, Bytes,
       LoopTop, CreateRPCReport, CopyByte
  <2>2. CASE CopyByte("flow", "hi", <<"copy flow", "hi">>, <<"copy fan", "lo">>)
    BY <2>2 DEF SampleInv, SampleUsedOnce, Using, Flags, Rotors, Bytes,
       LoopTop, CreateRPCReport, CopyByte
  <2>3. CASE CopyByte("fan", "lo", <<"copy fan", "lo">>, <<"copy fan", "hi">>)
    BY <2>3 DEF SampleInv, SampleUsedOnce, Using, Flags, Rotors, Bytes,
       LoopTop, CreateRPCReport, CopyByte
  <2>4. CASE CopyByte("fan", "hi", <<"copy fan", "hi">>, <<"rpc", "send">>)
    BY <2>4 DEF SampleInv, SampleUsedOnce, Using, Flags, Rotors, Bytes,
       LoopTop, CreateRPCReport, CopyByte
  <2> QED
    BY <1>2, <2>1, <2>2, <2>3, <2>4 DEF CreateRPCReport
<1>3. ASSUME SendReport PROVE SampleInv'
  BY <1>3 DEF SampleInv, SampleUsedOnce, Using, Flags, Rotors, Bytes, LoopTop,
     SendReport
<1>4. ASSUME NoRequest PROVE SampleInv'
  BY <1>4 DEF SampleInv, SampleUsedOnce, Using, Flags, Rotors, Bytes, LoopTop,
     NoRequest
<1>5. ASSUME NEW v \in Speeds, ProcessRPCSetFanspeed(v) PROVE SampleInv'
  <2>1. pc = <<"usb", "begin">> /\ seen' \in {seen, flags} /\ UNCHANGED <<flags, fresh>>
    BY <1>5 DEF ProcessRPCSetFanspeed, rotorVars
  <2>2. pc' = <<"usb", "store">> \/ pc' = <<"flow", "test">>
    BY <1>5 DEF ProcessRPCSetFanspeed
  <2>3. \A q \in Rotors : pc \notin Using(q) /\ pc' # <<q, "work">>
    BY <2>1, <2>2 DEF Using
  <2> QED
    BY <2>1, <2>3 DEF SampleInv, SampleUsedOnce
<1>6. ASSUME RaiseSetFlag PROVE SampleInv'
  BY <1>6 DEF SampleInv, SampleUsedOnce, Using, Flags, Rotors, Bytes, LoopTop,
     RaiseSetFlag
<1>7. ASSUME NEW f \in Flags, TestFlag(f) PROVE SampleInv'
  BY <1>7 DEF SampleInv, SampleUsedOnce, Using, Flags, Rotors, Bytes, LoopTop,
     TestFlag, Following
<1>8. ASSUME NEW f \in Flags, LoadFlags(f) PROVE SampleInv'
  BY <1>8 DEF SampleInv, SampleUsedOnce, Using, Flags, Rotors, Bytes, LoopTop,
     LoadFlags
<1>9. ASSUME NEW f \in Flags, ClearFlag(f) PROVE SampleInv'
  BY <1>9 DEF SampleInv, SampleUsedOnce, Using, Flags, Rotors, Bytes, LoopTop,
     ClearFlag, Following
<1>10. ASSUME NEW r \in Rotors, TakeSample(r) PROVE SampleInv'
  <2>1. pc = <<r, "work">> /\ fresh' = fresh \ {r} /\ UNCHANGED <<flags, seen>>
    BY <1>10 DEF TakeSample
  <2>2. pc' \in Using(r) /\ \A q \in Rotors : pc' # <<q, "work">>
    <3>1. CASE pc' = <<r, "clear">>
      BY <3>1 DEF Using
    <3>2. CASE pc' = <<r, "store reading">>
      BY <3>2 DEF Using
    <3> QED
      BY <1>10, <3>1, <3>2 DEF TakeSample
  <2>3. \A q \in Rotors : pc \notin Using(q)
    BY <2>1 DEF Using
  <2> QED
    BY <2>1, <2>2, <2>3 DEF SampleInv, SampleUsedOnce
<1>11. ASSUME NEW r \in Rotors, NEW b \in Bytes, StoreByte(r, b) PROVE SampleInv'
  BY <1>11 DEF SampleInv, SampleUsedOnce, Using, Flags, Rotors, Bytes, LoopTop,
     StoreByte
<1>12. ASSUME TakeConversion PROVE SampleInv'
  BY <1>12 DEF SampleInv, SampleUsedOnce, Using, Flags, Rotors, Bytes, LoopTop,
     TakeConversion
<1>13. ASSUME ApplySpeed PROVE SampleInv'
  BY <1>13 DEF SampleInv, SampleUsedOnce, Using, Flags, Rotors, Bytes, LoopTop,
     ApplySpeed
<1>14. ASSUME HostPoll PROVE SampleInv'
  BY <1>14 DEF SampleInv, SampleUsedOnce, Using, Flags, Rotors, Bytes, LoopTop,
     HostPoll
<1>15. ASSUME ADC_vect PROVE SampleInv'
  BY <1>15 DEF SampleInv, SampleUsedOnce, Using, Flags, Rotors, Bytes, LoopTop,
     ADC_vect
<1>16. ASSUME NEW r \in Rotors, INT_vect(r) PROVE SampleInv'
  BY <1>16 DEF SampleInv, SampleUsedOnce, Using, Flags, Rotors, Bytes, LoopTop,
     INT_vect
<1>17. ASSUME NEW r \in Rotors, TIMER_OVF_vect(r) PROVE SampleInv'
  BY <1>17 DEF SampleInv, SampleUsedOnce, Using, Flags, Rotors, Bytes, LoopTop,
     TIMER_OVF_vect
<1>18. ASSUME NEW r \in Rotors, Halt(r) PROVE SampleInv'
  BY <1>18 DEF SampleInv, SampleUsedOnce, Using, Flags, Rotors, Bytes, LoopTop,
     Halt
<1>19. ASSUME NEW r \in Connected, Spin(r) PROVE SampleInv'
  BY <1>19 DEF SampleInv, SampleUsedOnce, Using, Flags, Rotors, Bytes, LoopTop,
     Spin
<1>20. ASSUME UNCHANGED vars PROVE SampleInv'
  BY <1>20 DEF SampleInv, SampleUsedOnce, Using, Flags, Rotors, Bytes, LoopTop
<1> QED
  BY <1>1, <1>2, <1>3, <1>4, <1>5, <1>6, <1>7, <1>8, <1>9, <1>10, <1>11, <1>12,
     <1>13, <1>14, <1>15, <1>16, <1>17, <1>18, <1>19, <1>20 DEF Next, Main

\* No step loses an accepted speed or applies another one.
LEMMA SpeedStep == TypeOK /\ SpeedInv /\ [Next]_vars => SpeedInv'
<1> SUFFICES ASSUME TypeOK, SpeedInv, [Next]_vars PROVE SpeedInv'
  OBVIOUS
<1> USE DEF vars, mainVars, speedVars, usbVars, copyVars, rotorVars
<1>1. ASSUME RPC_Device_USBTask PROVE SpeedInv'
  BY <1>1 DEF SpeedInv, Applied, Early, Holding, Flags, Rotors, Bytes, LoopTop,
     None, RPC_Device_USBTask
<1>2. ASSUME CreateRPCReport PROVE SpeedInv'
  <2>1. CASE CopyByte("flow", "lo", <<"copy flow", "lo">>, <<"copy flow", "hi">>)
    BY <2>1 DEF SpeedInv, Applied, Early, Holding, Flags, Rotors, Bytes,
       LoopTop, None, CreateRPCReport, CopyByte
  <2>2. CASE CopyByte("flow", "hi", <<"copy flow", "hi">>, <<"copy fan", "lo">>)
    BY <2>2 DEF SpeedInv, Applied, Early, Holding, Flags, Rotors, Bytes,
       LoopTop, None, CreateRPCReport, CopyByte
  <2>3. CASE CopyByte("fan", "lo", <<"copy fan", "lo">>, <<"copy fan", "hi">>)
    BY <2>3 DEF SpeedInv, Applied, Early, Holding, Flags, Rotors, Bytes,
       LoopTop, None, CreateRPCReport, CopyByte
  <2>4. CASE CopyByte("fan", "hi", <<"copy fan", "hi">>, <<"rpc", "send">>)
    BY <2>4 DEF SpeedInv, Applied, Early, Holding, Flags, Rotors, Bytes,
       LoopTop, None, CreateRPCReport, CopyByte
  <2> QED
    BY <1>2, <2>1, <2>2, <2>3, <2>4 DEF CreateRPCReport
<1>3. ASSUME SendReport PROVE SpeedInv'
  BY <1>3 DEF SpeedInv, Applied, Early, Holding, Flags, Rotors, Bytes, LoopTop,
     None, SendReport
<1>4. ASSUME NoRequest PROVE SpeedInv'
  BY <1>4 DEF SpeedInv, Applied, Early, Holding, Flags, Rotors, Bytes, LoopTop,
     None, NoRequest
<1>5. ASSUME NEW v \in Speeds, ProcessRPCSetFanspeed(v) PROVE SpeedInv'
  <2>1. pc = <<"usb", "begin">> /\ pc \in Early /\ pc # <<"usb", "store">>
    BY <1>5 DEF ProcessRPCSetFanspeed, Early
  <2>2. UNCHANGED <<flags, ocr4a, pe2, p_fan>>
    BY <1>5 DEF ProcessRPCSetFanspeed
  <2>3. "set" \notin flags
    BY <2>1 DEF SpeedInv
  <2>4. CASE v \in 0..100
    <3>1. pc' = <<"usb", "store">> /\ fan_value' = v /\ lastset' = v
      BY <1>5, <2>4 DEF ProcessRPCSetFanspeed
    <3>2. pc' \notin Holding /\ pc' \notin {"set"} \X {"work", "clear", "store"}
      BY <3>1 DEF Holding
    <3>3. pc' \notin {"set"} \X {"clear", "store"}
      BY <3>1
    <3> QED
      BY <2>2, <2>3, <2>4, <3>1, <3>2, <3>3 DEF SpeedInv
  <2>5. CASE v \notin 0..100
    <3>1. pc' = <<"flow", "test">> /\ lastset' = lastset
      BY <1>5, <2>5 DEF ProcessRPCSetFanspeed
    <3>2. pc' \notin Holding /\ pc' \notin {"set"} \X {"work", "clear", "store"}
      BY <3>1 DEF Holding
    <3>3. pc' \notin {"set"} \X {"clear", "store"} /\ pc' # <<"usb", "store">>
      BY <3>1
    <3> QED
      BY <2>1, <2>2, <2>3, <3>1, <3>2, <3>3 DEF SpeedInv, Applied
  <2> QED
    BY <2>4, <2>5
<1>6. ASSUME RaiseSetFlag PROVE SpeedInv'
  BY <1>6 DEF SpeedInv, Applied, Early, Holding, Flags, Rotors, Bytes, LoopTop,
     None, RaiseSetFlag
<1>7. ASSUME NEW f \in Flags, TestFlag(f) PROVE SpeedInv'
  <2>1. pc = <<f, "test">> /\ UNCHANGED <<flags, speedVars>>
    BY <1>7 DEF TestFlag
  <2>2. pc # <<"usb", "store">> /\ pc' # <<"usb", "store">>
    BY <1>7 DEF TestFlag, Following, Flags, LoopTop
  <2>3. "set" \in seen' <=> "set" \in flags
    <3>1. CASE f = "set"
      BY <1>7, <3>1 DEF TestFlag, SpeedInv, Holding
    <3>2. CASE f # "set"
      BY <1>7, <3>2 DEF TestFlag
    <3> QED
      BY <3>1, <3>2
  <2>4. pc' \in {"set"} \X {"work", "clear", "store"} => f = "set" /\ f \in seen'
    BY <1>7 DEF TestFlag, Following, Flags, LoopTop
  <2>5. pc' \notin {"set"} \X {"clear", "store"}
    BY <1>7 DEF TestFlag, Following, Flags, LoopTop
  <2>6. pc' \in Early => f = "set" /\ f \notin seen'
    BY <1>7 DEF TestFlag, Following, Flags, LoopTop, Early
  <2> QED
    BY <2>1, <2>2, <2>3, <2>4, <2>5, <2>6 DEF SpeedInv, Applied, speedVars
<1>8. ASSUME NEW f \in Flags, LoadFlags(f) PROVE SpeedInv'
  BY <1>8 DEF SpeedInv, Applied, Early, Holding, Flags, Rotors, Bytes, LoopTop,
     None, LoadFlags
<1>9. ASSUME NEW f \in Flags, ClearFlag(f) PROVE SpeedInv'
  BY <1>9 DEF SpeedInv, Applied, Early, Holding, Flags, Rotors, Bytes, LoopTop,
     None, ClearFlag, Following
<1>10. ASSUME NEW r \in Rotors, TakeSample(r) PROVE SpeedInv'
  <2>1. pc \in Holding /\ pc # <<"usb", "store">>
    BY <1>10 DEF TakeSample, Holding, Rotors
  <2>2. pc' = <<r, "clear">> \/ pc' = <<r, "store reading">>
    BY <1>10 DEF TakeSample
  <2>3. /\ pc' \notin Early /\ pc' # <<"usb", "store">>
        /\ pc' \notin {"set"} \X {"work", "clear", "store"}
        /\ pc' \notin {"set"} \X {"clear", "store"}
    <3>1. CASE pc' = <<r, "clear">>
      BY <3>1 DEF Early, LoopTop, Rotors
    <3>2. CASE pc' = <<r, "store reading">>
      BY <3>2 DEF Early, LoopTop, Rotors
    <3> QED
      BY <2>2, <3>1, <3>2
  <2>4. UNCHANGED <<flags, seen, speedVars>>
    BY <1>10 DEF TakeSample
  <2> QED
    BY <2>1, <2>3, <2>4 DEF SpeedInv, Applied, speedVars
<1>11. ASSUME NEW r \in Rotors, NEW b \in Bytes, StoreByte(r, b) PROVE SpeedInv'
  BY <1>11 DEF SpeedInv, Applied, Early, Holding, Flags, Rotors, Bytes,
     LoopTop, None, StoreByte
<1>12. ASSUME TakeConversion PROVE SpeedInv'
  BY <1>12 DEF SpeedInv, Applied, Early, Holding, Flags, Rotors, Bytes,
     LoopTop, None, TakeConversion
<1>13. ASSUME ApplySpeed PROVE SpeedInv'
  <2>1. pc = <<"set", "work">> /\ pc' = <<"set", "clear">>
    BY <1>13 DEF ApplySpeed
  <2>2. UNCHANGED <<flags, seen, fan_value, lastset>>
    BY <1>13 DEF ApplySpeed
  <2>3. "set" \in flags /\ fan_value = lastset /\ lastset \in 0..100
    BY <2>1 DEF SpeedInv
  <2>4. Applied'
    BY <1>13, <2>2, <2>3 DEF ApplySpeed, Applied
  <2>5. pc \in Holding
    BY <2>1 DEF Holding
  <2>6. pc' \notin Early /\ pc' # <<"usb", "store">>
    BY <2>1 DEF Early, LoopTop
  <2> QED
    BY <2>2, <2>3, <2>4, <2>5, <2>6 DEF SpeedInv
<1>14. ASSUME HostPoll PROVE SpeedInv'
  BY <1>14 DEF SpeedInv, Applied, Early, Holding, Flags, Rotors, Bytes,
     LoopTop, None, HostPoll
<1>15. ASSUME ADC_vect PROVE SpeedInv'
  BY <1>15 DEF SpeedInv, Applied, Early, Holding, Flags, Rotors, Bytes,
     LoopTop, None, ADC_vect
<1>16. ASSUME NEW r \in Rotors, INT_vect(r) PROVE SpeedInv'
  BY <1>16 DEF SpeedInv, Applied, Early, Holding, Flags, Rotors, Bytes,
     LoopTop, None, INT_vect
<1>17. ASSUME NEW r \in Rotors, TIMER_OVF_vect(r) PROVE SpeedInv'
  BY <1>17 DEF SpeedInv, Applied, Early, Holding, Flags, Rotors, Bytes,
     LoopTop, None, TIMER_OVF_vect
<1>18. ASSUME NEW r \in Rotors, Halt(r) PROVE SpeedInv'
  BY <1>18 DEF SpeedInv, Applied, Early, Holding, Flags, Rotors, Bytes,
     LoopTop, None, Halt
<1>19. ASSUME NEW r \in Connected, Spin(r) PROVE SpeedInv'
  BY <1>19 DEF SpeedInv, Applied, Early, Holding, Flags, Rotors, Bytes,
     LoopTop, None, Spin
<1>20. ASSUME UNCHANGED vars PROVE SpeedInv'
  BY <1>20 DEF SpeedInv, Applied, Early, Holding, Flags, Rotors, Bytes,
     LoopTop, None
<1> QED
  BY <1>1, <1>2, <1>3, <1>4, <1>5, <1>6, <1>7, <1>8, <1>9, <1>10, <1>11, <1>12,
     <1>13, <1>14, <1>15, <1>16, <1>17, <1>18, <1>19, <1>20 DEF Next, Main

\* A report is copied only into an empty bank: nobody but main fills it.
LEMMA BankStep == TypeOK /\ BankInv /\ [Next]_vars => BankInv'
<1> SUFFICES ASSUME TypeOK, BankInv, [Next]_vars PROVE BankInv'
  OBVIOUS
<1> USE DEF vars, mainVars, speedVars, usbVars, copyVars, rotorVars
<1>1. ASSUME RPC_Device_USBTask PROVE BankInv'
  BY <1>1 DEF BankInv, Flags, Bytes, LoopTop, RPC_Device_USBTask
<1>2. ASSUME CreateRPCReport PROVE BankInv'
  <2>1. pc \in {"copy flow", "copy fan"} \X Bytes
    <3>1. ASSUME NEW f \in {"copy flow", "copy fan"}, NEW b \in Bytes, pc = <<f, b>>
          PROVE  pc \in {"copy flow", "copy fan"} \X Bytes
      BY <3>1
    <3> QED
      BY <1>2, <3>1 DEF CreateRPCReport, CopyByte, Bytes
  <2>2. UNCHANGED bank
    BY <1>2 DEF CreateRPCReport, CopyByte, usbVars
  <2> QED
    BY <2>1, <2>2 DEF BankInv
<1>3. ASSUME SendReport PROVE BankInv'
  BY <1>3 DEF BankInv, Flags, Bytes, LoopTop, SendReport
<1>4. ASSUME NoRequest PROVE BankInv'
  BY <1>4 DEF BankInv, Flags, Bytes, LoopTop, NoRequest
<1>5. ASSUME NEW v \in Speeds, ProcessRPCSetFanspeed(v) PROVE BankInv'
  <2>1. CASE pc' = <<"usb", "store">>
    BY <2>1 DEF BankInv
  <2>2. CASE pc' = <<"flow", "test">>
    BY <2>2 DEF BankInv
  <2> QED
    BY <1>5, <2>1, <2>2 DEF ProcessRPCSetFanspeed
<1>6. ASSUME RaiseSetFlag PROVE BankInv'
  BY <1>6 DEF BankInv, Flags, Bytes, LoopTop, RaiseSetFlag
<1>7. ASSUME NEW f \in Flags, TestFlag(f) PROVE BankInv'
  BY <1>7 DEF BankInv, Flags, Bytes, LoopTop, TestFlag, Following
<1>8. ASSUME NEW f \in Flags, LoadFlags(f) PROVE BankInv'
  BY <1>8 DEF BankInv, Flags, Bytes, LoopTop, LoadFlags
<1>9. ASSUME NEW f \in Flags, ClearFlag(f) PROVE BankInv'
  BY <1>9 DEF BankInv, Flags, Bytes, LoopTop, ClearFlag, Following
<1>10. ASSUME NEW r \in Rotors, TakeSample(r) PROVE BankInv'
  <2>1. CASE pc' = <<r, "clear">>
    BY <2>1 DEF BankInv, Bytes, Rotors
  <2>2. CASE pc' = <<r, "store reading">>
    BY <2>2 DEF BankInv, Bytes, Rotors
  <2> QED
    BY <1>10, <2>1, <2>2 DEF TakeSample
<1>11. ASSUME NEW r \in Rotors, NEW b \in Bytes, StoreByte(r, b) PROVE BankInv'
  BY <1>11 DEF BankInv, Flags, Bytes, LoopTop, StoreByte
<1>12. ASSUME TakeConversion PROVE BankInv'
  BY <1>12 DEF BankInv, Flags, Bytes, LoopTop, TakeConversion
<1>13. ASSUME ApplySpeed PROVE BankInv'
  BY <1>13 DEF BankInv, Flags, Bytes, LoopTop, ApplySpeed
<1>14. ASSUME HostPoll PROVE BankInv'
  BY <1>14 DEF BankInv, Flags, Bytes, LoopTop, HostPoll
<1>15. ASSUME ADC_vect PROVE BankInv'
  BY <1>15 DEF BankInv, Flags, Bytes, LoopTop, ADC_vect
<1>16. ASSUME NEW r \in Rotors, INT_vect(r) PROVE BankInv'
  BY <1>16 DEF BankInv, Flags, Bytes, LoopTop, INT_vect
<1>17. ASSUME NEW r \in Rotors, TIMER_OVF_vect(r) PROVE BankInv'
  BY <1>17 DEF BankInv, Flags, Bytes, LoopTop, TIMER_OVF_vect
<1>18. ASSUME NEW r \in Rotors, Halt(r) PROVE BankInv'
  BY <1>18 DEF BankInv, Flags, Bytes, LoopTop, Halt
<1>19. ASSUME NEW r \in Connected, Spin(r) PROVE BankInv'
  BY <1>19 DEF BankInv, Flags, Bytes, LoopTop, Spin
<1>20. ASSUME UNCHANGED vars PROVE BankInv'
  BY <1>20 DEF BankInv, Flags, Bytes, LoopTop
<1> QED
  BY <1>1, <1>2, <1>3, <1>4, <1>5, <1>6, <1>7, <1>8, <1>9, <1>10, <1>11, <1>12,
     <1>13, <1>14, <1>15, <1>16, <1>17, <1>18, <1>19, <1>20 DEF Next, Main

\* The outputs change only in ApplySpeed, and then to an accepted speed.
LEMMA PwmStep == TypeOK /\ PwmInRange /\ SpeedInv /\ [Next]_vars => PwmInRange'
<1> SUFFICES ASSUME TypeOK, PwmInRange, SpeedInv, [Next]_vars PROVE PwmInRange'
  OBVIOUS
<1>1. CASE ApplySpeed
  <2>1. fan_value \in 0..100
    BY <1>1 DEF ApplySpeed, SpeedInv
  <2> QED
    BY <1>1, <2>1 DEF ApplySpeed, PwmInRange
<1>2. CASE UNCHANGED <<ocr4a, p_fan>>
  BY <1>2 DEF PwmInRange
<1> QED
  BY <1>1, <1>2 DEF Next, Main, RPC_Device_USBTask, CreateRPCReport, CopyByte,
     SendReport, NoRequest, ProcessRPCSetFanspeed, RaiseSetFlag, TestFlag,
     LoadFlags, ClearFlag, TakeSample, StoreByte, TakeConversion, HostPoll,
     ADC_vect, INT_vect, TIMER_OVF_vect, Spin, Halt, vars, speedVars

\* The firmware starts with nothing pending, nothing captured and an empty bank.
LEMMA InitIInv == Init => IInv
<1> SUFFICES ASSUME Init PROVE IInv
  OBVIOUS
<1>1. TypeOK
  <2>1. MainTypeOK
    BY DEF Init, MainTypeOK, Steps, LoopTop
  <2>2. SpeedTypeOK
    <3>1. pe2 \in BOOLEAN
      BY Zenon DEF Init
    <3>2. lastset = None
      BY DEF Init
    <3> QED
      BY <3>1, <3>2, SMT DEF Init, SpeedTypeOK
  <2>3. RotorTypeOK
    BY DEF Init, RotorTypeOK
  <2>4. UsbTypeOK
    BY DEF Init, UsbTypeOK, Report
  <2> QED
    BY <2>1, <2>2, <2>3, <2>4 DEF TypeOK
<1>2. BankInv /\ PwmInRange
  BY DEF Init, BankInv, PwmInRange
<1>3. SpeedInv
  BY DEF Init, SpeedInv, Holding, LoopTop, None
<1>4. SampleInv
  BY DEF Init, SampleInv, SampleUsedOnce, LoopTop
<1> QED
  BY <1>1, <1>2, <1>3, <1>4 DEF IInv

\* The main loop and the interrupts, in every order, keep the invariant.
THEOREM FirmwareInvariant == Spec => []IInv
<1>1. IInv /\ [Next]_vars => IInv'
  BY TypeStep, BankStep, PwmStep, SpeedStep, SampleStep DEF IInv
<1> QED
  BY InitIInv, <1>1, PTL DEF Spec

\* Type correctness; with it, that the endpoint is never given a second report.
THEOREM FirmwareTypeCorrect == Spec => []TypeOK
<1>1. IInv => TypeOK
  BY DEF IInv
<1> QED
  BY <1>1, FirmwareInvariant, PTL

\* Neither the PWM nor the reported percentage leaves its range, for any bytes
\* a host sends.
THEOREM PwmStaysInRange == Spec => []PwmInRange
<1>1. IInv => PwmInRange
  BY DEF IInv
<1> QED
  BY <1>1, FirmwareInvariant, PTL

\* An accepted speed is applied by the end of the turn it arrived in.
THEOREM SpeedIsApplied == Spec => []SpeedApplied
<1>1. IInv => SpeedApplied
  BY DEF IInv, SpeedInv, SpeedApplied, Applied, Early, LoopTop
<1> QED
  BY <1>1, FirmwareInvariant, PTL

\* Every sample has an edge of its own.
THEOREM SamplesAreUsedOnce == Spec => []SampleUsedOnce
<1>1. IInv => SampleUsedOnce
  BY DEF IInv, SampleInv
<1> QED
  BY <1>1, FirmwareInvariant, PTL
-----------------------------------------------------------------------------
(* FanControl.                                                              *)

\* Most steps concern neither the fan nor the reports.
LEMMA OtherSteps ==
  ASSUME [Next]_vars, ~ ApplySpeed, ~ SendReport, ~ HostPoll,
         ~ \E v \in Speeds : ProcessRPCSetFanspeed(v)
  PROVE  UNCHANGED <<lastset, ocr4a, pe2, p_fan, bank, host>>
BY DEF Next, Main, RPC_Device_USBTask, CreateRPCReport, CopyByte, NoRequest,
   RaiseSetFlag, TestFlag, LoadFlags, ClearFlag, TakeSample, StoreByte,
   TakeConversion, ADC_vect, INT_vect, TIMER_OVF_vect, Spin, Halt, vars,
   speedVars, usbVars

\* ProcessRPCSetFanspeed finds the flag down: the speed before is applied.
LEMMA RequestFindsApplied ==
  ASSUME SpeedInv, pc = <<"usb", "begin">>, lastset # None
  PROVE  Applied
<1>1. "set" \notin flags /\ pc # <<"usb", "store">>
  BY DEF SpeedInv, Early
<1> QED
  BY <1>1 DEF SpeedInv

(***************************************************************************)
(* The main loop implements FanControl for any bytes a host sends: an      *)
(* accepted speed is put out as a whole before the next one is accepted,   *)
(* and the reports follow the outputs in their order.                      *)
(***************************************************************************)
THEOREM FanControlImplemented == Spec => FanControlSpec
<1> DEFINE output == [duty |-> ocr4a, power |-> pe2, percent |-> p_fan]
           mail == IF bank = <<>> THEN <<>> ELSE <<Head(bank).p_fan>>
<1> USE DEF Fan!Setting, Fan!None
<1>1. Init => Fan!Init
  <2> SUFFICES ASSUME Init PROVE Fan!Init
    OBVIOUS
  <2>1. lastset = Fan!None /\ host.p_fan = 50 /\ mail = <<>>
    BY DEF Init, None
  <2>2. output = [duty |-> 35, power |-> FALSE, percent |-> 50]
    BY DEF Init
  <2> QED
    BY <2>1, <2>2 DEF Fan!Init
<1>2. IInv /\ [Next]_vars => [Fan!Next]_Fan!vars
  <2> SUFFICES ASSUME IInv, [Next]_vars PROVE [Fan!Next]_Fan!vars
    OBVIOUS
  <2>1. ASSUME NEW v \in Speeds, ProcessRPCSetFanspeed(v) PROVE [Fan!Next]_Fan!vars
    <3>1. UNCHANGED <<output, mail, host.p_fan>>
      BY <2>1 DEF ProcessRPCSetFanspeed, usbVars
    <3>2. CASE v \in 0..100
      <4>1. lastset' = v
        BY <2>1, <3>2 DEF ProcessRPCSetFanspeed
      <4>2. lastset # None => output = Fan!Setting(lastset)
        BY <2>1, RequestFindsApplied DEF IInv, ProcessRPCSetFanspeed, Applied
      <4>3. Fan!Accept(v)
        BY <3>1, <4>1, <4>2 DEF Fan!Accept, None
      <4> QED
        BY <3>2, <4>3 DEF Fan!Next
    <3>3. CASE v \notin 0..100
      <4>1. lastset' = lastset
        BY <2>1, <3>3 DEF ProcessRPCSetFanspeed
      <4> QED
        BY <3>1, <4>1 DEF Fan!vars
    <3> QED
      BY <3>2, <3>3
  <2>2. CASE ApplySpeed
    <3>1. fan_value = lastset /\ lastset \in 0..100
      BY <2>2 DEF IInv, SpeedInv, ApplySpeed
    <3>2. /\ ocr4a' = 30 + lastset /\ pe2' = (lastset # 0) /\ p_fan' = lastset
          /\ UNCHANGED <<lastset, bank, host>>
      BY <2>2, <3>1 DEF ApplySpeed, usbVars
    <3>3. Fan!Apply
      BY <3>1, <3>2 DEF Fan!Apply
    <3> QED
      BY <3>3 DEF Fan!Next
  <2>3. CASE SendReport
    <3> DEFINE x == [flow |-> report["flow"], fan |-> report["fan"], p_fan |-> p_fan]
    <3>1. bank = <<>> /\ UNCHANGED <<lastset, output, host>>
      BY <2>3 DEF IInv, BankInv, SendReport, speedVars
    <3>2. bank' = <<x>>
      BY <2>3, <3>1 DEF SendReport
    <3>3. mail = <<>> /\ mail' = <<p_fan>>
      BY <3>1, <3>2
    <3>4. Fan!Send
      BY <3>1, <3>3 DEF Fan!Send
    <3> QED
      BY <3>4 DEF Fan!Next
  <2>4. CASE HostPoll
    <3>1. bank # <<>> /\ host' = Head(bank) /\ bank' = <<>> /\ UNCHANGED <<lastset, output>>
      BY <2>4 DEF HostPoll, speedVars
    <3>2. mail = <<Head(bank).p_fan>> /\ mail' = <<>> /\ host'.p_fan = Head(mail)
      BY <3>1
    <3>3. Fan!Deliver
      BY <3>1, <3>2 DEF Fan!Deliver
    <3> QED
      BY <3>3 DEF Fan!Next
  <2>5. CASE UNCHANGED <<lastset, ocr4a, pe2, p_fan, bank, host>>
    BY <2>5 DEF Fan!vars
  <2> QED
    BY <2>1, <2>2, <2>3, <2>4, <2>5, OtherSteps
<1> QED
  BY <1>1, <1>2, FirmwareInvariant, PTL DEF Spec, FanControlSpec, Fan!Spec
=============================================================================
