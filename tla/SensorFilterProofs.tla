------------------------- MODULE SensorFilterProofs -------------------------
(***************************************************************************)
(* Proofs that hold for every timer value and every conversion, where TLC  *)
(* looks at some.                                                          *)
(***************************************************************************)
EXTENDS SensorFilter, TLAPS

\* A sum that fits into 16 bits is kept.
LEMMA WordFits ==
  ASSUME NEW q \in Nat, q <= 65535
  PROVE  Word(q) = q
  BY SMT DEF Word

\* What one accepted sample does to a reading below the filter's own bound:
\* the sum fits into 16 bits, the reading moves to the sample, not past it, and
\* stays only where rounding down makes it a fixed point.
LEMMA FlowFilterLemma ==
  ASSUME NEW s \in FlowAccepted, NEW v \in FlowRange
  PROVE  /\ s + 64 * v < 65536
         /\ FlowFilter(s, v) \in FlowRange /\ FlowFilter(s, v) > 0
         /\ Toward(v, FlowFilter(s, v), s, 64)
<1> DEFINE x == s + 64 * v
<1>1. s \in Nat /\ s >= 100 /\ s <= 1000 /\ v \in Nat /\ v <= 936
  BY SMT DEF FlowAccepted, FlowRange
<1>2. x \in Nat /\ x <= 65535
  BY <1>1, SMT
<1>3. FlowFilter(s, v) = x \div 65
  BY <1>2, WordFits, SMT DEF FlowFilter
<1>4. PICK q \in Nat : q = x \div 65 /\ 65 * q <= x /\ x < 65 * q + 65
  <2> HIDE DEF x
  <2> QED
    BY <1>2, SMT
<1>5. q <= 936 /\ q > 0
  BY <1>1, <1>4, SMT
<1>6. IF s >= v THEN v <= q /\ q <= s ELSE s <= q /\ q < v
  BY <1>1, <1>4, SMT
<1>7. q = v <=> v <= s /\ s <= v + 64
  BY <1>1, <1>4, SMT
<1> HIDE DEF x
<1>8. FlowFilter(s, v) = q
  BY <1>3, <1>4
<1>9. s + 64 * v < 65536
  BY <1>2, SMT DEF x
<1> QED
  BY <1>1, <1>5, <1>6, <1>7, <1>8, <1>9, SMT DEF Toward, FlowRange

\* The same for the fan, whose bound is the one that keeps the sum in 16 bits.
LEMMA FanFilterLemma ==
  ASSUME NEW s \in FanAccepted, NEW v \in FanRange
  PROVE  /\ s + 32 * v < 65536
         /\ FanFilter(s, v) \in FanRange /\ FanFilter(s, v) > 0
         /\ Toward(v, FanFilter(s, v), s, 32)
<1> DEFINE x == s + 32 * v
<1>1. s \in Nat /\ s >= 300 /\ s <= 2000 /\ v \in Nat /\ v <= 1968
  BY SMT DEF FanAccepted, FanRange
<1>2. x \in Nat /\ x <= 65535
  BY <1>1, SMT
<1>3. FanFilter(s, v) = x \div 33
  BY <1>2, WordFits, SMT DEF FanFilter
<1>4. PICK q \in Nat : q = x \div 33 /\ 33 * q <= x /\ x < 33 * q + 33
  <2> HIDE DEF x
  <2> QED
    BY <1>2, SMT
<1>5. q <= 1968 /\ q > 0
  BY <1>1, <1>4, SMT
<1>6. IF s >= v THEN v <= q /\ q <= s ELSE s <= q /\ q < v
  BY <1>1, <1>4, SMT
<1>7. q = v <=> v <= s /\ s <= v + 32
  BY <1>1, <1>4, SMT
<1> HIDE DEF x
<1>8. FanFilter(s, v) = q
  BY <1>3, <1>4
<1>9. s + 32 * v < 65536
  BY <1>2, SMT DEF x
<1> QED
  BY <1>1, <1>5, <1>6, <1>7, <1>8, <1>9, SMT DEF Toward, FanRange

\* A quotient is no more than its dividend through the least divisor.
LEMMA QuotientBound ==
  ASSUME NEW n \in Nat, NEW t \in Nat, NEW least \in Nat, NEW bound \in Nat,
         t >= least, least > 0, n < least * (bound + 1)
  PROVE  n \div t \in Nat /\ n \div t <= bound
<1> DEFINE q == n \div t
<1>1. q \in Nat
  BY SMT
<1>2. t * q <= n
  BY SMT
<1> HIDE DEF q
<1>3. ASSUME q >= bound + 1 PROVE FALSE
  <2>1. t * q >= t * (bound + 1)
    BY <1>1, <1>3, SMT
  <2>2. t * (bound + 1) >= least * (bound + 1)
    BY SMT
  <2>3. t * q \in Int /\ t * (bound + 1) \in Int /\ least * (bound + 1) \in Int
    BY <1>1
  <2> QED
    BY <1>2, <2>1, <2>2, <2>3, SMT
<1>4. q \in Nat /\ q <= bound
  BY <1>1, <1>3, SMT
<1> QED
  BY <1>4 DEF q

\* Whatever flow passes the range test was not folded.
LEMMA FlowNotFolded ==
  ASSUME NEW t \in Uint16, FlowSample(t) \in FlowAccepted
  PROVE  FlowSample(t) = 3600000 \div t
<1>1. CASE t = 0
  BY <1>1 DEF FlowSample, Quotient, FlowAccepted
<1>2. CASE t \in 1..54
  <2> USE DEF Word, FlowAccepted
  <2>1. t \in 1..12 => Word(3600000 \div t) \notin FlowAccepted
    BY SMTT(60)
  <2>2. t \in 13..26 => Word(3600000 \div t) \notin FlowAccepted
    BY SMTT(60)
  <2>3. t \in 27..40 => Word(3600000 \div t) \notin FlowAccepted
    BY SMTT(60)
  <2>4. t \in 41..54 => Word(3600000 \div t) \notin FlowAccepted
    BY SMTT(60)
  <2> HIDE DEF Word, FlowAccepted
  <2>5. t # 0 /\ (t \in 1..12 \/ t \in 13..26 \/ t \in 27..40 \/ t \in 41..54)
    BY <1>2, SMT
  <2> QED
    BY <2>1, <2>2, <2>3, <2>4, <2>5, SMT DEF FlowSample, Quotient
<1>3. CASE t \in Nat /\ t >= 55
  <2>1. /\ t \in Nat /\ t >= 55 /\ t # 0
        /\ 3600000 \in Nat /\ 55 \in Nat /\ 65535 \in Nat
        /\ 55 > 0 /\ 3600000 < 55 * (65535 + 1)
    BY <1>3, SMT
  <2>2. 3600000 \div t \in Nat /\ 3600000 \div t <= 65535
    BY <2>1, QuotientBound, SMT
  <2>3. Word(3600000 \div t) = 3600000 \div t
    BY <2>2, WordFits, SMT
  <2> QED
    BY <2>1, <2>3, SMT DEF FlowSample, Quotient
<1>4. t = 0 \/ t \in 1..54 \/ (t \in Nat /\ t >= 55)
  BY SMT DEF Uint16
<1> QED
  BY <1>1, <1>2, <1>3, <1>4, SMT

\* Of the speeds of the fan the range test lets two pass that were folded.
LEMMA FanNotFolded ==
  ASSUME NEW t \in Uint16 \ Folded, FanSample(t) \in FanAccepted
  PROVE  FanSample(t) = 3750000 \div t
<1>1. CASE t = 0
  BY <1>1 DEF FanSample, Quotient, FanAccepted
<1>2. CASE t \in 1..57
  <2>1. Word(3750000 \div t) \notin FanAccepted
    BY <1>2, SMTT(60) DEF Word, FanAccepted, Folded
  <2> QED
    BY <1>2, <2>1 DEF FanSample, Quotient
<1>3. CASE t \in Nat /\ t >= 58
  <2>1. /\ t \in Nat /\ t >= 58 /\ t # 0
        /\ 3750000 \in Nat /\ 58 \in Nat /\ 65535 \in Nat
        /\ 58 > 0 /\ 3750000 < 58 * (65535 + 1)
    BY <1>3, SMT
  <2>2. 3750000 \div t \in Nat /\ 3750000 \div t <= 65535
    BY <2>1, QuotientBound, SMT
  <2>3. Word(3750000 \div t) = 3750000 \div t
    BY <2>2, WordFits, SMT
  <2> QED
    BY <2>1, <2>3, SMT DEF FanSample, Quotient
<1>4. t \in Uint16
  OBVIOUS
<1>5. t = 0 \/ t \in 1..57 \/ (t \in Nat /\ t >= 58)
  BY <1>4, SMT DEF Uint16
<1> QED
  BY <1>1, <1>2, <1>3, <1>5, SMT

\* The characteristic stays within 1.9 and 50.0 degrees.
LEMMA TemperatureRange ==
  ASSUME NEW c \in Adc10
  PROVE  Temperature(c) \in 19..500
  BY SMT DEF Temperature, Scaled, Signed, Adc10

\* It falls, by at most one tenth of a degree for each step of the converter.
LEMMA TemperatureSlope ==
  ASSUME NEW c \in Adc10, NEW d \in Adc10, Signed(d) >= Signed(c)
  PROVE  /\ Temperature(d) <= Temperature(c)
         /\ Signed(d) = Signed(c) + 1 => Temperature(d) >= Temperature(c) - 1
  <1>1. Signed(c) \in Int /\ Signed(d) \in Int
    BY DEF Signed, Adc10
  <1>2. Scaled(Signed(d)) <= Scaled(Signed(c))
    BY <1>1, SMT DEF Scaled
  <1>3. Signed(d) = Signed(c) + 1 => Scaled(Signed(d)) >= Scaled(Signed(c)) - 30
    BY <1>1, SMT DEF Scaled
  <1>4. Scaled(Signed(c)) \in Int /\ Scaled(Signed(d)) \in Int
    BY <1>1, SMT DEF Scaled
  <1> QED
    BY <1>2, <1>3, <1>4, SMT DEF Temperature

-----------------------------------------------------------------------------
\* A reading never leaves the bound of its filter, and t_water always belongs
\* to the last conversion.
Bounded ==
  /\ TypeOK
  /\ field = "v_water" => value \in FlowRange
  /\ field = "v_fan" => value \in FanRange
  /\ field = "t_water" /\ value # 0 =>
       adc_voltage \in Conversions /\ value = Temperature(adc_voltage)

\* Every conversion is a 10-bit number.
LEMMA ConversionRange == \A c \in Conversions : c \in Adc10
  BY TicksAssumption DEF TicksAssumption

\* A reading within the bound of its filter is a 16-bit number.
LEMMA RangesFit == \A v : v \in FlowRange \/ v \in FanRange => v \in Uint16
<1>1. ASSUME NEW v \in FlowRange PROVE v \in Uint16
  BY SMT DEF FlowRange, Uint16
<1>2. ASSUME NEW v \in FanRange PROVE v \in Uint16
  BY SMT DEF FanRange, Uint16
<1> QED
  BY <1>1, <1>2

\* A reading of 0 is within every bound.
LEMMA ZeroFits == 0 \in FlowRange /\ 0 \in FanRange /\ 0 \in Uint16
  BY SMT DEF FlowRange, FanRange, Uint16

\* The bounds hold at the start and every sample, conversion and overflow
\* keeps them.
LEMMA InitBounded == Init => Bounded
  BY ZeroFits, SMT DEF Init, Bounded, TypeOK

LEMMA NextBounded == Bounded /\ [Next]_vars => Bounded'
<1> SUFFICES ASSUME Bounded, [Next]_vars PROVE Bounded'
  OBVIOUS
<1>1. ASSUME NEW n \in FlowTicks, Waterflow_Worker(n) PROVE Bounded'
  <2>1. value \in FlowRange /\ field' = "v_water" /\ adc_voltage' \in {0} \cup Conversions
    BY <1>1 DEF Bounded, TypeOK, Waterflow_Worker
  <2>2. value' \in FlowRange
    <3>1. CASE FlowSample(n) \in FlowAccepted
      <4>1. value' = FlowFilter(FlowSample(n), value)
        BY <1>1, <3>1 DEF Waterflow_Worker
      <4>2. FlowFilter(FlowSample(n), value) \in FlowRange
        BY <2>1, <3>1, FlowFilterLemma
      <4> QED BY <4>1, <4>2
    <3>2. CASE FlowSample(n) \notin FlowAccepted
      BY <1>1, <2>1, <3>2 DEF Waterflow_Worker
    <3> QED BY <3>1, <3>2
  <2> QED
    BY <2>1, <2>2, RangesFit, Zenon DEF Bounded, TypeOK
<1>2. ASSUME NEW n \in FanTicks, Fans_Worker(n) PROVE Bounded'
  <2>1. value \in FanRange /\ field' = "v_fan" /\ adc_voltage' \in {0} \cup Conversions
    BY <1>2 DEF Bounded, TypeOK, Fans_Worker
  <2>2. value' \in FanRange
    <3>1. CASE FanSample(n) \in FanAccepted
      <4>1. value' = FanFilter(FanSample(n), value)
        BY <1>2, <3>1 DEF Fans_Worker
      <4>2. FanFilter(FanSample(n), value) \in FanRange
        BY <2>1, <3>1, FanFilterLemma
      <4> QED BY <4>1, <4>2
    <3>2. CASE FanSample(n) \notin FanAccepted
      BY <1>2, <2>1, <3>2 DEF Fans_Worker
    <3> QED BY <3>1, <3>2
  <2> QED
    BY <2>1, <2>2, RangesFit, Zenon DEF Bounded, TypeOK
<1>3. ASSUME NEW c \in Conversions, Watertemp_Worker(c) PROVE Bounded'
  <2>1. Temperature(c) \in 19..500
    BY ConversionRange, TemperatureRange
  <2> QED
    BY <1>3, <2>1 DEF Bounded, TypeOK, Watertemp_Worker
<1>4. CASE TIMER_OVF_vect
  BY <1>4, ZeroFits, SMT DEF Bounded, TypeOK, TIMER_OVF_vect
<1>5. CASE UNCHANGED vars
  BY <1>5 DEF Bounded, TypeOK, vars
<1> QED
  BY <1>1, <1>2, <1>3, <1>4, <1>5 DEF Next

\* For every timer value and conversion the readings stay within their bounds.
THEOREM ReadingsBounded == Spec => []Bounded
  BY InitBounded, NextBounded, PTL DEF Spec

\* Type correctness of the firmware's readings.
THEOREM SensorTypeCorrect == Spec => []TypeOK
<1>1. Bounded => TypeOK
  BY DEF Bounded
<1> QED
  BY <1>1, ReadingsBounded, PTL

\* No weighted sum wraps, whatever the timers are captured with.
THEOREM NoSumWraps == Spec => []FilterFits
<1>1. Bounded => FilterFits
  <2>1. ASSUME Bounded, field = "v_water"
        PROVE  value \in FlowRange /\ \A s \in FlowAccepted : s + 64 * value < 65536
    <3>1. value \in FlowRange
      BY <2>1 DEF Bounded
    <3> QED
      BY <3>1, SMT DEF FlowRange, FlowAccepted
  <2>2. ASSUME Bounded, field = "v_fan"
        PROVE  value \in FanRange /\ \A s \in FanAccepted : s + 32 * value < 65536
    <3>1. value \in FanRange
      BY <2>2 DEF Bounded
    <3> QED
      BY <3>1, SMT DEF FanRange, FanAccepted
  <2> QED
    BY <2>1, <2>2 DEF FilterFits
<1> QED
  BY <1>1, ReadingsBounded, PTL

\* An accepted sample moves a reading towards it, never past it and never to 0,
\* until the reading is 64 litres or 32 revolutions short of it.
THEOREM FiltersConverge == Spec => FilterConverges
<1>1. Bounded /\ [Next]_vars => [FilterStep]_vars
  <2> SUFFICES ASSUME Bounded PROVE FilterStep
    OBVIOUS
  <2>1. ASSUME NEW n \in FlowTicks, Waterflow_Worker(n), FlowSample(n) \in FlowAccepted
        PROVE  Toward(value, value', FlowSample(n), 64) /\ value' > 0
    <3>1. value \in FlowRange
      BY <2>1 DEF Bounded, Waterflow_Worker
    <3>2. value' = FlowFilter(FlowSample(n), value)
      BY <2>1 DEF Waterflow_Worker
    <3>3. /\ Toward(value, FlowFilter(FlowSample(n), value), FlowSample(n), 64)
          /\ FlowFilter(FlowSample(n), value) > 0
      BY <2>1, <3>1, FlowFilterLemma
    <3> QED
      BY <3>2, <3>3
  <2>2. ASSUME NEW n \in FanTicks, Fans_Worker(n), FanSample(n) \in FanAccepted
        PROVE  Toward(value, value', FanSample(n), 32) /\ value' > 0
    <3>1. value \in FanRange
      BY <2>2 DEF Bounded, Fans_Worker
    <3>2. value' = FanFilter(FanSample(n), value)
      BY <2>2 DEF Fans_Worker
    <3>3. /\ Toward(value, FanFilter(FanSample(n), value), FanSample(n), 32)
          /\ FanFilter(FanSample(n), value) > 0
      BY <2>2, <3>1, FanFilterLemma
    <3> QED
      BY <3>2, <3>3
  <2> QED
    BY <2>1, <2>2 DEF FilterStep
<1> QED
  BY <1>1, ReadingsBounded, PTL DEF FilterConverges, Spec

\* The reported temperature falls with the voltage, without a jump.
THEOREM TemperatureIsMonotone == Spec => TemperatureFalls
<1>1. Bounded /\ [Next]_vars => [TemperatureStep]_vars
  <2>1. ASSUME Bounded, field = "t_water", value # 0,
               NEW c \in Conversions, Watertemp_Worker(c)
        PROVE  TemperatureStep
    <3>1. adc_voltage \in Conversions /\ value = Temperature(adc_voltage)
      BY <2>1 DEF Bounded
    <3>2. value' = Temperature(c) /\ adc_voltage' = c
      BY <2>1 DEF Watertemp_Worker
    <3>3. adc_voltage \in Adc10 /\ c \in Adc10
      BY <3>1, ConversionRange
    <3>4. Signed(c) >= Signed(adc_voltage) => Temperature(c) <= Temperature(adc_voltage)
      BY <3>3, TemperatureSlope, Zenon
    <3>5. Signed(c) = Signed(adc_voltage) + 1 => Temperature(c) >= Temperature(adc_voltage) - 1
      <4>1. Signed(c) \in Int /\ Signed(adc_voltage) \in Int
        BY <3>3, SMT DEF Signed, Adc10
      <4>2. Signed(c) = Signed(adc_voltage) + 1 => Signed(c) >= Signed(adc_voltage)
        BY <4>1, SMT
      <4> QED
        BY <4>2, <3>3, TemperatureSlope, Zenon
    <3> QED
      BY <3>1, <3>2, <3>4, <3>5, Zenon DEF TemperatureStep
  <2> QED
    BY <2>1 DEF Next, Waterflow_Worker, Fans_Worker, TIMER_OVF_vect, TemperatureStep
<1> QED
  BY <1>1, ReadingsBounded, PTL DEF TemperatureFalls, Spec

(***************************************************************************)
(* The cast to uint16_t makes a wrong speed out of 19 and 56 ticks of the  *)
(* fan and of nothing else.                                                *)
(***************************************************************************)
THEOREM SamplesAreTrueSpeeds == Spec => SamplesAreSpeeds
<1>1. SampleStep
  <2>1. ASSUME NEW n \in FlowTicks, Waterflow_Worker(n), value' # value
        PROVE  FlowSample(n) = 3600000 \div n
    <3>1. FlowSample(n) \in FlowAccepted
      BY <2>1 DEF Waterflow_Worker
    <3>2. n \in Uint16
      BY TicksAssumption
    <3> QED
      BY <3>1, <3>2, FlowNotFolded
  <2>2. ASSUME NEW n \in FanTicks \ Folded, Fans_Worker(n), value' # value
        PROVE  FanSample(n) = 3750000 \div n
    <3>1. FanSample(n) \in FanAccepted
      BY <2>2 DEF Fans_Worker
    <3>2. n \in Uint16 \ Folded
      BY TicksAssumption
    <3> QED
      BY <3>1, <3>2, FanNotFolded
  <2> QED
    BY <2>1, <2>2 DEF SampleStep
<1>2. [SampleStep]_vars
  BY <1>1
<1> QED
  BY <1>2, PTL DEF SamplesAreSpeeds
=============================================================================
