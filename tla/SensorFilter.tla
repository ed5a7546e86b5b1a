---------------------------- MODULE SensorFilter ----------------------------
(***************************************************************************)
(* The arithmetic of the sensor workers in Firmware/rpc.c: from a captured *)
(* timer value or an ADC conversion to the field of rpc_values that is     *)
(* reported to the host, in the integer widths of the ATmega32U4 (int and  *)
(* uint16_t have 16 bits).                                                 *)
(*                                                                         *)
(* The three sensors share no data, so a behaviour follows one field.      *)
(***************************************************************************)
EXTENDS Integers

CONSTANTS
  FlowTicks,   \* values TCNT1 is captured with
  FanTicks,    \* values TCNT3 is captured with
  Conversions  \* values of the ADC register

Uint16 == {n \in Nat : n <= 65535}
Adc10  == 0..1023

ASSUME TicksAssumption ==
  /\ FlowTicks \subseteq Uint16
  /\ FanTicks \subseteq Uint16
  /\ Conversions \subseteq Adc10

VARIABLES
  field,       \* "v_water", "v_fan" or "t_water"
  value,       \* rpc_values.<field>
  adc_voltage  \* the conversion t_water was computed from

vars == <<field, value, adc_voltage>>

Word(x) == x % 65536

\* (uint16_t)(dividend / ticks) of a 32-bit division.  The division routine of
\* avr-gcc answers a divisor of 0 with all ones.
Quotient(dividend, ticks) ==
  IF ticks = 0 THEN 65535 ELSE Word(dividend \div ticks)

FlowSample(ticks) == Quotient(3600000, ticks)   \* litres per hour
FanSample(ticks)  == Quotient(3750000, ticks)   \* revolutions per minute

\* Mutation: the fan may turn a little faster.
MutFanAccepted == 300..2100

\* Mutation: the water may flow a little faster.
MutFlowAccepted == 100..1200

FlowAccepted == 100..1000
FanAccepted  == 300..2000

\* Mutation: the weights of the filter do not add up to its divisor.
MutFlowFilter(sample, v) == Word(sample + 64 * v) \div 64

\* Mutation: the filter rounds to the nearest number.
MutFanFilter(sample, v) == Word(sample + 32 * v + 16) \div 33

FlowFilter(sample, v) == Word(sample + 64 * v) \div 65
FanFilter(sample, v)  == Word(sample + 32 * v) \div 33

\* Mutation: the conversion is not taken as a signed number.
MutSigned(conversion) == conversion

\* The differential ADC input gives a 10-bit two's complement number.
Signed(conversion) == IF conversion > 511 THEN conversion - 1024 ELSE conversion

\* Mutation: two segments meet at the wrong place.
MutScaled(temp) ==
  IF temp < -225 THEN 9900 - 10 * temp
  ELSE IF temp < 50 THEN 9450 - 12 * temp
  ELSE IF temp < 260 THEN 9600 - 15 * temp
  ELSE 10800 - 20 * temp

\* The characteristic of the NTC resistor in four straight segments, in tenths
\* of a degree times 30; nothing here leaves the range of int16_t.
Scaled(temp) ==
  IF temp < -225 THEN 9900 - 10 * temp
  ELSE IF temp < 50 THEN 9450 - 12 * temp
  ELSE IF temp < 240 THEN 9600 - 15 * temp
  ELSE 10800 - 20 * temp

Temperature(conversion) == Scaled(Signed(conversion)) \div 30

Init ==
  /\ field \in {"v_water", "v_fan", "t_water"}
  /\ value = 0
  /\ adc_voltage = 0

Waterflow_Worker(ticks) ==
  /\ field = "v_water"
  /\ value' = IF FlowSample(ticks) \in FlowAccepted
                THEN FlowFilter(FlowSample(ticks), value) ELSE value
  /\ UNCHANGED <<field, adc_voltage>>

Fans_Worker(ticks) ==
  /\ field = "v_fan"
  /\ value' = IF FanSample(ticks) \in FanAccepted
                THEN FanFilter(FanSample(ticks), value) ELSE value
  /\ UNCHANGED <<field, adc_voltage>>

Watertemp_Worker(conversion) ==
  /\ field = "t_water"
  /\ adc_voltage' = conversion
  /\ value' = Temperature(conversion)
  /\ UNCHANGED field

\* The overflow interrupts of Timer1 and Timer3.
TIMER_OVF_vect ==
  /\ field \in {"v_water", "v_fan"}
  /\ value' = 0
  /\ UNCHANGED <<field, adc_voltage>>

Next ==
  \/ \E ticks \in FlowTicks : Waterflow_Worker(ticks)
  \/ \E ticks \in FanTicks : Fans_Worker(ticks)
  \/ \E conversion \in Conversions : Watertemp_Worker(conversion)
  \/ TIMER_OVF_vect

Spec == Init /\ [][Next]_vars

-----------------------------------------------------------------------------
\* The thermometer reads between 1.9 and 50.0 degrees, so that 0 stands for no
\* conversion yet.
TypeOK ==
  /\ field \in {"v_water", "v_fan", "t_water"}
  /\ value \in IF field = "t_water" THEN {0} \cup 19..500 ELSE Uint16
  /\ adc_voltage \in {0} \cup Conversions

\* Rounding down keeps a rising reading 64 below the largest flow sample and 32
\* below the largest fan sample.
FlowRange == 0..936
FanRange  == 0..1968

(***************************************************************************)
(* The weighted sum of no reachable reading and no accepted sample wraps.  *)
(* For v_fan this is a close call: 32 * 2000 + 2000 does not fit into 16   *)
(* bits, but the rounding of the filter keeps v_fan at most at 1968.       *)
(***************************************************************************)
FilterFits ==
  /\ field = "v_water" =>
       value \in FlowRange /\ \A s \in FlowAccepted : s + 64 * value < 65536
  /\ field = "v_fan" =>
       value \in FanRange /\ \A s \in FanAccepted : s + 32 * value < 65536

\* A new reading between the old one and the sample, and no longer moving once
\* the sample is no lower and at most "band" higher.
Toward(old, new, sample, band) ==
  /\ IF sample >= old THEN old <= new /\ new <= sample
                      ELSE sample <= new /\ new < old
  /\ new = old <=> sample \in old..(old + band)

(***************************************************************************)
(* An accepted sample moves the reading towards it and never past it, and  *)
(* a turning sensor is never reported as a stopped one.  A reading that is *)
(* too high falls to the sample itself; one that is too low rises until 64 *)
(* litres or 32 revolutions are missing, and no further.                   *)
(***************************************************************************)
FilterStep ==
  /\ \A ticks \in FlowTicks :
       Waterflow_Worker(ticks) /\ FlowSample(ticks) \in FlowAccepted =>
         Toward(value, value', FlowSample(ticks), 64) /\ value' > 0
  /\ \A ticks \in FanTicks :
       Fans_Worker(ticks) /\ FanSample(ticks) \in FanAccepted =>
         Toward(value, value', FanSample(ticks), 32) /\ value' > 0

FilterConverges == [][FilterStep]_vars

(***************************************************************************)
(* The cast to uint16_t folds the quotients of 54 flow and 57 fan ticks    *)
(* into 16 bits, but the range test lets only two of them pass: none of    *)
(* the flow, and those of 19 and 56 ticks of the fan (FanSampleIsSpeed).   *)
(***************************************************************************)
Folded == {19, 56}

SampleStep ==
  /\ \A ticks \in FlowTicks :
       Waterflow_Worker(ticks) /\ value' # value =>
         FlowSample(ticks) = 3600000 \div ticks
  /\ \A ticks \in FanTicks \ Folded :
       Fans_Worker(ticks) /\ value' # value =>
         FanSample(ticks) = 3750000 \div ticks

SamplesAreSpeeds == [][SampleStep]_vars

(***************************************************************************)
(* The four segments make one falling characteristic: a higher voltage is  *)
(* never reported as a higher temperature, and one ADC step never moves    *)
(* the reading by more than a tenth of a degree, at the joints either.     *)
(***************************************************************************)
TemperatureStep ==
  field = "t_water" /\ value # 0 =>
    /\ Signed(adc_voltage') >= Signed(adc_voltage) => value' <= value
    /\ Signed(adc_voltage') = Signed(adc_voltage) + 1 => value' >= value - 1

TemperatureFalls == [][TemperatureStep]_vars

(***************************************************************************)
(* "r/m errechnen: (30*F_CPU)/(Prescaler * n)": a sample that is accepted  *)
(* is the speed this formula gives.                                        *)
(***************************************************************************)
FanSampleIsSpeed ==
  [][\A ticks \in FanTicks :
       Fans_Worker(ticks) /\ value' # value =>
         FanSample(ticks) = 3750000 \div ticks]_vars
=============================================================================
