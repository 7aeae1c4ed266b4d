--------------------------- MODULE AdcLineProofs ---------------------------
(***************************************************************************)
(* The safety properties of the line sensors, for every list of pins,      *)
(* every channel of each sensor and every set of voltages: the ADC never   *)
(* stalls, its block rests while the ISR reads it, and line_get is the     *)
(* abstract line sensor.                                                   *)
(***************************************************************************)
EXTENDS AdcLine, TLAPS

-----------------------------------------------------------------------------
(* Facts about the constants. *)

(* A non-empty set of channels has a greatest one. *)
LEMMA GreatestChannel ==
  ASSUME NEW S \in SUBSET (0 .. 7), S # {}
  PROVE  \E c \in S : \A d \in S : d <= c
<1> SUFFICES ASSUME \A c \in S : \E d \in S : ~(d <= c) PROVE FALSE
  OBVIOUS
<1>1. \A d \in S : d <= 6
  OBVIOUS
<1>2. \A d \in S : d <= 5
  BY <1>1
<1>3. \A d \in S : d <= 4
  BY <1>2
<1>4. \A d \in S : d <= 3
  BY <1>3
<1>5. \A d \in S : d <= 2
  BY <1>4
<1>6. \A d \in S : d <= 1
  BY <1>5
<1>7. \A d \in S : d <= 0
  BY <1>6
<1>8. PICK c \in S : TRUE
  OBVIOUS
<1>9. c = 0
  BY <1>7
<1> QED
  BY <1>7, <1>9

(* last_index is the channel of a pin, and no pin has a greater one. *)
LEMMA LastIndex ==
  /\ adc_pin_count \in Nat /\ adc_pin_count > 0
  /\ \A k \in 1 .. adc_pin_count : adc_pins[k] \in 0 .. 7 /\ adc_pins[k] <= last_index
  /\ last_index \in 0 .. 7
<1>1. /\ adc_pin_count \in Nat /\ adc_pin_count > 0
      /\ \A k \in 1 .. adc_pin_count : adc_pins[k] \in 0 .. 7
  BY PinsAssumption DEF adc_pin_count
<1> DEFINE S == {adc_pins[k] : k \in 1 .. adc_pin_count}
           Last(c) == /\ \E k \in 1 .. adc_pin_count : adc_pins[k] = c
                      /\ \A k \in 1 .. adc_pin_count : adc_pins[k] <= c
<1>2. S \in SUBSET (0 .. 7) /\ adc_pins[1] \in S
  BY <1>1
<1>3. PICK c \in S : \A d \in S : d <= c
  BY <1>2, GreatestChannel
<1>4. c \in Channels /\ Last(c)
  BY <1>1, <1>3 DEF Channels, ADC_CHANNEL_COUNT
<1>5. last_index \in Channels /\ Last(last_index)
  BY <1>4 DEF last_index
<1> QED
  BY <1>1, <1>5 DEF Channels, ADC_CHANNEL_COUNT

(* The table of voltage_to_line.h, line by line. *)
LEMMA Table ==
  /\ Line!Lines = {"LINE_NONE", "LINE_FRONT", "LINE_BACK", "LINE_LEFT", "LINE_RIGHT",
                   "LINE_FRONT_LEFT", "LINE_FRONT_RIGHT", "LINE_BACK_LEFT",
                   "LINE_BACK_RIGHT", "LINE_DIAGONAL_LEFT", "LINE_DIAGONAL_RIGHT"}
  /\ Line!Detecting["LINE_NONE"] = {}
  /\ Line!Detecting["LINE_FRONT"] = {"front_left", "front_right"}
  /\ Line!Detecting["LINE_BACK"] = {"back_left", "back_right"}
  /\ Line!Detecting["LINE_LEFT"] = {"front_left", "back_left"}
  /\ Line!Detecting["LINE_RIGHT"] = {"front_right", "back_right"}
  /\ Line!Detecting["LINE_FRONT_LEFT"] = {"front_left"}
  /\ Line!Detecting["LINE_FRONT_RIGHT"] = {"front_right"}
  /\ Line!Detecting["LINE_BACK_LEFT"] = {"back_left"}
  /\ Line!Detecting["LINE_BACK_RIGHT"] = {"back_right"}
  /\ Line!Detecting["LINE_DIAGONAL_LEFT"] = {"front_left", "back_right"}
  /\ Line!Detecting["LINE_DIAGONAL_RIGHT"] = {"front_right", "back_left"}
BY DEF Line!Lines, Line!Detecting, Line!FRONT_LEFT, Line!FRONT_RIGHT, Line!BACK_LEFT,
   Line!BACK_RIGHT

(* The classification of line_get names a line that fits the sensors which *)
(* are on a white surface.                                                 *)
LEMMA LineFits ==
  ASSUME NEW v \in [Channels -> Nat],
         NEW W, W = {s \in Sensors : v[Channel[s]] < VOLTAGE_THRESHOLD}
  PROVE  LineOf(v) \in Line!LinesOf(W)
<1> DEFINE fl == v[Channel["front_left"]] < VOLTAGE_THRESHOLD
           fr == v[Channel["front_right"]] < VOLTAGE_THRESHOLD
           bl == v[Channel["back_left"]] < VOLTAGE_THRESHOLD
           br == v[Channel["back_right"]] < VOLTAGE_THRESHOLD
<1>w. /\ W \subseteq {"front_left", "front_right", "back_left", "back_right"}
      /\ fl <=> "front_left" \in W
      /\ fr <=> "front_right" \in W
      /\ bl <=> "back_left" \in W
      /\ br <=> "back_right" \in W
  BY DEF Sensors
<1>1. CASE fl /\ fr
  <2>1. LineOf(v) = "LINE_FRONT"
    BY <1>1 DEF LineOf
  <2> HIDE DEF fl, fr, bl, br
  <2>2. "LINE_FRONT" \in Line!LinesOf(W)
    BY <1>1, <1>w, Table DEF Line!LinesOf
  <2> QED
    BY <2>1, <2>2
<1>2. CASE fl /\ ~fr /\ bl
  <2>1. LineOf(v) = "LINE_LEFT"
    BY <1>2 DEF LineOf
  <2> HIDE DEF fl, fr, bl, br
  <2>2. "LINE_LEFT" \in Line!LinesOf(W)
    BY <1>2, <1>w, Table DEF Line!LinesOf
  <2> QED
    BY <2>1, <2>2
<1>3. CASE fl /\ ~fr /\ ~bl /\ br
  <2>1. LineOf(v) = "LINE_DIAGONAL_LEFT"
    BY <1>3 DEF LineOf
  <2> HIDE DEF fl, fr, bl, br
  <2>2. "LINE_DIAGONAL_LEFT" \in Line!LinesOf(W)
    BY <1>3, <1>w, Table DEF Line!LinesOf
  <2> QED
    BY <2>1, <2>2
<1>4. CASE fl /\ ~fr /\ ~bl /\ ~br
  <2>1. LineOf(v) = "LINE_FRONT_LEFT"
    BY <1>4 DEF LineOf
  <2> HIDE DEF fl, fr, bl, br
  <2>2. "LINE_FRONT_LEFT" \in Line!LinesOf(W)
    BY <1>4, <1>w, Table DEF Line!LinesOf
  <2> QED
    BY <2>1, <2>2
<1>5. CASE ~fl /\ fr /\ br
  <2>1. LineOf(v) = "LINE_RIGHT"
    BY <1>5 DEF LineOf
  <2> HIDE DEF fl, fr, bl, br
  <2>2. "LINE_RIGHT" \in Line!LinesOf(W)
    BY <1>5, <1>w, Table DEF Line!LinesOf
  <2> QED
    BY <2>1, <2>2
<1>6. CASE ~fl /\ fr /\ ~br /\ bl
  <2>1. LineOf(v) = "LINE_DIAGONAL_RIGHT"
    BY <1>6 DEF LineOf
  <2> HIDE DEF fl, fr, bl, br
  <2>2. "LINE_DIAGONAL_RIGHT" \in Line!LinesOf(W)
    BY <1>6, <1>w, Table DEF Line!LinesOf
  <2> QED
    BY <2>1, <2>2
<1>7. CASE ~fl /\ fr /\ ~br /\ ~bl
  <2>1. LineOf(v) = "LINE_FRONT_RIGHT"
    BY <1>7 DEF LineOf
  <2> HIDE DEF fl, fr, bl, br
  <2>2. "LINE_FRONT_RIGHT" \in Line!LinesOf(W)
    BY <1>7, <1>w, Table DEF Line!LinesOf
  <2> QED
    BY <2>1, <2>2
<1>8. CASE ~fl /\ ~fr /\ bl /\ br
  <2>1. LineOf(v) = "LINE_BACK"
    BY <1>8 DEF LineOf
  <2> HIDE DEF fl, fr, bl, br
  <2>2. "LINE_BACK" \in Line!LinesOf(W)
    BY <1>8, <1>w, Table DEF Line!LinesOf
  <2> QED
    BY <2>1, <2>2
<1>9. CASE ~fl /\ ~fr /\ bl /\ ~br
  <2>1. LineOf(v) = "LINE_BACK_LEFT"
    BY <1>9 DEF LineOf
  <2> HIDE DEF fl, fr, bl, br
  <2>2. "LINE_BACK_LEFT" \in Line!LinesOf(W)
    BY <1>9, <1>w, Table DEF Line!LinesOf
  <2> QED
    BY <2>1, <2>2
<1>10. CASE ~fl /\ ~fr /\ ~bl /\ br
  <2>1. LineOf(v) = "LINE_BACK_RIGHT"
    BY <1>10 DEF LineOf
  <2> HIDE DEF fl, fr, bl, br
  <2>2. "LINE_BACK_RIGHT" \in Line!LinesOf(W)
    BY <1>10, <1>w, Table DEF Line!LinesOf
  <2> QED
    BY <2>1, <2>2
<1>11. CASE ~fl /\ ~fr /\ ~bl /\ ~br
  <2>1. LineOf(v) = "LINE_NONE"
    BY <1>11 DEF LineOf
  <2> HIDE DEF fl, fr, bl, br
  <2>2. "LINE_NONE" \in Line!LinesOf(W)
    BY <1>11, <1>w, Table DEF Line!LinesOf
  <2> QED
    BY <2>1, <2>2
<1> HIDE DEF fl, fr, bl, br
<1> QED
  BY <1>1, <1>2, <1>3, <1>4, <1>5, <1>6, <1>7, <1>8, <1>9, <1>10, <1>11

-----------------------------------------------------------------------------
(***************************************************************************)
(* The inductive invariant.                                                *)
(***************************************************************************)

(* The values of the arrays after power-up. *)
LEMMA NoVoltage ==
  ZeroVolts \in [Channels -> Volts] /\ NoValues \in [Channels -> Volts \cup {Unset}]
BY DEF ZeroVolts, NoValues, Volts

(* Before adc_init nothing runs. *)
LEMMA InitIInv == Init => IInv
<1> SUFFICES ASSUME Init PROVE IInv
  OBVIOUS
<1>1. TypeOK
  <2>1. /\ pc \in {"init", "idle", "copy"}
        /\ i \in 0 .. adc_pin_count
    BY LastIndex DEF Init
  <2>2. ADC10IE \in BOOLEAN /\ ADC10IFG \in BOOLEAN
    BY Zenon DEF Init
  <2>3. {adc_dtc_block, adc_dtc_block_temperory, sampled, published}
          \subseteq [Channels -> Volts]
    BY NoVoltage DEF Init
  <2>4. /\ dtc_channel_count \in {0, last_index + 1}
        /\ values \in [Channels -> Volts \cup {Unset}]
        /\ converting \in Channels \cup {Stopped}
        /\ isr \in Channels \cup {dtc_channel_count, Off}
    BY NoVoltage DEF Init
  <2> QED
    BY <2>1, <2>2, <2>3, <2>4 DEF TypeOK
<1>2. BlockAtRest /\ NeverStalled /\ ControlInv /\ BlockInv /\ ReadInv
  BY DEF Init, BlockAtRest, NeverStalled, ControlInv, BlockInv, ReadInv
<1>3. CopyInv
  BY DEF Init, CopyInv
<1> QED
  BY <1>1, <1>2, <1>3 DEF IInv

(* One conversion: the block has one channel more of what was sampled. *)
LEMMA ConvertStep == IInv /\ Convert => IInv'
<1> SUFFICES ASSUME IInv, Convert PROVE IInv'
  OBVIOUS
<1>1. PICK v \in VoltagesOf(converting) :
        /\ adc_dtc_block' = [adc_dtc_block EXCEPT ![last_index - converting] = v]
        /\ sampled' = [sampled EXCEPT ![converting] = v]
  BY DEF Convert
<1>2. /\ converting \in 0 .. last_index /\ isr = Off /\ pc # "init" /\ ~ADC10IFG
      /\ last_index \in 0 .. 7 /\ v \in Volts /\ Volts \subseteq Nat
  BY LastIndex, VoltagesAssumption
  DEF Convert, IInv, TypeOK, ControlInv, BlockAtRest, Channels, ADC_CHANNEL_COUNT,
      VoltagesOf, Volts
<1>3. TypeOK'
  <2>1. {adc_dtc_block, sampled}' \subseteq [Channels -> Volts]
    BY <1>1, <1>2 DEF IInv, TypeOK
  <2>2. converting' \in Channels \cup {Stopped}
    BY <1>2 DEF Convert, Channels, ADC_CHANNEL_COUNT
  <2> QED
    BY <2>1, <2>2 DEF Convert, IInv, TypeOK, reading, buffered
<1>4. BlockAtRest' /\ NeverStalled' /\ ControlInv'
  BY <1>2
  DEF Convert, IInv, BlockAtRest, NeverStalled, ControlInv, reading, Stopped,
      ADC_CHANNEL_COUNT, Off
<1>5. BlockInv'
  <2> SUFFICES ASSUME NEW c \in 0 .. last_index,
                      converting' = Stopped \/ converting' < c
               PROVE  adc_dtc_block'[last_index - c] = sampled'[c]
    BY DEF BlockInv
  <2>1. converting <= c
    BY <1>2 DEF Convert, Stopped, ADC_CHANNEL_COUNT
  <2>2. CASE c = converting
    BY <1>1, <1>2, <2>2 DEF IInv, TypeOK, Channels, ADC_CHANNEL_COUNT
  <2>3. CASE converting < c
    BY <1>1, <1>2, <2>3 DEF IInv, TypeOK, BlockInv, Channels, ADC_CHANNEL_COUNT
  <2> QED
    BY <1>2, <2>1, <2>2, <2>3
<1>6. CopyInv' /\ ReadInv'
  BY <1>2 DEF Convert, IInv, CopyInv, ReadInv, reading, buffered
<1> QED
  BY <1>3, <1>4, <1>5, <1>6 DEF IInv

(* The ISR: it turns the resting block around, element by element. *)
LEMMA IsrStep == IInv /\ (IsrEnter \/ IsrCopy \/ IsrReturn) => IInv'
<1> SUFFICES ASSUME IInv, IsrEnter \/ IsrCopy \/ IsrReturn PROVE IInv'
  OBVIOUS
<1>1. last_index \in 0 .. 7
  BY LastIndex
<1>2. CASE IsrEnter
  <2>1. TypeOK'
    <3>1. ADC10IFG' \in BOOLEAN
      BY <1>2 DEF IsrEnter
    <3>2. isr' \in Channels \cup {dtc_channel_count, Off}
      BY <1>2 DEF IsrEnter, Channels, ADC_CHANNEL_COUNT
    <3> QED
      BY <1>2, <3>1, <3>2 DEF IsrEnter, IInv, TypeOK, reading, buffered
  <2>2. BlockAtRest' /\ NeverStalled' /\ ControlInv'
    BY <1>1, <1>2
    DEF IsrEnter, IInv, BlockAtRest, NeverStalled, ControlInv, reading, Off,
        ADC_CHANNEL_COUNT
  <2>3. BlockInv' /\ CopyInv' /\ ReadInv'
    BY <1>2
    DEF IsrEnter, IInv, BlockInv, CopyInv, ReadInv, reading, buffered, Off,
        ADC_CHANNEL_COUNT
  <2> QED
    BY <2>1, <2>2, <2>3 DEF IInv
<1>3. CASE IsrCopy
  <2>1. /\ converting = Stopped /\ pc = "idle" /\ dtc_channel_count = last_index + 1
        /\ isr \in 0 .. last_index
    BY <1>1, <1>3
    DEF IsrCopy, IInv, TypeOK, BlockAtRest, ControlInv, Off, Channels, ADC_CHANNEL_COUNT
  <2>2. Mirror(isr) = last_index - isr /\ Mirror(isr) \in Channels /\ isr \in Channels
    BY <1>1, <2>1 DEF Mirror, Channels, ADC_CHANNEL_COUNT
  <2>3. TypeOK'
    <3>1. adc_dtc_block_temperory' \in [Channels -> Volts]
      BY <1>3, <2>2 DEF IsrCopy, IInv, TypeOK
    <3>2. isr' \in Channels \cup {dtc_channel_count, Off}
      BY <1>1, <1>3, <2>1 DEF IsrCopy, Channels, ADC_CHANNEL_COUNT
    <3> QED
      BY <1>3, <3>1, <3>2 DEF IsrCopy, IInv, TypeOK, reading, adc
  <2>4. BlockAtRest' /\ NeverStalled' /\ ControlInv'
    BY <1>1, <1>3, <2>1
    DEF IsrCopy, IInv, BlockAtRest, NeverStalled, ControlInv, reading, adc, Off,
        ADC_CHANNEL_COUNT
  <2>5. BlockInv' /\ ReadInv'
    BY <1>3, <2>1 DEF IsrCopy, IInv, BlockInv, ReadInv, reading, adc
  <2>6. CopyInv'
    BY <1>1, <1>3, <2>1, <2>2
    DEF IsrCopy, IInv, TypeOK, BlockInv, CopyInv, adc, Off, Channels, ADC_CHANNEL_COUNT
  <2> QED
    BY <2>3, <2>4, <2>5, <2>6 DEF IInv
<1>4. CASE IsrReturn
  <2>1. /\ converting = Stopped /\ pc = "idle" /\ dtc_channel_count = last_index + 1
        /\ isr # Off /\ ~ADC10IFG /\ converting' = last_index
    BY <1>1, <1>4
    DEF IsrReturn, IInv, TypeOK, BlockAtRest, ControlInv, Off, ADC_CHANNEL_COUNT,
        adc_enable_and_start_conversion
  <2>2. TypeOK'
    BY <1>1, <1>4, <2>1
    DEF IsrReturn, IInv, TypeOK, reading, Channels, ADC_CHANNEL_COUNT
  <2>3. BlockAtRest' /\ NeverStalled' /\ ControlInv'
    BY <1>1, <1>4, <2>1
    DEF IsrReturn, IInv, BlockAtRest, NeverStalled, ControlInv, reading, Stopped,
        ADC_CHANNEL_COUNT
  <2>4. BlockInv' /\ ReadInv'
    BY <1>1, <1>4, <2>1
    DEF IsrReturn, IInv, BlockInv, ReadInv, reading, Stopped, ADC_CHANNEL_COUNT
  <2>5. CopyInv'
    BY <1>1, <1>4, <2>1 DEF IsrReturn, IInv, CopyInv
  <2> QED
    BY <2>2, <2>3, <2>4, <2>5 DEF IInv
<1> QED
  BY <1>2, <1>3, <1>4

(* Main: it runs while no ISR does, and copies with the interrupt off. *)
LEMMA MainInv == IInv /\ (Main \/ line_get) => IInv'
<1> SUFFICES ASSUME IInv, Main \/ line_get PROVE IInv'
  OBVIOUS
<1>1. last_index \in 0 .. 7
  BY LastIndex
<1>2. CASE adc_init
  <2>1. TypeOK'
    BY <1>1, <1>2
    DEF adc_init, MainStep, adc_enable_and_start_conversion, IInv, TypeOK, buffered, Off,
        Channels, ADC_CHANNEL_COUNT
  <2>2. BlockAtRest' /\ NeverStalled' /\ ControlInv'
    BY <1>1, <1>2
    DEF adc_init, MainStep, adc_enable_and_start_conversion, IInv, BlockAtRest,
        NeverStalled, ControlInv, Stopped, ADC_CHANNEL_COUNT
  <2>3. BlockInv'
    BY <1>1, <1>2
    DEF adc_init, adc_enable_and_start_conversion, BlockInv, Stopped, ADC_CHANNEL_COUNT
  <2>4. CopyInv' /\ ReadInv'
    BY <1>2 DEF adc_init, MainStep, IInv, CopyInv, ReadInv, buffered
  <2> QED
    BY <2>1, <2>2, <2>3, <2>4 DEF IInv
<1>3. CASE line_get
  <2>1. TypeOK'
    <3>1. pc' \in {"init", "idle", "copy"} /\ i' \in 0 .. adc_pin_count
      BY <1>3, LastIndex DEF line_get, MainStep
    <3>2. ADC10IE' \in BOOLEAN
      BY <1>3 DEF line_get
    <3> QED
      BY <1>3, <3>1, <3>2 DEF line_get, MainStep, IInv, TypeOK, adc, buffered
  <2>2. BlockAtRest' /\ NeverStalled' /\ ControlInv'
    BY <1>3 DEF line_get, MainStep, IInv, BlockAtRest, NeverStalled, ControlInv, adc
  <2>3. BlockInv' /\ CopyInv' /\ ReadInv'
    BY <1>3 DEF line_get, MainStep, IInv, BlockInv, CopyInv, ReadInv, adc, buffered
  <2> QED
    BY <2>1, <2>2, <2>3 DEF IInv
<1>4. CASE GetChannel
  <2> DEFINE c == adc_pins[i + 1]
  <2>1. /\ i \in 0 .. adc_pin_count - 1 /\ isr = Off /\ pc = "copy"
        /\ c \in 0 .. last_index /\ c \in Channels
    BY <1>1, <1>4, LastIndex
    DEF GetChannel, MainStep, IInv, TypeOK, Channels, ADC_CHANNEL_COUNT
  <2>2. values' = [values EXCEPT ![c] = adc_dtc_block_temperory[c]]
    BY <1>4 DEF GetChannel
  <2>3. adc_dtc_block_temperory[c] = published[c]
    BY <2>1 DEF IInv, CopyInv
  <2>4. TypeOK'
    BY <1>4, <2>1, <2>2, LastIndex DEF GetChannel, MainStep, IInv, TypeOK, adc, buffered
  <2>5. BlockAtRest' /\ NeverStalled' /\ ControlInv'
    BY <1>4 DEF GetChannel, MainStep, IInv, BlockAtRest, NeverStalled, ControlInv, adc
  <2>6. BlockInv' /\ CopyInv'
    BY <1>4 DEF GetChannel, MainStep, IInv, BlockInv, CopyInv, adc, buffered
  <2>7. ReadInv'
    <3> SUFFICES ASSUME NEW k \in 1 .. i + 1
                 PROVE  values'[adc_pins[k]] = published'[adc_pins[k]]
      BY <1>4 DEF GetChannel, MainStep, ReadInv
    <3>1. k = i + 1 \/ k \in 1 .. i
      BY <2>1
    <3>2. adc_pins[k] \in Channels
      BY <2>1, LastIndex DEF Channels, ADC_CHANNEL_COUNT
    <3>3. k \in 1 .. i => values[adc_pins[k]] = published[adc_pins[k]]
      BY <2>1 DEF IInv, ReadInv
    <3>4. published' = published /\ values \in [Channels -> Volts \cup {Unset}]
      BY <1>4 DEF GetChannel, buffered, IInv, TypeOK
    <3> QED
      BY <2>1, <2>2, <2>3, <3>1, <3>2, <3>3, <3>4
  <2> QED
    BY <2>4, <2>5, <2>6, <2>7 DEF IInv
<1>5. CASE GetReturn
  <2>1. TypeOK'
    <3>1. /\ pc' \in {"init", "idle", "copy"} /\ i' \in 0 .. adc_pin_count
          /\ values' \in [Channels -> Volts \cup {Unset}]
          /\ ADC10IE' \in BOOLEAN
      BY <1>5, LastIndex, NoVoltage DEF GetReturn, MainStep
    <3> QED
      BY <1>5, <3>1 DEF GetReturn, MainStep, IInv, TypeOK, adc, buffered
  <2>2. BlockAtRest' /\ NeverStalled' /\ ControlInv'
    BY <1>5 DEF GetReturn, MainStep, IInv, BlockAtRest, NeverStalled, ControlInv, adc
  <2>3. BlockInv' /\ CopyInv' /\ ReadInv'
    BY <1>5 DEF GetReturn, MainStep, IInv, BlockInv, CopyInv, ReadInv, adc, buffered
  <2> QED
    BY <2>1, <2>2, <2>3 DEF IInv
<1> QED
  BY <1>2, <1>3, <1>4, <1>5 DEF Main

(* No step of the three actors breaks the invariant. *)
LEMMA StepIInv == IInv /\ [Next]_vars => IInv'
<1>1. IInv /\ UNCHANGED vars => IInv'
  BY DEF vars, reading, adc, buffered, IInv, TypeOK, BlockAtRest, NeverStalled,
     ControlInv, BlockInv, CopyInv, ReadInv
<1> QED
  BY <1>1, ConvertStep, IsrStep, MainInv DEF Next

(* What holds between any two steps of the hardware, the ISR and main. *)
THEOREM InvariantHolds == Spec => []IInv
BY InitIInv, StepIInv, PTL DEF Spec

-----------------------------------------------------------------------------
(***************************************************************************)
(* The theorems.                                                           *)
(***************************************************************************)

(* Every variable of the ADC, the ISR and main has its type. *)
THEOREM TypeCorrect == Spec => []TypeOK
<1>1. IInv => TypeOK
  BY DEF IInv
<1> QED
  BY <1>1, InvariantHolds, PTL

(* The transfer controller never writes the block that the ISR reads. *)
THEOREM BlockRests == Spec => []BlockAtRest
<1>1. IInv => BlockAtRest
  BY DEF IInv
<1> QED
  BY <1>1, InvariantHolds, PTL

(* The ADC converts, or its interrupt is pending or being served.  So the  *)
(* interrupt that main masks is never the last one.                        *)
THEOREM SamplingNeverStalls == Spec => []NeverStalled
<1>1. IInv => NeverStalled
  BY DEF IInv
<1> QED
  BY <1>1, InvariantHolds, PTL

(* What main has read when its loop is through is what the latest sequence *)
(* had of each sensor.                                                     *)
LEMMA WholeSequence ==
  ASSUME IInv, pc = "copy", i = adc_pin_count, NEW s \in Sensors
  PROVE  values[Channel[s]] = published[Channel[s]]
<1>1. PICK k \in 1 .. adc_pin_count : adc_pins[k] = Channel[s]
  BY SensorsAssumption DEF adc_pin_count
<1> QED
  BY <1>1 DEF IInv, ReadInv

(* The return of line_get is a Get of the abstract line sensor. *)
LEMMA ReturnIsGet ==
  ASSUME IInv, GetReturn
  PROVE  Line!Get
<1>1. \A s \in Sensors : values[Channel[s]] = published[Channel[s]]
  BY WholeSequence DEF GetReturn, MainStep
<1>2. Sensors = {"front_left", "front_right", "back_left", "back_right"}
  BY DEF Sensors
<1>3. line' = LineOf(published)
  BY <1>1, <1>2 DEF GetReturn, LineOf
<1>4. published \in [Channels -> Nat]
  <2>1. published \in [Channels -> Volts]
    BY DEF IInv, TypeOK
  <2>2. Volts \subseteq Nat
    BY VoltagesAssumption DEF Volts
  <2> QED
    BY <2>1, <2>2
<1>5. published' = published
  BY DEF GetReturn, buffered
<1> DEFINE W == {s \in Sensors : published[Channel[s]] < VOLTAGE_THRESHOLD}
<1>6. LineOf(published) \in Line!LinesOf(W)
  BY <1>4, LineFits
<1> QED
  BY <1>3, <1>5, <1>6 DEF Line!Get

(* line_get is an atomic read of the latest sequence: AdcLine implements   *)
(* LineSensor, whatever the pins, the channels and the voltages are.       *)
THEOREM ImplementsLineSensor == Spec => LineSpec
<1>1. Init => Line!Init
  <2> SUFFICES ASSUME Init PROVE Line!Init
    OBVIOUS
  <2>1. \A s \in Sensors : published[Channel[s]] = 0
    BY SensorsAssumption DEF Init, ZeroVolts, Channels, ADC_CHANNEL_COUNT
  <2>2. {s \in Sensors : published[Channel[s]] < VOLTAGE_THRESHOLD} = Sensors
    BY <2>1, VoltagesAssumption
  <2> QED
    BY <2>2 DEF Init, Line!Init, Sensors, Line!Sensors, Line!FRONT_LEFT, Line!FRONT_RIGHT,
       Line!BACK_LEFT, Line!BACK_RIGHT
<1>2. IInv /\ [Next]_vars =>
        [Line!Sample \/ Line!Get]_<<{s \in Sensors :
                                      published[Channel[s]] < VOLTAGE_THRESHOLD}, line>>
  <2> SUFFICES ASSUME IInv, [Next]_vars
               PROVE  \/ Line!Sample \/ Line!Get
                      \/ published' = published /\ line' = line
    OBVIOUS
  <2>1. CASE IsrReturn
    BY <2>1 DEF IsrReturn, reading, Line!Sample, Sensors, Line!Sensors, Line!FRONT_LEFT,
       Line!FRONT_RIGHT, Line!BACK_LEFT, Line!BACK_RIGHT
  <2>2. CASE GetReturn
    BY <2>2, ReturnIsGet
  <2>3. CASE Convert \/ IsrEnter \/ IsrCopy
    BY <2>3 DEF Convert, IsrEnter, IsrCopy, reading, buffered
  <2>4. CASE adc_init \/ GetChannel \/ line_get
    BY <2>4 DEF adc_init, GetChannel, line_get, buffered
  <2>5. CASE UNCHANGED vars
    BY <2>5 DEF vars, reading, buffered
  <2> QED
    BY <2>1, <2>2, <2>3, <2>4, <2>5 DEF Next, Main
<1> QED
  BY <1>1, <1>2, InvariantHolds, PTL DEF Spec, LineSpec, Line!Spec
=============================================================================
