------------------------------ MODULE AdcLine ------------------------------
(***************************************************************************)
(* The line sensors: adc.c, qre1113.c and voltage_to_line.c, with the ADC  *)
(* and its data transfer controller.                                       *)
(*                                                                         *)
(* Three actors share two arrays.  The hardware converts the channels from *)
(* the last one down to 0 and stores them in adc_dtc_block; the ISR turns  *)
(* the block around into adc_dtc_block_temperory and starts the next       *)
(* sequence; main copies the channels of its pins from there, with the     *)
(* ADC's interrupt disabled.  The ISR runs to completion before main goes  *)
(* on; the hardware goes on beside both.                                   *)
(*                                                                         *)
(* io_adc_pins and io_to_adc_index are not in the repository: constants    *)
(* say what they return.  The pin the ISR toggles for debugging is left    *)
(* out.                                                                    *)
(***************************************************************************)
EXTENDS Naturals, Sequences

CONSTANTS
  adc_pins,           \* The ADC channels of the pins, in the order of io_adc_pins.
  Channel,            \* The ADC channel of each sensor.
  Voltages,           \* The values a conversion may give.
  VOLTAGE_THRESHOLD   \* 650.

(* The names of the sensors, from the abstract specification. *)
Sensors == {"front_left", "front_right", "back_left", "back_right"}

ASSUME PinsAssumption ==
  adc_pins \in Seq(0 .. 7) /\ adc_pins # <<>>
ASSUME SensorsAssumption ==
  /\ Channel \in [Sensors -> 0 .. 7]
  /\ \A s \in Sensors : \E k \in 1 .. Len(adc_pins) : adc_pins[k] = Channel[s]
ASSUME VoltagesAssumption ==
  /\ Voltages \subseteq Nat
  /\ VOLTAGE_THRESHOLD \in Nat \ {0}

VARIABLES
  pc,                       \* Where main is.
  i,                        \* The index of adc_get_channel_values.
  values,                   \* The array line_get has qre1113.c fill.
  line,                     \* What line_get returned last.
  dtc_channel_count,        \* As in adc.c.
  adc_dtc_block,            \* As in adc.c.
  adc_dtc_block_temperory,  \* As in adc.c.
  ADC10IE,                  \* The ADC's interrupt is enabled.
  ADC10IFG,                 \* ... and pending.
  converting,               \* The channel being converted, or Stopped.
  isr,                      \* The index of isr_adc_10, or Off.
  sampled,                  \* History: what the channels gave in the latest sequence.
  published                 \* History: ... in the latest one the ISR has copied.

reading == <<pc, i, values, line>>
adc == <<ADC10IFG, converting, adc_dtc_block, sampled>>
buffered == <<adc_dtc_block_temperory, published>>
vars == <<reading, adc, buffered, dtc_channel_count, ADC10IE, isr>>

ADC_CHANNEL_COUNT == 8
Channels == 0 .. ADC_CHANNEL_COUNT - 1
Stopped == ADC_CHANNEL_COUNT
Off == ADC_CHANNEL_COUNT + 1
Unset == 65536  \* No uint16_t.

ZeroVolts == [c \in Channels |-> 0]
NoValues == [c \in Channels |-> Unset]

adc_pin_count == Len(adc_pins)

(* The greatest channel of a pin, where the sequence starts. *)
last_index ==
  CHOOSE c \in Channels :
    /\ \E k \in 1 .. adc_pin_count : adc_pins[k] = c
    /\ \A k \in 1 .. adc_pin_count : adc_pins[k] <= c

(* After power-up. *)
Init ==
  /\ pc = "init" /\ i = 0 /\ values = NoValues /\ line = "LINE_NONE"
  /\ dtc_channel_count = 0
  /\ adc_dtc_block = ZeroVolts /\ adc_dtc_block_temperory = ZeroVolts
  /\ ADC10IE = FALSE /\ ADC10IFG = FALSE
  /\ converting = Stopped
  /\ isr = Off
  /\ sampled = ZeroVolts /\ published = ZeroVolts

-----------------------------------------------------------------------------
(***************************************************************************)
(* The ADC and the transfer controller (hardware).                         *)
(***************************************************************************)

(* The ADC is given a sequence to convert. *)
adc_enable_and_start_conversion == converting' = last_index

(* Channels that no sensor is on give anything; one value stands for it. *)
VoltagesOf(channel) ==
  IF \E s \in Sensors : Channel[s] = channel THEN Voltages ELSE {VOLTAGE_THRESHOLD}

(* The first conversion is stored at index 0.  After the last one the      *)
(* interrupt flag is set, and the ADC waits for the next start.            *)
Convert ==
  /\ converting # Stopped
  /\ \E v \in VoltagesOf(converting) :
       /\ adc_dtc_block' = [adc_dtc_block EXCEPT ![last_index - converting] = v]
       /\ sampled' = [sampled EXCEPT ![converting] = v]
  /\ IF converting = 0
     THEN converting' = Stopped /\ ADC10IFG' = TRUE
     ELSE converting' = converting - 1 /\ UNCHANGED ADC10IFG
  /\ UNCHANGED <<reading, buffered, dtc_channel_count, ADC10IE, isr>>

-----------------------------------------------------------------------------
(***************************************************************************)
(* isr_adc_10.                                                             *)
(***************************************************************************)

(* Mutant: the next sequence is started before the copy. *)
IsrEnterStarting ==
  /\ isr = Off /\ ADC10IE /\ ADC10IFG
  /\ isr' = 0
  /\ ADC10IFG' = FALSE
  /\ adc_enable_and_start_conversion
  /\ UNCHANGED <<reading, buffered, adc_dtc_block, sampled, dtc_channel_count, ADC10IE>>

(* The CPU accepts the interrupt, which clears its flag. *)
IsrEnter ==
  /\ isr = Off /\ ADC10IE /\ ADC10IFG
  /\ isr' = 0
  /\ ADC10IFG' = FALSE
  /\ UNCHANGED <<reading, buffered, converting, adc_dtc_block, sampled, dtc_channel_count,
                 ADC10IE>>

(* Mutant: the block is copied as it is. *)
MirrorForgotten(k) == k

(* Where the block has channel k: it was written from the last one down. *)
Mirror(k) == dtc_channel_count - 1 - k

IsrCopy ==
  /\ isr # Off /\ isr < dtc_channel_count
  /\ adc_dtc_block_temperory' =
       [adc_dtc_block_temperory EXCEPT ![isr] = adc_dtc_block[Mirror(isr)]]
  /\ isr' = isr + 1
  /\ UNCHANGED <<reading, adc, published, dtc_channel_count, ADC10IE>>

(* Mutant: the next sequence is left to somebody else. *)
IsrReturnStopped ==
  /\ isr = dtc_channel_count
  /\ isr' = Off
  /\ published' = sampled
  /\ UNCHANGED <<reading, adc, adc_dtc_block_temperory, dtc_channel_count, ADC10IE>>

(* The end of the loop: the next sequence is started. *)
IsrReturn ==
  /\ isr = dtc_channel_count
  /\ isr' = Off
  /\ published' = sampled
  /\ adc_enable_and_start_conversion
  /\ UNCHANGED <<reading, ADC10IFG, adc_dtc_block, sampled, adc_dtc_block_temperory,
                 dtc_channel_count, ADC10IE>>

-----------------------------------------------------------------------------
(***************************************************************************)
(* Main: line_init once, then line_get.                                    *)
(***************************************************************************)

MainStep(from, to) ==
  /\ isr = Off
  /\ pc = from
  /\ pc' = to

(* Mutant: a count one short of the channels. *)
AdcInitShort ==
  /\ MainStep("init", "idle")
  /\ dtc_channel_count' = last_index
  /\ ADC10IE' = TRUE
  /\ adc_enable_and_start_conversion
  /\ UNCHANGED <<i, values, line, ADC10IFG, adc_dtc_block, sampled, buffered, isr>>

adc_init ==
  /\ MainStep("init", "idle")
  /\ dtc_channel_count' = last_index + 1
  /\ ADC10IE' = TRUE
  /\ adc_enable_and_start_conversion
  /\ UNCHANGED <<i, values, line, ADC10IFG, adc_dtc_block, sampled, buffered, isr>>

(* Mutant: the interrupt stays enabled. *)
LineGetUnmasked ==
  /\ MainStep("idle", "copy")
  /\ i' = 0
  /\ UNCHANGED <<values, line, adc, buffered, dtc_channel_count, ADC10IE, isr>>

(* line_get calls qre1113_get_voltages, which calls                        *)
(* adc_get_channel_values, which disables the interrupt of the ADC.        *)
line_get ==
  /\ MainStep("idle", "copy")
  /\ i' = 0
  /\ ADC10IE' = FALSE
  /\ UNCHANGED <<values, line, adc, buffered, dtc_channel_count, isr>>

(* One round of the loop over the pins. *)
GetChannel ==
  /\ i < adc_pin_count
  /\ MainStep("copy", "copy")
  /\ LET channel_index == adc_pins[i + 1]
     IN  values' = [values EXCEPT ![channel_index] = adc_dtc_block_temperory[channel_index]]
  /\ i' = i + 1
  /\ UNCHANGED <<line, adc, buffered, dtc_channel_count, ADC10IE, isr>>

(* The line of four voltages. *)
LineOf(voltages) ==
  LET front_left  == voltages[Channel["front_left"]] < VOLTAGE_THRESHOLD
      front_right == voltages[Channel["front_right"]] < VOLTAGE_THRESHOLD
      back_left   == voltages[Channel["back_left"]] < VOLTAGE_THRESHOLD
      back_right  == voltages[Channel["back_right"]] < VOLTAGE_THRESHOLD
  IN  CASE front_left /\ front_right -> "LINE_FRONT"
        [] front_left /\ ~front_right /\ back_left -> "LINE_LEFT"
        [] front_left /\ ~front_right /\ ~back_left /\ back_right -> "LINE_DIAGONAL_LEFT"
        [] front_left /\ ~front_right /\ ~back_left /\ ~back_right -> "LINE_FRONT_LEFT"
        [] ~front_left /\ front_right /\ back_right -> "LINE_RIGHT"
        [] ~front_left /\ front_right /\ ~back_right /\ back_left -> "LINE_DIAGONAL_RIGHT"
        [] ~front_left /\ front_right /\ ~back_right /\ ~back_left -> "LINE_FRONT_RIGHT"
        [] ~front_left /\ ~front_right /\ back_left /\ back_right -> "LINE_BACK"
        [] ~front_left /\ ~front_right /\ back_left /\ ~back_right -> "LINE_BACK_LEFT"
        [] ~front_left /\ ~front_right /\ ~back_left /\ back_right -> "LINE_BACK_RIGHT"
        [] OTHER -> "LINE_NONE"

(* Mutant: the interrupt stays disabled. *)
GetReturnMasked ==
  /\ i = adc_pin_count
  /\ MainStep("copy", "idle")
  /\ line' = LineOf(values)
  /\ values' = NoValues
  /\ i' = 0
  /\ UNCHANGED <<adc, buffered, dtc_channel_count, ADC10IE, isr>>

(* The interrupt is enabled again.  The rest of line_get touches nothing   *)
(* but its locals, which are gone when it returns.                         *)
GetReturn ==
  /\ i = adc_pin_count
  /\ MainStep("copy", "idle")
  /\ ADC10IE' = TRUE
  /\ line' = LineOf(values)
  /\ values' = NoValues
  /\ i' = 0
  /\ UNCHANGED <<adc, buffered, dtc_channel_count, isr>>

Main == adc_init \/ GetChannel \/ GetReturn

Next == Convert \/ IsrEnter \/ IsrCopy \/ IsrReturn \/ Main \/ line_get

(* The ADC and both programs go on.  A pending interrupt is accepted at    *)
(* the first instruction that does not disable it, also when main disables *)
(* it again and again.  Nobody has to call line_get.                       *)
Spec ==
  /\ Init /\ [][Next]_vars
  /\ WF_vars(Convert) /\ WF_vars(Main)
  /\ SF_vars(IsrEnter) /\ WF_vars(IsrCopy \/ IsrReturn)

-----------------------------------------------------------------------------
(***************************************************************************)
(* Properties.                                                             *)
(***************************************************************************)

Volts == Voltages \cup {0, VOLTAGE_THRESHOLD}

TypeOK ==
  /\ pc \in {"init", "idle", "copy"}
  /\ i \in 0 .. adc_pin_count
  /\ values \in [Channels -> Volts \cup {Unset}]
  /\ dtc_channel_count \in {0, last_index + 1}
  /\ {adc_dtc_block, adc_dtc_block_temperory, sampled, published}
       \subseteq [Channels -> Volts]
  /\ ADC10IE \in BOOLEAN /\ ADC10IFG \in BOOLEAN
  /\ converting \in Channels \cup {Stopped}
  /\ isr \in Channels \cup {dtc_channel_count, Off}

(* The transfer controller never writes adc_dtc_block while isr_adc_10     *)
(* reads it, although nothing but the place of one statement keeps the ADC *)
(* from converting during the ISR.                                         *)
BlockAtRest == isr # Off => converting = Stopped

(* The ISR alone starts the next sequence, so a sequence whose interrupt   *)
(* is dropped is the last one ever: whatever main masks, the ADC converts, *)
(* or its interrupt is pending, or the ISR runs.                           *)
NeverStalled == pc # "init" => converting # Stopped \/ ADC10IFG \/ isr # Off

(* The ADC is started again after every sequence, also when main reads the *)
(* sensors in a tight loop.                                                *)
SamplingGoesOn == converting = Stopped ~> converting # Stopped

(* line_get is an atomic read of the latest sequence the ISR has copied:   *)
(* of each sensor the right channel, of all sensors the same sequence, and *)
(* a line as voltage_to_line.h describes it.                               *)
Line == INSTANCE LineSensor WITH
          white <- {s \in Sensors : published[Channel[s]] < VOLTAGE_THRESHOLD}
LineSpec == Line!Spec

-----------------------------------------------------------------------------
(***************************************************************************)
(* The inductive invariant of the proofs.                                  *)
(***************************************************************************)

(* Who may do what, when: before adc_init nothing runs, main copies with   *)
(* the interrupt off, and an interrupt is pending only while the ADC rests. *)
ControlInv ==
  /\ pc = "init" =>
       /\ dtc_channel_count = 0 /\ isr = Off /\ converting = Stopped /\ ~ADC10IFG
  /\ pc # "init" => dtc_channel_count = last_index + 1
  /\ ADC10IE <=> pc = "idle"
  /\ pc # "copy" => i = 0
  /\ isr # Off => pc = "idle" /\ isr <= dtc_channel_count
  /\ converting # Stopped => converting <= last_index
  /\ ADC10IFG => converting = Stopped /\ isr = Off

(* The block has what was sampled of the channels converted so far. *)
BlockInv ==
  pc # "init" =>
    \A c \in 0 .. last_index :
      converting = Stopped \/ converting < c => adc_dtc_block[last_index - c] = sampled[c]

(* The copy has the latest sequence as far as the ISR has come, and the    *)
(* one before it is not needed any more.                                   *)
CopyInv ==
  \A c \in 0 .. last_index :
    /\ isr # Off /\ c < isr => adc_dtc_block_temperory[c] = sampled[c]
    /\ isr = Off => adc_dtc_block_temperory[c] = published[c]

(* So far main has values of one sequence. *)
ReadInv ==
  pc = "copy" => \A k \in 1 .. i : values[adc_pins[k]] = published[adc_pins[k]]

(* Control and data together: what holds between any two steps of the      *)
(* hardware, the ISR and main.                                             *)
IInv ==
  /\ TypeOK /\ BlockAtRest /\ NeverStalled
  /\ ControlInv /\ BlockInv /\ CopyInv /\ ReadInv
=============================================================================
