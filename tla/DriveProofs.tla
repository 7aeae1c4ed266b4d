---------------------------- MODULE DriveProofs ----------------------------
(***************************************************************************)
(* The properties of the drive layer, proved from an invariant that        *)
(* follows a command call by call: what is still to be called, and what    *)
(* the pins and the PWM owe to the calls that have returned.               *)
(***************************************************************************)
EXTENDS Drive, SequenceTheorems, TLAPS

USE DEF driveVars, pinVars, pwmVars, registers

-----------------------------------------------------------------------------
(***************************************************************************)
(* The inductive invariant.                                                *)
(***************************************************************************)

Modes == {MOTOR_DRIVER_MODE_STOP, MOTOR_DRIVER_MODE_FORWARD, MOTOR_DRIVER_MODE_REVERSE}

From(calls, n) == SubSeq(calls, n, Len(calls))

(* The calls of motor_driver_init, and those of pwm_init, its last one. *)
DriverInitCalls ==
  io_configure(CC1, cc_io_config) \o io_configure(CC2, cc_io_config)
    \o <<Call("pwm_init", LEFT, ON)>>
PwmInitCalls == io_configure(PWM_PIN, pwm_io_config) \o <<Call("timer_a1", LEFT, OFF)>>

(* The pins when so many of these calls have returned. *)
DriverPins(returned) ==
  /\ returned >= 1 => select[CC1] = IO_SELECT_GPIO
  /\ returned >= 2 => CC1 \in outputs
  /\ returned >= 3 => P2OUT[CC1] = LOW
  /\ returned >= 5 => select[CC2] = IO_SELECT_GPIO
  /\ returned >= 6 <=> CC2 \in outputs
  /\ returned >= 7 => P2OUT[CC2] = LOW
PwmPin(returned) ==
  /\ returned >= 1 => select[PWM_PIN] = IO_SELECT_ALT1
  /\ returned >= 2 => PWM_PIN \in outputs

(* In drive_init, and after it up to the first command. *)
Configuring ==
  \/ todo = <<Call("motor_driver_init", LEFT, ON)>> /\ DriverPins(0)
  \/ \E n \in 1 .. 9 : todo = From(DriverInitCalls, n) /\ DriverPins(n - 1)
  \/ \E n \in 1 .. 6 : todo = From(PwmInitCalls, n) /\ DriverPins(8) /\ PwmPin(n - 1)
StartUp == ~repeated /\ enabled[LEFT] = OFF /\ Configuring

(* The calls of a command. *)
ModeCall(motor, wheel) == Call("motor_driver_set_mode", motor, CommandedMode(wheel))
FirstLevelCall(wheel) == Call("io_set_out", CC1, Levels(CommandedMode(wheel))[1])
SecondLevelCall(wheel) == Call("io_set_out", CC2, Levels(CommandedMode(wheel))[2])
DutyCall(pwm, wheel) == Call("pwm_set_duty_cycle", pwm, Abs(Commanded[wheel]))

(* The calls that are left of a command part of which is done. *)
Duties == <<DutyCall(LEFT, 1), DutyCall(RIGHT, 2)>>
RightDuty == <<DutyCall(RIGHT, 2)>>
RightWheelToo == <<ModeCall(RIGHT, 2), DutyCall(LEFT, 1), DutyCall(RIGHT, 2)>>

(* What the command wants of the left channel. *)
Enable == IF Abs(Commanded[1]) > 0 THEN ON ELSE OFF
DutyWritten == Enable = ON => CCR[LEFT] = CommandedPower
Powered == enabled[LEFT] = Enable /\ DutyWritten

SomeMode == \E mode \in Modes : InMode(mode)

(* A command sets the mode of the left wheel, then that of the right one ... *)
SettingModes ==
  \/ /\ todo = <<ModeCall(LEFT, 1), ModeCall(RIGHT, 2), DutyCall(LEFT, 1), DutyCall(RIGHT, 2)>>
     /\ SomeMode
  \/ /\ todo = <<FirstLevelCall(1), SecondLevelCall(1)>> \o RightWheelToo
     /\ SomeMode
  \/ /\ todo = <<SecondLevelCall(1)>> \o RightWheelToo
     /\ P2OUT[CC1] = Levels(CommandedMode(1))[1]
  \/ /\ todo = RightWheelToo
     /\ InMode(CommandedMode(1))
  \/ /\ todo = <<FirstLevelCall(2), SecondLevelCall(2)>> \o Duties
     /\ InMode(CommandedMode(1))
  \/ /\ todo = <<SecondLevelCall(2)>> \o Duties
     /\ P2OUT[CC1] = Levels(CommandedMode(2))[1]

(* ... whose mode holds when the duty cycle is set. *)
SettingDuties ==
  /\ InMode(CommandedMode(2))
  /\ \/ todo = Duties
     \/ /\ todo = <<Call("pwm_channel_enable", LEFT, Enable)>> \o RightDuty
        /\ DutyWritten
     \/ /\ todo = <<Call("pwm_timer_enable", LEFT, Enable)>> \o RightDuty
        /\ Powered /\ ~repeated
     \/ todo = RightDuty /\ Powered
     \/ todo = <<>> /\ Powered

(* A command given twice finds the motor as it wants it. *)
RepeatInv == repeated => Powered /\ (Straight => InMode(CommandedMode(1)))

DuringCommand ==
  /\ Driven(CC1) /\ Driven(CC2) /\ DrivenByTimer(PWM_PIN)
  /\ SettingModes \/ SettingDuties
  /\ RepeatInv

(* The outputs follow `enabled`.  The right channel is never used, and the *)
(* timer counts as soon as pwm_timer_enable has returned.                  *)
ChannelInv ==
  /\ \A pwm \in Channels :
       CCTL[pwm] = IF enabled[pwm] = ON THEN OUTMOD_7 ELSE OUTMOD_0
  /\ enabled[RIGHT] = OFF
  /\ enabled[LEFT] = ON => /\ CCR[LEFT] \in 1 .. 75
                           /\ MC = MC_1 \/ Running("pwm_timer_enable")

IInv ==
  /\ TypeOK
  /\ ChannelInv
  /\ command = NoCommand => StartUp
  /\ command # NoCommand => DuringCommand

-----------------------------------------------------------------------------
(***************************************************************************)
(* Facts of the tables and of the calls to come.                           *)
(***************************************************************************)

WheelSpeed == {0} \cup (10 .. 100) \cup {-n : n \in 10 .. 100}

(* The table, and the scaling of pwm.c. *)
LEMMA RowFacts ==
  ASSUME NEW primary \in {0, 2, 4, 6, 8}, NEW speed \in Speeds
  PROVE  LET speeds == drive_primary_direction_and_their_speeds(primary)[speed]
         IN  /\ speeds = <<speeds[1], speeds[2]>>
             /\ speeds[1] \in WheelSpeed /\ speeds[2] \in WheelSpeed
<1> USE DEF drive_primary_direction_and_their_speeds, Row, Speeds, SLOW, MEDIUM, FAST, MAX,
            WheelSpeed, DRIVE_DIRECTION_FORWARD, DRIVE_DIRECTION_ROTATE_LEFT,
            DRIVE_DIRECTION_ARCTURN_SHARP_LEFT, DRIVE_DIRECTION_ARCTURN_MID_LEFT,
            DRIVE_DIRECTION_ARCTURN_WIDE_LEFT
<1>1. CASE primary = 0
  BY <1>1
<1>2. CASE primary = 2
  BY <1>2
<1>3. CASE primary = 4
  BY <1>3
<1>4. CASE primary = 6
  BY <1>4
<1>5. CASE primary = 8
  BY <1>5
<1> QED
  BY <1>1, <1>2, <1>3, <1>4, <1>5

(* Whatever the command, a wheel stands, or turns at a tenth of the full   *)
(* speed or more.                                                          *)
LEMMA WheelSpeedsType ==
  ASSUME NEW direction \in Directions, NEW speed \in Speeds
  PROVE  /\ WheelSpeeds(direction, speed)[1] \in WheelSpeed
         /\ WheelSpeeds(direction, speed)[2] \in WheelSpeed
<1> DEFINE primary == direction - (direction % 2)
           speeds  == drive_primary_direction_and_their_speeds(primary)[speed]
<1>1. primary \in {0, 2, 4, 6, 8}
  BY DEF Directions
<1> HIDE DEF primary
<1>2. speeds = <<speeds[1], speeds[2]>> /\ speeds[1] \in WheelSpeed /\ speeds[2] \in WheelSpeed
  BY <1>1, RowFacts
<1> HIDE DEF speeds
<1>3. /\ drive_inverse_speeds(speeds)[1] \in WheelSpeed
      /\ drive_inverse_speeds(speeds)[2] \in WheelSpeed
  BY <1>2 DEF drive_inverse_speeds, WheelSpeed
<1>4. WheelSpeeds(direction, speed) \in {speeds, drive_inverse_speeds(speeds)}
  BY DEF WheelSpeeds, primary, speeds
<1> QED
  BY <1>2, <1>3, <1>4

LEMMA ScaleFacts ==
  ASSUME NEW percent \in 0 .. 100
  PROVE  /\ percent = 0 => pwm_scale_duty_cycle(percent) = 0
         /\ percent >= 10 => pwm_scale_duty_cycle(percent) \in 1 .. 75
BY DEF pwm_scale_duty_cycle

(* The modes and the duty cycles of a command. *)
LEMMA CommandFacts ==
  ASSUME TypeOK, NEW wheel \in {1, 2}
  PROVE  /\ CommandedMode(wheel) \in Modes
         /\ Abs(Commanded[wheel]) \in {0} \cup (10 .. 100)
         /\ Abs(Commanded[1]) > 0 => CommandedPower \in 1 .. 75
         /\ Abs(Commanded[1]) = 0 => CommandedPower = 0
         /\ command = NoCommand => /\ CommandedMode(wheel) = MOTOR_DRIVER_MODE_STOP
                                   /\ CommandedPower = 0
<1>1. Commanded[1] \in WheelSpeed /\ Commanded[2] \in WheelSpeed
  <2>1. CASE command[1] = "set"
    <3>1. command[2] \in Directions /\ command[3] \in Speeds
      BY <2>1 DEF TypeOK, NoCommand, StopCommand
    <3> QED
      BY <2>1, <3>1, WheelSpeedsType DEF Commanded
  <2>2. CASE command[1] # "set"
    BY <2>2 DEF Commanded, WheelSpeed
  <2> QED
    BY <2>1, <2>2
<1>2. /\ Abs(Commanded[1]) \in {0} \cup (10 .. 100)
      /\ Abs(Commanded[2]) \in {0} \cup (10 .. 100)
  BY <1>1 DEF WheelSpeed, Abs
<1>3. CommandedMode(wheel) \in Modes
  BY DEF CommandedMode, ModeOf, Modes
<1>4. /\ Abs(Commanded[1]) > 0 => CommandedPower \in 1 .. 75
      /\ Abs(Commanded[1]) = 0 => CommandedPower = 0
  BY <1>2, ScaleFacts DEF CommandedPower
<1>5. command = NoCommand => /\ CommandedMode(wheel) = MOTOR_DRIVER_MODE_STOP
                             /\ Abs(Commanded[1]) = 0
  BY DEF NoCommand, CommandedMode, Commanded, Abs
<1> QED
  BY <1>2, <1>3, <1>4, <1>5

(* The calls of a command do not depend on anything else. *)
LEMMA SameCommand ==
  ASSUME command' = command
  PROVE  /\ \A wheel : /\ CommandedMode(wheel)' = CommandedMode(wheel)
                       /\ Commanded[wheel]' = Commanded[wheel]
                       /\ FirstLevelCall(wheel)' = FirstLevelCall(wheel)
                       /\ SecondLevelCall(wheel)' = SecondLevelCall(wheel)
         /\ \A on, wheel : /\ ModeCall(on, wheel)' = ModeCall(on, wheel)
                           /\ DutyCall(on, wheel)' = DutyCall(on, wheel)
         /\ Duties' = Duties /\ RightDuty' = RightDuty /\ RightWheelToo' = RightWheelToo
         /\ Enable' = Enable /\ CommandedPower' = CommandedPower
         /\ Straight' = Straight
BY DEF Commanded, CommandedMode, FirstLevelCall, SecondLevelCall, ModeCall, DutyCall, Duties,
       RightDuty, RightWheelToo, Enable, CommandedPower, Straight

(* What is left of a sequence of calls. *)
LEMMA FromFacts ==
  ASSUME NEW S, NEW calls \in Seq(S), NEW n \in 1 .. Len(calls)
  PROVE  /\ From(calls, n) # <<>>
         /\ Head(From(calls, n)) = calls[n]
         /\ Tail(From(calls, n)) = From(calls, n + 1)
         /\ From(calls, n) \in Seq(S)
<1>1. Len(calls) \in Nat /\ \A i \in 1 .. Len(calls) : calls[i] \in S
  BY LenProperties
<1>2. From(calls, n) \in Seq(S) /\ Len(From(calls, n)) = Len(calls) - n + 1
  BY <1>1, SubSeqProperties DEF From
<1>3. Len(calls) \in n .. Len(calls)
  BY <1>1
<1>4. Head(From(calls, n)) = calls[n] /\ Tail(From(calls, n)) = From(calls, n + 1)
  BY <1>3, HeadTailOfSubSeq DEF From
<1>5. From(calls, n) # <<>>
  BY <1>1, <1>2, EmptySeq
<1> QED
  BY <1>2, <1>4, <1>5

(* The next call in line is the only one that can be carried out. *)
LEMMA Dispatch ==
  ASSUME Next, todo # <<>>
  PROVE  /\ UNCHANGED <<command, repeated>>
         /\ \/ motor_driver_init
            \/ motor_driver_set_mode
            \/ PinStep /\ UNCHANGED pwmVars
            \/ PwmStep /\ UNCHANGED pinVars
BY DEF Next, drive_set_direction_and_speed, drive_stop, Command, Idle, motor_driver_init,
       motor_driver_set_mode

(* Sequences of calls, joined. *)
LEMMA Joined ==
  ASSUME NEW S, NEW s \in Seq(S), NEW t \in Seq(S), NEW u, u = s \o t
  PROVE  /\ u \in Seq(S) /\ Len(u) = Len(s) + Len(t)
         /\ \A i \in 1 .. Len(s) : u[i] = s[i]
         /\ \A i \in 1 .. Len(t) : u[Len(s) + i] = t[i]
<1>1. Len(s) \in Nat /\ Len(t) \in Nat
  BY LenProperties
<1>2. /\ u \in Seq(S) /\ Len(u) = Len(s) + Len(t)
      /\ \A i \in 1 .. Len(s) + Len(t) : u[i] = IF i <= Len(s) THEN s[i] ELSE t[i - Len(s)]
  BY ConcatProperties
<1>3. ASSUME NEW i \in 1 .. Len(s) PROVE u[i] = s[i]
  BY <1>1, <1>2
<1>4. ASSUME NEW i \in 1 .. Len(t) PROVE u[Len(s) + i] = t[i]
  <2>1. /\ Len(s) + i \in 1 .. Len(s) + Len(t) /\ ~(Len(s) + i <= Len(s))
        /\ (Len(s) + i) - Len(s) = i
    BY <1>1
  <2> QED
    BY <1>2, <2>1
<1> QED
  BY <1>2, <1>3, <1>4

LEMMA FirstOfOne ==
  ASSUME NEW S, NEW a \in S, NEW s \in Seq(S)
  PROVE  /\ <<a>> \o s \in Seq(S) /\ <<a>> \o s # <<>>
         /\ Head(<<a>> \o s) = a /\ Tail(<<a>> \o s) = s
<1>1. <<a>> \in Seq(S) /\ Len(<<a>>) = 1 /\ Len(s) \in Nat
  BY LenProperties
<1>2. /\ <<a>> \o s \in Seq(S) /\ Len(<<a>> \o s) = 1 + Len(s)
      /\ \A i \in 1 .. 1 + Len(s) : (<<a>> \o s)[i] = IF i <= 1 THEN <<a>>[i] ELSE s[i - 1]
  BY <1>1, ConcatProperties
<1> DEFINE t == <<a>> \o s
<1> HIDE DEF t
<1>3. /\ t \in Seq(S) /\ Len(t) = 1 + Len(s) /\ t[1] = a
      /\ \A i \in 1 .. Len(s) : t[i + 1] = s[i]
  BY <1>1, <1>2 DEF t
<1>4. t # <<>> /\ Head(t) = a /\ Tail(t) \in Seq(S) /\ Len(Tail(t)) = Len(s)
  BY <1>1, <1>3, HeadTailProperties, EmptySeq
<1>5. \A i \in 1 .. Len(s) : Tail(t)[i] = s[i]
  BY <1>1, <1>3, <1>4, HeadTailProperties
<1> QED
  BY <1>3, <1>4, <1>5, SeqEqual DEF t

LEMMA FirstOfTwo ==
  ASSUME NEW S, NEW a \in S, NEW b \in S, NEW s \in Seq(S)
  PROVE  /\ <<a, b>> \o s \in Seq(S) /\ <<a, b>> \o s # <<>>
         /\ Head(<<a, b>> \o s) = a /\ Tail(<<a, b>> \o s) = <<b>> \o s
<1>1. /\ <<a, b>> \in Seq(S) /\ <<b>> \in Seq(S) /\ Len(<<a, b>>) = 2 /\ Len(<<b>>) = 1
      /\ Len(s) \in Nat
  BY LenProperties
<1>2. /\ <<a, b>> \o s \in Seq(S) /\ Len(<<a, b>> \o s) = 2 + Len(s)
      /\ \A i \in 1 .. 2 + Len(s) :
           (<<a, b>> \o s)[i] = IF i <= 2 THEN <<a, b>>[i] ELSE s[i - 2]
  BY <1>1, ConcatProperties
<1> QED
  BY <1>1, <1>2

LEMMA PopCall ==
  ASSUME todo \in Seq(Calls), todo # <<>>, Then(<<>>)
  PROVE  todo' = Tail(todo) /\ todo' \in Seq(Calls)
BY HeadTailProperties, ConcatEmptySeq DEF Then

(* What motor_driver_set_mode and io_set_out do when they are next. *)
LEMMA ModeStep ==
  ASSUME Next, todo # <<>>, NEW motor, NEW wheel \in {1, 2},
         Head(todo) = ModeCall(motor, wheel)
  PROVE  /\ todo' = <<FirstLevelCall(wheel), SecondLevelCall(wheel)>> \o Tail(todo)
         /\ UNCHANGED <<pinVars, pwmVars, command, repeated>>
<1>1. Head(todo).call = "motor_driver_set_mode" /\ Head(todo).arg = CommandedMode(wheel)
  BY DEF ModeCall, Call
<1>2. motor_driver_set_mode
  BY <1>1, Dispatch
  DEF motor_driver_init, PinStep, PwmStep, io_set_select, io_set_direction, io_set_out,
      io_set_resistor, pwm_init, PwmInitTimer, pwm_set_duty_cycle, pwm_channel_enable,
      pwm_timer_enable, Running
<1> QED
  BY <1>1, <1>2 DEF motor_driver_set_mode, Then, FirstLevelCall, SecondLevelCall

LEMMA LevelStep ==
  ASSUME IInv, Next, todo # <<>>, NEW pin \in {CC1, CC2}, NEW level,
         Head(todo) = Call("io_set_out", pin, level)
  PROVE  /\ todo' = Tail(todo) /\ todo' \in Seq(Calls)
         /\ P2OUT' = [P2OUT EXCEPT ![pin] = level]
         /\ UNCHANGED <<select, outputs, resistors, pwmVars, command, repeated>>
<1>1. Head(todo).call = "io_set_out" /\ Head(todo).on = pin /\ Head(todo).arg = level
  BY DEF Call
<1>2. io_set_out /\ UNCHANGED <<pwmVars, command, repeated>>
  BY <1>1, Dispatch
  DEF motor_driver_init, motor_driver_set_mode, PinStep, PwmStep, io_set_select,
      io_set_direction, io_set_resistor, pwm_init, PwmInitTimer, pwm_set_duty_cycle,
      pwm_channel_enable, pwm_timer_enable, Running
<1> QED
  BY <1>1, <1>2, PopCall DEF io_set_out, IInv, TypeOK

-----------------------------------------------------------------------------
(***************************************************************************)
(* The steps.                                                              *)
(***************************************************************************)

(* What the action properties allow of a step. *)
Allowed ==
  /\ CCTL[LEFT] = OUTMOD_0 /\ CCTL'[LEFT] = OUTMOD_7 => CCR[LEFT] = CommandedPower
  /\ Power' > Power => InMode(CommandedMode(2))
  /\ repeated /\ Straight => UNCHANGED <<registers, P2OUT>>

LEMMA PowerType == TypeOK => Power \in Int
<1>1. TypeOK => CCR \in [Channels -> 0 .. 99]
  BY DEF TypeOK, PwmTypeOK
<1>2. CCR \in [Channels -> 0 .. 99] => CCR[LEFT] \in Int
  BY DEF Channels
<1>3. Power \in {CCR[LEFT], 0}
  BY Zenon DEF Power
<1> QED
  BY <1>1, <1>2, <1>3

(* A step that carries out a call of a command, and leaves the power alone. *)
LEMMA PowerLeftAlone ==
  ASSUME IInv, command # NoCommand, ~Running("pwm_timer_enable"),
         UNCHANGED <<select, outputs, resistors, pwmVars, command, repeated>>,
         P2OUT' \in [Pins -> {LOW, HIGH}], repeated /\ Straight => P2OUT' = P2OUT,
         todo' \in Seq(Calls), (SettingModes \/ SettingDuties)'
  PROVE  IInv' /\ Allowed
<1>1. TypeOK'
  BY DEF IInv, TypeOK, PinsTypeOK, PwmTypeOK
<1>2. ChannelInv'
  BY DEF IInv, ChannelInv
<1>3. RepeatInv'
  <2>1. ASSUME repeated, Straight, InMode(CommandedMode(1))
        PROVE  InMode(CommandedMode(1))'
    BY <2>1, SameCommand DEF InMode, Levelled, Driven
  <2>2. Powered => Powered'
    BY SameCommand DEF Powered, DutyWritten
  <2> QED
    BY <2>1, <2>2, SameCommand DEF IInv, DuringCommand, RepeatInv
<1>4. DuringCommand'
  BY <1>3 DEF IInv, DuringCommand, Driven, DrivenByTimer
<1>5. Power' = Power
  BY DEF Power, DrivenByTimer
<1>6. Power \in Int
  BY PowerType DEF IInv
<1>7. Allowed
  BY <1>5, <1>6 DEF Allowed, OUTMOD_0, OUTMOD_7
<1> QED
  BY <1>1, <1>2, <1>4, <1>7 DEF IInv

(* The calls of a command are calls. *)
LEMMA CallTypes ==
  ASSUME TypeOK
  PROVE  /\ \A w \in {1, 2} : /\ {FirstLevelCall(w), SecondLevelCall(w)} \subseteq Calls
                              /\ Levels(CommandedMode(w))[1] \in {LOW, HIGH}
                              /\ Levels(CommandedMode(w))[2] \in {LOW, HIGH}
                              /\ \A on \in Channels :
                                   {ModeCall(on, w), DutyCall(on, w)} \subseteq Calls
         /\ Duties \in Seq(Calls) /\ RightDuty \in Seq(Calls)
         /\ RightWheelToo \in Seq(Calls)
<1>1. ASSUME NEW w \in {1, 2}
      PROVE  /\ Levels(CommandedMode(w))[1] \in {LOW, HIGH}
             /\ Levels(CommandedMode(w))[2] \in {LOW, HIGH}
  BY CommandFacts
  DEF Modes, Levels, MOTOR_DRIVER_MODE_STOP, MOTOR_DRIVER_MODE_FORWARD,
      MOTOR_DRIVER_MODE_REVERSE
<1>2. ASSUME NEW w \in {1, 2}
      PROVE  {FirstLevelCall(w), SecondLevelCall(w)} \subseteq Calls
  BY <1>1 DEF FirstLevelCall, SecondLevelCall, Call, Calls, Callees, Pins, LOW, HIGH
<1>3. ASSUME NEW w \in {1, 2}, NEW on \in Channels
      PROVE  {ModeCall(on, w), DutyCall(on, w)} \subseteq Calls
  BY CommandFacts
  DEF ModeCall, DutyCall, Call, Calls, Callees, Channels, Modes, MOTOR_DRIVER_MODE_STOP,
      MOTOR_DRIVER_MODE_FORWARD, MOTOR_DRIVER_MODE_REVERSE
<1>4. Duties \in Seq(Calls) /\ RightDuty \in Seq(Calls) /\ RightWheelToo \in Seq(Calls)
  <2>1. {ModeCall(RIGHT, 2), DutyCall(LEFT, 1), DutyCall(RIGHT, 2)} \subseteq Calls
    BY <1>3 DEF Channels
  <2> QED
    BY <2>1 DEF Duties, RightDuty, RightWheelToo
<1> QED
  BY <1>1, <1>2, <1>3, <1>4

(* The pins get the levels of both modes, one after the other. *)
LEMMA SettingModesStep ==
  ASSUME IInv, Next, command # NoCommand, SettingModes
  PROVE  IInv' /\ Allowed
<1>1. /\ TypeOK /\ Driven(CC1) /\ Driven(CC2) /\ RepeatInv
      /\ todo \in Seq(Calls) /\ P2OUT \in [Pins -> {LOW, HIGH}]
  BY DEF IInv, DuringCommand, TypeOK, PinsTypeOK
<1>2. /\ \A w \in {1, 2} : /\ FirstLevelCall(w) \in Calls /\ SecondLevelCall(w) \in Calls
                           /\ Levels(CommandedMode(w))[1] \in {LOW, HIGH}
                           /\ Levels(CommandedMode(w))[2] \in {LOW, HIGH}
      /\ Duties \in Seq(Calls) /\ RightWheelToo \in Seq(Calls)
  BY <1>1, CallTypes
<1>3. CASE /\ todo = <<ModeCall(LEFT, 1), ModeCall(RIGHT, 2),
                     DutyCall(LEFT, 1), DutyCall(RIGHT, 2)>>
           /\ SomeMode
  <2>1. todo # <<>> /\ Head(todo) = ModeCall(LEFT, 1) /\ Tail(todo) = RightWheelToo
    BY <1>3 DEF RightWheelToo, Duties
  <2>2. /\ todo' = <<FirstLevelCall(1), SecondLevelCall(1)>> \o RightWheelToo
        /\ UNCHANGED <<pinVars, pwmVars, command, repeated>>
    BY <2>1, ModeStep
  <2>3. SomeMode'
    BY <1>3, <2>2, SameCommand DEF SomeMode, InMode, Levelled, Driven
  <2>4. SettingModes'
    BY <2>2, <2>3, SameCommand DEF SettingModes
  <2>5. todo' \in Seq(Calls)
    BY <1>2, <2>2, FirstOfTwo
  <2>6. ~Running("pwm_timer_enable")
    BY <2>1 DEF Running, ModeCall, Call
  <2> QED
    BY <1>1, <2>2, <2>4, <2>5, <2>6, PowerLeftAlone
<1>4. CASE todo = <<FirstLevelCall(1), SecondLevelCall(1)>> \o RightWheelToo /\ SomeMode
  <2>1. /\ todo # <<>> /\ Head(todo) = FirstLevelCall(1)
        /\ Tail(todo) = <<SecondLevelCall(1)>> \o RightWheelToo
    BY <1>2, <1>4, FirstOfTwo
  <2>2. /\ todo' = <<SecondLevelCall(1)>> \o RightWheelToo /\ todo' \in Seq(Calls)
        /\ P2OUT' = [P2OUT EXCEPT ![CC1] = Levels(CommandedMode(1))[1]]
        /\ UNCHANGED <<select, outputs, resistors, pwmVars, command, repeated>>
    BY <2>1, LevelStep DEF FirstLevelCall
  <2>3. P2OUT'[CC1] = Levels(CommandedMode(1))[1] /\ P2OUT' \in [Pins -> {LOW, HIGH}]
    BY <1>1, <1>2, <2>2 DEF Pins
  <2>4. SettingModes'
    BY <2>2, <2>3, SameCommand DEF SettingModes
  <2>5. repeated /\ Straight => P2OUT' = P2OUT
    BY <1>1, <2>2 DEF RepeatInv, Straight, InMode, Levelled
  <2>6. ~Running("pwm_timer_enable")
    BY <2>1 DEF Running, FirstLevelCall, Call
  <2> QED
    BY <2>2, <2>3, <2>4, <2>5, <2>6, PowerLeftAlone
<1>5. CASE /\ todo = <<SecondLevelCall(1)>> \o RightWheelToo
           /\ P2OUT[CC1] = Levels(CommandedMode(1))[1]
  <2>1. todo # <<>> /\ Head(todo) = SecondLevelCall(1) /\ Tail(todo) = RightWheelToo
    BY <1>2, <1>5, FirstOfOne
  <2>2. /\ todo' = RightWheelToo /\ todo' \in Seq(Calls)
        /\ P2OUT' = [P2OUT EXCEPT ![CC2] = Levels(CommandedMode(1))[2]]
        /\ UNCHANGED <<select, outputs, resistors, pwmVars, command, repeated>>
    BY <2>1, LevelStep DEF SecondLevelCall
  <2>3. P2OUT' \in [Pins -> {LOW, HIGH}] /\ P2OUT'[CC1] = P2OUT[CC1]
        /\ P2OUT'[CC2] = Levels(CommandedMode(1))[2]
    BY <1>1, <1>2, <2>2 DEF Pins, CC1, CC2
  <2>4. InMode(CommandedMode(1))'
    BY <1>1, <1>5, <2>2, <2>3, SameCommand DEF InMode, Levelled, Driven
  <2>5. SettingModes'
    BY <2>2, <2>4, SameCommand DEF SettingModes
  <2>6. repeated /\ Straight => P2OUT' = P2OUT
    BY <1>1, <2>2 DEF RepeatInv, Straight, InMode, Levelled
  <2>7. ~Running("pwm_timer_enable")
    BY <2>1 DEF Running, SecondLevelCall, Call
  <2> QED
    BY <2>2, <2>3, <2>5, <2>6, <2>7, PowerLeftAlone
<1>6. CASE todo = RightWheelToo /\ InMode(CommandedMode(1))
  <2>1. todo # <<>> /\ Head(todo) = ModeCall(RIGHT, 2) /\ Tail(todo) = Duties
    BY <1>6 DEF RightWheelToo, Duties
  <2>2. /\ todo' = <<FirstLevelCall(2), SecondLevelCall(2)>> \o Duties
        /\ UNCHANGED <<pinVars, pwmVars, command, repeated>>
    BY <2>1, ModeStep
  <2>3. InMode(CommandedMode(1))'
    BY <1>6, <2>2, SameCommand DEF SomeMode, InMode, Levelled, Driven
  <2>4. SettingModes'
    BY <2>2, <2>3, SameCommand DEF SettingModes
  <2>5. todo' \in Seq(Calls)
    BY <1>2, <2>2, FirstOfTwo
  <2>6. ~Running("pwm_timer_enable")
    BY <2>1 DEF Running, ModeCall, Call
  <2> QED
    BY <1>1, <2>2, <2>4, <2>5, <2>6, PowerLeftAlone
<1>7. CASE /\ todo = <<FirstLevelCall(2), SecondLevelCall(2)>> \o Duties
           /\ InMode(CommandedMode(1))
  <2>1. /\ todo # <<>> /\ Head(todo) = FirstLevelCall(2)
        /\ Tail(todo) = <<SecondLevelCall(2)>> \o Duties
    BY <1>2, <1>7, FirstOfTwo
  <2>2. /\ todo' = <<SecondLevelCall(2)>> \o Duties /\ todo' \in Seq(Calls)
        /\ P2OUT' = [P2OUT EXCEPT ![CC1] = Levels(CommandedMode(2))[1]]
        /\ UNCHANGED <<select, outputs, resistors, pwmVars, command, repeated>>
    BY <2>1, LevelStep DEF FirstLevelCall
  <2>3. P2OUT'[CC1] = Levels(CommandedMode(2))[1] /\ P2OUT' \in [Pins -> {LOW, HIGH}]
    BY <1>1, <1>2, <2>2 DEF Pins
  <2>4. SettingModes'
    BY <2>2, <2>3, SameCommand DEF SettingModes
  <2>5. repeated /\ Straight => P2OUT' = P2OUT
    BY <1>1, <2>2 DEF RepeatInv, Straight, InMode, Levelled
  <2>6. ~Running("pwm_timer_enable")
    BY <2>1 DEF Running, FirstLevelCall, Call
  <2> QED
    BY <2>2, <2>3, <2>4, <2>5, <2>6, PowerLeftAlone
<1>8. CASE /\ todo = <<SecondLevelCall(2)>> \o Duties
           /\ P2OUT[CC1] = Levels(CommandedMode(2))[1]
  <2>1. todo # <<>> /\ Head(todo) = SecondLevelCall(2) /\ Tail(todo) = Duties
    BY <1>2, <1>8, FirstOfOne
  <2>2. /\ todo' = Duties /\ todo' \in Seq(Calls)
        /\ P2OUT' = [P2OUT EXCEPT ![CC2] = Levels(CommandedMode(2))[2]]
        /\ UNCHANGED <<select, outputs, resistors, pwmVars, command, repeated>>
    BY <2>1, LevelStep DEF SecondLevelCall
  <2>3. P2OUT' \in [Pins -> {LOW, HIGH}] /\ P2OUT'[CC1] = P2OUT[CC1]
        /\ P2OUT'[CC2] = Levels(CommandedMode(2))[2]
    BY <1>1, <1>2, <2>2 DEF Pins, CC1, CC2
  <2>4. InMode(CommandedMode(2))'
    BY <1>1, <1>8, <2>2, <2>3, SameCommand DEF InMode, Levelled, Driven
  <2>5. SettingDuties'
    BY <2>2, <2>4, SameCommand DEF SettingDuties
  <2>6. repeated /\ Straight => P2OUT' = P2OUT
    BY <1>1, <2>2 DEF RepeatInv, Straight, InMode, Levelled
  <2>7. ~Running("pwm_timer_enable")
    BY <2>1 DEF Running, SecondLevelCall, Call
  <2> QED
    BY <2>2, <2>3, <2>5, <2>6, <2>7, PowerLeftAlone
<1> QED
  BY <1>3, <1>4, <1>5, <1>6, <1>7, <1>8 DEF SettingModes
(* A step of a command that leaves the pins alone, which stand in its mode. *)
LEMMA PinsLeftAlone ==
  ASSUME IInv, command # NoCommand, InMode(CommandedMode(2)),
         UNCHANGED <<pinVars, command, repeated>>,
         PwmTypeOK', todo' \in Seq(Calls), ChannelInv', SettingDuties',
         repeated => UNCHANGED registers /\ Powered',
         CCTL[LEFT] = OUTMOD_0 /\ CCTL'[LEFT] = OUTMOD_7 => CCR[LEFT] = CommandedPower
  PROVE  IInv' /\ Allowed
<1>1. TypeOK'
  BY DEF IInv, TypeOK, PinsTypeOK
<1>2. RepeatInv'
  <2>1. InMode(CommandedMode(1)) => InMode(CommandedMode(1))'
    BY SameCommand DEF InMode, Levelled, Driven
  <2> QED
    BY <2>1, SameCommand DEF IInv, DuringCommand, RepeatInv
<1>3. DuringCommand'
  BY <1>2 DEF IInv, DuringCommand, Driven, DrivenByTimer
<1>4. Allowed
  BY DEF Allowed
<1> QED
  BY <1>1, <1>3, <1>4 DEF IInv

(* The calls on the PWM. *)
LEMMA PwmDispatch ==
  ASSUME Next, todo # <<>>
  PROVE  /\ UNCHANGED <<command, repeated>>
         /\ Head(todo).call = "pwm_set_duty_cycle" => pwm_set_duty_cycle /\ UNCHANGED pinVars
         /\ Head(todo).call = "pwm_channel_enable" => pwm_channel_enable /\ UNCHANGED pinVars
         /\ Head(todo).call = "pwm_timer_enable" => pwm_timer_enable /\ UNCHANGED pinVars
BY Dispatch
DEF motor_driver_init, motor_driver_set_mode, PinStep, PwmStep, io_set_select,
    io_set_direction, io_set_out, io_set_resistor, pwm_init, PwmInitTimer,
    pwm_set_duty_cycle, pwm_channel_enable, pwm_timer_enable, Running

(* The duty cycle of the left wheel is written, if it is not zero. *)
LEMMA DutyStep ==
  ASSUME IInv, Next, command # NoCommand, InMode(CommandedMode(2)), todo = Duties
  PROVE  IInv' /\ Allowed
<1> DEFINE enabling == Call("pwm_channel_enable", LEFT, Enable)
<1>1. TypeOK /\ ChannelInv /\ RepeatInv /\ CCR \in [Channels -> 0 .. 99] /\ PwmTypeOK
  BY DEF IInv, DuringCommand, TypeOK, PwmTypeOK
<1>2. /\ Head(todo) = DutyCall(LEFT, 1) /\ Tail(todo) = RightDuty /\ todo # <<>>
      /\ Head(todo).call = "pwm_set_duty_cycle" /\ Head(todo).on = LEFT
      /\ Head(todo).arg = Abs(Commanded[1])
  BY DEF Duties, RightDuty, DutyCall, Call
<1>3. /\ pwm_set_duty_cycle /\ UNCHANGED <<pinVars, command, repeated>>
      /\ UNCHANGED <<enabled, CCTL, MC, restarts>>
  BY <1>2, PwmDispatch DEF pwm_set_duty_cycle
<1>4. /\ todo' = <<enabling>> \o RightDuty
      /\ CCR' = IF Enable = ON THEN [CCR EXCEPT ![LEFT] = CommandedPower] ELSE CCR
  <2>1. Abs(Commanded[1]) \in {0} \cup (10 .. 100)
    BY <1>1, CommandFacts
  <2>2. LEFT # RIGHT /\ ON # OFF
    BY DEF LEFT, RIGHT, ON, OFF
  <2>3. CASE Abs(Commanded[1]) > 0
    <3>1. Enable = ON
      BY <2>3 DEF Enable
    <3>2. WriteDuty(LEFT, Abs(Commanded[1])) /\ Then(<<Call("pwm_channel_enable", LEFT, ON)>>)
      BY <1>2, <1>3, <2>2, <2>3 DEF pwm_set_duty_cycle
    <3> QED
      BY <1>2, <3>1, <3>2 DEF Then, WriteDuty, CommandedPower
  <2>4. CASE Abs(Commanded[1]) = 0
    <3>1. Enable = OFF
      BY <2>4 DEF Enable
    <3>2. Then(<<Call("pwm_channel_enable", LEFT, OFF)>>) /\ UNCHANGED CCR
      BY <1>2, <1>3, <2>2, <2>4 DEF pwm_set_duty_cycle
    <3> QED
      BY <1>2, <2>2, <3>1, <3>2 DEF Then
  <2>5. Abs(Commanded[1]) > 0 \/ Abs(Commanded[1]) = 0
    BY <2>1
  <2> QED
    BY <2>3, <2>4, <2>5, Zenon
<1>5. Enable = ON => CommandedPower \in 1 .. 75
  BY <1>1, CommandFacts DEF Enable, ON, OFF
<1>6. CCR' \in [Channels -> 0 .. 99] /\ (Enable = ON => CCR'[LEFT] = CommandedPower)
  BY <1>1, <1>4, <1>5 DEF Channels
<1>7. PwmTypeOK'
  BY <1>1, <1>3, <1>6 DEF PwmTypeOK
<1>8. todo' \in Seq(Calls)
  <2>1. enabling \in Calls /\ RightDuty \in Seq(Calls)
    BY <1>1, CallTypes DEF Call, Calls, Callees, Channels, Enable, ON, OFF
  <2> QED
    BY <1>4, <2>1, FirstOfOne
<1>9. ChannelInv'
  <2>1. ~Running("pwm_timer_enable")
    BY <1>2 DEF Running
  <2>2. enabled[LEFT] = ON => CCR'[LEFT] \in 1 .. 75
    BY <1>1, <1>4, <1>5, <1>6 DEF ChannelInv
  <2> QED
    BY <1>1, <1>3, <2>1, <2>2 DEF ChannelInv
<1>10. SettingDuties'
  <2>1. InMode(CommandedMode(2))'
    BY <1>3, SameCommand DEF InMode, Levelled, Driven
  <2>2. DutyWritten'
    BY <1>3, <1>6, SameCommand DEF DutyWritten
  <2>3. todo' = <<Call("pwm_channel_enable", LEFT, Enable')>> \o RightDuty'
    BY <1>3, <1>4, SameCommand
  <2> QED
    BY <2>1, <2>2, <2>3 DEF SettingDuties
<1>11. ASSUME repeated PROVE UNCHANGED registers /\ Powered'
  <2>1. Powered
    BY <1>1, <1>11 DEF RepeatInv
  <2>2. CCR' = CCR
    BY <1>1, <1>4, <2>1 DEF Powered, DutyWritten
  <2> QED
    BY <1>3, <2>1, <2>2, SameCommand DEF Powered, DutyWritten
<1> QED
  BY <1>3, <1>7, <1>8, <1>9, <1>10, <1>11, PinsLeftAlone DEF OUTMOD_0, OUTMOD_7
(* The left channel follows: it changes only for a command that is new. *)
LEMMA ChannelStep ==
  ASSUME IInv, Next, command # NoCommand, InMode(CommandedMode(2)), DutyWritten,
         todo = <<Call("pwm_channel_enable", LEFT, Enable)>> \o RightDuty
  PROVE  IInv' /\ Allowed
<1> DEFINE enabling == Call("pwm_channel_enable", LEFT, Enable)
           starting == Call("pwm_timer_enable", LEFT, Enable)
<1>1. TypeOK /\ ChannelInv /\ RepeatInv /\ PwmTypeOK
  BY DEF IInv, DuringCommand, TypeOK
<1>2. enabling \in Calls /\ starting \in Calls /\ RightDuty \in Seq(Calls)
  BY <1>1, CallTypes DEF Call, Calls, Callees, Channels, Enable, ON, OFF
<1>3. todo # <<>> /\ Head(todo) = enabling /\ Tail(todo) = RightDuty
  BY <1>2, FirstOfOne
<1>4. /\ Head(todo).call = "pwm_channel_enable" /\ Head(todo).on = LEFT
      /\ Head(todo).arg = Enable
  BY <1>3 DEF Call
<1>5. /\ pwm_channel_enable /\ UNCHANGED <<pinVars, command, repeated>>
      /\ UNCHANGED <<CCR, MC, restarts>>
  BY <1>3, <1>4, PwmDispatch DEF pwm_channel_enable
<1>6. Enable' = Enable /\ InMode(CommandedMode(2))' /\ DutyWritten'
  BY <1>5, SameCommand DEF InMode, Levelled, Driven, DutyWritten
<1>7. /\ Enable \in {OFF, ON} /\ ON # OFF /\ LEFT # RIGHT /\ OUTMOD_0 # OUTMOD_7
      /\ enabled[LEFT] \in {OFF, ON} /\ LEFT \in Channels
  BY <1>1 DEF PwmTypeOK, Channels, Enable, ON, OFF, LEFT, RIGHT, OUTMOD_0, OUTMOD_7
<1>8. Enable = ON => CCR[LEFT] = CommandedPower /\ CCR[LEFT] \in 1 .. 75
  BY <1>1, CommandFacts DEF DutyWritten, Enable, ON, OFF
<1>9. ~Running("pwm_timer_enable")
  BY <1>4 DEF Running
<1>10. CASE ~ChannelChanges(LEFT, Enable)
  <2>1. Then(<<>>) /\ UNCHANGED <<enabled, CCTL>>
    BY <1>4, <1>5, <1>10 DEF pwm_channel_enable
  <2>2. todo' = RightDuty /\ todo' \in Seq(Calls)
    BY <1>2, <1>3, <2>1, ConcatEmptySeq DEF Then
  <2>3. Powered'
    BY <1>6, <1>10, <2>1 DEF Powered, ChannelChanges
  <2>4. SettingDuties'
    BY <1>5, <1>6, <2>2, <2>3, SameCommand DEF SettingDuties
  <2>5. ChannelInv' /\ PwmTypeOK'
    BY <1>1, <1>5, <1>9, <2>1 DEF ChannelInv, PwmTypeOK
  <2> QED
    BY <1>5, <1>7, <2>1, <2>2, <2>3, <2>4, <2>5, PinsLeftAlone
<1>11. CASE ChannelChanges(LEFT, Enable)
  <2>1. /\ enabled' = [enabled EXCEPT ![LEFT] = Enable]
        /\ CCTL' = [CCTL EXCEPT ![LEFT] = IF Enable = ON THEN OUTMOD_7 ELSE OUTMOD_0]
        /\ IF Enable = ON \/ pwm_all_channels_timer_disabled'
           THEN Then(<<Call("pwm_timer_enable", LEFT, Enable)>>)
           ELSE Then(<<>>)
    BY <1>4, <1>5, <1>11 DEF pwm_channel_enable
  <2>2. /\ enabled'[LEFT] = Enable /\ enabled'[RIGHT] = OFF
        /\ enabled' \in [Channels -> {OFF, ON}] /\ CCTL' \in [Channels -> {OUTMOD_0, OUTMOD_7}]
        /\ CCTL'[LEFT] = IF Enable = ON THEN OUTMOD_7 ELSE OUTMOD_0
        /\ CCTL'[RIGHT] = CCTL[RIGHT]
    BY <1>1, <1>7, <2>1 DEF ChannelInv, PwmTypeOK, Channels
  <2>3. todo' = <<starting>> \o RightDuty
    <3>1. Enable = ON \/ pwm_all_channels_timer_disabled'
      BY <1>7, <2>2 DEF pwm_all_channels_timer_disabled, Channels
    <3> QED
      BY <1>3, <2>1, <3>1 DEF Then
  <2>4. todo' \in Seq(Calls) /\ todo' # <<>> /\ Head(todo') = starting
    BY <1>2, <2>3, FirstOfOne
  <2>5. ~repeated /\ ~repeated'
    BY <1>1, <1>5, <1>11 DEF RepeatInv, Powered, ChannelChanges
  <2>6. Powered'
    BY <1>6, <2>2 DEF Powered
  <2>7. SettingDuties'
    <3>1. todo' = <<Call("pwm_timer_enable", LEFT, Enable')>> \o RightDuty'
      BY <1>5, <2>3, SameCommand
    <3> QED
      BY <1>6, <2>5, <2>6, <3>1 DEF SettingDuties
  <2>8. ChannelInv'
    <3>1. Running("pwm_timer_enable")'
      BY <2>4 DEF Running, Call
    <3>2. \A pwm \in Channels : CCTL'[pwm] = IF enabled'[pwm] = ON THEN OUTMOD_7 ELSE OUTMOD_0
      BY <1>1, <1>7, <2>2 DEF ChannelInv, Channels
    <3> QED
      BY <1>5, <1>8, <2>2, <3>1, <3>2 DEF ChannelInv
  <2>9. PwmTypeOK'
    BY <1>1, <1>5, <2>2 DEF PwmTypeOK
  <2>10. CCTL[LEFT] = OUTMOD_0 /\ CCTL'[LEFT] = OUTMOD_7 => CCR[LEFT] = CommandedPower
    BY <1>7, <1>8, <2>2
  <2> QED
    BY <1>5, <2>4, <2>5, <2>7, <2>8, <2>9, <2>10, PinsLeftAlone
<1> QED
  BY <1>10, <1>11

(* The timer counts from now on, if the channel is on. *)
LEMMA TimerStep ==
  ASSUME IInv, Next, command # NoCommand, InMode(CommandedMode(2)), Powered, ~repeated,
         todo = <<Call("pwm_timer_enable", LEFT, Enable)>> \o RightDuty
  PROVE  IInv' /\ Allowed
<1> DEFINE starting == Call("pwm_timer_enable", LEFT, Enable)
<1>1. TypeOK /\ ChannelInv /\ PwmTypeOK
  BY DEF IInv, TypeOK
<1>2. starting \in Calls /\ RightDuty \in Seq(Calls)
  BY <1>1, CallTypes DEF Call, Calls, Callees, Channels, Enable, ON, OFF
<1>3. todo # <<>> /\ Head(todo) = starting /\ Tail(todo) = RightDuty
  BY <1>2, FirstOfOne
<1>4. Head(todo).call = "pwm_timer_enable" /\ Head(todo).arg = Enable
  BY <1>3 DEF Call
<1>5. /\ pwm_timer_enable /\ Then(<<>>)
      /\ UNCHANGED <<pinVars, command, repeated, enabled, CCTL, CCR>>
  BY <1>3, <1>4, PwmDispatch DEF pwm_timer_enable
<1>6. todo' = RightDuty /\ todo' \in Seq(Calls)
  BY <1>2, <1>3, <1>5, ConcatEmptySeq DEF Then
<1>7. /\ Enable = ON => MC' = MC_1
      /\ MC' \in {MC_0, MC_1} /\ restarts' \in {0, 1}
  BY <1>1, <1>4, <1>5 DEF pwm_timer_enable, pwm_enabled, ON, OFF, PwmTypeOK
<1>8. Powered' /\ InMode(CommandedMode(2))'
  BY <1>5, SameCommand DEF Powered, DutyWritten, InMode, Levelled, Driven
<1>9. SettingDuties'
  BY <1>5, <1>6, <1>8, SameCommand DEF SettingDuties
<1>10. ChannelInv' /\ PwmTypeOK'
  BY <1>1, <1>5, <1>7 DEF ChannelInv, PwmTypeOK, Powered
<1> QED
  BY <1>5, <1>6, <1>9, <1>10, PinsLeftAlone DEF OUTMOD_0, OUTMOD_7

(* The duty cycle of the right wheel reaches no motor. *)
LEMMA RightDutyStep ==
  ASSUME IInv, Next, command # NoCommand, InMode(CommandedMode(2)), Powered,
         todo = RightDuty
  PROVE  IInv' /\ Allowed
<1>1. TypeOK /\ ChannelInv /\ PwmTypeOK
  BY DEF IInv, TypeOK
<1>2. /\ todo # <<>> /\ Tail(todo) = <<>>
      /\ Head(todo).call = "pwm_set_duty_cycle" /\ Head(todo).on = RIGHT
  BY DEF RightDuty, DutyCall, Call
<1>3. Then(<<>>) /\ UNCHANGED <<pinVars, pwmVars, command, repeated>>
  BY <1>2, PwmDispatch DEF pwm_set_duty_cycle
<1>4. todo' = <<>> /\ todo' \in Seq(Calls)
  BY <1>2, <1>3, ConcatEmptySeq, EmptySeq DEF Then
<1>5. Powered' /\ InMode(CommandedMode(2))'
  BY <1>3, SameCommand DEF Powered, DutyWritten, InMode, Levelled, Driven
<1>6. SettingDuties'
  BY <1>4, <1>5 DEF SettingDuties
<1>7. ChannelInv' /\ PwmTypeOK'
  <2>1. ~Running("pwm_timer_enable")
    BY <1>2 DEF Running
  <2> QED
    BY <1>1, <1>3, <2>1 DEF ChannelInv, PwmTypeOK
<1> QED
  BY <1>3, <1>4, <1>5, <1>6, <1>7, PinsLeftAlone DEF OUTMOD_0, OUTMOD_7
(* The calls that configure a pin. *)
LEMMA ConfigureCalls ==
  ASSUME NEW pin \in Pins, NEW config,
         {config.select, config.dir, config.out, config.resistor} \subseteq 0 .. 100
  PROVE  LET calls == io_configure(pin, config)
         IN  /\ calls \in Seq(Calls) /\ Len(calls) = 4
             /\ calls[1] = Call("io_set_select", pin, config.select)
             /\ calls[2] = Call("io_set_direction", pin, config.dir)
             /\ calls[3] = Call("io_set_out", pin, config.out)
             /\ calls[4] = Call("io_set_resistor", pin, config.resistor)
<1>1. ASSUME NEW call \in {"io_set_select", "io_set_direction", "io_set_out",
                           "io_set_resistor"},
             NEW arg \in 0 .. 100
      PROVE  Call(call, pin, arg) \in Calls
  BY DEF Call, Calls, Callees
<1> QED
  BY <1>1 DEF io_configure

LEMMA PwmInitFacts ==
  /\ PwmInitCalls \in Seq(Calls) /\ Len(PwmInitCalls) = 5
  /\ PwmInitCalls[1] = Call("io_set_select", PWM_PIN, IO_SELECT_ALT1)
  /\ PwmInitCalls[2] = Call("io_set_direction", PWM_PIN, IO_DIR_OUTPUT)
  /\ PwmInitCalls[3] = Call("io_set_out", PWM_PIN, LOW)
  /\ PwmInitCalls[4] = Call("io_set_resistor", PWM_PIN, IO_RESISTOR_DISABLED)
  /\ PwmInitCalls[5] = Call("timer_a1", LEFT, OFF)
<1>1. PICK pins : pins = io_configure(PWM_PIN, pwm_io_config)
  OBVIOUS
<1>2. PICK timer : timer = <<Call("timer_a1", LEFT, OFF)>>
  OBVIOUS
<1>3. /\ pins \in Seq(Calls) /\ Len(pins) = 4
      /\ pins[1] = Call("io_set_select", PWM_PIN, IO_SELECT_ALT1)
      /\ pins[2] = Call("io_set_direction", PWM_PIN, IO_DIR_OUTPUT)
      /\ pins[3] = Call("io_set_out", PWM_PIN, LOW)
      /\ pins[4] = Call("io_set_resistor", PWM_PIN, IO_RESISTOR_DISABLED)
  <2>1. /\ pwm_io_config.select = IO_SELECT_ALT1 /\ pwm_io_config.dir = IO_DIR_OUTPUT
        /\ pwm_io_config.out = LOW /\ pwm_io_config.resistor = IO_RESISTOR_DISABLED
    BY DEF pwm_io_config
  <2>2. {IO_SELECT_ALT1, IO_DIR_OUTPUT, LOW, IO_RESISTOR_DISABLED} \subseteq 0 .. 100
    BY DEF IO_SELECT_ALT1, IO_DIR_OUTPUT, LOW, IO_RESISTOR_DISABLED
  <2>3. PWM_PIN \in Pins
    BY DEF Pins
  <2> QED
    BY <1>1, <2>1, <2>2, <2>3, ConfigureCalls
<1>4. timer \in Seq(Calls) /\ Len(timer) = 1 /\ timer[1] = Call("timer_a1", LEFT, OFF)
  BY <1>2 DEF Call, Calls, Callees, Channels, OFF
<1>5. PwmInitCalls = pins \o timer
  BY <1>1, <1>2 DEF PwmInitCalls
<1>6. /\ PwmInitCalls \in Seq(Calls) /\ Len(PwmInitCalls) = Len(pins) + Len(timer)
      /\ \A i \in 1 .. Len(pins) : PwmInitCalls[i] = pins[i]
      /\ \A i \in 1 .. Len(timer) : PwmInitCalls[Len(pins) + i] = timer[i]
  <2>1. pins \in Seq(Calls)
    BY <1>3
  <2>2. timer \in Seq(Calls)
    BY <1>4
  <2> QED
    BY <1>5, <2>1, <2>2, Joined
<1> QED
  BY <1>3, <1>4, <1>6
LEMMA DriverInitFacts ==
  /\ DriverInitCalls \in Seq(Calls) /\ Len(DriverInitCalls) = 9
  /\ DriverInitCalls[1] = Call("io_set_select", CC1, IO_SELECT_GPIO)
  /\ DriverInitCalls[2] = Call("io_set_direction", CC1, IO_DIR_OUTPUT)
  /\ DriverInitCalls[3] = Call("io_set_out", CC1, LOW)
  /\ DriverInitCalls[4] = Call("io_set_resistor", CC1, IO_RESISTOR_DISABLED)
  /\ DriverInitCalls[5] = Call("io_set_select", CC2, IO_SELECT_GPIO)
  /\ DriverInitCalls[6] = Call("io_set_direction", CC2, IO_DIR_OUTPUT)
  /\ DriverInitCalls[7] = Call("io_set_out", CC2, LOW)
  /\ DriverInitCalls[8] = Call("io_set_resistor", CC2, IO_RESISTOR_DISABLED)
  /\ DriverInitCalls[9] = Call("pwm_init", LEFT, ON)
<1>1. ASSUME NEW pin \in {CC1, CC2}, NEW calls, calls = io_configure(pin, cc_io_config)
      PROVE  /\ calls \in Seq(Calls) /\ Len(calls) = 4
             /\ calls[1] = Call("io_set_select", pin, IO_SELECT_GPIO)
             /\ calls[2] = Call("io_set_direction", pin, IO_DIR_OUTPUT)
             /\ calls[3] = Call("io_set_out", pin, LOW)
             /\ calls[4] = Call("io_set_resistor", pin, IO_RESISTOR_DISABLED)
  <2>1. /\ cc_io_config.select = IO_SELECT_GPIO /\ cc_io_config.dir = IO_DIR_OUTPUT
        /\ cc_io_config.out = LOW /\ cc_io_config.resistor = IO_RESISTOR_DISABLED
    BY DEF cc_io_config
  <2>2. {IO_SELECT_GPIO, IO_DIR_OUTPUT, LOW, IO_RESISTOR_DISABLED} \subseteq 0 .. 100
    BY DEF IO_SELECT_GPIO, IO_DIR_OUTPUT, LOW, IO_RESISTOR_DISABLED
  <2>3. pin \in Pins
    BY DEF Pins
  <2> QED
    BY <1>1, <2>1, <2>2, <2>3, ConfigureCalls
<1>2. PICK pins1 : pins1 = io_configure(CC1, cc_io_config)
  OBVIOUS
<1>3. PICK pins2 : pins2 = io_configure(CC2, cc_io_config)
  OBVIOUS
<1>4. PICK pwm : pwm = <<Call("pwm_init", LEFT, ON)>>
  OBVIOUS
<1>5. PICK pins : pins = pins1 \o pins2
  OBVIOUS
<1>6. pins1 \in Seq(Calls) /\ pins2 \in Seq(Calls)
  BY <1>1, <1>2, <1>3
<1>7. /\ pins \in Seq(Calls) /\ Len(pins) = Len(pins1) + Len(pins2)
      /\ \A i \in 1 .. Len(pins1) : pins[i] = pins1[i]
      /\ \A i \in 1 .. Len(pins2) : pins[Len(pins1) + i] = pins2[i]
  BY <1>5, <1>6, Joined
<1>8. pwm \in Seq(Calls)
  BY <1>4 DEF Call, Calls, Callees, Channels, ON
<1>9. DriverInitCalls = pins \o pwm
  BY <1>2, <1>3, <1>4, <1>5 DEF DriverInitCalls
<1>10. /\ DriverInitCalls \in Seq(Calls) /\ Len(DriverInitCalls) = Len(pins) + Len(pwm)
       /\ \A i \in 1 .. Len(pins) : DriverInitCalls[i] = pins[i]
       /\ \A i \in 1 .. Len(pwm) : DriverInitCalls[Len(pins) + i] = pwm[i]
  <2>1. pins \in Seq(Calls)
    BY <1>7
  <2> QED
    BY <1>8, <1>9, <2>1, Joined
<1>11. Len(pins1) = 4 /\ Len(pins2) = 4 /\ Len(pins) = 8
  <2>1. Len(pins1) = 4 /\ Len(pins2) = 4
    BY <1>1, <1>2, <1>3
  <2>2. Len(pins) = Len(pins1) + Len(pins2)
    BY <1>7
  <2> QED
    BY <2>1, <2>2
<1>12. Len(pwm) = 1 /\ pwm[1] = Call("pwm_init", LEFT, ON)
  BY <1>4
<1>13. /\ \A i \in 1 .. 4 : DriverInitCalls[i] = pins1[i]
       /\ \A i \in 1 .. 4 : DriverInitCalls[4 + i] = pins2[i]
       /\ DriverInitCalls[8 + 1] = pwm[1] /\ Len(DriverInitCalls) = 9
  BY <1>7, <1>10, <1>11, <1>12
<1>14. /\ DriverInitCalls[1] = pins1[1] /\ DriverInitCalls[2] = pins1[2]
       /\ DriverInitCalls[3] = pins1[3] /\ DriverInitCalls[4] = pins1[4]
       /\ DriverInitCalls[4 + 1] = pins2[1] /\ DriverInitCalls[4 + 2] = pins2[2]
       /\ DriverInitCalls[4 + 3] = pins2[3] /\ DriverInitCalls[4 + 4] = pins2[4]
  BY <1>13
<1>15. /\ 4 + 1 = 5 /\ 4 + 2 = 6 /\ 4 + 3 = 7 /\ 4 + 4 = 8 /\ 8 + 1 = 9
  OBVIOUS
<1> QED
  BY <1>1, <1>2, <1>3, <1>10, <1>12, <1>13, <1>14, <1>15
LEMMA FromStart ==
  ASSUME NEW S, NEW calls \in Seq(S)
  PROVE  From(calls, 1) = calls /\ From(calls, Len(calls) + 1) = <<>>
<1>1. Len(calls) \in Nat /\ \A i \in 1 .. Len(calls) : calls[i] \in S
  BY LenProperties
<1>2. /\ From(calls, 1) \in Seq(S) /\ Len(From(calls, 1)) = Len(calls)
      /\ \A i \in 1 .. Len(calls) : From(calls, 1)[i] = calls[i]
  BY <1>1, SubSeqProperties DEF From
<1>3. From(calls, Len(calls) + 1) = <<>>
  BY <1>1, SubSeqEmpty DEF From
<1> QED
  BY <1>2, <1>3, SeqEqual

(* A step during start-up, where nothing can reach the motor. *)
LEMMA ConfiguringStep ==
  ASSUME IInv, command = NoCommand,
         UNCHANGED <<enabled, CCTL, CCR, restarts, command, repeated>>,
         MC' \in {MC_0, MC_1}, PinsTypeOK', todo' \in Seq(Calls), Configuring'
  PROVE  IInv' /\ Allowed
<1>1. StartUp /\ ChannelInv /\ TypeOK
  BY DEF IInv
<1>2. TypeOK'
  BY <1>1 DEF TypeOK, PwmTypeOK
<1>3. enabled[LEFT] = OFF /\ ON # OFF /\ LEFT \in Channels
  BY <1>1 DEF StartUp, ON, OFF, Channels
<1>4. ChannelInv'
  BY <1>1, <1>3 DEF ChannelInv
<1>5. CCTL[LEFT] = OUTMOD_0 /\ OUTMOD_0 # OUTMOD_7
  BY <1>1, <1>3 DEF ChannelInv, OUTMOD_0, OUTMOD_7
<1>6. Power = 0 /\ Power' = 0
  BY <1>5 DEF Power
<1>7. Allowed
  <2>1. ~(Power' > Power)
    BY <1>6
  <2> QED
    BY <1>1, <1>5, <2>1 DEF Allowed, StartUp
<1> QED
  BY <1>1, <1>2, <1>4, <1>7 DEF IInv, StartUp

(* What a call on a pin does. *)
PinCalls == {"io_set_select", "io_set_direction", "io_set_out", "io_set_resistor"}
PinOutcome(call, pin, arg) ==
  /\ todo' = Tail(todo) /\ todo' \in Seq(Calls)
  /\ UNCHANGED <<pwmVars, command, repeated>>
  /\ IF call = "io_set_select" THEN select' = [select EXCEPT ![pin] = arg]
     ELSE UNCHANGED select
  /\ IF call = "io_set_direction"
     THEN outputs' = IF arg = IO_DIR_OUTPUT THEN outputs \cup {pin} ELSE outputs \ {pin}
     ELSE UNCHANGED outputs
  /\ IF call = "io_set_out" THEN P2OUT' = [P2OUT EXCEPT ![pin] = arg] ELSE UNCHANGED P2OUT
  /\ IF call = "io_set_resistor"
     THEN resistors' = IF arg = IO_RESISTOR_ENABLED THEN resistors \cup {pin}
                       ELSE resistors \ {pin}
     ELSE UNCHANGED resistors

LEMMA PinCall ==
  ASSUME IInv, Next, todo # <<>>, NEW call \in PinCalls, NEW pin, NEW arg,
         Head(todo) = Call(call, pin, arg)
  PROVE  PinOutcome(call, pin, arg)
<1>1. Head(todo).call = call /\ Head(todo).on = pin /\ Head(todo).arg = arg
  BY DEF Call
<1>2. PinStep /\ UNCHANGED <<pwmVars, command, repeated>>
  BY <1>1, Dispatch
  DEF PinCalls, motor_driver_init, motor_driver_set_mode, PwmStep, pwm_init, PwmInitTimer,
      pwm_set_duty_cycle, pwm_channel_enable, pwm_timer_enable, Running
<1>3. Then(<<>>)
  BY <1>2 DEF PinStep, io_set_select, io_set_direction, io_set_out, io_set_resistor
<1>4. todo' = Tail(todo) /\ todo' \in Seq(Calls)
  BY <1>3, PopCall DEF IInv, TypeOK
<1> QED
  BY <1>1, <1>2, <1>4
  DEF PinOutcome, PinStep, io_set_select, io_set_direction, io_set_out, io_set_resistor, Running

LEMMA PinTypes ==
  ASSUME PinsTypeOK, NEW call, NEW pin \in Pins, NEW arg \in {0, 1}, PinOutcome(call, pin, arg)
  PROVE  PinsTypeOK'
<1>1. select' \in [Pins -> Selects]
  BY DEF PinOutcome, PinsTypeOK, Selects
<1>2. P2OUT' \in [Pins -> {LOW, HIGH}]
  BY DEF PinOutcome, PinsTypeOK, LOW, HIGH
<1>3. outputs' \in SUBSET Pins /\ resistors' \in SUBSET Pins
  BY DEF PinOutcome, PinsTypeOK
<1> QED
  BY <1>1, <1>2, <1>3 DEF PinsTypeOK

(* The pins of the motor driver. *)
LEMMA DriverPinStep ==
  ASSUME IInv, Next, command = NoCommand, NEW n \in 1 .. 8,
         todo = From(DriverInitCalls, n), DriverPins(n - 1)
  PROVE  IInv' /\ Allowed
<1> USE DEF DriverPins, PinOutcome
<1>1. /\ todo # <<>> /\ Head(todo) = DriverInitCalls[n]
      /\ Tail(todo) = From(DriverInitCalls, n + 1)
  <2>1. DriverInitCalls \in Seq(Calls) /\ n \in 1 .. Len(DriverInitCalls)
    BY DriverInitFacts
  <2> QED
    BY <2>1, FromFacts
<1>2. PinsTypeOK /\ select \in [Pins -> Selects] /\ P2OUT \in [Pins -> {LOW, HIGH}]
  BY DEF IInv, TypeOK, PinsTypeOK
<1>3. PICK call \in PinCalls, pin \in {CC1, CC2}, arg \in {0, 1} :
        DriverInitCalls[n] = Call(call, pin, arg)
  BY DriverInitFacts
  DEF PinCalls, IO_SELECT_GPIO, IO_DIR_OUTPUT, LOW, IO_RESISTOR_DISABLED
<1>4. PinsTypeOK'
  <2>1. PinOutcome(call, pin, arg)
    BY <1>1, <1>3, PinCall
  <2>2. pin \in Pins
    BY DEF Pins
  <2> HIDE DEF PinOutcome
  <2> QED
    BY <1>2, <2>1, <2>2, PinTypes
<1>5. DriverPins(n)'
  <2>1. CASE n = 1
    <3>1. PinOutcome("io_set_select", CC1, IO_SELECT_GPIO)
      BY <1>1, <2>1, DriverInitFacts, PinCall DEF PinCalls
    <3> QED
      BY <1>2, <2>1, <3>1 DEF Pins, CC1, CC2
  <2>2. CASE n = 2
    <3>1. PinOutcome("io_set_direction", CC1, IO_DIR_OUTPUT)
      BY <1>1, <2>2, DriverInitFacts, PinCall DEF PinCalls
    <3> QED
      BY <1>2, <2>2, <3>1 DEF Pins, CC1, CC2
  <2>3. CASE n = 3
    <3>1. PinOutcome("io_set_out", CC1, LOW)
      BY <1>1, <2>3, DriverInitFacts, PinCall DEF PinCalls
    <3> QED
      BY <1>2, <2>3, <3>1 DEF Pins, CC1, CC2
  <2>4. CASE n = 4
    <3>1. PinOutcome("io_set_resistor", CC1, IO_RESISTOR_DISABLED)
      BY <1>1, <2>4, DriverInitFacts, PinCall DEF PinCalls
    <3> QED
      BY <1>2, <2>4, <3>1 DEF Pins, CC1, CC2
  <2>5. CASE n = 5
    <3>1. PinOutcome("io_set_select", CC2, IO_SELECT_GPIO)
      BY <1>1, <2>5, DriverInitFacts, PinCall DEF PinCalls
    <3> QED
      BY <1>2, <2>5, <3>1 DEF Pins, CC1, CC2
  <2>6. CASE n = 6
    <3>1. PinOutcome("io_set_direction", CC2, IO_DIR_OUTPUT)
      BY <1>1, <2>6, DriverInitFacts, PinCall DEF PinCalls
    <3> QED
      BY <1>2, <2>6, <3>1 DEF Pins, CC1, CC2
  <2>7. CASE n = 7
    <3>1. PinOutcome("io_set_out", CC2, LOW)
      BY <1>1, <2>7, DriverInitFacts, PinCall DEF PinCalls
    <3> QED
      BY <1>2, <2>7, <3>1 DEF Pins, CC1, CC2
  <2>8. CASE n = 8
    <3>1. PinOutcome("io_set_resistor", CC2, IO_RESISTOR_DISABLED)
      BY <1>1, <2>8, DriverInitFacts, PinCall DEF PinCalls
    <3> QED
      BY <1>2, <2>8, <3>1 DEF Pins, CC1, CC2
  <2> QED
    BY <2>1, <2>2, <2>3, <2>4, <2>5, <2>6, <2>7, <2>8
<1>6. Configuring'
  <2>1. n + 1 \in 1 .. 9 /\ (n + 1) - 1 = n
    OBVIOUS
  <2>2. todo' = From(DriverInitCalls, n + 1)
    BY <1>1, <1>3, PinCall
  <2> HIDE DEF DriverPins
  <2> QED
    BY <1>5, <2>1, <2>2 DEF Configuring, From, DriverInitCalls
<1>7. /\ UNCHANGED <<enabled, CCTL, CCR, MC, restarts, command, repeated>>
      /\ todo' \in Seq(Calls) /\ MC \in {MC_0, MC_1}
  BY <1>1, <1>3, PinCall DEF IInv, TypeOK, PwmTypeOK
<1> QED
  BY <1>4, <1>6, <1>7, ConfiguringStep
(* The pin of the PWM. *)
LEMMA PwmPinStep ==
  ASSUME IInv, Next, command = NoCommand, NEW n \in 1 .. 4,
         todo = From(PwmInitCalls, n), DriverPins(8), PwmPin(n - 1)
  PROVE  IInv' /\ Allowed
<1> USE DEF PwmPin, PinOutcome
<1>1. /\ todo # <<>> /\ Head(todo) = PwmInitCalls[n] /\ Tail(todo) = From(PwmInitCalls, n + 1)
  <2>1. PwmInitCalls \in Seq(Calls) /\ n \in 1 .. Len(PwmInitCalls)
    BY PwmInitFacts
  <2> QED
    BY <2>1, FromFacts
<1>2. PinsTypeOK /\ select \in [Pins -> Selects] /\ P2OUT \in [Pins -> {LOW, HIGH}]
  BY DEF IInv, TypeOK, PinsTypeOK
<1>3. PICK call \in PinCalls, arg \in {0, 1} : PwmInitCalls[n] = Call(call, PWM_PIN, arg)
  BY PwmInitFacts DEF PinCalls, IO_SELECT_ALT1, IO_DIR_OUTPUT, LOW, IO_RESISTOR_DISABLED
<1>4. PinOutcome(call, PWM_PIN, arg)
  BY <1>1, <1>3, PinCall
<1>5. PinsTypeOK'
  <2>1. PWM_PIN \in Pins
    BY DEF Pins
  <2> HIDE DEF PinOutcome
  <2> QED
    BY <1>2, <1>4, <2>1, PinTypes
<1>6. DriverPins(8)'
  BY <1>2, <1>4 DEF DriverPins, Pins, CC1, CC2, PWM_PIN
<1>7. PwmPin(n)'
  <2>1. CASE n = 1
    <3>1. PinOutcome("io_set_select", PWM_PIN, IO_SELECT_ALT1)
      BY <1>1, <2>1, PwmInitFacts, PinCall DEF PinCalls
    <3> QED
      BY <1>2, <2>1, <3>1 DEF Pins
  <2>2. CASE n = 2
    <3>1. PinOutcome("io_set_direction", PWM_PIN, IO_DIR_OUTPUT)
      BY <1>1, <2>2, PwmInitFacts, PinCall DEF PinCalls
    <3> QED
      BY <1>2, <2>2, <3>1 DEF Pins
  <2>3. CASE n = 3
    <3>1. PinOutcome("io_set_out", PWM_PIN, LOW)
      BY <1>1, <2>3, PwmInitFacts, PinCall DEF PinCalls
    <3> QED
      BY <1>2, <2>3, <3>1 DEF Pins
  <2>4. CASE n = 4
    <3>1. PinOutcome("io_set_resistor", PWM_PIN, IO_RESISTOR_DISABLED)
      BY <1>1, <2>4, PwmInitFacts, PinCall DEF PinCalls
    <3> QED
      BY <1>2, <2>4, <3>1 DEF Pins
  <2> QED
    BY <2>1, <2>2, <2>3, <2>4
<1>8. Configuring'
  <2>1. n + 1 \in 1 .. 6 /\ (n + 1) - 1 = n
    OBVIOUS
  <2>2. todo' = From(PwmInitCalls, n + 1)
    BY <1>1, <1>4
  <2> HIDE DEF PwmPin
  <2> QED
    BY <1>6, <1>7, <2>1, <2>2 DEF Configuring, From, PwmInitCalls
<1>9. /\ UNCHANGED <<enabled, CCTL, CCR, MC, restarts, command, repeated>>
      /\ todo' \in Seq(Calls) /\ MC \in {MC_0, MC_1}
  BY <1>4 DEF IInv, TypeOK, PwmTypeOK
<1> QED
  BY <1>5, <1>8, <1>9, ConfiguringStep

(* The calls that are no calls on a pin: they give way to the calls they make. *)
LEMMA ConfiguringDispatch ==
  ASSUME Next, todo # <<>>
  PROVE  /\ UNCHANGED <<command, repeated>>
         /\ Head(todo).call = "motor_driver_init" => motor_driver_init
         /\ Head(todo).call = "pwm_init" => pwm_init /\ UNCHANGED pinVars
         /\ Head(todo).call = "timer_a1" => PwmInitTimer /\ UNCHANGED pinVars
BY Dispatch
DEF motor_driver_init, motor_driver_set_mode, PinStep, PwmStep, io_set_select,
    io_set_direction, io_set_out, io_set_resistor, pwm_init, PwmInitTimer,
    pwm_set_duty_cycle, pwm_channel_enable, pwm_timer_enable, Running

(* drive_init. *)
LEMMA StartUpStep ==
  ASSUME IInv, Next, command = NoCommand, todo # <<>>
  PROVE  IInv' /\ Allowed
<1>1. Configuring /\ PinsTypeOK /\ MC \in {MC_0, MC_1}
  BY DEF IInv, StartUp, TypeOK, PwmTypeOK
<1>2. CASE todo = <<Call("motor_driver_init", LEFT, ON)>> /\ DriverPins(0)
  <2>1. Tail(todo) = <<>> /\ Head(todo).call = "motor_driver_init"
    BY <1>2 DEF Call
  <2>2. /\ todo' = DriverInitCalls \o Tail(todo)
        /\ UNCHANGED <<pinVars, pwmVars, command, repeated>>
    BY <2>1, ConfiguringDispatch DEF motor_driver_init, Then, DriverInitCalls
  <2>3. todo' = DriverInitCalls /\ todo' \in Seq(Calls)
    BY <2>1, <2>2, DriverInitFacts, ConcatEmptySeq
  <2>4. todo' = From(DriverInitCalls, 1)
    BY <2>3, DriverInitFacts, FromStart
  <2>5. DriverPins(1 - 1)'
    BY <1>2, <2>2 DEF DriverPins
  <2>6. Configuring'
    BY <2>4, <2>5 DEF Configuring, From, DriverInitCalls
  <2> QED
    BY <1>1, <2>2, <2>3, <2>6, ConfiguringStep DEF PinsTypeOK
<1>3. ASSUME NEW n \in 1 .. 9, todo = From(DriverInitCalls, n), DriverPins(n - 1)
      PROVE  IInv' /\ Allowed
  <2>1. CASE n \in 1 .. 8
    BY <1>3, <2>1, DriverPinStep
  <2>2. CASE n = 9
    <3>1. DriverInitCalls \in Seq(Calls) /\ n \in 1 .. Len(DriverInitCalls)
      BY DriverInitFacts
    <3>2. Head(todo) = DriverInitCalls[n] /\ Tail(todo) = From(DriverInitCalls, n + 1)
      BY <1>3, <3>1, FromFacts
    <3>3. n + 1 = Len(DriverInitCalls) + 1
      BY <2>2, DriverInitFacts
    <3>4. Tail(todo) = <<>>
      BY <3>1, <3>2, <3>3, FromStart
    <3>5. Head(todo).call = "pwm_init"
      BY <2>2, <3>2, DriverInitFacts DEF Call
    <3>6. /\ todo' = PwmInitCalls \o Tail(todo)
          /\ UNCHANGED <<pinVars, pwmVars, command, repeated>>
      BY <3>5, ConfiguringDispatch DEF pwm_init, Then, PwmInitCalls
    <3>7. todo' = PwmInitCalls /\ todo' \in Seq(Calls)
      BY <3>4, <3>6, PwmInitFacts, ConcatEmptySeq
    <3>8. todo' = From(PwmInitCalls, 1)
      BY <3>7, PwmInitFacts, FromStart
    <3>9. DriverPins(8)' /\ PwmPin(1 - 1)'
      BY <1>3, <2>2, <3>6 DEF DriverPins, PwmPin
    <3>10. Configuring'
      BY <3>8, <3>9 DEF Configuring, From, PwmInitCalls
    <3> QED
      BY <1>1, <3>6, <3>7, <3>10, ConfiguringStep DEF PinsTypeOK
  <2> QED
    BY <2>1, <2>2
<1>4. ASSUME NEW n \in 1 .. 6, todo = From(PwmInitCalls, n), DriverPins(8), PwmPin(n - 1)
      PROVE  IInv' /\ Allowed
  <2>1. CASE n \in 1 .. 4
    BY <1>4, <2>1, PwmPinStep
  <2>2. CASE n = 5
    <3>1. PwmInitCalls \in Seq(Calls) /\ n \in 1 .. Len(PwmInitCalls)
      BY <2>2, PwmInitFacts
    <3>2. Head(todo) = PwmInitCalls[n] /\ Tail(todo) = From(PwmInitCalls, n + 1)
      BY <1>4, <3>1, FromFacts
    <3>3. Head(todo).call = "timer_a1"
      BY <2>2, <3>2, PwmInitFacts DEF Call
    <3>4. /\ Then(<<>>) /\ MC' = MC_0
          /\ UNCHANGED <<pinVars, enabled, CCTL, CCR, restarts, command, repeated>>
      BY <3>3, ConfiguringDispatch DEF PwmInitTimer
    <3>5. todo' = From(PwmInitCalls, 6) /\ todo' \in Seq(Calls)
      BY <2>2, <3>2, <3>4, PopCall DEF IInv, TypeOK
    <3>6. DriverPins(8)' /\ PwmPin(6 - 1)'
      BY <1>4, <2>2, <3>4 DEF DriverPins, PwmPin
    <3>7. Configuring'
      BY <3>5, <3>6 DEF Configuring, From, PwmInitCalls
    <3> QED
      BY <1>1, <3>4, <3>5, <3>7, ConfiguringStep DEF PinsTypeOK
  <2>3. CASE n = 6
    <3>1. n = Len(PwmInitCalls) + 1 /\ PwmInitCalls \in Seq(Calls)
      BY <2>3, PwmInitFacts
    <3> QED
      BY <1>4, <3>1, FromStart
  <2> QED
    BY <2>1, <2>2, <2>3
<1> QED
  BY <1>1, <1>2, <1>3, <1>4 DEF Configuring
(* What every call leaves behind when it returns. *)
LEMMA AtRest ==
  ASSUME IInv, Idle
  PROVE  /\ Driven(CC1) /\ Driven(CC2) /\ DrivenByTimer(PWM_PIN)
         /\ command = NoCommand => /\ ~repeated /\ enabled[LEFT] = OFF
                                   /\ InMode(MOTOR_DRIVER_MODE_STOP)
         /\ command # NoCommand => Powered /\ InMode(CommandedMode(2)) /\ RepeatInv
<1>1. todo = <<>> /\ TypeOK
  BY DEF Idle, IInv
<1>2. CASE command = NoCommand
  <2>1. ~repeated /\ enabled[LEFT] = OFF /\ Configuring
    BY <1>2 DEF IInv, StartUp
  <2>2. ASSUME NEW n \in 1 .. 9, todo = From(DriverInitCalls, n) PROVE FALSE
    <3>1. DriverInitCalls \in Seq(Calls) /\ n \in 1 .. Len(DriverInitCalls)
      BY DriverInitFacts
    <3> QED
      BY <1>1, <2>2, <3>1, FromFacts
  <2>3. ASSUME NEW n \in 1 .. 5, todo = From(PwmInitCalls, n) PROVE FALSE
    <3>1. PwmInitCalls \in Seq(Calls) /\ n \in 1 .. Len(PwmInitCalls)
      BY PwmInitFacts
    <3> QED
      BY <1>1, <2>3, <3>1, FromFacts
  <2>4. PICK n \in 1 .. 6 : todo = From(PwmInitCalls, n) /\ DriverPins(8) /\ PwmPin(n - 1)
    BY <1>1, <2>1, <2>2 DEF Configuring
  <2>5. n = 6
    BY <2>3, <2>4
  <2>6. /\ Driven(CC1) /\ Driven(CC2) /\ DrivenByTimer(PWM_PIN)
        /\ P2OUT[CC1] = LOW /\ P2OUT[CC2] = LOW
    BY <2>4, <2>5 DEF DriverPins, PwmPin, Driven, DrivenByTimer
  <2> QED
    BY <1>2, <2>1, <2>6
    DEF InMode, Levelled, Levels, MOTOR_DRIVER_MODE_STOP, MOTOR_DRIVER_MODE_FORWARD,
        MOTOR_DRIVER_MODE_REVERSE
<1>3. CASE command # NoCommand
  <2>1. DuringCommand
    BY <1>3 DEF IInv
  <2>2. ~SettingModes
    <3>1. RightWheelToo # <<>>
      BY DEF RightWheelToo
    <3>2. /\ \A w \in {1, 2} : FirstLevelCall(w) \in Calls /\ SecondLevelCall(w) \in Calls
          /\ Duties \in Seq(Calls) /\ RightWheelToo \in Seq(Calls)
      BY <1>1, CallTypes
    <3>3. \A w \in {1, 2} : \A rest \in {Duties, RightWheelToo} :
            /\ <<FirstLevelCall(w), SecondLevelCall(w)>> \o rest # <<>>
            /\ <<SecondLevelCall(w)>> \o rest # <<>>
      BY <3>2, FirstOfOne, FirstOfTwo
    <3> QED
      BY <1>1, <3>1, <3>3 DEF SettingModes
  <2>3. SettingDuties
    BY <2>1, <2>2 DEF DuringCommand
  <2>4. Powered
    <3>1. /\ \A call \in Calls : <<call>> \o RightDuty # <<>>
          /\ Call("pwm_channel_enable", LEFT, Enable) \in Calls
          /\ Duties # <<>>
      <4>1. RightDuty \in Seq(Calls)
        BY <1>1, CallTypes
      <4>2. Call("pwm_channel_enable", LEFT, Enable) \in Calls
        BY DEF Call, Calls, Callees, Channels, Enable, ON, OFF
      <4>3. Duties # <<>>
        BY DEF Duties
      <4> QED
        BY <4>1, <4>2, <4>3, FirstOfOne
    <3> QED
      BY <1>1, <2>3, <3>1 DEF SettingDuties
  <2> QED
    BY <1>3, <2>1, <2>3, <2>4 DEF DuringCommand, SettingDuties
<1> QED
  BY <1>2, <1>3

(* A new command finds the motor as the last one has left it. *)
LEMMA CommandStep ==
  ASSUME IInv, Idle, NEW new, command' = new, new # NoCommand, repeated' = (command = new),
         new \in {StopCommand} \cup {"set"} \X Directions \X Speeds,
         todo' = <<ModeCall(LEFT, 1)', ModeCall(RIGHT, 2)',
                   DutyCall(LEFT, 1)', DutyCall(RIGHT, 2)'>>,
         todo' \in Seq(Calls),
         UNCHANGED <<pinVars, pwmVars>>
  PROVE  IInv' /\ Allowed
<1>1. TypeOK'
  <2>1. (PinsTypeOK /\ PwmTypeOK)'
    BY DEF IInv, TypeOK, PinsTypeOK, PwmTypeOK
  <2>2. repeated' \in BOOLEAN
    OBVIOUS
  <2> QED
    BY <2>1, <2>2 DEF TypeOK
<1>2. ChannelInv'
  <2>1. ~Running("pwm_timer_enable")
    BY DEF Running, Idle
  <2> QED
    BY <2>1 DEF IInv, ChannelInv
<1>3. SomeMode'
  <2>1. SomeMode
    BY AtRest, CommandFacts DEF IInv, SomeMode, Modes
  <2> QED
    BY <2>1 DEF SomeMode, InMode, Levelled, Driven
<1>4. RepeatInv'
  <2>1. ASSUME repeated' PROVE Powered' /\ (Straight => InMode(CommandedMode(1)))'
    <3>1. command' = command
      BY <2>1
    <3>2. Powered /\ (Straight => InMode(CommandedMode(1)))
      BY <3>1, AtRest DEF Straight
    <3> QED
      BY <3>1, <3>2, SameCommand DEF Powered, DutyWritten, InMode, Levelled, Driven
  <2> QED
    BY <2>1 DEF RepeatInv
<1>5. DuringCommand'
  <2>1. (Driven(CC1) /\ Driven(CC2) /\ DrivenByTimer(PWM_PIN))'
    BY AtRest DEF Driven, DrivenByTimer
  <2>2. SettingModes'
    BY <1>3 DEF SettingModes
  <2> QED
    BY <1>4, <2>1, <2>2 DEF DuringCommand
<1>6. Allowed
  <2>1. Power' = Power /\ Power \in Int
    BY PowerType DEF IInv, Power, DrivenByTimer
  <2>2. ~(Power' > Power)
    BY <2>1
  <2> QED
    BY <2>2 DEF Allowed, OUTMOD_0, OUTMOD_7
<1> QED
  BY <1>1, <1>2, <1>5, <1>6 DEF IInv
(* drive_set_direction_and_speed and drive_stop. *)
LEMMA SetStep ==
  ASSUME IInv, NEW direction \in Directions, NEW speed \in Speeds,
         drive_set_direction_and_speed(direction, speed)
  PROVE  IInv' /\ Allowed
<1>1. PICK speeds : speeds = WheelSpeeds(direction, speed)
  OBVIOUS
<1>2. speeds[1] \in WheelSpeed /\ speeds[2] \in WheelSpeed
  BY <1>1, WheelSpeedsType
<1>3. /\ Idle /\ command' = SetCommand(direction, speed)
      /\ repeated' = (command = SetCommand(direction, speed))
      /\ todo' = <<Call("motor_driver_set_mode", LEFT, ModeOf(speeds[1])),
                   Call("motor_driver_set_mode", RIGHT, ModeOf(speeds[2])),
                   Call("pwm_set_duty_cycle", LEFT, Abs(speeds[1])),
                   Call("pwm_set_duty_cycle", RIGHT, Abs(speeds[2]))>>
      /\ UNCHANGED <<pinVars, pwmVars>>
  BY <1>1 DEF drive_set_direction_and_speed, Command
<1>4. /\ SetCommand(direction, speed) \in {"set"} \X Directions \X Speeds
      /\ SetCommand(direction, speed) # NoCommand
      /\ SetCommand(direction, speed)[1] = "set"
      /\ SetCommand(direction, speed)[2] = direction
      /\ SetCommand(direction, speed)[3] = speed
  BY DEF SetCommand, NoCommand
<1>5. Commanded' = speeds /\ command'[1] = "set"
  BY <1>1, <1>3, <1>4 DEF Commanded
<1>6. /\ ModeCall(LEFT, 1)' = Call("motor_driver_set_mode", LEFT, ModeOf(speeds[1]))
      /\ ModeCall(RIGHT, 2)' = Call("motor_driver_set_mode", RIGHT, ModeOf(speeds[2]))
      /\ DutyCall(LEFT, 1)' = Call("pwm_set_duty_cycle", LEFT, Abs(speeds[1]))
      /\ DutyCall(RIGHT, 2)' = Call("pwm_set_duty_cycle", RIGHT, Abs(speeds[2]))
  BY <1>5 DEF ModeCall, DutyCall, CommandedMode
<1>7. todo' \in Seq(Calls)
  <2>1. ASSUME NEW wheel \in {1, 2}
        PROVE  ModeOf(speeds[wheel]) \in 0 .. 100 /\ Abs(speeds[wheel]) \in 0 .. 100
    BY <1>2 DEF WheelSpeed, ModeOf, Abs, MOTOR_DRIVER_MODE_FORWARD, MOTOR_DRIVER_MODE_REVERSE
  <2>2. ASSUME NEW call \in {"motor_driver_set_mode", "pwm_set_duty_cycle"},
               NEW on \in Channels, NEW arg \in 0 .. 100
        PROVE  Call(call, on, arg) \in Calls
    BY DEF Call, Calls, Callees
  <2>3. LEFT \in Channels /\ RIGHT \in Channels
    BY DEF Channels
  <2> QED
    BY <1>3, <2>1, <2>2, <2>3
<1> QED
  BY <1>3, <1>4, <1>6, <1>7, CommandStep

LEMMA StopStep == ASSUME IInv, drive_stop PROVE IInv' /\ Allowed
<1>1. /\ Idle /\ command' = StopCommand /\ repeated' = (command = StopCommand)
      /\ todo' = <<Call("motor_driver_set_mode", LEFT, MOTOR_DRIVER_MODE_STOP),
                   Call("motor_driver_set_mode", RIGHT, MOTOR_DRIVER_MODE_STOP),
                   Call("pwm_set_duty_cycle", LEFT, 0), Call("pwm_set_duty_cycle", RIGHT, 0)>>
      /\ UNCHANGED <<pinVars, pwmVars>>
  BY DEF drive_stop, Command
<1>2. StopCommand # NoCommand /\ StopCommand[1] # "set"
  BY DEF StopCommand, NoCommand
<1>3. Commanded' = <<0, 0>> /\ command'[1] # "set" /\ Abs(0) = 0
  BY <1>1, <1>2 DEF Commanded, Abs
<1>4. /\ ModeCall(LEFT, 1)' = Call("motor_driver_set_mode", LEFT, MOTOR_DRIVER_MODE_STOP)
      /\ ModeCall(RIGHT, 2)' = Call("motor_driver_set_mode", RIGHT, MOTOR_DRIVER_MODE_STOP)
      /\ DutyCall(LEFT, 1)' = Call("pwm_set_duty_cycle", LEFT, 0)
      /\ DutyCall(RIGHT, 2)' = Call("pwm_set_duty_cycle", RIGHT, 0)
  BY <1>3 DEF ModeCall, DutyCall, CommandedMode
<1>5. todo' \in Seq(Calls)
  BY <1>1 DEF Call, Calls, Callees, Channels, MOTOR_DRIVER_MODE_STOP
<1> QED
  BY <1>1, <1>2, <1>4, <1>5, CommandStep

(* Every step keeps the invariant, and is one that the action properties allow. *)
LEMMA NextStep == ASSUME IInv, Next PROVE IInv' /\ Allowed
<1>1. CASE Idle
  <2>1. PICK direction \in Directions, speed \in Speeds :
          drive_set_direction_and_speed(direction, speed) \/ drive_stop
    <3>1. DRIVE_DIRECTION_FORWARD \in Directions /\ SLOW \in Speeds
      BY DEF DRIVE_DIRECTION_FORWARD, Directions, SLOW, Speeds
    <3> QED
      BY <1>1, <3>1
      DEF Next, Idle, Running, motor_driver_init, motor_driver_set_mode, PinStep, PwmStep,
          io_set_select, io_set_direction, io_set_out, io_set_resistor, pwm_init,
          PwmInitTimer, pwm_set_duty_cycle, pwm_channel_enable, pwm_timer_enable
  <2> QED
    BY <2>1, SetStep, StopStep
<1>2. CASE ~Idle /\ command = NoCommand
  BY <1>2, StartUpStep DEF Idle
<1>3. CASE ~Idle /\ command # NoCommand
  <2>1. SettingModes \/ SettingDuties
    BY <1>3 DEF IInv, DuringCommand
  <2>2. CASE SettingDuties
    BY <1>3, <2>2, DutyStep, ChannelStep, TimerStep, RightDutyStep DEF SettingDuties, Idle
  <2> QED
    BY <1>3, <2>1, <2>2, SettingModesStep
<1> QED
  BY <1>1, <1>2, <1>3

LEMMA StutterStep == ASSUME IInv, UNCHANGED driveVars PROVE IInv'
<1>1. TypeOK' /\ ChannelInv'
  BY DEF IInv, TypeOK, PinsTypeOK, PwmTypeOK, ChannelInv, Running
<1>2. command = NoCommand => StartUp'
  BY DEF IInv, StartUp, Configuring, DriverPins, PwmPin, From, DriverInitCalls, PwmInitCalls
<1>3. command # NoCommand => DuringCommand'
  <2>1. /\ Driven(CC1)' = Driven(CC1) /\ Driven(CC2)' = Driven(CC2)
        /\ DrivenByTimer(PWM_PIN)' = DrivenByTimer(PWM_PIN)
        /\ InMode(CommandedMode(1))' = InMode(CommandedMode(1))
        /\ InMode(CommandedMode(2))' = InMode(CommandedMode(2))
        /\ SomeMode' = SomeMode /\ Powered' = Powered /\ DutyWritten' = DutyWritten
    BY SameCommand DEF Driven, DrivenByTimer, SomeMode, InMode, Levelled, Powered, DutyWritten
  <2>2. SettingModes => SettingModes'
    BY <2>1, SameCommand DEF SettingModes
  <2>3. SettingDuties => SettingDuties'
    BY <2>1, SameCommand DEF SettingDuties
  <2> QED
    BY <2>1, <2>2, <2>3, SameCommand DEF IInv, DuringCommand, RepeatInv
<1> QED
  BY <1>1, <1>2, <1>3 DEF IInv
LEMMA InitIInv == Init => IInv
<1> SUFFICES ASSUME Init PROVE IInv
  OBVIOUS
<1>1. PinsTypeOK /\ PwmTypeOK
  <2>1. PinsTypeOK
    BY DEF Init, PinsInit, PinsTypeOK, Selects, IO_SELECT_GPIO, IO_SELECT_ALT1
  <2> QED
    BY <2>1 DEF Init, PwmInit, PwmTypeOK
<1>2. todo \in Seq(Calls) /\ ~repeated /\ command = NoCommand
  BY DEF Init, Call, Calls, Callees, Channels, ON
<1>3. TypeOK
  <2>1. repeated \in BOOLEAN
    BY DEF Init
  <2> QED
    BY <1>1, <1>2, <2>1 DEF TypeOK
<1>4. ChannelInv
  BY DEF Init, PwmInit, ChannelInv, Channels, ON, OFF
<1>5. StartUp
  <2>1. DriverPins(0)
    BY DEF Init, PinsInit, DriverPins
  <2> QED
    BY <1>2, <2>1 DEF Init, PwmInit, StartUp, Configuring, Channels
<1> QED
  BY <1>2, <1>3, <1>4, <1>5 DEF IInv

-----------------------------------------------------------------------------
(***************************************************************************)
(* The theorems.                                                           *)
(***************************************************************************)

(* The inductive invariant holds of every run of the drive layer.          *)
THEOREM InvariantHolds == Spec => []IInv
<1>1. IInv /\ [Next]_driveVars => IInv'
  BY NextStep, StutterStep
<1> QED
  BY InitIInv, <1>1, PTL DEF Spec

(* Every step is one the action properties allow.                          *)
LEMMA StepsAllowed == Spec => [][Allowed]_driveVars
<1>1. IInv /\ [Next]_driveVars => [Allowed]_driveVars
  BY NextStep
<1> QED
  BY <1>1, InvariantHolds, PTL DEF Spec

(* The calls to come are calls of functions of the code on pins and        *)
(* channels there are, and the registers hold what they can.               *)
THEOREM TypeCorrect == Spec => []TypeOK
<1>1. IInv => TypeOK
  BY DEF IInv
<1> QED
  BY <1>1, InvariantHolds, PTL

(* pwm_set_duty_cycle and pwm_channel_enable, whatever the command: an     *)
(* output that is on gives the motor some power, and never more than it    *)
(* stands.                                                                 *)
THEOREM SupplyNeverExceeded == Spec => []SupplyLimit
<1>1. IInv => SupplyLimit
  BY DEF IInv, ChannelInv, SupplyLimit, Channels, OUTMOD_0, OUTMOD_7
<1> QED
  BY <1>1, InvariantHolds, PTL

(* drive_set_direction_and_speed and drive_stop: when they return, the     *)
(* motor has the duty cycle and the mode they were called for.             *)
THEOREM CommandsTakeEffect == Spec => []CommandTakesEffect
<1>1. ASSUME IInv PROVE CommandTakesEffect
  <2> SUFFICES ASSUME Idle
               PROVE  Power = CommandedPower /\ (Straight => InMode(CommandedMode(1)))
    BY DEF CommandTakesEffect
  <2>1. TypeOK /\ ChannelInv
    BY <1>1 DEF IInv
  <2>2. CASE command = NoCommand
    <3>1. CommandedPower = 0 /\ CommandedMode(1) = MOTOR_DRIVER_MODE_STOP
      BY <2>1, <2>2, CommandFacts
    <3>2. CCTL[LEFT] # OUTMOD_7
      BY <1>1, <2>1, <2>2, AtRest DEF ChannelInv, Channels, ON, OFF, OUTMOD_0, OUTMOD_7
    <3> QED
      BY <1>1, <2>2, <3>1, <3>2, AtRest DEF Power
  <2>3. CASE command # NoCommand
    <3>1. Powered /\ InMode(CommandedMode(2)) /\ DrivenByTimer(PWM_PIN)
      BY <1>1, <2>3, AtRest
    <3>2. CASE Enable = ON
      <4>1. CCTL[LEFT] = OUTMOD_7 /\ MC = MC_1
        BY <2>1, <3>1, <3>2 DEF Powered, ChannelInv, Channels, Running, Idle
      <4> QED
        BY <3>1, <3>2, <4>1 DEF Powered, DutyWritten, Power, Straight
    <3>3. CASE Enable # ON
      <4>1. CCTL[LEFT] # OUTMOD_7
        BY <2>1, <3>1, <3>3 DEF Powered, ChannelInv, Channels, OUTMOD_0, OUTMOD_7
      <4>2. CommandedPower = 0
        BY <2>1, <3>3, CommandFacts DEF Enable
      <4> QED
        BY <3>1, <4>1, <4>2 DEF Power, Straight
    <3> QED
      BY <3>2, <3>3
  <2> QED
    BY <2>2, <2>3
<1> QED
  BY <1>1, InvariantHolds, PTL

(* motor_driver_set_mode: both pins are high only between its two writes.  *)
THEOREM BrakesEnd == Spec => []NoLastingBrake
<1>1. ASSUME IInv PROVE NoLastingBrake
  <2> SUFFICES ASSUME Braking
               PROVE  ~Idle /\ Head(todo).call = "io_set_out"
    BY DEF NoLastingBrake
  <2>1. TypeOK /\ CC2 \in outputs /\ P2OUT[CC1] = HIGH /\ P2OUT[CC2] = HIGH /\ HIGH # LOW
    BY <1>1 DEF IInv, Braking, Levelled, Driven, HIGH, LOW
  <2>2. \A mode \in Modes : ~InMode(mode)
    BY <2>1
    DEF InMode, Levelled, Levels, Modes, MOTOR_DRIVER_MODE_STOP, MOTOR_DRIVER_MODE_FORWARD,
        MOTOR_DRIVER_MODE_REVERSE
  <2>3. ~SomeMode /\ ~InMode(CommandedMode(1)) /\ ~InMode(CommandedMode(2))
    BY <2>1, <2>2, CommandFacts DEF SomeMode
  <2>4. command # NoCommand
    <3>1. ASSUME NEW n \in 0 .. 8, DriverPins(n) PROVE FALSE
      BY <2>1, <3>1 DEF DriverPins
    <3>2. ASSUME NEW n \in 1 .. 9 PROVE n - 1 \in 0 .. 8
      OBVIOUS
    <3> QED
      BY <1>1, <3>1, <3>2 DEF IInv, StartUp, Configuring
  <2>5. /\ SecondLevelCall(1) \in Calls /\ SecondLevelCall(2) \in Calls
        /\ Duties \in Seq(Calls) /\ RightWheelToo \in Seq(Calls)
    BY <2>1, CallTypes
  <2>6. \/ todo = <<SecondLevelCall(1)>> \o RightWheelToo
        \/ todo = <<SecondLevelCall(2)>> \o Duties
    BY <1>1, <2>3, <2>4 DEF IInv, DuringCommand, SettingModes, SettingDuties
  <2>7. todo # <<>> /\ Head(todo) \in {SecondLevelCall(1), SecondLevelCall(2)}
    BY <2>5, <2>6, FirstOfOne
  <2> QED
    BY <2>7 DEF Idle, SecondLevelCall, Call
<1> QED
  BY <1>1, InvariantHolds, PTL

(* pwm_set_duty_cycle writes the duty cycle before it enables the output.  *)
THEOREM DutyComesFirst == Spec => DutyBeforeOutput
<1>1. [Allowed]_driveVars =>
        [CCTL[LEFT] = OUTMOD_0 /\ CCTL'[LEFT] = OUTMOD_7
           => CCR[LEFT] = CommandedPower]_driveVars
  BY DEF Allowed
<1> QED
  BY <1>1, StepsAllowed, PTL DEF DutyBeforeOutput

(* drive_set_direction_and_speed sets the modes before the duty cycles:    *)
(* when both wheels have the same mode, the left motor gets more power     *)
(* only in that mode.  When they differ, the mode that stands is that of   *)
(* the right wheel, and for the left motor the theorem says nothing.       *)
THEOREM DirectionComesFirst == Spec => PowerAfterDirection
<1>1. [Allowed]_driveVars =>
        [Power' > Power /\ Straight => InMode(CommandedMode(1))]_driveVars
  BY DEF Allowed, Straight
<1> QED
  BY <1>1, StepsAllowed, PTL DEF PowerAfterDirection

(* A command given again, unless it is a rotation, writes nothing new.     *)
THEOREM RepeatsAreSilent == Spec => RepeatIsSilent
<1>1. [Allowed]_driveVars => [repeated /\ Straight => UNCHANGED <<registers, P2OUT>>]_driveVars
  BY DEF Allowed
<1> QED
  BY <1>1, StepsAllowed, PTL DEF RepeatIsSilent
=============================================================================
