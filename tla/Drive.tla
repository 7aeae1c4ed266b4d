------------------------------- MODULE Drive -------------------------------
(***************************************************************************)
(* The drive layer of drive_application.c on the motor driver of           *)
(* motor_driver.c, which sets two direction pins through io.c and a duty   *)
(* cycle through pwm.c.                                                    *)
(*                                                                         *)
(* Main alone uses these components, one call after the other, but each    *)
(* register write reaches the motor at once.  The properties are about     *)
(* what the motor gets during a call and after it.                         *)
(***************************************************************************)
EXTENDS Pwm

VARIABLES
  command,  \* History: the last command of the client.
  repeated  \* History: it is the same as the one before.

driveVars == <<todo, pinVars, pwmVars, command, repeated>>

MOTOR_DRIVER_MODE_STOP == 0
MOTOR_DRIVER_MODE_FORWARD == 1
MOTOR_DRIVER_MODE_REVERSE == 2

(* Each primary direction is even, and its inverse follows it. *)
DRIVE_DIRECTION_FORWARD == 0
DRIVE_DIRECTION_ROTATE_LEFT == 2
DRIVE_DIRECTION_ARCTURN_SHARP_LEFT == 4
DRIVE_DIRECTION_ARCTURN_MID_LEFT == 6
DRIVE_DIRECTION_ARCTURN_WIDE_LEFT == 8
Directions == 0 .. 9

SLOW == 0
MEDIUM == 1
FAST == 2
MAX == 3
Speeds == {SLOW, MEDIUM, FAST, MAX}

-----------------------------------------------------------------------------
(***************************************************************************)
(* drive_application.c: the speeds of a command.                           *)
(***************************************************************************)

(* One row of the table.  Each row initialises FAST twice, so that the     *)
(* second pair holds and MAX is left zero.                                 *)
Row(slow, medium, fast) ==
  [speed \in Speeds |->
     CASE speed = SLOW -> slow [] speed = MEDIUM -> medium [] speed = FAST -> fast
       [] OTHER -> <<0, 0>>]

(* The speeds of the left and the right wheel, in percent. *)
drive_primary_direction_and_their_speeds(primary) ==
  CASE primary = DRIVE_DIRECTION_FORWARD -> Row(<<25, 25>>, <<45, 45>>, <<100, 100>>)
    [] primary = DRIVE_DIRECTION_ROTATE_LEFT -> Row(<<-25, 25>>, <<-45, 45>>, <<-100, 100>>)
    [] primary = DRIVE_DIRECTION_ARCTURN_SHARP_LEFT -> Row(<<-10, 25>>, <<-10, 50>>, <<-20, 100>>)
    [] primary = DRIVE_DIRECTION_ARCTURN_MID_LEFT -> Row(<<15, 30>>, <<25, 50>>, <<50, 100>>)
    [] primary = DRIVE_DIRECTION_ARCTURN_WIDE_LEFT -> Row(<<20, 25>>, <<40, 50>>, <<80, 100>>)

(* Equal speeds change their sign, others change sides. *)
drive_inverse_speeds(speeds) ==
  IF speeds[1] = speeds[2] THEN <<-speeds[1], -speeds[2]>> ELSE <<speeds[2], speeds[1]>>

WheelSpeeds(direction, speed) ==
  LET primary == direction - (direction % 2)
      speeds  == drive_primary_direction_and_their_speeds(primary)[speed]
  IN  IF direction # primary THEN drive_inverse_speeds(speeds) ELSE speeds

ModeOf(speed) == IF speed > 0 THEN MOTOR_DRIVER_MODE_FORWARD ELSE MOTOR_DRIVER_MODE_REVERSE

(* Mutant: the speed of a wheel that turns backwards stays negative. *)
AbsForgotten(speed) == speed

Abs(speed) == IF speed >= 0 THEN speed ELSE -speed

-----------------------------------------------------------------------------
(***************************************************************************)
(* The client: one call at a time, drive_init first and once.              *)
(***************************************************************************)

NoCommand == <<"none">>
StopCommand == <<"stop">>
SetCommand(direction, speed) == <<"set", direction, speed>>

(* The client gives a command, which makes these calls. *)
Command(new, calls) ==
  /\ Idle
  /\ todo' = calls
  /\ command' = new
  /\ repeated' = (command = new)
  /\ UNCHANGED <<pinVars, pwmVars>>

(* After reset, in drive_init. *)
Init ==
  /\ PinsInit /\ PwmInit
  /\ todo = <<Call("motor_driver_init", LEFT, ON)>>
  /\ command = NoCommand
  /\ repeated = FALSE

(* Mutant: the power comes before the direction. *)
SetsSpeedFirst(direction, speed) ==
  LET speeds == WheelSpeeds(direction, speed)
  IN  Command(SetCommand(direction, speed),
              <<Call("pwm_set_duty_cycle", LEFT, Abs(speeds[1])),
                Call("pwm_set_duty_cycle", RIGHT, Abs(speeds[2])),
                Call("motor_driver_set_mode", LEFT, ModeOf(speeds[1])),
                Call("motor_driver_set_mode", RIGHT, ModeOf(speeds[2]))>>)

(* Both modes, then both duty cycles; motor_driver_set_pwm only calls      *)
(* pwm_set_duty_cycle.                                                     *)
drive_set_direction_and_speed(direction, speed) ==
  LET speeds == WheelSpeeds(direction, speed)
  IN  Command(SetCommand(direction, speed),
              <<Call("motor_driver_set_mode", LEFT, ModeOf(speeds[1])),
                Call("motor_driver_set_mode", RIGHT, ModeOf(speeds[2])),
                Call("pwm_set_duty_cycle", LEFT, Abs(speeds[1])),
                Call("pwm_set_duty_cycle", RIGHT, Abs(speeds[2]))>>)

(* Mutant: the channels are left as they are. *)
StopKeepsDuty ==
  Command(StopCommand,
          <<Call("motor_driver_set_mode", LEFT, MOTOR_DRIVER_MODE_STOP),
            Call("motor_driver_set_mode", RIGHT, MOTOR_DRIVER_MODE_STOP)>>)

drive_stop ==
  Command(StopCommand,
          <<Call("motor_driver_set_mode", LEFT, MOTOR_DRIVER_MODE_STOP),
            Call("motor_driver_set_mode", RIGHT, MOTOR_DRIVER_MODE_STOP),
            Call("pwm_set_duty_cycle", LEFT, 0),
            Call("pwm_set_duty_cycle", RIGHT, 0)>>)

-----------------------------------------------------------------------------
(***************************************************************************)
(* motor_driver.c.                                                         *)
(***************************************************************************)

cc_io_config ==
  [select |-> IO_SELECT_GPIO, resistor |-> IO_RESISTOR_DISABLED,
   dir |-> IO_DIR_OUTPUT, out |-> LOW]

motor_driver_init ==
  /\ Running("motor_driver_init")
  /\ Then(io_configure(CC1, cc_io_config) \o io_configure(CC2, cc_io_config)
            \o <<Call("pwm_init", LEFT, ON)>>)
  /\ UNCHANGED <<pinVars, pwmVars, command, repeated>>

(* The levels of CC1 and CC2 in a mode. *)
Levels(mode) ==
  CASE mode = MOTOR_DRIVER_MODE_STOP -> <<LOW, LOW>>
    [] mode = MOTOR_DRIVER_MODE_FORWARD -> <<HIGH, LOW>>
    [] mode = MOTOR_DRIVER_MODE_REVERSE -> <<LOW, HIGH>>

(* Mutant: the second pin is left as it is unless the motor reverses. *)
SetModeHalf ==
  /\ Running("motor_driver_set_mode")
  /\ LET levels == Levels(Head(todo).arg)
     IN  Then(IF levels[2] = HIGH
              THEN <<Call("io_set_out", CC1, levels[1]), Call("io_set_out", CC2, levels[2])>>
              ELSE <<Call("io_set_out", CC1, levels[1])>>)
  /\ UNCHANGED <<pinVars, pwmVars, command, repeated>>

(* Both motor drivers have the pins of the left one. *)
motor_driver_set_mode ==
  /\ Running("motor_driver_set_mode")
  /\ LET levels == Levels(Head(todo).arg)
     IN  Then(<<Call("io_set_out", CC1, levels[1]), Call("io_set_out", CC2, levels[2])>>)
  /\ UNCHANGED <<pinVars, pwmVars, command, repeated>>

Next ==
  \/ \E direction \in Directions, speed \in Speeds :
       drive_set_direction_and_speed(direction, speed)
  \/ drive_stop
  \/ motor_driver_init
  \/ motor_driver_set_mode
  \/ PinStep /\ UNCHANGED <<pwmVars, command, repeated>>
  \/ PwmStep /\ UNCHANGED <<pinVars, command, repeated>>

Spec == Init /\ [][Next]_driveVars

-----------------------------------------------------------------------------
(***************************************************************************)
(* Properties.                                                             *)
(***************************************************************************)

(* What the pins make the left motor do.  Both high is a short brake. *)
Levelled(level1, level2) ==
  Driven(CC1) /\ Driven(CC2) /\ P2OUT[CC1] = level1 /\ P2OUT[CC2] = level2
InMode(mode) == Levelled(Levels(mode)[1], Levels(mode)[2])
Braking == Levelled(HIGH, HIGH)

(* The speeds the last command gives to the wheels, and their modes. *)
Commanded == IF command[1] = "set" THEN WheelSpeeds(command[2], command[3]) ELSE <<0, 0>>
CommandedMode(wheel) ==
  IF command[1] = "set" THEN ModeOf(Commanded[wheel]) ELSE MOTOR_DRIVER_MODE_STOP
CommandedPower == pwm_scale_duty_cycle(Abs(Commanded[1]))
Straight == CommandedMode(1) = CommandedMode(2)

Callees ==
  {"motor_driver_init", "motor_driver_set_mode", "io_set_select", "io_set_direction",
   "io_set_out", "io_set_resistor", "pwm_init", "timer_a1", "pwm_set_duty_cycle",
   "pwm_channel_enable", "pwm_timer_enable"}

Calls == [call : Callees, on : Channels \cup Pins, arg : 0 .. 100]

TypeOK ==
  /\ PinsTypeOK /\ PwmTypeOK
  /\ todo \in Seq(Calls)
  /\ command \in {NoCommand, StopCommand} \cup {"set"} \X Directions \X Speeds
  /\ repeated \in BOOLEAN

(* The 6 V motors never get more than three quarters of the 8 V battery,   *)
(* and no command leaves a channel on that gives nothing.                  *)
SupplyLimit == CCTL[LEFT] = OUTMOD_7 => CCR[LEFT] \in 1 .. 75

(* When a channel comes on, its register holds the duty cycle of the       *)
(* command that turns it on: the motor never starts at an older duty.      *)
DutyBeforeOutput ==
  [][CCTL[LEFT] = OUTMOD_0 /\ CCTL'[LEFT] = OUTMOD_7 => CCR[LEFT] = CommandedPower]_driveVars

(* The left motor gets more power only when its pins already stand in the  *)
(* mode of the command: when both wheels turn the same way, it is never    *)
(* accelerated in the direction it is to leave.  For a rotation or a sharp *)
(* arc this is false, as the mode of the right wheel stands in its place   *)
(* (LeftModeSet): REVERSE and then ROTATE_RIGHT, faster, drives the left   *)
(* motor harder backwards.                                                 *)
PowerAfterDirection ==
  [][Power' > Power /\ Straight => InMode(CommandedMode(1))]_driveVars

(* When a call has returned, the motor has the duty cycle commanded, none  *)
(* after drive_stop; and the mode commanded, if the command gives the same *)
(* mode to both wheels, whose pins are the same.                           *)
CommandTakesEffect ==
  Idle => /\ Power = CommandedPower
          /\ Straight => InMode(CommandedMode(1))

(* The short brake on the way from REVERSE to FORWARD ends with the very   *)
(* next statement, the write of the other pin.                             *)
NoLastingBrake == Braking => ~Idle /\ Head(todo).call = "io_set_out"

(* A main loop that gives the same command again and again, as long as it  *)
(* is not a rotation, disturbs neither the pins nor the PWM period.        *)
RepeatIsSilent == [][repeated /\ Straight => UNCHANGED <<registers, P2OUT>>]_driveVars

(* "The highest duty cycle for max speed". *)
MaxIsFastest ==
  Idle /\ command[1] = "set" /\ command[3] = MAX =>
    \A speed \in Speeds : Power >= pwm_scale_duty_cycle(Abs(WheelSpeeds(command[2], speed)[1]))

(* "The appropriate mode has been set either forward or reverse for left   *)
(* motor driver".                                                          *)
LeftModeSet == Idle /\ command[1] = "set" => InMode(CommandedMode(1))
=============================================================================
