-------------------------------- MODULE Pwm --------------------------------
(***************************************************************************)
(* The pulse width modulation of pwm.c: timer A1 and its two channels, and *)
(* what pwm.c remembers of them.  A call is carried out as in IoPins.tla,  *)
(* register write by register write.                                       *)
(***************************************************************************)
EXTENDS IoPins

VARIABLES
  enabled,  \* pwm_cfgs[].enabled.
  CCTL,     \* The output mode in TA1CCTL1 and TA1CCTL2.
  CCR,      \* TA1CCR1 and TA1CCR2.
  MC,       \* The mode in TA1CTL.
  restarts  \* The parity of the number of times TACLR was written.

registers == <<CCTL, CCR, MC, restarts>>
pwmVars == <<enabled, registers>>

LEFT == "left"
RIGHT == "right"
Channels == {LEFT, RIGHT}

OUTMOD_0 == 0  \* The output is low.
OUTMOD_7 == 7  \* Set at the start of a period, reset after CCR ticks.
MC_0 == 0      \* The timer stands.
MC_1 == 1      \* The timer counts periods of 100 ticks.

(* As in C, enable is 0 or 1. *)
OFF == 0
ON == 1

(* After reset: the timer stands and no output is driven. *)
PwmInit ==
  /\ enabled = [pwm \in Channels |-> OFF]
  /\ CCTL = [pwm \in Channels |-> OUTMOD_0]
  /\ CCR = [pwm \in Channels |-> 0]
  /\ MC = MC_0
  /\ restarts = 0

pwm_io_config ==
  [select |-> IO_SELECT_ALT1, resistor |-> IO_RESISTOR_DISABLED,
   dir |-> IO_DIR_OUTPUT, out |-> LOW]

(* The pin comes first, ... *)
pwm_init ==
  /\ Running("pwm_init")
  /\ Then(io_configure(PWM_PIN, pwm_io_config) \o <<Call("timer_a1", LEFT, OFF)>>)
  /\ UNCHANGED pwmVars

(* ... then the timer is given its clock and its period, but not started. *)
PwmInitTimer ==
  /\ Running("timer_a1")
  /\ MC' = MC_0
  /\ Then(<<>>)
  /\ UNCHANGED <<enabled, CCTL, CCR, restarts>>

(* Mutant: the duty cycle is not scaled. *)
ScaleForgotten(percent) == percent

(* Three quarters, as the motors stand 6 V and the battery has 8 V. *)
pwm_scale_duty_cycle(percent) ==
  IF percent = 1 THEN percent ELSE (percent \div 4) * 3

(* Mutant: a channel that is off does not get its duty cycle. *)
DutyWhileEnabled(pwm, percent) ==
  CCR' = IF enabled[pwm] = ON
         THEN [CCR EXCEPT ![pwm] = pwm_scale_duty_cycle(percent)]
         ELSE CCR

WriteDuty(pwm, percent) ==
  CCR' = [CCR EXCEPT ![pwm] = pwm_scale_duty_cycle(percent)]

(* The right channel is not connected.  A duty of 0 leaves the register as *)
(* it is and disables the channel.                                         *)
pwm_set_duty_cycle ==
  /\ Running("pwm_set_duty_cycle")
  /\ LET pwm == Head(todo).on
         percent == Head(todo).arg
     IN  \/ /\ pwm = RIGHT
            /\ Then(<<>>)
            /\ UNCHANGED CCR
         \/ /\ pwm # RIGHT
            /\ percent > 0
            /\ WriteDuty(pwm, percent)
            /\ Then(<<Call("pwm_channel_enable", pwm, ON)>>)
         \/ /\ pwm # RIGHT
            /\ percent = 0
            /\ Then(<<Call("pwm_channel_enable", pwm, OFF)>>)
            /\ UNCHANGED CCR
  /\ UNCHANGED <<enabled, CCTL, MC, restarts>>

pwm_all_channels_timer_disabled == \A pwm \in Channels : enabled[pwm] = OFF

(* Mutant: a channel counts as changed whenever it is enabled. *)
ChannelChangesOnEnable(pwm, enable) == enable = ON \/ enabled[pwm] # enable

ChannelChanges(pwm, enable) == enabled[pwm] # enable

(* The output follows `enabled`.  The timer starts with a channel, and is  *)
(* to stop with the last one.                                              *)
pwm_channel_enable ==
  /\ Running("pwm_channel_enable")
  /\ LET pwm == Head(todo).on
         enable == Head(todo).arg
     IN  \/ /\ ~ChannelChanges(pwm, enable)
            /\ Then(<<>>)
            /\ UNCHANGED <<enabled, CCTL>>
         \/ /\ ChannelChanges(pwm, enable)
            /\ CCTL' = [CCTL EXCEPT ![pwm] = IF enable = ON THEN OUTMOD_7 ELSE OUTMOD_0]
            /\ enabled' = [enabled EXCEPT ![pwm] = enable]
            /\ IF enable = ON \/ pwm_all_channels_timer_disabled'
               THEN Then(<<Call("pwm_timer_enable", pwm, enable)>>)
               ELSE Then(<<>>)
  /\ UNCHANGED <<CCR, MC, restarts>>

(* A static of pwm.c, which no line assigns. *)
pwm_enabled == OFF

(* TACLR starts a new period. *)
pwm_timer_enable ==
  /\ Running("pwm_timer_enable")
  /\ Then(<<>>)
  /\ LET enable == Head(todo).arg
     IN  \/ /\ pwm_enabled # enable
            /\ MC' = IF enable = ON THEN MC_1 ELSE MC_0
            /\ restarts' = 1 - restarts
         \/ /\ pwm_enabled = enable
            /\ UNCHANGED <<MC, restarts>>
  /\ UNCHANGED <<enabled, CCTL, CCR>>

PwmStep ==
  \/ pwm_init
  \/ PwmInitTimer
  \/ pwm_set_duty_cycle
  \/ pwm_channel_enable
  \/ pwm_timer_enable

PwmTypeOK ==
  /\ enabled \in [Channels -> {OFF, ON}]
  /\ CCTL \in [Channels -> {OUTMOD_0, OUTMOD_7}]
  /\ CCR \in [Channels -> 0 .. 99]
  /\ MC \in {MC_0, MC_1}
  /\ restarts \in {0, 1}

(* What the left motor gets of the supply voltage, in percent. *)
Power ==
  IF CCTL[LEFT] = OUTMOD_7 /\ MC = MC_1 /\ DrivenByTimer(PWM_PIN) THEN CCR[LEFT] ELSE 0
=============================================================================
