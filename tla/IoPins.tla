------------------------------- MODULE IoPins -------------------------------
(***************************************************************************)
(* The pins of port 2 that the motors use, and the functions of io.c that  *)
(* configure and set a pin.                                                *)
(*                                                                         *)
(* The motors see every register write, so a call is not atomic here.      *)
(* `todo` holds the calls main has yet to carry out, the next one first.   *)
(* An action carries out the head: it writes the registers and puts the    *)
(* calls the C function makes after that in the head's place.              *)
(***************************************************************************)
EXTENDS Integers, Sequences

VARIABLES
  todo,       \* The calls to carry out.
  select,     \* The function of each pin, from P2SEL and P2SEL2.
  outputs,    \* The pins with their bit of P2DIR set.
  P2OUT,      \* The output bits.
  resistors   \* The pins with their bit of P2REN set.

pinVars == <<select, outputs, P2OUT, resistors>>

Call(call, on, arg) == [call |-> call, on |-> on, arg |-> arg]
Running(call) == todo # <<>> /\ Head(todo).call = call
Then(calls) == todo' = calls \o Tail(todo)
Idle == todo = <<>>

(* P2.6, P2.7 and P2.1. *)
CC1 == "CC1"
CC2 == "CC2"
PWM_PIN == "PWM"
Pins == {CC1, CC2, PWM_PIN}

IO_SELECT_GPIO == 0
IO_SELECT_ALT1 == 1
Selects == 0 .. 3
IO_RESISTOR_DISABLED == 0
IO_RESISTOR_ENABLED == 1
IO_DIR_INPUT == 0
IO_DIR_OUTPUT == 1
LOW == 0
HIGH == 1

(* After reset P2.6 and P2.7 belong to the crystal.  P2OUT is not reset. *)
PinsInit ==
  /\ select = [pin \in Pins |-> IF pin = PWM_PIN THEN IO_SELECT_GPIO ELSE IO_SELECT_ALT1]
  /\ outputs = {}
  /\ P2OUT \in [Pins -> {LOW, HIGH}]
  /\ resistors = {}

(* The calls that io_configure makes. *)
io_configure(pin, config) ==
  <<Call("io_set_select", pin, config.select), Call("io_set_direction", pin, config.dir),
    Call("io_set_out", pin, config.out), Call("io_set_resistor", pin, config.resistor)>>

io_set_select ==
  /\ Running("io_set_select")
  /\ select' = [select EXCEPT ![Head(todo).on] = Head(todo).arg]
  /\ Then(<<>>)
  /\ UNCHANGED <<outputs, P2OUT, resistors>>

io_set_direction ==
  /\ Running("io_set_direction")
  /\ LET pin == Head(todo).on
     IN  outputs' = IF Head(todo).arg = IO_DIR_OUTPUT THEN outputs \cup {pin}
                    ELSE outputs \ {pin}
  /\ Then(<<>>)
  /\ UNCHANGED <<select, P2OUT, resistors>>

io_set_resistor ==
  /\ Running("io_set_resistor")
  /\ LET pin == Head(todo).on
     IN  resistors' = IF Head(todo).arg = IO_RESISTOR_ENABLED THEN resistors \cup {pin}
                      ELSE resistors \ {pin}
  /\ Then(<<>>)
  /\ UNCHANGED <<select, outputs, P2OUT>>

io_set_out ==
  /\ Running("io_set_out")
  /\ P2OUT' = [P2OUT EXCEPT ![Head(todo).on] = Head(todo).arg]
  /\ Then(<<>>)
  /\ UNCHANGED <<select, outputs, resistors>>

PinStep == io_set_select \/ io_set_direction \/ io_set_resistor \/ io_set_out

(* A pin is driven by P2OUT, or by the timer. *)
Driven(pin) == pin \in outputs /\ select[pin] = IO_SELECT_GPIO
DrivenByTimer(pin) == pin \in outputs /\ select[pin] = IO_SELECT_ALT1

PinsTypeOK ==
  /\ select \in [Pins -> Selects]
  /\ {outputs, resistors} \subseteq SUBSET Pins
  /\ P2OUT \in [Pins -> {LOW, HIGH}]
=============================================================================
