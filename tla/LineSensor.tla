----------------------------- MODULE LineSensor -----------------------------
(***************************************************************************)
(* What line_get of voltage_to_line.h promises, whatever lies below it.    *)
(* From time to time the four sensors are sampled, all in one sequence.  A *)
(* call reports on the latest sequence and on no mixture of two.           *)
(***************************************************************************)

VARIABLES
  white,  \* The sensors on a white surface in the latest sequence.
  line    \* What line_get has returned last.

FRONT_LEFT == "front_left"
FRONT_RIGHT == "front_right"
BACK_LEFT == "back_left"
BACK_RIGHT == "back_right"
Sensors == {FRONT_LEFT, FRONT_RIGHT, BACK_LEFT, BACK_RIGHT}

(* The sensors that "detect white" at each value of line_e. *)
Detecting ==
  [LINE_NONE           |-> {},
   LINE_FRONT          |-> {FRONT_LEFT, FRONT_RIGHT},
   LINE_BACK           |-> {BACK_LEFT, BACK_RIGHT},
   LINE_LEFT           |-> {FRONT_LEFT, BACK_LEFT},
   LINE_RIGHT          |-> {FRONT_RIGHT, BACK_RIGHT},
   LINE_FRONT_LEFT     |-> {FRONT_LEFT},
   LINE_FRONT_RIGHT    |-> {FRONT_RIGHT},
   LINE_BACK_LEFT      |-> {BACK_LEFT},
   LINE_BACK_RIGHT     |-> {BACK_RIGHT},
   LINE_DIAGONAL_LEFT  |-> {FRONT_LEFT, BACK_RIGHT},
   LINE_DIAGONAL_RIGHT |-> {FRONT_RIGHT, BACK_LEFT}]

Lines == DOMAIN Detecting

(* A line names sensors that detect white, as many of them as a line can. *)
LinesOf(sensors) ==
  {l \in Lines :
     /\ Detecting[l] \subseteq sensors
     /\ \A m \in Lines : Detecting[l] \subseteq Detecting[m] /\ Detecting[m] \subseteq sensors
                           => Detecting[m] = Detecting[l]}

(* Nothing sampled is zero volts everywhere, which is white. *)
Init == white = Sensors /\ line = "LINE_NONE"

Sample == white' \in SUBSET Sensors /\ UNCHANGED line

Get == line' \in LinesOf(white) /\ UNCHANGED white

Spec == Init /\ [][Sample \/ Get]_<<white, line>>
=============================================================================
