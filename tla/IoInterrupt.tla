---------------------------- MODULE IoInterrupt ----------------------------
(***************************************************************************)
(* The pin interrupts of io.c: the table of handlers, the functions that   *)
(* configure the interrupt of a pin, and the two port ISRs.                *)
(*                                                                         *)
(* One action is one statement of main that writes a register or the       *)
(* table, or one step of io_isr.  An ISR runs to completion before main    *)
(* goes on.  Edges arrive at any time, inside the ISR and inside a handler *)
(* too.  A statement that changes one bit of a register leaves the others  *)
(* alone, as BIS.B and BIC.B do.                                           *)
(***************************************************************************)
EXTENDS Integers

CONSTANTS
  PIN_CNT_PER_PORT,  \* 8.
  Handlers,          \* The functions that may be registered.
  NULL,              \* No function.
  UsedIos,           \* The pins that the board uses.
  MaxEdges           \* Bound: the edges that arrive.

ASSUME PinCountAssumption == PIN_CNT_PER_PORT \in 1 .. 8
ASSUME HandlersAssumption == NULL \notin Handlers
ASSUME EdgesAssumption == MaxEdges \in Nat

IO_PORT_CNT == 2
Ports == 0 .. IO_PORT_CNT - 1
Ios == 0 .. IO_PORT_CNT * PIN_CNT_PER_PORT - 1

ASSUME UsedAssumption == UsedIos \subseteq Ios

(* A pin's port, from the upper bits of its number. *)
io_port(io) == io \div PIN_CNT_PER_PORT

VARIABLES
  IFG,            \* The pins whose interrupt flag is set (P1IFG and P2IFG).
  IE,             \* The pins whose interrupt is enabled.
  IES,            \* The pins whose flag is set by a falling edge.
  isr_functions,  \* The handler of each pin.
  pc,             \* Where main is.
  args,           \* The arguments of its call: pin, trigger and handler.
  isr,            \* Where the port ISR is: "off", "test", "handler" or "clear".
  served,         \* The loop index of the port ISR.
  edges,          \* Edges so far.
  flagged,        \* History: pins with an edge of their trigger since the last clear.
  unserved        \* History: enabled pins with an edge that no handler has begun to serve.

history == <<flagged, unserved>>
isrVars == <<isr, served>>
vars == <<edges, IFG, IE, IES, isr_functions, pc, args, isrVars, history>>

RISING == "IO_TRIGGER_RISING"
FALLING == "IO_TRIGGER_FALLING"

NoArgs == [io |-> 0, trigger |-> RISING, handler |-> NULL]

(* After power-up; the edge select registers hold anything. *)
Init ==
  /\ IES \in SUBSET UsedIos
  /\ IFG = {} /\ IE = {}
  /\ isr_functions = [io \in Ios |-> NULL]
  /\ pc = "idle" /\ args = NoArgs
  /\ isr = "off" /\ served = 0
  /\ edges = 0
  /\ flagged = {} /\ unserved = {}

-----------------------------------------------------------------------------
(***************************************************************************)
(* The pins (external).  An edge that comes while io_isr is between the    *)
(* call of the pin's handler and the clearing of its flag is not counted   *)
(* as unserved: the code loses it.                                         *)
(***************************************************************************)

InService(io) == isr \in {"handler", "clear"} /\ served = io

(* An edge that the pin's trigger selects; the other edge does nothing. *)
Edge(io, trigger) ==
  /\ edges < MaxEdges
  /\ (trigger = FALLING) = (io \in IES)
  /\ edges' = edges + 1
  /\ IFG' = IFG \cup {io}
  /\ flagged' = flagged \cup {io}
  /\ unserved' = IF io \in IE /\ isr_functions[io] # NULL /\ ~InService(io)
                 THEN unserved \cup {io} ELSE unserved
  /\ UNCHANGED <<IE, IES, isr_functions, pc, args, isrVars>>

-----------------------------------------------------------------------------
(***************************************************************************)
(* Main.  The client gives a handler to a pin that has none.               *)
(***************************************************************************)

MainStep(from, to) ==
  /\ isr = "off"
  /\ pc = from
  /\ pc' = to

BeginCall(to, io, trigger, handler) ==
  /\ MainStep("idle", to)
  /\ args' = [io |-> io, trigger |-> trigger, handler |-> handler]
  /\ UNCHANGED <<edges, IFG, IE, IES, isr_functions, isrVars, history>>

io_configure_interrupt(io, trigger, handler) ==
  isr_functions[io] = NULL /\ BeginCall("trigger", io, trigger, handler)

io_deconfigure_interrupt(io) == BeginCall("unregister", io, RISING, NULL)

io_enable_interrupt(io) ==
  /\ MainStep("idle", "idle")
  /\ IE' = IE \cup {io}
  /\ UNCHANGED <<edges, IFG, IES, isr_functions, args, isrVars, history>>

io_disable_interrupt(io) ==
  /\ MainStep("idle", "idle")
  /\ IE' = IE \ {io}
  /\ UNCHANGED <<edges, IFG, IES, isr_functions, args, isrVars, history>>

(* io_set_interrupt_trigger disables the interrupt first, ... *)
TriggerDisable ==
  /\ MainStep("trigger", "select")
  /\ IE' = IE \ {args.io}
  /\ UNCHANGED <<edges, IFG, IES, isr_functions, args, isrVars, history>>

(* ... then selects the edge, which may set the flag if it is another one, *)
(* as the level of the pin has it, ...                                     *)
TriggerSelect ==
  /\ MainStep("select", "clear")
  /\ IES' = IF args.trigger = FALLING THEN IES \cup {args.io} ELSE IES \ {args.io}
  /\ \/ IFG' = IFG
     \/ IES' # IES /\ IFG' = IFG \cup {args.io}
  /\ UNCHANGED <<edges, IE, isr_functions, args, isrVars, history>>

(* Mutant: the flag is left as selecting the edge has made it. *)
TriggerClearForgotten ==
  /\ MainStep("clear", "register")
  /\ UNCHANGED <<edges, IFG, IE, IES, isr_functions, args, isrVars, history>>

(* io_clear_interrupt of a pin. *)
io_clear_interrupt(io) ==
  /\ IFG' = IFG \ {io}
  /\ flagged' = flagged \ {io}

(* ... and clears the flag. *)
TriggerClear ==
  /\ MainStep("clear", "register")
  /\ io_clear_interrupt(args.io)
  /\ UNCHANGED <<edges, IE, IES, isr_functions, args, isrVars, unserved>>

(* io_register_isr. *)
Register ==
  /\ MainStep("register", "idle")
  /\ isr_functions' = [isr_functions EXCEPT ![args.io] = args.handler]
  /\ args' = NoArgs
  /\ UNCHANGED <<edges, IFG, IE, IES, isrVars, history>>

(* io_unregister_isr, in io_deconfigure_interrupt. *)
Unregister ==
  /\ MainStep("unregister", "disable")
  /\ isr_functions' = [isr_functions EXCEPT ![args.io] = NULL]
  /\ unserved' = unserved \ {args.io}
  /\ UNCHANGED <<edges, IFG, IE, IES, args, isrVars, flagged>>

DeconfigureDisable ==
  /\ MainStep("disable", "idle")
  /\ IE' = IE \ {args.io}
  /\ args' = NoArgs
  /\ UNCHANGED <<edges, IFG, IES, isr_functions, isrVars, history>>

Main ==
  TriggerDisable \/ TriggerSelect \/ TriggerClear \/ Register \/ Unregister \/ DeconfigureDisable

-----------------------------------------------------------------------------
(***************************************************************************)
(* isr_port_1 and isr_port_2: io_isr of every pin of the port, in order.   *)
(***************************************************************************)

IsrStep(from, to) ==
  /\ isr = from
  /\ isr' = to
  /\ UNCHANGED <<edges, IE, IES, isr_functions, pc, args>>

(* Mutant: the ports are counted from 1. *)
FirstPinPast(port) == (port + 1) * PIN_CNT_PER_PORT

FirstPin(port) == port * PIN_CNT_PER_PORT

(* The CPU accepts the interrupt of a port. *)
IsrEnter(port) ==
  /\ \E io \in IE \cap IFG : io_port(io) = port
  /\ IsrStep("off", "test")
  /\ served' = FirstPin(port)
  /\ UNCHANGED <<IFG, history>>

LastPin(io) == (io + 1) % PIN_CNT_PER_PORT = 0

(* Mutant: the loop ends one pin early. *)
NextPinShort ==
  /\ isr' = IF LastPin(served) \/ LastPin(served + 1) THEN "off" ELSE "test"
  /\ served' = IF isr' = "off" THEN 0 ELSE served + 1

(* The loop goes on with the next pin, or the ISR returns. *)
NextPin ==
  /\ isr' = IF LastPin(served) THEN "off" ELSE "test"
  /\ served' = IF LastPin(served) THEN 0 ELSE served + 1

IsrSkip ==
  /\ isr = "test" /\ served \notin IFG
  /\ NextPin
  /\ UNCHANGED <<edges, IFG, IE, IES, isr_functions, pc, args, history>>

(* The flag is set: the handler is called, if there is one. *)
IsrCall ==
  /\ served \in IFG
  /\ IsrStep("test", IF isr_functions[served] # NULL THEN "handler" ELSE "clear")
  /\ unserved' = unserved \ {served}
  /\ UNCHANGED <<IFG, flagged, served>>

HandlerReturn ==
  /\ IsrStep("handler", "clear")
  /\ UNCHANGED <<IFG, history, served>>

(* Mutant: every flag of the port is cleared. *)
IsrClearPort ==
  /\ isr = "clear"
  /\ IFG' = {io \in IFG : io_port(io) # io_port(served)}
  /\ flagged' = flagged \cap IFG'
  /\ NextPin
  /\ UNCHANGED <<edges, IE, IES, isr_functions, pc, args, unserved>>

(* Mutant: the flag of a pin without a handler is left set. *)
IsrClearHandled ==
  /\ isr = "clear"
  /\ IF isr_functions[served] # NULL
     THEN io_clear_interrupt(served)
     ELSE UNCHANGED <<IFG, flagged>>
  /\ NextPin
  /\ UNCHANGED <<edges, IE, IES, isr_functions, pc, args, unserved>>

(* The flag is cleared, whether or not there was a handler. *)
IsrClear ==
  /\ isr = "clear"
  /\ io_clear_interrupt(served)
  /\ NextPin
  /\ UNCHANGED <<edges, IE, IES, isr_functions, pc, args, unserved>>

Isr == IsrSkip \/ IsrCall \/ HandlerReturn \/ IsrClear

Next ==
  \/ \E io \in UsedIos, trigger \in {RISING, FALLING} : Edge(io, trigger)
  \/ \E io \in UsedIos, trigger \in {RISING, FALLING}, handler \in Handlers :
       io_configure_interrupt(io, trigger, handler)
  \/ \E io \in UsedIos :
       io_deconfigure_interrupt(io) \/ io_enable_interrupt(io) \/ io_disable_interrupt(io)
  \/ Main
  \/ \E port \in Ports : IsrEnter(port)
  \/ Isr

(* A call goes on when no ISR runs, an ISR and its handlers go on, and an  *)
(* interrupt that is pending and enabled is accepted.                      *)
Spec ==
  /\ Init /\ [][Next]_vars
  /\ WF_vars(Main) /\ WF_vars(Isr)
  /\ \A port \in Ports : SF_vars(IsrEnter(port))

-----------------------------------------------------------------------------
(***************************************************************************)
(* Properties.                                                             *)
(***************************************************************************)

TypeOK ==
  /\ {IFG, IE, IES, flagged, unserved} \subseteq SUBSET Ios
  /\ isr_functions \in [Ios -> Handlers \cup {NULL}]
  /\ pc \in {"idle", "trigger", "select", "clear", "register", "unregister", "disable"}
  /\ args \in [io : Ios, trigger : {RISING, FALLING}, handler : Handlers \cup {NULL}]
  /\ isr \in {"off", "test", "handler", "clear"} /\ served \in Ios
  /\ edges \in 0 .. MaxEdges

(* Selecting the edge of a pin may set its flag: no handler is ever called *)
(* for that, although the ISR of the port may run at any moment for        *)
(* another pin and looks at flags that are not enabled.  Every call has an *)
(* edge of the pin's trigger behind it.                                    *)
NoPhantomCall == isr = "handler" => served \in flagged

(* An edge of an enabled pin keeps its flag until its handler starts,      *)
(* whatever other pins the ISR serves and whatever main configures.        *)
EdgeKept == unserved \subseteq IFG

(* ... and the handler does start, unless main disables the interrupt.     *)
EdgeServed ==
  \A io \in Ios : io \in unserved /\ io \in IE ~> io \notin unserved \/ io \notin IE

(* A call of main returns: no flag that nobody clears, such as that of an  *)
(* enabled pin without a handler, keeps the CPU in the port ISR.           *)
CallReturns == pc # "idle" ~> pc = "idle"

-----------------------------------------------------------------------------
(***************************************************************************)
(* The inductive invariant of the proofs.                                  *)
(***************************************************************************)

HasHandler(io) == isr_functions[io] # NULL

(* A pin that is being configured has no handler until the last statement, *)
(* and by then its flag is that of an edge.                                *)
ConfigureInv ==
  /\ pc \in {"trigger", "select", "clear", "register"} => ~HasHandler(args.io)
  /\ pc = "register" /\ args.io \in IFG => args.io \in flagged

(* The flag of a pin with a handler comes from an edge of its trigger.     *)
FlagInv == \A io \in IFG : HasHandler(io) => io \in flagged

(* An edge that waits to be served is that of a pin with a handler, and    *)
(* not of the pin in service, whose flag is about to be cleared.           *)
UnservedInv == \A io \in unserved : HasHandler(io) /\ ~InService(io)

(* Why no call is a phantom and no edge is lost.                           *)
IInv ==
  /\ TypeOK /\ NoPhantomCall /\ EdgeKept
  /\ ConfigureInv /\ FlagInv /\ UnservedInv
=============================================================================
