------------------------- MODULE IoInterruptProofs -------------------------
(***************************************************************************)
(* The safety properties of the pin interrupts, for every number of pins   *)
(* of a port, every set of handlers and any number of edges: no handler is *)
(* called without an edge, and no edge is lost before its handler starts.  *)
(***************************************************************************)
EXTENDS IoInterrupt, TLAPS

(* The pin numbers, as an interval of their own. *)
LEMMA IosFacts ==
  /\ Ios \subseteq Nat /\ 0 \in Ios
  /\ UsedIos \subseteq Ios
  /\ \A port \in Ports : FirstPin(port) \in Ios
  /\ \A io \in Ios : ~LastPin(io) => io + 1 \in Ios
<1>1. PIN_CNT_PER_PORT \in 1 .. 8
  BY PinCountAssumption
<1>2. Ios = 0 .. 2 * PIN_CNT_PER_PORT - 1
  BY DEF Ios, IO_PORT_CNT
<1>3. \A port \in Ports : FirstPin(port) \in Ios
  BY <1>1, <1>2 DEF Ports, IO_PORT_CNT, FirstPin
<1>4. ASSUME NEW io \in Ios, ~LastPin(io)
      PROVE  io + 1 \in Ios
  <2>1. (2 * PIN_CNT_PER_PORT) % PIN_CNT_PER_PORT = 0
    BY <1>1, SMTT(30)
  <2>2. io + 1 # 2 * PIN_CNT_PER_PORT
    BY <1>4, <2>1 DEF LastPin
  <2> QED
    BY <1>1, <1>2, <2>2
<1> QED
  BY <1>1, <1>2, <1>3, <1>4, UsedAssumption

(* After power-up no pin has a handler, and no edge has come. *)
LEMMA InitIInv == Init => IInv
<1> SUFFICES ASSUME Init PROVE IInv
  OBVIOUS
<1>1. TypeOK
  BY IosFacts, EdgesAssumption DEF Init, TypeOK, NoArgs
<1>2. NoPhantomCall /\ EdgeKept /\ ConfigureInv /\ FlagInv /\ UnservedInv
  BY DEF Init, NoPhantomCall, EdgeKept, ConfigureInv, FlagInv, UnservedInv
<1> QED
  BY <1>1, <1>2 DEF IInv

(* An edge of a pin, at any moment. *)
LEMMA EdgeStep ==
  ASSUME IInv, NEW io \in UsedIos, NEW trigger \in {RISING, FALLING}, Edge(io, trigger)
  PROVE  IInv'
<1>1. io \in Ios
  BY IosFacts
<1>2. TypeOK'
  BY <1>1, EdgesAssumption DEF Edge, IInv, TypeOK, isrVars
<1>3. NoPhantomCall' /\ EdgeKept' /\ ConfigureInv' /\ FlagInv'
  BY DEF Edge, IInv, NoPhantomCall, EdgeKept, ConfigureInv, FlagInv, HasHandler, isrVars
<1>4. UnservedInv'
  BY DEF Edge, IInv, UnservedInv, HasHandler, InService, isrVars
<1> QED
  BY <1>2, <1>3, <1>4 DEF IInv

(* The client's calls. *)
LEMMA ClientStep ==
  ASSUME IInv, NEW io \in UsedIos,
         \/ \E trigger \in {RISING, FALLING}, handler \in Handlers :
              io_configure_interrupt(io, trigger, handler)
         \/ io_deconfigure_interrupt(io)
         \/ io_enable_interrupt(io)
         \/ io_disable_interrupt(io)
  PROVE  IInv'
<1>1. io \in Ios
  BY IosFacts
<1>2. CASE \E trigger \in {RISING, FALLING}, handler \in Handlers :
             io_configure_interrupt(io, trigger, handler)
  <2>1. PICK trigger \in {RISING, FALLING}, handler \in Handlers :
          io_configure_interrupt(io, trigger, handler)
    BY <1>2
  <2>2. TypeOK'
    BY <1>1, <2>1
    DEF io_configure_interrupt, BeginCall, MainStep, IInv, TypeOK, isrVars, history
  <2>3. (NoPhantomCall /\ EdgeKept /\ ConfigureInv /\ FlagInv /\ UnservedInv)'
    BY <2>1
    DEF io_configure_interrupt, BeginCall, MainStep, IInv, NoPhantomCall, EdgeKept,
        ConfigureInv, FlagInv, UnservedInv, HasHandler, InService, isrVars, history
  <2> QED
    BY <2>2, <2>3 DEF IInv
<1>3. CASE io_deconfigure_interrupt(io)
  <2>1. TypeOK'
    BY <1>1, <1>3
    DEF io_deconfigure_interrupt, BeginCall, MainStep, IInv, TypeOK, isrVars, history
  <2>2. (NoPhantomCall /\ EdgeKept /\ ConfigureInv /\ FlagInv /\ UnservedInv)'
    BY <1>3
    DEF io_deconfigure_interrupt, BeginCall, MainStep, IInv, NoPhantomCall, EdgeKept,
        ConfigureInv, FlagInv, UnservedInv, HasHandler, InService, isrVars, history
  <2> QED
    BY <2>1, <2>2 DEF IInv
<1>4. CASE io_enable_interrupt(io) \/ io_disable_interrupt(io)
  <2>1. TypeOK'
    BY <1>1, <1>4
    DEF io_enable_interrupt, io_disable_interrupt, MainStep, IInv, TypeOK, isrVars, history
  <2>2. (NoPhantomCall /\ EdgeKept /\ ConfigureInv /\ FlagInv /\ UnservedInv)'
    BY <1>4
    DEF io_enable_interrupt, io_disable_interrupt, MainStep, IInv, NoPhantomCall, EdgeKept,
        ConfigureInv, FlagInv, UnservedInv, HasHandler, InService, isrVars, history
  <2> QED
    BY <2>1, <2>2 DEF IInv
<1> QED
  BY <1>2, <1>3, <1>4

(* The statements of a call of main: none while the port ISR runs. *)
LEMMA MainInv == IInv /\ Main => IInv'
<1> SUFFICES ASSUME IInv, Main PROVE IInv'
  OBVIOUS
<1>1. args.io \in Ios /\ args.handler \in Handlers \cup {NULL} /\ NoArgs.io \in Ios
  BY IosFacts DEF IInv, TypeOK, NoArgs
<1>2. CASE TriggerDisable \/ DeconfigureDisable
  <2>1. TypeOK'
    BY <1>2, IosFacts
    DEF TriggerDisable, DeconfigureDisable, MainStep, IInv, TypeOK, NoArgs, isrVars, history
  <2>2. (NoPhantomCall /\ EdgeKept /\ ConfigureInv /\ FlagInv /\ UnservedInv)'
    BY <1>2
    DEF TriggerDisable, DeconfigureDisable, MainStep, IInv, NoPhantomCall, EdgeKept,
        ConfigureInv, FlagInv, UnservedInv, HasHandler, InService, isrVars, history
  <2> QED
    BY <2>1, <2>2 DEF IInv
<1>3. CASE TriggerSelect
  <2>1. TypeOK'
    BY <1>1, <1>3 DEF TriggerSelect, MainStep, IInv, TypeOK, isrVars, history
  <2>2. (NoPhantomCall /\ EdgeKept /\ ConfigureInv /\ FlagInv /\ UnservedInv)'
    BY <1>3
    DEF TriggerSelect, MainStep, IInv, NoPhantomCall, EdgeKept, ConfigureInv, FlagInv,
        UnservedInv, HasHandler, InService, isrVars, history
  <2> QED
    BY <2>1, <2>2 DEF IInv
<1>4. CASE TriggerClear
  <2>1. TypeOK'
    BY <1>4 DEF TriggerClear, io_clear_interrupt, MainStep, IInv, TypeOK, isrVars
  <2>2. (NoPhantomCall /\ EdgeKept /\ ConfigureInv /\ FlagInv /\ UnservedInv)'
    BY <1>4
    DEF TriggerClear, io_clear_interrupt, MainStep, IInv, NoPhantomCall, EdgeKept,
        ConfigureInv, FlagInv, UnservedInv, HasHandler, InService, isrVars
  <2> QED
    BY <2>1, <2>2 DEF IInv
<1>5. CASE Register
  <2>1. TypeOK'
    BY <1>1, <1>5, IosFacts DEF Register, MainStep, IInv, TypeOK, NoArgs, isrVars, history
  <2>2. \A io \in Ios : isr_functions'[io] = IF io = args.io THEN args.handler
                                             ELSE isr_functions[io]
    BY <1>1, <1>5 DEF Register, IInv, TypeOK
  <2>3. IFG \subseteq Ios /\ unserved \subseteq Ios
    BY DEF IInv, TypeOK
  <2>4. (NoPhantomCall /\ EdgeKept /\ ConfigureInv /\ FlagInv /\ UnservedInv)'
    BY <1>1, <1>5, <2>2, <2>3
    DEF Register, MainStep, IInv, NoPhantomCall, EdgeKept, ConfigureInv, FlagInv,
        UnservedInv, HasHandler, InService, isrVars, history
  <2> QED
    BY <2>1, <2>4 DEF IInv
<1>6. CASE Unregister
  <2>1. TypeOK'
    BY <1>1, <1>6 DEF Unregister, MainStep, IInv, TypeOK, isrVars
  <2>2. \A io \in Ios : isr_functions'[io] = IF io = args.io THEN NULL
                                             ELSE isr_functions[io]
    BY <1>1, <1>6 DEF Unregister, IInv, TypeOK
  <2>3. IFG \subseteq Ios /\ unserved \subseteq Ios
    BY DEF IInv, TypeOK
  <2>4. (NoPhantomCall /\ EdgeKept /\ ConfigureInv /\ FlagInv /\ UnservedInv)'
    BY <1>1, <1>6, <2>2, <2>3
    DEF Unregister, MainStep, IInv, NoPhantomCall, EdgeKept, ConfigureInv, FlagInv,
        UnservedInv, HasHandler, InService, isrVars
  <2> QED
    BY <2>1, <2>4 DEF IInv
<1> QED
  BY <1>2, <1>3, <1>4, <1>5, <1>6 DEF Main

(* The port ISR: from pin to pin. *)
LEMMA IsrInv ==
  ASSUME IInv, Isr \/ \E port \in Ports : IsrEnter(port)
  PROVE  IInv'
<1>1. served \in Ios
  BY DEF IInv, TypeOK
<1>2. CASE \E port \in Ports : IsrEnter(port)
  <2>1. TypeOK'
    BY <1>2, IosFacts DEF IsrEnter, IsrStep, IInv, TypeOK, history
  <2>2. (NoPhantomCall /\ EdgeKept /\ ConfigureInv /\ FlagInv /\ UnservedInv)'
    BY <1>2
    DEF IsrEnter, IsrStep, IInv, NoPhantomCall, EdgeKept, ConfigureInv, FlagInv,
        UnservedInv, HasHandler, InService, history
  <2> QED
    BY <2>1, <2>2 DEF IInv
<1>3. NextPin => isr' \in {"off", "test"} /\ served' \in Ios
  BY <1>1, IosFacts DEF NextPin
<1>4. CASE IsrSkip
  <2>1. TypeOK'
    BY <1>3, <1>4 DEF IsrSkip, IInv, TypeOK, history
  <2>2. (NoPhantomCall /\ EdgeKept /\ ConfigureInv /\ FlagInv /\ UnservedInv)'
    BY <1>3, <1>4
    DEF IsrSkip, IInv, NoPhantomCall, EdgeKept, ConfigureInv, FlagInv, UnservedInv,
        HasHandler, InService, history
  <2> QED
    BY <2>1, <2>2 DEF IInv
<1>5. CASE IsrCall
  <2>1. TypeOK'
    BY <1>5 DEF IsrCall, IsrStep, IInv, TypeOK
  <2>2. (NoPhantomCall /\ EdgeKept /\ ConfigureInv /\ FlagInv /\ UnservedInv)'
    BY <1>5
    DEF IsrCall, IsrStep, IInv, NoPhantomCall, EdgeKept, ConfigureInv, FlagInv,
        UnservedInv, HasHandler, InService
  <2> QED
    BY <2>1, <2>2 DEF IInv
<1>6. CASE HandlerReturn
  <2>1. TypeOK'
    BY <1>6 DEF HandlerReturn, IsrStep, IInv, TypeOK, history
  <2>2. (NoPhantomCall /\ EdgeKept /\ ConfigureInv /\ FlagInv /\ UnservedInv)'
    BY <1>6
    DEF HandlerReturn, IsrStep, IInv, NoPhantomCall, EdgeKept, ConfigureInv, FlagInv,
        UnservedInv, HasHandler, InService, history
  <2> QED
    BY <2>1, <2>2 DEF IInv
<1>7. CASE IsrClear
  <2>1. TypeOK'
    BY <1>3, <1>7 DEF IsrClear, io_clear_interrupt, IInv, TypeOK
  <2>2. (NoPhantomCall /\ EdgeKept /\ ConfigureInv /\ FlagInv /\ UnservedInv)'
    BY <1>3, <1>7
    DEF IsrClear, io_clear_interrupt, IInv, NoPhantomCall, EdgeKept, ConfigureInv, FlagInv,
        UnservedInv, HasHandler, InService
  <2> QED
    BY <2>1, <2>2 DEF IInv
<1> QED
  BY <1>2, <1>4, <1>5, <1>6, <1>7 DEF Isr

(* No step of the pins, main and the port ISR breaks the invariant. *)
LEMMA StepIInv == IInv /\ [Next]_vars => IInv'
<1> SUFFICES ASSUME IInv, [Next]_vars PROVE IInv'
  OBVIOUS
<1>1. CASE UNCHANGED vars
  BY <1>1
  DEF vars, isrVars, history, IInv, TypeOK, NoPhantomCall, EdgeKept, ConfigureInv,
      FlagInv, UnservedInv, HasHandler, InService
<1>2. CASE \E io \in UsedIos, trigger \in {RISING, FALLING} : Edge(io, trigger)
  BY <1>2, EdgeStep
<1>3. CASE \E io \in UsedIos :
             \/ \E trigger \in {RISING, FALLING}, handler \in Handlers :
                  io_configure_interrupt(io, trigger, handler)
             \/ io_deconfigure_interrupt(io)
             \/ io_enable_interrupt(io)
             \/ io_disable_interrupt(io)
  BY <1>3, ClientStep
<1>4. CASE Main
  BY <1>4, MainInv
<1>5. CASE Isr \/ \E port \in Ports : IsrEnter(port)
  BY <1>5, IsrInv
<1> QED
  BY <1>1, <1>2, <1>3, <1>4, <1>5 DEF Next

(* What holds whatever edges come and whatever main configures. *)
LEMMA InvariantHolds == Spec => []IInv
BY InitIInv, StepIInv, PTL DEF Spec

(* Every variable of the pin interrupts has its type; the index of the ISR *)
(* stays within the table of handlers.                                     *)
THEOREM TypeCorrect == Spec => []TypeOK
<1>1. IInv => TypeOK
  BY DEF IInv
<1> QED
  BY <1>1, InvariantHolds, PTL

(* No handler is called for a flag that selecting an edge has set.         *)
THEOREM CallsHaveEdges == Spec => []NoPhantomCall
<1>1. IInv => NoPhantomCall
  BY DEF IInv
<1> QED
  BY <1>1, InvariantHolds, PTL

(* An edge of an enabled pin keeps its flag until its handler starts.      *)
THEOREM EdgesAreKept == Spec => []EdgeKept
<1>1. IInv => EdgeKept
  BY DEF IInv
<1> QED
  BY <1>1, InvariantHolds, PTL
=============================================================================
