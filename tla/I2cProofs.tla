----------------------------- MODULE I2cProofs -----------------------------
(***************************************************************************)
(* The safety properties of the I2C master, for every number of rounds of  *)
(* its waits, every size of an address and of the data and any number of   *)
(* transfers: a transfer that returns OK has been answered byte by byte,   *)
(* and none leaves the bus in a state that the next one cannot take.       *)
(***************************************************************************)
EXTENDS I2c, TLAPS

USE CountAssumption, SizesAssumption, CallsAssumption
    DEF NoByte, arguments, locals, registers, slave, MainStep

-----------------------------------------------------------------------------
(* The positions are numbers, and every byte of a message has one. *)
LEMMA PositionFacts ==
  /\ 0 \in Positions /\ 1 \in Positions
  /\ \A n \in 1 .. 510 : n \in Positions
  /\ Positions \subseteq Nat
BY DEF Positions

(* The results of a wait differ. *)
LEMMA ResultFacts ==
  /\ OK \notin {ERROR_START, ERROR_TX, ERROR_RX, ERROR_STOP, ERROR_TIMEOUT}
  /\ ERROR_START \notin {ERROR_TX, ERROR_RX, ERROR_STOP, ERROR_TIMEOUT}
  /\ ERROR_TX \notin {ERROR_RX, ERROR_STOP, ERROR_TIMEOUT}
BY DEF OK, ERROR_START, ERROR_TX, ERROR_RX, ERROR_STOP, ERROR_TIMEOUT

(* After i2c_init. *)
LEMMA InitIInv == Init => IInv
<1> SUFFICES ASSUME Init PROVE IInv
  OBVIOUS
<1>1. MainTypeOK
  <2>1. Indices = {} /\ <<>> \in [{} -> Positions]
    BY DEF Init, Indices
  <2>2. data \in [Indices -> Positions]
    BY <2>1 DEF Init
  <2>3. /\ pc = "idle" /\ op = "write" /\ result = OK
        /\ addr_size = 1 /\ data_size = 0 /\ next = 1 /\ i = 0
    BY DEF Init
  <2>4. count \in 0 .. COUNT /\ calls \in 0 .. MaxCalls
    BY DEF Init
  <2>5. late \in BOOLEAN
    BY DEF Init
  <2> QED
    BY <2>2, <2>3, <2>4, <2>5 DEF MainTypeOK
<1>2. HardwareTypeOK
  <2>1. heard \in Seq(Positions)
    BY PositionFacts DEF Init
  <2> QED
    BY <2>1, PositionFacts DEF Init, HardwareTypeOK
<1>3. CallInv /\ RegistersInv /\ GivenInv /\ QuietInv
  BY ResultFacts DEF Init, CallInv, RegistersInv, GivenInv, QuietInv, Sending, Receiving, Bit
<1>4. SendInv /\ StopInv /\ RestartInv /\ ReceiveInv
  BY DEF Init, SendInv, StopInv, RestartInv, ReceiveInv, Sending, Receiving
<1>5. WriteDelivered /\ ReadFilled /\ BusAfterCall
  BY ResultFacts DEF Init, WriteDelivered, ReadFilled, BusAfterCall, Returned
<1> QED
  BY <1>1, <1>2, <1>3, <1>4, <1>5 DEF IInv, TypeOK

(* The client calls i2c_write or i2c_read. *)
LEMMA BeginStep ==
  ASSUME IInv, NEW newOp \in {"write", "read"}, NEW asize \in AddrSizes,
         NEW dsize \in DataSizes, BeginTransfer(newOp, asize, dsize)
  PROVE  IInv'
<1> USE DEF BeginTransfer
<1>1. MainTypeOK'
  <2>1. asize \in 1 .. 255 /\ dsize \in 0 .. 255
    OBVIOUS
  <2>2. (data \in [Indices -> Positions])'
    BY <2>1, PositionFacts DEF Indices
  <2> QED
    BY <2>1, <2>2 DEF IInv, TypeOK, MainTypeOK
<1>2. HardwareTypeOK'
  BY PositionFacts DEF IInv, TypeOK, HardwareTypeOK
<1>3. (CallInv /\ RegistersInv /\ GivenInv /\ QuietInv)'
  BY DEF IInv, TypeOK, HardwareTypeOK, CallInv, RegistersInv, GivenInv, QuietInv, Sending,
         Receiving, Bit
<1>4. (SendInv /\ StopInv /\ RestartInv /\ ReceiveInv)'
  BY DEF SendInv, StopInv, RestartInv, ReceiveInv, Sending, Receiving
<1>5. (WriteDelivered /\ ReadFilled /\ BusAfterCall)'
  BY DEF WriteDelivered, ReadFilled, BusAfterCall, Returned
<1> QED
  BY <1>1, <1>2, <1>3, <1>4, <1>5 DEF IInv, TypeOK

-----------------------------------------------------------------------------
(* The waits. *)

(* One round of a wait changes count only. *)
LEMMA RoundStep ==
  ASSUME IInv, NEW at, Round(at)
  PROVE  IInv'
<1>1. MainTypeOK'
  BY DEF Round, IInv, TypeOK, MainTypeOK, Indices
<1>2. HardwareTypeOK'
  BY DEF Round, IInv, TypeOK, HardwareTypeOK
<1>3. (CallInv /\ RegistersInv /\ GivenInv /\ QuietInv)'
  BY DEF Round, IInv, CallInv, RegistersInv, GivenInv, QuietInv, Sending, Receiving,
         MessageSize
<1>4. (SendInv /\ StopInv /\ RestartInv /\ ReceiveInv)'
  BY DEF Round, IInv, SendInv, StopInv, RestartInv, ReceiveInv, Sending, Receiving
<1>5. (WriteDelivered /\ ReadFilled /\ BusAfterCall)'
  BY DEF Round, IInv, WriteDelivered, ReadFilled, BusAfterCall, Returned
<1> QED
  BY <1>1, <1>2, <1>3, <1>4, <1>5 DEF IInv, TypeOK

(* What the end of a wait leaves: the call goes on without a refusal, or   *)
(* it returns the error of the wait after one, or a timeout when the wait  *)
(* went through all its rounds.                                            *)
Outcome(at, waiting, error, to) ==
  /\ pc = at
  /\ UNCHANGED <<arguments, next, i, data, calls, registers, slave>>
  /\ late => late'
  /\ waiting => late'
  /\ \/ pc' = to /\ result' = OK /\ ~UCNACKIFG
     \/ pc' = "idle" /\ result' = error /\ UCNACKIFG
     \/ pc' = "idle" /\ result' = ERROR_TIMEOUT /\ late'

LEMMA EndOfWaitOutcome ==
  ASSUME IInv, NEW at, NEW waiting \in BOOLEAN,
         NEW to \in {"wait_tx", "sent", "receive", "received", "idle", "wait_rx"},
         NEW error \in {ERROR_START, ERROR_TX, ERROR_RX, ERROR_STOP},
         EndOfWait(at, waiting, error, to)
  PROVE  TypeOK' /\ Outcome(at, waiting, error, to)
<1> USE DEF EndOfWait
<1>1. late' \in BOOLEAN
  BY DEF IInv, TypeOK, MainTypeOK
<1>2. (late => late') /\ (waiting => late')
  OBVIOUS
<1>3. \/ pc' = to /\ result' = OK /\ ~UCNACKIFG
      \/ pc' = "idle" /\ result' = error /\ UCNACKIFG
      \/ pc' = "idle" /\ result' = ERROR_TIMEOUT /\ late'
  <2>1. \/ result' = OK /\ ~UCNACKIFG
        \/ result' = error /\ UCNACKIFG
        \/ result' = ERROR_TIMEOUT /\ count = 0
    BY DEF Check
  <2>2. count = 0 => late'
    OBVIOUS
  <2> QED
    BY <2>1, <2>2, ResultFacts
<1>4. MainTypeOK'
  BY <1>1, <1>3 DEF IInv, TypeOK, MainTypeOK, Indices
<1>5. HardwareTypeOK'
  BY DEF IInv, TypeOK, HardwareTypeOK
<1> QED
  BY <1>2, <1>3, <1>4, <1>5 DEF TypeOK, Outcome

(* The wait for the address of the slave: a refusal holds the bus. *)
LEMMA WaitStartStep == IInv /\ WaitStart => IInv'
<1> SUFFICES ASSUME IInv, WaitStart PROVE IInv'
  OBVIOUS
<1>1. CASE EndOfWait("wait_start", UCTXSTT, ERROR_START, "wait_tx")
  <2>1. TypeOK' /\ Outcome("wait_start", UCTXSTT, ERROR_START, "wait_tx")
    <3>1. UCTXSTT \in BOOLEAN
      BY DEF IInv, TypeOK, HardwareTypeOK
    <3> QED
      BY <1>1, <3>1, EndOfWaitOutcome
  <2>2. (CallInv /\ RegistersInv /\ GivenInv)'
    BY <2>1, ResultFacts
    DEF Outcome, IInv, TypeOK, HardwareTypeOK, MainTypeOK, CallInv, RegistersInv, GivenInv,
        Sending, Receiving, Bit, MessageSize
  <2>3. QuietInv'
    BY <2>1, ResultFacts DEF Outcome, IInv, RegistersInv, GivenInv, SendInv, QuietInv, Sending
  <2>4. SendInv'
    BY <2>1
    DEF Outcome, IInv, TypeOK, HardwareTypeOK, RegistersInv, SendInv, GivenInv, Sending, Bit
  <2>5. (StopInv /\ RestartInv /\ ReceiveInv)'
    BY <2>1
    DEF Outcome, IInv, TypeOK, MainTypeOK, HardwareTypeOK, CallInv, StopInv, RestartInv,
        ReceiveInv, Receiving, Bit
  <2>6. (WriteDelivered /\ ReadFilled)'
    BY <2>1, ResultFacts
    DEF Outcome, IInv, CallInv, SendInv, StopInv, RegistersInv, WriteDelivered, ReadFilled,
        Returned, MessageSize, TypeOK, MainTypeOK, HardwareTypeOK, Receiving, Bit
  <2>7. BusAfterCall'
    BY <2>1, <2>2, <2>3 DEF RegistersInv, QuietInv, BusAfterCall
  <2> QED
    BY <2>1, <2>2, <2>3, <2>4, <2>5, <2>6, <2>7 DEF IInv
<1> QED
  BY <1>1, RoundStep DEF WaitStart, Wait

(* The wait for an empty UCB0TXBUF: a flag that is set excludes a refusal. *)
LEMMA WaitTxStep == IInv /\ WaitTx => IInv'
<1> SUFFICES ASSUME IInv, WaitTx PROVE IInv'
  OBVIOUS
<1>1. CASE EndOfWait("wait_tx", ~UCB0TXIFG, ERROR_TX, "sent")
  <2>1. TypeOK' /\ Outcome("wait_tx", ~UCB0TXIFG, ERROR_TX, "sent")
    <3>1. (~UCB0TXIFG) \in BOOLEAN
      BY DEF IInv, TypeOK, HardwareTypeOK
    <3> QED
      BY <1>1, <3>1, EndOfWaitOutcome
  <2>2. (CallInv /\ RegistersInv /\ GivenInv)'
    BY <2>1, ResultFacts
    DEF Outcome, IInv, TypeOK, HardwareTypeOK, MainTypeOK, CallInv, RegistersInv, GivenInv,
        Sending, Receiving, Bit, MessageSize
  <2>3. QuietInv'
    BY <2>1, ResultFacts
    DEF Outcome, IInv, TypeOK, HardwareTypeOK, CallInv, RegistersInv, GivenInv, QuietInv,
        SendInv, StopInv, RestartInv, ReceiveInv, Sending, Receiving, Bit
  <2>4. SendInv'
    BY <2>1
    DEF Outcome, IInv, TypeOK, HardwareTypeOK, RegistersInv, SendInv, GivenInv, Sending, Bit
  <2>5. (StopInv /\ RestartInv /\ ReceiveInv)'
    BY <2>1
    DEF Outcome, IInv, TypeOK, MainTypeOK, HardwareTypeOK, CallInv, StopInv, RestartInv,
        ReceiveInv, Receiving, Bit
  <2>6. (WriteDelivered /\ ReadFilled)'
    BY <2>1, ResultFacts
    DEF Outcome, IInv, CallInv, SendInv, StopInv, RegistersInv, WriteDelivered, ReadFilled,
        Returned, MessageSize, TypeOK, MainTypeOK, HardwareTypeOK, Receiving, Bit
  <2>7. BusAfterCall'
    BY <2>1, <2>2, <2>3 DEF RegistersInv, QuietInv, BusAfterCall
  <2> QED
    BY <2>1, <2>2, <2>3, <2>4, <2>5, <2>6, <2>7 DEF IInv
<1> QED
  BY <1>1, RoundStep DEF WaitTx, Wait

(* The wait for the second address. *)
LEMMA WaitRestartStep == IInv /\ WaitRestart => IInv'
<1> SUFFICES ASSUME IInv, WaitRestart PROVE IInv'
  OBVIOUS
<1>1. CASE EndOfWait("wait_restart", UCTXSTT, ERROR_START, "receive")
  <2>1. TypeOK' /\ Outcome("wait_restart", UCTXSTT, ERROR_START, "receive")
    <3>1. UCTXSTT \in BOOLEAN
      BY DEF IInv, TypeOK, HardwareTypeOK
    <3> QED
      BY <1>1, <3>1, EndOfWaitOutcome
  <2>2. (CallInv /\ RegistersInv /\ GivenInv)'
    BY <2>1, ResultFacts
    DEF Outcome, IInv, TypeOK, HardwareTypeOK, MainTypeOK, CallInv, RegistersInv, GivenInv,
        Sending, Receiving, Bit, MessageSize
  <2>3. QuietInv'
    BY <2>1, ResultFacts
    DEF Outcome, IInv, TypeOK, HardwareTypeOK, CallInv, RegistersInv, GivenInv, QuietInv,
        SendInv, StopInv, RestartInv, ReceiveInv, Sending, Receiving, Bit
  <2>4. SendInv'
    BY <2>1
    DEF Outcome, IInv, TypeOK, HardwareTypeOK, RegistersInv, SendInv, GivenInv, Sending, Bit
  <2>5. (StopInv /\ RestartInv /\ ReceiveInv)'
    BY <2>1
    DEF Outcome, IInv, TypeOK, MainTypeOK, HardwareTypeOK, CallInv, StopInv, RestartInv,
        ReceiveInv, Receiving, Bit
  <2>6. (WriteDelivered /\ ReadFilled)'
    BY <2>1, ResultFacts
    DEF Outcome, IInv, CallInv, SendInv, StopInv, RegistersInv, WriteDelivered, ReadFilled,
        Returned, MessageSize, TypeOK, MainTypeOK, HardwareTypeOK, Receiving, Bit
  <2>7. BusAfterCall'
    BY <2>1, <2>2, <2>3 DEF RegistersInv, QuietInv, BusAfterCall
  <2> QED
    BY <2>1, <2>2, <2>3, <2>4, <2>5, <2>6, <2>7 DEF IInv
<1> QED
  BY <1>1, RoundStep DEF WaitRestart, Wait

(* The wait for a byte of the slave. *)
LEMMA WaitRxStep == IInv /\ WaitRx => IInv'
<1> SUFFICES ASSUME IInv, WaitRx PROVE IInv'
  OBVIOUS
<1>1. CASE EndOfWait("wait_rx", ~UCB0RXIFG, ERROR_RX, "received")
  <2>1. TypeOK' /\ Outcome("wait_rx", ~UCB0RXIFG, ERROR_RX, "received")
    <3>1. (~UCB0RXIFG) \in BOOLEAN
      BY DEF IInv, TypeOK, HardwareTypeOK
    <3> QED
      BY <1>1, <3>1, EndOfWaitOutcome
  <2>2. (CallInv /\ RegistersInv /\ GivenInv)'
    BY <2>1, ResultFacts
    DEF Outcome, IInv, TypeOK, HardwareTypeOK, MainTypeOK, CallInv, RegistersInv, GivenInv,
        Sending, Receiving, Bit, MessageSize
  <2>3. QuietInv'
    BY <2>1, ResultFacts
    DEF Outcome, IInv, TypeOK, HardwareTypeOK, CallInv, RegistersInv, GivenInv, QuietInv,
        SendInv, StopInv, RestartInv, ReceiveInv, Sending, Receiving, Bit
  <2>4. SendInv'
    BY <2>1
    DEF Outcome, IInv, TypeOK, HardwareTypeOK, RegistersInv, SendInv, GivenInv, Sending, Bit
  <2>5. (StopInv /\ RestartInv /\ ReceiveInv)'
    BY <2>1
    DEF Outcome, IInv, TypeOK, MainTypeOK, HardwareTypeOK, CallInv, StopInv, RestartInv,
        ReceiveInv, Receiving, Bit
  <2>6. (WriteDelivered /\ ReadFilled)'
    BY <2>1, ResultFacts
    DEF Outcome, IInv, CallInv, SendInv, StopInv, RegistersInv, WriteDelivered, ReadFilled,
        Returned, MessageSize, TypeOK, MainTypeOK, HardwareTypeOK, Receiving, Bit
  <2>7. BusAfterCall'
    BY <2>1, <2>2, <2>3 DEF RegistersInv, QuietInv, BusAfterCall
  <2> QED
    BY <2>1, <2>2, <2>3, <2>4, <2>5, <2>6, <2>7 DEF IInv
<1> QED
  BY <1>1, RoundStep DEF WaitRx, Wait

(* The wait for the STOP: it ends the message of a write, and brings the last byte of a read. *)
LEMMA WaitStopStep == IInv /\ WaitStop => IInv'
<1> SUFFICES ASSUME IInv, WaitStop PROVE IInv'
  OBVIOUS
<1>1. CASE EndOfWait("wait_stop", UCTXSTP, ERROR_STOP,
                     IF op = "write" THEN "idle" ELSE "wait_rx")
  <2>1. /\ TypeOK'
        /\ Outcome("wait_stop", UCTXSTP, ERROR_STOP,
                   IF op = "write" THEN "idle" ELSE "wait_rx")
    <3>1. UCTXSTP \in BOOLEAN
      BY DEF IInv, TypeOK, HardwareTypeOK
    <3> QED
      BY <1>1, <3>1, EndOfWaitOutcome
  <2>2. (CallInv /\ RegistersInv /\ GivenInv)'
    BY <2>1, ResultFacts
    DEF Outcome, IInv, TypeOK, HardwareTypeOK, MainTypeOK, CallInv, RegistersInv, GivenInv,
        Sending, Receiving, Bit, MessageSize
  <2>3. QuietInv'
    BY <2>1, ResultFacts
    DEF Outcome, IInv, TypeOK, MainTypeOK, GivenInv, QuietInv, StopInv, ReceiveInv, Receiving
  <2>4. SendInv'
    BY <2>1
    DEF Outcome, IInv, TypeOK, HardwareTypeOK, RegistersInv, SendInv, GivenInv, Sending, Bit
  <2>5. (StopInv /\ RestartInv /\ ReceiveInv)'
    BY <2>1
    DEF Outcome, IInv, TypeOK, MainTypeOK, HardwareTypeOK, CallInv, StopInv, RestartInv,
        ReceiveInv, Receiving, Bit
  <2>6. (WriteDelivered /\ ReadFilled)'
    <3>1. CASE pc' = "idle" /\ op' = "write" /\ result' = OK /\ ~late'
      <4>1. op = "write" /\ ~late /\ ~UCNACKIFG /\ ~UCTXSTP /\ heard' = heard
        BY <2>1, <3>1, ResultFacts DEF Outcome
      <4>2. bus = "free" /\ bus' = "free" /\ UCB0TXBUF = NoByte /\ shifter = NoByte
        BY <2>1, <4>1 DEF Outcome, IInv, StopInv, RegistersInv
      <4>3. Len(heard) = addr_size + data_size /\ \A k \in 1 .. Len(heard) : heard[k] = k
        BY <2>1, <4>1, <4>2
        DEF Outcome, IInv, TypeOK, MainTypeOK, CallInv, SendInv, MessageSize, Bit
      <4>4. heard = [k \in 1 .. addr_size + data_size |-> k]
        BY <4>3 DEF IInv, TypeOK, HardwareTypeOK
      <4> QED
        BY <2>1, <3>1, <4>1, <4>2, <4>4 DEF Outcome, WriteDelivered, ReadFilled, Returned
    <3>2. CASE ~(pc' = "idle" /\ op' = "write" /\ result' = OK /\ ~late')
      BY <2>1, <3>2, ResultFacts
      DEF Outcome, IInv, TypeOK, MainTypeOK, WriteDelivered, ReadFilled, Returned
    <3> QED
      BY <3>1, <3>2
  <2>7. BusAfterCall'
    BY <2>1, <2>2, <2>3 DEF RegistersInv, QuietInv, BusAfterCall
  <2> QED
    BY <2>1, <2>2, <2>3, <2>4, <2>5, <2>6, <2>7 DEF IInv
<1> QED
  BY <1>1, RoundStep DEF WaitStop, Wait

-----------------------------------------------------------------------------
(* The statements of main between the waits. *)

(* The START of a call finds nothing buffered and nothing under way. *)
LEMMA SendStartStep == IInv /\ SendStart => IInv'
<1> SUFFICES ASSUME IInv, SendStart PROVE IInv'
  OBVIOUS
<1>1. MainTypeOK'
  BY DEF SendStart, IInv, TypeOK, MainTypeOK, Indices
<1>2. HardwareTypeOK'
  BY PositionFacts DEF SendStart, IInv, TypeOK, HardwareTypeOK
<1>3. (CallInv /\ RegistersInv /\ GivenInv /\ QuietInv)'
  BY DEF SendStart, IInv, TypeOK, MainTypeOK, HardwareTypeOK, CallInv, RegistersInv, GivenInv,
         QuietInv, MessageSize, Sending, Receiving, Bit
<1>4. (SendInv /\ StopInv /\ RestartInv /\ ReceiveInv)'
  BY DEF SendStart, IInv, CallInv, RegistersInv, QuietInv, SendInv, StopInv, RestartInv,
         ReceiveInv, Sending, Receiving, Bit
<1>5. (WriteDelivered /\ ReadFilled /\ BusAfterCall)'
  BY DEF SendStart, WriteDelivered, ReadFilled, BusAfterCall, Returned
<1> QED
  BY <1>1, <1>2, <1>3, <1>4, <1>5 DEF IInv, TypeOK

(* The next byte is the one after those written; UCB0TXBUF is empty. *)
LEMMA SendNextStep == IInv /\ SendNext => IInv'
<1> SUFFICES ASSUME IInv, SendNext PROVE IInv'
  OBVIOUS
<1>1. next \in 2 .. MessageSize /\ MessageSize \in 1 .. 510
  BY DEF SendNext, IInv, TypeOK, MainTypeOK, CallInv, MessageSize
<1>2. MainTypeOK'
  BY <1>1 DEF SendNext, IInv, TypeOK, MainTypeOK, Indices
<1>3. HardwareTypeOK'
  <2>1. next \in Positions
    BY <1>1, PositionFacts
  <2> QED
    BY <2>1 DEF SendNext, IInv, TypeOK, HardwareTypeOK
<1>4. (CallInv /\ RegistersInv /\ GivenInv /\ QuietInv)'
  BY <1>1
  DEF SendNext, IInv, CallInv, RegistersInv, GivenInv, QuietInv, MessageSize, Sending,
      Receiving
<1>5. SendInv'
  <2>1. pc = "sent" /\ UCB0TXBUF' = next /\ next' = next + 1
    BY DEF SendNext
  <2>2. UNCHANGED <<late, UCNACKIFG, heard, shifter, bus>>
    BY DEF SendNext
  <2>3. ~late => /\ UCB0TXBUF = 0 /\ bus \in {"ready", "sending"} /\ ~UCNACKIFG
                 /\ Len(heard) = next - 1 - Bit(shifter # 0)
                 /\ \A k \in 1 .. Len(heard) : heard[k] = k
                 /\ shifter \in {0, Len(heard) + 1}
    BY <1>1, <2>1 DEF IInv, SendInv, RegistersInv, Sending, Bit
  <2>4. UCB0TXBUF' # NoByte /\ UCB0TXBUF' = next' - 1 /\ next' - 1 - 1 = next - 1
    BY <1>1, <2>1
  <2>5. Len(heard) \in Nat
    BY DEF IInv, TypeOK, HardwareTypeOK
  <2>6. pc' = "wait_tx"
    BY DEF SendNext
  <2> QED
    BY <2>2, <2>3, <2>4, <2>5, <2>6 DEF SendInv, Bit
<1>6. (StopInv /\ RestartInv /\ ReceiveInv)'
  BY DEF SendNext, StopInv, RestartInv, ReceiveInv, Receiving
<1>7. (WriteDelivered /\ ReadFilled /\ BusAfterCall)'
  BY DEF SendNext, WriteDelivered, ReadFilled, BusAfterCall, Returned
<1> QED
  BY <1>2, <1>3, <1>4, <1>5, <1>6, <1>7 DEF IInv, TypeOK

(* The second START of a read. *)
LEMMA RestartStep == IInv /\ Restart => IInv'
<1> SUFFICES ASSUME IInv, Restart PROVE IInv'
  OBVIOUS
<1>1. MainTypeOK'
  BY DEF Restart, IInv, TypeOK, MainTypeOK, CallInv, Indices
<1>2. HardwareTypeOK'
  BY DEF Restart, IInv, TypeOK, HardwareTypeOK
<1>3. (CallInv /\ RegistersInv /\ GivenInv /\ QuietInv)'
  BY DEF Restart, IInv, TypeOK, MainTypeOK, CallInv, RegistersInv, GivenInv, QuietInv,
         MessageSize, Sending, Receiving, Bit
<1>4. (SendInv /\ StopInv /\ RestartInv /\ ReceiveInv)'
  BY DEF Restart, IInv, CallInv, RegistersInv, GivenInv, SendInv, StopInv, RestartInv,
         ReceiveInv, Sending, Receiving, Bit
<1>5. (WriteDelivered /\ ReadFilled /\ BusAfterCall)'
  BY DEF Restart, WriteDelivered, ReadFilled, BusAfterCall, Returned
<1> QED
  BY <1>1, <1>2, <1>3, <1>4, <1>5 DEF IInv, TypeOK

(* A round of the loop over the data of a read. *)
LEMMA ReceiveNextStep == IInv /\ ReceiveNext => IInv'
<1> SUFFICES ASSUME IInv, ReceiveNext PROVE IInv'
  OBVIOUS
<1>1. MainTypeOK'
  BY DEF ReceiveNext, IInv, TypeOK, MainTypeOK, Indices
<1>2. HardwareTypeOK'
  BY DEF ReceiveNext, IInv, TypeOK, HardwareTypeOK
<1>3. (CallInv /\ RegistersInv /\ GivenInv /\ QuietInv)'
  BY DEF ReceiveNext, IInv, CallInv, RegistersInv, GivenInv, QuietInv, MessageSize, Sending,
         Receiving
<1>4. (SendInv /\ StopInv /\ RestartInv /\ ReceiveInv)'
  BY DEF ReceiveNext, IInv, SendInv, StopInv, RestartInv, ReceiveInv, Sending, Receiving
<1>5. (WriteDelivered /\ ReadFilled /\ BusAfterCall)'
  BY DEF ReceiveNext, WriteDelivered, ReadFilled, BusAfterCall, Returned
<1> QED
  BY <1>1, <1>2, <1>3, <1>4, <1>5 DEF IInv, TypeOK

(* The byte at index 0 completes the data. *)
LEMMA StoreStep == IInv /\ Store => IInv'
<1> SUFFICES ASSUME IInv, Store PROVE IInv'
  OBVIOUS
<1>1. /\ op = "read" /\ data_size > 0 /\ i \in 0 .. data_size - 1
      /\ Indices = 0 .. data_size - 1 /\ Indices' = Indices
      /\ pc = "received" /\ op' = op /\ result' = OK
      /\ \/ i = 0 /\ pc' = "idle" /\ i' = 0
         \/ i >= 1 /\ pc' = "receive" /\ i' = i - 1
  BY DEF Store, IInv, TypeOK, MainTypeOK, CallInv, Receiving, Indices
<1>2. /\ UNCHANGED <<arguments, next, count, result, calls, late, UCTR, UCTXSTT, UCTXSTP,
                     UCB0TXIFG, UCNACKIFG, UCB0TXBUF, UCB0RXBUF, slave>>
      /\ ~UCB0RXIFG'
  BY DEF Store
<1>3. /\ data' \in [Indices -> Positions]
      /\ \A k \in Indices : data'[k] = IF k = i THEN UCB0RXBUF ELSE data[k]
  BY <1>1 DEF Store, IInv, TypeOK, MainTypeOK, HardwareTypeOK
<1>4. MainTypeOK'
  BY <1>1, <1>3 DEF Store, IInv, TypeOK, MainTypeOK
<1>5. HardwareTypeOK'
  BY DEF Store, IInv, TypeOK, HardwareTypeOK
<1>6. CallInv'
  BY <1>1, <1>2 DEF IInv, TypeOK, MainTypeOK, CallInv, MessageSize, Receiving
<1>7. GivenInv'
  <2>1. given \in Nat
    BY PositionFacts DEF IInv, TypeOK, HardwareTypeOK
  <2>2. given <= data_size - 1 - i + Bit(UCB0RXIFG) /\ Bit(UCB0RXIFG) \in {0, 1}
    BY <1>1 DEF IInv, GivenInv, Receiving, Bit
  <2>3. given <= data_size - i /\ data_size \in Nat
    BY <1>1, <2>1, <2>2 DEF IInv, TypeOK, MainTypeOK
  <2> QED
    BY <1>1, <1>2, <2>1, <2>3 DEF GivenInv, Sending, Receiving, Bit
<1>8. RegistersInv'
  BY <1>1, <1>2, ResultFacts DEF IInv, RegistersInv, Sending
<1>9. ~late => /\ UCB0RXBUF = data_size - i
               /\ ~UCTXSTP /\ ~UCNACKIFG /\ ~UCTXSTT /\ UCB0TXBUF = NoByte
               /\ bus = IF i = 0 THEN "free" ELSE "receiving"
               /\ given = data_size - i
               /\ \A k \in i + 1 .. data_size - 1 : data[k] = data_size - k
  BY <1>1 DEF IInv, TypeOK, MainTypeOK, ReceiveInv, Receiving, Bit
<1>10. (QuietInv /\ BusAfterCall)'
  BY <1>1, <1>2, <1>9, ResultFacts DEF QuietInv, BusAfterCall
<1>11. (SendInv /\ StopInv /\ RestartInv /\ WriteDelivered)'
  BY <1>1 DEF SendInv, StopInv, RestartInv, WriteDelivered, Returned, Sending
<1>12. ~late' => \A k \in i .. data_size - 1 : data'[k] = data_size - k
  BY <1>1, <1>2, <1>3, <1>9 DEF IInv, TypeOK, MainTypeOK
<1>13. ReceiveInv'
  BY <1>1, <1>2, <1>9, <1>12 DEF IInv, TypeOK, MainTypeOK, ReceiveInv, Receiving, Bit
<1>14. ReadFilled'
  BY <1>1, <1>2, <1>3, <1>9, <1>12 DEF IInv, TypeOK, MainTypeOK, ReadFilled, Returned
<1> QED
  BY <1>4, <1>5, <1>6, <1>7, <1>8, <1>10, <1>11, <1>13, <1>14 DEF IInv, TypeOK

(* The STOP, after the message of a write or before the last byte of a read. *)
LEMMA RequestStopStep == IInv /\ RequestStop => IInv'
<1> SUFFICES ASSUME IInv, RequestStop PROVE IInv'
  OBVIOUS
<1>1. /\ pc' = "wait_stop"
      /\ \/ op = "write" /\ pc = "sent" /\ next = MessageSize + 1
         \/ op = "read" /\ pc = "receive" /\ i = 0
  BY DEF RequestStop, IInv, TypeOK, MainTypeOK, CallInv, MessageSize
<1>2. MainTypeOK'
  BY DEF RequestStop, IInv, TypeOK, MainTypeOK, Indices
<1>3. HardwareTypeOK'
  BY DEF RequestStop, IInv, TypeOK, HardwareTypeOK
<1>4. (CallInv /\ RegistersInv /\ GivenInv /\ QuietInv)'
  BY <1>1
  DEF RequestStop, IInv, CallInv, RegistersInv, GivenInv, QuietInv, MessageSize, Sending,
      Receiving
<1>5. SendInv'
  BY <1>1 DEF RequestStop, IInv, SendInv, Sending
<1>6. (StopInv /\ RestartInv /\ ReceiveInv)'
  BY <1>1
  DEF RequestStop, IInv, RegistersInv, SendInv, StopInv, RestartInv, ReceiveInv, Sending,
      Receiving
<1>7. (WriteDelivered /\ ReadFilled /\ BusAfterCall)'
  BY <1>1 DEF WriteDelivered, ReadFilled, BusAfterCall, Returned
<1> QED
  BY <1>2, <1>3, <1>4, <1>5, <1>6, <1>7 DEF IInv, TypeOK

-----------------------------------------------------------------------------
(* The hardware. *)

(* The slave answers its address. *)
LEMMA AddressAcknowledgedStep == IInv /\ AddressAcknowledged => IInv'
<1> SUFFICES ASSUME IInv, AddressAcknowledged PROVE IInv'
  OBVIOUS
<1>1. MainTypeOK'
  BY DEF AddressAcknowledged, IInv, TypeOK, MainTypeOK, Indices
<1>2. HardwareTypeOK'
  BY PositionFacts DEF AddressAcknowledged, IInv, TypeOK, HardwareTypeOK
<1>3. (CallInv /\ RegistersInv /\ QuietInv)'
  BY ResultFacts
  DEF AddressAcknowledged, MainWaits, IInv, TypeOK, HardwareTypeOK, CallInv, RegistersInv,
      GivenInv, QuietInv, MessageSize, Sending, Receiving
<1>4. GivenInv'
  BY DEF AddressAcknowledged, MainWaits, IInv, TypeOK, MainTypeOK, HardwareTypeOK,
         RegistersInv, GivenInv, Sending, Receiving, Bit
<1>5. SendInv'
  BY DEF AddressAcknowledged, MainWaits, IInv, TypeOK, MainTypeOK, HardwareTypeOK,
         RegistersInv, GivenInv, SendInv, StopInv, Sending, Bit
<1>6. (StopInv /\ RestartInv)'
  BY DEF AddressAcknowledged, MainWaits, IInv, TypeOK, MainTypeOK, HardwareTypeOK, GivenInv,
         RegistersInv, StopInv, RestartInv, Bit
<1>7. ReceiveInv'
  BY DEF AddressAcknowledged, MainWaits, IInv, TypeOK, MainTypeOK, HardwareTypeOK,
         RegistersInv, ReceiveInv, Receiving, Bit
<1>8. (WriteDelivered /\ ReadFilled /\ BusAfterCall)'
  BY DEF AddressAcknowledged, MainWaits, IInv, RegistersInv, QuietInv, WriteDelivered,
         ReadFilled, BusAfterCall, Returned
<1> QED
  BY <1>1, <1>2, <1>3, <1>4, <1>5, <1>6, <1>7, <1>8 DEF IInv, TypeOK

(* A refusal holds the bus and empties UCB0TXBUF. *)
LEMMA RefusedStep == IInv /\ Refused => IInv'
<1> SUFFICES ASSUME IInv, Refused PROVE IInv'
  OBVIOUS
<1>1. MainTypeOK'
  BY DEF Refused, IInv, TypeOK, MainTypeOK, Indices
<1>2. HardwareTypeOK'
  <2>1. UCTXSTT' \in BOOLEAN
    BY DEF Refused, IInv, TypeOK, HardwareTypeOK
  <2> QED
    BY <2>1, PositionFacts DEF Refused, IInv, TypeOK, HardwareTypeOK
<1>3. (CallInv /\ RegistersInv /\ QuietInv)'
  BY ResultFacts
  DEF Refused, MainWaits, IInv, TypeOK, HardwareTypeOK, CallInv, RegistersInv, GivenInv,
      QuietInv, MessageSize, Sending, Receiving
<1>4. GivenInv'
  BY DEF Refused, MainWaits, IInv, TypeOK, MainTypeOK, HardwareTypeOK, RegistersInv, GivenInv,
         Sending, Receiving, Bit
<1>5. SendInv'
  BY DEF Refused, MainWaits, IInv, TypeOK, MainTypeOK, HardwareTypeOK, RegistersInv, GivenInv,
         SendInv, StopInv, Sending, Bit
<1>6. (StopInv /\ RestartInv)'
  BY DEF Refused, MainWaits, IInv, TypeOK, MainTypeOK, HardwareTypeOK, GivenInv, RegistersInv,
         StopInv, RestartInv, Bit
<1>7. ReceiveInv'
  BY DEF Refused, MainWaits, IInv, TypeOK, MainTypeOK, HardwareTypeOK, RegistersInv,
         ReceiveInv, Receiving, Bit
<1>8. (WriteDelivered /\ ReadFilled /\ BusAfterCall)'
  BY DEF Refused, MainWaits, IInv, RegistersInv, QuietInv, WriteDelivered, ReadFilled,
         BusAfterCall, Returned
<1> QED
  BY <1>1, <1>2, <1>3, <1>4, <1>5, <1>6, <1>7, <1>8 DEF IInv, TypeOK

(* A byte moves from UCB0TXBUF to the shifter. *)
LEMMA LoadShifterStep == IInv /\ LoadShifter => IInv'
<1> SUFFICES ASSUME IInv, LoadShifter PROVE IInv'
  OBVIOUS
<1>1. MainTypeOK'
  BY DEF LoadShifter, IInv, TypeOK, MainTypeOK, Indices
<1>2. HardwareTypeOK'
  <2>1. UCTXSTT' \in BOOLEAN
    BY DEF LoadShifter, IInv, TypeOK, HardwareTypeOK
  <2> QED
    BY <2>1, PositionFacts DEF LoadShifter, IInv, TypeOK, HardwareTypeOK
<1>3. (CallInv /\ RegistersInv /\ QuietInv)'
  BY ResultFacts
  DEF LoadShifter, MainWaits, IInv, TypeOK, HardwareTypeOK, CallInv, RegistersInv, GivenInv,
      QuietInv, MessageSize, Sending, Receiving
<1>4. GivenInv'
  BY DEF LoadShifter, MainWaits, IInv, TypeOK, MainTypeOK, HardwareTypeOK, RegistersInv,
         GivenInv, Sending, Receiving, Bit
<1>5. SendInv'
  BY DEF LoadShifter, MainWaits, IInv, TypeOK, MainTypeOK, HardwareTypeOK, RegistersInv,
         GivenInv, SendInv, StopInv, Sending, Bit
<1>6. (StopInv /\ RestartInv)'
  BY DEF LoadShifter, MainWaits, IInv, TypeOK, MainTypeOK, HardwareTypeOK, GivenInv,
         RegistersInv, StopInv, RestartInv, Bit
<1>7. ReceiveInv'
  BY DEF LoadShifter, MainWaits, IInv, TypeOK, MainTypeOK, HardwareTypeOK, RegistersInv,
         ReceiveInv, Receiving, Bit
<1>8. (WriteDelivered /\ ReadFilled /\ BusAfterCall)'
  BY DEF LoadShifter, MainWaits, IInv, RegistersInv, QuietInv, WriteDelivered, ReadFilled,
         BusAfterCall, Returned
<1> QED
  BY <1>1, <1>2, <1>3, <1>4, <1>5, <1>6, <1>7, <1>8 DEF IInv, TypeOK

(* A byte moves from the shifter to those heard. *)
LEMMA ByteAcknowledgedStep == IInv /\ ByteAcknowledged => IInv'
<1> SUFFICES ASSUME IInv, ByteAcknowledged PROVE IInv'
  OBVIOUS
<1>1. MainTypeOK'
  BY DEF ByteAcknowledged, IInv, TypeOK, MainTypeOK, Indices
<1>2. HardwareTypeOK'
  BY PositionFacts DEF ByteAcknowledged, IInv, TypeOK, HardwareTypeOK
<1>3. (CallInv /\ RegistersInv /\ QuietInv)'
  BY ResultFacts
  DEF ByteAcknowledged, MainWaits, IInv, TypeOK, HardwareTypeOK, CallInv, RegistersInv,
      GivenInv, QuietInv, MessageSize, Sending, Receiving
<1>4. GivenInv'
  BY DEF ByteAcknowledged, MainWaits, IInv, TypeOK, MainTypeOK, HardwareTypeOK, RegistersInv,
         GivenInv, Sending, Receiving, Bit
<1>5. SendInv'
  BY DEF ByteAcknowledged, MainWaits, IInv, TypeOK, MainTypeOK, HardwareTypeOK, RegistersInv,
         GivenInv, SendInv, StopInv, Sending, Bit
<1>6. (StopInv /\ RestartInv)'
  BY DEF ByteAcknowledged, MainWaits, IInv, TypeOK, MainTypeOK, HardwareTypeOK, GivenInv,
         RegistersInv, StopInv, RestartInv, Bit
<1>7. ReceiveInv'
  BY DEF ByteAcknowledged, MainWaits, IInv, TypeOK, MainTypeOK, HardwareTypeOK, RegistersInv,
         ReceiveInv, Receiving, Bit
<1>8. (WriteDelivered /\ ReadFilled /\ BusAfterCall)'
  BY DEF ByteAcknowledged, MainWaits, IInv, RegistersInv, QuietInv, WriteDelivered, ReadFilled,
         BusAfterCall, Returned
<1> QED
  BY <1>1, <1>2, <1>3, <1>4, <1>5, <1>6, <1>7, <1>8 DEF IInv, TypeOK

(* The bus is taken again. *)
LEMMA RepeatedStartStep == IInv /\ RepeatedStart => IInv'
<1> SUFFICES ASSUME IInv, RepeatedStart PROVE IInv'
  OBVIOUS
<1>1. MainTypeOK'
  BY DEF RepeatedStart, IInv, TypeOK, MainTypeOK, Indices
<1>2. HardwareTypeOK'
  BY PositionFacts DEF RepeatedStart, IInv, TypeOK, HardwareTypeOK
<1>3. (CallInv /\ RegistersInv /\ QuietInv)'
  BY ResultFacts
  DEF RepeatedStart, MainWaits, IInv, TypeOK, HardwareTypeOK, CallInv, RegistersInv, GivenInv,
      QuietInv, MessageSize, Sending, Receiving
<1>4. GivenInv'
  BY DEF RepeatedStart, MainWaits, IInv, TypeOK, MainTypeOK, HardwareTypeOK, RegistersInv,
         GivenInv, Sending, Receiving, Bit
<1>5. SendInv'
  BY DEF RepeatedStart, MainWaits, IInv, TypeOK, MainTypeOK, HardwareTypeOK, RegistersInv,
         GivenInv, SendInv, StopInv, Sending, Bit
<1>6. (StopInv /\ RestartInv)'
  BY DEF RepeatedStart, MainWaits, IInv, TypeOK, MainTypeOK, HardwareTypeOK, GivenInv,
         RegistersInv, StopInv, RestartInv, Bit
<1>7. ReceiveInv'
  BY DEF RepeatedStart, MainWaits, IInv, TypeOK, MainTypeOK, HardwareTypeOK, RegistersInv,
         ReceiveInv, Receiving, Bit
<1>8. (WriteDelivered /\ ReadFilled /\ BusAfterCall)'
  BY DEF RepeatedStart, MainWaits, IInv, RegistersInv, QuietInv, WriteDelivered, ReadFilled,
         BusAfterCall, Returned
<1> QED
  BY <1>1, <1>2, <1>3, <1>4, <1>5, <1>6, <1>7, <1>8 DEF IInv, TypeOK

(* The bus is freed after the last answer. *)
LEMMA StopSentStep == IInv /\ StopSent => IInv'
<1> SUFFICES ASSUME IInv, StopSent PROVE IInv'
  OBVIOUS
<1>1. MainTypeOK'
  BY DEF StopSent, IInv, TypeOK, MainTypeOK, Indices
<1>2. HardwareTypeOK'
  BY PositionFacts DEF StopSent, IInv, TypeOK, HardwareTypeOK
<1>3. (CallInv /\ RegistersInv /\ QuietInv)'
  BY ResultFacts
  DEF StopSent, MainWaits, IInv, TypeOK, HardwareTypeOK, CallInv, RegistersInv, GivenInv,
      QuietInv, MessageSize, Sending, Receiving
<1>4. GivenInv'
  BY DEF StopSent, MainWaits, IInv, TypeOK, MainTypeOK, HardwareTypeOK, RegistersInv, GivenInv,
         Sending, Receiving, Bit
<1>5. SendInv'
  BY DEF StopSent, MainWaits, IInv, TypeOK, MainTypeOK, HardwareTypeOK, RegistersInv, GivenInv,
         SendInv, StopInv, Sending, Bit
<1>6. (StopInv /\ RestartInv)'
  BY DEF StopSent, MainWaits, IInv, TypeOK, MainTypeOK, HardwareTypeOK, GivenInv, RegistersInv,
         StopInv, RestartInv, Bit
<1>7. ReceiveInv'
  BY DEF StopSent, MainWaits, IInv, TypeOK, MainTypeOK, HardwareTypeOK, RegistersInv,
         ReceiveInv, Receiving, Bit
<1>8. (WriteDelivered /\ ReadFilled /\ BusAfterCall)'
  BY DEF StopSent, MainWaits, IInv, RegistersInv, QuietInv, WriteDelivered, ReadFilled,
         BusAfterCall, Returned
<1> QED
  BY <1>1, <1>2, <1>3, <1>4, <1>5, <1>6, <1>7, <1>8 DEF IInv, TypeOK

(* A byte of the slave: it is at most one ahead of main. *)
LEMMA ByteReceivedStep == IInv /\ ByteReceived => IInv'
<1> SUFFICES ASSUME IInv, ByteReceived PROVE IInv'
  OBVIOUS
<1>1. MainTypeOK'
  BY DEF ByteReceived, IInv, TypeOK, MainTypeOK, Indices
<1>2. HardwareTypeOK'
  <2>1. given + 1 \in Positions
    BY DEF ByteReceived, IInv, TypeOK, MainTypeOK, HardwareTypeOK, GivenInv, Positions, Bit
  <2> QED
    BY <2>1 DEF ByteReceived, IInv, TypeOK, HardwareTypeOK
<1>3. (CallInv /\ RegistersInv /\ QuietInv)'
  BY ResultFacts
  DEF ByteReceived, MainWaits, IInv, TypeOK, HardwareTypeOK, CallInv, RegistersInv, GivenInv,
      QuietInv, MessageSize, Sending, Receiving
<1>4. GivenInv'
  BY PositionFacts
  DEF ByteReceived, MainWaits, IInv, TypeOK, MainTypeOK, HardwareTypeOK, RegistersInv,
      GivenInv, Sending, Receiving, Bit
<1>5. SendInv'
  BY DEF ByteReceived, MainWaits, IInv, TypeOK, MainTypeOK, HardwareTypeOK, RegistersInv,
         GivenInv, SendInv, StopInv, Sending, Bit
<1>6. (StopInv /\ RestartInv)'
  BY DEF ByteReceived, MainWaits, IInv, TypeOK, MainTypeOK, HardwareTypeOK, GivenInv,
         RegistersInv, StopInv, RestartInv, Bit
<1>7. ReceiveInv'
  BY DEF ByteReceived, MainWaits, IInv, TypeOK, MainTypeOK, HardwareTypeOK, RegistersInv,
         ReceiveInv, Receiving, Bit
<1>8. (WriteDelivered /\ ReadFilled /\ BusAfterCall)'
  BY DEF ByteReceived, MainWaits, IInv, RegistersInv, QuietInv, WriteDelivered, ReadFilled,
         BusAfterCall, Returned
<1> QED
  BY <1>1, <1>2, <1>3, <1>4, <1>5, <1>6, <1>7, <1>8 DEF IInv, TypeOK

-----------------------------------------------------------------------------
(* The invariant, and what follows from it. *)

(* Every step keeps the invariant. *)
LEMMA StepIInv == IInv /\ [Next]_vars => IInv'
<1> SUFFICES ASSUME IInv, [Next]_vars PROVE IInv'
  OBVIOUS
<1>1. CASE \E newOp \in {"write", "read"}, asize \in AddrSizes, dsize \in DataSizes :
             BeginTransfer(newOp, asize, dsize)
  BY <1>1, BeginStep
<1>2. CASE Main
  BY <1>2, SendStartStep, WaitStartStep, WaitTxStep, SendNextStep, RestartStep,
     WaitRestartStep, ReceiveNextStep, WaitRxStep, StoreStep, RequestStopStep, WaitStopStep
  DEF Main
<1>3. CASE Hardware
  BY <1>3, AddressAcknowledgedStep, RefusedStep, LoadShifterStep, ByteAcknowledgedStep,
     RepeatedStartStep, StopSentStep, ByteReceivedStep
  DEF Hardware
<1>4. CASE UNCHANGED vars
  <2>1. MainTypeOK' /\ HardwareTypeOK'
    BY <1>4 DEF vars, IInv, TypeOK, MainTypeOK, HardwareTypeOK, Indices
  <2>2. (CallInv /\ RegistersInv /\ GivenInv /\ QuietInv)'
    BY <1>4
    DEF vars, IInv, CallInv, RegistersInv, GivenInv, QuietInv, Sending, Receiving, MessageSize
  <2>3. (SendInv /\ StopInv /\ RestartInv /\ ReceiveInv)'
    BY <1>4 DEF vars, IInv, SendInv, StopInv, RestartInv, ReceiveInv, Sending, Receiving
  <2>4. (WriteDelivered /\ ReadFilled /\ BusAfterCall)'
    BY <1>4 DEF vars, IInv, WriteDelivered, ReadFilled, BusAfterCall, Returned
  <2> QED
    BY <2>1, <2>2, <2>3, <2>4 DEF IInv, TypeOK
<1> QED
  BY <1>1, <1>2, <1>3, <1>4 DEF Next

(* The inductive invariant holds in every reachable state. *)
THEOREM InvariantHolds == Spec => []IInv
BY InitIInv, StepIInv, PTL DEF Spec

(* The types of i2c.c's variables and of the registers. *)
THEOREM TypeCorrect == Spec => []TypeOK
<1>1. IInv => TypeOK
  BY DEF IInv
<1> QED
  BY <1>1, InvariantHolds, PTL

(* A write that returns OK after waits none of which went through all its  *)
(* rounds has been acknowledged byte by byte and in order, and the bus is  *)
(* free: i2c_write checks UCNACKIFG one byte late, and no refusal escapes  *)
(* it.                                                                     *)
THEOREM WritesDelivered == Spec => []WriteDelivered
<1>1. IInv => WriteDelivered
  BY DEF IInv
<1> QED
  BY <1>1, InvariantHolds, PTL

(* A read that returns OK after such waits has filled the whole of data,   *)
(* from the highest index down, with the slave's bytes in the order they   *)
(* were sent, and the slave sent no byte more.                             *)
THEOREM ReadsFilled == Spec => []ReadFilled
<1>1. IInv => ReadFilled
  BY DEF IInv
<1> QED
  BY <1>1, InvariantHolds, PTL

(* A call that returns early leaves the bus held by the refusal or free,   *)
(* never in the middle of a byte: i2c_write and i2c_read send no STOP when *)
(* a wait fails.                                                           *)
THEOREM BusAfterCalls == Spec => []BusAfterCall
<1>1. IInv => BusAfterCall
  BY DEF IInv
<1> QED
  BY <1>1, InvariantHolds, PTL

(* i2c_write and i2c_send_address never write UCB0TXBUF over a byte that   *)
(* the shifter has not taken.                                              *)
THEOREM TxbufNeverOverwritten == Spec => TxbufFree
<1>1. ASSUME IInv, [Next]_vars
      PROVE  [UCB0TXBUF' \notin {NoByte, UCB0TXBUF} /\ ~late => UCB0TXBUF = NoByte]_vars
  <2> SUFFICES ASSUME UCB0TXBUF' \notin {NoByte, UCB0TXBUF}, ~late
               PROVE  UCB0TXBUF = NoByte
    OBVIOUS
  <2>1. SendStart \/ SendNext
    <3>1. ~(UNCHANGED UCB0TXBUF) /\ UCB0TXBUF' # NoByte
      OBVIOUS
    <3>2. \A newOp, asize, dsize : ~BeginTransfer(newOp, asize, dsize)
      BY <3>1 DEF BeginTransfer
    <3>3. ~WaitStart /\ ~WaitTx /\ ~WaitRestart /\ ~WaitRx /\ ~WaitStop
      BY <3>1 DEF WaitStart, WaitTx, WaitRestart, WaitRx, WaitStop, Wait, Round, EndOfWait
    <3>4. ~Restart /\ ~ReceiveNext /\ ~Store /\ ~RequestStop
      BY <3>1 DEF Restart, ReceiveNext, Store, RequestStop
    <3>5. ~Hardware
      BY <3>1
      DEF Hardware, AddressAcknowledged, Refused, LoadShifter, ByteAcknowledged, RepeatedStart,
          StopSent, ByteReceived
    <3>6. ~UNCHANGED vars
      BY <3>1 DEF vars
    <3> QED
      BY <1>1, <3>2, <3>3, <3>4, <3>5, <3>6 DEF Next, Main
  <2>2. CASE SendStart
    BY <1>1, <2>2 DEF SendStart, IInv, QuietInv
  <2>3. CASE SendNext
    BY <1>1, <2>3 DEF SendNext, IInv, SendInv, Sending
  <2> QED
    BY <2>1, <2>2, <2>3
<1> QED
  BY <1>1, InvariantHolds, PTL DEF Spec, TxbufFree
=============================================================================
