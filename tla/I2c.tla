-------------------------------- MODULE I2c --------------------------------
(***************************************************************************)
(* The I2C master of i2c.c: i2c_write and i2c_read, with USCI_B0 and the   *)
(* slave on the bus, which may refuse any byte or stop answering.          *)
(*                                                                         *)
(* Bytes are named by their position: the message sent is 1, 2, ... (the   *)
(* register address, then the data), and so are the bytes the slave sends. *)
(*                                                                         *)
(* Two actors share the registers: main, which waits in loops of at most   *)
(* COUNT rounds, and the hardware.  A byte on the bus takes 90 us and main *)
(* a microsecond between two statements, so the steps of the hardware that *)
(* last a byte happen while main is in a loop, or not in i2c.c.            *)
(***************************************************************************)
EXTENDS Naturals, Sequences

CONSTANTS
  COUNT,       \* The largest uint16_t: 65535.
  AddrSizes,   \* Sizes of a register address, in bytes.
  DataSizes,   \* Sizes of the data.
  MaxCalls     \* Bound: the number of transfers.

ASSUME CountAssumption == COUNT \in Nat \ {0}
ASSUME SizesAssumption == AddrSizes \subseteq 1 .. 255 /\ DataSizes \subseteq 0 .. 255
ASSUME CallsAssumption == MaxCalls \in Nat

VARIABLES
  pc,         \* Where main is.
  op,         \* "write" or "read".
  addr_size,  \* The arguments of the call.
  data_size,
  next,       \* The next byte of the message to send.
  i,          \* The index of i2c_read.
  count,      \* The rounds left in the loop main is in.
  result,     \* An i2c_result_e.
  data,       \* The destination of i2c_read.
  UCTR,       \* Main is transmitter.
  UCTXSTT,    \* A START is requested or its address is being sent.
  UCTXSTP,    \* A STOP is requested.
  UCB0TXIFG,
  UCB0RXIFG,
  UCNACKIFG,
  UCB0TXBUF,
  UCB0RXBUF,
  bus,        \* What happens on the bus.
  shifter,    \* The byte being sent.
  heard,      \* The bytes of the message the slave has acknowledged.
  given,      \* The number of bytes the slave has sent.
  calls,      \* Calls so far.
  late        \* History: a wait went through all its rounds.

arguments == <<op, addr_size, data_size>>
locals == <<arguments, next, i, result, data, calls, late>>
registers == <<UCTR, UCTXSTT, UCTXSTP, UCB0TXIFG, UCB0RXIFG, UCNACKIFG, UCB0TXBUF, UCB0RXBUF>>
slave == <<bus, shifter, heard, given>>
vars == <<pc, locals, count, registers, slave>>

NoByte == 0

OK == "I2C_RESULT_OK"
ERROR_START == "I2C_RESULT_ERROR_START"
ERROR_TX == "I2C_RESULT_ERROR_TX"
ERROR_RX == "I2C_RESULT_ERROR_RX"
ERROR_STOP == "I2C_RESULT_ERROR_STOP"
ERROR_TIMEOUT == "I2C_RESULT_ERROR_TIMEOUT"

(* The bytes that are sent: the address, and the data of a write. *)
MessageSize == IF op = "write" THEN addr_size + data_size ELSE addr_size

(* After i2c_init, with a free bus. *)
Init ==
  /\ pc = "idle"
  /\ op = "write" /\ addr_size = 1 /\ data_size = 0
  /\ next = 1 /\ i = 0 /\ count = COUNT
  /\ result = OK
  /\ data = <<>>
  /\ UCTR = FALSE /\ UCTXSTT = FALSE /\ UCTXSTP = FALSE
  /\ UCB0TXIFG = FALSE /\ UCB0RXIFG = FALSE /\ UCNACKIFG = FALSE
  /\ UCB0TXBUF = NoByte /\ UCB0RXBUF = NoByte
  /\ bus = "free" /\ shifter = NoByte
  /\ heard = <<1>> /\ given = 0
  /\ calls = 0
  /\ late = FALSE

-----------------------------------------------------------------------------
(***************************************************************************)
(* Main: i2c_write and i2c_read.                                           *)
(***************************************************************************)

MainStep(from, to) == pc = from /\ pc' = to

(* The client calls i2c_write or i2c_read, the latter for at least one     *)
(* byte; it gives up after a wait that went through all its rounds, of     *)
(* which it need not know.                                                 *)
BeginTransfer(newOp, asize, dsize) ==
  /\ MainStep("idle", "start")
  /\ calls < MaxCalls /\ ~late
  /\ newOp = "read" => dsize > 0
  /\ op' = newOp /\ addr_size' = asize /\ data_size' = dsize
  /\ data' = IF newOp = "read" THEN [k \in 0 .. dsize - 1 |-> NoByte] ELSE <<>>
  /\ heard' = <<>> /\ given' = 0
  /\ calls' = calls + 1
  /\ UNCHANGED <<next, i, count, result, late, registers, bus, shifter>>

(* i2c_send_address up to its first wait.  The START clears UCNACKIFG and  *)
(* sets UCB0TXIFG, which the write of UCB0TXBUF clears.                    *)
SendStart ==
  /\ MainStep("start", "wait_start")
  /\ UCTR' = TRUE
  /\ UCTXSTT' = TRUE
  /\ UCNACKIFG' = FALSE
  /\ UCB0TXBUF' = 1
  /\ UCB0TXIFG' = FALSE
  /\ next' = 2
  /\ bus' = "address_tx"
  /\ UNCHANGED <<arguments, i, count, result, data, calls, late, UCTXSTP, UCB0RXIFG,
                 UCB0RXBUF, shifter, heard, given>>

(* Mutant: the wait never reports an error. *)
CheckForgotten(rounds, error) == OK

(* What a wait returns, after its loop has ended with count = rounds. *)
Check(rounds, error) ==
  IF rounds = 0 THEN ERROR_TIMEOUT ELSE IF UCNACKIFG THEN error ELSE OK

(* Mutant: the loop does not count. *)
RoundUncounted(at) ==
  /\ MainStep(at, at)
  /\ count > 0
  /\ UNCHANGED <<locals, count, registers, slave>>

(* Mutant: the loop goes on when count is 0. *)
RoundUnbounded(at) ==
  /\ MainStep(at, at)
  /\ count' = count - 1
  /\ UNCHANGED <<locals, registers, slave>>

(* while (waiting && count--) {}: one round; the test fails at count = 0. *)
Round(at) ==
  /\ MainStep(at, at)
  /\ count > 0
  /\ count' = count - 1
  /\ UNCHANGED <<locals, registers, slave>>

(* The end of the loop.  The test that finds count = 0 still decrements    *)
(* it, to the largest value, so that the comparison with 0 that follows    *)
(* fails.  A next wait starts with COUNT again.                            *)
EndOfWait(at, waiting, error, to) ==
  /\ pc = at
  /\ waiting => count = 0
  /\ result' = Check(IF waiting THEN COUNT ELSE count, error)
  /\ pc' = IF result' = OK THEN to ELSE "idle"
  /\ count' = COUNT
  /\ late' = (late \/ count = 0)
  /\ UNCHANGED <<arguments, next, i, data, calls, registers, slave>>

Wait(at, waiting, error, to) ==
  \/ waiting /\ Round(at)
  \/ EndOfWait(at, waiting, error, to)

WaitStart == Wait("wait_start", UCTXSTT, ERROR_START, "wait_tx")
WaitTx == Wait("wait_tx", ~UCB0TXIFG, ERROR_TX, "sent")

(* Mutant: the next byte is written without waiting for the one before. *)
SendNextUnwaited ==
  /\ next <= MessageSize
  /\ MainStep("sent", IF next < MessageSize THEN "sent" ELSE "wait_tx")
  /\ UCB0TXBUF' = next
  /\ UCB0TXIFG' = FALSE
  /\ next' = next + 1
  /\ UNCHANGED <<arguments, i, count, result, data, calls, late, UCTR, UCTXSTT, UCTXSTP,
                 UCB0RXIFG, UCNACKIFG, UCB0RXBUF, slave>>

(* The loops over the rest of the address and over the data of a write. *)
SendNext ==
  /\ next <= MessageSize
  /\ MainStep("sent", "wait_tx")
  /\ UCB0TXBUF' = next
  /\ UCB0TXIFG' = FALSE
  /\ next' = next + 1
  /\ UNCHANGED <<arguments, i, count, result, data, calls, late, UCTR, UCTXSTT, UCTXSTP,
                 UCB0RXIFG, UCNACKIFG, UCB0RXBUF, slave>>

(* i2c_start_rx_transfer after the address: START again, as receiver. *)
Restart ==
  /\ op = "read" /\ next > MessageSize
  /\ MainStep("sent", "wait_restart")
  /\ UCTR' = FALSE
  /\ UCTXSTT' = TRUE
  /\ i' = data_size - 1
  /\ UNCHANGED <<arguments, next, count, result, data, calls, late, UCTXSTP, UCB0TXIFG,
                 UCB0RXIFG, UCNACKIFG, UCB0TXBUF, UCB0RXBUF, slave>>

WaitRestart == Wait("wait_restart", UCTXSTT, ERROR_START, "receive")

(* The loop over the data of a read, which ends before the last byte. *)
ReceiveNext ==
  /\ i >= 1
  /\ MainStep("receive", "wait_rx")
  /\ UNCHANGED <<locals, count, registers, slave>>

WaitRx == Wait("wait_rx", ~UCB0RXIFG, ERROR_RX, "received")

(* Mutant: the first byte received goes to the lowest index. *)
StoreFromLeast ==
  /\ MainStep("received", IF i = 0 THEN "idle" ELSE "receive")
  /\ data' = [data EXCEPT ![data_size - 1 - i] = UCB0RXBUF]
  /\ i' = IF i = 0 THEN 0 ELSE i - 1
  /\ UCB0RXIFG' = FALSE
  /\ UNCHANGED <<arguments, next, count, result, calls, late, UCTR, UCTXSTT, UCTXSTP,
                 UCB0TXIFG, UCNACKIFG, UCB0TXBUF, UCB0RXBUF, slave>>

(* Reading UCB0RXBUF clears the flag.  The byte at index 0 is the last. *)
Store ==
  /\ MainStep("received", IF i = 0 THEN "idle" ELSE "receive")
  /\ data' = [data EXCEPT ![i] = UCB0RXBUF]
  /\ i' = IF i = 0 THEN 0 ELSE i - 1
  /\ UCB0RXIFG' = FALSE
  /\ UNCHANGED <<arguments, next, count, result, calls, late, UCTR, UCTXSTT, UCTXSTP,
                 UCB0TXIFG, UCNACKIFG, UCB0TXBUF, UCB0RXBUF, slave>>

(* Mutant: the STOP is requested and not waited for. *)
RequestStopUnwaited ==
  /\ \/ op = "write" /\ next > MessageSize /\ MainStep("sent", "idle")
     \/ i = 0 /\ MainStep("receive", "wait_rx")
  /\ UCTXSTP' = TRUE
  /\ UNCHANGED <<locals, count, UCTR, UCTXSTT, UCB0TXIFG, UCB0RXIFG, UCNACKIFG,
                 UCB0TXBUF, UCB0RXBUF, slave>>

(* i2c_stop_transfer: after the message of a write, before the last byte   *)
(* of a read.                                                              *)
RequestStop ==
  /\ \/ op = "write" /\ next > MessageSize /\ MainStep("sent", "wait_stop")
     \/ i = 0 /\ MainStep("receive", "wait_stop")
  /\ UCTXSTP' = TRUE
  /\ UNCHANGED <<locals, count, UCTR, UCTXSTT, UCB0TXIFG, UCB0RXIFG, UCNACKIFG,
                 UCB0TXBUF, UCB0RXBUF, slave>>

WaitStop ==
  Wait("wait_stop", UCTXSTP, ERROR_STOP, IF op = "write" THEN "idle" ELSE "wait_rx")

Main ==
  \/ SendStart
  \/ WaitStart
  \/ WaitTx
  \/ SendNext
  \/ Restart
  \/ WaitRestart
  \/ ReceiveNext
  \/ WaitRx
  \/ Store
  \/ RequestStop
  \/ WaitStop

-----------------------------------------------------------------------------
(***************************************************************************)
(* USCI_B0 and the slave (hardware).                                       *)
(***************************************************************************)

(* Main leaves time for a byte. *)
MainWaits ==
  pc \in {"idle", "wait_start", "wait_tx", "wait_restart", "wait_rx", "wait_stop"}

AddressAcknowledged ==
  /\ MainWaits
  /\ bus \in {"address_tx", "address_rx"}
  /\ bus' = IF bus = "address_tx" THEN "ready" ELSE "receiving"
  /\ UCTXSTT' = FALSE
  /\ UNCHANGED <<pc, locals, count, UCTR, UCTXSTP, UCB0TXIFG, UCB0RXIFG, UCNACKIFG,
                 UCB0TXBUF, UCB0RXBUF, shifter, heard, given>>

(* A byte that is refused sets UCNACKIFG; what is in UCB0TXBUF is dropped, *)
(* and the bus is held.                                                    *)
Refused ==
  /\ MainWaits
  /\ bus \in {"address_tx", "address_rx", "sending"}
  /\ bus' = "held"
  /\ shifter' = NoByte
  /\ UCNACKIFG' = TRUE
  /\ UCB0TXIFG' = FALSE
  /\ UCB0TXBUF' = NoByte
  /\ UCTXSTT' = (UCTXSTT /\ bus = "sending")
  /\ UNCHANGED <<pc, locals, count, UCTR, UCTXSTP, UCB0RXIFG, UCB0RXBUF, heard, given>>

LoadShifter ==
  /\ bus = "ready" /\ UCB0TXBUF # NoByte
  /\ bus' = "sending"
  /\ shifter' = UCB0TXBUF
  /\ UCB0TXBUF' = NoByte
  /\ UCB0TXIFG' = TRUE
  /\ UNCHANGED <<pc, locals, count, UCTR, UCTXSTT, UCTXSTP, UCB0RXIFG, UCNACKIFG,
                 UCB0RXBUF, heard, given>>

ByteAcknowledged ==
  /\ MainWaits
  /\ bus = "sending"
  /\ bus' = "ready"
  /\ shifter' = NoByte
  /\ heard' = Append(heard, shifter)
  /\ UNCHANGED <<pc, locals, count, registers, given>>

(* A START on a bus that is already taken. *)
RepeatedStart ==
  /\ UCTXSTT
  /\ bus = "held" \/ (bus = "ready" /\ UCB0TXBUF = NoByte)
  /\ bus' = IF UCTR THEN "address_tx" ELSE "address_rx"
  /\ UCNACKIFG' = FALSE
  /\ UNCHANGED <<pc, locals, count, UCTR, UCTXSTT, UCTXSTP, UCB0TXIFG, UCB0RXIFG,
                 UCB0TXBUF, UCB0RXBUF, shifter, heard, given>>

StopSent ==
  /\ UCTXSTP /\ ~UCTXSTT
  /\ bus = "held" \/ (bus = "ready" /\ UCB0TXBUF = NoByte)
  /\ bus' = "free"
  /\ UCTXSTP' = FALSE
  /\ UNCHANGED <<pc, locals, count, UCTR, UCTXSTT, UCB0TXIFG, UCB0RXIFG, UCNACKIFG,
                 UCB0TXBUF, UCB0RXBUF, shifter, heard, given>>

(* The slave sends a byte; with a STOP requested the byte is the last. *)
ByteReceived ==
  /\ MainWaits
  /\ bus = "receiving" /\ ~UCB0RXIFG
  /\ given' = given + 1
  /\ UCB0RXBUF' = given + 1
  /\ UCB0RXIFG' = TRUE
  /\ bus' = IF UCTXSTP THEN "free" ELSE "receiving"
  /\ UCTXSTP' = FALSE
  /\ UNCHANGED <<pc, locals, count, UCTR, UCTXSTT, UCB0TXIFG, UCNACKIFG, UCB0TXBUF,
                 shifter, heard>>

Hardware ==
  \/ AddressAcknowledged
  \/ Refused
  \/ LoadShifter
  \/ ByteAcknowledged
  \/ RepeatedStart
  \/ StopSent
  \/ ByteReceived

Next ==
  \/ \E newOp \in {"write", "read"}, asize \in AddrSizes, dsize \in DataSizes :
       BeginTransfer(newOp, asize, dsize)
  \/ Main
  \/ Hardware

(* Main goes on; the slave may stop answering for ever. *)
Spec == Init /\ [][Next]_vars /\ WF_vars(Main)

-----------------------------------------------------------------------------
(***************************************************************************)
(* Properties.                                                             *)
(***************************************************************************)

Positions == 0 .. 510
Indices == 0 .. (IF op = "read" THEN data_size ELSE 0) - 1

MainTypeOK ==
  /\ pc \in {"idle", "start", "wait_start", "wait_tx", "sent", "wait_restart", "receive",
             "wait_rx", "received", "wait_stop"}
  /\ op \in {"write", "read"}
  /\ addr_size \in 1 .. 255 /\ data_size \in 0 .. 255
  /\ next \in 1 .. 511 /\ i \in 0 .. 254 /\ count \in 0 .. COUNT
  /\ result \in {OK, ERROR_START, ERROR_TX, ERROR_RX, ERROR_STOP, ERROR_TIMEOUT}
  /\ data \in [Indices -> Positions]
  /\ calls \in 0 .. MaxCalls
  /\ late \in BOOLEAN

HardwareTypeOK ==
  /\ UCTR \in BOOLEAN /\ UCTXSTT \in BOOLEAN /\ UCTXSTP \in BOOLEAN
  /\ UCB0TXIFG \in BOOLEAN /\ UCB0RXIFG \in BOOLEAN /\ UCNACKIFG \in BOOLEAN
  /\ UCB0TXBUF \in Positions /\ UCB0RXBUF \in Positions
  /\ bus \in {"free", "address_tx", "address_rx", "ready", "sending", "receiving", "held"}
  /\ shifter \in Positions /\ given \in Positions
  /\ heard \in Seq(Positions)

TypeOK == MainTypeOK /\ HardwareTypeOK

Returned(operation) == pc = "idle" /\ op = operation /\ result = OK

(* A write that returns OK, none of whose waits went through all rounds,   *)
(* has been acknowledged byte by byte and in order, and has freed the bus: *)
(* although UCNACKIFG is read when a byte has left UCB0TXBUF, long before  *)
(* the slave answers it, no refusal goes unnoticed.                        *)
WriteDelivered ==
  Returned("write") /\ ~late =>
    heard = [k \in 1 .. addr_size + data_size |-> k] /\ bus = "free"

(* A read that returns OK has the slave's bytes, the first one at the      *)
(* highest index, took no byte too many, and has freed the bus.  Of a read *)
(* with a timeout, which the code does not notice, it says nothing.        *)
ReadFilled ==
  Returned("read") /\ ~late =>
    /\ data = [k \in 0 .. data_size - 1 |-> data_size - k]
    /\ given = data_size
    /\ bus = "free" /\ ~UCB0RXIFG

(* i2c_write and i2c_read return at once when a wait fails, without a      *)
(* STOP.  The bus is then held by a refusal and can take the START of the  *)
(* next transfer; no call leaves a byte under way, and none that returns   *)
(* OK leaves the bus held, unless a wait has gone through all its rounds:  *)
(* of such a call only that ERROR_TX is a refusal is said.                 *)
BusAfterCall ==
  pc = "idle" =>
    /\ result = ERROR_TX => bus = "held"
    /\ ~late => bus \in {"free", "held"} /\ (bus = "held" <=> result = ERROR_START)

(* No byte is written over one that is still in UCB0TXBUF. *)
TxbufFree ==
  [][UCB0TXBUF' \notin {NoByte, UCB0TXBUF} /\ ~late => UCB0TXBUF = NoByte]_vars

(* A transfer returns, whatever the slave does. *)
TransferReturns == pc = "start" ~> pc = "idle"

(* "If timeout happened then count == 0": a wait that went through all its *)
(* rounds is not taken for a success.                                      *)
TimeoutReported == pc = "idle" /\ late => result # OK

-----------------------------------------------------------------------------
(***************************************************************************)
(* The inductive invariant of the safety properties.  The first three      *)
(* parts hold on every path, the others until a wait has gone through all  *)
(* its rounds.                                                             *)
(***************************************************************************)

Sending == pc \in {"wait_start", "wait_tx", "sent"}
Receiving == pc \in {"receive", "wait_rx", "received"} \/ (pc = "wait_stop" /\ op = "read")
Bit(flag) == IF flag THEN 1 ELSE 0

(* The arguments and the loop counters of the call main is in. *)
CallInv ==
  /\ op = "read" => data_size > 0
  /\ pc = "start" => ~late /\ heard = <<>> /\ given = 0
  /\ pc \in {"wait_restart", "receive", "wait_rx", "received"} => op = "read"
  /\ pc \notin {"idle", "start"} => next >= 2 /\ next <= MessageSize + 1
  /\ pc = "wait_stop" /\ op = "write" => next = MessageSize + 1
  /\ pc \notin {"idle", "start", "wait_start"} => result = OK
  /\ pc = "wait_restart" \/ Receiving => i < data_size

(* The registers while the address and the data of a write are sent, and   *)
(* after a refusal that ends the call.                                     *)
RegistersInv ==
  /\ UCB0TXIFG => UCB0TXBUF = NoByte
  /\ bus = "sending" <=> shifter # NoByte
  /\ Sending =>
       /\ bus \in {"address_tx", "ready", "sending", "held"}
       /\ ~UCTXSTP
       /\ UCNACKIFG <=> bus = "held"
       /\ bus = "held" => ~UCB0TXIFG
  /\ pc = "idle" /\ result = ERROR_TX => bus = "held" /\ ~UCTXSTT /\ ~UCTXSTP

(* The slave sends nothing before the second START of a read, and no more  *)
(* than one byte ahead of main after it.                                   *)
GivenInv ==
  /\ op = "write" \/ Sending =>
       /\ given = 0 /\ ~UCB0RXIFG
       /\ bus \notin {"address_rx", "receiving"}
       /\ UCTXSTT => bus = "address_tx"
  /\ pc = "wait_restart" \/ Receiving => given <= data_size - 1 - i + Bit(UCB0RXIFG)
  /\ given <= data_size + Bit(UCB0RXIFG)

(* Between two calls nothing is requested, buffered or under way. *)
QuietInv ==
  pc \in {"idle", "start"} /\ ~late =>
    /\ ~UCTXSTT /\ ~UCTXSTP /\ ~UCB0RXIFG
    /\ UCB0TXBUF = NoByte
    /\ bus \in {"free", "held"}
    /\ bus = "held" <=> result = ERROR_START

(* Until a byte is refused the bytes written so far are, in order, those   *)
(* the slave has acknowledged, the one in the shifter and the one in       *)
(* UCB0TXBUF; the latter is empty when main goes on.                       *)
SendInv ==
  (Sending \/ (pc = "wait_stop" /\ op = "write")) /\ ~late =>
    /\ ~UCNACKIFG =>
         /\ Len(heard) = next - 1 - Bit(UCB0TXBUF # NoByte) - Bit(shifter # NoByte)
         /\ \A k \in 1 .. Len(heard) : heard[k] = k
         /\ UCB0TXBUF \in {NoByte, next - 1}
         /\ shifter \in {NoByte, Len(heard) + 1}
    /\ bus = "address_tx" => UCB0TXBUF # NoByte
    /\ bus = "held" => UCB0TXBUF = NoByte
    /\ pc = "sent" => UCB0TXBUF = NoByte /\ bus \in {"ready", "sending"}

(* The STOP of a write waits for the answer to the last byte. *)
StopInv ==
  pc = "wait_stop" /\ op = "write" /\ ~late =>
    /\ UCB0TXBUF = NoByte
    /\ bus \in {"ready", "sending", "held", "free"}
    /\ UCTXSTP <=> bus # "free"
    /\ bus = "held" => UCNACKIFG

(* The second START of a read ends with the slave sending or the bus held. *)
RestartInv ==
  pc = "wait_restart" /\ ~late =>
    /\ ~UCTR /\ ~UCTXSTP
    /\ UCB0TXBUF = NoByte
    /\ bus \in {"ready", "sending", "held", "address_rx", "receiving"}
    /\ UCNACKIFG <=> bus = "held"
    /\ ~UCTXSTT => bus \in {"receiving", "held"}
    /\ bus = "receiving" => ~UCTXSTT
    /\ i = data_size - 1
    /\ given = Bit(UCB0RXIFG)
    /\ UCB0RXIFG => bus = "receiving" /\ UCB0RXBUF = given

(* The bytes received fill the indices above i, the slave is ahead by the  *)
(* byte in UCB0RXBUF if by any, and it stops with the byte of index 0.     *)
ReceiveInv ==
  Receiving /\ ~late =>
    /\ ~UCNACKIFG /\ ~UCTXSTT
    /\ UCB0TXBUF = NoByte
    /\ given = data_size - 1 - i + Bit(UCB0RXIFG)
    /\ UCB0RXIFG => UCB0RXBUF = given
    /\ \A k \in i + 1 .. data_size - 1 : data[k] = data_size - k
    /\ pc = "received" => UCB0RXIFG
    /\ pc = "wait_stop" => i = 0
    /\ UCTXSTP <=> pc = "wait_stop" /\ bus = "receiving"
    /\ IF i = 0 /\ pc # "receive" /\ ~UCTXSTP THEN bus = "free" /\ UCB0RXIFG
       ELSE bus = "receiving"

IInv ==
  /\ TypeOK /\ CallInv /\ RegistersInv /\ GivenInv /\ QuietInv
  /\ SendInv /\ StopInv /\ RestartInv /\ ReceiveInv
  /\ WriteDelivered /\ ReadFilled /\ BusAfterCall
=============================================================================
