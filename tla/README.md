# Sumo-bot: a verification project

TLA+ modules for the firmware of a sumo robot on an MSP430G2553
(`src/Drivers`), the TLC configurations that check them and proofs that TLAPS
checks. The firmware has no operating system: there is one main program, there
are interrupt service routines (ISRs) that run to completion, and there is
hardware that moves on by itself. `main()` is still empty, so every model
supplies a client that calls the public functions the way their headers allow.

## 1. Inventory

| Part | Files | State | Operations | Who interacts |
|---|---|---|---|---|
| Ring buffer | `ring_buffer.c` | array, `head_index`, `tail_index` (uint8_t) | put, get, peek, empty, full | used by UART and IR from main and from an ISR; no locking of its own |
| UART transmitter | `uart.c` | `tx_buffer`, UCA0TXIE, UCA0TXIFG, UCA0TXBUF | `uart_init`, `uart_print_interrupt`, `uart_putchar_interrupt`, `uart_putchar_polling`, `isr_uart_tx` | main, ISR, USCI |
| IR receiver | `ir_remote.c` | `pulse_count`, `timer_ms`, message, command buffer | `ir_remote_init`, `ir_remote_get_command`, port 2 ISR, timer A0 ISR | main, two ISRs, timer, remote control |
| PWM | `pwm.c` | channel flags, timer A1 registers | `pwm_init`, `pwm_set_duty_cycle` | motor driver |
| Motor driver | `motor_driver.c` | pins P2.6 and P2.7 | init, set mode, set pwm | drive layer, `io.c`, `pwm.c` |
| Drive layer | `drive_application.c` | none (a table) | `drive_init`, `drive_set_direction_and_speed`, `drive_stop` | motor driver |
| I2C master | `i2c.c` | USCI_B0 registers | read, write, timeouts | bus, range sensor |
| ADC, line sensors | `adc.c`, `qre1113.c`, `voltage_to_line.c` | two arrays, channel count | init, ISR, get values, `line_get` | main, ISR, transfer controller |
| Pins | `io.c` | port registers, table of handlers | configure, set, configure and enable an interrupt, two port ISRs | main, ISRs, handlers, everything above |
| Start-up | `mcuinit.c` | global interrupt enable, clock | `mcu_init` | everything |
| printf | `printf.c` | third party | formatting | UART by a putchar hook |
| Manual tests | `main.c`, `test.c` | none | commented out in `main.c`; `test.c` is empty | pins |

What is hard in it, and where it is looked for (the complete list, line by line,
is `hazards` in `PROJECT.json`):

- **interleavings** of main and an ISR on one queue, with the hardware moving
  between any two statements (UART, IR, ADC);
- **order of register writes** that hardware sees one by one (PWM and pins);
- **silence and noise**: lost edges, repeat codes, a bus that does not answer
  (IR, I2C), and the timeouts against them;
- **limits**: full queues, wrapped counters, integer scaling;
- **waiting**: loops that poll a flag or a queue, and an ISR with a `while(1)`.

What makes each part correct:

- UART: each accepted byte is sent once and in order; the ISR never hangs; a
  print returns.
- IR: a message that finds the receiver idle yields its command, nothing else
  yields one, silence resets but the gaps of a frame do not, commands are taken in
  the order of their reception (the header promises the most recent one: `ir_latest`).
- Drive: the motor is never over-driven, never started at an old duty cycle, and after
  a call it has the duty cycle commanded. When both wheels turn the same way it is
  never accelerated in an old direction and ends in the one commanded. For rotations
  and sharp arcs neither is true of the left motor (`drive_mode`).
- I2C: a transfer reports success only if every byte was acknowledged, ends,
  and leaves the bus free.
- ADC and line: the four values of one reading come from one sequence.
- Pins: an edge on an enabled pin runs the handler of that pin.

## 2. Plan

| Order | Modules | Content | State |
|---|---|---|---|
| 1 | `RingBuffer`, `RingBufferProofs` | queue operations, lemmas | done |
| 2 | `SerialLine`, `Uart`, `UartProofs`, `UartPolling` | transmitter, abstract line, refinement, safety proofs | done |
| 3 | `IrRemote`, `IrRemoteProofs` | receiver against the NEC code | done: modelled, checked, safety proved |
| 4 | `IoPins`, `Pwm`, `Drive`, `DriveProofs` | pins, PWM, motor driver, drive layer | done: modelled, checked, safety proved |
| 5 | `I2c`, `I2cProofs` | transfers against a bus | done: modelled, checked, safety proved |
| 6 | `LineSensor`, `AdcLine`, `AdcLineProofs` | abstract line sensor; sampling, snapshot, line detection; refinement | done: modelled, checked, safety and refinement proved |
| 7 | `IoInterrupt`, `IoInterruptProofs` | handlers and port ISRs | done: modelled, checked, safety proved |

Every safety property of a passing run is now the statement of a theorem (section
5). Left to prove: the positive side of a finding, what the polling transmitter still
guarantees before it hangs.

## 3. Modules

### RingBuffer

Operators on a record with the fields of `struct ring_buffer`; indices are
counted modulo 2^8 and wrapped by comparison, as in the code. `Count` and
`Element` give the unread elements. The field `full` is left out, since no line
touches it.

### SerialLine and Uart

`SerialLine` is what the transmitter promises: bytes are accepted, and leave in
order; the backlog is bounded. `Uart` is the code. One action is one C statement
that touches shared state; the ISR has its own program counter, and while it is
not "off" main does not move. The USCI moves at any time, inside the ISR too.

| Code | Actions |
|---|---|
| `mcu_init` | `mcu_init` (the enabling of interrupts) |
| `uart_init` | `UartReset`, `UartInitClear`, `UartInitEnable` |
| `uart_print_interrupt` | `uart_print_interrupt`, `PrintTest`, the `i++` in `PutcharEnable` |
| `uart_putchar_interrupt` | `PutcharPoll`, `...Disable`, `...Ongoing`, `...Put`, `...Start`, `...Enable` |
| `isr_uart_tx` | `IsrEnter`, `IsrEmpty`, `IsrGet`, `IsrClear`, `IsrStart` |
| `uart_putchar_polling` | `UartPolling`: `uart_putchar_polling`, `PollingSpin`, `PollingLoad` |
| USCI_A0 | `UsciLoad`, `UsciShiftOut` |

`mcu_init` and `uart_init` may come in either order. Strings are shorter than the
range of the uint8_t index (`LengthAssumption`): for longer ones the loop of
`uart_print_interrupt` never ends, which is listed as a hazard.

### IrRemote

Both ISRs are single actions: no ISR interrupts another, and they share no state
with main except the command buffer, which main touches with P2IE off.
`ir_remote_get_command` has three steps, so that an edge may arrive in each. The
remote sends the edges of the NEC code: a leader, four fields, and for a repeat
code a leader alone. Time is counted in ticks of the timer since the last edge.
A 0 lasts 1.125 ms and a 1 lasts 2.25 ms, so one or two ticks are over when the
next edge comes, and an ISR has the remaining part of the millisecond; a frame
itself may start at any moment, also with a tick pending. An edge may be lost.

Bytes and `raw` are sequences of bits, the most significant first, since it is the
shifting of bits that goes wrong when an edge is missed: `raw <<= 1` drops the
first bit, and the byte `decoded.cmd` is the third quarter. `good` marks a command
frame that found the receiver idle and lost no edge; `strayed` and `wrapped`
remember the two ways in which edges that belong to no such frame come to be
counted from 0. After either, a wrong command may be queued.

### IoPins, Pwm and Drive

Main alone uses these, but the motor sees every register write. `todo` holds the
calls that are still to be carried out; each action carries out the first one,
writes its register and puts the calls it makes in its place, so the nesting
`drive_set_direction_and_speed` - `motor_driver_set_mode` - `io_set_out` and
`pwm_set_duty_cycle` - `pwm_channel_enable` - `pwm_timer_enable` is the code's.
Two functions whose writes only the hardware could see half done are single steps:
`io_set_select` (PxSEL and PxSEL2) and `pwm_timer_enable` (clears the mode, sets it, sets
TACLR); between the writes of the first no pin drives a motor that has power yet.
`restarts` flips whenever a new PWM period is forced. `IoPins` has the functions
of `io.c` that configure a pin, for the three pins of the motor: its function
(P2SEL and P2SEL2), direction, level and resistor. After reset P2.6 and P2.7
belong to the crystal and P2OUT holds anything, so a motor that gets power before
its pins are configured would show. `Drive` has no constants: the table is the
code's and every sequence of commands is checked. `drive_init` comes first and once, as the (commented)
assertions of the code ask.

### LineSensor and AdcLine

`LineSensor` is what `line_get` promises: now and then the four sensors are
sampled together, and a call reports a line (`voltage_to_line.h`) that fits the
latest sample. `Detecting` is the table of that header; where three or four
sensors detect white, any line that names as many of them as a line can is allowed.

`AdcLine` is the code, with three actors on two arrays:

| Code | Actions |
|---|---|
| ADC10 and its transfer controller | `Convert`: one conversion, stored from the last channel down |
| `adc_init` (by `line_init`, `qre1113_init`) | `adc_init` |
| `isr_adc_10` | `IsrEnter`, `IsrCopy` (one element), `IsrReturn` (restart) |
| `line_get`, `qre1113_get_voltages`, `adc_get_channel_values` | `line_get` (masks the interrupt), `GetChannel` (one pin), `GetReturn` (unmasks, classifies) |

`LineSpec` is the refinement: `white`, the sensors below the threshold in the
latest sequence the ISR has copied, changes when the ISR returns, and `line` when
`line_get` does. An update of one register bit is one instruction (BIS, BIC), so it
loses no interrupt flag. `io_adc_pins` and `io_to_adc_index` are called but not in
the repository, and `io.h` names the front left sensor only: constants stand for
the list of pins and for the channel of each sensor. The debug pin is left out.

### IoInterrupt

The table `isr_functions`, the registers PxIFG, PxIE and PxIES, the functions that
change them and both port ISRs. `io_configure_interrupt` has four steps and
`io_deconfigure_interrupt` two, so a port ISR may run between any two statements;
the ISR looks at one pin at a time and its handlers take time, so edges arrive
before and after the pin they belong to is looked at. Selecting an edge may set the
flag, as the comment at `io.c:195` says. The client calls the functions in any
order, on any pin, but gives a handler only to a pin that has none (the assertion
that is commented out at `io.c:226`). The handlers themselves do not touch `io.c`.

Two things the code does are not called wrong here, as nothing in the repository
says otherwise: an edge that arrives while the handler of its pin runs is lost, since
the flag is cleared afterwards; and the handler of a disabled pin runs if its flag
is set when another pin of its port interrupts. `ir_remote.c` defines an ISR
for the same port 2 vector, so the two files cannot be linked together as they are.

### I2c

Main and the bus share the registers of USCI_B0. `pc` says where main is in
`i2c_write` or `i2c_read`; the four wait loops of the code are `Round` (one round
of the loop) and `EndOfWait` (its end and the check after it), used by
`WaitStart`, `WaitTx`, `WaitRx`, `WaitRestart` and `WaitStop`. The hardware sends
an address or a byte, which the slave acknowledges (`AddressAcknowledged`,
`ByteAcknowledged`) or refuses (`Refused`); it may also never answer. Bytes are
named by their position in the message, so order, loss and repetition show and
their values do not matter.

Timing: a byte takes 90 us at 100 kHz and main takes about a microsecond from one
statement to the next, so the steps that last a byte happen only while main is in
a wait loop or outside `i2c.c`; the others (`LoadShifter`, `StopSent`,
`RepeatedStart`) happen at any time. An interrupt that keeps main away for longer
than a byte is not modelled; between the last bytes of a read it would make the
receiver acknowledge one byte too many.

`late` remembers that a wait went through all its rounds. The code does not know
(finding `i2c_timeout`), and nothing can be said of such a transfer except that it
returns and that an `I2C_RESULT_ERROR_TX` is a refusal; the client makes no call
after it. A refusal of a data byte that is not the last is found only that way:
the USCI then keeps UCB0TXIFG down, main waits out all rounds, and the refusal is
reported because the timeout is not.

`SendStart` takes the three writes of `i2c_send_address` (UCTR, UCTXSTT, UCB0TXBUF) in one
step: the slave's address takes much longer than that to send.

The comment "Send from Most to least significant byte" (`i2c.c:103`) is not what the
loop does: `i2c_write` sends `data[0]` first, and `i2c_read` fills the highest index first.

## 4. Runs

Passing runs:

| Run | Bounds | Shows |
|---|---|---|
| `uart` | queue of 4 slots, strings of 4 and 2 characters, 3 calls | 8468 states. `TypeOK`, `IInv`, `IsrNeverHangs`, `TxbufFreeAtStart`, `NoStalledQueue`, `WireInOrder`, `PrintReturns`, and that `Uart` implements `SerialLine` (`LineSpec`) |
| `ir` | fields of 2 bits, timeout after 6 ticks, buffer of 3 slots, 4 frames, 1 lost edge | about 960 000 states. `NoGhostCommands`, `CompleteFrameDecoded`, `SilenceResets`, `CommandsInOrder`, `NoTimeoutWithinFrame`, `ComesToRest` |
| `drive` | none | 19676 states. `SupplyLimit`, `DutyBeforeOutput`, `PowerAfterDirection`, `CommandTakesEffect`, `NoLastingBrake`, `RepeatIsSilent` |
| `adc_line` | channels 0 to 5 with gaps, four pins, two voltages | 70133 states. `TypeOK`, `IInv`, `BlockAtRest`, `NeverStalled`, `SamplingGoesOn`, and that `AdcLine` implements `LineSensor` (`LineSpec`) |
| `io` | two ports of two pins, three pins used, 2 edges | about 270 000 states. `NoPhantomCall`, `EdgeKept`, `EdgeServed`, `CallReturns` |
| `i2c` | waits of 3 rounds, register addresses of 1 and 2 bytes, data of 0 to 3 bytes, 2 transfers | 59760 states. `WriteDelivered`, `ReadFilled`, `BusAfterCall`, `TxbufFree`, `TransferReturns` |

Why the bounds are enough. `uart`: the first string does not fit into the queue,
so main polls; the indices wrap; later calls meet the queue in every state.
The proofs cover every size. `ir`: with two-bit fields a message has 8 bits and
10 edges; the timeout (6) is longer than the leader's gap (4) and than a pause
(3), as 150 is to 13 and 40; four frames are enough for a message, a repeat code,
a reset and another message, and to fill the buffer twice over; the 40 edges of
four frames make `pulse_count` wrap at `PULSE_RANGE` (32), as an hour of one key
held down does at 65536. `i2c`: messages of one to five
bytes and reads of one to three have a first, a middle and a last byte; a byte
may take any number of rounds, so three rounds let the answer come before, at and
after the last; the second transfer starts on what the first one left. The run
has no deadlock check, since the client stops after its last transfer. `adc_line`:
the sensors' channels are in no order and leave gaps, as channels 0 and 3 to 5 do
in the comments of `adc.c`, so a reversed or shifted index is a wrong sensor; each
sensor has a voltage on either side of the threshold in each sequence. `io`: one
port has a first and a last pin in use and the other has one; two edges meet on the
same pin or on two pins of a port, before, during and after each other's service;
calls are not bounded.

Violations, each of a line of the repository (see `findings`). They have the bounds of
the passing run of the same module or smaller ones; for `ir_latest` two frames without
a lost edge are enough:

| Run | The line says | The code does |
|---|---|---|
| `uart_polling` | the flag will set (`uart.c:133`) | `uart_init` clears it; the loop never ends |
| `ir_overflow` | `full` tells full from empty (`ring_buffer.h:16`) | nothing uses it; a full command buffer becomes an empty one |
| `drive_max` | MAX is the highest duty cycle (`drive_applicaton.h:26`) | its row was never initialised; the motor stops |
| `drive_mode` | the mode of the left motor has been set (`drive_application.c:81`) | the call for the right motor overwrites it; REVERSE SLOW and then ROTATE_RIGHT FAST raises the power of the left motor from 18 to 75 percent, still backwards |
| `i2c_timeout` | `count == 0` after a timeout (`i2c.c:13`) | `count--` leaves 0xFFFF; the transfer returns OK |
| `ir_latest` | `ir_remote_get_command` gets the most recent command (`ir_remote.h:27`) | it takes the oldest one that waits (`ir_remote.c:124`) |

Two more lines are not what the code does, without a run of their own: the order of the
bytes (`i2c.c:103`, section 3), and "this should never return 0" (`pwm.c:92`) of the scaling,
which returns 0 for 2 and 3 percent. No speed of the table is that low, and `SupplyLimit`
says that every channel that is on has at least 1.

Fairness. `uart`: main, the ISR and both steps of the USCI go on when they can;
the choice to print again carries no fairness. `ir`: the timer's and the remote's
time passes, the timer ISR is served, and the ISR of P2.0 is served although main
masks it again and again (strong fairness: a pending request is accepted at the
first instruction without the mask); a call of `ir_remote_get_command` returns,
but nobody has to call it. `adc_line` and `io`: the hardware's conversions, the ISRs
and calls that have begun go on, and a pending interrupt is accepted although it is
masked or another port's ISR runs again and again (strong fairness, for the same
reason); no call has to be made and no edge has to come. `i2c`: main goes on; the USCI and the slave have no
fairness, so that `TransferReturns` also holds on a dead bus. `drive` needs none. The CPU gives no other guarantee,
and none is assumed.

## 5. Proofs

`RingBufferProofs` states once what each operation does to the sequence of
unread elements, and proves `PutOnFullEmpties`: a put into a full buffer of any
size leaves it looking empty.

`UartProofs` proves, for every buffer size from 2 to 255, every set of strings
and every number of calls, `Spec => []IInv` and from it `TypeOK`,
`IsrNeverHangs`, `TxbufFreeAtStart`, `NoStalledQueue`, `WireInOrder`, and the
safety part of the refinement (`ImplementsLine`). None of these is inductive by
itself: a byte leaves the queue in the ISR, one interrupt after it left
UCA0TXBUF, so the queue and the hardware disagree by one byte half of the time.
`PhaseInv` says when: with the flag up the USCI has taken exactly one byte more
than the ISR has removed; with the flag down they agree; `QueueIsBacklog` says
that the queue is the tail of what was accepted; `PutcharInv` and `BootInv` say
what main may rely on at each statement. `StepIInv` has one lemma per group of
actions, with one step per action and one per conjunct it disturbs. The proofs use
`ByteAssumption`, `SizeAssumption`, `StringsAssumption` and `BoundAssumption`,
not the length limit.

`AdcLineProofs` proves, for every list of pins, every placement of the sensors and
every set of voltages, `TypeOK`, `BlockAtRest`, `NeverStalled` and the whole
refinement `LineSpec`. The classification of `line_get` is the lemma `LineFits`:
one case for each path of the nested ifs, against the table of the header.
`WholeSequence` says that the values main has read are those of one sequence.
It follows from three facts that hand the data on: `BlockInv` (the block mirrors
what has been converted), `CopyInv` (the copy is the latest sequence up to the
ISR's index, and the published one while no ISR runs) and `ReadInv` (main has read
the published one); `ControlInv` says why none of them is disturbed, as an
interrupt is pending or served only while the ADC rests, and main copies only
while the interrupt is off. They use `PinsAssumption`, `SensorsAssumption` and
`VoltagesAssumption`.

`IoInterruptProofs` proves, for every number of pins and edges, `TypeOK`,
`NoPhantomCall` and `EdgeKept`. The invariant adds that a pin under configuration
has no handler until its flag is clean (`ConfigureInv`), that the flag of a pin
with a handler comes from an edge (`FlagInv`), and that an edge that waits is not
that of the pin in service (`UnservedInv`), whose flag the ISR is about to clear.

`IrRemoteProofs` proves, for every size of the fields and the buffer, every timeout
with a leader and pauses below it, every range of `pulse_count` that holds a message
and any number of frames and lost edges, all the safety properties of the run `ir`:
`TypeOK`, `CompleteFrameDecoded`, `NoGhostCommands`, `SilenceResets`,
`CommandsInOrder` and `NoTimeoutWithinFrame`. `FrameInv` says what the remote has yet
to send; `TimerInv` and `GapInv` say that a running timer is never behind the
silence; between the bits of a frame that has lost no edge it is exactly with it, and in
the leader's gap at most the one tick ahead that was pending when the frame began, so
that it neither times out (`NoResetWithinFrame`) nor misreads a bit. `GoodInv` is the
decoder's loop invariant: after `pulse_count` edges of a good frame the lowest
`pulse_count - 2` bits of `raw` are the first bits of the message. `BitsAfterPulse`
is its step and `LastPulseDecodes` its end, where `MessageFacts` says that
`decoded.cmd` of a whole message is the command; what `raw` held before is shifted
out. `GhostInv` says that a count between 1 and 33 belongs to a good frame and to
nothing else. `BufferInv` is `CommandsInOrder` element by element, and follows from
the lemmas of `RingBufferProofs`. The proofs use `FieldAssumption`,
`TimeAssumption` and `SizesAssumption`; that a pause is at least `PAUSE_MS` long is
not needed.

`I2cProofs` proves, for every number of rounds of a wait, every register address and
size of data and any number of transfers, all the safety properties of the run
`i2c`: `TypeOK`, `WriteDelivered`, `ReadFilled`, `BusAfterCall` and `TxbufFree`. Main is
a byte ahead of the wire in a write and a byte behind it in a read, so none of them
is inductive. `SendInv` counts: what the slave has acknowledged, the byte in the
shifter and the one in UCB0TXBUF together are what `i2c_write` has written. `StopInv`
says that the STOP waits for the answer to the last byte, which is why a refusal
that comes after the last check still shows at `wait_stop`. `RestartInv` and
`ReceiveInv` say which indices of `data` are filled, that the slave is at most the
byte in UCB0RXBUF ahead, and that it stops at index 0. `RegistersInv`, `GivenInv` and
`QuietInv` tie the flags to the bus, also after a refusal and between two calls.
The four waits share the lemmas `RoundStep` and `EndOfWaitOutcome`. The proofs use
`CountAssumption`, `SizesAssumption` and `CallsAssumption`.

`DriveProofs` proves every property of the run `drive`: `TypeOK`, `SupplyLimit`,
`CommandTakesEffect`, `NoLastingBrake`, `DutyBeforeOutput`, `PowerAfterDirection` and
`RepeatIsSilent`. The module has no constants and the run covers all its states; the
proof says why they hold, and of the speed table it uses no more than
`WheelSpeedsType`: a wheel stands or turns at a speed from 10 to 100 percent. (The
run `drive_max` shows what goes wrong in the row that was never initialised.) The
invariant follows `todo`: `Configuring` lists what is
configured when the first calls of `drive_init` have returned, `SettingModes` and
`SettingDuties` give the sequence of calls still to come at each moment of a command
with what it already guarantees, so that the mode of the right wheel, which is also that
of the left one unless they turn against each other, is set in every state of
`SettingDuties`, and the timer counts by the end of it (`ChannelInv`).
`RepeatInv` carries the state of the motor through a repeated command. The action
properties are three conjuncts of `Allowed`, which every step satisfies
(`NextStep`): a step before `SettingDuties` leaves the power alone
(`PowerLeftAlone`), one of `SettingDuties` the pins (`PinsLeftAlone`). There are no
assumptions.

Only model-checked. Liveness (`PrintReturns`, the fair part of the transmitter's
`LineSpec`, `ComesToRest`, `TransferReturns`, `SamplingGoesOn`, `EdgeServed`,
`CallReturns`) is out of the prover's reach. The safety properties are all proved.

## 6. Not modelled

`printf.c` is third-party code that keeps no state; the manual tests in `main.c` are
commented out and `test.c` is empty;
`ir_remote_command_to_string` only names commands. The configuration of clocks,
baud rates and the pins of UART, I2C and ADC is written once and read by no code;
`io_get_input` is a read that changes nothing.
