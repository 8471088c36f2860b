# TLA+ models of the Telecran and Nios V board project

This directory holds TLA+ specifications of the FPGA project in `TP_FPGA/`, the
TLC configurations that check them and the TLAPS proofs about them. Paths below
are relative to `TP_FPGA/`.

## 1. The system and its parts

The repository holds two designs for a DE10-Nano board and some exercises.

**The Telecran** (`hdmi/telecran/`) is an Etch-a-Sketch. Two rotary encoders move
a cursor, every place the cursor visits is drawn into a one-bit frame buffer, a
push button erases the drawing, and the picture is sent to an HDMI transmitter
chip that has to be configured over I2C first.

| Part | Source | State | Operations |
| --- | --- | --- | --- |
| HDMI configuration | `hdmi/telecran/i2c/I2C_HDMI_Config.v`, `I2C_Controller.v` | clock divider, table index, sequencer state, GO, data word, READY | one clocked process: send an entry, wait for END and look at ACK, advance, restart on HDMI_TX_INT |
| I2C master | `hdmi/telecran/i2c/I2C_WRITE_WDATA.v` | state register ST, the two wires, END/ACK, bit and byte counters, shift register | thirteen states, one per clock edge |
| Encoder | `hdmi/telecran/gestion_encodeur.vhd` | debounce counter, tick, two samples of each channel, the position | count, sample and decode on a tick |
| Drawing and clearing | `hdmi/telecran/telecran.vhd` 192-234 | clearing flag and counter, write port registers | draw at the cursor, start clearing, clear one cell |
| Frame buffer | `hdmi/telecran/dpram.vhd` | the memory, two output registers | write and read on two unrelated clocks |
| Video timing | `hdmi/telecran/hdmi_controler.vhd` | horizontal and vertical counters | count; sync and data-enable are functions of the counters |
| Display | `hdmi/telecran/telecran.vhd` 167-190 | the pixel register | choose cursor, ink or paper |
| Edge detector | `hdmi/telecran/edge_detector.vhd` | two flip-flops | sample; used by no design, only by its test bench |

**The Nios V system** (`tp_nios_v/`) is a soft processor that reads an ADXL345
accelerometer over I2C and shows the tilt as a bubble on ten LEDs.

| Part | Source | State | Operations |
| --- | --- | --- | --- |
| Bubble level | `tp_nios_v/soft/app/main.c` | LED register, one sample | initialise the sensor, read the axes, light one LED, for ever |
| I2C driver | `tp_nios_v/soft/bsp/drivers/src/altera_avalon_i2c.c` | the call's locals, the transfer left to the interrupt routine (`IRQ_DATA_t`) | initialise, register the interrupt routine, transmit, receive, transmit-receive with retries, ask for the outcome, the routine itself |
| I2C core | `tp_nios_v/sopc/nios/synthesis/submodules/altera_avalon_i2c*.v` | enable, command and receive FIFOs, flags, the byte on the wires | register accesses, one command at a time, refusal, lost bus |
| JTAG UART driver | `tp_nios_v/soft/bsp/drivers/src/altera_avalon_jtag_uart_*.c` | two ring buffers, interrupt enables, host-inactivity counter | interrupt handler, timer callback, read, write, ioctl, close |
| HAL: clock and alarms | `tp_nios_v/soft/bsp/HAL/src/alt_alarm_start.c`, `alt_tick.c`, `mtimer.c` | list of alarms, tick, the timer's counter and compare register | start and stop an alarm, the tick and its callbacks, read and set the timer |
| HAL: interrupts | `alt_irq_handler.c`, `alt_iic_isr_register.c` | table of handlers, mask, what is pending | trap, serve the lines, register a handler |
| HAL: files | `alt_main.c`, `alt_open.c`, `alt_close.c`, `alt_fcntl.c`, `alt_ioctl.c` and helpers | table of descriptors, highest one in use, the lock of a device | start-up and redirection, open, close, lock, flags, exit |
| HAL: heap | `alt_sbrk.c` | end of the heap | take and give back |
| HAL: start-up order | `tp_nios_v/soft/bsp/alt_sys_init.c` | none | which driver is initialised first |
| Top level | `tp_nios_v/rtl/tp_nios_v.vhd` | none | wiring, open-drain pins |

**Exercises**: `led_blink.vhd`, `led_chenillard.vhd` (one process each, a divider
and a LED register), `tp_fpga_mineure.vhd` (one wire).

### How the parts interact

* The sequencer of `I2C_HDMI_Config` and the master of `I2C_WRITE_WDATA` step on
  the same clock edge and exchange GO, END, ACK and the data word, each read one
  edge late. The master reads the data word *live*, byte by byte. The chip sees
  nothing but the two wires.
* Encoders, drawing and clearing share the 50 MHz clock; the frame buffer's other
  port and the display run at 27 MHz. Positions and memory cross between the two
  without synchronisation. The drawing process is reset by the key, the encoders
  by the PLL's lock signal.
* The JTAG UART's interrupt handler and the timer callback run in the middle of the
  foreground's read and write and share the ring indices with them.
* The I2C driver fills the core's command FIFO and empties its receive FIFO while
  the core moves bytes on the wires; the core flushes the FIFOs when a byte is
  refused or the bus is lost. A transfer may be left to the interrupt routine,
  which then shares the core with the program that asks for its outcome.
  `main.c` uses the polled calls only. It prints to the JTAG UART between them, and a
  print may wait there for a host that does not listen.
* The tick walks the list of alarms at interrupt level; the callbacks it makes
  start and stop alarms in the list being walked. The JTAG UART's
  host-inactivity timer is such a callback, and is refused when no clock has been
  started. A handler is registered while its line may already ask for service.
* `alt_main` opens the JTAG UART as standard input, output and error; later
  descriptors to the same device meet the lock a `TIOCEXCL` may have set.

### What is hard

Handshakes whose two sides read each other one edge late (a stale END is in fact
taken for the end of entry 0); a data word that may change under a frame on the
wire; refused bytes and retries; asynchronous reset of *some* registers in the
middle of a frame, with a chip on the bus that is not reset; quadrature decoding
with contact bounce and reversals; a clearing sweep whose writes are pipelined and
which a button or a reset can cut in two; a display pipeline whose memory path is
longer than its enable; interrupt against foreground on a ring buffer that is full
or empty; timeouts against late answers in the drivers; a flag of the I2C core that
means one thing when a byte is sent and the same thing when it is flushed, cleared
by whoever looks first; a list changed in the middle of its walk; a 64 bit counter
read in halves while it runs; calls that fail half way, with a descriptor already
taken.

## 2. Plan

All of the plan is done, most important behaviour first:

1. `I2cWriter`, `Adv7513`, `HdmiConfig`, `HdmiTable`, refining `RegisterDelivery`.
2. `Encoder`, refining `CursorPosition`.
3. `Telecran`: drawing, clearing and the memory, over two `CursorPosition`s.
4. `VideoTiming`, refining `Raster` (two `RasterAxis`es), and `Display` on top of it.
5. `EdgeDetector`.
6. `JtagUartCore` and `JtagUart`, refining a `Pipe` per direction.
7. `I2cCore`, `I2cDriver`, and `BubbleLevel` on top of them.
8. `AlarmList` refining `Alarms`, `SystemClock`, `DeviceFiles`, `Heap`, together `Hal`.
9. The theorems of section 6.

The LED exercises are left out: a divider and a register have no behaviour that a
simulation does not show.

## 3. The modules

In every module a variable has the name of the register or field it stands for,
an action the name of what the code does, and a comment says which source file it
models. Variables marked *history* or *bound* in their declaration have no
register: they remember what happened for a property, or count what a bound
limits.

| Module | Models | One step is |
| --- | --- | --- |
| `BusTypes` | bits, bytes, words | - |
| `I2cWriter` | `I2C_WRITE_WDATA.v`: one action per state of `ST` (0 `WPowerUp`, 30 `WWaitGo`, 31 `WClear`, 1 `WStart`, 2 `WClockLow`, 3 `WShift`, 4 `WClockHigh`, 5 `WNextBit`/`WByteDone`, 6-8 `WStop`, 9 `WFinish`) | an edge of the control clock |
| `Adv7513` | the chip's I2C receiver, an external part: START, STOP, a bit sampled, acknowledge, a register stored | a change of the wires |
| `HdmiConfig` | `I2C_HDMI_Config.v`: divider, `SetupSend`/`Wait`/`Advance`/`Done` for `mSetup_ST`, the reset of *some* registers; composes writer and chip | a system clock, or a reset |
| `HdmiTable` | the 31 words of `LUT_DATA` and the default | - |
| `RegisterDelivery` | what the path promises: entries stored one after the other | an entry passed or stored, an interrupt |
| `Encoder` | `gestion_encodeur.vhd`: timer, samples, decoder; the shaft is the environment | a clock, a reset, a quarter turn |
| `CursorPosition` | one coordinate as its reader sees it | a clock |
| `Telecran` | the second process of `telecran.vhd` (`Sweep`, `StartSweep`, `Draw`, `HeldInReset`) and the write port of `dpram.vhd` | a 50 MHz clock, the key, the lock, the button |
| `VideoTiming` | `hdmi_controler.vhd` | a pixel clock |
| `RasterAxis`, `Raster` | the raster a monitor expects: active part, front porch, pulse, back porch, each of its length, lines within frames | a tick |
| `Display` | the first process of `telecran.vhd` and the read port of `dpram.vhd`; memory and cursor change at any time | a pixel clock, a write, a cursor move |
| `EdgeDetector` | `edge_detector.vhd` | a clock, a change of the input |
| `JtagUartCore` | what software sees of `altera_avalon_jtag_uart.sv`, and the debug host | part of a driver step, or a host step |
| `JtagUart` | `altera_avalon_jtag_uart_init.c`, `_read.c`, `_write.c`, `_ioctl.c`, started by `alt_sys_init.c` | what lies between two accesses to shared data |
| `Pipe` | a stream that comes out as it went in | a character accepted or delivered |
| `I2cCore` | what software sees of the I2C core, its state machine, and the accelerometer (external) | part of a driver step, or a byte on the wires |
| `I2cDriver` | `altera_avalon_i2c.c`: the legs of a call (`Begin`, `Put`, `Check`, `Collect`, `Quiesce`, `Arm`), retries, the interrupt routine (`Interrupt`, `IrqEnd`), `interrupt_transaction_status` (`AskStatus` to `Abort`) | what lies between two looks at the core |
| `BubbleLevel` | `main.c`: look for the sensor, start it, read and show for ever | a call of the driver or its return, a print, a sleep |
| `Alarms` | what the alarm calls promise | start, stop, call, tick |
| `AlarmList` | `alt_alarm_start.c`, `alt_tick.c`, `alt_llist.h`: the links, and the walk that calls back | a look at the list, or a callback's call or return |
| `SystemClock` | `mtimer.c`, `alt_irq_handler.c`, `alt_iic_isr_register.c` over `AlarmList` | an access to a word of the timer, to the table or to the mask; time passing |
| `DeviceFiles` | `alt_main.c`, `alt_open.c`, `alt_close.c`, `alt_fcntl.c`, `alt_ioctl.c`, `alt_get_fd.c`, `alt_release_fd.c`, `alt_fd_lock.c`, `alt_fd_unlock.c`, `alt_io_redirect.c`, `alt_dev.c` | a call |
| `Heap` | `alt_sbrk.c` | a call |
| `Hal` | the three services side by side | a step of one |
| `MC...` | instances for TLC | - |
| `...Proofs` | the theorems of section 6; `LevelProofs` is about `BubbleLevel`, `I2cDriver` and `I2cCore` | - |

**Composition.** `HdmiConfig` extends `I2cWriter` and `Adv7513`; its `ControlEdge`
steps sequencer, master and chip together, each from the values before the edge,
as non-blocking assignments do. `Telecran` takes its two coordinates from
`CursorPosition` and not from `Encoder`: that a coordinate behaves as a
`CursorPosition` is what `Encoder` is shown to implement (`CursorSpec`), with a
period of `C_DEBOUNCE_LIMIT + 1` clocks. `Display` extends `VideoTiming` and lets
every cell and the cursor change between any two pixel clocks, which covers
whatever `Telecran` does on its own clock. `JtagUart` extends `JtagUartCore`.
`BubbleLevel` extends `I2cDriver`, which extends `I2cCore`: a call of `main` is a
call of the driver, which acts on the core's registers, while the core and the
device go on. Its variable `main` is `"any"` for a program that makes any call of
the driver in any order, so that one run checks both. `SystemClock` extends
`AlarmList`: the timer's interrupt is its tick. `Hal` puts `SystemClock`,
`DeviceFiles` and `Heap` side by side; they share no variable, so a behaviour uses
one of them (`service`) and their interleavings, which could show nothing, are left
out. The JTAG UART's own alarm and the order of start-up are in `JtagUart`.

**Granularity.** In the hardware modules a step is a clock edge, so nothing is
interleaved that the hardware does not interleave. In `JtagUart` the foreground's
program counter `pc` stops wherever the code reads or writes a field it shares with
the interrupt routine (`rd...` and `wr...` labels: indices, copy, advance, kick,
spin, check), the routine (`isr`) runs only while the foreground stands still and
to its end, and the device and host may move between any two of its register
accesses. A read of the data register takes two cycles of the core; the case in
which that shows is an action of its own (`IsrReceiveLate`).
In `I2cDriver` a step is what lies between two looks at the core that core or
routine can tell apart, and the core moves a whole byte at a time; a loop that
polls is a step that waits, and ends when what it waits for is there or when its
time is over. In `SystemClock` each word of a 64 bit register is accessed by itself
and time may pass in between; a trap may come between any two steps of the program
with the interrupts on. What the code does with the interrupts off is one step.

**Abstractions.** A character is its number in the order of sending. A pixel is
ink or paper, and remembers where and when it was read (`shown`). The shaft is an
integer angle; bounce is a shaft that moves to and fro. Reading outside the memory
gives any bit. The chip knows which (sub-address, value) pairs it stored. A byte
of the accelerometer is the number of the register it came from, so that a read that is
late, short or from the wrong place shows. A device of the HAL is its name.

## 4. The runs

| Run | Instance | What it shows |
| --- | --- | --- |
| `hdmi_config_wires` | 3 entries with different bytes, divider 1, one reset, one refusal, interrupts | what the chip stores are whole entries (`WritesAreEntries`), none is passed unstored (`PassedEntriesAreStored`), SDA keeps to the bus protocol (`WireProtocol`) |
| `hdmi_config_table` | the code's 31 entries, one refusal, interrupts | the wires implement `RegisterDelivery` (`DeliverySpec`); READY comes, and comes again (`AlwaysReadyAgain`) |
| `encoder_tracking` | 4 positions, tick every 2 clocks, 8 quarter turns, one reset | position against angle (`TracksShaft`), a shaft at rest (`StillShaftStillCursor`), the cursor for its readers (`CursorSpec`) |
| `telecran_drawing` | 4 x 2 screen, every old picture, key, button, lock | `ClearErasesAll`, `StrokeHasNoGaps`, `DrawsAgain` |
| `display_latency` | 3 x 2 screen, every memory and cursor | `PixelsAreLate`, `StrayReads`, and the raster (`RasterSpec`) |
| `edge_detector` | 12 changes of the input | one pulse per edge the clock sees (`EveryEdgeOnePulse`) |
| `jtag_streams` | rings of 3, FIFOs of 2, 4 characters each way, requests of 0, 1 and 3 | both directions are pipes (`InputSpec`, `OutputSpec`); neither interrupt stays shut with work to do (`ReceiverReopens`, `TransmitterArmed`) |
| `jtag_hosts` | the clock started first, FIFOs of 1, a host that polls and takes or falls silent | all output arrives and input is drained while the host is there (`HostServed`); every call returns whether it is or not (`CallsReturn`) |
| `jtag_board` | the board's start-up order | `CallsReturn` fails: finding 1 |
| `i2c_driver` | FIFOs of 2, 8 registers, 2 attempts, any refusal, a lost bus, one wait that expires; any program, and `main.c` | a reported success is one (`SuccessIsReal`, `ReadReported`), nothing is left running (`Quiet`), every transfer ends (`TransfersEnd`), a LED that exists is lit (`LitLedExists`), and nothing but a print that blocks stops the level (`KeepsLevelling`) |
| `i2c_refused_write` | the same | `WriteReported` fails: finding 2 |
| `hal` | 3 alarms, words of 4, ticks of 2, one line; 3 descriptors beyond the standard ones; a heap of 12 bytes | `ListIsOneRing`, `AlarmsOnTime`, `ClockKeepsTime`, `ServedByHandlers`, `TrapsReturn`; `NoDescriptorLost`, `OneLockHolder`, `LockKeepsOthersOut`; `BlocksAreApart` |

**Why the bounds are enough.** Three entries give a first, a middle and a last
one, and a torn entry that differs from all three; a divider of 1
lets resets fall between the edges of the control clock, which the whole-table run,
with 0, does not need. One reset and one refusal at *any* edge: a second one meets
the states a first one already left (the retry starts the entry over, the reset
the table). Four positions, started in the middle, let the cursor run into
either end, lose steps there and come back within eight quarter turns. A screen of 4 x 2 has
cells that do not touch each other, so a gap can be told, and cursors that move every clock are
faster than any debounce period (100,001 clocks in the design).
A ring of three holds two characters: it wraps, is full, empty and half full, and a
request of three must wait in the middle. Four characters go round it once.
`INT_MAX` of 5 keeps the inactivity counter's stop within reach.
A command FIFO of two is full after two commands, so a leg of three (address and two
bytes) must wait for room; of two attempts the first can fail and the second succeed or
fail; a receive FIFO of two is full when the read of two bytes is complete. One
wait that expires, at any place, meets all that a second one could: what is left
behind is the same. Three alarms are the fewest for a callback to take out, or put
in, an alarm that is neither its own nor the next; each may be started and stopped any number of
times until `MaxTime`. A word of 4 lets the counter's low word wrap between its two
reads in mid-run, and the compare register cross it. Three descriptors beyond the
standard ones give a lowest, a middle and a highest one, the one `alt_fd_lock`
overlooks. Increments of 0, 1, 3, 4 and 6 bytes, and decrements of 1, 3, 4 and 7, are aligned and
not, and more than the heap has left; the smallest and the largest int of six bits take
the end below address 0 and beyond the limit. A heap from 2 to 14 begins and ends off
a word boundary and has three words.

What is a bound in the models is named in their constants with the word
*bound*: `MaxResets`, `MaxRefusals`, `MaxMoves`, `MaxChanges`, `MaxIn`, `MaxOut`,
`Requests`, `Timeouts`, `Messages`, `Pointers`, `Sizes`, `MaxStretches`, `Octets`,
`MaxPeriod`, `MaxTime`, `MaxRaises`, `Increments`. Deadlock is checked in every run but
`hal`, where the count of the timer is bounded and a program that has left the
board's `main` makes no further call.

**What some properties concede to the code**, because it is so:

* Entry 0 of the HDMI table may be passed unsent after power-up or reset: END is
  high then, and the sequencer takes it for the end of a transfer that has not
  begun; its word is in the code's table a second time, as entry 16. And if the
  chip's interrupt falls into the last frame, that frame carries the register of
  the last entry with the value of the first (`TornEntry`).
* After a reset that hits while the chip drives SDA the chip does not see the
  next START (`disturbed`): properties about its contents stop there.
* The decoder counts an edge when a half turn begins and takes nothing back when
  the shaft turns round: the position is the angle up to `drift` (abandoned half
  turns), `lost` (steps at the ends) and reversals faster than the ticks
  (`slipped`).
* A sweep that a reset cuts in two leaves part of the old picture
  (`ClearErasesAll` and `StrokeHasNoGaps` speak of sweeps that end).
* After a wait of the I2C driver has expired on a moving core (`late`), bytes may
  reach a FIFO that nobody empties and shift the next read: properties about
  contents stop there, those about ends and states do not.
* Arming a transfer for the interrupt routine clears a refusal or a lost bus nobody
  has looked at (`wiped`); the transfer is then never ended by the routine
  (`TransfersEnd` concedes it, and a bus lost where the code looks no more).
* A callback does not stop the alarm the walk goes to next, and nobody starts an
  alarm that is in the list: the code has no defence against either (section 7).
* `alt_fd_lock` overlooks the highest descriptor: the lock may be granted while that
  one names the device. `OneLockHolder` and `LockKeepsOthersOut` say what
  remains true.
* A print of `main.c` writes to the JTAG UART and may block for ever (finding 1); the two
  drivers share nothing and are not composed. In `BubbleLevel` a print is a step
  (`PrintReturns`) that need never be taken. `KeepsLevelling` has two parts: that a read of
  the axes ends, with an LED lit or in the print of its failure, is shown without any
  assumption on prints; that the next read follows has as its premise that every print
  returns (`PrintsReturn`). Without a host that premise is false as soon as the
  core's FIFO and the driver's ring are full, and the level stands still on the LED it lit last.
* `sbrk` takes any negative increment. What the heap gives after more was given back
  than taken (`taken` is -1) may lie below its start; `BlocksAreApart` then still
  says that blocks are aligned, apart and within the limit, and no more.
* The picture is shifted by two columns and the cursor by one; the last two
  columns of the memory are never seen, and the first two of a line come from
  the blanking.

## 5. Fairness

* `HdmiConfig!FairSpec` and `Telecran!Spec`: weak fairness of the clock. An
  oscillator does not stop. Nothing is assumed of the chip, the interrupt, the key
  or the button; refusals and resets are finite because they are bounded.
* `JtagUart!ProcessorFairness`: weak fairness of a step of the current call, of the
  interrupt routine and of the timer callback. The processor executes
  instructions, takes a pending interrupt, and the tick goes on once started. That
  the program makes a call at all is not assumed.
* `JtagUart!LonelySpec`, used by `jtag_hosts` and `jtag_board`, is this and
  nothing of the host, which may stop at any time; `HostServed` has the host's
  diligence as its premise.
* `BubbleLevel!LevelSpec`: weak fairness of the program's step, of the core's, and
  strong fairness of the interrupt routine, for a look at the status masks the
  interrupt for a moment again and again. The device may refuse for ever; it
  does not hold the clock for ever but for the wait that expires. The program's step is
  what `main` and the driver do between prints, `usleep` included, which counts a loop.
  No fairness is given to `PrintReturns`: on this board a print may never return
  (finding 1). Where `KeepsLevelling` needs prints to return it says so.
* `Hal!HalSpec`: weak fairness of the code of a trap. A callback returns; it need
  not start or stop anything. Nothing is assumed of the program or the lines.

## 6. The theorems

All theorems hold for every value of the constants under the named assumptions in
the modules (sizes positive, thresholds below depths, and so on); one takes a bound
as a premise and says so. All but
`HdmiConfigTypeOK` state a property a run also checks.

| Module | Theorem | Argument |
| --- | --- | --- |
| `HdmiConfigProofs` | `HdmiConfigTypeOK`, `HdmiConfigWireProtocol` | the types are not inductive: only the order of the master's states keeps the pulse counter below 10. `FrameShape` adds what wires and counters are in each state; START, STOP and the reset are then the only steps that move SDA under a high clock |
| `HdmiConfigProofs` | `HdmiConfigWritesAreEntries`, `HdmiConfigPassedEntriesAreStored` | `DataInv`: the sequencer's handshake with the master (`Talk`) keeps the word still while a frame carries it, but for the interrupt's last-to-first change; a chip that saw the START counts the same bits and bytes as the master (`Follows`); `Frame` says whose byte is on the wire (`Right`, `Content`) and how much of it the chip has, by `512 * s + A = (2b + 1) * 2^CNT` for the `s` received of the byte `b` and the `A` still in the shift register; an acknowledged third byte was held low by a chip that then stores it (`Passed`). All but `Talk` is claimed until a reset hits while the chip holds SDA (`disturbed`) |
| `HdmiConfigProofs` | `HdmiConfigDelivery` | from `DataInv`, with `MaxResets = 0` as its assumption: a reset puts the index back while the chip keeps its registers, which `RegisterDelivery` does not promise anything about |
| `EncoderProofs` | `EncoderTracksShaft`, `EncoderTypeOK`, `EncoderImplementsCursor`, `EncoderStillShaftStillCursor` | the samples are the channels at two recorded angles, the angles are neighbours unless a tick slipped, a half turn in progress began next door; then a case split over residues mod 4. The refinement needs in addition that a tick comes with the counter at 0 |
| `TelecranProofs` | `TelecranTypeOK`, `TelecranClearErasesAll`, `TelecranStrokeHasNoGaps` | row-by-column addresses are injective and in range; during a sweep every cell below the counter is blank, counting the write still in the registers; the pen stands on ink or one step from it, on a page erased to its end |
| `DisplayProofs` | `TimingImplementsRaster`, `DisplayPixelsAreLate`, `DisplayStrayReads` | phase and remaining length are functions of the counters; the pixel register, the read register and the pins belong to the three last positions of the counters |
| `EdgeDetectorProofs` | `EdgeDetectorOnePulse` | the pulses given and the one on its way together are the edges seen by the first flip-flop |
| `JtagUartProofs` | `JtagTypeOK`, `JtagReceiverReopens`, `JtagTransmitterArmed` | the foreground's locals stay inside the ring and the request while the interrupt routine moves the other index; a piece about to be taken is really there (`Taken`), an interrupt the routine is about to shut has a reason (`Pending`), and before the driver is started the device is quiet (`Quiet`) |
| `JtagUartProofs` | `JtagInputIsPipe`, `JtagOutputIsPipe` | what each end has, the FIFO, the ring and the piece being copied are consecutive pieces of one stream (`Run`, `Holds`, `Dist`: the distance from the start of a ring). The piece in the foreground's hands stays where it is while the interrupt routine moves the other index: its length was read from an index that can only move away |
| `LevelProofs` | `LevelLitLedExists` | a step that lights an LED computes the index from an axis cut off at one g, so that it is between 0 and 9 for every 16 bit sample |
| `LevelProofs` | `LevelTypeCorrect`, `LevelQuiet`, `LevelSuccessIsReal`, `LevelReadReported`; `DriverQuiet`, `DriverSuccessIsReal`, `DriverReadReported` | see *The I2C driver* below. The first four are about `main.c` and any program without a wait that expires on a moving core (what the run checks), the last three about `I2cDriver` alone: any program, any number of such waits |
| `HalProofs` | `HalNoDescriptorLost`, `HalOneLockHolder`, `HalLockKeepsOthersOut` | `FilesInv`: the high water mark is above every descriptor in use, and a descriptor that holds a lock is below every other one of its device (`LockIsLowest`): the only other one `alt_fd_lock` can overlook is the highest, and that one is refused the lock because the lower one is seen |
| `HalProofs` | `HalBlocksAreApart` | what is left of a block when the end comes down on it is a part of it, and a new one begins at or above the end; while the program has not given back more than it took, the start and the bytes taken are together at most the end, since alignment only adds (`HeapInv`). Increments are any for which an address has room: a decrement below 0 is an address above the limit, and refused |
| `HalProofs` | `HalListIsOneRing` | the links agree both ways and every set closed under `next` that holds the head holds all listed alarms; an insertion or removal keeps that, for from a closed set after the step one is built before it. Without recursion the ring has to be said with closed sets |
| `HalProofs` | `HalAlarmsOnTime` | the rest of the walk is the part of the ring ahead of it (`Ahead`): each alarm that is due in this tick is ahead, what is behind is due later, so that no tick is counted while a call is owed; each step is a step or a stutter of `Alarms` (`Due`) |
| `HalProofs` | `HalServedByHandlers` | outside a registration a line that is enabled has a handler (`LinesInv`), and no trap is taken inside one (`TrapInv`) |
| `HalProofs` | `HalClockKeepsTime` | `TimeInv`: the high word, when it is read again and is the same, was the high word while the low one was read; the compare register, in each of its three intermediate values, is at or beyond the last one |

**The I2C driver.** None of its properties is inductive, for what a call returns was
decided by the core, byte after byte, behind the driver's back. `LevelInv` follows a
transfer as one *row* of commands that is known from the first to the last when the
call is made: `Row(w, t, m)` is `w` commands for the written part (the address, then
the message `m`) and the rest, up to `t`, for the part that is read.

* `OnTrack(w, t, m, p, a)`: of the `p` commands put so far the FIFO holds the last
  ones (`Queue`), the core is at the one before (`Place`), the device has taken the
  part of `m` those done account for, and the bytes `a` that have come are fresh, no
  more than were asked for, without a gap if they are as many (`Received`), and
  start at the register that was written (`Pointed`). Each step of the core keeps
  this or ends in a refusal or a lost bus with both FIFOs empty (`TrackStep`);
  putting a command moves `p` on (`TrackPut`).
* `CallInv`: between `Begin` and `Quiesce` or `Arm` the call's own row is on track,
  with `a` the bytes in the caller's buffer followed by those in the receive FIFO;
  it is so from the first leg of a `master_tx_rx` to the second. `IrqInv`: the same
  of a transfer left to the interrupt routine, with the bytes it has stored and the
  number it still waits for; *which* row it is need not be that of the last call, for the
  program may have made others meanwhile, which found the core taken.
* `OwnerInv`: an enabled core belongs to a leg, to the gap between two legs, or to the
  routine, and to one of them only; `QuietInv`: to nobody, and it is at rest.
* `QuiesceInv` and `ReturnInv`: a leg gets to its end with the row complete, or
  with something wrong in the status; and a success at the return means `Delivered`.
* All of these but `OwnerInv` are claimed until a wait expires on a moving core
  (`late`), and again from the next call that finds the core idle (`TimelyInv`). The
  types, the owner, the locals at each label and what the core's states exclude
  (`FrameInv`) are claimed always, and are inductive by themselves. That
  a wait which expires on a core that *nothing* moves does no harm is part of the proof
  (`StuckEnds`): in time such a core has done its row, or given it up.

The proofs assume sizes that are positive, `Pointers` that are not empty (a read after
a write of nothing would begin with a repeated START on a core that is off) and, for
`main.c`, a device with at least the registers it uses.

**Only model-checked**: everything under fairness (`AlwaysReadyAgain`,
`DrawsAgain`, `HostServed`, `CallsReturn`, `TransfersEnd`, `KeepsLevelling`,
`TrapsReturn`), which the proof system cannot reach. Every other property of a run
that passes is proved.

## 7. Findings

1. **A write can block for ever on this board** (`jtag_board`). `alt_sys_init.c`
   initialises the JTAG UART at line 97 and sets the tick rate at line 98.
   `alt_alarm_start` fails while the rate is 0, so the driver never watches for
   the host and sets its timeout to `INT_MAX`. Its comment (`init.c:60`) says it
   starts a timer to do so. `jtag_hosts` shows that in the other order every call
   returns.
2. **A refused write is reported complete** (`i2c_refused_write`). A byte the device
   refuses makes the core flush its command FIFO, which raises TX_READY; the
   interrupt routine clears the refusal with the other flags (`altera_avalon_i2c.c:108`)
   and ends the transfer, and `interrupt_transaction_status` answers SUCCESS, against
   `altera_avalon_i2c.h:1154` and `:1161`.

Met on the way, without a run of their own:

* *JTAG UART.* A blocked write gives up with EIO as soon as `host_inactive` is not 0,
  one second after the last sign of the host, with the message "Host not connected"
  (`write.c:183`, `:210`); the driver's timeout is ten seconds (`jtag_uart.h:97`). A
  character that arrives while the routine reads the empty FIFO makes it shut the
  receive interrupt with room in the ring (`init.c:157`), against its comment (`:159`);
  `ReceiverReopens` and `HostServed` show that no harm comes of it.
* *I2C driver.* A bus lost after the last look at it, at the end of a polled write,
  goes unnoticed and the write succeeds. A read left to the interrupt routine whose bus
  is lost, or address refused, just before the flags are cleared to arm it never ends
  (`irq_busy` stays 2). `master_tx_rx` with nothing to read leaves the core
  enabled, and the next call finds it busy. A timeout of the first leg does not keep
  the second from starting and is not retried (`altera_avalon_i2c.c:530`). Disabling the
  core does not flush its FIFOs, so that bytes which come after a timeout shift the next
  read. A low bus speed does not fit the 16 bits of its registers. An
  interrupt-driven read longer than the FIFO can overflow it.
* *HAL.* The loop of `alt_fd_lock.c:61` ends before the highest descriptor, so the lock
  is granted although that one names the device (comment at `:43`). Locks and flags of
  descriptors 0 to 2 survive their close. A callback that stops the alarm the walk
  goes to next makes `alt_tick` go round for ever; so does starting an alarm that is
  in the list. `mtimer.c:69-70` sets the next tick from the time it is served at, so that
  latency accumulates, although the comment at `:65` promises otherwise.
  `alt_nticks` reads a 64 bit count in two words with the interrupts on
  (`alt_alarm.h:112`). The comment of `alt_sbrk.c:47-49` says that no bounds are checked
  and that memory is allocated even if it overflows what there is; the code tests the
  limit (`:89`) and answers -1. What remains of the comment is that nothing is
  tested against the stack: the limit is the end of the memory, from which the stack
  comes down (`linker.x:394`, `:400`, `:410`). Against its start the heap is not tested either: a
  negative increment may take the end below it, into the program's data.
* *Bubble level.* A read of the axes that fails is printed (`main.c:91`) before it is
  shown as level (`:92`, `:153`): with nobody listening to the JTAG UART the program waits
  in that print, or in the one every round makes (`:156`), and the LED that is lit stays
  lit, whatever the board's tilt.
* *Telecran.* The edge detector's output is called `o_rising_edge`, and the
  repository's README describes a rising edge, but it is an exclusive or and pulses on
  falling edges too. The cursor's comment says red (`telecran.vhd:178`) and its colour
  is that of the ink. The chenillard moves ten times a second where the README says
  once.

## 8. Not modelled

* Calls of the HAL that keep nothing: `read`, `write`, `lseek`, `fstat`, `isatty` look a
  descriptor up and call the driver (`read` and `write` of the JTAG UART are in
  `JtagUart`); `gettimeofday`, `times` and `usleep` read the tick or count a loop.
* What the board does not have or the build compiles out: the vectored interrupt
  controller, device feature lists, flash, DMA, the `alt_log` macros, profiling,
  the `ALT_FLAG`/`ALT_SEM` branches of a multi-threaded build. These are a large
  share of the lines under `soft/bsp`, with the comments and declarations of its
  headers; it is why the map covers the minor part of that directory's lines.
* Below a byte of the I2C core: shifters, clock counter, spike filter; bus
  timing and 10 bit addresses in its driver.
* The Platform Designer output: interconnect and processor, generated.
* LED exercises: a divider and a register each, no interaction.
* PLLs: their lock signal is an input of `Telecran` that rises and falls freely.
* Metastability, and the many-bit position and memory read across two unrelated
  clocks without a synchroniser: the models take such values whole. A torn read
  lasts one pixel of one frame.
* The ioctl `TIOCGCONNECTED` only reads.
