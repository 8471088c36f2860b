---------------------------- MODULE BubbleLevel ----------------------------
(***************************************************************************)
(* The bubble level (tp_nios_v/soft/app/main.c) on the I2C driver: look    *)
(* for the accelerometer, start it, then read its axes again and again and *)
(* light one of ten LEDs.  What main does between two calls of the driver  *)
(* is part of the step in which the call returns, for nothing else looks   *)
(* at it, but a print is a step of its own: it writes to the JTAG UART,    *)
(* which on this board may block for ever (alt_avalon_jtag_uart_write.c).  *)
(* main is "any" for another program, one that uses the driver in any way. *)
(***************************************************************************)
EXTENDS I2cDriver, Integers

CONSTANT Octets     \* bound: what a byte of an axis can be
ASSUME OctetsAssumption == Octets \subseteq 0..255

VARIABLES main, leds

bubbleVars == <<main, leds>>
levelVars == <<vars, bubbleVars>>

\* The device: its identity, its control register and two for each axis.
DEVID_REG == 0
POWER_CTL_REG == 1
DATA_X0_REG == 2
AXES_SIZE == 6
MEASURE == 0        \* the byte 0x08; the model only passes it on

ASSUME DeviceAssumption == REGISTERS >= DATA_X0_REG + AXES_SIZE

NUM_LEDS == 10
LSB_PER_G == 250    \* LSB_TO_G is 0.004

Int16(lo, hi) == IF hi >= 128 THEN 256 * hi + lo - 65536 ELSE 256 * hi + lo

Clamped(y) == IF y > LSB_PER_G THEN LSB_PER_G ELSE IF y < -LSB_PER_G THEN -LSB_PER_G ELSE y

\* A faulty variant of LedIndex: an axis beyond one g is not cut off.
LedIndex_NoClamp(y) == ((y + LSB_PER_G) * (NUM_LEDS - 1)) \div (2 * LSB_PER_G)

\* The truncated product of floats; it is exact enough to give the same LED as
\* the whole numbers do for each of the 65536 samples.
LedIndex(y) == ((Clamped(y) + LSB_PER_G) * (NUM_LEDS - 1)) \div (2 * LSB_PER_G)

LevelInit ==
    /\ DriverInit
    /\ leds = {}
    /\ \/ main = "any" /\ stretches = 0
       \/ main = "hello" /\ stretches = MaxStretches

\* main in a print, and where it goes on when that returns: what it prints
\* first, the identity, why it ends, that a read has failed, and a round.
AfterPrint ==
    [hello |-> "init", found |-> "start", failed |-> "exit", missed |-> "shown", shown |-> "printed"]
Printing == DOMAIN AfterPrint

\* A read that failed is shown as level, but after the print that says so.
PrintReturns ==
    /\ At("idle") /\ main \in Printing
    /\ main' = AfterPrint[main]
    /\ leds' = IF main = "missed" THEN {LedIndex(0)} ELSE leds
    /\ UNCHANGED vars

\* adxl345_init and the loop of main: the calls they make
ReadId == main = "init" /\ Call("txrx", FALSE, <<DEVID_REG>>, 1) /\ main' = "devid"
StartMeasuring == main = "start" /\ Call("tx", FALSE, <<POWER_CTL_REG, MEASURE>>, 0) /\ main' = "power"
ReadAxes == main = "ready" /\ Call("txrx", FALSE, <<DATA_X0_REG>>, AXES_SIZE) /\ main' = "axes"
MainCalls == (ReadId \/ StartMeasuring \/ ReadAxes) /\ UNCHANGED leds

\* What main does when a call returns.  Any device may answer with any identity.
AfterId ==
    /\ main = "devid" /\ UNCHANGED leds
    /\ main' \in IF status = "SUCCESS" THEN {"found", "failed"} ELSE {"failed"}
AfterStart ==
    /\ main = "power" /\ UNCHANGED leds
    /\ main' = IF status = "SUCCESS" THEN "ready" ELSE "failed"

\* A faulty variant of AfterAxes: a failed read ends the program, as in adxl345_init.
AfterAxes_GivesUp ==
    /\ main = "axes"
    /\ \/ status # "SUCCESS" /\ main' = "failed" /\ UNCHANGED leds
       \/ status = "SUCCESS" /\ main' = "shown" /\ \E lo, hi \in Octets : leds' = {LedIndex(Int16(lo, hi))}

AfterAxes ==
    /\ main = "axes"
    /\ \/ status # "SUCCESS" /\ main' = "missed" /\ UNCHANGED leds
       \/ status = "SUCCESS" /\ main' = "shown" /\ \E lo, hi \in Octets : leds' = {LedIndex(Int16(lo, hi))}
MainGoesOn == AfterId \/ AfterStart \/ AfterAxes

\* usleep counts a loop, and returns.
Sleep == main = "printed" /\ main' = "ready" /\ UNCHANGED <<vars, leds>>

Boot == InitDevice /\ UNCHANGED bubbleVars
Return == LegReturn /\ IF main = "any" THEN UNCHANGED bubbleVars ELSE MainGoesOn
GoOn == (Leg \/ LegRetry \/ LegNext \/ StatusGoesOn) /\ UNCHANGED bubbleVars
OtherProgram == main = "any" /\ AnyProgram /\ UNCHANGED bubbleVars
Serve == Isr /\ UNCHANGED bubbleVars
Clock == Device /\ UNCHANGED bubbleVars
Main == Boot \/ MainCalls \/ Return \/ GoOn \/ Sleep

\* When main returns the processor is sent round and round in _exit.
Exited == main = "exit" /\ UNCHANGED levelVars

LevelNext == Main \/ PrintReturns \/ OtherProgram \/ Serve \/ Clock \/ Exited

\* The processor goes on, an interrupt is taken, and the core goes on while it can.
\* That a print returns is not assumed: it is not part of Main.
LevelSpec ==
    /\ LevelInit /\ [][LevelNext]_levelVars
    /\ WF_levelVars(Main) /\ SF_levelVars(Serve) /\ WF_levelVars(Clock)
----------------------------------------------------------------------------
LevelTypeOK ==
    /\ TypeOK
    /\ main \in Printing \cup {"any", "init", "devid", "start", "power", "ready", "axes",
                               "printed", "exit"}

\* The LED that is lit exists, for every sample an axis can give and after every
\* failure, and there is one at most.
LitLedExists == \E l \in 0..(NUM_LEDS - 1) : leds \in {{}, {l}}

\* No print blocks for ever.  The board does not promise this: without a debug host
\* the write of the JTAG UART may wait without end (run jtag_board).
PrintsReturn == []<>(main \notin Printing)

\* Whatever the bus does, a read of the axes ends: with an LED lit from it, or in the
\* print that tells of its failure, before any LED shows it.  Only a print that blocks
\* keeps a failed read, or a round that was shown, from being followed by the next read.
KeepsLevelling ==
    /\ main \in {"ready", "axes"} ~> main \in {"missed", "shown"}
    /\ PrintsReturn => main \in {"missed", "shown"} ~> main = "axes"
=============================================================================
