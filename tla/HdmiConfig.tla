---------------------------- MODULE HdmiConfig ----------------------------
(***************************************************************************)
(* Configuration of the HDMI transmitter over I2C                          *)
(* (hdmi/telecran/i2c/I2C_HDMI_Config.v): a clock divider, the sequencer   *)
(* that walks the table LUT_DATA, the bit-level master (I2cWriter) and, at *)
(* the other end of the wires, the chip (Adv7513).                         *)
(*                                                                         *)
(* The sequencer and the master are clocked by the same edge of            *)
(* mI2C_CTRL_CLK and talk through GO, END, ACK and the data word, each of  *)
(* which the other side reads one edge late.                               *)
(***************************************************************************)
EXTENDS I2cWriter, Adv7513

CONSTANTS
    LUT_SIZE,      \* number of table entries (31 in the code)
    LUT_DATA,      \* the table: entry -> 16-bit word, sub-address and value
    CLK_DIV_MAX,   \* CLK_Freq / I2C_Freq
    INTERRUPTS,    \* may HDMI_TX_INT go low?
    MaxResets,     \* bound: how often iRST_N is pulsed
    MaxRefusals    \* bound: how often the chip refuses a byte

ASSUME SizeAssumption == LUT_SIZE \in Nat /\ 0 < LUT_SIZE /\ LUT_SIZE < 64

ASSUME AddressAssumption == SLAVE_ADDR \in Byte

ASSUME DividerAssumption == CLK_DIV_MAX \in Nat /\ CLK_DIV_MAX < 65535

ASSUME BoundAssumption == MaxResets \in Nat /\ MaxRefusals \in Nat

ASSUME TableAssumption == LUT_DATA \in [0..LUT_SIZE -> Word]

ASSUME InterruptAssumption == INTERRUPTS \in BOOLEAN

VARIABLES
    mI2C_CLK_DIV, mI2C_CTRL_CLK,
    mI2C_DATA,     \* low 16 bits; the address byte is constant
    mI2C_GO, LUT_INDEX, mSetup_ST, READY,
    resets, refusals,
    disturbed      \* history: a reset hit while the chip was holding SDA

dividerVars == <<mI2C_CLK_DIV, mI2C_CTRL_CLK>>
sequencerVars == <<mI2C_DATA, mI2C_GO, LUT_INDEX, mSetup_ST, READY>>
budgetVars == <<resets, refusals, disturbed>>
vars == <<dividerVars, sequencerVars, writerVars, chipVars, budgetVars>>

DividerTypeOK == mI2C_CLK_DIV \in 0..CLK_DIV_MAX /\ mI2C_CTRL_CLK \in Bit

SequencerTypeOK ==
    /\ mI2C_DATA \in Word
    /\ mI2C_GO \in Bit /\ READY \in Bit
    /\ LUT_INDEX \in 0..LUT_SIZE
    /\ mSetup_ST \in 0..2

BudgetTypeOK == resets \in 0..MaxResets /\ refusals \in 0..MaxRefusals

TypeOK ==
    /\ WriterTypeOK /\ ChipTypeOK
    /\ DividerTypeOK /\ SequencerTypeOK /\ BudgetTypeOK
    /\ disturbed \in BOOLEAN

Init ==
    /\ mI2C_CLK_DIV = 0 /\ mI2C_CTRL_CLK = 0
    /\ mI2C_DATA = 0 /\ mI2C_GO = 0
    /\ LUT_INDEX = 0 /\ mSetup_ST = 0 /\ READY = 0
    /\ WriterInit /\ ChipInit
    /\ resets = 0 /\ refusals = 0 /\ disturbed = FALSE
----------------------------------------------------------------------------
\* mSetup_ST 0: publish the entry and ask for a frame.
SetupSend ==
    /\ LUT_INDEX < LUT_SIZE /\ mSetup_ST = 0
    /\ mI2C_DATA' = LUT_DATA[LUT_INDEX]
    /\ mI2C_GO' = 1
    /\ mSetup_ST' = 1
    /\ READY' = 0
    /\ UNCHANGED LUT_INDEX

(* Faulty variants of SetupWait, for the runs to tell apart from it.        *)

SetupWait_IgnoresEnd ==
    /\ LUT_INDEX < LUT_SIZE /\ mSetup_ST = 1
    /\ mSetup_ST' = (IF ACK_OK = 0 THEN 2 ELSE 0) /\ mI2C_GO' = 0
    /\ READY' = 0
    /\ UNCHANGED <<mI2C_DATA, LUT_INDEX>>

SetupWait_IgnoresAck ==
    /\ LUT_INDEX < LUT_SIZE /\ mSetup_ST = 1
    /\ \/ END_OK = 0 /\ UNCHANGED <<mSetup_ST, mI2C_GO>>
       \/ END_OK = 1 /\ mSetup_ST' = 2 /\ mI2C_GO' = 0
    /\ READY' = 0
    /\ UNCHANGED <<mI2C_DATA, LUT_INDEX>>

SetupWait_NeverRetries ==
    /\ LUT_INDEX < LUT_SIZE /\ mSetup_ST = 1
    /\ \/ /\ END_OK = 0 \/ ACK_OK = 1
          /\ UNCHANGED <<mSetup_ST, mI2C_GO>>
       \/ END_OK = 1 /\ ACK_OK = 0 /\ mSetup_ST' = 2 /\ mI2C_GO' = 0
    /\ READY' = 0
    /\ UNCHANGED <<mI2C_DATA, LUT_INDEX>>

\* mSetup_ST 1: END as the writer drove it before this edge.
SetupWait ==
    /\ LUT_INDEX < LUT_SIZE /\ mSetup_ST = 1
    /\ \/ END_OK = 0 /\ UNCHANGED <<mSetup_ST, mI2C_GO>>
       \/ END_OK = 1 /\ ACK_OK = 0 /\ mSetup_ST' = 2 /\ mI2C_GO' = 0
       \/ END_OK = 1 /\ ACK_OK = 1 /\ mSetup_ST' = 0 /\ mI2C_GO' = 0
    /\ READY' = 0
    /\ UNCHANGED <<mI2C_DATA, LUT_INDEX>>

SetupAdvance ==
    /\ LUT_INDEX < LUT_SIZE /\ mSetup_ST = 2
    /\ LUT_INDEX' = LUT_INDEX + 1
    /\ mSetup_ST' = 0
    /\ READY' = 0
    /\ UNCHANGED <<mI2C_DATA, mI2C_GO>>

\* Whole table sent: READY, and start again when the chip interrupts.
SetupDone(HDMI_TX_INT) ==
    /\ LUT_INDEX >= LUT_SIZE
    /\ READY' = 1
    /\ LUT_INDEX' = IF HDMI_TX_INT = 0 THEN 0 ELSE LUT_INDEX
    /\ UNCHANGED <<mI2C_DATA, mI2C_GO, mSetup_ST>>

SequencerStep(HDMI_TX_INT) ==
    SetupSend \/ SetupWait \/ SetupAdvance \/ SetupDone(HDMI_TX_INT)
----------------------------------------------------------------------------
DividerCount ==
    /\ mI2C_CLK_DIV < CLK_DIV_MAX
    /\ mI2C_CLK_DIV' = mI2C_CLK_DIV + 1
    /\ UNCHANGED <<mI2C_CTRL_CLK, sequencerVars, writerVars, chipVars, budgetVars>>

DividerFall ==
    /\ mI2C_CLK_DIV >= CLK_DIV_MAX /\ mI2C_CTRL_CLK = 1
    /\ mI2C_CLK_DIV' = 0
    /\ mI2C_CTRL_CLK' = 0
    /\ UNCHANGED <<sequencerVars, writerVars, chipVars, budgetVars>>

\* The sequencer is about to start the table again for an interrupt.
Restarts(HDMI_TX_INT) == LUT_INDEX = LUT_SIZE /\ HDMI_TX_INT = 0

\* The chip is about to answer a byte.
Answers == listening /\ bits = 8 /\ SCLO = 1 /\ SCLO' = 0

\* The positive edge of mI2C_CTRL_CLK: the sequencer and the master step
\* together and the chip reacts to the wires.  A chip that was unplugged
\* raises the interrupt and has lost what it was told.
ControlEdge(HDMI_TX_INT, refuse) ==
    /\ mI2C_CLK_DIV >= CLK_DIV_MAX /\ mI2C_CTRL_CLK = 0
    /\ HDMI_TX_INT = 0 => INTERRUPTS
    /\ mI2C_CLK_DIV' = 0
    /\ mI2C_CTRL_CLK' = 1
    /\ SequencerStep(HDMI_TX_INT)
    /\ WriterStep(mI2C_GO, SLAVE_ADDR, mI2C_DATA, Line(SDAO))
    /\ refuse => Answers /\ refusals < MaxRefusals
    /\ ChipSees(Line(SDAO), SCLO, Line(SDAO'), SCLO', refuse)
    /\ written' = (IF Restarts(HDMI_TX_INT) THEN {} ELSE written) \cup Stored(SCLO, SCLO')
    /\ refusals' = IF refuse THEN refusals + 1 ELSE refusals
    /\ UNCHANGED <<resets, disturbed>>

\* iRST_N pulsed low: asynchronous, and only some of the registers.
Reset ==
    /\ resets < MaxResets
    /\ resets' = resets + 1
    /\ mI2C_CLK_DIV' = 0 /\ mI2C_CTRL_CLK' = 0
    /\ READY' = 0 /\ LUT_INDEX' = 0 /\ mSetup_ST' = 0 /\ mI2C_GO' = 0
    /\ WriterReset
    /\ disturbed' = (disturbed \/ pull)
    /\ UNCHANGED <<mI2C_DATA, chipVars, refusals>>

Clock ==
    \/ DividerCount
    \/ DividerFall
    \/ \E HDMI_TX_INT \in Bit, refuse \in BOOLEAN : ControlEdge(HDMI_TX_INT, refuse)

Next == Clock \/ Reset

Spec == Init /\ [][Next]_vars

\* The oscillator never stops.
FairSpec == Spec /\ WF_vars(Clock)
----------------------------------------------------------------------------
\* The table entry as the chip stores it.
Entry(i) == <<HighByte(LUT_DATA[i]), LowByte(LUT_DATA[i])>>

\* The frame that is on the wire when an interrupt replaces the data word:
\* the register of the last entry with the value of the first.
TornEntry == <<HighByte(LUT_DATA[LUT_SIZE - 1]), LowByte(LUT_DATA[0])>>

\* Everything the chip stores is an entry of the table, never a mixture of
\* two or bits out of step - although the master reads mI2C_DATA live while
\* the sequencer may change it, bytes are refused and retried, and reset hits
\* anywhere.  Two exceptions: the one torn entry after an interrupt, and a
\* reset while the chip was holding SDA, which hides the next START from it.
WritesAreEntries ==
    \/ disturbed
    \/ written \subseteq {Entry(i) : i \in 0..LUT_SIZE - 1}
                        \cup (IF INTERRUPTS THEN {TornEntry} ELSE {})

\* The sequencer never passes an entry the chip has not stored: not after a
\* refusal, not on a stale END.  Entry 0 is the exception (the END_OK that
\* ST 0 drives is taken for its end), so READY stands for entries 1 and up.
PassedEntriesAreStored ==
    disturbed \/ \A i \in 1..LUT_INDEX - 1 : Entry(i) \in written

\* The wires follow the bus protocol: while SCL stays high SDA falls only as
\* a START and rises only as a STOP, or when a reset lets go of the bus.
WireProtocol ==
    [][SCLO = 1 /\ SCLO' = 1 /\ SDAO' # SDAO
         => \/ ST = 1 /\ SDAO = 1 /\ CNT = 0 /\ BYTE = 0
            \/ ST = 8 /\ SDAO = 0 /\ CNT = 9 /\ BYTE = BYTE_NUM
            \/ ST = 0 /\ SDAO = 0]_vars

\* However often the chip refused or the board was reset, the configuration
\* finishes, and it finishes again after every interrupt.
AlwaysReadyAgain == []<>(READY = 1)

\* What the wires carry implements the delivery of the table, entry by entry.
Delivery == INSTANCE RegisterDelivery WITH
    N <- LUT_SIZE, Torn <- TornEntry, pos <- LUT_INDEX, regs <- written

DeliverySpec == Delivery!Spec
============================================================================
