------------------------- MODULE HdmiConfigProofs -------------------------
(***************************************************************************)
(* Proofs about HdmiConfig, for every table, divider and bound.            *)
(*                                                                         *)
(* TypeOK is not inductive: nothing in it keeps CNT below 10, because the  *)
(* pulse counter is only safe thanks to the order in which ST runs.        *)
(* FrameShape says what the wires and the counters are in each value of    *)
(* ST; it is inductive with TypeOK and yields the bus protocol.            *)
(*                                                                         *)
(* What the chip stores needs more: Talk relates the sequencer to the      *)
(* master, Follows the chip to the frame, Frame says which byte of which   *)
(* entry is on the wire and how much of it the chip has, and Passed that   *)
(* what was acknowledged is stored.  Together they yield the delivery of   *)
(* the table.                                                              *)
(***************************************************************************)
EXTENDS HdmiConfig, TLAPS

\* Between frames the bus is released and the counters are cleared.
AtRest ==
    ST \in {1, 30, 31} => SDAO = 1 /\ SCLO = 1 /\ CNT = 0 /\ BYTE = 0

\* Within a byte SDA moves only while SCL is low, and CNT counts the pulses.
InByte ==
    /\ ST = 2 => CNT <= 8 /\ (SCLO = 1 => SDAO = 0)
    /\ ST = 3 => CNT <= 8 /\ SCLO = 0
    /\ ST = 4 => CNT <= 8 /\ SCLO = 0
    /\ ST = 5 => CNT >= 1 /\ SCLO = 1

\* The STOP sequence comes after the ninth pulse of the last byte.
InStop ==
    /\ ST \in {6, 7, 8, 9} => CNT = 9 /\ BYTE = BYTE_NUM
    /\ ST = 6 => SCLO = 0
    /\ ST = 7 => SDAO = 0 /\ SCLO = 0
    /\ ST = 8 => SDAO = 0 /\ SCLO = 1
    /\ ST = 9 => SDAO = 1 /\ SCLO = 1

FrameShape == AtRest /\ InByte /\ InStop

WriterInv == WriterTypeOK /\ FrameShape

\* The parts of TypeOK that are not the master's.
OthersTypeOK ==
    ChipTypeOK /\ DividerTypeOK /\ SequencerTypeOK /\ BudgetTypeOK
               /\ disturbed \in BOOLEAN
----------------------------------------------------------------------------
\* A word of the table splits into two bytes.
LEMMA BytesOfWord ==
    ASSUME NEW w \in Int, 0 <= w, w <= 65535
    PROVE  HighByte(w) \in Byte /\ LowByte(w) \in Byte
  BY DEF HighByte, LowByte, Byte

\* The shift register keeps nine bits and hands one to the wire.
LEMMA ShiftBounds ==
    ASSUME NEW a \in Int, 0 <= a, a <= 511
    PROVE  a \div 256 \in Bit /\ (2 * a) % 512 \in 0..511
  BY DEF Bit

\* Shifting and loading leave the register within its nine bits.
LEMMA ShiftTyped ==
    ASSUME WriterTypeOK, WShift
    PROVE  SDAO' \in Bit /\ A' \in 0..511
<1>1. A \in Int /\ 0 <= A /\ A <= 511              BY DEF WriterTypeOK
<1>2. A \div 256 \in Bit /\ (2 * A) % 512 \in 0..511  BY <1>1, ShiftBounds
<1> QED                                            BY <1>2 DEF WShift

LEMMA LoadTyped ==
    ASSUME NEW sdai, mI2C_DATA \in Word, BYTE # BYTE_NUM,
           WByteDone(mI2C_DATA, sdai)
    PROVE  A' \in 0..511
<1>1. mI2C_DATA \in Int /\ 0 <= mI2C_DATA /\ mI2C_DATA <= 65535  BY DEF Word
<1> DEFINE byte == IF BYTE = 0 THEN HighByte(mI2C_DATA) ELSE LowByte(mI2C_DATA)
<1>2. byte \in Byte                              BY <1>1, BytesOfWord
<1>3. A' = Load(byte)                              BY DEF WByteDone
<1> HIDE DEF byte
<1> QED                                            BY <1>2, <1>3 DEF Load, Byte

\* One clock edge of the master keeps its invariant, whatever its inputs.
LEMMA WriterStepInv ==
    ASSUME WriterInv, SLAVE_ADDR \in Byte,
           mI2C_DATA \in Word, mI2C_GO \in Bit,
           NEW sdai \in Bit,
           WriterStep(mI2C_GO, SLAVE_ADDR, mI2C_DATA, sdai)
    PROVE  WriterInv'
<1> USE DEF WriterInv, WriterTypeOK, FrameShape, AtRest, InByte, InStop,
            Bit, Goto, Wires, BYTE_NUM
<1>1. CASE WPowerUp(mI2C_GO)           BY <1>1 DEF WPowerUp
<1>2. CASE WWaitGo(mI2C_GO)            BY <1>2 DEF WWaitGo
<1>3. CASE WClear                      BY <1>3 DEF WClear
<1>4. CASE WStart(SLAVE_ADDR)          BY <1>4 DEF WStart, Load, Byte
<1>5. CASE WClockLow                   BY <1>5 DEF WClockLow
<1>6. CASE WShift
  <2>1. SDAO' \in Bit /\ A' \in 0..511   BY <1>6, ShiftTyped
  <2> QED                              BY <1>6, <2>1 DEF WShift
<1>7. CASE WClockHigh                  BY <1>7 DEF WClockHigh
<1>8. CASE WNextBit                    BY <1>8 DEF WNextBit
<1>9. CASE WByteDone(mI2C_DATA, sdai)
  <2>1. CASE BYTE = BYTE_NUM           BY <1>9, <2>1 DEF WByteDone
  <2>2. CASE BYTE # BYTE_NUM
    <3>2. A' \in 0..511                BY <1>9, <2>2, LoadTyped
    <3> QED                            BY <1>9, <2>2, <3>2 DEF WByteDone
  <2> QED                              BY <2>1, <2>2
<1>10. CASE WStop                      BY <1>10 DEF WStop
<1>11. CASE WFinish                    BY <1>11 DEF WFinish
<1> QED
  BY <1>1, <1>2, <1>3, <1>4, <1>5, <1>6, <1>7, <1>8, <1>9, <1>10, <1>11
     DEF WriterStep

\* The sequencer's registers keep their type; the index stops at LUT_SIZE.
LEMMA SequencerTyped ==
    ASSUME SequencerTypeOK, NEW int \in Bit, SequencerStep(int)
    PROVE  SequencerTypeOK'
<1>1. CASE SetupSend
  <2>1. LUT_INDEX \in 0..LUT_SIZE
    BY DEF SequencerTypeOK
  <2>2. LUT_DATA[LUT_INDEX] \in Word
    BY <2>1, TableAssumption, Zenon
  <2>3. mI2C_DATA' \in Word
    BY <1>1, <2>2, Zenon DEF SetupSend
  <2> QED
    <3>1. /\ mI2C_GO' = 1 /\ mSetup_ST' = 1 /\ READY' = 0
          /\ LUT_INDEX' = LUT_INDEX
      BY <1>1 DEF SetupSend
    <3> QED  BY <2>1, <2>3, <3>1 DEF SequencerTypeOK, Bit
<1>2. CASE SetupWait
  BY <1>2 DEF SetupWait, SequencerTypeOK, Bit
<1>3. CASE SetupAdvance
  BY <1>3, SizeAssumption DEF SetupAdvance, SequencerTypeOK, Bit
<1>4. CASE SetupDone(int)
  BY <1>4, SizeAssumption DEF SetupDone, SequencerTypeOK, Bit
<1> QED
  BY <1>1, <1>2, <1>3, <1>4 DEF SequencerStep

\* The chip's receiver keeps its type on any change of the wires.
LEMMA ChipTyped ==
    ASSUME ReceiverTypeOK,
           NEW sda \in Bit, NEW sdaNext \in Bit, NEW scl, NEW sclNext,
           NEW refuse \in BOOLEAN,
           ChipSees(sda, scl, sdaNext, sclNext, refuse)
    PROVE  ReceiverTypeOK'
<1>1. CASE ChipIgnore(sda, scl, sdaNext, sclNext)
  BY <1>1 DEF ChipIgnore, receiverVars, ReceiverTypeOK
<1>2. CASE ChipStart
  <2>1. listening' \in BOOLEAN /\ pull' = pull /\ sub' = sub
    BY <1>2 DEF ChipStart
  <2>2. bits' \in 0..9 /\ bytes' \in 0..2 /\ shift' \in Byte
    BY <1>2 DEF ChipStart, Byte
  <2> QED  BY <2>1, <2>2 DEF ReceiverTypeOK
<1>3. CASE ChipStop
  <2>1. listening' \in BOOLEAN /\ pull' = pull /\ sub' = sub
    BY <1>3 DEF ChipStop
  <2>2. bits' \in 0..9 /\ bytes' \in 0..2 /\ shift' \in Byte
    BY <1>3 DEF ChipStop, Byte
  <2> QED  BY <2>1, <2>2 DEF ReceiverTypeOK
<1>4. ASSUME NEW bit \in Bit, ChipSample(bit)
      PROVE  ReceiverTypeOK'
  <2>1. shift \in Int /\ bit \in Int       BY DEF ReceiverTypeOK, Bit, Byte
  <2>2. (2 * shift + bit) % 256 \in Byte   BY <2>1 DEF Byte
  <2>3. shift' \in Byte
    BY <1>4, <2>2 DEF ChipSample, ReceiverTypeOK
  <2>4. bits' \in 0..9
    BY <1>4 DEF ChipSample, ReceiverTypeOK
  <2>5. UNCHANGED <<listening, bytes, sub, pull>>
    BY <1>4 DEF ChipSample
  <2> QED  BY <2>3, <2>4, <2>5 DEF ReceiverTypeOK
<1>5. CASE ChipAnswer(refuse)
  <2>1. pull' \in BOOLEAN /\ listening' \in BOOLEAN
    BY <1>5 DEF ChipAnswer
  <2> QED  BY <1>5, <2>1 DEF ChipAnswer, ReceiverTypeOK
<1>6. CASE ChipTake
  <2>1. sub \in Int                        BY DEF ReceiverTypeOK, Byte
  <2>2. (sub + 1) % 256 \in Byte           BY <2>1 DEF Byte
  <2>3. sub' \in {sub, shift, (sub + 1) % 256} /\ bytes' \in {1, 2, bytes}
    BY <1>6 DEF ChipTake
  <2>4. sub' \in Byte /\ bytes' \in 0..2
    BY <2>2, <2>3 DEF ReceiverTypeOK
  <2>5. bits' \in 0..9 /\ shift' \in Byte
    BY <1>6 DEF ChipTake, Byte
  <2>6. pull' \in BOOLEAN /\ listening' \in BOOLEAN
    BY <1>6 DEF ChipTake, ReceiverTypeOK
  <2> QED  BY <2>4, <2>5, <2>6 DEF ReceiverTypeOK
<1>7. \A bit \in {sda, sdaNext} : bit \in Bit
  OBVIOUS
<1> QED
  BY <1>1, <1>2, <1>3, <1>4, <1>5, <1>6, <1>7 DEF ChipSees

\* What the chip stores is a pair of bytes.
LEMMA StoredTyped ==
    ASSUME ChipTypeOK, NEW scl, NEW sclNext
    PROVE  Stored(scl, sclNext) \subseteq Byte \X Byte
  BY DEF Stored, ChipTypeOK, ReceiverTypeOK
----------------------------------------------------------------------------
IInv == TypeOK /\ FrameShape

LEMMA InitIInv == Init => IInv
<1> SUFFICES ASSUME Init PROVE IInv
  OBVIOUS
<1>1. WriterTypeOK /\ FrameShape
  BY DEF Init, WriterInit, WriterTypeOK, FrameShape, AtRest, InByte, InStop,
         Bit, BYTE_NUM
<1>2. ChipTypeOK
  <2>1. written \subseteq Byte \X Byte  BY DEF Init, ChipInit
  <2>2. listening \in BOOLEAN /\ pull \in BOOLEAN  BY DEF Init, ChipInit
  <2>3. bits \in 0..9 /\ bytes \in 0..2 /\ shift \in Byte /\ sub \in Byte
    BY DEF Init, ChipInit, Byte
  <2> QED  BY <2>1, <2>2, <2>3 DEF ChipTypeOK, ReceiverTypeOK
<1>3. DividerTypeOK
  BY DividerAssumption DEF Init, DividerTypeOK, Bit
<1>4. SequencerTypeOK
  BY SizeAssumption DEF Init, SequencerTypeOK, Bit, Word
<1>5. BudgetTypeOK
  BY BoundAssumption DEF Init, BudgetTypeOK
<1> QED
  BY <1>1, <1>2, <1>3, <1>4, <1>5 DEF Init, IInv, TypeOK

\* Registers a step leaves alone keep what is known of them.
LEMMA WriterKept ==
    ASSUME WriterInv, UNCHANGED writerVars PROVE WriterInv'
  BY DEF writerVars, WriterInv, WriterTypeOK, FrameShape, AtRest, InByte, InStop

LEMMA ChipKept ==
    ASSUME ChipTypeOK, UNCHANGED chipVars PROVE ChipTypeOK'
  BY DEF ChipTypeOK, ReceiverTypeOK, chipVars, receiverVars

LEMMA SequencerKept ==
    ASSUME SequencerTypeOK, UNCHANGED sequencerVars PROVE SequencerTypeOK'
  BY DEF SequencerTypeOK, sequencerVars

LEMMA BudgetKept ==
    ASSUME BudgetTypeOK, disturbed \in BOOLEAN, UNCHANGED budgetVars
    PROVE  BudgetTypeOK' /\ disturbed' \in BOOLEAN
  BY DEF BudgetTypeOK, budgetVars

\* The clock edge that drives everything keeps the invariant.
LEMMA ControlEdgeInv ==
    ASSUME WriterInv, OthersTypeOK,
           NEW int \in Bit, NEW refuse \in BOOLEAN, ControlEdge(int, refuse)
    PROVE  WriterInv' /\ OthersTypeOK'
<1>1. /\ SequencerStep(int)
      /\ WriterStep(mI2C_GO, SLAVE_ADDR, mI2C_DATA, Line(SDAO))
      /\ ChipSees(Line(SDAO), SCLO, Line(SDAO'), SCLO', refuse)
  BY DEF ControlEdge
<1>2. /\ mI2C_DATA \in Word /\ mI2C_GO \in Bit
      /\ SLAVE_ADDR \in Byte
  BY AddressAssumption DEF OthersTypeOK, SequencerTypeOK
<1>3. SDAO \in Bit /\ SCLO \in Bit          BY DEF WriterInv, WriterTypeOK
<1>4. Line(SDAO) \in Bit                    BY <1>3 DEF Line, Bit
<1>5. WriterInv'                            BY <1>1, <1>2, <1>4, WriterStepInv
<1>6. SDAO' \in Bit /\ SCLO' \in Bit        BY <1>5 DEF WriterInv, WriterTypeOK
<1>7. Line(SDAO') \in Bit                   BY <1>6 DEF Line, Bit
<1>8. ChipTypeOK                            BY DEF OthersTypeOK
<1>9. written' \subseteq Byte \X Byte
  <2>1. Stored(SCLO, SCLO') \subseteq Byte \X Byte   BY <1>8, StoredTyped
  <2>2. written \subseteq Byte \X Byte               BY <1>8 DEF ChipTypeOK
  <2>3. written' \subseteq written \cup Stored(SCLO, SCLO')  BY DEF ControlEdge
  <2> QED                                                    BY <2>1, <2>2, <2>3
<1>10. ChipTypeOK'
  <2>1. ReceiverTypeOK                      BY <1>8 DEF ChipTypeOK
  <2>2. ReceiverTypeOK'                     BY <1>1, <1>4, <1>7, <2>1, ChipTyped
  <2> QED                                   BY <1>9, <2>2 DEF ChipTypeOK
<1>11. SequencerTypeOK'
  BY <1>1, SequencerTyped DEF OthersTypeOK
<1>12. BudgetTypeOK'
  <2>1. resets' = resets /\ refusals' \in {refusals, refusals + 1}
    BY DEF ControlEdge
  <2>2. refusals' = refusals + 1 => refusals < MaxRefusals
    <3>1. BudgetTypeOK                      BY DEF OthersTypeOK
    <3> QED                                 BY <3>1 DEF ControlEdge, BudgetTypeOK
  <2> QED  BY <2>1, <2>2, BoundAssumption DEF OthersTypeOK, BudgetTypeOK
<1>13. DividerTypeOK'
  BY DividerAssumption DEF ControlEdge, DividerTypeOK, Bit
<1>14. disturbed' \in BOOLEAN
  BY DEF ControlEdge, OthersTypeOK
<1> QED
  BY <1>5, <1>10, <1>11, <1>12, <1>13, <1>14 DEF OthersTypeOK

\* So does a reset: the registers it leaves alone are constrained by ST only.
LEMMA ResetInv ==
    ASSUME WriterInv, OthersTypeOK, Reset
    PROVE  WriterInv' /\ OthersTypeOK'
<1>1. WriterInv'
  BY DEF Reset, WriterReset, WriterInv, WriterTypeOK, FrameShape, AtRest,
         InByte, InStop
<1>2. ChipTypeOK'           BY ChipKept DEF Reset, OthersTypeOK
<1>3. DividerTypeOK'        BY DividerAssumption DEF Reset, DividerTypeOK, Bit
<1>4. SequencerTypeOK'
  <2>1. SequencerTypeOK     BY DEF OthersTypeOK
  <2>2. /\ READY' = 0 /\ LUT_INDEX' = 0 /\ mSetup_ST' = 0
        /\ mI2C_GO' = 0 /\ mI2C_DATA' = mI2C_DATA
    BY DEF Reset
  <2> QED                   BY <2>1, <2>2, SizeAssumption DEF SequencerTypeOK, Bit
<1>5. BudgetTypeOK'
  BY BoundAssumption DEF Reset, OthersTypeOK, BudgetTypeOK
<1>6. disturbed' \in BOOLEAN
  BY DEF Reset
<1> QED  BY <1>1, <1>2, <1>3, <1>4, <1>5, <1>6 DEF OthersTypeOK

\* The divider and stuttering steps touch none of the rest.
LEMMA DividerInv ==
    ASSUME WriterInv, OthersTypeOK,
           DividerCount \/ DividerFall \/ UNCHANGED vars
    PROVE  WriterInv' /\ OthersTypeOK'
<1>1. UNCHANGED <<sequencerVars, writerVars, chipVars, budgetVars>>
  BY DEF DividerCount, DividerFall, vars
<1>2. DividerTypeOK'
  <2>1. DividerTypeOK       BY DEF OthersTypeOK
  <2>2. CASE DividerCount   BY <2>1, <2>2, DividerAssumption DEF DividerCount, DividerTypeOK
  <2>3. CASE DividerFall    BY <2>1, <2>3, DividerAssumption DEF DividerFall, DividerTypeOK, Bit
  <2>4. CASE UNCHANGED vars BY <2>1, <2>4 DEF vars, dividerVars, DividerTypeOK
  <2> QED                   BY <2>2, <2>3, <2>4
<1> QED
  BY <1>1, <1>2, WriterKept, ChipKept, SequencerKept, BudgetKept DEF OthersTypeOK

LEMMA StepIInv == IInv /\ [Next]_vars => IInv'
<1> SUFFICES ASSUME IInv, [Next]_vars PROVE IInv'
  OBVIOUS
<1>1. WriterInv /\ OthersTypeOK
  BY DEF IInv, TypeOK, WriterInv, OthersTypeOK
<1>2. WriterInv' /\ OthersTypeOK' => IInv'
  BY DEF IInv, TypeOK, WriterInv, OthersTypeOK
<1>3. CASE DividerCount \/ DividerFall \/ UNCHANGED vars
  BY <1>1, <1>2, <1>3, DividerInv
<1>4. ASSUME NEW int \in Bit, NEW refuse \in BOOLEAN, ControlEdge(int, refuse)
      PROVE  IInv'
  BY <1>1, <1>2, <1>4, ControlEdgeInv
<1>5. CASE Reset
  BY <1>1, <1>2, <1>5, ResetInv
<1> QED
  BY <1>3, <1>4, <1>5 DEF Next, Clock

\* The registers of the configuration path keep their range, and the wires
\* and counters the shape their state asks for, in every reachable state.
THEOREM HdmiConfigInvariant == Spec => []IInv
<1>1. Init => IInv                BY InitIInv
<1>2. IInv /\ [Next]_vars => IInv'  BY StepIInv
<1> QED                           BY <1>1, <1>2, PTL DEF Spec

\* Every register of the configuration path stays in the range of its width,
\* the pulse and byte counters included.
THEOREM HdmiConfigTypeOK == Spec => []TypeOK
<1>1. IInv => TypeOK              BY DEF IInv
<1> QED                           BY <1>1, HdmiConfigInvariant, PTL

\* SDA moves while SCL is high only to open a frame, to close a complete one,
\* or to let go of the bus after a reset.
THEOREM HdmiConfigWireProtocol == Spec => WireProtocol
<1> DEFINE Protocol ==
      SCLO = 1 /\ SCLO' = 1 /\ SDAO' # SDAO
        => \/ ST = 1 /\ SDAO = 1 /\ CNT = 0 /\ BYTE = 0
           \/ ST = 8 /\ SDAO = 0 /\ CNT = 9 /\ BYTE = BYTE_NUM
           \/ ST = 0 /\ SDAO = 0
<1>1. IInv /\ [Next]_vars => [Protocol]_vars
  <2> SUFFICES ASSUME IInv, Next PROVE Protocol
    OBVIOUS
  <2>1. WriterInv                 BY DEF IInv, TypeOK, WriterInv
  <2>2. CASE UNCHANGED writerVars BY <2>2 DEF writerVars
  <2>3. CASE Reset                BY <2>3 DEF Reset, WriterReset
  <2>4. ASSUME NEW sdai, WriterStep(mI2C_GO, SLAVE_ADDR, mI2C_DATA, sdai)
        PROVE  Protocol
    BY <2>1, <2>4
       DEF WriterStep, WPowerUp, WWaitGo, WClear, WStart, WClockLow, WShift,
           WClockHigh, WNextBit, WByteDone, WStop, WFinish, Wires,
           WriterInv, WriterTypeOK, FrameShape, AtRest, InByte, InStop, Bit
  <2> QED
    BY <2>2, <2>3, <2>4 DEF Next, Clock, DividerCount, DividerFall, ControlEdge
<1> QED
  BY <1>1, HdmiConfigInvariant, PTL DEF Spec, WireProtocol
----------------------------------------------------------------------------
(***************************************************************************)
(* What the chip stores.                                                   *)
(***************************************************************************)
First == LUT_DATA[0]
Last == LUT_DATA[LUT_SIZE - 1]

\* A frame is under way, and its START is over.
OnWire == ST \in 2..9 /\ ~(ST = 2 /\ BYTE = 0 /\ CNT = 0)

\* How the sequencer and the master stand to each other.
Talk ==
    /\ mI2C_GO = 1 <=> mSetup_ST = 1
    /\ ST \in 1..9 => END_OK = 0
    /\ ST \in {30, 31} => END_OK = 1
    /\ ST = 0 => LUT_INDEX = 0 /\ mSetup_ST # 2
    /\ mSetup_ST = 2 => ST = 30 \/ (ST = 1 /\ LUT_INDEX = 0)
    /\ LUT_INDEX = LUT_SIZE => mSetup_ST = 0 /\ mI2C_DATA = Last
    /\ mSetup_ST # 0 => mI2C_DATA = LUT_DATA[LUT_INDEX]
    /\ LUT_INDEX < LUT_SIZE /\ mSetup_ST = 0 /\ OnWire =>
          LUT_INDEX = 0 /\ mI2C_DATA = Last /\ INTERRUPTS
    /\ mSetup_ST = 0 /\ ST = 30 /\ LUT_INDEX \in 1..LUT_SIZE - 1 => ACK_OK = 1
    /\ mSetup_ST = 1 /\ ST = 31 => ACK_OK = 1 \/ LUT_INDEX = 0
    /\ ST = 2 /\ SCLO = 1 => CNT = 0

\* How the chip follows the frame, unless it did not see its START.
Follows ==
    /\ pull => listening /\ ST \in 2..5 /\ CNT >= 8
    /\ listening /\ ST \in 2..5 => bits = CNT /\ bytes = BYTE

LEMMA Sizes ==
    LUT_SIZE \in Nat /\ LUT_SIZE > 0
  BY SizeAssumption

LEMMA TalkInit == Init => Talk
  BY Sizes DEF Init, WriterInit, Talk, OnWire

LEMMA TalkReset ==
    ASSUME WriterInv, Talk, Reset PROVE Talk'
  BY Sizes DEF Reset, WriterReset, Talk, OnWire

LEMMA TalkKept ==
    ASSUME Talk, UNCHANGED <<sequencerVars, writerVars>> PROVE Talk'
  BY DEF sequencerVars, writerVars, Talk, OnWire, Last

\* The master's moves, without what it puts on the wires.
WriterMove ==
    \/ ST = 0 /\ ST' = (IF mI2C_GO = 1 THEN 30 ELSE 0) /\ END_OK' = 1 /\ ACK_OK' = 0
         /\ CNT' = 0 /\ BYTE' = 0
    \/ ST = 30 /\ ST' = (IF mI2C_GO = 0 THEN 31 ELSE 30) /\ END_OK' = 1 /\ ACK_OK' = ACK_OK
         /\ CNT' = 0 /\ BYTE' = 0
    \/ ST = 31 /\ ST' = 1 /\ END_OK' = 0 /\ ACK_OK' = 0 /\ CNT' = 0 /\ BYTE' = 0
    \/ ST = 1 /\ ST' = 2 /\ END_OK' = 0 /\ CNT' = 0 /\ BYTE' = 0
    \/ ST \in {2, 3, 4, 6, 7, 8} /\ ST' = ST + 1 /\ END_OK' = 0
    \/ ST = 5 /\ ST' \in {2, 6} /\ END_OK' = 0 /\ SCLO' = 0 /\ CNT' \in Nat /\ (BYTE' = 0 => CNT' # 0)
    \/ ST = 9 /\ ST' = 30 /\ END_OK' = 1

LEMMA WriterMoves ==
    ASSUME WriterInv, Talk, NEW sdai, WriterStep(mI2C_GO, SLAVE_ADDR, mI2C_DATA, sdai)
    PROVE  WriterMove
<1> USE DEF WriterInv, WriterTypeOK, FrameShape, AtRest, InByte, InStop, Talk,
            Goto, Wires, BYTE_NUM, WriterMove
<1>1. CASE WPowerUp(mI2C_GO)           BY <1>1 DEF WPowerUp
<1>2. CASE WWaitGo(mI2C_GO)            BY <1>2 DEF WWaitGo
<1>3. CASE WClear                      BY <1>3 DEF WClear
<1>4. CASE WStart(SLAVE_ADDR)          BY <1>4 DEF WStart
<1>5. CASE WClockLow                   BY <1>5 DEF WClockLow
<1>6. CASE WShift                      BY <1>6 DEF WShift
<1>7. CASE WClockHigh                  BY <1>7 DEF WClockHigh
<1>8. CASE WNextBit                    BY <1>8 DEF WNextBit
<1>9. CASE WByteDone(mI2C_DATA, sdai)  BY <1>9 DEF WByteDone
<1>10. CASE WStop                      BY <1>10 DEF WStop
<1>11. CASE WFinish                    BY <1>11 DEF WFinish
<1> QED
  BY <1>1, <1>2, <1>3, <1>4, <1>5, <1>6, <1>7, <1>8, <1>9, <1>10, <1>11
     DEF WriterStep

LEMMA TalkStep ==
    ASSUME WriterInv, SequencerTypeOK, Talk, WriterMove,
           NEW int \in Bit, int = 0 => INTERRUPTS, SequencerStep(int)
    PROVE  Talk'
<1> USE Sizes DEF Talk, WriterMove, OnWire, Last, SequencerTypeOK,
                  WriterInv, WriterTypeOK, FrameShape, AtRest, InByte, InStop, Bit
<1>1. CASE SetupSend        BY <1>1 DEF SetupSend
<1>2. CASE SetupWait        BY <1>2 DEF SetupWait
<1>3. CASE SetupAdvance     BY <1>3 DEF SetupAdvance
<1>4. CASE SetupDone(int)   BY <1>4 DEF SetupDone
<1> QED
  BY <1>1, <1>2, <1>3, <1>4 DEF SequencerStep
----------------------------------------------------------------------------
LEMMA FollowsReset ==
    ASSUME Follows, pull \in BOOLEAN, Reset, ~disturbed' PROVE Follows'
<1>1. pull = FALSE /\ pull' = FALSE    BY DEF Reset, chipVars, receiverVars
<1>2. ST' = 0                         BY DEF Reset, WriterReset
<1> QED                               BY <1>1, <1>2 DEF Follows

\* The chip on one clock edge: it samples rising clocks, answers the eighth
\* falling one, takes the byte at the ninth, and sees START and STOP only where
\* the master makes them.
LEMMA FollowsStep ==
    ASSUME WriterInv, ReceiverTypeOK, Talk, Follows, NEW refuse \in BOOLEAN,
           WriterStep(mI2C_GO, SLAVE_ADDR, mI2C_DATA, Line(SDAO)),
           ChipSees(Line(SDAO), SCLO, Line(SDAO'), SCLO', refuse)
    PROVE  Follows'
<1> USE DEF WriterInv, WriterTypeOK, FrameShape, AtRest, InByte, InStop, Bit,
            ReceiverTypeOK, Goto, Wires, BYTE_NUM, Follows, Line
<1> USE DEF ChipSees, ChipIgnore, ChipStart, ChipStop, ChipSample, ChipAnswer, ChipTake, receiverVars
<1>1. CASE WPowerUp(mI2C_GO)           BY <1>1 DEF WPowerUp
<1>2. CASE WWaitGo(mI2C_GO)            BY <1>2 DEF WWaitGo
<1>3. CASE WClear                      BY <1>3 DEF WClear
<1>4. CASE WStart(SLAVE_ADDR)          BY <1>4 DEF WStart
<1>5. CASE WClockLow                   BY <1>5 DEF WClockLow, Talk
<1>6. CASE WShift                      BY <1>6 DEF WShift
<1>7. CASE WClockHigh                  BY <1>7 DEF WClockHigh
<1>8. CASE WNextBit                    BY <1>8 DEF WNextBit
<1>9. CASE WByteDone(mI2C_DATA, Line(SDAO))  BY <1>9 DEF WByteDone
<1>10. CASE WStop
  <2>1. pull = FALSE /\ ST' \in {7, 8, 9}  BY <1>10 DEF WStop
  <2>2. pull' = FALSE                    BY <1>10, <2>1 DEF WStop
  <2> QED                              BY <2>1, <2>2
<1>11. CASE WFinish                    BY <1>11 DEF WFinish
<1> QED
  BY <1>1, <1>2, <1>3, <1>4, <1>5, <1>6, <1>7, <1>8, <1>9, <1>10, <1>11
     DEF WriterStep
----------------------------------------------------------------------------
(***************************************************************************)
(* The byte on the wire.  Nine bits go out, b and a released one; those    *)
(* sent are s, the rest is in A.                                           *)
(***************************************************************************)
TwoTo(k) ==
    IF k <= 3 THEN IF k = 0 THEN 1 ELSE IF k = 1 THEN 2 ELSE IF k = 2 THEN 4 ELSE 8
    ELSE IF k = 4 THEN 16 ELSE IF k = 5 THEN 32 ELSE IF k = 6 THEN 64
    ELSE IF k = 7 THEN 128 ELSE 256
Sent(b, k) == (2 * b + 1) * TwoTo(k)

Sending(b, s) ==
    /\ ST # 4 /\ CNT <= 8 => 512 * s + A = Sent(b, CNT)
    /\ ST = 4 /\ CNT <= 7 => 512 * (2 * s + SDAO) + A = Sent(b, CNT + 1)
    /\ ST = 4 /\ CNT = 8 => s = b /\ SDAO = 1
    /\ CNT = 9 => s = b /\ SDAO = 1

LEMMA SentDoubles ==
    ASSUME NEW b \in Byte, NEW k \in 0..7
    PROVE  Sent(b, k + 1) = 2 * Sent(b, k)
<1>1. k \in {0, 1, 2, 3, 4, 5, 6, 7}
  OBVIOUS
<1>2. b \in Int
  BY DEF Byte
<1> QED
  BY <1>1, <1>2 DEF Sent, TwoTo

LEMMA SentBounds ==
    ASSUME NEW b \in Byte, NEW k \in 0..8
    PROVE  /\ Sent(b, k) \in Nat /\ Sent(b, k) < 131072
           /\ Sent(b, 0) = 2 * b + 1 /\ Sent(b, 8) = 512 * b + 256
<1>1. k \in {0, 1, 2, 3, 4, 5, 6, 7, 8}
  OBVIOUS
<1>2. b \in Int /\ 0 <= b /\ b <= 255
  BY DEF Byte
<1> QED
  BY <1>1, <1>2 DEF Sent, TwoTo

\* What has been sent after a clock.
Got(s) == IF ST = 4 /\ CNT < 8 THEN 2 * s + SDAO ELSE s

InsideByte == WClockLow \/ WShift \/ WClockHigh \/ WNextBit

LEMMA ShiftKeepsSent ==
    ASSUME NEW s \in Int, NEW a \in Int, NEW x \in Int, NEW bit \in Int, NEW rest \in Int,
           512 * s + a = x, 512 * bit + rest = 2 * a
    PROVE  512 * (2 * s + bit) + rest = 2 * x
  OBVIOUS

LEMMA SendingStep ==
    ASSUME WriterInv, NEW b \in Byte, NEW s \in Byte, Sending(b, s), InsideByte
    PROVE  \E t \in Byte : t = Got(s) /\ Sending(b, t)'
<1>0. b \in Int /\ s \in Int /\ 0 <= s /\ s <= 255 /\ b <= 255 /\ 0 <= b
  BY DEF Byte
<1>1. CASE WClockLow
  BY <1>1 DEF WClockLow, Sending, Got, Goto, Wires, WriterInv, WriterTypeOK, FrameShape, InByte
<1>2. CASE WNextBit
  BY <1>2 DEF WNextBit, Sending, Got, Goto, WriterInv, WriterTypeOK
<1>3. CASE WShift
  <2>1. /\ ST = 3 /\ ST' = 4 /\ CNT' = CNT /\ CNT \in 0..8 /\ Got(s) = s
        /\ SDAO' = A \div 256 /\ A' = (2 * A) % 512
    BY <1>3 DEF WShift, Goto, Got, WriterInv, WriterTypeOK, FrameShape, InByte
  <2>2. A \in Int /\ 0 <= A /\ A <= 511 /\ 512 * s + A = Sent(b, CNT)
    BY <2>1 DEF Sending, WriterInv, WriterTypeOK
  <2>3. 512 * SDAO' + A' = 2 * A
    BY <2>1, <2>2
  <2>4. CASE CNT <= 7
    <3>1. Sent(b, CNT + 1) = 2 * Sent(b, CNT)
      BY <2>1, <2>4, SentDoubles
    <3>2. SDAO' \in Int /\ A' \in Int /\ Sent(b, CNT) \in Int
      BY <2>1, <2>2, SentBounds
    <3>3. 512 * (2 * s + SDAO') + A' = 2 * Sent(b, CNT)
      <4>1. s \in Int /\ A \in Int /\ 512 * s + A = Sent(b, CNT)
        BY <1>0, <2>2
      <4>2. PICK x, bit, rest \in Int : x = Sent(b, CNT) /\ bit = SDAO' /\ rest = A'
        BY <3>2
      <4>3. 512 * s + A = x /\ 512 * bit + rest = 2 * A
        BY <2>3, <4>1, <4>2
      <4>4. 512 * (2 * s + bit) + rest = 2 * x
        BY <4>1, <4>3, ShiftKeepsSent
      <4> QED
        BY <4>2, <4>4
    <3>4. 512 * (2 * s + SDAO') + A' = Sent(b, CNT + 1)
      BY <3>1, <3>3
    <3> QED
      BY <2>1, <2>4, <3>4 DEF Sending
  <2>5. CASE CNT = 8
    <3>1. 512 * s + A = 512 * b + 256
      BY <2>1, <2>2, <2>5, SentBounds
    <3>2. s = b /\ A = 256
      BY <1>0, <2>2, <3>1
    <3>3. SDAO' = 1
      BY <2>1, <3>2
    <3> QED
      BY <2>1, <2>5, <3>2, <3>3 DEF Sending
  <2> QED
    BY <2>1, <2>4, <2>5
<1>4. CASE WClockHigh
  <2>1. /\ ST = 4 /\ ST' = 5 /\ CNT' = CNT + 1 /\ SDAO' = SDAO /\ A' = A
        /\ CNT \in 0..8
    BY <1>4 DEF WClockHigh, Goto, WriterInv, WriterTypeOK, FrameShape, InByte
  <2>2. CASE CNT <= 7
    <3>1. Got(s) = 2 * s + SDAO /\ 512 * (2 * s + SDAO) + A = Sent(b, CNT + 1)
      BY <2>1, <2>2 DEF Got, Sending
    <3>2. Sent(b, CNT + 1) < 131072 /\ SDAO \in {0, 1} /\ A \in Int /\ 0 <= A
          /\ Sent(b, CNT + 1) \in Int
      <4>1. CNT + 1 \in 0..8
        BY <2>1, <2>2
      <4> QED
        BY <4>1, SentBounds DEF WriterInv, WriterTypeOK, Bit
    <3>3. Got(s) \in Byte
      BY <1>0, <3>1, <3>2 DEF Byte
    <3> QED
      BY <2>1, <2>2, <3>1, <3>3 DEF Sending
  <2>3. CASE CNT = 8
    BY <2>1, <2>3 DEF Got, Sending
  <2> QED
    BY <2>1, <2>2, <2>3
<1> QED
  BY <1>1, <1>2, <1>3, <1>4 DEF InsideByte

\* On a falling or low clock, but for the ninth, nothing is received.
LEMMA ChipWaits ==
    ASSUME NEW sda, NEW sdaNext, NEW scl, NEW refuse \in BOOLEAN,
           bits # 9, ChipSees(sda, scl, sdaNext, 0, refuse)
    PROVE  (listening' => listening) /\ shift' = shift /\ sub' = sub
  BY DEF ChipSees, ChipIgnore, ChipStart, ChipStop, ChipSample, ChipAnswer, ChipTake,
         receiverVars

LEMMA ChipStaysDeaf ==
    ASSUME NEW sda, NEW sdaNext, NEW scl, NEW refuse \in BOOLEAN,
           ChipSees(sda, scl, sdaNext, 0, refuse), listening'
    PROVE  listening
<1>1. CASE ChipIgnore(sda, scl, sdaNext, 0)
  BY <1>1, Zenon DEF ChipIgnore, receiverVars
<1>2. CASE ChipAnswer(refuse) \/ ChipTake
  BY <1>2 DEF ChipAnswer, ChipTake
<1> QED
  BY <1>1, <1>2 DEF ChipSees

\* On a rising clock with steady data the listening chip samples.
LEMMA ChipSamples ==
    ASSUME NEW sda, NEW refuse \in BOOLEAN, ChipSees(sda, 0, sda, 1, refuse), listening'
    PROVE  listening /\ ChipSample(sda)
<1>1. CASE ChipIgnore(sda, 0, sda, 1)
  BY <1>1 DEF ChipIgnore, receiverVars
<1>2. CASE \E bit \in {sda, sda} : ChipSample(bit)
  BY <1>2 DEF ChipSample
<1> QED
  BY <1>1, <1>2 DEF ChipSees, ChipStop

\* The chip receives what was sent.
LEMMA ChipReceives ==
    ASSUME WriterInv, ReceiverTypeOK, Talk, Follows, NEW refuse \in BOOLEAN, InsideByte,
           ChipSees(Line(SDAO), SCLO, Line(SDAO'), SCLO', refuse),
           NEW s \in Byte, listening => shift = s, Got(s) \in Byte, listening'
    PROVE  listening /\ shift' = Got(s) /\ sub' = sub
<1>1. CASE WClockLow \/ WShift \/ WNextBit
  <2>1. SCLO' = 0 /\ ST \in {2, 3, 5} /\ CNT # 9
    BY <1>1 DEF WClockLow, WShift, WNextBit, Wires, WriterInv, WriterTypeOK, FrameShape, InByte
  <2>2. listening
    BY <2>1, ChipStaysDeaf
  <2>3. bits # 9
    BY <2>1, <2>2 DEF Follows
  <2> QED
    BY <2>1, <2>2, <2>3, ChipWaits DEF Got
<1>2. CASE WClockHigh
  <2>1. SCLO = 0 /\ SCLO' = 1 /\ SDAO' = SDAO /\ ST = 4 /\ CNT \in 0..8
    BY <1>2 DEF WClockHigh, WriterInv, WriterTypeOK, FrameShape, InByte
  <2>2. ChipSees(Line(SDAO), 0, Line(SDAO), 1, refuse)
    BY <2>1
  <2>3. listening /\ ChipSample(Line(SDAO))
    BY <2>2, ChipSamples
  <2>4. bits = CNT /\ shift = s
    BY <2>1, <2>3 DEF Follows
  <2>5. CASE CNT = 8
    BY <2>1, <2>3, <2>4, <2>5 DEF Got, ChipSample
  <2>6. CASE CNT < 8
    <3>1. ~pull /\ Line(SDAO) = SDAO
      BY <2>1, <2>6 DEF Follows, Line
    <3>2. Got(s) = 2 * s + SDAO /\ shift' = (2 * s + SDAO) % 256 /\ sub' = sub
      BY <2>1, <2>3, <2>4, <2>6, <3>1 DEF Got, ChipSample
    <3>3. 2 * s + SDAO \in 0..255
      BY <3>2 DEF Byte
    <3>4. \A x \in 0..255 : x % 256 = x
      OBVIOUS
    <3> QED
      BY <2>3, <3>2, <3>3, <3>4
  <2> QED
    BY <2>1, <2>5, <2>6
<1> QED
  BY <1>1, <1>2 DEF InsideByte
----------------------------------------------------------------------------
(***************************************************************************)
(* The frame on the wire: e gives its sub-address, f its value.            *)
(***************************************************************************)
Right(e, f) ==
    \/ LUT_INDEX = 0 /\ \/ e = First /\ f = First
                        \/ e = Last /\ f = Last
                        \/ INTERRUPTS /\ e = Last /\ f = First
    \/ LUT_INDEX \in 1..LUT_SIZE - 1 /\ e = LUT_DATA[LUT_INDEX] /\ f = LUT_DATA[LUT_INDEX]
    \/ LUT_INDEX = LUT_SIZE /\ e = Last /\ f = Last

\* The byte that is on the wire; the value's is read when its turn comes.
Content(b) ==
    \/ BYTE = 0
    \/ BYTE = 1 /\ \E e \in Word : Right(e, mI2C_DATA) /\ b = HighByte(e)
    \/ BYTE = 2 /\ \E e, f \in Word : /\ Right(e, f) /\ b = LowByte(f)
                                      /\ listening => sub = HighByte(e)

Frame ==
    ST \in 2..5 =>
        \E b, s \in Byte : Content(b) /\ Sending(b, s) /\ (listening => shift = s)

\* While a frame is on the wire the index moves from the end to the start only,
\* and the word only from the last to the first.
LEMMA IndexOnWire ==
    ASSUME Talk, SequencerTypeOK, OnWire, NEW int \in Bit, SequencerStep(int)
    PROVE  \/ LUT_INDEX' = LUT_INDEX /\ mI2C_DATA' = mI2C_DATA
           \/ LUT_INDEX = LUT_SIZE /\ LUT_INDEX' = 0 /\ mI2C_DATA' = mI2C_DATA
           \/ /\ LUT_INDEX = 0 /\ LUT_INDEX' = 0 /\ INTERRUPTS
              /\ mI2C_DATA = Last /\ mI2C_DATA' = First
<1> USE Sizes DEF Talk, OnWire, SequencerTypeOK
<1>1. CASE SetupSend        BY <1>1 DEF SetupSend, First
<1>2. CASE SetupWait        BY <1>2 DEF SetupWait
<1>3. CASE SetupAdvance     BY <1>3 DEF SetupAdvance
<1>4. CASE SetupDone(int)   BY <1>4 DEF SetupDone
<1> QED
  BY <1>1, <1>2, <1>3, <1>4 DEF SequencerStep

LEMMA RightStays ==
    ASSUME Talk, SequencerTypeOK, OnWire, NEW int \in Bit, SequencerStep(int),
           NEW e, NEW f, Right(e, f)
    PROVE  Right(e, f)'
<1>1. LUT_INDEX' = LUT_INDEX \/ (LUT_INDEX = LUT_SIZE /\ LUT_INDEX' = 0)
  BY IndexOnWire
<1>2. First' = First /\ Last' = Last
  BY DEF First, Last
<1> QED
  BY <1>1, <1>2, Sizes DEF Right

LEMMA RightLoads ==
    ASSUME Talk, SequencerTypeOK, OnWire, NEW int \in Bit, SequencerStep(int),
           NEW e, Right(e, mI2C_DATA)
    PROVE  Right(e, mI2C_DATA)'
<1>2. First' = First /\ Last' = Last
  BY DEF First, Last
<1>3. CASE mI2C_DATA' = mI2C_DATA
  BY <1>2, <1>3, IndexOnWire, Sizes DEF Right
<1>4. CASE LUT_INDEX = 0 /\ LUT_INDEX' = 0 /\ INTERRUPTS /\ mI2C_DATA = Last /\ mI2C_DATA' = First
  BY <1>2, <1>4, Sizes DEF Right
<1> QED
  BY <1>3, <1>4, IndexOnWire

LEMMA WordIsRight ==
    ASSUME Talk, SequencerTypeOK, OnWire
    PROVE  Right(mI2C_DATA, mI2C_DATA)
  BY Sizes DEF Talk, SequencerTypeOK, Right, First

LEMMA ContentStep ==
    ASSUME Talk, SequencerTypeOK, ST \in 2..5, NEW int \in Bit, SequencerStep(int),
           BYTE \in {0, 1, 2}, BYTE' = BYTE, NEW b \in Byte, Content(b),
           listening' => listening /\ sub' = sub
    PROVE  Content(b)'
<1>1. CASE BYTE = 0
  BY <1>1 DEF Content
<1>2. CASE BYTE = 1
  <2>1. PICK e \in Word : Right(e, mI2C_DATA) /\ b = HighByte(e)
    BY <1>2 DEF Content
  <2>2. Right(e, mI2C_DATA)'
    BY <1>2, <2>1, RightLoads DEF OnWire
  <2> QED
    BY <1>2, <2>1, <2>2 DEF Content
<1>3. CASE BYTE = 2
  <2>1. PICK e, f \in Word : /\ Right(e, f) /\ b = LowByte(f)
                             /\ listening => sub = HighByte(e)
    BY <1>3 DEF Content
  <2>2. Right(e, f)'
    BY <1>3, <2>1, RightStays DEF OnWire
  <2> QED
    BY <1>3, <2>1, <2>2 DEF Content
<1> QED
  BY <1>1, <1>2, <1>3

LEMMA FrameInside ==
    ASSUME WriterInv, ReceiverTypeOK, SequencerTypeOK, Talk, Follows, Frame,
           NEW refuse \in BOOLEAN, NEW int \in Bit, SequencerStep(int), InsideByte,
           ChipSees(Line(SDAO), SCLO, Line(SDAO'), SCLO', refuse)
    PROVE  Frame'
<1>1. ST \in 2..5 /\ BYTE \in {0, 1, 2} /\ BYTE' = BYTE
  BY DEF InsideByte, WClockLow, WShift, WClockHigh, WNextBit, WriterInv, WriterTypeOK, BYTE_NUM
<1>2. PICK b, s \in Byte : Content(b) /\ Sending(b, s) /\ (listening => shift = s)
  BY <1>1 DEF Frame
<1>3. PICK t \in Byte : t = Got(s) /\ Sending(b, t)'
  BY <1>2, SendingStep
<1>4. listening' => listening /\ shift' = t /\ sub' = sub
  BY <1>2, <1>3, ChipReceives
<1>5. Content(b)'
  BY <1>1, <1>2, <1>4, ContentStep
<1> QED
  BY <1>3, <1>4, <1>5 DEF Frame

LEMMA FrameStart ==
    ASSUME WriterInv, ReceiverTypeOK, Follows, SLAVE_ADDR \in Byte,
           NEW refuse \in BOOLEAN, WStart(SLAVE_ADDR),
           ChipSees(Line(SDAO), SCLO, Line(SDAO'), SCLO', refuse)
    PROVE  Frame'
<1>1. /\ ST' = 2 /\ BYTE' = 0 /\ CNT' = 0 /\ A' = Load(SLAVE_ADDR)
      /\ SCLO = 1 /\ SCLO' = 1 /\ Line(SDAO) = 1 /\ Line(SDAO') = 0
  BY DEF WStart, Goto, Wires, WriterInv, FrameShape, AtRest, Follows, Line
<1>2. ChipStart
  BY <1>1 DEF ChipSees, ChipIgnore
<1>3. 512 * 0 + A' = Sent(SLAVE_ADDR, 0)
  BY <1>1, SentBounds DEF Load, Byte
<1>4. Content(SLAVE_ADDR)' /\ Sending(SLAVE_ADDR, 0)' /\ shift' = 0
  BY <1>1, <1>2, <1>3 DEF Content, Sending, ChipStart
<1>5. 0 \in Byte
  BY DEF Byte
<1> QED
  BY <1>4, <1>5 DEF Frame

\* At the ninth falling clock a listening chip takes the byte.
LEMMA ChipTakes ==
    ASSUME WriterInv, ReceiverTypeOK, Follows, NEW refuse \in BOOLEAN, listening \/ listening',
           ST = 5, CNT = 9, SCLO' = 0,
           ChipSees(Line(SDAO), SCLO, Line(SDAO'), SCLO', refuse)
    PROVE  listening /\ ChipTake
<1>1. SCLO = 1
  BY DEF WriterInv, FrameShape, InByte
<1>2. listening
  BY ChipStaysDeaf
<1>3. bits = 9
  BY <1>2 DEF Follows
<1> QED
  BY <1>1, <1>2, <1>3 DEF ChipSees, ChipIgnore, ChipAnswer

LEMMA FrameByteDone ==
    ASSUME WriterInv, ReceiverTypeOK, SequencerTypeOK, Talk, Follows, Frame,
           NEW refuse \in BOOLEAN, NEW int \in Bit, SequencerStep(int),
           NEW sdai, WByteDone(mI2C_DATA, sdai),
           ChipSees(Line(SDAO), SCLO, Line(SDAO'), SCLO', refuse)
    PROVE  Frame'
<1>1. /\ ST = 5 /\ CNT = 9 /\ SCLO' = 0 /\ BYTE \in {0, 1, 2} /\ OnWire
      /\ mI2C_DATA \in Word
  BY DEF WByteDone, WriterInv, WriterTypeOK, BYTE_NUM, OnWire, SequencerTypeOK
<1>2. PICK b, s \in Byte : Content(b) /\ Sending(b, s) /\ (listening => shift = s)
  BY <1>1 DEF Frame
<1>3. s = b
  BY <1>1, <1>2 DEF Sending
<1>4. listening' => listening /\ ChipTake
  BY <1>1, ChipTakes
<1>5. listening' => shift' = 0 /\ (bytes = 1 => sub' = shift) /\ bytes = BYTE
  BY <1>1, <1>4 DEF ChipTake, Follows
<1>6. 0 \in Byte /\ HighByte(mI2C_DATA) \in Byte /\ LowByte(mI2C_DATA) \in Byte
  <2>1. mI2C_DATA \in Int /\ 0 <= mI2C_DATA /\ mI2C_DATA <= 65535
    BY <1>1 DEF Word
  <2>2. 0 \in Byte
    BY DEF Byte
  <2> QED
    BY <2>1, <2>2, BytesOfWord
<1>7. ASSUME NEW c \in Byte, ST' = 2, CNT' = 0, A' = Load(c), Content(c)'
      PROVE  Frame'
  <2>1. 512 * 0 + A' = Sent(c, 0)
    BY <1>7, SentBounds DEF Load, Byte
  <2>2. Sending(c, 0)'
    BY <1>7, <2>1 DEF Sending
  <2> QED
    BY <1>5, <1>6, <1>7, <2>2 DEF Frame
<1>8. CASE BYTE = 0
  <2>1. ST' = 2 /\ CNT' = 0 /\ BYTE' = 1 /\ A' = Load(HighByte(mI2C_DATA))
    BY <1>8 DEF WByteDone, Goto, BYTE_NUM
  <2>2. Right(mI2C_DATA, mI2C_DATA)
    BY <1>1, WordIsRight
  <2>3. PICK e \in Word : e = mI2C_DATA
    BY <1>1
  <2>4. Right(e, mI2C_DATA)'
    BY <1>1, <2>2, <2>3, RightLoads
  <2>5. PICK c \in Byte : c = HighByte(e)
    BY <1>6, <2>3
  <2>6. Content(c)'
    BY <2>1, <2>4, <2>5 DEF Content
  <2> QED
    BY <1>7, <2>1, <2>3, <2>5, <2>6
<1>9. CASE BYTE = 1
  <2>1. ST' = 2 /\ CNT' = 0 /\ BYTE' = 2 /\ A' = Load(LowByte(mI2C_DATA))
    BY <1>9 DEF WByteDone, Goto, BYTE_NUM
  <2>2. PICK e \in Word : Right(e, mI2C_DATA) /\ b = HighByte(e)
    BY <1>2, <1>9 DEF Content
  <2>3. PICK f \in Word : f = mI2C_DATA
    BY <1>1
  <2>4. Right(e, f)'
    BY <1>1, <2>2, <2>3, RightStays
  <2>5. PICK c \in Byte : c = LowByte(f)
    BY <1>6, <2>3
  <2>6. listening' => sub' = HighByte(e)
    BY <1>2, <1>3, <1>4, <1>5, <1>9, <2>2
  <2>7. Content(c)'
    BY <2>1, <2>4, <2>5, <2>6 DEF Content
  <2> QED
    BY <1>7, <2>1, <2>3, <2>5, <2>7
<1>10. CASE BYTE = 2
  BY <1>10 DEF WByteDone, Goto, BYTE_NUM, Frame
<1> QED
  BY <1>1, <1>8, <1>9, <1>10

\* The master's other steps leave no frame on the wire.
LEMMA FrameStep ==
    ASSUME WriterInv, ReceiverTypeOK, SequencerTypeOK, Talk, Follows, Frame,
           NEW refuse \in BOOLEAN, NEW int \in Bit, SequencerStep(int),
           WriterStep(mI2C_GO, SLAVE_ADDR, mI2C_DATA, Line(SDAO)),
           ChipSees(Line(SDAO), SCLO, Line(SDAO'), SCLO', refuse)
    PROVE  Frame'
<1>1. CASE InsideByte
  BY <1>1, FrameInside
<1>2. CASE WStart(SLAVE_ADDR)
  BY <1>2, FrameStart, AddressAssumption
<1>3. CASE WByteDone(mI2C_DATA, Line(SDAO))
  BY <1>3, FrameByteDone
<1>4. CASE ST' \notin 2..5
  BY <1>4 DEF Frame
<1> QED
  BY <1>1, <1>2, <1>3, <1>4
     DEF WriterStep, InsideByte, WPowerUp, WWaitGo, WClear, WStop, WFinish, Goto

LEMMA FrameKept ==
    ASSUME Frame, UNCHANGED <<sequencerVars, writerVars, receiverVars>> PROVE Frame'
<1>1. ASSUME NEW b, NEW s, Content(b), Sending(b, s), listening => shift = s
      PROVE  Content(b)' /\ Sending(b, s)' /\ (listening' => shift' = s)
  BY <1>1 DEF sequencerVars, writerVars, receiverVars, Content, Sending, Right, First, Last
<1>2. ST' = ST
  BY DEF writerVars
<1> QED
  BY <1>1, <1>2 DEF Frame
----------------------------------------------------------------------------
(***************************************************************************)
(* What is stored, and when.                                               *)
(***************************************************************************)

\* The chip stores at the end of the third byte, and what it stores is right.
LEMMA StoredIsRight ==
    ASSUME WriterInv, Talk, Follows, Frame,
           WriterStep(mI2C_GO, SLAVE_ADDR, mI2C_DATA, Line(SDAO)),
           Stored(SCLO, SCLO') # {}
    PROVE  /\ ST = 5 /\ CNT = 9 /\ BYTE = 2
           /\ \E e, f \in Word :
                 Right(e, f) /\ Stored(SCLO, SCLO') = {<<HighByte(e), LowByte(f)>>}
<1>1. /\ listening /\ bits = 9 /\ bytes = 2 /\ SCLO = 1 /\ SCLO' = 0
      /\ Stored(SCLO, SCLO') = {<<sub, shift>>}
  BY DEF Stored
<1>2. ST \in {2, 5}
  BY <1>1 DEF WriterStep, WPowerUp, WWaitGo, WClear, WStart, WClockLow, WShift, WClockHigh,
              WNextBit, WByteDone, WStop, WFinish, Wires, WriterInv, FrameShape, InStop
<1>3. CNT = 9 /\ BYTE = 2
  BY <1>1, <1>2 DEF Follows
<1>4. ST = 5
  BY <1>1, <1>2, <1>3 DEF Talk
<1>5. PICK b, s \in Byte : Content(b) /\ Sending(b, s) /\ (listening => shift = s)
  BY <1>4 DEF Frame
<1>6. shift = b
  BY <1>1, <1>3, <1>5 DEF Sending
<1>7. PICK e, f \in Word : Right(e, f) /\ b = LowByte(f) /\ (listening => sub = HighByte(e))
  BY <1>3, <1>5 DEF Content
<1> QED
  BY <1>1, <1>3, <1>4, <1>6, <1>7

\* A third byte that is acknowledged is stored.
LEMMA AcknowledgedIsStored ==
    ASSUME WriterInv, Follows, Frame, ST = 5, CNT = 9, BYTE = 2,
           WByteDone(mI2C_DATA, Line(SDAO)), ACK_OK' = 0
    PROVE  Stored(SCLO, SCLO') # {}
<1>1. PICK b, s \in Byte : Content(b) /\ Sending(b, s) /\ (listening => shift = s)
  BY DEF Frame
<1>2. SDAO = 1 /\ SCLO = 1 /\ SCLO' = 0
  BY <1>1 DEF Sending, WriterInv, FrameShape, InByte, WByteDone
<1>3. pull
  BY <1>2 DEF WByteDone, Line
<1>4. listening /\ bits = 9 /\ bytes = 2
  BY <1>3 DEF Follows
<1> QED
  BY <1>2, <1>4 DEF Stored

Allowed == {Entry(i) : i \in 0..LUT_SIZE - 1} \cup (IF INTERRUPTS THEN {TornEntry} ELSE {})

LEMMA RightIsAllowed ==
    ASSUME SequencerTypeOK, NEW e \in Word, NEW f \in Word, Right(e, f)
    PROVE  <<HighByte(e), LowByte(f)>> \in Allowed
<1>1. 0 \in 0..LUT_SIZE - 1 /\ LUT_SIZE - 1 \in 0..LUT_SIZE - 1
  BY Sizes
<1>2. CASE LUT_INDEX = 0
  BY <1>1, <1>2, Sizes DEF Right, Allowed, Entry, TornEntry, First, Last
<1>3. CASE LUT_INDEX \in 1..LUT_SIZE - 1
  BY <1>3, Sizes DEF Right, Allowed, Entry
<1>4. CASE LUT_INDEX = LUT_SIZE
  BY <1>1, <1>4, Sizes DEF Right, Allowed, Entry, Last
<1> QED
  BY <1>2, <1>3, <1>4 DEF Right

\* The entries passed, and the one about to be, are stored.
Accepted == mSetup_ST = 2 \/ (mSetup_ST = 1 /\ ACK_OK = 0 /\ ST \in {6, 7, 8, 9, 30})

Passed ==
    /\ \A i \in 1..LUT_INDEX - 1 : Entry(i) \in written
    /\ LUT_INDEX \in 1..LUT_SIZE - 1 /\ Accepted => Entry(LUT_INDEX) \in written

\* Where the current entry becomes accepted.
LEMMA AcceptedStep ==
    ASSUME WriterInv, SequencerTypeOK, Talk, NEW int \in Bit, SequencerStep(int),
           WriterStep(mI2C_GO, SLAVE_ADDR, mI2C_DATA, Line(SDAO)),
           LUT_INDEX' \in 1..LUT_SIZE - 1, Accepted'
    PROVE  /\ LUT_INDEX' = LUT_INDEX
           /\ \/ Accepted
              \/ /\ ST = 5 /\ CNT = 9 /\ BYTE = 2
                 /\ WByteDone(mI2C_DATA, Line(SDAO)) /\ ACK_OK' = 0
<1> USE Sizes DEF Talk, Accepted, SequencerTypeOK, WriterInv, WriterTypeOK, OnWire
<1>1. LUT_INDEX' = LUT_INDEX /\ LUT_INDEX # 0
  <2>1. CASE SetupSend        BY <2>1 DEF SetupSend
  <2>2. CASE SetupWait        BY <2>2 DEF SetupWait
  <2>3. CASE SetupAdvance     BY <2>3 DEF SetupAdvance
  <2>4. CASE SetupDone(int)   BY <2>4 DEF SetupDone
  <2> QED                     BY <2>1, <2>2, <2>3, <2>4 DEF SequencerStep
<1>2. LUT_INDEX < LUT_SIZE /\ LUT_INDEX \in 1..LUT_SIZE - 1
  BY <1>1
<1>3. ST # 0 /\ mSetup_ST \in {0, 1}
  BY <1>1, <1>2 DEF SequencerStep, SetupSend, SetupWait, SetupAdvance, SetupDone
<1>4. CASE mSetup_ST = 0
  <2>1. mSetup_ST' = 1 /\ mI2C_GO = 0 /\ ST \notin {5, 6, 7, 8, 9}
    BY <1>1, <1>2, <1>4 DEF SequencerStep, SetupSend, SetupWait, SetupAdvance, SetupDone, Bit
  <2>2. ST' \notin {6, 7, 8, 9, 30}
    BY <1>3, <2>1 DEF WriterStep, WPowerUp, WWaitGo, WClear, WStart, WClockLow, WShift, WClockHigh,
              WNextBit, WByteDone, WStop, WFinish, Goto
  <2> QED
    BY <2>1, <2>2
<1>5. CASE mSetup_ST = 1
  <2>1. CASE mSetup_ST' = 2
    <3>1. END_OK = 1 /\ ACK_OK = 0
      BY <1>5, <2>1 DEF SequencerStep, SetupSend, SetupWait, SetupAdvance, SetupDone
    <3> QED
      BY <1>1, <1>3, <1>5, <3>1
  <2>2. CASE mSetup_ST' = 1
    <3>1. ACK_OK' = 0 /\ ST' \in {6, 7, 8, 9, 30}
      BY <2>2
    <3>2. \/ ST \in {6, 7, 8, 9, 30} /\ ACK_OK = 0
          \/ ST = 5 /\ CNT = 9 /\ BYTE = 2 /\ WByteDone(mI2C_DATA, Line(SDAO))
      BY <1>3, <3>1 DEF WriterStep, WPowerUp, WWaitGo, WClear, WStart, WClockLow, WShift,
              WClockHigh, WNextBit, WByteDone, WStop, WFinish, Goto, BYTE_NUM
    <3> QED
      BY <1>1, <1>5, <3>1, <3>2
  <2> QED
    BY <2>1, <2>2
<1> QED
  BY <1>3, <1>4, <1>5

LEMMA PassedStep ==
    ASSUME WriterInv, SequencerTypeOK, Talk, Follows, Frame, Passed,
           NEW int \in Bit, NEW refuse \in BOOLEAN, ControlEdge(int, refuse)
    PROVE  Passed'
<1>0. /\ SequencerStep(int)
      /\ WriterStep(mI2C_GO, SLAVE_ADDR, mI2C_DATA, Line(SDAO))
      /\ written' = (IF Restarts(int) THEN {} ELSE written) \cup Stored(SCLO, SCLO')
  BY DEF ControlEdge
<1>1. \A i : Entry(i)' = Entry(i)
  BY DEF Entry
<1>2. CASE LUT_INDEX' = 0
  BY <1>2, Sizes DEF Passed
<1>3. CASE LUT_INDEX' # 0
  <2>1. LUT_INDEX' \in {LUT_INDEX, LUT_INDEX + 1} /\ ~Restarts(int)
    BY <1>0, <1>3 DEF Restarts, SequencerStep, SetupSend, SetupWait, SetupAdvance, SetupDone,
                      SequencerTypeOK
  <2>2. written' = written \cup Stored(SCLO, SCLO')
    BY <1>0, <2>1
  <2>3. LUT_INDEX' = LUT_INDEX \/ (LUT_INDEX' = LUT_INDEX + 1 /\ mSetup_ST = 2 /\ LUT_INDEX < LUT_SIZE)
    BY <1>0, <1>3 DEF SequencerStep, SetupSend, SetupWait, SetupAdvance, SetupDone
  <2>4. ASSUME NEW i \in 1..LUT_INDEX' - 1 PROVE Entry(i) \in written
    <3>1. LUT_INDEX \in Int
      BY Sizes DEF SequencerTypeOK
    <3>2. CASE i \in 1..LUT_INDEX - 1
      BY <3>2 DEF Passed
    <3>3. CASE i = LUT_INDEX /\ mSetup_ST = 2 /\ LUT_INDEX < LUT_SIZE
      BY <2>4, <3>1, <3>3, Sizes DEF Passed, Accepted
    <3> QED
      BY <2>3, <2>4, <3>1, <3>2, <3>3
  <2>5. ASSUME LUT_INDEX' \in 1..LUT_SIZE - 1, Accepted' PROVE Entry(LUT_INDEX) \in written'
    <3>1. LUT_INDEX' = LUT_INDEX
      BY <1>0, <2>5, AcceptedStep
    <3>2. CASE Accepted
      BY <2>2, <2>5, <3>1, <3>2 DEF Passed
    <3>3. CASE ST = 5 /\ CNT = 9 /\ BYTE = 2 /\ WByteDone(mI2C_DATA, Line(SDAO)) /\ ACK_OK' = 0
      <4>1. Stored(SCLO, SCLO') # {}
        BY <3>3, AcknowledgedIsStored
      <4>2. PICK e, f \in Word :
                 Right(e, f) /\ Stored(SCLO, SCLO') = {<<HighByte(e), LowByte(f)>>}
        BY <1>0, <4>1, StoredIsRight
      <4>3. e = LUT_DATA[LUT_INDEX] /\ f = LUT_DATA[LUT_INDEX]
        BY <2>5, <3>1, <4>2, Sizes DEF Right
      <4> QED
        BY <2>2, <4>2, <4>3 DEF Entry
    <3> QED
      BY <1>0, <2>5, <3>2, <3>3, AcceptedStep
  <2>6. LUT_INDEX' \in 1..LUT_SIZE - 1 /\ Accepted' => Entry(LUT_INDEX') \in written'
    <3> SUFFICES ASSUME LUT_INDEX' \in 1..LUT_SIZE - 1, Accepted'
                 PROVE  Entry(LUT_INDEX') \in written'
      OBVIOUS
    <3>1. LUT_INDEX' = LUT_INDEX
      BY <1>0, AcceptedStep
    <3> QED
      BY <2>5, <3>1
  <2> QED
    BY <1>1, <2>2, <2>4, <2>6 DEF Passed, Entry
<1> QED
  BY <1>2, <1>3

----------------------------------------------------------------------------
\* Until a reset hides a START from the chip, it follows, and stores what it should.
Good == Follows /\ Frame /\ Passed /\ written \subseteq Allowed

DataInv == IInv /\ Talk /\ (disturbed \/ Good)

LEMMA InitDataInv == Init => DataInv
<1> SUFFICES ASSUME Init PROVE DataInv
  OBVIOUS
<1>1. Follows /\ Frame
  BY DEF Init, ChipInit, WriterInit, Follows, Frame
<1>2. Passed /\ written \subseteq Allowed
  BY Sizes DEF Init, ChipInit, Passed
<1> QED
  BY <1>1, <1>2, InitIInv, TalkInit DEF DataInv, Good

LEMMA ControlEdgeGood ==
    ASSUME WriterInv, ReceiverTypeOK, SequencerTypeOK, Talk, Good,
           NEW int \in Bit, NEW refuse \in BOOLEAN, ControlEdge(int, refuse)
    PROVE  Good'
<1>1. /\ SequencerStep(int)
      /\ WriterStep(mI2C_GO, SLAVE_ADDR, mI2C_DATA, Line(SDAO))
      /\ ChipSees(Line(SDAO), SCLO, Line(SDAO'), SCLO', refuse)
      /\ written' \subseteq written \cup Stored(SCLO, SCLO')
  BY DEF ControlEdge
<1>2. Follows'
  BY <1>1, FollowsStep DEF Good
<1>3. Frame'
  BY <1>1, FrameStep DEF Good
<1>4. Passed'
  BY PassedStep DEF Good
<1>5. written' \subseteq Allowed
  <2>1. CASE Stored(SCLO, SCLO') = {}
    BY <1>1, <2>1 DEF Good
  <2>2. CASE Stored(SCLO, SCLO') # {}
    <3>1. PICK e, f \in Word :
               Right(e, f) /\ Stored(SCLO, SCLO') = {<<HighByte(e), LowByte(f)>>}
      BY <1>1, <2>2, StoredIsRight DEF Good
    <3> QED
      BY <1>1, <3>1, RightIsAllowed DEF Good
  <2> QED
    BY <2>1, <2>2
<1>6. Allowed' = Allowed
  BY DEF Allowed, Entry, TornEntry
<1> QED
  BY <1>2, <1>3, <1>4, <1>5, <1>6 DEF Good

LEMMA GoodKept ==
    ASSUME Good, UNCHANGED <<sequencerVars, writerVars, chipVars>> PROVE Good'
<1>1. Frame'
  BY FrameKept DEF Good, chipVars
<1>2. Follows' /\ Passed' /\ written' \subseteq Allowed'
  BY DEF Good, Follows, Passed, Accepted, Allowed, Entry, TornEntry,
         sequencerVars, writerVars, chipVars, receiverVars
<1> QED
  BY <1>1, <1>2 DEF Good

LEMMA ResetGood ==
    ASSUME ReceiverTypeOK, Good, Reset, ~disturbed' PROVE Good'
<1>1. Follows'
  BY FollowsReset DEF Good, ReceiverTypeOK
<1>2. ST' = 0 /\ LUT_INDEX' = 0 /\ written' = written
  BY DEF Reset, WriterReset, chipVars
<1>3. Frame' /\ Passed'
  BY <1>2, Sizes DEF Frame, Passed
<1>4. written' \subseteq Allowed'
  BY <1>2 DEF Good, Allowed, Entry, TornEntry
<1> QED
  BY <1>1, <1>3, <1>4 DEF Good

LEMMA StepDataInv == DataInv /\ [Next]_vars => DataInv'
<1> SUFFICES ASSUME DataInv, [Next]_vars PROVE DataInv'
  OBVIOUS
<1>1. IInv'
  BY StepIInv DEF DataInv
<1>2. WriterInv /\ ReceiverTypeOK /\ SequencerTypeOK /\ Talk
  BY DEF DataInv, IInv, TypeOK, WriterInv, ChipTypeOK
<1>3. CASE UNCHANGED <<sequencerVars, writerVars, chipVars, budgetVars>>
  <2>1. Talk'
    BY <1>2, <1>3, TalkKept
  <2>2. disturbed' = disturbed
    BY <1>3 DEF budgetVars
  <2> QED
    BY <1>1, <1>3, <2>1, <2>2, GoodKept DEF DataInv
<1>4. ASSUME NEW int \in Bit, NEW refuse \in BOOLEAN, ControlEdge(int, refuse)
      PROVE  DataInv'
  <2>1. /\ int = 0 => INTERRUPTS
        /\ SequencerStep(int)
        /\ WriterStep(mI2C_GO, SLAVE_ADDR, mI2C_DATA, Line(SDAO))
        /\ disturbed' = disturbed
    BY <1>4 DEF ControlEdge
  <2>2. Talk'
    BY <1>2, <2>1, WriterMoves, TalkStep
  <2> QED
    BY <1>1, <1>2, <1>4, <2>1, <2>2, ControlEdgeGood DEF DataInv
<1>5. CASE Reset
  <2>1. Talk'
    BY <1>2, <1>5, TalkReset
  <2>2. disturbed => disturbed'
    BY <1>5 DEF Reset
  <2> QED
    BY <1>1, <1>2, <1>5, <2>1, <2>2, ResetGood DEF DataInv
<1> QED
  BY <1>3, <1>4, <1>5 DEF Next, Clock, DividerCount, DividerFall, vars

\* What the chip follows, what is on the wires and what is stored fit together.
THEOREM HdmiConfigData == Spec => []DataInv
<1>1. Init => DataInv
  BY InitDataInv
<1>2. DataInv /\ [Next]_vars => DataInv'
  BY StepDataInv
<1> QED
  BY <1>1, <1>2, PTL DEF Spec

\* The chip is only ever given entries of the table, whichever bytes it refuses
\* and whenever the board is reset, but for the torn entry after an interrupt.
THEOREM HdmiConfigWritesAreEntries == Spec => []WritesAreEntries
<1>1. DataInv => WritesAreEntries
  BY DEF DataInv, Good, Allowed, WritesAreEntries
<1> QED
  BY <1>1, HdmiConfigData, PTL

\* The index never passes an entry, entry 0 apart, that the chip did not store.
THEOREM HdmiConfigPassedEntriesAreStored == Spec => []PassedEntriesAreStored
<1>1. DataInv => PassedEntriesAreStored
  BY DEF DataInv, Good, Passed, PassedEntriesAreStored
<1> QED
  BY <1>1, HdmiConfigData, PTL

----------------------------------------------------------------------------
(***************************************************************************)
(* Without resets, the wires implement the delivery of the table.          *)
(***************************************************************************)
Undisturbed == DataInv /\ ~disturbed

LEMMA StepUndisturbed ==
    ASSUME MaxResets = 0 PROVE Undisturbed /\ [Next]_vars => Undisturbed' /\ ~Reset
<1> SUFFICES ASSUME Undisturbed, [Next]_vars PROVE Undisturbed' /\ ~Reset
  OBVIOUS
<1>1. DataInv'
  BY StepDataInv DEF Undisturbed
<1>2. ~Reset
  BY DEF Undisturbed, DataInv, IInv, TypeOK, BudgetTypeOK, Reset
<1>3. disturbed' = disturbed
  BY <1>2 DEF Next, Clock, DividerCount, DividerFall, ControlEdge, vars, budgetVars
<1> QED
  BY <1>1, <1>2, <1>3 DEF Undisturbed

\* A store is of an entry that may be delivered now.
LEMMA RightIsDeliverable ==
    ASSUME SequencerTypeOK, NEW e \in Word, NEW f \in Word, Right(e, f)
    PROVE  <<HighByte(e), LowByte(f)>> \in Delivery!Deliverable
<1>1. CASE LUT_INDEX = 0
  BY <1>1, Sizes DEF Right, Delivery!Deliverable, Entry, TornEntry, First, Last
<1>2. CASE LUT_INDEX \in 1..LUT_SIZE - 1
  BY <1>2, Sizes DEF Right, Delivery!Deliverable, Entry
<1>3. CASE LUT_INDEX = LUT_SIZE
  BY <1>3, Sizes DEF Right, Delivery!Deliverable, Entry, Last
<1> QED
  BY <1>1, <1>2, <1>3 DEF Right

LEMMA ControlEdgeDelivers ==
    ASSUME Undisturbed, NEW int \in Bit, NEW refuse \in BOOLEAN, ControlEdge(int, refuse)
    PROVE  Delivery!Next \/ UNCHANGED <<LUT_INDEX, written>>
<1>1. /\ SequencerStep(int)
      /\ WriterStep(mI2C_GO, SLAVE_ADDR, mI2C_DATA, Line(SDAO))
      /\ written' = (IF Restarts(int) THEN {} ELSE written) \cup Stored(SCLO, SCLO')
  BY DEF ControlEdge
<1>2. /\ WriterInv /\ SequencerTypeOK /\ Talk /\ Follows /\ Frame /\ Passed
  BY DEF Undisturbed, DataInv, IInv, TypeOK, WriterInv, Good
<1>3. LUT_INDEX \in 0..LUT_SIZE
  BY <1>2 DEF SequencerTypeOK
<1>4. CASE Stored(SCLO, SCLO') # {}
  <2>1. ST = 5
    BY <1>1, <1>2, <1>4, StoredIsRight
  <2>2. PICK e, f \in Word :
             Right(e, f) /\ Stored(SCLO, SCLO') = {<<HighByte(e), LowByte(f)>>}
    BY <1>1, <1>2, <1>4, StoredIsRight
  <2>3. CASE LUT_INDEX' = LUT_INDEX /\ ~Restarts(int)
    BY <1>1, <1>2, <2>2, <2>3, RightIsDeliverable DEF Delivery!Next, Delivery!Store
  <2>4. CASE LUT_INDEX = LUT_SIZE /\ LUT_INDEX' = 0
    <3>1. <<HighByte(e), LowByte(f)>> = Entry(LUT_SIZE - 1)
      BY <2>2, <2>4, Sizes DEF Right, Entry, Last
    <3>2. Restarts(int)
      BY <1>1, <2>4, Sizes DEF Restarts, SequencerStep, SetupSend, SetupWait, SetupAdvance, SetupDone
    <3>3. written' = {Entry(LUT_SIZE - 1)}
      BY <1>1, <2>2, <3>1, <3>2
    <3> QED
      BY <2>4, <3>3 DEF Delivery!Next, Delivery!Restart
  <2> QED
    BY <1>1, <1>2, <1>3, <2>1, <2>3, <2>4, Sizes
       DEF Restarts, SequencerStep, SetupSend, SetupWait, SetupAdvance, SetupDone, Talk
<1>5. CASE Stored(SCLO, SCLO') = {}
  <2>1. written' = IF Restarts(int) THEN {} ELSE written
    BY <1>1, <1>5
  <2>2. CASE SetupSend \/ SetupWait
    BY <1>3, <2>1, <2>2 DEF SetupSend, SetupWait, Restarts
  <2>3. CASE SetupAdvance
    <3>1. LUT_INDEX < LUT_SIZE /\ LUT_INDEX' = LUT_INDEX + 1 /\ written' = written
      BY <1>3, <2>1, <2>3 DEF SetupAdvance, Restarts
    <3>2. LUT_INDEX = 0 \/ Entry(LUT_INDEX) \in written
      BY <1>2, <1>3, <2>3, <3>1, Sizes DEF SetupAdvance, Passed, Accepted
    <3> QED
      BY <3>1, <3>2 DEF Delivery!Next, Delivery!Advance
  <2>4. CASE SetupDone(int)
    <3>1. LUT_INDEX = LUT_SIZE
      BY <1>3, <2>4, Sizes DEF SetupDone
    <3>2. CASE int = 0
      BY <2>1, <2>4, <3>1, <3>2 DEF SetupDone, Restarts, Delivery!Next, Delivery!Restart
    <3>3. CASE int # 0
      BY <2>1, <2>4, <3>1, <3>3 DEF SetupDone, Restarts
    <3> QED
      BY <3>2, <3>3
  <2> QED
    BY <1>1, <2>2, <2>3, <2>4 DEF SequencerStep
<1> QED
  BY <1>4, <1>5

\* On a board that is not reset, everything the two wires make the chip store
\* is the delivery of the table in order, entry by entry, restarted by an interrupt.
THEOREM HdmiConfigDelivery == ASSUME MaxResets = 0 PROVE Spec => DeliverySpec
<1>1. Init => Undisturbed /\ Delivery!Init
  <2> SUFFICES ASSUME Init PROVE Undisturbed /\ Delivery!Init
    OBVIOUS
  <2> QED
    BY InitDataInv DEF Init, ChipInit, Undisturbed, Delivery!Init
<1>2. Undisturbed /\ [Next]_vars => Undisturbed'
  BY StepUndisturbed
<1>3. Undisturbed /\ [Next]_vars => [Delivery!Next]_<<LUT_INDEX, written>>
  <2> SUFFICES ASSUME Undisturbed, [Next]_vars
               PROVE  Delivery!Next \/ UNCHANGED <<LUT_INDEX, written>>
    OBVIOUS
  <2>1. ~Reset
    BY StepUndisturbed
  <2>2. CASE UNCHANGED <<sequencerVars, chipVars>>
    BY <2>2 DEF sequencerVars, chipVars
  <2>3. ASSUME NEW int \in Bit, NEW refuse \in BOOLEAN, ControlEdge(int, refuse)
        PROVE  Delivery!Next \/ UNCHANGED <<LUT_INDEX, written>>
    BY <2>3, ControlEdgeDelivers
  <2> QED
    BY <2>1, <2>2, <2>3 DEF Next, Clock, DividerCount, DividerFall, vars
<1> QED
  BY <1>1, <1>2, <1>3, PTL DEF Spec, DeliverySpec, Delivery!Spec
=============================================================================
