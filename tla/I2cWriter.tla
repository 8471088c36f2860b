----------------------------- MODULE I2cWriter -----------------------------
(***************************************************************************)
(* The bit-level I2C master of the HDMI configuration path                 *)
(* (hdmi/telecran/i2c/I2C_WRITE_WDATA.v).  It is one clocked process; each *)
(* value of its register ST is one action here.  All right-hand sides read *)
(* the values before the edge, as the non-blocking assignments do.         *)
(*                                                                         *)
(* The inputs GO, REG_DATA, SLAVE_ADDRESS and SDAI are parameters: the     *)
(* module is composed in HdmiConfig, which wires them up.                  *)
(***************************************************************************)
EXTENDS BusTypes

VARIABLES
    ST,       \* state register: 0..9, 30, 31
    SDAO,     \* data output; 0 pulls the line low, 1 releases it
    SCLO,     \* clock output
    END_OK,   \* frame finished
    ACK_OK,   \* 1 as soon as one byte of the frame was refused
    CNT,      \* clock pulses of the current byte
    BYTE,     \* which byte of the frame is on the wire
    A         \* nine-bit shift register: the byte and a released 9th bit

writerVars == <<ST, SDAO, SCLO, END_OK, ACK_OK, CNT, BYTE, A>>

\* I2C_Controller.v asks for frames of address, sub-address and data.
BYTE_NUM == 2

HighByte(word) == word \div 256
LowByte(word)  == word % 256

\* {byte, 1'b1}: the byte and the released bit on which the slave answers.
Load(byte) == 2 * byte + 1

WriterTypeOK ==
    /\ ST \in 0..9 \cup {30, 31}
    /\ SDAO \in Bit /\ SCLO \in Bit
    /\ END_OK \in Bit /\ ACK_OK \in Bit
    /\ CNT \in 0..9
    /\ BYTE \in 0..BYTE_NUM
    /\ A \in 0..511

\* Only ST is reset.  The outputs are whatever they were: at power-up anything.
WriterInit ==
    /\ ST = 0
    /\ SDAO \in Bit /\ SCLO \in Bit
    /\ END_OK \in Bit /\ ACK_OK \in Bit
    /\ CNT = 0 /\ BYTE = 0 /\ A = 0

WriterReset ==
    /\ ST' = 0
    /\ UNCHANGED <<SDAO, SCLO, END_OK, ACK_OK, CNT, BYTE, A>>
----------------------------------------------------------------------------
Goto(s) == ST' = s

Wires(sda, scl) == SDAO' = sda /\ SCLO' = scl

(* Faulty variants, each with one slip a coder could make; the runs must    *)
(* tell every one of them from the real action of the same name.           *)

WClear_KeepsEnd ==
    /\ ST = 31
    /\ Goto(1)
    /\ ACK_OK' = 0
    /\ UNCHANGED <<SDAO, SCLO, END_OK, CNT, BYTE, A>>

\* Compares BYTE with one less: the frame ends before the value is sent.
WByteDone_StopsEarly(REG_DATA, SDAI) ==
    /\ ST = 5 /\ CNT = 9
    /\ SCLO' = 0
    /\ ACK_OK' = IF SDAI = 1 THEN 1 ELSE ACK_OK
    /\ \/ /\ BYTE = BYTE_NUM - 1
          /\ Goto(6)
          /\ UNCHANGED <<CNT, BYTE, A>>
       \/ /\ BYTE # BYTE_NUM - 1
          /\ Goto(2)
          /\ CNT' = 0
          /\ BYTE' = BYTE + 1
          /\ A' = Load(IF BYTE = 0 THEN HighByte(REG_DATA) ELSE LowByte(REG_DATA))
    /\ UNCHANGED <<SDAO, END_OK>>

----------------------------------------------------------------------------
\* ST 0: everything to its rest value; END_OK is 1 although nothing was sent.
WPowerUp(GO) ==
    /\ ST = 0
    /\ Goto(IF GO = 1 THEN 30 ELSE 0)
    /\ Wires(1, 1)
    /\ END_OK' = 1 /\ ACK_OK' = 0 /\ CNT' = 0 /\ BYTE' = 0
    /\ UNCHANGED A

\* ST 30: a frame starts when GO is LOW; the sequencer pulses it down.
WWaitGo(GO) ==
    /\ ST = 30
    /\ Goto(IF GO = 0 THEN 31 ELSE 30)
    /\ UNCHANGED <<SDAO, SCLO, END_OK, ACK_OK, CNT, BYTE, A>>

WClear ==
    /\ ST = 31
    /\ Goto(1)
    /\ END_OK' = 0 /\ ACK_OK' = 0
    /\ UNCHANGED <<SDAO, SCLO, CNT, BYTE, A>>

WStart(SLAVE_ADDRESS) ==
    /\ ST = 1
    /\ Goto(2)
    /\ Wires(0, 1)
    /\ A' = Load(SLAVE_ADDRESS)
    /\ UNCHANGED <<END_OK, ACK_OK, CNT, BYTE>>

WClockLow ==
    /\ ST = 2
    /\ Goto(3)
    /\ Wires(0, 0)
    /\ UNCHANGED <<END_OK, ACK_OK, CNT, BYTE, A>>

\* {SDAO, A} <= {A, 1'b0}
WShift ==
    /\ ST = 3
    /\ Goto(4)
    /\ SDAO' = A \div 256
    /\ A' = (2 * A) % 512
    /\ UNCHANGED <<SCLO, END_OK, ACK_OK, CNT, BYTE>>

WClockHigh ==
    /\ ST = 4
    /\ Goto(5)
    /\ SCLO' = 1
    /\ CNT' = CNT + 1
    /\ UNCHANGED <<SDAO, END_OK, ACK_OK, BYTE, A>>

\* ST 5, inside a byte.
WNextBit ==
    /\ ST = 5 /\ CNT # 9
    /\ Goto(2)
    /\ SCLO' = 0
    /\ UNCHANGED <<SDAO, END_OK, ACK_OK, CNT, BYTE, A>>

\* ST 5, ninth pulse: sample the answer, then load the next byte from the
\* LIVE register word, or stop.
WByteDone(REG_DATA, SDAI) ==
    /\ ST = 5 /\ CNT = 9
    /\ SCLO' = 0
    /\ ACK_OK' = IF SDAI = 1 THEN 1 ELSE ACK_OK
    /\ \/ /\ BYTE = BYTE_NUM
          /\ Goto(6)
          /\ UNCHANGED <<CNT, BYTE, A>>
       \/ /\ BYTE # BYTE_NUM
          /\ Goto(2)
          /\ CNT' = 0
          /\ BYTE' = BYTE + 1
          /\ A' = Load(IF BYTE = 0 THEN HighByte(REG_DATA) ELSE LowByte(REG_DATA))
    /\ UNCHANGED <<SDAO, END_OK>>

WStop ==
    /\ ST \in {6, 7, 8}
    /\ Goto(ST + 1)
    /\ \/ ST = 6 /\ Wires(0, 0)
       \/ ST = 7 /\ Wires(0, 1)
       \/ ST = 8 /\ Wires(1, 1)
    /\ UNCHANGED <<END_OK, ACK_OK, CNT, BYTE, A>>

WFinish ==
    /\ ST = 9
    /\ Goto(30)
    /\ Wires(1, 1)
    /\ END_OK' = 1 /\ CNT' = 0 /\ BYTE' = 0
    /\ UNCHANGED <<ACK_OK, A>>

\* One positive edge of PT_CK.
WriterStep(GO, SLAVE_ADDRESS, REG_DATA, SDAI) ==
    \/ WPowerUp(GO)
    \/ WWaitGo(GO)
    \/ WClear
    \/ WStart(SLAVE_ADDRESS)
    \/ WClockLow
    \/ WShift
    \/ WClockHigh
    \/ WNextBit
    \/ WByteDone(REG_DATA, SDAI)
    \/ WStop
    \/ WFinish
=============================================================================
