------------------------------ MODULE I2cCore ------------------------------
(***************************************************************************)
(* The I2C core of the Nios V system as its driver sees it, with one step  *)
(* for each byte on the wires (tp_nios_v/sopc/nios/synthesis/submodules/   *)
(* altera_avalon_i2c*.v): two FIFOs, the flags, and the master's state     *)
(* machine.  The device on the bus, an accelerometer with numbered         *)
(* registers and a register pointer, is an external part: it answers or    *)
(* refuses any byte, and stretches the clock by letting no step happen.    *)
(***************************************************************************)
EXTENDS Naturals, SequencesExt

CONSTANTS
    FIFO_DEPTH,     \* of both FIFOs, 4 on the board
    REGISTERS,      \* of the device
    MayLose         \* bound: can the bus be lost to another master?
ASSUME CoreAssumption ==
    /\ FIFO_DEPTH \in Nat \ {0} /\ REGISTERS \in Nat \ {0}
    /\ MayLose \in BOOLEAN

VARIABLES
    ctrl_en, cmd_thd, rx_thd, iser,     \* registers CTRL and ISER
    nack_det, arblost_det, rx_over,     \* register ISR
    fsm, cmds, cur, rw_cmd, rx,         \* state machine and FIFOs
    ptr, first,     \* device: register pointer; is it what the next byte sets?
    taken           \* history: bytes the device took since the last START or enable

ctrlVars == <<ctrl_en, cmd_thd, rx_thd, iser>>
flagVars == <<nack_det, arblost_det, rx_over>>
fifoVars == <<fsm, cmds, cur, rw_cmd, rx>>
deviceVars == <<ptr, first, taken>>
coreVars == <<ctrlVars, flagVars, fifoVars, deviceVars>>

Register == 0..(REGISTERS - 1)
\* The device's address with the direction bit: two bytes that number no register.
ALT_AVALON_I2C_WRITE == REGISTERS
ALT_AVALON_I2C_READ == REGISTERS + 1
Address == {ALT_AVALON_I2C_WRITE, ALT_AVALON_I2C_READ}
Command == [val : Address \cup Register, sta : BOOLEAN, sto : BOOLEAN]
\* A byte read is known by the register it came from; fresh: since the last START.
Byte == [reg : Register, fresh : BOOLEAN]
Stale(bytes) == [i \in DOMAIN bytes |-> [bytes[i] EXCEPT !.fresh = FALSE]]

Flush == nack_det \/ arblost_det
TxReady == ctrl_en /\ Len(cmds) <= (IF cmd_thd = "NOT_FULL" THEN FIFO_DEPTH - 1 ELSE 0)
RxReady == Len(rx) >= (IF rx_thd = "1_ENTRY" THEN 1 ELSE FIFO_DEPTH)
CoreBusy == fsm \notin {"IDLE", "PRE_IDLE"}
intr == ("TX_READY" \in iser /\ TxReady) \/ ("RX_READY" \in iser /\ RxReady)

CoreInit ==
    /\ ctrl_en = FALSE /\ cmd_thd = "EMPTY" /\ rx_thd = "1_ENTRY" /\ iser = {}
    /\ nack_det = FALSE /\ arblost_det = FALSE /\ rx_over = FALSE
    /\ fsm = "IDLE" /\ cmds = <<>> /\ rx = <<>> /\ rw_cmd = ALT_AVALON_I2C_WRITE
    /\ cur = [val |-> ALT_AVALON_I2C_WRITE, sta |-> FALSE, sto |-> FALSE]
    /\ ptr = 0 /\ first = TRUE /\ taken = <<>>
----------------------------------------------------------------------------
(* What a write to a register does; each is part of a driver step.         *)

Enable == ctrl_en' = TRUE /\ fsm' = IF fsm = "IDLE" THEN "PRE_START" ELSE fsm
Disable == ctrl_en' = FALSE /\ fsm' = IF fsm = "PRE_IDLE" THEN "IDLE" ELSE fsm
ClearFlags == nack_det' = FALSE /\ arblost_det' = FALSE /\ rx_over' = FALSE

\* While a refusal or a lost bus is flagged both FIFOs are held empty.
WriteCommand(c) ==
    /\ cmds' = IF Flush THEN cmds ELSE Append(cmds, c)
    /\ fsm' = IF fsm = "PRE_IDLE" /\ ~Flush THEN "PRE_START" ELSE fsm
----------------------------------------------------------------------------
(* The master's state machine.                                             *)

Pop(dir) ==
    /\ cur' = Head(cmds) /\ cmds' = Tail(cmds)
    /\ fsm' = IF Head(cmds).sta THEN "ADDR" 
              ELSE IF dir = ALT_AVALON_I2C_WRITE THEN "TX" ELSE "RX"

Proceed(dir) == IF cmds = <<>> THEN fsm' = "HOLD" /\ UNCHANGED <<cmds, cur>> ELSE Pop(dir)
AfterByte ==
    IF cur.sto THEN fsm' = "STOP" /\ UNCHANGED <<cmds, cur>> ELSE Proceed(rw_cmd)

\* The first command is taken for an address whatever it is.
Start ==
    /\ fsm = "PRE_START" /\ ~Flush /\ cmds # <<>>
    /\ cur' = Head(cmds) /\ cmds' = Tail(cmds) /\ fsm' = "ADDR"
    /\ rx' = Stale(rx) /\ taken' = <<>>
    /\ UNCHANGED <<ctrlVars, flagVars, rw_cmd, ptr, first>>

AddressTaken ==
    /\ fsm = "ADDR" /\ cur.val \in Address
    /\ rw_cmd' = cur.val /\ first' = TRUE
    /\ Proceed(cur.val)
    /\ UNCHANGED <<ctrlVars, flagVars, rx, ptr, taken>>

Refuse ==
    /\ fsm \in {"ADDR", "TX"}
    /\ nack_det' = TRUE /\ fsm' = "STOP"
    /\ cmds' = <<>> /\ rx' = <<>>
    /\ UNCHANGED <<ctrlVars, arblost_det, rx_over, cur, rw_cmd, deviceVars>>

LoseBus ==
    /\ MayLose /\ fsm \in {"ADDR", "TX", "RX"}
    /\ arblost_det' = TRUE /\ fsm' = IF ctrl_en THEN "PRE_IDLE" ELSE "IDLE"
    /\ cmds' = <<>> /\ rx' = <<>>
    /\ UNCHANGED <<ctrlVars, nack_det, rx_over, cur, rw_cmd, deviceVars>>

\* The first byte sets the pointer, the next ones go to the registers in turn.
\* (An address sent where the core expects a byte sets it to some register.)
ByteSent ==
    /\ fsm = "TX"
    /\ ptr' = IF ~first THEN (ptr + 1) % REGISTERS ELSE IF cur.val \in Register THEN cur.val ELSE 0
    /\ first' = FALSE /\ taken' = Append(taken, cur.val)
    /\ AfterByte
    /\ UNCHANGED <<ctrlVars, flagVars, rw_cmd, rx>>

\* A faulty variant of ByteReceived: a byte is stored in a full FIFO.
ByteReceived_NoFull ==
    /\ fsm = "RX"
    /\ rx' = IF Flush THEN rx ELSE Append(rx, [reg |-> ptr, fresh |-> TRUE])
    /\ ptr' = (ptr + 1) % REGISTERS
    /\ AfterByte
    /\ UNCHANGED <<ctrlVars, rw_cmd, flagVars, first, taken>>

ByteReceived ==
    /\ fsm = "RX"
    /\ LET full == Len(rx) = FIFO_DEPTH
       IN /\ rx' = IF full \/ Flush THEN rx ELSE Append(rx, [reg |-> ptr, fresh |-> TRUE])
          /\ rx_over' = (rx_over \/ full)
    /\ ptr' = (ptr + 1) % REGISTERS
    /\ AfterByte
    /\ UNCHANGED <<ctrlVars, rw_cmd, nack_det, arblost_det, first, taken>>

Resume ==
    /\ fsm = "HOLD" /\ cmds # <<>>
    /\ Pop(rw_cmd)
    /\ UNCHANGED <<ctrlVars, flagVars, rw_cmd, rx, deviceVars>>

Stopped ==
    /\ fsm = "STOP"
    /\ fsm' = IF cmds # <<>> THEN "PRE_START" ELSE IF ctrl_en THEN "PRE_IDLE" ELSE "IDLE"
    /\ UNCHANGED <<ctrlVars, flagVars, cmds, cur, rw_cmd, rx, deviceVars>>

CoreStep ==
    \/ Start \/ AddressTaken \/ Refuse \/ LoseBus
    \/ ByteSent \/ ByteReceived \/ Resume \/ Stopped

\* Nothing will move before the driver acts.
CoreStuck ==
    \/ ~CoreBusy
    \/ fsm = "PRE_START" /\ (Flush \/ cmds = <<>>)
    \/ fsm = "HOLD" /\ cmds = <<>>

CoreTypeOK ==
    /\ ctrl_en \in BOOLEAN /\ cmd_thd \in {"NOT_FULL", "EMPTY"} /\ rx_thd \in {"FULL", "1_ENTRY"}
    /\ iser \subseteq {"TX_READY", "RX_READY"}
    /\ nack_det \in BOOLEAN /\ arblost_det \in BOOLEAN /\ rx_over \in BOOLEAN
    /\ fsm \in {"IDLE", "PRE_START", "ADDR", "TX", "RX", "HOLD", "STOP", "PRE_IDLE"}
    /\ cmds \in Seq(Command) /\ Len(cmds) <= FIFO_DEPTH
    /\ rx \in Seq(Byte) /\ Len(rx) <= FIFO_DEPTH
    /\ cur \in Command /\ rw_cmd \in Address
    /\ ptr \in Register /\ first \in BOOLEAN /\ taken \in Seq(Address \cup Register)
=============================================================================
