--------------------------- MODULE JtagUartCore ---------------------------
(***************************************************************************)
(* The JTAG UART core as software sees it                                  *)
(* (tp_nios_v/sopc/nios/synthesis/submodules/altera_avalon_jtag_uart.sv):  *)
(* two FIFOs, two interrupt sources, an activity bit.  Its other end is    *)
(* the debug host, which may poll, send and take when it likes, or never.  *)
(*                                                                         *)
(* A character is its number in the order of sending, so that a lost, a    *)
(* doubled or a misplaced one can be told.                                 *)
(***************************************************************************)
EXTENDS Naturals, Sequences

CONSTANTS
    readBufferDepth, writeBufferDepth,      \* 64 and 64 on the board
    readIRQThreshold, writeIRQThreshold,    \* 8 and 8
    MaxIn                                   \* bound: characters the host sends
ASSUME CoreAssumption ==
    /\ {readBufferDepth, writeBufferDepth} \subseteq Nat \ {0}
    /\ {readIRQThreshold, writeIRQThreshold, MaxIn} \subseteq Nat
    /\ readIRQThreshold < readBufferDepth

VARIABLES
    rx_fifo, tx_fifo,
    irq_enable,     \* the enable bits ien_AF ("RE") and ien_AE ("WE")
    pause_irq, ac,
    hostSent,       \* history: how many characters the host sent
    hostGot         \* history: the characters the host took

coreVars == <<rx_fifo, tx_fifo, irq_enable, pause_irq, ac, hostSent, hostGot>>

Numbers(k) == [i \in 1..k |-> i]

CoreInit ==
    /\ rx_fifo = <<>> /\ tx_fifo = <<>>
    /\ irq_enable = {} /\ pause_irq = FALSE /\ ac = FALSE
    /\ hostSent = 0 /\ hostGot = <<>>

wspace == writeBufferDepth - Len(tx_fifo)
fifo_AE == Len(tx_fifo) <= writeIRQThreshold
fifo_AF == readBufferDepth - Len(rx_fifo) <= readIRQThreshold
ipen_AE == "WE" \in irq_enable /\ fifo_AE
ipen_AF == "RE" \in irq_enable /\ (pause_irq \/ fifo_AF)

\* A read of the data register takes the head of the FIFO, if there is one.
PopData ==
    /\ rx_fifo' = IF rx_fifo = <<>> THEN <<>> ELSE Tail(rx_fifo)
    /\ pause_irq' = FALSE

\* A write of the data register; with a full FIFO the character is dropped.
PushData(c) ==
    tx_fifo' = IF Len(tx_fifo) < writeBufferDepth THEN Append(tx_fifo, c) ELSE tx_fifo

\* A character of the host comes in (t_ena).
Arrival ==
    /\ hostSent < MaxIn
    /\ Len(rx_fifo) < readBufferDepth
    /\ hostSent' = hostSent + 1
    /\ rx_fifo' = Append(rx_fifo, hostSent')
    /\ ac' = TRUE

HostSend == Arrival /\ UNCHANGED <<tx_fifo, irq_enable, pause_irq, hostGot>>

\* The host polls and has nothing to send (t_pause).
HostPoll ==
    /\ ac' = TRUE
    /\ pause_irq' = (pause_irq \/ rx_fifo # <<>>)
    /\ UNCHANGED <<rx_fifo, tx_fifo, irq_enable, hostSent, hostGot>>

\* The host takes a character (r_ena).
HostTake ==
    /\ tx_fifo # <<>>
    /\ hostGot' = Append(hostGot, Head(tx_fifo))
    /\ tx_fifo' = Tail(tx_fifo)
    /\ UNCHANGED <<rx_fifo, irq_enable, pause_irq, ac, hostSent>>
=============================================================================
