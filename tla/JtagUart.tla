------------------------------ MODULE JtagUart ------------------------------
(***************************************************************************)
(* The interrupt-driven JTAG UART driver of the Nios V system              *)
(* (tp_nios_v/soft/bsp/drivers/src/altera_avalon_jtag_uart_*.c), which is  *)
(* stdin, stdout and stderr of the program.  One thread calls read, write, *)
(* ioctl and close; the interrupt routine moves characters between the     *)
(* device and two ring buffers; an alarm looks every second for a sign of  *)
(* the host.                                                               *)
(*                                                                         *)
(* A step of the foreground is what lies between two accesses to data it   *)
(* shares with the interrupt routine: the routine may run before any step, *)
(* and runs to its end with interrupts off while the device goes on.  The  *)
(* build (app.elf.objdump) keeps memory accesses in program order.         *)
(***************************************************************************)
EXTENDS JtagUartCore

CONSTANTS
    BUF_LEN,            \* length of each ring, 2048 on the board
    DEFAULT_TIMEOUT,    \* seconds, 10 on the board
    INT_MAX,            \* of the compiler
    ClockFirst,         \* is the system clock started before this driver?
    Requests,           \* bound: the sizes of the reads and writes
    MaxOut,             \* bound: characters the program writes
    Timeouts            \* the arguments of ioctl(TIOCSTIMEOUT)
ASSUME DriverAssumption ==
    /\ BUF_LEN \in Nat /\ BUF_LEN > 1
    /\ INT_MAX \in Nat /\ DEFAULT_TIMEOUT \in 2..(INT_MAX - 2)
    /\ ClockFirst \in BOOLEAN
    /\ Requests \subseteq Nat /\ Timeouts \subseteq Nat /\ MaxOut \in Nat

VARIABLES
    rx_in, rx_out, rx_buf, tx_in, tx_out, tx_buf,
    host_inactive, timeout, alarm, ticking,
    pc, in, out, n, todo, size, chunk, nonblock,    \* the foreground's locals
    isr, wi, space, avail,                          \* the interrupt routine's
    received,   \* history: the characters that reads returned
    written,    \* history: how many characters writes put into the ring
    acked       \* history: how many characters writes said they took

ringVars == <<rx_in, rx_out, rx_buf, tx_in, tx_out, tx_buf>>
watchVars == <<host_inactive, timeout, alarm, ticking>>
callVars == <<pc, in, out, n, todo, size, chunk, nonblock>>
isrVars == <<isr, wi, space, avail>>
appVars == <<received, written, acked>>
vars == <<coreVars, ringVars, watchVars, callVars, isrVars, appVars>>

Index == 0..(BUF_LEN - 1)
Next1(i) == (i + 1) % BUF_LEN
Connected == host_inactive < timeout
Least(a, b) == IF a < b THEN a ELSE b

Reading == {"rdIndices", "rdCopy", "rdAdvance", "rdSpin", "rdCheck", "rdDone"}
Writing == {"wrIndices", "wrCopy", "wrAdvance", "wrKick", "wrSpin", "wrCheck"}

Init ==
    /\ CoreInit
    /\ rx_in = 0 /\ rx_out = 0 /\ tx_in = 0 /\ tx_out = 0
    /\ rx_buf = [i \in Index |-> 0] /\ tx_buf = [i \in Index |-> 0]
    /\ host_inactive = 0 /\ timeout = DEFAULT_TIMEOUT
    /\ alarm = FALSE /\ ticking = FALSE
    /\ pc = IF ClockFirst THEN "clock" ELSE "uart"
    /\ in = 0 /\ out = 0 /\ n = 0 /\ todo = 0 /\ size = 0
    /\ chunk = <<>> /\ nonblock = FALSE
    /\ isr = "out" /\ wi = FALSE /\ space = 0 /\ avail = FALSE
    /\ received = <<>> /\ written = 0 /\ acked = 0
----------------------------------------------------------------------------
(* Start-up: alt_sys_init.                                                 *)

\* The foreground runs only while no interrupt is served.
At(label) == pc = label /\ isr = "out"

StartClock ==
    /\ At("clock")
    /\ ticking' = TRUE
    /\ pc' = IF ClockFirst THEN "uart" ELSE "idle"
    /\ UNCHANGED <<coreVars, ringVars, host_inactive, timeout, alarm,
                   in, out, n, todo, size, chunk, nonblock, isrVars, appVars>>

\* Without a clock the alarm cannot be set, and the host is taken for present.
InitUart ==
    /\ At("uart")
    /\ irq_enable' = {"RE"}
    /\ host_inactive' = 0
    /\ alarm' = ticking
    /\ timeout' = IF ticking THEN timeout ELSE INT_MAX
    /\ pc' = IF ClockFirst THEN "idle" ELSE "clock"
    /\ UNCHANGED <<rx_fifo, tx_fifo, pause_irq, ac, hostSent, hostGot, ringVars, ticking,
                   in, out, n, todo, size, chunk, nonblock, isrVars, appVars>>

Boot == StartClock \/ InitUart
----------------------------------------------------------------------------
(* altera_avalon_jtag_uart_timeout, called by the tick once a second.      *)

Timeout ==
    /\ isr = "out" /\ ticking /\ alarm
    /\ ac' = FALSE
    /\ host_inactive' = IF ac THEN 0
                        ELSE IF host_inactive < INT_MAX - 2 THEN host_inactive + 1
                        ELSE host_inactive
    /\ UNCHANGED <<rx_fifo, tx_fifo, irq_enable, pause_irq, hostSent, hostGot, ringVars,
                   timeout, alarm, ticking, callVars, isrVars, appVars>>
----------------------------------------------------------------------------
(* altera_avalon_jtag_uart_irq                                             *)

Interrupt ==
    /\ isr = "out" /\ (ipen_AF \/ ipen_AE)
    /\ isr' = "control"
    /\ UNCHANGED <<coreVars, ringVars, watchVars, callVars, wi, space, avail, appVars>>

\* What is pending, and the space to write, are read once for a round.
IsrControl ==
    /\ isr = "control"
    /\ wi' = ipen_AE
    /\ space' = IF ipen_AE THEN wspace ELSE 0
    /\ avail' = ipen_AF
    /\ isr' = IF ipen_AF THEN "receive" ELSE IF ipen_AE THEN "transmit" ELSE "out"
    /\ UNCHANGED <<coreVars, ringVars, watchVars, callVars, appVars>>

\* A faulty variant of RxFull: the index is not wrapped.
RxFull_NoWrap == rx_in + 1 = rx_out

RxFull == Next1(rx_in) = rx_out

IsrReceive ==
    /\ isr = "receive" /\ ~RxFull /\ rx_fifo # <<>>
    /\ PopData
    /\ rx_buf' = [rx_buf EXCEPT ![rx_in] = Head(rx_fifo)]
    /\ rx_in' = Next1(rx_in)
    /\ avail' = (rx_fifo' # <<>>)
    /\ UNCHANGED <<tx_fifo, irq_enable, ac, hostSent, hostGot, rx_out, tx_in, tx_out, tx_buf,
                   watchVars, callVars, isr, wi, space, appVars>>

\* The ring is full, or a read of the data register found nothing: the routine
\* stops receiving, and shuts the receive interrupt if characters are left.
IsrReceiveEnd ==
    /\ isr = "receive" /\ (RxFull \/ rx_fifo = <<>>)
    /\ IF RxFull THEN UNCHANGED <<rx_fifo, pause_irq>> ELSE PopData
    /\ irq_enable' = IF RxFull /\ avail THEN irq_enable \ {"RE"} ELSE irq_enable
    /\ avail' = FALSE
    /\ isr' = IF wi THEN "transmit" ELSE "control"
    /\ UNCHANGED <<tx_fifo, ac, hostSent, hostGot, ringVars, watchVars, callVars,
                   wi, space, appVars>>

\* A read of the data register takes two cycles: whether it got a character is
\* settled in the first, the count of those left in the second.  When the FIFO
\* is empty in the first and one comes in, the routine takes the ring for full.
IsrReceiveLate ==
    /\ isr = "receive" /\ ~RxFull /\ rx_fifo = <<>>
    /\ Arrival
    /\ pause_irq' = FALSE
    /\ irq_enable' = irq_enable \ {"RE"}
    /\ avail' = FALSE
    /\ isr' = IF wi THEN "transmit" ELSE "control"
    /\ UNCHANGED <<tx_fifo, hostGot, ringVars, watchVars, callVars, wi, space, appVars>>

IsrTransmit ==
    /\ isr = "transmit" /\ space > 0 /\ tx_out # tx_in
    /\ PushData(tx_buf[tx_out])
    /\ tx_out' = Next1(tx_out)
    /\ space' = space - 1
    /\ UNCHANGED <<rx_fifo, irq_enable, pause_irq, ac, hostSent, hostGot, rx_in, rx_out, rx_buf,
                   tx_in, tx_buf, watchVars, callVars, isr, wi, avail, appVars>>

IsrTransmitEnd ==
    /\ isr = "transmit" /\ (space = 0 \/ tx_out = tx_in)
    /\ irq_enable' = IF space > 0 THEN irq_enable \ {"WE"} ELSE irq_enable
    /\ isr' = "control" /\ wi' = FALSE /\ space' = 0
    /\ UNCHANGED <<rx_fifo, tx_fifo, pause_irq, ac, hostSent, hostGot, ringVars, watchVars,
                   callVars, avail, appVars>>

Isr == \/ Interrupt \/ IsrControl
       \/ IsrReceive \/ IsrReceiveEnd \/ IsrReceiveLate
       \/ IsrTransmit \/ IsrTransmitEnd
----------------------------------------------------------------------------
(* The foreground                                                          *)

\* A call begins, or returns and forgets its locals.
Call(label, length, flag) ==
    /\ At("idle")
    /\ pc' = label /\ todo' = length /\ size' = length /\ nonblock' = flag
    /\ UNCHANGED <<in, out, n, chunk>>

Return ==
    /\ pc' = "idle"
    /\ in' = 0 /\ out' = 0 /\ n' = 0 /\ todo' = 0 /\ size' = 0
    /\ chunk' = <<>> /\ nonblock' = FALSE

Goto(label) == pc' = label /\ UNCHANGED <<in, out, n, todo, size, chunk, nonblock>>
----------------------------------------------------------------------------
(* altera_avalon_jtag_uart_read: a read of nothing returns at once.        *)

idleForRead == <<coreVars, ringVars, watchVars, isrVars, appVars>>

CallRead(length, flag) ==
    /\ length > 0
    /\ Call("rdIndices", length, flag)
    /\ UNCHANGED idleForRead

\* What can be copied in one piece.
Readable == IF rx_in >= rx_out THEN rx_in - rx_out ELSE BUF_LEN - rx_out

ReadIndices ==
    /\ At("rdIndices")
    /\ IF Readable = 0 /\ chunk = <<>> /\ nonblock
         THEN Return
         ELSE /\ in' = rx_in /\ out' = rx_out /\ n' = Least(Readable, todo)
              /\ pc' = IF Readable > 0 THEN "rdCopy"
                       ELSE IF chunk # <<>> THEN "rdDone" ELSE "rdSpin"
              /\ UNCHANGED <<todo, size, chunk, nonblock>>
    /\ UNCHANGED idleForRead

ReadCopy ==
    /\ At("rdCopy")
    /\ chunk' = chunk \o [i \in 1..n |-> rx_buf[out + i - 1]]
    /\ todo' = todo - n
    /\ pc' = "rdAdvance"
    /\ UNCHANGED <<in, out, n, size, nonblock, idleForRead>>

\* A faulty variant of ReadAdvance: the index is not wrapped.
ReadAdvance_NoWrap ==
    /\ At("rdAdvance")
    /\ rx_out' = out + n
    /\ Goto(IF todo > 0 THEN "rdIndices" ELSE "rdDone")
    /\ UNCHANGED <<coreVars, rx_in, rx_buf, tx_in, tx_out, tx_buf, watchVars, isrVars, appVars>>

ReadAdvance ==
    /\ At("rdAdvance")
    /\ rx_out' = (out + n) % BUF_LEN
    /\ Goto(IF todo > 0 THEN "rdIndices" ELSE "rdDone")
    /\ UNCHANGED <<coreVars, rx_in, rx_buf, tx_in, tx_out, tx_buf, watchVars, isrVars, appVars>>

\* Spin until a character arrives or the host is given up for lost.
ReadSpin ==
    /\ At("rdSpin")
    /\ in # rx_in \/ ~Connected
    /\ Goto("rdCheck")
    /\ UNCHANGED idleForRead

ReadCheck ==
    /\ At("rdCheck")
    /\ IF in = rx_in THEN Return ELSE Goto("rdIndices")
    /\ UNCHANGED idleForRead

\* A faulty variant of ReadDone: forgets the interrupt.
ReadDone_KeepsShut ==
    /\ At("rdDone")
    /\ received' = received \o chunk
    /\ Return
    /\ UNCHANGED <<coreVars, ringVars, watchVars, isrVars, written, acked>>

\* There is room in the ring again: open the receive interrupt.
ReadDone ==
    /\ At("rdDone")
    /\ irq_enable' = irq_enable \cup {"RE"}
    /\ received' = received \o chunk
    /\ Return
    /\ UNCHANGED <<rx_fifo, tx_fifo, pause_irq, ac, hostSent, hostGot, ringVars, watchVars,
                   isrVars, written, acked>>

Read ==
    \/ \E length \in Requests, flag \in BOOLEAN : CallRead(length, flag)
    \/ ReadIndices \/ ReadCopy \/ ReadAdvance \/ ReadSpin \/ ReadCheck \/ ReadDone
----------------------------------------------------------------------------
(* altera_avalon_jtag_uart_write: the program goes on with the character   *)
(* after the last that a write said it took.                               *)

idleForWrite == <<coreVars, ringVars, watchVars, isrVars, appVars>>

CallWrite(length, flag) ==
    /\ acked + length <= MaxOut
    /\ Call(IF length > 0 THEN "wrIndices" ELSE "wrKick", length, flag)
    /\ UNCHANGED idleForWrite

\* A faulty variant of Writable: fills the ring to the last cell.
Writable_FillsAll == IF tx_in < tx_out THEN tx_out - 1 - tx_in ELSE BUF_LEN - tx_in

\* What can be copied in one piece: one cell of the ring stays empty.
Writable == IF tx_in < tx_out THEN tx_out - 1 - tx_in
            ELSE IF tx_out > 0 THEN BUF_LEN - tx_in
            ELSE BUF_LEN - 1 - tx_in

WriteIndices ==
    /\ At("wrIndices")
    /\ in' = tx_in /\ out' = tx_out /\ n' = Least(Writable, todo)
    /\ pc' = IF Writable > 0 THEN "wrCopy" ELSE "wrKick"
    /\ UNCHANGED <<todo, size, chunk, nonblock, idleForWrite>>

WriteCopy ==
    /\ At("wrCopy")
    /\ tx_buf' = [i \in Index |-> IF i \in in..(in + n - 1)
                                  THEN acked + size - todo + i - in + 1 ELSE tx_buf[i]]
    /\ todo' = todo - n
    /\ pc' = "wrAdvance"
    /\ UNCHANGED <<in, out, n, size, chunk, nonblock, coreVars, rx_in, rx_out, rx_buf,
                   tx_in, tx_out, watchVars, isrVars, appVars>>

WriteAdvance ==
    /\ At("wrAdvance")
    /\ tx_in' = (in + n) % BUF_LEN
    /\ written' = written + n
    /\ Goto(IF todo > 0 THEN "wrIndices" ELSE "wrKick")
    /\ UNCHANGED <<coreVars, rx_in, rx_out, rx_buf, tx_out, tx_buf, watchVars, isrVars,
                   received, acked>>

\* The result is how many were taken, or an error if none were.
WriteReturn == Return /\ acked' = acked + size - todo /\ UNCHANGED <<received, written>>

\* A faulty variant of WriteKick: opens the interrupt only when the ring is full.
WriteKick_OnlyWhenFull ==
    /\ At("wrKick")
    /\ irq_enable' = IF todo > 0 THEN irq_enable \cup {"WE"} ELSE irq_enable
    /\ IF todo > 0 /\ ~nonblock THEN Goto("wrSpin") /\ UNCHANGED appVars ELSE WriteReturn
    /\ UNCHANGED <<rx_fifo, tx_fifo, pause_irq, ac, hostSent, hostGot, ringVars, watchVars,
                   isrVars>>

\* Open the transmit interrupt, whether or not everything went into the ring.
WriteKick ==
    /\ At("wrKick")
    /\ irq_enable' = irq_enable \cup {"WE"}
    /\ IF todo > 0 /\ ~nonblock THEN Goto("wrSpin") /\ UNCHANGED appVars ELSE WriteReturn
    /\ UNCHANGED <<rx_fifo, tx_fifo, pause_irq, ac, hostSent, hostGot, ringVars, watchVars,
                   isrVars>>

\* A faulty variant of WriteSpin: waits for room however long it takes.
WriteSpin_NoTimeout ==
    /\ At("wrSpin")
    /\ out # tx_out
    /\ Goto("wrCheck")
    /\ UNCHANGED idleForWrite

\* Spin until the interrupt routine made room or the host is given up for lost.
WriteSpin ==
    /\ At("wrSpin")
    /\ out # tx_out \/ ~Connected
    /\ Goto("wrCheck")
    /\ UNCHANGED idleForWrite

\* One second without a sign of the host is enough to give up here.
WriteCheck ==
    /\ At("wrCheck")
    /\ IF host_inactive # 0 THEN WriteReturn ELSE Goto("wrIndices") /\ UNCHANGED appVars
    /\ UNCHANGED <<coreVars, ringVars, watchVars, isrVars>>

Write ==
    \/ \E length \in Requests, flag \in BOOLEAN : CallWrite(length, flag)
    \/ WriteIndices \/ WriteCopy \/ WriteAdvance \/ WriteKick \/ WriteSpin \/ WriteCheck
----------------------------------------------------------------------------
(* altera_avalon_jtag_uart_ioctl(TIOCSTIMEOUT) and close.                  *)

SetTimeout ==
    /\ At("idle") /\ timeout # INT_MAX
    /\ \E t \in Timeouts : timeout' = IF t >= 2 /\ t < INT_MAX THEN t ELSE INT_MAX - 1
    /\ UNCHANGED <<coreVars, ringVars, host_inactive, alarm, ticking, callVars, isrVars, appVars>>

CallClose ==
    /\ \E flag \in BOOLEAN : Call("closing", 0, flag)
    /\ UNCHANGED <<coreVars, ringVars, watchVars, isrVars, appVars>>

CloseReturn ==
    /\ At("closing")
    /\ tx_out = tx_in \/ ~Connected \/ nonblock
    /\ Return
    /\ UNCHANGED <<coreVars, ringVars, watchVars, isrVars, appVars>>
----------------------------------------------------------------------------
Foreground == Boot \/ Read \/ Write \/ SetTimeout \/ CallClose \/ CloseReturn

driverVars == <<ringVars, watchVars, callVars, isrVars, appVars>>
Host == (HostSend \/ HostPoll \/ HostTake) /\ UNCHANGED driverVars

Next == Foreground \/ Isr \/ Timeout \/ Host

Spec == Init /\ [][Next]_vars

\* A call goes on once it has begun; whether one begins is up to the program.
InCall == pc # "idle" /\ Foreground
Idle == At("idle")

\* The processor makes steps and the clock ticks; nothing is said of the host.
ProcessorFairness == WF_vars(InCall) /\ WF_vars(Isr) /\ WF_vars(Timeout)
LonelySpec == Spec /\ ProcessorFairness

\* The debug host is attached: it polls, and takes what it is sent.
HostAttached ==
    /\ WF_vars(HostPoll /\ UNCHANGED driverVars)
    /\ WF_vars(HostTake /\ UNCHANGED driverVars)
----------------------------------------------------------------------------
TypeOK ==
    /\ Len(rx_fifo) <= readBufferDepth /\ Len(tx_fifo) <= writeBufferDepth
    /\ irq_enable \subseteq {"RE", "WE"}
    /\ {pause_irq, ac, alarm, ticking, nonblock, wi, avail} \subseteq BOOLEAN
    /\ {rx_in, rx_out, tx_in, tx_out, in, out} \subseteq Index
    /\ rx_buf \in [Index -> Nat] /\ tx_buf \in [Index -> Nat]
    /\ host_inactive \in 0..(INT_MAX - 2) /\ timeout \in 2..INT_MAX
    /\ pc \in {"clock", "uart", "idle", "closing"} \cup Reading \cup Writing
    /\ n \in 0..(BUF_LEN - 1) /\ todo \in 0..size /\ size \in Nat
    /\ isr \in {"out", "control", "receive", "transmit"}
    /\ space \in 0..writeBufferDepth
    /\ written <= MaxOut /\ acked <= written

\* Input is a pipe: what reads return is what the host sent, character for
\* character, although interrupts cut into every copy out of the ring.
Input == INSTANCE Pipe WITH accepted <- Numbers(hostSent), delivered <- received
InputSpec == Input!Spec

\* Output is a pipe: what the host takes is what the program wrote, although a
\* program that is told of a short write sends the rest again.
Output == INSTANCE Pipe WITH accepted <- Numbers(written), delivered <- hostGot
OutputSpec == Output!Spec

\* Whenever the receive interrupt is shut there is something in the ring to
\* read, or a read that took something is on its way to open the interrupt: a
\* program that goes on reading cannot wait for ever beside a shut interrupt.
ReceiverReopens ==
    pc # "uart" /\ ~(ClockFirst /\ pc = "clock") /\ "RE" \notin irq_enable =>
        rx_in # rx_out \/ (pc \in Reading /\ chunk # <<>>)

\* Whenever characters wait in the ring the transmit interrupt is open, or a
\* write is on its way to open it: output cannot be left lying.
TransmitterArmed ==
    tx_in # tx_out /\ "WE" \notin irq_enable =>
        pc \in {"wrIndices", "wrCopy", "wrAdvance", "wrKick"}

\* With the host attached every character written gets there, and a program that
\* reads its ring empty again and again leaves nothing behind in the device.
HostServed ==
    HostAttached =>
        /\ \A k \in 1..MaxOut : (written >= k) ~> (Len(hostGot) >= k)
        /\ []<>(rx_in = rx_out) => (rx_fifo # <<>>) ~> (rx_fifo = <<>>)

\* Every call returns, "or for a host-inactivity timeout" (init.c:250): a host
\* that falls silent for ever blocks no read, write or close.  (A host that goes
\* on polling but takes nothing may.)
CallsReturn == <>[](~ac) => (pc # "idle") ~> (pc = "idle")
=============================================================================
