----------------------------- MODULE I2cDriver -----------------------------
(***************************************************************************)
(* The driver of the I2C core (tp_nios_v/soft/bsp/drivers/src/             *)
(* altera_avalon_i2c.c): master_tx, master_rx and master_tx_rx with their  *)
(* retries, in polled mode and with the optional interrupt routine, and    *)
(* interrupt_transaction_status.                                           *)
(*                                                                         *)
(* A transfer is one or two legs; a leg is a row of commands, the address  *)
(* first.  A step is what lies between two looks at the core that the core *)
(* or the interrupt routine can tell apart.  A wait ends when what it      *)
(* waits for is there, or expires: always if the core is stuck, and while  *)
(* it moves only if the device stretches the clock for longer than the     *)
(* wait (90 ms and more), which late remembers.                            *)
(***************************************************************************)
EXTENDS I2cCore

CONSTANTS
    RETRIES,        \* attempts of a call, 10000 in the code
    Messages,       \* bound: what the program writes
    Pointers,       \* bound: what it writes to read back what follows
    Sizes,          \* bound: how much it reads
    MaxStretches    \* bound: how many waits may expire while the core moves
ASSUME DriverAssumption ==
    /\ RETRIES \in Nat \ {0}
    /\ Messages \subseteq Seq(Register) /\ Pointers \subseteq Seq(Register) \ {<<>>}
    /\ Sizes \subseteq Nat
    /\ MaxStretches \in Nat

VARIABLES
    pc, op, ints, leg, out, n,      \* the call: its kind, mode, message and size
    left, status, retry, got,       \* its locals
    saveints, registered,
    irq_busy, irq_size, irq_got,    \* IRQ_DATA_t
    isr,
    stretches,  \* how many more waits may expire while the core moves
    late,       \* history: a wait expired on a moving core, and the core may still move
    armed,      \* history: the last call left a transfer to the interrupt routine
    wiped       \* history: arming it cleared a flag nobody had looked at

callVars == <<pc, op, ints, leg, out, n, left, status, retry, got, saveints>>
irqVars == <<irq_busy, irq_size, irq_got, isr>>
historyVars == <<stretches, late, armed, wiped>>
vars == <<coreVars, callVars, irqVars, registered, historyVars>>

StatusCode == {"SUCCESS", "TIMEOUT", "BAD_ARG", "NACK_ERR", "ARB_LOST_ERR", "BUSY"}
Retried == {"NACK_ERR", "ARB_LOST_ERR", "BUSY"}

DriverInit ==
    /\ CoreInit
    /\ pc = "boot" /\ op = "tx" /\ ints = FALSE /\ leg = "tx" /\ out = <<>> /\ n = 0
    /\ left = 0 /\ status = "SUCCESS" /\ retry = 0 /\ got = <<>> /\ saveints = {}
    /\ registered = FALSE /\ irq_busy = 0 /\ irq_size = 0 /\ irq_got = <<>> /\ isr = "out"
    /\ late = FALSE /\ armed = FALSE /\ wiped = FALSE
Init == DriverInit /\ stretches = MaxStretches

\* alt_avalon_i2c_init
InitDevice ==
    /\ pc = "boot"
    /\ Disable /\ ClearFlags
    /\ iser' = {} /\ cmd_thd' = "NOT_FULL" /\ rx_thd' = "FULL"
    /\ pc' = "idle"
    /\ UNCHANGED <<cmds, cur, rw_cmd, rx, deviceVars, op, ints, leg, out, n, left, status,
                   retry, got, saveints, irqVars, registered, historyVars>>

At(label) == pc = label /\ isr = "out"

\* alt_avalon_i2c_register_optional_irq_handler
Register_ ==
    /\ At("idle") /\ ~registered
    /\ registered' = TRUE /\ irq_busy' = 0
    /\ UNCHANGED <<coreVars, callVars, irq_size, irq_got, isr, historyVars>>

\* How a wait ends that ends when done: with it, or by expiring.
Waited(done) ==
    \/ (done \/ CoreStuck) /\ UNCHANGED <<late, stretches>>
    \/ ~done /\ ~CoreStuck /\ stretches > 0 /\ late' = TRUE /\ stretches' = stretches - 1

CoreIdle == ~CoreBusy /\ cmds = <<>> /\ rx = <<>>
----------------------------------------------------------------------------
(* master_tx, master_rx, master_tx_rx: legs and retries.                   *)

\* Does the leg begin with a repeated START, and does it end with a STOP?
Restart == op = "txrx" /\ leg = "rx"
Stop == ~(op = "txrx" /\ leg = "tx")
LegSize == IF leg = "tx" THEN Len(out) ELSE n

Call(o, i, m, s) ==
    /\ At("idle")
    /\ op' = o /\ ints' = i /\ out' = m /\ n' = s
    /\ leg' = IF o = "rx" THEN "rx" ELSE "tx"
    /\ retry' = RETRIES /\ pc' = "begin" /\ status' = "SUCCESS" /\ left' = 0 /\ got' = <<>>
    /\ late' = (late /\ ~CoreIdle) /\ armed' = FALSE
    /\ UNCHANGED <<coreVars, saveints, irqVars, registered, stretches, wiped>>

\* The leg is left before it touches the core.
BeginRefused ==
    /\ At("begin")
    /\ \/ LegSize = 0 /\ status' = "SUCCESS"
       \/ LegSize > 0 /\ ints /\ ~registered /\ status' = "BAD_ARG"
       \/ LegSize > 0 /\ (ints => registered) /\ ~Restart /\ ctrl_en /\ status' = "BUSY"
    /\ pc' = "legDone"
    /\ UNCHANGED <<coreVars, op, ints, leg, out, n, left, retry, got, saveints,
                   irqVars, registered, historyVars>>

BeginNew ==
    /\ At("begin") /\ LegSize > 0 /\ (ints => registered) /\ ~Restart /\ ~ctrl_en
    /\ Enable /\ ClearFlags
    /\ irq_busy' = IF registered THEN 0 ELSE irq_busy
    /\ left' = LegSize + 1 /\ got' = <<>> /\ taken' = <<>>
    /\ pc' = "put"
    /\ UNCHANGED <<cmd_thd, rx_thd, iser, cmds, cur, rw_cmd, rx, ptr, first, op, ints, leg, out, n,
                   status, retry, saveints, irq_size, irq_got, isr, registered, historyVars>>

\* The second leg does not ask whether the core is enabled.
BeginRestart ==
    /\ At("begin") /\ LegSize > 0 /\ (ints => registered) /\ Restart
    /\ left' = LegSize + 1 /\ got' = <<>>
    /\ pc' = "put"
    /\ UNCHANGED <<coreVars, op, ints, leg, out, n, status, retry, saveints,
                   irqVars, registered, historyVars>>

Begin == BeginRefused \/ BeginNew \/ BeginRestart

\* while (retry--): the attempt was refused, lost its bus or found the core taken.
LegRetry ==
    /\ At("legDone") /\ status \in Retried /\ retry > 1
    /\ retry' = retry - 1 /\ pc' = "begin"
    /\ leg' = IF op = "rx" THEN "rx" ELSE "tx"
    /\ UNCHANGED <<coreVars, op, ints, out, n, left, status, got, saveints,
                   irqVars, registered, historyVars>>

\* A timeout is not retried, and does not keep the second leg from starting.
LegNext ==
    /\ At("legDone") /\ status \notin Retried /\ op = "txrx" /\ leg = "tx"
    /\ leg' = "rx" /\ pc' = "begin"
    /\ UNCHANGED <<coreVars, op, ints, out, n, left, status, retry, got, saveints,
                   irqVars, registered, historyVars>>

Keep == UNCHANGED <<op, ints, leg, out, n, irq_got, taken, armed, wiped>>
\* No property speaks of the transfer any more.
Forget ==
    /\ op' = "tx" /\ ints' = FALSE /\ leg' = "tx" /\ out' = <<>> /\ n' = 0
    /\ irq_got' = <<>> /\ taken' = <<>> /\ armed' = FALSE /\ wiped' = FALSE

\* The call returns its status; its locals are gone.  (What a transfer
\* of the interrupt routine is about is kept, for the properties.)
LegReturn ==
    /\ At("legDone")
    /\ IF status \in Retried THEN retry = 1 ELSE op = "txrx" => leg = "rx"
    /\ pc' = "idle" /\ retry' = 0 /\ left' = 0 /\ got' = <<>>
    /\ IF armed \/ irq_busy # 0 THEN Keep ELSE Forget
    /\ UNCHANGED <<ctrlVars, flagVars, fifoVars, ptr, first, status, saveints, irq_busy, irq_size,
                   isr, registered, stretches, late>>

LegDone == LegRetry \/ LegNext \/ LegReturn
----------------------------------------------------------------------------
(* A leg: master_transmit, master_receive and their interrupt variants.    *)

\* Of a leg's commands the last may carry STOP, the first the repeated START.
TheCommand ==
    [val |-> IF left = LegSize + 1 THEN (IF leg = "tx" THEN ALT_AVALON_I2C_WRITE ELSE ALT_AVALON_I2C_READ)
             ELSE IF leg = "tx" THEN out[LegSize + 1 - left] ELSE 0,
     sta |-> left = LegSize + 1 /\ Restart,
     sto |-> left = 1 /\ Stop]

\* alt_avalon_i2c_cmd_write: wait for room and write
Put ==
    /\ At("put") /\ TxReady
    /\ WriteCommand(TheCommand)
    /\ pc' = "check"
    /\ UNCHANGED <<ctrlVars, flagVars, cur, rw_cmd, rx, deviceVars, op, ints, leg, out, n, left,
                   status, retry, got, saveints, irqVars, registered, historyVars>>

PutExpires ==
    /\ At("put") /\ ~TxReady /\ Waited(FALSE)
    /\ status' = "TIMEOUT" /\ pc' = "quiesce"
    /\ UNCHANGED <<coreVars, op, ints, leg, out, n, left, retry, got, saveints,
                   irqVars, registered, armed, wiped>>

\* The rest of cmd_write looks for a refusal and a lost bus; a polled read also
\* takes what has come meanwhile, except after its address and its last command.
CheckFails ==
    /\ At("check") /\ Flush
    /\ status' = IF arblost_det THEN "ARB_LOST_ERR" ELSE "NACK_ERR"
    /\ pc' = "quiesce"
    /\ UNCHANGED <<coreVars, op, ints, leg, out, n, left, retry, got, saveints,
                   irqVars, registered, historyVars>>

Draining == leg = "rx" /\ ~ints /\ left \in 2..LegSize

Check ==
    /\ At("check") /\ ~Flush
    /\ left' = left - 1
    /\ IF Draining THEN got' = got \o rx /\ rx' = <<>> ELSE UNCHANGED <<got, rx>>
    /\ pc' = IF left > 1 THEN "put"
             ELSE IF ints THEN (IF Stop THEN "arm" ELSE "legDone")
             ELSE IF leg = "rx" /\ Len(got) < n THEN "collect"
             ELSE IF Stop THEN "quiesce" ELSE "legDone"
    /\ status' = "SUCCESS"
    /\ UNCHANGED <<ctrlVars, flagVars, fsm, cmds, cur, rw_cmd, deviceVars, op, ints, leg, out, n,
                   retry, saveints, irqVars, registered, historyVars>>

\* alt_avalon_i2c_rx_read, until all bytes are there
Collect ==
    /\ At("collect") /\ rx # <<>>
    /\ got' = Append(got, Head(rx)) /\ rx' = Tail(rx)
    /\ pc' = IF Len(got') < n THEN "collect" ELSE "quiesce"
    /\ UNCHANGED <<ctrlVars, flagVars, fsm, cmds, cur, rw_cmd, deviceVars, op, ints, leg, out, n,
                   left, status, retry, saveints, irqVars, registered, historyVars>>

CollectExpires ==
    /\ At("collect") /\ rx = <<>> /\ Waited(FALSE)
    /\ status' = "TIMEOUT" /\ pc' = "quiesce"
    /\ UNCHANGED <<coreVars, op, ints, leg, out, n, left, retry, got, saveints,
                   irqVars, registered, armed, wiped>>

\* A faulty variant of Quiesce: the refusal of the last byte is not looked for.
Quiesce_NoCheck ==
    /\ At("quiesce") /\ Waited(~CoreBusy)
    /\ status' = IF CoreBusy THEN "TIMEOUT" ELSE status
    /\ Disable
    /\ pc' = "legDone"
    /\ UNCHANGED <<cmd_thd, rx_thd, iser, flagVars, cmds, cur, rw_cmd, rx, deviceVars, op, ints,
                   leg, out, n, left, retry, got, saveints, irqVars, registered, armed, wiped>>

\* The end of a transfer or of a failed leg: wait until the core is idle,
\* look for a refusal (in polled mode) and disable the core.
Quiesce ==
    /\ At("quiesce") /\ Waited(~CoreBusy)
    /\ status' = IF nack_det /\ ~ints THEN "NACK_ERR" ELSE IF CoreBusy THEN "TIMEOUT" ELSE status
    /\ Disable
    /\ pc' = "legDone"
    /\ UNCHANGED <<cmd_thd, rx_thd, iser, flagVars, cmds, cur, rw_cmd, rx, deviceVars, op, ints,
                   leg, out, n, left, retry, got, saveints, irqVars, registered, armed, wiped>>

\* A faulty variant of Arm: the routine is told of one byte less.
Arm_OneShort ==
    /\ At("arm")
    /\ ClearFlags /\ wiped' = Flush
    /\ irq_busy' = IF leg = "tx" THEN 1 ELSE 2
    /\ IF leg = "tx"
       THEN /\ cmd_thd' = "EMPTY" /\ iser' = iser \cup {"TX_READY"}
            /\ UNCHANGED <<rx_thd, irq_size, irq_got>>
       ELSE /\ rx_thd' = "1_ENTRY" /\ iser' = iser \cup {"RX_READY"}
            /\ irq_size' = n - 1 /\ irq_got' = <<>> /\ UNCHANGED cmd_thd
    /\ pc' = "legDone" /\ armed' = TRUE
    /\ UNCHANGED <<ctrl_en, fifoVars, deviceVars, op, ints, leg, out, n, left, status, retry, got,
                   saveints, isr, registered, stretches, late>>

\* In interrupt mode the rest is left to the interrupt routine.
Arm ==
    /\ At("arm")
    /\ ClearFlags /\ wiped' = Flush
    /\ irq_busy' = IF leg = "tx" THEN 1 ELSE 2
    /\ IF leg = "tx"
       THEN /\ cmd_thd' = "EMPTY" /\ iser' = iser \cup {"TX_READY"}
            /\ UNCHANGED <<rx_thd, irq_size, irq_got>>
       ELSE /\ rx_thd' = "1_ENTRY" /\ iser' = iser \cup {"RX_READY"}
            /\ irq_size' = n /\ irq_got' = <<>> /\ UNCHANGED cmd_thd
    /\ pc' = "legDone" /\ armed' = TRUE
    /\ UNCHANGED <<ctrl_en, fifoVars, deviceVars, op, ints, leg, out, n, left, status, retry, got,
                   saveints, isr, registered, stretches, late>>

Leg ==
    \/ Begin \/ Put \/ PutExpires \/ CheckFails \/ Check
    \/ Collect \/ CollectExpires \/ Quiesce \/ Arm
Transfer == Leg \/ LegDone
----------------------------------------------------------------------------
(* alt_avalon_i2c_irq and the optional callback.  Clearing the flags, it    *)
(* also clears a refusal nobody has looked at.                             *)

Interrupt ==
    /\ isr = "out" /\ pc # "boot" /\ intr
    /\ ClearFlags
    /\ IF irq_busy = 2
       THEN LET k == IF Len(rx) < irq_size THEN Len(rx) ELSE irq_size
            IN /\ irq_got' = irq_got \o SubSeq(rx, 1, k) /\ rx' = SubSeq(rx, k + 1, Len(rx))
               /\ irq_size' = irq_size - k
               /\ iser' = IF k < irq_size THEN {"RX_READY"} ELSE {}
               /\ isr' = IF k < irq_size THEN "out" ELSE "spin"
       ELSE iser' = {} /\ isr' = "spin" /\ UNCHANGED <<rx, irq_size, irq_got>>
    /\ UNCHANGED <<ctrl_en, cmd_thd, rx_thd, fsm, cmds, cur, rw_cmd, deviceVars, callVars,
                   irq_busy, registered, historyVars>>

\* A faulty variant of IrqEnd: the core stays enabled.
IrqEnd_KeepsEnabled ==
    /\ isr = "spin" /\ Waited(~CoreBusy)
    /\ irq_busy' = 0 /\ isr' = "out"
    /\ UNCHANGED <<coreVars, callVars, irq_size, irq_got, registered, armed, wiped>>

IrqEnd ==
    /\ isr = "spin" /\ Waited(~CoreBusy)
    /\ Disable
    /\ irq_busy' = 0 /\ isr' = "out"
    /\ UNCHANGED <<cmd_thd, rx_thd, iser, flagVars, cmds, cur, rw_cmd, rx, deviceVars, callVars,
                   irq_size, irq_got, registered, armed, wiped>>

Isr == Interrupt \/ IrqEnd
----------------------------------------------------------------------------
(* alt_avalon_i2c_interrupt_transaction_status                             *)

AskStatus ==
    /\ At("idle") /\ registered
    /\ saveints' = iser /\ pc' = "mask"
    /\ UNCHANGED <<coreVars, op, ints, leg, out, n, left, status, retry, got,
                   irqVars, registered, historyVars>>

Mask ==
    /\ At("mask")
    /\ iser' = iser \ saveints /\ pc' = "ask"
    /\ UNCHANGED <<ctrl_en, cmd_thd, rx_thd, flagVars, fifoVars, deviceVars, op, ints, leg, out, n,
                   left, status, retry, got, saveints, irqVars, registered, historyVars>>

Answer(s) == status' = s /\ pc' = "idle" /\ saveints' = {}

\* A faulty variant of Ask: what was masked stays masked.
Ask_KeepsMask ==
    /\ At("ask")
    /\ \/ nack_det /\ irq_busy # 0 /\ status' = "NACK_ERR" /\ pc' = "abort" /\ Keep
          /\ UNCHANGED <<saveints, iser>>
       \/ nack_det /\ irq_busy = 0 /\ Answer("NACK_ERR") /\ Forget /\ iser' = iser
       \/ ~nack_det /\ irq_busy # 0 /\ Answer("BUSY") /\ Keep /\ iser' = iser
       \/ ~nack_det /\ irq_busy = 0 /\ Answer("SUCCESS") /\ Forget /\ iser' = iser
    /\ UNCHANGED <<ctrl_en, cmd_thd, rx_thd, flagVars, fifoVars, ptr, first, left, retry, got,
                   irq_busy, irq_size, isr, registered, stretches, late>>

Ask ==
    /\ At("ask")
    /\ \/ nack_det /\ irq_busy # 0 /\ status' = "NACK_ERR" /\ pc' = "abort" /\ Keep
          /\ UNCHANGED <<saveints, iser>>
       \/ nack_det /\ irq_busy = 0 /\ Answer("NACK_ERR") /\ Forget /\ iser' = iser
       \/ ~nack_det /\ irq_busy # 0 /\ Answer("BUSY") /\ Keep /\ iser' = iser \cup saveints
       \/ ~nack_det /\ irq_busy = 0 /\ Answer("SUCCESS") /\ Forget /\ iser' = iser
    /\ UNCHANGED <<ctrl_en, cmd_thd, rx_thd, flagVars, fifoVars, ptr, first, left, retry, got,
                   irq_busy, irq_size, isr, registered, stretches, late>>

Abort ==
    /\ At("abort") /\ Waited(~CoreBusy)
    /\ Answer(IF CoreBusy THEN "TIMEOUT" ELSE status) /\ Forget
    /\ rx' = <<>>
    /\ Disable
    /\ irq_busy' = 0
    /\ UNCHANGED <<cmd_thd, rx_thd, iser, flagVars, cmds, cur, rw_cmd, ptr, first,
                   left, retry, got, irq_size, isr, registered>>

StatusGoesOn == Mask \/ Ask \/ Abort
----------------------------------------------------------------------------
\* A START makes old bytes of what is in memory already.
Device ==
    /\ CoreStep
    /\ got' = IF fsm = "PRE_START" /\ fsm' = "ADDR" THEN Stale(got) ELSE got
    /\ irq_got' = IF fsm = "PRE_START" /\ fsm' = "ADDR" THEN Stale(irq_got) ELSE irq_got
    /\ UNCHANGED <<pc, op, ints, leg, out, n, left, status, retry, saveints,
                   irq_busy, irq_size, isr, registered, historyVars>>

\* Any program.  A read after a write writes something and reads something.
AnyCall ==
    \/ \E i \in BOOLEAN, m \in Messages : Call("tx", i, m, 0)
    \/ \E i \in BOOLEAN, s \in Sizes : Call("rx", i, <<>>, s)
    \/ \E i \in BOOLEAN, m \in Pointers, s \in Sizes \ {0} :
        Call("txrx", i, m, s)

AnyProgram == Register_ \/ AnyCall \/ AskStatus
Foreground == Transfer \/ StatusGoesOn
Next == InitDevice \/ AnyProgram \/ Foreground \/ Isr \/ Device
Spec == Init /\ [][Next]_vars

\* A call once made goes on, and so does the core as long as it can; an interrupt
\* is taken however often the program masks and unmasks it.
Fairness == WF_vars(Foreground) /\ SF_vars(Isr) /\ WF_vars(Device)
FairSpec == Spec /\ Fairness
----------------------------------------------------------------------------
TypeOK ==
    /\ CoreTypeOK
    /\ pc \in {"boot", "idle", "begin", "legDone", "put", "check", "collect", "quiesce", "arm",
               "mask", "ask", "abort"}
    /\ op \in {"tx", "rx", "txrx"} /\ leg \in {"tx", "rx"} /\ ints \in BOOLEAN
    /\ out \in Seq(Register) /\ n \in Nat /\ left \in Nat /\ retry \in 0..RETRIES
    /\ status \in StatusCode /\ got \in Seq(Byte)
    /\ saveints \subseteq {"TX_READY", "RX_READY"} /\ registered \in BOOLEAN
    /\ irq_busy \in 0..2 /\ irq_size \in Nat /\ irq_got \in Seq(Byte)
    /\ isr \in {"out", "spin"} /\ late \in BOOLEAN /\ armed \in BOOLEAN /\ wiped \in BOOLEAN
    /\ stretches \in 0..MaxStretches

\* What is in memory: bytes of this transaction, from one register after the other.
Fresh(bytes, size) ==
    /\ Len(bytes) = size
    /\ \A i \in 1..size : bytes[i].fresh
    /\ \A i \in 1..(size - 1) : bytes[i + 1].reg = (bytes[i].reg + 1) % REGISTERS

\* What the call was asked for.  (An empty message never reaches the core.)
Delivered ==
    /\ out # <<>> => taken = out
    /\ op # "tx" => Fresh(got, n)
    /\ op = "txrx" /\ Len(out) = 1 => got[1].reg = out[1]

Returns(s) == pc = "legDone" /\ pc' = "idle" /\ status' = s
Answers(s) == pc = "ask" /\ pc' = "idle" /\ status' = s

\* A polled call that succeeds has done what it was asked for in its last
\* attempt: the device took the whole message and no other byte, and what is in
\* the buffer was read after it, register by register, whatever was refused, lost
\* and retried before.  (Unless the bus was lost after the last look at it, or a
\* wait expired on a core that was still moving.)
SuccessIsReal ==
    [][Returns("SUCCESS") /\ ~ints /\ ~late /\ ~arblost_det => Delivered]_vars

\* When a read left to the interrupt routine is reported complete, its buffer
\* holds that many bytes of this very transaction, in the order of the registers.
ReadReported == [][Answers("SUCCESS") /\ armed /\ ~late /\ op # "tx" => Fresh(irq_got, n)]_vars

\* The same of a write: the device has taken the whole message.
\* (altera_avalon_i2c.h:1154; not so, a refusal is cleared by the interrupt routine.)
WriteReported == [][Answers("SUCCESS") /\ armed /\ ~late /\ op = "tx" => taken = out]_vars

\* Between transfers the core is off and has nothing left of the last one, so that
\* the next call finds it free; an enabled core belongs to the interrupt routine,
\* and the routine never loses it to a call.
Quiet ==
    /\ pc = "idle" /\ irq_busy = 0 /\ ~late =>
        ~ctrl_en /\ fsm = "IDLE" /\ cmds = <<>> /\ rx = <<>>
    /\ irq_busy # 0 => ctrl_en

\* Every call returns, whatever the device refuses and whoever takes the bus.
\* A write left to the interrupt routine ends by itself, and a read does if the
\* program keeps asking for its status: unless the bus is lost, or was lost or the
\* address refused just before the flags were cleared to arm the read.
TransfersEnd ==
    /\ pc \notin {"boot", "idle"} ~> pc = "idle"
    /\ irq_busy = 1 ~> irq_busy # 1
    /\ []<>(pc = "ask") => (irq_busy = 2 /\ ~wiped ~> irq_busy # 2 \/ arblost_det)
=============================================================================
