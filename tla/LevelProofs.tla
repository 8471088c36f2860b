---------------------------- MODULE LevelProofs ----------------------------
(***************************************************************************)
(* Proofs about BubbleLevel and the I2C driver and core below it, for      *)
(* every depth of the FIFOs, number of registers, message and size, and    *)
(* every byte an axis may give.                                            *)
(*                                                                         *)
(* LevelInv has two parts.  FrameInv holds always: the types, what the     *)
(* core's states exclude, what the driver's labels say of its locals, and  *)
(* whose the core is.  Timely holds until a wait expires on a core that    *)
(* still moves (late): a transfer is a row of commands, known from the     *)
(* first to the last when the call is made; the core works on the row      *)
(* (OnTrack: what it has taken of it, what it has done, and which bytes    *)
(* have come) until it has ended it or given it up; and the row is the     *)
(* call's, or what a call has left to the interrupt routine.               *)
(***************************************************************************)
EXTENDS BubbleLevel, SequenceTheorems, TLAPS
----------------------------------------------------------------------------
(* The LED.                                                                *)

\* An axis is cut off at one g.
LEMMA ClampedIsWithinOneG ==
    ASSUME NEW y \in Int
    PROVE  Clamped(y) \in -250..250
  BY DEF Clamped, LSB_PER_G

\* The scaled product stays below the number of LEDs, at both ends too.
LEMMA ScaledIsALed ==
    ASSUME NEW c \in -250..250
    PROVE  ((c + 250) * 9) \div 500 \in 0..9
<1>1. (c + 250) * 9 \in 0..4500
  OBVIOUS
<1>2. \A p \in 0..4500 : p \div 500 \in 0..9
  OBVIOUS
<1> QED
  BY <1>1, <1>2

\* So the index is that of an LED.
LEMMA LedIndexExists ==
    ASSUME NEW y \in Int
    PROVE  LedIndex(y) \in 0..NUM_LEDS - 1
<1>1. LedIndex(y) = ((Clamped(y) + 250) * 9) \div 500
  BY DEF LedIndex, NUM_LEDS, LSB_PER_G
<1>2. PICK c \in -250..250 : c = Clamped(y)
  BY ClampedIsWithinOneG
<1>3. ((c + 250) * 9) \div 500 \in 0..9
  BY ScaledIsALed
<1> QED
  BY <1>1, <1>2, <1>3 DEF NUM_LEDS

\* Two bytes are a signed number of 16 bits.
LEMMA SamplesAreIntegers ==
    ASSUME NEW lo \in Octets, NEW hi \in Octets
    PROVE  Int16(lo, hi) \in Int
  BY OctetsAssumption DEF Int16

\* The LEDs change only where a read of the axes ends, or the print of its failure.
LEMMA OnlyAxesLight ==
    ASSUME LevelNext, leds' # leds
    PROVE  \/ AfterAxes
           \/ leds' = {LedIndex(0)}
  BY DEF LevelNext, Main, Boot, MainCalls, Return, GoOn, Sleep, PrintReturns, OtherProgram, Serve,
         Clock, Exited, MainGoesOn, AfterId, AfterStart, bubbleVars, levelVars

\* The LED that is lit exists, for every sample and after every failed read
\* (main.c:111-126): no write to the LEDs is out of the port's ten bits.
THEOREM LevelLitLedExists == LevelSpec => []LitLedExists
<1>1. LevelInit => LitLedExists
  BY DEF LevelInit, LitLedExists, NUM_LEDS
<1>2. LitLedExists /\ [LevelNext]_levelVars => LitLedExists'
  <2> SUFFICES ASSUME LitLedExists, [LevelNext]_levelVars PROVE LitLedExists'
    OBVIOUS
  <2>1. CASE leds' = leds
    BY <2>1 DEF LitLedExists, NUM_LEDS
  <2>2. CASE leds' # leds
    <3>1. AfterAxes \/ leds' = {LedIndex(0)}
      BY <2>2, OnlyAxesLight DEF levelVars, bubbleVars
    <3>2. \E y \in Int : leds' = {LedIndex(y)}
      <4>1. CASE AfterAxes
        <5>1. PICK lo \in Octets, hi \in Octets : leds' = {LedIndex(Int16(lo, hi))}
          BY <2>2, <4>1 DEF AfterAxes
        <5> QED
          BY <5>1, SamplesAreIntegers
      <4>2. CASE leds' = {LedIndex(0)}
        BY <4>2
      <4> QED
        BY <3>1, <4>1, <4>2
    <3> QED
      BY <3>2, LedIndexExists DEF LitLedExists, NUM_LEDS
  <2> QED
    BY <2>1, <2>2
<1> QED
  BY <1>1, <1>2, PTL DEF LevelSpec
----------------------------------------------------------------------------
(***************************************************************************)
(* The invariant.  A transfer is a row of t commands: w for the part that  *)
(* is written, the address first and then the message m, and the rest for  *)
(* the part that is read.  Either part may be missing.                     *)
(***************************************************************************)
USE CoreAssumption, DriverAssumption

Row(w, t, m) ==
    /\ w = 0 \/ (w = Len(m) + 1 /\ w >= 2)
    /\ t = w \/ t >= w + 2
    /\ t > 0

Direction(w, k) == IF k <= w THEN ALT_AVALON_I2C_WRITE ELSE ALT_AVALON_I2C_READ
Kind(w, k) == IF k = 1 \/ k = w + 1 THEN "ADDR" ELSE IF k <= w THEN "TX" ELSE "RX"
Value(w, m, k) ==
    IF Kind(w, k) = "ADDR" THEN Direction(w, k) ELSE IF k <= w THEN m[k - 1] ELSE 0
Cmd(w, t, m, k) == [val |-> Value(w, m, k), sta |-> w > 0 /\ k = w + 1, sto |-> k = t]

\* Of p commands put into the FIFO, how many the core has taken, and done.
Popped(p) == p - Len(cmds)
Done(p) == IF fsm \in {"ADDR", "TX", "RX"} THEN Popped(p) - 1 ELSE Popped(p)

Queue(w, t, m, p) ==
    /\ Len(cmds) <= p /\ p <= t
    /\ \A i \in 1..Len(cmds) : cmds[i] = Cmd(w, t, m, Popped(p) + i)

\* Where the core is once it has taken q of them.
Place(w, t, m, q) ==
    /\ q = 0 => fsm = "PRE_START"
    /\ q > 0 => /\ cur = Cmd(w, t, m, q)
                /\ fsm \in {Kind(w, q), "HOLD", "STOP", "PRE_IDLE"}
                /\ fsm = "HOLD" => q < t
                /\ fsm \in {"STOP", "PRE_IDLE"} => q = t
                /\ fsm # "ADDR" => rw_cmd = Direction(w, q)

\* Bytes written and read when d commands are done.
Written(w, d) == IF d = 0 \/ w = 0 THEN 0 ELSE IF d <= w THEN d - 1 ELSE w - 1
ReadSoFar(w, d) == IF d > w + 1 THEN d - w - 1 ELSE 0

Chain(a) == \A i \in 1..(Len(a) - 1) : a[i + 1].reg = (a[i].reg + 1) % REGISTERS

\* The bytes a that have come: fresh, and without a gap if none was dropped.
Received(w, d, a) ==
    /\ Len(a) <= ReadSoFar(w, d)
    /\ \A i \in 1..Len(a) : a[i].fresh
    /\ Len(a) = ReadSoFar(w, d) =>
         Chain(a) /\ (a # <<>> => ptr = (a[Len(a)].reg + 1) % REGISTERS)

\* One byte written is the register the first byte read comes from.
Pointed(w, m, d, a) ==
    w = 2 => /\ d = 1 => first
             /\ d >= 2 /\ a = <<>> => ptr = m[1]
             /\ a # <<>> => a[1].reg = m[1]

OnTrack(w, t, m, p, a) ==
    /\ ctrl_en /\ ~Flush
    /\ Queue(w, t, m, p)
    /\ Place(w, t, m, Popped(p))
    /\ taken = SubSeq(m, 1, Written(w, Done(p)))
    /\ Received(w, Done(p), a)
    /\ Pointed(w, m, Done(p), a)

\* How many commands the whole transfer has, the part of them that is written,
\* and how many were put.
WriteLeg == IF op = "rx" THEN 0 ELSE Len(out) + 1
Total == WriteLeg + IF op = "tx" THEN 0 ELSE n + 1
PutCount ==
    IF pc = "begin" THEN WriteLeg
    ELSE (IF leg = "rx" THEN WriteLeg ELSE 0) + LegSize + 1 - left
         + (IF pc = "check" THEN 1 ELSE 0)

InLeg == pc \in {"put", "check", "collect", "quiesce", "arm"}
Turn == op = "txrx" /\ ((pc = "legDone" /\ leg = "tx") \/ (pc = "begin" /\ leg = "rx"))
\* The first leg has put its last command, the second has put none.
Between == Turn /\ status = "SUCCESS"

LocalInv ==
    /\ leg = "tx" => op # "rx"
    /\ leg = "rx" => op # "tx"
    /\ op = "rx" => out = <<>>
    /\ op = "tx" => n = 0
    /\ op = "txrx" => out # <<>> /\ n > 0
    /\ n = 0 => got = <<>>
    /\ ~(pc \in {"begin", "legDone"}) /\ (InLeg => leg = "tx" \/ ints) => got = <<>>
    /\ pc \in {"put", "check"} => left \in 1..(LegSize + 1)
    /\ InLeg => LegSize > 0 /\ (ints => registered)
    /\ pc = "collect" => left = 0 /\ leg = "rx" /\ ~ints
    /\ pc = "arm" => left = 0 /\ ints /\ Stop /\ status = "SUCCESS"
    /\ pc = "quiesce" /\ ~Stop => status \notin {"SUCCESS", "BAD_ARG"}
    /\ Between => left = 0 /\ got = <<>> /\ (ints => registered)
    /\ Turn => /\ status = "BAD_ARG" => ints /\ ~registered
               /\ pc = "begin" => status \notin Retried
    /\ ~registered => irq_busy = 0
    /\ armed => /\ pc \in {"legDone", "idle", "mask", "ask", "abort"}
                /\ pc = "legDone" => status = "SUCCESS" /\ Stop /\ ints
                /\ irq_busy = 1 => op = "tx"
                /\ irq_busy = 2 => op # "tx"

CoreInv ==
    /\ fsm \in {"IDLE", "PRE_IDLE"} => cmds = <<>>
    /\ fsm = "PRE_IDLE" => ctrl_en
    /\ fsm = "IDLE" => ~ctrl_en
    /\ Flush => cmds = <<>> /\ rx = <<>> /\ fsm \in {"STOP", "PRE_IDLE", "IDLE"}

\* Whose the core is: nobody's, a leg's, or the interrupt routine's.
OwnerInv ==
    /\ ctrl_en => irq_busy # 0 \/ InLeg \/ Between
    /\ irq_busy # 0 => /\ ctrl_en /\ ~InLeg /\ pc # "boot"
                       /\ Turn => status \notin {"SUCCESS", "TIMEOUT"}
    /\ irq_busy = 0 => iser = {} /\ isr = "out"
    /\ irq_busy = 1 => iser \cup saveints \subseteq {"TX_READY"}
    /\ irq_busy = 2 => iser \cup saveints \subseteq {"RX_READY"}
    /\ pc = "mask" => iser \subseteq saveints
    /\ pc \in {"ask", "abort"} => iser = {}
    /\ pc \notin {"mask", "ask", "abort"} => saveints = {}
    /\ pc = "abort" => irq_busy # 0 /\ isr = "out"
    /\ isr = "spin" => iser = {}
    /\ irq_busy = 2 /\ isr = "out" => irq_size > 0
    /\ pc \in {"check", "collect", "arm"} => ctrl_en

\* The core has done with its row and has nothing left; or is off as well.
Ended == fsm \in {"STOP", "PRE_IDLE"} /\ cmds = <<>> /\ rx = <<>>
Rest == ~ctrl_en /\ fsm = "IDLE" /\ cmds = <<>> /\ rx = <<>>

\* A leg works on its call's row, unless it was refused or lost the bus.
CallInv ==
    InLeg \/ Between =>
        ctrl_en /\ (Flush \/ OnTrack(WriteLeg, Total, out, PutCount, got \o rx))

\* The interrupt routine has the end of some row, the last call's when armed.
WriteLeft(w, m) == Row(w, w, m) /\ OnTrack(w, w, m, w, rx)
ReadLeft(w, t, m) ==
    /\ Row(w, t, m) /\ t > w /\ OnTrack(w, t, m, t, irq_got \o rx)
    /\ Len(irq_got) + irq_size = t - w - 1
    /\ armed => w = WriteLeg /\ t = Total /\ m = out

IrqInv ==
    /\ irq_busy = 1 => Ended \/ \E w \in Nat, m \in Seq(Register) : WriteLeft(w, m)
    /\ irq_busy = 2 /\ isr = "out" =>
         Ended \/ \E w, t \in Nat, m \in Seq(Register) : ReadLeft(w, t, m)
    /\ irq_busy = 2 /\ isr = "spin" => Ended /\ (armed => Fresh(irq_got, n))
    /\ armed /\ irq_busy = 0 /\ op # "tx" => Fresh(irq_got, n)

\* How a leg and a call end.
QuietInv == ~InLeg /\ ~Between /\ irq_busy = 0 => Rest
QuiesceInv ==
    /\ pc = "quiesce" =>
        \/ Flush
        \/ /\ left = 0 /\ Stop /\ ~ints
           /\ leg = "rx" => \/ Len(got) >= n
                            \/ fsm = "PRE_IDLE" /\ rx = <<>> /\ status = "TIMEOUT"
    /\ pc = "quiesce" /\ leg = "tx" => status # "TIMEOUT"
    /\ Turn => status # "TIMEOUT"
ReturnInv ==
    pc = "legDone" /\ Stop /\ status = "SUCCESS" /\ ~ints =>
        LegSize = 0 \/ (irq_busy = 0 /\ (~arblost_det => Delivered))

Timely == CallInv /\ IrqInv /\ QuietInv /\ QuiesceInv /\ ReturnInv
TimelyInv == ~late => Timely

FrameInv == TypeOK /\ CoreInv /\ LocalInv /\ OwnerInv

LevelInv == FrameInv /\ TimelyInv
----------------------------------------------------------------------------
(* Rows.                                                                   *)

\* The two bytes of the address number no register.
LEMMA Directions ==
    /\ ALT_AVALON_I2C_WRITE # ALT_AVALON_I2C_READ
    /\ Address \cap Register = {} /\ 0 \in Register
    /\ \A w, k : Direction(w, k) \in Address
    /\ \A r \in Register : (r + 1) % REGISTERS \in Register /\ r \in Nat
  BY DEF ALT_AVALON_I2C_WRITE, ALT_AVALON_I2C_READ, Address, Register, Direction

\* The commands taken are among those put.
LEMMA QueueFacts ==
    ASSUME NEW w \in Nat, NEW t \in Nat, NEW m, NEW p \in Nat,
           cmds \in Seq(Command), Queue(w, t, m, p)
    PROVE  Popped(p) \in Nat /\ Popped(p) <= p /\ p <= t
  BY DEF Queue, Popped

\* Taking the first command leaves the rest of the row in order.
LEMMA PopQueue ==
    ASSUME NEW w \in Nat, NEW t \in Nat, NEW m, NEW p \in Nat,
           cmds \in Seq(Command), Queue(w, t, m, p), cmds # <<>>, cmds' = Tail(cmds)
    PROVE  /\ Queue(w, t, m, p)'
           /\ Popped(p)' = Popped(p) + 1 /\ Popped(p) + 1 <= p
           /\ Head(cmds) = Cmd(w, t, m, Popped(p) + 1)
<1>1. /\ Len(cmds) \in Nat /\ Len(cmds) > 0 /\ Len(cmds') = Len(cmds) - 1
      /\ \A i \in 1..Len(cmds') : cmds'[i] = cmds[i + 1]
      /\ Head(cmds) = cmds[1]
  OBVIOUS
<1>2. Popped(p)' = Popped(p) + 1 /\ Popped(p) + 1 <= p
  BY <1>1 DEF Popped, Queue
<1>3. Head(cmds) = Cmd(w, t, m, Popped(p) + 1)
  BY <1>1 DEF Queue
<1>4. Len(cmds') <= p /\ p <= t
  BY <1>1 DEF Queue
<1>5. \A i \in 1..Len(cmds') : cmds'[i] = Cmd(w, t, m, Popped(p)' + i)
  <2> TAKE i \in 1..Len(cmds')
  <2>1. i + 1 \in 1..Len(cmds) /\ Popped(p) + (i + 1) = Popped(p)' + i
    BY <1>1, <1>2 DEF Popped
  <2>2. cmds[i + 1] = Cmd(w, t, m, Popped(p) + (i + 1))
    BY <2>1 DEF Queue
  <2> QED
    BY <1>1, <2>1, <2>2
<1> QED
  BY <1>2, <1>3, <1>4, <1>5 DEF Queue

\* The core goes on to a command of the same leg, or to the next address.
LEMMA PopPlace ==
    ASSUME NEW w \in Nat, NEW t \in Nat, NEW m, NEW p \in Nat,
           cmds \in Seq(Command), Queue(w, t, m, p), Popped(p) > 0, cmds # <<>>,
           Pop(Direction(w, Popped(p))), rw_cmd' = Direction(w, Popped(p))
    PROVE  /\ Queue(w, t, m, p)' /\ Place(w, t, m, Popped(p))'
           /\ Done(p)' = Popped(p) /\ Popped(p)' = Popped(p) + 1
           /\ fsm' \in {"ADDR", "TX", "RX"}
<1>1. PICK q \in Nat : q = Popped(p) /\ q <= p /\ q > 0
  BY QueueFacts
<1>2. /\ Queue(w, t, m, p)' /\ Popped(p)' = q + 1 /\ q + 1 <= p
      /\ cur' = Cmd(w, t, m, q + 1)
  BY <1>1, PopQueue DEF Pop
<1>3. fsm' = Kind(w, q + 1)
  <2>1. fsm' = IF w > 0 /\ q + 1 = w + 1 THEN "ADDR"
               ELSE IF Direction(w, q) = ALT_AVALON_I2C_WRITE THEN "TX" ELSE "RX"
    <3>1. Head(cmds) = Cmd(w, t, m, q + 1)
      BY <1>1, PopQueue DEF Pop
    <3>2. Head(cmds).sta = (w > 0 /\ q + 1 = w + 1)
      BY <3>1 DEF Cmd
    <3>3. fsm' = IF Head(cmds).sta THEN "ADDR"
                 ELSE IF Direction(w, q) = ALT_AVALON_I2C_WRITE THEN "TX" ELSE "RX"
      BY <1>1 DEF Pop
    <3> QED
      BY <3>2, <3>3
  <2>2. /\ q + 1 # 1
        /\ (q + 1 = w + 1 <=> q = w)
        /\ (q + 1 <= w <=> q < w)
        /\ (q <= w <=> q < w \/ q = w)
    BY <1>1
  <2>3. CASE q = w
    BY <1>1, <2>1, <2>2, <2>3 DEF Kind
  <2>4. CASE q < w
    <3>1. Direction(w, q) = ALT_AVALON_I2C_WRITE /\ q # w
      BY <1>1, <2>4 DEF Direction
    <3> QED
      BY <2>1, <2>2, <2>4, <3>1 DEF Kind
  <2>5. CASE q > w
    <3>1. Direction(w, q) # ALT_AVALON_I2C_WRITE /\ q # w /\ ~(q < w)
      BY <1>1, <2>5, Directions DEF Direction
    <3> QED
      BY <2>1, <2>2, <3>1 DEF Kind
  <2> QED
    BY <1>1, <2>3, <2>4, <2>5
<1>4. fsm' # "ADDR" => rw_cmd' = Direction(w, q + 1)
  <2>1. rw_cmd' = Direction(w, q)
    BY <1>1
  <2> QED
    BY <1>1, <1>3, <2>1 DEF Kind, Direction
<1>5. fsm' \in {"ADDR", "TX", "RX"}
  BY <1>3 DEF Kind
<1>6. Done(p)' = q
  BY <1>1, <1>2, <1>5 DEF Done
<1>7. Place(w, t, m, Popped(p))'
  <2>1. q + 1 # 0 /\ q + 1 > 0
    BY <1>1
  <2> QED
    BY <1>2, <1>3, <1>4, <1>5, <2>1 DEF Place
<1> QED
  BY <1>1, <1>2, <1>5, <1>6, <1>7

\* After a command, the core is at the next one, or waits for it.
LEMMA ProceedPlace ==
    ASSUME NEW w \in Nat, NEW t \in Nat, NEW m, NEW p \in Nat,
           cmds \in Seq(Command), Queue(w, t, m, p), Popped(p) > 0, Popped(p) < t,
           cur = Cmd(w, t, m, Popped(p)),
           Proceed(Direction(w, Popped(p))), rw_cmd' = Direction(w, Popped(p))
    PROVE  /\ Queue(w, t, m, p)' /\ Place(w, t, m, Popped(p))'
           /\ Done(p)' = Popped(p)
<1>1. CASE cmds # <<>>
  BY <1>1, PopPlace DEF Proceed
<1>2. CASE cmds = <<>>
  <2>1. fsm' = "HOLD" /\ cmds' = cmds /\ cur' = cur
    BY <1>2 DEF Proceed
  <2>2. Popped(p)' = Popped(p) /\ Popped(p) \in Nat
    BY <2>1, QueueFacts DEF Popped
  <2>3. Done(p)' = Popped(p)
    BY <2>1, <2>2 DEF Done
  <2>4. Queue(w, t, m, p)'
    BY <2>1, <2>2 DEF Queue
  <2>5. Place(w, t, m, Popped(p))'
    BY <2>1, <2>2 DEF Place
  <2> QED
    BY <2>2, <2>3, <2>4, <2>5
<1> QED
  BY <1>1, <1>2

\* After a byte as well, and the last command leads to the STOP.
LEMMA AfterBytePlace ==
    ASSUME NEW w \in Nat, NEW t \in Nat, NEW m, NEW p \in Nat,
           cmds \in Seq(Command), Queue(w, t, m, p), Popped(p) > 0,
           Place(w, t, m, Popped(p)), fsm \in {"TX", "RX"}, AfterByte, rw_cmd' = rw_cmd
    PROVE  /\ Queue(w, t, m, p)' /\ Place(w, t, m, Popped(p))'
           /\ Done(p)' = Popped(p)
<1>1. Popped(p) \in Nat /\ Popped(p) <= p /\ p <= t
  BY QueueFacts
<1>2. cur = Cmd(w, t, m, Popped(p)) /\ rw_cmd = Direction(w, Popped(p))
  BY DEF Place
<1>3. cur.sto <=> Popped(p) = t
  BY <1>2 DEF Cmd
<1>4. CASE Popped(p) = t
  <2>1. fsm' = "STOP" /\ cmds' = cmds /\ cur' = cur
    BY <1>3, <1>4 DEF AfterByte
  <2>2. Popped(p)' = Popped(p) /\ Done(p)' = Popped(p)
    BY <2>1 DEF Popped, Done
  <2>3. Queue(w, t, m, p)'
    BY <2>1, <2>2 DEF Queue
  <2>4. Place(w, t, m, Popped(p))'
    BY <1>1, <1>2, <1>4, <2>1, <2>2 DEF Place
  <2> QED
    BY <2>2, <2>3, <2>4
<1>5. CASE Popped(p) # t
  <2>1. Proceed(Direction(w, Popped(p))) /\ Popped(p) < t
    BY <1>1, <1>2, <1>3, <1>5 DEF AfterByte
  <2> QED
    BY <1>2, <2>1, ProceedPlace
<1> QED
  BY <1>4, <1>5
----------------------------------------------------------------------------
(* The core's steps on such a row.                                         *)

\* Where the core is, in numbers and in the states of its machine.
LEMMA TrackFacts ==
    ASSUME NEW w \in Nat, NEW t \in Nat, NEW m \in Seq(Register), NEW p \in Nat,
           NEW a \in Seq(Byte), CoreTypeOK, OnTrack(w, t, m, p, a)
    PROVE  /\ cmds \in Seq(Command) /\ Queue(w, t, m, p)
           /\ Popped(p) \in Nat /\ Popped(p) <= p /\ p <= t
           /\ Place(w, t, m, Popped(p))
           /\ fsm = "PRE_START" <=> Popped(p) = 0
           /\ fsm \in {"ADDR", "TX", "RX"} => Kind(w, Popped(p)) = fsm
<1>1. cmds \in Seq(Command) /\ Queue(w, t, m, p) /\ Place(w, t, m, Popped(p))
  BY DEF CoreTypeOK, OnTrack
<1>2. Popped(p) \in Nat /\ Popped(p) <= p /\ p <= t
  BY <1>1, QueueFacts
<1> QED
  BY <1>1, <1>2 DEF Place, Kind

\* START: the first command, the address, is taken; nothing has come.
LEMMA TrackStart ==
    ASSUME NEW w \in Nat, NEW t \in Nat, NEW m \in Seq(Register), NEW p \in Nat,
           NEW a \in Seq(Byte), CoreTypeOK, OnTrack(w, t, m, p, a), Start
    PROVE  OnTrack(w, t, m, p, a)' /\ a = <<>>
<1>1. Popped(p) = 0 /\ cmds \in Seq(Command) /\ Queue(w, t, m, p) /\ cmds # <<>>
  BY TrackFacts DEF Start
<1>2. Done(p) = 0
  BY <1>1 DEF Done, Start
<1>3. a = <<>> /\ Len(a) = 0
  BY <1>2 DEF OnTrack, Received, ReadSoFar
<1>4. /\ Queue(w, t, m, p)' /\ Popped(p)' = 1 /\ cur' = Cmd(w, t, m, 1)
  BY <1>1, PopQueue DEF Start
<1>5. Done(p)' = 0
  BY <1>4 DEF Done, Start
<1>6. Place(w, t, m, Popped(p))'
  BY <1>4 DEF Place, Start, Kind
<1>7. taken' = SubSeq(m, 1, Written(w, Done(p)'))
  BY <1>5 DEF Start, Written
<1>8. Received(w, Done(p), a)' /\ Pointed(w, m, Done(p), a)'
  BY <1>3, <1>5 DEF Received, Pointed, ReadSoFar, Chain
<1> QED
  BY <1>3, <1>4, <1>6, <1>7, <1>8 DEF OnTrack, Start, ctrlVars, flagVars, Flush

\* The device has answered to its address.
LEMMA TrackAddress ==
    ASSUME NEW w \in Nat, NEW t \in Nat, NEW m \in Seq(Register), NEW p \in Nat,
           NEW a \in Seq(Byte), Row(w, t, m), CoreTypeOK, OnTrack(w, t, m, p, a), AddressTaken
    PROVE  OnTrack(w, t, m, p, a)'
<1>1. PICK q \in Nat : q = Popped(p)
  BY TrackFacts
<1>2. q > 0 /\ q <= t /\ (q = 1 \/ q = w + 1) /\ q < t
  <2>1. q > 0 /\ q <= t
    BY <1>1, TrackFacts DEF AddressTaken
  <2>2. Kind(w, q) = "ADDR"
    BY <1>1, TrackFacts DEF AddressTaken
  <2>3. q = 1 \/ q = w + 1
    BY <2>2 DEF Kind
  <2> QED
    BY <2>1, <2>3 DEF Row
<1>3. cur = Cmd(w, t, m, q) /\ cur.val = Direction(w, q)
  <2>1. cur = Cmd(w, t, m, q)
    BY <1>1, <1>2, TrackFacts DEF Place
  <2> QED
    BY <2>1, <1>2 DEF Cmd, Value, Kind
<1>4. Queue(w, t, m, p)' /\ Place(w, t, m, Popped(p))' /\ Done(p)' = q
  BY <1>1, <1>2, <1>3, TrackFacts, ProceedPlace DEF AddressTaken
<1>5. Done(p) = q - 1
  BY <1>1 DEF Done, AddressTaken
<1>6. Written(w, q) = Written(w, q - 1) /\ ReadSoFar(w, q) = 0 /\ ReadSoFar(w, q - 1) = 0
  BY <1>2 DEF Written, ReadSoFar
<1>7. UNCHANGED <<taken, ptr, ctrl_en, nack_det, arblost_det>> /\ first' = TRUE
  BY DEF AddressTaken, ctrlVars, flagVars
<1>8. taken' = SubSeq(m, 1, Written(w, Done(p)'))
  BY <1>4, <1>5, <1>6, <1>7 DEF OnTrack
<1>9. Received(w, Done(p), a)'
  BY <1>4, <1>5, <1>6, <1>7 DEF OnTrack, Received
<1>10. Pointed(w, m, Done(p), a)'
  BY <1>2, <1>4, <1>5, <1>7 DEF OnTrack, Pointed
<1> QED
  BY <1>4, <1>7, <1>8, <1>9, <1>10 DEF OnTrack, Flush

\* One byte more of a message.
LEMMA SubSeqGrows ==
    ASSUME NEW m \in Seq(Register), NEW i \in Nat, i < Len(m)
    PROVE  Append(SubSeq(m, 1, i), m[i + 1]) = SubSeq(m, 1, i + 1)
  OBVIOUS

\* One byte is written: the next one of the message.
LEMMA TrackSent ==
    ASSUME NEW w \in Nat, NEW t \in Nat, NEW m \in Seq(Register), NEW p \in Nat,
           NEW a \in Seq(Byte), Row(w, t, m), CoreTypeOK, OnTrack(w, t, m, p, a), ByteSent
    PROVE  OnTrack(w, t, m, p, a)'
<1>1. PICK q \in Nat : q = Popped(p)
  BY TrackFacts
<1>2. q > 1 /\ q <= w /\ w = Len(m) + 1
  <2>1. q > 0 /\ Kind(w, q) = "TX"
    BY <1>1, TrackFacts DEF ByteSent
  <2>2. q # 1 /\ q <= w
    BY <2>1 DEF Kind
  <2> QED
    BY <2>1, <2>2 DEF Row
<1>3. cur.val = m[q - 1] /\ m[q - 1] \in Register
  <2>1. cur = Cmd(w, t, m, q) /\ Kind(w, q) = "TX"
    BY <1>1, <1>2, TrackFacts DEF Place, ByteSent
  <2>2. q - 1 \in 1..Len(m)
    BY <1>2
  <2> QED
    BY <1>2, <2>1, <2>2 DEF Cmd, Value
<1>4. Queue(w, t, m, p)' /\ Place(w, t, m, Popped(p))' /\ Done(p)' = q
  BY <1>1, <1>2, TrackFacts, AfterBytePlace DEF ByteSent
<1>5. Done(p) = q - 1
  BY <1>1 DEF Done, ByteSent
<1>6. /\ Written(w, q) = q - 1 /\ Written(w, q - 1) = q - 2
      /\ ReadSoFar(w, q) = 0 /\ ReadSoFar(w, q - 1) = 0
  BY <1>2 DEF Written, ReadSoFar
<1>7. /\ UNCHANGED <<ctrl_en, nack_det, arblost_det>>
      /\ taken' = Append(taken, cur.val)
      /\ first => ptr' = m[q - 1]
  BY <1>3 DEF ByteSent, ctrlVars, flagVars
<1>8. taken' = SubSeq(m, 1, Written(w, Done(p)'))
  <2>1. taken = SubSeq(m, 1, q - 2)
    BY <1>5, <1>6 DEF OnTrack
  <2>2. PICK i \in Nat : i = q - 2
    BY <1>2
  <2>3. i < Len(m) /\ i + 1 = q - 1
    BY <1>2, <2>2
  <2>4. Append(SubSeq(m, 1, i), m[i + 1]) = SubSeq(m, 1, i + 1)
    BY <2>3, SubSeqGrows
  <2> QED
    BY <1>3, <1>4, <1>6, <1>7, <2>1, <2>2, <2>3, <2>4
<1>9. a = <<>> /\ Len(a) = 0
  BY <1>5, <1>6 DEF OnTrack, Received
<1>10. Received(w, Done(p), a)'
  BY <1>4, <1>6, <1>9 DEF Received, Chain
<1>11. Pointed(w, m, Done(p), a)'
  <2> SUFFICES ASSUME w = 2 PROVE Pointed(w, m, Done(p), a)'
    BY DEF Pointed
  <2>1. q = 2 /\ q - 1 = 1
    BY <1>2
  <2>2. first
    BY <1>5, <2>1 DEF OnTrack, Pointed
  <2> QED
    BY <1>4, <1>7, <1>9, <2>1, <2>2 DEF Pointed
<1> QED
  BY <1>4, <1>7, <1>8, <1>10, <1>11 DEF OnTrack, Flush

\* One byte more from the next register.
LEMMA ChainGrows ==
    ASSUME NEW a \in Seq(Byte), NEW x \in Byte, Chain(a),
           a # <<>> => x.reg = (a[Len(a)].reg + 1) % REGISTERS
    PROVE  Chain(Append(a, x))
<1> SUFFICES ASSUME NEW i \in 1..(Len(Append(a, x)) - 1)
             PROVE  Append(a, x)[i + 1].reg = (Append(a, x)[i].reg + 1) % REGISTERS
  BY DEF Chain
<1>1. Len(Append(a, x)) = Len(a) + 1 /\ Len(a) \in Nat
  OBVIOUS
<1>2. i \in 1..Len(a) /\ Append(a, x)[i] = a[i]
  BY <1>1
<1>3. CASE i = Len(a)
  BY <1>1, <1>2, <1>3
<1>4. CASE i # Len(a)
  <2>1. i + 1 \in 1..Len(a) /\ i \in 1..(Len(a) - 1)
    BY <1>1, <1>2, <1>4
  <2>2. Append(a, x)[i + 1] = a[i + 1]
    BY <2>1
  <2> QED
    BY <1>2, <2>1, <2>2 DEF Chain
<1> QED
  BY <1>3, <1>4

\* A byte comes, or is dropped by a full FIFO.
LEMMA TrackReceived ==
    ASSUME NEW w \in Nat, NEW t \in Nat, NEW m \in Seq(Register), NEW p \in Nat,
           NEW a \in Seq(Byte), Row(w, t, m), CoreTypeOK, OnTrack(w, t, m, p, a), ByteReceived,
           rx # <<>> => a # <<>>
    PROVE  \/ OnTrack(w, t, m, p, a)' /\ rx' = rx
           \/ \E x \in Byte : OnTrack(w, t, m, p, Append(a, x))' /\ rx' = Append(rx, x)
<1>1. PICK q \in Nat : q = Popped(p)
  BY TrackFacts
<1>2. q > w + 1
  <2>1. q > 0 /\ Kind(w, q) = "RX"
    BY <1>1, TrackFacts DEF ByteReceived
  <2> QED
    BY <2>1 DEF Kind
<1>3. Queue(w, t, m, p)' /\ Place(w, t, m, Popped(p))' /\ Done(p)' = q
  BY <1>1, <1>2, TrackFacts, AfterBytePlace DEF ByteReceived
<1>4. Done(p) = q - 1
  BY <1>1 DEF Done, ByteReceived
<1>5. /\ Written(w, q) = Written(w, q - 1)
      /\ ReadSoFar(w, q) = q - w - 1 /\ ReadSoFar(w, q - 1) = q - w - 2
  BY <1>2 DEF Written, ReadSoFar
<1>6. /\ UNCHANGED <<ctrl_en, nack_det, arblost_det, taken>>
      /\ ptr' = (ptr + 1) % REGISTERS
      /\ IF Len(rx) = FIFO_DEPTH THEN rx' = rx
         ELSE rx' = Append(rx, [reg |-> ptr, fresh |-> TRUE])
  BY DEF ByteReceived, OnTrack, ctrlVars
<1>7. taken' = SubSeq(m, 1, Written(w, Done(p)'))
  BY <1>3, <1>4, <1>5, <1>6 DEF OnTrack
<1>8. Len(a) \in Nat /\ Len(a) <= q - w - 2 /\ \A i \in 1..Len(a) : a[i].fresh
  BY <1>4, <1>5 DEF OnTrack, Received
<1>9. ~Flush'
  BY <1>6 DEF OnTrack, Flush
<1>10. CASE Len(rx) = FIFO_DEPTH
  <2>1. a # <<>>
    BY <1>10 DEF CoreAssumption
  <2>2. Received(w, Done(p), a)'
    BY <1>3, <1>5, <1>8 DEF Received
  <2>3. Pointed(w, m, Done(p), a)'
    BY <1>2, <1>3, <2>1 DEF OnTrack, Pointed
  <2> QED
    BY <1>3, <1>6, <1>7, <1>9, <1>10, <2>2, <2>3 DEF OnTrack
<1>11. CASE Len(rx) # FIFO_DEPTH
  <2>1. PICK x \in Byte : x = [reg |-> ptr, fresh |-> TRUE]
    BY DEF CoreTypeOK, Byte
  <2>2. x.reg = ptr /\ x.fresh
    BY <2>1
  <2>3. PICK b \in Seq(Byte) : b = Append(a, x)
    <3>1. Append(a, x) \in Seq(Byte)
      BY <2>1
    <3> QED
      BY <3>1
  <2>4. /\ Len(b) = Len(a) + 1 /\ b # <<>>
        /\ b[Len(b)] = x
        /\ \A i \in 1..Len(a) : b[i] = a[i]
    BY <2>3
  <2>5. Received(w, Done(p), b)'
    <3>1. Len(b) <= q - w - 1
      BY <1>8, <2>4
    <3>2. \A i \in 1..Len(b) : b[i].fresh
      <4> TAKE i \in 1..Len(b)
      <4>1. i \in 1..Len(a) \/ i = Len(b)
        BY <1>8, <2>4
      <4> QED
        BY <1>8, <2>2, <2>4, <4>1
    <3>3. Len(b) = q - w - 1 => Chain(b)
      <4> SUFFICES ASSUME Len(b) = q - w - 1 PROVE Chain(b)
        OBVIOUS
      <4>1. Len(a) = ReadSoFar(w, Done(p))
        BY <1>4, <1>5, <1>8, <2>4
      <4>2. Chain(a) /\ (a # <<>> => x.reg = (a[Len(a)].reg + 1) % REGISTERS)
        BY <4>1, <2>2 DEF OnTrack, Received
      <4> QED
        BY <2>3, <4>2, ChainGrows
    <3>4. ptr' = (b[Len(b)].reg + 1) % REGISTERS
      BY <1>6, <2>2, <2>4
    <3>5. Len(b) <= ReadSoFar(w, Done(p)')
          /\ (Len(b) = ReadSoFar(w, Done(p)') => Chain(b))
      BY <1>3, <1>5, <3>1, <3>3
    <3> QED
      BY <3>2, <3>4, <3>5 DEF Received, Chain
  <2>6. Pointed(w, m, Done(p), b)'
    <3> SUFFICES ASSUME w = 2 PROVE b[1].reg = m[1] /\ Done(p)' # 1
      BY <2>4 DEF Pointed
    <3>1. Done(p)' # 1 /\ Done(p) >= 2
      BY <1>2, <1>3, <1>4
    <3>2. CASE a = <<>>
      <4>1. ptr = m[1]
        BY <3>1, <3>2 DEF OnTrack, Pointed
      <4>2. Len(b) = 1
        BY <2>4, <3>2
      <4> QED
        BY <2>2, <2>4, <3>1, <4>1, <4>2
    <3>3. CASE a # <<>>
      <4>1. a[1].reg = m[1] /\ 1 \in 1..Len(a)
        BY <3>3 DEF OnTrack, Pointed
      <4> QED
        BY <2>4, <3>1, <4>1
    <3> QED
      BY <3>2, <3>3
  <2>7. rx' = Append(rx, x)
    BY <1>6, <1>11, <2>1
  <2>8. OnTrack(w, t, m, p, b)'
    BY <1>3, <1>6, <1>7, <1>9, <2>5, <2>6 DEF OnTrack
  <2> QED
    BY <2>3, <2>7, <2>8
<1> QED
  BY <1>10, <1>11

\* The command the core waited for is there.
LEMMA TrackResume ==
    ASSUME NEW w \in Nat, NEW t \in Nat, NEW m \in Seq(Register), NEW p \in Nat,
           NEW a \in Seq(Byte), CoreTypeOK, OnTrack(w, t, m, p, a), Resume
    PROVE  OnTrack(w, t, m, p, a)'
<1>1. Popped(p) > 0 /\ rw_cmd = Direction(w, Popped(p)) /\ Done(p) = Popped(p)
  BY TrackFacts DEF Resume, Place, Done
<1>2. Queue(w, t, m, p)' /\ Place(w, t, m, Popped(p))' /\ Done(p)' = Done(p)
  BY <1>1, TrackFacts, PopPlace DEF Resume
<1> QED
  BY <1>2 DEF OnTrack, Resume, ctrlVars, flagVars, deviceVars, Flush, Received, Pointed

\* The row is at its end.
LEMMA TrackStopped ==
    ASSUME NEW w \in Nat, NEW t \in Nat, NEW m \in Seq(Register), NEW p \in Nat,
           NEW a \in Seq(Byte), CoreTypeOK, OnTrack(w, t, m, p, a), Stopped
    PROVE  OnTrack(w, t, m, p, a)'
<1>1. Popped(p) = t /\ t > 0 /\ p = t
  BY TrackFacts DEF Stopped, Place
<1>2. cmds = <<>>
  BY <1>1, TrackFacts DEF Popped
<1>3. fsm' = "PRE_IDLE" /\ UNCHANGED <<cmds, cur, rw_cmd>>
  BY <1>2 DEF Stopped, OnTrack
<1>4. Popped(p)' = Popped(p) /\ Done(p)' = Done(p)
  BY <1>3 DEF Popped, Done, Stopped
<1>5. Queue(w, t, m, p)'
  BY <1>3, <1>4 DEF OnTrack, Queue
<1>6. Place(w, t, m, Popped(p))'
  BY <1>1, <1>3, <1>4, TrackFacts DEF Place, Stopped
<1> QED
  BY <1>4, <1>5, <1>6
     DEF OnTrack, Stopped, ctrlVars, flagVars, deviceVars, Flush, Received, Pointed
----------------------------------------------------------------------------
(* The program's steps, and the types.                                     *)

\* A call as the proofs need it: any message, any size.
SomeCall ==
    \E o \in {"tx", "rx", "txrx"}, i \in BOOLEAN, m \in Seq(Register), s \in Nat :
        /\ o = "tx" => s = 0
        /\ o = "rx" => m = <<>>
        /\ o = "txrx" => m # <<>> /\ s > 0
        /\ Call(o, i, m, s)

DriverStep ==
    \/ InitDevice \/ Register_ \/ SomeCall \/ AskStatus
    \/ Leg \/ LegRetry \/ LegNext \/ LegReturn
    \/ Mask \/ Ask \/ Abort \/ Interrupt \/ IrqEnd \/ Device

\* What a program may call.
LEMMA AnyCallIsSome == AnyCall => SomeCall
<1> SUFFICES ASSUME AnyCall PROVE SomeCall
  OBVIOUS
<1>1. CASE \E i \in BOOLEAN, m \in Messages : Call("tx", i, m, 0)
  BY <1>1 DEF SomeCall
<1>2. CASE \E i \in BOOLEAN, s \in Sizes : Call("rx", i, <<>>, s)
  <2>1. <<>> \in Seq(Register)
    OBVIOUS
  <2> QED
    BY <1>2, <2>1 DEF SomeCall
<1>3. CASE \E i \in BOOLEAN, m \in Pointers, s \in Sizes \ {0} : Call("txrx", i, m, s)
  <2>1. PICK i \in BOOLEAN, m \in Pointers, s \in Sizes \ {0} : Call("txrx", i, m, s)
    BY <1>3
  <2>2. m \in Seq(Register) /\ m # <<>> /\ s \in Nat /\ s > 0
    BY <2>1
  <2> QED
    BY <2>1, <2>2 DEF SomeCall
<1> QED
  BY <1>1, <1>2, <1>3 DEF AnyCall

\* The driver in the hands of any program.
LEMMA NextIsDriver == Next => DriverStep
  BY AnyCallIsSome
     DEF Next, AnyProgram, Foreground, Transfer, LegDone, StatusGoesOn, Isr, DriverStep

\* What main adds to the driver restricts it, and changes nothing of it.
LEMMA LevelIsDriver == [LevelNext]_levelVars => DriverStep \/ UNCHANGED vars
<1> SUFFICES ASSUME [LevelNext]_levelVars PROVE DriverStep \/ UNCHANGED vars
  OBVIOUS
<1>1. CASE MainCalls
  <2>1. DEVID_REG \in Register /\ POWER_CTL_REG \in Register /\ MEASURE \in Register
        /\ DATA_X0_REG \in Register
    BY DeviceAssumption
       DEF DEVID_REG, POWER_CTL_REG, MEASURE, DATA_X0_REG, AXES_SIZE, Register
  <2>2. /\ \A m \in Seq(Register), s \in Nat :
              m # <<>> /\ s > 0 /\ Call("txrx", FALSE, m, s) => SomeCall
        /\ \A m \in Seq(Register) : Call("tx", FALSE, m, 0) => SomeCall
    BY DEF SomeCall
  <2>3. /\ <<DEVID_REG>> \in Seq(Register) /\ <<DEVID_REG>> # <<>>
        /\ <<DATA_X0_REG>> \in Seq(Register) /\ <<DATA_X0_REG>> # <<>>
        /\ <<POWER_CTL_REG, MEASURE>> \in Seq(Register)
        /\ AXES_SIZE \in Nat /\ AXES_SIZE > 0 /\ 1 \in Nat /\ 1 > 0
    BY <2>1 DEF AXES_SIZE
  <2>4. \/ Call("txrx", FALSE, <<DEVID_REG>>, 1)
        \/ Call("tx", FALSE, <<POWER_CTL_REG, MEASURE>>, 0)
        \/ Call("txrx", FALSE, <<DATA_X0_REG>>, AXES_SIZE)
    BY <1>1, Zenon DEF MainCalls, ReadId, StartMeasuring, ReadAxes
  <2>5. SomeCall
    BY <2>2, <2>3, <2>4, Zenon
  <2> QED
    BY <2>5 DEF DriverStep
<1>2. CASE OtherProgram
  BY <1>2, AnyCallIsSome DEF OtherProgram, AnyProgram, DriverStep
<1>3. CASE Main /\ ~MainCalls
  BY <1>3 DEF Main, Boot, Return, GoOn, StatusGoesOn, Sleep, DriverStep
<1>4. CASE Serve \/ Clock
  BY <1>4 DEF Serve, Clock, Isr, DriverStep
<1>5. CASE PrintReturns \/ Exited \/ UNCHANGED levelVars
  BY <1>5 DEF PrintReturns, Exited, levelVars
<1> QED
  BY <1>1, <1>2, <1>3, <1>4, <1>5 DEF LevelNext

\* Old bytes are bytes.
LEMMA StaleType == ASSUME NEW a \in Seq(Byte) PROVE Stale(a) \in Seq(Byte) /\ Len(Stale(a)) = Len(a)
<1>1. DOMAIN a = 1..Len(a) /\ Len(a) \in Nat /\ \A i \in 1..Len(a) : a[i] \in Byte
  OBVIOUS
<1>2. \A x \in Byte : [x EXCEPT !.fresh = FALSE] \in Byte
  BY DEF Byte
<1>3. Stale(a) = [i \in 1..Len(a) |-> [a[i] EXCEPT !.fresh = FALSE]]
  BY <1>1 DEF Stale
<1> QED
  BY <1>1, <1>2, <1>3

\* A command less is a row of commands.
LEMMA TailType ==
    ASSUME CoreTypeOK, cmds # <<>>
    PROVE  /\ Tail(cmds) \in Seq(Command) /\ Len(Tail(cmds)) <= FIFO_DEPTH
           /\ Head(cmds) \in Command
  BY DEF CoreTypeOK

\* What moves the row of commands.
LEMMA PopType ==
    ASSUME CoreTypeOK, NEW d,
           \/ cmds # <<>> /\ Pop(d)
           \/ Proceed(d)
           \/ AfterByte
    PROVE  /\ cmds' \in Seq(Command) /\ Len(cmds') <= FIFO_DEPTH
           /\ cur' \in Command
           /\ fsm' \in {"ADDR", "TX", "RX", "HOLD", "STOP"}
<1>1. ASSUME NEW e, cmds # <<>>, Pop(e)
      PROVE  /\ cmds' \in Seq(Command) /\ Len(cmds') <= FIFO_DEPTH
             /\ cur' \in Command
             /\ fsm' \in {"ADDR", "TX", "RX", "HOLD", "STOP"}
  BY <1>1, TailType DEF Pop
<1>2. ASSUME NEW e, Proceed(e)
      PROVE  /\ cmds' \in Seq(Command) /\ Len(cmds') <= FIFO_DEPTH
             /\ cur' \in Command
             /\ fsm' \in {"ADDR", "TX", "RX", "HOLD", "STOP"}
  BY <1>1, <1>2 DEF Proceed, CoreTypeOK
<1> QED
  BY <1>1, <1>2 DEF AfterByte, CoreTypeOK

\* The core's steps keep its types.
LEMMA CoreStepType == ASSUME CoreTypeOK, CoreStep PROVE CoreTypeOK'
<1> USE DEF ctrlVars, flagVars, deviceVars
<1>1. CASE Start
  BY <1>1, TailType, StaleType DEF Start, CoreTypeOK
<1>2. CASE AddressTaken
  <2>1. /\ cmds' \in Seq(Command) /\ Len(cmds') <= FIFO_DEPTH /\ cur' \in Command
        /\ fsm' \in {"ADDR", "TX", "RX", "HOLD", "STOP"}
    BY <1>2, PopType DEF AddressTaken
  <2> QED
    BY <1>2, <2>1 DEF AddressTaken, CoreTypeOK
<1>3. CASE Refuse
  BY <1>3 DEF Refuse, CoreTypeOK
<1>4. CASE LoseBus
  BY <1>4 DEF LoseBus, CoreTypeOK
<1>5. CASE ByteSent
  <2>1. /\ cmds' \in Seq(Command) /\ Len(cmds') <= FIFO_DEPTH /\ cur' \in Command
        /\ fsm' \in {"ADDR", "TX", "RX", "HOLD", "STOP"}
    BY <1>5, PopType DEF ByteSent
  <2>2. cur.val \in Address \cup Register
    BY DEF CoreTypeOK, Command
  <2>3. taken' \in Seq(Address \cup Register)
    BY <1>5, <2>2 DEF ByteSent, CoreTypeOK
  <2>4. ptr' \in Register
    BY <1>5, Directions DEF ByteSent, CoreTypeOK
  <2> QED
    BY <1>5, <2>1, <2>3, <2>4 DEF ByteSent, CoreTypeOK
<1>6. CASE ByteReceived
  <2>1. /\ cmds' \in Seq(Command) /\ Len(cmds') <= FIFO_DEPTH /\ cur' \in Command
        /\ fsm' \in {"ADDR", "TX", "RX", "HOLD", "STOP"}
    BY <1>6, PopType DEF ByteReceived
  <2>2. ptr' \in Register /\ rx_over' \in BOOLEAN
    BY <1>6, Directions DEF ByteReceived, CoreTypeOK
  <2>3. rx' \in Seq(Byte) /\ Len(rx') <= FIFO_DEPTH
    <3>1. [reg |-> ptr, fresh |-> TRUE] \in Byte
      BY DEF CoreTypeOK, Byte
    <3>2. CASE rx' = rx
      BY <3>2 DEF CoreTypeOK
    <3>3. CASE Len(rx) # FIFO_DEPTH /\ rx' = Append(rx, [reg |-> ptr, fresh |-> TRUE])
      <4>1. Len(rx) < FIFO_DEPTH /\ rx \in Seq(Byte)
        BY <3>3 DEF CoreTypeOK
      <4> QED
        BY <3>1, <3>3, <4>1
    <3> QED
      BY <1>6, <3>2, <3>3 DEF ByteReceived
  <2> QED
    BY <1>6, <2>1, <2>2, <2>3 DEF ByteReceived, CoreTypeOK
<1>7. CASE Resume
  <2>1. /\ cmds' \in Seq(Command) /\ Len(cmds') <= FIFO_DEPTH /\ cur' \in Command
        /\ fsm' \in {"ADDR", "TX", "RX", "HOLD", "STOP"}
    BY <1>7, PopType DEF Resume
  <2> QED
    BY <1>7, <2>1 DEF Resume, CoreTypeOK
<1>8. CASE Stopped
  BY <1>8 DEF Stopped, CoreTypeOK
<1> QED
  BY <1>1, <1>2, <1>3, <1>4, <1>5, <1>6, <1>7, <1>8 DEF CoreStep

\* What is put is a command.
LEMMA CommandType == ASSUME TypeOK, LocalInv, pc = "put" PROVE TheCommand \in Command
<1>1. left \in 1..(LegSize + 1) /\ LegSize \in Nat /\ (leg = "tx" => LegSize = Len(out))
      /\ (leg # "tx" => leg = "rx")
  BY DEF LocalInv, LegSize, TypeOK
<1>2. CASE left = LegSize + 1
  BY <1>2 DEF TheCommand, Command, Address, Stop, Restart
<1>3. CASE left # LegSize + 1 /\ leg = "tx"
  <2>1. LegSize + 1 - left \in 1..Len(out)
    BY <1>1, <1>3
  <2>2. out[LegSize + 1 - left] \in Register
    BY <2>1 DEF TypeOK
  <2> QED
    BY <1>3, <2>2 DEF TheCommand, Command, Stop, Restart
<1>4. CASE left # LegSize + 1 /\ leg # "tx"
  BY <1>4, Directions DEF TheCommand, Command, Stop, Restart
<1> QED
  BY <1>2, <1>3, <1>4

\* The empty sequence has every type.
LEMMA EmptyType ==
    /\ <<>> \in Seq(Byte) /\ <<>> \in Seq(Register) /\ <<>> \in Seq(Address \cup Register)
    /\ <<>> \in Seq(Command) /\ Len(<<>>) = 0 /\ 0 <= FIFO_DEPTH
  OBVIOUS

\* A wait keeps the types of what it counts.
LEMMA WaitedType ==
    ASSUME TypeOK, NEW done, Waited(done)
    PROVE  late' \in BOOLEAN /\ stretches' \in 0..MaxStretches
<1>1. late \in BOOLEAN /\ stretches \in 0..MaxStretches
  BY DEF TypeOK
<1>2. late' \in BOOLEAN
  BY <1>1 DEF Waited
<1>3. stretches' \in 0..MaxStretches
  BY <1>1 DEF Waited
<1> QED
  BY <1>2, <1>3

\* Forgetting a transfer, or keeping it, keeps its types.
LEMMA ForgetType ==
    ASSUME TypeOK, Keep \/ Forget
    PROVE  /\ op' \in {"tx", "rx", "txrx"} /\ leg' \in {"tx", "rx"} /\ ints' \in BOOLEAN
           /\ out' \in Seq(Register) /\ n' \in Nat /\ irq_got' \in Seq(Byte)
           /\ armed' \in BOOLEAN /\ wiped' \in BOOLEAN
<1>1. CASE Keep
  BY <1>1 DEF TypeOK, Keep
<1>2. CASE Forget
  BY <1>2, EmptyType DEF Forget
<1> QED
  BY <1>1, <1>2

\* Every step keeps every type; the labels bound what is left to put.
LEMMA DriverTypeStep == ASSUME TypeOK, LocalInv, DriverStep PROVE TypeOK'
<1> USE DEF ctrlVars, flagVars, fifoVars, deviceVars, coreVars, callVars, irqVars, historyVars
<1>1. CASE InitDevice
  BY <1>1 DEF InitDevice, Disable, ClearFlags, TypeOK, CoreTypeOK
<1>2. CASE Register_
  BY <1>2 DEF Register_, TypeOK, CoreTypeOK
<1>3. CASE SomeCall
  <2>1. PICK o \in {"tx", "rx", "txrx"}, i \in BOOLEAN, m \in Seq(Register), s \in Nat :
             Call(o, i, m, s)
    BY <1>3 DEF SomeCall
  <2>2. CoreTypeOK'
    BY <2>1 DEF Call, TypeOK, CoreTypeOK
  <2> QED
    <3>1. late' \in BOOLEAN
      BY <2>1 DEF Call
    <3>2. RETRIES \in 0..RETRIES
      BY DEF DriverAssumption
    <3> QED
      BY <2>1, <2>2, <3>1, <3>2, EmptyType DEF Call, TypeOK, StatusCode
<1>4. CASE AskStatus
  BY <1>4 DEF AskStatus, TypeOK, CoreTypeOK
<1>5. CASE BeginRefused
  BY <1>5 DEF BeginRefused, TypeOK, CoreTypeOK, StatusCode
<1>6. CASE BeginNew
  <2>1. LegSize + 1 \in Nat
    BY DEF LegSize, TypeOK
  <2> QED
    <3>1. CoreTypeOK'
      BY <1>6, EmptyType DEF BeginNew, Enable, ClearFlags, TypeOK, CoreTypeOK
    <3> QED
      BY <1>6, <2>1, <3>1, EmptyType DEF BeginNew, TypeOK
<1>7. CASE BeginRestart
  <2>1. LegSize + 1 \in Nat
    BY DEF LegSize, TypeOK
  <2> QED
    BY <1>7, <2>1 DEF BeginRestart, TypeOK, CoreTypeOK
<1>8. CASE Put
  <2>1. cmds' \in Seq(Command) /\ Len(cmds') <= FIFO_DEPTH
    <3>1. CASE cmds' = cmds
      BY <3>1 DEF TypeOK, CoreTypeOK
    <3>2. CASE cmds' = Append(cmds, TheCommand)
      <4>1. Len(cmds) < FIFO_DEPTH /\ cmds \in Seq(Command) /\ Len(cmds) \in Nat
        BY <1>8 DEF Put, TxReady, TypeOK, CoreTypeOK
      <4>2. PICK c \in Command : c = TheCommand
        BY <1>8, CommandType DEF Put, At
      <4> QED
        BY <3>2, <4>1, <4>2
    <3> QED
      BY <1>8, <3>1, <3>2 DEF Put, WriteCommand
  <2>2. fsm' \in {"IDLE", "PRE_START", "ADDR", "TX", "RX", "HOLD", "STOP", "PRE_IDLE"}
    BY <1>8 DEF Put, WriteCommand, TypeOK, CoreTypeOK
  <2> QED
    BY <1>8, <2>1, <2>2 DEF Put, TypeOK, CoreTypeOK
<1>9. CASE PutExpires
  <2>1. CoreTypeOK'
    BY <1>9 DEF PutExpires, TypeOK, CoreTypeOK
  <2>2. late' \in BOOLEAN /\ stretches' \in 0..MaxStretches
    BY <1>9, WaitedType DEF PutExpires
  <2> QED
    BY <1>9, <2>1, <2>2 DEF PutExpires, TypeOK, StatusCode
<1>10. CASE CheckFails
  BY <1>10 DEF CheckFails, TypeOK, CoreTypeOK, StatusCode
<1>11. CASE Check
  <2>1. left - 1 \in Nat
    BY <1>11 DEF Check, At, LocalInv, TypeOK, LegSize
  <2>2. got' \in Seq(Byte) /\ rx' \in Seq(Byte) /\ Len(rx') <= FIFO_DEPTH
    <3>1. got \in Seq(Byte) /\ rx \in Seq(Byte) /\ got \o rx \in Seq(Byte) /\ Len(rx) <= FIFO_DEPTH
      BY DEF TypeOK, CoreTypeOK
    <3> QED
      BY <1>11, <3>1, EmptyType DEF Check
  <2> QED
    BY <1>11, <2>1, <2>2 DEF Check, TypeOK, CoreTypeOK, StatusCode
<1>12. CASE Collect
  <2>1. got' \in Seq(Byte) /\ rx' \in Seq(Byte) /\ Len(rx') <= FIFO_DEPTH
    BY <1>12 DEF Collect, TypeOK, CoreTypeOK
  <2> QED
    BY <1>12, <2>1 DEF Collect, TypeOK, CoreTypeOK
<1>13. CASE CollectExpires
  <2>1. CoreTypeOK'
    BY <1>13 DEF CollectExpires, TypeOK, CoreTypeOK
  <2>2. late' \in BOOLEAN /\ stretches' \in 0..MaxStretches
    BY <1>13, WaitedType DEF CollectExpires
  <2> QED
    BY <1>13, <2>1, <2>2 DEF CollectExpires, TypeOK, StatusCode
<1>14. CASE Quiesce
  <2>1. CoreTypeOK'
    BY <1>14 DEF Quiesce, Disable, TypeOK, CoreTypeOK
  <2>2. late' \in BOOLEAN /\ stretches' \in 0..MaxStretches
    BY <1>14, WaitedType DEF Quiesce
  <2> QED
    BY <1>14, <2>1, <2>2, EmptyType DEF Quiesce, StatusCode, TypeOK
<1>15. CASE Arm
  <2>1. CoreTypeOK'
    BY <1>15, EmptyType DEF Arm, ClearFlags, TypeOK, CoreTypeOK
  <2> QED
    <3>1. wiped' \in BOOLEAN
      BY <1>15 DEF Arm, Flush
    <3>2. irq_busy' \in 0..2 /\ irq_size' \in Nat /\ irq_got' \in Seq(Byte)
      <4>1. irq_busy' \in 0..2
        BY <1>15 DEF Arm
      <4>2. n \in Nat /\ irq_size \in Nat /\ irq_got \in Seq(Byte)
        BY DEF TypeOK
      <4> QED
        BY <1>15, <4>1, <4>2, EmptyType DEF Arm
    <3> QED
      BY <1>15, <2>1, <3>1, <3>2 DEF Arm, TypeOK
<1>16. CASE LegRetry
  <2>1. CoreTypeOK'
    BY <1>16 DEF LegRetry, TypeOK, CoreTypeOK
  <2> QED
    BY <1>16, <2>1 DEF LegRetry, TypeOK
<1>17. CASE LegNext
  <2>1. CoreTypeOK'
    BY <1>17 DEF LegNext, TypeOK, CoreTypeOK
  <2> QED
    BY <1>17, <2>1 DEF LegNext, TypeOK
<1>18. CASE LegReturn
  <2>1. CoreTypeOK'
    BY <1>18, EmptyType DEF LegReturn, Keep, Forget, TypeOK, CoreTypeOK
  <2> QED
    <3>1. Keep \/ Forget
      BY <1>18 DEF LegReturn
    <3> QED
      BY <1>18, <2>1, <3>1, ForgetType, EmptyType DEF LegReturn, TypeOK
<1>19. CASE Mask
  <2>1. CoreTypeOK'
    BY <1>19 DEF Mask, TypeOK, CoreTypeOK
  <2> QED
    BY <1>19, <2>1 DEF Mask, TypeOK
<1>20. CASE Ask
  <2>1. CoreTypeOK'
    BY <1>20, EmptyType DEF Ask, Keep, Forget, TypeOK, CoreTypeOK
  <2> QED
    <3>1. Keep \/ Forget
      BY <1>20 DEF Ask
    <3>2. /\ status' \in StatusCode /\ pc' \in {"idle", "abort"}
          /\ saveints' \subseteq {"TX_READY", "RX_READY"}
      BY <1>20 DEF Ask, Answer, StatusCode, TypeOK
    <3> QED
      BY <1>20, <2>1, <3>1, <3>2, ForgetType DEF Ask, TypeOK
<1>21. CASE Abort
  <2>1. CoreTypeOK'
    BY <1>21, EmptyType DEF Abort, Disable, Forget, TypeOK, CoreTypeOK
  <2>2. late' \in BOOLEAN /\ stretches' \in 0..MaxStretches
    BY <1>21, WaitedType DEF Abort
  <2> QED
    <3>1. Keep \/ Forget
      BY <1>21 DEF Abort
    <3>2. /\ status' \in StatusCode /\ pc' \in {"idle", "abort"}
          /\ saveints' \subseteq {"TX_READY", "RX_READY"}
      BY <1>21 DEF Abort, Answer, StatusCode, TypeOK
    <3> QED
      BY <1>21, <2>1, <2>2, <3>1, <3>2, ForgetType DEF Abort, TypeOK
<1>22. CASE Interrupt
  <2>1. CASE irq_busy = 2
    <3>1. PICK k \in Nat : /\ k <= Len(rx) /\ k <= irq_size
                           /\ irq_got' = irq_got \o SubSeq(rx, 1, k)
                           /\ rx' = SubSeq(rx, k + 1, Len(rx)) /\ irq_size' = irq_size - k
                           /\ iser' \in {{}, {"RX_READY"}} /\ isr' \in {"out", "spin"}
      <4>1. rx \in Seq(Byte) /\ Len(rx) \in Nat /\ irq_size \in Nat
        BY DEF TypeOK, CoreTypeOK
      <4>2. PICK k \in Nat : k = IF Len(rx) < irq_size THEN Len(rx) ELSE irq_size
        BY <4>1
      <4>3. k <= Len(rx) /\ k <= irq_size
        BY <4>1, <4>2
      <4>4. /\ irq_got' = irq_got \o SubSeq(rx, 1, k)
            /\ rx' = SubSeq(rx, k + 1, Len(rx)) /\ irq_size' = irq_size - k
            /\ iser' \in {{}, {"RX_READY"}} /\ isr' \in {"out", "spin"}
        BY <1>22, <2>1, <4>2 DEF Interrupt
      <4> QED
        BY <4>3, <4>4
    <3>2. irq_got' \in Seq(Byte) /\ rx' \in Seq(Byte) /\ Len(rx') <= FIFO_DEPTH /\ irq_size' \in Nat
      BY <3>1 DEF TypeOK, CoreTypeOK
    <3> QED
      <4>1. CoreTypeOK'
        BY <1>22, <3>1, <3>2 DEF Interrupt, ClearFlags, TypeOK, CoreTypeOK
      <4> QED
        BY <1>22, <3>1, <3>2, <4>1 DEF Interrupt, TypeOK
  <2>2. CASE irq_busy # 2
    <3>1. CoreTypeOK'
      BY <1>22, <2>2 DEF Interrupt, ClearFlags, TypeOK, CoreTypeOK
    <3> QED
      BY <1>22, <2>2, <3>1 DEF Interrupt, TypeOK
  <2> QED
    BY <2>1, <2>2
<1>23. CASE IrqEnd
  <2>1. CoreTypeOK'
    BY <1>23 DEF IrqEnd, Disable, TypeOK, CoreTypeOK
  <2>2. late' \in BOOLEAN /\ stretches' \in 0..MaxStretches
    BY <1>23, WaitedType DEF IrqEnd
  <2> QED
    BY <1>23, <2>1, <2>2, EmptyType DEF IrqEnd, TypeOK
<1>24. CASE Device
  <2>1. CoreTypeOK'
    BY <1>24, CoreStepType DEF Device, TypeOK
  <2>2. got' \in Seq(Byte) /\ irq_got' \in Seq(Byte)
    BY <1>24, StaleType DEF Device, TypeOK
  <2> QED
    BY <1>24, <2>1, <2>2 DEF Device, TypeOK
<1> QED
  BY <1>1, <1>2, <1>3, <1>4, <1>5, <1>6, <1>7, <1>8, <1>9, <1>10, <1>11, <1>12, <1>13, <1>14,
     <1>15, <1>16, <1>17, <1>18, <1>19, <1>20, <1>21, <1>22, <1>23, <1>24
     DEF DriverStep, Leg, Begin
----------------------------------------------------------------------------
(* The core, the locals and the owner, always.                             *)

\* Nothing gets old where there is nothing.
LEMMA StaleEmpty == ASSUME NEW a \in Seq(Byte) PROVE a = <<>> <=> Stale(a) = <<>>
  BY StaleType

\* The core does not write its control registers.
LEMMA CoreStepKeeps == ASSUME CoreStep PROVE UNCHANGED ctrlVars
  BY DEF CoreStep, Start, AddressTaken, Refuse, LoseBus, ByteSent, ByteReceived, Resume, Stopped

\* The core's steps: a refusal and a lost bus empty both FIFOs.
LEMMA CoreInvStep == ASSUME TypeOK, CoreInv, CoreStep PROVE CoreInv'
<1> USE DEF ctrlVars, flagVars, deviceVars, Flush
<1>0. CoreTypeOK
  BY DEF TypeOK
<1>1. CASE Start
  BY <1>0, <1>1 DEF Start, CoreInv, CoreTypeOK
<1>2. CASE AddressTaken
  <2>1. fsm' \in {"ADDR", "TX", "RX", "HOLD", "STOP"}
    BY <1>0, <1>2, PopType DEF AddressTaken
  <2>2. ~Flush
    BY <1>2 DEF AddressTaken, CoreInv
  <2> QED
    BY <1>2, <2>1, <2>2 DEF AddressTaken, CoreInv
<1>3. CASE Refuse
  BY <1>0, <1>3 DEF Refuse, CoreInv, CoreTypeOK
<1>4. CASE LoseBus
  BY <1>0, <1>4 DEF LoseBus, CoreInv, CoreTypeOK
<1>5. CASE ByteSent
  <2>1. fsm' \in {"ADDR", "TX", "RX", "HOLD", "STOP"}
    BY <1>0, <1>5, PopType DEF ByteSent
  <2>2. ~Flush
    BY <1>5 DEF ByteSent, CoreInv
  <2> QED
    BY <1>5, <2>1, <2>2 DEF ByteSent, CoreInv
<1>6. CASE ByteReceived
  <2>1. fsm' \in {"ADDR", "TX", "RX", "HOLD", "STOP"}
    BY <1>0, <1>6, PopType DEF ByteReceived
  <2>2. ~Flush
    BY <1>6 DEF ByteReceived, CoreInv
  <2> QED
    BY <1>6, <2>1, <2>2 DEF ByteReceived, CoreInv
<1>7. CASE Resume
  <2>1. fsm' \in {"ADDR", "TX", "RX", "HOLD", "STOP"}
    BY <1>0, <1>7, PopType DEF Resume
  <2>2. ~Flush
    BY <1>7 DEF Resume, CoreInv
  <2> QED
    BY <1>7, <2>1, <2>2 DEF Resume, CoreInv
<1>8. CASE Stopped
  BY <1>0, <1>8 DEF Stopped, CoreInv, CoreTypeOK
<1> QED
  BY <1>1, <1>2, <1>3, <1>4, <1>5, <1>6, <1>7, <1>8 DEF CoreStep

\* The driver's steps: a command is put only into an enabled core.
LEMMA DriverCoreInv == ASSUME TypeOK, CoreInv, DriverStep PROVE CoreInv'
<1> USE DEF ctrlVars, flagVars, fifoVars, deviceVars, coreVars, callVars, irqVars, historyVars
<1>1. CASE InitDevice
  BY <1>1 DEF InitDevice, Disable, ClearFlags, CoreInv, Flush
<1>2. CASE Register_
  BY <1>2 DEF Register_, CoreInv, Flush
<1>3. CASE SomeCall
  BY <1>3 DEF SomeCall, Call, CoreInv, Flush
<1>4. CASE AskStatus
  BY <1>4 DEF AskStatus, CoreInv, Flush
<1>5. CASE BeginRefused
  BY <1>5 DEF BeginRefused, CoreInv, Flush
<1>6. CASE BeginNew
  BY <1>6 DEF BeginNew, Enable, ClearFlags, CoreInv, Flush
<1>7. CASE BeginRestart
  BY <1>7 DEF BeginRestart, CoreInv, Flush
<1>8. CASE Put
  BY <1>8 DEF Put, WriteCommand, TxReady, TypeOK, CoreTypeOK, CoreInv, Flush
<1>9. CASE PutExpires
  BY <1>9 DEF PutExpires, CoreInv, Flush
<1>10. CASE CheckFails
  BY <1>10 DEF CheckFails, CoreInv, Flush
<1>11. CASE Check
  BY <1>11 DEF Check, CoreInv, Flush
<1>12. CASE Collect
  BY <1>12 DEF Collect, CoreInv, Flush
<1>13. CASE CollectExpires
  BY <1>13 DEF CollectExpires, CoreInv, Flush
<1>14. CASE Quiesce
  BY <1>14 DEF Quiesce, Disable, CoreInv, Flush
<1>15. CASE Arm
  BY <1>15 DEF Arm, ClearFlags, CoreInv, Flush
<1>16. CASE LegRetry
  BY <1>16 DEF LegRetry, CoreInv, Flush
<1>17. CASE LegNext
  BY <1>17 DEF LegNext, CoreInv, Flush
<1>18. CASE LegReturn
  BY <1>18 DEF LegReturn, Keep, Forget, CoreInv, Flush
<1>19. CASE Mask
  BY <1>19 DEF Mask, CoreInv, Flush
<1>20. CASE Ask
  BY <1>20 DEF Ask, Keep, Forget, CoreInv, Flush
<1>21. CASE Abort
  BY <1>21 DEF Abort, Disable, Forget, CoreInv, Flush
<1>22. CASE Interrupt
  BY <1>22 DEF Interrupt, ClearFlags, CoreInv, Flush
<1>23. CASE IrqEnd
  BY <1>23 DEF IrqEnd, Disable, CoreInv, Flush
<1>24. CASE Device
  BY <1>24, CoreInvStep DEF Device
<1> QED
  BY <1>1, <1>2, <1>3, <1>4, <1>5, <1>6, <1>7, <1>8, <1>9, <1>10, <1>11, <1>12, <1>13, <1>14,
     <1>15, <1>16, <1>17, <1>18, <1>19, <1>20, <1>21, <1>22, <1>23, <1>24
     DEF DriverStep, Leg, Begin

\* What a label says of the locals holds where the label is reached.
LEMMA DriverLocalInv == ASSUME TypeOK, LocalInv, OwnerInv, DriverStep PROVE LocalInv'
<1> USE DEF ctrlVars, flagVars, fifoVars, deviceVars, coreVars, callVars, irqVars, historyVars
<1> USE DEF InLeg, Turn, Between, Stop, At, LegSize
<1>1. CASE InitDevice
  BY <1>1 DEF InitDevice, LocalInv, OwnerInv, TypeOK, StatusCode, Retried
<1>2. CASE Register_
  BY <1>2 DEF Register_, LocalInv, OwnerInv, TypeOK, StatusCode, Retried
<1>3. CASE SomeCall
  BY <1>3 DEF SomeCall, Call, LocalInv, OwnerInv, TypeOK, StatusCode, Retried
<1>4. CASE AskStatus
  BY <1>4 DEF AskStatus, LocalInv, OwnerInv, TypeOK, StatusCode, Retried
<1>5. CASE BeginRefused
  BY <1>5 DEF BeginRefused, LocalInv, OwnerInv, TypeOK, StatusCode, Retried
<1>6. CASE BeginNew
  BY <1>6 DEF BeginNew, LocalInv, OwnerInv, TypeOK, StatusCode, Retried
<1>7. CASE BeginRestart
  BY <1>7 DEF BeginRestart, LocalInv, OwnerInv, TypeOK, StatusCode, Retried
<1>8. CASE Put
  BY <1>8 DEF Put, LocalInv, OwnerInv, TypeOK, StatusCode, Retried
<1>9. CASE PutExpires
  BY <1>9 DEF PutExpires, LocalInv, OwnerInv, TypeOK, StatusCode, Retried
<1>10. CASE CheckFails
  BY <1>10 DEF CheckFails, LocalInv, OwnerInv, TypeOK, StatusCode, Retried
<1>11. CASE Check
  <2>1. /\ pc = "check" /\ left \in 1..(LegSize + 1) /\ left' = left - 1 /\ LegSize \in Nat
        /\ UNCHANGED <<op, ints, leg, out, n, registered, irq_busy, armed>> /\ status' = "SUCCESS"
        /\ LegSize > 0 /\ (ints => registered) /\ ~armed
    BY <1>11 DEF Check, LocalInv, TypeOK
  <2>2. leg = "tx" \/ ints => got = <<>> /\ got' = got
    BY <1>11, <2>1 DEF Check, LocalInv, Draining
  <2>3. pc' \in {"put", "arm", "legDone", "collect", "quiesce"}
        /\ (pc' = "put" => left' \in 1..(LegSize + 1))
        /\ (pc' # "put" => left' = 0)
        /\ (pc' = "collect" => leg = "rx" /\ ~ints)
        /\ (pc' = "arm" => ints /\ Stop)
        /\ (pc' = "quiesce" => Stop)
    <3>1. CASE left > 1
      BY <1>11, <2>1, <3>1 DEF Check
    <3>2. CASE ~(left > 1)
      BY <1>11, <2>1, <3>2 DEF Check, LocalInv
    <3> QED
      BY <3>1, <3>2
  <2>4. LegSize' = LegSize /\ Stop' = Stop
    BY <2>1
  <2> QED
    BY <2>1, <2>2, <2>3, <2>4 DEF LocalInv, TypeOK
<1>12. CASE Collect
  BY <1>12 DEF Collect, LocalInv, OwnerInv, TypeOK, StatusCode, Retried
<1>13. CASE CollectExpires
  BY <1>13 DEF CollectExpires, LocalInv, OwnerInv, TypeOK, StatusCode, Retried
<1>14. CASE Quiesce
  BY <1>14 DEF Quiesce, LocalInv, OwnerInv, TypeOK, StatusCode, Retried
<1>15. CASE Arm
  BY <1>15 DEF Arm, LocalInv, OwnerInv, TypeOK, StatusCode, Retried
<1>16. CASE LegRetry
  BY <1>16 DEF LegRetry, LocalInv, OwnerInv, TypeOK, StatusCode, Retried
<1>17. CASE LegNext
  BY <1>17 DEF LegNext, LocalInv, OwnerInv, TypeOK, StatusCode, Retried
<1>18. CASE LegReturn
  BY <1>18 DEF LegReturn, Keep, Forget, LocalInv, OwnerInv, TypeOK, StatusCode, Retried
<1>19. CASE Mask
  BY <1>19 DEF Mask, LocalInv, OwnerInv, TypeOK, StatusCode, Retried
<1>20. CASE Ask
  BY <1>20 DEF Ask, Answer, Keep, Forget, LocalInv, OwnerInv, TypeOK, StatusCode, Retried
<1>21. CASE Abort
  BY <1>21 DEF Abort, Answer, Forget, LocalInv, OwnerInv, TypeOK, StatusCode, Retried
<1>22. CASE Interrupt
  BY <1>22 DEF Interrupt, LocalInv, OwnerInv, TypeOK, StatusCode, Retried
<1>23. CASE IrqEnd
  BY <1>23 DEF IrqEnd, LocalInv, OwnerInv, TypeOK, StatusCode, Retried
<1>24. CASE Device
  BY <1>24, StaleEmpty DEF Device, LocalInv, OwnerInv, TypeOK, StatusCode, Retried
<1> QED
  BY <1>1, <1>2, <1>3, <1>4, <1>5, <1>6, <1>7, <1>8, <1>9, <1>10, <1>11, <1>12, <1>13, <1>14,
     <1>15, <1>16, <1>17, <1>18, <1>19, <1>20, <1>21, <1>22, <1>23, <1>24
     DEF DriverStep, Leg, Begin

\* The core changes hands only by Begin, Arm, and the ends of a transfer.
LEMMA DriverOwnerInv == ASSUME TypeOK, CoreInv, LocalInv, OwnerInv, DriverStep PROVE OwnerInv'
<1> USE DEF ctrlVars, flagVars, fifoVars, deviceVars, coreVars, callVars, irqVars, historyVars
<1> USE DEF InLeg, Turn, Between, Stop, At, LegSize
<1>1. CASE InitDevice
  BY <1>1 DEF InitDevice, Disable, ClearFlags, LocalInv, OwnerInv, TypeOK, Retried
<1>2. CASE Register_
  BY <1>2 DEF Register_, LocalInv, OwnerInv, TypeOK, Retried
<1>3. CASE SomeCall
  BY <1>3 DEF SomeCall, Call, LocalInv, OwnerInv, TypeOK, Retried
<1>4. CASE AskStatus
  BY <1>4 DEF AskStatus, LocalInv, OwnerInv, TypeOK, Retried
<1>5. CASE BeginRefused
  <2>1. /\ pc = "begin" /\ pc' = "legDone" /\ isr = "out"
        /\ UNCHANGED <<op, leg, ctrl_en, irq_busy, iser, isr, saveints, irq_size>>
    BY <1>5 DEF BeginRefused
  <2>2. op = "txrx" => Len(out) > 0 /\ n > 0
    BY DEF LocalInv, TypeOK
  <2>3. Turn' => LegSize > 0 /\ status' \notin {"SUCCESS", "TIMEOUT"}
    BY <1>5, <2>1, <2>2 DEF BeginRefused
  <2>4. ~Between
    BY <1>5, <2>1, <2>2 DEF BeginRefused, LocalInv, Restart
  <2> QED
    BY <2>1, <2>3, <2>4 DEF OwnerInv
<1>6. CASE BeginNew
  BY <1>6 DEF BeginNew, Enable, ClearFlags, LocalInv, OwnerInv, TypeOK, Retried
<1>7. CASE BeginRestart
  <2>1. /\ pc = "begin" /\ pc' = "put" /\ isr = "out" /\ Turn
        /\ UNCHANGED <<op, leg, ctrl_en, irq_busy, iser, isr, saveints, irq_size>>
    BY <1>7 DEF BeginRestart, Restart
  <2>2. status \in {"SUCCESS", "TIMEOUT"}
    BY <1>7, <2>1 DEF BeginRestart, LocalInv, TypeOK, StatusCode, Retried
  <2> QED
    BY <2>1, <2>2 DEF OwnerInv
<1>8. CASE Put
  BY <1>8 DEF Put, TxReady, LocalInv, OwnerInv, TypeOK, Retried
<1>9. CASE PutExpires
  BY <1>9 DEF PutExpires, LocalInv, OwnerInv, TypeOK, Retried
<1>10. CASE CheckFails
  BY <1>10 DEF CheckFails, LocalInv, OwnerInv, TypeOK, Retried
<1>11. CASE Check
  BY <1>11 DEF Check, LocalInv, OwnerInv, TypeOK, Retried
<1>12. CASE Collect
  BY <1>12 DEF Collect, LocalInv, OwnerInv, TypeOK, Retried
<1>13. CASE CollectExpires
  BY <1>13 DEF CollectExpires, LocalInv, OwnerInv, TypeOK, Retried
<1>14. CASE Quiesce
  BY <1>14 DEF Quiesce, Disable, LocalInv, OwnerInv, TypeOK, Retried
<1>15. CASE Arm
  <2>1. irq_busy = 0 /\ iser = {} /\ saveints = {} /\ isr = "out" /\ ctrl_en /\ Stop
    BY <1>15 DEF Arm, LocalInv, OwnerInv
  <2>2. /\ irq_busy' \in {1, 2}
        /\ irq_busy' = 1 => iser' = {"TX_READY"}
        /\ irq_busy' = 2 => iser' = {"RX_READY"} /\ irq_size' > 0
    BY <1>15, <2>1 DEF Arm, LocalInv
  <2>3. pc' = "legDone" /\ ctrl_en' = ctrl_en /\ saveints' = saveints /\ isr' = isr /\ ~Turn'
    BY <1>15, <2>1 DEF Arm
  <2>4. ~InLeg' /\ saveints' = {} /\ isr' = "out" /\ ctrl_en'
    BY <2>1, <2>3
  <2>5. CASE irq_busy' = 1
    BY <2>2, <2>3, <2>4, <2>5 DEF OwnerInv
  <2>6. CASE irq_busy' = 2
    BY <2>2, <2>3, <2>4, <2>6 DEF OwnerInv
  <2> QED
    BY <2>2, <2>5, <2>6
<1>16. CASE LegRetry
  BY <1>16 DEF LegRetry, LocalInv, OwnerInv, TypeOK, Retried
<1>17. CASE LegNext
  BY <1>17 DEF LegNext, LocalInv, OwnerInv, TypeOK, Retried
<1>18. CASE LegReturn
  BY <1>18 DEF LegReturn, Keep, Forget, LocalInv, OwnerInv, TypeOK, Retried
<1>19. CASE Mask
  BY <1>19 DEF Mask, LocalInv, OwnerInv, TypeOK, Retried
<1>20. CASE Ask
  BY <1>20 DEF Ask, Answer, Keep, Forget, LocalInv, OwnerInv, TypeOK, Retried
<1>21. CASE Abort
  BY <1>21 DEF Abort, Answer, Disable, Forget, LocalInv, OwnerInv, TypeOK, Retried
<1>22. CASE Interrupt
  <2>1. /\ iser # {} /\ irq_busy # 0 /\ isr = "out" /\ pc \notin {"ask", "abort"}
        /\ irq_busy \in {1, 2}
    BY <1>22 DEF Interrupt, intr, OwnerInv, TypeOK
  <2>2. UNCHANGED <<pc, op, leg, status, saveints, ctrl_en, irq_busy>>
    BY <1>22 DEF Interrupt
  <2>3. CASE irq_busy = 2
    <3>1. iser = {"RX_READY"}
      BY <2>1, <2>3 DEF OwnerInv
    <3>2. PICK k \in Nat : k = IF Len(rx) < irq_size THEN Len(rx) ELSE irq_size
      BY DEF TypeOK, CoreTypeOK
    <3>3. /\ irq_size' = irq_size - k
          /\ iser' = IF k < irq_size THEN {"RX_READY"} ELSE {}
          /\ isr' = IF k < irq_size THEN "out" ELSE "spin"
      BY <1>22, <2>3, <3>2 DEF Interrupt
    <3>4. CASE k < irq_size
      <4>1. irq_size' > 0
        BY <3>3, <3>4 DEF TypeOK
      <4> QED
        BY <2>1, <2>2, <2>3, <3>1, <3>3, <3>4, <4>1 DEF OwnerInv
    <3>5. CASE ~(k < irq_size)
      BY <2>1, <2>2, <2>3, <3>1, <3>3, <3>5 DEF OwnerInv
    <3> QED
      BY <3>4, <3>5
  <2>4. CASE irq_busy = 1
    <3>1. iser' = {} /\ isr' = "spin"
      BY <1>22, <2>4 DEF Interrupt
    <3> QED
      BY <2>1, <2>2, <2>4, <3>1 DEF OwnerInv
  <2> QED
    BY <2>1, <2>3, <2>4
<1>23. CASE IrqEnd
  BY <1>23 DEF IrqEnd, Disable, LocalInv, OwnerInv, TypeOK, Retried
<1>24. CASE Device
  <2>1. UNCHANGED ctrlVars
    BY <1>24, CoreStepKeeps DEF Device
  <2> QED
    BY <1>24, <2>1 DEF Device, LocalInv, OwnerInv
<1> QED
  BY <1>1, <1>2, <1>3, <1>4, <1>5, <1>6, <1>7, <1>8, <1>9, <1>10, <1>11, <1>12, <1>13, <1>14,
     <1>15, <1>16, <1>17, <1>18, <1>19, <1>20, <1>21, <1>22, <1>23, <1>24
     DEF DriverStep, Leg, Begin
----------------------------------------------------------------------------
(* Rows in the hands of a call and of the interrupt routine.               *)

CoreSame ==
    UNCHANGED <<ctrl_en, nack_det, arblost_det, fsm, cmds, cur, rw_cmd, rx, ptr, first, taken>>

\* Nothing a row speaks of has changed.
LEMMA TrackSame ==
    ASSUME NEW w, NEW t, NEW m, NEW p, NEW a, OnTrack(w, t, m, p, a),
           UNCHANGED <<ctrl_en, fsm, cmds, cur, rw_cmd, ptr, first, taken>>, ~Flush'
    PROVE  OnTrack(w, t, m, p, a)'
<1>1. Popped(p)' = Popped(p) /\ Done(p)' = Done(p)
  BY DEF Popped, Done
<1>2. Queue(w, t, m, p)'
  BY <1>1 DEF OnTrack, Queue
<1>3. Place(w, t, m, Popped(p))'
  BY <1>1 DEF OnTrack, Place
<1> QED
  BY <1>1, <1>2, <1>3 DEF OnTrack, Received, Pointed

\* What a row is made of.
LEMMA CallRow ==
    ASSUME FrameInv, InLeg \/ Between \/ LegSize > 0
    PROVE  /\ WriteLeg \in Nat /\ Total \in Nat /\ out \in Seq(Register) /\ n \in Nat
           /\ Row(WriteLeg, Total, out)
           /\ op \in {"rx", "txrx"} => Total = WriteLeg + n + 1 /\ n > 0
           /\ op = "tx" => Total = WriteLeg
           /\ op \in {"tx", "txrx"} => WriteLeg = Len(out) + 1 /\ Len(out) > 0
           /\ op = "rx" => WriteLeg = 0
           /\ op \in {"tx", "rx", "txrx"} /\ Len(out) \in Nat
<1>1. /\ out \in Seq(Register) /\ n \in Nat /\ Len(out) \in Nat
      /\ op \in {"tx", "rx", "txrx"} /\ leg \in {"tx", "rx"}
  BY DEF FrameInv, TypeOK
<1>2. CASE op = "tx"
  <2>1. Len(out) > 0
    BY <1>1, <1>2 DEF FrameInv, LocalInv, LegSize, Between, Turn
  <2> QED
    BY <1>1, <1>2, <2>1 DEF WriteLeg, Total, Row
<1>3. CASE op = "rx"
  <2>1. n > 0
    BY <1>1, <1>3 DEF FrameInv, LocalInv, LegSize, Between, Turn
  <2> QED
    BY <1>1, <1>3, <2>1 DEF WriteLeg, Total, Row
<1>4. CASE op = "txrx"
  <2>1. n > 0 /\ Len(out) > 0
    BY <1>1, <1>4 DEF FrameInv, LocalInv
  <2> QED
    BY <1>1, <1>4, <2>1 DEF WriteLeg, Total, Row
<1> QED
  BY <1>1, <1>2, <1>3, <1>4

\* A core that nothing moves has ended a row that is complete.
LEMMA StuckEnds ==
    ASSUME FrameInv, NEW w \in Nat, NEW t \in Nat, NEW m \in Seq(Register), NEW a \in Seq(Byte),
           t > 0, OnTrack(w, t, m, t, a), ~CoreBusy \/ CoreStuck
    PROVE  /\ fsm = "PRE_IDLE" /\ cmds = <<>> /\ ~CoreBusy
           /\ Popped(t) = t /\ Done(t) = t
<1>1. CoreTypeOK /\ ctrl_en /\ ~Flush
  BY DEF FrameInv, TypeOK, OnTrack
<1>2. PICK q \in Nat : q = Popped(t)
  BY <1>1, TrackFacts
<1>3. cmds \in Seq(Command) /\ q = t - Len(cmds)
  BY <1>1, <1>2 DEF CoreTypeOK, Popped
<1>4. cmds = <<>> /\ q = t
  <2>1. CASE fsm \in {"IDLE", "PRE_IDLE"}
    <3>1. cmds = <<>>
      BY <2>1 DEF FrameInv, CoreInv
    <3> QED
      BY <1>3, <3>1
  <2>2. CASE fsm \notin {"IDLE", "PRE_IDLE"}
    <3>1. cmds = <<>>
      BY <1>1, <2>2 DEF CoreBusy, CoreStuck
    <3> QED
      BY <1>3, <3>1
  <2> QED
    BY <2>1, <2>2
<1>5. Place(w, t, m, q) /\ fsm # "PRE_START"
  <2>1. Place(w, t, m, Popped(t)) /\ (fsm = "PRE_START" <=> Popped(t) = 0)
    BY <1>1, TrackFacts
  <2>2. Popped(t) = q /\ q # 0
    BY <1>2, <1>4
  <2> QED
    BY <2>1, <2>2
<1>6. fsm # "HOLD"
  BY <1>4, <1>5 DEF Place
<1>7. fsm = "PRE_IDLE"
  BY <1>1, <1>5, <1>6 DEF CoreBusy, CoreStuck, FrameInv, CoreInv
<1> QED
  BY <1>2, <1>4, <1>7 DEF Done, CoreBusy

\* A core that has given up its row is at its end.
LEMMA FlushEnds ==
    ASSUME FrameInv, ctrl_en, Flush
    PROVE  Ended /\ (~CoreBusy \/ CoreStuck => fsm = "PRE_IDLE" /\ ~CoreBusy)
  BY DEF FrameInv, CoreInv, Ended, CoreBusy, CoreStuck

\* So it is idle when nothing moves it.
LEMMA EndedStuck ==
    ASSUME Ended, ~CoreBusy \/ CoreStuck
    PROVE  fsm = "PRE_IDLE" /\ ~CoreBusy
  BY DEF Ended, CoreBusy, CoreStuck

\* Bytes in memory, followed by those in the FIFO.
LEMMA ConcatBytes ==
    ASSUME NEW a \in Seq(Byte), NEW b \in Seq(Byte)
    PROVE  /\ a \o b \in Seq(Byte) /\ Len(a \o b) = Len(a) + Len(b)
           /\ a = <<>> => a \o b = b
           /\ b = <<>> => a \o b = a
           /\ a \o b = <<>> => a = <<>> /\ b = <<>>
           /\ b # <<>> => a \o b # <<>>
           /\ \A x \in Byte : a \o Append(b, x) = Append(a \o b, x)
           /\ b # <<>> => Append(a, Head(b)) \o Tail(b) = a \o b
<1>1. a \o b \in Seq(Byte) /\ Len(a \o b) = Len(a) + Len(b) /\ Len(a) \in Nat /\ Len(b) \in Nat
  OBVIOUS
<1>2. a = <<>> => a \o b = b
  OBVIOUS
<1>3. b = <<>> => a \o b = a
  OBVIOUS
<1>4. a \o b = <<>> => a = <<>> /\ b = <<>>
  BY <1>1
<1>5. ASSUME NEW x \in Byte PROVE a \o Append(b, x) = Append(a \o b, x)
  <2>1. <<x>> \in Seq(Byte)
    OBVIOUS
  <2>2. Append(b, x) = b \o <<x>> /\ Append(a \o b, x) = (a \o b) \o <<x>>
    BY <1>1, AppendIsConcat
  <2> QED
    BY <2>1, <2>2, ConcatAssociative
<1>6. ASSUME b # <<>> PROVE Append(a, Head(b)) \o Tail(b) = a \o b
  <2>1. Head(b) \in Byte /\ Tail(b) \in Seq(Byte) /\ <<Head(b)>> \in Seq(Byte)
    BY <1>6
  <2>2. Append(a, Head(b)) = a \o <<Head(b)>>
    BY <2>1, AppendIsConcat
  <2>3. <<Head(b)>> \o Tail(b) = b
    BY <1>6, <2>1
  <2> QED
    BY <2>1, <2>2, <2>3, ConcatAssociative
<1> QED
  BY <1>1, <1>2, <1>3, <1>4, <1>5, <1>6

\* Moving the first k of them from the FIFO to memory.
LEMMA SplitBytes ==
    ASSUME NEW a \in Seq(Byte), NEW b \in Seq(Byte), NEW k \in Nat, k <= Len(b)
    PROVE  /\ (a \o SubSeq(b, 1, k)) \o SubSeq(b, k + 1, Len(b)) = a \o b
           /\ Len(a \o SubSeq(b, 1, k)) = Len(a) + k
           /\ Len(SubSeq(b, k + 1, Len(b))) = Len(b) - k
           /\ a \o SubSeq(b, 1, k) \in Seq(Byte) /\ SubSeq(b, k + 1, Len(b)) \in Seq(Byte)
<1>1. /\ SubSeq(b, 1, k) \in Seq(Byte) /\ SubSeq(b, k + 1, Len(b)) \in Seq(Byte)
      /\ Len(SubSeq(b, 1, k)) = k /\ Len(SubSeq(b, k + 1, Len(b))) = Len(b) - k
  OBVIOUS
<1>2. SubSeq(b, 1, k) \o SubSeq(b, k + 1, Len(b)) = b
  <2>1. /\ 1 \in 1..(Len(b) + 1) /\ k \in (1 - 1)..Len(b) /\ Len(b) \in k..Len(b)
    OBVIOUS
  <2>2. SubSeq(b, 1, k) \o SubSeq(b, k + 1, Len(b)) = SubSeq(b, 1, Len(b))
    BY <2>1, ConcatAdjacentSubSeq
  <2> QED
    BY <2>2, SubSeqFull
<1>3. (a \o SubSeq(b, 1, k)) \o SubSeq(b, k + 1, Len(b)) = a \o b
  <2>1. PICK c \in Seq(Byte), d \in Seq(Byte) :
          c = SubSeq(b, 1, k) /\ d = SubSeq(b, k + 1, Len(b))
    BY <1>1, Zenon
  <2>2. (a \o c) \o d = a \o (c \o d)
    BY ConcatAssociative
  <2> QED
    BY <1>2, <2>1, <2>2, Zenon
<1>4. a \o SubSeq(b, 1, k) \in Seq(Byte) /\ Len(a \o SubSeq(b, 1, k)) = Len(a) + k
  BY <1>1
<1> QED
  BY <1>1, <1>3, <1>4

\* A step of the core on a row; g is what is in memory, and h the same after the step.
LEMMA TrackStep ==
    ASSUME FrameInv, NEW w \in Nat, NEW t \in Nat, NEW m \in Seq(Register), NEW p \in Nat,
           NEW g \in Seq(Byte), NEW h \in Seq(Byte), Row(w, t, m), OnTrack(w, t, m, p, g \o rx),
           CoreStep, h = IF fsm = "PRE_START" /\ fsm' = "ADDR" THEN Stale(g) ELSE g
    PROVE  (Flush' /\ Ended') \/ OnTrack(w, t, m, p, h \o rx)'
<1>1. CoreTypeOK /\ rx \in Seq(Byte)
  BY DEF FrameInv, TypeOK, CoreTypeOK
<1>2. PICK a \in Seq(Byte) : a = g \o rx
  BY <1>1, ConcatBytes
<1>3. OnTrack(w, t, m, p, a)
  BY <1>2
<1>4. CASE Start
  <2>1. OnTrack(w, t, m, p, a)' /\ a = <<>>
    BY <1>1, <1>3, <1>4, TrackStart
  <2>2. g = <<>> /\ rx = <<>>
    <3>1. g \o rx = <<>>
      BY <1>2, <2>1
    <3>2. g \o rx = <<>> => g = <<>> /\ rx = <<>>
      BY <1>1, ConcatBytes
    <3> QED
      BY <3>1, <3>2
  <2>3. h = <<>> /\ rx' = <<>>
    BY <1>4, <2>2, StaleEmpty DEF Start
  <2>4. h \o rx' = a
    BY <2>1, <2>3
  <2> QED
    BY <2>1, <2>4
<1>5. CASE ~Start
  <2>1. h = g
    BY <1>5 DEF CoreStep, Start, AddressTaken, Refuse, LoseBus, ByteSent, ByteReceived, Resume,
                Stopped
  <2>2. CASE AddressTaken \/ ByteSent \/ Resume \/ Stopped
    <3>1. OnTrack(w, t, m, p, a)'
      BY <1>1, <1>3, <2>2, TrackAddress, TrackSent, TrackResume, TrackStopped
    <3>2. rx' = rx
      BY <2>2 DEF AddressTaken, ByteSent, Resume, Stopped
    <3> QED
      BY <1>2, <2>1, <3>1, <3>2
  <2>3. CASE ByteReceived
    <3>1. rx # <<>> => a # <<>>
      BY <1>1, <1>2, ConcatBytes
    <3>2. \/ OnTrack(w, t, m, p, a)' /\ rx' = rx
          \/ \E x \in Byte : OnTrack(w, t, m, p, Append(a, x))' /\ rx' = Append(rx, x)
      BY <1>1, <1>3, <2>3, <3>1, TrackReceived
    <3>3. CASE OnTrack(w, t, m, p, a)' /\ rx' = rx
      BY <1>2, <2>1, <3>3
    <3>4. CASE \E x \in Byte : OnTrack(w, t, m, p, Append(a, x))' /\ rx' = Append(rx, x)
      <4>1. PICK x \in Byte : OnTrack(w, t, m, p, Append(a, x))' /\ rx' = Append(rx, x)
        BY <3>4
      <4>2. h \o rx' = Append(a, x)
        <5>1. \A x_ \in Byte : g \o Append(rx, x_) = Append(g \o rx, x_)
          BY <1>1, ConcatBytes
        <5> QED
          BY <1>2, <2>1, <4>1, <5>1
      <4> QED
        BY <4>1, <4>2
    <3> QED
      BY <3>2, <3>3, <3>4
  <2>4. CASE Refuse \/ LoseBus
    BY <2>4 DEF Refuse, LoseBus, Flush, Ended, OnTrack
  <2> QED
    BY <1>5, <2>2, <2>3, <2>4 DEF CoreStep
<1> QED
  BY <1>4, <1>5

\* Nothing the interrupt routine's transfer consists of has changed.
LEMMA IrqSame ==
    ASSUME IrqInv, CoreSame, UNCHANGED <<irq_busy, irq_size, irq_got, isr>>,
           armed' => armed /\ UNCHANGED <<op, out, n>>
    PROVE  IrqInv'
<1>1. Ended' = Ended
  BY DEF CoreSame, Ended
<1>2. ASSUME NEW w, NEW t, NEW m, NEW p, NEW a, OnTrack(w, t, m, p, a)
      PROVE  OnTrack(w, t, m, p, a)'
  <2>1. ~Flush'
    BY <1>2 DEF CoreSame, OnTrack, Flush
  <2> QED
    BY <1>2, <2>1, TrackSame DEF CoreSame
<1>3. ASSUME NEW w, NEW m, WriteLeft(w, m) PROVE WriteLeft(w, m)'
  <2>1. OnTrack(w, w, m, w, rx)'
    BY <1>2, <1>3 DEF WriteLeft, CoreSame
  <2> QED
    BY <1>3, <2>1 DEF WriteLeft
<1>4. ASSUME NEW w, NEW t, NEW m, ReadLeft(w, t, m) PROVE ReadLeft(w, t, m)'
  <2>1. OnTrack(w, t, m, t, irq_got \o rx)'
    BY <1>2, <1>4 DEF ReadLeft, CoreSame
  <2>2. armed' => w = WriteLeg' /\ t = Total' /\ m = out'
    BY <1>4 DEF ReadLeft, WriteLeg, Total
  <2> QED
    BY <1>4, <2>1, <2>2 DEF ReadLeft
<1>5. armed' => armed /\ (op' # "tx" => op # "tx") /\ (Fresh(irq_got, n) => Fresh(irq_got, n)')
  BY DEF Fresh
<1>6. irq_busy' = 1 => Ended' \/ \E w \in Nat, m \in Seq(Register) : WriteLeft(w, m)'
  BY <1>1, <1>3 DEF IrqInv
<1>7. irq_busy' = 2 /\ isr' = "out" =>
         Ended' \/ \E w, t \in Nat, m \in Seq(Register) : ReadLeft(w, t, m)'
  BY <1>1, <1>4 DEF IrqInv
<1> QED
  BY <1>1, <1>5, <1>6, <1>7 DEF IrqInv

\* Nothing is the interrupt routine's.
LEMMA IrqNone == ASSUME irq_busy' = 0, ~armed' PROVE IrqInv'
  BY DEF IrqInv
----------------------------------------------------------------------------
(* Steps between the legs.                                                 *)

\* Before the driver is started the core is at rest.
LEMMA TimelyInit ==
    ASSUME FrameInv, FrameInv', Timely, InitDevice
    PROVE  Timely'
<1>1. pc = "boot" /\ pc' = "idle" /\ irq_busy = 0 /\ ~armed
  BY DEF InitDevice, FrameInv, OwnerInv, LocalInv
<1>2. Rest
  BY <1>1 DEF Timely, QuietInv, InLeg, Between, Turn
<1>3. Rest' /\ irq_busy' = 0 /\ ~armed'
  BY <1>1, <1>2 DEF InitDevice, Disable, Rest, irqVars, historyVars
<1>4. ~InLeg' /\ ~Turn' /\ ~Between'
  BY <1>1 DEF InLeg, Turn, Between
<1>5. IrqInv'
  BY <1>3, IrqNone
<1> QED
  BY <1>1, <1>3, <1>4, <1>5 DEF Timely, CallInv, QuietInv, QuiesceInv, ReturnInv

\* Nothing is under way when the routine is registered for the first time.
LEMMA TimelyRegister ==
    ASSUME FrameInv, FrameInv', Timely, Register_
    PROVE  Timely'
<1>1. pc = "idle" /\ pc' = "idle" /\ irq_busy = 0 /\ irq_busy' = 0
  BY DEF Register_, At, FrameInv, LocalInv, callVars
<1>2. Rest
  BY <1>1 DEF Timely, QuietInv, InLeg, Between, Turn
<1>3. Rest'
  BY <1>2 DEF Register_, Rest, coreVars, ctrlVars, fifoVars
<1>4. ~InLeg' /\ ~Turn' /\ ~Between'
  BY <1>1 DEF InLeg, Turn, Between
<1>5. IrqInv'
  BY <1>1, IrqSame DEF Timely, Register_, coreVars, ctrlVars, flagVars, fifoVars, deviceVars,
                       callVars, historyVars, CoreSame
<1> QED
  BY <1>1, <1>3, <1>4, <1>5 DEF Timely, CallInv, QuietInv, QuiesceInv, ReturnInv

\* A call found the core idle, or whoever had it before in order.
LEMMA TimelyCall ==
    ASSUME FrameInv, FrameInv', TimelyInv, SomeCall, ~late'
    PROVE  Timely'
<1>1. PICK o \in {"tx", "rx", "txrx"}, i \in BOOLEAN, m \in Seq(Register), s \in Nat :
           Call(o, i, m, s)
  BY DEF SomeCall
<1>2. /\ pc = "idle" /\ pc' = "begin" /\ isr = "out" /\ ~armed' /\ CoreSame
      /\ UNCHANGED <<irq_busy, irq_size, irq_got, isr>> /\ ~(late /\ ~CoreIdle)
  BY <1>1 DEF Call, At, coreVars, ctrlVars, flagVars, fifoVars, deviceVars, irqVars, CoreSame
<1>3. ~InLeg' /\ ~Turn' /\ ~Between' /\ ~InLeg /\ ~Between
  BY <1>1, <1>2 DEF Call, InLeg, Turn, Between
<1>4. QuietInv' /\ IrqInv'
  <2>1. CASE ~late
    <3>1. QuietInv /\ IrqInv
      BY <2>1 DEF TimelyInv, Timely
    <3>2. QuietInv'
      BY <1>2, <1>3, <3>1 DEF QuietInv, Rest, CoreSame
    <3>3. IrqInv'
      BY <1>2, <3>1, IrqSame
    <3> QED
      BY <3>2, <3>3
  <2>2. CASE late
    <3>1. fsm \in {"IDLE", "PRE_IDLE"} /\ cmds = <<>> /\ rx = <<>>
      BY <1>2, <2>2 DEF CoreIdle, CoreBusy
    <3>2. irq_busy = 0 => ~ctrl_en
      BY <1>3 DEF FrameInv, OwnerInv
    <3>3. irq_busy # 0 => ctrl_en
      BY DEF FrameInv, OwnerInv
    <3>4. irq_busy = 0 => Rest
      BY <3>1, <3>2 DEF Rest, FrameInv, CoreInv
    <3>5. irq_busy # 0 => Ended
      BY <3>1, <3>3 DEF Ended, FrameInv, CoreInv
    <3>6. QuietInv'
      BY <1>2, <3>4 DEF QuietInv, Rest, CoreSame
    <3>7. Ended' = Ended
      BY <1>2 DEF Ended, CoreSame
    <3>8. IrqInv'
      BY <1>2, <3>5, <3>7 DEF IrqInv
    <3> QED
      BY <3>6, <3>8
  <2> QED
    BY <2>1, <2>2
<1> QED
  BY <1>2, <1>3, <1>4 DEF Timely, CallInv, QuiesceInv, ReturnInv

\* The call asked for nothing, or could not start.
LEMMA NoBytes == ASSUME FrameInv, LegSize = 0, Stop PROVE Delivered
<1>1. /\ out \in Seq(Register) /\ n \in Nat /\ got \in Seq(Byte)
      /\ op \in {"tx", "rx", "txrx"} /\ leg \in {"tx", "rx"}
  BY DEF FrameInv, TypeOK
<1>2. CASE leg = "tx"
  <2>1. out = <<>> /\ op = "tx"
    BY <1>1, <1>2 DEF LegSize, Stop, FrameInv, LocalInv
  <2> QED
    BY <2>1 DEF Delivered
<1>3. CASE leg = "rx"
  <2>1. n = 0 /\ op = "rx" /\ out = <<>> /\ got = <<>>
    BY <1>1, <1>3 DEF LegSize, Stop, FrameInv, LocalInv
  <2> QED
    BY <2>1 DEF Delivered, Fresh
<1> QED
  BY <1>1, <1>2, <1>3

\* A leg that does not begin leaves the core as it was.
LEMMA TimelyBeginRefused ==
    ASSUME FrameInv, FrameInv', Timely, BeginRefused
    PROVE  Timely'
<1>1. /\ pc = "begin" /\ pc' = "legDone" /\ CoreSame
      /\ UNCHANGED <<op, ints, leg, out, n, left, got, irq_busy, irq_size, irq_got, isr, armed>>
  BY DEF BeginRefused, At, coreVars, ctrlVars, flagVars, fifoVars, deviceVars, irqVars,
         historyVars, CoreSame
<1>2. op = "txrx" => Len(out) > 0 /\ n > 0
  BY DEF FrameInv, LocalInv, TypeOK
<1>3. /\ status' = "SUCCESS" => LegSize = 0
      /\ status' # "TIMEOUT"
  BY DEF BeginRefused
<1>4. ~Between /\ ~InLeg
  BY <1>1, <1>2 DEF BeginRefused, FrameInv, LocalInv, Restart, Between, Turn, InLeg, LegSize
<1>5. ~Between' /\ ~InLeg'
  BY <1>1, <1>2, <1>3 DEF Between, Turn, InLeg, LegSize
<1>6. IrqInv'
  BY <1>1, IrqSame DEF Timely
<1>7. QuietInv'
  BY <1>1, <1>4 DEF Timely, QuietInv, Rest, CoreSame
<1>8. ReturnInv'
  BY <1>1, <1>3 DEF ReturnInv, LegSize
<1> QED
  BY <1>1, <1>3, <1>5, <1>6, <1>7, <1>8 DEF Timely, CallInv, QuiesceInv

\* A failed leg has left the core at rest, or never had it.
LEMMA TimelyRetry ==
    ASSUME FrameInv, FrameInv', Timely, LegRetry
    PROVE  Timely'
<1>1. /\ pc = "legDone" /\ pc' = "begin" /\ CoreSame /\ status' = status
      /\ status # "SUCCESS"
      /\ UNCHANGED <<irq_busy, irq_size, irq_got, isr, op, out, n, armed>>
  BY DEF LegRetry, At, coreVars, ctrlVars, flagVars, fifoVars, deviceVars, irqVars, historyVars,
         CoreSame, Retried
<1>2. ~Between /\ ~InLeg /\ ~Turn' /\ ~Between' /\ ~InLeg'
  BY <1>1 DEF LegRetry, Between, Turn, InLeg
<1>3. IrqInv'
  BY <1>1, IrqSame DEF Timely
<1>4. QuietInv'
  BY <1>1, <1>2 DEF Timely, QuietInv, Rest, CoreSame
<1> QED
  BY <1>1, <1>2, <1>3, <1>4 DEF Timely, CallInv, QuiesceInv, ReturnInv

\* From the first leg to the second: the row goes on.
LEMMA TimelyNext ==
    ASSUME FrameInv, FrameInv', Timely, LegNext
    PROVE  Timely'
<1>1. /\ pc = "legDone" /\ pc' = "begin" /\ CoreSame /\ status' = status
      /\ op = "txrx" /\ leg = "tx" /\ leg' = "rx"
      /\ UNCHANGED <<irq_busy, irq_size, irq_got, isr, op, out, n, armed, left, got>>
  BY DEF LegNext, At, coreVars, ctrlVars, flagVars, fifoVars, deviceVars, irqVars, historyVars,
         CoreSame
<1>2. /\ ~InLeg /\ ~InLeg' /\ Turn /\ Turn' /\ (Between' <=> Between)
      /\ Between => left = 0
  BY <1>1 DEF Between, Turn, InLeg, FrameInv, LocalInv
<1>3. IrqInv'
  BY <1>1, IrqSame DEF Timely
<1>4. QuietInv'
  BY <1>1, <1>2 DEF Timely, QuietInv, Rest, CoreSame
<1>5. CallInv'
  <2> SUFFICES ASSUME Between
               PROVE ctrl_en' /\ (Flush' \/ OnTrack(WriteLeg, Total, out, PutCount, got \o rx)')
    BY <1>2 DEF CallInv
  <2>1. ctrl_en /\ (Flush \/ OnTrack(WriteLeg, Total, out, PutCount, got \o rx))
    BY DEF Timely, CallInv
  <2>2. CASE Flush
    BY <1>1, <2>1, <2>2 DEF CoreSame, Flush
  <2>3. CASE ~Flush
    <3>1. PICK w, t, m, p, a : /\ w = WriteLeg /\ t = Total /\ m = out /\ p = PutCount
                               /\ a = got \o rx /\ OnTrack(w, t, m, p, a)
      BY <2>1, <2>3
    <3>2. OnTrack(w, t, m, p, a)'
      BY <1>1, <2>3, <3>1, TrackSame DEF CoreSame, Flush
    <3>3. w = WriteLeg' /\ t = Total' /\ m = out' /\ a = got' \o rx'
      BY <1>1, <3>1 DEF WriteLeg, Total, CoreSame
    <3>4. p = PutCount'
      <4>1. out \in Seq(Register)
        BY DEF FrameInv, TypeOK
      <4> QED
        BY <1>1, <1>2, <3>1, <4>1 DEF PutCount, WriteLeg, LegSize
    <3> QED
      BY <1>1, <2>1, <3>2, <3>3, <3>4 DEF CoreSame
  <2> QED
    BY <2>2, <2>3
<1> QED
  BY <1>1, <1>2, <1>3, <1>4, <1>5 DEF Timely, QuiesceInv, ReturnInv

\* The call returns, or the program asks about the transfer.
LEMMA TimelyReturn ==
    ASSUME FrameInv, FrameInv', Timely, LegReturn
    PROVE  Timely'
<1>1. /\ pc = "legDone" /\ pc' = "idle" /\ status' = status /\ (Keep \/ Forget)
      /\ irq_busy # 0 \/ armed => Keep
      /\ UNCHANGED <<irq_busy, irq_size, isr>>
      /\ UNCHANGED <<ctrl_en, nack_det, arblost_det, fsm, cmds, cur, rw_cmd, rx, ptr, first>>
  BY DEF LegReturn, At, ctrlVars, flagVars, fifoVars
<1>2. ~Between /\ ~InLeg /\ ~Turn' /\ ~Between' /\ ~InLeg'
  BY <1>1 DEF LegReturn, Between, Turn, InLeg, Retried
<1>3. IrqInv'
  <2>1. CASE Keep
    BY <1>1, <2>1, IrqSame DEF Timely, Keep, CoreSame
  <2>2. CASE ~Keep
    BY <1>1, <2>2, IrqNone DEF Forget
  <2> QED
    BY <2>1, <2>2
<1>4. QuietInv'
  BY <1>1, <1>2 DEF Timely, QuietInv, Rest
<1> QED
  BY <1>1, <1>2, <1>3, <1>4 DEF Timely, CallInv, QuiesceInv, ReturnInv

\* A look at the transfer masks its interrupt, and takes nothing from it.
LEMMA TimelyAsk ==
    ASSUME FrameInv, FrameInv', Timely, AskStatus \/ Mask \/ Ask
    PROVE  Timely'
<1>1. /\ pc \in {"idle", "mask", "ask"} /\ pc' \in {"idle", "mask", "ask", "abort"}
      /\ UNCHANGED <<irq_busy, irq_size, isr>>
      /\ UNCHANGED <<ctrl_en, nack_det, arblost_det, fsm, cmds, cur, rw_cmd, rx, ptr, first>>
  BY DEF AskStatus, Mask, Ask, Answer, At, coreVars, ctrlVars, flagVars, fifoVars, deviceVars,
         irqVars
<1>2. Keep \/ (irq_busy = 0 /\ ~armed')
  BY DEF AskStatus, Mask, Ask, Keep, Forget, coreVars, deviceVars, irqVars, historyVars
<1>3. ~Between /\ ~InLeg /\ ~Turn' /\ ~Between' /\ ~InLeg'
  BY <1>1 DEF Between, Turn, InLeg
<1>4. IrqInv'
  <2>1. CASE Keep
    BY <1>1, <2>1, IrqSame DEF Timely, Keep, CoreSame
  <2>2. CASE ~Keep
    BY <1>1, <1>2, <2>2, IrqNone
  <2> QED
    BY <2>1, <2>2
<1>5. QuietInv'
  BY <1>1, <1>3 DEF Timely, QuietInv, Rest
<1> QED
  BY <1>1, <1>3, <1>4, <1>5 DEF Timely, CallInv, QuiesceInv, ReturnInv
----------------------------------------------------------------------------
(* The steps of a leg.                                                     *)

\* In a leg the core is its own.
LEMMA LegFacts ==
    ASSUME FrameInv, Timely, InLeg
    PROVE  /\ irq_busy = 0 /\ ~armed /\ isr = "out" /\ ctrl_en
           /\ Flush \/ OnTrack(WriteLeg, Total, out, PutCount, got \o rx)
<1>1. irq_busy = 0 /\ isr = "out"
  BY DEF FrameInv, OwnerInv
<1>2. ~armed
  BY DEF FrameInv, LocalInv, InLeg
<1> QED
  BY <1>1, <1>2 DEF Timely, CallInv

\* An idle core and empty FIFOs: the row begins.
LEMMA TimelyBeginNew ==
    ASSUME FrameInv, FrameInv', Timely, BeginNew
    PROVE  Timely'
<1>1. /\ pc = "begin" /\ pc' = "put" /\ ~Restart /\ ~ctrl_en /\ LegSize > 0 /\ isr = "out"
      /\ UNCHANGED <<op, ints, leg, out, n, cmds, rx, armed>>
      /\ left' = LegSize + 1 /\ got' = <<>> /\ taken' = <<>>
      /\ ctrl_en' /\ ~Flush' /\ fsm' = (IF fsm = "IDLE" THEN "PRE_START" ELSE fsm)
  BY DEF BeginNew, At, Enable, ClearFlags, historyVars, Flush
<1>2. irq_busy = 0 /\ ~armed /\ ~InLeg /\ ~Between
  BY <1>1 DEF FrameInv, OwnerInv, LocalInv, InLeg, Between, Turn, Restart
<1>3. Rest
  BY <1>2 DEF Timely, QuietInv
<1>4. irq_busy' = 0 /\ ~armed' /\ InLeg' /\ ~Turn' /\ LegSize' = LegSize
  BY <1>1, <1>2 DEF BeginNew, InLeg, Turn, LegSize
<1>5. /\ WriteLeg' \in Nat /\ Total' \in Nat /\ out' \in Seq(Register)
      /\ Row(WriteLeg', Total', out') /\ (op = "rx" => WriteLeg' = 0)
  <2>1. /\ WriteLeg \in Nat /\ Total \in Nat /\ out \in Seq(Register)
        /\ Row(WriteLeg, Total, out) /\ (op = "rx" => WriteLeg = 0)
    BY <1>1, CallRow
  <2>2. WriteLeg' = WriteLeg /\ Total' = Total
    BY <1>1 DEF WriteLeg, Total
  <2> QED
    BY <1>1, <2>1, <2>2
<1>6. PutCount' = 0
  <2> LegSize \in Nat
    BY DEF LegSize, FrameInv, TypeOK
  <2>1. PICK s \in Nat : s = LegSize
    OBVIOUS
  <2>2. leg = "rx" => op = "rx"
    BY <1>1 DEF Restart, FrameInv, LocalInv, TypeOK
  <2>3. (IF leg' = "rx" THEN WriteLeg' ELSE 0) = 0
    BY <1>1, <1>5, <2>2
  <2>4. LegSize' = s /\ left' = s + 1
    BY <1>1, <1>4, <2>1
  <2> QED
    BY <1>1, <2>3, <2>4 DEF PutCount
<1>7. cmds' = <<>> /\ rx' = <<>> /\ fsm' = "PRE_START"
  BY <1>1, <1>3 DEF Rest
<1>8. ASSUME NEW w \in Nat, NEW t \in Nat, NEW m \in Seq(Register), Row(w, t, m)
      PROVE  OnTrack(w, t, m, 0, <<>>)'
  <2>1. Popped(0)' = 0 /\ Done(0)' = 0
    <3>1. Len(cmds') = 0
      BY <1>7
    <3>2. Popped(0)' = 0
      BY <3>1 DEF Popped
    <3> QED
      BY <1>7, <3>2 DEF Done
  <2>2. Queue(w, t, m, 0)'
    BY <1>7, <2>1 DEF Queue
  <2>3. Place(w, t, m, Popped(0))'
    BY <1>7, <2>1 DEF Place
  <2>4. Written(w, 0) = 0 /\ SubSeq(m, 1, 0) = <<>> /\ ReadSoFar(w, 0) = 0
    BY DEF Written, ReadSoFar
  <2>5. Received(w, 0, <<>>)' /\ Pointed(w, m, 0, <<>>)'
    BY <2>4 DEF Received, Pointed, Chain
  <2> QED
    BY <1>1, <2>1, <2>2, <2>3, <2>4, <2>5 DEF OnTrack
<1>9. OnTrack(WriteLeg, Total, out, PutCount, got \o rx)'
  <2>1. PICK w \in Nat, t \in Nat, m \in Seq(Register) :
          w = WriteLeg' /\ t = Total' /\ m = out' /\ Row(w, t, m)
    BY <1>5
  <2>2. OnTrack(w, t, m, 0, <<>>)'
    BY <1>8, <2>1
  <2>3. got' \o rx' = <<>>
    BY <1>1, <1>7, ConcatBytes, EmptyType
  <2> QED
    BY <1>6, <2>1, <2>2, <2>3
<1>10. IrqInv'
  BY <1>4, IrqNone
<1> QED
  BY <1>1, <1>4, <1>9, <1>10 DEF Timely, CallInv, QuietInv, QuiesceInv, ReturnInv

\* The second leg goes on with the row of the first.
LEMMA TimelyBeginRestart ==
    ASSUME FrameInv, FrameInv', Timely, BeginRestart
    PROVE  Timely'
<1>1. /\ pc = "begin" /\ pc' = "put" /\ Turn /\ (ints => registered) /\ CoreSame /\ leg = "rx"
      /\ UNCHANGED <<op, ints, leg, out, n, armed, irq_busy>>
      /\ left' = LegSize + 1 /\ got' = <<>>
  BY DEF BeginRestart, At, Restart, Turn, coreVars, ctrlVars, flagVars, fifoVars, deviceVars,
         irqVars, historyVars, CoreSame
<1>2. status = "SUCCESS"
  BY <1>1 DEF Timely, QuiesceInv, FrameInv, LocalInv, TypeOK, StatusCode, Retried
<1>3. Between /\ irq_busy = 0 /\ got = <<>> /\ ~armed
  BY <1>1, <1>2 DEF Between, FrameInv, LocalInv, OwnerInv
<1>4. ctrl_en /\ (Flush \/ OnTrack(WriteLeg, Total, out, PutCount, got \o rx))
  BY <1>3 DEF Timely, CallInv
<1>5. InLeg' /\ ~Turn' /\ ctrl_en' /\ irq_busy' = 0 /\ ~armed'
  BY <1>1, <1>3, <1>4 DEF InLeg, Turn, CoreSame
<1>6. CASE Flush
  BY <1>1, <1>5, <1>6, IrqNone
     DEF CoreSame, Flush, Timely, CallInv, QuietInv, QuiesceInv, ReturnInv
<1>7. CASE ~Flush
  <2>1. PICK w, t, m, p, a : /\ w = WriteLeg /\ t = Total /\ m = out /\ p = PutCount
                             /\ a = got \o rx /\ OnTrack(w, t, m, p, a)
    BY <1>4, <1>7
  <2>2. OnTrack(w, t, m, p, a)'
    BY <1>1, <1>7, <2>1, TrackSame DEF CoreSame, Flush
  <2>3. w = WriteLeg' /\ t = Total' /\ m = out' /\ a = got' \o rx'
    BY <1>1, <1>3, <2>1 DEF WriteLeg, Total, CoreSame
  <2>4. p = PutCount'
    <3> LegSize \in Nat /\ WriteLeg \in Nat
      BY DEF FrameInv, TypeOK, LegSize, WriteLeg
    <3>1. PICK s \in Nat, v \in Nat : s = LegSize /\ v = WriteLeg
      OBVIOUS
    <3>2. p = v
      BY <1>1, <2>1, <3>1 DEF PutCount
    <3>3. LegSize' = s /\ WriteLeg' = v /\ left' = s + 1
      BY <1>1, <3>1 DEF LegSize, WriteLeg
    <3> QED
      BY <1>1, <3>2, <3>3 DEF PutCount
  <2>5. CallInv'
    BY <1>5, <2>2, <2>3, <2>4 DEF CallInv
  <2> QED
    BY <1>1, <1>5, <2>5, IrqNone DEF Timely, QuietInv, QuiesceInv, ReturnInv
<1> QED
  BY <1>6, <1>7

\* The command put is the next one of the row.
LEMMA PutCommand ==
    ASSUME FrameInv, pc = "put"
    PROVE  /\ PutCount \in Nat /\ PutCount < Total
           /\ TheCommand = Cmd(WriteLeg, Total, out, PutCount + 1)
<1>1. /\ left \in 1..(LegSize + 1) /\ leg \in {"tx", "rx"} /\ LegSize \in Nat
      /\ leg = "tx" => op # "rx" /\ LegSize = Len(out)
      /\ leg = "rx" => op # "tx" /\ LegSize = n
  BY DEF FrameInv, LocalInv, TypeOK, LegSize
<1>2. /\ WriteLeg \in Nat /\ Total \in Nat
      /\ op \in {"rx", "txrx"} => Total = WriteLeg + n + 1 /\ n > 0
      /\ op = "tx" => Total = WriteLeg
      /\ op \in {"tx", "txrx"} => WriteLeg = Len(out) + 1 /\ Len(out) > 0
      /\ op = "rx" => WriteLeg = 0
      /\ op \in {"tx", "rx", "txrx"} /\ Len(out) \in Nat /\ n \in Nat
  <2>1. InLeg \/ Between
    BY DEF InLeg
  <2> QED
    BY <2>1, CallRow
<1>3. PICK w \in Nat, t \in Nat, s \in Nat, l \in Nat, k \in Nat :
        /\ w = WriteLeg /\ t = Total /\ s = LegSize /\ l = left /\ l \in 1..(s + 1)
        /\ k = (IF leg = "rx" THEN w ELSE 0) + s + 2 - l
  <2>1. (IF leg = "rx" THEN WriteLeg ELSE 0) + LegSize + 2 - left \in Nat
    BY <1>1, <1>2
  <2> QED
    BY <1>1, <1>2, <2>1
<1>4. PutCount = k - 1 /\ k >= 1 /\ PutCount + 1 = k
  BY <1>1, <1>3 DEF PutCount
<1>5. CASE leg = "tx"
  <2>1. w = s + 1 /\ k = s + 2 - l /\ k <= w /\ t >= w /\ w > 0 /\ s = Len(out)
    BY <1>1, <1>2, <1>3, <1>5
  <2>2. k < t \/ k = t
    BY <2>1, <1>3
  <2>3. TheCommand.val = Value(w, out, k)
    <3>1. CASE l = s + 1
      <4>1. k = 1
        BY <2>1, <3>1
      <4>2. TheCommand.val = ALT_AVALON_I2C_WRITE
        BY <1>3, <1>5, <3>1 DEF TheCommand
      <4>3. Value(w, out, k) = Direction(w, k)
        BY <4>1 DEF Value, Kind
      <4> QED
        BY <2>1, <4>1, <4>2, <4>3 DEF Direction
    <3>2. CASE l # s + 1
      <4>1. k # 1 /\ k # w + 1 /\ s + 1 - l = k - 1
        BY <2>1, <3>2, <1>3
      <4>2. TheCommand.val = out[s + 1 - l]
        BY <1>3, <1>5, <3>2 DEF TheCommand
      <4>3. Value(w, out, k) = out[k - 1]
        BY <2>1, <4>1 DEF Value, Kind
      <4> QED
        BY <4>1, <4>2, <4>3
    <3> QED
      BY <3>1, <3>2
  <2>4. ~Restart /\ ~(w > 0 /\ k = w + 1)
    BY <1>5, <2>1 DEF Restart
  <2>5. (l = 1 /\ Stop) <=> k = t
    <3>1. Stop <=> op = "tx"
      BY <1>1, <1>2, <1>5 DEF Stop
    <3>2. op = "tx" => t = w
      BY <1>2, <1>3
    <3>3. op # "tx" => t > w
      BY <1>2, <1>3
    <3>4. l = 1 <=> k = w
      BY <2>1
    <3> QED
      BY <2>1, <3>1, <3>2, <3>3, <3>4
  <2>6. TheCommand = Cmd(w, t, out, k)
    BY <1>3, <2>3, <2>4, <2>5 DEF TheCommand, Cmd
  <2>7. PutCount \in Nat /\ PutCount < Total
    BY <1>3, <1>4, <2>1
  <2> QED
    BY <1>3, <1>4, <2>6, <2>7
<1>6. CASE leg = "rx"
  <2>1. k = w + s + 2 - l /\ k > w /\ t = w + s + 1 /\ s = n /\ k <= t
    BY <1>1, <1>2, <1>3, <1>6
  <2>2. w > 0 <=> op = "txrx"
    BY <1>1, <1>2, <1>3, <1>6
  <2>3. l = s + 1 <=> k = w + 1
    BY <2>1
  <2>4. TheCommand.val = Value(w, out, k)
    <3>1. CASE l = s + 1
      <4>1. TheCommand.val = ALT_AVALON_I2C_READ
        BY <1>3, <1>6, <3>1 DEF TheCommand
      <4>2. Value(w, out, k) = Direction(w, k)
        BY <2>3, <3>1 DEF Value, Kind
      <4> QED
        BY <2>1, <4>1, <4>2 DEF Direction
    <3>2. CASE l # s + 1
      <4>1. TheCommand.val = 0
        BY <1>3, <1>6, <3>2 DEF TheCommand
      <4>2. k # w + 1 /\ k # 1 /\ ~(k <= w)
        BY <2>1, <2>3, <3>2
      <4> QED
        BY <4>1, <4>2 DEF Value, Kind
    <3> QED
      BY <3>1, <3>2
  <2>5. (l = s + 1 /\ Restart) <=> (w > 0 /\ k = w + 1)
    BY <1>6, <2>2, <2>3 DEF Restart
  <2>6. (l = 1 /\ Stop) <=> k = t
    BY <1>6, <2>1 DEF Stop
  <2>7. TheCommand = Cmd(w, t, out, k)
    BY <1>3, <2>4, <2>5, <2>6 DEF TheCommand, Cmd
  <2>8. PutCount \in Nat /\ PutCount < Total
    BY <1>3, <1>4, <2>1
  <2> QED
    BY <1>3, <1>4, <2>7, <2>8
<1> QED
  BY <1>1, <1>5, <1>6

\* The next command of a row is put.
LEMMA TrackPut ==
    ASSUME FrameInv, NEW w \in Nat, NEW t \in Nat, NEW m \in Seq(Register), NEW p \in Nat,
           NEW a \in Seq(Byte), OnTrack(w, t, m, p, a), p < t, WriteCommand(Cmd(w, t, m, p + 1)),
           Cmd(w, t, m, p + 1) \in Command,
           UNCHANGED <<ctrl_en, nack_det, arblost_det, cur, rw_cmd, ptr, first, taken>>
    PROVE  OnTrack(w, t, m, p + 1, a)'
<1>1. CoreTypeOK /\ ctrl_en /\ ~Flush /\ cmds \in Seq(Command)
  BY DEF FrameInv, TypeOK, CoreTypeOK, OnTrack
<1>2. PICK q \in Nat : q = Popped(p)
  BY <1>1, TrackFacts
<1>3. q <= p /\ Place(w, t, m, q) /\ Queue(w, t, m, p)
  BY <1>1, <1>2, TrackFacts
<1>4. fsm # "PRE_IDLE"
  BY <1>3 DEF Place
<1>5. fsm' = fsm /\ cmds' = Append(cmds, Cmd(w, t, m, p + 1)) /\ Len(cmds') = Len(cmds) + 1
  BY <1>1, <1>4 DEF WriteCommand
<1>6. Popped(p + 1)' = q /\ Done(p + 1)' = Done(p)
  BY <1>1, <1>2, <1>5 DEF Popped, Done
<1>7. Queue(w, t, m, p + 1)'
  <2>1. Len(cmds') <= p + 1 /\ p + 1 <= t
    BY <1>1, <1>3, <1>5 DEF Queue
  <2>2. ASSUME NEW i \in 1..Len(cmds') PROVE cmds'[i] = Cmd(w, t, m, q + i)
    <3>1. CASE i = Len(cmds) + 1
      <4>1. q + i = p + 1
        BY <1>1, <1>2, <3>1 DEF Popped
      <4>2. cmds'[i] = Cmd(w, t, m, p + 1)
        BY <1>1, <1>5, <3>1
      <4> QED
        BY <4>1, <4>2
    <3>2. CASE i # Len(cmds) + 1
      <4>1. i \in 1..Len(cmds) /\ cmds'[i] = cmds[i]
        BY <1>1, <1>5, <3>2
      <4> QED
        BY <1>2, <1>3, <4>1 DEF Queue
    <3> QED
      BY <3>1, <3>2
  <2> QED
    BY <1>6, <2>1, <2>2 DEF Queue
<1>8. Place(w, t, m, Popped(p + 1))'
  BY <1>3, <1>5, <1>6 DEF Place
<1> QED
  BY <1>1, <1>6, <1>7, <1>8 DEF OnTrack, Received, Pointed, Flush

\* The leg puts a command.
LEMMA TimelyPut ==
    ASSUME FrameInv, FrameInv', Timely, Put
    PROVE  Timely'
<1>1. /\ pc = "put" /\ pc' = "check" /\ InLeg /\ InLeg' /\ ~Turn' /\ WriteCommand(TheCommand)
      /\ UNCHANGED <<ctrl_en, nack_det, arblost_det, cur, rw_cmd, rx, ptr, first, taken>>
      /\ UNCHANGED <<op, leg, out, n, left, got, irq_busy, armed>>
  BY DEF Put, At, InLeg, Turn, ctrlVars, flagVars, deviceVars, irqVars, historyVars
<1>2. /\ irq_busy = 0 /\ ~armed /\ ctrl_en
      /\ Flush \/ OnTrack(WriteLeg, Total, out, PutCount, got \o rx)
  BY <1>1, LegFacts
<1>3. CASE Flush
  BY <1>1, <1>2, <1>3, IrqNone
     DEF Flush, Timely, CallInv, QuietInv, QuiesceInv, ReturnInv
<1>4. CASE ~Flush
  <2>1. /\ WriteLeg \in Nat /\ Total \in Nat /\ out \in Seq(Register)
        /\ got \o rx \in Seq(Byte)
    BY <1>1, CallRow, ConcatBytes DEF FrameInv, TypeOK, CoreTypeOK
  <2>2. PICK w \in Nat, t \in Nat, m \in Seq(Register), p \in Nat, a \in Seq(Byte) :
          /\ w = WriteLeg /\ t = Total /\ m = out /\ p = PutCount
          /\ a = got \o rx /\ OnTrack(w, t, m, p, a)
    BY <1>1, <1>2, <1>4, <2>1, PutCommand
  <2>3. p < t /\ WriteCommand(Cmd(w, t, m, p + 1)) /\ Cmd(w, t, m, p + 1) \in Command
    <3>1. PICK c \in Command : c = TheCommand
      BY <1>1, CommandType DEF FrameInv
    <3>2. c = Cmd(w, t, m, p + 1) /\ p < t /\ WriteCommand(c)
      BY <1>1, <2>2, <3>1, PutCommand
    <3> QED
      BY <3>2
  <2>4. OnTrack(w, t, m, p + 1, a)'
    BY <1>1, <2>2, <2>3, TrackPut
  <2>5. w = WriteLeg' /\ t = Total' /\ m = out' /\ a = got' \o rx'
    BY <1>1, <2>2 DEF WriteLeg, Total
  <2>6. p + 1 = PutCount'
    <3>1. LegSize \in Nat /\ left \in Nat /\ LegSize' = LegSize /\ WriteLeg' = WriteLeg
      BY <1>1 DEF FrameInv, TypeOK, LegSize, WriteLeg
    <3> QED
      BY <1>1, <2>1, <2>2, <3>1 DEF PutCount
  <2>7. CallInv'
    BY <1>1, <1>2, <2>4, <2>5, <2>6 DEF CallInv
  <2> QED
    BY <1>1, <1>2, <2>7, IrqNone DEF Timely, QuietInv, QuiesceInv, ReturnInv
<1> QED
  BY <1>3, <1>4

\* A step between two commands leaves the row as it is.
LEMMA CallKept ==
    ASSUME OnTrack(WriteLeg, Total, out, PutCount, got \o rx),
           UNCHANGED <<ctrl_en, nack_det, arblost_det, fsm, cmds, cur, rw_cmd, ptr, first, taken>>,
           UNCHANGED <<op, out, n>>, got' \o rx' = got \o rx, PutCount' = PutCount
    PROVE  ctrl_en' /\ OnTrack(WriteLeg, Total, out, PutCount, got \o rx)'
<1>1. PICK w, t, m, p, a : /\ w = WriteLeg /\ t = Total /\ m = out /\ p = PutCount
                           /\ a = got \o rx /\ OnTrack(w, t, m, p, a)
  OBVIOUS
<1>2. ~Flush' /\ ctrl_en'
  BY DEF OnTrack, Flush
<1>3. OnTrack(w, t, m, p, a)'
  BY <1>1, <1>2, TrackSame
<1>4. w = WriteLeg' /\ t = Total' /\ m = out' /\ a = got' \o rx' /\ p = PutCount'
  BY <1>1 DEF WriteLeg, Total
<1> QED
  BY <1>2, <1>3, <1>4

\* A refusal, or a lost bus, seen after a command.
LEMMA TimelyCheckFails ==
    ASSUME FrameInv, FrameInv', Timely, CheckFails
    PROVE  Timely'
<1>1. /\ pc = "check" /\ pc' = "quiesce" /\ InLeg /\ InLeg' /\ ~Turn' /\ Flush /\ Flush'
      /\ ctrl_en' = ctrl_en /\ irq_busy' = irq_busy /\ armed' = armed /\ status' # "TIMEOUT"
  BY DEF CheckFails, At, InLeg, Turn, coreVars, ctrlVars, flagVars, irqVars, historyVars, Flush
<1>2. irq_busy = 0 /\ ~armed /\ ctrl_en
  BY <1>1, LegFacts
<1> QED
  BY <1>1, <1>2, IrqNone DEF Timely, CallInv, QuietInv, QuiesceInv, ReturnInv

\* In time a command always finds room.
LEMMA TimelyPutExpires ==
    ASSUME FrameInv, Timely, PutExpires, ~late'
    PROVE  FALSE
<1>1. /\ pc = "put" /\ InLeg /\ ~TxReady /\ CoreStuck /\ CoreTypeOK
  BY DEF PutExpires, At, InLeg, Waited, FrameInv, TypeOK
<1>2. ctrl_en /\ (Flush \/ OnTrack(WriteLeg, Total, out, PutCount, got \o rx))
  BY <1>1, LegFacts
<1>3. cmds # <<>>
  BY <1>1, <1>2 DEF TxReady, CoreTypeOK
<1>4. ~Flush
  BY <1>3 DEF FrameInv, CoreInv
<1> QED
  BY <1>1, <1>3, <1>4 DEF CoreStuck, CoreBusy, FrameInv, CoreInv

\* None seen; bytes that have come go to memory.
LEMMA TimelyCheck ==
    ASSUME FrameInv, FrameInv', Timely, Check
    PROVE  Timely'
<1>1. /\ pc = "check" /\ InLeg /\ ~Flush /\ ~Flush' /\ status' = "SUCCESS"
      /\ left' = left - 1 /\ isr = "out"
      /\ UNCHANGED <<ctrl_en, nack_det, arblost_det, fsm, cmds, cur, rw_cmd, ptr, first, taken>>
      /\ UNCHANGED <<op, ints, leg, out, n, irq_busy, armed>>
  BY DEF Check, At, InLeg, ctrlVars, flagVars, deviceVars, irqVars, historyVars, Flush
<1>2. /\ irq_busy = 0 /\ ~armed /\ ctrl_en
      /\ OnTrack(WriteLeg, Total, out, PutCount, got \o rx)
  BY <1>1, LegFacts
<1>3. /\ left \in 1..(LegSize + 1) /\ LegSize \in Nat /\ LegSize > 0
      /\ got \in Seq(Byte) /\ rx \in Seq(Byte) /\ n \in Nat /\ Len(got) \in Nat
      /\ (leg = "tx" => op # "rx") /\ leg \in {"tx", "rx"} /\ op \in {"tx", "rx", "txrx"}
  BY <1>1 DEF FrameInv, LocalInv, LegSize, TypeOK, CoreTypeOK
<1>4. /\ pc' \in {"put", "collect", "quiesce", "arm", "legDone"}
      /\ pc' = "quiesce" => /\ left = 1 /\ Stop /\ ~ints
                            /\ leg = "rx" => Len(got) >= n
      /\ pc' = "legDone" => left = 1 /\ ~Stop
  BY <1>3 DEF Check, Stop
<1>5. got' \o rx' = got \o rx
  <2>1. CASE Draining
    <3>1. PICK a \in Seq(Byte) : a = got \o rx
      BY <1>3, ConcatBytes
    <3>2. got' = a /\ rx' = <<>>
      BY <2>1, <3>1 DEF Check
    <3> QED
      BY <3>1, <3>2
  <2>2. CASE ~Draining
    BY <2>2 DEF Check
  <2> QED
    BY <2>1, <2>2
<1>6. PutCount' = PutCount
  <2>1. PICK s \in Nat : s = LegSize
    BY <1>3
  <2>2. PICK v \in Nat : v = IF leg = "rx" THEN WriteLeg ELSE 0
    BY <1>1, CallRow
  <2>3. LegSize' = s /\ (IF leg' = "rx" THEN WriteLeg' ELSE 0) = v
    BY <1>1, <2>1, <2>2 DEF LegSize, WriteLeg
  <2>4. PutCount = v + s + 1 - left + 1
    BY <1>1, <2>1, <2>2 DEF PutCount
  <2>5. PutCount' = v + s + 1 - (left - 1)
    BY <1>1, <1>4, <2>3 DEF PutCount
  <2> QED
    BY <1>3, <2>4, <2>5
<1>7. ctrl_en' /\ OnTrack(WriteLeg, Total, out, PutCount, got \o rx)'
  BY <1>1, <1>2, <1>5, <1>6, CallKept
<1>8. CallInv' /\ IrqInv'
  BY <1>1, <1>2, <1>7, IrqNone DEF CallInv
<1>9. pc' = "legDone" => Turn' /\ Between'
  BY <1>1, <1>3, <1>4 DEF Stop, Turn, Between
<1>10. QuietInv'
  BY <1>4, <1>9 DEF QuietInv, InLeg
<1>11. QuiesceInv'
  <2>1. pc' = "quiesce" /\ leg = "rx" => got' = got
    BY <1>1, <1>3, <1>4 DEF Check, Draining
  <2>2. Stop' = Stop
    BY <1>1 DEF Stop
  <2> QED
    BY <1>1, <1>4, <2>1, <2>2 DEF QuiesceInv
<1>12. ReturnInv'
  BY <1>1, <1>4 DEF ReturnInv, Stop
<1> QED
  BY <1>8, <1>10, <1>11, <1>12 DEF Timely

\* One byte of the rest goes to memory.
LEMMA TimelyCollect ==
    ASSUME FrameInv, FrameInv', Timely, Collect
    PROVE  Timely'
<1>1. /\ pc = "collect" /\ pc' \in {"collect", "quiesce"} /\ InLeg /\ InLeg' /\ ~Turn' /\ rx # <<>>
      /\ got' = Append(got, Head(rx)) /\ rx' = Tail(rx)
      /\ UNCHANGED <<ctrl_en, nack_det, arblost_det, fsm, cmds, cur, rw_cmd, ptr, first, taken>>
      /\ UNCHANGED <<op, ints, leg, out, n, left, irq_busy, armed>>
  BY DEF Collect, At, InLeg, Turn, ctrlVars, flagVars, deviceVars, irqVars, historyVars
<1>2. /\ irq_busy = 0 /\ ~armed /\ ctrl_en /\ ~Flush
      /\ OnTrack(WriteLeg, Total, out, PutCount, got \o rx)
  BY <1>1, LegFacts DEF FrameInv, CoreInv
<1>3. left = 0 /\ leg = "rx" /\ ~ints
  BY <1>1 DEF FrameInv, LocalInv
<1>4. got' \o rx' = got \o rx
  BY <1>1, ConcatBytes DEF FrameInv, TypeOK, CoreTypeOK
<1>5. PutCount' = PutCount
  BY <1>1 DEF PutCount, LegSize, WriteLeg
<1>6. ctrl_en' /\ OnTrack(WriteLeg, Total, out, PutCount, got \o rx)'
  BY <1>1, <1>2, <1>4, <1>5, CallKept
<1>7. pc' = "quiesce" => Len(got') >= n'
  <2>1. n \in Nat /\ Len(got') \in Nat
    BY DEF FrameInv, TypeOK
  <2> QED
    BY <1>1, <2>1 DEF Collect
<1>8. QuiesceInv'
  BY <1>1, <1>3, <1>7 DEF QuiesceInv, Stop
<1> QED
  BY <1>1, <1>2, <1>6, <1>8, IrqNone DEF Timely, CallInv, QuietInv, ReturnInv

\* What a leg has put when nothing is left.
LEMMA AllPut ==
    ASSUME FrameInv, InLeg, pc # "check", left = 0, Stop
    PROVE  /\ PutCount = Total /\ Total \in Nat /\ Total > 0
           /\ leg = "tx" => op = "tx" /\ WriteLeg = Total
           /\ leg = "rx" => op # "tx" /\ Total = WriteLeg + n + 1
<1>1. /\ WriteLeg \in Nat /\ Total \in Nat /\ out \in Seq(Register) /\ n \in Nat
      /\ op \in {"rx", "txrx"} => Total = WriteLeg + n + 1 /\ n > 0
      /\ op = "tx" => Total = WriteLeg
      /\ op \in {"tx", "txrx"} => WriteLeg = Len(out) + 1 /\ Len(out) > 0
      /\ op \in {"tx", "rx", "txrx"} /\ Len(out) \in Nat
      /\ leg \in {"tx", "rx"}
  BY CallRow DEF FrameInv, TypeOK
<1>2. CASE leg = "tx"
  <2>1. op = "tx"
    BY <1>1, <1>2 DEF Stop, FrameInv, LocalInv
  <2> QED
    BY <1>1, <1>2, <2>1 DEF PutCount, LegSize, InLeg
<1>3. CASE leg = "rx"
  <2>1. op \in {"rx", "txrx"}
    BY <1>1, <1>3 DEF FrameInv, LocalInv
  <2>2. PICK w \in Nat : w = WriteLeg
    BY <1>1
  <2>3. PutCount = w + n + 1 - 0
    BY <1>1, <1>3, <2>2 DEF PutCount, LegSize, InLeg
  <2> QED
    BY <1>1, <1>3, <2>1, <2>2, <2>3
<1> QED
  BY <1>1, <1>2, <1>3

\* No byte comes from a core that nothing moves: it was full, or lost the bus.
LEMMA TimelyCollectExpires ==
    ASSUME FrameInv, FrameInv', Timely, CollectExpires, ~late'
    PROVE  Timely'
<1>1. /\ pc = "collect" /\ pc' = "quiesce" /\ InLeg /\ InLeg' /\ ~Turn' /\ rx = <<>> /\ CoreStuck
      /\ UNCHANGED <<op, ints, leg, out, n, left, got, irq_busy, armed>> /\ status' = "TIMEOUT"
      /\ CoreSame
  BY DEF CollectExpires, At, InLeg, Turn, coreVars, ctrlVars, flagVars, fifoVars, deviceVars,
         irqVars, CoreSame, Waited
<1>2. /\ irq_busy = 0 /\ ~armed /\ ctrl_en
      /\ Flush \/ OnTrack(WriteLeg, Total, out, PutCount, got \o rx)
  BY <1>1, LegFacts
<1>3. left = 0 /\ leg = "rx" /\ ~ints /\ Stop
  BY <1>1 DEF FrameInv, LocalInv, Stop
<1>4. CASE Flush
  BY <1>1, <1>2, <1>3, <1>4, IrqNone
     DEF Timely, CallInv, QuietInv, QuiesceInv, ReturnInv, CoreSame, Flush
<1>5. CASE ~Flush
  <2>1. OnTrack(WriteLeg, Total, out, PutCount, got \o rx)
    BY <1>2, <1>5
  <2>2. PutCount = Total /\ Total \in Nat /\ Total > 0 /\ WriteLeg \in Nat /\ out \in Seq(Register)
    BY <1>1, <1>3, AllPut, CallRow
  <2>3. got \o rx \in Seq(Byte)
    BY ConcatBytes DEF FrameInv, TypeOK, CoreTypeOK
  <2>4. fsm = "PRE_IDLE"
    BY <1>1, <2>1, <2>2, <2>3, StuckEnds
  <2>5. PutCount' = PutCount
    BY <1>1 DEF PutCount, LegSize, WriteLeg
  <2>6. ctrl_en' /\ OnTrack(WriteLeg, Total, out, PutCount, got \o rx)'
    BY <1>1, <2>1, <2>5, CallKept DEF CoreSame
  <2>7. QuiesceInv'
    BY <1>1, <1>3, <2>4 DEF QuiesceInv, Stop, CoreSame
  <2> QED
    BY <1>1, <1>2, <2>6, <2>7, IrqNone DEF Timely, CallInv, QuietInv, ReturnInv
<1> QED
  BY <1>4, <1>5

\* A row done is a call delivered.
LEMMA RowDelivers ==
    ASSUME FrameInv, InLeg, Stop, Done(Total) = Total, rx = <<>>, leg = "rx" => Len(got) >= n,
           OnTrack(WriteLeg, Total, out, Total, got \o rx)
    PROVE  Delivered
<1>1. /\ WriteLeg \in Nat /\ Total \in Nat /\ out \in Seq(Register) /\ n \in Nat
      /\ op \in {"rx", "txrx"} => Total = WriteLeg + n + 1 /\ n > 0
      /\ op = "tx" => Total = WriteLeg
      /\ op \in {"tx", "txrx"} => WriteLeg = Len(out) + 1 /\ Len(out) > 0
      /\ op \in {"tx", "rx", "txrx"} /\ Len(out) \in Nat
      /\ got \in Seq(Byte) /\ leg \in {"tx", "rx"}
  BY CallRow DEF FrameInv, TypeOK
<1>2. got \o rx = got
  BY <1>1, ConcatBytes, EmptyType
<1>3. /\ taken = SubSeq(out, 1, Written(WriteLeg, Total))
      /\ Received(WriteLeg, Total, got) /\ Pointed(WriteLeg, out, Total, got)
  BY <1>2 DEF OnTrack
<1>4. out # <<>> => taken = out
  <2> SUFFICES ASSUME out # <<>> PROVE taken = out
    OBVIOUS
  <2>1. op # "rx"
    BY DEF FrameInv, LocalInv
  <2>2. Written(WriteLeg, Total) = Len(out)
    BY <1>1, <2>1 DEF Written
  <2> QED
    BY <1>1, <1>3, <2>2, SubSeqFull
<1>5. ASSUME op # "tx" PROVE Fresh(got, n) /\ got # <<>>
  <2>1. leg = "rx" /\ ReadSoFar(WriteLeg, Total) = n
    BY <1>1, <1>5 DEF Stop, ReadSoFar, FrameInv, LocalInv
  <2>2. Len(got) = n /\ n > 0
    BY <1>1, <1>3, <1>5, <2>1 DEF Received
  <2>3. Chain(got) /\ \A i \in 1..Len(got) : got[i].fresh
    BY <1>3, <2>1, <2>2 DEF Received
  <2> QED
    BY <2>2, <2>3 DEF Fresh, Chain
<1>6. op = "txrx" /\ Len(out) = 1 => got[1].reg = out[1]
  BY <1>1, <1>3, <1>5 DEF Pointed
<1> QED
  BY <1>4, <1>5, <1>6 DEF Delivered

\* The wait for the end: the row is done, or was given up.
LEMMA TimelyQuiesce ==
    ASSUME FrameInv, FrameInv', Timely, Quiesce, ~late'
    PROVE  Timely'
<1>1. /\ pc = "quiesce" /\ pc' = "legDone" /\ InLeg /\ ~InLeg' /\ (~CoreBusy \/ CoreStuck)
      /\ ~ctrl_en' /\ fsm' = (IF fsm = "PRE_IDLE" THEN "IDLE" ELSE fsm)
      /\ UNCHANGED <<op, ints, leg, out, n, left, got, irq_busy, armed>>
      /\ UNCHANGED <<nack_det, arblost_det, cmds, rx, taken>>
      /\ status' = (IF nack_det /\ ~ints THEN "NACK_ERR"
                    ELSE IF CoreBusy THEN "TIMEOUT" ELSE status)
  BY DEF Quiesce, At, InLeg, flagVars, deviceVars, irqVars, Waited, Disable
<1>2. /\ irq_busy = 0 /\ ~armed /\ ctrl_en
      /\ Flush \/ OnTrack(WriteLeg, Total, out, PutCount, got \o rx)
  BY <1>1, LegFacts
<1>3. ~Flush => /\ left = 0 /\ Stop /\ ~ints
                /\ leg = "rx" => \/ Len(got) >= n
                                 \/ rx = <<>> /\ status = "TIMEOUT"
  BY <1>1 DEF Timely, QuiesceInv
<1>4. /\ fsm = "PRE_IDLE" /\ ~CoreBusy /\ cmds = <<>> /\ rx = <<>>
      /\ ~Flush => OnTrack(WriteLeg, Total, out, Total, got \o rx) /\ Done(Total) = Total
  <2>1. CASE Flush
    BY <1>1, <1>2, <2>1, FlushEnds DEF Ended
  <2>2. CASE ~Flush
    <3>1. /\ WriteLeg \in Nat /\ Total \in Nat /\ Total > 0 /\ PutCount = Total
          /\ leg = "tx" => op = "tx" /\ WriteLeg = Total
          /\ leg = "rx" => op # "tx" /\ Total = WriteLeg + n + 1
          /\ out \in Seq(Register) /\ n \in Nat /\ leg \in {"tx", "rx"}
      BY <1>1, <1>3, <2>2, AllPut, CallRow DEF FrameInv, TypeOK
    <3>2. OnTrack(WriteLeg, Total, out, Total, got \o rx)
      BY <1>2, <2>2, <3>1
    <3>3. /\ got \in Seq(Byte) /\ rx \in Seq(Byte)
          /\ got \o rx \in Seq(Byte) /\ Len(got \o rx) = Len(got) + Len(rx)
      BY ConcatBytes DEF FrameInv, TypeOK, CoreTypeOK
    <3>4. fsm = "PRE_IDLE" /\ cmds = <<>> /\ ~CoreBusy /\ Done(Total) = Total
      BY <1>1, <3>1, <3>2, <3>3, StuckEnds
    <3>5. Len(got \o rx) <= ReadSoFar(WriteLeg, Total)
      BY <3>2, <3>4 DEF OnTrack, Received
    <3>6. rx = <<>>
      <4>1. CASE leg = "tx"
        <5>1. ReadSoFar(WriteLeg, Total) = 0
          BY <3>1, <4>1 DEF ReadSoFar
        <5>2. Len(got) \in Nat /\ Len(rx) \in Nat
          BY <3>3
        <5> QED
          BY <3>3, <3>5, <5>1, <5>2
      <4>2. CASE leg = "rx" /\ Len(got) >= n
        <5>1. ReadSoFar(WriteLeg, Total) <= n
          BY <3>1, <4>2 DEF ReadSoFar
        <5>2. Len(got) \in Nat /\ Len(rx) \in Nat
          BY <3>3
        <5>3. PICK i \in Nat, j \in Nat : i = Len(got) /\ j = Len(rx)
          BY <5>2
        <5>4. i >= n /\ n \in Nat /\ i + j <= ReadSoFar(WriteLeg, Total)
          BY <3>3, <3>5, <4>2, <5>3 DEF FrameInv, TypeOK
        <5>5. ReadSoFar(WriteLeg, Total) \in Nat
          BY <3>1 DEF ReadSoFar
        <5>6. Len(rx) = 0
          BY <5>1, <5>3, <5>4, <5>5
        <5> QED
          BY <3>3, <5>6
      <4> QED
        BY <1>3, <2>2, <3>1, <4>1, <4>2
    <3> QED
      BY <3>2, <3>4, <3>6
  <2> QED
    BY <2>1, <2>2
<1>5. Rest'
  BY <1>1, <1>4 DEF Rest
<1>6. ~Stop => status \notin {"SUCCESS", "BAD_ARG"}
  BY <1>1 DEF FrameInv, LocalInv
<1>7. ~Between'
  BY <1>1, <1>6 DEF Between, Turn, Stop
<1>8. QuiesceInv'
  <2>1. leg = "tx" => status' # "TIMEOUT"
    BY <1>1, <1>4 DEF Timely, QuiesceInv
  <2> QED
    BY <1>1, <2>1 DEF QuiesceInv, Turn
<1>9. ReturnInv'
  <2> SUFFICES ASSUME Stop, status' = "SUCCESS", ~ints, ~arblost_det PROVE Delivered'
    BY <1>1, <1>2 DEF ReturnInv, Stop
  <2>1. ~Flush /\ status = "SUCCESS"
    BY <1>1 DEF Flush
  <2>2. leg = "rx" => Len(got) >= n
    BY <1>3, <2>1
  <2>3. Delivered
    BY <1>1, <1>4, <2>1, <2>2, RowDelivers
  <2> QED
    BY <1>1, <2>3 DEF Delivered, Fresh
<1>10. IrqInv'
  BY <1>1, <1>2, IrqNone
<1> QED
  BY <1>1, <1>5, <1>7, <1>8, <1>9, <1>10 DEF Timely, CallInv, QuietInv

\* The row goes to the interrupt routine with all its commands.
LEMMA TimelyArm ==
    ASSUME FrameInv, FrameInv', Timely, Arm
    PROVE  Timely'
<1>1. /\ pc = "arm" /\ pc' = "legDone" /\ InLeg /\ ~InLeg' /\ ~Flush' /\ isr = "out" /\ isr' = "out"
      /\ UNCHANGED <<ctrl_en, fsm, cmds, cur, rw_cmd, rx, ptr, first, taken>>
      /\ UNCHANGED <<op, ints, leg, out, n>>
      /\ irq_busy' = (IF leg = "tx" THEN 1 ELSE 2)
      /\ leg # "tx" => irq_size' = n /\ irq_got' = <<>>
  BY DEF Arm, At, InLeg, fifoVars, deviceVars, ClearFlags, Flush
<1>2. /\ ctrl_en /\ (Flush \/ OnTrack(WriteLeg, Total, out, PutCount, got \o rx))
  BY <1>1, LegFacts
<1>3. left = 0 /\ ints /\ Stop /\ got = <<>>
  BY <1>1 DEF FrameInv, LocalInv, InLeg
<1>4. ~Turn' /\ ~Between' /\ ints'
  BY <1>1, <1>3 DEF Turn, Between, Stop
<1>5. IrqInv'
  <2>1. CASE Flush
    <3>1. Ended'
      BY <1>1, <1>2, <2>1, FlushEnds DEF Ended
    <3> QED
      BY <1>1, <3>1 DEF IrqInv
  <2>2. CASE ~Flush
    <3>1. /\ PutCount = Total /\ Total \in Nat /\ Total > 0 /\ WriteLeg \in Nat
          /\ leg = "tx" => op = "tx" /\ WriteLeg = Total
          /\ leg = "rx" => op # "tx" /\ Total = WriteLeg + n + 1
          /\ out \in Seq(Register) /\ n \in Nat /\ leg \in {"tx", "rx"} /\ rx \in Seq(Byte)
          /\ Row(WriteLeg, Total, out)
      BY <1>1, <1>3, AllPut, CallRow DEF FrameInv, TypeOK, CoreTypeOK
    <3>2. got \o rx = rx
      BY <1>3, <3>1, ConcatBytes, EmptyType
    <3>3. PICK w \in Nat, t \in Nat, m \in Seq(Register), a \in Seq(Byte) :
            /\ w = WriteLeg /\ t = Total /\ m = out /\ a = rx
            /\ OnTrack(w, t, m, t, a) /\ Row(w, t, m)
      BY <1>2, <2>2, <3>1, <3>2
    <3>4. OnTrack(w, t, m, t, a)'
      BY <1>1, <3>3, TrackSame
    <3>5. CASE leg = "tx"
      <4>1. WriteLeft(w, m)'
        BY <1>1, <3>1, <3>3, <3>4, <3>5 DEF WriteLeft
      <4> QED
        BY <1>1, <3>3, <3>5, <4>1 DEF IrqInv
    <3>6. CASE leg = "rx"
      <4>1. irq_got' \o rx' = a /\ Len(irq_got') = 0
        BY <1>1, <3>1, <3>3, <3>6, ConcatBytes, EmptyType
      <4>2. Len(irq_got') + irq_size' = t - w - 1 /\ t > w
        BY <1>1, <3>1, <3>3, <3>6, <4>1
      <4>3. w = WriteLeg' /\ t = Total' /\ m = out'
        BY <1>1, <3>3 DEF WriteLeg, Total
      <4>4. ReadLeft(w, t, m)'
        BY <3>3, <3>4, <4>1, <4>2, <4>3 DEF ReadLeft
      <4> QED
        BY <1>1, <3>3, <3>6, <4>4 DEF IrqInv
    <3> QED
      BY <3>1, <3>5, <3>6
  <2> QED
    BY <2>1, <2>2
<1> QED
  BY <1>1, <1>4, <1>5 DEF Timely, CallInv, QuietInv, QuiesceInv, ReturnInv
----------------------------------------------------------------------------
(* The interrupt routine, and the core.                                    *)

\* A core the interrupt routine has waited for is done.
LEMMA IrqStuck ==
    ASSUME FrameInv, Timely, irq_busy # 0, ~CoreBusy \/ CoreStuck
    PROVE  /\ fsm = "PRE_IDLE" /\ cmds = <<>> /\ ~CoreBusy
           /\ irq_busy = 1 \/ isr = "spin" => rx = <<>>
<1>1. irq_busy \in {1, 2} /\ isr \in {"out", "spin"} /\ ctrl_en
      /\ rx \in Seq(Byte) /\ irq_got \in Seq(Byte)
  BY DEF FrameInv, TypeOK, CoreTypeOK, OwnerInv
<1>2. CASE Ended
  BY <1>2, EndedStuck DEF Ended
<1>3. CASE ~Ended /\ irq_busy = 1
  <2>1. PICK w \in Nat, m \in Seq(Register) : WriteLeft(w, m)
    BY <1>3 DEF Timely, IrqInv
  <2>2. w > 0 /\ OnTrack(w, w, m, w, rx)
    BY <2>1 DEF WriteLeft, Row
  <2>3. fsm = "PRE_IDLE" /\ cmds = <<>> /\ ~CoreBusy /\ Done(w) = w
    BY <1>1, <2>2, StuckEnds
  <2>4. Len(rx) <= 0
    BY <2>2, <2>3 DEF OnTrack, Received, ReadSoFar
  <2>5. rx = <<>>
    BY <1>1, <2>4
  <2> QED
    BY <2>3, <2>5
<1>4. CASE ~Ended /\ irq_busy = 2
  <2>1. isr = "out"
    BY <1>1, <1>4 DEF Timely, IrqInv
  <2>2. PICK w \in Nat, t \in Nat, m \in Seq(Register) : ReadLeft(w, t, m)
    BY <1>4, <2>1 DEF Timely, IrqInv
  <2>3. t > 0 /\ OnTrack(w, t, m, t, irq_got \o rx) /\ irq_got \o rx \in Seq(Byte)
    BY <1>1, <2>2, ConcatBytes DEF ReadLeft, Row
  <2>4. fsm = "PRE_IDLE" /\ cmds = <<>> /\ ~CoreBusy
    BY <2>3, StuckEnds
  <2> QED
    BY <1>4, <2>1, <2>4
<1> QED
  BY <1>1, <1>2, <1>3, <1>4

\* The routine loses a refused transfer to the program that asked.
LEMMA TimelyAbort ==
    ASSUME FrameInv, FrameInv', Timely, Abort, ~late'
    PROVE  Timely'
<1>1. /\ pc = "abort" /\ pc' = "idle" /\ (~CoreBusy \/ CoreStuck) /\ rx' = <<>> /\ cmds' = cmds
      /\ ~ctrl_en' /\ fsm' = (IF fsm = "PRE_IDLE" THEN "IDLE" ELSE fsm)
      /\ irq_busy' = 0 /\ ~armed'
  BY DEF Abort, At, Waited, Disable, Answer, Forget
<1>2. irq_busy # 0
  BY <1>1 DEF FrameInv, OwnerInv
<1>3. fsm = "PRE_IDLE" /\ cmds = <<>>
  BY <1>1, <1>2, IrqStuck
<1>4. Rest'
  BY <1>1, <1>3 DEF Rest
<1>5. ~InLeg' /\ ~Turn' /\ ~Between'
  BY <1>1 DEF InLeg, Turn, Between
<1> QED
  BY <1>1, <1>4, <1>5, IrqNone DEF Timely, CallInv, QuietInv, QuiesceInv, ReturnInv

\* The routine ends its transfer.
LEMMA TimelyIrqEnd ==
    ASSUME FrameInv, FrameInv', Timely, IrqEnd, ~late'
    PROVE  Timely'
<1>1. /\ isr = "spin" /\ (~CoreBusy \/ CoreStuck) /\ irq_busy' = 0 /\ isr' = "out"
      /\ ~ctrl_en' /\ fsm' = (IF fsm = "PRE_IDLE" THEN "IDLE" ELSE fsm)
      /\ UNCHANGED <<cmds, rx, pc, op, ints, leg, out, n, left, status, got>>
      /\ UNCHANGED <<irq_got, armed>>
  BY DEF IrqEnd, Waited, Disable, callVars
<1>2. irq_busy \in {1, 2}
  BY <1>1 DEF FrameInv, OwnerInv, TypeOK
<1>3. fsm = "PRE_IDLE" /\ cmds = <<>> /\ rx = <<>>
  BY <1>1, <1>2, IrqStuck
<1>4. Rest'
  BY <1>1, <1>3 DEF Rest
<1>5. ~InLeg /\ ~InLeg' /\ ~Between /\ ~Between' /\ (Turn' <=> Turn)
  BY <1>1, <1>2 DEF FrameInv, OwnerInv, InLeg, Turn, Between
<1>6. armed /\ op # "tx" => Fresh(irq_got, n)
  BY <1>1, <1>2 DEF Timely, IrqInv, FrameInv, LocalInv
<1>7. IrqInv'
  BY <1>1, <1>6 DEF IrqInv, Fresh
<1>8. QuiesceInv'
  BY <1>1, <1>5 DEF Timely, QuiesceInv, InLeg
<1>9. ReturnInv'
  BY <1>1, <1>2 DEF Timely, ReturnInv, Stop, LegSize
<1> QED
  BY <1>4, <1>5, <1>7, <1>8, <1>9 DEF Timely, CallInv, QuietInv

\* The routine has taken as many bytes as it was told of: the row is done.
LEMMA ReadLeftEnds ==
    ASSUME FrameInv, NEW w \in Nat, NEW t \in Nat, NEW m \in Seq(Register), ReadLeft(w, t, m),
           irq_size <= Len(rx)
    PROVE  /\ fsm \in {"STOP", "PRE_IDLE"} /\ cmds = <<>> /\ Len(rx) = irq_size
           /\ Received(w, t, irq_got \o rx) /\ ReadSoFar(w, t) = Len(irq_got \o rx)
<1>1. /\ irq_got \in Seq(Byte) /\ rx \in Seq(Byte) /\ CoreTypeOK /\ irq_size \in Nat
      /\ irq_got \o rx \in Seq(Byte) /\ Len(irq_got \o rx) = Len(irq_got) + Len(rx)
  BY ConcatBytes DEF FrameInv, TypeOK, CoreTypeOK
<1>2. /\ OnTrack(w, t, m, t, irq_got \o rx) /\ t > w /\ Row(w, t, m)
      /\ Len(irq_got) + irq_size = t - w - 1
  BY DEF ReadLeft
<1>3. t >= w + 2
  BY <1>2 DEF Row
<1>4. PICK q \in Nat : q = Popped(t) /\ q <= t /\ Place(w, t, m, q) /\ q = t - Len(cmds)
  BY <1>1, <1>2, TrackFacts DEF Popped
<1>5. Len(irq_got \o rx) <= ReadSoFar(w, Done(t)) /\ Received(w, Done(t), irq_got \o rx)
  BY <1>2 DEF OnTrack, Received
<1>6. Len(irq_got \o rx) >= t - w - 1
  <2>1. Len(irq_got) \in Nat /\ Len(rx) \in Nat
    BY <1>1
  <2> QED
    BY <1>1, <1>2, <2>1
<1>7. Done(t) >= t
  <2>1. Done(t) \in Int
    BY <1>4 DEF Done
  <2>2. Len(irq_got \o rx) \in Nat /\ t - w - 1 >= 1
    BY <1>1, <1>3
  <2>3. ReadSoFar(w, Done(t)) >= t - w - 1
    BY <1>5, <1>6, <2>1, <2>2 DEF ReadSoFar
  <2> QED
    BY <2>1, <2>2, <2>3 DEF ReadSoFar
<1>8. fsm \notin {"ADDR", "TX", "RX"} /\ q = t /\ Done(t) = t
  BY <1>4, <1>7 DEF Done
<1>9. fsm \in {"STOP", "PRE_IDLE"}
  BY <1>3, <1>4, <1>8 DEF Place, Kind
<1>10. cmds = <<>>
  BY <1>1, <1>4, <1>8 DEF CoreTypeOK
<1>11. ReadSoFar(w, t) = t - w - 1
  BY <1>3 DEF ReadSoFar
<1>12. Len(rx) = irq_size /\ Len(irq_got \o rx) = t - w - 1
  <2>1. Len(irq_got) \in Nat /\ Len(rx) \in Nat
    BY <1>1
  <2> QED
    BY <1>1, <1>2, <1>5, <1>8, <1>11, <2>1
<1> QED
  BY <1>5, <1>8, <1>9, <1>10, <1>11, <1>12

\* The routine's turn: it takes bytes of a read, or finds the transfer at its end.
LEMMA TimelyInterrupt ==
    ASSUME FrameInv, FrameInv', Timely, Interrupt
    PROVE  Timely'
<1>1. /\ isr = "out" /\ ~Flush'
      /\ UNCHANGED <<ctrl_en, fsm, cmds, cur, rw_cmd, ptr, first, taken>>
      /\ UNCHANGED <<pc, op, ints, leg, out, n, left, status, got, irq_busy, armed>>
  BY DEF Interrupt, ClearFlags, deviceVars, callVars, historyVars, Flush
<1>2. iser # {} /\ irq_busy \in {1, 2}
  BY DEF Interrupt, intr, FrameInv, OwnerInv, TypeOK
<1>3. ~InLeg /\ ~InLeg' /\ ~Between /\ ~Between' /\ (Turn' <=> Turn)
  BY <1>1, <1>2 DEF FrameInv, OwnerInv, InLeg, Turn, Between
<1>4. QuiesceInv'
  BY <1>1, <1>3 DEF Timely, QuiesceInv, InLeg
<1>5. ReturnInv'
  BY <1>1, <1>2 DEF Timely, ReturnInv, Stop, LegSize
<1>6. IrqInv'
  <2>1. CASE irq_busy = 1
    <3>1. rx' = rx
      BY <2>1 DEF Interrupt
    <3>2. CASE Ended
      BY <1>1, <2>1, <3>1, <3>2 DEF IrqInv, Ended
    <3>3. CASE ~Ended
      <4>1. PICK w \in Nat, m \in Seq(Register) : WriteLeft(w, m)
        BY <2>1, <3>3 DEF Timely, IrqInv
      <4>2. OnTrack(w, w, m, w, rx)'
        BY <1>1, <3>1, <4>1, TrackSame DEF WriteLeft
      <4>3. WriteLeft(w, m)'
        BY <4>1, <4>2 DEF WriteLeft
      <4> QED
        BY <1>1, <2>1, <4>3 DEF IrqInv
    <3> QED
      BY <3>2, <3>3
  <2>2. CASE irq_busy = 2
    <3>1. rx # <<>>
      <4>1. "TX_READY" \notin iser
        BY <2>2 DEF FrameInv, OwnerInv
      <4>2. RxReady
        BY <4>1 DEF Interrupt, intr
      <4> QED
        BY <4>2 DEF RxReady
    <3>2. PICK w \in Nat, t \in Nat, m \in Seq(Register) : ReadLeft(w, t, m)
      BY <1>1, <2>2, <3>1 DEF Timely, IrqInv, Ended
    <3>3. irq_got \in Seq(Byte) /\ rx \in Seq(Byte) /\ irq_size \in Nat /\ Len(rx) \in Nat
      BY DEF FrameInv, TypeOK, CoreTypeOK
    <3>4. PICK k \in Nat : k = IF Len(rx) < irq_size THEN Len(rx) ELSE irq_size
      BY <3>3
    <3>5. /\ irq_got' = irq_got \o SubSeq(rx, 1, k) /\ rx' = SubSeq(rx, k + 1, Len(rx))
          /\ irq_size' = irq_size - k
          /\ isr' = IF k < irq_size THEN "out" ELSE "spin"
      BY <2>2, <3>4 DEF Interrupt
    <3>6. /\ irq_got' \o rx' = irq_got \o rx
          /\ Len(irq_got') = Len(irq_got) + k
          /\ Len(rx') = Len(rx) - k
          /\ irq_got' \in Seq(Byte) /\ rx' \in Seq(Byte)
      <4>1. k <= Len(rx)
        BY <3>3, <3>4
      <4> QED
        BY <3>3, <3>5, <4>1, SplitBytes
    <3>7. CASE k < irq_size
      <4>1. PICK a : a = irq_got \o rx /\ OnTrack(w, t, m, t, a)
        BY <3>2 DEF ReadLeft
      <4>2. OnTrack(w, t, m, t, a)'
        BY <1>1, <4>1, TrackSame
      <4>3. Len(irq_got') + irq_size' = t - w - 1
        <5>1. PICK l \in Nat : l = Len(irq_got)
          BY <3>3
        <5>2. l + irq_size = t - w - 1
          BY <3>2, <5>1 DEF ReadLeft
        <5>3. Len(irq_got') = l + k /\ irq_size' = irq_size - k
          BY <3>5, <3>6, <5>1
        <5> QED
          BY <3>3, <5>2, <5>3
      <4>4. armed' => w = WriteLeg' /\ t = Total' /\ m = out'
        BY <1>1, <3>2 DEF ReadLeft, WriteLeg, Total
      <4>5. ReadLeft(w, t, m)'
        BY <3>2, <3>6, <4>1, <4>2, <4>3, <4>4 DEF ReadLeft
      <4> QED
        BY <1>1, <2>2, <3>5, <3>7, <4>5 DEF IrqInv
    <3>8. CASE ~(k < irq_size)
      <4>1. k = irq_size /\ irq_size <= Len(rx)
        BY <3>3, <3>4, <3>8
      <4>2. /\ fsm \in {"STOP", "PRE_IDLE"} /\ cmds = <<>> /\ Len(rx) = irq_size
            /\ Received(w, t, irq_got \o rx) /\ ReadSoFar(w, t) = Len(irq_got \o rx)
        BY <3>2, <4>1, ReadLeftEnds
      <4>3. rx' = <<>>
        BY <3>3, <3>6, <4>1, <4>2
      <4>4. Ended'
        BY <1>1, <4>2, <4>3 DEF Ended
      <4>5. irq_got' = irq_got \o rx
        BY <3>6, <4>3, ConcatBytes
      <4>6. ASSUME armed PROVE Fresh(irq_got, n)'
        <5>1. w = WriteLeg /\ t = Total /\ op # "tx"
          BY <2>2, <3>2, <4>6 DEF ReadLeft, FrameInv, LocalInv
        <5>2. n \in Nat /\ t = w + n + 1
          BY <5>1 DEF Total, FrameInv, TypeOK
        <5>3. Len(irq_got') = n
          <6>1. PICK l \in Nat : l = Len(irq_got)
            BY <3>3
          <6>2. l + irq_size = t - w - 1
            BY <3>2, <6>1 DEF ReadLeft
          <6>3. Len(irq_got') = l + irq_size
            BY <3>6, <4>1, <6>1
          <6> QED
            BY <3>3, <5>2, <6>2, <6>3
        <5>4. Chain(irq_got') /\ \A i \in 1..Len(irq_got') : irq_got'[i].fresh
          BY <4>2, <4>5 DEF Received
        <5> QED
          BY <1>1, <5>3, <5>4 DEF Fresh, Chain
      <4> QED
        BY <1>1, <2>2, <3>5, <3>8, <4>4, <4>6 DEF IrqInv
    <3> QED
      BY <3>7, <3>8
  <2> QED
    BY <1>2, <2>1, <2>2
<1> QED
  BY <1>1, <1>2, <1>3, <1>4, <1>5, <1>6 DEF Timely, CallInv, QuietInv

\* The core moves on, for the call or for the routine.
LEMMA TimelyDevice ==
    ASSUME FrameInv, FrameInv', Timely, Device
    PROVE  Timely'
<1>1. /\ CoreStep /\ UNCHANGED <<pc, op, ints, leg, out, n, left, status>>
      /\ UNCHANGED <<irq_busy, irq_size, isr, armed>> /\ ctrl_en' = ctrl_en
      /\ got' = (IF fsm = "PRE_START" /\ fsm' = "ADDR" THEN Stale(got) ELSE got)
      /\ irq_got' = (IF fsm = "PRE_START" /\ fsm' = "ADDR" THEN Stale(irq_got) ELSE irq_got)
  BY CoreStepKeeps DEF Device, historyVars, ctrlVars
<1>2. /\ fsm \notin {"IDLE", "PRE_IDLE"}
      /\ Flush => Flush'
      /\ Ended /\ ctrl_en => Ended' /\ irq_got' = irq_got
  BY <1>1 DEF CoreStep, Start, AddressTaken, Refuse, LoseBus, ByteSent, ByteReceived, Resume,
              Stopped, Flush, Ended, flagVars
<1>3. InLeg \/ Between \/ irq_busy # 0
  BY <1>2 DEF Timely, QuietInv, Rest
<1>4. /\ InLeg' <=> InLeg
      /\ Turn' <=> Turn
      /\ Between' <=> Between
  BY <1>1 DEF InLeg, Turn, Between
<1>5. /\ got \in Seq(Byte) /\ irq_got \in Seq(Byte) /\ got' \in Seq(Byte) /\ irq_got' \in Seq(Byte)
      /\ Len(got') = Len(got) /\ Len(irq_got') = Len(irq_got)
      /\ rx \in Seq(Byte) /\ rx' \in Seq(Byte) /\ n \in Nat
  BY <1>1, StaleType DEF FrameInv, TypeOK, CoreTypeOK
<1>6. CallInv'
  <2> SUFFICES ASSUME InLeg \/ Between
               PROVE  Flush' \/ OnTrack(WriteLeg, Total, out, PutCount, got \o rx)'
    BY <1>1, <1>4 DEF Timely, CallInv
  <2>1. CASE Flush
    BY <1>2, <2>1
  <2>2. CASE ~Flush
    <3>1. /\ OnTrack(WriteLeg, Total, out, PutCount, got \o rx)
          /\ WriteLeg \in Nat /\ Total \in Nat /\ out \in Seq(Register) /\ Row(WriteLeg, Total, out)
      BY <2>2, CallRow DEF Timely, CallInv
    <3>2. PutCount \in Nat
      <4>1. left \in Nat /\ LegSize \in Nat /\ cmds \in Seq(Command)
        BY DEF FrameInv, TypeOK, CoreTypeOK, LegSize
      <4>2. PutCount \in Int
        BY <3>1, <4>1 DEF PutCount
      <4>3. Len(cmds) <= PutCount
        BY <3>1 DEF OnTrack, Queue
      <4> QED
        BY <4>1, <4>2, <4>3
    <3>3. PICK w \in Nat, t \in Nat, m \in Seq(Register),
               p \in Nat, g \in Seq(Byte), h \in Seq(Byte) :
            /\ w = WriteLeg /\ t = Total /\ m = out /\ p = PutCount /\ g = got /\ h = got'
            /\ OnTrack(w, t, m, p, g \o rx) /\ Row(w, t, m)
      BY <1>5, <3>1, <3>2
    <3>4. Flush' \/ OnTrack(w, t, m, p, h \o rx)'
      BY <1>1, <3>3, TrackStep
    <3>5. w = WriteLeg' /\ t = Total' /\ m = out' /\ p = PutCount' /\ h = got'
      BY <1>1, <3>3 DEF WriteLeg, Total, PutCount, LegSize
    <3> QED
      BY <3>4, <3>5
  <2> QED
    BY <2>1, <2>2
<1>7. QuietInv'
  BY <1>1, <1>3, <1>4 DEF QuietInv
<1>8. QuiesceInv'
  BY <1>1, <1>2, <1>4, <1>5 DEF Timely, QuiesceInv, Stop
<1>9. ReturnInv'
  <2>1. pc = "legDone" /\ Stop => irq_busy # 0
    BY <1>3 DEF InLeg, Between, Turn, Stop
  <2> QED
    BY <1>1, <2>1 DEF Timely, ReturnInv, Stop, LegSize
<1>10. IrqInv'
  <2>1. CASE irq_busy = 0
    BY <1>1, <1>3, <2>1, IrqNone DEF FrameInv, LocalInv, InLeg, Between, Turn, Stop
  <2>2. CASE irq_busy # 0 /\ Ended
    <3>1. ctrl_en
      BY <2>2 DEF FrameInv, OwnerInv
    <3> QED
      BY <1>1, <1>2, <2>2, <3>1 DEF Timely, IrqInv, Fresh
  <2>3. CASE irq_busy = 1 /\ ~Ended
    <3>1. PICK w \in Nat, m \in Seq(Register) : WriteLeft(w, m)
      BY <2>3 DEF Timely, IrqInv
    <3>2. PICK g \in Seq(Byte) : g = <<>>
      BY EmptyType
    <3>3. g \o rx = rx /\ g \o rx' = rx' /\ Stale(g) = g
      BY <1>5, <3>2, ConcatBytes, StaleEmpty
    <3>4. Row(w, w, m) /\ OnTrack(w, w, m, w, g \o rx)
      BY <3>1, <3>3 DEF WriteLeft
    <3>5. Ended' \/ OnTrack(w, w, m, w, g \o rx)'
      BY <1>1, <3>3, <3>4, TrackStep
    <3>6. Ended' \/ WriteLeft(w, m)'
      BY <3>3, <3>4, <3>5 DEF WriteLeft
    <3> QED
      BY <1>1, <2>3, <3>6 DEF IrqInv
  <2>4. CASE irq_busy = 2 /\ ~Ended
    <3>1. isr = "out"
      BY <2>4 DEF Timely, IrqInv, FrameInv, TypeOK
    <3>2. PICK w \in Nat, t \in Nat, m \in Seq(Register) : ReadLeft(w, t, m)
      BY <2>4, <3>1 DEF Timely, IrqInv
    <3>3. PICK g \in Seq(Byte), h \in Seq(Byte) : g = irq_got /\ h = irq_got'
      BY <1>5
    <3>4. Row(w, t, m) /\ OnTrack(w, t, m, t, g \o rx)
      BY <3>2, <3>3 DEF ReadLeft
    <3>5. Ended' \/ OnTrack(w, t, m, t, h \o rx)'
      BY <1>1, <3>3, <3>4, TrackStep
    <3>6. armed' => w = WriteLeg' /\ t = Total' /\ m = out'
      BY <1>1, <3>2 DEF ReadLeft, WriteLeg, Total
    <3>7. Ended' \/ ReadLeft(w, t, m)'
      BY <1>1, <1>5, <3>2, <3>3, <3>5, <3>6 DEF ReadLeft
    <3> QED
      BY <1>1, <2>4, <3>1, <3>7 DEF IrqInv
  <2> QED
    BY <2>1, <2>2, <2>3, <2>4 DEF FrameInv, TypeOK
<1> QED
  BY <1>6, <1>7, <1>8, <1>9, <1>10 DEF Timely
----------------------------------------------------------------------------
(* The invariant holds.                                                    *)

\* It holds at power-up.
LEMMA InitInv == DriverInit /\ stretches \in 0..MaxStretches => LevelInv
<1> SUFFICES ASSUME DriverInit, stretches \in 0..MaxStretches PROVE LevelInv
  OBVIOUS
<1> USE DEF DriverInit, CoreInit
<1>1. CoreTypeOK
  <2>1. cur \in Command /\ rw_cmd \in Address /\ ptr \in Register
    BY DEF Command, Address, Register
  <2> QED
    BY <2>1, EmptyType DEF CoreTypeOK
<1>2. TypeOK
  <2>1. retry \in 0..RETRIES
    OBVIOUS
  <2>2. out \in Seq(Register) /\ got \in Seq(Byte) /\ irq_got \in Seq(Byte)
    BY EmptyType
  <2>3. /\ ints \in BOOLEAN /\ registered \in BOOLEAN /\ late \in BOOLEAN /\ armed \in BOOLEAN
        /\ wiped \in BOOLEAN
    OBVIOUS
  <2>4. n \in Nat /\ left \in Nat /\ irq_busy \in 0..2 /\ irq_size \in Nat
    OBVIOUS
  <2>5. /\ pc = "boot" /\ op = "tx" /\ leg = "tx" /\ status = "SUCCESS" /\ isr = "out"
        /\ saveints = {}
    OBVIOUS
  <2> HIDE DEF DriverInit
  <2> QED
    BY <1>1, <2>1, <2>2, <2>3, <2>4, <2>5 DEF TypeOK, StatusCode
<1>3. CoreInv
  BY DEF CoreInv, Flush
<1>4. ~InLeg /\ ~Turn /\ ~Between
  BY DEF InLeg, Turn, Between
<1>5. LocalInv
  BY <1>4 DEF LocalInv, LegSize, Stop
<1>6. OwnerInv
  BY <1>4 DEF OwnerInv
<1>7. Timely
  BY <1>4 DEF Timely, CallInv, IrqInv, QuietInv, Rest, QuiesceInv, ReturnInv
<1> QED
  BY <1>2, <1>3, <1>5, <1>6, <1>7 DEF LevelInv, FrameInv, TimelyInv

\* FrameInv is inductive by itself.
LEMMA FrameStep == ASSUME FrameInv, DriverStep PROVE FrameInv'
  BY DriverTypeStep, DriverCoreInv, DriverLocalInv, DriverOwnerInv DEF FrameInv

\* A wait that expires while the core moves makes the rest untimely.
LEMMA WaitedLate == ASSUME NEW done, Waited(done), ~late' PROVE ~late
  BY DEF Waited

\* The rest is kept while no wait has expired on a moving core.
LEMMA TimelyStep ==
    ASSUME FrameInv, FrameInv', TimelyInv, DriverStep, ~late'
    PROVE  Timely'
<1>1. CASE SomeCall
  BY <1>1, TimelyCall
<1>2. ASSUME ~SomeCall PROVE ~late
  <2>1. CASE PutExpires \/ CollectExpires \/ Quiesce \/ Abort \/ IrqEnd
    BY <2>1, WaitedLate DEF PutExpires, CollectExpires, Quiesce, Abort, IrqEnd
  <2>2. CASE Leg /\ ~(PutExpires \/ CollectExpires \/ Quiesce)
    BY <2>2 DEF Leg, Begin, BeginRefused, BeginNew, BeginRestart, Put, CheckFails, Check, Collect,
                Arm, historyVars
  <2>3. CASE ~Leg /\ ~Abort /\ ~IrqEnd
    BY <1>2, <2>3 DEF DriverStep, InitDevice, Register_, AskStatus, LegRetry, LegNext, LegReturn,
                      Mask, Ask, Interrupt, Device, historyVars
  <2> QED
    BY <2>1, <2>2, <2>3
<1>3. CASE ~SomeCall
  <2>1. Timely
    BY <1>2, <1>3 DEF TimelyInv
  <2>2. CASE Leg
    <3>1. CASE Begin
      BY <2>1, <3>1, TimelyBeginRefused, TimelyBeginNew, TimelyBeginRestart DEF Begin
    <3>2. CASE Put \/ PutExpires
      BY <2>1, <3>2, TimelyPut, TimelyPutExpires
    <3>3. CASE CheckFails \/ Check
      BY <2>1, <3>3, TimelyCheckFails, TimelyCheck
    <3>4. CASE Collect \/ CollectExpires
      BY <2>1, <3>4, TimelyCollect, TimelyCollectExpires
    <3>5. CASE Quiesce \/ Arm
      BY <2>1, <3>5, TimelyQuiesce, TimelyArm
    <3> QED
      BY <2>2, <3>1, <3>2, <3>3, <3>4, <3>5 DEF Leg
  <2>3. CASE LegRetry \/ LegNext \/ LegReturn
    BY <2>1, <2>3, TimelyRetry, TimelyNext, TimelyReturn
  <2>4. CASE InitDevice \/ Register_ \/ AskStatus \/ Mask \/ Ask \/ Abort
    BY <2>1, <2>4, TimelyInit, TimelyRegister, TimelyAsk, TimelyAbort
  <2>5. CASE Interrupt \/ IrqEnd \/ Device
    BY <2>1, <2>5, TimelyInterrupt, TimelyIrqEnd, TimelyDevice
  <2> QED
    BY <1>3, <2>2, <2>3, <2>4, <2>5 DEF DriverStep
<1> QED
  BY <1>1, <1>3

\* A step of main alone changes nothing of the driver.
LEMMA InvStutter == ASSUME LevelInv, UNCHANGED vars PROVE LevelInv'
<1> USE DEF vars, coreVars, ctrlVars, flagVars, fifoVars, deviceVars, callVars, irqVars,
            historyVars
<1>1. TypeOK' /\ CoreInv'
  <2>1. CoreTypeOK'
    BY DEF LevelInv, FrameInv, TypeOK, CoreTypeOK
  <2>2. TypeOK'
    BY <2>1 DEF LevelInv, FrameInv, TypeOK
  <2> QED
    BY <2>2 DEF LevelInv, FrameInv, CoreInv, Flush
<1>2. /\ InLeg' = InLeg /\ Turn' = Turn /\ Between' = Between /\ LegSize' = LegSize /\ Stop' = Stop
      /\ WriteLeg' = WriteLeg /\ Total' = Total /\ Flush' = Flush /\ CoreSame
  BY DEF InLeg, Turn, Between, LegSize, Stop, WriteLeg, Total, Flush, CoreSame
<1>3. PutCount' = PutCount
  BY <1>2 DEF PutCount
<1>4. LocalInv'
  BY <1>2 DEF LevelInv, FrameInv, LocalInv
<1>5. OwnerInv'
  BY <1>2 DEF LevelInv, FrameInv, OwnerInv
<1>6. ASSUME Timely PROVE Timely'
  <2>1. CallInv'
    <3>1. CASE OnTrack(WriteLeg, Total, out, PutCount, got \o rx)
      BY <1>3, <3>1, CallKept DEF CallInv
    <3>2. CASE ~OnTrack(WriteLeg, Total, out, PutCount, got \o rx)
      BY <1>2, <1>6, <3>2 DEF Timely, CallInv
    <3> QED
      BY <3>1, <3>2
  <2>2. IrqInv'
    BY <1>2, <1>6, IrqSame DEF Timely
  <2>3. QuietInv'
    BY <1>2, <1>6 DEF Timely, QuietInv, Rest
  <2>4. QuiesceInv'
    BY <1>2, <1>6 DEF Timely, QuiesceInv
  <2>5. ReturnInv'
    BY <1>2, <1>6 DEF Timely, ReturnInv, Delivered, Fresh
  <2> QED
    BY <2>1, <2>2, <2>3, <2>4, <2>5 DEF Timely
<1> QED
  BY <1>1, <1>4, <1>5, <1>6 DEF LevelInv, FrameInv, TimelyInv

\* Together they are inductive.
LEMMA InvStep == LevelInv /\ (DriverStep \/ UNCHANGED vars) => LevelInv'
<1> SUFFICES ASSUME LevelInv, DriverStep \/ UNCHANGED vars PROVE LevelInv'
  OBVIOUS
<1>1. CASE DriverStep
  <2>1. FrameInv'
    BY <1>1, FrameStep DEF LevelInv
  <2>2. TimelyInv'
    BY <1>1, <2>1, TimelyStep DEF LevelInv, TimelyInv
  <2> QED
    BY <2>1, <2>2 DEF LevelInv
<1>2. CASE UNCHANGED vars
  BY <1>2, InvStutter
<1> QED
  BY <1>1, <1>2

\* The driver, its interrupt routine and the core stay in step: at every moment it is
\* clear whose the core is, how far it is with its row, and what has come of it;
\* whatever calls of the driver a program makes, and however many waits expire.
THEOREM DriverInductive == Spec => []LevelInv
<1>1. Init => LevelInv
  BY InitInv DEF Init
<1>2. LevelInv /\ [Next]_vars => LevelInv'
  BY InvStep, NextIsDriver
<1> QED
  BY <1>1, <1>2, PTL DEF Spec

\* The same of the bubble level, whose main is one such program.
THEOREM LevelInductive == LevelSpec => []LevelInv
<1>1. LevelInit => LevelInv
  BY InitInv DEF LevelInit
<1>2. LevelInv /\ [LevelNext]_levelVars => LevelInv'
  BY InvStep, LevelIsDriver
<1> QED
  BY <1>1, <1>2, PTL DEF LevelSpec
----------------------------------------------------------------------------
(* What follows from it.                                                   *)

\* The types of main's own state.
LEMMA MainStep == LevelTypeOK /\ [LevelNext]_levelVars /\ TypeOK' => LevelTypeOK'
<1> SUFFICES ASSUME LevelTypeOK, [LevelNext]_levelVars, TypeOK' PROVE LevelTypeOK'
  OBVIOUS
<1>1. CASE main' = main
  BY <1>1 DEF LevelTypeOK
<1>2. Printing = {"hello", "found", "failed", "missed", "shown"}
  BY DEF Printing, AfterPrint
<1>3. CASE MainCalls \/ Sleep \/ MainGoesOn
  BY <1>2, <1>3 DEF MainCalls, ReadId, StartMeasuring, ReadAxes, Sleep, MainGoesOn, AfterId,
                    AfterStart, AfterAxes, LevelTypeOK
<1>4. CASE PrintReturns
  <2>1. main' = AfterPrint[main] /\ main \in {"hello", "found", "failed", "missed", "shown"}
    BY <1>2, <1>4 DEF PrintReturns
  <2>2. main' \in {"init", "start", "exit", "shown", "printed"}
    BY <2>1 DEF AfterPrint
  <2> QED
    BY <1>2, <2>2 DEF LevelTypeOK
<1> QED
  BY <1>1, <1>3, <1>4 DEF LevelNext, Main, Boot, Return, GoOn, OtherProgram, Serve, Clock, Exited,
                    levelVars, bubbleVars

\* Whoever has the core, or has it not.
LEMMA InvQuiet == LevelInv => Quiet
<1> SUFFICES ASSUME LevelInv PROVE Quiet
  OBVIOUS
<1>1. irq_busy # 0 => ctrl_en
  BY DEF LevelInv, FrameInv, OwnerInv
<1>2. ASSUME pc = "idle", irq_busy = 0, ~late PROVE Rest
  BY <1>2 DEF LevelInv, TimelyInv, Timely, QuietInv, InLeg, Between, Turn
<1> QED
  BY <1>1, <1>2 DEF Quiet, Rest

\* Only the return of a call reports what a call has done.
LEMMA SuccessStep ==
    LevelInv /\ (DriverStep \/ UNCHANGED vars)
      => [Returns("SUCCESS") /\ ~ints /\ ~late /\ ~arblost_det => Delivered]_vars
<1> SUFFICES ASSUME LevelInv, DriverStep, Returns("SUCCESS"), ~ints, ~late, ~arblost_det
             PROVE  Delivered
  OBVIOUS
<1>1. FrameInv /\ ReturnInv
  BY DEF LevelInv, TimelyInv, Timely
<1>2. LegReturn
  BY DEF Returns, DriverStep, InitDevice, Register_, SomeCall, Call, AskStatus, Leg, Begin,
         BeginRefused, BeginNew, BeginRestart, Put, PutExpires, CheckFails, Check, Collect,
         CollectExpires, Quiesce, Arm, LegRetry, LegNext, Mask, Ask, Abort, Interrupt, IrqEnd,
         Device, At, callVars
<1>3. status = "SUCCESS" /\ Stop
  BY <1>1, <1>2 DEF LegReturn, Returns, Retried, Stop, FrameInv, LocalInv, TypeOK
<1>4. CASE LegSize = 0
  BY <1>1, <1>3, <1>4, NoBytes
<1>5. CASE LegSize # 0
  BY <1>1, <1>3, <1>5 DEF ReturnInv, Returns
<1> QED
  BY <1>4, <1>5

\* Only an answer reports what the interrupt routine has done.
LEMMA ReadStep ==
    LevelInv /\ (DriverStep \/ UNCHANGED vars)
      => [Answers("SUCCESS") /\ armed /\ ~late /\ op # "tx" => Fresh(irq_got, n)]_vars
<1> SUFFICES ASSUME LevelInv, DriverStep, Answers("SUCCESS"), armed, ~late, op # "tx"
             PROVE  Fresh(irq_got, n)
  OBVIOUS
<1>1. IrqInv
  BY DEF LevelInv, TimelyInv, Timely
<1>2. Ask
  BY DEF Answers, DriverStep, InitDevice, Register_, SomeCall, Call, AskStatus, Leg, Begin,
         BeginRefused, BeginNew, BeginRestart, Put, PutExpires, CheckFails, Check, Collect,
         CollectExpires, Quiesce, Arm, LegRetry, LegNext, LegReturn, Mask, Abort, Interrupt,
         IrqEnd, Device, At, callVars
<1>3. irq_busy = 0
  BY <1>2 DEF Ask, Answer, Answers
<1> QED
  BY <1>1, <1>3 DEF IrqInv

\* Every variable keeps its type: the driver puts no command into a full FIFO, for
\* it waits for room (altera_avalon_i2c.c:372), the core stores no byte in one, and
\* no leg puts more commands than it has or reads a byte of the message it has not.
THEOREM DriverTypeCorrect == Spec => []TypeOK
<1>1. LevelInv => TypeOK
  BY DEF LevelInv, FrameInv
<1> QED
  BY <1>1, DriverInductive, PTL

\* The same of the bubble level, with main's own state.
THEOREM LevelTypeCorrect == LevelSpec => []LevelTypeOK
<1>1. LevelInit => LevelTypeOK
  BY InitInv DEF LevelInv, FrameInv, LevelTypeOK, LevelInit, Printing, AfterPrint
<1>2. LevelInv' => TypeOK'
  BY DEF LevelInv, FrameInv
<1>3. LevelTypeOK /\ [LevelNext]_levelVars /\ LevelInv' => LevelTypeOK'
  BY <1>2, MainStep
<1> QED
  BY <1>1, <1>3, LevelInductive, PTL DEF LevelSpec

\* Between transfers the core is off, idle and empty, unless a wait has expired while
\* it moved; and as long as the interrupt routine has a transfer the core is enabled,
\* whatever calls the program makes meanwhile (master_tx, master_rx, master_tx_rx
\* find it taken and leave it alone).
THEOREM DriverQuiet == Spec => []Quiet
  BY InvQuiet, DriverInductive, PTL

\* The same of the bubble level: each round of main finds the core free, unless a wait
\* of an earlier one expired while it moved.
THEOREM LevelQuiet == LevelSpec => []Quiet
  BY InvQuiet, LevelInductive, PTL

\* A polled call that returns success has done what it was asked for: the device
\* took the whole message, and the buffer holds the bytes read after it, however
\* often the attempts before were refused or lost the bus (the loops of
\* alt_avalon_i2c_master_tx_rx and its siblings), and whatever the FIFOs' depth.
THEOREM DriverSuccessIsReal == Spec => SuccessIsReal
<1>1. LevelInv /\ [Next]_vars
        => [Returns("SUCCESS") /\ ~ints /\ ~late /\ ~arblost_det => Delivered]_vars
  BY SuccessStep, NextIsDriver
<1> QED
  BY <1>1, DriverInductive, PTL DEF Spec, SuccessIsReal

\* The same of the bubble level: what main takes for a sample was read from the
\* registers of the axes, all of it and in their order (adxl345_read_axes, main.c:84).
THEOREM LevelSuccessIsReal == LevelSpec => SuccessIsReal
<1>1. LevelInv /\ [LevelNext]_levelVars
        => [Returns("SUCCESS") /\ ~ints /\ ~late /\ ~arblost_det => Delivered]_vars
  BY SuccessStep, LevelIsDriver
<1> QED
  BY <1>1, LevelInductive, PTL DEF LevelSpec, SuccessIsReal

\* A read left to the interrupt routine that alt_avalon_i2c_interrupt_transaction_status
\* reports complete has all its bytes, of this transfer and in order, however many
\* interrupts it took and however often the program asked before.
THEOREM DriverReadReported == Spec => ReadReported
<1>1. LevelInv /\ [Next]_vars
        => [Answers("SUCCESS") /\ armed /\ ~late /\ op # "tx" => Fresh(irq_got, n)]_vars
  BY ReadStep, NextIsDriver
<1> QED
  BY <1>1, DriverInductive, PTL DEF Spec, ReadReported

\* The same of the bubble level, and of any program in its place.
THEOREM LevelReadReported == LevelSpec => ReadReported
<1>1. LevelInv /\ [LevelNext]_levelVars
        => [Answers("SUCCESS") /\ armed /\ ~late /\ op # "tx" => Fresh(irq_got, n)]_vars
  BY ReadStep, LevelIsDriver
<1> QED
  BY <1>1, LevelInductive, PTL DEF LevelSpec, ReadReported
=============================================================================
