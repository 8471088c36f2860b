------------------------------ MODULE Adv7513 ------------------------------
(***************************************************************************)
(* The HDMI transmitter chip as the configuration path sees it: a slave    *)
(* that only watches the two wires.  It is not part of the repository; the *)
(* model is the I2C receiver that the frames of I2C_WRITE_WDATA.v address: *)
(* address, sub-address, data, each acknowledged on the ninth clock.       *)
(***************************************************************************)
EXTENDS BusTypes

CONSTANT SLAVE_ADDR      \* the write address the chip answers to

VARIABLES
    listening,  \* a START was seen and no byte refused since
    bits,       \* rising clock edges in the current byte
    shift,      \* the bits received so far
    bytes,      \* bytes accepted in this frame: 0, 1, 2 (then data follows)
    sub,        \* register the next data byte goes to
    pull,       \* the chip holds SDA low (the acknowledge)
    written     \* {<<register, value>>}: what it accepted since its power-up

receiverVars == <<listening, bits, shift, bytes, sub, pull>>
chipVars == <<receiverVars, written>>

ReceiverTypeOK ==
    /\ listening \in BOOLEAN /\ pull \in BOOLEAN
    /\ bits \in 0..9 /\ bytes \in 0..2
    /\ shift \in Byte /\ sub \in Byte

ChipTypeOK == ReceiverTypeOK /\ written \subseteq Byte \X Byte

ChipInit ==
    /\ listening = FALSE /\ pull = FALSE
    /\ bits = 0 /\ bytes = 0 /\ shift = 0 /\ sub = 0
    /\ written = {}

\* The line: open drain, low when either side holds it.
Line(master) == IF pull THEN 0 ELSE master

ChipStart ==
    /\ listening' = TRUE
    /\ bits' = 0 /\ bytes' = 0 /\ shift' = 0
    /\ UNCHANGED <<sub, pull>>

ChipStop ==
    /\ listening' = FALSE
    /\ bits' = 0 /\ bytes' = 0 /\ shift' = 0
    /\ UNCHANGED <<sub, pull>>

\* Rising clock: one bit; the ninth is the answer and carries no data.
ChipSample(bit) ==
    /\ listening
    /\ bits' = IF bits < 9 THEN bits + 1 ELSE 9
    /\ shift' = IF bits < 8 THEN (2 * shift + bit) % 256 ELSE shift
    /\ UNCHANGED <<listening, bytes, sub, pull>>

\* Falling clock after the eighth bit: hold SDA low, or refuse the byte.
ChipAnswer(refuse) ==
    /\ listening /\ bits = 8
    /\ LET accept == ~refuse /\ (bytes = 0 => shift = SLAVE_ADDR)
       IN  pull' = accept /\ listening' = accept
    /\ UNCHANGED <<bits, shift, bytes, sub>>

\* Falling clock after the ninth: the byte takes effect, SDA is released.
ChipTake ==
    /\ listening /\ bits = 9
    /\ pull' = FALSE /\ bits' = 0 /\ shift' = 0
    /\ \/ bytes = 0 /\ bytes' = 1 /\ UNCHANGED sub
       \/ bytes = 1 /\ bytes' = 2 /\ sub' = shift
       \/ bytes = 2 /\ sub' = (sub + 1) % 256 /\ UNCHANGED bytes
    /\ UNCHANGED listening

ChipIgnore(sda, scl, sdaNext, sclNext) ==
    /\ \/ scl = sclNext /\ sda = sdaNext
       \/ scl = 0 /\ sclNext = 0
       \/ ~listening /\ scl # sclNext
       \/ listening /\ scl = 1 /\ sclNext = 0 /\ bits < 8
    /\ UNCHANGED receiverVars

\* The falling clock after the ninth bit of a data byte stores it.
Stored(scl, sclNext) ==
    IF listening /\ bits = 9 /\ bytes = 2 /\ scl = 1 /\ sclNext = 0
    THEN {<<sub, shift>>} ELSE {}

\* What one change of the wires (sda, scl) -> (sdaNext, sclNext) makes the
\* chip do.  When both wires rise together it may see either one first.
ChipSees(sda, scl, sdaNext, sclNext, refuse) ==
    \/ ChipIgnore(sda, scl, sdaNext, sclNext)
    \/ scl = 1 /\ sclNext = 1 /\ sda = 1 /\ sdaNext = 0 /\ ChipStart
    \/ scl = 1 /\ sclNext = 1 /\ sda = 0 /\ sdaNext = 1 /\ ChipStop
    \/ scl = 0 /\ sclNext = 1 /\ \E bit \in {sda, sdaNext} : ChipSample(bit)
    \/ scl = 0 /\ sclNext = 1 /\ sda = 0 /\ sdaNext = 1 /\ ChipStop
    \/ scl = 1 /\ sclNext = 0 /\ ChipAnswer(refuse)
    \/ scl = 1 /\ sclNext = 0 /\ ChipTake
=============================================================================
