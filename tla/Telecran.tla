------------------------------ MODULE Telecran ------------------------------
(***************************************************************************)
(* Drawing and erasing (hdmi/telecran/telecran.vhd, second process, with   *)
(* the frame buffer's write port, dpram.vhd).                              *)
(*                                                                         *)
(* Each coordinate of the cursor is a CursorPosition, which Encoder        *)
(* implements.  The process writes the memory through the registers        *)
(* s_we_a, s_data_a and s_addr_a, so a cell changes one clock after the    *)
(* process asked for it.  The key resets the process; the cursors are      *)
(* reset by the PLL's lock signal, which the key takes away and which      *)
(* comes back some time after the key is released.                         *)
(***************************************************************************)
EXTENDS Integers

CONSTANTS
    h_res, v_res,   \* columns and rows
    Period,         \* clocks between two steps of a coordinate
    MaxResets       \* bound: resets of the cursors

ASSUME SizesAssumption == h_res \in Nat \ {0} /\ v_res \in Nat \ {0}
ASSUME PeriodAssumption == Period \in Nat \ {0}

VARIABLES
    s_pos_x, s_pos_y, waitX, waitY,     \* the cursor
    s_is_clearing, s_clear_cnt,
    s_we_a, s_data_a, s_addr_a,         \* the write port's registers
    ram,
    i_rst_n, s_rst_n, i_left_pb,        \* the key, the lock, the button
    resets,
    whole   \* history: a sweep has ended and the cursor has not jumped since

cursorVars == <<s_pos_x, s_pos_y, waitX, waitY>>
clearVars == <<s_is_clearing, s_clear_cnt>>
portVars == <<s_we_a, s_data_a, s_addr_a>>
inputVars == <<i_rst_n, s_rst_n, i_left_pb, resets>>
vars == <<cursorVars, clearVars, portVars, ram, inputVars, whole>>

Bit == {0, 1}
Columns == 0..h_res - 1
Rows == 0..v_res - 1
Cells == 0..h_res * v_res - 1

Address(x, y) == y * h_res + x

X == INSTANCE CursorPosition WITH
    MAX <- h_res, START <- h_res \div 2, PERIOD <- Period,
    pos <- s_pos_x, wait <- waitX
Y == INSTANCE CursorPosition WITH
    MAX <- v_res, START <- v_res \div 2, PERIOD <- Period,
    pos <- s_pos_y, wait <- waitY

TypeOK ==
    /\ s_pos_x \in Columns /\ s_pos_y \in Rows
    /\ waitX \in 0..Period /\ waitY \in 0..Period
    /\ s_is_clearing \in Bit /\ s_clear_cnt \in Cells
    /\ s_we_a \in Bit /\ s_data_a \in Bit /\ s_addr_a \in Cells
    /\ ram \in [Cells -> Bit]
    /\ {i_rst_n, s_rst_n, i_left_pb} \subseteq Bit
    /\ resets \in Nat /\ whole \in BOOLEAN

\* The write port and the memory have no reset value.
Init ==
    /\ X!Init /\ Y!Init
    /\ s_is_clearing = 0 /\ s_clear_cnt = 0
    /\ s_we_a \in Bit /\ s_data_a \in Bit /\ s_addr_a \in Cells
    /\ ram \in [Cells -> Bit]
    /\ i_rst_n = 1 /\ s_rst_n = 0 /\ i_left_pb \in Bit
    /\ resets = 0 /\ whole = FALSE
----------------------------------------------------------------------------
(* One edge of the 50 MHz clock: the memory takes what the registers hold, *)
(* the cursors step, and the process does one of the actions below.        *)

PortA ==
    ram' = IF s_we_a = 1 THEN [ram EXCEPT ![s_addr_a] = s_data_a] ELSE ram

Cursors ==
    IF s_rst_n = 1 THEN X!Clock /\ Y!Clock ELSE UNCHANGED cursorVars

Edge == PortA /\ Cursors /\ UNCHANGED inputVars

\* Faulty variants of Sweep: the last cell is left out; the counter runs on.
Sweep_StopsEarly ==
    /\ i_rst_n = 1 /\ s_is_clearing = 1
    /\ s_we_a' = 1 /\ s_data_a' = 0 /\ s_addr_a' = s_clear_cnt
    /\ IF s_clear_cnt >= h_res * v_res - 2
       THEN s_is_clearing' = 0 /\ s_clear_cnt' = 0 /\ whole' = TRUE
       ELSE s_clear_cnt' = s_clear_cnt + 1 /\ UNCHANGED <<s_is_clearing, whole>>

Sweep_NeverEnds ==
    /\ i_rst_n = 1 /\ s_is_clearing = 1
    /\ s_we_a' = 1 /\ s_data_a' = 0 /\ s_addr_a' = s_clear_cnt
    /\ s_clear_cnt' = (s_clear_cnt + 1) % (h_res * v_res)
    /\ UNCHANGED <<s_is_clearing, whole>>

\* Erasing: one cell per clock.
Sweep ==
    /\ i_rst_n = 1 /\ s_is_clearing = 1
    /\ s_we_a' = 1 /\ s_data_a' = 0 /\ s_addr_a' = s_clear_cnt
    /\ IF s_clear_cnt = h_res * v_res - 1
       THEN s_is_clearing' = 0 /\ s_clear_cnt' = 0 /\ whole' = TRUE
       ELSE s_clear_cnt' = s_clear_cnt + 1 /\ UNCHANGED <<s_is_clearing, whole>>

\* The button starts a sweep; the port repeats its last write meanwhile.
StartSweep ==
    /\ i_rst_n = 1 /\ s_is_clearing = 0 /\ i_left_pb = 0
    /\ s_is_clearing' = 1 /\ s_clear_cnt' = 0
    /\ UNCHANGED <<portVars, whole>>

\* A faulty variant of Draw: it inks only every other column.
Draw_SkipsCells ==
    /\ i_rst_n = 1 /\ s_is_clearing = 0 /\ i_left_pb = 1
    /\ s_we_a' = 1 - (s_pos_x % 2) /\ s_data_a' = 1
    /\ s_addr_a' = Address(s_pos_x, s_pos_y)
    /\ UNCHANGED <<clearVars, whole>>

\* A faulty variant of Draw: row and column are exchanged.
Draw_SwapsAxes ==
    /\ i_rst_n = 1 /\ s_is_clearing = 0 /\ i_left_pb = 1
    /\ s_we_a' = 1 /\ s_data_a' = 1 /\ s_addr_a' = Address(s_pos_y, s_pos_x)
    /\ UNCHANGED <<clearVars, whole>>

Draw ==
    /\ i_rst_n = 1 /\ s_is_clearing = 0 /\ i_left_pb = 1
    /\ s_we_a' = 1 /\ s_data_a' = 1 /\ s_addr_a' = Address(s_pos_x, s_pos_y)
    /\ UNCHANGED <<clearVars, whole>>

HeldInReset == i_rst_n = 0 /\ UNCHANGED <<clearVars, portVars, whole>>

Clock == Edge /\ (Sweep \/ StartSweep \/ Draw \/ HeldInReset)

\* The key: at once, without a clock.  Data and address are not reset.
PressKey ==
    /\ i_rst_n = 1 /\ resets < MaxResets
    /\ i_rst_n' = 0 /\ resets' = resets + 1
    /\ s_is_clearing' = 0 /\ s_clear_cnt' = 0 /\ s_we_a' = 0
    /\ s_rst_n' = 0 /\ X!Reset /\ Y!Reset
    /\ whole' = FALSE
    /\ UNCHANGED <<s_data_a, s_addr_a, ram, i_left_pb>>

ReleaseKey ==
    /\ i_rst_n = 0 /\ i_rst_n' = 1
    /\ UNCHANGED <<cursorVars, clearVars, portVars, ram, s_rst_n, i_left_pb,
                   resets, whole>>

\* The PLL locks once it is no longer reset, and may lose its lock.
Lock ==
    /\ i_rst_n = 1 /\ s_rst_n = 0 /\ s_rst_n' = 1
    /\ UNCHANGED <<cursorVars, clearVars, portVars, ram, i_rst_n, i_left_pb,
                   resets, whole>>

LoseLock ==
    /\ s_rst_n = 1 /\ resets < MaxResets
    /\ s_rst_n' = 0 /\ resets' = resets + 1
    /\ X!Reset /\ Y!Reset
    /\ whole' = FALSE
    /\ UNCHANGED <<clearVars, portVars, ram, i_rst_n, i_left_pb>>

Button ==
    /\ i_left_pb' = 1 - i_left_pb
    /\ UNCHANGED <<cursorVars, clearVars, portVars, ram, i_rst_n, s_rst_n,
                   resets, whole>>

Next ==
    \/ Clock
    \/ PressKey \/ ReleaseKey
    \/ Lock \/ LoseLock
    \/ Button

\* The clock never stops.
Spec == Init /\ [][Next]_vars /\ WF_vars(Clock)
----------------------------------------------------------------------------
\* The memory as it is after the write that is still in the registers.
Written(c) == IF s_we_a = 1 /\ c = s_addr_a THEN s_data_a ELSE ram[c]

Inked == {p \in Columns \X Rows : Written(Address(p[1], p[2])) = 1}

Near(a, b) == a - b \in -1..1

\* When a sweep has run to its end the whole picture is blank, although the
\* last thing drawn was still on its way to the memory when the sweep began,
\* the cursor went on moving, and the last cell is still on its way now.
ClearErasesAll ==
    [][s_is_clearing = 1 /\ s_is_clearing' = 0 /\ i_rst_n' = 1
          => Inked' = {}]_vars

\* A line has no gaps: on a page that has been erased to its end, a cell that
\* gets ink touches one that has some, unless the page is blank.  The cursor
\* never runs ahead of the process that draws it, not around a sweep either.
StrokeHasNoGaps ==
    [][whole /\ whole' /\ s_is_clearing = 0
          => \A p \in Inked' \ Inked :
                Inked = {} \/ \E q \in Inked : Near(p[1], q[1]) /\ Near(p[2], q[2])]_vars

\* The pen comes back once button and key are left alone: a sweep always ends,
\* and a button that was held down, which starts one sweep after the other,
\* does not leave the process sweeping.
DrawsAgain ==
    <>[](i_left_pb = 1 /\ i_rst_n = 1) => <>[](s_we_a = 1 /\ s_data_a = 1)
============================================================================
