------------------------------ MODULE Display ------------------------------
(***************************************************************************)
(* From the frame buffer to the pixels (hdmi/telecran/telecran.vhd, first  *)
(* process, and the read port of dpram.vhd).                               *)
(*                                                                         *)
(* In one pixel clock the memory puts the cell addressed by the counters   *)
(* into s_pixel_data, and the display process makes o_hdmi_tx_d from the   *)
(* s_pixel_data of BEFORE.  The data enable is not delayed to match.       *)
(* The cursor and the memory are written by the other clock domain.        *)
(***************************************************************************)
EXTENDS VideoTiming

CONSTANT CursorSize     \* 4: the cursor is a square of this size

ASSUME CursorAssumption == CursorSize \in Nat \ {0}

\* A line's blanking is not longer than its pixels: 138 against 720.
ASSUME BlankingAssumption == H_FP + H_PW + H_BP <= H_RES

VARIABLES
    ram, s_pos_x, s_pos_y,
    s_pixel_data, o_hdmi_tx_d,
    \* history: the address s_pixel_data was read at and what the memory held
    \* there; the same for the pixel on the pins, and the cursor's place then
    read, shown

otherDomain == <<ram, s_pos_x, s_pos_y>>
pixelVars == <<s_pixel_data, o_hdmi_tx_d, read, shown>>
vars == <<timingVars, otherDomain, pixelVars>>

Columns == 0..H_RES - 1
Rows == 0..V_RES - 1
Cells == 0..H_RES * V_RES - 1
Colours == {"x000000", "x00FF00"}

Address(x, y) == y * H_RES + x

\* What a read gives: beyond the memory, anything.
Contents(address) == IF address \in Cells THEN {ram[address]} ELSE Bit

\* The pixel x, y lies in the square whose corner is the cursor.
InCursor(x, y, corner) ==
    /\ x >= corner[1] /\ x < corner[1] + CursorSize
    /\ y >= corner[2] /\ y < corner[2] + CursorSize

Corner == <<s_pos_x, s_pos_y>>

\* The two registers have no reset value; -1 is an address nothing has.
Init ==
    /\ TimingInit
    /\ ram \in [Cells -> Bit] /\ s_pos_x \in Columns /\ s_pos_y \in Rows
    /\ s_pixel_data \in Bit /\ o_hdmi_tx_d \in Colours
    /\ read = [address |-> -1, bit |-> s_pixel_data]
    /\ shown = [address |-> -1, bit |-> 0, corner |-> Corner, blank |-> TRUE]
----------------------------------------------------------------------------
Read ==
    \E b \in Contents(Address(h_cnt, v_cnt)) :
        /\ s_pixel_data' = b
        /\ read' = [address |-> Address(h_cnt, v_cnt), bit |-> b]

Paint(bit) == IF bit = 1 THEN "x000000" ELSE "x00FF00"

\* A faulty variant of PixelColour: the cursor is compared one column early.
PixelColour_EarlyCursor ==
    CASE o_hdmi_tx_de = 0 -> "x000000"
      [] o_hdmi_tx_de = 1 /\ InCursor(h_cnt + 1, v_cnt, Corner) -> "x000000"
      [] OTHER -> Paint(s_pixel_data)

\* The cursor comes before the memory.
PixelColour ==
    CASE o_hdmi_tx_de = 0 -> "x000000"
      [] o_hdmi_tx_de = 1 /\ InCursor(h_cnt, v_cnt, Corner) -> "x000000"
      [] OTHER -> Paint(s_pixel_data)

Show ==
    /\ o_hdmi_tx_d' = PixelColour
    /\ shown' = [address |-> read.address, bit |-> read.bit, corner |-> Corner,
                 blank |-> o_hdmi_tx_de = 0]

PixelClock == TimingNext /\ Read /\ Show /\ UNCHANGED otherDomain

\* The other clock domain: a cell is written, the cursor moves or is reset.
WriteCell ==
    /\ \E c \in Cells, b \in Bit : ram' = [ram EXCEPT ![c] = b]
    /\ UNCHANGED <<timingVars, s_pos_x, s_pos_y, pixelVars>>

MoveCursor ==
    /\ s_pos_x' \in Columns /\ s_pos_y' \in Rows
    /\ UNCHANGED <<timingVars, ram, pixelVars>>

Next == PixelClock \/ WriteCell \/ MoveCursor

Spec == Init /\ [][Next]_vars
----------------------------------------------------------------------------
\* The screen shows the memory two columns to the right of where it is, and
\* the cursor one column: the pixel that goes out with column x was compared
\* with the cursor one clock before, and had been read two clocks before.  The
\* memory's last two columns are never seen.
PixelsAreLate ==
    o_hdmi_tx_de = 1 /\ h_cnt >= 2 =>
        /\ shown.address = Address(h_cnt - 2, v_cnt)
        /\ o_hdmi_tx_d = IF InCursor(h_cnt - 1, v_cnt, shown.corner)
                         THEN "x000000" ELSE Paint(shown.bit)

\* The address runs on through the blanking, into the next row and past the
\* end of the memory.  What is read there gets out in two places at most:
\* the second pixel of a line is a cell of the same row, read in the blanking,
\* and the undefined reads come out at the start of a frame only.
StrayReads ==
    o_hdmi_tx_de = 1 /\ ~shown.blank =>
        /\ shown.address \notin Cells => v_cnt = 0 /\ h_cnt <= 1
        /\ h_cnt = 1 /\ v_cnt > 0
              => shown.address = Address(H_TOTAL - 1, v_cnt - 1)
============================================================================
