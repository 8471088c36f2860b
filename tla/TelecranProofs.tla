-------------------------- MODULE TelecranProofs --------------------------
(***************************************************************************)
(* Proofs about Telecran, for screens of every size.                       *)
(***************************************************************************)
EXTENDS Telecran, TLAPS

----------------------------------------------------------------------------
(* Addresses: s_pos_y * h_res + s_pos_x names every cell exactly once.     *)

LEMMA ProductIsMonotone ==
    ASSUME NEW a \in Int, NEW b \in Int, NEW n \in Nat, a <= b
    PROVE  a * n <= b * n
<1>1. (b - a) * n >= 0
  OBVIOUS
<1>2. (b - a) * n = b * n - a * n
  OBVIOUS
<1> QED BY <1>1, <1>2

\* The number of cells is a natural number that no single cell exceeds.
LEMMA CellsAreCounted == h_res * v_res \in Nat \ {0}
  BY SizesAssumption

LEMMA AddressInRange ==
    ASSUME NEW x \in Columns, NEW y \in Rows
    PROVE  Address(x, y) \in Cells
<1> h_res \in Nat /\ v_res \in Nat
  BY SizesAssumption
<1>1. x \in Int /\ 0 <= x /\ x <= h_res - 1 /\ y \in Int /\ 0 <= y /\ y <= v_res - 1
  BY DEF Columns, Rows
<1>2. 0 * h_res <= y * h_res /\ y * h_res <= (v_res - 1) * h_res
  BY <1>1, ProductIsMonotone
<1>3. (v_res - 1) * h_res = h_res * v_res - h_res
  OBVIOUS
<1>4. y * h_res \in Int /\ h_res * v_res \in Int
  BY <1>1
<1> QED BY <1>1, <1>2, <1>3, <1>4 DEF Address, Cells

\* Two places with the same address are the same place.
LEMMA AddressIsInjective ==
    ASSUME NEW x1 \in Columns, NEW y1 \in Rows,
           NEW x2 \in Columns, NEW y2 \in Rows,
           Address(x1, y1) = Address(x2, y2)
    PROVE  x1 = x2 /\ y1 = y2
<1> h_res \in Nat
  BY SizesAssumption
<1>1. /\ x1 \in Int /\ 0 <= x1 /\ x1 <= h_res - 1
      /\ x2 \in Int /\ 0 <= x2 /\ x2 <= h_res - 1
      /\ y1 \in Int /\ y2 \in Int
  BY DEF Columns, Rows
<1>2. ASSUME NEW a \in Int, NEW b \in Int, a < b
      PROVE  a * h_res + h_res <= b * h_res
  <2>1. (a + 1) * h_res <= b * h_res
    BY <1>2, ProductIsMonotone
  <2>2. (a + 1) * h_res = a * h_res + h_res
    OBVIOUS
  <2> QED BY <2>1, <2>2
<1>3. y1 * h_res \in Int /\ y2 * h_res \in Int
  BY <1>1
<1>4. y1 * h_res + x1 = y2 * h_res + x2
  BY DEF Address
<1>5. ~(y1 < y2)
  BY <1>1, <1>2, <1>3, <1>4
<1>6. ~(y2 < y1)
  BY <1>1, <1>2, <1>3, <1>4
<1>7. y1 = y2
  BY <1>1, <1>5, <1>6
<1> QED BY <1>1, <1>3, <1>4, <1>7

----------------------------------------------------------------------------
(* What one edge does to the cursor and to the picture.                    *)

LEMMA MiddleIsInside ==
    ASSUME NEW n \in Nat \ {0} PROVE n \div 2 \in 0..n - 1
  OBVIOUS

\* The cursor stays on the screen and moves by at most one each way.
LEMMA CursorMovesByOne ==
    ASSUME TypeOK, Cursors
    PROVE  /\ s_pos_x' \in Columns /\ s_pos_y' \in Rows
           /\ waitX' \in 0..Period /\ waitY' \in 0..Period
           /\ Near(s_pos_x', s_pos_x) /\ Near(s_pos_y', s_pos_y)
<1> /\ h_res \in Nat \ {0} /\ v_res \in Nat \ {0} /\ Period \in Nat \ {0}
    /\ s_pos_x \in Columns /\ s_pos_y \in Rows
    /\ waitX \in 0..Period /\ waitY \in 0..Period
  BY SizesAssumption, PeriodAssumption DEF TypeOK
<1>1. CASE UNCHANGED cursorVars
  BY <1>1 DEF cursorVars, Near, Columns, Rows
<1>2. CASE X!Clock /\ Y!Clock
  <2>1. s_pos_x' \in Columns /\ waitX' \in 0..Period /\ Near(s_pos_x', s_pos_x)
    BY <1>2 DEF X!Clock, X!Hold, X!Step, Near, Columns
  <2>2. s_pos_y' \in Rows /\ waitY' \in 0..Period /\ Near(s_pos_y', s_pos_y)
    BY <1>2 DEF Y!Clock, Y!Hold, Y!Step, Near, Rows
  <2> QED BY <2>1, <2>2
<1> QED BY <1>1, <1>2 DEF Cursors

\* The memory catches up with the picture, and the picture changes only at the
\* address the registers take next.
LEMMA PictureStep ==
    ASSUME TypeOK, PortA, NEW c \in Cells
    PROVE  /\ ram' \in [Cells -> Bit]
           /\ Written(c)' = IF s_we_a' = 1 /\ c = s_addr_a' THEN s_data_a' ELSE Written(c)
<1> ram \in [Cells -> Bit] /\ s_data_a \in Bit /\ s_addr_a \in Cells
  BY DEF TypeOK
<1>1. ram'[c] = Written(c)
  BY DEF PortA, Written
<1>2. ram' \in [Cells -> Bit]
  BY DEF PortA
<1> QED BY <1>1, <1>2 DEF Written

\* With the registers unchanged the picture is unchanged.
LEMMA PictureHolds ==
    ASSUME TypeOK, PortA \/ UNCHANGED ram, UNCHANGED portVars
    PROVE  Inked' = Inked
<1>1. ASSUME NEW p \in Columns \X Rows
      PROVE  Written(Address(p[1], p[2]))' = Written(Address(p[1], p[2]))
  <2> DEFINE c == Address(p[1], p[2])
  <2>1. c \in Cells
    BY AddressInRange
  <2>2. c' = c
    BY DEF Address
  <2>3. CASE PortA
    <3>1. Written(c)' = IF s_we_a' = 1 /\ c = s_addr_a' THEN s_data_a' ELSE Written(c)
      BY <2>1, <2>3, PictureStep
    <3> QED BY <3>1 DEF portVars, Written
  <2>4. CASE UNCHANGED ram
    BY <2>4 DEF Written, portVars, Address
  <2> QED BY <2>3, <2>4
<1> QED BY <1>1 DEF Inked, Columns, Rows

----------------------------------------------------------------------------
(* Type correctness.                                                       *)

LEMMA CursorResets ==
    ASSUME TypeOK, X!Reset, Y!Reset
    PROVE  /\ s_pos_x' \in Columns /\ s_pos_y' \in Rows
           /\ waitX' \in 0..Period /\ waitY' \in 0..Period
<1>1. s_pos_x' \in Columns /\ s_pos_y' \in Rows
  BY SizesAssumption, MiddleIsInside DEF X!Reset, Y!Reset, Columns, Rows
<1>2. waitX' \in 0..Period /\ waitY' \in 0..Period
  BY PeriodAssumption DEF X!Reset, Y!Reset
<1> QED BY <1>1, <1>2

LEMMA TypeInit == Init => TypeOK
<1> SUFFICES ASSUME Init PROVE TypeOK
  OBVIOUS
<1>1. s_pos_x \in Columns /\ s_pos_y \in Rows
  BY SizesAssumption, MiddleIsInside DEF Init, X!Init, Y!Init, Columns, Rows
<1>2. waitX \in 0..Period /\ waitY \in 0..Period
  BY PeriodAssumption DEF Init, X!Init, Y!Init
<1>3. 0 \in Cells
  BY CellsAreCounted DEF Cells
<1> QED BY <1>1, <1>2, <1>3 DEF Init, TypeOK, Bit

LEMMA TypeStep == TypeOK /\ [Next]_vars => TypeOK'
<1> SUFFICES ASSUME TypeOK, [Next]_vars PROVE TypeOK'
  OBVIOUS
<1> USE DEF Bit
<1>1. CASE Clock
  <2>1. /\ s_pos_x' \in Columns /\ s_pos_y' \in Rows
        /\ waitX' \in 0..Period /\ waitY' \in 0..Period
    BY <1>1, CursorMovesByOne DEF Clock, Edge
  <2>2. ram' \in [Cells -> Bit]
    BY <1>1 DEF Clock, Edge, PortA, TypeOK
  <2>3. /\ s_is_clearing' \in Bit /\ s_clear_cnt' \in Cells
        /\ s_we_a' \in Bit /\ s_data_a' \in Bit /\ s_addr_a' \in Cells
        /\ whole' \in BOOLEAN
    <3>1. CASE Sweep
      <4>1. s_clear_cnt \in Cells /\ 0 \in Cells
        BY CellsAreCounted DEF TypeOK, Cells
      <4>2. s_clear_cnt # h_res * v_res - 1 => s_clear_cnt + 1 \in Cells
        BY <4>1, CellsAreCounted DEF Cells
      <4> QED BY <3>1, <4>1, <4>2 DEF Sweep, TypeOK
    <3>2. CASE StartSweep
      <4>1. 0 \in Cells
        BY CellsAreCounted DEF Cells
      <4> QED BY <3>2, <4>1 DEF StartSweep, portVars, TypeOK
    <3>3. CASE Draw
      <4>1. Address(s_pos_x, s_pos_y) \in Cells
        BY AddressInRange DEF TypeOK
      <4> QED BY <3>3, <4>1 DEF Draw, clearVars, TypeOK
    <3>4. CASE HeldInReset
      BY <3>4 DEF HeldInReset, clearVars, portVars, TypeOK
    <3> QED BY <1>1, <3>1, <3>2, <3>3, <3>4 DEF Clock
  <2> QED BY <1>1, <2>1, <2>2, <2>3 DEF Clock, Edge, inputVars, TypeOK
<1>2. CASE PressKey
  <2>1. 0 \in Cells
    BY CellsAreCounted DEF Cells
  <2>2. /\ s_pos_x' \in Columns /\ s_pos_y' \in Rows
        /\ waitX' \in 0..Period /\ waitY' \in 0..Period
    BY <1>2, CursorResets DEF PressKey
  <2>3. resets' \in Nat /\ {i_rst_n', s_rst_n', i_left_pb'} \subseteq Bit
    BY <1>2 DEF PressKey, TypeOK
  <2> QED BY <1>2, <2>1, <2>2, <2>3, ZenonT(30) DEF PressKey, TypeOK
<1>3. CASE LoseLock
  <2>1. /\ s_pos_x' \in Columns /\ s_pos_y' \in Rows
        /\ waitX' \in 0..Period /\ waitY' \in 0..Period
    BY <1>3, CursorResets DEF LoseLock
  <2>2. resets' \in Nat /\ {i_rst_n', s_rst_n', i_left_pb'} \subseteq Bit
    BY <1>3 DEF LoseLock, TypeOK
  <2>3. UNCHANGED <<s_is_clearing, s_clear_cnt, s_we_a, s_data_a, s_addr_a, ram>>
    BY <1>3 DEF LoseLock, clearVars, portVars
  <2> QED BY <1>3, <2>1, <2>2, <2>3, ZenonT(30) DEF LoseLock, TypeOK
<1>4. CASE ReleaseKey \/ Lock \/ Button
  BY <1>4 DEF ReleaseKey, Lock, Button, TypeOK, cursorVars, clearVars, portVars
<1>5. CASE UNCHANGED vars
  BY <1>5 DEF vars, TypeOK, cursorVars, clearVars, portVars, inputVars
<1> QED BY <1>1, <1>2, <1>3, <1>4, <1>5 DEF Next

\* Positions, counters and addresses stay in the ranges telecran.vhd declares.
THEOREM TelecranTypeOK == Spec => []TypeOK
<1> QED BY TypeInit, TypeStep, PTL DEF Spec

----------------------------------------------------------------------------
(* The sweep: all it has passed is blank, counting the write that is still *)
(* in the registers.                                                       *)

SweptIsBlank ==
    s_is_clearing = 1 => \A c \in Cells : c < s_clear_cnt => Written(c) = 0

\* One clock of the sweep blanks the cell it names and keeps the others.
LEMMA SweepStep ==
    ASSUME TypeOK, SweptIsBlank, PortA, Sweep
    PROVE  \A c \in Cells : c <= s_clear_cnt => Written(c)' = 0
<1> SUFFICES ASSUME NEW c \in Cells, c <= s_clear_cnt PROVE Written(c)' = 0
  OBVIOUS
<1>1. Written(c)' = IF c = s_clear_cnt THEN 0 ELSE Written(c)
  BY PictureStep DEF Sweep
<1>2. c # s_clear_cnt => Written(c) = 0
  BY DEF SweptIsBlank, Sweep, TypeOK, Cells
<1> QED BY <1>1, <1>2

LEMMA SweptStep == TypeOK /\ SweptIsBlank /\ [Next]_vars => SweptIsBlank'
<1> SUFFICES ASSUME TypeOK, SweptIsBlank, [Next]_vars, s_is_clearing' = 1,
                    NEW c \in Cells, c < s_clear_cnt'
             PROVE  Written(c)' = 0
  BY DEF SweptIsBlank
<1> s_clear_cnt \in Cells
  BY DEF TypeOK
<1>1. CASE Edge /\ Sweep
  <2>1. s_clear_cnt' = s_clear_cnt + 1
    BY <1>1 DEF Sweep
  <2>2. c <= s_clear_cnt
    BY <2>1 DEF Cells
  <2> QED BY <1>1, <2>2, SweepStep DEF Edge
<1>2. CASE StartSweep
  BY <1>2 DEF StartSweep, Cells
<1>3. CASE Draw
  BY <1>3 DEF Draw, clearVars
<1>4. CASE Edge /\ HeldInReset
  <2>1. Written(c)' = Written(c)
    BY <1>4, PictureStep DEF Edge, HeldInReset, portVars, Written
  <2> QED BY <1>4, <2>1 DEF HeldInReset, clearVars, SweptIsBlank
<1>5. CASE PressKey
  BY <1>5 DEF PressKey
<1>6. CASE ReleaseKey \/ Lock \/ LoseLock \/ Button \/ UNCHANGED vars
  <2>1. UNCHANGED <<clearVars, portVars, ram>>
    BY <1>6 DEF ReleaseKey, Lock, LoseLock, Button, vars
  <2>2. Written(c)' = Written(c)
    BY <2>1 DEF Written, portVars
  <2> QED BY <2>1, <2>2 DEF clearVars, SweptIsBlank
<1> QED BY <1>1, <1>2, <1>3, <1>4, <1>5, <1>6 DEF Next, Clock

\* A sweep that ends leaves nothing.
LEMMA EraseStep ==
    ASSUME TypeOK, SweptIsBlank, PortA, Sweep, s_is_clearing' = 0
    PROVE  Inked' = {}
<1>1. s_clear_cnt = h_res * v_res - 1
  BY DEF Sweep
<1>2. \A c \in Cells : Written(c)' = 0
  BY <1>1, SweepStep, CellsAreCounted DEF Cells
<1>3. ASSUME NEW p \in Columns \X Rows PROVE Written(Address(p[1], p[2]))' # 1
  <2> DEFINE c == Address(p[1], p[2])
  <2>1. c \in Cells /\ c' = c
    BY AddressInRange DEF Address
  <2>2. Written(c)' = 0
    BY <1>2, <2>1
  <2> QED BY <2>1, <2>2 DEF Address, Written
<1> QED BY <1>3 DEF Inked, Columns, Rows

\* Whatever the cursor did meanwhile and whatever was on its way to the memory,
\* the picture is blank when the sweep of telecran.vhd ends.
THEOREM TelecranClearErasesAll == Spec => ClearErasesAll
<1> DEFINE Goal == s_is_clearing = 1 /\ s_is_clearing' = 0 /\ i_rst_n' = 1
                      => Inked' = {}
<1>1. Init => TypeOK /\ SweptIsBlank
  BY TypeInit DEF Init, SweptIsBlank
<1>2. TypeOK /\ SweptIsBlank /\ [Next]_vars => TypeOK' /\ SweptIsBlank'
  BY TypeStep, SweptStep
<1>3. TypeOK /\ SweptIsBlank /\ [Next]_vars => [Goal]_vars
  <2> SUFFICES ASSUME TypeOK, SweptIsBlank, Next, s_is_clearing = 1,
                      s_is_clearing' = 0, i_rst_n' = 1
               PROVE  Inked' = {}
    OBVIOUS
  <2>1. Edge /\ Sweep
    BY DEF Next, Clock, StartSweep, Draw, HeldInReset, PressKey, ReleaseKey,
           Lock, LoseLock, Button, clearVars
  <2> QED BY <2>1, EraseStep DEF Edge
<1> QED BY <1>1, <1>2, <1>3, PTL DEF Spec, ClearErasesAll

----------------------------------------------------------------------------
(* The line: on a page that was erased to its end the cursor is never more *)
(* than one cell away from the ink.                                        *)

Touches(S, x, y) == \E q \in S : Near(x, q[1]) /\ Near(y, q[2])

PenTouchesInk ==
    whole /\ s_is_clearing = 0
        => Inked = {} \/ Touches(Inked, s_pos_x, s_pos_y)

\* A jump of the cursor, or the key, ends the line.
KeyEndsLine == i_rst_n = 0 => ~whole

LineInv == TypeOK /\ SweptIsBlank /\ PenTouchesInk /\ KeyEndsLine

\* Drawing adds the cell under the cursor and no other.
LEMMA DrawStep ==
    ASSUME TypeOK, PortA, Draw
    PROVE  /\ <<s_pos_x, s_pos_y>> \in Inked'
           /\ \A p \in Inked' \ Inked : p = <<s_pos_x, s_pos_y>>
<1> s_pos_x \in Columns /\ s_pos_y \in Rows
  BY DEF TypeOK
<1>1. <<s_pos_x, s_pos_y>> \in Inked'
  <2> DEFINE c == Address(s_pos_x, s_pos_y)
  <2>1. c \in Cells
    BY AddressInRange
  <2> HIDE DEF c
  <2>2. ASSUME NEW d \in Cells, d = s_addr_a' PROVE Written(d)' = 1
    BY <2>2 DEF Draw, Written
  <2>3. c = s_addr_a'
    BY DEF Draw, c
  <2>4. ASSUME NEW d, d = s_addr_a' PROVE (IF s_we_a' = 1 /\ d = s_addr_a' THEN s_data_a' ELSE ram'[d]) = 1
    BY <2>4 DEF Draw
  <2>5. (IF s_we_a' = 1 /\ c = s_addr_a' THEN s_data_a' ELSE ram'[c]) = 1
    BY <2>3, <2>4
  <2> QED BY <2>5 DEF Inked, Written, Address, c
<1>2. ASSUME NEW p \in Columns \X Rows, p \in Inked', p \notin Inked
      PROVE  p = <<s_pos_x, s_pos_y>>
  <2> DEFINE c == Address(p[1], p[2])
  <2>1. c \in Cells /\ c' = c
    BY AddressInRange DEF Address
  <2>2. Written(c)' = 1 /\ Written(c) # 1
    BY <1>2 DEF Inked, Address, Written
  <2>3. Written(c)' = IF s_we_a' = 1 /\ c = s_addr_a' THEN s_data_a' ELSE Written(c)
    BY <2>1, PictureStep
  <2>4. c = Address(s_pos_x, s_pos_y)
    BY <2>2, <2>3 DEF Draw
  <2>5. p[1] \in Columns /\ p[2] \in Rows /\ p = <<p[1], p[2]>>
    OBVIOUS
  <2>6. p[1] = s_pos_x /\ p[2] = s_pos_y
    BY <2>4, <2>5, AddressIsInjective
  <2> QED BY <2>5, <2>6
<1>3. Inked' \subseteq Columns \X Rows
  BY DEF Inked, Columns, Rows
<1> QED BY <1>1, <1>2, <1>3

LEMMA LineStep == LineInv /\ [Next]_vars => LineInv'
<1> SUFFICES ASSUME LineInv, [Next]_vars PROVE LineInv'
  OBVIOUS
<1>1. TypeOK' /\ SweptIsBlank'
  BY TypeStep, SweptStep DEF LineInv
<1>2. KeyEndsLine'
  BY DEF LineInv, KeyEndsLine, Next, Clock, Edge, Sweep, StartSweep, Draw, HeldInReset,
         PressKey, ReleaseKey, Lock, LoseLock, Button, vars, inputVars
<1>3. PenTouchesInk'
  <2> SUFFICES ASSUME whole', s_is_clearing' = 0, Inked' # {}
               PROVE  Touches(Inked, s_pos_x, s_pos_y)'
    BY DEF PenTouchesInk
  <2>1. CASE Edge /\ Draw
    <3>1. Near(s_pos_x', s_pos_x) /\ Near(s_pos_y', s_pos_y)
      BY <2>1, CursorMovesByOne DEF LineInv, Edge
    <3>2. <<s_pos_x, s_pos_y>> \in Inked'
      BY <2>1, DrawStep DEF LineInv, Edge
    <3> QED BY <3>1, <3>2 DEF Touches, Near
  <2>2. CASE Edge /\ Sweep
    BY <2>2, EraseStep DEF LineInv, Edge
  <2>3. CASE StartSweep
    BY <2>3 DEF StartSweep
  <2>4. CASE HeldInReset
    BY <2>4 DEF HeldInReset, LineInv, KeyEndsLine
  <2>5. CASE PressKey \/ LoseLock
    BY <2>5 DEF PressKey, LoseLock
  <2>6. CASE ReleaseKey \/ Lock \/ Button \/ UNCHANGED vars
    <3>1. UNCHANGED <<cursorVars, clearVars, portVars, ram, whole>>
      BY <2>6 DEF ReleaseKey, Lock, Button, vars
    <3>2. Inked' = Inked
      BY <3>1, PictureHolds DEF LineInv
    <3> QED BY <3>1, <3>2 DEF LineInv, PenTouchesInk, Touches, cursorVars, clearVars
  <2> QED BY <2>1, <2>2, <2>3, <2>4, <2>5, <2>6 DEF Next, Clock
<1> QED BY <1>1, <1>2, <1>3 DEF LineInv

\* A line drawn on a page that was erased to its end has no gaps.
THEOREM TelecranStrokeHasNoGaps == Spec => StrokeHasNoGaps
<1> DEFINE Goal == whole /\ whole' /\ s_is_clearing = 0
                      => \A p \in Inked' \ Inked :
                            Inked = {} \/ \E q \in Inked : Near(p[1], q[1]) /\ Near(p[2], q[2])
<1>1. Init => LineInv
  BY TypeInit DEF Init, LineInv, SweptIsBlank, PenTouchesInk, KeyEndsLine
<1>2. LineInv /\ [Next]_vars => [Goal]_vars
  <2> SUFFICES ASSUME LineInv, Next, whole, whole', s_is_clearing = 0,
                      NEW p \in Inked' \ Inked, Inked # {}
               PROVE  Touches(Inked, p[1], p[2])
    BY DEF Touches
  <2>1. CASE Edge /\ Draw
    <3>1. p = <<s_pos_x, s_pos_y>>
      BY <2>1, DrawStep DEF LineInv, Edge
    <3>2. p[1] = s_pos_x /\ p[2] = s_pos_y
      BY <3>1
    <3> QED BY <3>2 DEF LineInv, PenTouchesInk
  <2>2. CASE Sweep
    BY <2>2 DEF Sweep
  <2>3. CASE Edge /\ (StartSweep \/ HeldInReset)
    BY <2>3, PictureHolds DEF LineInv, Edge, StartSweep, HeldInReset
  <2>4. CASE PressKey \/ LoseLock
    BY <2>4 DEF PressKey, LoseLock
  <2>5. CASE ReleaseKey \/ Lock \/ Button
    <3>1. UNCHANGED <<portVars, ram>>
      BY <2>5 DEF ReleaseKey, Lock, Button
    <3> QED BY <3>1, PictureHolds DEF LineInv
  <2> QED BY <2>1, <2>2, <2>3, <2>4, <2>5 DEF Next, Clock
<1> QED BY <1>1, <1>2, LineStep, PTL DEF Spec, StrokeHasNoGaps
============================================================================
