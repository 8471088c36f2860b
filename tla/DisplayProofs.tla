--------------------------- MODULE DisplayProofs ---------------------------
(***************************************************************************)
(* Proofs about VideoTiming and Display, for every resolution and timing.  *)
(***************************************************************************)
EXTENDS Display, TLAPS

----------------------------------------------------------------------------
(* The counters implement the monitor's raster.                            *)

LEMMA TimingsArePositive ==
    /\ H_RES \in Nat /\ H_FP \in Nat /\ H_PW \in Nat /\ H_BP \in Nat
    /\ V_RES \in Nat /\ V_FP \in Nat /\ V_PW \in Nat /\ V_BP \in Nat
    /\ H_RES > 0 /\ H_FP > 0 /\ H_PW > 0 /\ H_BP > 0
    /\ V_RES > 0 /\ V_FP > 0 /\ V_PW > 0 /\ V_BP > 0
  BY TimingAssumption

LEMMA TimingTypeStep == TimingTypeOK /\ [TimingNext]_timingVars => TimingTypeOK'
  BY TimingsArePositive
     DEF TimingTypeOK, TimingNext, Count, SyncReset, timingVars, H_TOTAL, V_TOTAL

LEMMA TimingTypeInit == TimingInit => TimingTypeOK
  BY TimingsArePositive DEF TimingTypeOK, TimingInit, H_TOTAL, V_TOTAL

\* The phase and what is left of it, as functions of the counters.
LEMMA HPhaseCases ==
    ASSUME h_cnt \in 0..H_TOTAL - 1
    PROVE  /\ h_cnt < H_RES => HPhase = "active"
           /\ h_cnt >= H_RES /\ h_cnt < H_RES + H_FP => HPhase = "front"
           /\ h_cnt >= H_RES + H_FP /\ h_cnt < H_RES + H_FP + H_PW => HPhase = "pulse"
           /\ h_cnt >= H_RES + H_FP + H_PW => HPhase = "back"
  BY TimingsArePositive DEF HPhase, o_hdmi_tx_hs, Low, H_TOTAL

LEMMA VPhaseCases ==
    ASSUME v_cnt \in 0..V_TOTAL - 1
    PROVE  /\ v_cnt < V_RES => VPhase = "active"
           /\ v_cnt >= V_RES /\ v_cnt < V_RES + V_FP => VPhase = "front"
           /\ v_cnt >= V_RES + V_FP /\ v_cnt < V_RES + V_FP + V_PW => VPhase = "pulse"
           /\ v_cnt >= V_RES + V_FP + V_PW => VPhase = "back"
  BY TimingsArePositive DEF VPhase, o_hdmi_tx_vs, Low, V_TOTAL

LEMMA EndsOfPhases ==
    /\ HEnd["active"] = H_RES /\ HEnd["front"] = H_RES + H_FP
    /\ HEnd["pulse"] = H_RES + H_FP + H_PW /\ HEnd["back"] = H_TOTAL
    /\ VEnd["active"] = V_RES /\ VEnd["front"] = V_RES + V_FP
    /\ VEnd["pulse"] = V_RES + V_FP + V_PW /\ VEnd["back"] = V_TOTAL
  BY DEF HEnd, VEnd

\* One step of the pixel counter is one tick of the line axis.
LEMMA LineTicks ==
    ASSUME TimingTypeOK, TimingTypeOK',
           h_cnt' = IF h_cnt = H_TOTAL - 1 THEN 0 ELSE h_cnt + 1
    PROVE  Monitor!H!Tick /\ (Monitor!H!AtEnd <=> h_cnt = H_TOTAL - 1)
<1> USE TimingsArePositive
<1>0. h_cnt \in 0..H_TOTAL - 1 /\ h_cnt' \in 0..H_TOTAL - 1
  BY DEF TimingTypeOK
<1>1. /\ h_cnt' < H_RES => HPhase' = "active"
      /\ h_cnt' >= H_RES /\ h_cnt' < H_RES + H_FP => HPhase' = "front"
      /\ h_cnt' >= H_RES + H_FP /\ h_cnt' < H_RES + H_FP + H_PW => HPhase' = "pulse"
      /\ h_cnt' >= H_RES + H_FP + H_PW => HPhase' = "back"
  BY <1>0 DEF HPhase, o_hdmi_tx_hs, Low, H_TOTAL
<1>2. CASE h_cnt < H_RES
  BY <1>0, <1>1, <1>2, HPhaseCases, EndsOfPhases
     DEF Monitor!H!Tick, Monitor!H!AtEnd, Monitor!H!After, H_TOTAL, HEnd
<1>3. CASE h_cnt >= H_RES /\ h_cnt < H_RES + H_FP
  BY <1>0, <1>1, <1>3, HPhaseCases, EndsOfPhases
     DEF Monitor!H!Tick, Monitor!H!AtEnd, Monitor!H!After, H_TOTAL, HEnd
<1>4. CASE h_cnt >= H_RES + H_FP /\ h_cnt < H_RES + H_FP + H_PW
  BY <1>0, <1>1, <1>4, HPhaseCases, EndsOfPhases
     DEF Monitor!H!Tick, Monitor!H!AtEnd, Monitor!H!After, H_TOTAL, HEnd
<1>5. CASE h_cnt >= H_RES + H_FP + H_PW
  BY <1>0, <1>1, <1>5, HPhaseCases, EndsOfPhases
     DEF Monitor!H!Tick, Monitor!H!AtEnd, Monitor!H!After, H_TOTAL, HEnd
<1> QED BY <1>0, <1>2, <1>3, <1>4, <1>5 DEF H_TOTAL

\* One step of the line counter is one tick of the frame axis.
LEMMA FrameTicks ==
    ASSUME TimingTypeOK, TimingTypeOK',
           v_cnt' = IF v_cnt = V_TOTAL - 1 THEN 0 ELSE v_cnt + 1
    PROVE  Monitor!V!Tick
<1> USE TimingsArePositive
<1>0. v_cnt \in 0..V_TOTAL - 1 /\ v_cnt' \in 0..V_TOTAL - 1
  BY DEF TimingTypeOK
<1>1. /\ v_cnt' < V_RES => VPhase' = "active"
      /\ v_cnt' >= V_RES /\ v_cnt' < V_RES + V_FP => VPhase' = "front"
      /\ v_cnt' >= V_RES + V_FP /\ v_cnt' < V_RES + V_FP + V_PW => VPhase' = "pulse"
      /\ v_cnt' >= V_RES + V_FP + V_PW => VPhase' = "back"
  BY <1>0 DEF VPhase, o_hdmi_tx_vs, Low, V_TOTAL
<1>2. CASE v_cnt < V_RES
  BY <1>0, <1>1, <1>2, VPhaseCases, EndsOfPhases
     DEF Monitor!V!Tick, Monitor!V!After, V_TOTAL, VEnd
<1>3. CASE v_cnt >= V_RES /\ v_cnt < V_RES + V_FP
  BY <1>0, <1>1, <1>3, VPhaseCases, EndsOfPhases
     DEF Monitor!V!Tick, Monitor!V!After, V_TOTAL, VEnd
<1>4. CASE v_cnt >= V_RES + V_FP /\ v_cnt < V_RES + V_FP + V_PW
  BY <1>0, <1>1, <1>4, VPhaseCases, EndsOfPhases
     DEF Monitor!V!Tick, Monitor!V!After, V_TOTAL, VEnd
<1>5. CASE v_cnt >= V_RES + V_FP + V_PW
  BY <1>0, <1>1, <1>5, VPhaseCases, EndsOfPhases
     DEF Monitor!V!Tick, Monitor!V!After, V_TOTAL, VEnd
<1> QED BY <1>0, <1>2, <1>3, <1>4, <1>5 DEF V_TOTAL

\* The data enable follows the phases.
LEMMA EnableFollowsPhases == TimingTypeOK => Monitor!EnableIsActive
<1> SUFFICES ASSUME TimingTypeOK
             PROVE  o_hdmi_tx_de = 1 <=> HPhase = "active" /\ VPhase = "active"
  BY DEF Monitor!EnableIsActive
<1> USE TimingsArePositive
<1>0. h_cnt \in 0..H_TOTAL - 1 /\ v_cnt \in 0..V_TOTAL - 1
  BY DEF TimingTypeOK
<1>1. HPhase = "active" <=> h_cnt < H_RES
  BY <1>0 DEF HPhase, o_hdmi_tx_hs, Low, H_TOTAL
<1>2. VPhase = "active" <=> v_cnt < V_RES
  BY <1>0 DEF VPhase, o_hdmi_tx_vs, Low, V_TOTAL
<1> QED BY <1>1, <1>2 DEF o_hdmi_tx_de, Low

LEMMA AtTheCorner == TimingInit => Monitor!H!AtStart /\ Monitor!V!AtStart
<1> SUFFICES ASSUME TimingInit PROVE Monitor!H!AtStart /\ Monitor!V!AtStart
  OBVIOUS
<1>1. h_cnt \in 0..H_TOTAL - 1 /\ v_cnt \in 0..V_TOTAL - 1 /\ h_cnt = 0 /\ v_cnt = 0
  BY TimingTypeInit DEF TimingInit, TimingTypeOK
<1>2. HPhase = "active" /\ VPhase = "active"
  BY <1>1, HPhaseCases, VPhaseCases, TimingsArePositive
<1>3. HEnd[HPhase] - h_cnt = H_RES /\ VEnd[VPhase] - v_cnt = V_RES
  BY <1>1, <1>2, EndsOfPhases, TimingsArePositive
<1> QED BY <1>2, <1>3 DEF Monitor!H!AtStart, Monitor!V!AtStart

LEMMA RasterStep ==
    ASSUME TimingTypeOK, [TimingNext]_timingVars
    PROVE  [Monitor!Next]_<<HPhase, HEnd[HPhase] - h_cnt, VPhase, VEnd[VPhase] - v_cnt,
                            o_hdmi_tx_de>>
<1>1. TimingTypeOK'
  BY TimingTypeStep
<1>2. Monitor!EnableIsActive'
  BY <1>1, EnableFollowsPhases, PTL
<1>3. CASE Count
  <2>1. Monitor!H!Tick /\ (Monitor!H!AtEnd <=> h_cnt = H_TOTAL - 1)
    BY <1>1, <1>3, LineTicks DEF Count
  <2>2. h_cnt = H_TOTAL - 1 => Monitor!V!Tick
    BY <1>1, <1>3, FrameTicks DEF Count
  <2>3. h_cnt # H_TOTAL - 1 => UNCHANGED <<VPhase, VEnd[VPhase] - v_cnt>>
    BY <1>3 DEF Count, VPhase, o_hdmi_tx_vs, VEnd
  <2> QED BY <1>2, <2>1, <2>2, <2>3 DEF Monitor!Next, Monitor!PixelClock
<1>4. CASE SyncReset
  <2>1. TimingInit'
    BY <1>4 DEF SyncReset, TimingInit
  <2>2. Monitor!H!AtStart' /\ Monitor!V!AtStart'
    BY <2>1, AtTheCorner, PTL
  <2> QED BY <1>2, <2>2 DEF Monitor!Next, Monitor!StartOver
<1>5. CASE UNCHANGED timingVars
  BY <1>5 DEF timingVars, HPhase, VPhase, o_hdmi_tx_hs, o_hdmi_tx_vs, o_hdmi_tx_de, HEnd, VEnd
<1> QED BY <1>3, <1>4, <1>5 DEF TimingNext

\* Every line and frame of hdmi_controler.vhd is a line and a frame of the
\* monitor's raster, whatever the generics.
THEOREM TimingImplementsRaster == TimingSpec => RasterSpec
<1>1. TimingInit => TimingTypeOK /\ Monitor!Init
  BY TimingTypeInit, EnableFollowsPhases, AtTheCorner DEF Monitor!Init
<1>2. TimingTypeOK /\ [TimingNext]_timingVars => TimingTypeOK'
  BY TimingTypeStep
<1>3. TimingTypeOK /\ [TimingNext]_timingVars
         => [Monitor!Next]_<<HPhase, HEnd[HPhase] - h_cnt, VPhase, VEnd[VPhase] - v_cnt,
                             o_hdmi_tx_de>>
  BY RasterStep
<1> QED BY <1>1, <1>2, <1>3, PTL DEF TimingSpec, RasterSpec, Monitor!Spec

----------------------------------------------------------------------------
(* The pixels.                                                             *)

\* What was read one clock ago, and what is on the pins, follow the counters.
ReadIsLate ==
    /\ h_cnt >= 1 => read.address = Address(h_cnt - 1, v_cnt)
    /\ h_cnt = 0 /\ v_cnt > 0 => read.address = Address(H_TOTAL - 1, v_cnt - 1)
    /\ read.bit = s_pixel_data

ShownIsLater ==
    /\ h_cnt >= 2 => shown.address = Address(h_cnt - 2, v_cnt)
    /\ h_cnt = 1 /\ v_cnt > 0 => shown.address = Address(H_TOTAL - 1, v_cnt - 1)
    /\ h_cnt = 0 /\ v_cnt > 0 => shown.blank

PinsAreLate ==
    h_cnt >= 1 /\ o_hdmi_tx_de = 1 =>
        o_hdmi_tx_d = IF InCursor(h_cnt - 1, v_cnt, shown.corner)
                      THEN "x000000" ELSE Paint(shown.bit)

LateInv == TimingTypeOK /\ ReadIsLate /\ ShownIsLater /\ PinsAreLate

LEMMA LateInit == Init => LateInv
<1> SUFFICES ASSUME Init PROVE LateInv
  OBVIOUS
<1>1. h_cnt = 0 /\ v_cnt = 0 /\ TimingTypeOK
  BY TimingTypeInit DEF Init, TimingInit
<1>2. read.bit = s_pixel_data
  BY DEF Init
<1> QED BY <1>1, <1>2 DEF LateInv, ReadIsLate, ShownIsLater, PinsAreLate

\* The enable is a function of the counters.
LEMMA EnableCases ==
    ASSUME TimingTypeOK
    PROVE  /\ o_hdmi_tx_de \in Bit
           /\ o_hdmi_tx_de = 1 <=> h_cnt < H_RES /\ v_cnt < V_RES
  BY DEF o_hdmi_tx_de, Low, Bit

LEMMA LateStep == LateInv /\ [Next]_vars => LateInv'
<1> SUFFICES ASSUME LateInv, [Next]_vars PROVE LateInv'
  OBVIOUS
<1> USE TimingsArePositive
<1>1. CASE PixelClock /\ Count
  <2>0. TimingTypeOK /\ TimingTypeOK'
    BY <1>1, TimingTypeStep DEF LateInv, TimingNext
  <2>1. /\ read'.address = Address(h_cnt, v_cnt) /\ read'.bit = s_pixel_data'
        /\ shown'.address = read.address /\ shown'.bit = read.bit
        /\ shown'.corner = Corner /\ shown'.blank = (o_hdmi_tx_de = 0)
        /\ o_hdmi_tx_d' = PixelColour
    BY <1>1 DEF PixelClock, Read, Show
  <2>2. h_cnt \in Nat /\ v_cnt \in Nat /\ h_cnt' \in Nat /\ v_cnt' \in Nat
    BY <2>0 DEF TimingTypeOK, H_TOTAL, V_TOTAL
  <2>3. /\ h_cnt' = 0 /\ v_cnt' > 0 => v_cnt' = v_cnt + 1
        /\ h_cnt' # 0 => h_cnt' = h_cnt + 1
        /\ h_cnt' # 0 => v_cnt' = v_cnt
        /\ h_cnt' = 0 => h_cnt = H_TOTAL - 1
    BY <1>1, <2>2 DEF Count
  <2>4. ASSUME h_cnt' >= 1
        PROVE  /\ h_cnt' = h_cnt + 1 /\ v_cnt' = v_cnt
               /\ h_cnt' - 1 = h_cnt /\ h_cnt' - 2 = h_cnt - 1
    <3>1. h_cnt' # 0
      BY <2>2, <2>4
    <3>2. h_cnt' = h_cnt + 1
      BY <2>2, <2>3, <3>1
    <3>3. v_cnt' = v_cnt
      BY <2>2, <2>3, <3>1
    <3> QED BY <2>2, <3>2, <3>3
  <2>5. ASSUME h_cnt' = 0, v_cnt' > 0 PROVE h_cnt = H_TOTAL - 1 /\ v_cnt' - 1 = v_cnt
    <3>1. v_cnt' = v_cnt + 1
      BY <2>5, <2>3
    <3> QED BY <2>2, <2>5, <2>3, <3>1
  <2>6. ReadIsLate'
    <3>1. h_cnt' >= 1 => read'.address = Address(h_cnt' - 1, v_cnt')
      BY <2>1, <2>2, <2>4
    <3>2. h_cnt' = 0 /\ v_cnt' > 0 => read'.address = Address(H_TOTAL - 1, v_cnt' - 1)
      BY <2>1, <2>5
    <3> QED BY <2>1, <3>1, <3>2 DEF ReadIsLate, Address, H_TOTAL
  <2>7. ShownIsLater'
    <3>1. ASSUME h_cnt' = 0, v_cnt' > 0 PROVE shown'.blank
      <4>1. ~(h_cnt < H_RES)
        BY <2>5, <3>1 DEF H_TOTAL
      <4>2. o_hdmi_tx_de = 0
        BY <2>0, <4>1, EnableCases DEF Bit
      <4> QED BY <2>1, <4>2
    <3>2. ASSUME h_cnt' >= 2 PROVE shown'.address = Address(h_cnt' - 2, v_cnt')
      <4>1. h_cnt' >= 1
        BY <2>2, <3>2
      <4>2. /\ h_cnt' = h_cnt + 1 /\ v_cnt' = v_cnt
            /\ h_cnt' - 2 = h_cnt - 1
        BY <2>4, <4>1
      <4>3. h_cnt >= 1
        BY <2>2, <3>2, <4>2
      <4> QED BY <2>1, <4>2, <4>3 DEF LateInv, ReadIsLate
    <3>3. ASSUME h_cnt' = 1, v_cnt' > 0
          PROVE  shown'.address = Address(H_TOTAL - 1, v_cnt' - 1)
      <4>1. h_cnt' >= 1
        BY <3>3
      <4>2. h_cnt' = h_cnt + 1 /\ v_cnt' = v_cnt
        BY <2>4, <4>1
      <4>3. h_cnt = 0 /\ v_cnt' = v_cnt
        BY <2>2, <3>3, <4>2
      <4> QED BY <2>1, <3>3, <4>3 DEF LateInv, ReadIsLate
    <3> QED BY <3>1, <3>2, <3>3 DEF ShownIsLater, Address, H_TOTAL
  <2>8. PinsAreLate'
    <3> SUFFICES ASSUME h_cnt' >= 1, o_hdmi_tx_de' = 1
                 PROVE  o_hdmi_tx_d' = IF InCursor(h_cnt' - 1, v_cnt', shown'.corner)
                                       THEN "x000000" ELSE Paint(shown'.bit)
      BY DEF PinsAreLate, InCursor, Paint
    <3>1. h_cnt' < H_RES /\ v_cnt' < V_RES
      BY DEF o_hdmi_tx_de, Low
    <3>2. h_cnt' = h_cnt + 1 /\ h_cnt' - 1 = h_cnt /\ v_cnt' = v_cnt
      BY <2>4
    <3>3. h_cnt < H_RES /\ v_cnt < V_RES
      BY <2>2, <3>2, <3>1
    <3>4. o_hdmi_tx_de = 1
      BY <2>0, <3>3, EnableCases
    <3>5. o_hdmi_tx_d' = IF InCursor(h_cnt, v_cnt, Corner)
                         THEN "x000000" ELSE Paint(s_pixel_data)
      BY <2>1, <3>4 DEF PixelColour
    <3> QED BY <2>1, <3>2, <3>5 DEF LateInv, ReadIsLate
  <2> QED BY <2>0, <2>6, <2>7, <2>8 DEF LateInv
<1>2. CASE PixelClock /\ SyncReset
  <2>1. TimingTypeOK' /\ h_cnt' = 0 /\ v_cnt' = 0
    BY <1>2, TimingTypeStep DEF LateInv, TimingNext, SyncReset
  <2>2. read'.bit = s_pixel_data'
    BY <1>2 DEF PixelClock, Read
  <2> QED BY <2>1, <2>2 DEF LateInv, ReadIsLate, ShownIsLater, PinsAreLate
<1>3. CASE WriteCell \/ MoveCursor \/ UNCHANGED vars
  <2>1. UNCHANGED <<timingVars, pixelVars>>
    BY <1>3 DEF WriteCell, MoveCursor, vars
  <2> QED BY <2>1 DEF timingVars, pixelVars, LateInv, TimingTypeOK, ReadIsLate,
             ShownIsLater, PinsAreLate, o_hdmi_tx_de
<1> QED BY <1>1, <1>2, <1>3 DEF Next, PixelClock, TimingNext

LEMMA LateInvariant == Spec => []LateInv
<1> QED BY LateInit, LateStep, PTL DEF Spec

\* Every pixel is the memory's cell two columns to its left, or the cursor
\* one column to its left, at every resolution.
THEOREM DisplayPixelsAreLate == Spec => []PixelsAreLate
<1>1. LateInv => PixelsAreLate
  <2> SUFFICES ASSUME LateInv, o_hdmi_tx_de = 1, h_cnt >= 2
               PROVE  /\ shown.address = Address(h_cnt - 2, v_cnt)
                      /\ o_hdmi_tx_d = IF InCursor(h_cnt - 1, v_cnt, shown.corner)
                                       THEN "x000000" ELSE Paint(shown.bit)
    BY DEF PixelsAreLate
  <2>1. h_cnt >= 1
    BY DEF LateInv, TimingTypeOK
  <2> QED BY <2>1 DEF LateInv, ShownIsLater, PinsAreLate
<1> QED BY <1>1, LateInvariant, PTL

\* An address whose column runs on by at most one row stays in the memory.
LEMMA AddressInMemory ==
    ASSUME NEW x \in Nat, NEW y \in Nat, y < V_RES, x < H_RES
    PROVE  Address(x, y) \in Cells
<1> USE TimingsArePositive
<1>1. y * H_RES \in Nat /\ H_RES * V_RES \in Nat
  OBVIOUS
<1>2. (V_RES - 1 - y) * H_RES >= 0
  OBVIOUS
<1>3. (V_RES - 1 - y) * H_RES = H_RES * V_RES - H_RES - y * H_RES
  OBVIOUS
<1> QED BY <1>1, <1>2, <1>3 DEF Address, Cells

\* What is read in the blanking comes out in the second pixel of a line, and
\* what is read past the end of the memory at the start of a frame only.
THEOREM DisplayStrayReads == Spec => []StrayReads
<1>1. LateInv => StrayReads
  <2> SUFFICES ASSUME LateInv, o_hdmi_tx_de = 1, ~shown.blank
               PROVE  /\ shown.address \notin Cells => v_cnt = 0 /\ h_cnt <= 1
                      /\ h_cnt = 1 /\ v_cnt > 0
                            => shown.address = Address(H_TOTAL - 1, v_cnt - 1)
    BY DEF StrayReads
  <2> USE TimingsArePositive
  <2>1. h_cnt \in Nat /\ v_cnt \in Nat /\ h_cnt < H_RES /\ v_cnt < V_RES
    BY EnableCases DEF LateInv, TimingTypeOK, H_TOTAL, V_TOTAL
  <2>2. CASE h_cnt >= 2
    <3>1. shown.address = Address(h_cnt - 2, v_cnt)
      BY <2>2 DEF LateInv, ShownIsLater
    <3>2. Address(h_cnt - 2, v_cnt) \in Cells
      BY <2>1, <2>2, AddressInMemory
    <3> QED BY <2>2, <3>1, <3>2
  <2>3. CASE h_cnt = 1 /\ v_cnt > 0
    <3>1. shown.address = Address(H_TOTAL - 1, v_cnt - 1)
      BY <2>3 DEF LateInv, ShownIsLater
    <3>2. Address(H_TOTAL - 1, v_cnt - 1) = Address(H_TOTAL - 1 - H_RES, v_cnt)
      BY <2>1 DEF Address, H_TOTAL
    <3>3. H_TOTAL - 1 - H_RES \in Nat /\ H_TOTAL - 1 - H_RES < H_RES
      BY BlankingAssumption DEF H_TOTAL
    <3>4. Address(H_TOTAL - 1 - H_RES, v_cnt) \in Cells
      BY <2>1, <3>3, AddressInMemory
    <3> QED BY <3>1, <3>2, <3>4
  <2>4. CASE h_cnt = 0 /\ v_cnt > 0
    BY <2>4 DEF LateInv, ShownIsLater
  <2>5. CASE v_cnt = 0 /\ h_cnt <= 1
    BY <2>5
  <2> QED BY <2>1, <2>2, <2>3, <2>4, <2>5
<1> QED BY <1>1, LateInvariant, PTL
============================================================================
