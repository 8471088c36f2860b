---------------------------- MODULE VideoTiming ----------------------------
(***************************************************************************)
(* The counters and synchronisation signals of the video controller        *)
(* (hdmi/telecran/hdmi_controler.vhd).                                     *)
(***************************************************************************)
EXTENDS Integers

CONSTANTS
    H_RES, H_FP, H_PW, H_BP,    \* pixels: active, front porch, pulse, back porch
    V_RES, V_FP, V_PW, V_BP     \* lines

ASSUME TimingAssumption ==
    {H_RES, H_FP, H_PW, H_BP, V_RES, V_FP, V_PW, V_BP} \subseteq Nat \ {0}

VARIABLES h_cnt, v_cnt

timingVars == <<h_cnt, v_cnt>>

Bit == {0, 1}
H_TOTAL == H_RES + H_FP + H_PW + H_BP
V_TOTAL == V_RES + V_FP + V_PW + V_BP

TimingTypeOK == h_cnt \in 0..H_TOTAL - 1 /\ v_cnt \in 0..V_TOTAL - 1

TimingInit == h_cnt = 0 /\ v_cnt = 0

\* The pins are functions of the counters.
Low(condition) == IF condition THEN 0 ELSE 1

o_hdmi_tx_hs == Low(h_cnt >= H_RES + H_FP /\ h_cnt < H_RES + H_FP + H_PW)
o_hdmi_tx_vs == Low(v_cnt >= V_RES + V_FP /\ v_cnt < V_RES + V_FP + V_PW)

\* A faulty variant of o_hdmi_tx_de: one line too many.
o_hdmi_tx_de_ExtraLine == 1 - Low(h_cnt < H_RES /\ v_cnt <= V_RES)

o_hdmi_tx_de == 1 - Low(h_cnt < H_RES /\ v_cnt < V_RES)

\* A faulty variant of Count: the line counter steps where the pixels end.
Count_StepsEarly ==
    /\ h_cnt' = (h_cnt + 1) % H_TOTAL
    /\ v_cnt' = IF h_cnt = H_RES - 1 THEN (v_cnt + 1) % V_TOTAL ELSE v_cnt

Count ==
    IF h_cnt = H_TOTAL - 1
    THEN /\ h_cnt' = 0
         /\ v_cnt' = IF v_cnt = V_TOTAL - 1 THEN 0 ELSE v_cnt + 1
    ELSE h_cnt' = h_cnt + 1 /\ UNCHANGED v_cnt

\* The reset is synchronous: it may cut a frame at any pixel.
SyncReset == h_cnt' = 0 /\ v_cnt' = 0

TimingNext == Count \/ SyncReset

TimingSpec == TimingInit /\ [][TimingNext]_timingVars
----------------------------------------------------------------------------
\* The monitor's view, read off the pins; the counters only tell one porch
\* from the other and how much of a phase is left.
HPhase ==
    CASE o_hdmi_tx_hs = 0 -> "pulse"
      [] o_hdmi_tx_hs = 1 /\ h_cnt < H_RES -> "active"
      [] o_hdmi_tx_hs = 1 /\ h_cnt >= H_RES /\ h_cnt < H_RES + H_FP + H_PW -> "front"
      [] OTHER -> "back"

VPhase ==
    CASE o_hdmi_tx_vs = 0 -> "pulse"
      [] o_hdmi_tx_vs = 1 /\ v_cnt < V_RES -> "active"
      [] o_hdmi_tx_vs = 1 /\ v_cnt >= V_RES /\ v_cnt < V_RES + V_FP + V_PW -> "front"
      [] OTHER -> "back"

HEnd == [active |-> H_RES, front |-> H_RES + H_FP, pulse |-> H_RES + H_FP + H_PW,
         back |-> H_TOTAL]
VEnd == [active |-> V_RES, front |-> V_RES + V_FP, pulse |-> V_RES + V_FP + V_PW,
         back |-> V_TOTAL]

Monitor == INSTANCE Raster WITH
    HLength <- [active |-> H_RES, front |-> H_FP, pulse |-> H_PW, back |-> H_BP],
    VLength <- [active |-> V_RES, front |-> V_FP, pulse |-> V_PW, back |-> V_BP],
    hPhase <- HPhase, hLeft <- HEnd[HPhase] - h_cnt,
    vPhase <- VPhase, vLeft <- VEnd[VPhase] - v_cnt,
    enable <- o_hdmi_tx_de

\* Unless the reset cuts it short, every line and every frame has its phases in
\* order and to the pixel, lines and frames are in step, and the data enable is
\* up in exactly the pixels where both are active.
RasterSpec == Monitor!Spec
============================================================================
