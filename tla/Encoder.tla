------------------------------ MODULE Encoder ------------------------------
(***************************************************************************)
(* A rotary encoder and its decoder (hdmi/telecran/gestion_encodeur.vhd).  *)
(*                                                                         *)
(* The decoder is one clocked process: a debounce counter enables a tick   *)
(* every C_DEBOUNCE_LIMIT + 1 clocks; on a tick it samples both channels   *)
(* and, from the two samples taken BEFORE, steps the position.             *)
(*                                                                         *)
(* The environment is the shaft, an integer angle in quarter periods.      *)
(* Contact bounce is a shaft that moves back and forth.                    *)
(***************************************************************************)
EXTENDS Integers

CONSTANTS
    C_MAX_VAL,         \* the position is in 0..C_MAX_VAL-1
    C_START_POS,
    C_DEBOUNCE_LIMIT,
    MaxMoves,          \* bound: quarter periods the shaft moves in all
    MaxResets          \* bound: resets

ASSUME EncoderAssumption ==
    /\ C_MAX_VAL \in Nat /\ C_START_POS \in Nat /\ C_START_POS < C_MAX_VAL
    /\ C_DEBOUNCE_LIMIT \in Nat
    /\ MaxMoves \in Nat /\ MaxResets \in Nat

VARIABLES
    r_debounce_cnt, r_tick_enable, r_counter,
    r_a_curr, r_a_prev, r_b_curr, r_b_prev,
    \* the environment
    shaft, moves, resets,
    \* history: the angles the samples were taken at, the even angle left last,
    \* the half turns that were abandoned, the steps that met an end of the
    \* range, and whether the shaft moved two quarters between two samples
    currAngle, prevAngle, origin, drift, lost, slipped

timerVars == <<r_debounce_cnt, r_tick_enable>>
sampleVars == <<r_a_curr, r_a_prev, r_b_curr, r_b_prev>>
shaftVars == <<shaft, moves, resets>>
historyVars == <<currAngle, prevAngle, origin, drift, lost, slipped>>
vars == <<timerVars, r_counter, sampleVars, shaftVars, historyVars>>

Bit == {0, 1}

\* The channels at an angle: turning right runs 00, 10, 11, 01.
ChannelA(angle) == IF angle % 4 \in {1, 2} THEN 1 ELSE 0
ChannelB(angle) == IF angle % 4 \in {2, 3} THEN 1 ELSE 0

\* After a reset the samples read 00: the same angle, counted from there.
FromRest(angle) == {a \in -1..2 : (a - angle) % 4 = 0}

TypeOK ==
    /\ r_debounce_cnt \in 0..C_DEBOUNCE_LIMIT
    /\ r_tick_enable \in Bit
    /\ r_counter \in 0..C_MAX_VAL - 1
    /\ {r_a_curr, r_a_prev, r_b_curr, r_b_prev} \subseteq Bit
    /\ {shaft, currAngle, prevAngle, origin, drift, lost} \subseteq Int
    /\ moves \in 0..MaxMoves /\ resets \in 0..MaxResets
    /\ slipped \in BOOLEAN

DecoderReset ==
    /\ r_debounce_cnt' = 0 /\ r_tick_enable' = 0
    /\ r_counter' = C_START_POS
    /\ r_a_curr' = 0 /\ r_a_prev' = 0 /\ r_b_curr' = 0 /\ r_b_prev' = 0

HistoryReset ==
    /\ currAngle' = 0 /\ prevAngle' = 0 /\ origin' = 0
    /\ drift' = 0 /\ lost' = 0 /\ slipped' = FALSE

\* The shaft is anywhere at power-up.
Init ==
    /\ r_debounce_cnt = 0 /\ r_tick_enable = 0
    /\ r_counter = C_START_POS
    /\ r_a_curr = 0 /\ r_a_prev = 0 /\ r_b_curr = 0 /\ r_b_prev = 0
    /\ shaft \in -1..2
    /\ moves = 0 /\ resets = 0
    /\ currAngle = 0 /\ prevAngle = 0 /\ origin = 0
    /\ drift = 0 /\ lost = 0 /\ slipped = FALSE
----------------------------------------------------------------------------
Timer ==
    IF r_debounce_cnt = C_DEBOUNCE_LIMIT
    THEN r_debounce_cnt' = 0 /\ r_tick_enable' = 1
    ELSE r_debounce_cnt' = r_debounce_cnt + 1 /\ r_tick_enable' = 0

Sample ==
    /\ r_a_curr' = ChannelA(shaft) /\ r_a_prev' = r_a_curr
    /\ r_b_curr' = ChannelB(shaft) /\ r_b_prev' = r_b_curr

RoseA == r_a_curr = 1 /\ r_a_prev = 0
FellA == r_a_curr = 0 /\ r_a_prev = 1
RoseB == r_b_curr = 1 /\ r_b_prev = 0
FellB == r_b_curr = 0 /\ r_b_prev = 1

\* A faulty variant of CountsUp: the level of channel A, not its edge.
CountsUp_OnLevel == (r_a_curr = 1 /\ r_b_curr = 0) \/ (FellA /\ r_b_curr = 1)

CountsUp   == (RoseA /\ r_b_curr = 0) \/ (FellA /\ r_b_curr = 1)
CountsDown == (RoseB /\ r_a_curr = 0) \/ (FellB /\ r_a_curr = 1)

(* Faulty variants of Decode, for the runs to tell apart from it.          *)

\* A wrap-around instead of the end stop.
Decode_Wraps ==
    r_counter' =
        CASE CountsUp -> (r_counter + 1) % C_MAX_VAL
          [] ~CountsUp /\ CountsDown -> (r_counter - 1) % C_MAX_VAL
          [] OTHER -> r_counter

\* No end stop at all.
Decode_Unbounded ==
    r_counter' =
        CASE CountsUp -> r_counter + 1
          [] ~CountsUp /\ CountsDown -> r_counter - 1
          [] OTHER -> r_counter

\* One comparison too many: every edge of channel A counts up or down.
Decode_EveryEdge ==
    r_counter' =
        CASE CountsUp /\ r_counter < C_MAX_VAL - 1 -> r_counter + 1
          [] ~CountsUp /\ (CountsDown \/ FellA) /\ r_counter > 0 -> r_counter - 1
          [] OTHER -> r_counter

\* The position stops at both ends of its range.
Decode ==
    r_counter' =
        CASE CountsUp /\ r_counter < C_MAX_VAL - 1 -> r_counter + 1
          [] ~CountsUp /\ CountsDown /\ r_counter > 0 -> r_counter - 1
          [] OTHER -> r_counter

\* History.  A half turn starts by leaving an even angle and is abandoned when
\* the shaft turns back at the odd angle in its middle.
Started == IF prevAngle % 2 = 0 THEN currAngle - prevAngle ELSE 0
Abandoned ==
    IF prevAngle % 2 = 1 /\ currAngle = origin THEN prevAngle - origin ELSE 0
AtTheEnd ==
    \/ Started = 1 /\ r_counter = C_MAX_VAL - 1
    \/ Started = -1 /\ r_counter = 0

Record ==
    /\ currAngle' = shaft
    /\ prevAngle' = currAngle
    /\ origin' = IF Started # 0 THEN prevAngle ELSE origin
    /\ drift' = drift + Abandoned
    /\ lost' = IF AtTheEnd THEN lost + Started ELSE lost
    /\ slipped' = (slipped \/ shaft - currAngle \notin -1..1)

\* One clock edge.
Clock ==
    /\ Timer
    /\ IF r_tick_enable = 1
       THEN Sample /\ Decode /\ Record
       ELSE UNCHANGED <<sampleVars, r_counter, historyVars>>
    /\ UNCHANGED shaftVars

Reset ==
    /\ resets < MaxResets
    /\ resets' = resets + 1
    /\ DecoderReset /\ HistoryReset
    /\ shaft' \in FromRest(shaft)
    /\ UNCHANGED moves

\* The hand, or a contact that bounces; not tied to the clock.
Move ==
    /\ moves < MaxMoves
    /\ moves' = moves + 1
    /\ shaft' \in {shaft - 1, shaft + 1}
    /\ UNCHANGED <<timerVars, r_counter, sampleVars, resets, historyVars>>

Next == Clock \/ Reset \/ Move

Spec == Init /\ [][Next]_vars
----------------------------------------------------------------------------
\* The position is the angle of the shaft in half turns.  It is off by the
\* steps lost at the ends and by ONE FOR EVERY ABANDONED HALF TURN: an edge is
\* counted when a half turn starts and nothing is taken back when it does not
\* end, so a knob that is rocked in place walks the cursor away.
TracksShaft ==
    LET counted == 2 * (r_counter - C_START_POS - drift + lost)
    IN  \/ slipped
        \/ prevAngle % 2 = 0 /\ counted = prevAngle
        \/ prevAngle % 2 = 1 /\ counted = prevAngle + (prevAngle - origin)

\* The position moves only if the shaft did: two samples in a row that read
\* the same never count, however they were bounced in between.
StillShaftStillCursor ==
    [][r_counter' # r_counter /\ resets' = resets
          => prevAngle # currAngle]_vars

\* What the drawing process relies on: a cursor that moves by one cell, at
\* most once in every debounce period, and never leaves its range.
Cursor == INSTANCE CursorPosition WITH
    MAX <- C_MAX_VAL, START <- C_START_POS, PERIOD <- C_DEBOUNCE_LIMIT + 1,
    pos <- r_counter,
    wait <- IF r_tick_enable = 1 THEN 0 ELSE C_DEBOUNCE_LIMIT + 1 - r_debounce_cnt

CursorSpec == Cursor!Spec
============================================================================
