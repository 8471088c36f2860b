--------------------------- MODULE EncoderProofs ---------------------------
(***************************************************************************)
(* Proofs about Encoder, for every range, start, debounce limit and bound. *)
(*                                                                         *)
(* The tracking equation is not inductive by itself: it speaks of angles,  *)
(* the decoder of sampled wires.  The invariant adds that the samples are  *)
(* the channels at the recorded angles, that consecutive angles are close, *)
(* and where the half turn in progress began.                              *)
(***************************************************************************)
EXTENDS Encoder, TLAPS

Samples ==
    /\ r_a_curr = ChannelA(currAngle) /\ r_b_curr = ChannelB(currAngle)
    /\ r_a_prev = ChannelA(prevAngle) /\ r_b_prev = ChannelB(prevAngle)

Close == currAngle - prevAngle \in -1..1

InHalfTurn == prevAngle % 2 = 1 => origin \in {prevAngle - 1, prevAngle + 1}

Inv == TypeOK /\ Samples /\ (slipped \/ (Close /\ InHalfTurn)) /\ TracksShaft
----------------------------------------------------------------------------
\* Residues of neighbouring angles.
LEMMA Residues ==
    ASSUME NEW p \in Int
    PROVE  /\ p % 4 \in 0..3
           /\ p % 2 = (p % 4) % 2
           /\ (p + 1) % 4 = ((p % 4) + 1) % 4
           /\ (p - 1) % 4 = ((p % 4) + 3) % 4
  OBVIOUS

\* The two channels, quarter by quarter.
LEMMA Channels ==
    ASSUME NEW p \in Int
    PROVE  /\ p % 4 = 0 => ChannelA(p) = 0 /\ ChannelB(p) = 0
           /\ p % 4 = 1 => ChannelA(p) = 1 /\ ChannelB(p) = 0
           /\ p % 4 = 2 => ChannelA(p) = 1 /\ ChannelB(p) = 1
           /\ p % 4 = 3 => ChannelA(p) = 0 /\ ChannelB(p) = 1
  BY DEF ChannelA, ChannelB

\* Between close samples the decoder counts exactly the half turns started:
\* up when the shaft leaves an even angle to the right, down to the left.
LEMMA DecodeMeaning ==
    ASSUME currAngle \in Int, prevAngle \in Int, Samples, Close
    PROVE  /\ CountsUp <=> Started = 1
           /\ ~CountsUp /\ CountsDown <=> Started = -1
<1> DEFINE p == prevAngle
<1>1. currAngle \in {p - 1, p, p + 1}
  BY DEF Close
<1>2. /\ p % 4 \in 0..3 /\ p % 2 = (p % 4) % 2
      /\ (p + 1) % 4 = ((p % 4) + 1) % 4
      /\ (p - 1) % 4 = ((p % 4) + 3) % 4
  BY Residues
<1> USE DEF Samples, CountsUp, CountsDown, RoseA, FellA, RoseB, FellB, Started
<1>3. CASE currAngle = p
  BY <1>3
<1>4. CASE currAngle = p + 1
  <2>1. CASE p % 4 = 0  BY <1>2, <1>4, <2>1, Channels
  <2>2. CASE p % 4 = 1  BY <1>2, <1>4, <2>2, Channels
  <2>3. CASE p % 4 = 2  BY <1>2, <1>4, <2>3, Channels
  <2>4. CASE p % 4 = 3  BY <1>2, <1>4, <2>4, Channels
  <2> QED               BY <1>2, <2>1, <2>2, <2>3, <2>4
<1>5. CASE currAngle = p - 1
  <2>1. CASE p % 4 = 0  BY <1>2, <1>5, <2>1, Channels
  <2>2. CASE p % 4 = 1  BY <1>2, <1>5, <2>2, Channels
  <2>3. CASE p % 4 = 2  BY <1>2, <1>5, <2>3, Channels
  <2>4. CASE p % 4 = 3  BY <1>2, <1>5, <2>4, Channels
  <2> QED               BY <1>2, <2>1, <2>2, <2>3, <2>4
<1> QED
  BY <1>1, <1>3, <1>4, <1>5
----------------------------------------------------------------------------
\* What a decoding tick does to the position, in terms of the shaft.
LEMMA DecodeStep ==
    ASSUME TypeOK, Samples, Close, Decode
    PROVE  /\ Started = 1 => r_counter' = IF r_counter < C_MAX_VAL - 1
                                          THEN r_counter + 1 ELSE r_counter
           /\ Started = -1 => r_counter' = IF r_counter > 0
                                           THEN r_counter - 1 ELSE r_counter
           /\ Started \notin {1, -1} => r_counter' = r_counter
<1>1. currAngle \in Int /\ prevAngle \in Int
  BY DEF TypeOK
<1>2. /\ CountsUp <=> Started = 1
      /\ ~CountsUp /\ CountsDown <=> Started = -1
  BY <1>1, DecodeMeaning
<1> QED
  BY <1>2 DEF Decode

\* The tracking equation and the half turn in progress after a tick.
LEMMA TickTracks ==
    ASSUME TypeOK, Samples, Close, InHalfTurn, ~slipped, TracksShaft,
           Decode, Record
    PROVE  TracksShaft' /\ InHalfTurn'
<1>1. /\ currAngle \in Int /\ prevAngle \in Int /\ origin \in Int
      /\ drift \in Int /\ lost \in Int /\ r_counter \in Int
      /\ C_START_POS \in Int /\ C_MAX_VAL \in Int
      /\ 0 <= r_counter /\ r_counter <= C_MAX_VAL - 1
  BY EncoderAssumption DEF TypeOK
<1>2. currAngle \in {prevAngle - 1, prevAngle, prevAngle + 1}
  BY <1>1 DEF Close
<1>3. /\ prevAngle' = currAngle
      /\ origin' = IF Started # 0 THEN prevAngle ELSE origin
      /\ drift' = drift + Abandoned
      /\ lost' = IF AtTheEnd THEN lost + Started ELSE lost
  BY DEF Record
<1>4. /\ Started = 1 => r_counter' = IF r_counter < C_MAX_VAL - 1
                                     THEN r_counter + 1 ELSE r_counter
      /\ Started = -1 => r_counter' = IF r_counter > 0
                                      THEN r_counter - 1 ELSE r_counter
      /\ Started \notin {1, -1} => r_counter' = r_counter
  BY DecodeStep
<1>5. /\ prevAngle % 2 \in {0, 1}
      /\ currAngle # prevAngle => currAngle % 2 = 1 - (prevAngle % 2)
  <2>1. /\ prevAngle % 2 \in {0, 1}
        /\ (prevAngle + 1) % 2 = 1 - (prevAngle % 2)
        /\ (prevAngle - 1) % 2 = 1 - (prevAngle % 2)
    BY <1>1
  <2>2. CASE currAngle = prevAngle      BY <2>1, <2>2
  <2>3. CASE currAngle = prevAngle - 1  BY <2>1, <2>3
  <2>4. CASE currAngle = prevAngle + 1  BY <2>1, <2>4
  <2> QED                               BY <1>2, <2>2, <2>3, <2>4
\* The even case: a half turn may start.
<1>6. CASE prevAngle % 2 = 0
  <2>1. Started = currAngle - prevAngle /\ Abandoned = 0
    BY <1>6 DEF Started, Abandoned
  <2>2. 2 * (r_counter - C_START_POS - drift + lost) = prevAngle
    BY <1>6 DEF TracksShaft
  <2>3. r_counter' + lost' = r_counter + lost + Started
    BY <1>1, <1>2, <1>3, <1>4, <2>1 DEF AtTheEnd
  <2>4. r_counter' \in Int /\ lost' \in Int /\ drift' = drift
    BY <1>1, <1>2, <1>3, <1>4, <2>1 DEF AtTheEnd
  <2>5. 2 * (r_counter' - C_START_POS - drift' + lost') = 2 * currAngle - prevAngle
    <3>1. r_counter' + lost' = r_counter + lost + (currAngle - prevAngle)
      BY <2>1, <2>3
    <3>2. \A c, l \in Int : c + l = r_counter + lost + (currAngle - prevAngle)
            => 2 * (c - C_START_POS - drift + l) = 2 * currAngle - prevAngle
      BY <1>1, <2>2
    <3> QED  BY <2>4, <3>1, <3>2
  <2>6. currAngle % 2 = 1 => origin' = prevAngle
    <3>1. currAngle % 2 = 1 => currAngle # prevAngle  BY <1>6
    <3>2. currAngle # prevAngle => Started # 0        BY <1>1, <2>1
    <3> QED                                           BY <1>3, <3>1, <3>2
  <2>7. currAngle % 2 = 0 => currAngle = prevAngle
    BY <1>1, <1>5, <1>6
  <2>8. TracksShaft'
    BY <1>1, <1>2, <1>3, <1>5, <1>6, <2>5, <2>6, <2>7 DEF TracksShaft
  <2>9. InHalfTurn'
    BY <1>1, <1>2, <1>3, <1>6, <2>6 DEF InHalfTurn
  <2> QED
    BY <2>8, <2>9
\* The odd case: it is completed, abandoned, or still in progress.
<1>7. CASE prevAngle % 2 = 1
  <2>1. Started = 0 /\ r_counter' = r_counter /\ lost' = lost /\ origin' = origin
    BY <1>3, <1>4, <1>7 DEF Started, AtTheEnd
  <2>2. origin \in {prevAngle - 1, prevAngle + 1}
    BY <1>7 DEF InHalfTurn
  <2>3. 2 * (r_counter - C_START_POS - drift + lost) = prevAngle + (prevAngle - origin)
    BY <1>7 DEF TracksShaft
  <2>4. CASE currAngle = prevAngle
    <3>1. Abandoned = 0
      BY <1>1, <1>7, <2>2, <2>4 DEF Abandoned
    <3>2. drift' = drift
      BY <1>1, <1>3, <3>1
    <3> QED
      BY <1>3, <1>7, <2>1, <2>2, <2>3, <2>4, <3>2 DEF TracksShaft, InHalfTurn
  <2>5. CASE currAngle # prevAngle
    <3>1. currAngle % 2 = 0
      BY <1>1, <1>5, <1>7, <2>5
    <3>2. InHalfTurn'
      BY <1>3, <3>1 DEF InHalfTurn
    <3>3. 2 * (r_counter' - C_START_POS - drift' + lost') = currAngle
      <4>1. CASE currAngle = origin
        BY <1>1, <1>3, <1>7, <2>1, <2>3, <4>1 DEF Abandoned
      <4>2. CASE currAngle # origin
        <5>1. drift' = drift
          BY <1>1, <1>3, <4>2 DEF Abandoned
        <5>2. currAngle = prevAngle + (prevAngle - origin)
          BY <1>1, <1>2, <2>2, <2>5, <4>2
        <5> QED
          BY <1>1, <2>1, <2>3, <5>1, <5>2
      <4> QED
        BY <4>1, <4>2
    <3> QED
      BY <1>3, <3>1, <3>2, <3>3 DEF TracksShaft
  <2> QED
    BY <2>4, <2>5
<1> QED
  BY <1>5, <1>6, <1>7
----------------------------------------------------------------------------
\* The counter registers keep their range on every clock edge.
LEMMA ClockTyped ==
    ASSUME TypeOK, Clock
    PROVE  TypeOK'
<1>1. r_debounce_cnt' \in 0..C_DEBOUNCE_LIMIT /\ r_tick_enable' \in Bit
  BY EncoderAssumption DEF TypeOK, Clock, Timer, Bit
<1>2. shaft' = shaft /\ moves' = moves /\ resets' = resets
  BY DEF Clock, shaftVars
<1>3. CASE r_tick_enable = 1
  <2>1. Sample /\ Decode /\ Record
    BY <1>3 DEF Clock
  <2>2. r_counter' \in 0..C_MAX_VAL - 1
    BY <2>1, EncoderAssumption DEF TypeOK, Decode
  <2>3. {r_a_curr', r_a_prev', r_b_curr', r_b_prev'} \subseteq Bit
    BY <2>1 DEF TypeOK, Sample, ChannelA, ChannelB, Bit
  <2>4. /\ currAngle' \in Int /\ prevAngle' \in Int /\ origin' \in Int
        /\ slipped' \in BOOLEAN
    BY <2>1 DEF TypeOK, Record
  <2>5. Started \in Int /\ Abandoned \in Int
    BY DEF TypeOK, Started, Abandoned
  <2>6. drift' \in Int /\ lost' \in Int
    BY <2>1, <2>5 DEF TypeOK, Record
  <2> QED
    BY <1>1, <1>2, <2>2, <2>3, <2>4, <2>6 DEF TypeOK
<1>4. CASE r_tick_enable # 1
  BY <1>1, <1>2, <1>4 DEF TypeOK, Clock, sampleVars, historyVars
<1> QED
  BY <1>3, <1>4

LEMMA InitInv == Init => Inv
<1> SUFFICES ASSUME Init PROVE Inv
  OBVIOUS
<1>1. TypeOK
  <2>1. slipped \in BOOLEAN
    BY DEF Init
  <2>2. /\ r_debounce_cnt \in 0..C_DEBOUNCE_LIMIT /\ r_tick_enable \in Bit
        /\ r_counter \in 0..C_MAX_VAL - 1
        /\ {r_a_curr, r_a_prev, r_b_curr, r_b_prev} \subseteq Bit
        /\ {shaft, currAngle, prevAngle, origin, drift, lost} \subseteq Int
        /\ moves \in 0..MaxMoves /\ resets \in 0..MaxResets
    BY EncoderAssumption DEF Init, Bit
  <2> QED
    BY <2>1, <2>2 DEF TypeOK
<1>2. 0 % 4 = 0 /\ 0 % 2 = 0
  OBVIOUS
<1>3. Samples
  BY <1>2 DEF Init, Samples, ChannelA, ChannelB
<1>4. Close /\ InHalfTurn
  BY <1>2 DEF Init, Close, InHalfTurn
<1>5. TracksShaft
  BY <1>2, EncoderAssumption DEF Init, TracksShaft
<1> QED
  BY <1>1, <1>3, <1>4, <1>5 DEF Inv

LEMMA StepInv == Inv /\ [Next]_vars => Inv'
<1> SUFFICES ASSUME Inv, [Next]_vars PROVE Inv'
  OBVIOUS
<1>1. CASE Clock
  <2>1. TypeOK'
    BY <1>1, ClockTyped DEF Inv
  <2>2. CASE r_tick_enable = 1
    <3>1. Sample /\ Decode /\ Record
      BY <1>1, <2>2 DEF Clock
    <3>2. Samples'
      BY <3>1 DEF Inv, Samples, Sample, Record, ChannelA, ChannelB
    <3>3. slipped' \/ Close'
      BY <3>1 DEF Record, Close, Inv, TypeOK
    <3>4. slipped' \/ (TracksShaft' /\ InHalfTurn')
      <4>1. CASE slipped
        BY <3>1, <4>1 DEF Record
      <4>2. CASE ~slipped
        BY <3>1, <4>2, TickTracks DEF Inv
      <4> QED
        BY <4>1, <4>2
    <3>5. TracksShaft'
      BY <3>4 DEF TracksShaft
    <3> QED
      BY <2>1, <3>2, <3>3, <3>4, <3>5 DEF Inv
  <2>3. CASE r_tick_enable # 1
    <3>1. UNCHANGED <<sampleVars, r_counter, historyVars>>
      BY <1>1, <2>3 DEF Clock
    <3> QED
      BY <2>1, <3>1
         DEF Inv, Samples, Close, InHalfTurn, TracksShaft, sampleVars, historyVars
  <2> QED
    BY <2>2, <2>3
<1>2. CASE Reset
  <2>1. /\ r_debounce_cnt' = 0 /\ r_tick_enable' = 0 /\ r_counter' = C_START_POS
        /\ r_a_curr' = 0 /\ r_a_prev' = 0 /\ r_b_curr' = 0 /\ r_b_prev' = 0
        /\ currAngle' = 0 /\ prevAngle' = 0 /\ origin' = 0
        /\ drift' = 0 /\ lost' = 0 /\ slipped' = FALSE
    BY <1>2 DEF Reset, DecoderReset, HistoryReset
  <2>2. shaft' \in Int /\ moves' \in 0..MaxMoves /\ resets' \in 0..MaxResets
    BY <1>2, EncoderAssumption DEF Reset, FromRest, Inv, TypeOK
  <2>3. TypeOK'
    <3>1. slipped' \in BOOLEAN
      BY <2>1
    <3>2. /\ r_debounce_cnt' \in 0..C_DEBOUNCE_LIMIT /\ r_tick_enable' \in Bit
          /\ r_counter' \in 0..C_MAX_VAL - 1
          /\ {r_a_curr', r_a_prev', r_b_curr', r_b_prev'} \subseteq Bit
          /\ {shaft', currAngle', prevAngle', origin', drift', lost'} \subseteq Int
      BY <2>1, <2>2, EncoderAssumption DEF Bit
    <3> QED
      BY <2>2, <3>1, <3>2 DEF TypeOK
  <2>4. 0 % 4 = 0 /\ 0 % 2 = 0
    OBVIOUS
  <2>5. Samples' /\ Close' /\ InHalfTurn'
    BY <2>1, <2>4 DEF Samples, Close, InHalfTurn, ChannelA, ChannelB
  <2>6. TracksShaft'
    BY <2>1, <2>4, EncoderAssumption DEF TracksShaft
  <2> QED
    BY <2>3, <2>5, <2>6 DEF Inv
<1>3. CASE Move
  <2>1. /\ shaft' \in Int /\ moves' \in 0..MaxMoves
        /\ UNCHANGED <<timerVars, r_counter, sampleVars, resets, historyVars>>
    BY <1>3, EncoderAssumption DEF Move, Inv, TypeOK
  <2> QED
    BY <2>1
       DEF Inv, TypeOK, Samples, Close, InHalfTurn, TracksShaft, timerVars,
           sampleVars, historyVars
<1>4. CASE UNCHANGED vars
  BY <1>4
     DEF vars, Inv, TypeOK, Samples, Close, InHalfTurn, TracksShaft, timerVars,
         sampleVars, shaftVars, historyVars
<1> QED
  BY <1>1, <1>2, <1>3, <1>4 DEF Next

THEOREM EncoderInvariant == Spec => []Inv
<1>1. Init => Inv                   BY InitInv
<1>2. Inv /\ [Next]_vars => Inv'    BY StepInv
<1> QED                             BY <1>1, <1>2, PTL DEF Spec

\* In every reachable state the position is the angle of the shaft in half
\* turns, off by the abandoned half turns and the steps lost at the ends.
THEOREM EncoderTracksShaft == Spec => []TracksShaft
<1>1. Inv => TracksShaft            BY DEF Inv
<1> QED                             BY <1>1, EncoderInvariant, PTL

\* The position and all registers stay in range, the end stops included.
THEOREM EncoderTypeOK == Spec => []TypeOK
<1>1. Inv => TypeOK                 BY DEF Inv
<1> QED                             BY <1>1, EncoderInvariant, PTL
----------------------------------------------------------------------------
\* The clocks left before the decoder can move the position.
Wait == IF r_tick_enable = 1 THEN 0 ELSE C_DEBOUNCE_LIMIT + 1 - r_debounce_cnt

\* A tick is enabled exactly when the debounce counter has just wrapped.
TickPhase == r_tick_enable = 1 => r_debounce_cnt = 0

\* A clock edge of the decoder is a clock of the abstract cursor.
LEMMA ClockIsCursorClock ==
    ASSUME TypeOK, TickPhase, Clock
    PROVE  Cursor!Clock /\ TickPhase'
<1>1. /\ C_DEBOUNCE_LIMIT \in Nat /\ r_debounce_cnt \in 0..C_DEBOUNCE_LIMIT
      /\ r_tick_enable \in {0, 1}
  BY EncoderAssumption DEF TypeOK, Bit
<1>2. Timer
  BY DEF Clock
<1>3. TickPhase'
  BY <1>1, <1>2 DEF Timer, TickPhase
<1>4. CASE r_tick_enable = 1
  <2>1. r_counter' \in {r_counter - 1, r_counter, r_counter + 1} \cap 0..C_MAX_VAL - 1
    BY <1>4, EncoderAssumption DEF Clock, Decode, TypeOK
  <2>2. Wait = 0 /\ Wait' = C_DEBOUNCE_LIMIT
    BY <1>1, <1>2, <1>4 DEF Wait, Timer, TickPhase
  <2> QED
    BY <1>1, <1>3, <2>1, <2>2 DEF Wait, Cursor!Clock, Cursor!Step
<1>5. CASE r_tick_enable = 0
  <2>1. r_counter' = r_counter
    BY <1>5 DEF Clock
  <2>2. Wait > 0 /\ Wait' = Wait - 1
    BY <1>1, <1>2, <1>5 DEF Wait, Timer
  <2> QED
    BY <1>3, <2>1, <2>2 DEF Wait, Cursor!Clock, Cursor!Hold
<1> QED
  BY <1>1, <1>4, <1>5

\* The decoder implements the abstract cursor: whatever the shaft does, the
\* position moves by at most one cell, at most once in a debounce period.
THEOREM EncoderImplementsCursor == Spec => CursorSpec
<1>1. Init => Cursor!Init /\ TickPhase
  BY EncoderAssumption DEF Init, TickPhase, Cursor!Init
<1>2. Inv /\ TickPhase /\ [Next]_vars => TickPhase'
  <2> SUFFICES ASSUME Inv, TickPhase, [Next]_vars PROVE TickPhase'
    OBVIOUS
  <2>1. CASE Clock   BY <2>1, ClockIsCursorClock DEF Inv
  <2>2. CASE Reset   BY <2>2 DEF Reset, DecoderReset, TickPhase
  <2>3. CASE Move    BY <2>3 DEF Move, timerVars, TickPhase
  <2>4. CASE UNCHANGED vars
    BY <2>4 DEF vars, timerVars, TickPhase
  <2> QED            BY <2>1, <2>2, <2>3, <2>4 DEF Next
<1>3. Inv /\ TickPhase /\ [Next]_vars
        => [Cursor!Next]_<<r_counter, Wait>>
  <2> SUFFICES ASSUME Inv, TickPhase, [Next]_vars
               PROVE  Cursor!Next \/ UNCHANGED <<r_counter, Wait>>
    OBVIOUS
  <2>1. CASE Clock   BY <2>1, ClockIsCursorClock DEF Inv, Cursor!Next
  <2>2. CASE Reset
    BY <2>2, EncoderAssumption
       DEF Reset, DecoderReset, Cursor!Next, Cursor!Reset
  <2>3. CASE Move    BY <2>3 DEF Move, timerVars, Wait
  <2>4. CASE UNCHANGED vars
    BY <2>4 DEF vars, timerVars, Wait
  <2> QED            BY <2>1, <2>2, <2>3, <2>4 DEF Next
<1> QED
  BY <1>1, <1>2, <1>3, EncoderInvariant, PTL
     DEF Spec, CursorSpec, Cursor!Spec, Wait
----------------------------------------------------------------------------
\* A shaft that two samples in a row found at the same angle never moves the
\* cursor, for the decoder counts edges of the samples only.
THEOREM EncoderStillShaftStillCursor == Spec => StillShaftStillCursor
<1>1. Inv /\ [Next]_vars
        => [r_counter' # r_counter /\ resets' = resets => prevAngle # currAngle]_vars
  <2> SUFFICES ASSUME Inv, Next, r_counter' # r_counter, resets' = resets,
                      prevAngle = currAngle
               PROVE  FALSE
    OBVIOUS
  <2>1. ~Reset
    BY DEF Inv, TypeOK, Reset
  <2>2. Decode
    BY <2>1 DEF Next, Clock, Move
  <2>3. r_a_curr = r_a_prev /\ r_b_curr = r_b_prev
    BY DEF Inv, Samples
  <2>4. ~CountsUp /\ ~CountsDown
    BY <2>3 DEF CountsUp, CountsDown, RoseA, FellA, RoseB, FellB
  <2> QED
    BY <2>2, <2>4 DEF Decode
<1> QED
  BY <1>1, EncoderInvariant, PTL DEF Spec, StillShaftStillCursor
=============================================================================
