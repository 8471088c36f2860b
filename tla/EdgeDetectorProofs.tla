------------------------- MODULE EdgeDetectorProofs -------------------------
(***************************************************************************)
(* Proof about EdgeDetector, for any number of changes of the input.       *)
(***************************************************************************)
EXTENDS EdgeDetector, TLAPS

\* The count of pulses keeps the history in its range, so the two go together.
EdgeInv == TypeOK /\ EveryEdgeOnePulse

LEMMA EdgeInit == Init => EdgeInv
  BY ChangesAssumption DEF Init, EdgeInv, TypeOK, EveryEdgeOnePulse, o_rising_edge, Bit

\* A clock edge takes the sampled change from the input to the output, and the
\* one on the output to the count.
LEMMA EdgeClock == EdgeInv /\ Clock => EdgeInv'
  BY ChangesAssumption
     DEF EdgeInv, TypeOK, EveryEdgeOnePulse, Clock, Shift, o_rising_edge, Bit

\* A change that undoes one not yet sampled makes two that nobody sees.
LEMMA EdgeChange == EdgeInv /\ Change => EdgeInv'
  BY ChangesAssumption DEF EdgeInv, TypeOK, EveryEdgeOnePulse, Change, o_rising_edge, Bit

LEMMA EdgeStutter == EdgeInv /\ UNCHANGED vars => EdgeInv'
  BY DEF EdgeInv, TypeOK, EveryEdgeOnePulse, vars, o_rising_edge

\* Every edge of the input that lives to see a clock edge gives one pulse of the
\* output (edge_detector.vhd:20-23), however the input moves between the edges.
THEOREM EdgeDetectorOnePulse == Spec => []EveryEdgeOnePulse
<1>1. EdgeInv /\ [Next]_vars => EdgeInv'
  BY EdgeClock, EdgeChange, EdgeStutter DEF Next
<1>2. EdgeInv => EveryEdgeOnePulse
  BY DEF EdgeInv
<1> QED
  BY EdgeInit, <1>1, <1>2, PTL DEF Spec
=============================================================================
