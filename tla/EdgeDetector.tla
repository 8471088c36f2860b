---------------------------- MODULE EdgeDetector ----------------------------
(***************************************************************************)
(* The edge detector (hdmi/telecran/edge_detector.vhd): two flip-flops and *)
(* a gate.  The input is asynchronous: it may change several times between *)
(* two clock edges.                                                        *)
(***************************************************************************)
EXTENDS Integers

CONSTANT MaxChanges     \* bound: changes of the input
ASSUME ChangesAssumption == MaxChanges \in Nat

VARIABLES
    i_signal, r_ff1, r_ff2,
    \* history: changes of the input, those that were undone before a clock
    \* edge, and clock cycles with the output high
    changes, unseen, pulses

vars == <<i_signal, r_ff1, r_ff2, changes, unseen, pulses>>

Bit == {0, 1}

TypeOK ==
    /\ {i_signal, r_ff1, r_ff2} \subseteq Bit
    /\ changes \in 0..MaxChanges
    /\ unseen \in 0..changes /\ pulses \in 0..changes

Init ==
    /\ i_signal = 0 /\ r_ff1 = 0 /\ r_ff2 = 0
    /\ changes = 0 /\ unseen = 0 /\ pulses = 0

o_rising_edge == IF r_ff1 # r_ff2 THEN 1 ELSE 0

\* A faulty variant of Shift: the second flip-flop takes the input as well.
Shift_Parallel == r_ff1' = i_signal /\ r_ff2' = i_signal

Shift == r_ff1' = i_signal /\ r_ff2' = r_ff1

Clock ==
    /\ Shift
    /\ pulses' = pulses + o_rising_edge
    /\ UNCHANGED <<i_signal, changes, unseen>>

\* A change of the input; if the input was not yet sampled it undoes the last.
Change ==
    /\ changes < MaxChanges
    /\ changes' = changes + 1
    /\ i_signal' = 1 - i_signal
    /\ unseen' = IF i_signal # r_ff1 THEN unseen + 2 ELSE unseen
    /\ UNCHANGED <<r_ff1, r_ff2, pulses>>

Next == Clock \/ Change

Spec == Init /\ [][Next]_vars
----------------------------------------------------------------------------
\* Every edge, rising or falling, that lives to see a clock edge makes exactly
\* one pulse of one clock; the last may be waiting for its clock edge, and the
\* one before may be on the output now.
EveryEdgeOnePulse ==
    changes - unseen =
        pulses + o_rising_edge + (IF i_signal # r_ff1 THEN 1 ELSE 0)
============================================================================
