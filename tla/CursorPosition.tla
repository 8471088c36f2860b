-------------------------- MODULE CursorPosition --------------------------
(***************************************************************************)
(* One coordinate of the cursor, as its reader sees it: a number that      *)
(* moves by at most one, at most once in PERIOD clocks, inside 0..MAX-1.   *)
(***************************************************************************)
EXTENDS Integers

CONSTANTS MAX, START, PERIOD

VARIABLES
    pos,
    wait    \* clocks before the next move is possible

Init == pos = START /\ wait = PERIOD

Hold == wait > 0 /\ wait' = wait - 1 /\ UNCHANGED pos

Step ==
    /\ wait = 0
    /\ wait' = PERIOD - 1
    /\ pos' \in {pos - 1, pos, pos + 1} \cap 0..MAX - 1

Clock == Hold \/ Step

Reset == pos' = START /\ wait' = PERIOD

Next == Clock \/ Reset

Spec == Init /\ [][Next]_<<pos, wait>>
============================================================================
