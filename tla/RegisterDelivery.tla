------------------------- MODULE RegisterDelivery -------------------------
(***************************************************************************)
(* What the configuration path promises, without wires, bits or frames:    *)
(* the entries of a table are stored in the chip one after the other, none *)
(* is passed before it is stored, and an interrupt starts over with a chip *)
(* that forgot everything.                                                 *)
(*                                                                         *)
(* Two concessions to the code are part of the promise: entry 0 may be     *)
(* passed unsent, and while the position is 0 the frame of the previous    *)
(* pass may still be stored, whole or with its value replaced.             *)
(***************************************************************************)
EXTENDS Integers

CONSTANTS N, Entry(_), Torn

VARIABLES pos, regs

Init == pos = 0 /\ regs = {}

Deliverable == IF pos = 0 THEN {Entry(0), Entry(N - 1), Torn}
               ELSE IF pos = N THEN {Entry(N - 1)}
               ELSE {Entry(pos)}

Store == \E e \in Deliverable : regs' = regs \cup {e} /\ UNCHANGED pos

Advance ==
    /\ pos < N
    /\ pos = 0 \/ Entry(pos) \in regs
    /\ pos' = pos + 1
    /\ UNCHANGED regs

\* The memory is lost; a store that completes at the same moment is kept.
Restart ==
    /\ pos = N
    /\ pos' = 0
    /\ regs' \in {{}, {Entry(N - 1)}}

Next == Store \/ Advance \/ Restart

Spec == Init /\ [][Next]_<<pos, regs>>
============================================================================
