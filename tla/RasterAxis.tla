---------------------------- MODULE RasterAxis ----------------------------
(***************************************************************************)
(* One axis of a raster, as a monitor expects it: four phases, one after   *)
(* the other, each of a fixed length.                                      *)
(***************************************************************************)
EXTENDS Integers

CONSTANT Length     \* the length of each phase

VARIABLES
    phase,
    left    \* ticks until the phase is over

Phases == {"active", "front", "pulse", "back"}

After == [active |-> "front", front |-> "pulse", pulse |-> "back", back |-> "active"]

AtStart == phase = "active" /\ left = Length["active"]
AtEnd == phase = "back" /\ left = 1

Tick ==
    \/ left > 1 /\ left' = left - 1 /\ UNCHANGED phase
    \/ left = 1 /\ phase' = After[phase] /\ left' = Length[After[phase]]
============================================================================
