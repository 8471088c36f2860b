------------------------------- MODULE Raster -------------------------------
(***************************************************************************)
(* A raster: a line axis that ticks with the pixel clock and a frame axis  *)
(* that ticks when a line ends.  A reset may start the frame over.         *)
(***************************************************************************)
CONSTANTS HLength, VLength

VARIABLES
    hPhase, hLeft, vPhase, vLeft,
    enable      \* the data enable

H == INSTANCE RasterAxis WITH Length <- HLength, phase <- hPhase, left <- hLeft
V == INSTANCE RasterAxis WITH Length <- VLength, phase <- vPhase, left <- vLeft

EnableIsActive == enable = 1 <=> hPhase = "active" /\ vPhase = "active"

Init == H!AtStart /\ V!AtStart /\ EnableIsActive

PixelClock ==
    /\ H!Tick
    /\ IF H!AtEnd THEN V!Tick ELSE UNCHANGED <<vPhase, vLeft>>

StartOver == H!AtStart' /\ V!AtStart'

Next == (PixelClock \/ StartOver) /\ EnableIsActive'

Spec == Init /\ [][Next]_<<hPhase, hLeft, vPhase, vLeft, enable>>
============================================================================
