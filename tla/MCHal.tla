------------------------------- MODULE MCHal -------------------------------
(* Instance of Hal for TLC; the values are in the .cfg file.               *)
EXTENDS Hal

\* An int of six bits; sizes that are aligned and not, and more than there is.
MCIncrements == {-32, -7, -4, -3, -1, 0, 1, 3, 4, 6, 31}
============================================================================
