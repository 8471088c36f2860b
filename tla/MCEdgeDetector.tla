-------------------------- MODULE MCEdgeDetector --------------------------
(* Instance of EdgeDetector for TLC; the values are in the .cfg files.     *)
EXTENDS EdgeDetector
============================================================================
