---------------------------- MODULE MCJtagUart ----------------------------
(* Instances of JtagUart for TLC; the values are in the .cfg files.        *)
EXTENDS JtagUart
============================================================================
