---------------------------- MODULE MCTelecran ----------------------------
(* Instance of Telecran for TLC; the values are in the .cfg.               *)
EXTENDS Telecran
============================================================================
