----------------------------- MODULE MCDisplay -----------------------------
(* Instance of Display for TLC; the values are in the .cfg.                *)
EXTENDS Display
============================================================================
