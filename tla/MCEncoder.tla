----------------------------- MODULE MCEncoder -----------------------------
(* Instance of Encoder for TLC; the values are in the .cfg.                *)
EXTENDS Encoder
============================================================================
