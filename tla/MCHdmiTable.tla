---------------------------- MODULE MCHdmiTable ----------------------------
(* HdmiConfig with the whole table of the code.                            *)
EXTENDS HdmiConfig, HdmiTable
============================================================================
