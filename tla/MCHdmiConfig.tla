--------------------------- MODULE MCHdmiConfig ---------------------------
(* Instance of HdmiConfig for TLC: the address of the code and three of its *)
(* table entries, with their bytes all different.                          *)
EXTENDS HdmiConfig

MCLutData == [i \in 0..LUT_SIZE |-> <<38915, 280, 44822, 38915>>[i + 1]]
============================================================================
