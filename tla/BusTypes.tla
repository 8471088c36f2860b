------------------------------ MODULE BusTypes ------------------------------
(* The ranges shared by the two ends of the configuration bus.             *)
EXTENDS Integers

Bit  == {0, 1}
Byte == 0..255
Word == 0..65535      \* a table entry: sub-address and value
=============================================================================
