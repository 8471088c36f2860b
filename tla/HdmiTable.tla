----------------------------- MODULE HdmiTable -----------------------------
(***************************************************************************)
(* The configuration table of I2C_HDMI_Config.v: sub-address and value of  *)
(* each register of the transmitter, in the order they are sent.  An index *)
(* past the table reads the default word.                                  *)
(***************************************************************************)
EXTENDS Integers, Sequences

TableWords == <<
    \h9803, \h0100, \h0218, \h0300, \h1470, \h1520,
    \h1630, \h1846, \h4080, \h4110, \h49A8, \h5510,
    \h5608, \h96F6, \h7307, \h761F, \h9803, \h9902,
    \h9AE0, \h9C30, \h9D61, \hA2A4, \hA3A4, \hA504,
    \hAB40, \hAF16, \hBA60, \hD1FF, \hDE10, \hE460,
    \hFA7D>>

TableSize == 31

DefaultWord == \h9803

TableData == [i \in 0..TableSize |->
                IF i < TableSize THEN TableWords[i + 1] ELSE DefaultWord]
============================================================================
