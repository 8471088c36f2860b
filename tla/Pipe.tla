-------------------------------- MODULE Pipe --------------------------------
(***************************************************************************)
(* What a character device promises: the characters that come out at one   *)
(* end are the characters that went in at the other, in their order, none  *)
(* lost, none twice, none invented.                                        *)
(***************************************************************************)
EXTENDS Naturals, Sequences

VARIABLES accepted, delivered   \* all the characters so far, at either end

StartsWith(s, t) == Len(t) <= Len(s) /\ SubSeq(s, 1, Len(t)) = t

Init == accepted = <<>> /\ delivered = <<>>

Accept ==
    /\ StartsWith(accepted', accepted)
    /\ UNCHANGED delivered

Deliver ==
    /\ StartsWith(delivered', delivered)
    /\ StartsWith(accepted, delivered')
    /\ UNCHANGED accepted

Spec == Init /\ [][Accept \/ Deliver]_<<accepted, delivered>>
=============================================================================
