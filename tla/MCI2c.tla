------------------------------- MODULE MCI2c -------------------------------
EXTENDS BubbleLevel
MCMessages == {<<0, 2>>}
MCPointers == {<<2>>}
=============================================================================
