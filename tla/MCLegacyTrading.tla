--------------------------- MODULE MCLegacyTrading ---------------------------
(* Legacy trading on a small instance.                                     *)
EXTENDS LegacyTrading

BaselineValue == [c \in Coins |-> 5]
AdjustmentsValue == {-4}
=============================================================================
