---------------------------- MODULE MCGameMarket ----------------------------
(* The whole game on a small instance.                                     *)
EXTENDS GameMarket

BaselineValue == [c \in Coins |-> 5]
MovesValue == {-1, 1}
=============================================================================
