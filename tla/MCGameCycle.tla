----------------------------- MODULE MCGameCycle -----------------------------
(* GameCycle on a small instance: every coin starts a cycle at the same    *)
(* price, which no property of the lifecycle distinguishes.                *)
EXTENDS GameCycle

BaselineValue == [c \in Coins |-> 5]
=============================================================================
