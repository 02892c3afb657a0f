----------------------------- MODULE MCGameReads -----------------------------
(* Rounds and their readers: a coin starts a cycle at a penny, so that     *)
(* part of it rounds to a penny or to nothing, and a player may end a      *)
(* round a penny richer by selling in two parts.                           *)
EXTENDS GameReads

BaselineValue == [c \in Coins |-> 1]
=============================================================================
