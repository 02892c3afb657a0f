----------------------------- MODULE MCGameBots -----------------------------
(* Two server processes, interchangeable (Worker plays no part without     *)
(* fairness), and two bots on a coin of threepence: a stake of a penny     *)
(* buys a quarter of it, and half of that is below the minimum trade.      *)
EXTENDS GameBots, TLC

BaselineValue == [c \in Coins |-> 3]
RosterValue == <<[user |-> 1, strategy |-> "dip_buyer"],
                 [user |-> 2, strategy |-> "momentum"]>>
Symmetry == Permutations(Processes)
=============================================================================
