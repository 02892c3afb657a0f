--------------------------- MODULE RoundLifecycle ---------------------------
(***************************************************************************)
(* What the lifecycle promises its players, whatever transactions,         *)
(* processes and schedules produce it: rounds are played one after the     *)
(* other over adjoining windows; each is closed once, then its standings   *)
(* are published once, with everybody who took part ranked 1 .. N; and the *)
(* next round opens only after that (LifecycleSpec).  GameCycle implements *)
(* this as long as no call opens a cycle beside one that is still to be    *)
(* settled, and HurriedSpec, which allows that, in any case.               *)
(***************************************************************************)
EXTENDS Integers, Sequences, FiniteSets

CONSTANT Players

VARIABLE rounds

Standing == [rank : Nat, cash : Nat, peak : Nat]
Unranked == [rank |-> 0, cash |-> 0, peak |-> 0]
Nobody == [p \in Players |-> Unranked]

(* Final standings: whoever is ranked holds a rank of 1 .. N alone, and a  *)
(* better rank never means less cash.                                      *)
IsStandings(s) ==
  LET ranked == { p \in Players : s[p] # Unranked }
  IN  /\ s \in [Players -> Standing]
      /\ \A p \in ranked : s[p].rank \in 1 .. Cardinality(ranked)
      /\ \A p, q \in ranked : s[p].rank = s[q].rank => p = q
      /\ \A p, q \in ranked : s[p].rank < s[q].rank => s[p].cash >= s[q].cash

IsFresh(round) ==
  /\ round.start < round.end
  /\ round.status = "ACTIVE"
  /\ round.standings = Nobody

(* A history may begin with one round already under way.                   *)
LifecycleInit ==
  /\ Len(rounds) <= 1
  /\ \A k \in DOMAIN rounds : IsFresh(rounds[k])

(* The next round opens where the last, now completed, ended.              *)
Open ==
  LET last == Len(rounds)
  IN  /\ Len(rounds') = last + 1
      /\ rounds' = Append(rounds, rounds'[last + 1])
      /\ IsFresh(rounds'[last + 1])
      /\ last > 0 => /\ rounds[last].status = "COMPLETED"
                     /\ rounds'[last + 1].start = rounds[last].end

Close ==
  \E k \in DOMAIN rounds :
    /\ rounds[k].status = "ACTIVE"
    /\ rounds' = [rounds EXCEPT ![k].status = "SETTLING"]

Publish ==
  \E k \in DOMAIN rounds :
    /\ rounds[k].status = "SETTLING"
    /\ Len(rounds') = Len(rounds)
    /\ IsStandings(rounds'[k].standings)
    /\ rounds' = [rounds EXCEPT ![k].status = "COMPLETED",
                                ![k].standings = rounds'[k].standings]

LifecycleNext == Open \/ Close \/ Publish

LifecycleSpec == LifecycleInit /\ [][LifecycleNext]_rounds

-----------------------------------------------------------------------------
(* The promise in a hurry.  No two rounds are ever open at a time and none *)
(* is closed before the last one closed is published, but a round may open *)
(* before that: where the latest of the published ones ended, so perhaps   *)
(* over the window of the round still to be published.                     *)

OpenHurriedly ==
  LET last == Len(rounds)
      over == { k \in DOMAIN rounds : rounds[k].status = "COMPLETED" }
  IN  /\ Len(rounds') = last + 1
      /\ rounds' = Append(rounds, rounds'[last + 1])
      /\ IsFresh(rounds'[last + 1])
      /\ \A k \in DOMAIN rounds : rounds[k].status # "ACTIVE"
      /\ over # {} =>
           \E k \in over : /\ rounds'[last + 1].start = rounds[k].end
                           /\ \A j \in over : rounds[j].end <= rounds[k].end

CloseInTurn ==
  /\ \A k \in DOMAIN rounds : rounds[k].status # "SETTLING"
  /\ Close

HurriedSpec == LifecycleInit /\ [][OpenHurriedly \/ CloseInTurn \/ Publish]_rounds
=============================================================================
