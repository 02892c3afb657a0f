-------------------------- MODULE MCScheduleBuilder --------------------------
(* Three live coins and a retired one, with windows short enough that the  *)
(* spacing of the ranks must be rounded, ties included.                    *)
EXTENDS ScheduleBuilder

CONSTANTS btc, eth, ada, old

CanonicalValue == <<btc, eth, ada>>
=============================================================================
