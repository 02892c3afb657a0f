--------------------------- MODULE MCServerProcess ---------------------------
(* One server process: two signals, two coins, and each worker twice in    *)
(* flight.                                                                 *)
EXTENDS ServerProcess
=============================================================================
