---------------------------- MODULE MCBodyFlight ----------------------------
(* Four Blocks, one of which no chain may hold, from three Peers.           *)
EXTENDS BodyFlight, TLC

MCHeights == 1 .. 4
MCNever == {4}
=============================================================================
