----------------------------- MODULE MCCatchUp -----------------------------
(* Small instances of CatchUp: one Peer that stays, and others that lie,     *)
(* leave, answer late or not at all.                                         *)
EXTENDS CatchUp, TLC
=============================================================================
