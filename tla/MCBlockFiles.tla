---------------------------- MODULE MCBlockFiles ----------------------------
(* Small instances of BlockFiles: records of two bytes, Segments that hold   *)
(* two of them, and a Location batch of two.                                 *)
EXTENDS BlockFiles, TLC

CONSTANTS b1, b2, b3

MCLen == [b \in Blocks |-> 2]
=============================================================================
