---------------------------- MODULE MCHeaderRules ----------------------------
(* Bytes of four values, two of them a mantissa: the limit 55 is a target  *)
(* of 28; 51 and 39 are the targets 12 and 7 below it, and 69 and 71 the   *)
(* targets 80 and 112 that a retarget would reach without the limit.       *)
EXTENDS Finality

Limits == [n \in Network |-> 55]
Bits == [n \in Network |-> CASE n = "Mainnet" -> {55, 51, 69, 71}
                             [] n = "Testnet" -> {55, 51, 39}
                             [] n = "Regtest" -> {55, 39}]
CsvFrom == [n \in Network |-> IF n = "Regtest" THEN 1 ELSE 2]
==============================================================================
