------------------------------ MODULE MCUpkeep ------------------------------
(* Two branches off a1, the second with more work, and two Segments.         *)
EXTENDS Upkeep, TLC

MCParent ==
  "g" :> "g" @@ "a1" :> "g" @@ "a2" :> "a1" @@ "a3" :> "a2"
  @@ "b2" :> "a1" @@ "b3" :> "b2"
MCBlock == DOMAIN MCParent
MCHeight ==
  LET height[b \in MCBlock] ==
        IF b = "g" THEN 0 ELSE height[MCParent[b]] + 1
  IN height
MCWork == [b \in MCBlock |-> MCHeight[b] + (IF b \in {"b2", "b3"} THEN 1 ELSE 0)]
MCChain ==
  LET upTo[b \in MCBlock] ==
        IF b = "g" THEN [n \in 0 .. 3 |-> IF n = 0 THEN "g" ELSE None]
                   ELSE [upTo[MCParent[b]] EXCEPT ![MCHeight[b]] = b]
  IN upTo
==============================================================================
