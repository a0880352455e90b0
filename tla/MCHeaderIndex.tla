---------------------------- MODULE MCHeaderIndex ----------------------------
(* A small tree for HeaderIndex: a branch that is shorter and heavier, a tie *)
(* at one Height and a tie across Heights.                                   *)
EXTENDS HeaderIndex, TLC

MixedParent ==
  "g" :> "g" @@ "a1" :> "g" @@ "a2" :> "a1" @@ "a3" :> "a2"
  @@ "b1" :> "g" @@ "b2" :> "b1" @@ "c2" :> "a1"
MixedWeight ==
  [b \in DOMAIN MixedParent |-> IF b \in {"b1", "b2"} THEN 2 ELSE 1]

Above(parent) ==
  LET height[b \in DOMAIN parent] ==
        IF b = "g" THEN 0 ELSE height[parent[b]] + 1
  IN height
Total(parent, weight) ==
  LET work[b \in DOMAIN parent] ==
        IF b = "g" THEN weight[b] ELSE work[parent[b]] + weight[b]
  IN work
Lineage(parent) ==
  LET height == Above(parent)
      chain[b \in DOMAIN parent] ==
        IF b = "g" THEN [n \in 0 .. 3 |-> IF n = 0 THEN "g" ELSE "none"]
                   ELSE [chain[parent[b]] EXCEPT ![height[b]] = b]
  IN chain

MixedBlock == DOMAIN MixedParent
MixedHeight == Above(MixedParent)
MixedWork == Total(MixedParent, MixedWeight)
MixedChain == Lineage(MixedParent)
BadB1 == {"b1", "c2"}
==============================================================================
