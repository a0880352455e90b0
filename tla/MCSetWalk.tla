------------------------------ MODULE MCSetWalk ------------------------------
(* A small tree for SetWalk: a trunk a1-a4 and a branch b2-b3 off a1.  Coin x *)
(* is made low and spent high on both branches, y is made and spent inside    *)
(* one Block, z is made on one branch only.                                   *)
EXTENDS SetWalk, TLC

MCParent ==
  "g" :> "g" @@ "a1" :> "g" @@ "a2" :> "a1" @@ "a3" :> "a2" @@ "a4" :> "a3"
  @@ "b2" :> "a1" @@ "b3" :> "b2"
MCBlock == DOMAIN MCParent
MCCoin == {"x", "y", "z"}

MCHeight ==
  LET height[b \in MCBlock] ==
        IF b = "g" THEN 0 ELSE height[MCParent[b]] + 1
  IN height
MCWork == [b \in MCBlock |-> MCHeight[b] + 1]
MCChain ==
  LET chain[b \in MCBlock] ==
        IF b = "g" THEN [n \in 0 .. 4 |-> IF n = 0 THEN "g" ELSE None]
                   ELSE [chain[MCParent[b]] EXCEPT ![MCHeight[b]] = b]
  IN chain

Of(rows) == [b \in MCBlock |-> IF b \in DOMAIN rows THEN rows[b] ELSE {}]
OnceMade == Of("a1" :> {"x"} @@ "a2" :> {"y", "z"} @@ "b2" :> {"z"})
OnceKept == Of("a1" :> {"x"} @@ "a2" :> {"z"} @@ "b2" :> {"z"})
OnceSpends ==
  Of("a3" :> {"x"} @@ "a4" :> {"z"} @@ "b2" :> {"x"} @@ "b3" :> {"x"})

Ledgers(kept, spends) ==
  LET at[b \in MCBlock] ==
        IF b = "g" THEN [c \in MCCoin |-> None]
        ELSE [c \in MCCoin |-> IF c \in spends[b] THEN None
                               ELSE IF c \in kept[b] THEN b
                               ELSE at[MCParent[b]][c]]
  IN at
OnceCoinsAt == Ledgers(OnceKept, OnceSpends)
MCSound == MCBlock \ {"b3"}
==============================================================================
