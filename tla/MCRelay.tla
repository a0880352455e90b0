------------------------------- MODULE MCRelay -------------------------------
(* A small tree for Relay: a1-a2 and a heavier branch b2-b3 off a1.     *)
(* p and q spend one Output, k spends what p makes, r spends another Block's *)
(* coinbase and pays little for its size.  With a Maturity of 2, p may be    *)
(* spent at Height 3 and no longer when a mark leaves a1 or g the tip.       *)
EXTENDS Rebuild, TLC

MCParent ==
  "g" :> "g" @@ "a1" :> "g" @@ "a2" :> "a1" @@ "b2" :> "a1" @@ "b3" :> "b2"
MCBlock == DOMAIN MCParent
MCHeight ==
  LET height[b \in MCBlock] ==
        IF b = "g" THEN 0 ELSE height[MCParent[b]] + 1
  IN height
MCWork == [b \in MCBlock |-> MCHeight[b] + (IF b \in {"b2", "b3"} THEN 2 ELSE 1)]
MCChain ==
  LET chain[b \in MCBlock] ==
        IF b = "g" THEN [n \in 0 .. 3 |-> IF n = 0 THEN "g" ELSE None]
                   ELSE [chain[MCParent[b]] EXCEPT ![MCHeight[b]] = b]
  IN chain

MCTx == {"p", "q", "k", "r"}
MCCoin == {"x", "y", "pay"}
MCMaker == "x" :> "a1" @@ "y" :> "g" @@ "pay" :> "p"
MCInputs == "p" :> {"x"} @@ "q" :> {"x", "y"} @@ "k" :> {"pay"} @@ "r" :> {"y"}
MCTxOf ==
  "g" :> <<>> @@ "a1" :> <<>> @@ "a2" :> <<"r">>
  @@ "b2" :> <<"r">> @@ "b3" :> <<"p", "k">>
MCSize == "p" :> 2 @@ "q" :> 1 @@ "k" :> 1 @@ "r" :> 2
MCRate == "p" :> 2 @@ "q" :> 3 @@ "k" :> 1 @@ "r" :> 1
MCTxid == "p" :> 1 @@ "q" :> 2 @@ "k" :> 3 @@ "r" :> 4
MCShortId == [t \in MCTx |-> IF t \in {"p", "q"} THEN 1 ELSE MCTxid[t]]
Form(b, body, prefilled) == [block |-> b, body |-> body, prefilled |-> prefilled]
MCCompacts ==
  {Form("b3", <<"p", "k">>, {}), Form("b2", <<"r">>, {1})}
MCAnswers == {<<"p">>, <<"p", "k">>}
==============================================================================
