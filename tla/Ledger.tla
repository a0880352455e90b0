-------------------------------- MODULE Ledger --------------------------------
(***************************************************************************)
(* What the UTXO Set promises its readers: it is always the coins of one   *)
(* Block of the tree, genesis at first, and it moves up to a Block whose   *)
(* branch holds the one it stood on, or down by one Block.                 *)
(***************************************************************************)
EXTENDS BlockTree

CONSTANTS
  Coin,      \* the keys Outputs are filed under (txid and index)
  CoinsAt,   \* CoinsAt[b][c]: the Block that made c, unspent at b, or None
  Sound      \* the Blocks whose whole branch the rules accept

VARIABLES at, coins

TypeOK == at \in Block /\ coins \in [Coin -> Block \cup {None}]

Init == at = Genesis /\ coins = CoinsAt[Genesis]

(* Up: any number of Blocks at once, as one flush makes durable.           *)
Advance(b) ==
  /\ b \in Sound
  /\ Chain[b][Height[at]] = at
  /\ at' = b
  /\ coins' = CoinsAt[b]

(* Down: one Block, as one disconnection makes durable.                    *)
Retreat ==
  /\ at # Genesis
  /\ at' = Parent[at]
  /\ coins' = CoinsAt[Parent[at]]

Next == Retreat \/ \E b \in Block : Advance(b)

Spec == Init /\ [][Next]_<<at, coins>>
==============================================================================
