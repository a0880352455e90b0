------------------------------- MODULE Mempool -------------------------------
(***************************************************************************)
(* The Mempool as a value: domain/mempool.av (what is held, what conflicts, *)
(* what leaves) and the questions infra/mempool.av asks first.  Everything *)
(* here is an operator on a pool: a record of the Transactions held, the   *)
(* claims that index them by the Outputs they mean to spend, and the bytes *)
(* they take.  Relay says when the operators are used.                     *)
(***************************************************************************)
EXTENDS Integers, FiniteSets, FiniteSetsExt

CONSTANTS
  Tx,           \* the Transactions there are, coinbases left out
  Coin,         \* the Outputs there are (txid and index)
  Inputs,       \* Inputs[t]: the Outputs t spends
  Size,         \* Size[t]: bytes
  Rate,         \* Rate[t]: satoshis per 1000 bytes
  Txid,         \* Txid[t]: the place of t's identifier in their order
  Standard,     \* Transactions that pass what is asked of them alone: shape,
                \* value, fee floor, Scripts
  Cap,          \* bytes the Mempool may hold (300 MB in the code)
  RelayFloor,   \* the rate asked while there is room (0 in the code)
  Increment,    \* what a full Mempool asks above its floor (1000 in the code)
  NoTx          \* no Transaction: an Output nobody claims

ASSUME TxShape ==
  /\ IsFiniteSet(Tx)
  /\ NoTx \notin Tx
  /\ Inputs \in [Tx -> SUBSET Coin]
  /\ Size \in [Tx -> Nat \ {0}]
  /\ Rate \in [Tx -> Nat]
  /\ Txid \in [Tx -> Nat]
  /\ \A t, u \in Tx : Txid[t] = Txid[u] => t = u
  /\ Standard \subseteq Tx
  /\ Cap \in Nat /\ RelayFloor \in Nat /\ Increment \in Nat

Pools == [held : SUBSET Tx, claims : [Coin -> Tx \cup {NoTx}], bytes : Int]

Empty == [held |-> {}, claims |-> [c \in Coin |-> NoTx], bytes |-> 0]

SizeOf(S) == MapThenSumSet(LAMBDA t : Size[t], S)

(* cheaperOf: t leaves before u, by rate and then the greater identifier.   *)
Cheaper(t, u) == Rate[t] < Rate[u] \/ (Rate[t] = Rate[u] /\ Txid[t] > Txid[u])

(* lowest: the held Transaction that would leave first, if any.             *)
Lowest(pool) == {t \in pool.held : \A u \in pool.held \ {t} : Cheaper(t, u)}

(* floorRate: what the next Transaction must better.                        *)
FloorRate(pool) ==
  IF pool.bytes < Cap \/ pool.held = {} THEN RelayFloor
  ELSE CHOOSE r \in {Rate[t] : t \in Lowest(pool)} : TRUE

(* conflictOf: an Output it spends is claimed by a held Transaction.        *)
Conflicts(pool, t) == \E c \in Inputs[t] : pool.claims[c] # NoTx

(* admitUnclaimed: no room, and not worth making room for.                  *)
TooCheap(pool, t) ==
  /\ pool.bytes + Size[t] > Cap
  /\ Rate[t] < FloorRate(pool) + Increment

(* lodged with claimed: held, whatever room there is.                       *)
Lodged(pool, t) ==
  [held |-> pool.held \cup {t},
   claims |-> [c \in Coin |-> IF c \in Inputs[t] THEN t ELSE pool.claims[c]],
   bytes |-> pool.bytes + Size[t]]

(* Slip: what leaves to make room keeps its claims.                         *)
Without_Unreleased(pool, gone) ==
  [pool EXCEPT !.held = @ \ gone, !.bytes = @ - SizeOf(gone)]

(* without with released, for each of a set: their Outputs are free again.  *)
Without(pool, gone) ==
  [held |-> pool.held \ gone,
   claims |-> [c \in Coin |-> IF \E t \in gone : c \in Inputs[t]
                              THEN NoTx ELSE pool.claims[c]],
   bytes |-> pool.bytes - SizeOf(gone)]

(* Slip: the dearest leave first.                                           *)
Overflow_Dearest(pool) ==
  {t \in pool.held :
     pool.bytes - SizeOf({u \in pool.held : Cheaper(t, u)}) > Cap}

(* evicted: the lowest leaves until the rest fit, so t leaves when what is  *)
(* not cheaper than t does not fit.                                         *)
Overflow(pool) ==
  {t \in pool.held :
     pool.bytes - SizeOf({u \in pool.held : Cheaper(u, t)}) > Cap}

(* settled: the pool after a newcomer was lodged and room made, which may   *)
(* have put the newcomer out again (heldOrRefused).                         *)
Settled(pool, t) == Without(Lodged(pool, t), Overflow(Lodged(pool, t)))

(* admitting, admit: each refusal in turn.  coins is what may be spent of   *)
(* what the Set's Store holds: neither an unflushed Window nor another held *)
(* Transaction is asked for an Output.                                      *)
Admits(pool, t, coins) ==
  /\ t \notin pool.held
  /\ t \in Standard
  /\ Inputs[t] \subseteq coins
  /\ ~Conflicts(pool, t)
  /\ ~TooCheap(pool, t)
  /\ t \in Settled(pool, t).held

(* poolAfter: a refusal leaves the pool as it was.                          *)
Offered(pool, t, coins) ==
  IF Admits(pool, t, coins) THEN Settled(pool, t) ELSE pool

(* takenBy: the held Transactions that claim one of the Outputs spent.      *)
TakenBy(pool, spent) == {pool.claims[c] : c \in spent} \ {NoTx}

(* confirmed with rebuilt: the pool made again from what has not gone.      *)
Confirmed(pool, gone) ==
  IF gone = {} THEN pool
  ELSE [held |-> pool.held \ gone,
        claims |-> [c \in Coin |-> IF pool.claims[c] \in gone
                                   THEN NoTx ELSE pool.claims[c]],
        bytes |-> SizeOf(pool.held \ gone)]

(* sweeping: whoever spends an Output the Set does not hold leaves.         *)
Unbacked(pool, coins) == {t \in pool.held : ~(Inputs[t] \subseteq coins)}

(* The claims name what is held by what it spends, and nothing else, so no  *)
(* Output stays locked by who has left; the bytes are the size of what is   *)
(* held; and that is no more than there is room for.                        *)
Indexed(p) ==
  \A c \in Coin, t \in Tx : p.claims[c] = t <=> (t \in p.held /\ c \in Inputs[t])
Weighed(p) == p.bytes = SizeOf(p.held)
Fits(p) == p.bytes <= Cap
==============================================================================
