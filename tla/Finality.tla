------------------------------ MODULE Finality ------------------------------
(***************************************************************************)
(* domain/finality.av over the branches of HeaderRules: which lock times   *)
(* and which relative locks let a Transaction into a Block, by the clock   *)
(* infra/utxo.av gathers for it (clockFor).                                *)
(***************************************************************************)
EXTENDS HeaderRules

CONSTANTS
  Threshold,    \* below it a lock time is a Height (500000000)
  CsvHeight,    \* CsvHeight[n]: BIP68 and BIP113 hold from here on
  LockTimes,    \* lock times a Transaction may carry
  Waits         \* how many Blocks, or seconds, a relative lock may ask

ASSUME FinalityShape ==
  /\ Threshold \in Nat /\ LockTimes \subseteq Nat /\ Waits \subseteq Nat
  /\ CsvHeight \in [Network -> Nat]

(* medianBefore: of the Block below, nought below genesis.                 *)
MedianBefore(h) == IF Len(h) = 1 THEN 0 ELSE MedianPast(Prev(h))

(* Domain.Rules.at(network, height).checkSequenceVerify *)
Csv(h) == HeightOf(h) >= CsvHeight[network]

(* Slip: the Block's own timestamp for good.                               *)
CutoffOf_OwnTime(h) == Last(h).time

(* cutoffOf: the Block's own timestamp before BIP113, the median after.    *)
CutoffOf(h) == IF Csv(h) THEN MedianBefore(h) ELSE Last(h).time

(* passed *)
Passed(lockTime, height, cutoff) ==
  IF lockTime < Threshold THEN lockTime < height ELSE lockTime < cutoff

(* isFinal: allMax is that every Input's sequence is the greatest.         *)
IsFinal(lockTime, allMax, h) ==
  lockTime = 0 \/ Passed(lockTime, HeightOf(h), CutoffOf(h)) \/ allMax

(* mediansFor: the median before the Block a coin was made in; a coin made *)
(* in this very Block has the median in hand.                              *)
CoinMedian(coinHeight, h) == MedianBefore(SubSeq(h, 1, coinHeight + 1))

(* oneInput, timeLock, for a Transaction of version two or more.           *)
Waited(kind, wait, coinHeight, h) ==
  \/ ~ Csv(h)
  \/ kind = "off"
  \/ kind = "blocks" /\ coinHeight + wait <= HeightOf(h)
  \/ kind = "seconds" /\ CoinMedian(coinHeight, h) + wait <= MedianBefore(h)

(* Once BIP113 and BIP68 hold, a lock that let a Transaction into a Block  *)
(* lets it into the next Block on top: no timestamp a miner picks locks it *)
(* again, whether it counts Blocks or seconds, from nought or from a coin, *)
(* as long as the Block below was judged on its whole branch.              *)
LocksOpenForGood ==
  \A h \in NotRoot :
    Csv(Prev(h)) /\ Prev(h) \notin hasty =>
      /\ \A lockTime \in LockTimes :
           IsFinal(lockTime, FALSE, Prev(h)) => IsFinal(lockTime, FALSE, h)
      /\ \A kind \in {"blocks", "seconds"}, wait \in Waits,
           coin \in 0 .. HeightOf(Prev(h)) :
             Waited(kind, wait, coin, Prev(h)) => Waited(kind, wait, coin, h)
=============================================================================
