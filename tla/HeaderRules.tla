----------------------------- MODULE HeaderRules -----------------------------
(***************************************************************************)
(* infra/headers.av, absorbed to placedInto: which Headers of a batch the  *)
(* tree takes.  A Header is judged by the timestamps and bits of the       *)
(* Headers below it, and a Header below it may be in the tree, in the      *)
(* batch, or in both; the verdict is given on what the lookup finds.       *)
(*                                                                         *)
(* A Header is written as the sequence of [time, bits] from genesis up to  *)
(* it: a Block Id commits to the whole ancestry.  Which branch is followed *)
(* and the marks on refused Blocks are HeaderIndex's matter.               *)
(***************************************************************************)
EXTENDS Target, FiniteSets, SequencesExt

CONSTANTS
  Window,     \* how many timestamps the median is taken of (11)
  Ahead,      \* how far a timestamp may be ahead of the clock (7200 s)
  Now,        \* the clock when a batch arrives; it stands still here
  Start,      \* genesis' timestamp
  Times,      \* timestamps a Peer may put in a Header
  Offered,    \* Offered[n]: bits a Peer of Network n may put in a Header
  Hash,       \* the smallest Block Id the Peers' work has found
  TopHeight,  \* bound on the Heights offered
  MaxHeld     \* bound on the Headers the tree holds

ASSUME RulesShape ==
  /\ Window \in Nat \ {0}
  /\ {Ahead, Now, Start, Hash, TopHeight, MaxHeld} \subseteq Nat
  /\ Times \subseteq Nat
  /\ \A n \in Network : Offered[n] \subseteq Nat

VARIABLES
  network,    \* the Network the node was started for
  held,       \* k: the Headers the tree holds
  hasty       \* history: the Headers taken ahead of an ancestor in their batch

rulesVars == <<network, held, hasty>>

Root(n) == <<[time |-> Start, bits |-> Limit[n]]>>
HeightOf(h) == Len(h) - 1
Prev(h) == Front(h)
Below(h, steps) == SubSeq(h, 1, Len(h) - steps)    \* the ancestor steps down
Children(h) == {Append(h, [time |-> t, bits |-> b]) :
                  t \in Times, b \in Offered[network]}

(******************************** the lookups *******************************)
(* Slip: only what the tree held before the batch is looked at.            *)
Linked_HeldOnly(h, batch, known) == h \in held

(* linkOf: a Header of the batch counts only once the batch's walk placed  *)
(* it; any other is looked for in the tree.                                *)
Linked(h, batch, known) == IF h \in batch THEN h \in known ELSE h \in held

(* How many Headers a walk down from h finds before a lookup fails.        *)
Reach(h, batch, known) ==
  CHOOSE n \in 0 .. Len(h) :
    /\ \A i \in 0 .. n - 1 : Linked(Below(h, i), batch, known)
    /\ n < Len(h) => ~ Linked(Below(h, n), batch, known)

(* medianOf: the upper middle of the timestamps, nought for none.          *)
MedianOf(times) ==
  IF times = << >> THEN 0
  ELSE CHOOSE m \in ToSet(times) :
         LET Count(Test(_)) == Cardinality({i \in DOMAIN times : Test(times[i])})
         IN /\ Count(LAMBDA t : t < m) <= Len(times) \div 2
            /\ Count(LAMBDA t : t <= m) > Len(times) \div 2

(* recentTimes: at most Window timestamps, the reach of the walk at most.  *)
RecentTimes(h, reach) ==
  LET n == Less(reach, Window)
  IN [i \in 1 .. n |-> h[Len(h) - n + i].time]

(* Slip: the parent's own bits, easiest or not.                            *)
LastRealBits_Parent(h, reach) == Last(h).bits

(* lastRealBits, realOrBack: the first Header down that is not at the      *)
(* limit or starts a window; the limit where the walk runs out.            *)
LastRealBits(h, reach) ==
  LET limit == Limit[network]
      Real(i) == h[i].bits # limit \/ (i - 1) % Interval = 0
      reals == {i \in Len(h) - reach + 1 .. Len(h) : Real(i)}
  IN IF reals = {} THEN limit
     ELSE h[CHOOSE i \in reals : \A j \in reals : j <= i].bits

(* ancestorAt: the Header a window's span is measured from.                *)
WindowReach == Interval - 1

(* lineageFor, plainLineage, windowed, withLast *)
Lineage(rule, parent, reach) ==
  [parentBits |-> Last(parent).bits,
   parentTime |-> Last(parent).time,
   firstTime  |-> IF rule = "retarget" THEN Last(Below(parent, WindowReach)).time
                                       ELSE Last(parent).time,
   lastBits   |-> IF rule = "minOrLast" THEN LastRealBits(parent, reach)
                                        ELSE Last(parent).bits]

(******************************** the verdict *******************************)
(* vetted: the lineage, then refusal, timely, afterMedian, underTheClock.  *)
Vetted(h, reach) ==
  LET parent == Prev(h)
      rule == RuleFor(network, HeightOf(h))
  IN /\ rule = "retarget" => reach > WindowReach
     /\ Last(h).bits =
          ExpectedBits(network, rule, Lineage(rule, parent, reach), Last(h).time)
     /\ Last(h).time > MedianOf(RecentTimes(parent, reach))
     /\ Last(h).time <= Now + Ahead

(* The median-time-past of a Header: what BIP113 and BIP68 measure by.      *)
MedianPast(h) == MedianOf(RecentTimes(h, Len(h)))

(* treeFor, withParent, attached, placedInto over the whole batch: known   *)
(* is what the walk has placed or fetched, and one fault refuses it all.   *)
Walked(batch) ==
  LET Place(walk, h) ==
        LET parents == IF Prev(h) \in held THEN {Prev(h)} ELSE {}
            known == walk.known \cup parents
        IN IF Len(h) = 1 \/ Prev(h) \notin known THEN walk
           ELSE [known |-> known \cup {h},
                 sound |-> /\ walk.sound
                           /\ Vetted(h, Reach(Prev(h), ToSet(batch), known))]
  IN FoldLeft(Place, [known |-> {}, sound |-> TRUE], batch)

(* The Headers of a batch that come before an ancestor of theirs below     *)
(* their parent: the walk down from them stops there (linkOf, 254).        *)
Premature(batch) ==
  {batch[i] : i \in {j \in DOMAIN batch :
     \E k \in j + 1 .. Len(batch), steps \in 2 .. HeightOf(batch[j]) :
       batch[k] = Below(batch[j], steps)}}

(* absorbed: proven first, then walked; refused whole, or the Headers of   *)
(* the batch that were placed are put in one write.                        *)
AbsorbBatch(batch) ==
  LET walk == Walked(batch)
  IN /\ \A i \in DOMAIN batch : MeetsTarget(Hash, Last(batch[i]).bits)
     /\ walk.sound
     /\ held' = held \cup (ToSet(batch) \cap walk.known)
     /\ hasty' = hasty \cup (Premature(batch) \cap (held' \ held))
     /\ UNCHANGED network

(******************************* what Peers send ****************************)
(* A batch is taken in the order its Headers come in, whatever that is.    *)
NewHeaders == {h \in UNION {Children(p) : p \in held} : HeightOf(h) <= TopHeight}

BatchOfOne == {<<h>> : h \in NewHeaders}

(* A Header whose parent the tree does not hold.                           *)
BatchOfOrphan ==
  {<<Append(p, Last(p))>> : p \in Children(Root(network)) \ held}

(* Two Headers on one another, the first of them new or held.              *)
BatchOfTwo ==
  UNION {{<<h, c>> : c \in {d \in Children(h) : HeightOf(d) <= TopHeight}} :
           h \in NewHeaders \cup (held \ {Root(network)})}

(* A Header and then one it stands on, down to genesis.                    *)
BatchHigherFirst ==
  UNION {{<<h, Below(h, i)>> : i \in 1 .. HeightOf(h)} : h \in NewHeaders}

(* A Header and then its parent, new or held.                              *)
BatchChildFirst ==
  UNION {{<<c, h>> : c \in {d \in Children(h) : HeightOf(d) <= TopHeight}} :
           h \in NewHeaders}

RulesInit ==
  /\ network \in Network
  /\ held = {Root(network)}
  /\ hasty = {}

RulesNext ==
  /\ Cardinality(held) < MaxHeld
  /\ \E batch \in BatchOfOne \cup BatchOfOrphan \cup BatchOfTwo
                   \cup BatchHigherFirst \cup BatchChildFirst : AbsorbBatch(batch)

RulesSpec == RulesInit /\ [][RulesNext]_rulesVars

(********************************* properties *******************************)
(* A tree of Headers, each on its parent, inside the bounds.               *)
RulesTypeOK ==
  /\ network \in Network
  /\ Root(network) \in held /\ hasty \subseteq held
  /\ Cardinality(held) <= MaxHeld + 1
  /\ \A h \in held \ {Root(network)} :
       Prev(h) \in held /\ h \in Children(Prev(h)) /\ HeightOf(h) <= TopHeight

NotRoot == held \ {Root(network)}

(* Every Header the tree holds passes the rules on its whole branch,       *)
(* whether its parent was in its batch, in the tree or in both, before it  *)
(* or after, unless its batch named a lower ancestor behind it: nothing    *)
(* else in a batch changes the verdict (headers.av 75-78).                 *)
RulesKept == \A h \in NotRoot \ hasty : Vetted(h, Len(h) - 1)

(* headers.av 75-78 has no such exception: a Header whose bits or timestamp *)
(* the rule does not allow is an Err.  This does not hold.                 *)
RulesAlwaysKept == \A h \in NotRoot : Vetted(h, Len(h) - 1)

(* Where no Header from here down to the first of its window was hasty.    *)
InOrder(h) == \A i \in 0 .. (HeightOf(h) % Interval) - 1 : Below(h, i) \notin hasty

(* Between two retargets a Header that is not late carries the bits its    *)
(* own window started with, however many Headers at the limit lie between; *)
(* only a late one, and not on Mainnet, is easier (lastRealBits), as long  *)
(* as the Headers of that window came in order.                            *)
EasyOnlyWhenLate ==
  \A h \in NotRoot :
    HeightOf(h) % Interval # 0 /\ InOrder(h) =>
      LET start == Last(Below(h, HeightOf(h) % Interval)).bits
          late == Last(h).time > Last(Prev(h)).time + Late
      IN Last(h).bits =
           IF late /\ network # "Mainnet" THEN Limit[network] ELSE start

(* The compact form of a target names the largest target it can that is    *)
(* not above it, so bits unpacked and packed again are the same bits and a *)
(* retarget never eases a window by rounding (canonical, compactOf).       *)
PackedIsLargest ==
  held = {Root(network)} =>
    LET nameable == {TargetOf(b) : b \in {c \in 0 .. MaxSize * Mantissas + Mantissas - 1 :
                                            ~ CompactFault(c)}}
    IN \A target \in 0 .. TargetOf(Limit[network]) :
         LET packed == TargetOf(CompactOf(target))
         IN packed \in nameable /\ packed <= target
            /\ \A other \in nameable : other <= target => other <= packed

(* Bits that a Block Id can meet are bits that add work, and an easier     *)
(* target never adds more: block.av and chainwork.av each decide for       *)
(* themselves which bits name a target (compactFault, usable).             *)
ProofWeighs ==
  held = {Root(network)} =>
    LET provable == {b \in 0 .. (MaxSize + Digits) * Mantissas : MeetsTarget(Hash, b)}
    IN \A b, c \in provable :
         /\ WorkOf(b) > 0
         /\ TargetOf(b) <= TargetOf(c) => WorkOf(b) >= WorkOf(c)
=============================================================================
