-------------------------- MODULE HeaderIndexProofs --------------------------
(***************************************************************************)
(* Proofs about HeaderIndex, for every tree of Blocks: types, the shape of *)
(* the tree and of h: in every state a death may leave, and that h: is the *)
(* branch of the heaviest tip while no process has died; and about         *)
(* HeaderRules and Finality, for any Networks, windows, timestamps and     *)
(* bits: whom the rules take, that no lock closes again, and that packing  *)
(* a target never eases it.                                                *)
(***************************************************************************)
EXTENDS HeaderIndex, Finality, BlockTreeProofs, SequenceTheorems

(* Genesis and the tip record are held from the first write on.            *)
Seeded ==
  /\ pc # "starting" => Genesis \in tree
  /\ Genesis \in tree => bestTip # None
  /\ tree # {} => Genesis \in tree

(* What h: is at each point of a call, while no process has died.          *)
HeightsAt ==
  crashes = 0 =>
    /\ pc \in {"starting", "naming"} =>
         (\A n \in Heights : heights[n] = None) /\ invalid = {}
    /\ pc = "starting" => tree = {} /\ bestTip = None
    /\ pc = "naming" => tree = {Genesis} /\ bestTip = Genesis
    /\ pc \in {"idle", "heights"} => Names(bestTip)
    /\ pc = "sweep" =>
         \A n \in 0 .. Height[target] : heights[n] = Chain[target][n]
    /\ pc = "tip" => Names(target)

(* What the Placement in flight is worth beside the tip record.            *)
TargetWeighs ==
  crashes = 0 =>
    /\ (invalid = {} /\ pc \in Writing) =>
         \A b \in tree : Work[b] <= Work[target]
    /\ pc \in Writing =>
         Work[bestTip] <= Work[target] \/ Branch(bestTip) \cap invalid # {}

TargetHeld == target \in tree \cup {None}

HeldInv == TypeOK /\ TreeWhole /\ Seeded /\ TargetHeld /\ NoGap

BranchInv == HeightsAt /\ TargetWeighs /\ MostWorkFollowed

IInv == HeldInv /\ BranchInv

-----------------------------------------------------------------------------
LEMMA HeldInit == Init => HeldInv
BY TreeShape, BadShape
   DEF Init, HeldInv, TypeOK, TreeWhole, Seeded, TargetHeld, NoGap, Writing

LEMMA HeldPlant == HeldInv /\ Plant => HeldInv'
<1> SUFFICES ASSUME HeldInv, Plant PROVE HeldInv'
  OBVIOUS
<1> USE DEF HeldInv, Plant
<1>1. CASE Genesis \in tree
  <2>1. tree' = tree /\ bestTip' = bestTip
    BY <1>1
  <2> QED
    BY <2>1, <1>1 DEF TypeOK, Writing, TreeWhole, Seeded, TargetHeld, NoGap
<1>2. CASE Genesis \notin tree
  <2>1. tree' = {Genesis} /\ bestTip' = Genesis
    BY <1>2 DEF Seeded
  <2>2. TypeOK' /\ Seeded' /\ TargetHeld' /\ NoGap'
    BY <1>2, <2>1, TreeShape DEF TypeOK, Writing, Seeded, TargetHeld, NoGap
  <2>3. TreeWhole'
    BY <1>2, <2>1, TreeShape DEF TreeWhole, Seeded
  <2> QED
    BY <2>2, <2>3
<1> QED
  BY <1>1, <1>2

LEMMA HeldNameGenesis == HeldInv /\ NameGenesis => HeldInv'
<1> SUFFICES ASSUME HeldInv, NameGenesis PROVE HeldInv'
  OBVIOUS
<1> USE DEF HeldInv, NameGenesis
<1>1. TypeOK'
  BY TreeShape DEF TypeOK, Writing, Heights
<1>2. TreeWhole'
  BY TreeShape DEF TypeOK, TreeWhole, Heights
<1>3. Seeded' /\ TargetHeld'
  BY DEF Seeded, TargetHeld
<1>4. NoGap'
  BY TreeShape DEF NoGap, TypeOK, Heights
<1> QED
  BY <1>1, <1>2, <1>3, <1>4

(* Whatever is chosen is a Block the tree holds once the batch is placed.  *)
LEMMA BestHeld ==
  ASSUME TypeOK, TreeWhole, NEW P \in SUBSET Block, NEW best \in Best(P)
  PROVE  best \in (tree \cup P) /\ best \in Block
BY TreeShape DEF TypeOK, TreeWhole, Best, Standing, Heaviest

LEMMA HeldAbsorb ==
  ASSUME HeldInv, NEW P \in SUBSET Block, NEW best \in Best(P), Absorb(P, best)
  PROVE  HeldInv'
<1> USE DEF HeldInv, Absorb
<1>1. best \in (tree \cup P) /\ best \in Block
  BY BestHeld
<1>2. TypeOK'
  BY <1>1, TreeShape DEF TypeOK, Writing
<1>3. TreeWhole'
  BY DEF TreeWhole, Placeable, Attaches
<1>4. Seeded' /\ TargetHeld'
  BY <1>1 DEF Seeded, TargetHeld
<1>5. NoGap'
  BY DEF NoGap
<1> QED
  BY <1>2, <1>3, <1>4, <1>5

(* A held Block's whole branch is held.                                    *)
LEMMA BranchHeld ==
  ASSUME TypeOK, TreeWhole, NEW b \in tree, NEW n \in 0 .. Height[b]
  PROVE  Chain[b][n] \in tree
BY BranchWithin DEF TypeOK, TreeWhole

LEMMA HeldWriteHeights == HeldInv /\ WriteHeights => HeldInv'
<1> SUFFICES ASSUME HeldInv, WriteHeights PROVE HeldInv'
  OBVIOUS
<1> USE DEF HeldInv, WriteHeights
<1>1. target \in Block /\ target \in tree
  BY DEF TypeOK, Writing, TargetHeld
<1>2. Heights = 0 .. MaxHeight /\ MaxHeight \in Nat /\ Height[target] \in Heights
  BY <1>1, TreeShape DEF Heights
<1>3. Changed(target) \subseteq 0 .. Height[target]
  BY DEF Changed
<1>4. \A n \in Changed(target) :
        heights'[n] = Chain[target][n] /\ heights'[n] \in tree /\ heights'[n] # None
  BY <1>1, <1>2, <1>3, BranchHeld, TreeShape DEF TypeOK
<1>5. \A n \in Heights \ Changed(target) : heights'[n] = heights[n]
  OBVIOUS
<1>6. TypeOK'
  BY <1>1, ChainFacts DEF TypeOK, Writing
<1>7. TreeWhole'
  BY <1>4, <1>5 DEF TreeWhole
<1>8. Seeded' /\ TargetHeld'
  BY DEF Seeded, TargetHeld
<1>9. NoGap'
  <2> SUFFICES ASSUME NEW n \in Heights, heights'[n] # None, NEW m \in 0 .. n
               PROVE  heights'[m] # None
    BY DEF NoGap
  <2>1. m \in Heights
    BY <1>2
  <2>2. CASE m \in Changed(target)
    BY <1>4, <2>2
  <2>3. CASE m \notin Changed(target) /\ n \in Changed(target)
    <3>1. PICK k \in m .. Height[target] : Agrees(k, target)
      BY <1>2, <1>3, <2>1, <2>3 DEF Changed
    <3>2. k \in Heights /\ heights[k] # None /\ m \in 0 .. k
      BY <1>2, <2>1, <3>1 DEF Agrees
    <3> QED
      BY <1>5, <2>1, <2>3, <3>2 DEF NoGap
  <2>4. CASE m \notin Changed(target) /\ n \notin Changed(target)
    BY <1>5, <2>1, <2>4 DEF NoGap
  <2> QED
    BY <2>2, <2>3, <2>4
<1> QED
  BY <1>6, <1>7, <1>8, <1>9

LEMMA HeldSweep == HeldInv /\ Sweep => HeldInv'
<1> SUFFICES ASSUME HeldInv, Sweep PROVE HeldInv'
  OBVIOUS
<1> USE DEF HeldInv, Sweep
<1>1. target \in Block /\ Height[target] \in Nat /\ MaxHeight \in Nat
  BY TreeShape DEF TypeOK, Writing, Heights
<1>2. TypeOK'
  BY DEF TypeOK, Writing
<1>3. TreeWhole' /\ Seeded' /\ TargetHeld'
  BY DEF TreeWhole, Seeded, TargetHeld
<1>4. NoGap'
  <2> SUFFICES ASSUME NEW n \in Heights, heights'[n] # None, NEW m \in 0 .. n
               PROVE  heights'[m] # None
    BY DEF NoGap
  <2>1. m \in Heights /\ n \notin Stale(target) /\ heights[n] # None
    BY <1>1 DEF Heights
  <2>2. \A k \in 0 .. n : heights[k] # None
    BY <2>1 DEF NoGap
  <2>3. n <= Height[target]
    BY <1>1, <2>1, <2>2 DEF Stale, Heights
  <2>4. m \notin Stale(target)
    BY <1>1, <2>3 DEF Stale, Heights
  <2> QED
    BY <2>1, <2>2, <2>4
<1> QED
  BY <1>2, <1>3, <1>4

LEMMA HeldNameTip == HeldInv /\ NameTip => HeldInv'
BY TreeShape
   DEF HeldInv, NameTip, TypeOK, Writing, TreeWhole, Seeded, TargetHeld, NoGap

LEMMA HeldMarkInvalid ==
  ASSUME HeldInv, NEW b \in Bad, MarkInvalid(b)
  PROVE  HeldInv'
<1> USE DEF HeldInv, MarkInvalid
<1>1. Parent[b] \in tree /\ Parent[b] \in Block /\ Parent[b] # None
  BY TreeShape DEF TreeWhole, TypeOK
<1>2. TypeOK'
  BY <1>1, BadShape DEF TypeOK, Writing
<1> QED
  BY <1>1, <1>2 DEF TreeWhole, Seeded, TargetHeld, NoGap

LEMMA HeldCrash == HeldInv /\ Crash => HeldInv'
BY BadShape
   DEF HeldInv, Crash, TypeOK, Writing, TreeWhole, Seeded, TargetHeld, NoGap

LEMMA HeldNext == HeldInv /\ [Next]_vars => HeldInv'
<1> SUFFICES ASSUME HeldInv, [Next]_vars PROVE HeldInv'
  OBVIOUS
<1>1. CASE UNCHANGED vars
  BY <1>1 DEF vars, HeldInv, TypeOK, TreeWhole, Seeded, TargetHeld, NoGap
<1>2. CASE Next
  BY <1>2, HeldPlant, HeldNameGenesis, HeldAbsorb, HeldWriteHeights, HeldSweep,
     HeldNameTip, HeldMarkInvalid, HeldCrash DEF Next, Step
<1> QED
  BY <1>1, <1>2

(* Every variable keeps its type, whatever arrives and whenever the process *)
(* dies.                                                                   *)
THEOREM TypeCorrect == Spec => []TypeOK
<1>1. HeldInv => TypeOK
  BY DEF HeldInv
<1> QED
  BY <1>1, HeldInit, HeldNext, PTL DEF Spec

(* h: never has a gap: not between two writes and not after a death, so the *)
(* sweep's unbroken run is everything above the tip.                       *)
THEOREM NeverAGap == Spec => []NoGap
<1>1. HeldInv => NoGap
  BY DEF HeldInv
<1> QED
  BY <1>1, HeldInit, HeldNext, PTL DEF Spec

(* Whatever h: or the tip record names is held under k:, and so are its    *)
(* parents, in every state a death can leave.                              *)
THEOREM TreeStaysWhole == Spec => []TreeWhole
<1>1. HeldInv => TreeWhole
  BY DEF HeldInv
<1> QED
  BY <1>1, HeldInit, HeldNext, PTL DEF Spec
-----------------------------------------------------------------------------
LEMMA BranchInit == Init => BranchInv
BY DEF Init, BranchInv, HeightsAt, TargetWeighs, MostWorkFollowed, Writing

LEMMA BranchPlant == HeldInv /\ BranchInv /\ Plant => BranchInv'
BY TreeShape
   DEF BranchInv, HeightsAt, TargetWeighs, MostWorkFollowed, Plant, Writing

LEMMA BranchNameGenesis == HeldInv /\ BranchInv /\ NameGenesis => BranchInv'
<1> SUFFICES ASSUME HeldInv, BranchInv, NameGenesis, crashes = 0
             PROVE  BranchInv'
  BY DEF BranchInv, HeightsAt, TargetWeighs, MostWorkFollowed, NameGenesis
<1> USE DEF BranchInv, NameGenesis
<1>1. tree = {Genesis} /\ bestTip = Genesis /\ \A n \in Heights : heights[n] = None
  BY DEF HeightsAt
<1>2. Names(bestTip)'
  <2>1. \A n \in Heights : heights'[n] = Chain[Genesis][n]
    BY <1>1, ChainFacts, TreeShape DEF HeldInv, TypeOK, Heights
  <2>2. heights' \in [Heights -> Block \cup {None}]
    BY TreeShape DEF HeldInv, TypeOK
  <2>3. Chain[Genesis] \in [Heights -> Block \cup {None}]
    BY ChainFacts, TreeShape
  <2>4. heights' = Chain[Genesis]
    BY <2>1, <2>2, <2>3
  <2> QED
    BY <1>1, <2>4 DEF Names
<1> QED
  BY <1>1, <1>2, TreeShape DEF HeightsAt, TargetWeighs, MostWorkFollowed, Writing

(* No candidate outweighs the chosen one.                                  *)
LEMMA BestWeighs ==
  ASSUME TypeOK, bestTip # None, NEW P \in SUBSET Block, NEW best \in Best(P)
  PROVE  /\ \A b \in P : Work[b] <= Work[best]
         /\ Work[bestTip] <= Work[best]
<1>1. Work \in [Block -> Nat] /\ bestTip \in Block /\ Standing = {bestTip}
  BY TreeShape DEF TypeOK, Standing
<1>2. CASE \E b \in P : Work[b] >= Work[bestTip]
  BY <1>1, <1>2 DEF Best, Heaviest
<1>3. CASE ~ \E b \in P : Work[b] >= Work[bestTip]
  BY <1>1, <1>3 DEF Best
<1> QED
  BY <1>2, <1>3

LEMMA BranchAbsorb ==
  ASSUME HeldInv, BranchInv, NEW P \in SUBSET Block, NEW best \in Best(P),
         Absorb(P, best)
  PROVE  BranchInv'
<1> SUFFICES ASSUME crashes = 0 PROVE BranchInv'
  BY DEF BranchInv, HeightsAt, TargetWeighs, MostWorkFollowed, Absorb
<1> USE DEF BranchInv, Absorb
<1>1. bestTip # None /\ TypeOK /\ TreeWhole
  BY DEF HeldInv, Seeded
<1>2. /\ \A b \in P : Work[b] <= Work[best]
      /\ Work[bestTip] <= Work[best]
  BY <1>1, BestWeighs
<1>3. /\ best \in Block /\ bestTip \in Block /\ P \subseteq Block
      /\ tree \subseteq Block /\ Work \in [Block -> Nat]
  BY <1>1, BestHeld, TreeShape DEF TypeOK
<1>4. invalid = {} => \A b \in tree \cup P : Work[b] <= Work[best]
  BY <1>2, <1>3 DEF MostWorkFollowed
<1> QED
  BY <1>2, <1>4 DEF HeightsAt, TargetWeighs, MostWorkFollowed, Names, Writing

LEMMA BranchWriteHeights == HeldInv /\ BranchInv /\ WriteHeights => BranchInv'
<1> SUFFICES ASSUME HeldInv, BranchInv, WriteHeights, crashes = 0
             PROVE  BranchInv'
  BY DEF BranchInv, HeightsAt, TargetWeighs, MostWorkFollowed, WriteHeights
<1> USE DEF BranchInv, WriteHeights
<1>1. /\ target \in Block /\ bestTip \in Block /\ heights = Chain[bestTip]
      /\ Heights = 0 .. MaxHeight /\ MaxHeight \in Nat
      /\ Height[target] \in Heights
  BY TreeShape
     DEF HeldInv, TypeOK, Writing, Seeded, HeightsAt, Names, Heights
<1>2. ASSUME NEW n \in 0 .. Height[target]
      PROVE  heights'[n] = Chain[target][n]
  <2>1. n \in Heights
    BY <1>1
  <2>2. CASE n \in Changed(target)
    BY <2>1, <2>2
  <2>3. CASE n \notin Changed(target)
    <3>1. PICK m \in n .. Height[target] : Agrees(m, target)
      BY <2>3 DEF Changed
    <3>2. m \in Heights /\ n \in 0 .. m
      BY <1>1, <3>1
    <3>3. Chain[bestTip][m] = Chain[target][m] /\ Chain[bestTip][m] # None
      BY <1>1, <3>1 DEF Agrees
    <3>4. Chain[bestTip][n] = Chain[target][n]
      BY <1>1, <3>2, <3>3, SharedBelow
    <3> QED
      BY <1>1, <2>1, <2>3, <3>4
  <2> QED
    BY <2>2, <2>3
<1> QED
  BY <1>2 DEF HeightsAt, TargetWeighs, MostWorkFollowed, Writing

LEMMA BranchSweep == HeldInv /\ BranchInv /\ Sweep => BranchInv'
<1> SUFFICES ASSUME HeldInv, BranchInv, Sweep, crashes = 0
             PROVE  BranchInv'
  BY DEF BranchInv, HeightsAt, TargetWeighs, MostWorkFollowed, Sweep
<1> USE DEF BranchInv, Sweep
<1>1. /\ target \in Block /\ heights \in [Heights -> Block \cup {None}]
      /\ Heights = 0 .. MaxHeight /\ MaxHeight \in Nat
      /\ Height[target] \in Heights
  BY TreeShape DEF HeldInv, TypeOK, Writing, Heights
<1>2. ASSUME NEW n \in Heights
      PROVE  heights'[n] = Chain[target][n]
  <2>1. CASE n <= Height[target]
    <3>1. n \notin Stale(target) /\ n \in 0 .. Height[target]
      BY <1>1, <2>1 DEF Stale
    <3> QED
      BY <3>1 DEF HeightsAt
  <2>2. CASE n > Height[target] /\ n \in Stale(target)
    BY <1>1, <2>2, ChainFacts
  <2>3. CASE n > Height[target] /\ n \notin Stale(target)
    <3>1. PICK m \in Height[target] + 1 .. n : heights[m] = None
      BY <1>1, <2>3 DEF Stale
    <3>2. heights[n] = None
      BY <1>1, <3>1 DEF HeldInv, NoGap
    <3> QED
      BY <1>1, <2>3, <3>2, ChainFacts
  <2> QED
    BY <1>1, <2>1, <2>2, <2>3
<1>3. Names(target)'
  BY <1>1, <1>2, ChainFacts DEF Names
<1> QED
  BY <1>3 DEF HeightsAt, TargetWeighs, MostWorkFollowed, Writing

LEMMA BranchNameTip == HeldInv /\ BranchInv /\ NameTip => BranchInv'
BY DEF HeldInv, BranchInv, HeightsAt, TargetWeighs, MostWorkFollowed, NameTip,
       Writing, Names

LEMMA BranchMarkInvalid ==
  ASSUME HeldInv, BranchInv, NEW b \in Bad, MarkInvalid(b)
  PROVE  BranchInv'
<1> SUFFICES ASSUME crashes = 0 PROVE BranchInv'
  BY DEF BranchInv, HeightsAt, TargetWeighs, MostWorkFollowed, MarkInvalid
<1> USE DEF BranchInv, MarkInvalid
<1>1. /\ b \in Block /\ bestTip \in Block /\ heights = Chain[bestTip]
      /\ Height[b] \in Heights /\ Height[bestTip] \in Heights
      /\ Heights = 0 .. MaxHeight /\ MaxHeight \in Nat
  BY TreeShape, BadShape
     DEF HeldInv, TypeOK, Seeded, HeightsAt, Names, Heights
<1>2. Height[b] \in 0 .. Height[bestTip]
  BY <1>1, ChainFacts, TreeShape
<1>3. b \in Branch(bestTip) \cap invalid'
  BY <1>1, <1>2 DEF Branch
<1> QED
  BY <1>3 DEF HeightsAt, TargetWeighs, MostWorkFollowed, Names, Writing

LEMMA BranchCrash == HeldInv /\ BranchInv /\ Crash => BranchInv'
BY BadShape
   DEF HeldInv, TypeOK, BranchInv, HeightsAt, TargetWeighs, MostWorkFollowed, Crash

LEMMA BranchNext == HeldInv /\ BranchInv /\ [Next]_vars => BranchInv'
<1> SUFFICES ASSUME HeldInv, BranchInv, [Next]_vars PROVE BranchInv'
  OBVIOUS
<1>1. CASE UNCHANGED vars
  BY <1>1 DEF vars, BranchInv, HeightsAt, TargetWeighs, MostWorkFollowed, Names
<1>2. CASE Next
  BY <1>2, BranchPlant, BranchNameGenesis, BranchAbsorb, BranchWriteHeights,
     BranchSweep, BranchNameTip, BranchMarkInvalid, BranchCrash DEF Next, Step
<1> QED
  BY <1>1, <1>2

(* While no process has died, h: is at rest exactly the branch of the tip  *)
(* record: no Height of a branch given up is left for the walk to connect. *)
THEOREM IndexIsTheBranch == Spec => []IndexFollowsTip
<1>1. HeldInv /\ BranchInv => IndexFollowsTip
  BY DEF BranchInv, HeightsAt, IndexFollowsTip
<1> QED
  BY <1>1, HeldInit, HeldNext, BranchInit, BranchNext, PTL DEF Spec

(* While nothing was refused and no process died, no held Block outweighs  *)
(* the tip once a batch is settled.                                        *)
THEOREM MostWorkWins == Spec => []MostWorkFollowed
<1>1. BranchInv => MostWorkFollowed
  BY DEF BranchInv
<1> QED
  BY <1>1, HeldInit, HeldNext, BranchInit, BranchNext, PTL DEF Spec

(* The tip record never moves to less work unless a Block of its own branch *)
(* was refused.                                                            *)
THEOREM WorkIsKept == Spec => WorkGivenUpOnlyToAMark
<1>1. ASSUME HeldInv, BranchInv, [Next]_vars
      PROVE  [(crashes = 0 /\ bestTip # None /\ Work[bestTip'] < Work[bestTip])
                => Branch(bestTip) \cap invalid # {}]_vars
  <2> SUFFICES ASSUME crashes = 0, bestTip # None,
                      Work[bestTip'] < Work[bestTip]
               PROVE  Branch(bestTip) \cap invalid # {}
    OBVIOUS
  <2>1. bestTip' # bestTip
    BY <1>1, TreeShape DEF HeldInv, TypeOK
  <2>2. CASE Plant
    BY <1>1, <2>1, <2>2 DEF Plant, HeldInv, Seeded, TypeOK, TreeWhole
  <2>3. CASE NameTip
    <3>1. target \in Block /\ bestTip \in Block /\ bestTip' = target
      BY <1>1, <2>3 DEF NameTip, HeldInv, TypeOK, Writing
    <3>2. Work[bestTip] <= Work[target] \/ Branch(bestTip) \cap invalid # {}
      BY <1>1, <2>3 DEF NameTip, BranchInv, TargetWeighs, Writing
    <3> QED
      BY <3>1, <3>2, TreeShape
  <2> QED
    BY <1>1, <2>1, <2>2, <2>3
       DEF Next, Step, NameGenesis, Absorb, WriteHeights, Sweep, MarkInvalid,
           Crash, vars
<1> QED
  BY <1>1, HeldInit, HeldNext, BranchInit, BranchNext, PTL
     DEF Spec, WorkGivenUpOnlyToAMark

(**************************** the rules on a Header **************************)
(* A Header is the sequence from genesis up to it; what is held is closed     *)
(* under parents and starts at genesis.                                       *)
Entry == [time : Nat, bits : Nat]

Lineal ==
  /\ network \in Network
  /\ held \subseteq Seq(Entry)
  /\ \A h \in held : Len(h) > 0
  /\ Root(network) \in held
  /\ \A h \in NotRoot : Len(h) > 1 /\ Prev(h) \in held

RulesIInv == Lineal /\ RulesKept

LEMMA AppendFacts ==
  ASSUME NEW p \in Seq(Entry), NEW e \in Entry
  PROVE  /\ Append(p, e) \in Seq(Entry) /\ Len(Append(p, e)) = Len(p) + 1
         /\ \A i \in 1 .. Len(p) : Append(p, e)[i] = p[i]
         /\ Append(p, e)[Len(p) + 1] = e
OBVIOUS

LEMMA PrevFacts ==
  ASSUME NEW h \in Seq(Entry), Len(h) > 1
  PROVE  /\ Prev(h) \in Seq(Entry) /\ Len(Prev(h)) = Len(h) - 1
         /\ \A i \in 1 .. Len(h) - 1 : Prev(h)[i] = h[i]
<1>1. \A i \in 1 .. Len(h) - 1 : h[i] \in Entry
  OBVIOUS
<1>2. /\ SubSeq(h, 1, Len(h) - 1) \in Seq(Entry)
      /\ Len(SubSeq(h, 1, Len(h) - 1)) = Len(h) - 1
      /\ \A i \in 1 .. Len(h) - 1 : SubSeq(h, 1, Len(h) - 1)[i] = h[i]
  BY <1>1, SubSeqProperties
<1> QED
  BY <1>2 DEF Prev, Front

LEMMA BelowFacts ==
  ASSUME NEW h \in Seq(Entry), NEW i \in 0 .. Len(h)
  PROVE  /\ Below(h, i) \in Seq(Entry) /\ Len(Below(h, i)) = Len(h) - i
         /\ \A j \in 1 .. Len(h) - i : Below(h, i)[j] = h[j]
<1>1. \A j \in 1 .. Len(h) - i : h[j] \in Entry
  OBVIOUS
<1>2. /\ SubSeq(h, 1, Len(h) - i) \in Seq(Entry)
      /\ Len(SubSeq(h, 1, Len(h) - i)) = Len(h) - i
      /\ \A j \in 1 .. Len(h) - i : SubSeq(h, 1, Len(h) - i)[j] = h[j]
  BY <1>1, SubSeqProperties
<1> QED
  BY <1>2 DEF Below

(* Every Header below a Header held is held.                                  *)
LEMMA BelowHeld ==
  ASSUME Lineal, NEW h \in held
  PROVE  \A i \in 0 .. Len(h) - 1 : Below(h, i) \in held
<1> DEFINE G == {i \in Nat : Below(h, i) \in held}
           n == Len(h) - 1
<1>1. h \in Seq(Entry) /\ Len(h) \in Nat /\ Len(h) > 0 /\ n \in Nat
  BY DEF Lineal
<1>2. 0 \in G
  <2>1. Below(h, 0) \in Seq(Entry) /\ Len(Below(h, 0)) = Len(h)
        /\ \A j \in 1 .. Len(h) : Below(h, 0)[j] = h[j]
    BY <1>1, BelowFacts
  <2>2. Below(h, 0) = h
    BY <1>1, <2>1, SeqEqual
  <2> QED
    BY <2>2
<1>3. ASSUME NEW i \in 1 .. n, i - 1 \in G PROVE i \in G
  <2>1. PICK p : p = Below(h, i - 1)
    OBVIOUS
  <2>2. i \in 0 .. Len(h) /\ i - 1 \in 0 .. Len(h) /\ i \in Nat
    BY <1>1, <1>3
  <2>3. p \in held
    BY <1>3, <2>1
  <2>4. p \in Seq(Entry) /\ Len(p) = Len(h) - (i - 1)
        /\ \A j \in 1 .. Len(h) - (i - 1) : p[j] = h[j]
    BY <1>1, <2>1, <2>2, BelowFacts
  <2>5. Len(p) > 1
    BY <1>1, <1>3, <2>4
  <2>6. Len(Root(network)) = 1
    BY DEF Root
  <2>7. Prev(p) \in held
    <3>1. p # Root(network)
      <4>1. ASSUME p = Root(network) PROVE FALSE
        <5>1. Len(p) = 1
          BY <2>6, <4>1
        <5> QED
          BY <2>5, <5>1
      <4> QED
        BY <4>1
    <3> QED
      BY <2>3, <3>1 DEF Lineal, NotRoot
  <2>8. Prev(p) = Below(h, i)
    <3>1. Prev(p) \in Seq(Entry) /\ Len(Prev(p)) = Len(h) - i
          /\ \A j \in 1 .. Len(h) - i : Prev(p)[j] = p[j]
      <4>1. Len(p) - 1 = Len(h) - i
        BY <1>1, <2>2, <2>4
      <4> QED
        BY <2>4, <2>5, <4>1, PrevFacts
    <3>2. Below(h, i) \in Seq(Entry) /\ Len(Below(h, i)) = Len(h) - i
          /\ \A j \in 1 .. Len(h) - i : Below(h, i)[j] = h[j]
      BY <1>1, <2>2, BelowFacts
    <3>3. \A j \in 1 .. Len(h) - i : Prev(p)[j] = Below(h, i)[j]
      BY <1>1, <2>2, <2>4, <3>1, <3>2
    <3> QED
      BY <3>1, <3>2, <3>3, SeqEqual
  <2> QED
    BY <2>2, <2>7, <2>8
<1> HIDE DEF G, n
<1>4. \A i \in 0 .. n : i \in G
  BY <1>1, <1>2, <1>3, StepByStep
<1> QED
  BY <1>4 DEF G, n

(* A walk down finds the whole of a branch every Header of which is found.    *)
LEMMA ReachWhole ==
  ASSUME NEW h \in Seq(Entry), NEW batch, NEW known,
         \A i \in 0 .. Len(h) - 1 : Linked(Below(h, i), batch, known)
  PROVE  Reach(h, batch, known) = Len(h)
<1> DEFINE Ends(n) == /\ \A i \in 0 .. n - 1 : Linked(Below(h, i), batch, known)
                      /\ n < Len(h) => ~ Linked(Below(h, n), batch, known)
           far == CHOOSE n \in 0 .. Len(h) : Ends(n)
<1>1. Len(h) \in Nat /\ Len(h) \in 0 .. Len(h) /\ Ends(Len(h))
  OBVIOUS
<1>2. far \in 0 .. Len(h) /\ Ends(far)
  <2> HIDE DEF Ends
  <2> QED
    BY <1>1
<1>3. far = Len(h)
  <2> HIDE DEF far
  <2> QED
    BY <1>1, <1>2
<1> QED
  BY <1>3 DEF Reach

(* The walk of a batch, Header by Header.                                     *)
Unwalked == [known |-> {}, sound |-> TRUE]

Placed(walk, h, batch) ==
  LET parents == IF Prev(h) \in held THEN {Prev(h)} ELSE {}
      known == walk.known \cup parents
  IN IF Len(h) = 1 \/ Prev(h) \notin known THEN walk
     ELSE [known |-> known \cup {h},
           sound |-> /\ walk.sound
                     /\ Vetted(h, Reach(Prev(h), ToSet(batch), known))]

Walks(it, batch) ==
  it = [T \in SUBSET (DOMAIN batch) |->
          IF T = {} THEN Unwalked
          ELSE Placed(it[T \ {Max(T)}], batch[Max(T)], batch)]

LEMMA WalkedIs ==
  ASSUME NEW batch
  PROVE  Walked(batch) = (CHOOSE it : Walks(it, batch))[DOMAIN batch]
BY DEF Walked, FoldLeft, MapThenFoldSet, Walks, Placed, Unwalked

LEMMA WalkedOne ==
  ASSUME NEW h
  PROVE  Walked(<<h>>) = Placed(Unwalked, h, <<h>>)
<1> DEFINE b == <<h>>
           f == [T \in SUBSET {1} |-> IF T = {} THEN Unwalked
                                      ELSE Placed(Unwalked, h, b)]
           g == CHOOSE it : Walks(it, b)
<1>1. DOMAIN b = {1} /\ b[1] = h /\ Max({1}) = 1
  BY DEF Max
<1>2. (\A T \in SUBSET {1} : T = {} \/ T = {1}) /\ {1} \ {1} = {}
  OBVIOUS
<1> HIDE DEF b
<1>3. Walks(f, b)
  <2>1. \A T \in SUBSET {1} :
          f[T] = IF T = {} THEN Unwalked ELSE Placed(f[T \ {Max(T)}], b[Max(T)], b)
    <3>1. f[{}] = Unwalked
      OBVIOUS
    <3>2. f[{1}] = Placed(f[{1} \ {Max({1})}], b[Max({1})], b)
      BY <1>1, <1>2
    <3> HIDE DEF f
    <3> QED
      BY <1>2, <3>1, <3>2
  <2> QED
    BY <1>1, <2>1 DEF Walks
<1>4. Walks(g, b)
  BY <1>3
<1>5. g[{}] = Unwalked /\ g[{1}] = Placed(g[{}], h, b)
  <2> HIDE DEF g, f
  <2>1. g = [T \in SUBSET {1} |->
               IF T = {} THEN Unwalked ELSE Placed(g[T \ {Max(T)}], b[Max(T)], b)]
    BY <1>1, <1>4 DEF Walks
  <2>2. {1} \in SUBSET {1} /\ {} \in SUBSET {1} /\ {1} # {}
    OBVIOUS
  <2>3. g[{}] = Unwalked
    BY <2>1, <2>2
  <2>4. g[{1}] = Placed(g[{1} \ {Max({1})}], b[Max({1})], b)
    BY <2>1, <2>2
  <2> QED
    BY <1>1, <1>2, <2>3, <2>4
<1>6. Walked(b) = g[{1}]
  BY <1>1, WalkedIs
<1> QED
  BY <1>5, <1>6 DEF b

LEMMA WalkedTwo ==
  ASSUME NEW h, NEW c
  PROVE  Walked(<<h, c>>) = Placed(Placed(Unwalked, h, <<h, c>>), c, <<h, c>>)
<1> DEFINE b == <<h, c>>
           f == [T \in SUBSET {1, 2} |->
                   IF T = {} THEN Unwalked
                   ELSE IF T = {1} THEN Placed(Unwalked, h, b)
                   ELSE IF T = {2} THEN Placed(Unwalked, c, b)
                   ELSE Placed(Placed(Unwalked, h, b), c, b)]
           g == CHOOSE it : Walks(it, b)
<1>1. DOMAIN b = {1, 2} /\ b[1] = h /\ b[2] = c
  OBVIOUS
<1>2. Max({1}) = 1 /\ Max({2}) = 2 /\ Max({1, 2}) = 2
  BY DEF Max
<1>3. \A T \in SUBSET {1, 2} : T = {} \/ T = {1} \/ T = {2} \/ T = {1, 2}
  OBVIOUS
<1>4. {1} \ {1} = {} /\ {2} \ {2} = {} /\ {1, 2} \ {2} = {1}
  OBVIOUS
<1> HIDE DEF b
<1>5. Walks(f, b)
  <2>1. \A T \in SUBSET {1, 2} :
          f[T] = IF T = {} THEN Unwalked ELSE Placed(f[T \ {Max(T)}], b[Max(T)], b)
    <3>1. f[{}] = Unwalked
      OBVIOUS
    <3>2. f[{1}] = Placed(f[{1} \ {Max({1})}], b[Max({1})], b)
      BY <1>1, <1>2, <1>4
    <3>3. f[{2}] = Placed(f[{2} \ {Max({2})}], b[Max({2})], b)
      BY <1>1, <1>2, <1>4
    <3>4. f[{1, 2}] = Placed(f[{1, 2} \ {Max({1, 2})}], b[Max({1, 2})], b)
      BY <1>1, <1>2, <1>4
    <3> HIDE DEF f
    <3> QED
      BY <1>3, <3>1, <3>2, <3>3, <3>4
  <2> QED
    BY <1>1, <2>1 DEF Walks
<1>6. Walks(g, b)
  BY <1>5
<1>7. g[{}] = Unwalked /\ g[{1}] = Placed(g[{}], h, b) /\ g[{1, 2}] = Placed(g[{1}], c, b)
  <2> HIDE DEF g
  <2> QED
    BY <1>1, <1>2, <1>4, <1>6 DEF Walks
<1>8. Walked(b) = g[{1, 2}]
  BY <1>1, WalkedIs
<1> QED
  BY <1>7, <1>8 DEF b
LEMMA RulesInitHolds == RulesInit => RulesIInv
<1> SUFFICES ASSUME RulesInit PROVE RulesIInv
  OBVIOUS
<1>1. network \in Network /\ held = {Root(network)}
  BY DEF RulesInit
<1>2. [time |-> Start, bits |-> Limit[network]] \in Entry
  BY <1>1, RulesShape, TargetShape DEF Entry
<1>3. Root(network) \in Seq(Entry) /\ Len(Root(network)) = 1
  BY <1>2 DEF Root
<1>4. NotRoot = {}
  BY <1>1 DEF NotRoot
<1>5. Lineal
  <2> DEFINE r == Root(network)
  <2>1. r \in Seq(Entry) /\ Len(r) > 0 /\ held = {r}
    BY <1>1, <1>3
  <2> HIDE DEF r
  <2>2. held \subseteq Seq(Entry) /\ (\A h \in held : Len(h) > 0) /\ r \in held
    BY <2>1
  <2>3. \A h \in NotRoot : Len(h) > 1 /\ Prev(h) \in held
    BY <1>4
  <2> QED
    BY <1>1, <2>2, <2>3 DEF Lineal, r
<1>6. RulesKept
  BY <1>4 DEF RulesKept
<1> QED
  BY <1>5, <1>6 DEF RulesIInv

(* A child is one entry longer, and what is below it is its parent.           *)
LEMMA ChildFacts ==
  ASSUME NEW p \in Seq(Entry), network \in Network, NEW h \in Children(p)
  PROVE  h \in Seq(Entry) /\ Len(h) = Len(p) + 1 /\ Prev(h) = p
<1>1. PICK e \in Entry : h = Append(p, e)
  <2>1. PICK t \in Times, b \in Offered[network] : h = Append(p, [time |-> t, bits |-> b])
    BY DEF Children
  <2>2. t \in Nat /\ b \in Nat
    BY RulesShape
  <2>3. [time |-> t, bits |-> b] \in Entry
    BY <2>2 DEF Entry
  <2> QED
    BY <2>1, <2>3
<1>2. h \in Seq(Entry) /\ Len(h) = Len(p) + 1 /\ Len(p) \in Nat
      /\ \A i \in 1 .. Len(p) : h[i] = p[i]
  BY <1>1
<1>3. Prev(h) \in Seq(Entry) /\ Len(Prev(h)) = Len(p)
      /\ \A i \in 1 .. Len(p) : Prev(h)[i] = h[i]
  <2>1. Len(h) - 1 = Len(p)
    BY <1>2
  <2>2. Len(h) > 1 \/ Len(p) = 0
    BY <1>2
  <2>3. CASE Len(h) > 1
    BY <1>2, <2>1, <2>3, PrevFacts
  <2>4. CASE Len(p) = 0
    BY <1>2, <2>1, <2>4 DEF Prev, Front
  <2> QED
    BY <2>2, <2>3, <2>4
<1>4. \A i \in 1 .. Len(p) : Prev(h)[i] = p[i]
  BY <1>2, <1>3
<1>5. Prev(h) = p
  BY <1>3, <1>4, SeqEqual
<1> QED
  BY <1>2, <1>5

(* The tree with Headers added that pass on their whole branch, the hasty     *)
(* ones excepted.                                                             *)
LEMMA RulesKeptOn ==
  ASSUME RulesIInv, network' = network, held \subseteq held', hasty \subseteq hasty',
         held' \subseteq Seq(Entry),
         \A h \in held' \ held : Len(h) > 1 /\ Prev(h) \in held',
         \A h \in held' \ held : h \in hasty' \/ Vetted(h, Len(h) - 1)
  PROVE  RulesIInv'
<1>1. Root(network)' = Root(network)
  BY DEF Root
<1>2. \A h, n : Vetted(h, n)' <=> Vetted(h, n)
  BY DEF Vetted, Lineage, LastRealBits
<1>3. Lineal'
  <2>1. ASSUME NEW h \in held' PROVE Len(h) > 0
    <3>1. CASE h \in held
      BY <3>1 DEF RulesIInv, Lineal
    <3>2. CASE h \notin held
      <4>1. Len(h) > 1 /\ Len(h) \in Nat
        BY <2>1, <3>2
      <4> QED
        BY <4>1
    <3> QED
      BY <3>1, <3>2
  <2>2. \A h \in NotRoot' : Len(h) > 1 /\ Prev(h) \in held'
    BY <1>1 DEF RulesIInv, Lineal, NotRoot
  <2> QED
    BY <1>1, <2>1, <2>2 DEF RulesIInv, Lineal
<1>4. RulesKept'
  <2>1. ASSUME NEW h \in NotRoot', h \notin hasty' PROVE Vetted(h, Len(h) - 1)
    <3>1. h \in held' /\ h # Root(network) /\ h \notin hasty
      BY <1>1, <2>1 DEF NotRoot
    <3>2. CASE h \in held
      BY <3>1, <3>2 DEF RulesIInv, RulesKept, NotRoot
    <3>3. CASE h \notin held
      BY <2>1, <3>1, <3>3
    <3> QED
      BY <3>2, <3>3
  <2> QED
    BY <1>2, <2>1 DEF RulesKept
<1> QED
  BY <1>3, <1>4 DEF RulesIInv

(* A walk down a branch that is held finds all of it, whatever else is in     *)
(* the batch, as long as what is in the batch is higher or already placed.    *)
LEMMA HeldReach ==
  ASSUME Lineal, NEW p \in held, NEW batch, NEW known,
         \A x \in batch : x \in known \/ Len(x) > Len(p)
  PROVE  Reach(p, batch, known) = Len(p)
<1>1. p \in Seq(Entry) /\ Len(p) \in Nat
  BY DEF Lineal
<1>2. ASSUME NEW i \in 0 .. Len(p) - 1 PROVE Linked(Below(p, i), batch, known)
  <2>1. Below(p, i) \in held
    BY BelowHeld
  <2>2. Len(Below(p, i)) <= Len(p)
    <3>1. i \in 0 .. Len(p) /\ i \in Nat
      BY <1>1
    <3>2. Len(Below(p, i)) = Len(p) - i
      BY <1>1, <3>1, BelowFacts
    <3> QED
      BY <1>1, <3>1, <3>2
  <2>3. Below(p, i) \notin batch \/ Below(p, i) \in known
    BY <1>1, <2>2
  <2> QED
    BY <2>1, <2>3 DEF Linked
<1> QED
  BY <1>1, <1>2, ReachWhole

LEMMA TakesOne ==
  ASSUME RulesIInv, NEW batch \in BatchOfOne, AbsorbBatch(batch)
  PROVE  RulesIInv'
<1>1. PICK h \in NewHeaders : batch = <<h>>
  BY DEF BatchOfOne
<1>2. PICK p \in held : h \in Children(p)
  BY <1>1 DEF NewHeaders
<1>3. network \in Network /\ p \in Seq(Entry) /\ Len(p) \in Nat
  BY DEF RulesIInv, Lineal
<1>4. h \in Seq(Entry) /\ Len(h) = Len(p) + 1 /\ Prev(h) = p /\ Len(p) > 0
  BY <1>2, <1>3, ChildFacts DEF RulesIInv, Lineal
<1>5. ToSet(batch) = {h}
  BY <1>1 DEF ToSet
<1>6. PICK walk : walk = Walked(batch)
  OBVIOUS
<1>7. walk = [known |-> {p, h}, sound |-> Vetted(h, Reach(p, {h}, {p}))]
  <2>1. walk = Placed(Unwalked, h, batch)
    BY <1>1, <1>6, WalkedOne
  <2>2. Len(h) # 1
    BY <1>3, <1>4
  <2>3. PICK seen : seen = Unwalked.known \cup (IF Prev(h) \in held THEN {Prev(h)} ELSE {})
    OBVIOUS
  <2>4. seen = {p} /\ seen \cup {h} = {p, h} /\ Prev(h) \in seen
    BY <1>4, <2>3 DEF Unwalked
  <2>5. Placed(Unwalked, h, batch)
          = [known |-> seen \cup {h},
             sound |-> Unwalked.sound /\ Vetted(h, Reach(Prev(h), ToSet(batch), seen))]
    BY <2>2, <2>3, <2>4 DEF Placed
  <2>6. (Unwalked.sound /\ Vetted(h, Reach(Prev(h), ToSet(batch), seen)))
          = Vetted(h, Reach(p, {h}, {p}))
    BY <1>4, <1>5, <2>4 DEF Unwalked, Vetted
  <2> QED
    BY <2>1, <2>4, <2>5, <2>6
<1>8. Reach(p, {h}, {p}) = Len(p)
  BY <1>3, <1>4, HeldReach DEF RulesIInv
<1>9. Vetted(h, Len(h) - 1)
  <2>1. Vetted(h, Len(p))
    BY <1>6, <1>7, <1>8 DEF AbsorbBatch
  <2> QED
    BY <1>3, <1>4, <2>1
<1>10. held' = held \cup {h} /\ network' = network /\ hasty \subseteq hasty'
  BY <1>5, <1>6, <1>7 DEF AbsorbBatch
<1>11. Len(h) > 1
  BY <1>3, <1>4
<1>12. held' \subseteq Seq(Entry)
  BY <1>4, <1>10 DEF RulesIInv, Lineal
<1> HIDE DEF RulesIInv
<1> QED
  BY <1>4, <1>9, <1>10, <1>11, <1>12, RulesKeptOn

(* A Header whose parent is not held is left, without a fault.                *)
LEMMA OrphanLeft ==
  ASSUME RulesIInv, NEW batch \in BatchOfOrphan, AbsorbBatch(batch)
  PROVE  held' = held /\ network' = network /\ hasty' = hasty
<1>1. PICK p \in Children(Root(network)) \ held : batch = <<Append(p, Last(p))>>
  BY DEF BatchOfOrphan
<1>2. network \in Network /\ Root(network) \in Seq(Entry) /\ Len(Root(network)) = 1
  BY DEF RulesIInv, Lineal, Root
<1>3. p \in Seq(Entry) /\ Len(p) = 2
  <2>1. PICK r \in Seq(Entry) : r = Root(network)
    BY <1>2
  <2>2. Len(r) = 1 /\ p \in Children(r)
    BY <1>1, <1>2, <2>1
  <2>3. p \in Seq(Entry) /\ Len(p) = Len(r) + 1
    BY <1>2, <2>2, ChildFacts
  <2> QED
    BY <2>2, <2>3
<1>4. PICK h : h = Append(p, Last(p))
  OBVIOUS
<1>5. Last(p) \in Entry
  <2>1. Last(p) = p[2] /\ 2 \in 1 .. Len(p)
    BY <1>3 DEF Last
  <2> QED
    BY <1>3, <2>1
<1>6. h \in Seq(Entry) /\ Len(h) = 3 /\ \A i \in 1 .. 2 : h[i] = p[i]
  <2>1. PICK e \in Entry : e = Last(p)
    BY <1>5
  <2>2. h = Append(p, e)
    BY <1>4, <2>1
  <2>3. h \in Seq(Entry) /\ Len(h) = Len(p) + 1 /\ \A i \in 1 .. Len(p) : h[i] = p[i]
    BY <1>3, <2>2, AppendFacts
  <2> QED
    BY <1>3, <2>3
<1>7. Prev(h) = p
  <2>1. Prev(h) \in Seq(Entry) /\ Len(Prev(h)) = 2 /\ \A i \in 1 .. 2 : Prev(h)[i] = h[i]
    <3>1. Len(h) > 1 /\ Len(h) - 1 = 2
      BY <1>6
    <3> QED
      BY <1>6, <3>1, PrevFacts
  <2>2. \A i \in 1 .. 2 : Prev(h)[i] = p[i]
    BY <1>6, <2>1
  <2> QED
    BY <1>3, <2>1, <2>2, SeqEqual
<1>8. Walked(batch) = Unwalked
  <2>1. Walked(batch) = Placed(Unwalked, h, batch)
    BY <1>1, <1>4, WalkedOne
  <2>2. Prev(h) \notin held
    BY <1>1, <1>7
  <2> QED
    BY <2>1, <2>2 DEF Placed, Unwalked
<1> QED
  BY <1>8 DEF AbsorbBatch, Unwalked

LEMMA TakesOrphan ==
  ASSUME RulesIInv, NEW batch \in BatchOfOrphan, AbsorbBatch(batch)
  PROVE  RulesIInv'
<1>1. held \subseteq Seq(Entry)
  BY DEF RulesIInv, Lineal
<1> QED
  BY <1>1, OrphanLeft, RulesKeptOn

(* Two steps down from a Header is one step down from its parent.             *)
LEMMA BelowPrev ==
  ASSUME NEW h \in Seq(Entry), Len(h) > 1, NEW i \in 1 .. Len(h) - 1
  PROVE  Below(h, i) = Below(Prev(h), i - 1)
<1>1. Len(h) \in Nat /\ i \in Nat /\ i \in 0 .. Len(h) /\ i - 1 \in 0 .. Len(h) - 1
  OBVIOUS
<1>2. Prev(h) \in Seq(Entry) /\ Len(Prev(h)) = Len(h) - 1
      /\ \A j \in 1 .. Len(h) - 1 : Prev(h)[j] = h[j]
  BY PrevFacts
<1>3. Below(h, i) \in Seq(Entry) /\ Len(Below(h, i)) = Len(h) - i
      /\ \A j \in 1 .. Len(h) - i : Below(h, i)[j] = h[j]
  BY <1>1, BelowFacts
<1>4. Below(Prev(h), i - 1) \in Seq(Entry) /\ Len(Below(Prev(h), i - 1)) = Len(h) - i
      /\ \A j \in 1 .. Len(h) - i : Below(Prev(h), i - 1)[j] = Prev(h)[j]
  <2>1. Len(Prev(h)) - (i - 1) = Len(h) - i /\ i - 1 \in 0 .. Len(Prev(h))
    BY <1>1, <1>2
  <2> QED
    BY <1>2, <2>1, BelowFacts
<1>5. \A j \in 1 .. Len(h) - i : Below(h, i)[j] = Below(Prev(h), i - 1)[j]
  BY <1>1, <1>2, <1>3, <1>4
<1> QED
  BY <1>3, <1>4, <1>5, SeqEqual

LEMMA TakesTwo ==
  ASSUME RulesIInv, NEW batch \in BatchOfTwo, AbsorbBatch(batch)
  PROVE  RulesIInv'
<1>1. PICK h \in NewHeaders \cup NotRoot : \E c \in Children(h) : batch = <<h, c>>
  BY DEF BatchOfTwo, NotRoot
<1>2. PICK c \in Children(h) : batch = <<h, c>>
  BY <1>1
<1>3. network \in Network /\ held \subseteq Seq(Entry) /\ \A x \in held : Len(x) > 0
  BY DEF RulesIInv, Lineal
<1>4. h \in Seq(Entry) /\ Len(h) > 1 /\ Prev(h) \in held
  <2>1. CASE h \in NotRoot
    BY <2>1 DEF RulesIInv, Lineal, NotRoot
  <2>2. CASE h \in NewHeaders
    <3>1. PICK q \in held : h \in Children(q)
      BY <2>2 DEF NewHeaders
    <3>2. q \in Seq(Entry) /\ Len(q) > 0
      BY <1>3
    <3> QED
      BY <1>3, <3>1, <3>2, ChildFacts
  <2> QED
    BY <1>1, <2>1, <2>2
<1>5. c \in Seq(Entry) /\ Len(c) = Len(h) + 1 /\ Prev(c) = h
  BY <1>2, <1>3, <1>4, ChildFacts
<1>6. PICK p \in held : p = Prev(h)
  BY <1>4
<1>7. p \in Seq(Entry) /\ Len(p) = Len(h) - 1
  BY <1>4, <1>6, PrevFacts
<1>8. ToSet(batch) = {h, c}
  BY <1>2 DEF ToSet
<1>9. Len(h) \in Nat /\ Len(c) # 1 /\ Len(h) # 1 /\ Len(c) > 1
  <2>1. PICK n \in Nat : n = Len(h)
    BY <1>4
  <2>2. n > 1 /\ Len(c) = n + 1
    BY <1>4, <1>5, <2>1
  <2>3. n # 1 /\ n + 1 # 1 /\ n + 1 > 1
    BY <2>2
  <2> QED
    BY <2>1, <2>2, <2>3
<1>10. PICK w1 : w1 = Placed(Unwalked, h, batch)
  OBVIOUS
<1>11. w1 = [known |-> {p, h}, sound |-> Vetted(h, Reach(p, {h, c}, {p}))]
  <2>1. PICK seen : seen = Unwalked.known \cup (IF Prev(h) \in held THEN {Prev(h)} ELSE {})
    OBVIOUS
  <2>2. seen = {p} /\ seen \cup {h} = {p, h} /\ Prev(h) \in seen
    BY <1>4, <1>6, <2>1 DEF Unwalked
  <2>3. Placed(Unwalked, h, batch)
          = [known |-> seen \cup {h},
             sound |-> Unwalked.sound /\ Vetted(h, Reach(Prev(h), ToSet(batch), seen))]
    BY <1>9, <2>1, <2>2 DEF Placed
  <2>4. (Unwalked.sound /\ Vetted(h, Reach(Prev(h), ToSet(batch), seen)))
          = Vetted(h, Reach(p, {h, c}, {p}))
    BY <1>6, <1>8, <2>2 DEF Unwalked, Vetted
  <2> QED
    BY <1>10, <2>2, <2>3, <2>4
<1>12. PICK w2 : w2 = Placed(w1, c, batch)
  OBVIOUS
<1>13. w2 = [known |-> {p, h, c},
             sound |-> w1.sound /\ Vetted(c, Reach(h, {h, c}, {p, h}))]
  <2>1. ({p, h} \cup {h}) = {p, h} /\ ({p, h} \cup {}) = {p, h}
        /\ ({p, h} \cup {c}) = {p, h, c} /\ h \in {p, h} /\ w1.known = {p, h}
    BY <1>11
  <2> QED
    BY <1>5, <1>8, <1>9, <1>12, <2>1 DEF Placed
<1>14. Walked(batch) = w2
  BY <1>2, <1>10, <1>12, WalkedTwo
<1>15. Reach(p, {h, c}, {p}) = Len(h) - 1
  <2>1. \A x \in {h, c} : Len(x) > Len(p)
    BY <1>5, <1>7, <1>9
  <2> QED
    BY <1>7, <2>1, HeldReach DEF RulesIInv
<1>16. Reach(h, {h, c}, {p, h}) = Len(h)
  <2>1. ASSUME NEW i \in 0 .. Len(h) - 1
        PROVE  Linked(Below(h, i), {h, c}, {p, h})
    <3>1. CASE i = 0
      <4>1. Below(h, 0) \in Seq(Entry) /\ Len(Below(h, 0)) = Len(h)
            /\ \A j \in 1 .. Len(h) : Below(h, 0)[j] = h[j]
        BY <1>4, <1>9, BelowFacts
      <4>2. Below(h, 0) = h
        BY <1>4, <4>1, SeqEqual
      <4> QED
        BY <3>1, <4>2 DEF Linked
    <3>2. CASE i # 0
      <4>1. i \in 1 .. Len(h) - 1 /\ i - 1 \in 0 .. Len(p) - 1 /\ i \in 0 .. Len(h)
            /\ i \in Nat
        BY <1>7, <1>9, <2>1, <3>2
      <4>2. Below(h, i) = Below(p, i - 1)
        BY <1>4, <1>6, <4>1, BelowPrev
      <4>3. Below(h, i) \in held
        BY <4>1, <4>2, BelowHeld DEF RulesIInv
      <4>4. Len(Below(h, i)) = Len(h) - i
        BY <1>4, <4>1, BelowFacts
      <4>5. Below(h, i) # h /\ Below(h, i) # c
        <5>1. Len(h) - i # Len(h) /\ Len(h) - i # Len(c)
          BY <1>5, <1>9, <4>1
        <5> QED
          BY <4>4, <5>1
      <4> QED
        BY <4>3, <4>5 DEF Linked
    <3> QED
      BY <3>1, <3>2
  <2> QED
    BY <1>4, <2>1, ReachWhole
<1>17. Vetted(h, Len(h) - 1) /\ Vetted(c, Len(c) - 1)
  <2>1. w2.sound
    BY <1>14 DEF AbsorbBatch
  <2>2. w1.sound /\ Vetted(c, Len(h))
    BY <1>13, <1>16, <2>1
  <2>3. Vetted(h, Len(h) - 1)
    BY <1>11, <1>15, <2>2
  <2>4. Len(c) - 1 = Len(h)
    BY <1>5, <1>9
  <2> QED
    BY <2>2, <2>3, <2>4
<1>18. held' = held \cup {h, c} /\ network' = network /\ hasty \subseteq hasty'
  <2>1. w2.known = {p, h, c}
    BY <1>13
  <2> QED
    BY <1>8, <1>14, <2>1 DEF AbsorbBatch
<1>19. held' \subseteq Seq(Entry)
  BY <1>3, <1>4, <1>5, <1>18
<1> HIDE DEF RulesIInv
<1> QED
  BY <1>4, <1>5, <1>9, <1>17, <1>18, <1>19, RulesKeptOn

(* The walk of a batch of two, each of them placed or passed over.            *)
LEMMA PairWalk ==
  ASSUME Lineal, NEW x, NEW y, NEW batch, batch = <<x, y>>, Len(x) > 1, Prev(x) \in held,
         AbsorbBatch(batch)
  PROVE  /\ Vetted(x, Reach(Prev(x), {x, y}, {Prev(x)}))
         /\ Prev(y) \in held /\ Len(y) > 1 =>
              Vetted(y, Reach(Prev(y), {x, y}, {Prev(x), x, Prev(y)}))
         /\ held' \subseteq held \cup {x, y} /\ x \in held'
<1>1. ToSet(batch) = {x, y}
  BY DEF ToSet
<1>2. PICK one : one = Placed(Unwalked, x, batch)
  OBVIOUS
<1>3. one = [known |-> {Prev(x), x}, sound |-> Vetted(x, Reach(Prev(x), {x, y}, {Prev(x)}))]
  <2>1. PICK seen : seen = Unwalked.known \cup (IF Prev(x) \in held THEN {Prev(x)} ELSE {})
    OBVIOUS
  <2>2. seen = {Prev(x)} /\ seen \cup {x} = {Prev(x), x} /\ Prev(x) \in seen
    BY <2>1 DEF Unwalked
  <2>3. Len(x) # 1
    OBVIOUS
  <2>4. Placed(Unwalked, x, batch)
          = [known |-> seen \cup {x},
             sound |-> Unwalked.sound /\ Vetted(x, Reach(Prev(x), ToSet(batch), seen))]
    BY <2>1, <2>2, <2>3 DEF Placed
  <2>5. (Unwalked.sound /\ Vetted(x, Reach(Prev(x), ToSet(batch), seen)))
          = Vetted(x, Reach(Prev(x), {x, y}, {Prev(x)}))
    BY <1>1, <2>2 DEF Unwalked, Vetted
  <2> QED
    BY <1>2, <2>2, <2>4, <2>5
<1>4. PICK two : two = Placed(one, y, batch)
  OBVIOUS
<1>5. Walked(batch) = two
  BY <1>2, <1>4, WalkedTwo
<1>6. two.sound /\ held' = held \cup ({x, y} \cap two.known)
  BY <1>1, <1>5 DEF AbsorbBatch
<1>7. (two.sound => one.sound) /\ one.known \subseteq two.known
  BY <1>4 DEF Placed
<1>8. ASSUME Prev(y) \in held, Len(y) > 1
      PROVE  Vetted(y, Reach(Prev(y), {x, y}, {Prev(x), x, Prev(y)}))
  <2>1. PICK seen : seen = one.known \cup (IF Prev(y) \in held THEN {Prev(y)} ELSE {})
    OBVIOUS
  <2>2. seen = {Prev(x), x, Prev(y)}
    BY <1>3, <1>8, <2>1
  <2>3. Len(y) # 1 /\ Prev(y) \in seen
    BY <1>8, <2>2
  <2>4. Placed(one, y, batch)
          = [known |-> seen \cup {y},
             sound |-> one.sound /\ Vetted(y, Reach(Prev(y), ToSet(batch), seen))]
    BY <2>1, <2>3 DEF Placed
  <2>5. two.sound = (one.sound /\ Vetted(y, Reach(Prev(y), ToSet(batch), seen)))
    BY <1>4, <2>4
  <2>6. Vetted(y, Reach(Prev(y), ToSet(batch), seen))
    BY <1>6, <2>5
  <2> QED
    BY <1>1, <2>2, <2>6
<1>9. one.sound /\ x \in one.known
  BY <1>3, <1>6, <1>7
<1> QED
  BY <1>3, <1>6, <1>7, <1>8, <1>9

(* A Header before one it stands on: whole if that one is its parent, else    *)
(* hasty.                                                                     *)
LEMMA TakesHigherFirst ==
  ASSUME RulesIInv, NEW h \in NewHeaders, NEW i \in 1 .. HeightOf(h),
         NEW batch, batch = <<h, Below(h, i)>>, AbsorbBatch(batch)
  PROVE  RulesIInv' /\ held' \subseteq held \cup {h}
<1>1. PICK p \in held : h \in Children(p)
  BY DEF NewHeaders
<1>2. network \in Network /\ p \in Seq(Entry) /\ held \subseteq Seq(Entry)
  BY DEF RulesIInv, Lineal
<1>3. PICK n \in Nat : n = Len(p) /\ n > 0
  BY <1>2 DEF RulesIInv, Lineal
<1>4. h \in Seq(Entry) /\ Len(h) = n + 1 /\ Prev(h) = p
  BY <1>1, <1>2, <1>3, ChildFacts
<1>5. Len(h) > 1 /\ i \in 1 .. Len(h) - 1 /\ i - 1 \in 0 .. n - 1
  BY <1>3, <1>4 DEF HeightOf
<1>6. PICK a : a = Below(h, i)
  OBVIOUS
<1>7. a \in held
  <2>1. Below(h, i) = Below(p, i - 1)
    BY <1>4, <1>5, BelowPrev
  <2> QED
    BY <1>3, <1>5, <1>6, <2>1, BelowHeld DEF RulesIInv
<1>8. /\ Vetted(h, Reach(p, {h, a}, {p}))
      /\ held' \subseteq held \cup {h, a} /\ h \in held'
  <2>1. batch = <<h, a>> /\ Lineal
    BY <1>6 DEF RulesIInv
  <2> QED
    BY <1>4, <1>5, <2>1, PairWalk
<1>9. network' = network /\ held \subseteq held'
      /\ hasty' = hasty \cup (Premature(batch) \cap (held' \ held))
  BY DEF AbsorbBatch
<1>10. held' \subseteq held \cup {h} /\ held' \subseteq Seq(Entry)
  BY <1>2, <1>4, <1>7, <1>8
<1>11. ASSUME h \in held' \ held, h \notin hasty' PROVE Vetted(h, Len(h) - 1)
  <2>1. CASE i = 1
    <3>1. a = p
      <4>1. Below(h, 1) \in Seq(Entry) /\ Len(Below(h, 1)) = n
            /\ \A j \in 1 .. n : Below(h, 1)[j] = h[j]
        <5>1. 1 \in 0 .. Len(h) /\ Len(h) - 1 = n
          BY <1>3, <1>4
        <5> QED
          BY <1>4, <5>1, BelowFacts
      <4>2. \A j \in 1 .. n : p[j] = h[j]
        <5>1. Len(h) - 1 = n
          BY <1>3, <1>4
        <5> QED
          BY <1>4, <1>5, <5>1, PrevFacts
      <4>3. \A j \in 1 .. n : p[j] = Below(h, 1)[j]
        BY <4>1, <4>2
      <4> QED
        BY <1>2, <1>3, <1>6, <2>1, <4>1, <4>3, SeqEqual
    <3>2. Reach(p, {h, a}, {p}) = Len(p)
      <4>1. \A x \in {h, a} : x \in {p} \/ Len(x) > Len(p)
        BY <1>3, <1>4, <3>1
      <4> QED
        BY <4>1, HeldReach DEF RulesIInv
    <3>3. Len(p) = Len(h) - 1
      BY <1>3, <1>4
    <3> QED
      BY <1>8, <3>2, <3>3
  <2>2. CASE i # 1
    <3>1. i \in 2 .. HeightOf(h)
      BY <1>3, <1>4, <1>5, <2>2 DEF HeightOf
    <3>2. DOMAIN batch = {1, 2} /\ Len(batch) = 2 /\ batch[1] = h /\ batch[2] = Below(h, i)
      OBVIOUS
    <3>3. 1 \in DOMAIN batch /\ 2 \in 1 + 1 .. Len(batch) /\ i \in 2 .. HeightOf(batch[1])
          /\ batch[2] = Below(batch[1], i)
      BY <3>1, <3>2
    <3>4. batch[1] \in Premature(batch)
      BY <3>3 DEF Premature
    <3> QED
      BY <1>9, <1>11, <3>2, <3>4
  <2> QED
    BY <2>1, <2>2
<1>12. /\ \A x \in held' \ held : Len(x) > 1 /\ Prev(x) \in held'
       /\ \A x \in held' \ held : x \in hasty' \/ Vetted(x, Len(x) - 1)
  BY <1>4, <1>5, <1>9, <1>10, <1>11
<1>13. hasty \subseteq hasty'
  BY <1>9
<1> HIDE DEF RulesIInv
<1> QED
  BY <1>9, <1>10, <1>12, <1>13, RulesKeptOn

(* A Header before its parent: judged where the tree has the parent, and      *)
(* left out where it has not.                                                 *)
LEMMA TakesChildFirst ==
  ASSUME RulesIInv, NEW h \in NewHeaders, NEW c \in Children(h),
         NEW batch, batch = <<c, h>>, AbsorbBatch(batch)
  PROVE  /\ RulesIInv' /\ held' \subseteq held \cup {c, h}
         /\ h \in held' /\ h \in Seq(Entry) /\ Prev(c) = h
<1>1. PICK p \in held : h \in Children(p)
  BY DEF NewHeaders
<1>2. network \in Network /\ p \in Seq(Entry) /\ held \subseteq Seq(Entry)
  BY DEF RulesIInv, Lineal
<1>3. PICK n \in Nat : n = Len(p) /\ n > 0
  BY <1>2 DEF RulesIInv, Lineal
<1>4. h \in Seq(Entry) /\ Len(h) = n + 1 /\ Prev(h) = p
  BY <1>1, <1>2, <1>3, ChildFacts
<1>5. c \in Seq(Entry) /\ Len(c) = n + 2 /\ Prev(c) = h
  <2>1. c \in Seq(Entry) /\ Len(c) = Len(h) + 1 /\ Prev(c) = h
    BY <1>2, <1>4, ChildFacts
  <2> QED
    BY <1>3, <1>4, <2>1
<1>6. network' = network /\ held \subseteq held' /\ hasty \subseteq hasty'
  BY DEF AbsorbBatch
<1>7. Len(h) > 1 /\ Len(c) > 1 /\ Len(h) - 1 = n /\ Len(c) - 1 = n + 1
  BY <1>3, <1>4, <1>5
<1>8. /\ held' \subseteq held \cup {c, h} /\ h \in held'
      /\ \A x \in held' \ held : Vetted(x, Len(x) - 1)
  <2>1. CASE h \in held
    <3>1. Vetted(c, Reach(h, {c, h}, {h})) /\ held' \subseteq held \cup {c, h}
      BY <1>5, <1>7, <2>1, PairWalk DEF RulesIInv
    <3>2. Reach(h, {c, h}, {h}) = Len(h)
      <4>1. \A x \in {c, h} : x \in {h} \/ Len(x) > Len(h)
        BY <1>3, <1>4, <1>5
      <4> QED
        BY <2>1, <4>1, HeldReach DEF RulesIInv
    <3>3. Len(c) - 1 = Len(h)
      BY <1>3, <1>4, <1>5
    <3> QED
      BY <1>6, <2>1, <3>1, <3>2, <3>3
  <2>2. CASE h \notin held
    <3>1. ToSet(batch) = {c, h}
      BY DEF ToSet
    <3>2. Placed(Unwalked, c, batch) = Unwalked
      BY <1>5, <2>2 DEF Placed, Unwalked
    <3>3. Walked(batch) = Placed(Unwalked, h, batch)
      BY <3>2, WalkedTwo
    <3>4. PICK seen : seen = Unwalked.known \cup (IF Prev(h) \in held THEN {Prev(h)} ELSE {})
      OBVIOUS
    <3>5. seen = {p} /\ seen \cup {h} = {p, h} /\ Prev(h) \in seen /\ Len(h) # 1
      BY <1>4, <1>7, <3>4 DEF Unwalked
    <3>6. Placed(Unwalked, h, batch)
            = [known |-> seen \cup {h},
               sound |-> Unwalked.sound /\ Vetted(h, Reach(Prev(h), ToSet(batch), seen))]
      BY <3>4, <3>5 DEF Placed
    <3>7. PICK walk : walk = Walked(batch)
      OBVIOUS
    <3>8. walk.known = {p, h}
          /\ walk.sound = (Unwalked.sound /\ Vetted(h, Reach(Prev(h), ToSet(batch), seen)))
      BY <3>3, <3>5, <3>6, <3>7
    <3>9. walk.sound /\ held' = held \cup ({c, h} \cap walk.known)
      BY <3>1, <3>7 DEF AbsorbBatch
    <3>13. Vetted(h, Reach(Prev(h), ToSet(batch), seen))
      BY <3>8, <3>9
    <3>14. Vetted(h, Reach(p, {c, h}, {p}))
      BY <1>4, <3>1, <3>5, <3>13
    <3>10. c # h /\ c # p
      <4>1. Len(c) # Len(h) /\ Len(c) # Len(p)
        BY <1>3, <1>4, <1>5
      <4> QED
        BY <4>1
    <3>11. held' = held \cup {h}
      BY <3>8, <3>9, <3>10
    <3>12. Reach(p, {c, h}, {p}) = Len(p)
      <4>1. \A x \in {c, h} : x \in {p} \/ Len(x) > Len(p)
        BY <1>3, <1>4, <1>5
      <4> QED
        BY <4>1, HeldReach DEF RulesIInv
    <3> QED
      BY <1>3, <1>4, <1>7, <3>11, <3>12, <3>14
  <2> QED
    BY <2>1, <2>2
<1>9. held' \subseteq Seq(Entry)
  BY <1>2, <1>4, <1>5, <1>8
<1>10. /\ \A x \in held' \ held : Len(x) > 1 /\ Prev(x) \in held'
       /\ \A x \in held' \ held : x \in hasty' \/ Vetted(x, Len(x) - 1)
  BY <1>4, <1>5, <1>6, <1>7, <1>8
<1>11. RulesIInv'
  <2> HIDE DEF RulesIInv
  <2> QED
    BY <1>6, <1>9, <1>10, RulesKeptOn
<1> QED
  BY <1>4, <1>5, <1>8, <1>11

LEMMA RulesStep == RulesIInv /\ [RulesNext]_rulesVars => RulesIInv'
<1> SUFFICES ASSUME RulesIInv, [RulesNext]_rulesVars PROVE RulesIInv'
  OBVIOUS
<1>1. CASE RulesNext
  <2>1. PICK batch \in BatchOfOne \cup BatchOfOrphan \cup BatchOfTwo
                       \cup BatchHigherFirst \cup BatchChildFirst : AbsorbBatch(batch)
    BY <1>1 DEF RulesNext
  <2>2. CASE batch \in BatchHigherFirst
    <3>1. PICK h \in NewHeaders : batch \in {<<h, Below(h, i)>> : i \in 1 .. HeightOf(h)}
      BY <2>2 DEF BatchHigherFirst
    <3> QED
      BY <2>1, <3>1, TakesHigherFirst
  <2>3. CASE batch \in BatchChildFirst
    <3>1. PICK h \in NewHeaders : \E c \in Children(h) : batch = <<c, h>>
      BY <2>3 DEF BatchChildFirst
    <3> QED
      BY <2>1, <3>1, TakesChildFirst
  <2> QED
    BY <2>1, <2>2, <2>3, TakesOne, TakesOrphan, TakesTwo
<1>2. CASE UNCHANGED rulesVars
  <2>1. held' = held /\ network' = network /\ hasty' = hasty /\ held \subseteq Seq(Entry)
    BY <1>2 DEF rulesVars, RulesIInv, Lineal
  <2> QED
    BY <2>1, RulesKeptOn
<1> QED
  BY <1>1, <1>2

(* Every Header the tree holds passes the rules on its whole branch, unless    *)
(* its batch named an ancestor below its parent behind it: in any other batch, *)
(* children first or parents first, the lookups find the whole of the branch.  *)
THEOREM JudgedOnTheBranch == RulesSpec => []RulesKept
<1>1. RulesIInv => RulesKept
  BY DEF RulesIInv
<1> QED
  BY <1>1, RulesInitHolds, RulesStep, PTL DEF RulesSpec
(* Division with a remainder: what the Heights of one window have in common. *)
LEMMA Divides ==
  ASSUME NEW a \in Nat, NEW n \in Nat \ {0}
  PROVE  a % n \in 0 .. n - 1 /\ a \div n \in Nat /\ a = n * (a \div n) + (a % n)
<1>1. a % n \in 0 .. n - 1
  OBVIOUS
<1>2. a \div n \in Nat
  OBVIOUS
<1>3. a = n * (a \div n) + (a % n)
  OBVIOUS
<1> QED
  BY <1>1, <1>2, <1>3

LEMMA AtLeastOnce ==
  ASSUME NEW n \in Nat, NEW d \in Nat, d >= 1
  PROVE  n * d >= n
OBVIOUS

LEMMA OneRemainder ==
  ASSUME NEW n \in Nat \ {0}, NEW q \in Nat, NEW r \in 0 .. n - 1, NEW p \in Nat,
         NEW s \in 0 .. n - 1, n * q + r = n * p + s
  PROVE  q = p /\ r = s
<1>1. CASE q < p
  <2>1. PICK d \in Nat : d >= 1 /\ p = q + d
     <3>1. p - q \in Nat /\ p - q >= 1 /\ p = q + (p - q)
       BY <1>1
     <3> QED
    BY <3>1
  <2>2. n * p = n * q + n * d
    BY <2>1
  <2>3. n * d >= n
    BY <2>1, AtLeastOnce
  <2>4. PICK x \in Int, y \in Int, z \in Int : x = n * q /\ y = n * d /\ z = n * p
    OBVIOUS
  <2>5. z = x + y /\ y >= n /\ x + r = z + s
    BY <2>2, <2>3, <2>4
  <2>6. FALSE
    BY <2>5
  <2> QED
    BY <2>6
<1>2. CASE p < q
  <2>1. PICK d \in Nat : d >= 1 /\ q = p + d
     <3>1. q - p \in Nat /\ q - p >= 1 /\ q = p + (q - p)
       BY <1>2
     <3> QED
    BY <3>1
  <2>2. n * q = n * p + n * d
    BY <2>1
  <2>3. n * d >= n
    BY <2>1, AtLeastOnce
  <2>4. PICK x \in Int, y \in Int, z \in Int : x = n * q /\ y = n * d /\ z = n * p
    OBVIOUS
  <2>5. x = z + y /\ y >= n /\ x + r = z + s
    BY <2>2, <2>3, <2>4
  <2>6. FALSE
    BY <2>5
  <2> QED
    BY <2>6
<1>3. CASE q = p
  BY <1>3
<1> QED
    BY <1>1, <1>2, <1>3

LEMMA InWindow ==
  ASSUME NEW k \in Nat, NEW n \in Nat \ {0}, NEW j \in Nat, k - (k % n) <= j, j <= k
  PROVE  j % n = j - (k - (k % n))
<1>1. PICK q \in Nat, r \in 0 .. n - 1 : k = n * q + r /\ r = k % n
  BY Divides
<1>2. PICK p \in Nat, s \in 0 .. n - 1 : j = n * p + s /\ s = j % n
  BY Divides
<1>3. PICK x \in Nat : x = n * q
  OBVIOUS
<1>4. PICK d \in Nat : d = j - x
  BY <1>1, <1>3
<1>5. d \in 0 .. n - 1 /\ n * q + d = j
  BY <1>1, <1>3, <1>4
<1>6. n * q + d = n * p + s
  BY <1>2, <1>5
<1>7. d = s
  BY <1>5, <1>6, OneRemainder
<1>8. k = x + r
  BY <1>1, <1>3
<1>9. PICK u \in Nat, v \in Nat : u = k % n /\ v = j % n
  BY <1>1, <1>2
<1>10. v = j - (k - u)
  BY <1>1, <1>2, <1>4, <1>7, <1>8, <1>9
<1> QED
  BY <1>9, <1>10

(*************************** the bits of a window ****************************)
Eased(h) ==
  HeightOf(h) % Interval # 0 /\ InOrder(h) =>
    LET start == Last(Below(h, HeightOf(h) % Interval)).bits
        late == Last(h).time > Last(Prev(h)).time + Late
    IN Last(h).bits =
         IF late /\ network # "Mainnet" THEN Limit[network] ELSE start

LateOne(h) == h[Len(h)].time > h[Len(h) - 1].time + Late

(* The Height in its window, the index its window starts at.                  *)
Within(h) == (Len(h) - 1) % Interval
StartOf(h) == Len(h) - Within(h)

LEMMA WithinFacts ==
  ASSUME NEW h \in Seq(Entry), Len(h) > 1, Within(h) # 0
  PROVE  /\ Within(h) \in 1 .. Len(h) - 1 /\ Within(h) \in 1 .. Interval - 1
         /\ StartOf(h) \in 1 .. Len(h) - 1
         /\ \A j \in StartOf(h) .. Len(h) : (j - 1) % Interval = j - StartOf(h)
<1>1. PICK k \in Nat : k = Len(h) - 1
  OBVIOUS
<1>2. Interval \in Nat \ {0}
  BY TargetShape
<1>3. PICK m \in 0 .. Interval - 1, x \in Nat : m = k % Interval /\ k = x + m
  <2>1. PICK q \in Nat, r \in 0 .. Interval - 1 : k = Interval * q + r /\ r = k % Interval
    BY <1>2, Divides
  <2>2. Interval * q \in Nat
    BY <1>2
  <2> QED
    BY <2>1, <2>2
<1>4. Within(h) = m /\ m # 0
  BY <1>1, <1>3 DEF Within
<1>5. StartOf(h) = x + 1
  BY <1>1, <1>3, <1>4 DEF StartOf
<1>6. Len(h) = k + 1
  BY <1>1
<1>7. ASSUME NEW j \in x + 1 .. k + 1
      PROVE  (j - 1) % Interval = j - (x + 1)
  <2>1. PICK i \in Nat : i = j - 1 /\ x <= i /\ i <= k
    BY <1>3, <1>7
  <2>2. k - (k % Interval) = x
    BY <1>3
  <2>3. i % Interval = i - x
    BY <1>2, <2>1, <2>2, InWindow
  <2> QED
    BY <1>3, <2>1, <2>3
<1>8. m \in 1 .. k /\ m \in 1 .. Interval - 1 /\ x + 1 \in 1 .. k
  BY <1>2, <1>3, <1>4
<1> QED
  BY <1>1, <1>4, <1>5, <1>6, <1>7, <1>8

LEMMA EasedIs ==
  ASSUME NEW h \in Seq(Entry), Len(h) > 1
  PROVE  Eased(h) <=>
           (Within(h) # 0 /\ InOrder(h) =>
              h[Len(h)].bits = IF LateOne(h) /\ network # "Mainnet"
                                 THEN Limit[network] ELSE h[StartOf(h)].bits)
<1>1. HeightOf(h) % Interval = Within(h)
  BY DEF HeightOf, Within
<1>2. Last(h) = h[Len(h)]
  BY DEF Last
<1>3. Last(Prev(h)) = h[Len(h) - 1]
  <2>1. Len(h) - 1 \in 1 .. Len(h) - 1 /\ Len(Prev(h)) = Len(h) - 1
    BY PrevFacts
  <2>2. Prev(h)[Len(h) - 1] = h[Len(h) - 1]
    BY <2>1, PrevFacts
  <2> QED
    BY <2>1, <2>2 DEF Last
<1>4. Within(h) # 0 => Last(Below(h, Within(h))) = h[StartOf(h)]
  <2> SUFFICES ASSUME Within(h) # 0 PROVE Last(Below(h, Within(h))) = h[StartOf(h)]
    OBVIOUS
  <2>1. Within(h) \in 0 .. Len(h) /\ StartOf(h) \in 1 .. Len(h) - Within(h)
        /\ Len(h) - Within(h) = StartOf(h)
    BY WithinFacts DEF StartOf
  <2>2. Len(Below(h, Within(h))) = StartOf(h) /\ Below(h, Within(h))[StartOf(h)] = h[StartOf(h)]
    BY <2>1, BelowFacts
  <2> QED
    BY <2>2 DEF Last
<1> QED
  BY <1>1, <1>2, <1>3, <1>4 DEF Eased, LateOne

(* The first Header down that is not at the limit or starts a window.         *)
Telling(h, i) == h[i].bits # Limit[network] \/ (i - 1) % Interval = 0

LEMMA LastTelling ==
  ASSUME NEW p \in Seq(Entry), Len(p) > 0
  PROVE  \E i \in 1 .. Len(p) :
           /\ Telling(p, i) /\ LastRealBits(p, Len(p)) = p[i].bits
           /\ \A j \in 1 .. Len(p) : Telling(p, j) => j <= i
<1> DEFINE reals == {i \in Len(p) - Len(p) + 1 .. Len(p) : Telling(p, i)}
           greatest == CHOOSE i \in reals : \A j \in reals : j <= i
<1>1. Len(p) \in Nat /\ Len(p) - Len(p) + 1 = 1
  OBVIOUS
<1>2. 1 \in reals
  <2>1. (1 - 1) % Interval = 0
    BY TargetShape
  <2> QED
    BY <1>1, <2>1 DEF Telling
<1>3. \E i \in reals : \A j \in reals : j <= i
  <2> DEFINE gaps == {Len(p) - i : i \in reals}
  <2>1. gaps \in SUBSET Nat /\ gaps # {}
    BY <1>1, <1>2
  <2>2. PICK g \in gaps : \A y \in gaps : g <= y
    BY <2>1, LeastNat
  <2>3. PICK i \in reals : g = Len(p) - i
    BY <2>2
  <2>4. \A j \in reals : Len(p) - i <= Len(p) - j
    BY <2>2, <2>3
  <2> QED
    BY <1>1, <2>4
<1>4. greatest \in reals /\ \A j \in reals : j <= greatest
  <2> HIDE DEF reals
  <2> QED
    BY <1>3
<1>5. LastRealBits(p, Len(p)) = IF reals = {} THEN Limit[network] ELSE p[greatest].bits
  BY DEF LastRealBits, Telling
<1>6. LastRealBits(p, Len(p)) = p[greatest].bits
  BY <1>2, <1>5
<1> HIDE DEF greatest
<1>7. PICK i \in 1 .. Len(p) : i = greatest
  BY <1>1, <1>4
<1> QED
  BY <1>1, <1>4, <1>6, <1>7

(* What passing the rules says of the bits between two retargets.             *)
LEMMA VettedSays ==
  ASSUME RulesIInv, NEW h \in NotRoot, h \notin hasty, Within(h) # 0
  PROVE  /\ network = "Mainnet" => h[Len(h)].bits = h[Len(h) - 1].bits
         /\ network # "Mainnet" =>
              h[Len(h)].bits = IF LateOne(h) THEN Limit[network]
                               ELSE LastRealBits(Prev(h), Len(h) - 1)
<1>1. h \in Seq(Entry) /\ Len(h) > 1
  BY DEF RulesIInv, Lineal, NotRoot
<1>2. Vetted(h, Len(h) - 1)
  BY DEF RulesIInv, RulesKept
<1>3. Last(h) = h[Len(h)]
  BY DEF Last
<1>4. Last(Prev(h)) = h[Len(h) - 1]
  <2>1. Len(h) - 1 \in 1 .. Len(h) - 1 /\ Len(Prev(h)) = Len(h) - 1
    BY <1>1, PrevFacts
  <2>2. Prev(h)[Len(h) - 1] = h[Len(h) - 1]
    BY <1>1, <2>1, PrevFacts
  <2> QED
    BY <2>1, <2>2 DEF Last
<1>5. PICK rule : rule = RuleFor(network, HeightOf(h))
  OBVIOUS
<1>6. rule = IF network = "Mainnet" THEN "same" ELSE "minOrLast"
  BY <1>5 DEF RuleFor, HeightOf, Within
<1>7. Last(h).bits = ExpectedBits(network, rule, Lineage(rule, Prev(h), Len(h) - 1), Last(h).time)
  BY <1>2, <1>5 DEF Vetted
<1>8. CASE network = "Mainnet"
  <2>1. rule = "same"
    BY <1>6, <1>8
  <2>2. Last(h).bits = Last(Prev(h)).bits
    BY <1>7, <2>1 DEF ExpectedBits, Lineage
  <2> QED
    BY <1>3, <1>4, <1>8, <2>2
<1>9. CASE network # "Mainnet"
  <2>1. rule = "minOrLast"
    BY <1>6, <1>9
  <2>2. Last(h).bits = IF Last(h).time > Last(Prev(h)).time + Late THEN Limit[network]
                       ELSE LastRealBits(Prev(h), Len(h) - 1)
    BY <1>7, <2>1 DEF ExpectedBits, Lineage
  <2> QED
    BY <1>3, <1>4, <1>9, <2>2 DEF LateOne
<1> QED
  BY <1>8, <1>9

(* What is lower in the window of a Header that came in order came in order.  *)
LEMMA InOrderBelow ==
  ASSUME NEW h \in Seq(Entry), Len(h) > 1, Within(h) # 0, InOrder(h),
         NEW k \in 0 .. Within(h) - 1, NEW q, q = Below(h, k), Within(q) = Within(h) - k
  PROVE  InOrder(q) /\ q \notin hasty
<1>1. PICK n \in Nat, m \in Nat : n = Len(h) /\ m = Within(h) /\ m >= 1 /\ m < n
  BY WithinFacts
<1>2. HeightOf(h) % Interval = m /\ HeightOf(q) % Interval = m - k
  BY <1>1 DEF HeightOf, Within
<1>3. \A i \in 0 .. m - 1 : Below(h, i) \notin hasty
  BY <1>2 DEF InOrder
<1>4. k \in Nat /\ k < m /\ k \in 0 .. n
  BY <1>1
<1>5. q \in Seq(Entry) /\ Len(q) = n - k /\ \A j \in 1 .. n - k : q[j] = h[j]
  BY <1>1, <1>4, BelowFacts
<1>6. ASSUME NEW i \in 0 .. (m - k) - 1 PROVE Below(q, i) = Below(h, k + i)
  <2>1. i \in 0 .. n - k /\ k + i \in 0 .. n /\ (n - k) - i = n - (k + i) /\ i \in Nat
    BY <1>1, <1>4
  <2>2. Below(q, i) \in Seq(Entry) /\ Len(Below(q, i)) = n - (k + i)
        /\ \A j \in 1 .. n - (k + i) : Below(q, i)[j] = q[j]
    <3>1. i \in 0 .. Len(q) /\ Len(q) - i = n - (k + i)
      BY <1>5, <2>1
    <3>2. /\ Below(q, i) \in Seq(Entry) /\ Len(Below(q, i)) = Len(q) - i
          /\ \A j \in 1 .. Len(q) - i : Below(q, i)[j] = q[j]
      BY <1>5, <3>1, BelowFacts
    <3> QED
      BY <3>1, <3>2
  <2>3. Below(h, k + i) \in Seq(Entry) /\ Len(Below(h, k + i)) = n - (k + i)
        /\ \A j \in 1 .. n - (k + i) : Below(h, k + i)[j] = h[j]
    BY <1>1, <2>1, BelowFacts
  <2>4. \A j \in 1 .. n - (k + i) : j \in 1 .. n - k
    BY <1>1, <1>4, <2>1
  <2>5. \A j \in 1 .. n - (k + i) : Below(q, i)[j] = Below(h, k + i)[j]
    BY <1>5, <2>2, <2>3, <2>4
  <2> QED
    BY <2>2, <2>3, <2>5, SeqEqual
<1>7. \A i \in 0 .. (m - k) - 1 : k + i \in 0 .. m - 1
  BY <1>1, <1>4
<1>8. \A i \in 0 .. (m - k) - 1 : Below(q, i) \notin hasty
  BY <1>3, <1>6, <1>7
<1>9. q \notin hasty
  BY <1>1, <1>3, <1>4
<1> QED
  BY <1>2, <1>8, <1>9 DEF InOrder

(* A Header lower in the same window, as h knows it.                          *)
LEMMA EasedBelow ==
  ASSUME RulesIInv, NEW h \in NotRoot, Within(h) # 0, InOrder(h),
         \A q \in NotRoot : Len(q) < Len(h) => Eased(q),
         NEW i \in StartOf(h) + 1 .. Len(h) - 1
  PROVE  /\ network = "Mainnet" => h[i].bits = h[StartOf(h)].bits
         /\ h[i].bits # Limit[network] => h[i].bits = h[StartOf(h)].bits
<1>1. h \in Seq(Entry) /\ Len(h) > 1 /\ h \in held
  BY DEF RulesIInv, Lineal, NotRoot
<1>2. PICK n \in Nat, s \in Nat : n = Len(h) /\ s = StartOf(h) /\ s >= 1 /\ s < n
  BY <1>1, WithinFacts
<1>3. i \in Nat /\ i > s /\ i < n /\ i > 1 /\ n - i \in 0 .. n - 1 /\ n - i \in 0 .. n
      /\ n - (n - i) = i /\ s \in 1 .. i /\ i \in 1 .. i
  BY <1>2
<1>4. PICK q : q = Below(h, n - i)
  OBVIOUS
<1>5. q \in Seq(Entry) /\ Len(q) = i /\ \A j \in 1 .. i : q[j] = h[j]
  BY <1>1, <1>2, <1>3, <1>4, BelowFacts
<1>6. q \in NotRoot
  <2>1. q \in held
    BY <1>1, <1>2, <1>3, <1>4, BelowHeld DEF RulesIInv
  <2>2. ASSUME q = Root(network) PROVE FALSE
    <3>1. Len(q) = 1
      BY <2>2 DEF Root
    <3> QED
      BY <1>3, <1>5, <3>1
  <2> QED
    BY <2>1, <2>2 DEF NotRoot
<1>7. Within(q) = i - s
  <2>1. (i - 1) % Interval = i - s
    BY <1>1, <1>2, <1>3, WithinFacts
  <2> QED
    BY <1>5, <2>1 DEF Within
<1>8. StartOf(q) = s /\ Within(q) # 0
  BY <1>2, <1>3, <1>5, <1>7 DEF StartOf
<1>9. q[i].bits = IF LateOne(q) /\ network # "Mainnet"
                    THEN Limit[network] ELSE q[s].bits
  <2>1. Eased(q) /\ Len(q) > 1
    BY <1>2, <1>3, <1>5, <1>6
  <2>2. n - i \in 0 .. Within(h) - 1 /\ Within(q) = Within(h) - (n - i)
    <3>1. Within(h) \in Nat /\ s = n - Within(h)
      BY <1>1, <1>2, WithinFacts DEF StartOf
    <3> QED
      BY <1>2, <1>3, <1>7, <3>1
  <2>3. InOrder(q)
    BY <1>1, <1>4, <2>2, InOrderBelow
  <2> QED
    BY <1>5, <1>8, <2>1, <2>3, EasedIs
<1>10. q[i] = h[i] /\ q[s] = h[s]
  BY <1>3, <1>5
<1> QED
  BY <1>2, <1>9, <1>10

LEMMA EaseStep ==
  ASSUME RulesIInv, NEW h \in NotRoot,
         \A q \in NotRoot : Len(q) < Len(h) => Eased(q)
  PROVE  Eased(h)
<1>1. h \in Seq(Entry) /\ Len(h) > 1 /\ network \in Network
  BY DEF RulesIInv, Lineal, NotRoot
<1> SUFFICES ASSUME Within(h) # 0, InOrder(h)
             PROVE  h[Len(h)].bits = IF LateOne(h) /\ network # "Mainnet"
                                       THEN Limit[network] ELSE h[StartOf(h)].bits
  BY <1>1, EasedIs
<1>2. PICK n \in Nat, s \in Nat : n = Len(h) /\ s = StartOf(h) /\ s >= 1 /\ s < n
  BY <1>1, WithinFacts
<1>6. h \notin hasty
  <2>1. 0 \in 0 .. Within(h) - 1 /\ Within(h) - 0 = Within(h)
    BY <1>1, WithinFacts
  <2>2. Below(h, 0) = h
    <3>1. 0 \in 0 .. Len(h) /\ Len(h) - 0 = Len(h)
      OBVIOUS
    <3>2. Below(h, 0) \in Seq(Entry) /\ Len(Below(h, 0)) = Len(h)
          /\ \A j \in 1 .. Len(h) : Below(h, 0)[j] = h[j]
      BY <1>1, <3>1, BelowFacts
    <3> QED
      BY <1>1, <3>2, SeqEqual
  <2> QED
    BY <1>1, <2>1, <2>2, InOrderBelow
<1>3. CASE network = "Mainnet"
  <2>1. h[n].bits = h[n - 1].bits
    BY <1>2, <1>3, <1>6, VettedSays
  <2>2. s = n - 1 \/ n - 1 \in s + 1 .. n - 1
    BY <1>2
  <2>3. h[n - 1].bits = h[s].bits
    BY <1>2, <1>3, <2>2, EasedBelow
  <2> QED
    BY <1>2, <1>3, <2>1, <2>3
<1>4. CASE network # "Mainnet" /\ LateOne(h)
  BY <1>2, <1>4, <1>6, VettedSays
<1>5. CASE network # "Mainnet" /\ ~ LateOne(h)
  <2>1. PICK p : p = Prev(h)
    OBVIOUS
  <2>2. p \in Seq(Entry) /\ Len(p) = n - 1 /\ \A j \in 1 .. n - 1 : p[j] = h[j]
    BY <1>1, <1>2, <2>1, PrevFacts
  <2>3. Len(p) > 0
    BY <1>2, <2>2
  <2>4. PICK i \in 1 .. Len(p) :
          /\ Telling(p, i) /\ LastRealBits(p, Len(p)) = p[i].bits
          /\ \A j \in 1 .. Len(p) : Telling(p, j) => j <= i
    BY <2>2, <2>3, LastTelling
  <2>5. i \in 1 .. n - 1 /\ i \in Nat
    BY <1>2, <2>2
  <2>6. h[n].bits = h[i].bits
    <3>1. h[n].bits = LastRealBits(p, n - 1)
      BY <1>2, <1>5, <1>6, <2>1, VettedSays
    <3> QED
      BY <2>2, <2>4, <2>5, <3>1
  <2>7. s <= i
    <3>1. s \in StartOf(h) .. Len(h) /\ s - s = 0
      BY <1>2
    <3>2. (s - 1) % Interval = 0
      BY <1>1, <1>2, <3>1, WithinFacts
    <3>3. Telling(p, s) /\ s \in 1 .. Len(p)
      BY <1>2, <2>2, <3>2 DEF Telling
    <3> QED
      BY <2>4, <3>3
  <2>8. h[i].bits = h[s].bits
    <3>1. CASE i = s
      BY <3>1
    <3>2. CASE i # s
      <4>1. i \in StartOf(h) + 1 .. Len(h) - 1 /\ i \in StartOf(h) .. Len(h)
            /\ i - StartOf(h) # 0
        BY <1>2, <2>5, <2>7, <3>2
      <4>2. (i - 1) % Interval # 0
        BY <1>1, <4>1, WithinFacts
      <4>3. h[i].bits # Limit[network]
        BY <2>2, <2>4, <2>5, <4>2 DEF Telling
      <4> QED
        BY <1>2, <4>1, <4>3, EasedBelow
    <3> QED
      BY <3>1, <3>2
  <2> QED
    BY <1>2, <1>5, <2>6, <2>8
<1> QED
  BY <1>3, <1>4, <1>5

(* Between two retargets a Header that is not late carries the bits its own   *)
(* window started with, however many Headers at the limit lie between; only a *)
(* late one, and not on Mainnet, is easier, as long as no Header of the       *)
(* window was hasty.                                                          *)
THEOREM EasierOnlyWhenLate == RulesSpec => []EasyOnlyWhenLate
<1>1. RulesIInv => EasyOnlyWhenLate
  <2> SUFFICES ASSUME RulesIInv PROVE \A h \in NotRoot : Eased(h)
    BY DEF EasyOnlyWhenLate, Eased
  <2> DEFINE Wrong == {Len(h) : h \in {x \in NotRoot : ~ Eased(x)}}
  <2>1. Wrong \in SUBSET Nat
    BY DEF RulesIInv, Lineal, NotRoot
  <2>2. ASSUME Wrong # {} PROVE FALSE
    <3>1. PICK n \in Wrong : \A m \in Wrong : n <= m
      BY <2>1, <2>2, LeastNat
    <3>2. PICK h \in NotRoot : ~ Eased(h) /\ n = Len(h)
      BY <3>1
    <3>3. ASSUME NEW q \in NotRoot, Len(q) < Len(h) PROVE Eased(q)
      <4>1. ASSUME ~ Eased(q) PROVE FALSE
        <5>1. Len(q) \in Wrong /\ Len(q) \in Nat /\ n \in Nat
          BY <2>1, <3>1, <4>1
        <5>2. n <= Len(q)
          BY <3>1, <5>1
        <5> QED
          BY <3>2, <3>3, <5>1, <5>2
      <4> QED
        BY <4>1
    <3> QED
      BY <3>2, <3>3, EaseStep
  <2> QED
    BY <2>2
<1> QED
  BY <1>1, RulesInitHolds, RulesStep, PTL DEF RulesSpec

(***************************** the median below ******************************)
Earlier(times, m) == {i \in DOMAIN times : times[i] < m}
UpTo(times, m) == {i \in DOMAIN times : times[i] <= m}

IsMedian(times, m) ==
  /\ Cardinality(Earlier(times, m)) <= Len(times) \div 2
  /\ Cardinality(UpTo(times, m)) > Len(times) \div 2

LEMMA MedianIs ==
  ASSUME NEW times
  PROVE  MedianOf(times) = IF times = << >> THEN 0
                           ELSE CHOOSE m \in ToSet(times) : IsMedian(times, m)
BY DEF MedianOf, IsMedian, Earlier, UpTo

LEMMA UpToFinite ==
  ASSUME NEW times \in Seq(Nat), NEW m \in Nat
  PROVE  /\ UpTo(times, m) \in SUBSET (1 .. Len(times)) /\ IsFiniteSet(UpTo(times, m))
         /\ Earlier(times, m) \in SUBSET (1 .. Len(times)) /\ IsFiniteSet(Earlier(times, m))
         /\ Cardinality(UpTo(times, m)) \in Nat /\ Cardinality(Earlier(times, m)) \in Nat
<1>1. Len(times) \in Nat /\ DOMAIN times = 1 .. Len(times)
  OBVIOUS
<1>2. IsFiniteSet(1 .. Len(times))
  BY <1>1, FS_Interval
<1>3. UpTo(times, m) \in SUBSET (1 .. Len(times)) /\ Earlier(times, m) \in SUBSET (1 .. Len(times))
  BY <1>1 DEF UpTo, Earlier
<1>4. IsFiniteSet(UpTo(times, m)) /\ IsFiniteSet(Earlier(times, m))
  BY <1>2, <1>3, FS_Subset
<1> QED
  BY <1>3, <1>4, FS_CardinalityType

(* There is a median, and it is one of the timestamps.                        *)
LEMMA MedianExists ==
  ASSUME NEW times \in Seq(Nat), Len(times) > 0
  PROVE  \E m \in ToSet(times) : m \in Nat /\ IsMedian(times, m)
<1>1. PICK L \in Nat : L = Len(times) /\ L > 0
  OBVIOUS
<1>2. DOMAIN times = 1 .. L /\ \A i \in 1 .. L : times[i] \in Nat
  BY <1>1
<1>3. PICK half \in Nat : half = Len(times) \div 2 /\ half < L
  BY <1>1
<1>4. \E B \in Nat : \A j \in 1 .. L : times[j] <= B
  <2> DEFINE G == {i \in Nat : \E B \in Nat : \A j \in 1 .. L : j <= i => times[j] <= B}
  <2>1. 0 \in G
    BY <1>1
  <2>2. ASSUME NEW i \in 1 .. L, i - 1 \in G PROVE i \in G
    <3>1. PICK B \in Nat : \A j \in 1 .. L : j <= i - 1 => times[j] <= B
      BY <2>2
    <3>2. PICK C \in Nat : C >= B /\ C >= times[i]
      <4>1. PICK x \in Nat : x = times[i]
        BY <1>2
      <4>2. B + x \in Nat /\ B + x >= B /\ B + x >= x
        BY <4>1
      <4> QED
        BY <4>1, <4>2
    <3>3. \A j \in 1 .. L : j <= i => times[j] <= C
      <4> SUFFICES ASSUME NEW j \in 1 .. L, j <= i PROVE times[j] <= C
        OBVIOUS
      <4>1. CASE j = i
        BY <3>2, <4>1
      <4>2. CASE j # i
        BY <1>2, <3>1, <3>2, <4>2
      <4> QED
        BY <4>1, <4>2
    <3>4. i \in Nat
      OBVIOUS
    <3> QED
      BY <3>3, <3>4
  <2> HIDE DEF G
  <2>3. L \in G
    <3>1. \A i \in 0 .. L : i \in G
      BY <2>1, <2>2, StepByStep
    <3> QED
      BY <1>1, <3>1
  <2> QED
    BY <2>3 DEF G
<1>5. PICK B \in Nat : \A j \in 1 .. L : times[j] <= B
  BY <1>4
<1> DEFINE T == {m \in Nat : Cardinality(UpTo(times, m)) > half}
<1>6. B \in T
  <2>1. UpTo(times, B) = 1 .. L
    BY <1>2, <1>5 DEF UpTo
  <2>2. Cardinality(1 .. L) = L
    <3>1. Cardinality(1 .. L) = IF 1 > L THEN 0 ELSE L - 1 + 1
      BY FS_Interval
    <3> QED
      BY <1>1, <3>1
  <2> QED
    BY <1>3, <2>1, <2>2
<1>7. PICK m \in T : \A y \in T : m <= y
  BY <1>6, LeastNat
<1>8. Cardinality(Earlier(times, m)) <= half
  <2>1. CASE m = 0
    <3>1. Earlier(times, m) = {}
      BY <1>2, <2>1 DEF Earlier
    <3> QED
      BY <3>1, FS_EmptySet
  <2>2. CASE m # 0
    <3>1. m - 1 \in Nat /\ m - 1 < m
      BY <2>2
    <3>2. m - 1 \notin T
      BY <1>7, <3>1
    <3>3. Cardinality(UpTo(times, m - 1)) \in Nat
      BY <3>1, UpToFinite
    <3>4. Cardinality(UpTo(times, m - 1)) <= half
      BY <1>3, <3>1, <3>2, <3>3
    <3>5. Earlier(times, m) = UpTo(times, m - 1)
      BY <1>2, <3>1 DEF Earlier, UpTo
    <3> QED
      BY <3>4, <3>5
  <2> QED
    BY <2>1, <2>2
<1>9. Cardinality(UpTo(times, m)) > half
  BY <1>7
<1>10. m \in ToSet(times)
  <2>1. ASSUME m \notin ToSet(times) PROVE FALSE
    <3>1. \A i \in 1 .. L : times[i] # m
      BY <1>2, <2>1 DEF ToSet
    <3>2. UpTo(times, m) = Earlier(times, m)
      BY <1>2, <3>1 DEF UpTo, Earlier
    <3>3. Cardinality(UpTo(times, m)) \in Nat
      BY UpToFinite
    <3> QED
      BY <1>3, <1>8, <1>9, <3>2, <3>3
  <2> QED
    BY <2>1
<1> QED
  BY <1>3, <1>7, <1>8, <1>9, <1>10 DEF IsMedian

LEMMA MedianFacts ==
  ASSUME NEW times \in Seq(Nat), Len(times) > 0
  PROVE  MedianOf(times) \in Nat /\ IsMedian(times, MedianOf(times))
<1>1. PICK m \in ToSet(times) : m \in Nat /\ IsMedian(times, m)
  BY MedianExists
<1>2. PICK mid : mid = CHOOSE x \in ToSet(times) : IsMedian(times, x)
  OBVIOUS
<1>3. mid \in ToSet(times) /\ IsMedian(times, mid)
  BY <1>1, <1>2
<1>4. times # << >>
  OBVIOUS
<1>5. MedianOf(times) = mid
  BY <1>2, <1>4, MedianIs
<1>6. \A x \in ToSet(times) : x \in Nat
  BY DEF ToSet
<1> QED
  BY <1>3, <1>5, <1>6

(* The median of a window never falls when the window moves on by one         *)
(* timestamp that is above the median: of what the new window has kept, no    *)
(* more than half of the old one was below the old median.                    *)
LEMMA MedianGrows ==
  ASSUME NEW old \in Seq(Nat), NEW new \in Seq(Nat), Len(old) > 0,
         Len(new) >= Len(old), NEW d \in Nat,
         \A i \in 1 .. Len(new) - 1 : i + d \in 1 .. Len(old) /\ new[i] = old[i + d],
         new[Len(new)] > MedianOf(old)
  PROVE  MedianOf(old) <= MedianOf(new)
<1>1. PICK m \in Nat, n \in Nat : m = MedianOf(old) /\ n = MedianOf(new)
      /\ IsMedian(old, m) /\ IsMedian(new, n)
  <2>1. Len(new) > 0
    OBVIOUS
  <2> QED
    BY <2>1, MedianFacts
<1>2. ASSUME n < m PROVE FALSE
  <2>1. \A i \in UpTo(new, n) : i \in 1 .. Len(new) - 1 /\ i + d \in Earlier(old, m)
    <3> SUFFICES ASSUME NEW i \in UpTo(new, n)
                 PROVE  i \in 1 .. Len(new) - 1 /\ i + d \in Earlier(old, m)
      OBVIOUS
    <3>1. i \in 1 .. Len(new) /\ new[i] <= n /\ new[i] \in Nat
      BY DEF UpTo
    <3>2. new[i] < m
      BY <1>2, <3>1
    <3>3. i # Len(new)
      <4>1. ASSUME i = Len(new) PROVE FALSE
        BY <1>1, <3>1, <3>2, <4>1
      <4> QED
        BY <4>1
    <3>4. i \in 1 .. Len(new) - 1
      BY <3>1, <3>3
    <3>5. PICK j \in 1 .. Len(old) : j = i + d /\ new[i] = old[j]
      BY <3>4
    <3>6. DOMAIN old = 1 .. Len(old)
      OBVIOUS
    <3>7. j \in Earlier(old, m)
      BY <3>2, <3>5, <3>6 DEF Earlier
    <3> QED
      BY <3>4, <3>5, <3>7
  <2> DEFINE f == [i \in UpTo(new, n) |-> i + d]
  <2>2. f \in Injection(UpTo(new, n), Earlier(old, m))
    <3>1. f \in [UpTo(new, n) -> Earlier(old, m)]
      BY <2>1
    <3>2. \A i, j \in UpTo(new, n) : f[i] = f[j] => i = j
      <4> SUFFICES ASSUME NEW i \in UpTo(new, n), NEW j \in UpTo(new, n), i + d = j + d
                   PROVE  i = j
        OBVIOUS
      <4>1. i \in Int /\ j \in Int
        BY <2>1
      <4> QED
        BY <4>1
    <3> QED
      BY <3>1, <3>2 DEF Injection, IsInjective
  <2> HIDE DEF f
  <2>3. IsFiniteSet(Earlier(old, m)) /\ Cardinality(Earlier(old, m)) \in Nat
        /\ Cardinality(UpTo(new, n)) \in Nat
    BY UpToFinite
  <2>4. Cardinality(UpTo(new, n)) <= Cardinality(Earlier(old, m))
    BY <2>2, <2>3, FS_Injection
  <2>5. PICK a \in Nat, b \in Nat : a = Len(old) \div 2 /\ b = Len(new) \div 2 /\ a <= b
    <3>1. PICK x \in Nat, y \in Nat : x = Len(old) /\ y = Len(new) /\ x <= y
      OBVIOUS
    <3>2. x \div 2 \in Nat /\ y \div 2 \in Nat /\ x \div 2 <= y \div 2
      BY <3>1
    <3> QED
      BY <3>1, <3>2
  <2>6. Cardinality(Earlier(old, m)) <= a /\ Cardinality(UpTo(new, n)) > b
    BY <1>1, <2>5 DEF IsMedian
  <2> QED
    BY <2>3, <2>4, <2>5, <2>6
<1> QED
  BY <1>1, <1>2

LEMMA RecentFacts ==
  ASSUME NEW q \in Seq(Entry), Len(q) > 0
  PROVE  /\ RecentTimes(q, Len(q)) \in Seq(Nat)
         /\ Len(RecentTimes(q, Len(q))) = Less(Len(q), Window)
         /\ \A i \in 1 .. Less(Len(q), Window) :
              RecentTimes(q, Len(q))[i] = q[Len(q) - Less(Len(q), Window) + i].time
<1>1. PICK l \in Nat, n \in Nat : l = Len(q) /\ n = Less(l, Window) /\ n <= l /\ n > 0
  BY RulesShape DEF Less
<1>2. \A i \in 1 .. n : q[l - n + i].time \in Nat
  <2> SUFFICES ASSUME NEW i \in 1 .. n PROVE q[l - n + i].time \in Nat
    OBVIOUS
  <2>1. l - n + i \in 1 .. l
    BY <1>1
  <2>2. q[l - n + i] \in Entry
    BY <1>1, <2>1
  <2> QED
    BY <2>2 DEF Entry
<1>3. PICK r : r = RecentTimes(q, l)
  OBVIOUS
<1>4. r = [i \in 1 .. n |-> q[l - n + i].time]
  BY <1>1, <1>3 DEF RecentTimes
<1>5. r \in Seq(Nat) /\ Len(r) = n
  BY <1>1, <1>2, <1>4
<1> QED
  BY <1>1, <1>3, <1>4, <1>5

LEMMA MedianPastNat ==
  ASSUME NEW q \in Seq(Entry), Len(q) > 0
  PROVE  MedianPast(q) \in Nat
<1>1. Less(Len(q), Window) > 0
  BY RulesShape DEF Less
<1> QED
  BY <1>1, RecentFacts, MedianFacts DEF MedianPast

(* The median-time-past never falls from a Header to one on top of it that    *)
(* was judged on its whole branch.                                            *)
LEMMA MedianPastGrows ==
  ASSUME RulesIInv, NEW h \in NotRoot, h \notin hasty
  PROVE  MedianPast(Prev(h)) <= MedianPast(h)
<1>1. h \in Seq(Entry) /\ Len(h) > 1 /\ Vetted(h, Len(h) - 1)
  BY DEF RulesIInv, Lineal, NotRoot, RulesKept
<1>2. PICK l \in Nat, p \in Seq(Entry) : l = Len(h) - 1 /\ p = Prev(h) /\ Len(p) = l
        /\ \A i \in 1 .. l : p[i] = h[i]
  BY <1>1, PrevFacts
<1>3. l > 0 /\ Len(h) = l + 1
  BY <1>1, <1>2
<1>4. h[l + 1].time > MedianPast(p)
  <2>1. Last(h) = h[l + 1]
    BY <1>3 DEF Last
  <2> QED
    BY <1>1, <1>2, <2>1 DEF Vetted, MedianPast
<1>5. PICK w \in Nat : w = Window /\ w > 0
  BY RulesShape
<1>6. PICK n \in Nat, k \in Nat : n = Less(l, w) /\ k = Less(l + 1, w) /\ n > 0 /\ n <= k
        /\ n <= l /\ k <= l + 1 /\ n - k + 1 \in Nat
  BY <1>3, <1>5 DEF Less
<1>7. PICK old : old = RecentTimes(p, l)
  OBVIOUS
<1>8. PICK new : new = RecentTimes(h, l + 1)
  OBVIOUS
<1>9. old \in Seq(Nat) /\ Len(old) = n
      /\ \A i \in 1 .. n : old[i] = p[l - n + i].time
  BY <1>2, <1>3, <1>5, <1>6, <1>7, RecentFacts
<1>10. new \in Seq(Nat) /\ Len(new) = k
       /\ \A i \in 1 .. k : new[i] = h[l + 1 - k + i].time
  <2>1. Len(h) > 0 /\ new = RecentTimes(h, Len(h)) /\ Less(Len(h), Window) = k
    BY <1>3, <1>5, <1>6, <1>8
  <2>2. new \in Seq(Nat) /\ Len(new) = k
        /\ \A i \in 1 .. k : new[i] = h[Len(h) - k + i].time
    BY <1>1, <2>1, RecentFacts
  <2>3. PICK m : m = Len(h)
    OBVIOUS
  <2>4. m = l + 1
    BY <1>3, <2>3
  <2>5. new \in Seq(Nat) /\ Len(new) = k
        /\ \A i \in 1 .. k : new[i] = h[m - k + i].time
    BY <2>2, <2>3
  <2> QED
    BY <2>4, <2>5
<1>11. PICK d \in Nat : d = n - k + 1
  BY <1>6
<1>12. ASSUME NEW i \in 1 .. k - 1
       PROVE  i + d \in 1 .. n /\ new[i] = old[i + d]
  <2>1. i + d \in 1 .. n /\ i \in 1 .. k /\ l - n + (i + d) = l + 1 - k + i
        /\ l + 1 - k + i \in 1 .. l
    <3>1. i \in Nat /\ i >= 1 /\ i <= k - 1
      BY <1>6, <1>12
    <3>2. n <= k /\ k <= l + 1 /\ d = n - k + 1
      BY <1>6, <1>11
    <3>3. i + d >= 1 /\ i + d <= n /\ i + d \in Int
      BY <3>1, <3>2
    <3>4. l + 1 - k + i >= 1 /\ l + 1 - k + i <= l /\ l + 1 - k + i \in Int
      BY <3>1, <3>2
    <3>5. l - n + (i + d) = l + 1 - k + i
      BY <3>1, <3>2
    <3> QED
      BY <3>1, <3>3, <3>4, <3>5
  <2>2. new[i] = h[l + 1 - k + i].time
    BY <1>10, <2>1
  <2>3. old[i + d] = p[l + 1 - k + i].time
    BY <1>9, <2>1
  <2> QED
    BY <1>2, <2>1, <2>2, <2>3
<1>13. MedianPast(p) = MedianOf(old) /\ MedianPast(h) = MedianOf(new)
  BY <1>2, <1>3, <1>7, <1>8 DEF MedianPast
<1>14. new[k] > MedianOf(old)
  <2>1. k \in 1 .. k /\ l + 1 - k + k = l + 1
    BY <1>6
  <2>2. new[k] = h[l + 1].time
    BY <1>10, <2>1
  <2> QED
    BY <1>4, <1>13, <2>2
<1>15. MedianOf(old) <= MedianOf(new)
  BY <1>6, <1>9, <1>10, <1>12, <1>14, MedianGrows
<1> QED
  BY <1>2, <1>13, <1>15

LEMMA BeforeNat ==
  ASSUME NEW q \in Seq(Entry), Len(q) > 0
  PROVE  MedianBefore(q) \in Nat
<1>1. CASE Len(q) = 1
  BY <1>1 DEF MedianBefore
<1>2. CASE Len(q) # 1
  <2>1. Len(q) > 1
    <3>1. PICK l \in Nat : l = Len(q)
      OBVIOUS
    <3> QED
      BY <1>2, <3>1
  <2>2. Prev(q) \in Seq(Entry) /\ Len(Prev(q)) = Len(q) - 1
    BY <2>1, PrevFacts
  <2>3. Len(Prev(q)) > 0
    BY <2>1, <2>2
  <2> QED
    BY <1>2, <2>2, <2>3, MedianPastNat DEF MedianBefore
<1> QED
  BY <1>1, <1>2

(* What a lock is measured by is no less on the next Header.                  *)
LEMMA BeforeGrows ==
  ASSUME RulesIInv, NEW h \in NotRoot, Prev(h) \notin hasty
  PROVE  /\ Prev(h) \in Seq(Entry) /\ Len(Prev(h)) = Len(h) - 1 /\ Len(Prev(h)) > 0
         /\ MedianBefore(Prev(h)) \in Nat /\ MedianBefore(h) \in Nat
         /\ MedianBefore(Prev(h)) <= MedianBefore(h)
<1>1. h \in Seq(Entry) /\ Len(h) > 1 /\ Prev(h) \in held
  BY DEF RulesIInv, Lineal, NotRoot
<1>2. PICK p \in Seq(Entry) : p = Prev(h) /\ Len(p) = Len(h) - 1 /\ Len(p) > 0
  BY <1>1, PrevFacts
<1>3. MedianBefore(p) \in Nat /\ MedianBefore(h) \in Nat
  BY <1>1, <1>2, BeforeNat
<1>4. MedianBefore(h) = MedianPast(p)
  BY <1>1, <1>2 DEF MedianBefore
<1>5. MedianBefore(p) <= MedianPast(p)
  <2>1. CASE Len(p) = 1
    <3>1. MedianBefore(p) = 0
      BY <2>1 DEF MedianBefore
    <3>2. MedianPast(p) \in Nat
      BY <1>2, MedianPastNat
    <3> QED
      BY <3>1, <3>2
  <2>2. CASE Len(p) # 1
    <3>1. p # Root(network)
      <4>1. ASSUME p = Root(network) PROVE FALSE
        <5>1. Len(p) = 1
          BY <4>1 DEF Root
        <5> QED
          BY <2>2, <5>1
      <4> QED
        BY <4>1
    <3>2. p \in NotRoot
      BY <1>1, <1>2, <3>1 DEF NotRoot
    <3>3. MedianPast(Prev(p)) <= MedianPast(p)
      BY <1>2, <3>2, MedianPastGrows
    <3> QED
      BY <2>2, <3>3 DEF MedianBefore
  <2> QED
    BY <2>1, <2>2
<1> QED
  BY <1>2, <1>3, <1>4, <1>5

(* A coin's median is that of the Block below it, whoever spends the coin.    *)
LEMMA SameCoin ==
  ASSUME NEW h \in Seq(Entry), Len(h) > 1, NEW coin \in 0 .. HeightOf(Prev(h))
  PROVE  /\ CoinMedian(coin, Prev(h)) = CoinMedian(coin, h)
         /\ CoinMedian(coin, h) \in Nat
<1>1. PICK p \in Seq(Entry) : p = Prev(h) /\ Len(p) = Len(h) - 1
                              /\ \A i \in 1 .. Len(h) - 1 : p[i] = h[i]
  BY PrevFacts
<1>2. PICK l \in Nat : l = Len(p) /\ Len(h) = l + 1 /\ l > 0
  BY <1>1
<1>3. PICK c \in Nat : c = coin + 1 /\ c >= 1 /\ c <= l
  BY <1>1, <1>2 DEF HeightOf
<1>4. (\A i \in 1 .. c : p[i] \in Entry) /\ (\A i \in 1 .. c : h[i] \in Entry)
  BY <1>1, <1>2, <1>3
<1>5. /\ SubSeq(p, 1, c) \in Seq(Entry) /\ Len(SubSeq(p, 1, c)) = c
      /\ \A i \in 1 .. c : SubSeq(p, 1, c)[i] = p[i]
  BY <1>3, <1>4, SubSeqProperties
<1>6. /\ SubSeq(h, 1, c) \in Seq(Entry) /\ Len(SubSeq(h, 1, c)) = c
      /\ \A i \in 1 .. c : SubSeq(h, 1, c)[i] = h[i]
  BY <1>3, <1>4, SubSeqProperties
<1>7. \A i \in 1 .. c : SubSeq(p, 1, c)[i] = SubSeq(h, 1, c)[i]
  <2> SUFFICES ASSUME NEW i \in 1 .. c PROVE SubSeq(p, 1, c)[i] = SubSeq(h, 1, c)[i]
    OBVIOUS
  <2>1. i \in 1 .. Len(h) - 1
    BY <1>2, <1>3
  <2> QED
    BY <1>1, <1>5, <1>6, <2>1
<1>8. SubSeq(p, 1, c) = SubSeq(h, 1, c)
  BY <1>5, <1>6, <1>7, SeqEqual
<1>9. MedianBefore(SubSeq(h, 1, c)) \in Nat
  <2>1. PICK q \in Seq(Entry) : q = SubSeq(h, 1, c)
    BY <1>6
  <2>2. Len(q) > 0
    BY <1>3, <1>6, <2>1
  <2> QED
    BY <2>1, <2>2, BeforeNat
<1> QED
  BY <1>1, <1>3, <1>8, <1>9 DEF CoinMedian

LEMMA OpenOnTop ==
  ASSUME RulesIInv, NEW h \in NotRoot, Csv(Prev(h)), Prev(h) \notin hasty
  PROVE  /\ \A lockTime \in LockTimes :
              IsFinal(lockTime, FALSE, Prev(h)) => IsFinal(lockTime, FALSE, h)
         /\ \A kind \in {"blocks", "seconds"}, wait \in Waits,
              coin \in 0 .. HeightOf(Prev(h)) :
                Waited(kind, wait, coin, Prev(h)) => Waited(kind, wait, coin, h)
<1>1. h \in Seq(Entry) /\ Len(h) > 1 /\ network \in Network
  BY DEF RulesIInv, Lineal, NotRoot
<1>2. PICK p \in Seq(Entry), a \in Nat, b \in Nat, k \in Nat :
        /\ p = Prev(h) /\ a = MedianBefore(p) /\ b = MedianBefore(h) /\ a <= b
        /\ k = HeightOf(p) /\ k + 1 = HeightOf(h)
  <2>1. /\ Prev(h) \in Seq(Entry) /\ Len(Prev(h)) = Len(h) - 1 /\ Len(Prev(h)) > 0
        /\ MedianBefore(Prev(h)) \in Nat /\ MedianBefore(h) \in Nat
        /\ MedianBefore(Prev(h)) <= MedianBefore(h)
    BY BeforeGrows
  <2>2. HeightOf(Prev(h)) \in Nat /\ HeightOf(Prev(h)) + 1 = HeightOf(h)
    BY <1>1, <2>1 DEF HeightOf
  <2> QED
    BY <2>1, <2>2
<1>3. Csv(p) /\ Csv(h)
  <2>1. CsvHeight[network] \in Nat
    BY <1>1, FinalityShape
  <2> QED
    BY <1>2, <2>1 DEF Csv
<1>4. ASSUME NEW lockTime \in LockTimes, IsFinal(lockTime, FALSE, p)
      PROVE  IsFinal(lockTime, FALSE, h)
  <2>1. lockTime \in Nat /\ Threshold \in Nat
    BY FinalityShape
  <2>2. CutoffOf(p) = a /\ CutoffOf(h) = b
    BY <1>2, <1>3 DEF CutoffOf
  <2>3. lockTime = 0 \/ Passed(lockTime, k, a)
    BY <1>2, <1>4, <2>2 DEF IsFinal
  <2>4. lockTime = 0 \/ Passed(lockTime, k + 1, b)
    BY <1>2, <2>1, <2>3 DEF Passed
  <2> QED
    BY <1>2, <2>2, <2>4 DEF IsFinal
<1>5. ASSUME NEW kind \in {"blocks", "seconds"}, NEW wait \in Waits,
             NEW coin \in 0 .. HeightOf(p), Waited(kind, wait, coin, p)
      PROVE  Waited(kind, wait, coin, h)
  <2>1. wait \in Nat /\ coin \in Nat
    BY <1>2, FinalityShape
  <2>2. PICK m \in Nat : m = CoinMedian(coin, h) /\ m = CoinMedian(coin, p)
    BY <1>1, <1>2, SameCoin
  <2>3. CASE kind = "blocks"
    BY <1>2, <1>3, <1>5, <2>1, <2>3 DEF Waited
  <2>4. CASE kind = "seconds"
    BY <1>2, <1>3, <1>5, <2>1, <2>2, <2>4 DEF Waited
  <2> QED
    BY <2>3, <2>4
<1> QED
  BY <1>2, <1>4, <1>5

(* Once BIP113 and BIP68 hold, a lock that let a Transaction into a Block lets *)
(* it into the next Block on top: no timestamp a miner picks locks it again,  *)
(* as long as the Block below was judged on its whole branch.                 *)
THEOREM NeverLockedAgain == RulesSpec => []LocksOpenForGood
<1>1. RulesIInv => LocksOpenForGood
  BY OpenOnTop DEF LocksOpenForGood
<1> QED
  BY <1>1, RulesInitHolds, RulesStep, PTL DEF RulesSpec

(* The tree stays inside its bounds, every Header of it a child of one held.  *)
RulesTyped == RulesTypeOK /\ IsFiniteSet(held)

LEMMA OneMore ==
  ASSUME NEW S, NEW a, IsFiniteSet(S)
  PROVE  /\ IsFiniteSet(S \cup {a}) /\ Cardinality(S \cup {a}) \in Nat
         /\ Cardinality(S) \in Nat /\ Cardinality(S \cup {a}) <= Cardinality(S) + 1
<1>1. PICK n \in Nat : n = Cardinality(S)
  BY FS_CardinalityType
<1>2. IsFiniteSet(S \cup {a})
  BY FS_AddElement
<1>3. Cardinality(S \cup {a}) = IF a \in S THEN Cardinality(S) ELSE Cardinality(S) + 1
  BY FS_AddElement
<1>4. Cardinality(S \cup {a}) \in Nat /\ Cardinality(S \cup {a}) <= n + 1
  BY <1>1, <1>3
<1> QED
  BY <1>1, <1>2, <1>4

LEMMA RulesTypedOn ==
  ASSUME RulesIInv, RulesTyped, network' = network, held \subseteq held',
         hasty' \subseteq hasty \cup held', Cardinality(held) < MaxHeld, NEW a, NEW b, held' \subseteq held \cup {a, b},
         \A x \in held' \ held : /\ Prev(x) \in held' /\ x \in Children(Prev(x))
                                 /\ HeightOf(x) <= TopHeight
  PROVE  RulesTyped'
<1>1. Root(network)' = Root(network) /\ \A p : Children(p)' = Children(p)
  BY DEF Root, Children
<1>2. IsFiniteSet(held) /\ Cardinality(held) \in Nat /\ MaxHeld \in Nat
  BY FS_CardinalityType, RulesShape DEF RulesTyped
<1>3. IsFiniteSet(held \cup {a, b}) /\ Cardinality(held \cup {a, b}) <= Cardinality(held) + 2
  <2>1. PICK one, two : one = held \cup {a} /\ two = one \cup {b}
    OBVIOUS
  <2>2. IsFiniteSet(one) /\ Cardinality(one) \in Nat /\ Cardinality(one) <= Cardinality(held) + 1
    BY <1>2, <2>1, OneMore
  <2>3. IsFiniteSet(two) /\ Cardinality(two) \in Nat /\ Cardinality(two) <= Cardinality(one) + 1
    BY <2>1, <2>2, OneMore
  <2>4. two = held \cup {a, b}
    BY <2>1
  <2>5. Cardinality(two) <= Cardinality(held) + 2
    BY <1>2, <2>2, <2>3
  <2> QED
    BY <2>3, <2>4, <2>5
<1>4. IsFiniteSet(held') /\ Cardinality(held') <= Cardinality(held \cup {a, b})
      /\ Cardinality(held') \in Nat /\ Cardinality(held \cup {a, b}) \in Nat
  BY <1>3, FS_Subset, FS_CardinalityType
<1>5. Cardinality(held') <= MaxHeld + 1
  BY <1>2, <1>3, <1>4
<1>6. \A x \in held' \ {Root(network)} :
        Prev(x) \in held' /\ x \in Children(Prev(x)) /\ HeightOf(x) <= TopHeight
  BY DEF RulesTyped, RulesTypeOK
<1>7. hasty' \subseteq held'
  BY DEF RulesTyped, RulesTypeOK
<1> QED
  BY <1>1, <1>4, <1>5, <1>6, <1>7 DEF RulesTyped, RulesTypeOK

LEMMA RulesTypedStep == RulesIInv /\ RulesTyped /\ [RulesNext]_rulesVars => RulesTyped'
<1> SUFFICES ASSUME RulesIInv, RulesTyped, [RulesNext]_rulesVars PROVE RulesTyped'
  OBVIOUS
<1>1. network \in Network /\ held \subseteq Seq(Entry) /\ \A x \in held : Len(x) > 0
  BY DEF RulesIInv, Lineal
<1>2. ASSUME NEW p \in Seq(Entry), NEW x \in Children(p) PROVE Prev(x) = p
  BY <1>1, <1>2, ChildFacts
<1>3. CASE UNCHANGED rulesVars
  <2>1. network' = network /\ held' = held /\ hasty' = hasty
    BY <1>3 DEF rulesVars
  <2>2. Root(network)' = Root(network) /\ \A p : Children(p)' = Children(p)
    BY <2>1 DEF Root, Children
  <2> QED
    BY <2>1, <2>2 DEF RulesTyped, RulesTypeOK
<1>4. CASE RulesNext
  <2>1. PICK batch \in BatchOfOne \cup BatchOfOrphan \cup BatchOfTwo
                       \cup BatchHigherFirst \cup BatchChildFirst : AbsorbBatch(batch)
    BY <1>4 DEF RulesNext
  <2>2. /\ Cardinality(held) < MaxHeld /\ network' = network /\ held \subseteq held'
        /\ held' \subseteq held \cup ToSet(batch)
        /\ hasty' \subseteq hasty \cup held'
    BY <1>4, <2>1 DEF RulesNext, AbsorbBatch
  <2>3. RulesIInv'
    BY <1>4, RulesStep
  <2>4. CASE batch \in BatchOfOne
    <3>1. PICK h \in NewHeaders : batch = <<h>>
      BY <2>4 DEF BatchOfOne
    <3>2. PICK p \in held : h \in Children(p) /\ HeightOf(h) <= TopHeight
      BY <3>1 DEF NewHeaders
    <3>3. Prev(h) = p
      BY <1>1, <1>2, <3>2
    <3>4. ToSet(batch) = {h}
      BY <3>1 DEF ToSet
    <3>5. held' \subseteq held \cup {h, h}
      BY <2>2, <3>4
    <3> QED
      BY <2>2, <3>2, <3>3, <3>5, RulesTypedOn
  <2>5. CASE batch \in BatchOfOrphan
    <3>1. held' = held
      BY <2>1, <2>5, OrphanLeft
    <3> QED
      BY <2>2, <3>1, RulesTypedOn
  <2>6. CASE batch \in BatchOfTwo
    <3>1. PICK h \in NewHeaders \cup NotRoot :
            \E c \in {d \in Children(h) : HeightOf(d) <= TopHeight} : batch = <<h, c>>
      BY <2>6 DEF BatchOfTwo, NotRoot
    <3>2. PICK c \in Children(h) : HeightOf(c) <= TopHeight /\ batch = <<h, c>>
      BY <3>1
    <3>3. h \in Seq(Entry)
          /\ (h \in held \/ (Prev(h) \in held /\ h \in Children(Prev(h)) /\ HeightOf(h) <= TopHeight))
      <4>1. CASE h \in NotRoot
        BY <1>1, <4>1 DEF NotRoot
      <4>2. CASE h \in NewHeaders
        <5>1. PICK p \in held : h \in Children(p) /\ HeightOf(h) <= TopHeight
          BY <4>2 DEF NewHeaders
        <5>2. p \in Seq(Entry) /\ Prev(h) = p
          BY <1>1, <1>2, <5>1
        <5>3. h \in Seq(Entry)
          BY <1>1, <5>1, <5>2, ChildFacts
        <5> QED
          BY <5>1, <5>2, <5>3
      <4> QED
        BY <3>1, <4>1, <4>2
    <3>4. Prev(c) = h
      BY <1>2, <3>2, <3>3
    <3>5. ToSet(batch) = {h, c}
      BY <3>2 DEF ToSet
    <3>6. ASSUME NEW x \in held' \ held
          PROVE  Prev(x) \in held' /\ x \in Children(Prev(x)) /\ HeightOf(x) <= TopHeight
      <4>1. x \in held' /\ x # Root(network) /\ Root(network)' = Root(network)
        BY <1>1, <2>2, <3>6 DEF RulesIInv, Lineal, Root
      <4>2. Prev(x) \in held'
        BY <2>3, <4>1 DEF RulesIInv, Lineal, NotRoot
      <4>3. x = h \/ x = c
        BY <2>2, <3>5, <3>6
      <4> QED
        BY <3>2, <3>3, <3>4, <3>6, <4>2, <4>3
    <3>7. held' \subseteq held \cup {h, c}
      BY <2>2, <3>5
    <3> QED
      BY <2>2, <3>6, <3>7, RulesTypedOn
  <2>7. CASE batch \in BatchHigherFirst
    <3>1. PICK h \in NewHeaders : batch \in {<<h, Below(h, i)>> : i \in 1 .. HeightOf(h)}
      BY <2>7 DEF BatchHigherFirst
    <3>2. held' \subseteq held \cup {h}
      BY <2>1, <3>1, TakesHigherFirst
    <3>3. PICK p \in held : h \in Children(p) /\ HeightOf(h) <= TopHeight
      BY <3>1 DEF NewHeaders
    <3>4. Prev(h) = p
      BY <1>1, <1>2, <3>3
    <3>5. held' \subseteq held \cup {h, h}
      BY <3>2
    <3> QED
      BY <2>2, <3>3, <3>4, <3>5, RulesTypedOn
  <2>8. CASE batch \in BatchChildFirst
    <3>1. PICK h \in NewHeaders :
            \E c \in {d \in Children(h) : HeightOf(d) <= TopHeight} : batch = <<c, h>>
      BY <2>8 DEF BatchChildFirst
    <3>2. PICK c \in Children(h) : HeightOf(c) <= TopHeight /\ batch = <<c, h>>
      BY <3>1
    <3>3. held' \subseteq held \cup {c, h} /\ h \in held' /\ Prev(c) = h
      BY <2>1, <3>2, TakesChildFirst
    <3>4. PICK p \in held : h \in Children(p) /\ HeightOf(h) <= TopHeight
      BY <3>1 DEF NewHeaders
    <3>5. Prev(h) = p
      BY <1>1, <1>2, <3>4
    <3>6. ASSUME NEW x \in held' \ held
          PROVE  Prev(x) \in held' /\ x \in Children(Prev(x)) /\ HeightOf(x) <= TopHeight
      BY <2>2, <3>2, <3>3, <3>4, <3>5, <3>6
    <3> QED
      BY <2>2, <3>3, <3>6, RulesTypedOn
  <2> QED
    BY <2>1, <2>4, <2>5, <2>6, <2>7, <2>8
<1> QED
  BY <1>3, <1>4

(* The types of the tree the rules build hold in every reachable state.       *)
THEOREM RulesTypeCorrect == RulesSpec => []RulesTypeOK
<1>1. RulesInit => RulesTyped
  <2> SUFFICES ASSUME RulesInit PROVE RulesTyped
    OBVIOUS
  <2>1. network \in Network /\ held = {Root(network)} /\ hasty = {}
    BY DEF RulesInit
  <2>2. IsFiniteSet(held) /\ Cardinality(held) = 1
    BY <2>1, FS_Singleton
  <2> QED
    BY <2>1, <2>2, RulesShape DEF RulesTyped, RulesTypeOK
<1>2. RulesTyped => RulesTypeOK
  BY DEF RulesTyped
<1> QED
  BY <1>1, <1>2, RulesInitHolds, RulesStep, RulesTypedStep, PTL DEF RulesSpec

(******************************** powers ************************************)
(* The powers up to the n-th, one after the other.                         *)
PowersTo(n) ==
  {g \in [0 .. n -> Nat \ {0}] : g[0] = 1 /\ \A i \in 1 .. n : g[i] = Byte * g[i - 1]}

LEMMA PowersExist == \A n \in Nat : PowersTo(n) # {}
<1> SUFFICES ASSUME NEW n \in Nat PROVE PowersTo(n) # {}
  OBVIOUS
<1> DEFINE G == {i \in Nat : PowersTo(i) # {}}
<1>0. Byte \in Nat \ {0}
  BY TargetShape
<1>1. 0 \in G
  <2>1. [i \in 0 .. 0 |-> 1] \in PowersTo(0)
    BY DEF PowersTo
  <2> QED
    BY <2>1
<1>2. ASSUME NEW i \in 1 .. n, i - 1 \in G PROVE i \in G
  <2>1. PICK g \in PowersTo(i - 1) : TRUE
    BY <1>2
  <2>2. g \in [0 .. i - 1 -> Nat \ {0}] /\ g[0] = 1
        /\ \A j \in 1 .. i - 1 : g[j] = Byte * g[j - 1]
    BY <2>1 DEF PowersTo
  <2>3. PICK last \in Nat \ {0} : last = Byte * g[i - 1]
    <3>1. PICK x \in Nat \ {0} : x = g[i - 1]
      BY <2>2
    <3>2. Byte * x \in Nat \ {0}
      BY <1>0
    <3> QED
      BY <3>1, <3>2
  <2> DEFINE h == [j \in 0 .. i |-> IF j = i THEN last ELSE g[j]]
  <2>4. h \in [0 .. i -> Nat \ {0}] /\ h[0] = 1
    BY <2>2
  <2>5. ASSUME NEW j \in 1 .. i PROVE h[j] = Byte * h[j - 1]
    <3>1. h[j - 1] = g[j - 1]
      OBVIOUS
    <3>2. CASE j = i
      BY <2>3, <3>1, <3>2
    <3>3. CASE j # i
      BY <2>2, <3>1, <3>3
    <3> QED
      BY <3>2, <3>3
  <2>6. h \in PowersTo(i)
    BY <2>4, <2>5 DEF PowersTo
  <2> QED
    BY <2>6
<1>3. n \in G
  <2> HIDE DEF G
  <2> QED
    BY <1>1, <1>2, StepByStep
<1> QED
  BY <1>3

LEMMA PowersAgree ==
  ASSUME NEW n \in Nat, NEW m \in Nat, NEW g \in PowersTo(n), NEW h \in PowersTo(m), n <= m
  PROVE  \A i \in 0 .. n : g[i] = h[i]
<1> DEFINE G == {i \in 0 .. n : g[i] = h[i]}
<1>1. 0 \in G
  BY DEF PowersTo
<1>2. ASSUME NEW i \in 1 .. n, i - 1 \in G PROVE i \in G
  <2>1. g[i] = Byte * g[i - 1] /\ h[i] = Byte * h[i - 1]
    BY DEF PowersTo
  <2> QED
    BY <1>2, <2>1
<1>3. \A i \in 0 .. n : i \in G
  <2> HIDE DEF G
  <2> QED
    BY <1>1, <1>2, StepByStep
<1> QED
  BY <1>3

LEMMA PowerDefined ==
  /\ Power \in [Nat -> Nat \ {0}]
  /\ Power[0] = 1
  /\ \A n \in Nat \ {0} : Power[n] = Byte * Power[n - 1]
<1> DEFINE table(n) == CHOOSE g \in PowersTo(n) : TRUE
           f == [n \in Nat |-> table(n)[n]]
<1>0. \A n \in Nat : table(n) \in PowersTo(n)
  BY PowersExist
<1>1. ASSUME NEW n \in Nat, NEW g \in PowersTo(n) PROVE \A i \in 0 .. n : f[i] = g[i]
  <2> SUFFICES ASSUME NEW i \in 0 .. n PROVE f[i] = g[i]
    OBVIOUS
  <2>1. PICK h \in PowersTo(i) : f[i] = h[i]
    <3>1. f[i] = table(i)[i] /\ table(i) \in PowersTo(i)
      BY <1>0
    <3> QED
      BY <3>1
  <2> HIDE DEF f
  <2>2. \A j \in 0 .. i : h[j] = g[j]
    BY PowersAgree
  <2> QED
    BY <2>1, <2>2
<1>2. f \in [Nat -> Nat \ {0}] /\ f[0] = 1 /\ \A n \in Nat \ {0} : f[n] = Byte * f[n - 1]
  <2>1. ASSUME NEW n \in Nat
        PROVE  f[n] \in Nat \ {0} /\ (n = 0 => f[n] = 1) /\ (n # 0 => f[n] = Byte * f[n - 1])
    <3>1. PICK g \in PowersTo(n) : TRUE
      BY PowersExist
    <3>2. f[n] = g[n] /\ (n # 0 => f[n - 1] = g[n - 1])
      BY <1>1
    <3> HIDE DEF f
    <3> QED
      BY <3>2 DEF PowersTo
  <2>2. f \in [Nat -> Nat \ {0}]
    BY <2>1
  <2> HIDE DEF f
  <2> QED
    BY <2>1, <2>2
<1> HIDE DEF f
<1>3. f = [n \in Nat |-> IF n = 0 THEN 1 ELSE Byte * f[n - 1]]
  <2> DEFINE r == [n \in Nat |-> IF n = 0 THEN 1 ELSE Byte * f[n - 1]]
  <2>1. \A n \in Nat : f[n] = r[n]
    BY <1>2
  <2>2. DOMAIN f = Nat /\ f = [n \in Nat |-> f[n]]
    BY <1>2
  <2> QED
    BY <2>1, <2>2
<1>4. Power = [n \in Nat |-> IF n = 0 THEN 1 ELSE Byte * Power[n - 1]]
  BY <1>3, Zenon DEF Power
<1>5. \A n \in Nat : Power[n] = f[n]
  <2> SUFFICES ASSUME NEW n \in Nat PROVE Power[n] = f[n]
    OBVIOUS
  <2> DEFINE G == {i \in Nat : Power[i] = f[i]}
  <2>1. 0 \in G
    BY <1>2, <1>4
  <2>2. ASSUME NEW i \in 1 .. n, i - 1 \in G PROVE i \in G
    <3>1. Power[i] = Byte * Power[i - 1]
      BY <1>4
    <3> QED
      BY <1>2, <2>2, <3>1
  <2> HIDE DEF G
  <2>3. n \in G
    BY <2>1, <2>2, StepByStep
  <2> QED
    BY <2>3 DEF G
<1>6. Power = f
  <2>1. Power = [n \in Nat |-> Power[n]] /\ f = [n \in Nat |-> f[n]]
    BY <1>2, <1>4
  <2> QED
    BY <1>5, <2>1, Zenon
<1> QED
  BY <1>2, <1>6

(* Division: the quotient's multiple is the largest not above.             *)
LEMMA Quotient ==
  ASSUME NEW a \in Nat, NEW p \in Nat \ {0}
  PROVE  /\ a \div p \in Nat
         /\ (a \div p) * p <= a /\ a < (a \div p + 1) * p
         /\ \A k \in Nat : k * p <= a <=> k <= a \div p
<1>1. PICK q \in Nat : q = a \div p
  OBVIOUS
<1>2. q * p <= a /\ a < (q + 1) * p
  BY <1>1
<1>3. ASSUME NEW k \in Nat, k <= q PROVE k * p <= a
  <2>1. k * p <= q * p
    BY <1>3
  <2> QED
    BY <1>2, <2>1
<1>4. ASSUME NEW k \in Nat, k >= q + 1 PROVE ~(k * p <= a)
  <2>1. k * p >= (q + 1) * p
    BY <1>4
  <2>2. k * p \in Nat /\ (q + 1) * p \in Nat
    OBVIOUS
  <2> QED
    BY <1>2, <2>1, <2>2
<1> QED
  BY <1>1, <1>2, <1>3, <1>4

LEMMA TimesFacts ==
  ASSUME NEW a \in Nat, NEW b \in Nat, NEW p \in Nat
  PROVE  /\ a * p \in Nat
         /\ a <= b => a * p <= b * p
         /\ (p # 0 /\ a < b) => a * p < b * p
OBVIOUS

(* A quotient is what its bounds say.                                      *)
LEMMA QuotientIs ==
  ASSUME NEW a \in Nat, NEW p \in Nat \ {0}, NEW q \in Nat, q * p <= a, a < (q + 1) * p
  PROVE  a \div p = q
<1>1. q <= a \div p /\ a \div p \in Nat
  BY Quotient
<1>2. ~(q + 1 <= a \div p)
  <2>1. ~((q + 1) * p <= a)
    <3>1. (q + 1) * p \in Nat
      OBVIOUS
    <3> QED
      BY <3>1
  <2> QED
    BY <2>1, Quotient
<1> QED
  BY <1>1, <1>2

LEMMA QuotientTwice ==
  ASSUME NEW a \in Nat, NEW p \in Nat \ {0}, NEW r \in Nat \ {0}
  PROVE  (a \div p) \div r = a \div (p * r)
<1>1. PICK q \in Nat, k \in Nat : q = a \div p /\ k = q \div r
  <2>1. a \div p \in Nat /\ (a \div p) \div r \in Nat
    BY Quotient
  <2> QED
    BY <2>1
<1>2. q * p <= a /\ a < (q + 1) * p /\ k * r <= q /\ q + 1 <= (k + 1) * r
  BY <1>1, Quotient
<1>3. (k * r) * p <= q * p /\ (q + 1) * p <= ((k + 1) * r) * p
  <2>1. k * r \in Nat /\ (k + 1) * r \in Nat
    OBVIOUS
  <2> QED
    BY <1>2, <2>1, TimesFacts
<1>4. (k * r) * p = k * (p * r) /\ ((k + 1) * r) * p = (k + 1) * (p * r)
  OBVIOUS
<1>5. p * r \in Nat \ {0}
  OBVIOUS
<1>6. k * (p * r) <= a /\ a < (k + 1) * (p * r)
  <2>1. k * (p * r) \in Nat /\ (k + 1) * (p * r) \in Nat /\ q * p \in Nat /\ (q + 1) * p \in Nat
    BY <1>5
  <2> QED
    BY <1>2, <1>3, <1>4, <2>1
<1> QED
  BY <1>1, <1>5, <1>6, QuotientIs

(********************************* powers ***********************************)
LEMMA PowerFacts ==
  /\ Power \in [Nat -> Nat \ {0}] /\ Power[0] = 1 /\ Power[1] = Byte
  /\ \A n \in Nat : Power[n + 1] = Byte * Power[n] /\ Power[n] < Power[n + 1]
  /\ Byte \in Nat /\ Byte >= 2
<1>1. Byte \in Nat /\ Byte >= 2
  BY TargetShape
<1>2. ASSUME NEW n \in Nat PROVE Power[n + 1] = Byte * Power[n] /\ Power[n] < Power[n + 1]
  <2>1. PICK x \in Nat \ {0} : x = Power[n]
    BY PowerDefined
  <2>2. Power[n + 1] = Byte * x
    <3>1. n + 1 \in Nat \ {0} /\ (n + 1) - 1 = n
      OBVIOUS
    <3> QED
      BY <2>1, <3>1, PowerDefined
  <2>3. x < Byte * x
    BY <1>1
  <2> QED
    BY <2>1, <2>2, <2>3
<1>3. Power[1] = Byte
  <2>1. Power[0 + 1] = Byte * Power[0]
    BY <1>2
  <2> QED
    BY <1>1, <2>1, PowerDefined
<1> QED
  BY <1>1, <1>2, <1>3, PowerDefined

LEMMA PowerAdds ==
  ASSUME NEW m \in Nat, NEW n \in Nat
  PROVE  Power[m + n] = Power[m] * Power[n]
<1> DEFINE G == {i \in Nat : Power[m + i] = Power[m] * Power[i]}
<1>1. 0 \in G
  <2>1. m + 0 = m /\ Power[m] * 1 = Power[m]
    BY PowerFacts
  <2> QED
    BY <2>1, PowerFacts
<1>2. ASSUME NEW i \in 1 .. n, i - 1 \in G PROVE i \in G
  <2>1. PICK j \in Nat : j = i - 1
    OBVIOUS
  <2>2. Power[m + j] = Power[m] * Power[j]
    BY <1>2, <2>1
  <2>3. PICK x, y, z \in Nat : x = Power[m] /\ y = Power[j] /\ z = Power[m + j]
    <3>1. m + j \in Nat
      OBVIOUS
    <3>2. Power[m] \in Nat /\ Power[j] \in Nat /\ Power[m + j] \in Nat
      BY <3>1, PowerFacts
    <3> QED
      BY <3>2
  <2>4. Power[j + 1] = Byte * y /\ Power[(m + j) + 1] = Byte * z
    BY <2>3, PowerFacts
  <2>5. Byte * z = x * (Byte * y)
    BY <2>2, <2>3, PowerFacts
  <2>6. i = j + 1 /\ m + i = (m + j) + 1
    BY <2>1
  <2> QED
    BY <2>3, <2>4, <2>5, <2>6
<1>3. n \in G
  <2> HIDE DEF G
  <2> QED
    BY <1>1, <1>2, StepByStep
<1> QED
  BY <1>3

LEMMA PowerGrows ==
  ASSUME NEW m \in Nat, NEW n \in Nat, m <= n
  PROVE  Power[m] <= Power[n]
<1>1. PICK d \in Nat : n = m + d
  <2>1. n - m \in Nat /\ n = m + (n - m)
    OBVIOUS
  <2> QED
    BY <2>1
<1>2. PICK x \in Nat, y \in Nat \ {0} : x = Power[m] /\ y = Power[d]
  BY PowerFacts
<1>3. Power[n] = x * y
  BY <1>1, <1>2, PowerAdds
<1>4. x <= x * y
  OBVIOUS
<1> QED
  BY <1>2, <1>3, <1>4

(**************************** the compact form ******************************)
LEMMA SignFacts ==
  /\ Mantissas \in Nat \ {0} /\ SignBit \in Nat \ {0}
  /\ Mantissas = Power[Digits] /\ Mantissas = 2 * SignBit
  /\ \E half \in Nat \ {0} : Byte = 2 * half /\ SignBit = half * Power[Digits - 1]
  /\ Digits \in Nat /\ Digits >= 2 /\ MaxSize \in Nat /\ MaxSize >= Digits
<1>1. Digits \in Nat /\ Digits >= 2 /\ MaxSize \in Nat /\ MaxSize >= Digits
  BY TargetShape
<1>2. PICK half \in Nat \ {0} : Byte = 2 * half
  <2>1. PICK h \in Nat : h = Byte \div 2
    BY PowerFacts
  <2>2. Byte = 2 * h
    BY <2>1, TargetShape, PowerFacts
  <2>3. h # 0
    BY <2>2, TargetShape
  <2> QED
    BY <2>2, <2>3
<1>3. PICK x \in Nat \ {0} : x = Power[Digits - 1]
  <2>1. Digits - 1 \in Nat
    BY <1>1
  <2> QED
    BY <2>1, PowerFacts
<1>4. Power[Digits] = Byte * x
  <2>1. Digits \in Nat \ {0}
    BY <1>1
  <2> QED
    BY <1>3, <2>1, PowerDefined
<1>5. Mantissas = 2 * (half * x) /\ half * x \in Nat \ {0}
  BY <1>2, <1>4 DEF Mantissas
<1>6. SignBit = half * x
  <2>1. PICK y \in Nat \ {0} : y = half * x
    BY <1>5
  <2>2. (2 * y) \div 2 = y
    OBVIOUS
  <2> QED
    BY <1>5, <2>1, <2>2 DEF SignBit
<1>7. \E h \in Nat \ {0} : Byte = 2 * h /\ SignBit = h * Power[Digits - 1]
  BY <1>2, <1>3, <1>6
<1> QED
  BY <1>1, <1>4, <1>5, <1>6, <1>7 DEF Mantissas

(* Bits are a size and a word.                                             *)
LEMMA BitsAre ==
  ASSUME NEW w \in Nat, NEW s \in Nat, w < Mantissas
  PROVE  /\ w + s * Mantissas \in Nat
         /\ SizeOf(w + s * Mantissas) = s /\ WordOf(w + s * Mantissas) = w
<1>1. PICK p \in Nat \ {0} : p = Mantissas
  BY SignFacts
<1>2. PICK a \in Nat : a = w + s * p
  <2>1. s * p \in Nat
    OBVIOUS
  <2> QED
    BY <2>1
<1>3. a \div p = s
  <2>1. s * p <= a /\ (s + 1) * p = s * p + p /\ s * p \in Nat
    BY <1>2
  <2>2. a < (s + 1) * p
    BY <1>1, <1>2, <2>1
  <2> QED
    BY <2>1, <2>2, QuotientIs
<1>4. a % p = w
  <2>1. a = p * (a \div p) + (a % p)
    OBVIOUS
  <2>2. p * s = s * p /\ s * p \in Nat /\ a % p \in Nat
    OBVIOUS
  <2> QED
    BY <1>2, <1>3, <2>1, <2>2
<1> QED
  BY <1>1, <1>2, <1>3, <1>4 DEF SizeOf, WordOf

LEMMA PartsOf ==
  ASSUME NEW bits \in Nat
  PROVE  /\ SizeOf(bits) \in Nat /\ WordOf(bits) \in Nat /\ WordOf(bits) < Mantissas
         /\ bits < (SizeOf(bits) + 1) * Mantissas
         /\ WordOf(bits) < SignBit => WordOf(bits) % SignBit = WordOf(bits)
         /\ TargetOf(bits) \in Nat
<1>1. PICK p \in Nat \ {0}, b \in Nat \ {0} : p = Mantissas /\ b = SignBit
  BY SignFacts
<1>2. bits \div p \in Nat /\ bits < (bits \div p + 1) * p
  BY Quotient
<1>3. bits % p \in Nat /\ bits % p < p
  OBVIOUS
<1>4. PICK w \in Nat, s \in Nat : w = WordOf(bits) /\ s = SizeOf(bits)
  BY <1>1, <1>2, <1>3 DEF WordOf, SizeOf
<1>5. w < b => w % b = w
  OBVIOUS
<1>6. CASE s >= Digits
  <2>1. PICK x \in Nat \ {0} : x = Power[s - Digits]
    <3>1. s - Digits \in Nat
      BY <1>6, SignFacts
    <3> QED
      BY <3>1, PowerFacts
  <2>2. TargetOf(bits) = w * x /\ w * x \in Nat
    BY <1>4, <1>6, <2>1 DEF TargetOf
  <2> QED
    BY <1>1, <1>2, <1>3, <1>4, <1>5, <2>2 DEF SizeOf, WordOf
<1>7. CASE ~(s >= Digits)
  <2>1. PICK x \in Nat \ {0} : x = Power[Digits - s]
    <3>1. Digits - s \in Nat
      BY <1>7, SignFacts
    <3> QED
      BY <3>1, PowerFacts
  <2>2. TargetOf(bits) = w \div x /\ w \div x \in Nat
    BY <1>4, <1>7, <2>1, Quotient DEF TargetOf
  <2> QED
    BY <1>1, <1>2, <1>3, <1>4, <1>5, <2>2 DEF SizeOf, WordOf
<1> QED
  BY <1>6, <1>7

(* A target of no fault is below every power its size admits.              *)
LEMMA TargetAtMost ==
  ASSUME NEW bits \in Nat, NEW n \in Nat, WordOf(bits) < Power[n], n <= Digits,
         SizeOf(bits) + n <= MaxSize + Digits
  PROVE  TargetOf(bits) < Power[MaxSize]
<1>1. PICK w \in Nat, s \in Nat : w = WordOf(bits) /\ s = SizeOf(bits)
  BY PartsOf
<1>2. PICK y \in Nat \ {0}, z \in Nat \ {0} : y = Power[n] /\ z = Power[MaxSize]
  BY PowerFacts, SignFacts
<1>3. CASE s >= Digits
  <2>1. PICK d \in Nat : d = s - Digits
    BY <1>3, SignFacts
  <2>2. PICK x \in Nat \ {0} : x = Power[d]
    BY PowerFacts
  <2>3. w * x < y * x
    BY <1>1, <1>2, TimesFacts
  <2>4. y * x = Power[n + d]
    BY <1>2, <2>2, PowerAdds
  <2>5. n + d <= MaxSize /\ n + d \in Nat
    BY <1>1, <2>1, SignFacts
  <2>6. y * x <= z
    BY <1>2, <2>4, <2>5, SignFacts, PowerGrows
  <2>7. TargetOf(bits) = w * x
    BY <1>1, <1>3, <2>1, <2>2 DEF TargetOf
  <2>8. w * x \in Nat /\ y * x \in Nat
    OBVIOUS
  <2> QED
    BY <1>2, <2>3, <2>6, <2>7, <2>8
<1>4. CASE ~(s >= Digits)
  <2>1. PICK d \in Nat : d = Digits - s
    BY <1>4, SignFacts
  <2>2. PICK x \in Nat \ {0} : x = Power[d]
    BY PowerFacts
  <2>3. TargetOf(bits) = w \div x
    BY <1>1, <1>4, <2>1, <2>2 DEF TargetOf
  <2>4. PICK q \in Nat : q = w \div x /\ q * x <= w
    BY Quotient
  <2>5. q <= q * x
    OBVIOUS
  <2>6. y <= z
    BY <1>2, SignFacts, PowerGrows
  <2>7. q * x \in Nat
    OBVIOUS
  <2> QED
    BY <1>1, <1>2, <2>3, <2>4, <2>5, <2>6, <2>7
<1> QED
  BY <1>3, <1>4

LEMMA NothingOfNothing ==
  ASSUME NEW bits \in Nat, WordOf(bits) = 0
  PROVE  TargetOf(bits) = 0
<1>1. PICK s \in Nat : s = SizeOf(bits)
  BY PartsOf
<1>2. CASE s >= Digits
  <2>1. s - Digits \in Nat
    BY <1>2, SignFacts
  <2>2. PICK x \in Nat \ {0} : x = Power[s - Digits]
    BY <2>1, PowerFacts
  <2> QED
    BY <1>1, <1>2, <2>2 DEF TargetOf
<1>3. CASE ~(s >= Digits)
  <2>1. Digits - s \in Nat
    BY <1>3, SignFacts
  <2>2. PICK x \in Nat \ {0} : x = Power[Digits - s]
    BY <2>1, PowerFacts
  <2>3. 0 \div x = 0
    OBVIOUS
  <2> QED
    BY <1>1, <1>3, <2>2, <2>3 DEF TargetOf
<1> QED
  BY <1>2, <1>3

(* Bits that pass as a target's and name one above nought add work.        *)
LEMMA FaultlessIsUsable ==
  ASSUME NEW bits \in Nat, ~CompactFault(bits), TargetOf(bits) # 0
  PROVE  Usable(bits) /\ TargetOf(bits) < Power[MaxSize]
<1>1. PICK w \in Nat, s \in Nat : w = WordOf(bits) /\ s = SizeOf(bits)
  BY PartsOf
<1>2. w < SignBit /\ w % SignBit = w
  BY <1>1, PartsOf, SignFacts DEF CompactFault
<1>3. w # 0
  BY <1>1, NothingOfNothing
<1> DEFINE T == {k \in Nat : w < Power[k]}
<1>4. Digits \in T
  <2>1. SignBit <= Mantissas
    BY SignFacts
  <2>2. PICK a \in Nat, b \in Nat : a = SignBit /\ b = Mantissas
    BY SignFacts
  <2>3. w < Power[Digits]
    BY <1>2, <2>1, <2>2, SignFacts
  <2> QED
    BY <2>3, SignFacts
<1>5. PICK n \in T : \A k \in T : n <= k
  <2>1. T \in SUBSET Nat
    OBVIOUS
  <2> HIDE DEF T
  <2> QED
    BY <1>4, <2>1, LeastNat
<1>6. n \in 1 .. Digits
  <2>1. n # 0
    BY <1>3, PowerFacts
  <2>2. n <= Digits
    BY <1>4, <1>5
  <2> QED
    BY <2>1, <2>2, SignFacts
<1>7. w >= Power[n - 1]
  <2>1. n - 1 \in Nat /\ n - 1 \notin T
    BY <1>5, <1>6
  <2>2. Power[n - 1] \in Nat
    BY <2>1, PowerFacts
  <2> QED
    BY <2>1, <2>2
<1>8. s + n <= MaxSize + Digits
  <2>1. ~(s > MaxSize + Digits - n)
    BY <1>1, <1>2, <1>3, <1>6, <1>7 DEF CompactFault, Overflowing
  <2> QED
    BY <1>6, <2>1, SignFacts
<1>9. TargetOf(bits) < Power[MaxSize]
  BY <1>1, <1>6, <1>8, SignFacts, TargetAtMost
<1>10. s <= MaxSize + Digits - 1
  BY <1>6, <1>8, SignFacts
<1> QED
  BY <1>1, <1>2, <1>9, <1>10 DEF Usable

LEMMA WorkFacts ==
  ASSUME NEW b \in Nat, NEW c \in Nat, ~CompactFault(b), ~CompactFault(c),
         TargetOf(b) # 0, TargetOf(c) # 0
  PROVE  WorkOf(b) > 0 /\ (TargetOf(b) <= TargetOf(c) => WorkOf(b) >= WorkOf(c))
<1>1. PICK x \in Nat, y \in Nat, m \in Nat : x = TargetOf(b) /\ y = TargetOf(c) /\ m = Power[MaxSize]
  BY PartsOf, PowerFacts, SignFacts
<1>2. x < m /\ y < m
  BY <1>1, FaultlessIsUsable
<1>3. WorkOf(b) = m \div (x + 1) /\ WorkOf(c) = m \div (y + 1)
  BY <1>1, FaultlessIsUsable DEF WorkOf
<1>4. PICK u \in Nat, v \in Nat : u = m \div (x + 1) /\ v = m \div (y + 1)
  <2>1. x + 1 \in Nat \ {0} /\ y + 1 \in Nat \ {0}
    OBVIOUS
  <2> QED
    BY <2>1, Quotient
<1>5. 1 <= u
  <2>1. x + 1 \in Nat \ {0} /\ 1 * (x + 1) <= m
    BY <1>2
  <2> QED
    BY <1>4, <2>1, Quotient
<1>6. ASSUME x <= y PROVE v <= u
  <2>1. v * (y + 1) <= m
    <3>1. y + 1 \in Nat \ {0}
      OBVIOUS
    <3> QED
      BY <1>4, <3>1, Quotient
  <2>2. v * (x + 1) <= v * (y + 1)
    BY <1>6
  <2>3. v * (x + 1) <= m
    <3>1. v * (x + 1) \in Nat /\ v * (y + 1) \in Nat
      OBVIOUS
    <3> QED
      BY <2>1, <2>2, <3>1
  <2>4. x + 1 \in Nat \ {0}
    OBVIOUS
  <2> QED
    BY <1>4, <2>3, <2>4, Quotient
<1> QED
  BY <1>1, <1>3, <1>4, <1>5, <1>6

LEMMA LengthFacts ==
  ASSUME NEW t \in Nat, t < Power[MaxSize]
  PROVE  /\ ByteLength(t) \in 0 .. MaxSize
         /\ t < Power[ByteLength(t)]
         /\ ByteLength(t) > 0 => t >= Power[ByteLength(t) - 1]
<1> DEFINE T == {k \in Nat : t < Power[k]}
           fits(n) == t < Power[n] /\ (n > 0 => t >= Power[n - 1])
<1>0. MaxSize \in Nat
  BY SignFacts
<1>1. MaxSize \in T
  BY <1>0
<1>2. PICK n \in T : \A k \in T : n <= k
  <2>1. T \in SUBSET Nat
    OBVIOUS
  <2> HIDE DEF T
  <2> QED
    BY <1>1, <2>1, LeastNat
<1>3. n \in 0 .. MaxSize + 1 /\ fits(n)
  <2>1. n <= MaxSize /\ n \in Nat
    BY <1>1, <1>2
  <2>2. ASSUME n > 0 PROVE t >= Power[n - 1]
    <3>1. n - 1 \in Nat /\ n - 1 \notin T
      BY <1>2, <2>2
    <3>2. Power[n - 1] \in Nat
      BY <3>1, PowerFacts
    <3> QED
      BY <3>1, <3>2
  <2> QED
    BY <1>0, <1>2, <2>1, <2>2
<1>4. ByteLength(t) \in 0 .. MaxSize + 1 /\ fits(ByteLength(t))
  BY <1>3, Zenon DEF ByteLength
<1>5. PICK l \in 0 .. MaxSize + 1 : l = ByteLength(t)
  BY <1>4
<1>6. l # MaxSize + 1
  <2>1. ASSUME l = MaxSize + 1 PROVE FALSE
    <3>1. l > 0 /\ l - 1 = MaxSize
      BY <1>0, <2>1
    <3>2. t >= Power[MaxSize] /\ Power[MaxSize] \in Nat
      BY <1>0, <1>4, <1>5, <3>1, PowerFacts
    <3> QED
      BY <3>2
  <2> QED
    BY <2>1
<1>7. l \in 0 .. MaxSize
  BY <1>0, <1>5, <1>6
<1> QED
  BY <1>4, <1>5, <1>7

(* The mantissa before the sign is seen to: the target shifted to Digits   *)
(* bytes, which it does not pass.                                          *)
LEMMA MantissaFacts ==
  ASSUME NEW t \in Nat, NEW l \in Nat, t < Power[l]
  PROVE  /\ MantissaOf(t, l) \in Nat /\ MantissaOf(t, l) < Mantissas
         /\ l <= Digits => MantissaOf(t, l) = t * Power[Digits - l]
         /\ l >= Digits => MantissaOf(t, l) = t \div Power[l - Digits]
<1>1. CASE l <= Digits
  <2>1. PICK d \in Nat : d = Digits - l /\ l + d = Digits
    BY <1>1, SignFacts
  <2>2. PICK x \in Nat \ {0}, y \in Nat \ {0} : x = Power[d] /\ y = Power[l]
    BY PowerFacts
  <2>3. MantissaOf(t, l) = t * x
    BY <1>1, <2>1, <2>2 DEF MantissaOf
  <2>4. y * x = Mantissas
    BY <2>1, <2>2, PowerAdds, SignFacts
  <2>5. t * x < y * x /\ t * x \in Nat
    BY <2>2, TimesFacts
  <2>6. ASSUME l >= Digits PROVE MantissaOf(t, l) = t \div Power[l - Digits]
    <3>1. d = 0 /\ l - Digits = 0
      BY <1>1, <2>1, <2>6, SignFacts
    <3>2. x = 1 /\ Power[l - Digits] = 1
      BY <2>2, <3>1, PowerFacts
    <3>3. t * 1 = t /\ t \div 1 = t
      OBVIOUS
    <3> QED
      BY <2>3, <3>2, <3>3
  <2> QED
    BY <2>1, <2>2, <2>3, <2>4, <2>5, <2>6
<1>2. CASE ~(l <= Digits)
  <2>1. PICK d \in Nat : d = l - Digits /\ Digits + d = l
    BY <1>2, SignFacts
  <2>2. PICK x \in Nat \ {0}, y \in Nat \ {0} : x = Power[d] /\ y = Mantissas
    BY PowerFacts, SignFacts
  <2>3. MantissaOf(t, l) = t \div x
    BY <1>2, <2>1, <2>2 DEF MantissaOf
  <2>4. Power[l] = y * x
    <3>1. Digits \in Nat /\ Mantissas = Power[Digits]
      BY SignFacts
    <3>2. Power[Digits + d] = Power[Digits] * Power[d]
      BY <3>1, PowerAdds
    <3> QED
      BY <2>1, <2>2, <3>1, <3>2
  <2>5. PICK q \in Nat : q = t \div x
    BY Quotient
  <2>6. ~(y <= q)
    <3>1. ~(y * x <= t)
      <4>1. y * x \in Nat
        OBVIOUS
      <4> QED
        BY <2>4, <4>1
    <3> QED
      BY <2>5, <3>1, Quotient
  <2> QED
    BY <1>2, <2>1, <2>2, <2>3, <2>5, <2>6
<1> QED
  BY <1>1, <1>2

(* What the largest target of a size proves room for: a target below the   *)
(* sign bit of MaxSize bytes.                                              *)
Room == SignBit * Power[MaxSize - Digits]

LEMMA RoomFacts ==
  ASSUME NEW t \in Nat, t < Room
  PROVE  t < Power[MaxSize]
<1>1. PICK d \in Nat : d = MaxSize - Digits /\ Digits + d = MaxSize
  BY SignFacts
<1>2. PICK x \in Nat \ {0}, b \in Nat \ {0} : x = Power[d] /\ b = SignBit
  BY PowerFacts, SignFacts
<1>3. Power[MaxSize] = (2 * b) * x
  <2>1. Digits \in Nat /\ Power[Digits] = 2 * b
    BY <1>2, SignFacts
  <2>2. Power[Digits + d] = Power[Digits] * Power[d]
    BY <2>1, PowerAdds
  <2> QED
    BY <1>1, <1>2, <2>1, <2>2
<1>4. b * x <= (2 * b) * x /\ b * x \in Nat /\ (2 * b) * x \in Nat
  <2>1. (2 * b) * x = b * x + b * x /\ b * x \in Nat
    OBVIOUS
  <2> QED
    BY <2>1
<1>5. Room = b * x
  BY <1>1, <1>2 DEF Room
<1> QED
  BY <1>3, <1>4, <1>5

LEMMA LimitRoom ==
  ASSUME NEW bits \in Nat, ~CompactFault(bits), SizeOf(bits) <= MaxSize
  PROVE  TargetOf(bits) < Room
<1>1. PICK w \in Nat, s \in Nat : w = WordOf(bits) /\ s = SizeOf(bits)
  BY PartsOf
<1>2. PICK b \in Nat \ {0}, e \in Nat : b = SignBit /\ e = MaxSize - Digits
  BY SignFacts
<1>3. PICK y \in Nat \ {0} : y = Power[e]
  BY PowerFacts
<1>4. w < b
  BY <1>1, <1>2 DEF CompactFault
<1>5. Room = b * y /\ b * y \in Nat
  BY <1>2, <1>3 DEF Room
<1>6. CASE s >= Digits
  <2>1. PICK d \in Nat : d = s - Digits /\ d <= e
    BY <1>1, <1>2, <1>6, SignFacts
  <2>2. PICK x \in Nat \ {0} : x = Power[d]
    BY PowerFacts
  <2>3. x <= y
    BY <1>3, <2>1, <2>2, PowerGrows
  <2>4. w * x < b * x /\ b * x <= b * y
    BY <1>4, <2>3
  <2>5. w * x \in Nat /\ b * x \in Nat
    OBVIOUS
  <2>6. TargetOf(bits) = w * x
    BY <1>1, <1>6, <2>1, <2>2 DEF TargetOf
  <2> QED
    BY <1>5, <2>4, <2>5, <2>6
<1>7. CASE ~(s >= Digits)
  <2>1. PICK d \in Nat : d = Digits - s
    BY <1>7, SignFacts
  <2>2. PICK x \in Nat \ {0} : x = Power[d]
    BY PowerFacts
  <2>3. TargetOf(bits) = w \div x
    BY <1>1, <1>7, <2>1, <2>2 DEF TargetOf
  <2>4. PICK q \in Nat : q = w \div x /\ q * x <= w
    BY Quotient
  <2>5. q <= q * x /\ b <= b * y /\ q * x \in Nat
    OBVIOUS
  <2> QED
    BY <1>4, <1>5, <2>3, <2>4, <2>5
<1> QED
  BY <1>6, <1>7

(* What a target is packed to: a word below the sign bit and a size, its   *)
(* low bytes gone, and no byte more than the sign asked for.               *)
Packs(t, w, s) ==
  /\ CompactOf(t) = w + s * Mantissas
  /\ w < SignBit /\ s <= MaxSize
  /\ s < Digits => w = t * Power[Digits - s]
  /\ s >= Digits => w = t \div Power[s - Digits]
  /\ s > Digits => SignBit * Power[s - Digits - 1] <= t

LEMMA PacksPlain ==
  ASSUME NEW t \in Nat, t < Room, NEW l \in Nat, NEW m \in Nat, l = ByteLength(t),
         m = MantissaOf(t, l), m < SignBit
  PROVE  Packs(t, m, l)
<1>1. t < Power[l] /\ l <= MaxSize /\ (l > 0 => t >= Power[l - 1])
  BY RoomFacts, LengthFacts
<1>2. PICK b \in Nat \ {0} : b = SignBit
  BY SignFacts
<1>3. CompactOf(t) = m + l * Mantissas
  BY <1>2 DEF CompactOf, Normalised
<1>4. (l <= Digits => m = t * Power[Digits - l]) /\ (l >= Digits => m = t \div Power[l - Digits])
  BY <1>1, MantissaFacts
<1>5. ASSUME l > Digits PROVE SignBit * Power[l - Digits - 1] <= t
  <2>1. PICK d \in Nat : d = l - Digits - 1 /\ Digits + d = l - 1 /\ l > 0
    BY <1>5, SignFacts
  <2>2. PICK x \in Nat \ {0} : x = Power[d]
    BY PowerFacts
  <2>3. Power[l - 1] = (2 * b) * x
    <3>1. Digits \in Nat /\ Power[Digits] = 2 * b
      BY <1>2, SignFacts
    <3>2. Power[Digits + d] = Power[Digits] * Power[d]
      BY <3>1, PowerAdds
    <3> QED
      BY <2>1, <2>2, <3>1, <3>2
  <2>4. b * x <= (2 * b) * x /\ b * x \in Nat /\ (2 * b) * x \in Nat
    <3>1. (2 * b) * x = b * x + b * x /\ b * x \in Nat
      OBVIOUS
    <3> QED
      BY <3>1
  <2> QED
    BY <1>1, <1>2, <2>1, <2>2, <2>3, <2>4
<1>6. l < Digits => l <= Digits
  BY SignFacts
<1> QED
  BY <1>1, <1>3, <1>4, <1>5, <1>6 DEF Packs

LEMMA PacksSigned ==
  ASSUME NEW t \in Nat, t < Room, NEW l \in Nat, NEW m \in Nat, l = ByteLength(t),
         m = MantissaOf(t, l), m >= SignBit
  PROVE  m \div Byte \in Nat /\ Packs(t, m \div Byte, l + 1)
<1>1. t < Power[l] /\ l <= MaxSize
  BY RoomFacts, LengthFacts
<1>2. PICK b \in Nat \ {0}, byte \in Nat \ {0} : b = SignBit /\ byte = Byte
  BY SignFacts, TargetShape
<1>3. PICK w \in Nat : w = m \div byte
  BY Quotient
<1>4. CompactOf(t) = w + (l + 1) * Mantissas
  BY <1>2, <1>3 DEF CompactOf, Normalised
<1>5. /\ m < Mantissas
      /\ l <= Digits => m = t * Power[Digits - l]
      /\ l >= Digits => m = t \div Power[l - Digits]
  BY <1>1, MantissaFacts
<1>6. w < b
  <2>1. PICK half \in Nat \ {0} : Byte = 2 * half /\ SignBit = half * Power[Digits - 1]
    BY SignFacts
  <2>2. PICK e \in Nat : e = Digits - 1 /\ Digits = e + 1
    BY SignFacts
  <2>3. PICK x \in Nat \ {0} : x = Power[e]
    BY PowerFacts
  <2>4. Mantissas = byte * x
    BY <1>2, <2>2, <2>3, PowerFacts, SignFacts
  <2>5. x <= b
    <3>1. x <= half * x
      OBVIOUS
    <3> QED
      BY <1>2, <2>1, <2>2, <2>3, <3>1
  <2>6. ~(x <= w)
    <3>1. ~(x * byte <= m)
      <4>1. x * byte = byte * x /\ byte * x \in Nat
        OBVIOUS
      <4> QED
        BY <1>5, <2>4, <4>1
    <3> QED
      BY <1>3, <3>1, Quotient
  <2> QED
    BY <2>5, <2>6
<1>7. l < MaxSize
  <2>1. ASSUME l = MaxSize PROVE FALSE
    <3>1. l >= Digits /\ l - Digits \in Nat
      BY <2>1, SignFacts
    <3>2. PICK x \in Nat \ {0} : x = Power[l - Digits]
      BY <3>1, PowerFacts
    <3>3. b <= t \div x
      BY <1>2, <1>5, <3>1, <3>2
    <3>4. b * x <= t
      BY <3>3, Quotient
    <3>5. Room = b * x /\ b * x \in Nat
      BY <1>2, <2>1, <3>2 DEF Room
    <3> QED
      BY <3>4, <3>5
  <2> QED
    BY <1>1, <2>1, SignFacts
<1>8. ASSUME l < Digits
      PROVE  w = t * Power[Digits - (l + 1)]
  <2>1. PICK d \in Nat : d = Digits - (l + 1) /\ Digits - l = d + 1
    BY <1>8, SignFacts
  <2>2. PICK x \in Nat \ {0} : x = Power[d]
    BY PowerFacts
  <2>3. Power[d + 1] = byte * x
    BY <1>2, <2>2, PowerFacts
  <2>4. m = t * (byte * x)
    BY <1>5, <1>8, <2>1, <2>3, SignFacts
  <2>5. PICK q \in Nat : q = t * x
    BY TimesFacts
  <2>6. m = q * byte
    BY <2>4, <2>5
  <2>7. w = q
    <3>1. q * byte <= m /\ m < (q + 1) * byte
      <4>1. (q + 1) * byte = q * byte + byte /\ q * byte \in Nat
        OBVIOUS
      <4> QED
        BY <2>6, <4>1
    <3> QED
      BY <1>3, <3>1, QuotientIs
  <2> QED
    BY <2>1, <2>2, <2>5, <2>7
<1>9. ASSUME l + 1 = Digits
      PROVE  w = t \div Power[(l + 1) - Digits]
  <2>1. l < Digits /\ Digits - (l + 1) = 0 /\ (l + 1) - Digits = 0
    BY <1>9
  <2>2. w = t * 1
    BY <1>8, <2>1, PowerFacts
  <2>3. t * 1 = t /\ t \div 1 = t
    OBVIOUS
  <2> QED
    BY <2>1, <2>2, <2>3, PowerFacts
<1>10. ASSUME l >= Digits
       PROVE  /\ w = t \div Power[(l + 1) - Digits]
              /\ SignBit * Power[(l + 1) - Digits - 1] <= t
  <2>1. PICK d \in Nat : d = l - Digits /\ (l + 1) - Digits = d + 1 /\ (l + 1) - Digits - 1 = d
    BY <1>10, SignFacts
  <2>2. PICK x \in Nat \ {0} : x = Power[d]
    BY PowerFacts
  <2>3. m = t \div x
    BY <1>5, <1>10, <2>1, <2>2
  <2>4. b * x <= t
    BY <1>2, <2>3, Quotient
  <2>5. Power[d + 1] = x * byte
    <3>1. Power[d + 1] = byte * x
      BY <1>2, <2>2, PowerFacts
    <3> QED
      BY <3>1
  <2>6. w = t \div (x * byte)
    BY <1>3, <2>3, QuotientTwice
  <2> QED
    BY <1>2, <2>1, <2>2, <2>4, <2>5, <2>6
<1>11. l + 1 <= MaxSize /\ l + 1 \in Nat
  BY <1>7, SignFacts
<1>12. /\ l + 1 < Digits => l < Digits
       /\ l + 1 >= Digits => (l + 1 = Digits \/ l >= Digits)
       /\ l + 1 > Digits => l >= Digits
  BY SignFacts
<1> QED
  BY <1>2, <1>3, <1>4, <1>6, <1>8, <1>9, <1>10, <1>11, <1>12 DEF Packs

LEMMA AlwaysPacks ==
  ASSUME NEW t \in Nat, t < Room
  PROVE  \E w \in Nat, s \in Nat : Packs(t, w, s)
<1>1. PICK l \in Nat : l = ByteLength(t) /\ t < Power[l]
  BY RoomFacts, LengthFacts
<1>2. PICK m \in Nat : m = MantissaOf(t, l)
  BY <1>1, MantissaFacts
<1>3. PICK b \in Nat : b = SignBit
  BY SignFacts
<1>4. CASE m < b
  BY <1>1, <1>2, <1>3, <1>4, PacksPlain
<1>5. CASE ~(m < b)
  <2>1. m >= SignBit /\ l + 1 \in Nat
    BY <1>3, <1>5
  <2> QED
    BY <1>1, <1>2, <2>1, PacksSigned
<1> QED
  BY <1>4, <1>5

(* Packed bits have no fault, and unpack to the target less its low bytes. *)
LEMMA Unpacked ==
  ASSUME NEW t \in Nat, NEW w \in Nat, NEW s \in Nat, Packs(t, w, s)
  PROVE  /\ CompactOf(t) \in 0 .. MaxSize * Mantissas + Mantissas - 1
         /\ ~CompactFault(CompactOf(t))
         /\ TargetOf(CompactOf(t)) = IF s < Digits THEN t ELSE w * Power[s - Digits]
<1>1. PICK p \in Nat \ {0}, b \in Nat \ {0}, max \in Nat, digits \in Nat :
        p = Mantissas /\ b = SignBit /\ p = 2 * b /\ max = MaxSize /\ digits = Digits
  BY SignFacts
<1>2. PICK c \in Nat : c = CompactOf(t) /\ c = w + s * p
  <2>1. s * p \in Nat
    OBVIOUS
  <2> QED
    BY <1>1, <2>1 DEF Packs
<1>3. w < b /\ s <= max /\ w < p
  BY <1>1 DEF Packs
<1>4. SizeOf(c) = s /\ WordOf(c) = w
  BY <1>1, <1>2, <1>3, BitsAre
<1>5. c \in 0 .. max * p + p - 1
  <2>1. s * p <= max * p /\ s * p \in Nat /\ max * p \in Nat
    BY <1>3
  <2> QED
    BY <1>2, <1>3, <2>1
<1>6. ~CompactFault(c)
  <2>1. \A n \in 1 .. digits : ~(s > max + digits - n)
    BY <1>3
  <2> QED
    BY <1>1, <1>3, <1>4, <2>1 DEF CompactFault, Overflowing
<1>7. CASE s < digits
  <2>1. PICK x \in Nat \ {0} : x = Power[digits - s]
    <3>1. digits - s \in Nat
      BY <1>7
    <3> QED
      BY <3>1, PowerFacts
  <2>2. w = t * x
    BY <1>1, <1>7, <2>1 DEF Packs
  <2>3. w \div x = t
    <3>1. (t + 1) * x = t * x + x /\ t * x \in Nat
      OBVIOUS
    <3>2. t * x <= w /\ w < (t + 1) * x
      BY <2>2, <3>1
    <3> QED
      BY <3>2, QuotientIs
  <2>4. TargetOf(c) = t
    BY <1>1, <1>4, <1>7, <2>1, <2>3 DEF TargetOf
  <2> QED
    BY <1>1, <1>2, <1>5, <1>6, <1>7, <2>4
<1>8. CASE ~(s < digits)
  <2>1. TargetOf(c) = w * Power[s - Digits]
    BY <1>1, <1>4, <1>8 DEF TargetOf
  <2> QED
    BY <1>1, <1>2, <1>5, <1>6, <1>8, <2>1
<1> QED
  BY <1>7, <1>8

(* A sign bit's worth of one power less is still whole at the next: a sign *)
(* bit costs a byte, and a mantissa has two or more.                       *)
LEMMA SignIsWhole ==
  ASSUME NEW e \in Nat
  PROVE  \E k \in Nat : SignBit * Power[e] = k * Power[e + 1]
<1>1. PICK half \in Nat \ {0} : Byte = 2 * half /\ SignBit = half * Power[Digits - 1]
  BY SignFacts
<1>2. PICK d \in Nat : d = Digits - 2 /\ Digits - 1 = d + 1
  BY SignFacts
<1>3. PICK x \in Nat \ {0}, y \in Nat \ {0}, byte \in Nat \ {0} :
        x = Power[d] /\ y = Power[e] /\ byte = Byte
  BY PowerFacts, TargetShape
<1>4. Power[d + 1] = byte * x /\ Power[e + 1] = byte * y
  BY <1>3, PowerFacts
<1>5. SignBit * Power[e] = (half * (byte * x)) * y
  BY <1>1, <1>2, <1>3, <1>4
<1>6. (half * (byte * x)) * y = (half * x) * (byte * y) /\ half * x \in Nat
  OBVIOUS
<1> QED
  BY <1>4, <1>5, <1>6

LEMMA PackedLargest ==
  ASSUME NEW t \in Nat, t < Room, NEW c \in Nat, ~CompactFault(c), TargetOf(c) <= t
  PROVE  TargetOf(c) <= TargetOf(CompactOf(t))
<1>1. PICK w \in Nat, s \in Nat : Packs(t, w, s)
  BY AlwaysPacks
<1>2. PICK v \in Nat, r \in Nat, o \in Nat :
        v = WordOf(c) /\ r = SizeOf(c) /\ o = TargetOf(c) /\ o <= t
  BY PartsOf
<1>3. PICK b \in Nat \ {0}, digits \in Nat : b = SignBit /\ digits = Digits
  BY SignFacts
<1>4. v < b
  BY <1>2, <1>3 DEF CompactFault
<1>5. CASE s < digits
  BY <1>1, <1>3, <1>5, Unpacked
<1>6. CASE s >= digits
  <2>1. PICK e \in Nat : e = s - digits
    BY <1>6
  <2>2. PICK p \in Nat \ {0} : p = Power[e]
    BY PowerFacts
  <2>3. TargetOf(CompactOf(t)) = w * p /\ w = t \div p
    BY <1>1, <1>3, <1>6, <2>1, <2>2, Unpacked DEF Packs
  \* A multiple of the power that is not above the target is not above w * p.
  <2>4. ASSUME NEW k \in Nat, k * p <= t PROVE k * p <= w * p
    <3>1. k <= w
      BY <2>3, <2>4, Quotient
    <3> QED
      BY <3>1, TimesFacts
  <2>5. CASE r >= s
    <3>1. PICK f \in Nat, d \in Nat : f = r - s /\ d = r - digits /\ d = f + e
      BY <1>6, <2>1, <2>5
    <3>2. PICK x \in Nat \ {0} : x = Power[f]
      BY PowerFacts
    <3>3. Power[d] = x * p
      BY <2>2, <3>1, <3>2, PowerAdds
    <3>4. r >= digits
      BY <1>6, <2>5
    <3>5. o = v * (x * p)
      BY <1>2, <1>3, <3>1, <3>3, <3>4 DEF TargetOf
    <3>6. PICK k \in Nat : k = v * x
      BY TimesFacts
    <3>7. o = k * p
      BY <3>5, <3>6
    <3>8. k * p <= w * p
      BY <1>2, <2>4, <3>7
    <3> QED
      BY <1>2, <2>3, <3>7, <3>8
  <2>6. CASE r < s /\ e > 0
    <3>1. PICK d \in Nat : d = e - 1 /\ d + 1 = e /\ d = s - digits - 1 /\ s > digits
      BY <2>1, <2>6
    <3>2. PICK x \in Nat \ {0} : x = Power[d]
      BY PowerFacts
    <3>3. b * x <= t
      BY <1>1, <1>3, <3>1, <3>2 DEF Packs
    <3>4. PICK k \in Nat : b * x = k * p
      BY <1>3, <2>2, <3>1, <3>2, SignIsWhole
    <3>5. k * p <= w * p
      BY <2>4, <3>3, <3>4
    <3>6. o <= b * x
      <4>1. CASE r >= digits
        <5>1. PICK f \in Nat : f = r - digits /\ f <= d
          BY <2>1, <2>6, <3>1, <4>1
        <5>2. PICK y \in Nat \ {0} : y = Power[f]
          BY PowerFacts
        <5>3. y <= x
          BY <3>2, <5>1, <5>2, PowerGrows
        <5>4. v * y <= b * y /\ b * y <= b * x
          BY <1>4, <5>3
        <5>5. v * y \in Nat /\ b * y \in Nat /\ b * x \in Nat
          OBVIOUS
        <5>6. o = v * y
          BY <1>2, <1>3, <4>1, <5>1, <5>2 DEF TargetOf
        <5> QED
          BY <5>4, <5>5, <5>6
      <4>2. CASE ~(r >= digits)
        <5>1. PICK f \in Nat : f = digits - r
          BY <4>2
        <5>2. PICK y \in Nat \ {0} : y = Power[f]
          BY PowerFacts
        <5>3. o = v \div y
          BY <1>2, <1>3, <4>2, <5>1, <5>2 DEF TargetOf
        <5>4. o * y <= v
          BY <5>3, Quotient
        <5>5. o <= o * y /\ b <= b * x /\ o * y \in Nat /\ b * x \in Nat
          OBVIOUS
        <5> QED
          BY <1>4, <5>4, <5>5
      <4> QED
        BY <4>1, <4>2
    <3>7. k * p \in Nat /\ w * p \in Nat
      BY TimesFacts
    <3> QED
      BY <1>2, <2>3, <3>4, <3>5, <3>6, <3>7
  <2>7. CASE e = 0
    <3>1. p = 1
      BY <2>2, <2>7, PowerFacts
    <3>2. t * 1 = t
      OBVIOUS
    <3>3. t * p <= w * p
      BY <2>4, <3>1, <3>2
    <3> QED
      BY <1>2, <2>3, <3>1, <3>2, <3>3
  <2> QED
    BY <2>5, <2>6, <2>7
<1> QED
  BY <1>5, <1>6

LEMMA PackedAtMost ==
  ASSUME NEW t \in Nat, t < Room
  PROVE  /\ CompactOf(t) \in 0 .. MaxSize * Mantissas + Mantissas - 1
         /\ ~CompactFault(CompactOf(t))
         /\ TargetOf(CompactOf(t)) <= t
<1>1. PICK w \in Nat, s \in Nat : Packs(t, w, s)
  BY AlwaysPacks
<1>2. CASE s < Digits
  BY <1>1, <1>2, Unpacked
<1>3. CASE ~(s < Digits)
  <2>1. PICK d \in Nat : d = s - Digits
    BY <1>3, SignFacts
  <2>2. PICK p \in Nat \ {0} : p = Power[d]
    BY PowerFacts
  <2>3. w = t \div p
    BY <1>1, <1>3, <2>1, <2>2, SignFacts DEF Packs
  <2>4. w * p <= t
    BY <2>3, Quotient
  <2> QED
    BY <1>1, <1>3, <2>1, <2>2, <2>4, Unpacked
<1> QED
  BY <1>2, <1>3

(* domain/target.av compactOf, canonical: no retarget eases a window by     *)
(* rounding, and none tightens it further than the form forces: for bytes   *)
(* of any even size, two or more of them a mantissa, and any limits that    *)
(* may stand in a Header.                                                   *)
THEOREM PackingNeverEases == RulesSpec => []PackedIsLargest
<1> DEFINE bitsOf == {c \in 0 .. MaxSize * Mantissas + Mantissas - 1 : ~ CompactFault(c)}
           nameable == {TargetOf(b) : b \in bitsOf}
           packed(t) == TargetOf(CompactOf(t))
           largest(t) == /\ packed(t) \in nameable /\ packed(t) <= t
                         /\ \A other \in nameable : other <= t => other <= packed(t)
<1>1. ASSUME NEW t \in Nat, t < Room PROVE largest(t)
  <2>1. CompactOf(t) \in bitsOf /\ packed(t) <= t
    BY <1>1, PackedAtMost
  <2>2. packed(t) \in nameable
    BY <2>1
  <2>3. MaxSize * Mantissas + Mantissas - 1 \in Int
    <3>1. PICK p \in Nat, max \in Nat : p = Mantissas /\ max = MaxSize
      BY SignFacts
    <3>2. max * p \in Nat
      OBVIOUS
    <3> QED
      BY <3>1, <3>2
  <2>4. ASSUME NEW c \in bitsOf, TargetOf(c) <= t PROVE TargetOf(c) <= packed(t)
    <3>1. c \in Nat /\ ~CompactFault(c)
      BY <2>3
    <3> QED
      BY <1>1, <2>4, <3>1, PackedLargest
  <2> QED
    BY <2>1, <2>2, <2>4
<1>2. ASSUME RulesIInv, NEW t \in 0 .. TargetOf(Limit[network]) PROVE t \in Nat /\ t < Room
  <2>1. /\ Limit[network] \in Nat /\ ~CompactFault(Limit[network])
        /\ SizeOf(Limit[network]) <= MaxSize
    BY <1>2, TargetShape, LimitShape DEF RulesIInv, Lineal
  <2>2. TargetOf(Limit[network]) \in Nat /\ TargetOf(Limit[network]) < Room
    BY <2>1, PartsOf, LimitRoom
  <2>3. Room \in Nat
    <3>1. MaxSize - Digits \in Nat
      BY SignFacts
    <3>2. SignBit \in Nat /\ Power[MaxSize - Digits] \in Nat
      BY <3>1, SignFacts, PowerFacts
    <3> QED
      BY <3>2, TimesFacts DEF Room
  <2> QED
    BY <2>2, <2>3
<1>3. RulesIInv => PackedIsLargest
  <2> SUFFICES ASSUME RulesIInv PROVE \A t \in 0 .. TargetOf(Limit[network]) : largest(t)
    BY Zenon DEF PackedIsLargest
  <2> QED
    BY <1>1, <1>2
<1> QED
  BY <1>3, RulesInitHolds, RulesStep, PTL DEF RulesSpec

(* domain/block.av compactFault, domain/chainwork.av usable: bits a Block   *)
(* Id meets add work, an easier target never adds more, where no Block Id   *)
(* is nought: bits that name nought are met by nought and add nothing.      *)
THEOREM WhatIsProvenWeighs == ASSUME Hash > 0 PROVE RulesSpec => []ProofWeighs
<1>1. Hash \in Nat /\ Hash > 0
  BY RulesShape
<1>2. (MaxSize + Digits) * Mantissas \in Nat
  <2>1. PICK p \in Nat, a \in Nat : p = Mantissas /\ a = MaxSize + Digits
    BY SignFacts
  <2> QED
    BY <2>1, TimesFacts
<1>3. ASSUME NEW b \in 0 .. (MaxSize + Digits) * Mantissas, MeetsTarget(Hash, b)
      PROVE  b \in Nat /\ ~CompactFault(b) /\ TargetOf(b) # 0
  <2>1. b \in Nat
    BY <1>2
  <2>2. TargetOf(b) \in Nat
    BY <2>1, PartsOf
  <2> QED
    BY <1>1, <1>3, <2>1, <2>2 DEF MeetsTarget
<1>4. ProofWeighs
  BY <1>3, WorkFacts DEF ProofWeighs
<1>5. RulesIInv => ProofWeighs
  BY <1>4
<1> QED
  BY <1>5, RulesInitHolds, RulesStep, PTL DEF RulesSpec
==============================================================================
