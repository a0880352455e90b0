----------------------------- MODULE HeaderIndex -----------------------------
(***************************************************************************)
(* infra/headers.av with domain/reorg.av and domain/headertree.av: a batch *)
(* of Headers is placed into the tree under k:, the branch with the most   *)
(* work is chosen, and the Index under h: is repointed at it.              *)
(*                                                                         *)
(* The Store takes each batch of puts or deletes atomically, and nothing   *)
(* larger: placing the batch, naming the changed Heights, deleting the     *)
(* Heights above the new tip and recording the tip are four writes, and a  *)
(* process that dies between two of them starts again from what is there.  *)
(***************************************************************************)
EXTENDS BlockTree, FiniteSets

CONSTANTS
  Bad,         \* Blocks the rules refuse once their Body is connected
  MaxCrashes   \* bound on how often the process dies

ASSUME BadShape == Bad \subseteq Block \ {Genesis} /\ MaxCrashes \in Nat

VARIABLES
  tree,      \* k: the Blocks whose Header and Placement are held
  heights,   \* h: Height -> the Block Id it names, or None
  bestTip,   \* the tip record: a Block, or None
  invalid,   \* the Blocks carrying the invalid mark
  pc,        \* where the one writer stands between two writes
  target,    \* the Placement the writes in progress make the tip, or None
  crashes    \* how often the process has died (bounded by MaxCrashes)

vars == <<tree, heights, bestTip, invalid, pc, target, crashes>>

Writing == {"heights", "sweep", "tip"}

(* Every variable holds what its Store key or local may hold.              *)
TypeOK ==
  /\ tree \subseteq Block
  /\ heights \in [Heights -> Block \cup {None}]
  /\ bestTip \in Block \cup {None}
  /\ invalid \subseteq Block
  /\ pc \in {"starting", "naming", "idle"} \cup Writing
  /\ target \in Block \cup {None}
  /\ (pc \in Writing) <=> (target # None)
  /\ crashes \in 0 .. MaxCrashes

Init ==
  /\ tree = {}
  /\ heights = [n \in Heights |-> None]
  /\ bestTip = None
  /\ invalid = {}
  /\ pc = "starting"
  /\ target = None
  /\ crashes = 0

(*********************************** genesis *********************************)
(* seeded: genesis and the tip record in one write, unless genesis is held. *)
Plant ==
  /\ pc = "starting"
  /\ IF Genesis \in tree
       THEN UNCHANGED <<tree, bestTip>>
       ELSE tree' = tree \cup {Genesis} /\ bestTip' = Genesis
  /\ pc' = "naming"
  /\ UNCHANGED <<heights, invalid, target, crashes>>

(* heightNamed: Height 0 names genesis, unless it names something already. *)
NameGenesis ==
  /\ pc = "naming"
  /\ heights' = IF heights[0] = None
                  THEN [heights EXCEPT ![0] = Genesis] ELSE heights
  /\ pc' = "idle"
  /\ UNCHANGED <<tree, bestTip, invalid, target, crashes>>

(****************************** placing a batch ******************************)
(* withParent: the parent comes from the batch, or from k: without a mark. *)
(* The Header's own mark is not looked at, nor a marked parent's when the  *)
(* batch carries that parent again.                                        *)
Attaches(b, P) ==
  /\ b # Genesis
  /\ Parent[b] \in P \/ (Parent[b] \in tree /\ Parent[b] \notin invalid)

(* What a batch may place: a set every one of whose Headers attaches.  The *)
(* rest of the batch is Orphans and leaves no trace.                       *)
Placeable(P) == \A b \in P : Attaches(b, P)

(* Slip: the heaviest of the batch wins without the standing tip beside it. *)
Best_BatchOnly(P) == IF P = {} THEN {bestTip} \ {None} ELSE Heaviest(P)

(* bestAfter: the Placements of the batch stand before the standing tip in *)
(* the list bestOf folds, and only more work displaces what stands first.  *)
(* So a batch Header of equal work wins over the standing tip, and between *)
(* batch Headers of equal work the batch's order decides.                  *)
Standing == {bestTip} \ {None}    \* tipHeld
Best(P) == IF \E b \in P : \A s \in Standing : Work[b] >= Work[s]
             THEN Heaviest(P) ELSE Standing

(* absorbed, up to and with its first putAll.                              *)
Absorb(P, best) ==
  /\ pc = "idle"
  /\ Placeable(P)
  /\ best \in Best(P)
  /\ tree' = tree \cup P
  /\ target' = best
  /\ pc' = "heights"
  /\ UNCHANGED <<heights, bestTip, invalid, crashes>>

(********************************* repointing ********************************)
(* agrees: h: names this branch's own Block at the Height.                 *)
Agrees(n, b) == heights[n] # None /\ heights[n] = Chain[b][n]

(* Slips: the Height right above the fork is kept; nothing is swept.        *)
Changed_AfterFork(b) ==
  {n \in 1 .. Height[b] : \A m \in n - 1 .. Height[b] : ~Agrees(m, b)}

(* standingsFor with agreedThrough: the walk down from the tip stops at the *)
(* first Height that agrees, and every Height above that one changes.      *)
Changed(b) == {n \in 0 .. Height[b] : \A m \in n .. Height[b] : ~Agrees(m, b)}

Stale_Kept(b) == {}

(* cleared: the unbroken run of named Heights above the tip.               *)
Stale(b) == {n \in Height[b] + 1 .. MaxHeight :
               \A m \in Height[b] + 1 .. n : heights[m] # None}

WriteHeights ==
  /\ pc = "heights"
  /\ heights' = [n \in Heights |->
                   IF n \in Changed(target) THEN Chain[target][n]
                                            ELSE heights[n]]
  /\ pc' = "sweep"
  /\ UNCHANGED <<tree, bestTip, invalid, target, crashes>>

Sweep ==
  /\ pc = "sweep"
  /\ heights' = [n \in Heights |-> IF n \in Stale(target) THEN None
                                                          ELSE heights[n]]
  /\ pc' = "tip"
  /\ UNCHANGED <<tree, bestTip, invalid, target, crashes>>

NameTip ==
  /\ pc = "tip"
  /\ bestTip' = target
  /\ target' = None
  /\ pc' = "idle"
  /\ UNCHANGED <<tree, heights, invalid, crashes>>

(****************************** refusing a Block *****************************)
(* markedInvalid: the walk connected up to the parent of b, met b and was  *)
(* refused.  The mark is one write; the Index is then repointed at the     *)
(* parent, whatever else the tree holds.                                   *)
MarkInvalid(b) ==
  /\ pc = "idle"
  /\ heights[Height[b]] = b
  /\ \A n \in 0 .. Height[b] - 1 : heights[n] \notin Bad
  /\ b \in tree
  /\ invalid' = invalid \cup {b}
  /\ target' = Parent[b]
  /\ pc' = "heights"
  /\ UNCHANGED <<tree, heights, bestTip, crashes>>

(* The process dies, or a failed write ends it: the Store is what remains. *)
Crash ==
  /\ crashes < MaxCrashes
  /\ pc # "starting"
  /\ crashes' = crashes + 1
  /\ pc' = "starting"
  /\ target' = None
  /\ UNCHANGED <<tree, heights, bestTip, invalid>>

Step ==
  \/ Plant
  \/ NameGenesis
  \/ \E P \in SUBSET Block : \E best \in Best(P) : Absorb(P, best)
  \/ WriteHeights
  \/ Sweep
  \/ NameTip
  \/ \E b \in Bad : MarkInvalid(b)

Next == Step \/ Crash

Spec == Init /\ [][Next]_vars

(********************************* properties ********************************)
(* h: is exactly the branch of b: its own Block at each of its Heights and *)
(* nothing above.                                                          *)
Names(b) == heights = Chain[b]

(* The Index is derived from the tip record (headers.av tipOf): whenever a *)
(* batch or a refusal has been settled, h: is the tip's branch and nothing *)
(* else.  The walk connects whatever h: names, so a Height left over from  *)
(* another branch would connect a Block on the wrong parent.               *)
IndexFollowsTip == (pc = "idle" /\ crashes = 0) => Names(bestTip)

(* h: has no gap at any point, also between two writes and after a death:  *)
(* the sweep (cleared) deletes one unbroken run and would stop at a gap,   *)
(* and the walk takes the first missing Height for the end of the chain.   *)
NoGap == \A n \in Heights : heights[n] # None =>
           \A m \in 0 .. n : heights[m] # None

(* The tip is a Block no held Block outweighs, once a batch is settled     *)
(* (absorbed, followed), as long as nothing was refused and no process     *)
(* died: "whichever branch now has the most work".                         *)
MostWorkFollowed ==
  (pc = "idle" /\ crashes = 0 /\ invalid = {}) =>
     \A b \in tree : Work[b] <= Work[bestTip]

(* Every held Header hangs off genesis through held Headers, and the tip   *)
(* and everything h: names are held, in every state a death can leave: the *)
(* Locator and the realignment walk parents down and fail on a hole.       *)
TreeWhole ==
  /\ \A b \in tree : Parent[b] \in tree
  /\ \A n \in Heights : heights[n] \in tree \cup {None, Genesis}
  /\ bestTip \in tree \cup {None}

(* A tip is given up for a lighter one only when a Block of its own branch *)
(* was refused: markedInvalid repoints at the parent of a Block h: names,  *)
(* and h: names the tip's branch.                                          *)
WorkGivenUpOnlyToAMark ==
  [][(crashes = 0 /\ bestTip # None /\ Work[bestTip'] < Work[bestTip])
       => Branch(bestTip) \cap invalid # {}]_vars

==============================================================================
