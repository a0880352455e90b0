------------------------------- MODULE SetWalk -------------------------------
(***************************************************************************)
(* Building the UTXO Set along the Index: infra/chainstate.av (the chunk), *)
(* infra/utxo.av (the Window, the flush, the Undo Data), infra/rewind.av   *)
(* with domain/rewind.av (back to the fork) and infra/prune.av's guard.    *)
(*                                                                         *)
(* A chunk realigns the Set with h: one Block per write, then connects     *)
(* Blocks into a Window held in memory, flushes it in one write when it is *)
(* large enough and at the end, and sweeps Undo Data that fell out of the  *)
(* Undo window.  An error anywhere drops the Window and leaves the Store   *)
(* where its last write put it, as a death does.                           *)
(*                                                                         *)
(* h: is the branch of one Block, as HeaderIndex establishes.  It is read  *)
(* afresh for every Block of a chunk, one Block ahead of the one being     *)
(* connected, and Messages are heard between two steps of a chunk: a       *)
(* compact Block rebuilt meanwhile (infra/follow.av, storing) files a body *)
(* and may move h: under the walk.                                         *)
(***************************************************************************)
EXTENDS BlockTree, FiniteSets, FiniteSetsExt

CONSTANTS
  Coin,         \* the keys Outputs are filed under (txid and index)
  Made,         \* Made[b]: the spendable Outputs of b's Transactions
  Kept,         \* Kept[b]: those of them no Transaction of b spends
  Spends,       \* Spends[b]: the Outputs made below b that b spends
  CoinsAt,      \* CoinsAt[b][c]: the Block that made c, unspent at b, or None
  Sound,        \* the Blocks whose whole branch the rules accept
  Bad,          \* Blocks refused for a reason of their own (a script, a fee)
  UndoWindow,   \* Blocks whose Undo Data is kept (288 in the code)
  FlushAbove,   \* records a Window holds before it is flushed (200000)
  ChunkSize,    \* Blocks a chunk may connect
  Turns,        \* whether a Block rebuilt beside a chunk may turn h: to a
                \* branch other than the one the chunk walks
  MaxTroubles   \* bound on moves of the Index, errors, stops, prunes, deaths

Unspent(view) == {c \in Coin : view[c] # None}

(* What the rules ask of b on the coins below it: no key made that is held *)
(* already (BIP30), every spend found, and nothing wrong in b itself.      *)
Fits(b, view) ==
  /\ b \notin Bad
  /\ Made[b] \cap Unspent(view) = {}
  /\ Spends[b] \subseteq Unspent(view)

ASSUME CoinShape ==
  /\ Made \in [Block -> SUBSET Coin]
  /\ Kept \in [Block -> SUBSET Coin]
  /\ Spends \in [Block -> SUBSET Coin]
  /\ CoinsAt \in [Block -> [Coin -> Block \cup {None}]]
  /\ Sound \subseteq Block
  /\ Bad \subseteq Block
  /\ \A b \in Block : Kept[b] \subseteq Made[b]
  /\ None \notin [Coin -> Block \cup {None}]

ASSUME SoundShape ==
  /\ Genesis \in Sound
  /\ CoinsAt[Genesis] = [c \in Coin |-> None]
  /\ \A b \in Block \ {Genesis} :
       /\ b \in Sound <=> Parent[b] \in Sound /\ Fits(b, CoinsAt[Parent[b]])
       /\ b \in Sound => \A c \in Coin :
            CoinsAt[b][c] = IF c \in Spends[b] THEN None
                            ELSE IF c \in Kept[b] THEN b
                            ELSE CoinsAt[Parent[b]][c]

ASSUME BoundShape ==
  /\ UndoWindow \in Nat \ {0}
  /\ FlushAbove \in Nat
  /\ ChunkSize \in Nat \ {0}
  /\ Turns \in BOOLEAN
  /\ MaxTroubles \in Nat

VARIABLES
  tip,        \* h: names the branch of this Block
  bodies,     \* b: the Blocks whose body is held
  below,      \* the Prune Watermark
  coins,      \* u: each coin's maker, or None
  undo,       \* d: what each Block spent, as coins, or None
  setTo,      \* meta:setTo: the Block the Set stands on, or None
  undoBelow,  \* meta:undoBelow: the lowest Height whose Undo Data is kept
  phase,      \* where the chunk is
  upTo,       \* the Height the chunk ends at
  reading,    \* the Block read and not yet connected, or None
  created,    \* window.created: coins made and not flushed
  spent,      \* window.spent: coins of the Store spent and not flushed
  undos,      \* window.undos: Undo Data not flushed, or None
  reached,    \* window.standing: the Block the Window reached, or None
  high,       \* history: the greatest Height the Set has stood at
  troubles    \* how often something interfered (bounded by MaxTroubles)

index == <<tip, bodies, below>>
store == <<coins, undo, setTo, undoBelow, high>>
window == <<created, spent, undos, reached>>
walk == <<phase, upTo, reading>>
vars == <<index, store, walk, window, troubles>>

Views == [Coin -> Block \cup {None}]
NoCoins == [c \in Coin |-> None]
NoUndos == [b \in Block |-> None]

(* Every variable holds what its Store key or local may hold.              *)
TypeOK ==
  /\ tip \in Block
  /\ bodies \subseteq Block
  /\ below \in Heights
  /\ coins \in Views
  /\ undo \in [Block -> Views \cup {None}]
  /\ setTo \in Block \cup {None}
  /\ undoBelow \in Heights
  /\ phase \in {"idle", "dropping", "walking", "sweeping", "marking"}
  /\ upTo \in Heights
  /\ reading \in Block \cup {None}
  /\ created \in Views
  /\ spent \subseteq Coin
  /\ undos \in [Block -> Views \cup {None}]
  /\ reached \in Block \cup {None}
  /\ high \in Heights
  /\ troubles \in 0 .. MaxTroubles

(* A Set not begun, under an Index the headers phase has already moved.     *)
Init ==
  /\ tip \in Block
  /\ bodies = {}
  /\ below = 0
  /\ coins = NoCoins
  /\ undo = NoUndos
  /\ setTo = None
  /\ undoBelow = 0
  /\ phase = "idle"
  /\ upTo = 0
  /\ reading = None
  /\ created = NoCoins /\ spent = {} /\ undos = NoUndos /\ reached = None
  /\ high = 0
  /\ troubles = 0

(*********************************** reading *********************************)
Min2(m, n) == IF m < n THEN m ELSE n
Max2(m, n) == IF m > n THEN m ELSE n

(* Where the Set stands in the Store, and where the Window has taken it.    *)
At == IF setTo = None THEN Genesis ELSE setTo
Reached == IF reached = None THEN At ELSE reached

(* windowFrom: the lowest Height whose Undo Data is worth keeping.          *)
WindowFrom(n) == IF n < UndoWindow THEN 0 ELSE n - UndoWindow + 1

(* Slip: the Inputs are looked up in the Store alone.                       *)
View_StoreOnly == [c \in Coin |-> IF c \in spent THEN None ELSE coins[c]]

(* partitioned with resolvedFor: what an Input finds, the Window first.     *)
View == [c \in Coin |-> IF created[c] # None THEN created[c]
                        ELSE IF c \in spent THEN None ELSE coins[c]]

(* alreadyHeld: a key held in the Window or in the Store; that the Window   *)
(* has spent the Store's coin is not looked at.                             *)
AlreadyHeld(b) == Made[b] \cap (Unspent(created) \cup Unspent(coins)) # {}

(* connectedUnless: BIP30 first, then the walk of the Transactions.         *)
Accepts(b) == b \notin Bad /\ ~AlreadyHeld(b) /\ Spends[b] \subseteq Unspent(View)

(* agrees: h: names this Block at its Height.                               *)
OnIndex(b) == Chain[tip][Height[b]] = b

(* branchOf, deeper: parent by parent down from where the Set stands, to    *)
(* the first Block h: names or to the floor, which is looked at last.       *)
Stranded ==
  ~OnIndex(At) /\ \A b \in Branch(At) : OnIndex(b) => Height[b] < undoBelow

(* fetched: the body to read at a Height, when h: names it within the chunk *)
(* and it is held; a body that was pruned is an error.                      *)
NextHeight == Height[Reached] + 1
NamedAt(n) == IF n <= Min2(upTo, Height[tip]) THEN {Chain[tip][n]} ELSE {}
Readable(n) == NamedAt(n) \cap bodies
PrunedAt(n) == n < below /\ NamedAt(n) \ bodies # {}

(* readNext: the Block one Height further on, or none.                      *)
ReadAhead(n) == IF Readable(n) = {} THEN {None} ELSE Readable(n)

Clear ==
  created' = NoCoins /\ spent' = {} /\ undos' = NoUndos /\ reached' = None
Troubled == troubles < MaxTroubles /\ troubles' = troubles + 1

(**************************** between two chunks *****************************)
(* A body arrives and is filed.                                             *)
FetchBody(b) ==
  /\ phase = "idle"
  /\ b \in Branch(tip) \ (bodies \cup {Genesis})
  /\ Height[b] >= below
  /\ bodies' = bodies \cup {b}
  /\ UNCHANGED <<tip, below, store, walk, window, troubles>>

(* The headers phase, or a mark, moves h: to another Block.                 *)
Repoint(b) ==
  /\ phase = "idle"
  /\ b # tip
  /\ Troubled
  /\ tip' = b
  /\ UNCHANGED <<bodies, below, store, walk, window>>

(* prunable: not above the Undo window of where the Set stands.             *)
Prunable(to) == setTo = None \/ to <= WindowFrom(Height[At])

(* prune.av run: whole Segments, so any of the bodies below the Watermark,  *)
(* and at any Height bodies h: does not name, which floorSegment never sees.*)
Prune(to, gone) ==
  /\ phase = "idle"
  /\ Prunable(to)
  /\ Troubled
  /\ below' = Max2(below, to)
  /\ gone \subseteq {b \in bodies : OnIndex(b) => Height[b] < below'}
  /\ bodies' = bodies \ gone
  /\ UNCHANGED <<tip, store, walk, window>>

(**************************** beside a chunk *********************************)
(* storing with placedCompact, putAway: a compact Block heard while a chunk *)
(* waits is rebuilt; its Header is absorbed, which moves h: to it when it   *)
(* has no less work than the tip, and its body is filed.                    *)
Rebuilt(b) ==
  /\ phase = "walking"
  /\ b \notin bodies \cup Branch(tip)
  /\ Troubled
  /\ \/ /\ Work[b] >= Work[tip]
        /\ Turns \/ Parent[b] = tip
        /\ tip' = b
     \/ /\ Work[b] <= Work[tip]
        /\ UNCHANGED tip
  /\ bodies' = bodies \cup {b}
  /\ UNCHANGED <<below, store, walk, window>>

(******************************** realigning *********************************)
(* begunChunk with realigned: nothing to undo, or Blocks to drop.  A fork   *)
(* the Undo window does not reach is an error, and changes nothing.         *)
Begin ==
  /\ phase = "idle"
  /\ ~Stranded
  /\ upTo' = Min2(Height[tip], Height[At] + ChunkSize)
  /\ phase' = IF OnIndex(At) THEN "walking" ELSE "dropping"
  /\ UNCHANGED <<index, store, reading, window, troubles>>

(* reversal with applyAll: what b spent is put back, then what it made is   *)
(* deleted, whoever made it first.                                          *)
Reversal(b) ==
  [c \in Coin |-> IF c \in Made[b] THEN None
                  ELSE IF undo[b][c] # None THEN undo[b][c] ELSE coins[c]]

(* removingOne with disconnectBlock: one Block, one write.                  *)
Drop ==
  /\ phase = "dropping"
  /\ setTo \in bodies
  /\ undo[setTo] # None
  /\ coins' = Reversal(setTo)
  /\ undo' = [undo EXCEPT ![setTo] = None]
  /\ setTo' = Parent[setTo]
  /\ phase' = IF OnIndex(Parent[setTo]) THEN "walking" ELSE "dropping"
  /\ UNCHANGED <<index, undoBelow, high, upTo, reading, window, troubles>>

(********************************** walking **********************************)
(* readingNow with fetched: nothing read ahead, so the next Block is read.  *)
Read ==
  /\ phase = "walking"
  /\ reading = None
  /\ ~PrunedAt(NextHeight)
  /\ reading' \in Readable(NextHeight)
  /\ UNCHANGED <<index, store, phase, upTo, window, troubles>>

(* Slip: a coin made in the Window and spent in it is marked spent as well  *)
(* as left in created.                                                      *)
CreatedAfter_Keeps(b) ==
  [c \in Coin |-> IF c \in Kept[b] THEN b ELSE created[c]]

(* madeInto, spentOne: what b makes goes into created; what it spends is    *)
(* taken out of created, or noted as spent when the Store holds it.         *)
CreatedAfter(b) == [c \in Coin |-> IF c \in Spends[b] THEN None
                                   ELSE IF c \in Kept[b] THEN b ELSE created[c]]
SpentAfter(b) == spent \cup {c \in Spends[b] : created[c] = None}

(* sealed: the Undo Data of b is what its spends found.                     *)
Taken(b) == [c \in Coin |-> IF c \in Spends[b] THEN View[c] ELSE None]

(* flushDue: the Window's records, the Undo Data among them.                *)
Records(made, gone, datas) ==
  Cardinality(Unspent(made)) + Cardinality(gone)
    + Cardinality({b \in Block : datas[b] # None})

(* Slip: the puts come after the deletes are worked out from created.       *)
Flushed_KeepsSpent(made, gone) ==
  [c \in Coin |-> IF made[c] # None THEN made[c] ELSE coins[c]]

(* flushed: one applyAll, the puts first and the deletes after them.        *)
Flushed(made, gone) ==
  [c \in Coin |-> IF c \in gone THEN None
                  ELSE IF made[c] # None THEN made[c] ELSE coins[c]]
Filed(datas) ==
  [b \in Block |-> IF datas[b] # None THEN datas[b] ELSE undo[b]]

(* connectBegun, connectTaken, absorbedInto, advanced: the Block after is   *)
(* read, then one Block joins the Window, which is flushed in the same step *)
(* when it has grown large enough.                                          *)
Connect(b) ==
  LET made == CreatedAfter(b)
      gone == SpentAfter(b)
      datas == [undos EXCEPT ![b] = Taken(b)]
  IN
  /\ phase = "walking"
  /\ reading = b
  /\ ~PrunedAt(NextHeight + 1)
  /\ Accepts(b)
  /\ reading' \in ReadAhead(NextHeight + 1)
  /\ IF Records(made, gone, datas) >= FlushAbove
       THEN /\ coins' = Flushed(made, gone)
            /\ undo' = Filed(datas)
            /\ setTo' = b
            /\ high' = Max2(high, Height[b])
            /\ Clear
       ELSE /\ created' = made /\ spent' = gone
            /\ undos' = datas /\ reached' = b
            /\ UNCHANGED <<coins, undo, setTo, high>>
  /\ UNCHANGED <<index, undoBelow, phase, upTo, troubles>>

(* Slip: the Block is reported and h: is left naming it.                    *)
Refuse_KeepsTip(b) ==
  /\ phase = "walking"
  /\ reading = b
  /\ ~PrunedAt(NextHeight + 1)
  /\ ~Accepts(b)
  /\ reading' = None
  /\ Clear
  /\ phase' = "idle"
  /\ UNCHANGED <<index, store, upTo, troubles>>

(* blockInvalid: the Window is gone with the error, b is marked and h:,     *)
(* where it names b, is repointed at its parent.                            *)
Refuse(b) ==
  /\ phase = "walking"
  /\ reading = b
  /\ ~PrunedAt(NextHeight + 1)
  /\ ~Accepts(b)
  /\ reading' = None
  /\ Clear
  /\ tip' = IF OnIndex(b) THEN Parent[b] ELSE tip
  /\ phase' = "idle"
  /\ UNCHANGED <<bodies, below, store, upTo, troubles>>

(********************************** ending ***********************************)
Finish ==
  /\ phase = "walking"
  /\ coins' = Flushed(created, spent)
  /\ undo' = Filed(undos)
  /\ setTo' = IF reached = None THEN setTo ELSE reached
  /\ high' = Max2(high, Height[Reached])
  /\ Clear
  /\ reading' = None
  /\ phase' = "sweeping"
  /\ UNCHANGED <<index, undoBelow, upTo>>

(* endedChunk: past its last Height, or the next body is not there.         *)
End ==
  /\ reading = None
  /\ Readable(NextHeight) = {} /\ ~PrunedAt(NextHeight)
  /\ Finish
  /\ UNCHANGED troubles

(* readingNow, connectingFrom: a stop was asked for.                        *)
Stop == Troubled /\ Finish

(* Slip: the Blocks swept reach one Height too far.                         *)
Swept_OneMore ==
  {b \in Branch(tip) : undoBelow <= Height[b] /\ Height[b] <= WindowFrom(Height[At])}

(* sweeping: the Blocks h: names from the floor up to the window.           *)
Swept ==
  {b \in Branch(tip) : undoBelow <= Height[b] /\ Height[b] < WindowFrom(Height[At])}

(* marked, its two writes: the Undo Data deleted, then the floor recorded.  *)
SweepUndo ==
  /\ phase = "sweeping"
  /\ undo' = [b \in Block |-> IF b \in Swept THEN None ELSE undo[b]]
  /\ phase' = "marking"
  /\ UNCHANGED <<index, coins, setTo, undoBelow, high, upTo, reading, window,
                 troubles>>

Floor == Max2(undoBelow, WindowFrom(Height[At]))

MarkUndo ==
  /\ phase = "marking"
  /\ undoBelow' = Floor
  /\ phase' = "idle"
  /\ UNCHANGED <<index, coins, undo, setTo, high, upTo, reading, window,
                 troubles>>

(* The process dies, or a read or a write fails and the chunk is given up:  *)
(* the Window goes, the Store stays where its last write put it.            *)
Lose ==
  /\ phase # "idle"
  /\ Troubled
  /\ Clear
  /\ reading' = None
  /\ phase' = "idle"
  /\ UNCHANGED <<index, store, upTo>>

(* A body that was pruned or Undo Data that is gone ends the chunk alike.   *)
Fail ==
  /\ \/ /\ phase = "walking"
        /\ PrunedAt(IF reading = None THEN NextHeight ELSE NextHeight + 1)
     \/ phase = "dropping" /\ (setTo \notin bodies \/ undo[setTo] = None)
  /\ Clear
  /\ reading' = None
  /\ phase' = "idle"
  /\ UNCHANGED <<index, store, upTo, troubles>>

Chunk ==
  \/ Begin
  \/ Fail
  \/ Drop
  \/ Read
  \/ \E b \in Block : Connect(b) \/ Refuse(b)
  \/ End
  \/ SweepUndo
  \/ MarkUndo

Fetch == \E b \in Block : FetchBody(b)

Interfere ==
  \/ \E b \in Block : Repoint(b) \/ Rebuilt(b)
  \/ \E to \in Heights : \E gone \in SUBSET bodies : Prune(to, gone)
  \/ Stop
  \/ Lose

Next == Chunk \/ Fetch \/ Interfere

Spec == Init /\ [][Next]_vars

(* A chunk runs to its end, and between two chunks the download goes on.    *)
FairSpec == Spec /\ WF_vars(Chunk) /\ SF_vars(Fetch)

(********************************* properties ********************************)
(* connecting through the Window is connecting through the Store: at every  *)
(* point of a chunk what an Input finds is exactly the coins of the Block   *)
(* the Window has reached, flushed or not, after any reorganisation.        *)
ViewIsTheLedger == View = CoinsAt[Reached]

(* The Store alone is always the coins of the Block meta:setTo names, so a  *)
(* death or an error at any point leaves a Set that can be gone on from,    *)
(* and it moves only up a sound branch or down one Block (applyAll).        *)
Abstract == INSTANCE Ledger WITH at <- At
LedgerKept == Abstract!Spec

(* Undo Data is there for every Block of the Set's branch from the bottom   *)
(* of the Undo window up, measured from the highest the Set ever stood      *)
(* (windowFrom): a reorganisation that deep can always be undone, whatever  *)
(* was swept, refused or lost on the way.                                   *)
UndoInWindow ==
  \A b \in Branch(At) \ {Genesis} :
    Height[b] >= WindowFrom(high) => undo[b] # None

(* Undo Data is held for Blocks of the Set's own branch only: a Block that  *)
(* came off took its record with it, so no abandoned branch's record is     *)
(* left for a sweep that follows h: to miss.                                *)
UndoOnBranchOnly == \A b \in Block : undo[b] # None => b \in Branch(At)

(* The floor never claims more than is gone nor less: it only rises         *)
(* (sweeping), and never past the window of the highest the Set stood.      *)
FloorRises == [][undoBelow' >= undoBelow /\ undoBelow' <= WindowFrom(high')]_vars

(* A refusal names a Block that breaks the rules, never one an unflushed    *)
(* Window or a coin of another branch made look wrong.                      *)
RefusalIsJust ==
  [][phase = "walking" /\ phase' = "idle" /\ tip' # tip
       => reading \notin Sound]_vars

(* What the walk cannot pass: a fork under the floor, a body that was       *)
(* pruned, a Block to drop without its body or its Undo Data.               *)
Stuck ==
  \/ Stranded
  \/ ~OnIndex(At) /\ (At \notin bodies \/ undo[At] = None)
  \/ \E b \in Branch(tip) \ bodies : b # Genesis /\ Height[b] < below

(* Left alone, the Set comes to stand on the tip of the Index, refusing     *)
(* what is unsound on the way, unless something it needs is gone.           *)
ReachesTheTip == <>[](At = tip \/ Stuck)
==============================================================================
