---------------------------- MODULE SetWalkProofs ----------------------------
(***************************************************************************)
(* Proofs about SetWalk, for every tree, every assignment of coins and     *)
(* every Window size: what an Input finds through the Window is the ledger *)
(* of the Block reached, the Store alone is the ledger of the Block it     *)
(* names, the Undo window is covered, and the whole implements Ledger.     *)
(* All but the types need h: to keep the branch a chunk walks (Steady).    *)
(***************************************************************************)
EXTENDS SetWalk, BlockTreeProofs

(* No Block rebuilt beside a chunk turns h: to another branch.             *)
Steady == ~Turns

(* What the Undo Data of b has to be: the coins b spends, as they stood    *)
(* when b was connected.                                                   *)
Was(b) == [c \in Coin |-> IF c \in Spends[b] THEN CoinsAt[Parent[b]][c]
                          ELSE None]

WindowEmpty ==
  created = NoCoins /\ spent = {} /\ undos = NoUndos /\ reached = None

(* The Store is the ledger of where it says it stands.                     *)
StoreIsTheLedger == At \in Sound /\ coins = CoinsAt[At]

(* The Window is the difference between the Store and the Block reached.   *)
WindowFits ==
  /\ Reached \in Sound
  /\ At \in Branch(Reached)
  /\ reached = None => WindowEmpty
  /\ phase # "walking" => WindowEmpty
  /\ phase = "walking" => OnIndex(Reached)
  /\ \A c \in Coin : created[c] # None => coins[c] = None
  /\ \A c \in spent : coins[c] # None

(* Undo Data is what it has to be, and of the right Blocks.                *)
UndoFits ==
  /\ \A b \in Block : undo[b] # None =>
       b \in Branch(At) \ {Genesis} /\ undo[b] = Was(b)
  /\ \A b \in Block : undos[b] # None =>
       b \in Branch(Reached) \ {Genesis} /\ undos[b] = Was(b)
  /\ \A b \in Branch(Reached) : b \in Branch(At) \/ undos[b] # None

(* The Undo window of the highest Height the Set has stood at is covered.  *)
Covered == Height[At] <= high /\ UndoInWindow /\ undoBelow <= WindowFrom(high)

(* The Block read ahead is the child of the one reached, on the branch.    *)
ReadingFits ==
  reading # None => /\ phase = "walking"
                    /\ reading # Genesis /\ Parent[reading] = Reached
                    /\ OnIndex(reading)

LedgerInv == StoreIsTheLedger /\ WindowFits /\ ViewIsTheLedger
UndoInv == UndoFits /\ Covered
IInv == TypeOK /\ LedgerInv /\ UndoInv /\ ReadingFits

-----------------------------------------------------------------------------
(* A branch is its parent's branch and its own Block.                      *)
LEMMA BranchParent ==
  ASSUME NEW b \in Block, b # Genesis
  PROVE  Branch(b) = Branch(Parent[b]) \cup {b}
<1> DEFINE p == Parent[b]
<1>1. /\ p \in Block /\ Height[p] = Height[b] - 1
      /\ \A m \in 0 .. Height[p] : Chain[p][m] = Chain[b][m]
  BY ParentChain
<1>2. Height[b] \in Nat /\ Height[p] \in Nat /\ Chain[b][Height[b]] = b
  BY <1>1, TreeShape, ChainFacts DEF Heights
<1>3. 0 .. Height[b] = (0 .. Height[p]) \cup {Height[b]}
  BY <1>1, <1>2
<1> QED
  BY <1>1, <1>2, <1>3 DEF Branch

(* The Block h: names next above a Block it names is that Block's child.   *)
LEMMA NextIsChild ==
  ASSUME NEW t \in Block, NEW a \in Block, Chain[t][Height[a]] = a,
         Height[a] + 1 <= Height[t]
  PROVE  LET b == Chain[t][Height[a] + 1]
         IN  b \in Block /\ b # Genesis /\ Parent[b] = a
<1> DEFINE n == Height[a]
           b == Chain[t][n + 1]
<1>1. n \in Nat /\ n \in Heights /\ n + 1 \in Heights
  BY TreeShape DEF Heights
<1>2. b \in Block /\ Height[b] = n + 1 /\ b # Genesis
  <2>1. /\ (Chain[t][n + 1] = None) <=> (n + 1 > Height[t])
        /\ Chain[t][n + 1] # None =>
             Chain[t][n + 1] \in Block /\ Height[Chain[t][n + 1]] = n + 1
    BY <1>1, ChainFacts
  <2>2. Height[t] \in Nat /\ Height[Genesis] = 0
    BY TreeShape DEF Heights
  <2> QED
    BY <1>1, <2>1, <2>2
<1>3. Parent[b] \in Block /\ Height[Parent[b]] = n
  BY <1>1, <1>2, ParentChain
<1>4. Chain[Parent[b]][n] = Chain[b][n]
  BY <1>1, <1>2, <1>3, ParentChain
<1>5. Chain[b][n] = Chain[t][n]
  BY <1>1, <1>2, ChainFacts
<1>6. Chain[Parent[b]][n] = Parent[b]
  BY <1>3, ChainFacts
<1> QED
  BY <1>2, <1>4, <1>5, <1>6

-----------------------------------------------------------------------------
LEMMA Shapes ==
  /\ CoinsAt \in [Block -> Views]
  /\ None \notin Views
  /\ NoCoins \in Views
  /\ NoUndos = [b \in Block |-> None]
  /\ Genesis \in Block /\ None \notin Block
  /\ Heights \subseteq Nat /\ MaxHeight \in Nat /\ 0 \in Heights
BY TreeShape, CoinShape DEF Views, NoCoins, NoUndos, Heights

LEMMA WindowFromRange ==
  ASSUME NEW n \in Heights
  PROVE  /\ WindowFrom(n) \in Heights /\ WindowFrom(n) <= n
         /\ \A m \in Heights : m <= n => WindowFrom(m) <= WindowFrom(n)
BY TreeShape, BoundShape DEF WindowFrom, Heights

LEMMA ReachedTyped ==
  ASSUME TypeOK
  PROVE  At \in Block /\ Reached \in Block /\ View \in Views
<1> USE DEF TypeOK
<1>1. At \in Block /\ Reached \in Block
  BY TreeShape DEF At, Reached
<1>2. View \in Views
  BY DEF View, Views
<1> QED
  BY <1>1, <1>2

(* What absorbing a Block gives, typed.                                    *)
LEMMA AbsorbTyped ==
  ASSUME TypeOK, NEW b \in Block
  PROVE  /\ CreatedAfter(b) \in Views
         /\ SpentAfter(b) \subseteq Coin
         /\ Taken(b) \in Views
         /\ \A made \in Views : \A gone \in SUBSET Coin :
              Flushed(made, gone) \in Views
<1>1. Spends[b] \subseteq Coin /\ Made[b] \subseteq Coin /\ Kept[b] \subseteq Coin
  BY CoinShape
<1>2. CreatedAfter(b) \in Views
  BY <1>1 DEF CreatedAfter, TypeOK, Views
<1>3. SpentAfter(b) \subseteq Coin
  BY <1>1 DEF SpentAfter, TypeOK
<1>4. View \in Views
  BY ReachedTyped
<1>5. Taken(b) \in Views
  BY <1>4 DEF Taken, Views
<1>6. ASSUME NEW made \in Views, NEW gone \in SUBSET Coin
      PROVE  Flushed(made, gone) \in Views
  BY DEF Flushed, TypeOK, Views
<1> QED
  BY <1>2, <1>3, <1>5, <1>6

LEMMA TypeInit == Init => TypeOK
BY Shapes, BoundShape DEF Init, TypeOK, Views, NoUndos, NoCoins

LEMMA TypeNext == TypeOK /\ [Next]_vars => TypeOK'
<1> SUFFICES ASSUME TypeOK, [Next]_vars PROVE TypeOK'
  OBVIOUS
<1> USE DEF index, store, walk, window
<1>0. Clear => /\ created' \in Views /\ spent' \subseteq Coin
               /\ undos' \in [Block -> Views \cup {None}]
               /\ reached' \in Block \cup {None}
  BY Shapes DEF Clear, NoUndos
<1>1. ASSUME NEW b \in Block, FetchBody(b) PROVE TypeOK'
  BY <1>1 DEF FetchBody, TypeOK
<1>2. ASSUME NEW b \in Block, Repoint(b) \/ Rebuilt(b) PROVE TypeOK'
  BY <1>2, BoundShape DEF Repoint, Rebuilt, TypeOK, Troubled
<1>3. ASSUME NEW to \in Heights, NEW gone \in SUBSET bodies, Prune(to, gone)
      PROVE  TypeOK'
  BY <1>3, BoundShape DEF Prune, TypeOK, Troubled, Max2
<1>4. CASE Begin
  <2>1. upTo' \in Heights
    BY <1>4, ReachedTyped, TreeShape, BoundShape
       DEF Begin, TypeOK, Min2, Heights
  <2> QED
    BY <1>4, <2>1 DEF Begin, TypeOK
<1>5. CASE Drop
  <2>1. setTo \in Block
    BY <1>5 DEF Drop, TypeOK
  <2>2. undo[setTo] \in Views
    BY <1>5, <2>1 DEF Drop, TypeOK
  <2>3. coins' \in Views
    BY <1>5, <2>2 DEF Drop, Reversal, TypeOK, Views
  <2>4. undo' \in [Block -> Views \cup {None}]
    BY <1>5 DEF Drop, TypeOK
  <2> QED
    BY <1>5, <2>1, <2>3, <2>4, TreeShape DEF Drop, TypeOK
<1>5a. CASE Read
  <2>1. reading' \in Block
    BY <1>5a DEF Read, Readable, TypeOK
  <2> QED
    BY <1>5a, <2>1 DEF Read, TypeOK
<1>6. ASSUME NEW b \in Block, Connect(b) PROVE TypeOK'
  <2>0. reading' \in Block \cup {None}
    BY <1>6 DEF Connect, ReadAhead, Readable, TypeOK
  <2> DEFINE datas == [undos EXCEPT ![b] = Taken(b)]
  <2>1. datas \in [Block -> Views \cup {None}]
    BY AbsorbTyped DEF TypeOK
  <2>2. Filed(datas) \in [Block -> Views \cup {None}]
    BY <2>1 DEF Filed, TypeOK
  <2>3. Flushed(CreatedAfter(b), SpentAfter(b)) \in Views
    BY AbsorbTyped
  <2>4. CASE /\ coins' = Flushed(CreatedAfter(b), SpentAfter(b))
             /\ undo' = Filed(datas)
             /\ setTo' = b
             /\ high' = Max2(high, Height[b])
             /\ Clear
    BY <1>6, <1>0, <2>0, <2>2, <2>3, <2>4, TreeShape DEF Connect, TypeOK, Max2
  <2>5. CASE /\ created' = CreatedAfter(b) /\ spent' = SpentAfter(b)
             /\ undos' = datas /\ reached' = b
             /\ UNCHANGED <<coins, undo, setTo, high>>
    BY <1>6, <2>0, <2>1, <2>5, AbsorbTyped DEF Connect, TypeOK
  <2> QED
    BY <1>6, <2>4, <2>5 DEF Connect
<1>7. ASSUME NEW b \in Block, Refuse(b) PROVE TypeOK'
  BY <1>0, <1>7, TreeShape DEF Refuse, TypeOK
<1>8. ASSUME Finish, troubles' \in 0 .. MaxTroubles PROVE TypeOK'
  <2>1. Flushed(created, spent) \in Views
    BY Shapes, AbsorbTyped DEF TypeOK
  <2>2. Filed(undos) \in [Block -> Views \cup {None}]
    BY DEF Filed, TypeOK
  <2>3. high' \in Heights
    BY <1>8, ReachedTyped, TreeShape DEF Finish, TypeOK, Max2
  <2> QED
    BY <1>0, <1>8, <2>1, <2>2, <2>3 DEF Finish, TypeOK
<1>9. CASE SweepUndo
  BY <1>9 DEF SweepUndo, TypeOK
<1>10. CASE MarkUndo
  <2>1. Floor \in Heights
    BY ReachedTyped, TreeShape, WindowFromRange DEF TypeOK, Floor, Max2
  <2> QED
    BY <1>10, <2>1 DEF MarkUndo, TypeOK
<1>11. CASE Lose
  BY <1>0, <1>11, BoundShape DEF Lose, TypeOK, Troubled
<1>12. CASE Fail
  BY <1>0, <1>12 DEF Fail, TypeOK
<1>13. CASE UNCHANGED vars
  BY <1>13 DEF vars, TypeOK
<1>14. (End \/ Stop) => Finish /\ troubles' \in 0 .. MaxTroubles
  BY BoundShape DEF End, Stop, Troubled, TypeOK
<1> QED
  BY <1>1, <1>2, <1>3, <1>4, <1>5, <1>5a, <1>6, <1>7, <1>8, <1>9, <1>10,
     <1>11, <1>12, <1>13, <1>14 DEF Next, Chunk, Fetch, Interfere

-----------------------------------------------------------------------------
LEMMA LedgerInit == Init => LedgerInv /\ UndoInv
<1> SUFFICES ASSUME Init PROVE LedgerInv /\ UndoInv
  OBVIOUS
<1>1. /\ At = Genesis /\ Reached = Genesis /\ WindowEmpty
      /\ coins = NoCoins /\ undo = NoUndos /\ undos = NoUndos
      /\ phase = "idle" /\ high = 0 /\ undoBelow = 0 /\ spent = {}
  BY DEF Init, At, Reached, WindowEmpty
<1>2. Genesis \in Sound /\ CoinsAt[Genesis] = NoCoins /\ Height[Genesis] = 0
  BY SoundShape, TreeShape DEF NoCoins
<1>3. View = NoCoins
  BY <1>1, Shapes DEF View, WindowEmpty, NoCoins
<1>4. Branch(Genesis) = {Genesis}
  BY <1>2, Shapes, BranchFacts, ChainFacts DEF Branch
<1>5. LedgerInv
  BY <1>1, <1>2, <1>3, <1>4
     DEF LedgerInv, StoreIsTheLedger, WindowFits, ViewIsTheLedger, WindowEmpty,
         NoCoins
<1>6. UndoFits
  BY <1>1, <1>4 DEF UndoFits, NoUndos
<1>7. Covered
  <2>1. WindowFrom(0) \in Heights /\ WindowFrom(0) <= 0
    BY Shapes, WindowFromRange
  <2>2. WindowFrom(0) = 0
    BY <2>1 DEF Heights
  <2> QED
    BY <1>1, <1>2, <1>4, <2>2 DEF Covered, UndoInWindow
<1> QED
  BY <1>5, <1>6, <1>7 DEF UndoInv

(* The Window and the Store stay as they are, and so does what they mean.  *)
LEMMA Untouched ==
  ASSUME LedgerInv, UndoInv, UNCHANGED <<coins, undo, setTo, undoBelow, high>>,
         UNCHANGED <<created, spent, undos, reached>>,
         phase' # "walking" => phase # "walking",
         phase' = "walking" => (phase = "walking" /\ UNCHANGED tip)
                                 \/ (WindowEmpty /\ OnIndex(At)')
  PROVE  LedgerInv' /\ UndoInv'
<1>1. At' = At /\ Reached' = Reached /\ View' = View
  BY DEF At, Reached, View
<1>2. WindowEmpty => Reached = At
  BY DEF WindowEmpty, Reached
<1>3. StoreIsTheLedger' /\ ViewIsTheLedger'
  BY <1>1 DEF LedgerInv, StoreIsTheLedger, ViewIsTheLedger
<1>4. WindowFits'
  BY <1>1, <1>2 DEF LedgerInv, WindowFits, WindowEmpty, OnIndex
<1>5. UndoInv'
  BY <1>1 DEF UndoInv, UndoFits, Covered, UndoInWindow
<1> QED
  BY <1>3, <1>4, <1>5 DEF LedgerInv

(* The Window is dropped and the Store stays: the ledger of the Store is   *)
(* what is left.                                                           *)
LEMMA Dropped ==
  ASSUME TypeOK, LedgerInv, UndoInv, Clear, phase' # "walking",
         UNCHANGED <<coins, undo, setTo, undoBelow, high>>
  PROVE  LedgerInv' /\ UndoInv'
<1>1. At' = At /\ Reached' = At /\ WindowEmpty'
  BY DEF At, Reached, Clear, WindowEmpty
<1>2. View' = coins
  <2>1. View' = [c \in Coin |-> coins[c]]
    BY DEF View, Clear, NoCoins
  <2>2. coins \in [Coin -> Block \cup {None}]
    BY DEF TypeOK, Views
  <2> QED
    BY <2>1, <2>2
<1>3. At \in Branch(At)
  BY ReachedTyped, BranchFacts
<1>4. StoreIsTheLedger' /\ ViewIsTheLedger'
  BY <1>1, <1>2 DEF LedgerInv, StoreIsTheLedger, ViewIsTheLedger
<1>5. WindowFits'
  BY <1>1, <1>3 DEF LedgerInv, StoreIsTheLedger, WindowFits, Clear, NoCoins
<1>6. UndoInv'
  BY <1>1, Shapes
     DEF UndoInv, UndoFits, Covered, UndoInWindow, Clear, WindowEmpty
<1> QED
  BY <1>4, <1>5, <1>6 DEF LedgerInv

-----------------------------------------------------------------------------
(* One Block more in the Window is one Block more of the ledger.           *)
LEMMA Absorbed ==
  ASSUME TypeOK, LedgerInv, NEW b \in Block, b # Genesis, Parent[b] = Reached,
         Accepts(b)
  PROVE  /\ b \in Sound
         /\ Taken(b) = Was(b)
         /\ \A c \in Coin : CreatedAfter(b)[c] # None => coins[c] = None
         /\ \A c \in SpentAfter(b) : coins[c] # None
         /\ \A c \in Coin :
              CoinsAt[b][c] = IF CreatedAfter(b)[c] # None
                                THEN CreatedAfter(b)[c]
                                ELSE IF c \in SpentAfter(b) THEN None
                                     ELSE coins[c]
<1>1. /\ created \in Views /\ coins \in Views /\ spent \subseteq Coin
      /\ Spends[b] \subseteq Coin /\ Kept[b] \subseteq Made[b]
      /\ Made[b] \subseteq Coin /\ b # None
  BY CoinShape, TreeShape DEF TypeOK
<1>2. \A c \in Coin : View[c] = IF created[c] # None THEN created[c]
                                ELSE IF c \in spent THEN None ELSE coins[c]
  BY DEF View
<1>3. /\ \A c \in Coin : created[c] # None => coins[c] = None
      /\ \A c \in spent : coins[c] # None
      /\ View = CoinsAt[Parent[b]] /\ Parent[b] \in Sound
  BY DEF LedgerInv, WindowFits, ViewIsTheLedger
<1>4. /\ b \notin Bad
      /\ \A c \in Made[b] : created[c] = None /\ coins[c] = None
      /\ \A c \in Spends[b] : View[c] # None
  BY <1>1 DEF Accepts, AlreadyHeld, Unspent
<1>5. Fits(b, View)
  BY <1>1, <1>2, <1>4 DEF Fits, Unspent
<1>6. b \in Sound
  BY <1>3, <1>5, SoundShape
<1>7. \A c \in Coin :
        CoinsAt[b][c] = IF c \in Spends[b] THEN None
                        ELSE IF c \in Kept[b] THEN b ELSE View[c]
  BY <1>3, <1>6, SoundShape
<1>8. Taken(b) = Was(b)
  BY <1>3 DEF Taken, Was
<1>9. \A c \in Coin : CreatedAfter(b)[c] = IF c \in Spends[b] THEN None
                        ELSE IF c \in Kept[b] THEN b ELSE created[c]
  BY DEF CreatedAfter
<1>10. \A c \in Coin : c \in SpentAfter(b) <=>
         c \in spent \/ (c \in Spends[b] /\ created[c] = None)
  BY <1>1 DEF SpentAfter
<1>11. SpentAfter(b) \subseteq Coin
  BY <1>1 DEF SpentAfter
<1>12. \A c \in Coin : CreatedAfter(b)[c] # None => coins[c] = None
  BY <1>1, <1>3, <1>4, <1>9
<1>13. \A c \in SpentAfter(b) : coins[c] # None
  BY <1>1, <1>2, <1>3, <1>4, <1>10, <1>11
<1>14. ASSUME NEW c \in Coin
       PROVE  CoinsAt[b][c] = IF CreatedAfter(b)[c] # None
                                THEN CreatedAfter(b)[c]
                                ELSE IF c \in SpentAfter(b) THEN None
                                     ELSE coins[c]
  <2>1. CASE c \in Spends[b]
    BY <1>3, <1>7, <1>9, <1>10, <2>1
  <2>2. CASE c \notin Spends[b] /\ c \in Kept[b]
    BY <1>1, <1>7, <1>9, <2>2
  <2>3. CASE c \notin Spends[b] /\ c \notin Kept[b]
    BY <1>2, <1>7, <1>9, <1>10, <2>3
  <2> QED
    BY <2>1, <2>2, <2>3
<1> QED
  BY <1>6, <1>8, <1>12, <1>13, <1>14

(* A Window that fits, flushed, is what an Input found through it.         *)
LEMMA FlushIsView ==
  ASSUME TypeOK, NEW made \in Views, NEW gone \in SUBSET Coin,
         \A c \in Coin : made[c] # None => coins[c] = None,
         \A c \in gone : coins[c] # None,
         NEW view \in Views,
         \A c \in Coin : view[c] = IF made[c] # None THEN made[c]
                                   ELSE IF c \in gone THEN None ELSE coins[c]
  PROVE  Flushed(made, gone) = view
<1>1. Flushed(made, gone) \in Views
  BY DEF Flushed, TypeOK, Views
<1>2. \A c \in Coin : Flushed(made, gone)[c] = view[c]
  BY DEF Flushed
<1> QED
  BY <1>1, <1>2 DEF Views

(* After a flush up to b with the Undo Data of every Block on the way, the *)
(* Set stands on b and everything fits again.                              *)
LEMMA FlushedTo ==
  ASSUME TypeOK, LedgerInv, UndoInv, NEW b \in Block, b \in Sound,
         At \in Branch(b), NEW datas,
         \A a \in Block : datas[a] # None =>
           a \in Branch(b) \ {Genesis} /\ datas[a] = Was(a),
         \A a \in Branch(b) : a \in Branch(At) \/ datas[a] # None,
         coins' = CoinsAt[b], undo' = Filed(datas), At' = b,
         high' = Max2(high, Height[b]), Clear, UNCHANGED undoBelow,
         phase' = "walking" => OnIndex(b)'
  PROVE  LedgerInv' /\ UndoInv'
<1>1. Reached' = b /\ WindowEmpty'
  BY DEF Reached, Clear, WindowEmpty
<1>2. coins' \in Views
  BY Shapes
<1>3. View' = coins'
  <2>1. View' = [c \in Coin |-> coins'[c]]
    BY DEF View, Clear, NoCoins
  <2> QED
    BY <1>2, <2>1 DEF Views
<1>4. b \in Branch(b)
  BY BranchFacts
<1>5. LedgerInv'
  BY <1>1, <1>3, <1>4
     DEF LedgerInv, StoreIsTheLedger, WindowFits, ViewIsTheLedger, Clear, NoCoins
<1>6. \A a \in Block : undo'[a] = IF datas[a] # None THEN datas[a] ELSE undo[a]
  BY DEF Filed
<1>7. Branch(At) \subseteq Branch(b) /\ Branch(b) \subseteq Block
  BY BranchFacts
<1>8. UndoFits'
  BY <1>1, <1>6, <1>7, Shapes DEF UndoInv, UndoFits, Clear, NoUndos
<1>9. /\ high \in Heights /\ high' \in Heights /\ high <= high'
      /\ Height[b] <= high'
  BY TreeShape DEF TypeOK, Max2, Heights
<1>10. WindowFrom(high) <= WindowFrom(high') /\ WindowFrom(high) \in Int
       /\ WindowFrom(high') \in Int
  BY <1>9, WindowFromRange DEF Heights
<1>11. \A a \in Branch(b) : Height[a] \in Int
  BY <1>7, TreeShape DEF Heights
<1>12. Covered'
  <2>1. undoBelow' <= WindowFrom(high')
    BY <1>10, BoundShape, TreeShape DEF UndoInv, Covered, TypeOK, Heights
  <2>2. ASSUME NEW a \in Branch(b) \ {Genesis}, Height[a] >= WindowFrom(high')
        PROVE  undo'[a] # None
    BY <1>6, <1>7, <1>10, <1>11, <2>2 DEF UndoInv, Covered, UndoInWindow
  <2> QED
    BY <1>9, <2>1, <2>2 DEF Covered, UndoInWindow
<1> QED
  BY <1>5, <1>8, <1>12 DEF UndoInv

-----------------------------------------------------------------------------
(* What the Undo Data of a sound Block gives back is the ledger below it.  *)
LEMMA ReversalIsParent ==
  ASSUME TypeOK, NEW b \in Sound, b # Genesis, coins = CoinsAt[b],
         undo[b] = Was(b)
  PROVE  Reversal(b) = CoinsAt[Parent[b]]
<1> DEFINE view == CoinsAt[Parent[b]]
<1>1. b \in Block /\ Parent[b] \in Block
  BY TreeShape, CoinShape
<1>2. /\ view \in Views /\ coins \in Views
      /\ Kept[b] \subseteq Made[b] /\ Made[b] \subseteq Coin
      /\ Spends[b] \subseteq Coin
  BY <1>1, Shapes, CoinShape DEF TypeOK
<1>3. Fits(b, view)
  BY <1>1, SoundShape
<1>4. \A c \in Coin :
        coins[c] = IF c \in Spends[b] THEN None
                   ELSE IF c \in Kept[b] THEN b ELSE view[c]
  BY <1>1, SoundShape
<1>5. /\ \A c \in Made[b] : view[c] = None
      /\ \A c \in Spends[b] : view[c] # None
  BY <1>2, <1>3 DEF Fits, Unspent
<1>6. \A c \in Coin : undo[b][c] = IF c \in Spends[b] THEN view[c] ELSE None
  BY DEF Was
<1>7. \A c \in Coin : Reversal(b)[c] = view[c]
  BY <1>2, <1>4, <1>5, <1>6 DEF Reversal
<1>8. Reversal(b) = [c \in Coin |-> Reversal(b)[c]]
  BY DEF Reversal
<1>9. view = [c \in Coin |-> view[c]]
  BY <1>2 DEF Views
<1> QED
  BY <1>7, <1>8, <1>9

LEMMA DropStep ==
  ASSUME IInv, Drop
  PROVE  LedgerInv' /\ UndoInv' /\ setTo \in Sound \ {Genesis}
         /\ At = setTo /\ At' = Parent[setTo] /\ coins' = CoinsAt[Parent[setTo]]
<1>0. setTo \in Block
  BY DEF IInv, TypeOK, Drop
<1>p. PICK b \in Block : b = setTo
  BY <1>0
<1> DEFINE p == Parent[b]
<1>1. At = b /\ b # None
  BY <1>p, TreeShape DEF At
<1>2. WindowEmpty /\ Reached = b
  BY <1>1, <1>p DEF IInv, LedgerInv, WindowFits, Drop, WindowEmpty, Reached
<1>3. b # Genesis /\ undo[b] = Was(b)
  BY <1>1, <1>p DEF IInv, UndoInv, UndoFits, Drop
<1>4. b \in Sound /\ coins = CoinsAt[b]
  BY <1>1 DEF IInv, LedgerInv, StoreIsTheLedger
<1>5. p \in Block /\ p \in Sound /\ p # None /\ Height[p] = Height[b] - 1
  BY <1>1, <1>3, <1>4, ParentChain, SoundShape, TreeShape
<1>6. coins' = CoinsAt[p]
  BY <1>3, <1>4, <1>p, ReversalIsParent DEF IInv, Drop
<1>7. At' = p /\ Reached' = p /\ WindowEmpty'
  BY <1>2, <1>5, <1>p DEF Drop, At, Reached, WindowEmpty, window
<1>8. View' = coins'
  <2>1. View' = [c \in Coin |-> coins'[c]]
    BY <1>7 DEF View, WindowEmpty, NoCoins
  <2> QED
    BY <1>5, <1>6, <2>1, Shapes DEF Views
<1>9. LedgerInv'
  <2>1. p \in Branch(p)
    BY <1>5, BranchFacts
  <2>2. phase' = "walking" => OnIndex(p)'
    BY <1>p DEF Drop, OnIndex, index
  <2> QED
    BY <1>5, <1>6, <1>7, <1>8, <2>1, <2>2
       DEF LedgerInv, StoreIsTheLedger, WindowFits, ViewIsTheLedger,
           WindowEmpty, NoCoins
<1>10. /\ Branch(b) = Branch(p) \cup {b}
       /\ b \notin Branch(p)
  <2>1. Height[b] \in Int
    BY <1>1, TreeShape DEF Heights
  <2> QED
    BY <1>1, <1>3, <1>5, <2>1, BranchParent, BranchFacts
<1>11. \A a \in Block : undo'[a] = IF a = b THEN None ELSE undo[a]
  BY <1>p DEF Drop, IInv, TypeOK
<1>12. UndoFits'
  BY <1>1, <1>2, <1>7, <1>10, <1>11, Shapes
     DEF IInv, UndoInv, UndoFits, WindowEmpty
<1>13. Covered'
  <2>1. high' = high /\ undoBelow' = undoBelow
    BY DEF Drop
  <2>2. Height[p] <= high
    BY <1>1, <1>5, TreeShape DEF IInv, TypeOK, UndoInv, Covered, Heights
  <2>3. Branch(p) \subseteq Block
    BY <1>5, BranchFacts
  <2> QED
    BY <1>1, <1>7, <1>10, <1>11, <2>1, <2>2, <2>3
       DEF IInv, UndoInv, Covered, UndoInWindow
<1> QED
  BY <1>1, <1>3, <1>4, <1>6, <1>7, <1>9, <1>12, <1>13, <1>p DEF UndoInv

(* The Block read at the next Height is the child of the Block below it.   *)
LEMMA ReadableIsChild ==
  ASSUME TypeOK, NEW a \in Block, OnIndex(a), NEW b \in Readable(Height[a] + 1)
  PROVE  /\ b \in Block /\ b # Genesis /\ Parent[b] = a /\ OnIndex(b)
         /\ Height[b] = Height[a] + 1
<1> DEFINE n == Height[a]
<1>1. tip \in Block /\ Chain[tip][n] = a
  BY DEF TypeOK, OnIndex
<1>2. n \in Int /\ Height[tip] \in Int /\ upTo \in Int
  BY <1>1, TreeShape DEF TypeOK, Heights
<1>3. b = Chain[tip][n + 1] /\ n + 1 <= Height[tip]
  BY <1>2 DEF Readable, NamedAt, Min2
<1>4. b \in Block /\ b # Genesis /\ Parent[b] = a
  BY <1>1, <1>3, NextIsChild
<1>5. Height[b] = n + 1
  BY <1>4, TreeShape
<1> QED
  BY <1>3, <1>4, <1>5 DEF OnIndex

(* A Block on top of the tip leaves every Block below it where it was.     *)
LEMMA ExtendsTip ==
  ASSUME TypeOK, NEW b \in Block, b \notin Branch(tip), Parent[b] = tip,
         tip' = b, NEW a \in Block, OnIndex(a)
  PROVE  OnIndex(a)'
<1>1. tip \in Block /\ Height[a] \in Heights /\ Chain[tip][Height[a]] = a
  BY TreeShape DEF TypeOK, OnIndex
<1>2. a # None
  BY TreeShape
<1>3. Height[a] \in 0 .. Height[tip]
  BY <1>1, <1>2, ChainFacts, TreeShape DEF Heights
<1>4. b # Genesis
  <2>1. Genesis \in Block /\ Parent[Genesis] = Genesis
    BY TreeShape
  <2>2. tip \in Branch(tip)
    BY <1>1, BranchFacts
  <2> QED
    BY <2>1, <2>2
<1>5. Chain[b][Height[a]] = Chain[tip][Height[a]]
  BY <1>3, <1>4, ParentChain
<1> QED
  BY <1>1, <1>5 DEF OnIndex

LEMMA ConnectStep ==
  ASSUME IInv, NEW b \in Block, Connect(b)
  PROVE  LedgerInv' /\ UndoInv'
<1> DEFINE made == CreatedAfter(b)
           gone == SpentAfter(b)
           datas == [undos EXCEPT ![b] = Taken(b)]
<1>1. TypeOK /\ LedgerInv /\ UndoInv /\ phase = "walking"
  BY DEF IInv, Connect
<1>2. b # Genesis /\ Parent[b] = Reached /\ OnIndex(b)
  <2>1. reading = b /\ b # None
    BY Shapes DEF Connect
  <2> QED
    BY <2>1 DEF IInv, ReadingFits
<1>3. /\ b \in Sound /\ Taken(b) = Was(b)
      /\ \A c \in Coin : made[c] # None => coins[c] = None
      /\ \A c \in gone : coins[c] # None
      /\ \A c \in Coin : CoinsAt[b][c] = IF made[c] # None THEN made[c]
                           ELSE IF c \in gone THEN None ELSE coins[c]
  BY <1>1, <1>2, Absorbed DEF Connect
<1>4. made \in Views /\ gone \subseteq Coin /\ Taken(b) \in Views
  BY <1>1, AbsorbTyped
<1>5. /\ Branch(b) = Branch(Reached) \cup {b} /\ b \in Branch(b)
      /\ At \in Branch(b) /\ Branch(b) \subseteq Block
  BY <1>1, <1>2, BranchParent, BranchFacts DEF LedgerInv, WindowFits
<1>6. \A a \in Block : datas[a] = IF a = b THEN Taken(b) ELSE undos[a]
  BY DEF IInv, TypeOK
<1>7. \A a \in Block : datas[a] # None =>
        a \in Branch(b) \ {Genesis} /\ datas[a] = Was(a)
  BY <1>1, <1>2, <1>3, <1>5, <1>6 DEF UndoInv, UndoFits
<1>8. \A a \in Branch(b) : a \in Branch(At) \/ datas[a] # None
  BY <1>1, <1>4, <1>5, <1>6, Shapes DEF UndoInv, UndoFits
<1>9. b # None /\ OnIndex(b)'
  BY <1>2, Shapes DEF Connect, OnIndex, index
<1>10. CASE /\ coins' = Flushed(made, gone) /\ undo' = Filed(datas)
            /\ setTo' = b /\ high' = Max2(high, Height[b]) /\ Clear
  <2>1. coins' = CoinsAt[b]
    BY <1>1, <1>3, <1>4, <1>10, FlushIsView, Shapes
  <2>2. At' = b /\ UNCHANGED undoBelow
    BY <1>9, <1>10 DEF At, Connect
  <2> HIDE DEF datas
  <2> QED
    BY <1>1, <1>3, <1>5, <1>7, <1>8, <1>9, <1>10, <2>1, <2>2, FlushedTo
<1>11. CASE /\ created' = made /\ spent' = gone /\ undos' = datas
            /\ reached' = b /\ UNCHANGED <<coins, undo, setTo, high>>
  <2>1. At' = At /\ Reached' = b /\ UNCHANGED undoBelow /\ phase' = "walking"
    BY <1>1, <1>9, <1>11 DEF At, Reached, Connect
  <2>2. \A c \in Coin : View'[c] = CoinsAt[b][c]
    BY <1>3, <1>11 DEF View
  <2>3. View' = CoinsAt[b]
    <3>1. View' = [c \in Coin |-> View'[c]]
      BY DEF View
    <3>2. CoinsAt[b] = [c \in Coin |-> CoinsAt[b][c]]
      BY Shapes DEF Views
    <3> QED
      BY <2>2, <3>1, <3>2
  <2>4. StoreIsTheLedger' /\ ViewIsTheLedger'
    BY <1>1, <1>11, <2>1, <2>3
       DEF LedgerInv, StoreIsTheLedger, ViewIsTheLedger
  <2>5. WindowFits'
    BY <1>3, <1>5, <1>9, <1>11, <2>1 DEF WindowFits
  <2>6. UndoFits'
    BY <1>1, <1>7, <1>8, <1>11, <2>1 DEF UndoInv, UndoFits
  <2>7. Covered'
    BY <1>1, <1>11, <2>1 DEF UndoInv, Covered, UndoInWindow
  <2> QED
    BY <2>4, <2>5, <2>6, <2>7 DEF LedgerInv, UndoInv
<1> QED
  BY <1>10, <1>11 DEF Connect

LEMMA FinishStep ==
  ASSUME IInv, Finish
  PROVE  LedgerInv' /\ UndoInv' /\ Reached \in Sound /\ At \in Branch(Reached)
         /\ At' = Reached /\ coins' = CoinsAt[Reached]
<1>0. Reached \in Block
  BY ReachedTyped DEF IInv
<1>p. PICK b \in Block : b = Reached
  BY <1>0
<1>1. TypeOK /\ LedgerInv /\ UndoInv
  BY DEF IInv
<1>2. View = CoinsAt[b] /\ b \in Sound /\ At \in Branch(b)
  BY <1>1, <1>p DEF LedgerInv, WindowFits, ViewIsTheLedger
<1>3. coins' = View
  <2>1. created \in Views /\ spent \in SUBSET Coin /\ View \in Views
    BY <1>1, ReachedTyped DEF TypeOK
  <2>2. \A c \in Coin : View[c] = IF created[c] # None THEN created[c]
                                  ELSE IF c \in spent THEN None ELSE coins[c]
    BY DEF View
  <2> QED
    BY <1>1, <2>1, <2>2, FlushIsView DEF Finish, LedgerInv, WindowFits
<1>4. At' = b
  BY <1>p, Shapes DEF Finish, At, Reached
<1>5. /\ \A a \in Block : undos[a] # None =>
           a \in Branch(b) \ {Genesis} /\ undos[a] = Was(a)
      /\ \A a \in Branch(b) : a \in Branch(At) \/ undos[a] # None
  BY <1>1, <1>p DEF UndoInv, UndoFits
<1>6. /\ undo' = Filed(undos) /\ high' = Max2(high, Height[b]) /\ Clear
      /\ UNCHANGED undoBelow /\ phase' # "walking"
  BY <1>p DEF Finish
<1>7. LedgerInv' /\ UndoInv'
  BY <1>1, <1>2, <1>3, <1>4, <1>5, <1>6, FlushedTo
<1> QED
  BY <1>2, <1>3, <1>4, <1>7, <1>p

LEMMA SweepStep ==
  ASSUME IInv, SweepUndo
  PROVE  LedgerInv' /\ UndoInv'
<1> USE DEF IInv, SweepUndo, window
<1>1. At' = At /\ Reached' = Reached /\ View' = View /\ At \in Block
  BY ReachedTyped DEF At, Reached, View
<1>2. LedgerInv'
  BY <1>1 DEF LedgerInv, StoreIsTheLedger, WindowFits, ViewIsTheLedger,
              WindowEmpty
<1>3. \A a \in Block : undo'[a] = IF a \in Swept THEN None ELSE undo[a]
  OBVIOUS
<1>4. Branch(At) \subseteq Block /\ Branch(Reached) \subseteq Block
  BY ReachedTyped, BranchFacts
<1>5. UndoFits'
  BY <1>1, <1>3, <1>4 DEF UndoInv, UndoFits
<1>6. WindowFrom(Height[At]) <= WindowFrom(high)
  BY <1>1, TreeShape, WindowFromRange DEF UndoInv, Covered, TypeOK
<1>7. \A a \in Branch(At) : Height[a] >= WindowFrom(high) => a \notin Swept
  BY <1>1, <1>4, <1>6, TreeShape, WindowFromRange DEF Swept, TypeOK, Heights
<1>8. Covered'
  BY <1>1, <1>3, <1>4, <1>7 DEF UndoInv, Covered, UndoInWindow
<1> QED
  BY <1>2, <1>5, <1>8 DEF UndoInv

LEMMA FloorRange ==
  ASSUME IInv
  PROVE  undoBelow <= Floor /\ Floor <= WindowFrom(high)
<1>1. /\ WindowFrom(Height[At]) <= WindowFrom(high)
      /\ WindowFrom(Height[At]) \in Heights /\ WindowFrom(high) \in Heights
      /\ undoBelow \in Heights /\ undoBelow <= WindowFrom(high)
  BY ReachedTyped, TreeShape, WindowFromRange
     DEF IInv, UndoInv, Covered, TypeOK
<1> QED
  BY <1>1 DEF Floor, Max2, Heights

LEMMA MarkStep ==
  ASSUME IInv, MarkUndo
  PROVE  LedgerInv' /\ UndoInv'
<1>1. At' = At /\ Reached' = Reached /\ View' = View
  BY DEF At, Reached, View, MarkUndo, window
<1>2. LedgerInv'
  BY <1>1 DEF IInv, MarkUndo, window, LedgerInv, StoreIsTheLedger,
              WindowFits, ViewIsTheLedger, WindowEmpty
<1>3. UndoFits'
  BY <1>1 DEF IInv, MarkUndo, window, UndoInv, UndoFits
<1>4. Covered'
  BY <1>1, FloorRange DEF IInv, MarkUndo, UndoInv, Covered, UndoInWindow
<1> QED
  BY <1>2, <1>3, <1>4 DEF UndoInv

-----------------------------------------------------------------------------
(* The tip moves up under the walk, or stays: what the walk has is as it   *)
(* was, and still on the branch h: names.                                  *)
LEMMA RebuiltStep ==
  ASSUME Steady, IInv, NEW b \in Block, Rebuilt(b)
  PROVE  LedgerInv' /\ UndoInv'
<1> USE DEF store, walk, window
<1>1. TypeOK /\ LedgerInv /\ UndoInv /\ phase = "walking" /\ phase' = phase
  BY DEF IInv, Rebuilt
<1>2. At' = At /\ Reached' = Reached /\ View' = View /\ Reached \in Block
  BY <1>1, ReachedTyped DEF Rebuilt, At, Reached, View
<1>3. OnIndex(Reached)'
  <2>1. PICK a \in Block : a = Reached
    BY <1>2
  <2>2. OnIndex(a)
    BY <1>1, <2>1 DEF LedgerInv, WindowFits
  <2>3. CASE tip' = tip
    BY <1>2, <2>1, <2>2, <2>3 DEF OnIndex
  <2>4. CASE tip' = b /\ Parent[b] = tip
    <3>1. OnIndex(a)'
      BY <1>1, <2>2, <2>4, ExtendsTip DEF Rebuilt
    <3> QED
      BY <1>2, <2>1, <3>1 DEF OnIndex
  <2> QED
    BY <2>3, <2>4 DEF Rebuilt, Steady
<1>4. UNCHANGED <<coins, undo, setTo, undoBelow, high, created, spent, undos,
                  reached>>
  BY DEF Rebuilt
<1>5. StoreIsTheLedger' /\ ViewIsTheLedger'
  BY <1>1, <1>2, <1>4 DEF LedgerInv, StoreIsTheLedger, ViewIsTheLedger
<1>6. WindowFits'
  BY <1>1, <1>2, <1>3, <1>4 DEF LedgerInv, WindowFits, WindowEmpty
<1>7. UndoInv'
  BY <1>1, <1>2, <1>4 DEF UndoInv, UndoFits, Covered, UndoInWindow
<1> QED
  BY <1>5, <1>6, <1>7 DEF LedgerInv

(* What is read ahead stays the child of what is reached.                  *)
LEMMA ReadingNext ==
  ASSUME Steady, IInv, [Next]_vars
  PROVE  ReadingFits'
<1> USE DEF index, store, walk, window
<1>0. TypeOK /\ LedgerInv /\ ReadingFits
  BY DEF IInv
<1>1. CASE reading' = None
  BY <1>1 DEF ReadingFits
<1>2. CASE /\ UNCHANGED <<reading, phase, setTo, reached>>
           /\ reading # None => UNCHANGED tip
  <2>1. Reached' = Reached
    BY <1>2 DEF Reached, At
  <2> QED
    BY <1>0, <1>2, <2>1 DEF ReadingFits, OnIndex
<1>3. CASE Read
  <2>1. OnIndex(Reached) /\ Reached \in Block
    BY <1>0, <1>3, ReachedTyped DEF Read, LedgerInv, WindowFits
  <2>2. PICK r \in Readable(Height[Reached] + 1) : reading' = r
    BY <1>3 DEF Read, NextHeight
  <2>3. r # Genesis /\ Parent[r] = Reached /\ OnIndex(r)
    BY <1>0, <2>1, <2>2, ReadableIsChild
  <2>4. phase' = "walking" /\ Reached' = Reached /\ tip' = tip
    BY <1>3 DEF Read, Reached, At
  <2> QED
    BY <2>2, <2>3, <2>4 DEF ReadingFits, OnIndex
<1>4. ASSUME NEW b \in Block, Connect(b), reading' # None
      PROVE  ReadingFits'
  <2>1. reading = b /\ b # None
    BY <1>4, Shapes DEF Connect
  <2>2. b # Genesis /\ Parent[b] = Reached /\ OnIndex(b)
    BY <1>0, <2>1 DEF ReadingFits
  <2>3. Height[b] = NextHeight
    BY <2>2, TreeShape DEF NextHeight
  <2>4. PICK r \in Readable(Height[b] + 1) : reading' = r
    BY <1>4, <2>3 DEF Connect, ReadAhead
  <2>5. r # Genesis /\ Parent[r] = b /\ OnIndex(r)
    BY <1>0, <2>2, <2>4, ReadableIsChild
  <2>6. Reached' = b
    BY <1>4, <2>1 DEF Connect, Clear, Reached, At
  <2>7. phase' = "walking" /\ tip' = tip
    BY <1>4 DEF Connect
  <2> QED
    BY <2>4, <2>5, <2>6, <2>7 DEF ReadingFits, OnIndex
<1>5. ASSUME NEW b \in Block, Rebuilt(b), reading # None
      PROVE  ReadingFits'
  <2>1. PICK a \in Block : a = reading
    BY <1>0, <1>5 DEF TypeOK
  <2>2. a # Genesis /\ Parent[a] = Reached /\ OnIndex(a)
    BY <1>0, <1>5, <2>1 DEF ReadingFits
  <2>3. Reached' = Reached /\ reading' = a /\ phase' = "walking"
    BY <1>5, <2>1 DEF Rebuilt, Reached, At
  <2>4. OnIndex(a)'
    <3>1. CASE tip' = tip
      BY <2>2, <3>1 DEF OnIndex
    <3>2. CASE tip' = b /\ Parent[b] = tip
      BY <1>0, <1>5, <2>2, <3>2, ExtendsTip DEF Rebuilt
    <3> QED
      BY <1>5, <3>1, <3>2 DEF Rebuilt, Steady
  <2> QED
    BY <2>2, <2>3, <2>4 DEF ReadingFits, OnIndex
<1>6. CASE Begin \/ Drop \/ SweepUndo \/ MarkUndo
  <2>1. reading = None
    BY <1>0, <1>6 DEF ReadingFits, Begin, Drop, SweepUndo, MarkUndo
  <2> QED
    BY <1>1, <1>6, <2>1 DEF Begin, Drop, SweepUndo, MarkUndo
<1>7. CASE End \/ Stop \/ Lose \/ Fail
  BY <1>1, <1>7 DEF End, Stop, Finish, Lose, Fail
<1>8. ASSUME NEW b \in Block, FetchBody(b) \/ Repoint(b) \/ Refuse(b)
      PROVE  ReadingFits'
  BY <1>0, <1>1, <1>2, <1>8
     DEF FetchBody, Repoint, Refuse, ReadingFits
<1>9. ASSUME NEW to \in Heights, NEW gone \in SUBSET bodies, Prune(to, gone)
      PROVE  ReadingFits'
  BY <1>2, <1>9 DEF Prune
<1>10. CASE UNCHANGED vars
  BY <1>2, <1>10 DEF vars
<1>11. ASSUME NEW b \in Block, Rebuilt(b), reading = None
       PROVE  ReadingFits'
  BY <1>1, <1>11 DEF Rebuilt
<1> QED
  BY <1>1, <1>3, <1>4, <1>5, <1>6, <1>7, <1>8, <1>9, <1>10, <1>11
     DEF Next, Chunk, Fetch, Interfere

LEMMA IInvInit == Init => IInv
BY TypeInit, LedgerInit DEF IInv, Init, ReadingFits

LEMMA IInvNext == Steady /\ IInv /\ [Next]_vars => IInv'
<1> SUFFICES ASSUME Steady, IInv, [Next]_vars PROVE IInv'
  OBVIOUS
<1>0. TypeOK' /\ TypeOK /\ LedgerInv /\ UndoInv
  BY TypeNext DEF IInv
<1>1. SUFFICES LedgerInv' /\ UndoInv'
  BY <1>0, ReadingNext DEF IInv
<1> USE DEF index, store, walk, window
<1>2. ASSUME NEW b \in Block, FetchBody(b) PROVE LedgerInv' /\ UndoInv'
  BY <1>0, <1>2, Untouched DEF FetchBody
<1>3. ASSUME NEW b \in Block, Repoint(b) PROVE LedgerInv' /\ UndoInv'
  BY <1>0, <1>3, Untouched DEF Repoint
<1>3a. ASSUME NEW b \in Block, Rebuilt(b) PROVE LedgerInv' /\ UndoInv'
  BY <1>3a, RebuiltStep
<1>4. ASSUME NEW to \in Heights, NEW gone \in SUBSET bodies, Prune(to, gone)
      PROVE  LedgerInv' /\ UndoInv'
  BY <1>0, <1>4, Untouched DEF Prune
<1>5. CASE Begin
  <2>1. phase' = "walking" => WindowEmpty /\ OnIndex(At)'
    BY <1>0, <1>5 DEF Begin, LedgerInv, WindowFits, OnIndex, At
  <2>2. phase # "walking"
    BY <1>5 DEF Begin
  <2> QED
    BY <1>0, <1>5, <2>1, <2>2, Untouched DEF Begin
<1>6. CASE Drop
  BY <1>6, DropStep
<1>6a. CASE Read
  <2>1. phase' = phase /\ tip' = tip
    BY <1>6a DEF Read
  <2> QED
    BY <1>0, <1>6a, <2>1, Untouched DEF Read
<1>7. ASSUME NEW b \in Block, Connect(b) PROVE LedgerInv' /\ UndoInv'
  BY <1>7, ConnectStep
<1>8. ASSUME NEW b \in Block, Refuse(b) PROVE LedgerInv' /\ UndoInv'
  BY <1>0, <1>8, Dropped DEF Refuse
<1>9. CASE End \/ Stop
  BY <1>9, FinishStep DEF End, Stop
<1>10. CASE SweepUndo
  BY <1>10, SweepStep
<1>11. CASE MarkUndo
  BY <1>11, MarkStep
<1>12. CASE Lose \/ Fail
  BY <1>0, <1>12, Dropped DEF Lose, Fail
<1>13. CASE UNCHANGED vars
  BY <1>0, <1>13, Untouched DEF vars
<1> QED
  BY <1>2, <1>3, <1>3a, <1>4, <1>5, <1>6, <1>6a, <1>7, <1>8, <1>9, <1>10,
     <1>11, <1>12, <1>13 DEF Next, Chunk, Fetch, Interfere

(* Types hold in every reachable state, for any tree and any ledger.       *)
THEOREM TypeCorrect == Spec => []TypeOK
<1> QED
  BY TypeInit, TypeNext, PTL DEF Spec

(* What an Input finds through the Window is the ledger of the Block the   *)
(* Window has reached, whatever was flushed, dropped, refused or lost.     *)
THEOREM WindowReadsTheLedger ==
  ASSUME Steady PROVE Spec => []ViewIsTheLedger
<1>1. IInv => ViewIsTheLedger
  BY DEF IInv, LedgerInv
<1> QED
  BY <1>1, IInvInit, IInvNext, PTL DEF Spec

(* The Undo Data a reorganisation inside the Undo window needs is there.   *)
THEOREM UndoIsThere ==
  ASSUME Steady PROVE Spec => []UndoInWindow
<1>1. IInv => UndoInWindow
  BY DEF IInv, UndoInv, Covered
<1> QED
  BY <1>1, IInvInit, IInvNext, PTL DEF Spec

(* No Undo Data is left for a Block that came off the Set.                 *)
THEOREM NoUndoLeftBehind ==
  ASSUME Steady PROVE Spec => []UndoOnBranchOnly
<1>1. IInv => UndoOnBranchOnly
  BY DEF IInv, UndoInv, UndoFits, UndoOnBranchOnly
<1> QED
  BY <1>1, IInvInit, IInvNext, PTL DEF Spec

(* The Undo floor only rises, and never past the window of the highest     *)
(* Height the Set has stood at.                                            *)
THEOREM FloorOnlyRises ==
  ASSUME Steady PROVE Spec => FloorRises
<1>1. ASSUME IInv, IInv', [Next]_vars
      PROVE  [undoBelow' >= undoBelow /\ undoBelow' <= WindowFrom(high')]_vars
  <2>1. undoBelow \in Int /\ undoBelow' <= WindowFrom(high')
    BY <1>1 DEF IInv, TypeOK, UndoInv, Covered, Heights
  <2>2. CASE MarkUndo
    BY <1>1, <2>1, <2>2, FloorRange DEF MarkUndo
  <2>3. CASE UNCHANGED undoBelow
    BY <2>1, <2>3
  <2> QED
    BY <1>1, <2>2, <2>3
       DEF Next, Chunk, Fetch, Interfere, FetchBody, Repoint, Rebuilt, Prune,
           Begin, Drop, Read, Connect, Refuse, End, Stop, Finish, SweepUndo, Lose, Fail,
           store, vars
<1> QED
  BY <1>1, IInvInit, IInvNext, PTL DEF Spec, FloorRises

-----------------------------------------------------------------------------
(* A flush moves the ledger up a branch; a disconnection moves it down one. *)
LEMMA FlushAdvances ==
  ASSUME TypeOK, NEW b \in Block, b \in Sound, At \in Branch(b), At' = b,
         coins' = CoinsAt[b]
  PROVE  Abstract!Next
<1>1. Chain[b][Height[At]] = At
  BY BranchFacts
<1>2. Abstract!Advance(b)
  BY <1>1 DEF Abstract!Advance
<1> QED
  BY <1>2 DEF Abstract!Next

LEMMA LedgerStep ==
  IInv /\ [Next]_vars => [Abstract!Next]_<<At, coins>>
<1> SUFFICES ASSUME IInv, [Next]_vars
             PROVE  Abstract!Next \/ UNCHANGED <<At, coins>>
  OBVIOUS
<1> USE DEF index, store, window
<1>0. TypeOK /\ LedgerInv /\ UndoInv
  BY DEF IInv
<1>1. UNCHANGED <<coins, setTo>> => UNCHANGED <<At, coins>>
  BY DEF At
<1>2. CASE Drop
  <2>1. At' = Parent[At] /\ coins' = CoinsAt[Parent[At]] /\ At # Genesis
    BY <1>2, DropStep
  <2> QED
    BY <2>1 DEF Abstract!Next, Abstract!Retreat
<1>3. ASSUME NEW b \in Block, Connect(b)
      PROVE  Abstract!Next \/ UNCHANGED <<At, coins>>
  <2>1. CASE coins' = coins /\ setTo' = setTo
    BY <1>1, <2>1
  <2>2. CASE setTo' = b
    <3>1. b # None
      BY Shapes
    <3>2. At' = b
      BY <2>2, <3>1 DEF At
    <3>3. b # Genesis /\ Parent[b] = Reached
      BY <1>3, <3>1 DEF IInv, ReadingFits, Connect
    <3>4. b \in Sound
      BY <1>0, <1>3, <3>3, Absorbed DEF Connect
    <3>5. At \in Branch(b)
      BY <1>0, <3>3, BranchParent DEF LedgerInv, WindowFits
    <3>6. coins' = CoinsAt[b]
      BY <1>3, <3>2, ConnectStep DEF LedgerInv, StoreIsTheLedger
    <3> QED
      BY <1>0, <3>2, <3>4, <3>5, <3>6, FlushAdvances
  <2> QED
    BY <1>3, <2>1, <2>2 DEF Connect
<1>4. CASE End \/ Stop
  <2>1. /\ Reached \in Sound /\ At \in Branch(Reached) /\ At' = Reached
        /\ coins' = CoinsAt[Reached]
    BY <1>4, FinishStep DEF End, Stop
  <2>2. Reached \in Block
    BY <1>0, ReachedTyped
  <2> QED
    BY <1>0, <2>1, <2>2, FlushAdvances
<1>5. CASE Begin \/ Read \/ SweepUndo \/ MarkUndo \/ Lose \/ Fail
        \/ UNCHANGED vars
  BY <1>1, <1>5 DEF Begin, Read, SweepUndo, MarkUndo, Lose, Fail, vars
<1>6. ASSUME NEW b \in Block,
             FetchBody(b) \/ Repoint(b) \/ Rebuilt(b) \/ Refuse(b)
      PROVE  UNCHANGED <<At, coins>>
  BY <1>1, <1>6 DEF FetchBody, Repoint, Rebuilt, Refuse
<1>7. ASSUME NEW to \in Heights, NEW gone \in SUBSET bodies, Prune(to, gone)
      PROVE  UNCHANGED <<At, coins>>
  BY <1>1, <1>7 DEF Prune
<1> QED
  BY <1>2, <1>3, <1>4, <1>5, <1>6, <1>7 DEF Next, Chunk, Fetch, Interfere

(* The Set in the Store implements the ledger: at every write it is the    *)
(* coins of one Block, and it moves only up a sound branch or down by one. *)
THEOREM ImplementsLedger ==
  ASSUME Steady PROVE Spec => LedgerKept
<1>1. Init => Abstract!Init
  <2>1. Init => At = Genesis /\ coins = CoinsAt[Genesis]
    BY SoundShape DEF Init, At, NoCoins
  <2> QED
    BY <2>1 DEF Abstract!Init
<1> QED
  BY <1>1, IInvInit, IInvNext, LedgerStep, PTL
     DEF Spec, LedgerKept, Abstract!Spec

-----------------------------------------------------------------------------
(* No key is made twice on one branch. With a key made again RefusalIsJust *)
(* does not hold: alreadyHeld asks the Store for a coin the Window spent.  *)
MadeOnce ==
  \A b \in Block : \A d \in Branch(b) \ {b} : Made[b] \cap Made[d] = {}

(* A coin of a ledger was made by the Block it names, on the branch.       *)
LEMMA CoinMadeBelow ==
  ASSUME NEW c \in Coin
  PROVE  \A b \in Sound : CoinsAt[b][c] # None =>
           CoinsAt[b][c] \in Branch(b) /\ c \in Made[CoinsAt[b][c]]
<1> DEFINE From(b) == CoinsAt[b][c] # None =>
                        CoinsAt[b][c] \in Branch(b) /\ c \in Made[CoinsAt[b][c]]
           Wrong == {Height[b] : b \in {x \in Sound : ~From(x)}}
<1>1. Wrong \in SUBSET Nat /\ Sound \subseteq Block
  BY TreeShape, CoinShape DEF Heights
<1>2. ASSUME Wrong # {} PROVE FALSE
  <2>1. PICK n \in Wrong : \A m \in Wrong : n <= m
    BY <1>1, <1>2, LeastNat
  <2>2. PICK b \in Sound : ~From(b) /\ n = Height[b]
    BY <2>1
  <2>3. b # Genesis
    BY <2>2, SoundShape
  <2>4. PICK p \in Sound : p = Parent[b]
    BY <1>1, <2>3, SoundShape
  <2>5. From(p)
    <3>1. ASSUME ~From(p) PROVE FALSE
      <4>1. Height[p] \in Wrong
        BY <3>1
      <4>2. Height[b] = Height[p] + 1 /\ Height[p] \in Nat
        BY <1>1, <2>3, <2>4, TreeShape DEF Heights
      <4>3. n <= Height[p]
        BY <2>1, <4>1
      <4> QED
        BY <2>2, <4>2, <4>3
    <3> QED
      BY <3>1
  <2>6. Branch(b) = Branch(p) \cup {b}
    BY <1>1, <2>3, <2>4, BranchParent
  <2>7. CoinsAt[b][c] = IF c \in Spends[b] THEN None
                        ELSE IF c \in Kept[b] THEN b ELSE CoinsAt[p][c]
    BY <1>1, <2>3, <2>4, SoundShape
  <2>8. Kept[b] \subseteq Made[b]
    BY <1>1, CoinShape
  <2>9. From(b)
    BY <2>5, <2>6, <2>7, <2>8
  <2> QED
    BY <2>2, <2>9
<1> QED
  BY <1>2

(* A Block the walk does not take fits no ledger of its own branch.        *)
LEMMA RefusedIsUnsound ==
  ASSUME MadeOnce, IInv, NEW b \in Block, reading = b, ~Accepts(b)
  PROVE  b \notin Sound
<1>1. /\ b # Genesis /\ Parent[b] = Reached /\ Reached \in Sound
      /\ At \in Branch(Reached) /\ At \in Sound /\ coins = CoinsAt[At]
      /\ View = CoinsAt[Parent[b]] /\ None \notin Block
  BY TreeShape DEF IInv, ReadingFits, LedgerInv, StoreIsTheLedger, WindowFits, ViewIsTheLedger
<1> SUFFICES ASSUME b \in Sound PROVE FALSE
  OBVIOUS
<1>2. Fits(b, View)
  BY <1>1, SoundShape
<1>3. b \notin Bad /\ Made[b] \cap Unspent(View) = {} /\ Spends[b] \subseteq Unspent(View)
  BY <1>2 DEF Fits
<1>4. AlreadyHeld(b)
  BY <1>3 DEF Accepts
<1>5. PICK c \in Made[b] : c \in Coin /\ (created[c] # None \/ coins[c] # None)
  BY <1>4 DEF AlreadyHeld, Unspent
<1>6. created[c] = None
  <2>1. View[c] = None
    BY <1>3, <1>5 DEF Unspent
  <2> QED
    BY <1>5, <2>1 DEF View
<1>7. PICK d \in Branch(At) : c \in Made[d]
  BY <1>1, <1>5, <1>6, CoinMadeBelow
<1>8. d \in Branch(b) \ {b}
  <2>1. Reached \in Block /\ At \in Block
    BY <1>1, CoinShape
  <2>2. Branch(At) \subseteq Branch(Reached)
    BY <1>1, <2>1, BranchFacts
  <2>3. Branch(b) = Branch(Reached) \cup {b}
    BY <1>1, BranchParent
  <2>4. b \notin Branch(Reached)
    <3>1. Height[b] = Height[Reached] + 1 /\ Height[Reached] \in Nat
      BY <1>1, <2>1, TreeShape DEF Heights
    <3>2. b \in Branch(Reached) => Height[b] <= Height[Reached]
      BY <2>1, BranchFacts
    <3> QED
      BY <3>1, <3>2
  <2> QED
    BY <1>7, <2>2, <2>3, <2>4
<1> QED
  BY <1>5, <1>7, <1>8 DEF MadeOnce

(* A refusal names a Block that breaks the rules, where h: keeps the branch *)
(* a chunk walks and no branch makes a key twice.                          *)
THEOREM NoUnjustRefusal ==
  ASSUME Steady, MadeOnce PROVE Spec => RefusalIsJust
<1>1. ASSUME IInv, [Next]_vars
      PROVE  [phase = "walking" /\ phase' = "idle" /\ tip' # tip
                => reading \notin Sound]_vars
  <2> SUFFICES ASSUME phase = "walking", phase' = "idle", tip' # tip
               PROVE  reading \notin Sound
    OBVIOUS
  <2>1. PICK b \in Block : Refuse(b)
    BY <1>1 DEF Next, Chunk, Fetch, Interfere, FetchBody, Repoint, Rebuilt, Prune,
         Begin, Drop, Read, Connect, End, Stop, Finish, SweepUndo, MarkUndo, Lose,
         Fail, Finish, index, store, walk, vars
  <2> QED
    BY <1>1, <2>1, RefusedIsUnsound DEF Refuse
<1> QED
  BY <1>1, IInvInit, IInvNext, PTL DEF Spec, RefusalIsJust
==============================================================================
