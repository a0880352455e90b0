-------------------------------- MODULE Relay --------------------------------
(***************************************************************************)
(* The Mempool beside the UTXO Set: infra/follow.av.  Transactions are     *)
(* heard at any moment; a Catch-up meanwhile moves the Set: back to the    *)
(* fork before it downloads, up by chunks between two slices of download   *)
(* (interim), and then by final chunks to the tip it set out for.  Only    *)
(* what the final chunks counted is swept out of the Mempool, and what was *)
(* taken off the Set is offered to it again, in the one call that ends the *)
(* Catch-up.  A Catch-up that fails does neither.                          *)
(*                                                                         *)
(* The Set is the Block it stands on, and moves as Ledger says (SetWalk    *)
(* implements Ledger): `at` is what the Store holds, so a flush moves it.  *)
(***************************************************************************)
EXTENDS BlockTree, Mempool, SequencesExt

CONSTANTS
  TxOf,        \* TxOf[b]: the Transactions of b in order, the coinbase left out
  Maker,       \* Maker[c]: the Transaction that makes c, or b for b's coinbase
  Maturity,    \* Blocks a coinbase waits to be spent (100 in the code)
  UndoWindow,  \* Blocks whose Undo Data is kept (288 in the code)
  MaxMoves     \* bound on the moves of the Index

VARIABLES
  tip,      \* the Block h: follows
  at,       \* the Block the Set stands on, in the Store
  pool,     \* the Mempool
  phase,    \* "rest", "fetch", "interim", "final", "between" or "moved"
  goal,     \* catching.tipHeight: the Height this Catch-up set out for
  aligned,  \* what the realignment before the download took off, in order
  built,    \* what the chunks counted: blocks, dropped, carried
  owed,     \* Outputs that left the Set with nobody counting (no code state)
  counted,  \* Outputs that left it in this Catch-up's final chunks (the same)
  left,     \* Transactions a restore is due for (the same)
  moves     \* moves of the Index so far

index == <<tip, moves>>
walk == <<phase, goal, aligned, built>>
ghosts == <<owed, counted, left>>
vars == <<index, at, pool, walk, ghosts>>

(* A Transaction spends something, and a Block may spend an Output of its   *)
(* branch only once: nothing is in two Blocks of one branch.                *)
ASSUME RelayShape ==
  /\ TxOf \in [Block -> Seq(Tx)]
  /\ Maker \in [Coin -> Tx \cup Block]
  /\ Tx \cap Block = {}
  /\ \A b \in Block : \A a, c \in Branch(b) :
       a # c => ToSet(TxOf[a]) \cap ToSet(TxOf[c]) = {}
  /\ Maturity \in Nat /\ UndoWindow \in Nat /\ MaxMoves \in Nat

Nothing == [blocks |-> 0, dropped |-> 0, carried |-> <<>>]
Phases == {"rest", "fetch", "interim", "final", "between", "moved"}
InChunk == phase \in {"interim", "final"}

(* The coins of a Block: made on its branch and spent by no Transaction of *)
(* it.  SpentBy: what its Undo Data holds, the coins made below it.         *)
TxsIn == [b \in Block |-> UNION {ToSet(TxOf[a]) : a \in Branch(b)}]
SpentIn == [b \in Block |-> UNION {Inputs[t] : t \in TxsIn[b]}]
Unspent == [b \in Block |->
             {c \in Coin : Maker[c] \in TxsIn[b] \cup Branch(b)} \ SpentIn[b]]
SpentBy == [b \in Block |->
             (UNION {Inputs[t] : t \in ToSet(TxOf[b])})
               \ {c \in Coin : Maker[c] \in ToSet(TxOf[b])}]

TypeOK ==
  /\ tip \in Block /\ at \in Block
  /\ pool \in Pools
  /\ phase \in Phases
  /\ goal \in Heights
  /\ aligned \in Seq(Tx)
  /\ built \in [blocks : Nat, dropped : Nat, carried : Seq(Tx)]
  /\ owed \subseteq Coin /\ counted \subseteq Coin /\ left \subseteq Tx
  /\ moves \in 0 .. MaxMoves

Init ==
  /\ tip = Genesis /\ at = Genesis
  /\ pool = Empty
  /\ phase = "rest" /\ goal = 0
  /\ aligned = <<>> /\ built = Nothing
  /\ owed = {} /\ counted = {} /\ left = {}
  /\ moves = 0

(* branchOf: the highest Block of the Set's branch that h: names.           *)
Fork == CHOOSE b \in Branch(at) \cap Branch(tip) :
          \A a \in Branch(at) \cap Branch(tip) : Height[a] <= Height[b]
Within == Height[at] - Height[Fork] <= UndoWindow

(* removingOne with restorable: the Transactions of the Blocks above b, the *)
(* lowest Block's first.                                                    *)
CarriedOff(b) ==
  FlattenSeq([n \in 1 .. Height[at] - Height[b] |->
                TxOf[Chain[at][Height[b] + n]]])

LostBy(b) == Unspent[at] \ Unspent[b]

(* decoded with matured: what of the Set the Block after Height n may spend, *)
(* for which a coinbase must have waited.                                    *)
Spendable(n) ==
  {c \in Unspent[at] :
     Maker[c] \in Block => n + 1 - Height[Maker[c]] >= Maturity}

(************************* what is heard at any moment ***********************)
(* onTransaction: admission, against the Set in the Store, for the Block    *)
(* after the tip of h:.                                                     *)
Hear(t) ==
  /\ pool' = Offered(pool, t, Spendable(Height[tip]))
  /\ UNCHANGED <<index, at, walk, ghosts>>

(* The headers phase, a mark or a compact Block moves h:.  Beside a chunk   *)
(* only onto the branch it walks: set_walk_turned shows what the other      *)
(* branch does to the Set.                                                  *)
Moves(b) ==
  /\ b # tip
  /\ InChunk => tip \in Branch(b)
  /\ moves < MaxMoves /\ moves' = moves + 1
  /\ tip' = b

(******************************** the Catch-up *******************************)
(* alignedFor, fetchPlanned: back to the fork, and the goal fixed.  What    *)
(* comes off is carried; how many Blocks came off is not kept.              *)
Align ==
  /\ phase = "rest"
  /\ Within
  /\ at' = Fork
  /\ aligned' = CarriedOff(Fork)
  /\ built' = Nothing
  /\ goal' = Height[tip]
  /\ phase' = "fetch"
  /\ owed' = owed \cup LostBy(Fork)
  /\ left' = ToSet(CarriedOff(Fork))
  /\ UNCHANGED <<index, pool, counted>>

(* chunkBegun of a chunk between two slices: it counts afresh, and what it  *)
(* counts is dropped when it ends (builtIf).                                *)
BeginInterim ==
  /\ phase = "fetch"
  /\ Within
  /\ at' = Fork
  /\ built' = [blocks |-> 0, dropped |-> Height[at] - Height[Fork],
               carried |-> CarriedOff(Fork)]
  /\ phase' = "interim"
  /\ owed' = owed \cup LostBy(Fork)
  /\ UNCHANGED <<index, pool, goal, aligned, counted, left>>

(* chunkBegun of the final Set (finalFrom, carriedIf, continuing): a first  *)
(* one counts from nothing, a later one from where the last left off.       *)
BeginFinal ==
  /\ phase \in {"fetch", "between"}
  /\ Within
  /\ at' = Fork
  /\ built' = [blocks |-> built.blocks,
               dropped |-> built.dropped + Height[at] - Height[Fork],
               carried |-> built.carried \o CarriedOff(Fork)]
  /\ phase' = "final"
  /\ counted' = counted \cup LostBy(Fork)
  /\ left' = left \cup ToSet(CarriedOff(Fork))
  /\ UNCHANGED <<index, pool, goal, aligned, owed>>

(* A flush of the chunk: the Set moves up to a Block of h:, at most to the  *)
(* Height the Catch-up set out for.                                         *)
Flush(b) ==
  /\ InChunk
  /\ b \in Branch(tip) \ {at}
  /\ at \in Branch(b)
  /\ Height[b] <= goal
  /\ at' = b
  /\ built' = [built EXCEPT !.blocks = @ + Height[b] - Height[at]]
  /\ IF phase = "final"
       THEN counted' = counted \cup LostBy(b) /\ UNCHANGED owed
       ELSE owed' = owed \cup LostBy(b) /\ UNCHANGED counted
  /\ UNCHANGED <<index, pool, phase, goal, aligned, left>>

(* builtWith: a chunk between slices leaves no count; a final one ends the  *)
(* Set at the goal, or short of it when it stopped early.                   *)
EndChunk ==
  /\ InChunk
  /\ \/ /\ phase = "interim"
        /\ phase' = "fetch"
        /\ built' = Nothing
     \/ /\ phase = "final"
        /\ phase' \in {"moved"} \cup (IF Height[at] < goal THEN {"between"} ELSE {})
        /\ UNCHANGED built
  /\ UNCHANGED <<index, at, pool, goal, aligned, ghosts>>

(* What a Catch-up leaves when it ends, other than through Finish.          *)
Abandoned ==
  /\ phase' = "rest" /\ goal' = 0
  /\ aligned' = <<>> /\ built' = Nothing
  /\ counted' = {} /\ left' = {}

(* A realignment that fails after some of its Blocks leaves the Set there.  *)
Torn(b) ==
  /\ b \in Branch(at) /\ Height[b] >= Height[Fork]
  /\ at' = b

(* goesOn: a chunk between two slices that is refused, here before it       *)
(* connects anything, is not the end; the download goes on.                 *)
RefuseInterim(b) ==
  /\ phase = "fetch"
  /\ Torn(b) /\ b # at
  /\ owed' = owed \cup LostBy(b)
  /\ UNCHANGED <<index, pool, walk, counted, left>>

(* Stopped, Invalid or Faulted: a realignment fails, a final chunk loses    *)
(* its Window, a Peer is at fault.  Nothing is swept and nothing offered.   *)
Fail(b) ==
  /\ phase \notin {"interim", "moved"}
  /\ Torn(b)
  /\ phase = "final" => b = at
  /\ phase = "rest" => b # at
  /\ owed' = owed \cup counted \cup LostBy(b)
  /\ Abandoned
  /\ UNCHANGED <<index, pool>>

(* The process dies and starts again: the Mempool was memory, and so was    *)
(* the Catch-up.                                                            *)
Restart ==
  /\ pool' = Empty
  /\ owed' = {}
  /\ Abandoned
  /\ UNCHANGED <<index, at>>

(********************************* its end ***********************************)
(* Slip: the lowest Block connected is not asked.                           *)
SweptHeights_OffByOne == Height[at] - built.blocks + 2 .. Height[at]

(* sweptByBlocks: the Heights asked, upTo - connected + 1 .. upTo.          *)
SweptHeights == Height[at] - built.blocks + 1 .. Height[at]

(* Undo Data is held for the Blocks of the Set's branch in the Undo window. *)
UndoHeld(n) ==
  /\ n <= Height[tip]
  /\ Chain[tip][n] \in Branch(at)
  /\ n > Height[at] - UndoWindow

(* sweptByWhatMoved: nothing was taken off, and every Block connected can   *)
(* be asked for its Undo Data by the Height h: names it at.                 *)
AskTheBlocks == built.dropped = 0 /\ \A n \in SweptHeights : UndoHeld(n)

(* sweptOf: the Mempool after the Set moved under it.                       *)
Swept(p) ==
  IF built.blocks + built.dropped = 0 \/ p.held = {} THEN p
  ELSE IF AskTheBlocks
  THEN Confirmed(p,
         TakenBy(p, UNION {SpentBy[Chain[tip][n]] : n \in SweptHeights}))
  ELSE Confirmed(p, Unbacked(p, Unspent[at]))

(* restoring: what came off is offered, through ordinary admission, for the *)
(* Block after the Height the Catch-up set out for.                         *)
Restored(p) ==
  FoldLeft(LAMBDA q, t : Offered(q, t, Spendable(goal)), p,
           aligned \o built.carried)

(* Slip: offered back before the sweep has freed what they spend.           *)
Settlement_SweptLast == Swept(Restored(pool))

(* finishedWith: swept first, then offered.                                 *)
Settlement == Restored(Swept(pool))

(* caughtMoved, finishedWith.                                               *)
Finish ==
  /\ phase = "moved"
  /\ pool' = Settlement
  /\ owed' = IF built.blocks + built.dropped > 0 /\ ~AskTheBlocks
             THEN {} ELSE owed \ counted
  /\ Abandoned
  /\ UNCHANGED <<index, at>>

(* The steps of the Mempool and the Catch-up; the Index moves, and the      *)
(* process dies, in Rebuild.                                                *)
RelayNext ==
  \/ \E t \in Tx : Hear(t)
  \/ \E b \in Block : Flush(b) \/ RefuseInterim(b) \/ Fail(b)
  \/ Align \/ BeginInterim \/ BeginFinal \/ EndChunk \/ Finish

(******************************** properties *********************************)
(* A held Transaction misses an Output of the Set only when that Output     *)
(* left in a move the sweep is never told of (the realignment before a      *)
(* download, a chunk between slices, a Catch-up that failed) or in one of   *)
(* the final chunks still to be swept: asking the Undo Data of the Blocks   *)
(* is as good as asking the Set about everything held (follow.av,           *)
(* sweptByWhatMoved).                                                       *)
GoneIsOwed ==
  \A t \in pool.held : Inputs[t] \ Unspent[at] \subseteq owed \cup counted

(* Whatever is heard, moved, swept, given back or put out for room, the     *)
(* claims index what is held, so no Output stays locked by who has left,    *)
(* and the bytes counted are its size and fit (domain/mempool.av).          *)
PoolIsTrue == Indexed(pool) /\ Weighed(pool) /\ Fits(pool)

(* A Block confirms what it contains out of the Mempool: when a Catch-up    *)
(* has moved the Set, nothing held is in the branch the Set stands on       *)
(* (README.md, The Mempool, and relay).  It does not hold: the Transactions *)
(* of interim chunks are not looked at.                                     *)
ConfirmedLeave == [][Finish => pool'.held \cap TxsIn[at] = {}]_vars

(* What a Catch-up took off the Set, other than between two slices, and the *)
(* new branch has not confirmed, is held when the Catch-up ends, unless the *)
(* Set no longer backs it or backs it with a coinbase that the goal is too  *)
(* low for (a heavier branch may be shorter), somebody held claims an       *)
(* Output of it, or room was short: sweeping comes first, so a stale claim  *)
(* never keeps it out.                                                      *)
BackOrUnfit ==
  [][Finish =>
       \A t \in (left \cap Standard) \ TxsIn[at] :
         \/ t \in pool'.held
         \/ ~(Inputs[t] \subseteq Spendable(goal))
         \/ Conflicts(pool', t)
         \/ SizeOf(pool.held \cup left) > Cap]_vars

(* Who leaves to make room pays no more than anybody who stays, the         *)
(* newcomer included (evicted, heldOrRefused).                              *)
EvictedPayLeast ==
  [][(\E t \in Tx : Hear(t)) =>
       \A t \in pool.held \ pool'.held, u \in pool'.held : Rate[t] <= Rate[u]]_vars
==============================================================================
