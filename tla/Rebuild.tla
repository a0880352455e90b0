------------------------------- MODULE Rebuild -------------------------------
(***************************************************************************)
(* A Block announced at the tip, rebuilt from the Mempool: the compact     *)
(* Blocks of infra/follow.av and domain/compactblock.av, beside Relay.     *)
(* One Block is rebuilt at a time.  Its compact form names Transactions by *)
(* short ids; what is not held is asked for, and the Mempool goes on       *)
(* moving until the answer comes.  Whatever goes wrong, and silence for    *)
(* too long, falls back to a Catch-up that fetches the Block whole.        *)
(***************************************************************************)
EXTENDS Relay

CONSTANTS
  ShortId,   \* ShortId[t]: the six bytes a compact Block names t by
  Compacts,  \* compact Blocks Peers may send: [block, body, prefilled], honest
             \* when body is TxOf[block]
  Answers,   \* what a blocktxn may carry: sequences of Transactions
  Deadline   \* clock ticks a rebuild is waited for (ten seconds in the code)

VARIABLES
  rebuilding,  \* the Block being rebuilt, or None
  compact,     \* its compact form, once heard, or None
  asked,       \* the positions asked for; held, and read by nobody
  age,         \* ticks since it was announced
  placed,      \* the Blocks whose Headers the tree holds
  filed        \* what was put in a Segment: Blocks with their Transactions

pending == <<rebuilding, compact, asked, age>>
rebuildVars == <<pending, placed, filed>>
allVars == <<vars, rebuildVars>>

ASSUME CompactShape ==
  /\ ShortId \in [Tx -> Nat]
  /\ Deadline \in Nat
  /\ \A m \in Compacts :
       /\ m.block \in Block /\ m.body \in Seq(Tx)
       /\ m.prefilled \subseteq DOMAIN m.body

RebuildTypeOK ==
  /\ rebuilding \in Block \cup {None}
  /\ compact \in Compacts \cup {None}
  /\ asked \in Seq(Nat)
  /\ age \in 0 .. Deadline + 1
  /\ placed \subseteq Block
  /\ filed \subseteq Block \X Seq(Tx)
  /\ rebuilding = None => compact = None /\ asked = <<>> /\ age = 0

RebuildInit ==
  /\ Init
  /\ rebuilding = None /\ compact = None /\ asked = <<>> /\ age = 0
  /\ placed = {Genesis}
  /\ filed = {}

GivenUp == rebuilding' = None /\ compact' = None /\ asked' = <<>> /\ age' = 0

(* holdingsFor: the held Transactions a short id names.                     *)
HeldAs(id) == {t \in pool.held : ShortId[t] = id}

(* wantedFrom: the positions neither sent along nor held, in order.         *)
Holes(m) ==
  LET missing == {i \in DOMAIN m.body \ m.prefilled : HeldAs(ShortId[m.body[i]]) = {}}
  IN SetToSortSeq(missing, LAMBDA i, j : i < j)

(* assembled: each position from the compact Block itself, from a held      *)
(* Transaction of its short id, or the next one of the answer.              *)
HoleAt(holes, i) == CHOOSE k \in DOMAIN holes : holes[k] = i
Assembled(m, supplied) ==
  LET holes == Holes(m)
      at_(i) == IF i \in m.prefilled THEN {m.body[i]}
                ELSE IF HeldAs(ShortId[m.body[i]]) # {}
                THEN HeldAs(ShortId[m.body[i]])
                ELSE {supplied[HoleAt(holes, i)]}
  IN IF Len(holes) > Len(supplied) THEN {}
     ELSE {s \in [DOMAIN m.body -> Tx] : \A i \in DOMAIN m.body : s[i] \in at_(i)}

(* rootChecked, and Domain.Body.fault again in compactStore: the Merkle     *)
(* Root commits to the Transactions and their order.                        *)
Rebuilt(m, supplied) == {s \in Assembled(m, supplied) : s = TxOf[m.block]}

(* completed, storing with compactStore, putAway: the Block waited for, its *)
(* Header absorbed, which its parent must be placed for, and its body filed.*)
(* h: moves to it when it is heavier, or is as heavy and comes first.       *)
Store(m, supplied) ==
  /\ m.block = rebuilding
  /\ Parent[m.block] \in placed
  /\ \E s \in Rebuilt(m, supplied) : filed' = filed \cup {<<m.block, s>>}
  /\ placed' = placed \cup {m.block}
  /\ \/ Work[m.block] >= Work[tip] /\ Moves(m.block)
     \/ Work[m.block] <= Work[tip] /\ UNCHANGED index
  /\ GivenUp

(* fellBack: the rebuild is given up, whosever Message it was.             *)
FallBack == GivenUp /\ UNCHANGED <<placed, filed, index>>

Complete(m, supplied) ==
  /\ \/ Store(m, supplied)
     \/ /\ \/ m.block # rebuilding
           \/ Parent[m.block] \notin placed
           \/ Assembled(m, supplied) \ Rebuilt(m, supplied) # {}
           \/ Assembled(m, supplied) = {}
        /\ FallBack
  /\ UNCHANGED <<at, pool, walk, ghosts>>

(* onFreshBlocks: one rebuild at a time, and only of a Block the tree has   *)
(* not placed; its compact form is asked for.                               *)
Announced(b) ==
  /\ b \in {m.block : m \in Compacts} \ placed
  /\ rebuilding = None
  /\ rebuilding' = b
  /\ UNCHANGED <<vars, compact, asked, age, placed, filed>>

(* Slip: a compact Block that leaves holes starts the wait anew.            *)
HearCompact_Anew(m) ==
  IF Holes(m) = <<>> THEN Complete(m, <<>>)
  ELSE /\ rebuilding # None
       /\ compact' = m /\ asked' = Holes(m)
       /\ age' = 0
       /\ UNCHANGED <<vars, rebuilding, placed, filed>>

(* onCompact, filling: nothing missing completes it; something missing is   *)
(* asked for, and the compact form kept if anything is being rebuilt.       *)
HearCompact(m) ==
  IF Holes(m) = <<>> THEN Complete(m, <<>>)
  ELSE /\ rebuilding # None
       /\ compact' = m /\ asked' = Holes(m)
       /\ UNCHANGED <<vars, rebuilding, age, placed, filed>>

(* onBlockTxn, withPending: the answer, from whoever sends it.              *)
HearAnswer(supplied) ==
  /\ compact # None
  /\ Complete(compact, supplied)

(* A Message of these that would not decode.                                *)
HearGarbage ==
  /\ rebuilding # None
  /\ FallBack
  /\ UNCHANGED <<at, pool, walk, ghosts>>

(* The headers phase places Headers and moves h: to the heaviest.           *)
HearHeaders(b) ==
  /\ ~InChunk
  /\ Moves(b)
  /\ placed' = placed \cup Branch(b)
  /\ UNCHANGED <<at, pool, walk, ghosts, pending, filed>>

Tick ==
  /\ rebuilding # None
  /\ age <= Deadline
  /\ age' = age + 1
  /\ UNCHANGED <<vars, rebuilding, compact, asked, placed, filed>>

(* rebuiltOr, staleRebuild: a turn of the loop finds the wait too long.     *)
Overdue ==
  /\ age > Deadline
  /\ FallBack
  /\ UNCHANGED <<at, pool, walk, ghosts>>

(* A death loses the rebuild with the Mempool.                              *)
Die == Restart /\ GivenUp /\ UNCHANGED <<placed, filed>>

Next ==
  \/ RelayNext /\ UNCHANGED rebuildVars
  \/ Die
  \/ \E b \in Block : Announced(b) \/ HearHeaders(b)
  \/ \E m \in Compacts : HearCompact(m)
  \/ \E s \in Answers : HearAnswer(s)
  \/ HearGarbage \/ Tick \/ Overdue

Spec == RebuildInit /\ [][Next]_allVars
Fairness == WF_allVars(Tick) /\ WF_allVars(Overdue)
FairSpec == Spec /\ Fairness

(******************************** properties *********************************)
(* A rebuild ends, put away or given up, however often compact Blocks are   *)
(* sent again and whoever goes silent (follow.av, rebuiltOr).               *)
RebuildEnds == rebuilding # None ~> rebuilding = None

(* An answer in the order it was asked for completes an honest rebuild      *)
(* (compactblock.av, fromSupplied).  It does not hold: the holes are found  *)
(* again in what the Mempool holds when the answer comes.                   *)
AnswerLands ==
  [][\A s \in Answers :
       /\ HearAnswer(s)
       /\ compact.body = TxOf[rebuilding] /\ compact.block = rebuilding
       /\ Parent[rebuilding] \in placed
       /\ s = [i \in DOMAIN asked |-> compact.body[asked[i]]]
       => rebuilding \in placed']_allVars
==============================================================================
