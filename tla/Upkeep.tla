-------------------------------- MODULE Upkeep --------------------------------
(***************************************************************************)
(* What the runs that take turns in a chain directory do to the bodies in  *)
(* it: the node that follows and downloads, pruning (infra/prune.av,       *)
(* blocks.av prune) and reindexing (infra/reindex.av, app/maintain.av).    *)
(* Every step is one call on the disk or the Store, and any run may end    *)
(* between two of them.  That one writes at a time is OneWriter, which     *)
(* Claim implements.                                                       *)
(*                                                                         *)
(* A body is in the Segments it was appended to; a Location names one.  A  *)
(* Set never connected past Genesis is one never built.                    *)
(***************************************************************************)
EXTENDS BlockTree, FiniteSets, OneWriter

CONSTANTS
  Below,       \* Heights a prune may be asked for
  UndoWindow,  \* Blocks whose Undo Data is kept (288 in the code)
  MaxSegment,  \* bound on Segments
  MaxMoves     \* bound on the moves of the Index

VARIABLES
  stage,    \* what the writer does next
  where,    \* where[b]: the Segments b's body was appended to
  location, \* b: the Segment named for b, or None
  gone,     \* the Segments deleted
  top,      \* the Segment being appended to
  below,    \* the Prune Watermark
  tip, at,  \* the Block h: follows; the Block the Set stands on
  high,     \* the greatest Height the Set reached
  moves,    \* moves of the Index so far
  cut,      \* a prune's Watermark, floor and next Segment
  todo      \* the Segments a reindex has yet to walk

turn == <<writer, stage>>
bodies == <<where, location, gone, top>>
chain == <<tip, at, high, moves>>
vars == <<turn, bodies, below, chain, cut, todo>>

Segment == 0 .. MaxSegment
Stages == {"idle", "open", "deleting", "locations", "marking", "walking", "over"}
NoCut == [mark |-> 0, floor |-> 0, next |-> 0]

ASSUME UpkeepShape ==
  /\ Run = {"follow", "prune", "reindex"} /\ Nobody \notin Run
  /\ Below \subseteq Heights
  /\ UndoWindow \in Nat \ {0} /\ MaxSegment \in Nat /\ MaxMoves \in Nat

TypeOK ==
  /\ writer \in Run \cup {Nobody} /\ stage \in Stages
  /\ where \in [Block -> SUBSET Segment]
  /\ location \in [Block -> Segment \cup {None}]
  /\ gone \subseteq Segment /\ top \in Segment
  /\ below \in Heights
  /\ tip \in Block /\ at \in Block
  /\ high \in Heights /\ moves \in 0 .. MaxMoves
  /\ cut \in [mark : Heights, floor : Segment, next : Segment]
  /\ todo \subseteq Segment

Init ==
  /\ OneInit /\ stage = "idle"
  /\ where = [b \in Block |-> IF b = Genesis THEN {0} ELSE {}]
  /\ location = [b \in Block |-> IF b = Genesis THEN 0 ELSE None]
  /\ gone = {} /\ top = 0
  /\ below = 0
  /\ tip = Genesis /\ at = Genesis /\ high = 0 /\ moves = 0
  /\ cut = NoCut /\ todo = {}

(******************************** the turns **********************************)
Opens(r) ==
  /\ Begin(r) /\ stage' = "open"
  /\ UNCHANGED <<bodies, below, chain, cut, todo>>

(* A node stops or dies anywhere; a prune or a reindex ends when it is      *)
(* through, on an error of any call, or by dying at any of them.            *)
Ends(r) ==
  /\ End(r) /\ stage' = "idle"
  /\ cut' = NoCut /\ todo' = {}
  /\ UNCHANGED <<bodies, below, chain>>

At(r, here) == writer = r /\ stage = here
Goes(here, there) == stage = here /\ stage' = there /\ UNCHANGED writer

(******************************* following ***********************************)
Following == At("follow", "open")
WindowFrom(n) == IF n < UndoWindow THEN 0 ELSE n - UndoWindow + 1
OnIndex(b) == Chain[tip][Height[b]] = b
Held(b) == location[b] # None /\ location[b] \notin gone

(* The headers phase moves h: to a branch with more work.                   *)
Repoint(b) ==
  /\ Following
  /\ Work[b] > Work[tip]
  /\ moves < MaxMoves /\ moves' = moves + 1
  /\ tip' = b
  /\ UNCHANGED <<turn, bodies, below, at, high, cut, todo>>

(* A body of h: without a Location is fetched and appended, to the Segment  *)
(* in hand or, when that is full, to the next; its Location is put after.   *)
(* A node that dies between leaves a body nothing names.                    *)
Fetch(b) ==
  /\ Following
  /\ b \in Branch(tip) /\ Height[b] > Height[at] /\ location[b] = None
  /\ \E s \in {top, top + 1} \cap Segment :
       /\ where' = [where EXCEPT ![b] = @ \cup {s}]
       /\ top' = s
       /\ \/ location' = [location EXCEPT ![b] = s] /\ UNCHANGED turn
          \/ End("follow") /\ stage' = "idle" /\ UNCHANGED location
  /\ UNCHANGED <<gone, below, chain, cut, todo>>

(* The Set forward by a Block h: names, or back by one it does not.         *)
Connect(b) ==
  /\ Following
  /\ OnIndex(at)
  /\ b \in Branch(tip) \ {at} /\ Parent[b] = at /\ Held(b)
  /\ at' = b
  /\ high' = IF Height[b] > high THEN Height[b] ELSE high
  /\ UNCHANGED <<turn, bodies, below, tip, moves, cut, todo>>

Disconnect ==
  /\ Following
  /\ ~OnIndex(at)
  /\ Height[at] >= WindowFrom(high)
  /\ Held(at)
  /\ at' = Parent[at]
  /\ UNCHANGED <<turn, bodies, below, tip, high, moves, cut, todo>>

(******************************** pruning ************************************)
(* Slip: the Heights above the Watermark only.                              *)
Survivors_Above(mark) ==
  {top} \cup {location[b] : b \in {c \in Branch(tip) :
                                     Height[c] > mark /\ location[c] # None}}

(* The Segments a Block h: names at or above the Watermark is located in,   *)
(* and the Segment in hand.                                                 *)
Survivors(mark) ==
  {top} \cup {location[b] : b \in {c \in Branch(tip) :
                                     Height[c] >= mark /\ location[c] # None}}

(* lowestAtOrAbove.                                                         *)
IsFloor(s, mark) == s \in Survivors(mark) /\ \A t \in Survivors(mark) : s <= t

(* prunable: a Set never built has no standing, and protects nothing.       *)
Prunable(n) == high = 0 \/ n <= WindowFrom(Height[at])

(* run, up to the first delete: refused, or the Watermark and floor fixed.  *)
BeginPrune(n) ==
  /\ writer = "prune"
  /\ LET mark == IF n > below THEN n ELSE below IN
       IF Prunable(n)
       THEN /\ Goes("open", "deleting")
            /\ \E s \in Segment :
                 IsFloor(s, mark) /\ cut' = [mark |-> mark, floor |-> s, next |-> 0]
       ELSE Goes("open", "over") /\ UNCHANGED cut
  /\ UNCHANGED <<bodies, below, chain, todo>>

(* pruneFrom: a Segment deleted; at the floor, on to the Locations.         *)
DeleteSegment ==
  /\ stage = "deleting" /\ cut.next < cut.floor
  /\ gone' = gone \cup {cut.next}
  /\ cut' = [cut EXCEPT !.next = @ + 1]
  /\ UNCHANGED <<turn, where, location, top, below, chain, todo>>

Deleted ==
  /\ cut.next = cut.floor /\ Goes("deleting", "locations")
  /\ UNCHANGED <<bodies, below, chain, cut, todo>>

(* Slip: the Segment just beneath the floor is taken for one that is left.  *)
DropLocations_OneLess ==
  /\ Goes("locations", "marking")
  /\ location' = [b \in Block |->
       IF /\ OnIndex(b) /\ Height[b] < cut.mark
          /\ location[b] # None /\ location[b] < cut.floor - 1
       THEN None ELSE location[b]]
  /\ UNCHANGED <<where, gone, top, below, chain, cut, todo>>

(* locationsBelow, deleteAll: the Locations of h: below the Watermark, in   *)
(* Segments below the floor, in one write.                                  *)
DropLocations ==
  /\ Goes("locations", "marking")
  /\ location' = [b \in Block |->
       IF /\ OnIndex(b) /\ Height[b] < cut.mark
          /\ location[b] # None /\ location[b] < cut.floor
       THEN None ELSE location[b]]
  /\ UNCHANGED <<where, gone, top, below, chain, cut, todo>>

Mark ==
  /\ Goes("marking", "over")
  /\ below' = cut.mark
  /\ UNCHANGED <<bodies, chain, cut, todo>>

(******************************* reindexing **********************************)
(* Slip: the Segment in hand is left out.                                   *)
OnDisk_NotTheLast == (0 .. top - 1) \ gone

(* segmentsIn: the Segments on disk.                                        *)
OnDisk == (0 .. top) \ gone

(* run: the Segments listed, once.                                          *)
BeginReindex ==
  /\ writer = "reindex"
  /\ Goes("open", "walking")
  /\ todo' = OnDisk
  /\ UNCHANGED <<bodies, below, chain, cut>>

(* nextSegment: one Segment's bodies located in one write.  No Location is  *)
(* ever taken away.                                                         *)
ReindexSegment(s) ==
  /\ stage = "walking" /\ s \in todo
  /\ todo' = todo \ {s}
  /\ location' = [b \in Block |-> IF s \in where[b] THEN s ELSE location[b]]
  /\ UNCHANGED <<turn, where, gone, top, below, chain, cut>>

EndReindex ==
  /\ todo = {} /\ Goes("walking", "over")
  /\ UNCHANGED <<bodies, below, chain, cut, todo>>

Next ==
  \/ \E r \in Run : Opens(r) \/ Ends(r)
  \/ \E b \in Block : Repoint(b) \/ Fetch(b) \/ Connect(b)
  \/ Disconnect
  \/ (\E n \in Below : BeginPrune(n)) \/ DeleteSegment \/ Deleted
  \/ DropLocations \/ Mark
  \/ BeginReindex \/ (\E s \in todo : ReindexSegment(s)) \/ EndReindex

Spec == Init /\ [][Next]_vars

(***************************** what is promised ******************************)
(* prune.av: the Segments beneath the floor hold only Blocks below the      *)
(* Watermark: no call of a prune takes a body h: names at or above it, nor  *)
(* the Location that finds it, whatever prunes died before this one.        *)
PruneKeepsAbove ==
  [][writer = "prune" =>
       \A b \in Branch(tip) : (Height[b] >= cut.mark /\ Held(b)) => Held(b)']_vars

(* prune.av: the whole thing is safe to run again: when a prune is through, *)
(* no Location of h: names a Segment that is gone, whatever prunes died     *)
(* before this one and whatever branch h: followed then, so long as none at *)
(* or above its Watermark did.  A Watermark below one a died prune had, or  *)
(* an h: turned to a branch that prune took bodies of, leaves such a one.   *)
NoneDangles(n) ==
  \A b \in Branch(tip) : (Height[b] >= n /\ location[b] # None) => Held(b)
PruneTidies ==
  (At("prune", "over") /\ NoneDangles(cut.mark)) => NoneDangles(0)

(* reindex.av: once a reindex is through, every body still in a Segment is  *)
(* named by a Location that holds it, whatever was lost before.             *)
ReindexFinds ==
  \A b \in Block :
    (At("reindex", "over") /\ where[b] \ gone # {})
      => location[b] \in where[b] \ gone

(* disconnect.av:295-300, pruning is refused between the bottom of the Undo *)
(* window and the Set, "a body no walk wants but a Reorganisation would":   *)
(* the Set keeps the bodies of the Blocks it would walk back over.  It does *)
(* not hold while the Set stands on a branch h: has left.                   *)
WalkBackStays ==
  \A b \in Branch(at) :
    (b # Genesis /\ Height[b] >= WindowFrom(high)) => Held(b)
==============================================================================
