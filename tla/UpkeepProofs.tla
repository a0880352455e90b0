---------------------------- MODULE UpkeepProofs ----------------------------
(***************************************************************************)
(* What pruning keeps for any tree, any Segments and any Heights asked     *)
(* for: no call of a prune takes a body h: names at or above its           *)
(* Watermark, and one that is through leaves no Location that dangles; and *)
(* a reindex finds every body.  At the end, what the claim on the          *)
(* directory keeps for any runs: unless two ask in the same instant, those *)
(* that write take turns.                                                  *)
(***************************************************************************)
EXTENDS Upkeep, Claim, BlockTreeProofs

(* A prune's floor is fixed before its first delete and holds only while    *)
(* nobody else writes: the stage says who does, and every Location at or    *)
(* above the Watermark stays at or above the floor.                         *)
Pruning == {"deleting", "locations", "marking"}
StagesOwned ==
  /\ stage \in Pruning => writer = "prune"
  /\ stage = "walking" => writer = "reindex"
FloorHolds ==
  stage \in Pruning =>
    /\ cut.next <= cut.floor
    /\ \A b \in Branch(tip) :
         (Height[b] >= cut.mark /\ location[b] # None) => cut.floor <= location[b]
IInv == TypeOK /\ StagesOwned /\ FloorHolds

LEMMA InitHolds == Init => IInv
<1> SUFFICES ASSUME Init PROVE IInv
  OBVIOUS
<1>1. 0 \in Segment /\ 0 \in Heights /\ 0 \in 0 .. MaxMoves
  BY UpkeepShape, TreeShape DEF Segment, Heights
<1>2. TypeOK
  BY <1>1, TreeShape DEF Init, OneInit, Free, TypeOK, NoCut, Stages
<1> QED
  BY <1>2 DEF Init, IInv, StagesOwned, FloorHolds, Pruning

(****************************** the type invariant **************************)
LEMMA TurnsTyped ==
  ASSUME TypeOK, NEW r \in Run, Opens(r) \/ Ends(r)
  PROVE  TypeOK'
<1>1. NoCut \in [mark : Heights, floor : Segment, next : Segment]
  BY UpkeepShape, TreeShape DEF NoCut, Segment, Heights
<1> QED
  BY <1>1 DEF TypeOK, Opens, Ends, Begin, End, Stages, bodies, chain

LEMMA FollowTyped ==
  ASSUME TypeOK, NEW b \in Block, Repoint(b) \/ Fetch(b) \/ Connect(b) \/ Disconnect
  PROVE  TypeOK'
<1> USE DEF TypeOK, turn, bodies, chain, Stages
<1>1. CASE Repoint(b)
  BY <1>1, UpkeepShape DEF Repoint
<1>2. CASE Fetch(b)
  BY <1>2 DEF Fetch, End
<1>3. CASE Connect(b)
  BY <1>3, TreeShape DEF Connect
<1>4. CASE Disconnect
  BY <1>4, TreeShape DEF Disconnect
<1> QED
  BY <1>1, <1>2, <1>3, <1>4

LEMMA PruneTyped ==
  ASSUME TypeOK, FloorHolds,
         (\E n \in Below : BeginPrune(n)) \/ DeleteSegment \/ Deleted
         \/ DropLocations \/ Mark
  PROVE  TypeOK'
<1> USE DEF TypeOK, turn, bodies, chain, Stages, Goes
<1>1. CASE \E n \in Below : BeginPrune(n)
  <2>1. PICK n \in Below : BeginPrune(n)
    BY <1>1
  <2>2. (IF n > below THEN n ELSE below) \in Heights
    BY UpkeepShape
  <2>3. 0 \in Segment
    BY UpkeepShape DEF Segment
  <2>4. cut' \in [mark : Heights, floor : Segment, next : Segment]
    BY <2>1, <2>2, <2>3 DEF BeginPrune
  <2> QED
    BY <2>1, <2>4 DEF BeginPrune
<1>2. CASE DeleteSegment
  <2>1. cut.next \in Segment /\ cut.next + 1 \in Segment
    BY <1>2, UpkeepShape DEF DeleteSegment, Segment
  <2> QED
    BY <1>2, <2>1 DEF DeleteSegment
<1>3. CASE Deleted
  BY <1>3 DEF Deleted
<1>4. CASE DropLocations
  BY <1>4 DEF DropLocations
<1>5. CASE Mark
  BY <1>5 DEF Mark
<1> QED
  BY <1>1, <1>2, <1>3, <1>4, <1>5

LEMMA ReindexTyped ==
  ASSUME TypeOK, BeginReindex \/ (\E s \in todo : ReindexSegment(s)) \/ EndReindex
  PROVE  TypeOK'
<1> USE DEF TypeOK, turn, bodies, chain, Stages, Goes
<1>1. CASE BeginReindex
  BY <1>1, UpkeepShape DEF BeginReindex, OnDisk, Segment
<1>2. CASE \E s \in todo : ReindexSegment(s)
  BY <1>2 DEF ReindexSegment
<1>3. CASE EndReindex
  BY <1>3 DEF EndReindex
<1> QED
  BY <1>1, <1>2, <1>3

LEMMA TypePreserved == IInv /\ [Next]_vars => TypeOK'
<1> SUFFICES ASSUME IInv, [Next]_vars PROVE TypeOK'
  OBVIOUS
<1>1. TypeOK /\ FloorHolds
  BY DEF IInv
<1>2. CASE UNCHANGED vars
  BY <1>1, <1>2 DEF vars, turn, bodies, chain, TypeOK
<1>3. CASE Next
  <2>1. Genesis \in Block
    BY TreeShape
  <2> QED
    BY <1>1, <1>3, <2>1, TurnsTyped, FollowTyped, PruneTyped, ReindexTyped DEF Next
<1> QED
  BY <1>2, <1>3

(******************************** the floor *********************************)
LEMMA OwnedPreserved ==
  ASSUME IInv, Next
  PROVE  StagesOwned'
<1> USE DEF IInv, TypeOK, StagesOwned, Pruning, Next, turn, Goes
<1>1. CASE \E r \in Run : Opens(r) \/ Ends(r)
  BY <1>1 DEF Opens, Ends
<1>2. CASE (\E b \in Block : Repoint(b) \/ Fetch(b) \/ Connect(b)) \/ Disconnect
  BY <1>2 DEF Repoint, Fetch, Connect, Disconnect, End
<1>3. CASE (\E n \in Below : BeginPrune(n)) \/ DeleteSegment \/ Deleted
           \/ DropLocations \/ Mark
  BY <1>3 DEF BeginPrune, DeleteSegment, Deleted, DropLocations, Mark
<1>4. CASE BeginReindex \/ (\E s \in todo : ReindexSegment(s)) \/ EndReindex
  BY <1>4 DEF BeginReindex, ReindexSegment, EndReindex
<1> QED
  BY <1>1, <1>2, <1>3, <1>4

LEMMA FloorPreserved ==
  ASSUME IInv, TypeOK', Next
  PROVE  FloorHolds'
<1> USE DEF FloorHolds, Pruning, turn, Goes, bodies, chain
<1>0. TypeOK /\ StagesOwned /\ FloorHolds
  BY DEF IInv
<1>1. CASE \E r \in Run : Opens(r) \/ Ends(r)
  BY <1>1 DEF Opens, Ends
<1>2. CASE (\E b \in Block : Repoint(b) \/ Fetch(b) \/ Connect(b)) \/ Disconnect
  BY <1>2 DEF Repoint, Fetch, Connect, Disconnect, End, Following, At
<1>3. CASE \E n \in Below : BeginPrune(n)
  \* The floor is the lowest of what the Locations at or above name.
  <2>1. PICK n \in Below : BeginPrune(n)
    BY <1>3
  <2>2. CASE stage' = "deleting"
    <3>1. PICK s \in Segment :
            /\ IsFloor(s, IF n > below THEN n ELSE below)
            /\ cut' = [mark |-> IF n > below THEN n ELSE below,
                       floor |-> s, next |-> 0]
      BY <2>1, <2>2 DEF BeginPrune
    <3>2. cut'.mark = (IF n > below THEN n ELSE below) /\ cut'.floor = s /\ cut'.next = 0
      BY <3>1
    <3>3. \A b \in Branch(tip) :
            (Height[b] >= cut'.mark /\ location[b] # None) => s <= location[b]
      BY <3>1, <3>2 DEF IsFloor, Survivors
    <3> QED
      BY <2>1, <3>2, <3>3 DEF BeginPrune, Segment, Branch
  <2> QED
    BY <2>1, <2>2 DEF BeginPrune
<1>4. CASE DeleteSegment
  <2>1. cut'.mark = cut.mark /\ cut'.floor = cut.floor /\ cut'.next = cut.next + 1
    BY <1>0, <1>4 DEF DeleteSegment, TypeOK
  <2>2. cut'.next <= cut'.floor
    BY <1>0, <1>4, <2>1 DEF DeleteSegment, TypeOK, Segment
  <2> QED
    BY <1>0, <1>4, <2>1, <2>2 DEF DeleteSegment, Branch
<1>5. CASE Deleted
  BY <1>0, <1>5 DEF Deleted, Branch
<1>6. CASE DropLocations
  <2>1. Branch(tip) \subseteq Block
    BY <1>0, BranchFacts DEF TypeOK
  <2>2. \A b \in Branch(tip) : location'[b] # None => location'[b] = location[b]
    BY <1>6, <2>1 DEF DropLocations
  <2> QED
    BY <1>0, <1>6, <2>2 DEF DropLocations, Branch
<1>7. CASE Mark \/ BeginReindex \/ EndReindex
  BY <1>7 DEF Mark, BeginReindex, EndReindex
<1>8. CASE \E s \in todo : ReindexSegment(s)
  BY <1>8 DEF ReindexSegment
<1> QED
  BY <1>1, <1>2, <1>3, <1>4, <1>5, <1>6, <1>7, <1>8 DEF Next

LEMMA StepHolds == IInv /\ [Next]_vars => IInv'
<1> SUFFICES ASSUME IInv, [Next]_vars PROVE IInv'
  OBVIOUS
<1>1. TypeOK'
  BY TypePreserved
<1>2. CASE UNCHANGED vars
  BY <1>1, <1>2 DEF IInv, vars, turn, bodies, chain, StagesOwned, FloorHolds, Branch
<1>3. CASE Next
  BY <1>1, <1>3, OwnedPreserved, FloorPreserved DEF IInv
<1> QED
  BY <1>2, <1>3

LEMMA AlwaysHolds == Spec => []IInv
BY InitHolds, StepHolds, PTL DEF Spec

(* Every part of the directory, and every stage of a run, stays typed.      *)
THEOREM TypeCorrect == Spec => []TypeOK
<1>1. IInv => TypeOK
  BY DEF IInv
<1> QED
  BY <1>1, AlwaysHolds, PTL

Keeps == writer = "prune" =>
  \A b \in Branch(tip) : (Height[b] >= cut.mark /\ Held(b)) => Held(b)'

LEMMA StepKeeps ==
  ASSUME IInv, Next, writer = "prune"
  PROVE  \A b \in Branch(tip) : (Height[b] >= cut.mark /\ Held(b)) => Held(b)'
<1> SUFFICES ASSUME NEW b \in Branch(tip), Height[b] >= cut.mark, Held(b)
             PROVE  Held(b)'
  OBVIOUS
<1>0. TypeOK /\ StagesOwned /\ FloorHolds /\ b \in Block
  BY BranchFacts DEF IInv, TypeOK
<1> USE DEF Held, turn, bodies, chain, Goes
<1>1. CASE \E r \in Run : Opens(r) \/ Ends(r)
  BY <1>1 DEF Opens, Ends
<1>2. CASE (\E c \in Block : Repoint(c) \/ Fetch(c) \/ Connect(c)) \/ Disconnect
  BY <1>2 DEF Repoint, Fetch, Connect, Disconnect, Following, At
<1>3. CASE (\E n \in Below : BeginPrune(n)) \/ Deleted \/ Mark
  BY <1>3 DEF BeginPrune, Deleted, Mark
<1>4. CASE DeleteSegment
  <2>1. location[b] \in Segment /\ cut.floor <= location[b]
    BY <1>0, <1>4 DEF TypeOK, FloorHolds, Pruning, DeleteSegment
  <2>2. cut.next < location[b]
    BY <1>0, <1>4, <2>1 DEF DeleteSegment, TypeOK, Segment
  <2>3. location[b] # cut.next
    BY <1>0, <2>1, <2>2 DEF TypeOK, Segment
  <2> QED
    BY <1>4, <2>3 DEF DeleteSegment
<1>5. CASE DropLocations
  <2>1. ~(Height[b] < cut.mark)
    BY <1>0, TreeShape DEF TypeOK, Heights
  <2> QED
    BY <1>0, <1>5, <2>1 DEF DropLocations
<1>6. CASE BeginReindex \/ (\E s \in todo : ReindexSegment(s)) \/ EndReindex
  BY <1>0, <1>6 DEF BeginReindex, ReindexSegment, EndReindex, StagesOwned
<1> QED
  BY <1>1, <1>2, <1>3, <1>4, <1>5, <1>6 DEF Next

(* prune.av: no call of a prune takes a body h: names at or above its       *)
(* Watermark, whatever prunes died before it.                               *)
THEOREM PruneTakesOnlyBelow == Spec => PruneKeepsAbove
<1>1. IInv /\ [Next]_vars => [Keeps]_vars
  BY StepKeeps DEF Keeps
<1> QED
  BY <1>1, AlwaysHolds, PTL DEF Spec, PruneKeepsAbove, Keeps

(***************************** what is left over ****************************)
(* The Segments gone are the lowest, and all below the one in hand; the     *)
(* floor is in use while the prune lasts; and once the Locations are        *)
(* dropped, what h: locates below the Watermark is at or above the floor.   *)
Cutting == writer = "prune" /\ stage \in Pruning \cup {"over"}
CutFresh == (writer = Nobody \/ stage = "open") => cut = NoCut
GoneIsLowest ==
  /\ \A s \in gone : s < top /\ \A t \in Segment : t < s => t \in gone
  /\ stage = "deleting" => \A t \in Segment : t < cut.next => t \in gone
FloorUsed ==
  Cutting =>
    /\ cut.floor <= top
    /\ \/ cut.mark = 0
       \/ cut.floor = top
       \/ \E b \in Branch(tip) :
            Height[b] >= cut.mark /\ location[b] # None /\ location[b] = cut.floor
Dropped ==
  (Cutting /\ stage \in {"marking", "over"}) =>
    \A b \in Branch(tip) :
      (Height[b] < cut.mark /\ location[b] # None) => cut.floor <= location[b]
LeftTidy == CutFresh /\ GoneIsLowest /\ FloorUsed /\ Dropped

LEMMA TidyFacts ==
  ASSUME TypeOK
  PROVE  /\ 0 \in Segment /\ Segment \subseteq Int /\ top \in Int /\ None \notin Block
         /\ cut.floor \in Segment /\ cut.next \in Segment /\ cut.mark \in Int
         /\ Branch(tip) \subseteq Block
         /\ \A b \in Block : Height[b] \in Int /\ Height[b] >= 0
         /\ Nobody # "prune" /\ Nobody # "follow" /\ Nobody # "reindex"
BY UpkeepShape, TreeShape, BranchFacts DEF TypeOK, Segment, Heights

LEMMA InitTidy == Init => LeftTidy
BY DEF Init, OneInit, Free, LeftTidy, CutFresh, GoneIsLowest, FloorUsed, Dropped, Cutting,
       Pruning

LEMMA TurnTidy ==
  ASSUME IInv, LeftTidy, NEW r \in Run, Opens(r) \/ Ends(r)
  PROVE  LeftTidy'
<1>1. stage' \in {"open", "idle"} /\ cut' = NoCut /\ UNCHANGED <<bodies, below, chain>>
  BY DEF Opens, Ends, Begin, LeftTidy, CutFresh
<1> QED
  BY <1>1 DEF LeftTidy, CutFresh, GoneIsLowest, FloorUsed, Dropped, Cutting, Pruning,
     bodies, Segment

LEMMA FollowTidy ==
  ASSUME IInv, LeftTidy, NEW b \in Block,
         Repoint(b) \/ Fetch(b) \/ Connect(b) \/ Disconnect
  PROVE  LeftTidy'
<1>0. TypeOK
  BY DEF IInv
<1>1. writer # "prune" /\ writer' # "prune" /\ stage = "open" /\ stage' \in {"open", "idle"}
  BY <1>0, TidyFacts DEF Repoint, Fetch, Connect, Disconnect, Following, At, End, turn
<1>2. UNCHANGED <<gone, cut>> /\ cut = NoCut
  BY <1>1 DEF Repoint, Fetch, Connect, Disconnect, bodies, LeftTidy, CutFresh
<1>3. top <= top' /\ top' \in Int
  <2>1. CASE Fetch(b)
    BY <1>0, <2>1, TidyFacts DEF Fetch
  <2>2. CASE Repoint(b) \/ Connect(b) \/ Disconnect
    BY <1>0, <2>2, TidyFacts DEF Repoint, Connect, Disconnect, bodies
  <2> QED
    BY <2>1, <2>2
<1>4. \A s \in gone : s < top'
  BY <1>0, <1>3, TidyFacts DEF LeftTidy, GoneIsLowest, TypeOK
<1> QED
  BY <1>1, <1>2, <1>4 DEF LeftTidy, CutFresh, GoneIsLowest, FloorUsed, Dropped, Cutting, Segment

(* BeginPrune: the floor is the lowest of what it must leave, so in use and *)
(* no higher than the Segment in hand.                                      *)
LEMMA BeginTidy ==
  ASSUME IInv, LeftTidy, NEW n \in Below, BeginPrune(n)
  PROVE  LeftTidy'
<1>0. TypeOK /\ cut = NoCut
  BY DEF IInv, LeftTidy, CutFresh, BeginPrune, Goes
<1>1. writer = "prune" /\ writer' = writer /\ stage = "open" /\ UNCHANGED <<bodies, below, chain>>
  BY DEF BeginPrune, Goes
<1>2. CASE stage' = "over"
  <2>1. cut' = NoCut
    BY <1>0, <1>2 DEF BeginPrune, Goes
  <2>2. CutFresh' /\ GoneIsLowest'
    BY <1>1, <1>2, <2>1 DEF LeftTidy, CutFresh, GoneIsLowest, bodies, Segment
  <2>4. FloorUsed'
    BY <1>0, <1>1, <2>1, UpkeepShape DEF FloorUsed, NoCut, bodies, TypeOK, Segment
  <2>3. Dropped'
    BY <1>0, <1>1, <2>1, TidyFacts DEF Dropped, NoCut, chain, Branch
  <2> QED
    BY <2>2, <2>3, <2>4 DEF LeftTidy
<1>3. CASE stage' = "deleting"
  <2>1. PICK mark \in Heights, s \in Segment :
          IsFloor(s, mark) /\ cut' = [mark |-> mark, floor |-> s, next |-> 0]
    BY <1>0, <1>3, UpkeepShape DEF BeginPrune, Goes, TypeOK
  <2>2. cut'.mark = mark /\ cut'.floor = s /\ cut'.next = 0
    BY <2>1
  <2>3. s <= top
    BY <2>1 DEF IsFloor, Survivors
  <2>4. s = top \/ \E b \in Branch(tip) : Height[b] >= mark /\ location[b] # None /\ location[b] = s
    BY <2>1 DEF IsFloor, Survivors
  <2>5. FloorUsed'
    BY <1>1, <2>2, <2>3, <2>4 DEF FloorUsed, bodies, chain, Branch
  <2>6. writer' # Nobody
    BY <1>0, <1>1, TidyFacts
  <2>7. CutFresh' /\ Dropped'
    BY <1>3, <2>6 DEF CutFresh, Dropped
  <2>8. GoneIsLowest'
    BY <1>1, <2>2 DEF LeftTidy, GoneIsLowest, bodies, Segment
  <2> QED
    BY <2>5, <2>7, <2>8 DEF LeftTidy
<1> QED
  BY <1>2, <1>3 DEF BeginPrune, Goes

LEMMA DeleteTidy ==
  ASSUME IInv, LeftTidy, DeleteSegment
  PROVE  LeftTidy'
<1>0. TypeOK /\ StagesOwned /\ FloorHolds
  BY DEF IInv
<1>1. writer = "prune" /\ writer' = writer /\ stage = "deleting" /\ stage' = stage
  BY <1>0 DEF DeleteSegment, StagesOwned, Pruning, turn
<1>2. /\ cut'.mark = cut.mark /\ cut'.floor = cut.floor /\ cut'.next = cut.next + 1
      /\ gone' = gone \cup {cut.next} /\ UNCHANGED <<location, top, chain>>
  BY <1>0 DEF DeleteSegment, TypeOK
<1>3. CutFresh' /\ Dropped'
  BY <1>0, <1>1, TidyFacts DEF CutFresh, Dropped
<1>4. FloorUsed'
  BY <1>1, <1>2 DEF LeftTidy, FloorUsed, Cutting, Pruning, chain, Branch
<1>5. \A t \in Segment : t < cut.next => t \in gone
  BY <1>1 DEF LeftTidy, GoneIsLowest
<1>6. \A t \in Segment : t < cut.next + 1 => t \in gone'
  BY <1>0, <1>2, <1>5, TidyFacts
<1>7. cut.next < top
  <2>1. cut.next < cut.floor /\ cut.floor <= top
    BY <1>1 DEF DeleteSegment, LeftTidy, FloorUsed, Cutting, Pruning
  <2> QED
    BY <1>0, <2>1, TidyFacts
<1>8. GoneIsLowest'
  <2>1. \A s \in gone' : s < top /\ \A t \in Segment : t < s => t \in gone'
    BY <1>2, <1>5, <1>7 DEF LeftTidy, GoneIsLowest
  <2> QED
    BY <1>2, <1>6, <2>1 DEF GoneIsLowest, Segment
<1> QED
  BY <1>3, <1>4, <1>8 DEF LeftTidy

LEMMA CutTidy ==
  ASSUME IInv, LeftTidy, Deleted \/ DropLocations \/ Mark
  PROVE  LeftTidy'
<1>0. TypeOK /\ StagesOwned
  BY DEF IInv
<1>1. /\ writer = "prune" /\ writer' = writer /\ Cutting /\ Cutting'
      /\ stage' \in {"locations", "marking", "over"} /\ UNCHANGED <<gone, top, chain, cut>>
  BY <1>0 DEF Deleted, DropLocations, Mark, StagesOwned, Pruning, Cutting, Goes, bodies
<1>2. CutFresh' /\ GoneIsLowest'
  BY <1>0, <1>1, TidyFacts DEF LeftTidy, CutFresh, GoneIsLowest, Segment
<1>3. CASE Deleted \/ Mark
  <2>1. UNCHANGED location
    BY <1>3 DEF Deleted, Mark, bodies
  <2>2. FloorUsed' /\ Dropped'
    BY <1>1, <1>3, <2>1 DEF LeftTidy, FloorUsed, Dropped, Branch, chain, Deleted, Mark, Goes
  <2> QED
    BY <1>2, <2>2 DEF LeftTidy
<1>4. CASE DropLocations
  <2>1. \A b \in Branch(tip) : OnIndex(b) /\ b \in Block
    BY <1>0, BranchFacts DEF TypeOK, OnIndex
  <2>2. \A b \in Block : location[b] \in Int \/ location[b] = None
    BY <1>0, TidyFacts DEF TypeOK
  <2>3. ASSUME NEW b \in Branch(tip), Height[b] < cut.mark, location'[b] # None
        PROVE  cut.floor <= location'[b]
    BY <1>0, <1>4, <2>1, <2>2, <2>3, TidyFacts DEF DropLocations
  <2>4. Dropped'
    BY <1>1, <2>3 DEF Dropped, Branch, chain
  <2>5. ASSUME NEW b \in Branch(tip), Height[b] >= cut.mark
        PROVE  location'[b] = location[b]
    BY <1>0, <1>4, <2>1, <2>5, TidyFacts DEF DropLocations
  <2>6. FloorUsed'
    BY <1>1, <2>5 DEF LeftTidy, FloorUsed, Branch, chain
  <2> QED
    BY <1>2, <2>4, <2>6 DEF LeftTidy
<1> QED
  BY <1>3, <1>4

LEMMA ReindexTidy ==
  ASSUME IInv, LeftTidy, BeginReindex \/ (\E s \in todo : ReindexSegment(s)) \/ EndReindex
  PROVE  LeftTidy'
<1>1. /\ writer = "reindex" /\ writer' = writer /\ stage' \in {"walking", "over"}
      /\ UNCHANGED <<gone, top, chain, cut>>
  BY DEF IInv, StagesOwned, BeginReindex, ReindexSegment, EndReindex, Goes, turn, bodies
<1>2. writer # Nobody /\ writer # "prune"
  BY <1>1, TidyFacts DEF IInv
<1> QED
  BY <1>1, <1>2 DEF LeftTidy, CutFresh, GoneIsLowest, FloorUsed, Dropped, Cutting, Segment

LEMMA StepTidy == IInv /\ LeftTidy /\ [Next]_vars => LeftTidy'
<1> SUFFICES ASSUME IInv, LeftTidy, [Next]_vars PROVE LeftTidy'
  OBVIOUS
<1>1. CASE UNCHANGED vars
  BY <1>1 DEF vars, turn, bodies, chain, LeftTidy, CutFresh, GoneIsLowest, FloorUsed, Dropped,
     Cutting, Branch, Segment
<1>2. CASE Next
  <2>1. Genesis \in Block
    BY TreeShape
  <2> QED
    BY <1>2, <2>1, TurnTidy, FollowTidy, BeginTidy, DeleteTidy, CutTidy, ReindexTidy DEF Next
<1> QED
  BY <1>1, <1>2

LEMMA TidyIsTidy == IInv /\ LeftTidy => PruneTidies
<1> SUFFICES ASSUME IInv, LeftTidy, At("prune", "over"), NoneDangles(cut.mark),
                    NEW b \in Branch(tip), location[b] # None, location[b] \in gone
             PROVE  FALSE
  BY DEF PruneTidies, NoneDangles, Held
<1>0. TypeOK /\ b \in Block /\ location[b] \in Segment /\ location[b] \in Int
  BY BranchFacts, TidyFacts DEF IInv, TypeOK
<1>1. Height[b] < cut.mark
  BY <1>0, TidyFacts DEF NoneDangles, Held
<1>2. Cutting
  BY DEF At, Cutting
<1>3. cut.floor <= location[b] /\ location[b] < top
  BY <1>1, <1>2 DEF LeftTidy, Dropped, GoneIsLowest, At
<1>4. cut.floor \in gone /\ cut.floor # top
  BY <1>0, <1>3, TidyFacts DEF LeftTidy, GoneIsLowest
<1>5. cut.mark # 0
  BY <1>0, <1>1, TidyFacts
<1>6. PICK c \in Branch(tip) :
          Height[c] >= cut.mark /\ location[c] # None /\ location[c] = cut.floor
  BY <1>2, <1>4, <1>5 DEF LeftTidy, FloorUsed
<1> QED
  BY <1>4, <1>6 DEF NoneDangles, Held

(* prune.av: a prune that is through leaves no Location of h: that names a  *)
(* Segment gone, for any tree, Segments and Heights asked for, whatever     *)
(* prunes died before it, if nothing at or above its Watermark does.        *)
THEOREM PruneLeavesTidy == Spec => []PruneTidies
BY InitTidy, StepTidy, TidyIsTidy, AlwaysHolds, PTL DEF Spec

(****************************** the reindex *********************************)
(* What is walked is found: a body in a Segment on disk that is not still   *)
(* to be walked has a Location that holds it, and no Segment with a body in *)
(* it is above the one in hand.                                             *)
Reindexing == At("reindex", "walking") \/ At("reindex", "over")
WalkedIsFound ==
  /\ \A b \in Block : where[b] \subseteq 0 .. top
  /\ At("reindex", "over") => todo = {}
  /\ Reindexing =>
       /\ todo \subseteq OnDisk
       /\ \A b \in Block : (where[b] \ gone) \ todo # {}
                             => location[b] \in where[b] \ gone

LEMMA FoundKept ==
  ASSUME IInv, WalkedIsFound, [Next]_vars
  PROVE  WalkedIsFound'
<1>0. TypeOK /\ StagesOwned
  BY DEF IInv
<1> USE DEF WalkedIsFound, Reindexing, At, OnDisk, bodies, chain, turn, Goes
<1>1. CASE UNCHANGED vars
  BY <1>1 DEF vars
<1>2. CASE \E r \in Run : Opens(r) \/ Ends(r)
  BY <1>2 DEF Opens, Ends
<1>3. CASE \E b \in Block : Fetch(b)
  <2>1. PICK b \in Block, s \in {top, top + 1} \cap Segment :
          where' = [where EXCEPT ![b] = @ \cup {s}] /\ top' = s
    BY <1>3 DEF Fetch
  <2>2. stage' \in {"open", "idle"}
    BY <1>3 DEF Fetch, Following
  <2>3. 0 .. top \subseteq 0 .. top' /\ s \in 0 .. top'
    BY <1>0, <2>1 DEF TypeOK, Segment
  <2> QED
    BY <1>0, <2>1, <2>2, <2>3 DEF TypeOK
<1>4. CASE (\E b \in Block : Repoint(b) \/ Connect(b)) \/ Disconnect
  BY <1>4 DEF Repoint, Connect, Disconnect, Following
<1>5. CASE (\E n \in Below : BeginPrune(n)) \/ DeleteSegment \/ Deleted \/ DropLocations \/ Mark
  <2>1. writer' = "prune" /\ UNCHANGED <<where, top>>
    BY <1>0, <1>5 DEF BeginPrune, DeleteSegment, Deleted, DropLocations, Mark,
       StagesOwned, Pruning
  <2> QED
    BY <2>1
<1>6. CASE BeginReindex
  <2>1. \A b \in Block : (where[b] \ gone) \ OnDisk = {}
    OBVIOUS
  <2> QED
    BY <1>6, <2>1 DEF BeginReindex
<1>7. CASE \E s \in todo : ReindexSegment(s)
  <2>1. PICK s \in todo : ReindexSegment(s)
    BY <1>7
  <2>2. Reindexing /\ s \in OnDisk
    BY <1>0, <2>1 DEF ReindexSegment, StagesOwned
  <2>3. ASSUME NEW b \in Block, (where[b] \ gone) \ todo' # {}
        PROVE  location'[b] \in where[b] \ gone
    BY <2>1, <2>2, <2>3 DEF ReindexSegment
  <2> QED
    BY <2>1, <2>2, <2>3 DEF ReindexSegment
<1>8. CASE EndReindex
  BY <1>0, <1>8 DEF EndReindex, StagesOwned
<1> QED
  BY <1>1, <1>2, <1>3, <1>4, <1>5, <1>6, <1>7, <1>8 DEF Next

(* reindex.av: a reindex that is through has found every body on disk, for  *)
(* any tree and Segments, whatever runs died before it, reindexes included. *)
THEOREM ReindexFindsAll == Spec => []ReindexFinds
<1>1. Init => WalkedIsFound
  BY UpkeepShape DEF Init, OneInit, Free, WalkedIsFound, Reindexing, At
<1>2. WalkedIsFound => ReindexFinds
  BY DEF WalkedIsFound, Reindexing, ReindexFinds
<1> QED
  BY <1>1, <1>2, FoundKept, AlwaysHolds, PTL DEF Spec

(************************** the claim they work under ************************)
(* OneWriter is what Upkeep takes from the claim on the directory, and what *)
(* the calls of infra/lock.av implement: Claim, for any runs on any hosts.  *)

(* Exclusive is not inductive: it rests on one run asking at a time, on the *)
(* claim naming whoever works, and on nobody working while a run clears or  *)
(* writes the claim.                                                        *)
OneAsks == \A r,
       s \in Process : (pc[r] \in Asking /\ pc[s] \in Asking) => r = s
NamedWorks == \A r \in Process : pc[r] = "working" => claim = r
NoneWorks ==
  \A r, s \in Process : pc[r] \in {"clearing", "writing"} => pc[s] # "working"
Apart == OneAsks /\ NamedWorks /\ NoneWorks
ClaimIInv == ClaimTypeOK /\ (~raced => Apart)

(* A directory nobody asked for is free, and every part is typed.           *)
LEMMA ClaimInitHolds ==
  ClaimInit => ClaimIInv
BY ClaimNames DEF ClaimInit, ClaimIInv, ClaimTypeOK, Apart, OneAsks, NamedWorks, 
       NoneWorks, Asking

(* No call on the disk leaves a value outside its type.                     *)
LEMMA ClaimTypePreserved == ClaimTypeOK /\ [ClaimNext]_claimVars => ClaimTypeOK'
<1> SUFFICES ASSUME ClaimTypeOK, [ClaimNext]_claimVars PROVE ClaimTypeOK'
  OBVIOUS
<1>1. CASE UNCHANGED claimVars
  BY <1>1 DEF claimVars, ClaimTypeOK
<1>2. CASE ClaimNext
  <2>1. PICK r \in Process : Start(r) \/ Claiming(r) \/ Release(r) \/ Die(r)
    BY <1>2 DEF ClaimNext
  <2> USE DEF ClaimTypeOK, Moves, Asking, Ended
  <2>2. CASE Start(r)
    BY <2>2 DEF Start
  <2>3. CASE Ask(r)
    BY <2>3 DEF Ask
  <2>4. CASE Read(r)
    BY <2>4 DEF Read
  <2>5. CASE Clear(r)
    BY <2>5 DEF Clear
  <2>6. CASE Write(r)
    BY <2>6 DEF Write
  <2>7. CASE Release(r)
    BY <2>7 DEF Release
  <2>8. CASE Die(r)
    BY <2>8 DEF Die
  <2> QED
    BY <2>1, <2>2, <2>3, <2>4, <2>5, <2>6, <2>7, <2>8 DEF Claiming
<1> QED
  BY <1>1, <1>2

(* While nobody ever asked at once, each call keeps the runs apart.         *)
LEMMA ApartPreserved ==
  ASSUME ClaimTypeOK, ~raced => Apart, ClaimNext, ~raced'
  PROVE  Apart'
<1>1. PICK r \in Process : Start(r) \/ Claiming(r) \/ Release(r) \/ Die(r)
  BY DEF ClaimNext
<1>2. ~raced /\ Apart
  BY <1>1 DEF ClaimTypeOK, Start, Claiming, Ask, Read,
       Clear, Write, Release, Die
<1> USE DEF ClaimTypeOK, Apart, OneAsks, NamedWorks, NoneWorks, Moves,
       Asking
<1>3. CASE Start(r)
  BY <1>2, <1>3 DEF Start
<1>4. CASE Ask(r)
  BY <1>2, <1>4, ClaimNames DEF Ask
<1>5. CASE Read(r)
  \* Whoever works is named, and whoever is named and stale does not work.
  <2>1. Stale(r, claim) => \A s \in Process : pc[s] # "working"
    BY <1>2 DEF Stale, Alive
  <2> QED
    BY <1>2, <1>5, <2>1 DEF Read
<1>6. CASE Clear(r)
  BY <1>2, <1>6 DEF Clear
<1>7. CASE Write(r)
  BY <1>2, <1>7 DEF Write
<1>8. CASE Release(r)
  BY <1>2, <1>8, ClaimNames DEF Release
<1>9. CASE Die(r)
  BY <1>2, <1>9 DEF Die, Alive
<1> QED
  BY <1>1, <1>3, <1>4, <1>5, <1>6, <1>7, <1>8, <1>9 DEF Claiming

LEMMA ClaimStepHolds ==
  ClaimIInv /\ [ClaimNext]_claimVars => ClaimIInv'
<1> SUFFICES ASSUME ClaimIInv, [ClaimNext]_claimVars PROVE ClaimIInv'
  OBVIOUS
<1>1. ClaimTypeOK'
  BY ClaimTypePreserved DEF ClaimIInv
<1>2. (~raced => Apart)'
  <2>1. CASE UNCHANGED claimVars
    BY <2>1 DEF ClaimIInv, claimVars, Apart, OneAsks, NamedWorks, NoneWorks
  <2>2. CASE ClaimNext
    BY <2>2, ApartPreserved DEF ClaimIInv
  <2> QED
    BY <2>1, <2>2
<1> QED
  BY <1>1, <1>2 DEF ClaimIInv

LEMMA AlwaysApart ==
  ClaimSpec => []ClaimIInv
BY ClaimInitHolds, ClaimStepHolds, PTL DEF ClaimSpec

(* The claim, where each run is, and what is remembered stay typed.         *)
THEOREM ClaimTypeCorrect ==
  ClaimSpec => []ClaimTypeOK
<1>1. ClaimIInv => ClaimTypeOK
  BY DEF ClaimIInv
<1> QED
  BY <1>1, AlwaysApart, PTL

(* infra/lock.av: two runs never write one directory, unless they asked for *)
(* it in the same instant.                                                  *)
THEOREM OneAtATime ==
  ClaimSpec => []Exclusive
<1>1. ClaimIInv => Exclusive
  BY DEF ClaimIInv, Apart, NamedWorks, Exclusive
<1> QED
  BY <1>1, AlwaysApart, PTL

(***************************** taking turns *******************************)
(* Where at most one run works, Writer is that run.                         *)
LEMMA WriterIs ==
  ASSUME NEW r \in Process, Writers = {r}
  PROVE  Writer = r
BY DEF Writer

(* A step of a run is a step of OneWriter, or leaves it where it was.       *)
LEMMA StepTakesTurn ==
  ASSUME ClaimIInv, ClaimIInv', ClaimNext
  PROVE  raced' \/ Promise!OneNext \/ UNCHANGED Writer
<1> SUFFICES ASSUME ~raced' PROVE Promise!OneNext \/ UNCHANGED Writer
  OBVIOUS
<1>1. PICK r \in Process : Start(r) \/ Claiming(r) \/ Release(r) \/ Die(r)
  BY DEF ClaimNext
<1>2. ~raced /\ Apart /\ ClaimTypeOK
  BY <1>1 DEF ClaimIInv, ClaimTypeOK, Start, Claiming, Ask,
       Read, Clear, Write, Release, Die
<1>3. Apart'
  BY DEF ClaimIInv
<1>4. CASE Write(r)
  <2>1. Writers = {}
    BY <1>2, <1>4 DEF Write, Moves, Apart, NoneWorks, Writers
  <2>2. Writers' = {r}
    BY <1>2, <1>4, <2>1 DEF Write, Moves, Writers, ClaimTypeOK
  <2>3. Writer = Unclaimed /\ Writer' = r
    BY <2>1, <2>2 DEF Writer
  <2> QED
    BY <2>3 DEF Promise!OneNext, Promise!Begin
<1>5. CASE (Release(r) \/ Die(r)) /\ pc[r] = "working"
  <2>1. Writers = {r}
    BY <1>2, <1>5 DEF Apart, NamedWorks, Writers
  <2>2. Writers' = {}
    BY <1>2, <1>5, <2>1 DEF Release, Die, Moves, Writers,
       ClaimTypeOK
  <2>3. Writer = r /\ Writer' = Unclaimed
    BY <2>1, <2>2 DEF Writer
  <2> QED
    BY <2>3 DEF Promise!OneNext, Promise!End
<1>6. CASE Start(r) \/ Ask(r) \/ Read(r) \/ Clear(r) \/ (Die(r) /\ pc[r] # "working")
  <2>1. Writers' = Writers
    BY <1>2, <1>6 DEF Start, Ask, Read, Clear, Die,
       Moves, Writers, ClaimTypeOK
  <2> QED
    BY <2>1 DEF Writer
<1> QED
  BY <1>1, <1>4, <1>5, <1>6 DEF Claiming, Release, Moves

(* infra/lock.av: the claim implements one writer at a time, until two runs *)
(* ask in the same instant.                                                 *)
THEOREM ClaimTakesTurns ==
  ClaimSpec => TakesTurns
<1>1. ClaimInit => Promise!OneInit
  BY DEF ClaimInit, Promise!OneInit, Promise!Free, Writer,
       Writers
<1>2. ClaimIInv /\ ClaimIInv' /\ [ClaimNext]_claimVars => [raced' \/ Promise!OneNext]_Writer
  <2> SUFFICES ASSUME ClaimIInv, ClaimIInv', [ClaimNext]_claimVars
               PROVE  [raced' \/ Promise!OneNext]_Writer
    OBVIOUS
  <2>1. CASE UNCHANGED claimVars
    BY <2>1 DEF claimVars, Writer, Writers
  <2>2. CASE ClaimNext
    BY <2>2, StepTakesTurn
  <2> QED
    BY <2>1, <2>2
<1> QED
  BY <1>1, <1>2, AlwaysApart, PTL DEF ClaimSpec, TakesTurns
==============================================================================
