---------------------------- MODULE CatchUpProofs ----------------------------
(***************************************************************************)
(* Proofs about the gate of claims and cooldowns, for any number of Peers, *)
(* any Heights they name and any times: a Height nobody has costs one      *)
(* claim, and a Catch-up that moved nothing keeps its Peer quiet for a     *)
(* whole cooldown.                                                         *)
(***************************************************************************)
EXTENDS CatchUp, SequenceTheorems, FiniteSetTheorems, TLAPS

(******************************* the invariant ******************************)
(* What a Peer says it holds, the network has mined.                        *)
Said == {m \in Message : m.high <= chain}

Grounded ==
  /\ wire \in [Key -> Seq(Said)]
  /\ reply \in Said \cup {None}
  /\ rebuilding # None => rebuilding.height <= chain
  /\ target <= tip
  /\ Catching => key \in Key

(* A Height weighed is remembered as long as its Peer is seated and the     *)
(* tree is below it; who goes does not come back.                           *)
Weighing ==
  \A k \in Key :
    /\ costs[k] <= 1
    /\ costs[k] = 1 =>
         \/ k \in gone
         \/ k \in pool /\ (standing[k] <= tip \/ weighed[k] = standing[k])

(* What is left of a cooldown makes up a whole one with the time gone by.   *)
Cooling == \A k \in Key \ gone : quiet[k] + since[k] >= Cool

IInv == TypeOK /\ Grounded /\ Weighing /\ Cooling

(****************************** sets and messages ***************************)
(* Some Peer of those there are is the first.                               *)
LEMMA FirstOf ==
  ASSUME NEW S \in SUBSET Key, S # {}
  PROVE  Min(S) \in S /\ \A k \in S : Min(S) <= k
<1> DEFINE R == StrictSubsetOrdering(Nat)
           U == {0 .. k : k \in S}
<1>1. IsWellFoundedOn(R, FiniteSubsetsOf(Nat))
  BY FS_StrictSubsetOrderingWellFounded, Zenon
<1>2. S \subseteq Nat /\ U # {}
  <2>1. S \subseteq Nat
    BY KeysAssumption DEF Key
  <2> QED
    BY <2>1
<1>3. U \subseteq FiniteSubsetsOf(Nat)
  <2>1. ASSUME NEW k \in S
        PROVE  IsFiniteSet(0 .. k) /\ 0 .. k \in SUBSET Nat
    BY <1>2, FS_Interval
  <2> QED
    BY <2>1 DEF FiniteSubsetsOf
<1>4. PICK s \in U : \A t \in U : <<t, s>> \notin R
  <2> HIDE DEF R, U
  <2> QED
    BY <1>1, <1>2, <1>3, WFMin
<1>5. PICK x \in S : s = 0 .. x
  OBVIOUS
<1>6. ASSUME NEW y \in S, y < x PROVE FALSE
  <2>1. 0 .. y \subseteq 0 .. x /\ x \in 0 .. x /\ x \notin 0 .. y
    BY <1>2, <1>6
  <2>2. <<0 .. y, 0 .. x>> \in R
    BY <1>2, <2>1 DEF StrictSubsetOrdering
  <2> QED
    BY <1>4, <1>5, <2>2
<1>7. \A y \in S : x <= y
  BY <1>2, <1>6
<1> QED
  BY <1>7 DEF Min

(* What was said stays said, when the network mines on.                     *)
LEMMA StillSaid ==
  ASSUME TypeOK, chain' \in Height, chain <= chain', NEW s \in Seq(Said)
  PROVE  s \in Seq(Said')
<1>1. Said \subseteq Said'
  BY DEF Said, TypeOK, Message, Height
<1> QED
  BY <1>1, SeqMonotonic

LEMMA InitHolds == Init => IInv
<1> SUFFICES ASSUME Init PROVE IInv
  OBVIOUS
<1> USE DEF Init
<1>1. 0 \in Height /\ chain \in Height /\ 0 \in Claimed
  BY TimesAssumption DEF Height, Claimed
<1>2. TypeOK
  <2>1. tip \in 0 .. chain /\ set \in 0 .. tip /\ told \in [Key -> Height]
    BY <1>1
  <2>2. \A k \in Key : wire[k] \in Seq(Message)
    OBVIOUS
  <2>3. /\ quiet \in [Key -> 0 .. Cool] /\ since \in [Key -> 0 .. Cool]
        /\ ran \in 0 .. Long
    BY TimesAssumption
  <2>4. stood \in Height \X Height
    BY <1>1
  <2> QED
    BY <1>1, <2>1, <2>2, <2>3, <2>4 DEF TypeOK
<1>3. Grounded
  BY DEF Grounded, Catching
<1>4. Weighing /\ Cooling
  BY TimesAssumption DEF Weighing, Cooling
<1> QED
  BY <1>2, <1>3, <1>4 DEF IInv

(******************************** the types *********************************)
(* The Message heard is one said, and only what was said is taken in.       *)
LEMMA HeardTyped ==
  ASSUME IInv, NEW k \in Key, NEW m \in Said, Heard(k, m)
  PROVE  /\ rebuilding' \in {None} \cup [key : Key, height : Height]
         /\ rebuilding' # None => rebuilding'.height <= chain
         /\ deferred' \subseteq Key
         /\ reply' \in Said \cup {None}
<1>1. TypeOK /\ Grounded
  BY DEF IInv
<1>2. m.high \in Height /\ m.high <= chain /\ reply \in Said \cup {None}
  BY <1>1 DEF Said, Message, Grounded
<1>3. deferred \subseteq Key /\ rebuilding \in {None} \cup [key : Key, height : Height]
      /\ (rebuilding # None => rebuilding.height <= chain)
  BY <1>1 DEF TypeOK, Grounded
<1> QED
  BY <1>2, <1>3 DEF Heard, Held

LEMMA ForgetTyped ==
  ASSUME TypeOK, NEW k \in Key, Forget(k)
  PROVE  /\ quiet' \in [Key -> 0 .. Cool] /\ deferred' \subseteq Key
         /\ weighed' \in [Key -> Claimed \cup {None}] /\ dropped' \in BOOLEAN
<1>1. 0 \in 0 .. Cool
  BY TimesAssumption
<1>2. quiet' \in [Key -> 0 .. Cool]
  BY <1>1 DEF TypeOK, Forget
<1>3. weighed' \in [Key -> Claimed \cup {None}]
  BY DEF TypeOK, Forget
<1>4. dropped' \in BOOLEAN
  BY Zenon DEF TypeOK, Forget
<1> QED
  BY <1>2, <1>3, <1>4 DEF TypeOK, Forget

LEMMA WorldSteps ==
  ASSUME IInv, Mine \/ Peers \/ Node \/ Close \/ UNCHANGED vars
  PROVE  TypeOK' /\ Grounded'
<1>1. TypeOK /\ Grounded
  BY DEF IInv
<1> USE DEF world, gate, catching, history
<1>2. /\ MaxHeight \in Nat /\ chain \in Height /\ tip \in Height
      /\ Cool \in Nat /\ Long \in Nat /\ Deadline \in Nat
      /\ 0 \in Height /\ 0 \in Claimed /\ Height \subseteq Claimed
  BY <1>1, TimesAssumption DEF TypeOK, Height, Claimed
<1>3. CASE Mine
  <2>1. chain' \in Height /\ chain <= chain'
    BY <1>2, <1>3 DEF Mine, Height
  <2>2. /\ tip' \in 0 .. chain' /\ set' \in 0 .. tip'
    BY <1>1, <1>2, <1>3, <2>1 DEF Mine, TypeOK, Height
  <2>3. Said \subseteq Said'
    BY <1>1, <2>1 DEF Said, TypeOK, Message, Height
  <2>4. wire' \in [Key -> Seq(Said')]
    <3>1. \A k \in Key : wire[k] \in Seq(Said)
      BY <1>1 DEF Grounded
    <3>2. \A k \in Key : wire[k] \in Seq(Said')
      BY <1>1, <2>1, <3>1, StillSaid
    <3>3. wire = [k \in Key |-> wire[k]]
      BY <1>1 DEF Grounded
    <3> QED
      BY <1>3, <3>2, <3>3 DEF Mine
  <2>5. rebuilding' # None => rebuilding'.height <= chain'
    <3>1. rebuilding # None => rebuilding.height \in Nat
      BY <1>1 DEF TypeOK, Height
    <3> QED
      BY <1>1, <1>2, <1>3, <2>1, <3>1 DEF Mine, Grounded, Height
  <2>6. TypeOK'
    BY <1>1, <1>3, <2>1, <2>2 DEF Mine, TypeOK
  <2>7. Grounded'
    BY <1>1, <1>3, <2>3, <2>4, <2>5 DEF Mine, Grounded, Catching
  <2> QED
    BY <2>6, <2>7
<1>4. ASSUME NEW k \in Key, Leave(k) \/ Lose(k) PROVE TypeOK' /\ Grounded'
  <2>1. wire' = [wire EXCEPT ![k] = <<>>] /\ <<>> \in Seq(Said)
    BY <1>4 DEF Leave, Lose, Unseated
  <2>2. wire' \in [Key -> Seq(Said)]
    BY <1>1, <2>1 DEF Grounded
  <2>3. Said' = Said
    BY <1>4 DEF Leave, Lose, Unseated, Said
  <2>4. \A j \in Key : wire'[j] \in Seq(Message)
    <3>1. Said \subseteq Message
      BY DEF Said
    <3> QED
      BY <2>2, <3>1, SeqMonotonic
  <2>5. TypeOK'
    <3>1. /\ pool' = pool \ {k} /\ gone' = gone \cup {k}
          /\ UNCHANGED <<chain, told, standing, tip, set, rebuilding, first, pc,
                         key, why, stood, age, reply, target, ran, costs, since>>
      BY <1>4 DEF Leave, Lose, Unseated
    <3>2. /\ quiet' \in [Key -> 0 .. Cool] /\ deferred' \subseteq Key
          /\ weighed' \in [Key -> Claimed \cup {None}] /\ dropped' \in BOOLEAN
      <4>1. CASE Leave(k)
        BY <1>1, <4>1 DEF Leave, TypeOK
      <4>2. CASE Forget(k)
        BY <1>1, <1>2, <4>2, ForgetTyped
      <4> QED
        BY <1>4, <4>1, <4>2 DEF Lose
    <3>3. pool' \subseteq Key /\ gone' \subseteq Key /\ pool' \cap gone' = {}
      BY <1>1, <3>1 DEF TypeOK
    <3> QED
      BY <1>1, <2>4, <3>1, <3>2, <3>3 DEF TypeOK
  <2>6. Grounded'
    BY <1>1, <1>4, <2>2, <2>3 DEF Leave, Lose, Unseated, Grounded, Catching
  <2> QED
    BY <2>5, <2>6
<1>5. ASSUME NEW k \in Key, NEW named \in Claims, Seat(k, named)
      PROVE  TypeOK' /\ Grounded'
  <2>1. named \in Claimed
    BY <1>2 DEF Claims, Claimed, Height
  <2>2. TypeOK'
    BY <1>1, <1>2, <1>5, <2>1 DEF Seat, TypeOK
  <2> QED
    BY <1>1, <1>5, <2>2 DEF Seat, Grounded, Catching, Said
<1>6. ASSUME NEW k \in Key, NEW command \in {"inv", "headers"}, NEW h \in Height,
             Announce(k, command, h)
      PROVE  TypeOK' /\ Grounded'
  <2> DEFINE m == [command |-> command, low |-> h, high |-> h]
  <2>1. m \in Said
    <3>1. told[k] \in Height /\ told[k] < h /\ h <= chain
      BY <1>1, <1>6 DEF Announce, TypeOK
    <3>2. h \in 1 .. MaxHeight + 1
      BY <1>2, <3>1 DEF Height
    <3> QED
      BY <3>1, <3>2 DEF Said, Message
  <2>2. Heard(k, m) /\ wire' = wire /\ told' = [told EXCEPT ![k] = h]
    BY <1>6 DEF Announce
  <2> HIDE DEF m
  <2>3. /\ rebuilding' \in {None} \cup [key : Key, height : Height]
        /\ rebuilding' # None => rebuilding'.height <= chain
        /\ deferred' \subseteq Key
        /\ reply' \in Said \cup {None}
    BY <2>1, <2>2, HeardTyped
  <2>4. UNCHANGED <<chain, pool, gone, standing, tip, set, first, quiet, weighed, pc,
                    key, why, stood, age, target, ran, costs, dropped, since>>
    BY <2>2 DEF Heard
  <2>5. reply' \in Message \cup {None} /\ Said' = Said
    BY <2>3, <2>4 DEF Said
  <2>6. TypeOK'
    BY <1>1, <2>2, <2>3, <2>4, <2>5 DEF TypeOK
  <2> QED
    BY <1>1, <2>2, <2>3, <2>4, <2>5, <2>6 DEF Grounded, Catching
<1>7. ASSUME NEW k \in Key, Answered(k) PROVE TypeOK' /\ Grounded'
  <2>1. wire[k] \in Seq(Said) /\ wire[k] # <<>> /\ Heard(k, Head(wire[k]))
        /\ wire' = [wire EXCEPT ![k] = Tail(wire[k])] /\ told' = told
    BY <1>1, <1>7 DEF Answered, Grounded
  <2>2. Head(wire[k]) \in Said /\ Tail(wire[k]) \in Seq(Said)
    BY <2>1, HeadTailProperties
  <2>3. /\ rebuilding' \in {None} \cup [key : Key, height : Height]
        /\ rebuilding' # None => rebuilding'.height <= chain
        /\ deferred' \subseteq Key
        /\ reply' \in Said \cup {None}
    BY <2>1, <2>2, HeardTyped
  <2>4. UNCHANGED <<chain, pool, gone, standing, tip, set, first, quiet, weighed, pc,
                    key, why, stood, age, target, ran, costs, dropped, since>>
    BY <2>1 DEF Heard
  <2>5. reply' \in Message \cup {None} /\ Said' = Said
    BY <2>3, <2>4 DEF Said
  <2>6. wire' \in [Key -> Seq(Said)]
    BY <1>1, <2>1, <2>2 DEF Grounded
  <2>7. \A j \in Key : wire'[j] \in Seq(Message)
    <3>1. Said \subseteq Message
      BY DEF Said
    <3> QED
      BY <2>6, <3>1, SeqMonotonic
  <2>8. TypeOK'
    BY <1>1, <2>1, <2>3, <2>4, <2>5, <2>7 DEF TypeOK
  <2> QED
    BY <1>1, <2>3, <2>4, <2>5, <2>6, <2>8 DEF Grounded, Catching
<1>8. CASE Rebuilt
  <2>1. rebuilding.key \in Key /\ rebuilding.height <= chain
    BY <1>1, <1>8 DEF Rebuilt, TypeOK, Grounded
  <2>2. tip' \in 0 .. chain /\ tip <= tip'
    <3>1. tip \in Nat /\ chain \in Nat /\ tip <= chain
      BY <1>1, <1>2 DEF TypeOK, Height
    <3>2. CASE tip' = tip
      BY <3>1, <3>2
    <3>3. CASE rebuilding.height = tip + 1 /\ tip' = tip + 1
      BY <2>1, <3>1, <3>3
    <3> QED
      BY <1>8, <3>2, <3>3 DEF Rebuilt
  <2>3. set' \in 0 .. tip' /\ target' <= tip'
    <3>1. /\ tip \in Nat /\ tip' \in Nat /\ set \in 0 .. tip /\ target \in Nat
          /\ target <= tip
      BY <1>1, <1>2, <2>2 DEF TypeOK, Grounded, Height
    <3>2. set' = set /\ target' = target
      BY <1>8 DEF Rebuilt
    <3> QED
      BY <2>2, <3>1, <3>2
  <2>4. TypeOK'
    BY <1>1, <1>8, <2>1, <2>2, <2>3 DEF Rebuilt, Held, TypeOK
  <2> QED
    BY <1>1, <1>8, <2>3, <2>4 DEF Rebuilt, Grounded, Catching, Said
<1>9. CASE Turned
  <2>1. /\ Ahead \subseteq Key /\ Fresh \subseteq Key
        /\ costs' \in [Key -> Nat] /\ weighed' \in [Key -> Claimed \cup {None}]
    BY <1>1, <1>9 DEF Turned, Ahead, Fresh, TypeOK
  <2>2. TypeOK'
    BY <1>1, <1>9, <2>1 DEF Turned, TypeOK
  <2> QED
    BY <1>1, <1>9, <2>2 DEF Turned, Grounded, Catching, Said
<1>10. CASE Tick
  <2>1. quiet' \in [Key -> 0 .. Cool] /\ since' \in [Key -> 0 .. Cool]
    BY <1>1, <1>2, <1>10 DEF Tick, TypeOK
  <2>2. age' \in 0 .. Deadline + 1 \cup {None} /\ ran' \in 0 .. Long
    BY <1>1, <1>2, <1>10 DEF Tick, TypeOK
  <2>3. TypeOK'
    BY <1>1, <1>10, <2>1, <2>2 DEF Tick, TypeOK
  <2> QED
    BY <1>1, <1>10, <2>3 DEF Tick, Grounded, Catching, Said
<1>11. CASE Close
  <2>1. wire' \in [Key -> Seq(Said)] /\ \A k \in Key : wire'[k] \in Seq(Message)
    BY <1>11 DEF Close
  <2>2. TypeOK'
    <3>1. /\ quiet' \in [Key -> 0 .. Cool] /\ weighed' \in [Key -> Claimed \cup {None}]
          /\ pool' \cap gone' = {} /\ stood' \in Height \X Height /\ ran' \in 0 .. Long
      BY <1>2, <1>11 DEF Close, NoCatching
    <3> QED
      BY <1>1, <1>2, <1>11, <2>1, <3>1 DEF Close, NoCatching, Question, TypeOK
  <2> QED
    BY <1>1, <1>2, <1>11, <2>1, <2>2
    DEF Close, NoCatching, Question, Grounded, Catching, Said, Height
<1>12. CASE UNCHANGED vars
  BY <1>1, <1>12 DEF vars, TypeOK, Grounded, Catching, Said
<1> QED
  BY <1>3, <1>4, <1>5, <1>6, <1>7, <1>8, <1>9, <1>10, <1>11, <1>12 DEF Peers, Node

LEMMA WalkSteps ==
  ASSUME IInv, Walk
  PROVE  TypeOK' /\ Grounded'
<1>1. TypeOK /\ Grounded
  BY DEF IInv
<1> USE DEF world, gate, catching, history, Question
<1>2. /\ MaxHeight \in Nat /\ chain \in Height /\ tip \in Height /\ set \in Height
      /\ tip \in Nat /\ chain \in Nat /\ set \in Nat /\ target \in Nat
      /\ tip <= chain /\ set <= tip /\ target <= tip
      /\ Cool \in Nat /\ Long \in Nat /\ Deadline \in Nat /\ 0 \in Height
  BY <1>1, TimesAssumption DEF TypeOK, Grounded, Height
<1>3. ASSUME NEW k \in Key, Take(k) PROVE TypeOK' /\ Grounded'
  <2>1. first' \in BOOLEAN /\ why' \in BOOLEAN
    BY <1>3 DEF Take
  <2>2. /\ stood' \in Height \X Height /\ ran' \in 0 .. Long /\ target' \in Height
        /\ age' \in 0 .. Deadline + 1 \cup {None} /\ reply' \in Message \cup {None}
    BY <1>2, <1>3 DEF Take
  <2>3. TypeOK'
    BY <1>1, <1>3, <2>1, <2>2 DEF Take, TypeOK
  <2> QED
    BY <1>1, <1>2, <1>3, <2>3 DEF Take, Grounded, Catching, Said
<1>4. CASE Ask
  <2> DEFINE m == [command |-> "headers", low |-> tip + 1, high |-> chain]
  <2>1. m \in Said
    <3>1. tip + 1 \in 1 .. MaxHeight + 1
      BY <1>2 DEF Height
    <3> QED
      BY <1>2, <3>1 DEF Said, Message
  <2>2. key \in Key
    BY <1>1, <1>4 DEF Ask, Grounded, Catching
  <2>3. wire' = [wire EXCEPT ![key] = Append(wire[key], m)] \/ wire' = wire
    BY <1>4 DEF Ask
  <2>4. Said' = Said
    BY <1>4 DEF Ask, Said
  <2> HIDE DEF m
  <2>5. wire' \in [Key -> Seq(Said)]
    <3>1. wire[key] \in Seq(Said) /\ Append(wire[key], m) \in Seq(Said)
      BY <1>1, <2>1, <2>2 DEF Grounded
    <3> QED
      BY <1>1, <2>3, <3>1 DEF Grounded
  <2>6. \A j \in Key : wire'[j] \in Seq(Message)
    <3>1. Said \subseteq Message
      BY DEF Said
    <3> QED
      BY <2>5, <3>1, SeqMonotonic
  <2>7. TypeOK'
    BY <1>1, <1>2, <1>4, <2>6 DEF Ask, TypeOK
  <2> QED
    BY <1>1, <1>4, <2>4, <2>5, <2>7 DEF Ask, Grounded, Catching
<1>5. CASE HeadersHeard
  <2>1. tip' \in Nat /\ tip <= tip' /\ tip' <= chain
    <3>1. reply # None => reply.high \in Nat /\ reply.high <= chain
      BY <1>1 DEF Grounded, Said, Message, Height
    <3> QED
      BY <1>2, <1>5, <3>1 DEF HeadersHeard
  <2>2. tip' \in 0 .. chain /\ set \in 0 .. tip' /\ target <= tip'
    BY <1>2, <2>1
  <2>3. TypeOK'
    BY <1>1, <1>5, <2>2 DEF HeadersHeard, TypeOK
  <2> QED
    BY <1>1, <1>5, <2>2, <2>3 DEF HeadersHeard, Grounded, Catching, Said
<1>6. CASE Unanswered \/ Landed \/ FetchFails
  <2>1. TypeOK'
    BY <1>1, <1>6 DEF Unanswered, Landed, FetchFails, TypeOK
  <2> QED
    BY <1>1, <1>6, <2>1
    DEF Unanswered, Landed, FetchFails, Grounded, Catching, Said
<1>7. CASE Align
  <2>1. TypeOK'
    BY <1>1, <1>2, <1>7 DEF Align, TypeOK
  <2> QED
    BY <1>1, <1>2, <1>7, <2>1 DEF Align, Grounded, Catching, Said
<1>8. CASE Build
  <2>1. set' \in 0 .. tip
    BY <1>2, <1>8 DEF Build
  <2>2. TypeOK'
    BY <1>1, <1>8, <2>1 DEF Build, TypeOK
  <2> QED
    BY <1>1, <1>8, <2>2 DEF Build, Grounded, Catching, Said
<1>9. CASE Moved
  <2>1. CoolFor \in 0 .. Cool
    BY <1>1, <1>2 DEF CoolFor, TypeOK
  <2>2. WhoToAsk \subseteq Key
    <3>1. pool # {} => Min(pool) \in pool
      BY <1>1, FirstOf DEF TypeOK
    <3> QED
      BY <1>1, <3>1 DEF WhoToAsk, TypeOK
  <2>3. quiet' \in [Key -> 0 .. Cool]
    <3> DEFINE left == IF StoodStill THEN CoolFor ELSE 0
    <3>1. left \in 0 .. Cool
      BY <1>2, <2>1
    <3>2. quiet' = [quiet EXCEPT ![key] = left] \/ quiet' = quiet
      BY <1>9 DEF Moved
    <3> HIDE DEF left
    <3> QED
      BY <1>1, <3>1, <3>2 DEF TypeOK
  <2>4. since' \in [Key -> 0 .. Cool]
    BY <1>1, <1>2, <1>9 DEF Moved, TypeOK
  <2>5. deferred' \subseteq Key
    BY <1>1, <1>9, <2>2 DEF Moved, LetGo, TypeOK
  <2>6. dropped' \in BOOLEAN
    <3>1. dropped' = (dropped \/ ~deferred \subseteq deferred')
      BY <1>9 DEF Moved
    <3> QED
      BY <1>1, <3>1, Zenon DEF TypeOK
  <2>7. stood' \in Height \X Height /\ ran' \in 0 .. Long
    BY <1>2, <1>9 DEF Moved, NoCatching
  <2>8. TypeOK'
    BY <1>1, <1>2, <1>9, <2>3, <2>4, <2>5, <2>6, <2>7
    DEF Moved, NoCatching, TypeOK
  <2> QED
    BY <1>1, <1>2, <1>9, <2>8 DEF Moved, NoCatching, Grounded, Catching, Said
<1>10. CASE Faulted
  <2>1. key \in Key /\ Forget(key)
    BY <1>1, <1>10 DEF Faulted, Grounded, Catching
  <2>2. /\ quiet' \in [Key -> 0 .. Cool] /\ deferred' \subseteq Key
        /\ weighed' \in [Key -> Claimed \cup {None}] /\ dropped' \in BOOLEAN
    BY <1>1, <2>1, ForgetTyped
  <2>3. pool' \subseteq Key /\ gone' \subseteq Key /\ pool' \cap gone' = {}
    BY <1>1, <1>10, <2>1 DEF Faulted, TypeOK
  <2>4. Said' = Said
    BY <1>10 DEF Faulted, Said
  <2>5. wire' \in [Key -> Seq(Said)]
    <3>1. wire' = [wire EXCEPT ![key] = <<>>] /\ <<>> \in Seq(Said)
      BY <1>10 DEF Faulted
    <3> QED
      BY <1>1, <3>1 DEF Grounded
  <2>6. \A j \in Key : wire'[j] \in Seq(Message)
    <3>1. Said \subseteq Message
      BY DEF Said
    <3> QED
      BY <2>5, <3>1, SeqMonotonic
  <2>7. CASE pc' = "due" /\ NoCatching
    <3>1. stood' \in Height \X Height /\ ran' \in 0 .. Long
      BY <1>2, <2>7 DEF NoCatching
    <3>2. TypeOK'
      BY <1>1, <1>2, <1>10, <2>2, <2>3, <2>6, <2>7, <3>1
      DEF Faulted, NoCatching, TypeOK
    <3> QED
      BY <1>1, <1>2, <1>10, <2>4, <2>5, <2>7, <3>2
      DEF Faulted, NoCatching, Grounded, Catching
  <2>8. CASE ~(Onward(pool') = None) /\ key' = Onward(pool') /\ pc' = "headers"
             /\ target' = 0 /\ Question /\ UNCHANGED <<why, stood, ran>>
    <3>1. key' \in Key
      <4>1. pool' # {} /\ key' = Min(pool')
        BY <2>8 DEF Onward
      <4> QED
        BY <2>3, <4>1, FirstOf
    <3>2. TypeOK'
      BY <1>1, <1>2, <1>10, <2>2, <2>3, <2>6, <2>8, <3>1 DEF Faulted, TypeOK
    <3> QED
      BY <1>1, <1>2, <1>10, <2>4, <2>5, <2>8, <3>1, <3>2
      DEF Faulted, Grounded, Catching
  <2> QED
    BY <1>10, <2>7, <2>8 DEF Faulted
<1> QED
  BY <1>3, <1>4, <1>5, <1>6, <1>7, <1>8, <1>9, <1>10 DEF Walk

(********************************* the gate *********************************)
(* The tree never falls, and a key used up is never used again.             *)
LEMMA OneWay ==
  ASSUME IInv, [Next]_vars
  PROVE  /\ tip \in Nat /\ tip' \in Nat /\ tip <= tip'
         /\ gone \subseteq gone'
         /\ \A k \in Key : k \in pool => k \in pool' \cup gone'
<1>1. TypeOK /\ Grounded /\ TypeOK'
  BY WorldSteps, WalkSteps DEF IInv, Next
<1>2. tip \in Nat /\ tip' \in Nat
  BY <1>1, TimesAssumption DEF TypeOK, Height
<1>3. tip <= tip'
  <2>1. CASE Rebuilt
    BY <1>2, <2>1 DEF Rebuilt
  <2>2. CASE HeadersHeard
    <3>1. reply # None => reply.high \in Nat
      BY <1>1 DEF Grounded, Said, Message, Height
    <3> QED
      BY <1>2, <2>2, <3>1 DEF HeadersHeard
  <2>3. tip' = tip \/ Rebuilt \/ HeadersHeard
    BY DEF Next, Mine, Peers, Node, Walk, Close, Leave, Lose, Announce, Seat, Answered,
           Heard, Turned, Tick, Take, Ask, Unanswered, Align, Landed, FetchFails,
           Build, Moved, Faulted, vars
  <2> QED
    BY <1>2, <2>1, <2>2, <2>3
<1>4. gone \subseteq gone' /\ \A k \in Key : k \in pool => k \in pool' \cup gone'
  <2>1. \/ UNCHANGED <<pool, gone>>
        \/ gone' = Key
        \/ \E k \in Key : pool' = pool \ {k} /\ gone' = gone \cup {k}
        \/ \E k \in Key : pool' = pool \cup {k} /\ gone' = gone
    <3>1. CASE Faulted
      BY <1>1, <3>1 DEF Faulted, Grounded, Catching
    <3>2. CASE Mine \/ Node \/ UNCHANGED vars
      BY <3>2 DEF Mine, Node, Answered, Heard, Rebuilt, Turned, Tick, vars, world
    <3>3. CASE Peers
      <4>1. ASSUME NEW k \in Key, Leave(k) \/ Lose(k)
            PROVE  pool' = pool \ {k} /\ gone' = gone \cup {k}
        BY <4>1 DEF Leave, Lose, Unseated
      <4>2. ASSUME NEW k \in Key, NEW named \in Claims, Seat(k, named)
            PROVE  pool' = pool \cup {k} /\ gone' = gone
        BY <4>2 DEF Seat
      <4>3. ASSUME NEW k \in Key, NEW c \in {"inv", "headers"}, NEW h \in Height,
                   Announce(k, c, h)
            PROVE  UNCHANGED <<pool, gone>>
        BY <4>3 DEF Announce, Heard
      <4> QED
        BY <3>3, <4>1, <4>2, <4>3 DEF Peers
    <3>4. CASE Walk /\ ~Faulted
      BY <3>4
      DEF Walk, Take, Ask, HeadersHeard, Unanswered, Align, Landed, FetchFails, Build,
          Moved, world
    <3>5. CASE Close
      BY <3>5 DEF Close
    <3> QED
      BY <3>1, <3>2, <3>3, <3>4, <3>5 DEF Next
  <2> QED
    BY <1>1, <2>1 DEF TypeOK
<1> QED
  BY <1>2, <1>3, <1>4

(* Only a weighing writes down what was weighed, and only time and the end  *)
(* of a Catch-up move a cooldown, except for a Peer that goes.              *)
GateKept ==
  /\ ~Turned =>
       /\ costs' = costs
       /\ \A k \in Key : k \in gone' \/ weighed'[k] = weighed[k]
  /\ ~Tick /\ ~Moved =>
       /\ since' = since
       /\ \A k \in Key : k \in gone' \/ quiet'[k] = quiet[k]
  /\ \A k \in pool \cup gone : standing'[k] = standing[k]

LEMMA GateSteps ==
  ASSUME IInv, [Next]_vars
  PROVE  GateKept
<1> USE DEF world, gate, catching, history, GateKept
<1>1. TypeOK /\ Grounded
  BY DEF IInv
<1>2. CASE Mine \/ UNCHANGED vars
  BY <1>2 DEF Mine, vars
<1>3. ASSUME NEW k \in Key, Forget(k), gone' = gone \cup {k},
             UNCHANGED <<costs, since, standing>>
      PROVE  GateKept
  <2>1. \A j \in Key : j = k \/ quiet'[j] = quiet[j]
    BY <1>1, <1>3 DEF Forget, TypeOK
  <2>2. \A j \in Key : j = k \/ weighed'[j] = weighed[j]
    BY <1>1, <1>3 DEF Forget, TypeOK
  <2> QED
    BY <1>3, <2>1, <2>2
<1>4. CASE Peers
  <2>1. ASSUME NEW k \in Key, Leave(k) PROVE GateKept
    BY <2>1 DEF Leave, Unseated
  <2>2. ASSUME NEW k \in Key, Lose(k) PROVE GateKept
    <3>1. Forget(k) /\ gone' = gone \cup {k} /\ UNCHANGED <<costs, since, standing>>
      BY <2>2 DEF Lose, Unseated
    <3> QED
      BY <1>3, <3>1
  <2>3. ASSUME NEW k \in Key, NEW named \in Claims, Seat(k, named) PROVE GateKept
    <3>1. \A j \in pool \cup gone : standing'[j] = standing[j]
      BY <1>1, <2>3 DEF Seat, TypeOK
    <3>2. UNCHANGED <<costs, since, weighed, quiet>>
      BY <2>3 DEF Seat
    <3> QED
      BY <3>1, <3>2
  <2>4. ASSUME NEW k \in Key, NEW c \in {"inv", "headers"}, NEW h \in Height,
               Announce(k, c, h)
        PROVE  GateKept
    BY <2>4 DEF Announce, Heard
  <2> QED
    BY <1>4, <2>1, <2>2, <2>3, <2>4 DEF Peers
<1>5. CASE Node
  BY <1>5 DEF Node, Answered, Heard, Rebuilt, Turned, Tick
<1>6. CASE Walk /\ ~Faulted
  BY <1>6
  DEF Walk, Take, Ask, HeadersHeard, Unanswered, Align, Landed, FetchFails, Build, Moved
<1>7. CASE Faulted
  <2>1. key \in Key /\ Forget(key) /\ gone' = gone \cup {key}
        /\ UNCHANGED <<costs, since, standing>>
    BY <1>1, <1>7 DEF Faulted, Grounded, Catching
  <2> QED
    BY <1>3, <2>1
<1>8. CASE Close
  BY <1>1, <1>8 DEF Close, TypeOK
<1> QED
  BY <1>2, <1>4, <1>5, <1>6, <1>7, <1>8 DEF Next

LEMMA WeighingStays ==
  ASSUME IInv, [Next]_vars
  PROVE  Weighing'
<1>1. TypeOK /\ Weighing
  BY DEF IInv
<1>2. tip \in Nat /\ tip' \in Nat /\ tip <= tip' /\ gone \subseteq gone'
      /\ \A k \in Key : k \in pool => k \in pool' \cup gone'
  BY OneWay
<1>3. GateKept
  BY GateSteps
<1> SUFFICES ASSUME NEW k \in Key
             PROVE  /\ costs'[k] <= 1
                    /\ costs'[k] = 1 =>
                         \/ k \in gone'
                         \/ k \in pool' /\ (standing'[k] <= tip' \/ weighed'[k] = standing'[k])
  BY DEF Weighing
<1>4. /\ costs[k] \in Nat /\ costs[k] <= 1 /\ standing[k] \in Nat
      /\ (costs[k] = 1 =>
            \/ k \in gone
            \/ k \in pool /\ (standing[k] <= tip \/ weighed[k] = standing[k]))
  <2>1. costs[k] \in Nat /\ standing[k] \in Nat
    BY <1>1, TimesAssumption DEF TypeOK, Claimed
  <2> QED
    BY <1>1, <2>1 DEF Weighing
<1>5. CASE Turned
  <2>1. UNCHANGED <<pool, gone, standing, tip>>
    BY <1>5 DEF Turned, world
  <2>2. weighed'[k] = IF k \in Ahead THEN standing[k] ELSE None
    BY <1>5 DEF Turned
  <2>3. costs'[k] = costs[k] + (IF k \in Fresh THEN 1 ELSE 0)
    BY <1>5 DEF Turned
  <2>4. CASE k \in Fresh
    <3>1. k \in pool /\ standing[k] > tip /\ weighed[k] # standing[k] /\ k \notin gone
      BY <1>1, <2>4 DEF Fresh, Ahead, TypeOK
    <3>2. costs[k] = 0
      BY <1>2, <1>4, <3>1
    <3> QED
      BY <2>1, <2>2, <2>3, <2>4, <3>1, <3>2 DEF Fresh
  <2>5. CASE k \notin Fresh
    <3>1. costs'[k] = costs[k]
      BY <1>4, <2>3, <2>5
    <3>2. k \in pool => standing[k] <= tip \/ k \in Ahead
      BY <1>2, <1>4 DEF Ahead
    <3> QED
      BY <1>4, <2>1, <2>2, <3>1, <3>2
  <2> QED
    BY <2>4, <2>5
<1>6. CASE ~Turned
  <2>1. costs' = costs /\ (k \in gone' \/ weighed'[k] = weighed[k])
        /\ (k \in pool \cup gone => standing'[k] = standing[k])
    BY <1>3, <1>6 DEF GateKept
  <2> QED
    BY <1>2, <1>4, <2>1
<1> QED
  BY <1>5, <1>6

LEMMA CoolingStays ==
  ASSUME IInv, [Next]_vars
  PROVE  Cooling'
<1>1. TypeOK /\ Cooling /\ TypeOK'
  BY WorldSteps, WalkSteps DEF IInv, Next
<1>2. gone \subseteq gone'
  BY OneWay
<1>3. GateKept
  BY GateSteps
<1> SUFFICES ASSUME NEW k \in Key \ gone'
             PROVE  quiet'[k] + since'[k] >= Cool
  BY DEF Cooling
<1>4. /\ Cool \in Nat /\ ran \in Nat
      /\ quiet[k] \in 0 .. Cool /\ since[k] \in 0 .. Cool /\ quiet[k] + since[k] >= Cool
  BY <1>1, <1>2, TimesAssumption DEF TypeOK, Cooling
<1>5. CASE Tick
  <2>1. /\ quiet'[k] = IF quiet[k] = 0 THEN 0 ELSE quiet[k] - 1
        /\ since'[k] = IF since[k] < Cool THEN since[k] + 1 ELSE Cool
    BY <1>5 DEF Tick
  <2> QED
    BY <1>4, <2>1
<1>6. CASE Moved
  <2>1. CASE why /\ key \in pool /\ k = key
    <3>1. /\ quiet'[k] = IF StoodStill THEN CoolFor ELSE 0
          /\ since'[k] = IF StoodStill /\ ran < Cool THEN ran ELSE Cool
      BY <1>1, <1>6, <2>1 DEF Moved, TypeOK
    <3> QED
      BY <1>4, <3>1 DEF CoolFor
  <2>2. CASE ~(why /\ key \in pool /\ k = key)
    <3>1. quiet'[k] = quiet[k] /\ since'[k] = since[k]
      BY <1>1, <1>6, <2>2 DEF Moved, TypeOK
    <3> QED
      BY <1>4, <3>1
  <2> QED
    BY <2>1, <2>2
<1>7. CASE ~Tick /\ ~Moved
  BY <1>3, <1>4, <1>7 DEF GateKept
<1> QED
  BY <1>5, <1>6, <1>7

LEMMA InvStays == IInv /\ [Next]_vars => IInv'
<1> SUFFICES ASSUME IInv, [Next]_vars PROVE IInv'
  OBVIOUS
<1>1. TypeOK' /\ Grounded'
  BY WorldSteps, WalkSteps DEF Next
<1>2. Weighing' /\ Cooling'
  BY WeighingStays, CoolingStays
<1> QED
  BY <1>1, <1>2 DEF IInv

(********************************* the theorems *****************************)
(* What is known of the Peers, of what they sent and of the gate holds      *)
(* throughout a run.                                                        *)
THEOREM InvHolds == Spec => []IInv
<1> QED
  BY InitHolds, InvStays, PTL DEF Spec

(* Every variable keeps its type: the tree never passes the network, nor    *)
(* the Set the tree, and no key used up is seated.                          *)
THEOREM CatchUpTypeCorrect == Spec => []TypeOK
<1>1. IInv => TypeOK
  BY DEF IInv
<1> QED
  BY <1>1, InvHolds, PTL

(* A Height nobody has costs one claim, however often the tree is turned.   *)
THEOREM OneLieOneClaim == Spec => []LieCostsOnce
<1>1. IInv => LieCostsOnce
  BY DEF IInv, Weighing, LieCostsOnce
<1> QED
  BY <1>1, InvHolds, PTL

(* Two Catch-ups on the claims of one Peer, the first of which moved        *)
(* nothing, start a whole cooldown apart.                                   *)
THEOREM WastedIsRare == Spec => RateCapped
<1> DEFINE Apart == \A k \in pool : pc = "due" /\ pc' = "headers" /\ key' = k /\ why'
                                      => since[k] = Cool
<1>1. ASSUME IInv, [Next]_vars PROVE Apart
  <2> SUFFICES ASSUME NEW k \in pool, pc = "due", pc' = "headers", key' = k, why'
               PROVE  since[k] = Cool
    OBVIOUS
  <2>1. TypeOK /\ Cooling
    BY <1>1 DEF IInv
  <2>2. PICK j \in Key : Take(j)
    <3>1. CASE Peers
      BY <3>1
      DEF Peers, Leave, Lose, Unseated, Announce, Heard, Seat, catching
    <3>2. CASE Mine \/ Node \/ Close \/ UNCHANGED vars
      BY <3>2 DEF Mine, Node, Answered, Heard, Rebuilt, Turned, Tick, Close, vars
    <3>3. CASE Walk
      BY <3>3 DEF Walk, Ask, HeadersHeard, Unanswered, Align, Landed, FetchFails,
                  Build, Moved, Faulted
    <3> QED
      BY <1>1, <3>1, <3>2, <3>3 DEF Next
  <2>3. j = k /\ ~first /\ k = Min(Due) /\ Due # {} /\ Due \subseteq Key
    BY <2>1, <2>2 DEF Take, Due, TypeOK
  <2>4. k \in Due
    BY <2>3, FirstOf
  <2>5. quiet[k] = 0 /\ k \notin gone /\ k \in Key
    BY <2>1, <2>4 DEF Due, Allowed, TypeOK
  <2>6. since[k] \in 0 .. Cool /\ quiet[k] + since[k] >= Cool /\ Cool \in Nat
    BY <2>1, <2>5, TimesAssumption DEF TypeOK, Cooling
  <2> QED
    BY <2>5, <2>6
<1>2. IInv /\ [Next]_vars => [Apart]_vars
  BY <1>1
<1> QED
  BY <1>2, InvHolds, PTL DEF Spec, RateCapped
==============================================================================
