------------------------------ MODULE CatchUp ------------------------------
(***************************************************************************)
(* When the node catches up and on whom: the gate of claims and cooldowns  *)
(* (domain/catchup.av), the owner's answers to the walk (app/owner.av,     *)
(* infra/follow.av), and the Peers that announce, answer late or go.       *)
(*                                                                         *)
(* The chain is one branch, a Header is its Height.  The owner answers one *)
(* request at a time, so each action is one request.  A Key is never given *)
(* to a second Peer.  Time is counted in ticks: quiet is what is left of a *)
(* cooldown, ran and age what has passed since a start or a question.      *)
(***************************************************************************)
EXTENDS Integers, Sequences, FiniteSets, FiniteSetsExt

CONSTANTS
  MaxKey,      \* Peers are seated under the keys 1 .. MaxKey
  Steady,      \* the Peers that stay and answer in time
  MaxHeight,   \* the network mines this many Blocks
  Cool,        \* cooldownMs
  Long,        \* longRunMs
  Deadline,    \* answerDeadlineMs
  None

Key    == 1 .. MaxKey
Height == 0 .. MaxHeight

ASSUME KeysAssumption == MaxKey \in Nat \ {0} /\ Steady \subseteq Key
ASSUME TimesAssumption ==
  /\ Cool \in Nat \ {0} /\ Long \in Nat \ {0} /\ Deadline \in Nat \ {0}
  /\ MaxHeight \in Nat \ {0}

VARIABLES
  chain,       \* the network's Height
  told,        \* the greatest Height each Peer has announced
  wire,        \* answers each Peer has sent and the node has not heard
  pool,        \* the Peers seated
  gone,        \* the keys used up
  standing,    \* the Height each Peer named at its Handshake, if we dialled it
  tip,         \* the Height of the tree's best Header
  set,         \* the Height the Set stands at
  rebuilding,  \* the compact Block being rebuilt, and who announced it
  first,       \* the walk has not had its first Catch-up
  quiet, deferred, weighed,             \* Gate
  pc,          \* the request the walk makes next, or parks on
  key, why, stood, age, reply, target,  \* Catching
  ran,
  costs,       \* Handshake claims held, for each key
  dropped,     \* the gate has thrown a held claim away unheard
  since        \* ticks since the start of each Peer's last Catch-up, if wasted

world    == <<chain, told, pool, gone, standing>>
gate     == <<quiet, deferred, weighed>>
catching == <<key, why, stood, age, reply, target, ran>>
history  == <<costs, dropped, since>>
vars == <<world, wire, tip, set, rebuilding, first, gate, pc, catching, history>>

Message == [command : {"inv", "headers"}, low : 1 .. MaxHeight + 1, high : Height]
Claimed == 0 .. MaxHeight + 1

TypeOK ==
  /\ chain \in Height /\ tip \in 0 .. chain /\ set \in 0 .. tip
  /\ told \in [Key -> Height]
  /\ \A k \in Key : wire[k] \in Seq(Message)
  /\ pool \subseteq Key /\ gone \subseteq Key /\ pool \cap gone = {}
  /\ standing \in [Key -> Claimed]
  /\ rebuilding \in {None} \cup [key : Key, height : Height]
  /\ first \in BOOLEAN
  /\ quiet \in [Key -> 0 .. Cool] /\ deferred \subseteq Key
  /\ weighed \in [Key -> Claimed \cup {None}]
  /\ pc \in {"due", "headers", "align", "fetch", "set", "moved", "faulted", "over"}
  /\ key \in Key \cup {None} /\ why \in BOOLEAN
  /\ stood \in Height \X Height /\ target \in Height
  /\ age \in 0 .. Deadline + 1 \cup {None}
  /\ reply \in Message \cup {None}
  /\ ran \in 0 .. Long
  /\ costs \in [Key -> Nat] /\ dropped \in BOOLEAN /\ since \in [Key -> 0 .. Cool]

Init ==
  /\ chain \in {0, 1} /\ told = [k \in Key |-> chain] /\ wire = [k \in Key |-> <<>>]
  /\ pool = {} /\ gone = {} /\ standing = [k \in Key |-> 0]
  /\ tip = 0 /\ set = 0 /\ rebuilding = None /\ first = TRUE
  /\ quiet = [k \in Key |-> 0] /\ deferred = {} /\ weighed = [k \in Key |-> None]
  /\ pc = "due" /\ key = None /\ why = FALSE /\ stood = <<0, 0>>
  /\ age = None /\ reply = None /\ target = 0 /\ ran = 0
  /\ costs = [k \in Key |-> 0] /\ dropped = FALSE /\ since = [k \in Key |-> Cool]

Catching == pc \notin {"due", "over"}
Up       == pc # "over"

(******************************** the gate ********************************)
Allowed(k) == quiet[k] = 0

\* forgotten: everything held about a Peer that went by a path that says so.
Forget(k) ==
  /\ quiet' = [quiet EXCEPT ![k] = 0]
  /\ deferred' = deferred \ {k}
  /\ weighed' = [weighed EXCEPT ![k] = None]
  /\ dropped' = (dropped \/ k \in deferred)

\* advertised: a dialled Peer whose Handshake named a Height above the tree.
Ahead == {k \in pool : standing[k] > tip}

\* Slip: the Height weighed is not remembered.
Fresh_Always == Ahead

\* claimedOnce: and that was not weighed at this Height before.
Fresh == {k \in Ahead : weighed[k] # standing[k]}

\* Slips: the cooldown is not started; a run longer than it goes below zero.
CoolFor_Never == 0

\* wasted, counted from the start of the Catch-up.
CoolFor == IF ran < Cool THEN Cool - ran ELSE 0

\* Slip: a claim is due only while its Peer is seated.
Due_Seated == {k \in deferred \cap pool : Allowed(k)}

\* dueNow: the claims of Peers outside their cooldown.
Due == {k \in deferred : Allowed(k)}

(******************************** the Peers *******************************)
Mine ==
  /\ chain < MaxHeight
  /\ chain' = chain + 1
  /\ UNCHANGED <<told, pool, gone, standing, wire, tip, set, rebuilding, first, gate, pc,
                 catching, history>>

\* A Handshake finished in Infra.Peers.hearing: an inbound Peer's Height is
\* left out of claimsOf and stands here as 0.
\* What is named there: nothing, the Height the Peer holds, one nobody has.
Claims == {0, chain, MaxHeight + 1}

Seat(k, named) ==
  /\ Up /\ k \notin pool \cup gone /\ \A j \in Key : j < k => j \in pool \cup gone
  /\ k \in Steady => named = chain
  /\ pool' = pool \cup {k}
  /\ standing' = [standing EXCEPT ![k] = named]
  /\ told' = [told EXCEPT ![k] = chain]
  /\ UNCHANGED <<chain, gone, wire, tip, set, rebuilding, first, gate, pc, catching, history>>

Unseated(k) ==
  /\ pool' = pool \ {k}
  /\ gone' = gone \cup {k}
  /\ wire' = [wire EXCEPT ![k] = <<>>]
  /\ UNCHANGED <<chain, told, standing>>

\* The connection closed (Hearing.Went) or the download dropped the Peer: the
\* gate is not told.
Leave(k) ==
  /\ k \in pool \ Steady
  /\ Unseated(k)
  /\ UNCHANGED <<tip, set, rebuilding, first, gate, pc, catching, history>>

\* losingPeer, quietSwept: the Peer broke the protocol or fell silent.
Lose(k) ==
  /\ k \in pool \ Steady
  /\ Unseated(k) /\ Forget(k)
  /\ UNCHANGED <<tip, set, rebuilding, first, pc, catching, costs, since>>

(**************************** hearing a Message ***************************)
\* Slip: a claim made while a Catch-up runs is not kept.
Held_NotBusy(k) == IF Catching THEN deferred ELSE deferred \cup {k}

\* onMoved, holdingBack: the claim is held whether the Peer is quieted or not.
Held(k) == deferred \cup {k}

WantsHeaders(k, m) == m.command = "headers" /\ key = k /\ age # None /\ reply = None

\* handledAnswered, routed: the answer awaited, news, or nothing new.
Heard(k, m) ==
  /\ \/ /\ WantsHeaders(k, m)
        /\ reply' = m
        /\ UNCHANGED <<rebuilding, deferred>>
     \/ /\ ~WantsHeaders(k, m) /\ m.high > tip
        /\ IF m.command = "inv" /\ rebuilding = None
           THEN /\ rebuilding' = [key |-> k, height |-> m.high]    \* askingCompact
                /\ UNCHANGED deferred
           ELSE /\ deferred' = Held(k)                             \* onMoved
                /\ UNCHANGED rebuilding
        /\ UNCHANGED reply
     \/ /\ ~WantsHeaders(k, m) /\ m.high <= tip                   \* ignoredAnnouncement
        /\ UNCHANGED <<rebuilding, deferred, reply>>
  /\ UNCHANGED <<chain, pool, gone, standing, tip, set, first, quiet, weighed, pc, key, why,
                 stood, age, target, ran, history>>

\* A Peer announces a Block once, as an inv or as a headers nobody asked for.
\* How long the Message travels is when it is sent.
Announce(k, command, h) ==
  /\ k \in pool /\ told[k] < h /\ h <= chain
  /\ told' = [told EXCEPT ![k] = h]
  /\ Heard(k, [command |-> command, low |-> h, high |-> h])
  /\ UNCHANGED wire

Answered(k) ==
  /\ k \in pool /\ wire[k] # <<>>
  /\ Heard(k, Head(wire[k]))
  /\ wire' = [wire EXCEPT ![k] = Tail(@)]
  /\ UNCHANGED told

\* storing and putAway when the Header attaches and the Block rebuilds; fellBack
\* otherwise, or at the rebuild's deadline.  The claim is held either way, also
\* for a Peer that has gone meanwhile.
Rebuilt ==
  /\ rebuilding # None
  /\ \/ rebuilding.key \in pool /\ rebuilding.height = tip + 1 /\ tip' = tip + 1
     \/ rebuilding.key \notin Steady /\ UNCHANGED tip
     \/ rebuilding.height # tip + 1 /\ UNCHANGED tip
  /\ deferred' = Held(rebuilding.key)
  /\ rebuilding' = None
  /\ UNCHANGED <<world, wire, set, first, quiet, weighed, pc, catching, history>>

\* turned: every seated Peer's Handshake Height weighed against the tree.
Turned ==
  /\ Up
  /\ deferred' = deferred \cup Fresh
  /\ weighed' = [k \in Key |-> IF k \in Ahead THEN standing[k] ELSE None]
  /\ costs' = [k \in Key |-> costs[k] + (IF k \in Fresh THEN 1 ELSE 0)]
  /\ UNCHANGED <<world, wire, tip, set, rebuilding, first, quiet, pc, catching, dropped, since>>

\* A Steady Peer's answer is there before its deadline.
Tick ==
  /\ Up
  /\ ~(key \in Steady /\ pc = "headers" /\ age = Deadline /\ reply = None)
  /\ quiet' = [k \in Key |-> IF quiet[k] = 0 THEN 0 ELSE quiet[k] - 1]
  /\ age' = IF age = None \/ age > Deadline THEN age ELSE age + 1
  /\ ran' = IF Catching /\ ran < Long THEN ran + 1 ELSE ran
  /\ since' = [k \in Key |-> IF since[k] < Cool THEN since[k] + 1 ELSE Cool]
  /\ UNCHANGED <<world, wire, tip, set, rebuilding, first, deferred, weighed, pc, key, why,
                 stood, reply, target, costs, dropped>>

(******************************** the walk ********************************)
Question == age' = None /\ reply' = None

\* dueAnswered with dueFor: the first Peer seated, then whoever has a claim due.
Take(k) ==
  /\ pc = "due"
  /\ IF first THEN k \in pool /\ k = Min(pool) ELSE k \in Due /\ k = Min(Due)
  /\ first' = FALSE
  /\ deferred' = deferred \ {k}
  /\ key' = k /\ why' = ~first /\ stood' = <<tip, set>> /\ ran' = 0
  /\ Question
  /\ target' = 0
  /\ pc' = "headers"
  /\ UNCHANGED <<world, wire, tip, set, rebuilding, quiet, weighed, history>>

\* askedHeaders: a Peer that is there may answer with what follows the tip.
Ask ==
  /\ pc = "headers" /\ age = None
  /\ age' = 0
  /\ \/ /\ key \in pool
        /\ wire' = [wire EXCEPT ![key] =
                      Append(@, [command |-> "headers", low |-> tip + 1, high |-> chain])]
     \/ key \notin Steady /\ UNCHANGED wire
  /\ UNCHANGED <<world, tip, set, rebuilding, first, gate, pc, key, why, stood, reply, target,
                 ran, history>>

\* headersHeard: a batch that moves the tip is followed by another question.
HeadersHeard ==
  /\ pc = "headers" /\ age # None /\ reply # None
  /\ IF reply.low <= tip + 1 /\ reply.high > tip
     THEN tip' = reply.high /\ UNCHANGED pc
     ELSE pc' = "align" /\ UNCHANGED tip
  /\ Question
  /\ UNCHANGED <<world, wire, set, rebuilding, first, gate, key, why, stood, target, ran, history>>

\* awaitingHeaders: the Peer is gone, or past its deadline.
Unanswered ==
  /\ pc = "headers" /\ age # None /\ reply = None
  /\ key \notin pool \/ age > Deadline
  /\ pc' = "faulted"
  /\ UNCHANGED <<world, wire, tip, set, rebuilding, first, gate, catching, history>>

\* alignedFor, fetchPlanned: the plan runs to the tip as it is now.
Align ==
  /\ pc = "align"
  /\ target' = tip
  /\ pc' = "fetch"
  /\ UNCHANGED <<world, wire, tip, set, rebuilding, first, gate, key, why, stood, age, reply, ran,
                 history>>

\* A slice of the fetch ran out, or the plan is finished.
Landed ==
  /\ pc = "fetch" /\ (pool # {} \/ set = target)
  /\ pc' = "set"
  /\ UNCHANGED <<world, wire, tip, set, rebuilding, first, gate, catching, history>>

\* flownOnce Err: nobody is left to ask for the Blocks of the plan.
FetchFails ==
  /\ pc = "fetch" /\ pool \cap Steady = {} /\ set # target
  /\ pc' = "faulted"
  /\ UNCHANGED <<world, wire, tip, set, rebuilding, first, gate, catching, history>>

\* The Set has a chunk of what landed, and the fetch goes on below the target.
Build ==
  /\ pc = "set"
  /\ \E s \in set .. target :
       /\ s = target \/ s > set
       /\ set' = s
       /\ pc' = IF s = target THEN "moved" ELSE "fetch"
  /\ UNCHANGED <<world, wire, tip, rebuilding, first, gate, catching, history>>

NoCatching ==
  /\ key' = None /\ why' = FALSE /\ stood' = <<0, 0>> /\ target' = 0 /\ ran' = 0
  /\ Question

StoodStill == stood = <<tip, set>>

\* chargedFor: moved lets go of what is held for the Peer, wasted keeps it.
LetGo(k) == IF StoodStill THEN deferred ELSE deferred \ {k}

WhoToAsk ==
  IF ran < Long \/ pool = {} THEN {} ELSE {IF key \in pool THEN key ELSE Min(pool)}

\* caughtMoved: the charge, then one more ask after a long run.
Moved ==
  /\ pc = "moved"
  /\ IF why /\ key \in pool
     THEN /\ quiet' = [quiet EXCEPT ![key] = IF StoodStill THEN CoolFor ELSE 0]
          /\ deferred' = LetGo(key) \cup WhoToAsk
     ELSE /\ deferred' = deferred \cup WhoToAsk
          /\ UNCHANGED quiet
  /\ since' = IF why /\ key \in pool
               THEN [since EXCEPT ![key] = IF StoodStill /\ ran < Cool THEN ran ELSE Cool]
               ELSE since
  /\ dropped' = (dropped \/ ~deferred \subseteq deferred')
  /\ pc' = "due"
  /\ NoCatching
  /\ UNCHANGED <<world, wire, tip, set, rebuilding, first, weighed, costs>>

\* Slip: a Catch-up that failed is tried again on the same Peer.
Onward_Same(left) == IF left = {} THEN None ELSE key

\* onwardTo: the first Peer left.
Onward(left) == IF left = {} THEN None ELSE Min(left)

\* faultedOn: the Peer asked is dropped, and the Catch-up goes on with another
\* under the same claim, or ends with nobody left.
Faulted ==
  /\ pc = "faulted"
  /\ pool' = pool \ {key} /\ gone' = gone \cup {key}
  /\ wire' = [wire EXCEPT ![key] = <<>>]
  /\ Forget(key)
  /\ IF Onward(pool') = None
     THEN pc' = "due" /\ NoCatching
     ELSE /\ key' = Onward(pool') /\ pc' = "headers" /\ target' = 0
          /\ Question
          /\ UNCHANGED <<why, stood, ran>>
  /\ UNCHANGED <<chain, told, standing, tip, set, rebuilding, first, costs, since>>

\* The run ends: a stop, nobody left to dial, or a chain that cannot be
\* followed.  The connections are closed and the gate is gone with the process.
Close ==
  /\ Up
  /\ pc' = "over"
  /\ pool' = {} /\ gone' = Key /\ wire' = [k \in Key |-> <<>>]
  /\ rebuilding' = None
  /\ quiet' = [k \in Key |-> 0] /\ deferred' = {} /\ weighed' = [k \in Key |-> None]
  /\ NoCatching
  /\ UNCHANGED <<chain, told, standing, tip, set, first, history>>

Walk ==
  \/ (\E k \in Key : Take(k)) \/ Ask \/ HeadersHeard \/ Unanswered \/ Align
  \/ Landed \/ FetchFails \/ Build \/ Moved \/ Faulted

Node == (\E k \in Key : Answered(k)) \/ Rebuilt \/ Turned \/ Tick

Peers ==
  \/ \E k \in Key : Leave(k) \/ Lose(k)
  \/ \E k \in Key, command \in {"inv", "headers"}, h \in Height : Announce(k, command, h)
  \/ \E k \in Key, named \in Claims : Seat(k, named)

Next == Mine \/ Peers \/ Node \/ Walk \/ Close

Spec == Init /\ [][Next]_vars

\* The owner answers every request; Peers are seated and heard, a Steady one
\* announces what it holds; time passes.
Fairness ==
  /\ WF_vars(Walk) /\ WF_vars(Rebuilt) /\ WF_vars(Turned) /\ WF_vars(Tick)
  /\ WF_vars(\E k \in Key, named \in Claims : Seat(k, named))
  /\ \A k \in Key : WF_vars(Answered(k))
  /\ \A k \in Steady : WF_vars(\E c \in {"inv", "headers"}, h \in Height : Announce(k, c, h))
  /\ WF_vars(Mine)

FairSpec == Spec /\ Fairness
-----------------------------------------------------------------------------
(***************************************************************************)
(* Properties.                                                             *)
(***************************************************************************)
\* A Peer that names a Height nobody has costs one Catch-up for having said
\* so, however often it is weighed (domain/catchup.av weighingAll, #328).
LieCostsOnce == \A k \in Key : costs[k] <= 1

\* Two Catch-ups in a row on the claims of one seated Peer, the first of which
\* moved nothing, start a cooldown apart: holding claims back, restarting a Catch-up
\* on the Peer and asking it once more after a long run never shorten it
\* (domain/catchup.av wasted, #300).
RateCapped ==
  [][\A k \in pool : pc = "due" /\ pc' = "headers" /\ key' = k /\ why'
       => since[k] = Cool]_vars

\* Every Catch-up ends, whatever the Peers do: each failure costs the pool the
\* Peer it failed on (infra/follow.av faultedOn, #183).
CatchUpEnds == Catching ~> ~Catching

\* A Catch-up that moved nothing and still ran long: the claim held for the
\* one more ask is due at once, before any Peer's with a greater key.
DrawnOut == pc = "moved" /\ pc' = "due" /\ StoodStill /\ ran = Long

\* A claim that is held is acted on, or let go with its Peer, with the run or by
\* a Catch-up on its Peer that moved the chain; the cooldown never keeps it for good,
\* unless Catch-ups that move nothing run long for ever (catchup.av 19-24).
ClaimLetGo ==
  <>[][~DrawnOut]_vars =>
    \A k \in Key : (k \in deferred) ~> (k \notin deferred)

\* With a Steady Peer there are only two ways for the Set to stay below a
\* chain that has stopped growing: the gate threw away a claim made while a
\* Catch-up ran or with the Peer that made it, or the pool was once empty.
FollowsUnless ==
  <>[][~DrawnOut]_vars =>
    \/ <>(pc = "over" \/ dropped)
    \/ <>(~first /\ pool = {})
    \/ <>[](set = chain)

\* domain/catchup.av 19-24 for a node following one Peer that stays: no claim
\* is lost, so the Set comes to stand on the chain's tip.  It does not hold: a
\* Catch-up that ends throws away the claim of a Block rebuilt while it ran.
SetFollows == <>(pc = "over") \/ <>[](set = chain)
=============================================================================
