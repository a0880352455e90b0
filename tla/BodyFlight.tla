----------------------------- MODULE BodyFlight -----------------------------
(***************************************************************************)
(* The download of the Blocks of a range of Heights from a pool of Peers   *)
(* (infra/bodies.av, driven by infra/follow.av flownOnce): Heights wanted, *)
(* handed out under a ceiling for each Peer, owed, filed, or wanted again  *)
(* when their Peer goes, sends a body that is not the Block, or stalls.    *)
(*                                                                         *)
(* Peers are arbitrary: any seated Peer may send any body at any time,     *)
(* asked or not, and go at any time.  The order of the wanted list is left *)
(* out: which wanted Heights a turn hands out is any choice.  Time is      *)
(* counted in ticks since a Block was last filed (heardMs).                *)
(***************************************************************************)
EXTENDS Integers, FiniteSets

CONSTANTS
  Heights,     \* the Heights of the plan
  Peer,      \* every Peer that is ever seated during the download
  Never,     \* the Heights whose Block no chain may hold
  PerPeer,   \* how many Blocks one Peer may owe at once
  Stall,     \* stallMs
  None

ASSUME PlanAssumption == IsFiniteSet(Heights) /\ Never \subseteq Heights
ASSUME BoundsAssumption == PerPeer \in Nat \ {0} /\ Stall \in Nat \ {0} /\ None \notin Peer

VARIABLES
  pool,      \* the Peers that can be asked
  left,      \* the Peers that have gone
  wanted,    \* Plan.wanted
  owed,      \* Plan.owed: who owes each Height, None for one not owed
  onDisk,    \* the Heights whose Block is in a Segment, its Location written or not
  quiet,     \* ticks since a Block was filed
  marked,    \* a Block of the plan was condemned
  fault,     \* the download is grounded by this node's own disk
  pc

fetchVars == <<pool, left, wanted, owed, onDisk, quiet, marked, fault, pc>>

Owed     == {h \in Heights : owed[h] # None}
OwedBy(k) == {h \in Heights : owed[h] = k}
NoOwed   == [h \in Heights |-> None]

\* heightsFrom, takingOff: a range of which some Blocks are on disk already.
FetchInit ==
  /\ pool \in SUBSET Peer /\ left = {}
  /\ wanted = Heights /\ owed = NoOwed
  /\ onDisk \in SUBSET (Heights \ Never)
  /\ quiet = 0 /\ marked = FALSE /\ fault = FALSE /\ pc = "flying"

FetchTypeOK ==
  /\ pool \subseteq Peer /\ left \subseteq Peer \ pool
  /\ wanted \subseteq Heights
  /\ owed \in [Heights -> Peer \cup {None}]
  /\ onDisk \subseteq Heights \ Never
  /\ quiet \in 0 .. Stall + 1
  /\ marked \in BOOLEAN /\ fault \in BOOLEAN
  /\ pc \in {"flying", "landed", "faulted", "failed", "stopped"}

Emptied == wanted = {} /\ Owed = {}

(********************************* the plan *******************************)
\* Slip: what a Peer that has gone owed is taken off it and not wanted again.
Back_Lost(live) == wanted

\* regathered, backUnlessLive: wanted, or owed by a Peer that is not there.
Back(live) == wanted \cup {h \in Owed : owed[h] \notin live}

\* What is still owed once the others have been given back.
Kept(live) == [h \in Heights |-> IF owed[h] \in live THEN owed[h] ELSE None]

\* assignedOn: what a Peer may be given on top of what it owes.
Room(k) == PerPeer - Cardinality(OwedBy(k))

\* One turn's getdata to each Peer, out of what there is to ask for: no Block to
\* two Peers, no Peer above its room, and nothing left while a Peer has room.
Handouts(asking) ==
  {give \in [pool -> SUBSET asking] :
     /\ \A k \in pool : Cardinality(give[k]) <= Room(k)
     /\ \A j, k \in pool : j # k => give[j] \cap give[k] = {}
     /\ \/ UNION {give[k] : k \in pool} = asking
        \/ \A k \in pool : Cardinality(give[k]) = Room(k)}

Given(give) == UNION {give[k] : k \in pool}

\* batching, claimingHeld, requested: a Height held is passed over, each of the
\* others is owed by the Peer that was asked.
Hand(kept, give) ==
  [h \in Heights |-> IF h \in Given(give) THEN CHOOSE k \in pool : h \in give[k] ELSE kept[h]]

\* stallChecked: nothing has been filed for too long and somebody owes.
Stalls(want, owes) == quiet > Stall /\ \E h \in Heights : owes[h] # None

\* stalled: everyone that owes is dropped, whoever it is that was silent.
StallOrKeep(want, owes) ==
  IF Stalls(want, owes)
  THEN /\ pool' = pool \ {owes[h] : h \in Heights}
       /\ left' = left \cup ({owes[h] : h \in Heights} \ {None})
       /\ wanted' = want \cup {h \in Heights : owes[h] # None}
       /\ owed' = NoOwed /\ quiet' = 0
  ELSE /\ wanted' = want /\ owed' = owes
       /\ UNCHANGED <<pool, left, quiet>>

(****************************** one turn of it ****************************)
\* flownFrom with turned: requeued, assigned, then the stall is looked at.
FetchTurns ==
  /\ pc = "flying" /\ ~Emptied /\ pool # {}
  /\ LET want == Back(pool) IN
       \E give \in Handouts(want \ onDisk), passed \in SUBSET (want \cap onDisk) :
         /\ (\E k \in pool : Cardinality(give[k]) < Room(k)) => passed = want \cap onDisk
         /\ StallOrKeep(want \ (Given(give) \cup passed), Hand(Kept(pool), give))
  /\ UNCHANGED <<onDisk, marked, fault, pc>>

\* turned: nobody is left to fetch Blocks from.
FetchFails ==
  /\ pc = "flying" /\ ~Emptied /\ pool = {}
  /\ pc' = "failed"
  /\ UNCHANGED <<pool, left, wanted, owed, onDisk, quiet, marked, fault>>

\* flightLanded, landedWith: the plan is empty.
FetchLands ==
  /\ pc = "flying" /\ Emptied
  /\ pc' = IF fault THEN "faulted" ELSE "landed"
  /\ UNCHANGED <<pool, left, wanted, owed, onDisk, quiet, marked, fault>>

\* A stop was asked for: the download lands where it is.
FetchStops ==
  /\ pc = "flying"
  /\ pc' = "stopped"
  /\ UNCHANGED <<pool, left, wanted, owed, onDisk, quiet, marked, fault>>

(******************************* a Block landed ***************************)
\* Slip: any Block resets the clock of the stall.
Passed_Resets == quiet' = 0

\* matched: a Block nobody owes.
Passed == quiet' = quiet

PassOver(k, h) ==
  /\ pc = "flying" /\ k \in pool /\ h \in Heights /\ owed[h] = None
  /\ Passed
  /\ UNCHANGED <<pool, left, wanted, owed, onDisk, marked, fault, pc>>

\* Slip: the Height stays owed once its Block is filed.
Off_Kept(h) == owed

\* Map.remove(plan.owed, blockId).
Off(h) == [owed EXCEPT ![h] = None]

\* Domain.Body.fault says Sound of a body sent for one of these.
Sound == Owed \ Never

\* kept, filedAt: whoever sent it.
File(k, h) ==
  /\ pc = "flying" /\ k \in pool /\ h \in Sound
  /\ onDisk' = onDisk \cup {h}
  /\ owed' = Off(h)
  /\ quiet' = 0
  /\ UNCHANGED <<pool, left, wanted, marked, fault, pc>>

EmptyPlan == wanted' = {} /\ owed' = NoOwed

\* append or a batch of Locations failed: grounded.
Ground(k, h) ==
  /\ pc = "flying" /\ k \in pool /\ h \in Sound
  /\ EmptyPlan
  /\ fault' = TRUE
  /\ UNCHANGED <<pool, left, onDisk, quiet, marked, pc>>

Shed(k) == pool' = pool \ {k} /\ left' = left \cup {k}

\* poisoned: a body that is not the Block costs the pool the Peer that owes it,
\* which need not be the one that sent it.
Poison(k, h) ==
  /\ pc = "flying" /\ k \in pool /\ h \in Owed
  /\ Shed(owed[h])
  /\ wanted' = Back(pool \ {owed[h]})
  /\ owed' = Kept(pool \ {owed[h]})
  /\ UNCHANGED <<onDisk, quiet, marked, fault, pc>>

\* condemned: the Header is marked invalid and the plan emptied.
Condemn(k, h) ==
  /\ pc = "flying" /\ k \in pool /\ h \in Owed \cap Never
  /\ Shed(owed[h])
  /\ EmptyPlan
  /\ marked' = TRUE
  /\ UNCHANGED <<onDisk, quiet, fault, pc>>

(*********************************** Peers ********************************)
Seat(k) ==
  /\ k \in Peer \ (pool \cup left)
  /\ pool' = pool \cup {k}
  /\ UNCHANGED <<left, wanted, owed, onDisk, quiet, marked, fault, pc>>

Leave(k) ==
  /\ k \in pool
  /\ Shed(k)
  /\ UNCHANGED <<wanted, owed, onDisk, quiet, marked, fault, pc>>

Tick ==
  /\ pc = "flying" /\ quiet <= Stall
  /\ quiet' = quiet + 1
  /\ UNCHANGED <<pool, left, wanted, owed, onDisk, marked, fault, pc>>

Sent == \E k \in Peer, h \in Heights :
  PassOver(k, h) \/ File(k, h) \/ Ground(k, h) \/ Poison(k, h) \/ Condemn(k, h)

FetchNext == FetchTurns \/ FetchFails \/ FetchLands \/ FetchStops \/ Sent \/ (\E k \in Peer : Seat(k) \/ Leave(k)) \/ Tick

FetchSpec == FetchInit /\ [][FetchNext]_fetchVars

\* The walk asks for its next turn, and time passes.  Nothing is asked of Peers.
FetchFairSpec == FetchSpec /\ WF_fetchVars(FetchTurns \/ FetchFails \/ FetchLands) /\ WF_fetchVars(Tick)
-----------------------------------------------------------------------------
(***************************************************************************)
(* Properties.                                                             *)
(***************************************************************************)
\* No Height is lost or asked for twice: until the plan is thrown away each is
\* wanted, owed or on disk, never wanted and owed, never owed and on disk.
EachHeightOnce ==
  /\ wanted \cap Owed = {} /\ Owed \cap onDisk = {}
  /\ marked \/ fault \/ Heights \subseteq wanted \cup Owed \cup onDisk

\* No Peer owes more than its ceiling, whatever was requeued or given back.
RoomKept == \A k \in Peer : Cardinality(OwedBy(k)) <= PerPeer

\* A download that lands has every Block of its range, unless one of them was
\* condemned; the Set is then built on no gap (bodies.av 784-806).
LandedIsWhole == pc = "landed" => marked \/ Heights \subseteq onDisk

\* The download ends whatever the Peers do, silence and bodies nobody owes
\* included (bodies.av stalled: "Dropping is what makes the walk finish").
FlightEnds == <>(pc # "flying")
=============================================================================
