-------------------------- MODULE BlockFilesProofs --------------------------
(***************************************************************************)
(* Proofs about BlockFiles, for every set of Blocks, every record length,  *)
(* cap, batch and bound.  The count and the Locations are proved right     *)
(* until a failed download is put down from a count older than the node's  *)
(* (stale), and the Locations as long as no rewrite of a Segment is cut    *)
(* short or met by a power cut (lost); TLC shows both fail after it.       *)
(*                                                                         *)
(* The argument: a Location held back names its own record, and what it    *)
(* names is durable or in a Segment the next sync covers, seen from the    *)
(* node's count and from the download's own copy alike (PendingOK); so     *)
(* what a sync has let through is durable (CallOK), and a power cut keeps  *)
(* it.  A record lands where its Location says because the count is the    *)
(* file's length, which rests on the copy put down after a failure being   *)
(* the node's own (FlightIsCount).                                         *)
(***************************************************************************)
EXTENDS BlockFiles, BodyFlight, FiniteSetTheorems, TLAPS

(* What the directory always is.                                           *)
DiskOK ==
  /\ \A s \in Segments : kept[s] <= size[s]
  /\ \A s \in Segments : \A r \in held[s] : EndOf(r) <= size[s]
  /\ \A s \in Segments : s \notin there => size[s] = 0
  /\ entered \subseteq there

EntriesOK(entries, unsynced) ==
  \A e \in entries : Names(e) /\ (Durable(e) \/ e.segment \in unsynced)

(* The same of given entries, after the step.                              *)
WillBeOK(entries, unsynced) ==
  \A e \in entries : Names(e)' /\ (Durable(e)' \/ e.segment \in unsynced)

SameCount(c, d) == c.segment = d.segment /\ c.used = d.used

PendingOK ==
  flight.on => /\ EntriesOK(flight.pending, flight.blocks.unsynced)
               /\ EntriesOK(flight.pending, count.unsynced)

FlightIsCount == Compact = {} /\ flight.on => flight.blocks = count

CallOK ==
  /\ call.step = "sync" => EntriesOK(call.entries, call.blocks.unsynced)
  /\ call.step = "put" => EntriesOK(call.entries, {})
  /\ call.step = "sync" /\ Shared => call.blocks = count
  /\ call.step # "none" /\ call.end # "stop" => SameCount(call.blocks, count)
  /\ call.end = "rebuilt" => Compact # {}

DownHoldsNothing == ~up => flight = NoFlight /\ call = NoCall

(* A Location names its record, durable or in a Segment rewritten in place  *)
(* that nothing has synced since.                                           *)
Stands(e) == Names(e) /\ (Durable(e) \/ e.segment \in bare)

LocationsSound == lost \/ LocationsHold

IInv ==
  PartsTyped /\ DiskOK /\ CountIsLength /\ PendingOK /\ FlightIsCount /\ CallOK
         /\ DownHoldsNothing /\ LocationsSound

(* Steps that only add to what is written and to what is durable.          *)
Grows ==
  /\ \A s \in Segments : held[s] \subseteq held'[s] /\ kept[s] <= kept'[s]
  /\ there \subseteq there'
  /\ entered \subseteq entered'

EntryOf(b) == [block |-> b, segment |-> index[b].segment, at |-> index[b].at]

-----------------------------------------------------------------------------
LEMMA SegmentsAreNat == Segments \subseteq Nat /\ 0 \in Segments /\ LastSegment \in Segments
BY BoundAssumption DEF Segments

LEMMA FreshIsAStore == Fresh \in Stores
BY SegmentsAreNat DEF Fresh, Stores

LEMMA LengthsAreNat == Lengths \subseteq Nat
BY DEF Lengths

(* A Block placed within the bound: the store it leaves and the Location    *)
(* it gets.                                                                 *)
LEMMA PlaceFits ==
  ASSUME NEW c \in Stores, NEW b \in Blocks, Place(c, b).segment <= LastSegment
  PROVE  /\ Place(c, b).segment \in Segments
         /\ Place(c, b).at \in Nat
         /\ Appended(c, b) \in Stores
         /\ EntryFor(c, b) \in Entries
         /\ Appended(c, b).segment = Place(c, b).segment
         /\ Appended(c, b).used = Place(c, b).at + Len[b]
         /\ Appended(c, b).unsynced = c.unsynced \cup {Place(c, b).segment}
         /\ EntryFor(c, b).block = b
         /\ EntryFor(c, b).segment = Place(c, b).segment
         /\ EntryFor(c, b).at = Place(c, b).at
<1>1. c.segment \in Segments /\ c.used \in Nat /\ c.unsynced \in SUBSET Segments
  BY DEF Stores
<1>2. Len[b] \in Nat
  BY LenAssumption
<1>3. c.segment \in Nat /\ c.segment + 1 \in Nat
  BY <1>1, BoundAssumption DEF Segments
<1>4. Place(c, b).segment \in {c.segment, c.segment + 1} /\ Place(c, b).at \in {0, c.used}
  BY DEF Place
<1>5. Place(c, b).segment \in Segments /\ Place(c, b).at \in Nat
  BY <1>1, <1>3, <1>4, BoundAssumption DEF Segments
<1> QED
  BY <1>1, <1>2, <1>5 DEF Appended, EntryFor, Stores, Entries

(* The record lands where its Location says.                                *)
LEMMA PlacedAtTheEnd ==
  ASSUME PartsTyped, DiskOK, CountIsLength, up, NEW b \in Blocks,
         Place(count, b).segment <= LastSegment
  PROVE  size[Place(count, b).segment] = Place(count, b).at
<1>1. count.segment \in Segments /\ count.used \in Nat
  BY DEF PartsTyped, Stores
<1>2. Place(count, b).segment \in Segments
  BY PlaceFits DEF PartsTyped
<1>3. CASE count.used > 0 /\ count.used + Len[b] > Cap
  <2>1. Place(count, b).segment = count.segment + 1 /\ Place(count, b).at = 0
    BY <1>3 DEF Place
  <2>2. count.segment + 1 \notin there
    BY <1>1, BoundAssumption DEF CountIsLength, Segments
  <2> QED
    BY <1>2, <2>1, <2>2 DEF DiskOK
<1>4. CASE ~(count.used > 0 /\ count.used + Len[b] > Cap)
  BY <1>4 DEF Place, CountIsLength
<1> QED
  BY <1>3, <1>4

LEMMA StaysTrue ==
  ASSUME PartsTyped, PartsTyped', Grows, NEW e \in Entries
  PROVE  (Names(e) => Names(e)') /\ (Durable(e) => Durable(e)')
<1>1. e.segment \in Segments /\ e.at \in Nat /\ e.block \in Blocks
  BY DEF Entries
<1>2. Len[e.block] \in Nat
  BY <1>1, LenAssumption
<1>3. kept[e.segment] \in Nat /\ kept'[e.segment] \in Nat
  BY <1>1 DEF PartsTyped
<1> QED
  BY <1>1, <1>2, <1>3 DEF Grows, Names, Durable

LEMMA EntriesStayOK ==
  ASSUME PartsTyped, PartsTyped', Grows, NEW entries \in SUBSET Entries, NEW u, NEW v, u \subseteq v
  PROVE  EntriesOK(entries, u) => WillBeOK(entries, v)
BY StaysTrue DEF EntriesOK, WillBeOK

LEMMA EntryOfType ==
  ASSUME PartsTyped, NEW b \in Blocks, index[b] # NoLocation
  PROVE  EntryOf(b) \in Entries
BY DEF PartsTyped, Location, Entries, EntryOf

(* A step keeps the Locations when it keeps each one sound.                  *)
LEMMA LocationsStay ==
  ASSUME PartsTyped, LocationsHold, UNCHANGED index,
         \A e \in Entries : Stands(e) => Stands(e)'
  PROVE  LocationsHold'
<1> SUFFICES ASSUME NEW b \in Blocks, index[b] # NoLocation
             PROVE  Stands(EntryOf(b))'
  BY DEF LocationsHold, EntryOf, Stands
<1>1. EntryOf(b) \in Entries /\ EntryOf(b)' = EntryOf(b)
  BY EntryOfType DEF EntryOf
<1>2. Stands(EntryOf(b))
  BY DEF LocationsHold, EntryOf, Stands
<1> QED
  BY <1>1, <1>2 DEF Stands, Names, Durable

LEMMA LocationsStayTrue ==
  ASSUME PartsTyped, PartsTyped', Grows, LocationsSound, UNCHANGED <<index, bare, lost>>
  PROVE  LocationsSound'
<1>1. \A e \in Entries : Stands(e) => Stands(e)'
  BY StaysTrue DEF Stands
<1> QED
  BY <1>1, LocationsStay DEF LocationsSound

LEMMA DiskUnchangedGrows ==
  ASSUME PartsTyped, UNCHANGED diskVars
  PROVE  Grows /\ (DiskOK => DiskOK')
BY DEF PartsTyped, diskVars, Grows, DiskOK, EndOf

(* What writing a record and syncing do to the directory.                   *)
LEMMA WriteGrows ==
  ASSUME PartsTyped, DiskOK, NEW s \in Segments, NEW b \in Blocks, WriteRecord(s, b)
  PROVE  /\ held' \in [Segments -> SUBSET Records] /\ size' \in [Segments -> Nat]
         /\ kept' \in [Segments -> Nat] /\ there' \in SUBSET Segments
         /\ entered' \in SUBSET Segments /\ UNCHANGED <<bare, lost>>
         /\ Grows
         /\ DiskOK'
         /\ size'[s] = size[s] + Len[b]
         /\ [at |-> size[s], block |-> b] \in held'[s]
         /\ there' = there \cup {s}
<1>1. Len[b] \in Nat /\ size[s] \in Nat /\ [at |-> size[s], block |-> b] \in Records
  BY LenAssumption DEF PartsTyped, Records
<1>2. \A t \in Segments :
        /\ held'[t] = IF t = s THEN held[t] \cup {[at |-> size[s], block |-> b]} ELSE held[t]
        /\ size'[t] = IF t = s THEN size[s] + Len[b] ELSE size[t]
  BY DEF WriteRecord, PartsTyped
<1>3. /\ held' \in [Segments -> SUBSET Records] /\ size' \in [Segments -> Nat]
      /\ kept' \in [Segments -> Nat] /\ there' \in SUBSET Segments
      /\ entered' \in SUBSET Segments
  BY <1>1 DEF WriteRecord, PartsTyped
<1>4. Grows
  BY <1>2 DEF Grows, WriteRecord, PartsTyped
<1>5. \A t \in Segments : kept'[t] <= size'[t] /\ (t \notin there' => size'[t] = 0)
  BY <1>1, <1>2 DEF DiskOK, WriteRecord, PartsTyped
<1>6. \A t \in Segments : \A r \in held'[t] : EndOf(r) <= size'[t]
  <2> SUFFICES ASSUME NEW t \in Segments, NEW r \in held'[t]
               PROVE  EndOf(r) <= size'[t]
    OBVIOUS
  <2>1. CASE r \in held[t]
    <3>1. r \in Records /\ EndOf(r) \in Nat /\ EndOf(r) <= size[t] /\ size[t] \in Nat
      BY <2>1, LenAssumption DEF PartsTyped, DiskOK, Records, EndOf
    <3>2. size'[t] = size[t] \/ size'[t] = size[t] + Len[b]
      BY <1>2
    <3> QED
      BY <1>1, <3>1, <3>2
  <2>2. CASE r \notin held[t]
    <3>1. t = s /\ r = [at |-> size[s], block |-> b]
      BY <1>2, <2>2
    <3>2. EndOf(r) = size[s] + Len[b]
      BY <3>1 DEF EndOf
    <3>3. size'[t] = size[s] + Len[b]
      BY <1>2, <3>1
    <3> QED
      BY <1>1, <3>2, <3>3
  <2> QED
    BY <2>1, <2>2
<1>7. DiskOK'
  <2>1. entered' \subseteq there'
    BY DEF DiskOK, WriteRecord
  <2> QED
    BY <1>5, <1>6, <2>1 DEF DiskOK, EndOf
<1> QED
  BY <1>2, <1>3, <1>4, <1>7 DEF WriteRecord

LEMMA SyncGrows ==
  ASSUME PartsTyped, DiskOK, NEW c \in Stores, SyncFiles(c)
  PROVE  /\ kept' \in [Segments -> Nat] /\ entered' \in SUBSET Segments
         /\ bare' \in SUBSET Segments /\ bare' = bare \ c.unsynced
         /\ Grows
         /\ DiskOK'
         /\ \A s \in c.unsynced : kept'[s] = size[s]
         /\ entered' = there
<1>1. \A s \in Segments : kept'[s] = IF s \in c.unsynced THEN size[s] ELSE kept[s]
  BY DEF SyncFiles
<1>2. c.unsynced \subseteq Segments
  BY DEF Stores
<1> QED
  BY <1>1, <1>2 DEF SyncFiles, PartsTyped, DiskOK, Grows, EndOf

(* What a sync covers is durable after it.                                  *)
LEMMA SyncedEntries ==
  ASSUME PartsTyped, PartsTyped', DiskOK, NEW c \in Stores, SyncFiles(c),
         NEW entries \in SUBSET Entries, EntriesOK(entries, c.unsynced)
  PROVE  WillBeOK(entries, {})
<1> SUFFICES ASSUME NEW e \in entries
             PROVE  Names(e)' /\ Durable(e)'
  BY DEF WillBeOK
<1>1. Names(e) /\ (Durable(e) \/ e.segment \in c.unsynced)
  BY DEF EntriesOK
<1>2. e \in Entries /\ Grows
  BY SyncGrows
<1>3. Names(e)' /\ (Durable(e) => Durable(e)')
  BY <1>1, <1>2, StaysTrue
<1>4. ASSUME e.segment \in c.unsynced PROVE Durable(e)'
  <2>1. kept'[e.segment] = size[e.segment] /\ entered' = there
    BY <1>4, SyncGrows
  <2>2. e.segment \in Segments /\ EndOf([at |-> e.at, block |-> e.block]) <= size[e.segment]
    BY <1>1, <1>2 DEF Names, DiskOK, Entries
  <2>3. e.at + Len[e.block] <= size[e.segment]
    BY <2>2 DEF EndOf
  <2> QED
    BY <1>1, <2>1, <2>3 DEF Durable, Names
<1> QED
  BY <1>1, <1>3, <1>4

-----------------------------------------------------------------------------
NodeTypes ==
  /\ up \in BOOLEAN
  /\ count \in Stores
  /\ flight \in [on : BOOLEAN, blocks : Stores, owed : SUBSET Blocks,
                 pending : SUBSET Entries, fault : BOOLEAN]
  /\ call \in [step : {"none", "sync", "put"}, end : Ends \cup {"none"},
               blocks : Stores, entries : SUBSET Entries]

NodeOK ==
  NodeTypes /\ CountIsLength /\ PendingOK /\ FlightIsCount /\ CallOK /\ DownHoldsNothing

(* A node that is not running holds nothing.                                *)
LEMMA DownIsOK ==
  ASSUME Down
  PROVE  NodeOK'
BY FreshIsAStore
   DEF Down, NodeOK, NodeTypes, CountIsLength, PendingOK, FlightIsCount, CallOK, NoFlight, NoCall,
       DownHoldsNothing

(* The node's part of the invariant is kept when only the node's own parts  *)
(* that it speaks of are.                                                   *)
LEMMA SameFiles ==
  ASSUME IInv, UNCHANGED <<diskVars, index>>
  PROVE  /\ DiskOK' /\ LocationsSound'
         /\ \A entries, u : EntriesOK(entries, u) => WillBeOK(entries, u)
BY DEF IInv, DiskOK, LocationsSound, LocationsHold, EntriesOK, WillBeOK, Names, Durable, EndOf,
       diskVars

LEMMA SettleType ==
  ASSUME NEW end \in Ends, NEW c \in Stores, NEW entries \in SUBSET Entries
  PROVE  /\ Settle(end, c, entries) \in
               [step : {"none", "sync", "put"}, end : Ends \cup {"none"},
                blocks : Stores, entries : SUBSET Entries]
         /\ Settle(end, c, entries).step = "sync"
         /\ Settle(end, c, entries).end = end
         /\ Settle(end, c, entries).blocks = c
         /\ Settle(end, c, entries).entries = entries
BY DEF Settle

(* The invariants about entries, after a step.                              *)
LEMMA PendingAfter ==
  ASSUME flight'.on => /\ WillBeOK(flight'.pending, flight'.blocks.unsynced)
                       /\ WillBeOK(flight'.pending, count'.unsynced)
  PROVE  PendingOK'
BY DEF PendingOK, EntriesOK, WillBeOK, Names, Durable

LEMMA CallAfter ==
  ASSUME call'.step = "sync" => WillBeOK(call'.entries, call'.blocks.unsynced),
         call'.step = "put" => WillBeOK(call'.entries, {}),
         call'.step = "sync" /\ call'.end \in {"fly", "land", "rebuilt"}
           => call'.blocks = count',
         call'.step # "none" /\ call'.end # "stop" => SameCount(call'.blocks, count'),
         call'.end = "rebuilt" => Compact # {}
  PROVE  CallOK'
BY DEF CallOK, EntriesOK, WillBeOK, Names, Durable, Shared, SameCount

LEMMA ClosingIsOK ==
  ASSUME IInv, Closing, UNCHANGED <<diskVars, index>>
  PROVE  NodeOK'
<1>1. CASE flight.on /\ ~flight.fault
  <2>1. call' = Settle("stop", flight.blocks, flight.pending) /\ UNCHANGED <<up, count, flight>>
    BY <1>1 DEF Closing
  <2>2. flight.blocks \in Stores /\ flight.pending \in SUBSET Entries
    BY DEF IInv, PartsTyped
  <2>3. /\ call'.step = "sync" /\ call'.end = "stop" /\ call'.blocks = flight.blocks
        /\ call'.entries = flight.pending
    BY <2>1 DEF Settle
  <2>4. NodeTypes'
    BY <2>1, <2>2, SettleType DEF IInv, PartsTyped, NodeTypes, Ends
  <2>5. /\ WillBeOK(flight.pending, flight.blocks.unsynced)
        /\ WillBeOK(flight.pending, count.unsynced)
    BY <1>1, SameFiles DEF IInv, PendingOK
  <2>6. CallOK' /\ PendingOK'
    BY <2>1, <2>3, <2>5, CallAfter, PendingAfter
  <2>7. CountIsLength' /\ FlightIsCount'
    BY <2>1 DEF IInv, CountIsLength, FlightIsCount, diskVars
  <2> QED
    BY <1>1, <2>1, <2>4, <2>5, <2>6, <2>7 DEF NodeOK, DownHoldsNothing, IInv, NoFlight
<1>2. CASE ~(flight.on /\ ~flight.fault)
  BY <1>2, DownIsOK DEF Closing
<1> QED
  BY <1>1, <1>2

LEMMA Assemble ==
  ASSUME PartsTyped', DiskOK', NodeOK', LocationsSound'
  PROVE  IInv'
BY DEF IInv, NodeOK

(* PartsTyped from its two halves.                                              *)
LEMMA TypesFromParts ==
  ASSUME PartsTyped, UNCHANGED <<diskVars, index>>, NodeTypes',
         unplaced' \in SUBSET Compact, ends' \in Nat, fails' \in Nat
  PROVE  PartsTyped'
BY DEF PartsTyped, NodeTypes, diskVars

-----------------------------------------------------------------------------
(* One lemma per action.                                                    *)
LEMMA TakeOffKeeps ==
  ASSUME IInv, TakeOff
  PROVE  IInv'
<1>1. PICK news \in {{}, unplaced} :
        LET owing == {b \in Blocks : index[b] = NoLocation /\ b \notin unplaced \ news}
        IN  /\ flight' = [NoFlight EXCEPT !.on = TRUE, !.blocks = count, !.owed = owing]
            /\ unplaced' = unplaced \ news
  BY DEF TakeOff
<1>2. UNCHANGED <<diskVars, index>> /\ UNCHANGED <<up, count, call, ends, fails>>
  BY DEF TakeOff
<1>3. PICK owing \in SUBSET Blocks :
        flight' = [on |-> TRUE, blocks |-> count, owed |-> owing, pending |-> {}, fault |-> FALSE]
  BY <1>1 DEF NoFlight
<1>4. NodeTypes' /\ unplaced' \in SUBSET Compact
  <2>1. unplaced' \in SUBSET Compact
    BY <1>1 DEF IInv, PartsTyped
  <2>2. flight' \in [on : BOOLEAN, blocks : Stores, owed : SUBSET Blocks,
                     pending : SUBSET Entries, fault : BOOLEAN]
    BY <1>3 DEF IInv, PartsTyped
  <2> QED
    BY <1>2, <2>1, <2>2 DEF IInv, PartsTyped, NodeTypes
<1>5. PartsTyped'
  BY <1>2, <1>4, TypesFromParts DEF IInv, PartsTyped
<1>6. CountIsLength' /\ FlightIsCount' /\ PendingOK'
  BY <1>2, <1>3 DEF IInv, CountIsLength, FlightIsCount, PendingOK, EntriesOK, diskVars
<1>7. CallOK'
  BY <1>2 DEF IInv, CallOK, TakeOff, Ready, NoCall
<1> QED
  BY <1>2, <1>4, <1>5, <1>6, <1>7, SameFiles, Assemble DEF NodeOK, DownHoldsNothing, TakeOff, Ready

LEMMA TurnKeeps ==
  ASSUME IInv, Turn
  PROVE  IInv'
<1>1. UNCHANGED <<diskVars, index>> /\ UNCHANGED <<up, count, call, unplaced, ends, fails>>
  BY DEF Turn
<1>2. /\ flight'.on = flight.on /\ flight'.blocks = count /\ flight'.pending = flight.pending
      /\ NodeTypes'
  BY <1>1 DEF Turn, IInv, PartsTyped, NodeTypes
<1>3. PartsTyped'
  BY <1>1, <1>2, TypesFromParts DEF IInv, PartsTyped
<1>4. CountIsLength' /\ FlightIsCount'
  BY <1>1, <1>2 DEF IInv, CountIsLength, FlightIsCount, diskVars
<1>5. PendingOK'
  BY <1>1, <1>2, SameFiles, PendingAfter DEF IInv, PendingOK, Turn
<1>6. CallOK'
  BY <1>1 DEF CallOK, Turn, Ready, NoCall
<1> QED
  BY <1>1, <1>2, <1>3, <1>4, <1>5, <1>6, SameFiles, Assemble DEF NodeOK, DownHoldsNothing, Turn, Ready

LEMMA LandFlightKeeps ==
  ASSUME IInv, LandFlight
  PROVE  IInv'
<1>1. UNCHANGED <<diskVars, index>> /\ UNCHANGED <<up, count, flight, unplaced, ends, fails>>
  BY DEF LandFlight
<1>2. /\ call'.step = "sync" /\ call'.end = "land" /\ call'.blocks = count
      /\ call'.entries = flight.pending
  BY DEF LandFlight, Settle
<1>3. NodeTypes'
  BY <1>1, SettleType DEF LandFlight, IInv, PartsTyped, NodeTypes, Ends
<1>4. PartsTyped'
  BY <1>1, <1>3, TypesFromParts DEF IInv, PartsTyped
<1>5. CountIsLength' /\ FlightIsCount'
  BY <1>1 DEF IInv, CountIsLength, FlightIsCount, diskVars
<1>6. PendingOK'
  BY <1>1, SameFiles, PendingAfter DEF IInv, PendingOK
<1>7. CallOK'
  BY <1>1, <1>2, SameFiles, CallAfter DEF IInv, PendingOK, LandFlight, SameCount
<1> QED
  BY <1>1, <1>3, <1>4, <1>5, <1>6, <1>7, SameFiles, Assemble DEF NodeOK, DownHoldsNothing, LandFlight, Ready

LEMMA FlightFailsKeeps ==
  ASSUME IInv, ~PutsDownOldCount, FlightFails
  PROVE  IInv'
<1>1. UNCHANGED <<diskVars, index>> /\ UNCHANGED <<up, count, flight, unplaced, ends>>
  BY DEF FlightFails
<1>2. /\ call'.step = "sync" /\ call'.end = "fail" /\ call'.blocks = flight.blocks
      /\ call'.entries = flight.pending
  BY DEF FlightFails, Settle
<1>3. NodeTypes' /\ fails' \in Nat
  BY <1>1, SettleType DEF FlightFails, IInv, PartsTyped, NodeTypes, Ends
<1>4. PartsTyped'
  BY <1>1, <1>3, TypesFromParts DEF IInv, PartsTyped
<1>5. CountIsLength' /\ FlightIsCount'
  BY <1>1 DEF IInv, CountIsLength, FlightIsCount, diskVars
<1>6. PendingOK'
  BY <1>1, SameFiles, PendingAfter DEF IInv, PendingOK
<1>7. SameCount(flight.blocks, count)
  BY DEF PutsDownOldCount, SameCount
<1>8. CallOK'
  BY <1>1, <1>2, <1>7, SameFiles, CallAfter DEF IInv, PendingOK, FlightFails, SameCount
<1> QED
  BY <1>1, <1>3, <1>4, <1>5, <1>6, <1>8, SameFiles, Assemble DEF NodeOK, DownHoldsNothing, FlightFails, Ready

(* The endings.                                                             *)
LEMMA EndingKeeps ==
  ASSUME IInv, NodeOK', UNCHANGED <<diskVars, index>>,
         unplaced' \in SUBSET Compact, ends' \in Nat, fails' \in Nat
  PROVE  IInv'
<1>1. PartsTyped'
  BY TypesFromParts DEF IInv, NodeOK
<1> QED
  BY <1>1, SameFiles, Assemble

LEMMA GroundedKeeps ==
  ASSUME IInv, Grounded
  PROVE  IInv'
BY DownIsOK, EndingKeeps DEF Grounded, IInv, PartsTyped

LEMMA StopKeeps ==
  ASSUME IInv, Stop
  PROVE  IInv'
BY ClosingIsOK, EndingKeeps DEF Stop, Ending, IInv, PartsTyped

LEMMA DieKeeps ==
  ASSUME IInv, Die
  PROVE  IInv'
BY DownIsOK, EndingKeeps DEF Die, Ending, IInv, PartsTyped

LEMMA SyncRefusedKeeps ==
  ASSUME IInv, SyncRefused
  PROVE  IInv'
<1>1. UNCHANGED <<diskVars, index>> /\ UNCHANGED <<unplaced, ends, fails>>
  BY DEF SyncRefused
<1>2. call.step = "sync" /\ ~Counted(call.blocks) /\ up
  BY DEF SyncRefused
<1>3. call.end = "stop" \/ Counted(call.blocks)
  BY <1>2 DEF IInv, CallOK, SameCount, CountIsLength, Counted
<1>4. call.end = "stop"
  BY <1>2, <1>3
<1>5. Down
  BY <1>4 DEF SyncRefused
<1> QED
  BY <1>1, <1>5, DownIsOK, EndingKeeps DEF IInv, PartsTyped

(* A record written under the node's count: the entry it gets, and what the *)
(* entries held back are afterwards.                                        *)
LEMMA RecordNamed ==
  ASSUME IInv, up, PartsTyped', NEW b \in Blocks, Place(count, b).segment <= LastSegment,
         WriteRecord(Place(count, b).segment, b), up' = up, count' = Appended(count, b)
  PROVE  /\ CountIsLength'
         /\ WillBeOK({EntryFor(count, b)}, Appended(count, b).unsynced)
         /\ \A entries \in SUBSET Entries :
              EntriesOK(entries, count.unsynced)
                => WillBeOK(entries, Appended(count, b).unsynced)
<1> DEFINE s == Place(count, b).segment
<1>1. count \in Stores
  BY DEF IInv, PartsTyped
<1>2. /\ s \in Segments
      /\ Appended(count, b).segment = s /\ Appended(count, b).used = Place(count, b).at + Len[b]
      /\ Appended(count, b).unsynced = count.unsynced \cup {s}
      /\ EntryFor(count, b).block = b /\ EntryFor(count, b).segment = s
      /\ EntryFor(count, b).at = Place(count, b).at
  BY <1>1, PlaceFits
<1>3. size[s] = Place(count, b).at
  BY PlacedAtTheEnd DEF IInv
<1>4. /\ Grows /\ size'[s] = size[s] + Len[b]
      /\ [at |-> size[s], block |-> b] \in held'[s]
      /\ there' = there \cup {s}
  BY <1>2, WriteGrows DEF IInv
<1>5. CountIsLength'
  <2>1. count'.used = size'[count'.segment]
    BY <1>2, <1>3, <1>4
  <2>2. \A t \in there : t <= s
    <3>1. s = count.segment \/ s = count.segment + 1
      BY DEF Place
    <3>2. count.segment \in Nat /\ there \subseteq Nat
      BY <1>1, SegmentsAreNat DEF Stores, IInv, PartsTyped
    <3>3. \A t \in there : t <= count.segment
      BY DEF IInv, CountIsLength
    <3> QED
      BY <3>1, <3>2, <3>3
  <2>3. s <= s
    BY <1>2 DEF Segments
  <2> QED
    BY <1>2, <1>4, <2>1, <2>2, <2>3 DEF CountIsLength
<1>6. WillBeOK({EntryFor(count, b)}, Appended(count, b).unsynced)
  <2> SUFFICES ASSUME NEW e \in {EntryFor(count, b)}
               PROVE  Names(e)' /\ e.segment \in Appended(count, b).unsynced
    BY DEF WillBeOK
  <2>1. e.block = b /\ e.segment = s /\ e.at = size[s]
    BY <1>2, <1>3
  <2> QED
    BY <1>2, <1>4, <2>1 DEF Names
<1>7. \A entries \in SUBSET Entries :
         EntriesOK(entries, count.unsynced)
           => WillBeOK(entries, Appended(count, b).unsynced)
  BY <1>2, <1>4, EntriesStayOK DEF IInv
<1> QED
  BY <1>5, <1>6, <1>7

LEMMA LandKeeps ==
  ASSUME IInv, NEW b \in Blocks, Land(b)
  PROVE  IInv'
<1> DEFINE store == Appended(count, b)
           pending == flight.pending \cup {EntryFor(count, b)}
<1>1. /\ up /\ call = NoCall /\ flight.on /\ Place(count, b).segment <= LastSegment
      /\ UNCHANGED <<index, unplaced, up, ends, fails>>
  BY DEF Land, Ready
<1>2. count \in Stores /\ flight.pending \in SUBSET Entries
  BY DEF IInv, PartsTyped
<1>3. CountedIfFirst(count)
  BY <1>1 DEF CountedIfFirst, Counted, IInv, CountIsLength
<1>4. /\ WriteRecord(Place(count, b).segment, b)
      /\ count' = store
      /\ flight' = [flight EXCEPT !.blocks = store, !.pending = pending, !.owed = @ \ {b}]
      /\ call' = IF Cardinality(pending) >= Batch THEN Settle("fly", store, pending) ELSE call
  BY <1>3 DEF Land
<1>5. store \in Stores /\ pending \in SUBSET Entries /\ Place(count, b).segment \in Segments
  BY <1>1, <1>2, PlaceFits
<1>6. /\ flight'.on /\ flight'.blocks = store /\ flight'.pending = pending
      /\ flight' \in [on : BOOLEAN, blocks : Stores, owed : SUBSET Blocks,
                      pending : SUBSET Entries, fault : BOOLEAN]
  BY <1>1, <1>4, <1>5 DEF IInv, PartsTyped
<1>7. NodeTypes'
  BY <1>1, <1>4, <1>5, <1>6, SettleType DEF IInv, PartsTyped, NodeTypes, Ends
<1>8. PartsTyped' /\ DiskOK' /\ Grows
  BY <1>1, <1>4, <1>5, <1>7, WriteGrows DEF IInv, PartsTyped, NodeTypes
<1>9. LocationsSound'
  BY <1>1, <1>4, <1>8, LocationsStayTrue DEF IInv, WriteRecord
<1>10. CountIsLength' /\ WillBeOK(pending, store.unsynced)
  <2>1. /\ CountIsLength'
        /\ WillBeOK({EntryFor(count, b)}, store.unsynced)
        /\ WillBeOK(flight.pending, store.unsynced)
    BY <1>1, <1>2, <1>4, <1>8, RecordNamed DEF IInv, PendingOK
  <2> QED
    BY <2>1 DEF WillBeOK
<1>11. PendingOK' /\ FlightIsCount'
  BY <1>4, <1>6, <1>10, PendingAfter DEF FlightIsCount
<1>12. CallOK'
  <2>1. CASE call' = call
    BY <1>1, <2>1 DEF CallOK, NoCall
  <2>2. CASE call' = Settle("fly", store, pending)
    <3>1. /\ call'.step = "sync" /\ call'.end = "fly" /\ call'.blocks = store
          /\ call'.entries = pending
      BY <2>2 DEF Settle
    <3> QED
      BY <1>4, <1>10, <3>1, CallAfter DEF SameCount
  <2> QED
    BY <1>4, <2>1, <2>2
<1> QED
  BY <1>1, <1>7, <1>8, <1>9, <1>10, <1>11, <1>12, Assemble DEF NodeOK, DownHoldsNothing

LEMMA PutAwayKeeps ==
  ASSUME IInv, NEW b \in Compact, PutAway(b)
  PROVE  IInv'
<1> DEFINE store == Appended(count, b)
<1>1. /\ up /\ call = NoCall /\ b \in Blocks /\ Place(count, b).segment <= LastSegment
      /\ UNCHANGED <<index, ends, fails>> /\ unplaced' \in SUBSET Compact
  BY CompactAssumption DEF PutAway, Ready, IInv, PartsTyped
<1>2. count \in Stores /\ flight.pending \in SUBSET Entries
  BY DEF IInv, PartsTyped
<1>3. CountedIfFirst(count)
  BY <1>1 DEF CountedIfFirst, Counted, IInv, CountIsLength
<1>4. /\ WriteRecord(Place(count, b).segment, b)
      /\ count' = store
      /\ call' = Settle("rebuilt", store, {EntryFor(count, b)})
      /\ UNCHANGED <<up, flight>>
  BY <1>3 DEF PutAway
<1>5. /\ store \in Stores /\ {EntryFor(count, b)} \in SUBSET Entries
      /\ Place(count, b).segment \in Segments
  BY <1>1, <1>2, PlaceFits
<1>6. /\ call'.step = "sync" /\ call'.end = "rebuilt" /\ call'.blocks = store
      /\ call'.entries = {EntryFor(count, b)}
  BY <1>4 DEF Settle
<1>7. NodeTypes'
  BY <1>4, <1>5, SettleType DEF IInv, PartsTyped, NodeTypes, Ends
<1>8. PartsTyped' /\ DiskOK' /\ Grows
  BY <1>1, <1>4, <1>5, <1>7, WriteGrows DEF IInv, PartsTyped, NodeTypes
<1>9. LocationsSound'
  BY <1>1, <1>4, <1>8, LocationsStayTrue DEF IInv, WriteRecord
<1>10. CountIsLength' /\ WillBeOK({EntryFor(count, b)}, store.unsynced)
  BY <1>1, <1>4, <1>8, RecordNamed DEF IInv
<1>11. PendingOK'
  <2>1. ASSUME flight.on
        PROVE  /\ WillBeOK(flight.pending, flight.blocks.unsynced)
               /\ WillBeOK(flight.pending, store.unsynced)
    <3>1. WillBeOK(flight.pending, flight.blocks.unsynced)
      BY <1>2, <1>8, <2>1, EntriesStayOK DEF IInv, PendingOK
    <3>2. WillBeOK(flight.pending, store.unsynced)
      BY <1>1, <1>2, <1>4, <1>8, <2>1, RecordNamed DEF IInv, PendingOK
    <3> QED
      BY <3>1, <3>2
  <2> QED
    BY <1>4, <2>1, PendingAfter
<1>12. FlightIsCount'
  BY DEF FlightIsCount
<1>13. CallOK'
  BY <1>4, <1>6, <1>10, CallAfter DEF SameCount
<1> QED
  BY <1>1, <1>4, <1>7, <1>8, <1>9, <1>10, <1>11, <1>12, <1>13, Assemble DEF NodeOK, DownHoldsNothing

LEMMA SyncKeeps ==
  ASSUME IInv, Sync
  PROVE  IInv'
<1> DEFINE c == call.blocks
           synced == Synced(call.blocks)
<1>1. /\ up /\ call.step = "sync" /\ SyncFiles(c)
      /\ UNCHANGED <<index, unplaced, up, ends, fails>>
      /\ UNCHANGED <<held, size, there>>
  BY DEF Sync, SyncFiles
<1>2. /\ c \in Stores /\ synced \in Stores /\ synced.unsynced = {}
      /\ SameCount(synced, c)
      /\ flight.pending \in SUBSET Entries /\ call.entries \in SUBSET Entries
      /\ call.end \in Ends \cup {"none"}
  BY DEF IInv, PartsTyped, Synced, Stores, SameCount
<1>3. /\ call'.step = "put" /\ call'.end = call.end /\ call'.blocks = synced
      /\ call'.entries = call.entries
      /\ call' \in [step : {"none", "sync", "put"}, end : Ends \cup {"none"},
                    blocks : Stores, entries : SUBSET Entries]
  BY <1>1, <1>2 DEF Sync, IInv, PartsTyped
<1>4. count' = IF Shared THEN synced ELSE count
  BY DEF Sync
<1>5. /\ flight'.on = flight.on /\ flight'.pending = flight.pending
      /\ flight'.blocks = IF call.end \in {"fly", "land"} THEN synced ELSE flight.blocks
      /\ flight' \in [on : BOOLEAN, blocks : Stores, owed : SUBSET Blocks,
                      pending : SUBSET Entries, fault : BOOLEAN]
  BY <1>2 DEF Sync, IInv, PartsTyped
<1>6. NodeTypes'
  BY <1>1, <1>2, <1>3, <1>4, <1>5 DEF IInv, PartsTyped, NodeTypes
<1>7. PartsTyped' /\ DiskOK' /\ Grows
  BY <1>1, <1>2, <1>6, SyncGrows DEF IInv, PartsTyped, NodeTypes, SyncFiles
<1>8. LocationsSound'
  <2>1. bare' = bare \ c.unsynced /\ lost' = lost
    BY <1>1 DEF SyncFiles
  <2>2. ASSUME NEW e \in Entries, Stands(e)
        PROVE  Stands(e)'
    <3>1. Names(e)' /\ (Durable(e) => Durable(e)')
      BY <1>7, <2>2, StaysTrue DEF IInv, Stands
    <3>2. CASE Durable(e) \/ e.segment \notin c.unsynced
      BY <2>1, <2>2, <3>1, <3>2 DEF Stands
    <3>3. CASE e.segment \in c.unsynced
      <4>1. EntriesOK({e}, c.unsynced)
        BY <2>2, <3>3 DEF EntriesOK, Stands
      <4>2. WillBeOK({e}, {})
        BY <1>1, <1>2, <1>7, <4>1, SyncedEntries DEF IInv
      <4> QED
        BY <4>2 DEF WillBeOK, Stands
    <3> QED
      BY <3>2, <3>3
  <2> QED
    BY <1>1, <2>1, <2>2, LocationsStay DEF IInv, LocationsSound
<1>9. Shared => c = count
  BY <1>1 DEF IInv, CallOK
<1>10. CountIsLength'
  BY <1>1, <1>2, <1>4, <1>9 DEF IInv, CountIsLength, SameCount
<1>11. FlightIsCount'
  <2>1. ASSUME Compact = {}, flight.on PROVE flight.blocks = count
    BY <2>1 DEF IInv, FlightIsCount
  <2>2. CASE call.end \in {"fly", "land"}
    BY <1>4, <1>5, <2>2 DEF FlightIsCount, Shared
  <2>3. CASE call.end \notin {"fly", "land"} /\ call.end # "rebuilt"
    BY <1>4, <1>5, <2>1, <2>3 DEF FlightIsCount, Shared
  <2>4. CASE call.end = "rebuilt"
    BY <1>4, <1>5, <2>4 DEF FlightIsCount, Shared, IInv, CallOK
  <2> QED
    BY <2>2, <2>3, <2>4
<1>12. PendingOK'
  <2>1. ASSUME flight.on
        PROVE  /\ WillBeOK(flight.pending, flight'.blocks.unsynced)
               /\ WillBeOK(flight.pending, count'.unsynced)
    <3>1. /\ EntriesOK(flight.pending, flight.blocks.unsynced)
          /\ EntriesOK(flight.pending, count.unsynced)
      BY <2>1 DEF IInv, PendingOK
    <3>2. /\ WillBeOK(flight.pending, flight.blocks.unsynced)
          /\ WillBeOK(flight.pending, count.unsynced)
      BY <1>2, <1>7, <3>1, EntriesStayOK DEF IInv
    <3>3. Shared => WillBeOK(flight.pending, {})
      BY <1>1, <1>2, <1>7, <1>9, <3>1, SyncedEntries DEF IInv
    <3> QED
      BY <1>2, <1>4, <1>5, <3>2, <3>3 DEF Shared
  <2> QED
    BY <1>5, <2>1, PendingAfter
<1>13. WillBeOK(call.entries, {})
  BY <1>1, <1>2, <1>7, SyncedEntries DEF IInv, CallOK
<1>14. CallOK'
  <2>1. call.end # "stop" => SameCount(synced, count')
    BY <1>1, <1>2, <1>4 DEF IInv, CallOK, SameCount
  <2>2. call.end = "rebuilt" => Compact # {}
    BY DEF IInv, CallOK
  <2> QED
    BY <1>3, <1>13, <2>1, <2>2, CallAfter
<1> QED
  BY <1>1, <1>6, <1>7, <1>8, <1>10, <1>11, <1>12, <1>14, Assemble DEF NodeOK, DownHoldsNothing

LEMMA PutKeeps ==
  ASSUME IInv, Put
  PROVE  IInv'
<1>1. /\ up /\ call.step = "put" /\ UNCHANGED diskVars
      /\ UNCHANGED <<unplaced, ends, fails>>
  BY DEF Put
<1>2. \A b \in Blocks : \A e \in Entries :
        e.block = b => LocationOf(e) \in Location /\ LocationOf(e) = [segment |-> e.segment, at |-> e.at]
  BY DEF Location, Entries, LocationOf
<1>3. call.entries \in SUBSET Entries /\ EntriesOK(call.entries, {})
  BY <1>1 DEF IInv, PartsTyped, CallOK
<1>4. \A b \in Blocks :
        \/ index'[b] = index[b]
        \/ \E e \in call.entries : e.block = b /\ index'[b] = LocationOf(e)
  BY DEF Put
<1>5. index' \in [Blocks -> Location \cup {NoLocation}]
  <2>1. DOMAIN index' = Blocks /\ index' = [b \in Blocks |-> index'[b]]
    BY DEF Put
  <2>2. \A b \in Blocks : index'[b] \in Location \cup {NoLocation}
    BY <1>2, <1>3, <1>4 DEF IInv, PartsTyped
  <2> QED
    BY <2>1, <2>2
<1>6. LocationsSound'
  <2> SUFFICES ASSUME LocationsHold, NEW b \in Blocks, index'[b] # NoLocation
               PROVE  \E e \in Entries : /\ e = [block |-> b, segment |-> index'[b].segment,
                                                 at |-> index'[b].at]
                                        /\ Stands(e)'
    BY <1>1 DEF IInv, LocationsSound, LocationsHold, Stands, diskVars
  <2>0. \A e \in Entries : Stands(e) => Stands(e)'
    BY <1>1 DEF Stands, Names, Durable, diskVars
  <2>1. CASE index'[b] = index[b]
    <3>1. EntryOf(b) \in Entries /\ Stands(EntryOf(b))
      BY <2>1, EntryOfType DEF IInv, LocationsHold, EntryOf, Stands
    <3>2. PICK e \in Entries : e = EntryOf(b)
      BY <3>1
    <3>3. Stands(e)'
      BY <2>0, <3>1, <3>2
    <3> QED
      BY <2>1, <3>2, <3>3 DEF EntryOf
  <2>2. ASSUME NEW e \in call.entries, e.block = b, index'[b] = LocationOf(e)
        PROVE  \E f \in Entries : /\ f = [block |-> b, segment |-> index'[b].segment,
                                          at |-> index'[b].at]
                                 /\ Stands(f)'
    <3>1. e \in Entries /\ Stands(e)
      BY <1>3 DEF EntriesOK, Stands
    <3>2. e = [block |-> b, segment |-> index'[b].segment, at |-> index'[b].at]
      BY <2>2, <3>1 DEF Entries, LocationOf
    <3>3. Stands(e)'
      BY <2>0, <3>1
    <3> QED
      BY <3>1, <3>2, <3>3
  <2> QED
    BY <1>4, <2>1, <2>2
<1>7. DiskOK'
  BY <1>1, DiskUnchangedGrows DEF IInv
<1>8. NodeOK'
  <2>1. CASE call.end = "fly"
    <3>1. /\ flight' = [flight EXCEPT !.pending = {}] /\ call' = NoCall
          /\ UNCHANGED <<up, count>>
      BY <2>1 DEF Put
    <3> QED
      BY <1>1, <3>1, FreshIsAStore
         DEF NodeOK, NodeTypes, IInv, PartsTyped, CountIsLength, PendingOK, FlightIsCount, CallOK,
             EntriesOK, NoCall, diskVars, DownHoldsNothing
  <2>2. CASE call.end \in {"land", "fail"}
    <3>1. /\ flight' = NoFlight /\ count' = call.blocks /\ call' = NoCall /\ UNCHANGED up
      BY <2>2 DEF Put
    <3>2. SameCount(call.blocks, count)
      BY <1>1, <2>2 DEF IInv, CallOK
    <3> QED
      BY <1>1, <3>1, <3>2, FreshIsAStore
         DEF NodeOK, NodeTypes, IInv, PartsTyped, CountIsLength, PendingOK, FlightIsCount, CallOK,
             SameCount, NoCall, NoFlight, diskVars, DownHoldsNothing
  <2>3. CASE call.end = "rebuilt"
    <3>1. call' = NoCall /\ UNCHANGED <<up, count, flight>>
      BY <2>3 DEF Put
    <3>2. NodeTypes' /\ CountIsLength' /\ FlightIsCount'
      BY <1>1, <3>1, FreshIsAStore
         DEF NodeTypes, IInv, PartsTyped, CountIsLength, FlightIsCount, NoCall, diskVars
    <3>3. PendingOK'
      BY <1>1, <3>1 DEF IInv, PendingOK, EntriesOK, Names, Durable, diskVars
    <3>4. CallOK'
      BY <3>1 DEF CallOK, NoCall
    <3> QED
      BY <1>1, <3>1, <3>2, <3>3, <3>4 DEF NodeOK, DownHoldsNothing
  <2>4. CASE call.end \notin {"fly", "land", "fail", "rebuilt"}
    BY <2>4, DownIsOK DEF Put
  <2> QED
    BY <2>1, <2>2, <2>3, <2>4
<1> QED
  BY <1>1, <1>5, <1>6, <1>7, <1>8, Assemble
     DEF IInv, PartsTyped, NodeOK, NodeTypes, diskVars

LEMMA DieAppendingKeeps ==
  ASSUME IInv, NEW b \in Blocks, DieAppending(b)
  PROVE  IInv'
<1> DEFINE s == Place(count, b).segment
<1>1. /\ Ready /\ s <= LastSegment /\ Down
      /\ UNCHANGED <<held, kept, entered, bare, lost, index, unplaced, fails>>
      /\ there' = there \cup {s} /\ ends' \in Nat
  BY DEF DieAppending, Ending, IInv, PartsTyped
<1>2. s \in Segments /\ Len[b] \in Nat
  BY <1>1, PlaceFits, LenAssumption DEF IInv, PartsTyped
<1>3. PICK part \in 1 .. Len[b] - 1 : size' = [size EXCEPT ![s] = @ + part]
  BY DEF DieAppending
<1>4. part \in Nat
  BY <1>2
<1>5. /\ size' \in [Segments -> Nat]
      /\ \A t \in Segments : size[t] <= size'[t] /\ (t # s => size'[t] = size[t])
  BY <1>2, <1>3, <1>4 DEF IInv, PartsTyped
<1>6. NodeOK'
  BY <1>1, DownIsOK
<1>7. PartsTyped' /\ Grows
  BY <1>1, <1>2, <1>5, <1>6 DEF IInv, PartsTyped, NodeOK, NodeTypes, Grows
<1>8. DiskOK'
  <2>1. \A t \in Segments : kept[t] <= size'[t] /\ (t \notin there' => size'[t] = 0)
    BY <1>1, <1>5 DEF IInv, PartsTyped, DiskOK
  <2>2. ASSUME NEW t \in Segments, NEW r \in held[t] PROVE EndOf(r) <= size'[t]
    <3>1. r \in Records /\ EndOf(r) <= size[t] /\ size[t] <= size'[t]
      BY <1>5 DEF IInv, PartsTyped, DiskOK
    <3>2. EndOf(r) \in Nat /\ size[t] \in Nat /\ size'[t] \in Nat
      BY <1>5, <3>1, LenAssumption DEF IInv, PartsTyped, Records, EndOf
    <3> QED
      BY <3>1, <3>2
  <2>3. entered' \subseteq there'
    BY <1>1 DEF IInv, DiskOK
  <2> QED
    BY <1>1, <2>1, <2>2, <2>3 DEF DiskOK, EndOf
<1>9. LocationsSound'
  BY <1>1, <1>7, LocationsStayTrue DEF IInv
<1> QED
  BY <1>6, <1>7, <1>8, <1>9, Assemble

(* What a Location names is not among what a power cut takes.               *)
LEMMA PowerCutKeeps ==
  ASSUME IInv, PowerCut
  PROVE  IInv'
<1>1. PICK cut \in [Segments -> Lengths], gone \in SUBSET (there \ entered) :
       /\ \A s \in Segments : IF s \in gone THEN cut[s] = 0
                               ELSE kept[s] <= cut[s] /\ cut[s] <= size[s]
       /\ size' = cut
       /\ kept' = cut
       /\ held' = [s \in Segments |-> {r \in held[s] : EndOf(r) <= cut[s]}]
       /\ there' = there \ gone
       /\ entered' = there \ gone
  BY DEF PowerCut
<1>2. /\ Down /\ UNCHANGED <<index, unplaced, fails>> /\ ends' \in Nat
      /\ bare' = {} /\ lost' = (lost \/ bare # {})
  BY DEF PowerCut, Ending, IInv, PartsTyped
<1>3. NodeOK'
  BY <1>2, DownIsOK
<1>4. cut \in [Segments -> Nat]
  BY LengthsAreNat
<1>5. held' \in [Segments -> SUBSET Records]
  BY <1>1 DEF IInv, PartsTyped
<1>6. PartsTyped'
  BY <1>1, <1>2, <1>3, <1>4, <1>5 DEF IInv, PartsTyped, NodeOK, NodeTypes
<1>7. DiskOK'
  <2>1. \A s \in Segments : s \notin there' => size'[s] = 0
    BY <1>1, <1>4 DEF IInv, PartsTyped, DiskOK
  <2>2. \A s \in Segments : kept'[s] <= size'[s]
    BY <1>1, <1>4
  <2>3. \A s \in Segments : \A r \in held'[s] : EndOf(r) <= size'[s]
    BY <1>1
  <2> QED
    BY <1>1, <2>1, <2>2, <2>3 DEF DiskOK, EndOf
<1>8. LocationsSound'
  <2> SUFFICES ASSUME LocationsHold, bare = {}, NEW e \in Entries, Stands(e)
               PROVE  Stands(e)'
    BY <1>2, LocationsStay DEF IInv, LocationsSound
  <2>1. Names(e) /\ Durable(e)
    BY DEF Stands
  <2>3. e.segment \in Segments /\ e.segment \in entered /\ e.segment \notin gone
        /\ e.at \in Nat /\ Len[e.block] \in Nat
    BY <2>1, LenAssumption DEF Entries, Durable
  <2>4. e.at + Len[e.block] <= cut[e.segment]
    BY <1>1, <1>4, <2>1, <2>3 DEF Durable, IInv, PartsTyped
  <2>5. [at |-> e.at, block |-> e.block] \in held'[e.segment]
    BY <1>1, <2>1, <2>3, <2>4 DEF Names, EndOf
  <2>6. e.segment \in there' /\ e.segment \in entered'
    BY <1>1, <2>1, <2>3 DEF Names
  <2> QED
    BY <1>1, <2>4, <2>5, <2>6 DEF Stands, Names, Durable
<1> QED
  BY <1>3, <1>6, <1>7, <1>8, Assemble

LEMMA ReopenKeeps ==
  ASSUME IInv, Reopen
  PROVE  IInv'
<1>1. /\ ~up /\ up'
      /\ UNCHANGED <<held, there, entered, lost, index, unplaced, flight, call, ends, fails>>
  BY DEF Reopen
<1>2. flight = NoFlight /\ call = NoCall
  BY <1>1 DEF IInv, DownHoldsNothing
<1>3. /\ size' \in [Segments -> Nat] /\ kept' \in [Segments -> Nat] /\ count' \in Stores
      /\ CountIsLength'
      /\ \A s \in Segments : kept'[s] <= size'[s]
      /\ \A s \in Segments : \A r \in held[s] : EndOf(r) <= size'[s]
      /\ \A s \in Segments : s \notin there => size'[s] = 0
      /\ bare' \in SUBSET Segments /\ bare \subseteq bare'
      /\ \A s \in Segments \ bare' : kept'[s] = kept[s]
  <2>1. CASE there = {}
    <3>1. count' = Fresh /\ UNCHANGED <<size, kept, bare>> /\ size[0] = 0
      BY <2>1, SegmentsAreNat DEF Reopen, IInv, DiskOK
    <3> QED
      BY <1>1, <2>1, <3>1, FreshIsAStore DEF IInv, PartsTyped, DiskOK, CountIsLength, Fresh
  <2>2. CASE there # {}
    <3>1. PICK h \in there, whole \in Lengths :
            /\ \A s \in there : s <= h
            /\ IsWholeEnd(h, whole)
            /\ count' = CountOf(h, whole)
            /\ RepairedTo(h, whole)
      BY <2>2 DEF Reopen
    <3>2. h \in Segments /\ whole \in Nat
      BY LengthsAreNat DEF IInv, PartsTyped
    <3>3. \A s \in Segments :
            /\ size'[s] = IF s = h THEN whole ELSE size[s]
            /\ kept'[s] = IF s = h /\ size[h] # whole THEN 0 ELSE kept[s]
      BY <3>1 DEF RepairedTo, IInv, PartsTyped
    <3>4. /\ size' \in [Segments -> Nat] /\ kept' \in [Segments -> Nat]
          /\ bare' = IF size[h] = whole THEN bare ELSE bare \cup {h}
          /\ bare' \in SUBSET Segments
      BY <3>1, <3>2 DEF RepairedTo, IInv, PartsTyped
    <3>5. count' \in Stores /\ CountIsLength'
      BY <1>1, <3>1, <3>2, <3>3 DEF CountOf, Stores, CountIsLength
    <3>6. \A s \in Segments : kept'[s] <= size'[s] /\ (s \notin there => size'[s] = 0)
      BY <3>1, <3>2, <3>3 DEF IInv, PartsTyped, DiskOK
    <3>7. \A s \in Segments : \A r \in held[s] :
            EndOf(r) <= size'[s]
      BY <3>1, <3>3 DEF IsWholeEnd, IInv, DiskOK
    <3>8. \A s \in Segments \ bare' : kept'[s] = kept[s]
      BY <3>3, <3>4
    <3> QED
      BY <3>4, <3>5, <3>6, <3>7, <3>8
  <2> QED
    BY <2>1, <2>2
<1>4. NodeOK'
  BY <1>1, <1>2, <1>3
     DEF NodeOK, NodeTypes, IInv, PartsTyped, PendingOK, FlightIsCount, CallOK, NoFlight, NoCall,
         DownHoldsNothing
<1>5. PartsTyped' /\ DiskOK'
  BY <1>1, <1>3, <1>4 DEF IInv, PartsTyped, DiskOK, NodeOK, NodeTypes, EndOf
<1>6. LocationsSound'
  <2> SUFFICES ASSUME NEW e \in Entries, Stands(e)
               PROVE  Stands(e)'
    BY <1>1, LocationsStay DEF IInv, LocationsSound
  <2>1. e.segment \in Segments
    BY DEF Entries
  <2> QED
    BY <1>1, <1>3, <2>1 DEF Stands, Names, Durable
<1> QED
  BY <1>4, <1>5, <1>6, Assemble

(* A death in the rewrite loses what was there: the Locations are given up,  *)
(* the rest of the invariant is not.                                         *)
LEMMA DieRepairingKeeps ==
  ASSUME IInv, DieRepairing
  PROVE  IInv'
<1>1. PICK h \in there, whole \in Lengths, part \in Lengths :
        /\ whole < size[h] /\ part < whole
        /\ size' = [size EXCEPT ![h] = part]
        /\ kept' = [kept EXCEPT ![h] = 0]
        /\ held' = [held EXCEPT ![h] = {r \in @ : EndOf(r) <= part}]
        /\ bare' = bare \cup {h}
  BY DEF DieRepairing
<1>2. /\ ~up /\ UNCHANGED <<there, entered, index, unplaced, up, count, flight, call, fails>>
      /\ lost' = TRUE /\ ends' \in Nat
  BY DEF DieRepairing, Ending, IInv, PartsTyped
<1>3. h \in Segments /\ part \in Nat /\ flight = NoFlight /\ call = NoCall
  BY <1>2, LengthsAreNat DEF IInv, PartsTyped, DownHoldsNothing
<1>4. \A s \in Segments :
        /\ held'[s] = IF s = h THEN {r \in held[h] : EndOf(r) <= part} ELSE held[s]
        /\ size'[s] = IF s = h THEN part ELSE size[s]
        /\ kept'[s] = IF s = h THEN 0 ELSE kept[s]
  BY <1>1, <1>3 DEF IInv, PartsTyped
<1>5. PartsTyped'
  <2>1. /\ held' \in [Segments -> SUBSET Records] /\ size' \in [Segments -> Nat]
        /\ kept' \in [Segments -> Nat]
    BY <1>1, <1>3 DEF IInv, PartsTyped
  <2> QED
    BY <1>1, <1>2, <1>3, <2>1 DEF IInv, PartsTyped
<1>6. DiskOK'
  <2>1. \A s \in Segments : kept'[s] <= size'[s]
    <3>1. part >= 0 /\ \A s \in Segments : kept[s] <= size[s]
      BY <1>3 DEF IInv, DiskOK
    <3> QED
      BY <1>4, <3>1
  <2>2. \A s \in Segments : \A r \in held'[s] : EndOf(r) <= size'[s]
    BY <1>4 DEF IInv, DiskOK
  <2>3. \A s \in Segments : s \notin there' => size'[s] = 0
    BY <1>1, <1>2, <1>4 DEF IInv, DiskOK
  <2>4. entered' \subseteq there'
    BY <1>2 DEF IInv, DiskOK
  <2> QED
    BY <2>1, <2>2, <2>3, <2>4 DEF DiskOK, EndOf
<1>7. NodeOK'
  BY <1>2, <1>3
     DEF NodeOK, NodeTypes, IInv, PartsTyped, CountIsLength, PendingOK, FlightIsCount, CallOK,
         NoFlight, NoCall, DownHoldsNothing
<1> QED
  BY <1>2, <1>5, <1>6, <1>7, Assemble DEF LocationsSound

LEMMA StutterKeeps ==
  ASSUME IInv, UNCHANGED vars
  PROVE  IInv'
BY DEF IInv, vars, diskVars, PartsTyped, DiskOK, CountIsLength, PendingOK, FlightIsCount, CallOK,
       LocationsSound, LocationsHold, EntriesOK, Names, Durable, EndOf, Shared, SameCount,
       DownHoldsNothing

LEMMA InitHolds ==
  ASSUME Init
  PROVE  IInv
<1>1. PartsTyped
  BY FreshIsAStore DEF Init, PartsTyped, NoFlight, NoCall
<1>2. DiskOK /\ LocationsSound
  BY DEF Init, DiskOK, LocationsSound, LocationsHold
<1>3. CountIsLength
  BY SegmentsAreNat DEF Init, CountIsLength, Fresh
<1>4. PendingOK /\ FlightIsCount /\ CallOK /\ DownHoldsNothing
  BY DEF Init, PendingOK, FlightIsCount, CallOK, NoFlight, NoCall, DownHoldsNothing
<1> QED
  BY <1>1, <1>2, <1>3, <1>4 DEF IInv

LEMMA StepKeeps ==
  ASSUME IInv, ~PutsDownOldCount, [Step]_vars
  PROVE  IInv'
<1>1. CASE TakeOff
  BY <1>1, TakeOffKeeps
<1>2. CASE \E b \in Blocks : Land(b)
  BY <1>2, LandKeeps
<1>3. CASE Turn
  BY <1>3, TurnKeeps
<1>4. CASE LandFlight
  BY <1>4, LandFlightKeeps
<1>5. CASE Grounded
  BY <1>5, GroundedKeeps
<1>6. CASE FlightFails
  BY <1>6, FlightFailsKeeps
<1>7. CASE \E b \in Compact : PutAway(b)
  BY <1>7, PutAwayKeeps
<1>8. CASE Sync
  BY <1>8, SyncKeeps
<1>9. CASE SyncRefused
  BY <1>9, SyncRefusedKeeps
<1>10. CASE Put
  BY <1>10, PutKeeps
<1>11. CASE Stop
  BY <1>11, StopKeeps
<1>12. CASE Die
  BY <1>12, DieKeeps
<1>13. CASE \E b \in Blocks : DieAppending(b)
  BY <1>13, DieAppendingKeeps
<1>14. CASE PowerCut
  BY <1>14, PowerCutKeeps
<1>15. CASE Reopen
  BY <1>15, ReopenKeeps
<1>16. CASE UNCHANGED vars
  BY <1>16, StutterKeeps
<1>17. CASE DieRepairing
  BY <1>17, DieRepairingKeeps
<1> QED
  BY <1>1, <1>2, <1>3, <1>4, <1>5, <1>6, <1>7, <1>8, <1>9, <1>10, <1>11, <1>12, <1>13,
     <1>14, <1>15, <1>16, <1>17 DEF Step

LEMMA Invariance == Spec => [](~stale => IInv)
<1>1. Init => (~stale => IInv)
  BY InitHolds
<1>2. (~stale => IInv) /\ [Next]_allVars => (~stale => IInv)'
  <2> SUFFICES ASSUME ~stale => IInv, [Next]_allVars, ~stale'
               PROVE  IInv'
    OBVIOUS
  <2>1. CASE Next
    <3>1. ~stale /\ ~PutsDownOldCount /\ [Step]_vars
      BY <2>1, Zenon DEF Next
    <3> QED
      BY <3>1, StepKeeps
  <2>2. CASE UNCHANGED allVars
    BY <2>2, StutterKeeps DEF allVars
  <2> QED
    BY <2>1, <2>2
<1> QED
  BY <1>1, <1>2, PTL DEF Spec

-----------------------------------------------------------------------------
(* The types alone need none of the rest, and hold after an old count too.  *)
DiskTyped ==
  /\ held \in [Segments -> SUBSET Records]
  /\ size \in [Segments -> Nat] /\ kept \in [Segments -> Nat]
  /\ there \in SUBSET Segments /\ entered \in SUBSET Segments
  /\ bare \in SUBSET Segments /\ lost \in BOOLEAN

LEMMA TypesFromFour ==
  ASSUME DiskTyped', NodeTypes', (index \in [Blocks -> Location \cup {NoLocation}])',
         unplaced' \in SUBSET Compact, ends' \in Nat, fails' \in Nat
  PROVE  PartsTyped'
BY DEF DiskTyped, NodeTypes, PartsTyped

LEMMA DownTyped ==
  ASSUME Down
  PROVE  NodeTypes'
BY FreshIsAStore DEF Down, NodeTypes, NoFlight, NoCall

LEMMA ClosingTyped ==
  ASSUME PartsTyped, Closing
  PROVE  NodeTypes'
<1>1. CASE flight.on /\ ~flight.fault
  <2>1. Settle("stop", flight.blocks, flight.pending) = call' /\ UNCHANGED <<up, count, flight>>
    BY <1>1 DEF Closing
  <2>2. flight.blocks \in Stores /\ flight.pending \in SUBSET Entries
    BY DEF PartsTyped
  <2> QED
    BY <2>1, <2>2, SettleType DEF PartsTyped, NodeTypes, Ends
<1>2. CASE ~(flight.on /\ ~flight.fault)
  BY <1>2, DownTyped DEF Closing
<1> QED
  BY <1>1, <1>2

LEMMA WritingTyped ==
  ASSUME PartsTyped, NEW s \in Segments, NEW b \in Blocks, WriteRecord(s, b)
  PROVE  DiskTyped'
<1>1. size[s] + Len[b] \in Nat /\ [at |-> size[s], block |-> b] \in Records
  BY LenAssumption DEF PartsTyped, Records
<1> QED
  BY <1>1 DEF WriteRecord, PartsTyped, DiskTyped

LEMMA SameDiskTyped ==
  ASSUME PartsTyped, UNCHANGED diskVars
  PROVE  DiskTyped'
BY DEF PartsTyped, DiskTyped, diskVars

LEMMA LandTyped ==
  ASSUME PartsTyped, NEW b \in Blocks, Land(b)
  PROVE  PartsTyped'
<1>0. /\ count \in Stores /\ flight.pending \in SUBSET Entries
      /\ UNCHANGED <<index, unplaced, up, ends, fails>>
  BY DEF Land, PartsTyped
<1>1. /\ Place(count, b).segment \in Segments /\ Appended(count, b) \in Stores
      /\ EntryFor(count, b) \in Entries
  BY <1>0, PlaceFits DEF Land
<1>2. CASE CountedIfFirst(count)
  <2> DEFINE pending == flight.pending \cup {EntryFor(count, b)}
  <2>1. /\ WriteRecord(Place(count, b).segment, b) /\ count' = Appended(count, b)
        /\ flight' = [flight EXCEPT !.blocks = Appended(count, b), !.pending = pending,
                                    !.owed = @ \ {b}]
        /\ call' \in {Settle("fly", Appended(count, b), pending), call}
    BY <1>2 DEF Land
  <2>2. pending \in SUBSET Entries
    BY <1>0, <1>1
  <2>3. /\ up' \in BOOLEAN /\ count' \in Stores
        /\ flight' \in [on : BOOLEAN, blocks : Stores, owed : SUBSET Blocks,
                        pending : SUBSET Entries, fault : BOOLEAN]
    BY <1>0, <1>1, <2>1, <2>2 DEF PartsTyped
  <2>4. Settle("fly", Appended(count, b), pending) \in
          [step : {"none", "sync", "put"}, end : Ends \cup {"none"},
           blocks : Stores, entries : SUBSET Entries]
    BY <1>1, <2>2, SettleType DEF Ends
  <2>5. NodeTypes'
    BY <2>1, <2>3, <2>4 DEF PartsTyped, NodeTypes
  <2> QED
    BY <1>0, <1>1, <2>1, <2>5, WritingTyped, TypesFromFour DEF PartsTyped
<1>3. CASE ~CountedIfFirst(count)
  <2>1. UNCHANGED <<diskVars, count, call>>
    BY <1>3 DEF Land
  <2>2. flight' = [flight EXCEPT !.blocks = count, !.pending = {}, !.owed = {}, !.fault = TRUE]
    BY <1>3 DEF Land
  <2>3. NodeTypes'
    BY <1>0, <2>1, <2>2 DEF PartsTyped, NodeTypes
  <2> QED
    BY <1>0, <2>1, <2>3, SameDiskTyped, TypesFromFour DEF PartsTyped
<1> QED
  BY <1>2, <1>3

LEMMA PutAwayTyped ==
  ASSUME PartsTyped, NEW b \in Compact, PutAway(b)
  PROVE  PartsTyped'
<1>0. /\ count \in Stores /\ b \in Blocks /\ unplaced' \in SUBSET Compact
      /\ UNCHANGED <<index, ends, fails>>
  BY CompactAssumption DEF PutAway, PartsTyped
<1>1. /\ Place(count, b).segment \in Segments /\ Appended(count, b) \in Stores
      /\ {EntryFor(count, b)} \in SUBSET Entries
  BY <1>0, PlaceFits DEF PutAway
<1>2. CASE CountedIfFirst(count)
  <2>1. /\ WriteRecord(Place(count, b).segment, b) /\ count' = Appended(count, b)
        /\ call' = Settle("rebuilt", Appended(count, b), {EntryFor(count, b)})
        /\ UNCHANGED <<up, flight>>
    BY <1>2 DEF PutAway
  <2>2. NodeTypes'
    BY <1>1, <2>1, SettleType DEF PartsTyped, NodeTypes, Ends
  <2> QED
    BY <1>0, <1>1, <2>1, <2>2, WritingTyped, TypesFromFour DEF PartsTyped
<1>3. CASE ~CountedIfFirst(count)
  BY <1>0, <1>3, ClosingTyped, SameDiskTyped, TypesFromFour DEF PutAway, PartsTyped
<1> QED
  BY <1>2, <1>3

(* The steps of a flight that touch neither the disk nor the Index.         *)
LEMMA FlightTyped ==
  ASSUME PartsTyped, TakeOff \/ Turn \/ LandFlight \/ FlightFails
  PROVE  PartsTyped'
<1>0. count \in Stores /\ flight.blocks \in Stores /\ flight.pending \in SUBSET Entries
  BY DEF PartsTyped
<1>1. CASE TakeOff
  <2>1. PICK news \in {{}, unplaced} :
          LET owing == {b \in Blocks : index[b] = NoLocation /\ b \notin unplaced \ news}
          IN  /\ flight' = [NoFlight EXCEPT !.on = TRUE, !.blocks = count, !.owed = owing]
              /\ unplaced' = unplaced \ news
    BY <1>1 DEF TakeOff
  <2>2. NodeTypes'
    BY <1>0, <1>1, <2>1, FreshIsAStore DEF TakeOff, PartsTyped, NodeTypes, NoFlight
  <2> QED
    BY <1>1, <2>1, <2>2, SameDiskTyped, TypesFromFour DEF TakeOff, PartsTyped
<1>2. CASE Turn
  <2>1. NodeTypes'
    BY <1>0, <1>2 DEF Turn, PartsTyped, NodeTypes
  <2> QED
    BY <1>2, <2>1, SameDiskTyped, TypesFromFour DEF Turn, PartsTyped
<1>3. CASE LandFlight
  <2>1. NodeTypes'
    BY <1>0, <1>3, SettleType DEF LandFlight, PartsTyped, NodeTypes, Ends
  <2> QED
    BY <1>3, <2>1, SameDiskTyped, TypesFromFour DEF LandFlight, PartsTyped
<1>4. CASE FlightFails
  <2>1. NodeTypes' /\ fails' \in Nat
    BY <1>0, <1>4, SettleType DEF FlightFails, PartsTyped, NodeTypes, Ends
  <2> QED
    BY <1>4, <2>1, SameDiskTyped, TypesFromFour DEF FlightFails, PartsTyped
<1> QED
  BY <1>1, <1>2, <1>3, <1>4

(* The writes of a settle, made or refused.                                 *)
LEMMA SettlingTyped ==
  ASSUME PartsTyped, Sync \/ SyncRefused \/ Put
  PROVE  PartsTyped'
<1>0. /\ count \in Stores /\ call.blocks \in Stores /\ call.entries \in SUBSET Entries
      /\ Synced(call.blocks) \in Stores
  BY DEF PartsTyped, Synced, Stores
<1>1. CASE Sync
  <2>1. call' = [call EXCEPT !.step = "put", !.blocks = Synced(call.blocks)]
    BY <1>1 DEF Sync
  <2>2. count' \in Stores /\ UNCHANGED up
    BY <1>0, <1>1 DEF Sync
  <2>3. flight' \in [on : BOOLEAN, blocks : Stores, owed : SUBSET Blocks,
                     pending : SUBSET Entries, fault : BOOLEAN]
    BY <1>0, <1>1 DEF Sync, PartsTyped
  <2>4. NodeTypes'
    BY <1>0, <2>1, <2>2, <2>3 DEF PartsTyped, NodeTypes
  <2>5. DiskTyped'
    BY <1>1 DEF Sync, SyncFiles, PartsTyped, DiskTyped
  <2> QED
    BY <1>1, <2>4, <2>5, TypesFromFour DEF Sync, PartsTyped
<1>2. CASE SyncRefused
  <2>0. UNCHANGED <<diskVars, index, unplaced, ends, fails>>
    BY <1>2 DEF SyncRefused
  <2>1. CASE call.end = "fly"
    <3>1. /\ flight' = [flight EXCEPT !.pending = {}, !.owed = {}, !.fault = TRUE]
          /\ call' = NoCall /\ UNCHANGED <<up, count>>
      BY <1>2, <2>1 DEF SyncRefused
    <3>2. NodeTypes'
      BY <3>1, FreshIsAStore DEF PartsTyped, NodeTypes, NoCall
    <3> QED
      BY <2>0, <3>2, SameDiskTyped, TypesFromFour DEF PartsTyped
  <2>2. CASE call.end = "fail"
    <3>1. flight' = NoFlight /\ count' = call.blocks /\ call' = NoCall /\ UNCHANGED up
      BY <1>2, <2>2 DEF SyncRefused
    <3>2. NodeTypes'
      BY <1>0, <3>1, FreshIsAStore DEF PartsTyped, NodeTypes, NoCall, NoFlight
    <3> QED
      BY <2>0, <3>2, SameDiskTyped, TypesFromFour DEF PartsTyped
  <2>3. CASE call.end \notin {"fly", "fail"}
    <3>1. Closing \/ Down
      BY <1>2, <2>3 DEF SyncRefused
    <3>2. NodeTypes'
      BY <3>1, ClosingTyped, DownTyped
    <3> QED
      BY <2>0, <3>2, SameDiskTyped, TypesFromFour DEF PartsTyped
  <2> QED
    BY <2>1, <2>2, <2>3
<1>3. CASE Put
  <2>1. UNCHANGED <<diskVars, unplaced, ends, fails>>
    BY <1>3 DEF Put
  <2>2. index' \in [Blocks -> Location \cup {NoLocation}]
    <3>1. \A e \in call.entries : LocationOf(e) \in Location
      BY <1>0 DEF LocationOf, Location, Entries
    <3>2. \A b \in Blocks : (\E e \in call.entries : e.block = b) =>
            LocationOf(CHOOSE e \in call.entries : e.block = b) \in Location
      BY <3>1
    <3> QED
      BY <1>3, <3>2 DEF Put, PartsTyped
  <2>3. NodeTypes'
    <3>1. CASE call.end = "fly"
      <4>1. flight' = [flight EXCEPT !.pending = {}] /\ call' = NoCall /\ UNCHANGED <<up, count>>
        BY <1>3, <3>1 DEF Put
      <4> QED
        BY <4>1, FreshIsAStore DEF PartsTyped, NodeTypes, NoCall
    <3>2. CASE call.end \in {"land", "fail"}
      <4>1. flight' = NoFlight /\ count' = call.blocks /\ call' = NoCall /\ UNCHANGED up
        BY <1>3, <3>2 DEF Put
      <4> QED
        BY <1>0, <4>1, FreshIsAStore DEF PartsTyped, NodeTypes, NoCall, NoFlight
    <3>3. CASE call.end = "rebuilt"
      BY <1>3, <3>3, FreshIsAStore DEF Put, PartsTyped, NodeTypes, NoCall
    <3>4. CASE call.end \notin {"fly", "land", "fail", "rebuilt"}
      BY <1>3, <3>4, DownTyped DEF Put
    <3> QED
      BY <3>1, <3>2, <3>3, <3>4
  <2> QED
    BY <2>1, <2>2, <2>3, SameDiskTyped, TypesFromFour DEF PartsTyped
<1> QED
  BY <1>1, <1>2, <1>3

(* The node ends, and starts again.                                         *)
LEMMA EndingTyped ==
  ASSUME PartsTyped, Grounded \/ Stop \/ Die \/ PowerCut \/ Reopen \/ DieRepairing
  PROVE  PartsTyped'
<1>1. CASE Grounded
  BY <1>1, DownTyped, SameDiskTyped, TypesFromFour DEF Grounded, PartsTyped
<1>2. CASE Stop
  BY <1>2, ClosingTyped, SameDiskTyped, TypesFromFour DEF Stop, Ending, PartsTyped
<1>3. CASE Die
  BY <1>3, DownTyped, SameDiskTyped, TypesFromFour DEF Die, Ending, PartsTyped
<1>4. CASE PowerCut
  <2>1. PICK cut \in [Segments -> Lengths], gone \in SUBSET (there \ entered) :
          /\ size' = cut /\ kept' = cut
          /\ held' = [s \in Segments |-> {r \in held[s] : EndOf(r) <= cut[s]}]
          /\ there' = there \ gone /\ entered' = there \ gone
          /\ bare' = {} /\ lost' = (lost \/ bare # {})
    BY <1>4 DEF PowerCut
  <2>2. DiskTyped'
    BY <2>1, LengthsAreNat DEF PartsTyped, DiskTyped
  <2>3. NodeTypes' /\ ends' \in Nat /\ UNCHANGED <<index, unplaced, fails>>
    BY <1>4, DownTyped DEF PowerCut, Ending, PartsTyped
  <2> QED
    BY <2>2, <2>3, TypesFromFour DEF PartsTyped
<1>5. CASE Reopen
  <2>0. /\ up' = TRUE
        /\ UNCHANGED <<held, there, entered, lost, index, unplaced, flight, call, ends, fails>>
    BY <1>5 DEF Reopen
  <2>1. /\ count' \in Stores /\ size' \in [Segments -> Nat] /\ kept' \in [Segments -> Nat]
        /\ bare' \in SUBSET Segments
    <3>1. CASE there = {}
      BY <1>5, <3>1, FreshIsAStore DEF Reopen, PartsTyped
    <3>2. CASE there # {}
      <4>1. PICK h \in there, whole \in Lengths :
              count' = CountOf(h, whole) /\ RepairedTo(h, whole)
        BY <1>5, <3>2 DEF Reopen
      <4>2. h \in Segments /\ whole \in Nat
        BY LengthsAreNat DEF PartsTyped
      <4> QED
        BY <4>1, <4>2 DEF CountOf, RepairedTo, Stores, PartsTyped
    <3> QED
      BY <3>1, <3>2
  <2>2. DiskTyped' /\ NodeTypes'
    BY <2>0, <2>1 DEF DiskTyped, NodeTypes, PartsTyped
  <2> QED
    BY <2>0, <2>2, TypesFromFour DEF PartsTyped
<1>6. CASE DieRepairing
  <2>1. PICK h \in there, part \in Lengths :
          /\ size' = [size EXCEPT ![h] = part] /\ kept' = [kept EXCEPT ![h] = 0]
          /\ held' = [held EXCEPT ![h] = {r \in @ : EndOf(r) <= part}]
          /\ bare' = bare \cup {h} /\ lost' = TRUE
    BY <1>6 DEF DieRepairing
  <2>2. h \in Segments /\ part \in Nat
    BY LengthsAreNat DEF PartsTyped
  <2>3. DiskTyped'
    BY <1>6, <2>1, <2>2 DEF DieRepairing, PartsTyped, DiskTyped
  <2> QED
    BY <1>6, <2>3, TypesFromFour DEF DieRepairing, Ending, PartsTyped, NodeTypes
<1> QED
  BY <1>1, <1>2, <1>3, <1>4, <1>5, <1>6

LEMMA TornTyped ==
  ASSUME PartsTyped, NEW b \in Blocks, DieAppending(b)
  PROVE  PartsTyped'
<1>1. count \in Stores /\ Len[b] \in Nat
  BY LenAssumption DEF PartsTyped
<1>2. Place(count, b).segment \in Segments
  BY <1>1, PlaceFits DEF DieAppending
<1>3. PICK part \in 1 .. Len[b] - 1 :
        size' = [size EXCEPT ![Place(count, b).segment] = @ + part]
  BY DEF DieAppending
<1>4. DiskTyped'
  BY <1>1, <1>2, <1>3 DEF DieAppending, DiskTyped, PartsTyped
<1> QED
  BY <1>4, DownTyped, TypesFromFour DEF DieAppending, Ending, PartsTyped

LEMMA TypesKept ==
  ASSUME TypeOK, [Next]_allVars
  PROVE  TypeOK'
<1>1. CASE Next
  <2>1. PartsTyped'
    BY <1>1, FlightTyped, SettlingTyped, EndingTyped, LandTyped, PutAwayTyped, TornTyped
       DEF Next, Step, TypeOK
  <2> QED
    BY <1>1, <2>1 DEF Next, TypeOK
<1>2. CASE UNCHANGED allVars
  BY <1>2 DEF allVars, vars, diskVars, TypeOK, PartsTyped
<1> QED
  BY <1>1, <1>2

(* Types hold in every reachable state, after an old count too.             *)
THEOREM TypeCorrect == Spec => []TypeOK
<1>1. Init => TypeOK
  BY InitHolds DEF IInv, Init, TypeOK
<1> QED
  BY <1>1, TypesKept, PTL DEF Spec

-----------------------------------------------------------------------------
(* While the node runs its count is the length of the highest Segment: the  *)
(* file and the count are one answer, through any stop, death or power cut  *)
(* and any rebuilt Block, until a failed download is put down from an old   *)
(* count (infra/blocks.av counted has no difference to refuse).             *)
THEOREM CountIsTheFile == Spec => []CountAgrees
<1>1. (~stale => IInv) => CountAgrees
  BY DEF IInv, CountAgrees
<1> QED
  BY <1>1, Invariance, PTL

(* Every Location in the Index is its own Block's, and no power cut can     *)
(* take what it names unless its Segment was rewritten and not synced since *)
(* (infra/bodies.av settled, #301): until then, or until a rewrite is cut   *)
(* short or a power cut finds one unsynced (infra/blocks.av:113 repaired).  *)
THEOREM EveryLocationIsTrue == Spec => []LocationsTrue
<1>1. (~stale => IInv) => LocationsTrue
  BY DEF IInv, LocationsTrue, LocationsSound
<1> QED
  BY <1>1, Invariance, PTL

-----------------------------------------------------------------------------
(* The tail, after an old count too.  Every copy of the count is of this    *)
(* run of the node, so none is below the Segment reopened; from there up    *)
(* every Segment is whole records, though one below may stay torn.          *)
Copies(h) ==
  /\ count.segment >= h
  /\ flight.on => flight.blocks.segment >= h
  /\ call.step # "none" => call.blocks.segment >= h

FramedFrom(h) == \A s \in Segments : s >= h => IsWholeEnd(s, size[s])

FilesWithin ==
  /\ \A s \in Segments : \A r \in held[s] : EndOf(r) <= size[s]
  /\ \A s \in Segments : s \notin there => size[s] = 0 /\ held[s] = {}

TailInv ==
  /\ PartsTyped /\ FilesWithin /\ DownHoldsNothing
  /\ up => \E h \in Segments : Copies(h) /\ FramedFrom(h)

LEMMA RecordEnds ==
  ASSUME PartsTyped, NEW s \in Segments, NEW r \in held[s]
  PROVE  EndOf(r) \in Nat /\ EndOf(r) > 0
<1>1. r \in Records
  BY DEF PartsTyped
<1> QED
  BY <1>1, LenAssumption DEF EndOf, Records

(* A record written at the end of a file leaves it whole.                   *)
LEMMA WritingFrames ==
  ASSUME PartsTyped, FilesWithin, NEW s \in Segments, NEW b \in Blocks, WriteRecord(s, b)
  PROVE  /\ FilesWithin'
         /\ \A h \in Segments : FramedFrom(h) => FramedFrom(h)'
<1> DEFINE new == [at |-> size[s], block |-> b]
<1>1. /\ size[s] \in Nat /\ Len[b] \in Nat /\ EndOf(new) = size[s] + Len[b]
  BY LenAssumption DEF PartsTyped, EndOf
<1>2. /\ held'[s] = held[s] \cup {new} /\ size'[s] = size[s] + Len[b]
      /\ \A t \in Segments \ {s} : held'[t] = held[t] /\ size'[t] = size[t]
      /\ there' = there \cup {s}
  BY DEF WriteRecord, PartsTyped
<1>3. \A r \in held[s] : EndOf(r) \in Nat /\ EndOf(r) <= size[s]
  BY RecordEnds DEF FilesWithin
<1>4. \A r : EndOf(r)' = EndOf(r)
  BY DEF EndOf
<1>5. \A r \in held'[s] : EndOf(r) <= size'[s]
  <2>1. \A r \in held[s] : EndOf(r) <= size[s] + Len[b]
    BY <1>1, <1>3
  <2>2. EndOf(new) <= size[s] + Len[b]
    BY <1>1
  <2> QED
    BY <1>2, <2>1, <2>2
<1>6. FilesWithin'
  BY <1>2, <1>4, <1>5 DEF FilesWithin
<1>7. IsWholeEnd(s, size[s])'
  <2>1. new \in held'[s] /\ EndOf(new) = size'[s]
    BY <1>1, <1>2
  <2> QED
    BY <1>4, <1>5, <2>1 DEF IsWholeEnd
<1>8. \A t \in Segments \ {s} : IsWholeEnd(t, size[t]) => IsWholeEnd(t, size[t])'
  BY <1>2, <1>4 DEF IsWholeEnd
<1> QED
  BY <1>6, <1>7, <1>8 DEF FramedFrom

LEMMA SameFilesFramed ==
  ASSUME UNCHANGED <<held, size, there>>
  PROVE  /\ FilesWithin => FilesWithin'
         /\ \A h \in Segments : FramedFrom(h) => FramedFrom(h)'
BY DEF FilesWithin, FramedFrom, IsWholeEnd, EndOf

LEMMA PlaceGoesUp ==
  ASSUME NEW c \in Stores, NEW b \in Blocks
  PROVE  Place(c, b).segment >= c.segment /\ Appended(c, b).segment = Place(c, b).segment
<1>1. c.segment \in Nat
  BY SegmentsAreNat DEF Stores
<1> QED
  BY <1>1 DEF Place, Appended

(* A step of a node that goes on running.                                   *)
Running ==
  \/ TakeOff \/ (\E b \in Blocks : Land(b)) \/ Turn \/ LandFlight \/ FlightFails
  \/ (\E b \in Compact : PutAway(b)) \/ Sync \/ SyncRefused \/ Put \/ Stop

LEMMA ClosingCopies ==
  ASSUME NEW h \in Segments, Copies(h), Closing, up'
  PROVE  Copies(h)'
<1>1. /\ flight.on /\ call' = Settle("stop", flight.blocks, flight.pending)
      /\ UNCHANGED <<count, flight>>
  BY DEF Closing, Down
<1>2. call'.blocks = flight.blocks
  BY <1>1 DEF Settle
<1> QED
  BY <1>1, <1>2 DEF Copies

LEMMA CopiesKept ==
  ASSUME PartsTyped, NEW h \in Segments, Copies(h), up', Running
  PROVE  Copies(h)'
<1>0. /\ h \in Nat /\ count \in Stores /\ count.segment \in Nat
      /\ flight \in [on : BOOLEAN, blocks : Stores, owed : SUBSET Blocks,
                     pending : SUBSET Entries, fault : BOOLEAN]
      /\ call \in [step : {"none", "sync", "put"}, end : Ends \cup {"none"},
                   blocks : Stores, entries : SUBSET Entries]
  BY SegmentsAreNat DEF PartsTyped, Stores
<1>1. CASE TakeOff \/ Turn
  BY <1>0, <1>1 DEF TakeOff, Turn, Copies, NoFlight
<1>2. CASE LandFlight \/ FlightFails
  <2>1. /\ flight.on /\ UNCHANGED <<count, flight>>
        /\ \/ call' = Settle("land", count, flight.pending)
           \/ call' = Settle("fail", flight.blocks, flight.pending)
    BY <1>2 DEF LandFlight, FlightFails
  <2>2. call'.blocks \in {count, flight.blocks}
    BY <2>1 DEF Settle
  <2> QED
    BY <2>1, <2>2 DEF Copies
<1>3. CASE \E b \in Blocks : Land(b)
  <2>1. PICK b \in Blocks : Land(b)
    BY <1>3
  <2>2. Appended(count, b).segment \in Nat /\ Appended(count, b).segment >= count.segment
    BY <1>0, <2>1, PlaceFits, PlaceGoesUp, SegmentsAreNat DEF Land
  <2>3. Appended(count, b).segment >= h
    BY <1>0, <2>2 DEF Copies
  <2>4. CASE CountedIfFirst(count)
    <3>1. /\ count' = Appended(count, b)
          /\ flight'.blocks = Appended(count, b)
          /\ \/ call' = call
             \/ \E entries : call' = Settle("fly", Appended(count, b), entries)
      BY <1>0, <2>1, <2>4 DEF Land
    <3> QED
      BY <2>1, <2>3, <3>1 DEF Copies, Settle, Land, Ready, NoCall
  <2>5. CASE ~CountedIfFirst(count)
    BY <1>0, <2>1, <2>5 DEF Land, Copies
  <2> QED
    BY <2>4, <2>5
<1>4. CASE \E b \in Compact : PutAway(b)
  <2>1. PICK b \in Compact : PutAway(b)
    BY <1>4
  <2>2. Appended(count, b).segment \in Nat /\ Appended(count, b).segment >= count.segment
    BY <1>0, <2>1, CompactAssumption, PlaceFits, PlaceGoesUp, SegmentsAreNat DEF PutAway
  <2>3. Appended(count, b).segment >= h
    BY <1>0, <2>2 DEF Copies
  <2>4. CASE CountedIfFirst(count)
    BY <2>1, <2>3, <2>4 DEF PutAway, Copies, Settle
  <2>5. CASE ~CountedIfFirst(count)
    BY <2>1, <2>5, ClosingCopies DEF PutAway
  <2> QED
    BY <2>4, <2>5
<1>5. CASE Sync
  BY <1>0, <1>5 DEF Sync, Synced, Copies, Stores
<1>6. CASE SyncRefused
  <2>1. CASE call.end = "fly"
    <3>1. /\ flight' = [flight EXCEPT !.pending = {}, !.owed = {}, !.fault = TRUE]
          /\ call' = NoCall /\ UNCHANGED <<up, count>>
      BY <1>6, <2>1 DEF SyncRefused
    <3> QED
      BY <1>0, <3>1 DEF Copies, NoCall
  <2>2. CASE call.end = "fail"
    <3>1. /\ flight' = NoFlight /\ count' = call.blocks /\ call' = NoCall
          /\ call.step = "sync"
      BY <1>6, <2>2 DEF SyncRefused
    <3> QED
      BY <1>0, <3>1 DEF Copies, NoCall, NoFlight
  <2>3. CASE call.end \notin {"fly", "fail"}
    BY <1>6, <2>3, ClosingCopies DEF SyncRefused, Down
  <2> QED
    BY <2>1, <2>2, <2>3
<1>7. CASE Put
  <2>1. CASE call.end = "fly"
    BY <1>0, <1>7, <2>1 DEF Put, Copies, NoCall
  <2>2. CASE call.end \in {"land", "fail"}
    BY <1>0, <1>7, <2>2 DEF Put, Copies, NoCall, NoFlight
  <2>3. CASE call.end = "rebuilt"
    BY <1>7, <2>3 DEF Put, Copies, NoCall
  <2>4. CASE call.end \notin {"fly", "land", "fail", "rebuilt"}
    BY <1>7, <2>4 DEF Put, Down
  <2> QED
    BY <2>1, <2>2, <2>3, <2>4
<1>8. CASE Stop
  BY <1>8, ClosingCopies DEF Stop
<1> QED
  BY <1>1, <1>2, <1>3, <1>4, <1>5, <1>6, <1>7, <1>8 DEF Running

LEMMA TailEnds ==
  ASSUME TailInv, PartsTyped', ~up', UNCHANGED <<held, size, there>>, Down
  PROVE  TailInv'
BY SameFilesFramed DEF TailInv, Down, DownHoldsNothing

LEMMA TailRuns ==
  ASSUME TailInv, PartsTyped', Running
  PROVE  TailInv'
<1>0. up /\ PartsTyped /\ FilesWithin
  BY DEF TailInv, Running, TakeOff, Land, Turn, LandFlight, FlightFails, PutAway, Sync,
     SyncRefused, Put, Stop, Ready
<1>1. PICK h \in Segments : Copies(h) /\ FramedFrom(h)
  BY <1>0 DEF TailInv
<1>2. /\ FilesWithin'
      /\ FramedFrom(h)'
  <2>1. CASE UNCHANGED <<held, size, there>>
    BY <1>0, <1>1, <2>1, SameFilesFramed
  <2>2. CASE \E s \in Segments, b \in Blocks : WriteRecord(s, b)
    BY <1>0, <1>1, <2>2, WritingFrames
  <2>3. count \in Stores
    BY <1>0 DEF PartsTyped
  <2>4. CASE \E b \in Blocks : Land(b)
    <3>1. PICK b \in Blocks : Land(b)
      BY <2>4
    <3>2. Place(count, b).segment \in Segments
      BY <2>3, <3>1, PlaceFits DEF Land
    <3> QED
      BY <2>1, <2>2, <3>1, <3>2 DEF Land, diskVars
  <2>5. CASE \E b \in Compact : PutAway(b)
    <3>1. PICK b \in Compact : PutAway(b)
      BY <2>5
    <3>2. b \in Blocks /\ Place(count, b).segment \in Segments
      BY <2>3, <3>1, CompactAssumption, PlaceFits DEF PutAway
    <3> QED
      BY <2>1, <2>2, <3>1, <3>2 DEF PutAway, diskVars
  <2>6. CASE TakeOff \/ Turn \/ LandFlight \/ FlightFails \/ Sync \/ SyncRefused \/ Put \/ Stop
    BY <2>1, <2>6 DEF TakeOff, Turn, LandFlight, FlightFails, Sync, SyncFiles, SyncRefused,
       Put, Stop, diskVars
  <2> QED
    BY <2>4, <2>5, <2>6 DEF Running
<1>3. up' => Copies(h)'
  BY <1>0, <1>1, CopiesKept
<1>4. DownHoldsNothing'
  <2>1. up' \/ Down
    BY <1>0 DEF Running, TakeOff, Land, Turn, LandFlight, FlightFails, PutAway, Sync,
       SyncRefused, Put, Stop, Closing
  <2> QED
    BY <2>1 DEF Down, DownHoldsNothing
<1> QED
  BY <1>1, <1>2, <1>3, <1>4 DEF TailInv

(* A death while a record is being written leaves part of it.               *)
LEMMA TailTorn ==
  ASSUME TailInv, PartsTyped', NEW b \in Blocks, DieAppending(b)
  PROVE  TailInv'
<1> DEFINE s == Place(count, b).segment
<1>1. PartsTyped /\ FilesWithin /\ Len[b] \in Nat /\ count \in Stores
  BY LenAssumption DEF TailInv, PartsTyped
<1>2. s \in Segments
  BY <1>1, PlaceFits DEF DieAppending
<1>3. PICK part \in 1 .. Len[b] - 1 : size' = [size EXCEPT ![s] = @ + part]
  BY DEF DieAppending
<1>4. /\ held' = held /\ there' = there \cup {s}
      /\ \A t \in Segments : size'[t] >= size[t]
      /\ \A t \in Segments \ {s} : size'[t] = size[t]
  BY <1>1, <1>2, <1>3 DEF DieAppending, PartsTyped
<1>5. \A t \in Segments : \A r \in held[t] :
        EndOf(r)' = EndOf(r) /\ EndOf(r) \in Nat /\ size[t] \in Nat /\ size'[t] \in Nat
  BY <1>1, RecordEnds DEF EndOf, PartsTyped
<1>6. FilesWithin'
  BY <1>1, <1>4, <1>5 DEF FilesWithin
<1> QED
  BY <1>6 DEF TailInv, DieAppending, Down, DownHoldsNothing

LEMMA TailCut ==
  ASSUME TailInv, PartsTyped', PowerCut
  PROVE  TailInv'
<1>1. PICK cut \in [Segments -> Lengths], gone \in SUBSET (there \ entered) :
        /\ \A s \in Segments : IF s \in gone THEN cut[s] = 0
                               ELSE kept[s] <= cut[s] /\ cut[s] <= size[s]
        /\ size' = cut
        /\ held' = [s \in Segments |-> {r \in held[s] : EndOf(r) <= cut[s]}]
        /\ there' = there \ gone
  BY DEF PowerCut
<1>2. PartsTyped /\ FilesWithin
  BY DEF TailInv
<1>3. \A s \in Segments : \A r \in held'[s] : (EndOf(r) <= size[s])'
  BY <1>1 DEF EndOf
<1>4. ASSUME NEW s \in Segments, s \notin there'
      PROVE  size'[s] = 0 /\ held'[s] = {}
  <2>1. cut[s] = 0
    <3>1. CASE s \in gone
      BY <1>1, <3>1
    <3>2. CASE s \notin gone
      <4>1. size[s] = 0 /\ cut[s] \in Nat /\ cut[s] <= size[s]
        BY <1>1, <1>2, <1>4, <3>2, LengthsAreNat DEF FilesWithin
      <4> QED
        BY <4>1
    <3> QED
      BY <3>1, <3>2
  <2>2. \A r \in held[s] : ~(EndOf(r) <= 0)
    BY <1>2, RecordEnds
  <2> QED
    BY <1>1, <2>1, <2>2
<1>5. FilesWithin'
  BY <1>3, <1>4 DEF FilesWithin
<1> QED
  BY <1>5 DEF TailInv, PowerCut, Down, DownHoldsNothing

(* Reopening cuts the highest Segment, and none above it holds anything.    *)
LEMMA TailReopens ==
  ASSUME TailInv, PartsTyped', Reopen
  PROVE  TailInv'
<1>0. /\ PartsTyped /\ FilesWithin /\ flight = NoFlight /\ call = NoCall
      /\ UNCHANGED <<held, there, flight, call>> /\ up'
  BY DEF TailInv, DownHoldsNothing, Reopen
<1>1. \A r : EndOf(r)' = EndOf(r)
  BY DEF EndOf
<1>2. \A s \in Segments : s \notin there => IsWholeEnd(s, size[s])
  BY <1>0 DEF FilesWithin, IsWholeEnd
<1>3. CASE there = {}
  <2>1. count' = Fresh /\ UNCHANGED size
    BY <1>3 DEF Reopen
  <2>2. FilesWithin' /\ FramedFrom(0)'
    BY <1>0, <1>1, <1>2, <1>3, <2>1 DEF FilesWithin, FramedFrom, IsWholeEnd
  <2>3. Copies(0)'
    BY <1>0, <2>1 DEF Copies, Fresh, NoFlight, NoCall
  <2> QED
    BY <1>0, <2>2, <2>3, SegmentsAreNat DEF TailInv, DownHoldsNothing
<1>4. CASE there # {}
  <2>1. PICK h \in there, whole \in Lengths :
          /\ \A s \in there : s <= h
          /\ IsWholeEnd(h, whole) /\ count' = CountOf(h, whole) /\ RepairedTo(h, whole)
    BY <1>4 DEF Reopen
  <2>2. h \in Segments /\ h \in Nat
    BY <1>0, <2>1, SegmentsAreNat DEF PartsTyped
  <2>3. size'[h] = whole /\ \A s \in Segments \ {h} : size'[s] = size[s]
    BY <1>0, <2>1, <2>2 DEF RepairedTo, PartsTyped
  <2>4. FilesWithin'
    BY <1>0, <1>1, <2>1, <2>3 DEF FilesWithin, IsWholeEnd
  <2>5. ASSUME NEW s \in Segments, s >= h
        PROVE  IsWholeEnd(s, size[s])'
    <3>1. CASE s = h
      BY <1>0, <1>1, <2>1, <2>3, <3>1 DEF IsWholeEnd
    <3>2. CASE s # h
      <4>1. s \notin there
        BY <2>1, <2>2, <2>5, <3>2, SegmentsAreNat
      <4> QED
        BY <1>0, <1>1, <1>2, <2>3, <3>2, <4>1 DEF IsWholeEnd
    <3> QED
      BY <3>1, <3>2
  <2>6. Copies(h)'
    BY <1>0, <2>1, <2>2 DEF Copies, CountOf, NoFlight, NoCall
  <2> QED
    BY <1>0, <2>2, <2>4, <2>5, <2>6 DEF TailInv, FramedFrom, DownHoldsNothing
<1> QED
  BY <1>3, <1>4

(* A death in the rewrite leaves part of the Segment, and the node down.    *)
LEMMA TailRepairing ==
  ASSUME TailInv, PartsTyped', DieRepairing
  PROVE  TailInv'
<1>1. PICK h \in there, part \in Lengths :
        /\ size' = [size EXCEPT ![h] = part]
        /\ held' = [held EXCEPT ![h] = {r \in @ : EndOf(r) <= part}]
  BY DEF DieRepairing
<1>2. /\ ~up /\ UNCHANGED <<there, up, flight, call>> /\ PartsTyped /\ FilesWithin
      /\ DownHoldsNothing
  BY DEF DieRepairing, TailInv
<1>3. h \in Segments
  BY <1>2 DEF PartsTyped
<1>4. \A s \in Segments :
        /\ held'[s] = IF s = h THEN {r \in held[h] : EndOf(r) <= part} ELSE held[s]
        /\ size'[s] = IF s = h THEN part ELSE size[s]
  BY <1>1, <1>2, <1>3 DEF PartsTyped
<1>5. FilesWithin'
  <2>1. \A s \in Segments : \A r \in held'[s] : EndOf(r) <= size'[s]
    BY <1>2, <1>4 DEF FilesWithin
  <2>2. \A s \in Segments : s \notin there' => s # h /\ size'[s] = 0 /\ held'[s] = {}
    BY <1>1, <1>2, <1>4 DEF FilesWithin
  <2> QED
    BY <2>1, <2>2 DEF FilesWithin, EndOf
<1>6. DownHoldsNothing' /\ ~up'
  BY <1>2 DEF DownHoldsNothing
<1> QED
  BY <1>5, <1>6 DEF TailInv

LEMMA TailKept ==
  ASSUME TailInv, TypeOK, [Next]_allVars
  PROVE  TailInv'
<1>0. PartsTyped'
  BY TypesKept DEF TypeOK
<1>1. CASE UNCHANGED allVars
  BY <1>0, <1>1 DEF allVars, vars, diskVars, TailInv, FilesWithin, FramedFrom, IsWholeEnd, EndOf,
     Copies, DownHoldsNothing
<1>2. CASE Running
  BY <1>0, <1>2, TailRuns
<1>3. CASE Grounded \/ Die
  BY <1>0, <1>3, TailEnds DEF Grounded, Die, Down, diskVars
<1>4. CASE \E b \in Blocks : DieAppending(b)
  BY <1>0, <1>4, TailTorn
<1>5. CASE PowerCut
  BY <1>0, <1>5, TailCut
<1>6. CASE Reopen
  BY <1>0, <1>6, TailReopens
<1>7. CASE DieRepairing
  BY <1>0, <1>7, TailRepairing
<1> QED
  BY <1>1, <1>2, <1>3, <1>4, <1>5, <1>6, <1>7 DEF Next, Step, Running

(* The Segment appended to is whole records while the node runs, for any    *)
(* Blocks, deaths and power cuts, after an old count too (infra/blocks.av   *)
(* reopen): what a torn tail is never followed by is another record.        *)
THEOREM TailIsFramed == Spec => []TailFramed
<1>1. Init => TailInv
  <2> SUFFICES ASSUME Init PROVE TailInv
    OBVIOUS
  <2>1. PartsTyped
    BY InitHolds DEF IInv
  <2>2. FilesWithin /\ FramedFrom(0)
    BY DEF Init, FilesWithin, FramedFrom, IsWholeEnd
  <2>3. Copies(0) /\ DownHoldsNothing
    BY DEF Init, Copies, Fresh, NoFlight, NoCall, DownHoldsNothing
  <2> QED
    BY <2>1, <2>2, <2>3, SegmentsAreNat DEF TailInv
<1>2. TailInv => TailFramed
  BY DEF TailInv, TailFramed, Copies, FramedFrom, PartsTyped, Stores
<1>3. Spec => []TailInv
  <2>1. TailInv /\ TypeOK /\ [Next]_allVars => TailInv'
    BY TailKept
  <2> QED
    BY <1>1, <2>1, TypeCorrect, PTL DEF Spec
<1> QED
  BY <1>2, <1>3, PTL

(************************* the download of the bodies *************************)
(* What fills the Segments: BodyFlight, for any range of Heights, any Peers,  *)
(* any ceiling and any stall.  Every Height is accounted for once, no Peer    *)
(* owes more than its ceiling, and a download that lands is whole.            *)

\* The four hold together: the ceiling needs the types, a whole landing needs
\* every Height accounted for.
FetchIInv == FetchTypeOK /\ EachHeightOnce /\ RoomKept /\ LandedIsWhole

(****************************** sets and counts ***************************)
\* Whoever owes, owes finitely many of the Heights.
LEMMA OwesFinitely ==
  ASSUME NEW f, NEW k
  PROVE  /\ IsFiniteSet({h \in Heights : f[h] = k})
         /\ Cardinality({h \in Heights : f[h] = k}) \in Nat
<1>1. {h \in Heights : f[h] = k} \subseteq Heights
  OBVIOUS
<1>2. IsFiniteSet({h \in Heights : f[h] = k})
  BY <1>1, FS_Subset, PlanAssumption
<1> QED
  BY <1>2, FS_CardinalityType

\* A Peer that owes no more than before keeps below its ceiling.
LEMMA FewerOwed ==
  ASSUME RoomKept, NEW f, NEW k \in Peer,
         \A h \in Heights : f[h] = k => owed[h] = k
  PROVE  Cardinality({h \in Heights : f[h] = k}) <= PerPeer
<1> DEFINE new == {h \in Heights : f[h] = k}
           old == {h \in Heights : owed[h] = k}
<1>1. new \subseteq old
  OBVIOUS
<1>2. IsFiniteSet(old) /\ Cardinality(old) \in Nat /\ Cardinality(new) \in Nat
  BY OwesFinitely
<1>3. Cardinality(new) <= Cardinality(old)
  BY <1>1, <1>2, FS_Subset
<1>4. Cardinality(old) <= PerPeer
  BY DEF RoomKept, OwedBy
<1> QED
  BY <1>2, <1>3, <1>4, BoundsAssumption

(******************************** the turn ********************************)
\* What a turn hands out: to whom, and that it was asked for.
LEMMA HandoutFacts ==
  ASSUME NEW asking, NEW give \in Handouts(asking)
  PROVE  /\ Given(give) \subseteq asking
         /\ \A h \in Given(give) :
              /\ (CHOOSE k \in pool : h \in give[k]) \in pool
              /\ h \in give[CHOOSE k \in pool : h \in give[k]]
         /\ \A j, k \in pool : j # k => give[j] \cap give[k] = {}
         /\ \A k \in pool : give[k] \subseteq asking /\ Cardinality(give[k]) <= Room(k)
<1>1. give \in [pool -> SUBSET asking]
  BY DEF Handouts
<1>2. /\ \A j, k \in pool : j # k => give[j] \cap give[k] = {}
      /\ \A k \in pool : Cardinality(give[k]) <= Room(k)
  BY DEF Handouts
<1>3. \A h \in Given(give) : \E k \in pool : h \in give[k]
  BY DEF Given
<1>4. Given(give) \subseteq asking
  BY <1>1, <1>3
<1> QED
  BY <1>1, <1>2, <1>3, <1>4

\* What is owed after the getdatas of a turn.
LEMMA HandFacts ==
  ASSUME FetchTypeOK, NEW asking, NEW give \in Handouts(asking),
         NEW owes, owes = Hand(Kept(pool), give)
  PROVE  /\ owes \in [Heights -> pool \cup {None}]
         /\ \A h \in Heights : h \in Given(give) => owes[h] # None /\ h \in give[owes[h]]
         /\ \A h \in Heights : h \notin Given(give) => owes[h] = Kept(pool)[h]
<1>1. Kept(pool) \in [Heights -> pool \cup {None}]
  BY DEF Kept
<1>2. None \notin pool
  BY BoundsAssumption DEF FetchTypeOK
<1> QED
  BY <1>1, <1>2, HandoutFacts DEF Hand

\* Topped up, no Peer is above its ceiling.
LEMMA HandKeepsRoom ==
  ASSUME FetchTypeOK, RoomKept, NEW asking, NEW give \in Handouts(asking),
         NEW owes, owes = Hand(Kept(pool), give), asking \subseteq Heights
  PROVE  \A k \in Peer : Cardinality({h \in Heights : owes[h] = k}) <= PerPeer
<1> SUFFICES ASSUME NEW k \in Peer
             PROVE  Cardinality({h \in Heights : owes[h] = k}) <= PerPeer
  OBVIOUS
<1>0. None \notin Peer
  BY BoundsAssumption
<1>1. CASE k \notin pool
  <2>1. \A h \in Heights : owes[h] # k
    BY <1>0, <1>1, HandFacts
  <2> QED
    BY <2>1, FewerOwed
<1>2. CASE k \in pool
  <2> DEFINE old == {h \in Heights : owed[h] = k}
             new == {h \in Heights : owes[h] = k}
  <2>1. new \subseteq old \cup give[k]
    <3> SUFFICES ASSUME NEW h \in Heights, owes[h] = k
                 PROVE  owed[h] = k \/ h \in give[k]
      OBVIOUS
    <3>1. CASE h \in Given(give)
      BY <3>1, HandFacts
    <3>2. CASE h \notin Given(give)
      <4>1. owes[h] = Kept(pool)[h]
        BY <3>2, HandFacts
      <4> QED
        BY <4>1, <1>0 DEF Kept
    <3> QED
      BY <3>1, <3>2
  <2>2. give[k] \subseteq Heights /\ Cardinality(give[k]) <= PerPeer - Cardinality(old)
    BY <1>2, HandoutFacts DEF Room, OwedBy
  <2>3. IsFiniteSet(give[k]) /\ Cardinality(give[k]) \in Nat
    BY <2>2, FS_Subset, FS_CardinalityType, PlanAssumption
  <2>4. IsFiniteSet(old) /\ Cardinality(old) \in Nat /\ Cardinality(new) \in Nat
    BY OwesFinitely
  <2>5. /\ IsFiniteSet(old \cup give[k])
        /\ Cardinality(old \cup give[k]) =
             Cardinality(old) + Cardinality(give[k]) - Cardinality(old \cap give[k])
    BY <2>3, <2>4, FS_Union
  <2>6. Cardinality(old \cap give[k]) \in Nat
    <3>1. old \cap give[k] \subseteq old
      OBVIOUS
    <3> QED
      BY <3>1, <2>4, FS_Subset, FS_CardinalityType
  <2>7. Cardinality(new) <= Cardinality(old \cup give[k])
    BY <2>1, <2>5, FS_Subset
  <2> QED
    BY <2>2, <2>3, <2>4, <2>5, <2>6, <2>7, BoundsAssumption
<1> QED
  BY <1>1, <1>2

\* A plan with everything accounted for that was, and nothing owed twice.
Accounted(want, owes) ==
  \A h \in Heights :
    /\ h \in want => owes[h] = None
    /\ owes[h] # None => h \notin onDisk
    /\ h \in wanted \cup Owed \cup onDisk => h \in want \/ owes[h] # None \/ h \in onDisk

\* The plan after the getdatas, before the stall is looked at: accounted for,
\* and nothing of it owed twice.
LEMMA TurnPlan ==
  ASSUME FetchTypeOK, EachHeightOnce,
         NEW give \in Handouts(Back(pool) \ onDisk),
         NEW passed \in SUBSET (Back(pool) \cap onDisk),
         NEW want, want = Back(pool) \ (Given(give) \cup passed),
         NEW owes, owes = Hand(Kept(pool), give)
  PROVE  Accounted(want, owes)
<1> SUFFICES ASSUME NEW h \in Heights
             PROVE  /\ h \in want => owes[h] = None
                    /\ owes[h] # None => h \notin onDisk
                    /\ h \in wanted \cup Owed \cup onDisk
                         => h \in want \/ owes[h] # None \/ h \in onDisk
  BY DEF Accounted
<1>1. CASE h \in Given(give)
  <2>1. h \in Back(pool) \ onDisk
    BY <1>1, HandoutFacts
  <2>2. owes[h] # None
    BY <1>1, HandFacts
  <2> QED
    BY <1>1, <2>1, <2>2
<1>2. CASE h \notin Given(give)
  <2>1. owes[h] = IF owed[h] \in pool THEN owed[h] ELSE None
    BY <1>2, HandFacts DEF Kept
  <2>2. h \in Back(pool) <=> h \in wanted \/ (owed[h] # None /\ owed[h] \notin pool)
    BY DEF Back, Owed
  <2>3. ~(h \in wanted /\ owed[h] # None) /\ ~(owed[h] # None /\ h \in onDisk)
    BY DEF EachHeightOnce, Owed
  <2> QED
    BY <1>2, <2>1, <2>2, <2>3 DEF Owed
<1> QED
  BY <1>1, <1>2

\* From the plan of a turn to the next state, whether the stall is up or not.
LEMMA FetchTurnKeeps ==
  ASSUME FetchIInv, FetchTurns
  PROVE  FetchIInv'
<1> USE DEF FetchIInv
<1>0. None \notin Peer
  BY BoundsAssumption
<1>1. PICK give \in Handouts(Back(pool) \ onDisk), passed \in SUBSET (Back(pool) \cap onDisk) :
        StallOrKeep(Back(pool) \ (Given(give) \cup passed), Hand(Kept(pool), give))
  BY DEF FetchTurns
<1>2. PICK want : want = Back(pool) \ (Given(give) \cup passed)
  OBVIOUS
<1>3. PICK owes : owes = Hand(Kept(pool), give)
  OBVIOUS
<1>4. StallOrKeep(want, owes)
  BY <1>1, <1>2, <1>3
<1>5. Accounted(want, owes)
  BY <1>2, <1>3, TurnPlan
<1>6. want \subseteq Heights /\ owes \in [Heights -> pool \cup {None}]
  <2>1. Back(pool) \subseteq Heights
    BY DEF Back, Owed, FetchTypeOK
  <2> QED
    BY <1>2, <1>3, <2>1, HandFacts
<1>7. \A k \in Peer : Cardinality({h \in Heights : owes[h] = k}) <= PerPeer
  <2>1. Back(pool) \ onDisk \subseteq Heights
    BY DEF Back, Owed, FetchTypeOK
  <2> QED
    BY <1>3, <2>1, HandKeepsRoom
<1>8. UNCHANGED <<onDisk, marked, fault, pc>> /\ pc = "flying"
  BY DEF FetchTurns
<1>9. CASE Stalls(want, owes)
  <2>1. /\ pool' = pool \ {owes[h] : h \in Heights}
        /\ left' = left \cup ({owes[h] : h \in Heights} \ {None})
        /\ wanted' = want \cup {h \in Heights : owes[h] # None}
        /\ owed' = NoOwed /\ quiet' = 0
    BY <1>4, <1>9 DEF StallOrKeep
  <2>2. \A h \in Heights : owed'[h] = None
    BY <2>1 DEF NoOwed
  <2>3. FetchTypeOK'
    <3>1. {owes[h] : h \in Heights} \ {None} \subseteq pool
      BY <1>6
    <3>2. pool' \subseteq Peer /\ left' \subseteq Peer \ pool'
      BY <2>1, <3>1, <1>0 DEF FetchTypeOK
    <3>3. wanted' \subseteq Heights /\ owed' \in [Heights -> Peer \cup {None}] /\ quiet' \in 0 .. Stall + 1
      BY <1>6, <2>1, BoundsAssumption DEF NoOwed
    <3> QED
      BY <3>2, <3>3, <1>8 DEF FetchTypeOK
  <2>4. EachHeightOnce'
    <3>1. Owed' = {}
      BY <2>2 DEF Owed
    <3>2. marked \/ fault \/ Heights \subseteq wanted' \cup onDisk
      BY <1>5, <2>1 DEF Accounted, EachHeightOnce
    <3> QED
      BY <3>1, <3>2, <1>8 DEF EachHeightOnce
  <2>5. RoomKept'
    <3>1. \A k \in Peer, h \in Heights : owed'[h] = k => owed[h] = k
      BY <2>2, <1>0
    <3>2. \A k \in Peer : Cardinality({h \in Heights : owed'[h] = k}) <= PerPeer
      BY <3>1, FewerOwed
    <3> QED
      BY <3>2 DEF RoomKept, OwedBy
  <2> QED
    BY <2>3, <2>4, <2>5, <1>8 DEF LandedIsWhole
<1>10. CASE ~Stalls(want, owes)
  <2>1. wanted' = want /\ owed' = owes /\ UNCHANGED <<pool, left, quiet>>
    BY <1>4, <1>10 DEF StallOrKeep
  <2>2. FetchTypeOK'
    BY <2>1, <1>6, <1>8 DEF FetchTypeOK
  <2>3. EachHeightOnce'
    <3>1. Owed' = {h \in Heights : owes[h] # None}
      BY <2>1 DEF Owed
    <3> QED
      BY <3>1, <2>1, <1>5, <1>8 DEF EachHeightOnce, Accounted
  <2>4. RoomKept'
    BY <2>1, <1>7 DEF RoomKept, OwedBy
  <2> QED
    BY <2>2, <2>3, <2>4, <1>8 DEF LandedIsWhole
<1> QED
  BY <1>9, <1>10

(*************************** a Block, and the rest *************************)
\* A Peer shed gives back what it owes; nobody else is touched.
LEMMA PoisonKeeps ==
  ASSUME FetchIInv, NEW k \in Peer, NEW h \in Heights, Poison(k, h)
  PROVE  FetchIInv'
<1> USE DEF FetchIInv
<1>0. None \notin Peer
  BY BoundsAssumption
<1>1. owed[h] \in Peer
  BY DEF Poison, Owed, FetchTypeOK
<1>2. PICK live : live = pool \ {owed[h]}
  OBVIOUS
<1>3. /\ pool' = live /\ left' = left \cup {owed[h]}
      /\ wanted' = Back(live) /\ owed' = Kept(live)
      /\ UNCHANGED <<onDisk, quiet, marked, fault, pc>> /\ pc = "flying"
  BY <1>2 DEF Poison, Shed
<1>4. None \notin live
  BY <1>0, <1>2 DEF FetchTypeOK
<1>5. \A g \in Heights : owed'[g] = IF owed[g] \in live THEN owed[g] ELSE None
  BY <1>3 DEF Kept
<1>6. \A g \in Heights : g \in wanted' <=> g \in wanted \/ (owed[g] # None /\ owed[g] \notin live)
  BY <1>3 DEF Back, Owed
<1>7. FetchTypeOK'
  <2>1. wanted' \subseteq Heights
    BY <1>3 DEF Back, Owed, FetchTypeOK
  <2>2. owed' \in [Heights -> Peer \cup {None}]
    BY <1>3 DEF Kept, FetchTypeOK
  <2>3. pool' \subseteq Peer /\ left' \subseteq Peer \ pool'
    BY <1>1, <1>2, <1>3 DEF FetchTypeOK
  <2> QED
    BY <2>1, <2>2, <2>3, <1>3 DEF FetchTypeOK
<1>8. EachHeightOnce'
  <2>1. \A g \in Heights : ~(g \in wanted /\ owed[g] # None) /\ ~(owed[g] # None /\ g \in onDisk)
    BY DEF EachHeightOnce, Owed
  <2>2. \A g \in Heights : (g \in Owed') <=> owed'[g] # None
    BY DEF Owed
  <2>3. wanted' \cap Owed' = {} /\ Owed' \cap onDisk' = {}
    BY <1>3, <1>4, <1>5, <1>6, <2>1, <2>2 DEF Owed
  <2>4. \A g \in Heights : g \in wanted \cup Owed => g \in wanted' \cup Owed'
    BY <1>4, <1>5, <1>6, <2>2 DEF Owed
  <2>5. marked \/ fault \/ Heights \subseteq wanted \cup Owed \cup onDisk
    BY DEF EachHeightOnce
  <2>6. marked \/ fault \/ Heights \subseteq wanted' \cup Owed' \cup onDisk
    BY <2>4, <2>5
  <2> QED
    BY <2>3, <2>6, <1>3 DEF EachHeightOnce
<1>9. RoomKept'
  <2>1. \A j \in Peer, g \in Heights : owed'[g] = j => owed[g] = j
    BY <1>0, <1>5
  <2>2. \A j \in Peer : Cardinality({g \in Heights : owed'[g] = j}) <= PerPeer
    BY <2>1, FewerOwed
  <2> QED
    BY <2>2 DEF RoomKept, OwedBy
<1> QED
  BY <1>7, <1>8, <1>9, <1>3 DEF LandedIsWhole

\* A Block filed moves one Height from owed to held.
LEMMA FileKeeps ==
  ASSUME FetchIInv, NEW k \in Peer, NEW h \in Heights, File(k, h)
  PROVE  FetchIInv'
<1> USE DEF FetchIInv
<1>0. None \notin Peer
  BY BoundsAssumption
<1>1. /\ onDisk' = onDisk \cup {h} /\ h \notin Never /\ owed[h] # None
      /\ owed' = [owed EXCEPT ![h] = None] /\ quiet' = 0
      /\ UNCHANGED <<pool, left, wanted, marked, fault, pc>> /\ pc = "flying"
  BY DEF File, Sound, Off, Owed
<1>2. \A g \in Heights : owed'[g] = IF g = h THEN None ELSE owed[g]
  BY <1>1 DEF FetchTypeOK
<1>3. FetchTypeOK'
  BY <1>1, BoundsAssumption DEF FetchTypeOK
<1>4. EachHeightOnce'
  <2>1. \A g \in Heights : (g \in Owed') <=> (g \in Owed /\ g # h)
    BY <1>2 DEF Owed
  <2>2. Owed' = Owed \ {h}
    BY <2>1 DEF Owed
  <2> QED
    BY <2>2, <1>1 DEF EachHeightOnce
<1>5. RoomKept'
  <2>1. \A j \in Peer, g \in Heights : owed'[g] = j => owed[g] = j
    BY <1>0, <1>2
  <2>2. \A j \in Peer : Cardinality({g \in Heights : owed'[g] = j}) <= PerPeer
    BY <2>1, FewerOwed
  <2> QED
    BY <2>2 DEF RoomKept, OwedBy
<1> QED
  BY <1>3, <1>4, <1>5, <1>1 DEF LandedIsWhole

\* A plan thrown away leaves nothing owed.
LEMMA EmptiedKeeps ==
  ASSUME FetchIInv, EmptyPlan, UNCHANGED <<onDisk, quiet, pc>>, pc = "flying",
         pool' \subseteq Peer, left' \subseteq Peer \ pool',
         marked' \in BOOLEAN, fault' \in BOOLEAN, marked' \/ fault'
  PROVE  FetchIInv'
<1> USE DEF FetchIInv
<1>1. wanted' = {} /\ owed' = [h \in Heights |-> None]
  BY DEF EmptyPlan, NoOwed
<1>2. \A h \in Heights : owed'[h] = None
  BY <1>1
<1>3. Owed' = {}
  BY <1>2 DEF Owed
<1>4. FetchTypeOK'
  BY <1>1 DEF FetchTypeOK
<1>5. EachHeightOnce'
  BY <1>1, <1>3 DEF EachHeightOnce
<1>6. RoomKept'
  <2>1. \A j \in Peer, g \in Heights : owed'[g] = j => owed[g] = j
    BY <1>2, BoundsAssumption
  <2>2. \A j \in Peer : Cardinality({g \in Heights : owed'[g] = j}) <= PerPeer
    BY <2>1, FewerOwed
  <2> QED
    BY <2>2 DEF RoomKept, OwedBy
<1> QED
  BY <1>4, <1>5, <1>6 DEF LandedIsWhole

\* A step that leaves the plan and what is on disk alone.
LEMMA PlanUntouched ==
  ASSUME FetchIInv, UNCHANGED <<wanted, owed, onDisk, marked, fault>>, FetchTypeOK',
         pc' = "landed" => pc = "landed" \/ (pc = "flying" /\ Emptied /\ ~fault)
  PROVE  FetchIInv'
<1> USE DEF FetchIInv
<1>1. EachHeightOnce' /\ RoomKept'
  BY DEF EachHeightOnce, RoomKept, Owed, OwedBy
<1>2. LandedIsWhole'
  BY DEF LandedIsWhole, EachHeightOnce, Emptied
<1> QED
  BY <1>1, <1>2

LEMMA FetchInitHolds == FetchInit => FetchIInv
<1> SUFFICES ASSUME FetchInit PROVE FetchIInv
  OBVIOUS
<1>1. \A h \in Heights : owed[h] = None
  BY DEF FetchInit, NoOwed
<1>2. Owed = {}
  BY <1>1 DEF Owed
<1>3. FetchTypeOK
  <2>1. owed \in [Heights -> Peer \cup {None}] /\ quiet \in 0 .. Stall + 1
    BY BoundsAssumption DEF FetchInit, NoOwed
  <2>2. /\ pool \subseteq Peer /\ left \subseteq Peer \ pool
        /\ wanted \subseteq Heights /\ onDisk \subseteq Heights \ Never
    BY DEF FetchInit
  <2> QED
    BY <2>1, <2>2 DEF FetchInit, FetchTypeOK
<1>4. EachHeightOnce
  BY <1>2 DEF FetchInit, EachHeightOnce
<1>5. RoomKept
  <2>1. \A k \in Peer : OwedBy(k) = {}
    BY <1>1, BoundsAssumption DEF OwedBy
  <2> QED
    BY <2>1, FS_EmptySet, BoundsAssumption DEF RoomKept
<1> QED
  BY <1>3, <1>4, <1>5 DEF FetchIInv, LandedIsWhole, FetchInit

LEMMA FetchStepKeeps == FetchIInv /\ [FetchNext]_fetchVars => FetchIInv'
<1> SUFFICES ASSUME FetchIInv, [FetchNext]_fetchVars PROVE FetchIInv'
  OBVIOUS
<1>t. FetchTypeOK
  BY DEF FetchIInv
<1>1. CASE FetchTurns
  BY <1>1, FetchTurnKeeps
<1>2. CASE FetchFails \/ FetchLands \/ FetchStops \/ Tick
  <2>1. FetchTypeOK' /\ UNCHANGED <<wanted, owed, onDisk, marked, fault>>
    BY <1>2, <1>t, BoundsAssumption DEF FetchFails, FetchLands, FetchStops, Tick, FetchTypeOK
  <2>2. pc' = "landed" => pc = "landed" \/ (pc = "flying" /\ Emptied /\ ~fault)
    BY <1>2 DEF FetchFails, FetchLands, FetchStops, Tick
  <2> QED
    BY <2>1, <2>2, PlanUntouched
<1>3. CASE \E k \in Peer : Seat(k) \/ Leave(k)
  <2>1. FetchTypeOK' /\ UNCHANGED <<wanted, owed, onDisk, marked, fault, pc>>
    BY <1>3, <1>t DEF Seat, Leave, Shed, FetchTypeOK
  <2> QED
    BY <2>1, PlanUntouched
<1>4. CASE Sent
  <2>1. PICK k \in Peer, h \in Heights :
          PassOver(k, h) \/ File(k, h) \/ Ground(k, h) \/ Poison(k, h) \/ Condemn(k, h)
    BY <1>4 DEF Sent
  <2>2. CASE PassOver(k, h)
    <3>1. UNCHANGED fetchVars
      BY <2>2 DEF PassOver, Passed, fetchVars
    <3>2. FetchTypeOK'
      BY <3>1, <1>t DEF fetchVars, FetchTypeOK
    <3> QED
      BY <3>1, <3>2, PlanUntouched DEF fetchVars
  <2>3. CASE File(k, h)
    BY <2>3, FileKeeps
  <2>4. CASE Ground(k, h)
    BY <2>4, <1>t, EmptiedKeeps DEF Ground, FetchTypeOK
  <2>5. CASE Poison(k, h)
    BY <2>5, PoisonKeeps
  <2>6. CASE Condemn(k, h)
    <3>1. owed[h] \in Peer
      BY <2>6, <1>t DEF Condemn, Owed, FetchTypeOK
    <3>2. pool' \subseteq Peer /\ left' \subseteq Peer \ pool'
      BY <2>6, <3>1, <1>t DEF Condemn, Shed, FetchTypeOK
    <3> QED
      BY <2>6, <3>2, <1>t, EmptiedKeeps DEF Condemn, FetchTypeOK
  <2> QED
    BY <2>1, <2>2, <2>3, <2>4, <2>5, <2>6
<1>5. CASE UNCHANGED fetchVars
  <2>1. FetchTypeOK'
    BY <1>5, <1>t DEF fetchVars, FetchTypeOK
  <2> QED
    BY <1>5, <2>1, PlanUntouched DEF fetchVars
<1> QED
  BY <1>1, <1>2, <1>3, <1>4, <1>5 DEF FetchNext

(********************************* theorems *******************************)
\* All four hold in every reachable state.
THEOREM FetchHolds == FetchSpec => []FetchIInv
<1>1. FetchInit => FetchIInv
  BY FetchInitHolds
<1>2. FetchIInv /\ [FetchNext]_fetchVars => FetchIInv'
  BY FetchStepKeeps
<1> QED
  BY <1>1, <1>2, PTL DEF FetchSpec

\* Types hold in every reachable state (bodies.av Plan, Owed).
THEOREM FetchTypeCorrect == FetchSpec => []FetchTypeOK
<1>1. FetchIInv => FetchTypeOK
  BY DEF FetchIInv
<1> QED
  BY <1>1, FetchHolds, PTL

\* Every Height of a plan is wanted, owed or on disk, and never two at once,
\* through requeues, stalls and bodies nobody owes (bodies.av regathered, stalled).
THEOREM NothingLost == FetchSpec => []EachHeightOnce
<1>1. FetchIInv => EachHeightOnce
  BY DEF FetchIInv
<1> QED
  BY <1>1, FetchHolds, PTL

\* No Peer ever owes more than perPeer Blocks (bodies.av assignedOn).
THEOREM CeilingKept == FetchSpec => []RoomKept
<1>1. FetchIInv => RoomKept
  BY DEF FetchIInv
<1> QED
  BY <1>1, FetchHolds, PTL

\* A download that lands holds its whole range, unless a Block was condemned.
THEOREM WholeLanding == FetchSpec => []LandedIsWhole
<1>1. FetchIInv => LandedIsWhole
  BY DEF FetchIInv
<1> QED
  BY <1>1, FetchHolds, PTL
==============================================================================
