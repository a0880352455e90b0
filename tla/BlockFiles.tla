----------------------------- MODULE BlockFiles -----------------------------
(***************************************************************************)
(* Where the bytes of a Block go and when the Index may say so: the        *)
(* Segments of infra/blocks.av and domain/segment.av, the batches of       *)
(* Locations infra/bodies.av holds back until the Segments are durable,    *)
(* and the three callers that share one count of the current Segment:      *)
(* the download (infra/follow.av flownOnce, blockLanded, flightLanded), a  *)
(* Block rebuilt from the Mempool (putAway), and the put-down of a         *)
(* download that failed or was stopped (flightPutDown).                    *)
(*                                                                         *)
(* The node and the download each hold a BlockStore by value.  A step of   *)
(* the download starts by borrowing the node's copy; the put-down uses the *)
(* copy the download was last left with.                                   *)
(*                                                                         *)
(* A record is its four byte header and its payload: Len counts both, and  *)
(* a Location is the record's Segment and start.  A power cut loses any    *)
(* suffix of the bytes not yet synced and any directory entry not yet      *)
(* synced; of a Segment rewritten in place, as reopen does to one with a   *)
(* torn tail, it can take everything until the next sync covers it.  What a *)
(* Block's body must prove is outside this module.                          *)
(***************************************************************************)
EXTENDS Integers, FiniteSets, FiniteSetsExt

CONSTANTS Blocks,        \* the Blocks of the chain
          Len,           \* bytes of a Block's record
          Cap,           \* domain/segment.av capBytes
          Batch,         \* infra/bodies.av locationBatch
          Compact,       \* the Blocks that arrive rebuilt from the Mempool
          NoLocation,
          LastSegment,   \* bound: no Segment above this one is started
          MaxEnds,       \* bound: stops, deaths and power cuts
          MaxFails       \* bound: downloads that fail with the node up

ASSUME LenAssumption == Len \in [Blocks -> Nat \ {0}]
ASSUME BoundAssumption == LastSegment \in Nat /\ Cap \in Nat /\ Batch \in Nat
ASSUME CompactAssumption == Compact \subseteq Blocks

VARIABLES held,      \* [Segment -> whole records in it: [at, block]]
          size,      \* [Segment -> bytes in the file, as Disk.size answers]
          kept,      \* [Segment -> bytes a power cut cannot take]
          there,     \* the Segments the directory names
          entered,   \* the Segments it names durably
          bare,      \* the Segments rewritten in place and not synced since
          lost,      \* whether a rewrite was cut short, or a power cut found
                     \* one not yet synced (no code state, nor is bare)
          index,     \* b:, the Location of each Block (written with fsync)
          unplaced,  \* the Compact Blocks the Header tree has not placed
          up,        \* the node is running
          count,     \* Following.blocks
          flight,    \* Catching.flight: its own BlockStore, what it is owed,
                     \* the Locations it holds back, whether it is grounded
          call,      \* a settle between two of its writes
          ends, fails,
          stale      \* whether an old count was ever put down (no code state)

diskVars == <<held, size, kept, there, entered, bare, lost>>
vars == <<diskVars, index, unplaced, up, count, flight, call, ends, fails>>
allVars == <<vars, stale>>

Segments == 0 .. LastSegment
Stores   == [segment : Segments, used : Nat, unsynced : SUBSET Segments]
Location == [segment : Segments, at : Nat]
Entries  == [block : Blocks, segment : Segments, at : Nat]
Records  == [at : Nat, block : Blocks]

Fresh     == [segment |-> 0, used |-> 0, unsynced |-> {}]
NoFlight  == [on |-> FALSE, blocks |-> Fresh, owed |-> {}, pending |-> {}, fault |-> FALSE]
NoCall    == [step |-> "none", end |-> "none", blocks |-> Fresh, entries |-> {}]
Ends      == {"fly", "land", "fail", "stop", "rebuilt"}

PartsTyped ==
  /\ held \in [Segments -> SUBSET Records]
  /\ size \in [Segments -> Nat]
  /\ kept \in [Segments -> Nat]
  /\ there \in SUBSET Segments
  /\ entered \in SUBSET Segments
  /\ bare \in SUBSET Segments
  /\ lost \in BOOLEAN
  /\ index \in [Blocks -> Location \cup {NoLocation}]
  /\ unplaced \in SUBSET Compact
  /\ up \in BOOLEAN
  /\ count \in Stores
  /\ flight \in [on : BOOLEAN, blocks : Stores, owed : SUBSET Blocks,
                 pending : SUBSET Entries, fault : BOOLEAN]
  /\ call \in [step : {"none", "sync", "put"}, end : Ends \cup {"none"},
               blocks : Stores, entries : SUBSET Entries]
  /\ ends \in Nat
  /\ fails \in Nat

TypeOK == PartsTyped /\ stale \in BOOLEAN

-----------------------------------------------------------------------------
\* domain/segment.av

\* A new Segment is started at the old one's offset.
Place_KeepsOffset(store, b) ==
  IF store.used > 0 /\ store.used + Len[b] > Cap
  THEN [segment |-> store.segment + 1, at |-> store.used]
  ELSE [segment |-> store.segment, at |-> store.used]

\* The Segment and start of the next record: a Segment that holds something
\* is left for the next one rather than taken past the cap.
Place(store, b) ==
  IF store.used > 0 /\ store.used + Len[b] > Cap
  THEN [segment |-> store.segment + 1, at |-> 0]
  ELSE [segment |-> store.segment, at |-> store.used]

\* The count against the file: only the current Segment, and only once it
\* holds something.
Counted(store) == store.used > 0 => size[store.segment] = store.used
CountedIfFirst(store) == store.unsynced = {} => Counted(store)

\* The record the header walk of reopen stops behind.
EndOf(r) == r.at + Len[r.block]
IsWholeEnd(s, e) ==
  /\ e = 0 \/ \E r \in held[s] : EndOf(r) = e
  /\ \A r \in held[s] : EndOf(r) <= e

-----------------------------------------------------------------------------
\* infra/blocks.av

Appended(store, b) ==
  LET p == Place(store, b)
  IN  [segment  |-> p.segment, used |-> p.at + Len[b],
       unsynced |-> store.unsynced \cup {p.segment}]

\* The bytes land where the file ends, wherever the count puts the Location.
WriteRecord(s, b) ==
  /\ held' = [held EXCEPT ![s] = @ \cup {[at |-> size[s], block |-> b]}]
  /\ size' = [size EXCEPT ![s] = @ + Len[b]]
  /\ there' = there \cup {s}
  /\ UNCHANGED <<kept, entered, bare, lost>>

Synced(store) == [store EXCEPT !.unsynced = {}]

\* The directory is not synced after the files.
SyncFiles_NoDirectory(store) ==
  /\ kept' = [s \in Segments |-> IF s \in store.unsynced THEN size[s] ELSE kept[s]]
  /\ bare' = bare \ store.unsynced
  /\ UNCHANGED <<held, size, there, entered, lost>>

\* fsync of every file appended to, then of the directory.
SyncFiles(store) ==
  /\ kept' = [s \in Segments |-> IF s \in store.unsynced THEN size[s] ELSE kept[s]]
  /\ entered' = there
  /\ bare' = bare \ store.unsynced
  /\ UNCHANGED <<held, size, there, lost>>

EntryFor(store, b) ==
  [block |-> b, segment |-> Place(store, b).segment, at |-> Place(store, b).at]

LocationOf(e) == [segment |-> e.segment, at |-> e.at]

Settle(end, store, entries) ==
  [step |-> "sync", end |-> end, blocks |-> store, entries |-> entries]

-----------------------------------------------------------------------------
Init ==
  /\ held = [s \in Segments |-> {}]
  /\ size = [s \in Segments |-> 0]
  /\ kept = [s \in Segments |-> 0]
  /\ there = {}
  /\ entered = {}
  /\ bare = {}
  /\ lost = FALSE
  /\ index = [b \in Blocks |-> NoLocation]
  /\ unplaced = Compact
  /\ up = TRUE
  /\ count = Fresh
  /\ flight = NoFlight
  /\ call = NoCall
  /\ ends = 0
  /\ fails = 0
  /\ stale = FALSE

Ready == up /\ call = NoCall
Down  == up' = FALSE /\ count' = Fresh /\ flight' = NoFlight /\ call' = NoCall

\* closed: what the walk holds is put down first, from the copy it was left with.
Closing ==
  IF flight.on /\ ~flight.fault
  THEN /\ call' = Settle("stop", flight.blocks, flight.pending)
       /\ UNCHANGED <<up, count, flight>>
  ELSE Down

(***************************************************************************)
(* The download.                                                           *)
(***************************************************************************)
\* fetchPlanned: a range of the Blocks the tree has placed; a Block the
\* Index already locates is skipped.
TakeOff ==
  /\ Ready /\ ~flight.on
  /\ \E news \in {{}, unplaced} :
       LET owed == {b \in Blocks : index[b] = NoLocation /\ b \notin unplaced \ news}
       IN  /\ owed # {}
           /\ flight' = [NoFlight EXCEPT !.on = TRUE, !.blocks = count, !.owed = owed]
           /\ unplaced' = unplaced \ news
  /\ UNCHANGED <<diskVars, index, up, count, call, ends, fails>>

\* blockLanded, filed, filedAt: appended under the borrowed count, its
\* Location held back, and the batch settled when it is full; or the
\* download grounded because the count and the file differ.
Land(b) ==
  /\ Ready /\ flight.on /\ ~flight.fault /\ b \in flight.owed
  /\ Place(count, b).segment <= LastSegment
  /\ IF CountedIfFirst(count)
     THEN LET store   == Appended(count, b)
              pending == flight.pending \cup {EntryFor(count, b)}
          IN  /\ WriteRecord(Place(count, b).segment, b)
              /\ count' = store
              /\ flight' = [flight EXCEPT !.blocks = store, !.pending = pending,
                                          !.owed = @ \ {b}]
              /\ call' = IF Cardinality(pending) >= Batch
                         THEN Settle("fly", store, pending) ELSE call
     ELSE /\ flight' = [flight EXCEPT !.blocks = count, !.pending = {},
                                      !.owed = {}, !.fault = TRUE]
          /\ UNCHANGED <<diskVars, count, call>>
  /\ UNCHANGED <<index, unplaced, up, ends, fails>>

\* flownOnce with nothing landed: the download borrows the node's copy.
Turn ==
  /\ Ready /\ flight.on /\ ~flight.fault /\ flight.owed # {}
  /\ flight' = [flight EXCEPT !.blocks = count]
  /\ UNCHANGED <<diskVars, index, unplaced, up, count, call, ends, fails>>

\* The last, partial batch of Locations is not written.
LandFlight_DropsBatch ==
  /\ Ready /\ flight.on /\ ~flight.fault /\ flight.owed = {}
  /\ call' = Settle("land", count, {})
  /\ UNCHANGED <<diskVars, index, unplaced, up, count, flight, ends, fails>>

\* flightLanded: nothing more is owed, the last batch is settled.
LandFlight ==
  /\ Ready /\ flight.on /\ ~flight.fault /\ flight.owed = {}
  /\ call' = Settle("land", count, flight.pending)
  /\ UNCHANGED <<diskVars, index, unplaced, up, count, flight, ends, fails>>

\* landedWith on a grounded download: a fault on this node's own side.
Grounded ==
  /\ Ready /\ flight.on /\ flight.fault
  /\ Down
  /\ UNCHANGED <<diskVars, index, unplaced, ends, fails>>

\* A step of the download ended in an Err: faultedOn drops the Peer and puts
\* the download down from the copy stored before that step.
FlightFails ==
  /\ Ready /\ flight.on /\ ~flight.fault /\ flight.owed # {}
  /\ fails < MaxFails
  /\ fails' = fails + 1
  /\ call' = Settle("fail", flight.blocks, flight.pending)
  /\ UNCHANGED <<diskVars, index, unplaced, up, count, flight, ends>>

(***************************************************************************)
(* A Block rebuilt from the Mempool, whether or not a download is flying:  *)
(* appended under the node's own count and settled by itself.              *)
(***************************************************************************)
PutAway(b) ==
  /\ Ready /\ b \in unplaced
  /\ Place(count, b).segment <= LastSegment
  /\ unplaced' = unplaced \ {b}
  /\ IF CountedIfFirst(count)
     THEN /\ WriteRecord(Place(count, b).segment, b)
          /\ count' = Appended(count, b)
          /\ call' = Settle("rebuilt", Appended(count, b), {EntryFor(count, b)})
          /\ UNCHANGED <<up, flight>>
     ELSE Closing /\ UNCHANGED diskVars
  /\ UNCHANGED <<index, ends, fails>>

(***************************************************************************)
(* The two writes of settled (and of putAway): the Segments, then b:.      *)
(***************************************************************************)
Shared == call.end \in {"fly", "land", "rebuilt"}

Sync ==
  /\ up /\ call.step = "sync" /\ Counted(call.blocks)
  /\ SyncFiles(call.blocks)
  /\ call' = [call EXCEPT !.step = "put", !.blocks = Synced(call.blocks)]
  /\ count' = IF Shared THEN Synced(call.blocks) ELSE count
  /\ flight' = IF call.end \in {"fly", "land"}
               THEN [flight EXCEPT !.blocks = Synced(call.blocks)] ELSE flight
  /\ UNCHANGED <<index, unplaced, up, ends, fails>>

\* The count and the file differ: the Locations held back are dropped.
SyncRefused ==
  /\ up /\ call.step = "sync" /\ ~Counted(call.blocks)
  /\ CASE call.end = "fly"     -> /\ flight' = [flight EXCEPT !.pending = {}, !.owed = {},
                                                              !.fault = TRUE]
                                  /\ call' = NoCall
                                  /\ UNCHANGED <<up, count>>
       [] call.end = "fail"    -> /\ flight' = NoFlight
                                  /\ count' = call.blocks
                                  /\ call' = NoCall
                                  /\ UNCHANGED up
       [] call.end = "rebuilt" -> Closing
       [] OTHER                -> Down
  /\ UNCHANGED <<diskVars, index, unplaced, ends, fails>>

Put ==
  /\ up /\ call.step = "put"
  /\ index' = [b \in Blocks |-> IF \E e \in call.entries : e.block = b
                                THEN LocationOf(CHOOSE e \in call.entries : e.block = b)
                                ELSE index[b]]
  /\ CASE call.end = "fly"             -> /\ flight' = [flight EXCEPT !.pending = {}]
                                          /\ call' = NoCall
                                          /\ UNCHANGED <<up, count>>
       [] call.end \in {"land", "fail"} -> /\ flight' = NoFlight
                                           /\ count' = call.blocks
                                           /\ call' = NoCall
                                           /\ UNCHANGED up
       [] call.end = "rebuilt"         -> /\ call' = NoCall
                                          /\ UNCHANGED <<up, count, flight>>
       [] OTHER                        -> Down
  /\ UNCHANGED <<diskVars, unplaced, ends, fails>>

(***************************************************************************)
(* The node ending, and starting again.                                    *)
(***************************************************************************)
Ending == ends < MaxEnds /\ ends' = ends + 1

Stop ==
  /\ Ready /\ Ending
  /\ Closing
  /\ UNCHANGED <<diskVars, index, unplaced, fails>>

Die ==
  /\ up /\ Ending
  /\ Down
  /\ UNCHANGED <<diskVars, index, unplaced, fails>>

\* The process ends between the record's header and the end of its payload.
DieAppending(b) ==
  /\ Ready /\ flight.on /\ b \in flight.owed /\ CountedIfFirst(count) /\ Ending
  /\ Place(count, b).segment <= LastSegment
  /\ \E part \in 1 .. Len[b] - 1 :
       size' = [size EXCEPT ![Place(count, b).segment] = @ + part]
  /\ there' = there \cup {Place(count, b).segment}
  /\ Down
  /\ UNCHANGED <<held, kept, entered, bare, lost, index, unplaced, fails>>

Lengths == 0 .. Max({size[s] : s \in Segments})

PowerCut ==
  /\ Ending
  /\ \E cut \in [Segments -> Lengths], gone \in SUBSET (there \ entered) :
       /\ \A s \in Segments : IF s \in gone THEN cut[s] = 0 ELSE kept[s] <= cut[s] /\ cut[s] <= size[s]
       /\ size' = cut
       /\ kept' = cut
       /\ held' = [s \in Segments |-> {r \in held[s] : EndOf(r) <= cut[s]}]
       /\ there' = there \ gone
       /\ entered' = there \ gone
  /\ bare' = {}
  /\ lost' = (lost \/ bare # {})
  /\ Down
  /\ UNCHANGED <<index, unplaced, fails>>

\* The torn tail is cut and the count is the length before the cut.
CountOf_BeforeCut(h, whole) == [segment |-> h, used |-> size[h], unsynced |-> {}]

CountOf(h, whole) == [segment |-> h, used |-> whole, unsynced |-> {}]

\* Reopening counts the whole records and leaves the torn tail in the file.
RepairedTo_Uncut(h, whole) == UNCHANGED <<size, kept, bare>>

\* repaired: a file that is not whole records is written again as far as it
\* is, and not synced: it is in no BlockStore's unsynced either.
RepairedTo(h, whole) ==
  IF size[h] = whole THEN UNCHANGED <<size, kept, bare>>
  ELSE /\ size' = [size EXCEPT ![h] = whole]
       /\ kept' = [kept EXCEPT ![h] = 0]
       /\ bare' = bare \cup {h}

\* open, resume, reopen: the highest Segment the directory names,
\* its torn tail cut off.
Reopen ==
  /\ ~up
  /\ up' = TRUE
  /\ IF there = {}
     THEN count' = Fresh /\ UNCHANGED <<size, kept, bare>>
     ELSE \E h \in there, whole \in Lengths :
            /\ \A s \in there : s <= h
            /\ IsWholeEnd(h, whole)
            /\ count' = CountOf(h, whole)
            /\ RepairedTo(h, whole)
  /\ UNCHANGED <<held, there, entered, lost, index, unplaced, flight, call, ends, fails>>

\* The process ends while repaired writes the Segment again: what it had not
\* got to is gone, torn or not.
DieRepairing ==
  /\ ~up /\ Ending
  /\ \E h \in there, whole \in Lengths, part \in Lengths :
       /\ \A s \in there : s <= h
       /\ IsWholeEnd(h, whole) /\ whole < size[h]
       /\ part < whole
       /\ size' = [size EXCEPT ![h] = part]
       /\ kept' = [kept EXCEPT ![h] = 0]
       /\ held' = [held EXCEPT ![h] = {r \in @ : EndOf(r) <= part}]
       /\ bare' = bare \cup {h}
  /\ lost' = TRUE
  /\ UNCHANGED <<there, entered, index, unplaced, up, count, flight, call, fails>>

Step ==
  \/ TakeOff \/ (\E b \in Blocks : Land(b)) \/ Turn \/ LandFlight \/ Grounded \/ FlightFails
  \/ (\E b \in Compact : PutAway(b))
  \/ Sync \/ SyncRefused \/ Put
  \/ Stop \/ Die \/ (\E b \in Blocks : DieAppending(b)) \/ PowerCut \/ Reopen \/ DieRepairing

\* A failed download is put down from a count that is no longer the node's.
PutsDownOldCount ==
  FlightFails /\ ~(flight.blocks.segment = count.segment /\ flight.blocks.used = count.used)

Next == Step /\ stale' = (stale \/ PutsDownOldCount)

Spec == Init /\ [][Next]_allVars

\* The download's own steps and the node being started again are scheduled;
\* failing, stopping and dying are not.
Fairness ==
  /\ WF_vars(TakeOff) /\ WF_vars(\E b \in Blocks : Land(b)) /\ WF_vars(LandFlight)
  /\ WF_vars(Grounded) /\ WF_vars(Sync) /\ WF_vars(SyncRefused) /\ WF_vars(Put)
  /\ WF_vars(Reopen)

LiveSpec == Spec /\ Fairness

-----------------------------------------------------------------------------
(***************************************************************************)
(* Properties.                                                             *)
(***************************************************************************)
Durable(e) == e.segment \in entered /\ e.at + Len[e.block] <= kept[e.segment]
Names(e)   == e.segment \in there /\ [at |-> e.at, block |-> e.block] \in held[e.segment]

\* Every Location in the Index names its own Block's record, and names bytes
\* and a file that no power cut can take unless the file was rewritten since.
LocationsHold ==
  \A b \in Blocks : index[b] # NoLocation =>
    LET e == [block |-> b, segment |-> index[b].segment, at |-> index[b].at]
    IN  Names(e) /\ (Durable(e) \/ e.segment \in bare)

\* While the node runs its count is the length of the highest Segment.
CountIsLength ==
  up => count.used = size[count.segment] /\ \A s \in there : s <= count.segment

\* Every Location is true, and durable but for a Segment whose torn tail was
\* cut and that nothing has synced since (infra/blocks.av:17-26, #301),
\* whatever ends and rebuilt Blocks there were: until a failed download is put
\* down from a count older than the node's, a rewrite is cut short, or a power
\* cut finds one not yet synced.
LocationsTrue == stale \/ lost \/ LocationsHold

\* The comment's own promise.  It does not hold: the rewrite of a Segment
\* with a torn tail is not synced, and a death in it takes what was durable.
LocationsAlwaysTrue ==
  stale \/ \A b \in Blocks : index[b] # NoLocation =>
             Names([block |-> b, segment |-> index[b].segment, at |-> index[b].at])

\* The two answers to where a Block went are one answer until then: nothing
\* else writes to the directory, so a difference is the node's own doing
\* (infra/blocks.av:27-34, #327).
CountAgrees == stale \/ CountIsLength

\* The Segment the node appends to is whole records while the node runs,
\* whatever append a death or a power cut tore (infra/blocks.av:70 reopen).
TailFramed ==
  up /\ count.segment \in there => IsWholeEnd(count.segment, size[count.segment])

\* A download cut short by a death, a power cut or a failing Peer is only
\* delayed: every Block ends up located (infra/bodies.av settled).
AllLocated == <>[](\A b \in Blocks : index[b] # NoLocation)
=============================================================================
