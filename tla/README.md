# btc-listener in TLA+

A verification project kept beside the node's source: TLA+ modules that model the
node's core, TLC configurations that check them on small instances, and theorems
that TLAPS proves for every instance. Paths below are relative to the repository.

## 1. The system

btc-listener is a Bitcoin node written in Aver, a pure functional language in
which every outside effect is a parameter. One owner process holds all state;
the others (a walk, a ticker, an acceptor, one per Peer, one per writer) send it
requests and act on the answers. Its durable state is one Store of key spaces
plus append-only Segments of Blocks.

| part | state | operations | what makes it hard |
|---|---|---|---|
| Header tree and Index (`infra/headers.av`, `domain/headertree.av`, `domain/reorg.av`) | `k:` Block Id to Header and Placement, `h:` Height to Block Id, the tip record, invalid marks | plant genesis, absorb a batch, repoint, mark invalid | four writes per batch, a death between any two; ties; refused Blocks |
| Headers phase (`infra/download.av`) | the Height to ask from | ask by Locator, hear a batch, go on or stop | answers not tied to questions, branches longer than a batch |
| UTXO Set (`infra/utxo.av`, `infra/chainstate.av`, `domain/disconnect.av`) | `u:` coins, `d:` Undo Data, `meta:setTo`, `meta:undoBelow`, the in-memory Window | begin a chunk, read, connect, absorb, flush, end; prune Undo | a Window the Store does not hold yet; a flush of many Blocks at once; jobs in flight |
| Realignment (`infra/rewind.av`, `domain/rewind.av`) | the Set's standing Block | drop to the fork, one Block per write | a death or a missing body half way; the Undo floor |
| Connecting one Block (`domain/connect.av`, `script*.av`) | none | BIP30, BIP34, sigops, finality, walk of the Transactions, fees | Outputs made and spent in one Block; order of checks |
| Bodies and Segments (`infra/bodies.av`, `infra/blocks.av`, `domain/segment.av`) | `b:` Locations, Segment files, the prune Watermark | fetch, append, sync, prune, reindex | torn tails, Locations ahead of the file |
| Walk and owner (`main.av`, `app/owner.av`, `infra/follow.av`, `domain/catchup.av`) | the Catch-up in progress, the gate of claims and cooldowns | hear, tick, land a flight, settle, charge, retry | a late answer against a deadline, requests of several processes in any order |
| Peers (`infra/peers.av`, `domain/inbox.av`, `domain/outbox.av`, `domain/addressbook.av`, `domain/handshake.av`) | the pool, outboxes, Blocks to serve, the address book | dial, accept, greet, hear, send, serve, drop | one-shot writes, a message handled a request after it came, a Peer lost at any step |
| Claim, pruning, reindex (`infra/lock.av`, `infra/prune.av`, `infra/reindex.av`, `app/maintain.av`) | the claim file, the Prune Watermark | claim, release, prune, reindex | a death between any two calls on the disk, two runs that ask at once |
| Mempool and Compact Blocks (`domain/mempool.av`, `domain/compactblock.av`) | Transactions held, reconstruction in progress | accept, evict, confirm, rebuild | conflicts, expiry, short id collisions |
| Pure rules (`domain/target.av`, `subsidy.av`, `finality.av`, `compactsize.av`, `chainwork.av`, ...) | none | retarget, subsidy, lock times, encodings | boundaries and widths |
| Serving, screen, metrics, tools | read only views | look up, draw, log | not modelled: no state of its own |

How the parts interact. The walk asks the owner what to do next and the owner
answers one request at a time, so a handler of the owner is never interrupted;
what interleaves are requests: a step of the walk, a Message of a Peer, a tick,
a Handshake that finished, a writer that fell behind. A Catch-up runs through

    claim due -> headers asked and heard -> Set realigned -> bodies fetched
      -> chunks of the Set connected, flushed, swept -> charged or let go

and between any two of these the owner hears Messages: a compact Block may be
rebuilt, which appends to the Segments, absorbs a Header and may turn `h:`. The
Header tree says which branch is followed, `h:` is read by the walk of the Set,
the download and pruning; the Set's standing Block decides what may be pruned;
the three writers of Segments share one count.

What makes each part correct:

| part | correct when |
|---|---|
| Header rules | a Header taken satisfies the rules on its whole branch, however it was split into batches (but see 7 for an ancestor named behind it) |
| Header tree and Index | at rest `h:` is the branch of the tip record and the tip is the heaviest Block held; `h:` never has a gap or names what is not held |
| UTXO Set, realignment | what a Block is checked against is the coins of the Block below it; the Store is always the coins of one Block; a reorganisation inside the Undo window can always be undone |
| Segments, Locations | a Location in the Index names its own Block's bytes and no power cut can take them (7 has the ways it can) |
| Download | no Height is lost or asked for twice, no Peer is given more than its ceiling, the download ends |
| Catching up | a claim is acted on in the end, a Peer that wastes Catch-ups is rate limited, every Catch-up ends, the Set comes to the tip |
| Finality | a lock that has opened stays open |
| Mempool | what is held is backed by the Set but for what is still to be swept; what a reorganisation takes off comes back if it still fits; who leaves for room pays least |
| Compact Blocks | only the Block a Header commits to is filed; a rebuild ends |
| Claim, pruning, reindex | one run writes at a time and the whole claim of a dead one blocks nobody on its host; a prune takes nothing above its Watermark and tidies up after one that died; a reindex finds every body |
| Peers | each dial is answered for once; serving fits the outbox; whoever greets or waits for Blocks is through or gone in the end; one Peer's fault costs one Peer |

## 2. Modules

| module | models | extends |
|---|---|---|
| `BlockTree` | the Blocks a Network could show: Parent, Height, Work, ancestors | |
| `HeaderIndex` | placing a batch, choosing the tip, repointing `h:`, marking a Block invalid, write by write | `BlockTree` |
| `Ledger` | abstract: the Set is the coins of one Block and moves up a sound branch or down one Block | `BlockTree` |
| `SetWalk` | the chunk: realign, read ahead, connect through the Window, flush, refuse, end, sweep Undo Data; with prunes, moves of `h:`, rebuilt Blocks, stops, errors and deaths | `BlockTree`; implements `Ledger` |
| `BlockFiles` | appending, syncing and reopening Segments, batches of Locations, the three copies of the count | |
| `BodyFlight` | the plan of a download over a pool of arbitrary Peers | |
| `CatchUp` | claims and cooldowns, the owner's answers to the walk, Peers | |
| `Target` | the compact form, the retarget, the work of bits | |
| `HeaderRules` | which Headers of a batch the tree takes | `Target` |
| `Finality` | lock times and relative locks on the branches of `HeaderRules` | `HeaderRules` |
| `Mempool` | the Mempool as a value: admission, conflicts, what leaves, eviction | |
| `Relay` | the Mempool while Catch-ups move the Set, the sweep after them and what a reorganisation gives back | `BlockTree`, `Mempool` |
| `Rebuild` | compact Blocks: heard, rebuilt, asked after, filed, given up; a death | `Relay` |
| `OneWriter` | abstract: of the runs in a directory one writes at a time | |
| `Claim` | the claim file, call by call, on one host or several | implements `OneWriter` |
| `Upkeep` | a node that follows, a prune and a reindex taking turns in a directory | `BlockTree`, `OneWriter` |
| `Peers` | the pool: callers, the dial, greetings, messages, outboxes, Blocks served | |
| `MC*` | the small instances TLC runs | the module named |
| `BlockTreeProofs` | facts about trees of Blocks and the lemmas the other proofs share | `BlockTree` |
| `HeaderIndexProofs` | theorems about the Index and about the rules and locks on Headers | `HeaderIndex`, `Finality` |
| `SetWalkProofs` | theorems about the chunk, and that it implements `Ledger` | `SetWalk` |
| `BlockFilesProofs` | theorems about Segments and Locations and about the plan of a download | `BlockFiles`, `BodyFlight` |
| `CatchUpProofs` | theorems about claims and cooldowns | `CatchUp` |
| `RelayProofs` | theorems about the Mempool and compact Blocks | `Rebuild` |
| `UpkeepProofs` | theorems about prunes and reindexing, and that the claim implements `OneWriter` | `Upkeep`, `Claim` |
| `PeersProofs` | theorems about the pool | `Peers` |

Definitions whose comment begins with "Slip" are the model of a plausible mistake
(a guard dropped, a reset left out). No specification uses them; each is there
to show that one property would notice it.

### From the code to the model

**HeaderIndex.** `tree` is `k:`, `heights` is `h:`, `bestTip` the tip record,
`invalid` the marks. `Plant` and `NameGenesis` are `seeded` and `heightNamed`;
`Absorb` is `absorbed` up to its first `putAll`, over any set of Headers each of
which attaches; `WriteHeights`, `Sweep` and `NameTip` are the three writes that
follow, in the order of `repointed`. `MarkInvalid` writes the mark and then goes
through the same three writes with the parent as target. `Crash` is a death, or
a failed write, between any two of them. `bestOf` folds the batch's Placements
before the standing tip, so at equal work a batch Header wins.

**SetWalk.** `coins`, `undo`, `setTo`, `undoBelow` are the keys `u:`, `d:`,
`meta:setTo`, `meta:undoBelow`; `created`, `spent`, `undos`, `reached` the
Window of `infra/utxo.av`; `reading` the body read ahead of the one being
connected. `Drop` is one disconnection and one write. `Connect` is the decode
and connect jobs with the absorption of their result and, when the Window has
grown large enough, the flush that is part of the same handler. `Refuse` marks
and repoints; `Finish` is the last flush of a chunk; `SweepUndo` and `MarkUndo`
the two writes of `marked`. `Rebuilt` is the compact Block of
`infra/follow.av` `storing` heard between two steps of a chunk: it files a body
and may turn `h:`. `Lose` is any error or a death: the Window is gone and the
Store is where its last write put it. What connecting one Block decides is
taken down to what it asks of the coins: none made that is held (BIP30), every
one spent found, and nothing wrong in the Block itself.

**BlockFiles.** A Segment is its length, the bytes a power cut cannot take and
the whole records in it; a record is as long as `Len` says and a Location is its
Segment and start. `count` is the node's BlockStore, `flight.blocks` the
download's, both held by value as in the code. `Land` is `filed` with the count
check of `countedIfFirst`, `Sync`, `SyncRefused` and `Put` the two writes of
`settled` and what a refusal does for each caller, `PutAway` a rebuilt Block,
`FlightFails` the put-down from the copy of the step before, `Stop` the put-down
at the end. `PowerCut` may take any suffix not synced and any directory entry
not synced; `Reopen` walks the highest Segment and cuts its torn tail by writing
the Segment again in place, as `repaired` does, which leaves it `bare` until the
next sync. `DieRepairing` is a death inside that write, after which any prefix of
the file may be left; that, or a power cut that finds a Segment bare, is `lost`.

**BodyFlight.** `wanted` and `owed` are the plan; a `Turn` requeues what a Peer
that has gone owed, hands out under the ceilings and looks at the stall;
`PassOver`, `File`, `Ground`, `Poison`, `Condemn` are what one Block sent does.
Peers are arbitrary: any seated one may send anything at any time.

**CatchUp.** `quiet`, `deferred`, `weighed` are the Gate of
`domain/catchup.av`; `pc` is the request the walk makes next or is parked on;
`key` to `ran` are the Catch-up in progress. Each action is one request to the
owner. The chain is one branch and a Header is its Height, so a batch is a range.

**Mempool, Relay, Rebuild.** A pool is the Transactions held, the claims that
index them by Output, and their bytes. `Offered` is admission as
`infra/mempool.av` asks it: standard, backed by the Set, above the floor, not in
conflict, no coinbase younger than `Maturity` among what it spends, and room made
by `evicted`. `Relay` has the Set move as `Ledger` says
(`at` is what the Store holds) through the phases of a Catch-up: `Align` back to
the fork, interim chunks between slices of download, final chunks, and `Finish`,
which is `finishedWith`: sweep, then offer again what came off. `counted` is what
the final chunks counted, `owed` the history of what left without being told.
`Rebuild` adds one compact Block at a time: the holes found, asked for, and found
again in the Mempool as it is when the answer comes; every way out is a fall back
to a Catch-up.

**Claim.** Each call of `claimed` and `released` on the file is an action: there
is one, read it, ask `/proc`, delete it, write it. A death may leave half a claim
(`Torn`), which names nobody and is refused until somebody deletes it by hand. `raced` records that two runs were ever asking at once, which the code
does not guard against.

**Upkeep.** `where` is what the Segments hold, `location` the Index. A prune is
one `DeleteSegment` per Segment, then `DropLocations`, then `Mark`; a reindex one
write per Segment. `Begin` and `End` of `OneWriter` are the turns, and a run ends
between any two calls.

**Peers.** A key is a record of its stage, its outbox counted in units and the
Blocks it waits for. `Accept`, `Clock`, `RunOut`, `Hand`, `Handle` are the
requests of the acceptor, the ticker and a Peer's process; `Drain` and the
`Serve`s after it are one request of the writer, and `park` what it waits on
next. A `Serve` is one Block, for the lowest key that waits and has room;
`ReadFails` is a Block that cannot be read back, an Err that ends the run.
`Deafen` and `Listen` are Peers that stop reading and read again, `broken`
the writes that fail.

**Target, HeaderRules, Finality.** Operators translated function by function,
with the code's numbers as constants. `Walked` folds a batch as
`headers.av` does, with the lookups through batch and tree. Batches come in any
order: parents first, the child before its parent, a Header before any other it
stands on. `hasty` are the Headers taken while an ancestor below their parent was
still to come in the same batch: `linkOf` finds that one in neither place.

## 3. Runs

| run | question | outcome |
|---|---|---|
| `header_index` | batches, ties, refusals and a death between any two writes: what are `h:` and the tip? | holds |
| `set_walk` | three interferences anywhere in the building of the Set over a forked tree | holds |
| `set_walk_turned` | is the Store one Block's coins when a rebuilt Block turns `h:` beside a chunk? | no, see 7 |
| `block_files` | downloads and a rebuilt Block with failing Peers, stops, deaths, power cuts: are Locations true and durable until an old count is put down or a rewrite is cut short, and is everything located in the end? | holds |
| `body_flight` | four Heights, one condemned, three arbitrary Peers | holds |
| `catch_up` | one Peer that stays and one that may lie, answer late, fall silent or leave | holds |
| `header_rules` | Headers of three Networks through the first retarget and beyond it, in batches in and out of order | holds |
| `relay` | Transactions heard while the Set moves and compact Blocks are rebuilt: is the pool true to itself, what is held without backing, given back, put out? | holds |
| `claim` | four runs on two hosts that may die at any call: who writes, and is anybody locked out by anything but half a claim or another host's? | holds |
| `upkeep` | following, pruning and reindexing in turn, each ending anywhere | holds |
| `peers` | callers, dials, greetings and Blocks served to Peers that break, stall and ask without end | holds |
| `peers_told` | does one Peer's fault cost one Peer? | no, see 7 |

What the properties say is written above each of them in its module. The ones
that carry most:

- `IndexFollowsTip`, `NoGap`, `MostWorkFollowed`: the walk connects
  whatever `h:` names, so `h:` has to be one branch, whole, and the heaviest.
- `ViewIsTheLedger`: what an Input finds through an unflushed Window equals the
  coins of the Block the Window has reached, after any reorganisation.
  `LedgerKept`: the Store alone implements `Ledger`, at every write.
  `UndoInWindow`: the Undo Data a reorganisation needs is there.
- `LocationsTrue`: true, and durable but for a Segment rewritten and not synced
  since, until an old count or a rewrite cut short; `CountAgrees`: the count is the file.
- `EachHeightOnce`, `LandedIsWhole`, `FlightEnds`.
- `ClaimLetGo`, `FollowsUnless`: a claim is not kept for ever, and there are
  only the named ways for the Set to stay below the chain.
- `RulesKept`: the verdict of a batch is the verdict of the whole branch, unless a
  lower ancestor comes behind in that batch. `LocksOpenForGood`: a lock that let a
  Transaction into a Block judged on its whole branch never closes again.
- `GoneIsOwed`: asking the Undo Data of the Blocks that moved is as good as asking
  the Set about everything held. `BackOrUnfit`: a reorganisation loses no
  Transaction that still fits, the age of a coinbase it spends included.
  `PoolIsTrue`: through admission, eviction, sweep and restore the claims index
  exactly what is held and the bytes are its size, so no Output stays locked by
  who has left and no room is lost.
- `TakesTurns`: the claim implements `OneWriter`; `LastOneWorks`: the whole
  claim of a dead run locks nobody out on its host; half of one locks out everybody,
  and the property says so.
- `PruneKeepsAbove`, `PruneTidies`, `ReindexFinds`: deletion in three writes,
  whatever died before and wherever `h:` turned since. A prune repairs what an
  earlier one left below its own Watermark, and no more.
- `OneOutcome`, `EveryoneServed`: a dial is reported once however it ends, and no
  park of the writer forgets a Peer that waits, unless one of a lower key asks again
  and again.

### Bounds, and why they are enough

- **HeaderIndex**: seven Blocks: a trunk of three, a branch of two that is
  shorter and heavier, a tie at one Height, a tie across Heights. Two Blocks
  may be refused. One death (`MaxCrashes`); after it anything may follow, and
  nothing remembers how many there were.
- **SetWalk**: a trunk of four and a branch of two off the first Block, one
  Block of which is unsound. Coin x is made low and spent high on both branches,
  y made and spent inside one Block, z on one branch only. Undo window 2, so
  that both a reorganisation inside it and one below its floor occur; a Window
  that is flushed at three records and chunks of three Blocks, so that chunks
  end with and without a flush behind them. `MaxTroubles` bounds moves of the
  Index, prunes, rebuilt Blocks, stops, errors and deaths together to three (two
  in `set_walk_turned`). `Turns` says whether a rebuilt
  Block may be of another branch: FALSE where the rest of the walk is checked,
  TRUE in `set_walk_turned`.
- **BlockFiles**: three Blocks of two bytes, Segments of five, so a roll falls
  after two records; batches of two Locations, so a batch spans a roll or not;
  two ends (stop, death, power cut) and one failing download; no Segment above
  `LastSegment` is started, and four is more than the Blocks need. One Block may
  arrive rebuilt and one download may fail, so an old count may be put down:
  `stale` remembers that as `lost` remembers a rewrite cut short; `LocationsTrue`
  speaks of what is before both, `CountAgrees` of what is before the first (7),
  `TailFramed` and `AllLocated` of everything.
- **BodyFlight**: four Heights over ceilings of two and three Peers, so that
  nobody can be given everything; one Height no chain may hold; a stall of two
  ticks.
- **CatchUp**: two Peers, one of which stays and answers; one Block above
  genesis, there from the start or mined later; a cooldown of one tick, a long run and a deadline of two, so
  that a Catch-up may outlast its own cooldown.
- **HeaderRules**: a byte of four values, mantissas of two bytes, windows of
  three Headers, a median of three timestamps, seven Heights: the first retarget
  and the Headers after it. Batches of one or two Headers in any order; no batch
  is taken once six Headers are held, so at most seven are. The clock stands
  still and the Peers' work has found a Block Id of 1. The code's Int has no
  width, so nothing wraps. A median of three cannot be understated by a branch cut
  short; one of five can (7), which is what the condition of `LocksOpenForGood` is
  for, and what its theorem covers.
- **Relay, Rebuild**: a trunk of two and a heavier branch of two off the first
  Block; four Transactions: two that spend one Output and share a short id, a
  child, and one on another Block that pays as little as it weighs much; room for
  three units; a coinbase that may be spent two Blocks on, which the heavier branch
  is too short for when it is marked; two moves of the Index; one honest compact form whose parts have to
  be asked for and one that is complete; answers right and wrong.
- **Claim**: four runs, three on one host and one on another: enough for a holder, two
  that read its claim and one that cannot ask about it.
- **Upkeep**: two branches of two off the first Block, two Segments, prunes at
  Heights 1 and 2 in any order, two moves of the Index.
- **Peers**: two keys in `Peers.cfg`, so that two Peers may wait for Blocks at
  once, and three in `PeersTold.cfg`; one host to dial and one that calls, a seated
  Peer to begin with, caps of one and two, an outbox of three units with a watermark
  of two, Blocks of two units, any number of getdatas over at most two Blocks waited
  for, and one Peer that stops reading. Keys are never used twice, so `MaxKeys`
  bounds a run, not the pool.

`high`, `costs`, `dropped`, `since`, `stale`, `bare`, `lost`, `hasty`, `raced`, `owed`,
`counted` and `left` of Relay, `filed` of Rebuild, and `told`, `news` and `full` of a Peer are history: no
guard reads them.

### Fairness, and what justifies it

- `SetWalk`: weak fairness of a chunk's own steps (the walk asks for its next
  step as soon as the last is answered) and strong fairness of a body arriving
  between two chunks (a download is begun again by every Catch-up, though a
  chunk may be running at any given moment). Nothing that interferes is fair.
- `BlockFiles`: weak fairness of the download's own steps, of each settling
  write and of the node being started again.
- `BodyFlight`: weak fairness of the walk's next turn and of time. Nothing is
  asked of Peers.
- `CatchUp`: weak fairness of the walk, of hearing what a Peer has sent, of the
  rebuild's end, of the owner's turn, of time, of Peers being seated, and of the
  Peers in `Steady` announcing what they hold.
- `Rebuild`: weak fairness of time and of the turn of the loop that finds a wait
  too long (`rebuiltOr`). No Peer has to answer.
- `Claim`: weak fairness of the claiming steps of a run that is alive; dying is
  never fair.
- `Peers`: weak fairness of the writer's requests; strong fairness of the dial
  running out of its budget, of each greeting's deadline being looked at and of each
  message taken in being acted on: every process asks again as soon as it is
  answered and the owner answers each in the end, but it may be found any number of
  times in the middle of the writer's request. And of a Peer that stopped reading
  reading again, or its connection going: without it nobody could be served.
- `HeaderIndex`, `HeaderRules` and `Upkeep` have none: their properties are about
  states and steps.

Deadlock is not checked where the system may stop: the walk stands still with
nothing to do, a download has ended, a run is over, a bound is met.

## 4. Proofs

TLAPS proves, for every value of the constants under the assumptions named in
the modules (`TreeShape`, `ChainShape`, `BadShape`, `CoinShape`, `SoundShape`,
`BoundShape`, `LenAssumption`, `BoundAssumption`, `CompactAssumption`,
`PlanAssumption`, `BoundsAssumption`, `KeysAssumption`, `TimesAssumption`,
`TargetShape`, `LimitShape`, `RulesShape`, `FinalityShape`, `TxShape`, `RelayShape`, `CompactShape`,
`ClaimNames`, `UpkeepShape`, `PoolShape`; TLC evaluates each of them in a run):

- **HeaderIndexProofs.** Types; `NoGap` and `TreeWhole` through any deaths;
  `IndexFollowsTip`, `MostWorkFollowed` and `WorkGivenUpOnlyToAMark` until the
  first death. The invariant has two halves. `HeldInv` is what every death
  leaves: the tree hangs together, genesis and the tip are held from the first
  write on, the target in flight is held. `BranchInv` says what `h:` is at each
  point of a call: the old tip's branch before the naming, right up to the
  target's Height after it, the target's branch after the sweep; and that the
  target in flight outweighs what is held. `IndexFollowsTip` alone speaks only
  of the state at rest, hence the strengthening. The step that matters is
  `Changed`: two branches that agree at one Height agree below it, because a
  Block commits to its ancestry (`ChainShape`).
  Of the rules: `RulesKept`, `EasyOnlyWhenLate` and `LocksOpenForGood`, for any
  Networks, Interval, window, timestamps, bits and clock. The invariant is
  `RulesKept` with `Lineal`: what is held starts at genesis and has every parent.
  Then the walk down from a Header that is placed finds everything below it unless
  it is hasty (`ReachWhole`, `HeldReach`; `TakesTwo`, `TakesHigherFirst` and
  `TakesChildFirst`, one for each order of a batch of two), so the verdict that was
  given is the verdict over the whole branch. The other two are read off a tree
  that keeps the rules but for the hasty: `EasyOnlyWhenLate` where none lies between
  a Header and the start of its window (`InOrder`), `LocksOpenForGood` where the
  Block below is none. `EasyOnlyWhenLate` goes
  down the Heights of one window: the first Header that tells something is the
  window's first, or one that by the same property carries its bits. For
  `LocksOpenForGood` there is a median of any timestamps (`MedianExists`), and it
  never falls from a Header to the one on top (`MedianPastGrows`): what the new
  window kept of the old one and has below the old median is no more than half,
  and the timestamp that came is above it.
  Of the compact form: `PackedIsLargest` and `ProofWeighs` for any even number of
  values of a byte, two or more bytes of mantissa and any limits that may stand in a
  Header. Powers are a recursive function, as `powerOf` is; that there is one is
  shown by tables up to each exponent (`PowersExist`, `PowerDefined`), and its laws
  by least counterexamples (`StepByStep`). `Packs` says what a target is packed to:
  its quotient by the power of the size left, which is the largest multiple of that
  power not above it; and bits of a smaller size name at most the sign bit of that
  size, which is itself such a multiple, because a mantissa has two bytes or more
  (`SignIsWhole`). With one byte of mantissa the property is false.
- **SetWalkProofs.** Types; and, while no Block rebuilt beside a chunk turns
  `h:` (`Steady`, which is `~Turns`), `ViewIsTheLedger`, `UndoInWindow`,
  `UndoOnBranchOnly`, `FloorRises` and that every step is a step of `Ledger` or
  none of it; and, where besides no branch makes a coin twice (`MadeOnce`; 7 shows
  that this is needed), `RefusalIsJust`. The invariant adds to the properties what
  makes them inductive: the
  Store is the ledger of a sound Block; the Window is a difference on it
  (nothing created is in the Store, everything spent is); every Undo Data held or
  about to be is exactly what its Block found; the Block read ahead is the child
  of the one reached. `set_walk_turned` shows that the assumption is needed.
- **BlockFilesProofs.** Types; `CountAgrees` and `LocationsTrue` for any Blocks,
  lengths, cap and batch, with rebuilt Blocks, failing downloads, deaths and power
  cuts, until a download is put down from a count that is not the node's
  (`stale`), the second also until a rewrite is cut short (`lost`): until then a
  Segment written again in place holds what it held, only no longer durably, and
  each Location stands on bytes that are there, durable where the Segment is not bare
  (`Stands`). A Location held back names its own record, durable or in a Segment the
  next sync covers, seen from either copy of the count; so what a sync lets
  through is durable, and a power cut keeps it. A record lands where its Location
  says because the count is the file's length. `TailFramed` rests on less and holds
  after an old count too: every copy of the count is of this run of the node, so
  none is below the Segment reopened, and from there up every Segment is whole.
  Of the plan: `EachHeightOnce`, `RoomKept`, `LandedIsWhole` for any finite range,
  pool and ceiling. The three with the types are inductive together; the counting
  is that a hand-out is disjoint from what is owed.
- **CatchUpProofs.** `LieCostsOnce` and `RateCapped` for any Peers, Heights named
  and times. `Weighing` says what a claim that was paid for leaves behind: its
  Peer is gone for good, or seated with a Height the tree has reached or one it is
  remembered to have weighed. `Cooling` says that what is left of a cooldown and the
  time since make up a whole one. `Grounded` bounds what is on the wire by what the
  network has mined, without which the types are not inductive.
- **RelayProofs.** `GoneIsOwed`, `EvictedPayLeast`, `BackOrUnfit` and
  `PoolIsTrue` for any tree, Transactions, rates, maturity, limits, compact forms
  and answers. A pool is true after
  each operation on a true one: admission, eviction, sweep and restore each have
  their lemma. For `GoneIsOwed` the invariant adds what the Catch-up carries
  from chunk to chunk (`Counts`): while a final chunk has taken nothing off, what
  it counted lies in the Blocks still on its branch, so sweeping by their Undo
  Data misses nothing. `GivenBack` says that a restore is due for exactly what came
  off and was not offered yet; `BackOrUnfit` then follows the fold over it offer by
  offer. `MapThenSumSet` is treated as a sum over every set of Transactions at once
  (`SizeIsSum`), as the other proofs treat their folds (`FoldOn`).
- **UpkeepProofs.** `PruneKeepsAbove` for any tree, Watermarks and Segments: the
  floor of a prune is the lowest Segment a Location of `h:` at or above its
  Watermark names, and that stays so while it deletes, because it writes alone.
  `PruneTidies` adds that the Segments gone are the lowest, that the floor is in use
  (the Segment in hand, or one a Location at or above the Watermark names) and that
  no Location left below the Watermark is below the floor: a Segment gone at or above
  the floor takes the floor with it. `ReindexFinds`: a body on disk outside the Segments still to be walked has a
  Location that holds it.
  Of the claim, for any runs and hosts, while no two were asking at once
  (`raced`): at most one run writes (`OneAtATime`), and every step is a step of
  `OneWriter` or none of it. The invariant says what each point of asking knows:
  a run past the test of the file holds the claim, or whoever held it is dead;
  so a run that writes its claim finds nobody writing.
- **PeersProofs.** `OneOutcome` for any keys, hosts, caps and Block sizes. By
  itself it is not inductive: the invariant adds that a key not handed out yet is
  free, that an Outcome of success not drained yet is of a Peer seated or gone,
  and that a key being dialled is never a caller's. `ServingFits` where the
  watermark leaves a whole Block's room under the limit: while the writer is
  between two Blocks no other request is answered.

Only model-checked: everything under fairness (`ReachesTheTip`, `AllLocated`,
`FlightEnds`, `CatchUpEnds`, `ClaimLetGo`, `FollowsUnless`, `RebuildEnds`,
`LastOneWorks`, `GreetingEnds`, `EveryoneServed`), which is out of the prover's
reach. Every invariant and every action property of the passing runs is a theorem,
some under conditions its statement names: `Steady` for the Set walk (and `MadeOnce`
for `RefusalIsJust`), `Roomy` for `ServingFits`, and a Block Id above nought for
`ProofWeighs`: the code has no such rule, and bits that name the target nought are
met by the Id nought and add no work. Proved
and in no run: the types, `TreeWhole`, `UndoOnBranchOnly`,
`FloorRises`, `RoomKept` and `OneAtATime`. Where a property itself names a way out
(`stale`, `lost`, `hasty`, `raced`), 7 says what happens behind it.

## 5. What is left out

- Inside the modules: the order of the wanted list of a download; which body of
  a Segment a prune takes and its three writes; a Block both owed by a download
  and rebuilt; bytes a rewrite of a Segment took off are taken not to come back; a
  torn tail left in a Segment that is not the highest; a Block refused or a branch given up during a Catch-up (`CatchUp`
  has one branch); batches of more than two Headers, and a clock that moves.
  A chunk's Block is decoded and connected in one step with the absorption of
  the result: what is heard meanwhile touches neither the Window nor the Block,
  so it may as well be heard before or after.
- `Mempool`, `Relay`, `Rebuild`: packages of Transactions, expiry by time, locks and
  the rules of Scripts by Height (part of what is standard), what is
  announced to whom; `Upkeep`: a torn tail (that is `BlockFiles`), the other
  side indexes, the space a prune reports; `Claim`: a process number used again;
  `Peers`: the bytes of a message and its framing, pings, what fills the address
  book, the order in which hosts are tried.
- Whole parts: connecting one Block (its rules are operators over Transactions and
  Scripts; `SetWalk` takes from it only whether a Block fits its coins), Scripts,
  how the address book is filled, framing, the Locator and a Headers phase over
  several branches, side indexes and audit, the database provider, encodings,
  tools, screens and commands. `PROJECT.json` has each with its reason.

## 6. Plan

Done, in this order: `BlockTree`, `HeaderIndex`, `SetWalk` with `Ledger`,
`BlockFiles`, `BodyFlight`, `CatchUp`, `Target`, `HeaderRules`, `Finality`,
`Mempool`, `Relay`, `Rebuild`, `OneWriter`, `Claim`, `Upkeep`, `Peers`, and proofs about
each of them.

Next:

1. `ConnectBlock`: the walk of the Transactions of one Block, fees, subsidy and
   limits as operators over small Blocks, shown to make `Fits` of `SetWalk`.
2. `HeaderBatch`: the Locator and the Headers phase over a tree, with `Absorb` of
   `HeaderIndex` as what a batch refines to.
3. The address book, and the framing of what arrives on a wire.
4. Theorems about each of these, as they come.

## 7. Where the code and its words differ

Shown by a run:

- `set_walk_turned`: `h:` is read afresh for each Height of a chunk
  (`infra/chainstate.av:455`) and the Block read is not compared with the one
  the Window stands on. A compact Block rebuilt between two steps may turn `h:`,
  and the chunk then connects a Block on one that is not its parent.
- `peers_told`: `tell` says "one Peer's fault costs one Peer"
  (`infra/peers.av:1948-1958`) and `announcing` that its clock moves on "whether or
  not each of them took it" (`396`), but the daily telling of this node's own
  address uses the strict send (`401-406`), whose Err `turnedWith`
  (`app/owner.av:631`) closes the run on.

Seen in instances that are not kept. The property is defined in the module where
it is named, and can be added to the cfg given:

- `ConfirmedLeave` (`Relay.cfg`): `README.md:1149-1150` says a Block confirms its
  Transactions out of the Mempool. The sweep looks at the final chunks only
  (`infra/follow.av:929`, `873-877`, `733-736`), so what the interim chunks between
  slices of a download confirmed stays held.
- `AnswerLands` (`Relay.cfg`): an answer in the order asked for completes a rebuild
  (`domain/compactblock.av:423`); but the holes are found again in the Mempool of
  that moment (`infra/follow.av:3303`), so a Transaction that came or went between
  shifts them, and the rebuild fails.
- `RulesAlwaysKept` (`HeaderRules.cfg`): a Header whose "bits or a timestamp the rule
  does not allow is an Err" (`infra/headers.av:75-78`). An ancestor the same batch
  names behind it is found neither in the batch nor in the tree
  (`infra/headers.av:248-255`), so the walk for the median and the one for the last
  real bits stop there, and a Header on a branch cut short is taken with easy bits
  though it is not late. With a median of five a timestamp under the real median is
  taken too, and a lock that was open closes: a branch of times 20, 21, 22, 46, 47,
  24, 26, 46, then 30 taken ahead of an ancestor, then 46.
- `LocationsAlwaysTrue` (`BlockFiles.cfg`): the reopening that "truncates a torn final
  record" (`infra/blocks.av:14`) writes the whole Segment again (`113`) and does not
  sync it. A death in that write, or a power cut before the next sync of that
  Segment, takes records whose Locations are in the Index, which is what `17-26`
  says was put right.
- `StarvesNobody` (`Peers.cfg`): lowest key first is "bounded rather than unfair"
  (`infra/peers.av:2145-2148`), as a Peer holds the turn only until its wire reaches
  the watermark. The queue is emptied at the start of the next request, though, so
  one of a low key that reads what it is sent and goes on asking keeps the turn.
- `WalkBackStays` (`Upkeep.cfg`): `domain/disconnect.av:292-300` has pruning refused
  where a reorganisation would want a body. `infra/prune.av:50` reads `h:`, and
  while the Set stands on a branch `h:` has left its bodies are not looked at.
- `NoneDangles(0)` once a prune is through (`Upkeep.cfg`), without the condition of
  `PruneTidies`: a prune that dies between its deletes and its Locations is "safe to
  run again" (`infra/prune.av:40-51`) for the same Height or a higher one, with `h:`
  on the same branch. Run again at a lower one, or after `h:` turned to a branch
  the first took bodies of, it leaves Locations of Segments that are gone.
- `SetFollows` (`CatchUp` with `MaxKey = 1`, `Steady = {1}`): a Block announced
  during a Catch-up and rebuilt from its compact form leaves a claim, which the
  end of that Catch-up throws away (`infra/follow.av:902`); the Set stays a Block
  below until the next one. `FollowsUnless` names the two ways.
- `LocationsHold`, `CountIsLength` (`BlockFiles.cfg`): `LocationsTrue` and
  `CountAgrees` without the way out. `flightPutDown` (`infra/follow.av:384`) puts an
  old copy of the count back. The count check looks at one Segment and not at one
  with unsynced bytes, so a batch that rolls takes wrong Locations into the Index.
- Coins made twice (`SetWalk` over a Block that makes a coin again): `alreadyHeld`
  (`infra/utxo.av:113`) does not leave out coins of the Store the Window has
  spent, so such a Block is refused, or accepted when a flush falls in between.
- A death between naming the Heights of a heavier branch with fewer Blocks and
  sweeping the rest leaves `h:` on two branches (`HeaderIndex`, the `crashes = 0`
  of `IndexFollowsTip`). README.md says the syncs are safe to interrupt; a batch
  on the old tip then agrees at its top and repairs nothing below.

Met while reading, without a run of their own:

- `infra/headers.av:600` against `domain/headertree.av:181-185`: at equal work the
  batch's Header wins, and not the incumbent.
- `infra/headers.av:163` against `494-497`: a refused Block sent again on an
  unmarked parent is placed again.
- `infra/rewind.av:122` against `domain/disconnect.av:74`: one Height more or less
  at the Undo floor.
- `infra/utxo.av:742`: the Undo Data goes and the floor follows in a second
  write; a death between leaves the floor claiming less than is gone.
- `infra/blocks.av:66` against `14-16`: a Segment below the highest keeps a torn
  tail.
- `README.md:1599-1602`: after a run that died "the next command refuses to start";
  `takenOver` (`infra/lock.av`) takes the claim of a process that is gone on this
  host. `infra/lock.av:52-53`: one cut off before its third line is refused by every
  run until it is deleted by hand, as is a claim of the older form.
- `infra/bodies.av` `poisoned`, against its comment at 774: a wrong body costs
  the Peer that owes the Block, which need not be the one that sent it.
- `infra/bodies.av:855` against `infra/follow.av:1605-1613`: the stall clock is
  moved only by a Block filed, so a Peer handed a Height late may be dropped
  before it had the time to answer.
- `infra/follow.av:2148` and `2157`: the claim for the first Peer after an empty
  pool is never made, because Handshakes finish in another process now.
- `infra/follow.av:510`: an announcement by `headers` is taken for the answer.
- `app/owner.av:482` against `domain/catchup.av:202-206`: a Peer whose connection
  closed leaves its entries in the gate. `app/owner.av:1025-1028`: an error in a
  step leaves no Catch-up in progress and nothing to charge.
- `infra/follow.av:929` against `1785-1796`: the sweep of the Mempool counts what
  the last chunks dropped and not what the realignment before the download did.
- `infra/follow.av:1922` against `infra/mempool.av:88-93`: Transactions given back
  are offered parent before child, and admission asks only the Set.
- `domain/mempool.av:304`: a newcomer of equal fee rate evicts.
- `infra/follow.av:1865` says a Transaction a reorganisation takes off the Set is not
  restored and `Domain.Mempool.restored` is waiting; `restoring` does it now.
- `app/owner.av:733-740` against `707-711`: the writer parks on wires only while any
  outbox is not empty, so one stalled Peer delays the Blocks others wait for until
  its wire moves.
- `infra/follow.av:3043`: a Block that is located and cannot be read back for one
  Peer is an Err of the writer's request, and `drainedWith` (`app/owner.av:716-730`)
  closes the run on it.
- `infra/follow.av:1890-1896`: the sweep asks only whether the Set holds what is
  spent, so a Transaction whose coinbase a shorter branch made too young stays held.
- `infra/peers.av:2844-2850`: a getdata handled after its Peer has gone leaves what
  it asked for under a key nobody forgets any more.
