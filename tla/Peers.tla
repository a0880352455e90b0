------------------------------- MODULE Peers -------------------------------
(***************************************************************************)
(* The pool of Peers (infra/peers.av) under the owner that answers one     *)
(* request at a time (app/owner.av): callers taken off the listener, the   *)
(* one dial in flight, the Handshake each of them goes through, the        *)
(* message a Peer's process takes in one request and has acted on in a     *)
(* later one, the outbox of each connection and the Blocks its Peer asked  *)
(* for.  The processes are the ticker, the acceptor, the writer and one    *)
(* per Peer; the Peers themselves are the environment.                     *)
(*                                                                         *)
(* An outbox is counted in units: a Block is any number of them in         *)
(* BlockSize and any other message one.  What messages say is left out,    *)
(* but for a getdata that names Blocks.                                    *)
(***************************************************************************)
EXTENDS Naturals, FiniteSets

CONSTANTS MaxKeys,      \* bound: keys handed out in a run
          Candidate,    \* hosts in the Address Book when the run begins
          Caller,       \* hosts that dial this node
          InboundCap, TargetPeers, SparedLimit, ServedCap, PerTurn,
          ByteLimit, Watermark, BlockSize,
          MaxDeaf       \* bound: times a Peer stops reading its wire

ASSUME PoolShape == /\ MaxKeys \in Nat \ {0}
                    /\ {InboundCap, TargetPeers, SparedLimit, ServedCap, PerTurn} \subseteq Nat
                    /\ {ByteLimit, Watermark} \subseteq Nat /\ BlockSize \subseteq Nat

Key == 0 .. MaxKeys - 1
Host == Candidate \cup Caller
Nobody == "nobody"

\* told: Outcomes ever reported of a dial; news: the one not yet drained.
\* full: the seat was lost to a message the outbox had no room for.
VARIABLES pool, nextKey, taken, untried, park, left, over, deafs
vars == <<pool, nextKey, taken, untried, park, left, over, deafs>>

Peer == [stage : {"free", "dialling", "hello", "met", "seated", "gone"},
         host : Host \cup {Nobody}, inbound : BOOLEAN, early : 0 .. SparedLimit,
         deaf : BOOLEAN, queue : Nat, wants : Nat,
         told : Nat, news : {"none", "no", "yes"}, full : BOOLEAN]

TypeOK == /\ pool \in [Key -> Peer]
          /\ nextKey \in 0 .. MaxKeys
          /\ taken \subseteq Key
          /\ untried \subseteq Candidate
          /\ park \in [on : SUBSET Key, due : BOOLEAN]
          /\ left \in 0 .. PerTurn
          /\ over \in BOOLEAN
          /\ deafs \in Nat

(***************************************************************************)
(* The pool, as its functions read and change it.                          *)
(***************************************************************************)
Connected(p) == {k \in Key : p[k].stage \in {"hello", "met", "seated"}}
Greeting(p) == {k \in Key : p[k].stage \in {"hello", "met"}}
Ready(p) == {k \in Key : p[k].stage = "seated"}
Inbound(p) == {k \in Connected(p) : p[k].inbound}
Outbound(p) == Connected(p) \ Inbound(p)
DialingNow(p) == \E k \in Key : p[k].stage = "dialling" \/ k \in Greeting(p) \cap Outbound(p)
Held(p) == {p[k].host : k \in Connected(p)}

\* One Peer, as what is said to it and what becomes of it change it.
Seated(one, host, inbound, stage) ==
    [one EXCEPT !.stage = stage, !.host = host, !.inbound = inbound]

Forgotten(one) == [one EXCEPT !.stage = "gone", !.early = 0, !.deaf = FALSE,
                              !.queue = 0, !.wants = 0]

Reported(one, news) == [one EXCEPT !.told = @ + 1, !.news = news]

\* Slip: a Handshake that fails is a Peer dropped and nothing more.
GreetingFailed_Unreported(one) == Forgotten(one)

GreetingFailed(one) ==
    IF one.inbound THEN Forgotten(one) ELSE Reported(Forgotten(one), "no")

Went(one) == IF one.stage = "seated" THEN Forgotten(one) ELSE GreetingFailed(one)

Fits(one, size) == one.queue + size <= ByteLimit
Queued(one, size) == [one EXCEPT !.queue = IF one.deaf THEN @ + size ELSE 0]

\* tell: a Peer that has gone is passed over, one that cannot take it is dropped.
Tell(one, size, broken) ==
    CASE one.stage \notin {"hello", "met", "seated"} -> one
      [] OTHER -> IF ~Fits(one, size) THEN [Forgotten(one) EXCEPT !.full = TRUE]
                  ELSE IF broken THEN Forgotten(one) ELSE Queued(one, size)

TellEach(p, to, broken) == [k \in Key |-> IF k \in to THEN Tell(p[k], 1, k \in broken) ELSE p[k]]

\* Slip: a Block is read for whoever asked, whatever waits on the wire.
RoomForBlock_Always(one) == TRUE

RoomForBlock(one) == one.queue < Watermark

Wanted(p) == {k \in Ready(p) : p[k].wants > 0 /\ RoomForBlock(p[k])}

\* Slip: with nothing owed to a wire the writer waits for the owner to move.
Rest_Settles(p) == [on |-> {k \in Connected(p) : p[k].queue > 0}, due |-> FALSE]

Rest(p) == LET owed == {k \in Connected(p) : p[k].queue > 0}
           IN  [on |-> owed, due |-> owed = {} /\ Wanted(p) # {}]

\* The owner moved: what a writer parked on no wire waits for.
Moved == park' = IF park.on = {} THEN [park EXCEPT !.due = TRUE] ELSE park

\* The owner is between two requests and the node is open.
Idle == left = 0 /\ ~over

Blank == [stage |-> "free", host |-> Nobody, inbound |-> FALSE, early |-> 0,
          deaf |-> FALSE, queue |-> 0, wants |-> 0, told |-> 0, news |-> "none", full |-> FALSE]

\* A run follows once one Candidate, not counted here, has been seated.
Init == /\ pool = [k \in Key |-> IF k = 0 THEN [Blank EXCEPT !.stage = "seated", !.told = 1]
                                          ELSE Blank]
        /\ nextKey = 1
        /\ taken = {}
        /\ untried = Candidate
        /\ park = [on |-> {}, due |-> FALSE]
        /\ left = 0 /\ over = FALSE /\ deafs = 0

(***************************************************************************)
(* The acceptor: quiet inbound Peers are swept, then one caller is taken,  *)
(* hung up on when the cap or its host's one slot is used.                 *)
(***************************************************************************)
Swept(p, quiet) == [k \in Key |-> IF k \in quiet THEN Forgotten(p[k]) ELSE p[k]]

Admits(p, host) == /\ nextKey < MaxKeys
                   /\ Cardinality(Inbound(p)) < InboundCap
                   /\ \A k \in Inbound(p) : p[k].host # host

Accept(host) ==
    /\ Idle
    /\ \E quiet \in SUBSET Inbound(pool) :
          LET swept == Swept(pool, quiet)
          IN  \/ /\ Admits(swept, host)
                 /\ pool' = [swept EXCEPT ![nextKey] = Seated(@, host, TRUE, "hello")]
                 /\ nextKey' = nextKey + 1
              \/ /\ ~Admits(swept, host)
                 /\ pool' = swept /\ nextKey' = nextKey
    /\ Moved
    /\ UNCHANGED <<taken, untried, left, over, deafs>>

(***************************************************************************)
(* The ticker, once a second: the dial asked what it has become, what the  *)
(* dials became said, this node's own address told when a day has passed   *)
(* or Peers newly agree on it, the pool topped up, and the run ended when  *)
(* nobody is left to hear or dial.                                         *)
(***************************************************************************)
Advanced(p, fate) ==
    [k \in Key |->
        IF p[k].stage # "dialling" THEN p[k]
        ELSE CASE fate = "waiting" -> p[k]
               [] fate = "arrived" -> [p[k] EXCEPT !.stage = "hello"]
               [] OTHER -> Reported(Forgotten(p[k]), "no")]

\* reached asks a Peer just seated who it knows; unreachable only says so.
Drained(p, broken) ==
    LET asked == TellEach(p, {k \in Key : p[k].news = "yes"}, broken)
    IN  [k \in Key |-> [asked[k] EXCEPT !.news = "none"]]

\* announcing sends by the strict send: one Peer that cannot take it is an Err.
Announced(p, broken) == \A k \in Ready(p) : Fits(p[k], 1) /\ k \notin broken

Short(p) == Cardinality(Outbound(p)) < TargetPeers /\ ~DialingNow(p)

Tick(fate, due, broken) ==
    /\ Idle
    /\ LET drained == Drained(Advanced(pool, fate), broken)
           fails == due /\ ~Announced(drained, broken)
           told == IF due THEN TellEach(drained, Ready(drained), {}) ELSE drained
           choices == {h \in untried : h \notin Held(told)}
       IN  IF fails
           THEN /\ over' = TRUE
                /\ UNCHANGED <<pool, nextKey, untried>>
           ELSE /\ IF Short(told) /\ choices # {} /\ nextKey < MaxKeys
                   THEN \E h \in choices :
                          LET dialled == Seated(told[nextKey], h, FALSE, "dialling")
                          IN  /\ untried' = untried \ {h}
                              /\ nextKey' = nextKey + 1
                              /\ \E begun \in {dialled, Reported(Forgotten(dialled), "no")} :
                                    pool' = [told EXCEPT ![nextKey] = begun]
                   ELSE pool' = told /\ UNCHANGED <<nextKey, untried>>
                /\ over' = (Ready(pool') = {} /\ ~DialingNow(pool') /\ untried' = {})
    /\ Moved
    /\ UNCHANGED <<taken, left, deafs>>

(***************************************************************************)
(* A Peer's process: hearing, one frame at a time.  Deadlines are not      *)
(* counted: a greeting may have run out of time whenever it is looked at,  *)
(* and a dial whenever the clock asks (fate "failed").                    *)
(***************************************************************************)
Hearable(k) == Idle /\ k \in Connected(pool) /\ k \notin taken

Heard(k, one) == pool' = [pool EXCEPT ![k] = one] /\ Moved /\ UNCHANGED <<nextKey, untried, left, over, deafs>>

\* Slip: only a caller's greeting runs out of time.
RunsOut_Callers(k) == k \in Greeting(pool) /\ pool[k].inbound

RunsOut(k) == k \in Greeting(pool)

RunOut(k) ==
    /\ Hearable(k) /\ RunsOut(k)
    /\ Heard(k, GreetingFailed(pool[k])) /\ UNCHANGED taken

\* The connection closes or resets, or what it says is refused.
Close(k) ==
    /\ Hearable(k)
    /\ Heard(k, Went(pool[k])) /\ UNCHANGED taken

\* Its version, which is answered; an answer that cannot be written ends it.
Version(k) ==
    /\ Hearable(k) /\ pool[k].stage = "hello"
    /\ Heard(k, [Queued(pool[k], 1) EXCEPT !.stage = "met"])
    /\ UNCHANGED taken

\* Anything before the verack is kept, up to the limit; a ping is answered.
Early(k) ==
    /\ Hearable(k) /\ pool[k].stage = "met"
    /\ \/ Heard(k, IF pool[k].early < SparedLimit THEN [pool[k] EXCEPT !.early = @ + 1]
                                                  ELSE GreetingFailed(pool[k]))
       \/ Heard(k, IF Fits(pool[k], 1) THEN Queued(pool[k], 1) ELSE GreetingFailed(pool[k]))
    /\ UNCHANGED taken

Verack(k) ==
    /\ Hearable(k) /\ pool[k].stage = "met"
    /\ LET seated == [pool[k] EXCEPT !.stage = "seated", !.early = 0]
       IN  Heard(k, IF pool[k].inbound THEN seated ELSE Reported(seated, "yes"))
    /\ UNCHANGED taken

\* A getdata: what it asks for waits until the process has it acted on.
Hand(k) ==
    /\ Hearable(k) /\ k \in Ready(pool)
    /\ taken' = taken \cup {k}
    /\ Heard(k, pool[k])

(***************************************************************************)
(* The same process: handled.  A getdata adds to what its key waits for,   *)
(* whether or not its Peer went since it was heard.  Every other message   *)
(* ends in things told to its sender or to the others, or in its loss,     *)
(* and nothing of it depends on when it was heard.                         *)
(***************************************************************************)
AtMost(a, b) == IF a < b THEN a ELSE b

Handle(k) ==
    /\ Idle /\ k \in taken
    /\ taken' = taken \ {k}
    /\ \E n \in 1 .. ServedCap :
          pool' = [pool EXCEPT ![k].wants = AtMost(@ + n, ServedCap)]
    /\ Moved
    /\ UNCHANGED <<nextKey, untried, left, over, deafs>>

Word(k, broken) ==
    /\ Hearable(k) /\ k \in Ready(pool)
    /\ \E to \in {{k}, Ready(pool) \ {k}} : pool' = TellEach(pool, to, broken)
    /\ Moved
    /\ UNCHANGED <<nextKey, taken, untried, left, over, deafs>>

(***************************************************************************)
(* The writer: every outbox offered to its socket once, then at most       *)
(* PerTurn Blocks read, each for the lowest key that wants one and has     *)
(* room; then a park.  Drain and the Serves after it are one request.      *)
(***************************************************************************)
Parked(p, more) == /\ left' = IF Wanted(p) = {} THEN 0 ELSE more
                   /\ park' = Rest(p)

Drain(broken) ==
    /\ Idle /\ park.due
    /\ LET flushed == [k \in Key |->
              CASE k \notin Connected(pool) \/ pool[k].queue = 0 -> pool[k]
                [] k \in broken -> Went(pool[k])
                [] OTHER -> Queued(pool[k], 0)]
       IN  pool' = flushed /\ Parked(flushed, PerTurn)
    /\ UNCHANGED <<nextKey, taken, untried, over, deafs>>

\* A Block that is not held is passed over in silence.
Serve(broken) ==
    /\ left > 0 /\ ~over
    /\ \E k \in Wanted(pool) :
       LET fewer == [pool[k] EXCEPT !.wants = @ - 1]
       IN  /\ \A j \in Wanted(pool) : k <= j
           /\ \E one \in {fewer} \cup {Tell(fewer, size, broken) : size \in BlockSize} :
                 LET served == [pool EXCEPT ![k] = one]
                 IN  pool' = served /\ Parked(served, left - 1)
    /\ UNCHANGED <<nextKey, taken, untried, over, deafs>>

\* A Block that cannot be read back is an Err of the whole request: the run ends in it.
ReadFails ==
    /\ left > 0 /\ ~over
    /\ over' = TRUE
    /\ UNCHANGED <<pool, nextKey, taken, untried, park, left, deafs>>

(***************************************************************************)
(* The environment: whether a Peer reads what it is sent.                  *)
(***************************************************************************)
Deafen(k) ==
    /\ k \in Connected(pool) /\ ~pool[k].deaf /\ deafs < MaxDeaf /\ left = 0
    /\ pool' = [pool EXCEPT ![k].deaf = TRUE]
    /\ deafs' = deafs + 1
    /\ UNCHANGED <<nextKey, taken, untried, park, left, over>>

\* A wire with room again, or one that has gone, ends the park it is in.
Listen(k) ==
    /\ left = 0
    /\ pool[k].deaf \/ (k \in park.on /\ ~park.due)
    /\ pool' = [pool EXCEPT ![k].deaf = FALSE]
    /\ park' = IF k \in park.on THEN [park EXCEPT !.due = TRUE] ELSE park
    /\ UNCHANGED <<nextKey, taken, untried, left, over, deafs>>

\* The dial goes on, has become a connection, or never will: refused, cut off while
\* our version was being written, or out of time.
Fates == IF \E k \in Key : pool[k].stage = "dialling" THEN {"waiting", "arrived", "failed"}
                                                       ELSE {"waiting"}

Clock == \E fate \in Fates, due \in BOOLEAN, broken \in SUBSET Connected(pool) :
            Tick(fate, due, broken)

\* A dial in flight that has run out of time by the next second.
GivesUp == /\ \E k \in Key : pool[k].stage = "dialling"
           /\ Tick("failed", FALSE, {})

Words(k) == \E broken \in SUBSET Ready(pool) : Word(k, broken)
Writer == \/ \E broken \in SUBSET {k \in Connected(pool) : pool[k].queue > 0} : Drain(broken)
          \/ \E broken \in BOOLEAN : Serve(broken)

Next == \/ \E h \in Caller : Accept(h)
        \/ Clock
        \/ \E k \in Key : \/ RunOut(k) \/ Close(k) \/ Version(k) \/ Early(k) \/ Verack(k)
                          \/ Hand(k) \/ Handle(k) \/ Words(k)
                          \/ Deafen(k) \/ Listen(k)
        \/ Writer \/ ReadFails

Spec == Init /\ [][Next]_vars

(***************************************************************************)
(* Fairness: the owner answers every process in the end, however often it  *)
(* finds it in the middle of the writer's request (left > 0); a deadline   *)
(* passes and is looked at; a Peer that stopped reading reads again.       *)
(***************************************************************************)
FairSpec == /\ Spec
            /\ WF_vars(Writer)
            /\ SF_vars(GivesUp)
            /\ \A k \in Key : SF_vars(RunOut(k)) /\ SF_vars(Handle(k)) /\ SF_vars(Listen(k))

(***************************************************************************)
(* Properties.                                                             *)
(***************************************************************************)

\* Every dial is answered for exactly once: no Outcome while it is in flight or
\* greeting, one for ever after, however it ended and whoever dropped it
\* (greetingDone, greetingOutcome, reported).  settled is drained by this.
OneOutcome ==
    \A k \in Key : pool[k].stage # "free" /\ ~pool[k].inbound =>
        pool[k].told = IF pool[k].stage \in {"dialling", "hello", "met"} THEN 0 ELSE 1

\* Serving a Block never costs a Peer its seat for want of room: the watermark
\* leaves a whole Block's room under the limit (blockWatermark: "serving a Block
\* is never itself the enqueue that fails").
ServingFits ==
    [][\A k \in Key : left > 0 => ~(~pool[k].full /\ pool'[k].full)]_vars

\* A dial settles and a Handshake ends, answered or not: the dial's budget is
\* looked at by the clock, the greeting's by the process parked on its socket.
GreetingEnds ==
    \A k \in Key : pool[k].stage \in {"dialling", "hello", "met"} ~>
                        (over \/ pool[k].stage \in {"seated", "gone"})

\* A seated Peer that waits for Blocks is not left waiting for ever: it goes, the run
\* ends, or it has Blocks read for it again and again until its queue is empty; no park
\* of the writer forgets a Peer with room (writerWake), nor does a Peer whose wire is
\* full keep the turn from the ones above it (wantedIfRoom).  It needs every Peer that
\* stopped reading to read again, and it holds of a Peer only while those of lower keys
\* do not ask for ever: one that keeps asking and keeps its wire empty is always the
\* lowest, and starves whoever is above it (StarvesNobody, which does not hold).
Waits(k) == ~over /\ k \in Ready(pool) /\ pool[k].wants > 0
BlockRead(k) == pool'[k].wants < pool[k].wants

NotForgotten(k) == []<>~Waits(k) \/ []<><<BlockRead(k)>>_vars

EveryoneServed ==
    \A k \in Key : NotForgotten(k) \/ []<>(\E j \in taken : j < k)

StarvesNobody == \A k \in Key : NotForgotten(k)

\* "One Peer's fault costs one Peer" (tell): the run never ends with two Peers
\* seated, of whom one at most could not be told something; a Block that cannot be
\* read (left > 0) is nobody's fault.  It does not hold:
\* announcing sends this node's own address by the strict send.
OneFaultOnePeer == (over /\ left = 0) => Cardinality(Ready(pool)) < 2
=============================================================================
