---------------------------- MODULE PeersProofs ----------------------------
(***************************************************************************)
(* Every dial is answered for exactly once, for any number of keys, hosts, *)
(* limits and sizes.  The invariant carries two facts the property leaves  *)
(* out: a key not yet handed out is free, and a dial whose success has not *)
(* been drained is of a Peer that was seated.  Without the second, telling *)
(* that Peer who to ask could drop one still greeting, unanswered for.     *)
(***************************************************************************)
EXTENDS Peers, TLAPS

InFlight == {"dialling", "hello", "met"}
Linked == {"hello", "met", "seated"}

Good(one) == /\ one.stage = "free" => one.told = 0
             /\ one.stage # "free" /\ ~one.inbound =>
                    one.told = IF one.stage \in InFlight THEN 0 ELSE 1
             /\ one.stage = "dialling" => ~one.inbound
             /\ one.news = "yes" => one.stage \in {"seated", "gone"}

Fine(one) == one \in Peer /\ Good(one)

Whole(p, n) == /\ p \in [Key -> Peer]
               /\ \A k \in Key : Fine(p[k])
               /\ \A k \in Key : k >= n => p[k].stage = "free"

IInv == TypeOK /\ Whole(pool, nextKey)

(***************************************************************************)
(* What becomes of one Peer.                                               *)
(***************************************************************************)

LEMMA Limits == /\ MaxKeys \in Nat /\ MaxKeys > 0 /\ SparedLimit \in Nat /\ PerTurn \in Nat
                /\ ServedCap \in Nat /\ BlockSize \subseteq Nat
<1>1. {InboundCap, TargetPeers, SparedLimit, ServedCap, PerTurn} \subseteq Nat BY PoolShape
<1>2. SparedLimit \in Nat /\ PerTurn \in Nat /\ ServedCap \in Nat BY <1>1
<1> QED BY <1>2, PoolShape

LEMMA ForgottenIs ==
    ASSUME NEW one \in Peer
    PROVE  /\ Forgotten(one) \in Peer /\ Forgotten(one).stage = "gone"
           /\ Forgotten(one).inbound = one.inbound
           /\ Forgotten(one).told = one.told /\ Forgotten(one).news = one.news
<1>1. 0 \in 0 .. SparedLimit BY Limits
<1> QED BY <1>1 DEF Forgotten, Peer

LEMMA ReportedIs ==
    ASSUME NEW one \in Peer, NEW news \in {"no", "yes"}
    PROVE  /\ Reported(one, news) \in Peer /\ Reported(one, news).stage = one.stage
           /\ Reported(one, news).inbound = one.inbound
           /\ Reported(one, news).told = one.told + 1 /\ Reported(one, news).news = news
<1>1. one.told + 1 \in Nat BY DEF Peer
<1>2. Reported(one, news) = [[one EXCEPT !.told = one.told + 1] EXCEPT !.news = news]
    BY DEF Reported, Peer
<1>3. [one EXCEPT !.told = one.told + 1] \in Peer BY <1>1 DEF Peer
<1>4. Reported(one, news) \in Peer BY <1>2, <1>3 DEF Peer
<1> QED BY <1>4 DEF Reported, Peer

LEMMA ForgottenFine ==
    ASSUME NEW one, Fine(one), one.stage \in {"seated", "gone"} \/ (one.inbound /\ one.stage # "free")
    PROVE  Fine(Forgotten(one)) /\ Forgotten(one).stage = "gone"
<1>1. one \in Peer BY DEF Fine
<1> QED BY <1>1, ForgottenIs DEF Fine, Good, InFlight

LEMMA ReportedFine ==
    ASSUME NEW one, Fine(one), one.stage \in InFlight, ~one.inbound
    PROVE  Fine(Reported(Forgotten(one), "no"))
<1> DEFINE was == Forgotten(one)
<1>1. one \in Peer BY DEF Fine
<1>2. was \in Peer /\ was.stage = "gone" /\ was.told = 0 BY <1>1, ForgottenIs DEF Fine, Good, InFlight
<1> HIDE DEF was
<1>3. /\ Reported(was, "no") \in Peer /\ Reported(was, "no").stage = "gone"
      /\ Reported(was, "no").told = 1 /\ Reported(was, "no").news = "no"
    BY <1>2, ReportedIs
<1>4. Fine(Reported(was, "no")) BY <1>3 DEF Fine, Good, InFlight
<1> QED BY <1>4 DEF was

LEMMA GreetingFailedFine ==
    ASSUME NEW one, Fine(one), one.stage \in {"hello", "met"}
    PROVE  Fine(GreetingFailed(one))
<1>1. one.inbound \in BOOLEAN BY DEF Fine, Peer
<1>2. CASE one.inbound BY <1>2, ForgottenFine DEF GreetingFailed
<1>3. CASE ~one.inbound BY <1>3, ReportedFine DEF GreetingFailed, InFlight
<1> QED BY <1>1, <1>2, <1>3

LEMMA WentFine ==
    ASSUME NEW one, Fine(one), one.stage \in Linked
    PROVE  Fine(Went(one))
<1>1. CASE one.stage = "seated" BY <1>1, ForgottenFine DEF Went
<1>2. CASE one.stage # "seated" BY <1>2, GreetingFailedFine DEF Went, Linked
<1> QED BY <1>1, <1>2

LEMMA QueuedFine ==
    ASSUME NEW one, Fine(one), NEW size \in Nat
    PROVE  Fine(Queued(one, size)) /\ Queued(one, size).stage = one.stage
BY DEF Fine, Good, Queued, Peer

LEMMA FullFine ==
    ASSUME NEW one, Fine(one)
    PROVE  Fine([one EXCEPT !.full = TRUE]) /\ [one EXCEPT !.full = TRUE].stage = one.stage
BY DEF Fine, Good, Peer

\* Nothing told to a Peer that is seated, or is no Peer, leaves a dial unanswered for.
LEMMA TellFine ==
    ASSUME NEW one, Fine(one), one.stage \in {"free", "seated", "gone"},
           NEW size \in Nat, NEW broken
    PROVE  Fine(Tell(one, size, broken)) /\ (one.stage = "free" => Tell(one, size, broken).stage = "free")
<1>1. CASE one.stage # "seated" BY <1>1 DEF Tell
<1>2. CASE one.stage = "seated"
    <2>1. Fine(Forgotten(one)) BY <1>2, ForgottenFine
    <2>2. Fine([Forgotten(one) EXCEPT !.full = TRUE]) BY <2>1, FullFine
    <2>3. Fine(Queued(one, size)) BY QueuedFine
    <2>4. Tell(one, size, broken) \in {Forgotten(one), [Forgotten(one) EXCEPT !.full = TRUE], Queued(one, size)}
        BY <1>2 DEF Tell
    <2> QED BY <1>2, <2>1, <2>2, <2>3, <2>4
<1> QED BY <1>1, <1>2

(***************************************************************************)
(* What becomes of the pool.                                               *)
(***************************************************************************)

\* A pool read key by key out of another one, which frees and takes no key.
LEMMA EachFine ==
    ASSUME NEW p, NEW q, NEW n, Whole(p, n), q = [k \in Key |-> q[k]],
           \A k \in Key : Fine(q[k]), \A k \in Key : p[k].stage = "free" => q[k].stage = "free"
    PROVE  Whole(q, n)
<1>1. \A k \in Key : q[k] \in Peer BY DEF Fine
<1>2. q \in [Key -> Peer] BY <1>1
<1> QED BY <1>2 DEF Whole

\* One Peer put in the place of one that holds a key already.
LEMMA PutFine ==
    ASSUME NEW p, NEW n, Whole(p, n), NEW k \in Key, NEW one, Fine(one),
           p[k].stage = "free" => one.stage = "free"
    PROVE  Whole([p EXCEPT ![k] = one], n)
<1> DEFINE q == [p EXCEPT ![k] = one]
<1>1. p \in [Key -> Peer] BY DEF Whole
<1>2. q = [j \in Key |-> IF j = k THEN one ELSE p[j]] BY <1>1
<1>3. \A j \in Key : q[j] = IF j = k THEN one ELSE p[j] BY <1>2
<1>4. \A j \in Key : Fine(q[j]) BY <1>3 DEF Whole
<1>5. \A j \in Key : p[j].stage = "free" => q[j].stage = "free" BY <1>3
<1>6. q = [j \in Key |-> q[j]] BY <1>2, <1>3
<1> HIDE DEF q
<1>7. Whole(q, n) BY <1>4, <1>5, <1>6, EachFine
<1> QED BY <1>7 DEF q

\* One Peer under the next key.
LEMMA NewFine ==
    ASSUME NEW p, NEW n \in Key, Whole(p, n), NEW one, Fine(one)
    PROVE  Whole([p EXCEPT ![n] = one], n + 1)
<1>1. p \in [Key -> Peer] /\ n \in Nat BY PoolShape DEF Whole, Key
<1>2. \A j \in Key : [p EXCEPT ![n] = one][j] = IF j = n THEN one ELSE p[j] BY <1>1
<1>3. [p EXCEPT ![n] = one] \in [Key -> Peer] BY <1>1 DEF Fine
<1>4. \A j \in Key : Fine([p EXCEPT ![n] = one][j]) BY <1>2 DEF Whole
<1>5. ASSUME NEW j \in Key, j >= n + 1 PROVE [p EXCEPT ![n] = one][j].stage = "free"
    <2>1. j \in Nat /\ j # n /\ j >= n BY <1>1, <1>5, PoolShape DEF Key
    <2> QED BY <2>1, <1>2 DEF Whole
<1> QED BY <1>3, <1>4, <1>5 DEF Whole

LEMMA TellEachFine ==
    ASSUME NEW p, NEW n, Whole(p, n), NEW to, NEW broken,
           \A k \in Key : k \in to => p[k].stage \in {"free", "seated", "gone"}
    PROVE  Whole(TellEach(p, to, broken), n)
<1> DEFINE q == TellEach(p, to, broken)
<1>1. q = [k \in Key |-> IF k \in to THEN Tell(p[k], 1, k \in broken) ELSE p[k]] BY DEF TellEach
<1>2. \A k \in Key : q[k] = IF k \in to THEN Tell(p[k], 1, k \in broken) ELSE p[k] BY <1>1
<1>3. q = [k \in Key |-> q[k]] BY <1>1, <1>2
<1> HIDE DEF q
<1>4. ASSUME NEW k \in Key PROVE Fine(q[k]) /\ (p[k].stage = "free" => q[k].stage = "free")
    <2>1. Fine(p[k]) BY DEF Whole
    <2>2. CASE k \in to
        <3>1. q[k] = Tell(p[k], 1, k \in broken) BY <1>2, <2>2
        <3>2. p[k].stage \in {"free", "seated", "gone"} BY <2>2
        <3> QED BY <2>1, <3>1, <3>2, TellFine
    <2>3. CASE k \notin to BY <1>2, <2>1, <2>3
    <2> QED BY <2>2, <2>3
<1>5. Whole(q, n) BY <1>3, <1>4, EachFine
<1> QED BY <1>5 DEF q

LEMMA SweptFine ==
    ASSUME NEW p, NEW n, Whole(p, n), NEW quiet \in SUBSET Inbound(p)
    PROVE  Whole(Swept(p, quiet), n)
<1> DEFINE q == Swept(p, quiet)
<1>1. q = [k \in Key |-> IF k \in quiet THEN Forgotten(p[k]) ELSE p[k]] BY DEF Swept
<1>2. \A k \in Key : q[k] = IF k \in quiet THEN Forgotten(p[k]) ELSE p[k] BY <1>1
<1>3. q = [k \in Key |-> q[k]] BY <1>1, <1>2
<1> HIDE DEF q
<1>4. ASSUME NEW k \in Key PROVE Fine(q[k]) /\ (p[k].stage = "free" => q[k].stage = "free")
    <2>1. Fine(p[k]) BY DEF Whole
    <2>2. CASE k \in quiet
        <3>1. p[k].inbound /\ p[k].stage # "free" BY <2>2 DEF Inbound, Connected
        <3> QED BY <1>2, <2>1, <2>2, <3>1, ForgottenFine
    <2>3. CASE k \notin quiet BY <1>2, <2>1, <2>3
    <2> QED BY <2>2, <2>3
<1>5. Whole(q, n) BY <1>3, <1>4, EachFine
<1> QED BY <1>5 DEF q

LEMMA AdvancedFine ==
    ASSUME NEW p, NEW n, Whole(p, n), NEW fate
    PROVE  Whole(Advanced(p, fate), n)
<1> DEFINE q == Advanced(p, fate)
<1>1. q = [k \in Key |-> IF p[k].stage # "dialling" THEN p[k]
                         ELSE CASE fate = "waiting" -> p[k]
                                [] fate = "arrived" -> [p[k] EXCEPT !.stage = "hello"]
                                [] OTHER -> Reported(Forgotten(p[k]), "no")]
    BY DEF Advanced
<1>2. \A k \in Key : q[k] = IF p[k].stage # "dialling" THEN p[k]
                            ELSE CASE fate = "waiting" -> p[k]
                                   [] fate = "arrived" -> [p[k] EXCEPT !.stage = "hello"]
                                   [] OTHER -> Reported(Forgotten(p[k]), "no")
    BY <1>1
<1>3. q = [k \in Key |-> q[k]] BY <1>1, <1>2
<1> HIDE DEF q
<1>4. ASSUME NEW k \in Key PROVE Fine(q[k]) /\ (p[k].stage = "free" => q[k].stage = "free")
    <2>1. Fine(p[k]) BY DEF Whole
    <2>2. CASE p[k].stage # "dialling" BY <1>2, <2>1, <2>2
    <2>3. CASE p[k].stage = "dialling"
        <3>1. Fine([p[k] EXCEPT !.stage = "hello"]) BY <2>1, <2>3 DEF Fine, Good, Peer, InFlight
        <3>2. Fine(Reported(Forgotten(p[k]), "no")) BY <2>1, <2>3, ReportedFine DEF InFlight, Fine, Good
        <3>3. q[k] \in {p[k], [p[k] EXCEPT !.stage = "hello"], Reported(Forgotten(p[k]), "no")}
            BY <1>2, <2>3
        <3> QED BY <2>1, <2>3, <3>1, <3>2, <3>3
    <2> QED BY <2>2, <2>3
<1>5. Whole(q, n) BY <1>3, <1>4, EachFine
<1> QED BY <1>5 DEF q

LEMMA DrainedFine ==
    ASSUME NEW p, NEW n, Whole(p, n), NEW broken
    PROVE  Whole(Drained(p, broken), n)
<1> DEFINE asked == TellEach(p, {k \in Key : p[k].news = "yes"}, broken)
           q == Drained(p, broken)
<1>1. \A k \in Key : p[k].news = "yes" => p[k].stage \in {"seated", "gone"}
    BY DEF Whole, Fine, Good
<1>2. Whole(asked, n) BY <1>1, TellEachFine
<1> HIDE DEF asked
<1>3. q = [k \in Key |-> [asked[k] EXCEPT !.news = "none"]] BY DEF Drained, asked
<1>4. \A k \in Key : q[k] = [asked[k] EXCEPT !.news = "none"] BY <1>3
<1>5. q = [k \in Key |-> q[k]] BY <1>3, <1>4
<1> HIDE DEF q
<1>6. ASSUME NEW k \in Key PROVE Fine(q[k]) /\ (asked[k].stage = "free" => q[k].stage = "free")
    <2>1. Fine(asked[k]) BY <1>2 DEF Whole
    <2>2. /\ q[k] \in Peer /\ q[k].stage = asked[k].stage /\ q[k].inbound = asked[k].inbound
          /\ q[k].told = asked[k].told /\ q[k].news = "none"
        BY <1>4, <2>1 DEF Fine, Peer
    <2> QED BY <2>1, <2>2 DEF Fine, Good
<1>7. Whole(q, n) BY <1>2, <1>5, <1>6, EachFine
<1> QED BY <1>7 DEF q

(***************************************************************************)
(* The steps.  A step's pool is whole; the rest of TypeOK goes with it.    *)
(***************************************************************************)

\* A pool left whole under the same keys, with the parts TypeOK adds.
LEMMA Put ==
    ASSUME IInv, NEW k \in Key, pool[k].stage # "free", NEW one, Fine(one)
    PROVE  Whole([pool EXCEPT ![k] = one], nextKey)
BY PutFine DEF IInv

LEMMA FineNow ==
    ASSUME IInv, NEW k \in Key
    PROVE  Fine(pool[k]) /\ pool[k] \in Peer
BY DEF IInv, Whole, Fine

LEMMA HeardKeeps ==
    ASSUME IInv, NEW k \in Key, pool[k].stage # "free", NEW one, Fine(one), Heard(k, one),
           taken' \subseteq Key
    PROVE  IInv'
<1>1. Whole(pool', nextKey') BY Put DEF Heard
<1>2. park' \in [on : SUBSET Key, due : BOOLEAN] BY DEF Heard, Moved, IInv, TypeOK
<1>3. TypeOK' BY <1>1, <1>2 DEF Heard, IInv, TypeOK, Whole
<1> QED BY <1>1, <1>3 DEF IInv, Whole

LEMMA InitHolds == Init => IInv
<1> SUFFICES ASSUME Init PROVE IInv
    OBVIOUS
<1> DEFINE first == [Blank EXCEPT !.stage = "seated", !.told = 1]
<1>1. Fine(Blank) /\ Fine(first)
    <2>1. 0 \in 0 .. SparedLimit BY Limits
    <2> QED BY <2>1 DEF Fine, Good, Blank, Peer, InFlight
<1>2. Blank.stage = "free" BY DEF Blank
<1>3. 0 \in Key /\ Key \subseteq Nat BY Limits DEF Key
<1>4. pool = [k \in Key |-> IF k = 0 THEN first ELSE Blank] BY DEF Init
<1> HIDE DEF first
<1>5. \A k \in Key : pool[k] = IF k = 0 THEN first ELSE Blank BY <1>4
<1>6. pool \in [Key -> Peer] BY <1>1, <1>4 DEF Fine
<1>7. \A k \in Key : Fine(pool[k]) BY <1>1, <1>5
<1>8. \A k \in Key : k >= nextKey => pool[k].stage = "free" BY <1>2, <1>3, <1>5 DEF Init
<1>9. Whole(pool, nextKey) BY <1>6, <1>7, <1>8 DEF Whole
<1>10. 1 \in 0 .. MaxKeys /\ 0 \in 0 .. PerTurn BY Limits
<1>11. TypeOK BY <1>6, <1>10 DEF Init, TypeOK
<1> QED BY <1>9, <1>11 DEF IInv

LEMMA NewGuest ==
    ASSUME NEW p, NEW n, Whole(p, n), n \in Key, NEW host \in Host
    PROVE  /\ Fine(Seated(p[n], host, TRUE, "hello"))
           /\ Fine(Seated(p[n], host, FALSE, "dialling"))
           /\ Fine(Reported(Forgotten(Seated(p[n], host, FALSE, "dialling")), "no"))
<1>1. Fine(p[n]) /\ p[n].stage = "free"
    <2>1. n >= n BY DEF Key
    <2> QED BY <2>1 DEF Whole
<1>2. \A inbound \in BOOLEAN, stage \in {"hello", "dialling"} :
          /\ Seated(p[n], host, inbound, stage) \in Peer
          /\ Seated(p[n], host, inbound, stage).stage = stage
          /\ Seated(p[n], host, inbound, stage).inbound = inbound
          /\ Seated(p[n], host, inbound, stage).told = p[n].told
          /\ Seated(p[n], host, inbound, stage).news = p[n].news
    BY <1>1 DEF Seated, Fine, Peer
<1>3. p[n].told = 0 /\ p[n].news # "yes" BY <1>1 DEF Fine, Good
<1>4. Fine(Seated(p[n], host, TRUE, "hello")) BY <1>2, <1>3 DEF Fine, Good
<1>5. Fine(Seated(p[n], host, FALSE, "dialling")) BY <1>2, <1>3 DEF Fine, Good, InFlight
<1>6. Fine(Reported(Forgotten(Seated(p[n], host, FALSE, "dialling")), "no"))
    BY <1>2, <1>5, ReportedFine DEF InFlight
<1> QED BY <1>4, <1>5, <1>6

LEMMA AcceptKeeps ==
    ASSUME IInv, NEW host \in Caller, Accept(host)
    PROVE  IInv'
<1>1. PICK quiet \in SUBSET Inbound(pool) :
          LET swept == Swept(pool, quiet)
          IN  \/ /\ Admits(swept, host)
                 /\ pool' = [swept EXCEPT ![nextKey] = Seated(@, host, TRUE, "hello")]
                 /\ nextKey' = nextKey + 1
              \/ /\ ~Admits(swept, host)
                 /\ pool' = swept /\ nextKey' = nextKey
    BY DEF Accept
<1>2. PICK swept : swept = Swept(pool, quiet) OBVIOUS
<1>3. Whole(swept, nextKey) BY <1>2, SweptFine DEF IInv
<1>4. nextKey \in Nat BY Limits DEF IInv, TypeOK
<1>5. Whole(pool', nextKey') /\ nextKey' \in 0 .. MaxKeys
    <2>1. CASE /\ Admits(swept, host)
               /\ pool' = [swept EXCEPT ![nextKey] = Seated(@, host, TRUE, "hello")]
               /\ nextKey' = nextKey + 1
        <3>1. nextKey \in Key /\ nextKey + 1 \in 0 .. MaxKeys BY <1>4, <2>1, Limits DEF Admits, Key
        <3>2. host \in Host BY DEF Host
        <3>3. Fine(Seated(swept[nextKey], host, TRUE, "hello")) BY <1>3, <3>1, <3>2, NewGuest
        <3>4. swept \in [Key -> Peer] BY <1>3 DEF Whole
        <3>5. pool' = [swept EXCEPT ![nextKey] = Seated(swept[nextKey], host, TRUE, "hello")]
            BY <2>1, <3>1, <3>4
        <3>6. Whole([swept EXCEPT ![nextKey] = Seated(swept[nextKey], host, TRUE, "hello")], nextKey + 1)
            BY <1>3, <3>1, <3>3, NewFine
        <3> QED BY <2>1, <3>1, <3>5, <3>6
    <2>2. CASE ~Admits(swept, host) /\ pool' = swept /\ nextKey' = nextKey
        BY <1>3, <2>2 DEF IInv, TypeOK
    <2>3. \/ /\ Admits(swept, host)
             /\ pool' = [swept EXCEPT ![nextKey] = Seated(@, host, TRUE, "hello")]
             /\ nextKey' = nextKey + 1
          \/ ~Admits(swept, host) /\ pool' = swept /\ nextKey' = nextKey
        BY <1>1, <1>2
    <2> QED BY <2>1, <2>2, <2>3
<1>6. park' \in [on : SUBSET Key, due : BOOLEAN] BY DEF Accept, Moved, IInv, TypeOK
<1>7. TypeOK' BY <1>5, <1>6 DEF Accept, IInv, TypeOK, Whole
<1> QED BY <1>5, <1>7 DEF IInv, Whole

LEMMA ToppedUp ==
    ASSUME NEW told, Whole(told, nextKey), nextKey \in 0 .. MaxKeys, untried \subseteq Candidate,
           nextKey < MaxKeys, NEW h \in untried,
           LET dialled == Seated(told[nextKey], h, FALSE, "dialling")
           IN  /\ untried' = untried \ {h}
               /\ nextKey' = nextKey + 1
               /\ \E begun \in {dialled, Reported(Forgotten(dialled), "no")} :
                     pool' = [told EXCEPT ![nextKey] = begun]
    PROVE  Whole(pool', nextKey') /\ nextKey' \in 0 .. MaxKeys /\ untried' \subseteq Candidate
<1>1. nextKey \in Key /\ nextKey + 1 \in 0 .. MaxKeys BY Limits DEF Key
<1>2. h \in Host BY DEF Host
<1>3. PICK begun \in {Seated(told[nextKey], h, FALSE, "dialling"),
                      Reported(Forgotten(Seated(told[nextKey], h, FALSE, "dialling")), "no")} :
          pool' = [told EXCEPT ![nextKey] = begun]
    OBVIOUS
<1>4. Fine(begun)
    <2>1. /\ Fine(Seated(told[nextKey], h, FALSE, "dialling"))
          /\ Fine(Reported(Forgotten(Seated(told[nextKey], h, FALSE, "dialling")), "no"))
        BY <1>1, <1>2, NewGuest
    <2> QED BY <2>1
<1>5. Whole([told EXCEPT ![nextKey] = begun], nextKey + 1) BY <1>1, <1>4, NewFine
<1>6. pool' = [told EXCEPT ![nextKey] = begun] /\ nextKey' = nextKey + 1 BY <1>3
<1>7. Whole(pool', nextKey') BY <1>5, <1>6
<1> QED BY <1>1, <1>6, <1>7

LEMMA TickKeeps ==
    ASSUME IInv, NEW fate, NEW due, NEW broken, Tick(fate, due, broken)
    PROVE  IInv'
<1>1. PICK drained : drained = Drained(Advanced(pool, fate), broken) OBVIOUS
<1>2. Whole(drained, nextKey) BY <1>1, AdvancedFine, DrainedFine DEF IInv
<1>3. PICK told : told = IF due THEN TellEach(drained, Ready(drained), {}) ELSE drained OBVIOUS
<1>4. Whole(told, nextKey)
    <2>1. \A k \in Key : k \in Ready(drained) => drained[k].stage \in {"free", "seated", "gone"}
        BY DEF Ready
    <2>2. Whole(TellEach(drained, Ready(drained), {}), nextKey) BY <1>2, <2>1, TellEachFine
    <2> QED BY <1>2, <1>3, <2>2
<1>5. \/ over' = TRUE /\ UNCHANGED <<pool, nextKey, untried>>
      \/ /\ nextKey < MaxKeys
         /\ \E h \in {g \in untried : g \notin Held(told)} :
               LET dialled == Seated(told[nextKey], h, FALSE, "dialling")
               IN  /\ untried' = untried \ {h}
                   /\ nextKey' = nextKey + 1
                   /\ \E begun \in {dialled, Reported(Forgotten(dialled), "no")} :
                         pool' = [told EXCEPT ![nextKey] = begun]
         /\ over' = (Ready(pool') = {} /\ ~DialingNow(pool') /\ untried' = {})
      \/ /\ pool' = told /\ UNCHANGED <<nextKey, untried>>
         /\ over' = (Ready(pool') = {} /\ ~DialingNow(pool') /\ untried' = {})
    BY <1>1, <1>3 DEF Tick
<1>6. TypeOK BY DEF IInv
<1>7. /\ Whole(pool', nextKey') /\ nextKey' \in 0 .. MaxKeys
      /\ untried' \subseteq Candidate /\ over' \in BOOLEAN
    <2>1. CASE over' = TRUE /\ UNCHANGED <<pool, nextKey, untried>>
        <3>1. Whole(pool, nextKey) BY DEF IInv
        <3> QED BY <1>6, <2>1, <3>1 DEF TypeOK
    <2>2. CASE pool' = told /\ UNCHANGED <<nextKey, untried>>
               /\ over' = (Ready(pool') = {} /\ ~DialingNow(pool') /\ untried' = {})
        BY <1>4, <1>6, <2>2 DEF TypeOK
    <2>3. CASE /\ nextKey < MaxKeys
               /\ \E h \in {g \in untried : g \notin Held(told)} :
                     LET dialled == Seated(told[nextKey], h, FALSE, "dialling")
                     IN  /\ untried' = untried \ {h}
                         /\ nextKey' = nextKey + 1
                         /\ \E begun \in {dialled, Reported(Forgotten(dialled), "no")} :
                               pool' = [told EXCEPT ![nextKey] = begun]
               /\ over' = (Ready(pool') = {} /\ ~DialingNow(pool') /\ untried' = {})
        <3>1. PICK h \in untried :
                  LET dialled == Seated(told[nextKey], h, FALSE, "dialling")
                  IN  /\ untried' = untried \ {h}
                      /\ nextKey' = nextKey + 1
                      /\ \E begun \in {dialled, Reported(Forgotten(dialled), "no")} :
                            pool' = [told EXCEPT ![nextKey] = begun]
            BY <2>3
        <3>2. Whole(pool', nextKey') /\ nextKey' \in 0 .. MaxKeys /\ untried' \subseteq Candidate
            BY <1>4, <1>6, <2>3, <3>1, ToppedUp DEF TypeOK
        <3>3. over' \in BOOLEAN BY <2>3
        <3> QED BY <3>2, <3>3
    <2> QED BY <1>5, <2>1, <2>2, <2>3
<1>8. park' \in [on : SUBSET Key, due : BOOLEAN] BY <1>6 DEF Tick, Moved, TypeOK
<1>9. TypeOK' BY <1>6, <1>7, <1>8 DEF Tick, TypeOK, Whole
<1> QED BY <1>7, <1>9 DEF IInv, Whole

LEMMA HearingKeeps ==
    ASSUME IInv, NEW k \in Key, RunOut(k) \/ Close(k) \/ Version(k) \/ Early(k) \/ Verack(k) \/ Hand(k)
    PROVE  IInv'
<1> DEFINE one == pool[k]
<1>1. Fine(one) /\ one \in Peer BY FineNow
<1>2. one.stage \in Linked /\ one.stage # "free" BY DEF Connected, Linked, RunOut, Close, Version,
                                                  Early, Verack, Hand, Hearable
<1>3. taken' \subseteq Key
    BY DEF RunOut, Close, Version, Early, Verack, Hand, Heard, IInv, TypeOK
<1>4. Fine(Queued(one, 1)) BY <1>1, QueuedFine
<1>5. CASE RunOut(k)
    <2>1. Fine(GreetingFailed(one)) BY <1>1, <1>5, GreetingFailedFine DEF RunOut, RunsOut, Greeting
    <2> QED BY <1>2, <1>3, <1>5, <2>1, HeardKeeps DEF RunOut
<1>6. CASE Close(k)
    <2>1. Fine(Went(one)) BY <1>1, <1>2, WentFine
    <2> QED BY <1>2, <1>3, <1>6, <2>1, HeardKeeps DEF Close
<1>7. CASE Version(k)
    <2>1. Queued(one, 1).stage = "hello" BY <1>1, <1>7, QueuedFine DEF Version
    <2>2. Fine([Queued(one, 1) EXCEPT !.stage = "met"]) BY <1>4, <2>1 DEF Fine, Good, Peer, InFlight
    <2> QED BY <1>2, <1>3, <1>7, <2>2, HeardKeeps DEF Version
<1>8. CASE Early(k)
    <2>1. one.stage = "met" BY <1>8 DEF Early
    <2>2. Fine(GreetingFailed(one)) BY <1>1, <2>1, GreetingFailedFine
    <2>3. CASE Heard(k, IF one.early < SparedLimit THEN [one EXCEPT !.early = @ + 1]
                                                   ELSE GreetingFailed(one))
        <3>1. CASE one.early < SparedLimit
            <4>1. one.early + 1 \in 0 .. SparedLimit BY <1>1, <3>1, Limits DEF Peer
            <4>2. Fine([one EXCEPT !.early = @ + 1]) BY <1>1, <4>1 DEF Fine, Good, Peer
            <4> QED BY <1>2, <1>3, <2>3, <3>1, <4>2, HeardKeeps
        <3>2. CASE ~(one.early < SparedLimit) BY <1>2, <1>3, <2>2, <2>3, <3>2, HeardKeeps
        <3> QED BY <3>1, <3>2
    <2>4. CASE Heard(k, IF Fits(one, 1) THEN Queued(one, 1) ELSE GreetingFailed(one))
        <3>1. CASE Fits(one, 1) BY <1>2, <1>3, <1>4, <2>4, <3>1, HeardKeeps
        <3>2. CASE ~Fits(one, 1) BY <1>2, <1>3, <2>2, <2>4, <3>2, HeardKeeps
        <3> QED BY <3>1, <3>2
    <2> QED BY <1>8, <2>3, <2>4 DEF Early
<1>9. CASE Verack(k)
    <2>1. PICK seated : seated = [one EXCEPT !.stage = "seated", !.early = 0] OBVIOUS
    <2>2. 0 \in 0 .. SparedLimit BY Limits
    <2>3. /\ seated \in Peer /\ seated.stage = "seated" /\ seated.inbound = one.inbound
          /\ seated.told = one.told /\ seated.news = one.news
        BY <1>1, <2>1, <2>2 DEF Peer
    <2>4. one.stage = "met" BY <1>9 DEF Verack
    <2>5. CASE one.inbound
        <3>1. Fine(seated) BY <1>1, <2>3, <2>4, <2>5 DEF Fine, Good
        <3>2. Heard(k, seated) BY <1>9, <2>1, <2>5 DEF Verack
        <3> QED BY <1>2, <1>3, <3>1, <3>2, HeardKeeps
    <2>6. CASE ~one.inbound
        <3>1. seated.told = 0 BY <1>1, <2>3, <2>4, <2>6 DEF Fine, Good, InFlight
        <3>2. /\ Reported(seated, "yes") \in Peer /\ Reported(seated, "yes").stage = "seated"
              /\ Reported(seated, "yes").told = 1
            BY <2>3, <3>1, ReportedIs
        <3>3. Fine(Reported(seated, "yes")) BY <3>2 DEF Fine, Good, InFlight
        <3>4. Heard(k, Reported(seated, "yes")) BY <1>9, <2>1, <2>6 DEF Verack
        <3> QED BY <1>2, <1>3, <3>3, <3>4, HeardKeeps
    <2> QED BY <2>5, <2>6
<1>10. CASE Hand(k) BY <1>1, <1>2, <1>3, <1>10, HeardKeeps DEF Hand
<1> QED BY <1>5, <1>6, <1>7, <1>8, <1>9, <1>10

LEMMA HandleKeeps ==
    ASSUME IInv, NEW k \in Key, Handle(k)
    PROVE  IInv'
<1>1. PICK n \in 1 .. ServedCap : pool' = [pool EXCEPT ![k].wants = AtMost(@ + n, ServedCap)]
    BY DEF Handle
<1>2. Fine(pool[k]) /\ pool[k] \in Peer /\ pool \in [Key -> Peer] BY FineNow DEF IInv, TypeOK
<1>3. PICK one : one = [pool[k] EXCEPT !.wants = AtMost(pool[k].wants + n, ServedCap)] OBVIOUS
<1>4. AtMost(pool[k].wants + n, ServedCap) \in Nat BY <1>2, Limits DEF AtMost, Peer
<1>5. Fine(one) /\ one.stage = pool[k].stage BY <1>2, <1>3, <1>4 DEF Fine, Good, Peer
<1>6. pool' = [pool EXCEPT ![k] = one] BY <1>1, <1>2, <1>3
<1>7. Whole([pool EXCEPT ![k] = one], nextKey) BY <1>5, PutFine DEF IInv
<1>8. Whole(pool', nextKey') BY <1>6, <1>7 DEF Handle
<1>9. park' \in [on : SUBSET Key, due : BOOLEAN] BY DEF Handle, Moved, IInv, TypeOK
<1>10. TypeOK' BY <1>8, <1>9 DEF Handle, IInv, TypeOK, Whole
<1> QED BY <1>8, <1>10 DEF IInv, Whole

LEMMA WordKeeps ==
    ASSUME IInv, NEW k \in Key, NEW broken, Word(k, broken)
    PROVE  IInv'
<1>1. PICK to \in {{k}, Ready(pool) \ {k}} : pool' = TellEach(pool, to, broken) BY DEF Word
<1>2. \A j \in Key : j \in to => pool[j].stage \in {"free", "seated", "gone"}
    BY <1>1 DEF Word, Ready
<1>3. Whole(TellEach(pool, to, broken), nextKey) BY <1>2, TellEachFine DEF IInv
<1>4. Whole(pool', nextKey') BY <1>1, <1>3 DEF Word
<1>5. park' \in [on : SUBSET Key, due : BOOLEAN] BY DEF Word, Moved, IInv, TypeOK
<1>6. TypeOK' BY <1>4, <1>5 DEF Word, IInv, TypeOK, Whole
<1> QED BY <1>4, <1>6 DEF IInv, Whole

LEMMA ParkedKeeps ==
    ASSUME IInv, NEW served, Whole(served, nextKey), NEW more \in 0 .. PerTurn,
           pool' = served, Parked(served, more), UNCHANGED <<nextKey, taken, untried, over, deafs>>
    PROVE  IInv'
<1>1. Whole(pool', nextKey') OBVIOUS
<1>2. Rest(served) \in [on : SUBSET Key, due : BOOLEAN] BY DEF Rest, Connected
<1>3. 0 \in 0 .. PerTurn BY Limits
<1>4. park' \in [on : SUBSET Key, due : BOOLEAN] /\ left' \in 0 .. PerTurn
    BY <1>2, <1>3 DEF Parked
<1>5. TypeOK' BY <1>1, <1>4 DEF IInv, TypeOK, Whole
<1> QED BY <1>1, <1>5 DEF IInv, Whole

LEMMA DrainKeeps ==
    ASSUME IInv, NEW broken \in SUBSET {k \in Connected(pool) : pool[k].queue > 0}, Drain(broken)
    PROVE  IInv'
<1>1. PICK q : q = [k \in Key |->
          CASE k \notin Connected(pool) \/ pool[k].queue = 0 -> pool[k]
            [] k \in broken -> Went(pool[k])
            [] OTHER -> Queued(pool[k], 0)]
    OBVIOUS
<1>2. pool' = q /\ Parked(q, PerTurn) BY <1>1 DEF Drain
<1>3. \A k \in Key : q[k] = CASE k \notin Connected(pool) \/ pool[k].queue = 0 -> pool[k]
                              [] k \in broken -> Went(pool[k])
                              [] OTHER -> Queued(pool[k], 0)
    BY <1>1
<1>4. q = [k \in Key |-> q[k]] BY <1>1, <1>3
<1>5. ASSUME NEW k \in Key PROVE Fine(q[k]) /\ (pool[k].stage = "free" => q[k].stage = "free")
    <2>1. Fine(pool[k]) BY FineNow
    <2>2. CASE k \notin Connected(pool)
        <3>1. k \notin broken BY <2>2
        <3>2. q[k] = pool[k] BY <1>3, <2>2, <3>1
        <3> QED BY <2>1, <3>2
    <2>3. CASE k \in Connected(pool)
        <3>1. pool[k].stage \in Linked /\ pool[k].stage # "free" BY <2>3 DEF Connected, Linked
        <3>2. Fine(Went(pool[k])) /\ Fine(Queued(pool[k], 0)) BY <2>1, <3>1, WentFine, QueuedFine
        <3>3. q[k] \in {pool[k], Went(pool[k]), Queued(pool[k], 0)} BY <1>3
        <3> QED BY <2>1, <3>1, <3>2, <3>3
    <2> QED BY <2>2, <2>3
<1>6. Whole(pool, nextKey) BY DEF IInv
<1>7. Whole(q, nextKey) BY <1>4, <1>5, <1>6, EachFine
<1>8. PerTurn \in 0 .. PerTurn BY Limits
<1> QED BY <1>2, <1>7, <1>8, ParkedKeeps DEF Drain

LEMMA ServeKeeps ==
    ASSUME IInv, NEW broken \in BOOLEAN, Serve(broken)
    PROVE  IInv'
<1>1. PICK k \in Wanted(pool) :
          LET fewer == [pool[k] EXCEPT !.wants = @ - 1]
          IN  \E one \in {fewer} \cup {Tell(fewer, size, broken) : size \in BlockSize} :
                 LET served == [pool EXCEPT ![k] = one]
                 IN  pool' = served /\ Parked(served, left - 1)
    BY DEF Serve
<1>2. k \in Key /\ pool[k].stage = "seated" /\ pool[k].wants > 0 BY DEF Wanted, Ready
<1>3. Fine(pool[k]) /\ pool[k] \in Peer BY <1>2, FineNow
<1>4. PICK fewer : fewer = [pool[k] EXCEPT !.wants = @ - 1] OBVIOUS
<1>5. pool[k].wants - 1 \in Nat BY <1>2, <1>3 DEF Peer
<1>6. Fine(fewer) /\ fewer.stage = "seated" BY <1>2, <1>3, <1>4, <1>5 DEF Fine, Good, Peer
<1>7. PICK one \in {fewer} \cup {Tell(fewer, size, broken) : size \in BlockSize} :
          pool' = [pool EXCEPT ![k] = one] /\ Parked([pool EXCEPT ![k] = one], left - 1)
    BY <1>1, <1>4
<1>8. Fine(one)
    <2>1. CASE one = fewer BY <1>6, <2>1
    <2>2. CASE one \in {Tell(fewer, size, broken) : size \in BlockSize}
        <3>1. PICK size \in BlockSize : one = Tell(fewer, size, broken) BY <2>2
        <3>2. size \in Nat BY Limits
        <3> QED BY <1>6, <3>1, <3>2, TellFine
    <2> QED BY <1>7, <2>1, <2>2
<1>9. Whole([pool EXCEPT ![k] = one], nextKey) BY <1>2, <1>8, Put
<1>10. left - 1 \in 0 .. PerTurn BY Limits DEF Serve, IInv, TypeOK
<1> QED BY <1>7, <1>9, <1>10, ParkedKeeps DEF Serve

LEMMA DeafKeeps ==
    ASSUME IInv, NEW k \in Key, Deafen(k) \/ Listen(k)
    PROVE  IInv'
<1>1. Fine(pool[k]) /\ pool[k] \in Peer BY FineNow
<1>2. \A deaf \in BOOLEAN : LET one == [pool[k] EXCEPT !.deaf = deaf]
                             IN  Fine(one) /\ one.stage = pool[k].stage
    BY <1>1 DEF Fine, Good, Peer
<1>3. PICK deaf \in BOOLEAN : pool' = [pool EXCEPT ![k].deaf = deaf] BY DEF Deafen, Listen
<1>4. PICK one : one = [pool[k] EXCEPT !.deaf = deaf] OBVIOUS
<1>5. pool \in [Key -> Peer] BY DEF IInv, TypeOK
<1>6. pool' = [pool EXCEPT ![k] = one] BY <1>3, <1>4, <1>5
<1>7. Whole([pool EXCEPT ![k] = one], nextKey) BY <1>2, <1>4, PutFine DEF IInv
<1>8. Whole(pool', nextKey') BY <1>6, <1>7 DEF Deafen, Listen
<1>9. park' \in [on : SUBSET Key, due : BOOLEAN] /\ deafs' \in Nat
    <2>1. CASE Deafen(k) BY <2>1 DEF Deafen, IInv, TypeOK
    <2>2. CASE Listen(k) BY <2>2 DEF Listen, IInv, TypeOK
    <2> QED BY <2>1, <2>2
<1>10. TypeOK' BY <1>8, <1>9 DEF Deafen, Listen, IInv, TypeOK, Whole
<1> QED BY <1>8, <1>10 DEF IInv, Whole

LEMMA NextKeeps == IInv /\ [Next]_vars => IInv'
<1> SUFFICES ASSUME IInv, [Next]_vars PROVE IInv'
    OBVIOUS
<1>1. CASE \E h \in Caller : Accept(h) BY <1>1, AcceptKeeps
<1>2. CASE Clock BY <1>2, TickKeeps DEF Clock
<1>3. ASSUME NEW k \in Key, \/ RunOut(k) \/ Close(k) \/ Version(k) \/ Early(k) \/ Verack(k)
                            \/ Hand(k) \/ Handle(k) \/ Words(k) \/ Deafen(k) \/ Listen(k)
      PROVE  IInv'
    BY <1>3, HearingKeeps, HandleKeeps, WordKeeps, DeafKeeps DEF Words
<1>4. CASE Writer BY <1>4, DrainKeeps, ServeKeeps DEF Writer
<1>5. CASE ReadFails BY <1>5 DEF ReadFails, IInv, TypeOK, Whole
<1>6. CASE UNCHANGED vars BY <1>6 DEF vars, IInv, TypeOK, Whole
<1> QED BY <1>1, <1>2, <1>3, <1>4, <1>5, <1>6 DEF Next

(***************************************************************************)
(* The theorems.                                                           *)
(***************************************************************************)

\* The pool, the park and what is being served stay well formed (infra/peers.av,
\* app/owner.av).
THEOREM TypeCorrect == Spec => []TypeOK
<1>1. IInv => TypeOK BY DEF IInv
<1> QED BY <1>1, InitHolds, NextKeeps, PTL DEF Spec

\* A dial is never answered for twice and never forgotten: whoever drops its
\* Peer, exactly one Outcome of it was told (infra/peers.av greetingOutcome).
THEOREM AnsweredForOnce == Spec => []OneOutcome
<1>1. IInv => OneOutcome BY DEF IInv, Whole, Fine, Good, OneOutcome, InFlight
<1> QED BY <1>1, InitHolds, NextKeeps, PTL DEF Spec

\* What ServingFits says of a step.
FitsServing == \A k \in Key : left > 0 => ~(~pool[k].full /\ pool'[k].full)

\* A Block's room: a queue under the watermark takes any of them.
Roomy == \A size \in BlockSize : Watermark + size <= ByteLimit + 1

LEMMA ServeFits ==
    ASSUME IInv, Roomy, NEW broken \in BOOLEAN, Serve(broken)
    PROVE  FitsServing
<1>1. PICK k \in Wanted(pool) :
          LET fewer == [pool[k] EXCEPT !.wants = @ - 1]
          IN  \E one \in {fewer} \cup {Tell(fewer, size, broken) : size \in BlockSize} :
                 pool' = [pool EXCEPT ![k] = one]
    BY DEF Serve
<1>2. k \in Key /\ pool[k].stage = "seated" /\ pool[k].wants > 0 /\ RoomForBlock(pool[k])
    BY DEF Wanted, Ready
<1>3. pool \in [Key -> Peer] /\ pool[k] \in Peer BY <1>2 DEF IInv, TypeOK
<1>4. PICK fewer : fewer = [pool[k] EXCEPT !.wants = @ - 1] OBVIOUS
<1>5. /\ fewer.stage = "seated" /\ fewer.full = pool[k].full /\ fewer.queue = pool[k].queue
      /\ pool[k].queue \in Nat
    BY <1>2, <1>3, <1>4 DEF Peer
<1>6. PICK one \in {fewer} \cup {Tell(fewer, size, broken) : size \in BlockSize} :
          pool' = [pool EXCEPT ![k] = one]
    BY <1>1, <1>4
<1>7. one.full = pool[k].full
    <2>1. CASE one = fewer BY <1>5, <2>1
    <2>2. CASE one \in {Tell(fewer, size, broken) : size \in BlockSize}
        <3>1. PICK size \in BlockSize : one = Tell(fewer, size, broken) BY <2>2
        <3>2. Fits(fewer, size)
            BY <1>2, <1>5, PoolShape, Limits DEF Roomy, RoomForBlock, Fits
        <3>3. one = Forgotten(fewer) \/ one = Queued(fewer, size)
            BY <1>5, <3>1, <3>2 DEF Tell
        <3>4. fewer \in [stage : {"seated"}, host : Host \cup {Nobody}, inbound : BOOLEAN,
                         early : 0 .. SparedLimit, deaf : BOOLEAN, queue : Nat, wants : Nat,
                         told : Nat, news : {"none", "no", "yes"}, full : BOOLEAN]
            BY <1>2, <1>3, <1>4 DEF Peer
        <3> QED BY <1>5, <3>3, <3>4 DEF Forgotten, Queued
    <2> QED BY <1>6, <2>1, <2>2
<1> QED BY <1>2, <1>3, <1>6, <1>7 DEF FitsServing

\* While the writer is between two Blocks nobody else's request is answered, and
\* a Block put in an outbox under the watermark fits, however many Peers, keys
\* and Blocks there are (infra/peers.av blockWatermark, app/owner.av).
THEOREM ServedBlocksFit ==
    ASSUME Roomy
    PROVE  Spec => ServingFits
<1>1. IInv /\ [Next]_vars => [FitsServing]_vars
    <2> SUFFICES ASSUME IInv, Next PROVE FitsServing
        OBVIOUS
    <2>1. CASE \E broken \in BOOLEAN : Serve(broken) BY <2>1, ServeFits
    <2>2. CASE ReadFails BY <2>2 DEF ReadFails, FitsServing
    <2>3. CASE ~(\E broken \in BOOLEAN : Serve(broken)) /\ ~ReadFails
        <3>1. left = 0
            BY <2>3 DEF Next, Accept, Clock, Tick, RunOut, Close, Version, Early, Verack, Hand,
               Hearable, Handle, Words, Word, Deafen, Listen, Writer, Drain, Idle
        <3> QED BY <3>1 DEF FitsServing
    <2> QED BY <2>1, <2>2, <2>3
<1> QED BY <1>1, InitHolds, NextKeeps, PTL DEF Spec, ServingFits, FitsServing
=============================================================================
