----------------------------- MODULE RelayProofs -----------------------------
(***************************************************************************)
(* Proofs about the Mempool and the compact Blocks beside the Set, for     *)
(* every tree, every set of Transactions and every limit: the claims index *)
(* what is held and the bytes are its size, what a held Transaction misses *)
(* of the Set is owed, what makes room pays least, and what came off the   *)
(* Set is offered back.                                                    *)
(***************************************************************************)
EXTENDS Rebuild, BlockTreeProofs, SequenceTheorems

(***************************** the size of a set ****************************)
(* SizeOf sums in the order CHOOSE has it: Sum is that sum over every set   *)
(* of Transactions at once.                                                 *)
First(S) == CHOOSE t \in S : TRUE
Sums(f, S) ==
  f = [T \in SUBSET S |-> IF T = {} THEN 0 ELSE Size[First(T)] + f[T \ {First(T)}]]
Sum == CHOOSE f \in [SUBSET Tx -> Nat] : Sums(f, Tx)

LEMMA FirstIn ==
  ASSUME NEW S, S # {}
  PROVE  First(S) \in S
BY DEF First

LEMMA SumIs == Sum \in [SUBSET Tx -> Nat] /\ Sums(Sum, Tx)
<1> DEFINE pick == [T \in SUBSET Tx |-> First(T)]
           step == [t \in Tx |-> [n \in Nat |-> Size[t] + n]]
<1>1. \A T \in SUBSET Tx : T # {} => pick[T] \in T /\ pick[T] = First(T)
  BY FirstIn
<1>2. \A t \in Tx, n \in Nat : step[t][n] = Size[t] + n /\ step[t][n] \in Nat
  BY TxShape
<1>3. PICK f \in [SUBSET Tx -> Nat] : FoldsBy(f, Tx, 0, pick, step)
  <2>1. IsFiniteSet(Tx) /\ 0 \in Nat
    BY TxShape
  <2>2. Picks(pick, Tx) /\ StaysIn(step, Tx, Nat)
    BY <1>1, <1>2 DEF Picks, StaysIn
  <2> HIDE DEF pick, step
  <2> QED
    BY <2>1, <2>2, FoldOn
<1>4. ASSUME NEW T \in SUBSET Tx, T # {}
      PROVE  step[pick[T]][f[T \ {pick[T]}]] = Size[First(T)] + f[T \ {First(T)}]
  <2>1. First(T) \in Tx /\ T \ {First(T)} \in SUBSET Tx
    BY <1>4, FirstIn
  <2> QED
    BY <1>1, <1>2, <1>4, <2>1
<1>5. Sums(f, Tx)
  BY <1>3, <1>4 DEF Sums, FoldsBy
<1> QED
  BY <1>5 DEF Sum

(* Whatever two sums are made over one set, they agree.                     *)
LEMMA SumsAgree ==
  ASSUME NEW S \in SUBSET Tx, NEW f, Sums(f, S)
  PROVE  f[S] = Sum[S]
<1> DEFINE Bad == {T \in SUBSET S : f[T] # Sum[T]}
<1>1. SUFFICES ASSUME Bad # {} PROVE FALSE
  BY DEF Bad
<1>2. PICK T \in Bad : \A U \in Bad : U \subseteq T => U = T
  <2>1. IsFiniteSet(S) /\ Bad \in SUBSET (SUBSET S)
    BY TxShape, FS_Subset
  <2> HIDE DEF Bad
  <2> QED
    BY <1>1, <2>1, SmallestSet
<1>3. f[T] = IF T = {} THEN 0 ELSE Size[First(T)] + f[T \ {First(T)}]
  BY DEF Sums
<1>4. Sum[T] = IF T = {} THEN 0 ELSE Size[First(T)] + Sum[T \ {First(T)}]
  <2>1. T \in SUBSET Tx
    OBVIOUS
  <2> QED
    BY <2>1, SumIs DEF Sums
<1>5. T # {} /\ First(T) \in T
  BY <1>3, <1>4, FirstIn
<1>6. f[T \ {First(T)}] = Sum[T \ {First(T)}]
  BY <1>2, <1>5
<1> QED
  BY <1>3, <1>4, <1>5, <1>6

LEMMA SizeIsSum ==
  ASSUME NEW S \in SUBSET Tx
  PROVE  SizeOf(S) = Sum[S] /\ SizeOf(S) \in Nat
<1> DEFINE it == [T \in SUBSET S |-> Sum[T]]
<1>1. Sums(it, S)
  <2>1. ASSUME NEW T \in SUBSET S
        PROVE  it[T] = IF T = {} THEN 0 ELSE Size[First(T)] + it[T \ {First(T)}]
    <3>1. T \in SUBSET Tx /\ T \ {First(T)} \in SUBSET S
      OBVIOUS
    <3> QED
      BY <3>1, SumIs DEF Sums
  <2> QED
    BY <2>1 DEF Sums
<1>2. SizeOf(S) = (CHOOSE f : Sums(f, S))[S]
  BY DEF SizeOf, MapThenSumSet, MapThenFoldSet, Sums, First
<1>3. Sums(CHOOSE f : Sums(f, S), S)
  BY <1>1
<1>4. SizeOf(S) = Sum[S]
  BY <1>2, <1>3, SumsAgree
<1> QED
  BY <1>4, SumIs

LEMMA SizeOne ==
  ASSUME NEW S \in SUBSET Tx, NEW t \in Tx \ S
  PROVE  SizeOf(S \cup {t}) = SizeOf(S) + Size[t]
<1> DEFINE Adds(R, u) == Sum[R \cup {u}] = Sum[R] + Size[u]
           Bad == {R \in SUBSET Tx : \E u \in Tx \ R : ~Adds(R, u)}
<1>1. SUFFICES ASSUME Bad # {} PROVE FALSE
  <2>1. Adds(S, t)
    BY <1>1
  <2> QED
    BY <2>1, SizeIsSum
<1>2. PICK R \in Bad : \A Q \in Bad : Q \subseteq R => Q = R
  <2>1. IsFiniteSet(Tx) /\ Bad \in SUBSET (SUBSET Tx)
    BY TxShape
  <2> HIDE DEF Bad
  <2> QED
    BY <1>1, <2>1, SmallestSet
<1>3. PICK u \in Tx \ R : ~Adds(R, u)
  BY <1>2
<1> DEFINE x == First(R \cup {u})
<1>4. x \in R \cup {u} /\ x \in Tx /\ R \in SUBSET Tx
  BY <1>2, <1>3, FirstIn
<1>5. Sum[R \cup {u}] = Size[x] + Sum[(R \cup {u}) \ {x}]
  BY <1>3, <1>4, SumIs DEF Sums
<1>6. CASE x = u
  <2>1. (R \cup {u}) \ {x} = R
    BY <1>3, <1>6
  <2>2. Sum[R] \in Nat /\ Size[u] \in Nat
    BY <1>4, SumIs, TxShape
  <2>3. Sum[R \cup {u}] = Size[u] + Sum[R]
    BY <1>5, <1>6, <2>1
  <2>4. Sum[R \cup {u}] = Sum[R] + Size[u]
    BY <2>2, <2>3
  <2> QED
    BY <1>3, <2>4
<1>7. CASE x # u
  <2> DEFINE Q == R \ {x}
  <2>1. x \in R /\ Q \in SUBSET Tx /\ Q # R /\ Q \subseteq R
    BY <1>4, <1>7
  <2>2. Q \notin Bad
    BY <1>2, <2>1
  <2>3. Adds(Q, u) /\ Adds(Q, x)
    BY <1>3, <1>4, <2>1, <2>2
  <2>4. (R \cup {u}) \ {x} = Q \cup {u} /\ Q \cup {x} = R
    BY <1>7, <2>1
  <2>5. Sum[Q] \in Nat /\ Size[u] \in Nat /\ Size[x] \in Nat
    BY <1>3, <1>4, <2>1, SumIs, TxShape
  <2>6. Sum[R \cup {u}] = Size[x] + (Sum[Q] + Size[u]) /\ Sum[R] = Sum[Q] + Size[x]
    BY <1>5, <2>3, <2>4
  <2>7. Sum[R \cup {u}] = Sum[R] + Size[u]
    <3> HIDE DEF Q, x
    <3> QED
      BY <2>5, <2>6
  <2> QED
    BY <1>3, <2>7
<1> QED
  BY <1>6, <1>7

(* What is taken out of a set takes its size with it.                       *)
LEMMA SizeLess ==
  ASSUME NEW S \in SUBSET Tx, NEW R \in SUBSET S
  PROVE  SizeOf(S \ R) = SizeOf(S) - SizeOf(R)
<1> DEFINE Bad == {Q \in SUBSET S : SizeOf(S \ Q) # SizeOf(S) - SizeOf(Q)}
<1>1. SUFFICES ASSUME Bad # {} PROVE FALSE
  OBVIOUS
<1>2. PICK Q \in Bad : \A P \in Bad : P \subseteq Q => P = Q
  <2>1. IsFiniteSet(S) /\ Bad \in SUBSET (SUBSET S)
    BY TxShape, FS_Subset
  <2> HIDE DEF Bad
  <2> QED
    BY <1>1, <2>1, SmallestSet
<1>3. CASE Q = {}
  <2>1. SizeOf({}) = 0
    <3>1. SizeOf({}) = Sum[{}] /\ {} \in SUBSET Tx
      BY SizeIsSum
    <3> QED
      BY <3>1, SumIs DEF Sums
  <2>2. S \ Q = S /\ SizeOf(S) \in Nat
    BY <1>3, SizeIsSum
  <2>3. SizeOf(S \ Q) = SizeOf(S) - SizeOf(Q)
    BY <1>3, <2>1, <2>2
  <2> QED
    BY <1>2, <2>3
<1>4. CASE Q # {}
  <2>1. PICK t \in Q : TRUE
    BY <1>4
  <2> DEFINE P == Q \ {t}
  <2>2. P \in SUBSET S /\ P # Q /\ P \subseteq Q /\ t \in Tx
    BY <2>1
  <2>3. SizeOf(S \ P) = SizeOf(S) - SizeOf(P)
    <3>1. P \notin Bad
      BY <1>2, <2>2
    <3> QED
      BY <2>2, <3>1
  <2>4. S \ P = (S \ Q) \cup {t} /\ t \notin S \ Q /\ Q = P \cup {t} /\ t \notin P
    BY <1>2, <2>1
  <2>5. SizeOf(S \ P) = SizeOf(S \ Q) + Size[t]
    BY <2>2, <2>4, SizeOne
  <2>6. SizeOf(Q) = SizeOf(P) + Size[t]
    BY <2>2, <2>4, SizeOne
  <2>7. /\ SizeOf(S) \in Nat /\ SizeOf(P) \in Nat /\ SizeOf(S \ Q) \in Nat
        /\ Size[t] \in Nat
    BY <2>2, SizeIsSum, TxShape
  <2>8. SizeOf(S \ Q) = SizeOf(S) - SizeOf(Q)
    <3> HIDE DEF P
    <3> QED
      BY <2>3, <2>5, <2>6, <2>7
  <2> QED
    BY <1>2, <2>8
<1> QED
  BY <1>3, <1>4

LEMMA SizeGrows ==
  ASSUME NEW S \in SUBSET Tx, NEW R \in SUBSET S
  PROVE  SizeOf(R) <= SizeOf(S)
<1>1. SizeOf(S \ R) = SizeOf(S) - SizeOf(R)
  BY SizeLess
<1>2. SizeOf(S \ R) \in Nat /\ SizeOf(S) \in Nat /\ SizeOf(R) \in Nat
  BY SizeIsSum
<1> QED
  BY <1>1, <1>2

(******************************** the Mempool *******************************)
PoolTrue(p) == p \in Pools /\ Indexed(p) /\ Weighed(p)

LEMMA PoolParts ==
  ASSUME NEW p, PoolTrue(p)
  PROVE  /\ p.held \in SUBSET Tx
         /\ p.claims \in [Coin -> Tx \cup {NoTx}]
         /\ p.bytes \in Nat
BY SizeIsSum DEF PoolTrue, Pools, Weighed

LEMMA EmptyTrue == PoolTrue(Empty) /\ Fits(Empty)
<1>1. SizeOf({}) = 0
  <2>1. {} \in SUBSET Tx
    OBVIOUS
  <2>2. SizeOf({} \ {}) = SizeOf({}) - SizeOf({}) /\ SizeOf({}) \in Nat
    BY <2>1, SizeLess, SizeIsSum
  <2>3. {} \ {} = {}
    OBVIOUS
  <2> QED
    BY <2>2, <2>3
<1> QED
  BY <1>1, TxShape DEF PoolTrue, Fits, Pools, Indexed, Weighed, Empty

(* A newcomer nobody conflicts with is lodged without touching a claim.     *)
LEMMA LodgedTrue ==
  ASSUME NEW p, PoolTrue(p), NEW t \in Tx \ p.held, ~Conflicts(p, t)
  PROVE  PoolTrue(Lodged(p, t))
<1> DEFINE q == Lodged(p, t)
<1>1. q.held = p.held \cup {t} /\ q.bytes = p.bytes + Size[t]
      /\ q.claims = [c \in Coin |-> IF c \in Inputs[t] THEN t ELSE p.claims[c]]
  BY DEF Lodged
<1>2. q \in Pools
  BY PoolParts, TxShape DEF Pools, Lodged
<1>3. Indexed(q)
  <2> SUFFICES ASSUME NEW c \in Coin, NEW u \in Tx
               PROVE  q.claims[c] = u <=> (u \in q.held /\ c \in Inputs[u])
    BY DEF Indexed
  <2>1. p.claims[c] = u <=> (u \in p.held /\ c \in Inputs[u])
    BY DEF PoolTrue, Indexed
  <2>2. c \in Inputs[t] => p.claims[c] = NoTx
    BY DEF Conflicts
  <2>3. NoTx \notin Tx
    BY TxShape
  <2> QED
    BY <1>1, <2>1, <2>2, <2>3
<1>4. Weighed(q)
  <2>1. SizeOf(p.held \cup {t}) = SizeOf(p.held) + Size[t]
    BY PoolParts, SizeOne
  <2> QED
    BY <1>1, <2>1 DEF PoolTrue, Weighed
<1> QED
  BY <1>2, <1>3, <1>4 DEF PoolTrue

(* Who leaves takes his claims and his size along.                          *)
LEMMA WithoutTrue ==
  ASSUME NEW p, PoolTrue(p), NEW gone \in SUBSET p.held
  PROVE  PoolTrue(Without(p, gone))
<1> DEFINE q == Without(p, gone)
<1>1. q.held = p.held \ gone /\ q.bytes = p.bytes - SizeOf(gone)
      /\ q.claims = [c \in Coin |-> IF \E t \in gone : c \in Inputs[t]
                                    THEN NoTx ELSE p.claims[c]]
  BY DEF Without
<1>2. gone \in SUBSET Tx /\ SizeOf(gone) \in Nat
  BY PoolParts, SizeIsSum
<1>3. q \in Pools
  BY <1>2, PoolParts DEF Pools, Without
<1>4. Indexed(q)
  <2> SUFFICES ASSUME NEW c \in Coin, NEW u \in Tx
               PROVE  q.claims[c] = u <=> (u \in q.held /\ c \in Inputs[u])
    BY DEF Indexed
  <2>1. \A t \in Tx : p.claims[c] = t <=> (t \in p.held /\ c \in Inputs[t])
    BY DEF PoolTrue, Indexed
  <2>2. NoTx \notin Tx
    BY TxShape
  <2> QED
    BY <1>1, <1>2, <2>1, <2>2
<1>5. Weighed(q)
  <2>1. SizeOf(p.held \ gone) = SizeOf(p.held) - SizeOf(gone)
    BY PoolParts, SizeLess
  <2> QED
    BY <1>1, <2>1 DEF PoolTrue, Weighed
<1> QED
  BY <1>3, <1>4, <1>5 DEF PoolTrue

LEMMA ConfirmedTrue ==
  ASSUME NEW p, PoolTrue(p), NEW gone \in SUBSET p.held
  PROVE  /\ PoolTrue(Confirmed(p, gone))
         /\ Fits(p) => Fits(Confirmed(p, gone))
         /\ Confirmed(p, gone).held = p.held \ gone
<1>1. CASE gone = {}
  BY <1>1 DEF Confirmed
<1>2. CASE gone # {}
  <2> DEFINE q == Confirmed(p, gone)
  <2>1. q.held = p.held \ gone /\ q.bytes = SizeOf(p.held \ gone)
        /\ q.claims = [c \in Coin |-> IF p.claims[c] \in gone
                                      THEN NoTx ELSE p.claims[c]]
    BY <1>2 DEF Confirmed
  <2>2. q = [held |-> q.held, claims |-> q.claims, bytes |-> q.bytes]
    BY <1>2, <2>1 DEF Confirmed
  <2>3. p.held \ gone \in SUBSET Tx /\ SizeOf(p.held \ gone) \in Nat
    BY PoolParts, SizeIsSum
  <2>4. q \in Pools
    BY <2>1, <2>2, <2>3, PoolParts DEF Pools
  <2>5. Indexed(q)
    <3> SUFFICES ASSUME NEW c \in Coin, NEW u \in Tx
                 PROVE  q.claims[c] = u <=> (u \in q.held /\ c \in Inputs[u])
      BY DEF Indexed
    <3>1. \A t \in Tx : p.claims[c] = t <=> (t \in p.held /\ c \in Inputs[t])
      BY DEF PoolTrue, Indexed
    <3>2. NoTx \notin Tx /\ gone \subseteq Tx
      BY TxShape, PoolParts
    <3> HIDE DEF q
    <3> QED
      BY <2>1, <3>1, <3>2
  <2>6. SizeOf(p.held \ gone) <= p.bytes
    BY PoolParts, SizeGrows DEF PoolTrue, Weighed
  <2>7. Fits(p) => Fits(q)
    <3>1. Cap \in Nat /\ p.bytes \in Nat
      BY TxShape, PoolParts
    <3> QED
      BY <2>1, <2>3, <2>6, <3>1 DEF Fits
  <2> QED
    BY <2>1, <2>4, <2>5, <2>7 DEF PoolTrue, Weighed
<1> QED
  BY <1>1, <1>2

(* Only a held Transaction claims.                                          *)
LEMMA TakenAreHeld ==
  ASSUME NEW p, PoolTrue(p), NEW spent \in SUBSET Coin
  PROVE  /\ TakenBy(p, spent) \in SUBSET p.held
         /\ \A t \in p.held : Inputs[t] \cap spent # {} => t \in TakenBy(p, spent)
<1>1. \A c \in Coin, t \in Tx : p.claims[c] = t <=> (t \in p.held /\ c \in Inputs[t])
  BY DEF PoolTrue, Indexed
<1>2. \A c \in spent : c \in Coin /\ p.claims[c] \in Tx \cup {NoTx}
  BY PoolParts
<1>3. p.held \subseteq Tx /\ NoTx \notin Tx
  BY PoolParts, TxShape
<1> QED
  BY <1>1, <1>2, <1>3 DEF TakenBy

(* cheaperOf is an order: nobody is cheaper than himself, and it carries    *)
(* over.                                                                    *)
LEMMA CheaperOrder ==
  ASSUME NEW t \in Tx, NEW u \in Tx, NEW v \in Tx
  PROVE  /\ ~Cheaper(t, t)
         /\ Cheaper(t, u) /\ Cheaper(u, v) => Cheaper(t, v)
<1>1. \A x \in {t, u, v} : Rate[x] \in Nat /\ Txid[x] \in Nat
  BY TxShape
<1> QED
  BY <1>1 DEF Cheaper

Below(p, t) == {u \in p.held : Cheaper(u, t)}

(* Of those that stay when room is made somebody is the cheapest, and with  *)
(* whoever is cheaper than him gone, the rest fit.                          *)
LEMMA StayersFit ==
  ASSUME NEW p, PoolTrue(p)
  PROVE  SizeOf(p.held \ Overflow(p)) <= Cap
<1> DEFINE stay == p.held \ Overflow(p)
<1> SUFFICES SizeOf(stay) <= Cap
  OBVIOUS
<1>1. stay \in SUBSET Tx /\ p.held \in SUBSET Tx /\ p.bytes = SizeOf(p.held)
  BY PoolParts DEF PoolTrue, Weighed
<1>2. CASE stay = {}
  <2>1. SizeOf({}) <= Cap
    BY EmptyTrue DEF PoolTrue, Weighed, Fits, Empty
  <2> QED
    BY <1>2, <2>1
<1>3. CASE stay # {}
  <2> DEFINE T == {Below(p, t) : t \in stay}
  <2>1. IsFiniteSet(Tx) /\ T \in SUBSET (SUBSET Tx) /\ T # {}
    <3>1. \A t \in stay : Below(p, t) \in SUBSET Tx
      BY <1>1 DEF Below
    <3> QED
      BY <1>3, <3>1, TxShape
  <2>2. PICK B \in T : \A A \in T : A \subseteq B => A = B
    <3> HIDE DEF T
    <3> QED
      BY <2>1, SmallestSet
  <2>3. PICK m \in stay : B = Below(p, m)
    BY <2>2
  <2>4. ASSUME NEW u \in stay, Cheaper(u, m) PROVE FALSE
    <3>1. Below(p, u) \subseteq Below(p, m)
      <4>1. ASSUME NEW v \in p.held, Cheaper(v, u) PROVE Cheaper(v, m)
        BY <1>1, <2>3, <2>4, <4>1, CheaperOrder
      <4> QED
        BY <4>1 DEF Below
    <3>2. u \in Below(p, m) /\ u \notin Below(p, u)
      BY <1>1, <2>4, CheaperOrder DEF Below
    <3> QED
      BY <2>2, <2>3, <3>1, <3>2
  <2>5. stay \in SUBSET (p.held \ Below(p, m))
    BY <2>4 DEF Below
  <2>6. SizeOf(stay) <= SizeOf(p.held \ Below(p, m))
    <3>1. p.held \ Below(p, m) \in SUBSET Tx
      BY <1>1
    <3> HIDE DEF stay
    <3> QED
      BY <2>5, <3>1, SizeGrows
  <2>7. Below(p, m) \in SUBSET p.held
    BY DEF Below
  <2>8. SizeOf(p.held \ Below(p, m)) = p.bytes - SizeOf(Below(p, m))
    BY <1>1, <2>7, SizeLess
  <2>9. p.bytes - SizeOf(Below(p, m)) <= Cap
    <3>1. m \in p.held /\ m \notin Overflow(p)
      BY <2>3
    <3>2. p.bytes \in Nat /\ SizeOf(Below(p, m)) \in Nat /\ Cap \in Nat
      BY <1>1, <2>7, PoolParts, SizeIsSum, TxShape
    <3> QED
      BY <3>1, <3>2 DEF Overflow, Below
  <2>10. /\ SizeOf(stay) \in Nat /\ p.bytes \in Nat /\ SizeOf(Below(p, m)) \in Nat
         /\ Cap \in Nat
    BY <1>1, <2>7, PoolParts, SizeIsSum, TxShape
  <2> HIDE DEF stay
  <2> QED
    BY <2>6, <2>8, <2>9, <2>10
<1>4. stay = {} \/ stay # {}
  OBVIOUS
<1> HIDE DEF stay
<1> QED
  BY <1>2, <1>3, <1>4

(* Who leaves to make room pays no more than who stays.                     *)
LEMMA LeaversPayLeast ==
  ASSUME NEW p, PoolTrue(p), NEW t \in Overflow(p), NEW u \in p.held \ Overflow(p)
  PROVE  Rate[t] <= Rate[u]
<1>1. t \in p.held /\ t \in Tx /\ u \in Tx /\ p.held \in SUBSET Tx
  BY PoolParts DEF Overflow
<1>2. Rate[t] \in Nat /\ Rate[u] \in Nat /\ Cap \in Nat /\ p.bytes \in Nat
  BY <1>1, PoolParts, TxShape
<1>3. SUFFICES ASSUME Rate[u] < Rate[t] PROVE FALSE
  BY <1>2
<1>4. Below(p, u) \in SUBSET Below(p, t)
  <2>1. Cheaper(u, t)
    BY <1>3 DEF Cheaper
  <2>2. ASSUME NEW v \in p.held, Cheaper(v, u) PROVE Cheaper(v, t)
    BY <1>1, <2>1, <2>2, CheaperOrder
  <2> QED
    BY <2>2 DEF Below
<1>5. Below(p, t) \in SUBSET Tx /\ Below(p, u) \in SUBSET Tx
  BY <1>1 DEF Below
<1>6. SizeOf(Below(p, u)) <= SizeOf(Below(p, t))
  BY <1>4, <1>5, SizeGrows
<1>7. SizeOf(Below(p, u)) \in Nat /\ SizeOf(Below(p, t)) \in Nat
  BY <1>5, SizeIsSum
<1>8. p.bytes - SizeOf(Below(p, t)) > Cap
  BY DEF Overflow, Below
<1>9. ~(p.bytes - SizeOf(Below(p, u)) > Cap)
  BY DEF Overflow, Below
<1> QED
  BY <1>2, <1>6, <1>7, <1>8, <1>9

(******************************** admission *********************************)
LEMMA SettledTrue ==
  ASSUME NEW p, PoolTrue(p), NEW t \in Tx \ p.held, ~Conflicts(p, t)
  PROVE  /\ PoolTrue(Settled(p, t)) /\ Fits(Settled(p, t))
         /\ Settled(p, t).held = Lodged(p, t).held \ Overflow(Lodged(p, t))
<1> DEFINE q == Lodged(p, t)
<1>1. PoolTrue(q)
  BY LodgedTrue
<1>2. Overflow(q) \in SUBSET q.held
  BY DEF Overflow
<1>3. PoolTrue(Without(q, Overflow(q)))
  <2> HIDE DEF q
  <2> QED
    BY <1>1, <1>2, WithoutTrue
<1>4. Without(q, Overflow(q)).held = q.held \ Overflow(q)
  BY DEF Without
<1>5. SizeOf(q.held \ Overflow(q)) <= Cap
  <2> HIDE DEF q
  <2> QED
    BY <1>1, StayersFit
<1> QED
  BY <1>3, <1>4, <1>5 DEF Settled, PoolTrue, Weighed, Fits

(* A Transaction offered is held or not; whoever is held afterwards was, or *)
(* is the newcomer, and the Set backs the newcomer.                         *)
LEMMA OfferedTrue ==
  ASSUME NEW p, PoolTrue(p), Fits(p), NEW t \in Tx, NEW coins
  PROVE  /\ PoolTrue(Offered(p, t, coins)) /\ Fits(Offered(p, t, coins))
         /\ \A u \in Offered(p, t, coins).held :
              u \in p.held \/ (u = t /\ Inputs[t] \subseteq coins)
<1>1. CASE ~Admits(p, t, coins)
  BY <1>1 DEF Offered
<1>2. CASE Admits(p, t, coins)
  <2>1. t \in Tx \ p.held /\ ~Conflicts(p, t) /\ Inputs[t] \subseteq coins
    BY <1>2 DEF Admits
  <2>2. Lodged(p, t).held = p.held \cup {t}
    BY DEF Lodged
  <2>3. Offered(p, t, coins) = Settled(p, t)
    BY <1>2 DEF Offered
  <2> QED
    BY <2>1, <2>2, <2>3, SettledTrue
<1> QED
  BY <1>1, <1>2

(************************** what is offered in turn *************************)
(* Restored goes through what came off in order: one offer after another.   *)
TruePools == {p \in Pools : PoolTrue(p) /\ Fits(p)}

LEMMA MaxIs ==
  ASSUME NEW n \in Nat, NEW T \in SUBSET (1 .. n), T # {}
  PROVE  Max(T) \in T /\ \A i \in T : i <= Max(T)
<1> DEFINE D == {n - i : i \in T}
<1>0. \A i \in T : i \in Int /\ n - i \in Nat
  OBVIOUS
<1>1. D \in SUBSET Nat /\ D # {}
  BY <1>0
<1>2. PICK d \in D : \A e \in D : d <= e
  <2> HIDE DEF D
  <2> QED
    BY <1>1, LeastNat
<1>3. PICK i \in T : d = n - i
  BY <1>2
<1>4. ASSUME NEW j \in T PROVE i >= j
  <2>1. n - i <= n - j
    BY <1>2, <1>3
  <2> QED
    BY <1>0, <2>1
<1> QED
  BY <1>3, <1>4 DEF Max

LEMMA UpTo ==
  ASSUME NEW n \in Nat, NEW i \in 1 .. n
  PROVE  /\ 1 .. i \in SUBSET (1 .. n) /\ 1 .. i - 1 \in SUBSET (1 .. n)
         /\ 1 .. i # {} /\ (1 .. i) \ {i} = 1 .. i - 1
         /\ Max(1 .. i) = i
         /\ i \in 0 .. n /\ i - 1 \in 0 .. n
<1>1. /\ 1 .. i \in SUBSET (1 .. n) /\ 1 .. i - 1 \in SUBSET (1 .. n)
      /\ i \in 1 .. i /\ (1 .. i) \ {i} = 1 .. i - 1
      /\ i \in 0 .. n /\ i - 1 \in 0 .. n
  OBVIOUS
<1>2. Max(1 .. i) \in 1 .. i /\ i <= Max(1 .. i)
  <2>1. 1 .. i # {}
    BY <1>1
  <2> QED
    BY <1>1, <2>1, MaxIs
<1> QED
  BY <1>1, <1>2

LEMMA TrueOffered ==
  ASSUME NEW p \in TruePools, NEW t \in Tx, NEW coins
  PROVE  Offered(p, t, coins) \in TruePools
BY OfferedTrue DEF TruePools, PoolTrue

Offers(f, p, s, coins) ==
  f = [T \in SUBSET (DOMAIN s) |->
         IF T = {} THEN p ELSE Offered(f[T \ {Max(T)}], s[Max(T)], coins)]

LEMMA OffersExist ==
  ASSUME NEW p \in TruePools, NEW s \in Seq(Tx), NEW coins
  PROVE  \E f : Offers(f, p, s, coins)
<1> DEFINE S == DOMAIN s
           pick == [T \in SUBSET S |-> Max(T)]
           step == [i \in S |-> [q \in TruePools |-> Offered(q, s[i], coins)]]
<1>1. Len(s) \in Nat /\ S = 1 .. Len(s) /\ \A i \in S : s[i] \in Tx
  OBVIOUS
<1>2. IsFiniteSet(S)
  BY <1>1, FS_Interval
<1>3. \A T \in SUBSET S : T # {} => Max(T) \in T
  BY <1>1, MaxIs
<1>4. \A i \in S : \A q \in TruePools : Offered(q, s[i], coins) \in TruePools
  BY <1>1, TrueOffered
<1>5. Picks(pick, S) /\ StaysIn(step, S, TruePools)
  BY <1>3, <1>4 DEF Picks, StaysIn
<1>6. PICK f \in [SUBSET S -> TruePools] : FoldsBy(f, S, p, pick, step)
  <2> HIDE DEF S, pick, step
  <2> QED
    BY <1>2, <1>5, FoldOn
<1>7. ASSUME NEW T \in SUBSET S, T # {}
      PROVE  step[pick[T]][f[T \ {pick[T]}]]
               = Offered(f[T \ {Max(T)}], s[Max(T)], coins)
  <2>1. pick[T] = Max(T) /\ Max(T) \in S
    BY <1>3, <1>7
  <2>2. T \ {Max(T)} \in SUBSET S /\ f[T \ {Max(T)}] \in TruePools
    BY <1>6
  <2> QED
    BY <2>1, <2>2
<1>8. Offers(f, p, s, coins)
  <2>1. \A T \in SUBSET S :
          f[T] = IF T = {} THEN p ELSE Offered(f[T \ {Max(T)}], s[Max(T)], coins)
    BY <1>6, <1>7 DEF FoldsBy
  <2> QED
    BY <1>6, <2>1 DEF Offers
<1> QED
  BY <1>8

(* What may be spent is in the Set.                                         *)
LEMMA SpendableHeld == \A n : Spendable(n) \subseteq Unspent[at]
BY DEF Spendable

LEMMA RestoredInTurn ==
  ASSUME NEW p \in TruePools, NEW s \in Seq(Tx), s = aligned \o built.carried
  PROVE  \E q \in [0 .. Len(s) -> TruePools] :
           /\ q[0] = p /\ q[Len(s)] = Restored(p)
           /\ \A i \in 1 .. Len(s) : q[i] = Offered(q[i - 1], s[i], Spendable(goal))
<1> DEFINE coins == Spendable(goal)
           f == CHOOSE g : Offers(g, p, s, coins)
           n == Len(s)
           q == [k \in 0 .. n |-> f[1 .. k]]
<1>1. Offers(f, p, s, coins)
  BY OffersExist
<1>2. n \in Nat /\ DOMAIN s = 1 .. n /\ \A i \in 1 .. n : s[i] \in Tx
  OBVIOUS
<1>3. Restored(p) = f[DOMAIN s]
  BY DEF Restored, FoldLeft, MapThenFoldSet, Offers
<1> HIDE DEF f, n
<1>4. q[0] = p
  <2>1. f[{}] = p
    BY <1>1 DEF Offers
  <2>2. 1 .. 0 = {} /\ 0 \in 0 .. n
    BY <1>2
  <2> QED
    BY <2>1, <2>2
<1>5. ASSUME NEW i \in 1 .. n PROVE q[i] = Offered(q[i - 1], s[i], coins)
  <2>1. /\ 1 .. i \in SUBSET (DOMAIN s) /\ 1 .. i # {} /\ Max(1 .. i) = i
        /\ (1 .. i) \ {i} = 1 .. i - 1 /\ i \in 0 .. n /\ i - 1 \in 0 .. n
    BY <1>2, UpTo
  <2>2. f[1 .. i] = Offered(f[(1 .. i) \ {i}], s[i], coins)
    BY <1>1, <2>1 DEF Offers
  <2> QED
    BY <2>1, <2>2
<1>6. \A k \in 0 .. n : q[k] \in TruePools
  <2> DEFINE G == {k \in 0 .. n : q[k] \in TruePools}
  <2>1. 0 \in G
    BY <1>2, <1>4
  <2>2. ASSUME NEW k \in 1 .. n, k - 1 \in G PROVE k \in G
    <3>1. q[k - 1] \in TruePools /\ s[k] \in Tx /\ k \in 0 .. n
      BY <1>2, <2>2
    <3>2. q[k] = Offered(q[k - 1], s[k], coins)
      BY <1>5
    <3> HIDE DEF q, coins
    <3> QED
      BY <3>1, <3>2, TrueOffered
  <2> HIDE DEF G
  <2>3. \A k \in 0 .. n : k \in G
    BY <1>2, <2>1, <2>2, StepByStep
  <2> QED
    BY <2>3 DEF G
<1>7. q \in [0 .. n -> TruePools]
  BY <1>6
<1>8. q[n] = Restored(p)
  BY <1>2, <1>3
<1> QED
  BY <1>4, <1>5, <1>7, <1>8 DEF n

(* Offering back admits only what the Set backs.                            *)
LEMMA RestoredBacked ==
  ASSUME NEW p \in TruePools, aligned \in Seq(Tx), built.carried \in Seq(Tx)
  PROVE  /\ Restored(p) \in TruePools
         /\ \A t \in Restored(p).held : t \in p.held \/ Inputs[t] \subseteq Unspent[at]
<1> DEFINE s == aligned \o built.carried
           n == Len(s)
<1>1. s \in Seq(Tx) /\ n \in Nat /\ \A i \in 1 .. n : s[i] \in Tx
  OBVIOUS
<1>2. PICK q \in [0 .. n -> TruePools] :
        /\ q[0] = p /\ q[n] = Restored(p)
        /\ \A i \in 1 .. n : q[i] = Offered(q[i - 1], s[i], Spendable(goal))
  <2> HIDE DEF s
  <2> QED
    BY <1>1, RestoredInTurn DEF s
<1> HIDE DEF s, n
<1> DEFINE Backed(r) ==
             \A t \in r.held : t \in p.held \/ Inputs[t] \subseteq Spendable(goal)
           G == {i \in 0 .. n : Backed(q[i])}
<1>3. 0 \in G
  BY <1>1, <1>2
<1>4. ASSUME NEW i \in 1 .. n, i - 1 \in G PROVE i \in G
  <2>1. /\ q[i - 1] \in TruePools /\ s[i] \in Tx /\ i \in 0 .. n
        /\ Backed(q[i - 1]) /\ q[i] = Offered(q[i - 1], s[i], Spendable(goal))
    BY <1>1, <1>2, <1>4
  <2>2. \A t \in q[i].held : t \in q[i - 1].held
                             \/ (t = s[i] /\ Inputs[s[i]] \subseteq Spendable(goal))
    BY <2>1, OfferedTrue DEF TruePools
  <2> QED
    BY <2>1, <2>2
<1> HIDE DEF G
<1>5. \A i \in 0 .. n : i \in G
  BY <1>1, <1>3, <1>4, StepByStep
<1>6. n \in G /\ n \in 0 .. n
  BY <1>1, <1>5
<1> QED
  BY <1>2, <1>6, SpendableHeld DEF G

(******************************* the Set moves ******************************)
(* Every branch starts at Genesis, and two branches part somewhere.         *)
LEMMA ForkIs ==
  ASSUME at \in Block, tip \in Block
  PROVE  /\ Fork \in Block
         /\ Fork \in Branch(at) \cap Branch(tip)
<1> DEFINE B == Branch(at) \cap Branch(tip)
           D == {MaxHeight - Height[b] : b \in B}
<1>1. \A b \in Block : Genesis \in Branch(b)
  <2>1. ASSUME NEW b \in Block PROVE Genesis \in Branch(b)
    <3>1. 0 \in 0 .. Height[b] /\ 0 \in Heights /\ ~(0 > Height[b])
      BY TreeShape DEF Heights
    <3>2. Chain[b][0] \in Block /\ Height[Chain[b][0]] = 0
      BY <3>1, ChainFacts
    <3>3. Chain[b][0] = Genesis
      BY <3>2, ParentChain, TreeShape DEF Heights
    <3> QED
      BY <3>1, <3>3 DEF Branch
  <2> QED
    BY <2>1
<1>2. B # {} /\ \A b \in B : b \in Block /\ MaxHeight - Height[b] \in Nat
                             /\ Height[b] \in Nat
  BY <1>1, BranchFacts, TreeShape DEF Heights
<1>3. D \in SUBSET Nat /\ D # {}
  BY <1>2
<1>4. PICK d \in D : \A e \in D : d <= e
  <2> HIDE DEF D
  <2> QED
    BY <1>3, LeastNat
<1>5. PICK b \in B : d = MaxHeight - Height[b]
  BY <1>4
<1>6. ASSUME NEW a \in B PROVE Height[a] <= Height[b]
  <2>1. MaxHeight - Height[b] <= MaxHeight - Height[a]
    BY <1>4, <1>5
  <2>2. Height[a] \in Nat /\ Height[b] \in Nat /\ MaxHeight \in Nat
    BY <1>2, TreeShape
  <2> QED
    BY <2>1, <2>2
<1>7. Fork \in B
  BY <1>6 DEF Fork
<1> QED
  BY <1>2, <1>7

LEMMA SpentByIs ==
  ASSUME NEW b \in Block
  PROVE  \A c \in Coin :
           c \in SpentBy[b] <=> /\ \E t \in ToSet(TxOf[b]) : c \in Inputs[t]
                               /\ Maker[c] \notin ToSet(TxOf[b])
<1> SUFFICES ASSUME NEW k \in Coin
             PROVE  k \in SpentBy[b] <=> /\ \E t \in ToSet(TxOf[b]) : k \in Inputs[t]
                                        /\ Maker[k] \notin ToSet(TxOf[b])
  OBVIOUS
<1>1. SpentBy[b] = (UNION {Inputs[t] : t \in ToSet(TxOf[b])})
                     \ {c \in Coin : Maker[c] \in ToSet(TxOf[b])}
  BY DEF SpentBy
<1>2. k \in UNION {Inputs[t] : t \in ToSet(TxOf[b])}
        <=> \E t \in ToSet(TxOf[b]) : k \in Inputs[t]
  OBVIOUS
<1>3. k \in {c \in Coin : Maker[c] \in ToSet(TxOf[b])}
        <=> Maker[k] \in ToSet(TxOf[b])
  OBVIOUS
<1> QED
  BY <1>1, <1>2, <1>3, Zenon

LEMMA SpentAreCoins ==
  ASSUME NEW b \in Block
  PROVE  SpentBy[b] \subseteq Coin
<1>1. \A t \in ToSet(TxOf[b]) : t \in Tx
  BY RelayShape DEF ToSet
<1>2. \A t \in ToSet(TxOf[b]) : Inputs[t] \subseteq Coin
  BY <1>1, TxShape
<1>3. SpentBy[b] \subseteq UNION {Inputs[t] : t \in ToSet(TxOf[b])}
  BY DEF SpentBy
<1> QED
  BY <1>2, <1>3

(* Going up a branch loses only what the Blocks gone over spend: nothing of *)
(* theirs was made below, since no Transaction is in two Blocks of it.      *)
LEMMA GoneBySpending ==
  ASSUME NEW b \in Block, NEW a \in Branch(b)
  PROVE  Unspent[a] \ Unspent[b] \subseteq
           UNION {SpentBy[Chain[b][n]] : n \in Height[a] + 1 .. Height[b]}
<1>1. SUFFICES ASSUME NEW c \in Unspent[a], c \notin Unspent[b]
               PROVE  \E n \in Height[a] + 1 .. Height[b] : c \in SpentBy[Chain[b][n]]
  OBVIOUS
<1>2. /\ a \in Block /\ Branch(a) \subseteq Branch(b) /\ Branch(b) \subseteq Block
      /\ Chain[b][Height[a]] = a
  BY BranchFacts
<1>3. /\ c \in Coin /\ c \notin SpentIn[a]
      /\ Maker[c] \in TxsIn[a] \cup Branch(a)
  BY <1>2 DEF Unspent
<1>4. TxsIn[a] \subseteq TxsIn[b]
  BY <1>2 DEF TxsIn
<1>5. PICK t \in TxsIn[b] : c \in Inputs[t]
  <2>1. c \in SpentIn[b]
    BY <1>1, <1>2, <1>3, <1>4 DEF Unspent
  <2> QED
    BY <2>1 DEF SpentIn
<1>6. PICK x \in Branch(b) : t \in ToSet(TxOf[x])
  BY <1>5 DEF TxsIn
<1>7. x \in Block /\ x \notin Branch(a)
  <2>1. x \in Branch(a) => t \in TxsIn[a]
    BY <1>2, <1>6 DEF TxsIn
  <2>2. t \in TxsIn[a] => c \in SpentIn[a]
    BY <1>2, <1>5 DEF SpentIn
  <2> QED
    BY <1>2, <1>3, <2>1, <2>2
<1>8. /\ Height[x] \in Nat /\ Height[a] \in Nat /\ Height[b] \in Nat
      /\ Height[x] <= Height[b] /\ Chain[b][Height[x]] = x
  BY <1>2, <1>6, <1>7, BranchFacts, TreeShape DEF Heights
<1>9. ASSUME Height[x] <= Height[a] PROVE FALSE
  <2>1. Chain[a][Height[x]] = Chain[b][Height[x]]
    <3>1. Height[a] \in Heights /\ a # None /\ Height[x] \in 0 .. Height[a]
      BY <1>2, <1>8, <1>9, TreeShape
    <3> QED
      BY <1>2, <3>1, ChainFacts
  <2> QED
    BY <1>7, <1>8, <1>9, <2>1 DEF Branch
<1>10. Maker[c] \notin ToSet(TxOf[x])
  <2> SUFFICES ASSUME Maker[c] \in ToSet(TxOf[x]) PROVE FALSE
    OBVIOUS
  <2>1. Maker[c] \in Tx
    BY <1>7, RelayShape DEF ToSet
  <2>2. Maker[c] \in TxsIn[a]
    BY <1>2, <1>3, <2>1, RelayShape
  <2>3. PICK y \in Branch(a) : Maker[c] \in ToSet(TxOf[y])
    BY <1>2, <2>2 DEF TxsIn
  <2>4. y # x /\ y \in Branch(b)
    BY <1>2, <1>7
  <2> QED
    BY <1>6, <2>3, <2>4, RelayShape
<1>11. c \in SpentBy[x]
  BY <1>3, <1>5, <1>6, <1>7, <1>10, SpentByIs
<1>12. Height[x] \in Height[a] + 1 .. Height[b]
  BY <1>8, <1>9
<1> QED
  BY <1>8, <1>11, <1>12

(* What comes off the Set is a sequence of Transactions.                    *)
Joined(f, s) ==
  f = [i \in 1 .. Len(s) |-> IF i = 1 THEN s[i] ELSE f[i - 1] \o s[i]]

LEMMA JoinedExists ==
  ASSUME NEW s \in Seq(Seq(Tx))
  PROVE  \E f : Joined(f, s)
<1> DEFINE n == Len(s)
           S == 1 .. n
           pick == [T \in SUBSET S |-> Max(T)]
           step == [i \in S |-> [v \in Seq(Tx) |-> v \o s[i]]]
<1>1. n \in Nat /\ \A i \in S : s[i] \in Seq(Tx)
  OBVIOUS
<1>2. IsFiniteSet(S) /\ <<>> \in Seq(Tx)
  BY <1>1, FS_Interval
<1>3. \A T \in SUBSET S : T # {} => pick[T] \in T
  BY <1>1, MaxIs
<1>4. \A i \in S : \A v \in Seq(Tx) : step[i][v] = v \o s[i] /\ step[i][v] \in Seq(Tx)
  BY <1>1
<1>5. Picks(pick, S) /\ StaysIn(step, S, Seq(Tx))
  BY <1>3, <1>4 DEF Picks, StaysIn
<1>6. PICK g \in [SUBSET S -> Seq(Tx)] : FoldsBy(g, S, <<>>, pick, step)
  <2> HIDE DEF S, pick, step
  <2> QED
    BY <1>2, <1>5, FoldOn
<1> DEFINE f == [i \in S |-> g[1 .. i]]
<1>7. ASSUME NEW i \in S
      PROVE  g[1 .. i] = g[1 .. i - 1] \o s[i] /\ g[1 .. i - 1] \in Seq(Tx)
  <2>1. /\ 1 .. i \in SUBSET S /\ 1 .. i - 1 \in SUBSET S /\ 1 .. i # {}
        /\ (1 .. i) \ {i} = 1 .. i - 1 /\ Max(1 .. i) = i
    BY <1>1, UpTo
  <2>4. g[1 .. i - 1] \in Seq(Tx)
    BY <1>6, <2>1
  <2>5. g[1 .. i] = step[pick[1 .. i]][g[(1 .. i) \ {pick[1 .. i]}]]
    <3> HIDE DEF pick, step
    <3> QED
      BY <1>6, <2>1 DEF FoldsBy
  <2>6. pick[1 .. i] = i
    BY <2>1
  <2>7. g[1 .. i] = step[i][g[1 .. i - 1]]
    BY <2>1, <2>5, <2>6
  <2> QED
    BY <1>4, <2>4, <2>7
<1>8. g[1 .. 0] = <<>>
  <2>1. 1 .. 0 = {} /\ {} \in SUBSET S
    OBVIOUS
  <2> QED
    BY <1>6, <2>1 DEF FoldsBy
<1>9. ASSUME NEW i \in S
      PROVE  f[i] = IF i = 1 THEN s[i] ELSE f[i - 1] \o s[i]
  <2>1. CASE i = 1
    <3>1. g[1 .. i] = g[1 .. 0] \o s[i]
      <4>1. i - 1 = 0
        BY <2>1
      <4>2. g[1 .. i] = g[1 .. i - 1] \o s[i]
        BY <1>7
      <4> HIDE DEF S, f
      <4> QED
        BY <4>1, <4>2
    <3>2. <<>> \o s[i] = s[i]
      BY <1>1, ConcatEmptySeq
    <3>3. g[1 .. i] = s[i]
      BY <1>8, <3>1, <3>2
    <3> QED
      BY <2>1, <3>3
  <2>2. CASE i # 1
    <3>1. i - 1 \in S
      BY <1>1, <2>2
    <3> QED
      BY <1>7, <2>2, <3>1
  <2> QED
    BY <2>1, <2>2
<1>10. Joined(f, s)
  BY <1>9 DEF Joined
<1> QED
  BY <1>10

LEMMA FlattenTyped ==
  ASSUME NEW s \in Seq(Seq(Tx))
  PROVE  FlattenSeq(s) \in Seq(Tx)
<1> DEFINE n == Len(s)
           f == CHOOSE g : Joined(g, s)
<1>1. n \in Nat /\ \A i \in 1 .. n : s[i] \in Seq(Tx)
  OBVIOUS
<1>2. CASE n = 0
  <2>1. s = <<>>
    BY <1>2
  <2> QED
    BY <1>2, <2>1 DEF FlattenSeq
<1>3. CASE n # 0
  <2>1. FlattenSeq(s) = f[n]
    BY <1>3 DEF FlattenSeq, Joined
  <2>2. Joined(f, s)
    BY JoinedExists
  <2> HIDE DEF f
  <2> DEFINE G == {i \in 0 .. n : i = 0 \/ f[i] \in Seq(Tx)}
  <2>3. 0 \in G
    BY <1>1
  <2>4. ASSUME NEW i \in 1 .. n, i - 1 \in G PROVE i \in G
    <3> SUFFICES f[i] \in Seq(Tx)
      <4>1. i \in 0 .. n
        BY <1>1, UpTo
      <4> QED
        BY <4>1
    <3>1. f[i] = IF i = 1 THEN s[i] ELSE f[i - 1] \o s[i]
      BY <2>2 DEF Joined
    <3>2. CASE i = 1
      BY <1>1, <3>1, <3>2
    <3>3. CASE i # 1
      <4>1. f[i - 1] \in Seq(Tx)
        BY <2>4, <3>3
      <4> QED
        BY <1>1, <3>1, <3>3, <4>1
    <3> QED
      BY <3>2, <3>3
  <2> HIDE DEF G
  <2>5. \A i \in 0 .. n : i \in G
    BY <1>1, <2>3, <2>4, StepByStep
  <2>6. n \in 0 .. n
    BY <1>1
  <2> QED
    BY <1>3, <2>1, <2>5, <2>6 DEF G
<1> QED
  BY <1>2, <1>3

LEMMA CarriedTyped ==
  ASSUME at \in Block, NEW b \in Branch(at)
  PROVE  CarriedOff(b) \in Seq(Tx)
<1> DEFINE n == Height[at] - Height[b]
           s == [i \in 1 .. n |-> TxOf[Chain[at][Height[b] + i]]]
<1>1. n \in Nat /\ Height[b] \in Nat /\ Height[at] \in Nat
  BY BranchFacts, TreeShape DEF Heights
<1>2. ASSUME NEW i \in 1 .. n PROVE TxOf[Chain[at][Height[b] + i]] \in Seq(Tx)
  <2>1. Height[b] + i \in Heights /\ ~(Height[b] + i > Height[at])
    BY <1>1, TreeShape DEF Heights
  <2>2. Chain[at][Height[b] + i] \in Block
    BY <2>1, ChainFacts
  <2> QED
    BY <2>2, RelayShape
<1>3. s \in [1 .. n -> Seq(Tx)]
  BY <1>2
<1>4. s \in Seq(Seq(Tx))
  <2> HIDE DEF s, n
  <2> QED
    BY <1>1, <1>3
<1> HIDE DEF s
<1>5. FlattenSeq(s) \in Seq(Tx)
  BY <1>4, FlattenTyped
<1> QED
  BY <1>5 DEF CarriedOff, s

LEMMA ToSetBoth ==
  ASSUME NEW s \in Seq(Tx), NEW u \in Seq(Tx)
  PROVE  ToSet(s \o u) = ToSet(s) \cup ToSet(u)
<1>1. /\ s \o u \in Seq(Tx) /\ Len(s \o u) = Len(s) + Len(u)
      /\ \A i \in 1 .. Len(s) + Len(u) :
           (s \o u)[i] = IF i <= Len(s) THEN s[i] ELSE u[i - Len(s)]
  BY ConcatProperties
<1>2. /\ Len(s) \in Nat /\ DOMAIN s = 1 .. Len(s)
      /\ Len(u) \in Nat /\ DOMAIN u = 1 .. Len(u)
      /\ DOMAIN (s \o u) = 1 .. Len(s) + Len(u)
  BY <1>1, LenProperties
<1> DEFINE m == Len(s)
           k == Len(u)
           v == s \o u
<1>3. ASSUME NEW x \in ToSet(v) PROVE x \in ToSet(s) \cup ToSet(u)
  <2>1. PICK i \in 1 .. m + k : x = v[i]
    BY <1>2 DEF ToSet
  <2>2. CASE i <= m
    BY <1>1, <1>2, <2>1, <2>2 DEF ToSet
  <2>3. CASE ~(i <= m)
    <3>1. i - m \in 1 .. k /\ x = u[i - m]
      BY <1>1, <1>2, <2>1, <2>3
    <3> QED
      BY <1>2, <3>1 DEF ToSet
  <2> QED
    BY <2>2, <2>3
<1>4. ASSUME NEW x \in ToSet(s) PROVE x \in ToSet(v)
  <2>1. PICK i \in 1 .. m : x = s[i]
    BY <1>2 DEF ToSet
  <2>2. i \in 1 .. m + k /\ v[i] = x
    BY <1>1, <1>2, <2>1
  <2> QED
    BY <1>2, <2>2 DEF ToSet
<1>5. ASSUME NEW x \in ToSet(u) PROVE x \in ToSet(v)
  <2>1. PICK i \in 1 .. k : x = u[i]
    BY <1>2 DEF ToSet
  <2>2. m + i \in 1 .. m + k /\ ~(m + i <= m) /\ (m + i) - m = i
    BY <1>2, <2>1
  <2>3. v[m + i] = x
    BY <1>1, <2>1, <2>2
  <2> QED
    BY <1>2, <2>2, <2>3 DEF ToSet
<1> QED
  BY <1>3, <1>4, <1>5

(****************************** the invariant *******************************)
(* A final chunk that took nothing off has counted no Block twice, and what *)
(* left the Set meanwhile is what those Blocks spend.                       *)
Final == {"final", "between", "moved"}
Counts ==
  /\ phase \notin Final => counted = {}
  /\ phase \in {"rest", "fetch"} => built = Nothing
  /\ phase \in Final /\ built.dropped = 0 =>
       /\ built.blocks <= Height[at]
       /\ counted \subseteq UNION {SpentBy[Chain[at][n]] : n \in SweptHeights}

(* What a restore is due for is what the Catch-up carries to its end.       *)
GivenBack ==
  left = ToSet(aligned)
         \cup (IF phase = "interim" THEN {} ELSE ToSet(built.carried))

(* A rebuild is of a Block, from what a Peer may send.                      *)
Rebuilds ==
  /\ rebuilding \in Block \cup {None}
  /\ compact \in Compacts \cup {None}
  /\ placed \subseteq Block

IInv ==
  /\ TypeOK /\ pool \in TruePools
  /\ Counts /\ GivenBack
  /\ GoneIsOwed
  /\ Rebuilds

LEMMA InitHolds == RebuildInit => IInv
<1> SUFFICES ASSUME RebuildInit PROVE IInv
  OBVIOUS
<1> USE DEF RebuildInit, Init
<1>1. pool \in TruePools
  BY EmptyTrue DEF TruePools, PoolTrue
<1>2. TypeOK
  <2>1. Genesis \in Block /\ 0 \in Heights /\ 0 \in 0 .. MaxMoves
    BY TreeShape, RelayShape DEF Heights
  <2>2. pool \in Pools
    BY <1>1 DEF TruePools
  <2>3. Nothing \in [blocks : Nat, dropped : Nat, carried : Seq(Tx)]
    BY DEF Nothing
  <2>4. <<>> \in Seq(Tx)
    OBVIOUS
  <2> QED
    BY <2>1, <2>2, <2>3, <2>4 DEF TypeOK, Phases
<1>3. Counts
  BY DEF Counts, Final
<1>4. GivenBack
  BY DEF GivenBack, Nothing, ToSet
<1>5. GoneIsOwed
  BY DEF GoneIsOwed, Empty
<1>6. Rebuilds
  BY TreeShape DEF Rebuilds
<1> QED
  BY <1>1, <1>2, <1>3, <1>4, <1>5, <1>6 DEF IInv

(* A rebuild touches the Set, the Mempool and the Catch-up in no way but by *)
(* moving h:, and dying.                                                    *)
LEMMA NextIs ==
  ASSUME IInv, [Next]_allVars
  PROVE  \/ RelayNext
         \/ Restart
         \/ UNCHANGED vars
         \/ UNCHANGED <<at, pool, walk, ghosts>> /\ \E b \in Block : Moves(b)
<1>1. ASSUME NEW m \in Compacts, NEW s, Complete(m, s)
      PROVE  \/ UNCHANGED vars
             \/ UNCHANGED <<at, pool, walk, ghosts>> /\ \E b \in Block : Moves(b)
  <2>1. m.block \in Block
    BY CompactShape
  <2> QED
    BY <1>1, <2>1 DEF Complete, Store, FallBack, vars
<1>2. CASE Die
  BY <1>2 DEF Die
<1>3. ASSUME NEW b \in Block, Announced(b) \/ HearHeaders(b)
      PROVE  \/ UNCHANGED vars
             \/ UNCHANGED <<at, pool, walk, ghosts>> /\ \E c \in Block : Moves(c)
  BY <1>3 DEF Announced, HearHeaders
<1>4. ASSUME NEW m \in Compacts, HearCompact(m)
      PROVE  \/ UNCHANGED vars
             \/ UNCHANGED <<at, pool, walk, ghosts>> /\ \E b \in Block : Moves(b)
  BY <1>1, <1>4 DEF HearCompact
<1>5. ASSUME NEW s \in Answers, HearAnswer(s)
      PROVE  \/ UNCHANGED vars
             \/ UNCHANGED <<at, pool, walk, ghosts>> /\ \E b \in Block : Moves(b)
  BY <1>1, <1>5 DEF HearAnswer, IInv, Rebuilds
<1>6. CASE HearGarbage \/ Tick \/ Overdue
  BY <1>6 DEF HearGarbage, Tick, Overdue, FallBack, vars
<1>7. CASE RelayNext /\ UNCHANGED rebuildVars
  BY <1>7
<1>8. CASE UNCHANGED allVars
  BY <1>8 DEF allVars
<1> QED
  BY <1>2, <1>3, <1>4, <1>5, <1>6, <1>7, <1>8 DEF Next

(* What is rebuilt stays a Block, from what a Peer may send.                *)
LEMMA RebuildsStay ==
  ASSUME IInv, [Next]_allVars
  PROVE  Rebuilds'
<1> USE DEF IInv, Rebuilds
<1>1. ASSUME NEW m \in Compacts, NEW s, Complete(m, s)
      PROVE  Rebuilds'
  <2>1. CASE Store(m, s)
    <3>1. m.block \in Block
      BY CompactShape
    <3> QED
      BY <2>1, <3>1 DEF Store, GivenUp, Rebuilt
  <2>2. CASE FallBack
    BY <2>2 DEF FallBack, GivenUp
  <2> QED
    BY <1>1, <2>1, <2>2 DEF Complete
<1>2. CASE Die
  BY <1>2 DEF Die, GivenUp
<1>3. ASSUME NEW b \in Block, Announced(b) \/ HearHeaders(b)
      PROVE  Rebuilds'
  <2>1. Branch(b) \subseteq Block
    BY BranchFacts
  <2> QED
    BY <1>3, <2>1 DEF Announced, HearHeaders, pending
<1>4. ASSUME NEW m \in Compacts, HearCompact(m) PROVE Rebuilds'
  BY <1>1, <1>4 DEF HearCompact
<1>5. ASSUME NEW s \in Answers, HearAnswer(s) PROVE Rebuilds'
  BY <1>1, <1>5 DEF HearAnswer
<1>6. CASE HearGarbage \/ Tick \/ Overdue
  BY <1>6 DEF HearGarbage, Tick, Overdue, FallBack, GivenUp
<1>7. CASE UNCHANGED rebuildVars
  BY <1>7 DEF rebuildVars, pending
<1>8. CASE UNCHANGED allVars
  BY <1>7, <1>8 DEF allVars
<1> QED
  BY <1>2, <1>3, <1>4, <1>5, <1>6, <1>7, <1>8 DEF Next

(* The fork is on the Set's branch, so what comes off is counted in Nat.    *)
LEMMA OffTheSet ==
  ASSUME at \in Block, tip \in Block
  PROVE  /\ Fork \in Block /\ Height[at] - Height[Fork] \in Nat
         /\ Height[at] - Height[Fork] = 0 => Fork = at
         /\ CarriedOff(Fork) \in Seq(Tx)
<1>1. Fork \in Block /\ Fork \in Branch(at)
  BY ForkIs
<1>2. /\ Height[Fork] <= Height[at]
      /\ Height[Fork] = Height[at] => Fork = at
  BY <1>1, BranchFacts
<1>3. Height[Fork] \in Nat /\ Height[at] \in Nat
  BY <1>1, TreeShape DEF Heights
<1>4. CarriedOff(Fork) \in Seq(Tx)
  BY <1>1, CarriedTyped
<1> QED
  BY <1>1, <1>2, <1>3, <1>4

LEMMA SettlementTrue ==
  ASSUME TypeOK, pool \in TruePools
  PROVE  /\ Swept(pool) \in TruePools
         /\ Swept(pool).held \subseteq pool.held
         /\ Settlement \in TruePools
         /\ \A t \in Settlement.held :
              t \in Swept(pool).held \/ Inputs[t] \subseteq Unspent[at]
<1>1. PoolTrue(pool) /\ Fits(pool)
  BY DEF TruePools
<1>2. ASSUME NEW gone \in SUBSET pool.held
      PROVE  Confirmed(pool, gone) \in TruePools
             /\ Confirmed(pool, gone).held \subseteq pool.held
  BY <1>1, ConfirmedTrue DEF TruePools, PoolTrue
<1> DEFINE S == UNION {SpentBy[Chain[tip][n]] : n \in SweptHeights}
<1>3. AskTheBlocks => TakenBy(pool, S) \in SUBSET pool.held
  <2> SUFFICES ASSUME AskTheBlocks PROVE TakenBy(pool, S) \in SUBSET pool.held
    OBVIOUS
  <2>1. ASSUME NEW n \in SweptHeights PROVE SpentBy[Chain[tip][n]] \subseteq Coin
    <3>1. Chain[tip][n] \in Block
      BY BranchFacts DEF AskTheBlocks, UndoHeld, TypeOK
    <3> QED
      BY <3>1, SpentAreCoins
  <2>2. S \in SUBSET Coin
    BY <2>1
  <2> QED
    BY <1>1, <2>2, TakenAreHeld
<1>4. Unbacked(pool, Unspent[at]) \in SUBSET pool.held
  BY DEF Unbacked
<1>5. Swept(pool) \in TruePools /\ Swept(pool).held \subseteq pool.held
  <2> HIDE DEF S
  <2> QED
    BY <1>2, <1>3, <1>4 DEF Swept, S
<1>6. aligned \in Seq(Tx) /\ built.carried \in Seq(Tx)
  BY DEF TypeOK
<1>7. /\ Restored(Swept(pool)) \in TruePools
      /\ \A t \in Restored(Swept(pool)).held :
           t \in Swept(pool).held \/ Inputs[t] \subseteq Unspent[at]
  BY <1>5, <1>6, RestoredBacked
<1> QED
  BY <1>5, <1>7 DEF Settlement

(* Every step keeps the types, and the Mempool true and within its limit.   *)
LEMMA TypesStay ==
  ASSUME IInv, [Next]_allVars
  PROVE  TypeOK' /\ pool' \in TruePools
<1>1. TypeOK /\ pool \in TruePools
  BY DEF IInv
<1> USE DEF TypeOK
<1>2. SUFFICES pool' \in TruePools /\ (pool \in Pools => TypeOK')
  BY <1>1 DEF TruePools
<1>3. Nothing \in [blocks : Nat, dropped : Nat, carried : Seq(Tx)]
      /\ <<>> \in Seq(Tx) /\ 0 \in Heights /\ {} \subseteq Coin /\ {} \subseteq Tx
  BY TreeShape DEF Nothing, Heights
<1>4. \A b, c \in Block : Unspent[b] \ Unspent[c] \subseteq Coin
  BY DEF Unspent
<1>5. \A s \in Seq(Tx) : ToSet(s) \subseteq Tx
  BY DEF ToSet
<1>6. \A b \in Block : Height[b] \in Heights /\ Height[b] \in Nat
  BY TreeShape DEF Heights
<1>7. /\ Fork \in Block /\ Height[at] - Height[Fork] \in Nat
      /\ CarriedOff(Fork) \in Seq(Tx)
  BY <1>1, OffTheSet
<1>8. LostBy(Fork) \subseteq Coin /\ ToSet(CarriedOff(Fork)) \subseteq Tx
  BY <1>1, <1>4, <1>5, <1>7 DEF LostBy
<1>9. CASE UNCHANGED vars
  BY <1>1, <1>9 DEF vars, index, walk, ghosts
<1>10. ASSUME NEW t \in Tx, Hear(t) PROVE pool' \in TruePools /\ TypeOK'
  <2>1. pool' \in TruePools
    BY <1>1, <1>10, TrueOffered DEF Hear
  <2>2. pool' \in Pools
    BY <2>1 DEF TruePools
  <2> QED
    BY <1>1, <1>10, <2>1, <2>2 DEF Hear, index, walk, ghosts
<1>11. ASSUME UNCHANGED <<at, pool, walk, ghosts>>, NEW b \in Block, Moves(b)
       PROVE  pool' \in TruePools /\ (pool \in Pools => TypeOK')
  <2>1. moves' \in 0 .. MaxMoves
    BY <1>1, <1>11, RelayShape DEF Moves
  <2> QED
    BY <1>1, <1>11, <2>1 DEF Moves, walk, ghosts
<1>12. CASE Align
  BY <1>1, <1>3, <1>6, <1>7, <1>8, <1>12 DEF Align, Phases, index
<1>13. CASE BeginInterim
  BY <1>1, <1>7, <1>8, <1>13 DEF BeginInterim, Phases, index
<1>14. CASE BeginFinal
  <2>1. built' \in [blocks : Nat, dropped : Nat, carried : Seq(Tx)]
    <3>1. /\ built.blocks \in Nat /\ built.dropped \in Nat
          /\ built.carried \in Seq(Tx)
      BY <1>1
    <3>2. built.carried \o CarriedOff(Fork) \in Seq(Tx)
      BY <1>7, <3>1, ConcatProperties
    <3>3. built.dropped + Height[at] - Height[Fork] \in Nat
      BY <1>1, <1>6, <1>7, <3>1
    <3> QED
      BY <1>14, <3>1, <3>2, <3>3 DEF BeginFinal
  <2> QED
    BY <1>1, <1>7, <1>8, <1>14, <2>1 DEF BeginFinal, Phases, index
<1>15. ASSUME NEW b \in Block, Flush(b)
       PROVE  pool' \in TruePools /\ (pool \in Pools => TypeOK')
  <2>1. LostBy(b) \subseteq Coin
    BY <1>1, <1>4 DEF LostBy
  <2>2. Height[b] - Height[at] \in Nat
    <3>1. Height[at] <= Height[b]
      BY <1>15, BranchFacts DEF Flush
    <3> QED
      BY <1>1, <1>6, <3>1
  <2>3. built' \in [blocks : Nat, dropped : Nat, carried : Seq(Tx)]
    <3>1. built.blocks + Height[b] - Height[at] \in Nat
      BY <1>1, <1>6, <2>2
    <3> QED
      BY <1>1, <1>15, <3>1 DEF Flush
  <2> QED
    BY <1>1, <1>15, <2>1, <2>3 DEF Flush, index
<1>16. CASE EndChunk
  BY <1>1, <1>3, <1>16 DEF EndChunk, Phases, index, ghosts
<1>17. ASSUME NEW b \in Block, RefuseInterim(b) \/ Fail(b)
       PROVE  pool' \in TruePools /\ (pool \in Pools => TypeOK')
  <2>1. LostBy(b) \subseteq Coin
    BY <1>1, <1>4 DEF LostBy
  <2> QED
    BY <1>1, <1>3, <1>17, <2>1
    DEF RefuseInterim, Fail, Torn, Abandoned, Phases, index, walk
<1>18. CASE Finish
  <2>1. pool' \in TruePools
    BY <1>1, <1>18, SettlementTrue DEF Finish
  <2>2. pool' \in Pools
    BY <2>1 DEF TruePools
  <2> QED
    BY <1>1, <1>3, <1>18, <2>1, <2>2 DEF Finish, Abandoned, Phases, index
<1>19. CASE Restart
  <2>1. pool' \in TruePools
    BY <1>19, EmptyTrue DEF Restart, TruePools, PoolTrue
  <2>2. pool' \in Pools
    BY <2>1 DEF TruePools
  <2> QED
    BY <1>1, <1>3, <1>19, <2>1, <2>2 DEF Restart, Abandoned, Phases, index
<1>20. CASE RelayNext
  <2> HIDE DEF TypeOK
  <2> QED
    BY <1>10, <1>12, <1>13, <1>14, <1>15, <1>16, <1>17, <1>18, <1>20 DEF RelayNext
<1> HIDE DEF TypeOK
<1> QED
  BY <1>9, <1>11, <1>19, <1>20, NextIs

(* While nothing was taken off, the final chunks' Blocks lie in one row     *)
(* below where the Set stands: a chunk goes on from where the last ended.   *)
LEMMA CountsStay ==
  ASSUME IInv, [Next]_allVars
  PROVE  Counts'
<1>1. TypeOK /\ Counts
  BY DEF IInv
<1>2. /\ at \in Block /\ tip \in Block
      /\ built \in [blocks : Nat, dropped : Nat, carried : Seq(Tx)]
  BY <1>1 DEF TypeOK
<1>3. \A b \in Block : Height[b] \in Nat
  BY TreeShape DEF Heights
<1>4. ASSUME UNCHANGED <<at, walk, ghosts>> PROVE Counts'
  BY <1>1, <1>4 DEF Counts, SweptHeights, walk, ghosts
<1>5. ASSUME counted' = {}, built' = Nothing, phase' \notin Final PROVE Counts'
  BY <1>5 DEF Counts
<1>6. CASE Align
  <2>1. counted = {}
    BY <1>1, <1>6 DEF Align, Counts, Final
  <2> QED
    BY <1>6, <2>1, <1>5 DEF Align, Final
<1>7. CASE BeginInterim
  <2>1. counted = {}
    BY <1>1, <1>7 DEF BeginInterim, Counts, Final
  <2> QED
    BY <1>7, <2>1 DEF BeginInterim, Counts, Final
<1>8. CASE BeginFinal
  <2>1. phase' = "final" /\ at' = Fork /\ built'.blocks = built.blocks
        /\ built'.dropped = built.dropped + Height[at] - Height[Fork]
        /\ counted' = counted \cup LostBy(Fork)
    BY <1>8 DEF BeginFinal
  <2> SUFFICES ASSUME built'.dropped = 0
               PROVE  /\ built'.blocks <= Height[at']
                      /\ counted' \subseteq
                           UNION {SpentBy[Chain[at'][n]] : n \in SweptHeights'}
    BY <2>1 DEF Counts, Final
  <2>2. built.dropped = 0 /\ Fork = at
    <3>1. built.dropped \in Nat /\ Height[at] - Height[Fork] \in Nat
      BY <1>2, OffTheSet
    <3>2. Height[at] \in Nat /\ Height[Fork] \in Nat
      BY <1>2, <1>3, OffTheSet
    <3>3. built.dropped = 0 /\ Height[at] - Height[Fork] = 0
      BY <2>1, <3>1, <3>2
    <3> QED
      BY <1>2, <3>3, OffTheSet
  <2>3. counted' = counted /\ at' = at /\ SweptHeights' = SweptHeights
    BY <2>1, <2>2 DEF LostBy, SweptHeights
  <2>4. CASE phase = "between"
    BY <1>1, <2>1, <2>2, <2>3, <2>4 DEF Counts, Final
  <2>5. CASE phase = "fetch"
    <3>1. counted = {} /\ built = Nothing
      BY <1>1, <2>5 DEF Counts, Final
    <3> QED
      BY <1>2, <1>3, <2>1, <2>3, <3>1 DEF Nothing
  <2> QED
    BY <1>8, <2>4, <2>5 DEF BeginFinal
<1>9. ASSUME NEW b \in Block, Flush(b) PROVE Counts'
  <2>1. CASE phase = "interim"
    BY <1>1, <1>9, <2>1 DEF Flush, Counts, Final
  <2>2. CASE phase = "final"
    <3>1. phase' = "final" /\ at' = b /\ at \in Branch(b)
          /\ counted' = counted \cup LostBy(b)
          /\ built'.dropped = built.dropped
          /\ built'.blocks = built.blocks + Height[b] - Height[at]
      BY <1>2, <1>9, <2>2 DEF Flush
    <3> SUFFICES ASSUME built.dropped = 0
                 PROVE  /\ built'.blocks <= Height[b]
                        /\ counted' \subseteq
                             UNION {SpentBy[Chain[b][n]] : n \in SweptHeights'}
      BY <3>1 DEF Counts, Final
    <3>2. built.blocks <= Height[at]
          /\ counted \subseteq UNION {SpentBy[Chain[at][n]] : n \in SweptHeights}
      BY <1>1, <2>2 DEF Counts, Final
    <3>3. /\ Height[at] \in Nat /\ Height[b] \in Nat /\ built.blocks \in Nat
          /\ Height[at] <= Height[b]
      BY <1>2, <1>3, <3>1, BranchFacts
    <3>4. SweptHeights = Height[at] - built.blocks + 1 .. Height[at]
          /\ SweptHeights' = Height[at] - built.blocks + 1 .. Height[b]
      BY <3>1, <3>3 DEF SweptHeights
    <3>5. ASSUME NEW n \in SweptHeights
          PROVE  n \in SweptHeights' /\ Chain[b][n] = Chain[at][n]
      <4>1. n \in 0 .. Height[at] /\ n \in SweptHeights'
        BY <3>2, <3>3, <3>4
      <4>2. Chain[b][Height[at]] = at /\ Height[at] \in Heights /\ at # None
        BY <1>2, <3>1, BranchFacts, TreeShape
      <4> QED
        BY <1>2, <4>1, <4>2, ChainFacts
    <3>6. counted \subseteq UNION {SpentBy[Chain[b][n]] : n \in SweptHeights'}
      <4>1. ASSUME NEW c \in counted
            PROVE  \E n \in SweptHeights' : c \in SpentBy[Chain[b][n]]
        <5>1. PICK n \in SweptHeights : c \in SpentBy[Chain[at][n]]
          BY <3>2
        <5> QED
          BY <3>5, <5>1
      <4> QED
        BY <4>1
    <3>7. LostBy(b) \subseteq UNION {SpentBy[Chain[b][n]] : n \in SweptHeights'}
      <4>1. LostBy(b) \subseteq
              UNION {SpentBy[Chain[b][n]] : n \in Height[at] + 1 .. Height[b]}
        BY <1>2, <3>1, GoneBySpending DEF LostBy
      <4>2. Height[at] + 1 .. Height[b] \subseteq SweptHeights'
        BY <3>2, <3>3, <3>4
      <4> QED
        BY <4>1, <4>2
    <3>8. built'.blocks <= Height[b]
      BY <3>1, <3>2, <3>3
    <3> QED
      BY <3>1, <3>6, <3>7, <3>8
  <2> QED
    BY <1>9, <2>1, <2>2 DEF Flush, InChunk
<1>10. CASE EndChunk
  <2>1. CASE phase = "interim"
    <3>1. counted = {}
      BY <1>1, <2>1 DEF Counts, Final
    <3> QED
      BY <1>5, <1>10, <2>1, <3>1 DEF EndChunk, Final, ghosts
  <2>2. CASE phase = "final"
    <3>1. phase' \in Final /\ phase' \notin {"rest", "fetch"}
      BY <1>10, <2>2 DEF EndChunk, Final
    <3> QED
      BY <1>1, <1>10, <2>2, <3>1 DEF EndChunk, ghosts, Counts, Final, SweptHeights
  <2> QED
    BY <1>10, <2>1, <2>2 DEF EndChunk, InChunk
<1>11. ASSUME NEW b \in Block, RefuseInterim(b) PROVE Counts'
  BY <1>1, <1>11 DEF RefuseInterim, Counts, Final, walk
<1>12. ASSUME Abandoned PROVE Counts'
  BY <1>5, <1>12 DEF Abandoned, Final
<1>13. ASSUME NEW t \in Tx, Hear(t) PROVE Counts'
  BY <1>4, <1>13 DEF Hear
<1>14. CASE RelayNext
  BY <1>6, <1>7, <1>8, <1>9, <1>10, <1>11, <1>12, <1>13, <1>14
  DEF RelayNext, Fail, Finish
<1>15. CASE Restart
  BY <1>12, <1>15 DEF Restart
<1>16. CASE UNCHANGED vars
  BY <1>4, <1>16 DEF vars
<1> QED
  BY <1>4, <1>14, <1>15, <1>16, NextIs

LEMMA GivenBackStays ==
  ASSUME IInv, [Next]_allVars
  PROVE  GivenBack'
<1>1. TypeOK /\ Counts /\ GivenBack
  BY DEF IInv
<1>2. at \in Block /\ tip \in Block /\ built.carried \in Seq(Tx)
  BY <1>1 DEF TypeOK
<1>3. ToSet(<<>>) = {} /\ Nothing.carried = <<>>
  BY DEF ToSet, Nothing
<1>4. ASSUME UNCHANGED <<walk, ghosts>> PROVE GivenBack'
  BY <1>1, <1>4 DEF GivenBack, walk, ghosts
<1>5. CASE Align
  BY <1>3, <1>5 DEF Align, GivenBack
<1>6. CASE BeginInterim
  <2>1. left = ToSet(aligned)
    BY <1>1, <1>3, <1>6 DEF BeginInterim, Counts, GivenBack
  <2> QED
    BY <1>6, <2>1 DEF BeginInterim, GivenBack
<1>7. CASE BeginFinal
  <2>1. left = ToSet(aligned) \cup ToSet(built.carried)
    BY <1>1, <1>7 DEF BeginFinal, GivenBack
  <2>2. built'.carried = built.carried \o CarriedOff(Fork)
        /\ left' = left \cup ToSet(CarriedOff(Fork))
        /\ phase' = "final" /\ aligned' = aligned
    BY <1>7 DEF BeginFinal
  <2>3. CarriedOff(Fork) \in Seq(Tx)
    BY <1>2, OffTheSet
  <2>4. ToSet(built'.carried) = ToSet(built.carried) \cup ToSet(CarriedOff(Fork))
    BY <1>2, <2>2, <2>3, ToSetBoth
  <2> QED
    BY <2>1, <2>2, <2>4 DEF GivenBack
<1>8. ASSUME NEW b \in Block, Flush(b) PROVE GivenBack'
  <2>1. built'.carried = built.carried
    BY <1>1, <1>8 DEF Flush, TypeOK
  <2> QED
    BY <1>1, <1>8, <2>1 DEF Flush, GivenBack
<1>9. CASE EndChunk
  BY <1>1, <1>3, <1>9 DEF EndChunk, InChunk, GivenBack, ghosts
<1>10. ASSUME NEW b \in Block, RefuseInterim(b) PROVE GivenBack'
  BY <1>1, <1>10 DEF RefuseInterim, GivenBack, walk
<1>11. ASSUME Abandoned PROVE GivenBack'
  BY <1>3, <1>11 DEF Abandoned, GivenBack
<1>12. ASSUME NEW t \in Tx, Hear(t) PROVE GivenBack'
  BY <1>4, <1>12 DEF Hear
<1>13. CASE RelayNext
  BY <1>5, <1>6, <1>7, <1>8, <1>9, <1>10, <1>11, <1>12, <1>13
  DEF RelayNext, Fail, Finish
<1>14. CASE Restart
  BY <1>11, <1>14 DEF Restart
<1>15. CASE UNCHANGED vars
  BY <1>4, <1>15 DEF vars
<1> QED
  BY <1>4, <1>13, <1>14, <1>15, NextIs

(* What the sweep leaves held misses nothing but what nobody counted: who   *)
(* claims an Output the Blocks asked spend leaves, and where nothing was    *)
(* taken off those Blocks are every Block counted.                          *)
LEMMA SweptOwes ==
  ASSUME IInv, phase = "moved"
  PROVE  \A t \in Swept(pool).held :
           Inputs[t] \ Unspent[at] \subseteq
             (IF built.blocks + built.dropped > 0 /\ ~AskTheBlocks
              THEN {} ELSE owed \ counted)
<1>1. TypeOK /\ Counts /\ GoneIsOwed /\ PoolTrue(pool)
  BY DEF IInv, TruePools
<1>2. /\ at \in Block /\ tip \in Block
      /\ built.blocks \in Nat /\ built.dropped \in Nat
  BY <1>1 DEF TypeOK
<1>3. Height[at] \in Nat /\ \A n \in 0 .. Height[at] : n \in Heights
  BY <1>2, TreeShape DEF Heights
<1>4. built.dropped = 0 =>
        /\ built.blocks <= Height[at]
        /\ counted \subseteq UNION {SpentBy[Chain[at][n]] : n \in SweptHeights}
  BY <1>1 DEF Counts, Final
<1>5. pool.held = {} => Swept(pool) = pool
  BY DEF Swept
<1>6. CASE built.blocks + built.dropped = 0
  <2>1. built.blocks = 0 /\ built.dropped = 0
    BY <1>2, <1>6
  <2>2. SweptHeights = {}
    BY <1>3, <2>1 DEF SweptHeights
  <2>3. counted = {} /\ Swept(pool) = pool
    BY <1>4, <1>6, <2>1, <2>2 DEF Swept
  <2> QED
    BY <1>1, <1>6, <2>3 DEF GoneIsOwed
<1>7. CASE built.blocks + built.dropped # 0 /\ pool.held # {} /\ AskTheBlocks
  <2> DEFINE S == UNION {SpentBy[Chain[tip][n]] : n \in SweptHeights}
  <2>1. built.dropped = 0 /\ \A n \in SweptHeights : UndoHeld(n)
    BY <1>7 DEF AskTheBlocks
  <2>2. ASSUME NEW n \in SweptHeights
        PROVE  Chain[tip][n] = Chain[at][n] /\ Chain[at][n] \in Block
    <3>1. n \in 0 .. Height[at]
      BY <1>2, <1>3, <1>4, <2>1 DEF SweptHeights
    <3>2. Chain[tip][n] \in Branch(at) /\ n <= Height[tip] /\ n \in Heights
      BY <1>3, <2>1, <3>1 DEF UndoHeld
    <3>3. Chain[tip][n] \in Block /\ Chain[at][Height[Chain[tip][n]]] = Chain[tip][n]
      BY <1>2, <3>2, BranchFacts
    <3>4. Height[Chain[tip][n]] = n
      <4>1. Chain[tip][n] # None
        BY <3>3, TreeShape
      <4> QED
        BY <1>2, <3>2, <4>1, ChainFacts
    <3> QED
      BY <3>3, <3>4
  <2>3. counted \subseteq S /\ S \in SUBSET Coin
    <3>1. S = UNION {SpentBy[Chain[at][n]] : n \in SweptHeights}
      BY <2>2
    <3>2. \A n \in SweptHeights : SpentBy[Chain[at][n]] \subseteq Coin
      BY <2>2, SpentAreCoins
    <3> QED
      BY <1>4, <2>1, <3>1, <3>2
  <2> DEFINE taken == TakenBy(pool, S)
  <2>4. taken \in SUBSET pool.held
        /\ \A t \in pool.held : Inputs[t] \cap S # {} => t \in taken
    <3> HIDE DEF S
    <3> QED
      BY <1>1, <2>3, TakenAreHeld
  <2>5. Swept(pool).held = pool.held \ taken
    <3>1. Swept(pool) = Confirmed(pool, taken)
      BY <1>7 DEF Swept
    <3> HIDE DEF taken
    <3> QED
      BY <1>1, <2>4, <3>1, ConfirmedTrue
  <2> HIDE DEF S, taken
  <2>6. ASSUME NEW t \in pool.held, t \notin taken
        PROVE  Inputs[t] \ Unspent[at] \subseteq owed \ counted
    <3>1. Inputs[t] \cap S = {}
      BY <2>4, <2>6
    <3> QED
      BY <1>1, <2>3, <3>1 DEF GoneIsOwed
  <2> QED
    BY <1>7, <2>5, <2>6
<1>8. CASE built.blocks + built.dropped # 0 /\ pool.held # {} /\ ~AskTheBlocks
  <2> DEFINE gone == Unbacked(pool, Unspent[at])
  <2>1. Swept(pool) = Confirmed(pool, gone)
    BY <1>8 DEF Swept
  <2>2. gone \in SUBSET pool.held
    BY DEF Unbacked
  <2>3. Swept(pool).held = pool.held \ gone
    <3> HIDE DEF gone
    <3> QED
      BY <1>1, <2>1, <2>2, ConfirmedTrue
  <2>4. \A t \in pool.held \ gone : Inputs[t] \subseteq Unspent[at]
    BY DEF Unbacked
  <2> HIDE DEF gone
  <2> QED
    BY <2>3, <2>4
<1>9. CASE pool.held = {}
  BY <1>5, <1>9
<1> QED
  BY <1>6, <1>7, <1>8, <1>9

LEMMA OwedStays ==
  ASSUME IInv, [Next]_allVars
  PROVE  GoneIsOwed'
<1>1. TypeOK /\ GoneIsOwed /\ pool \in TruePools
  BY DEF IInv
<1>2. PoolTrue(pool) /\ Fits(pool)
  BY <1>1 DEF TruePools
<1>3. ASSUME UNCHANGED <<at, pool, owed, counted>> PROVE GoneIsOwed'
  BY <1>1, <1>3 DEF GoneIsOwed
<1>4. ASSUME NEW b, at' = b, pool' = pool,
             owed' \cup counted' = owed \cup counted \cup LostBy(b)
      PROVE  GoneIsOwed'
  BY <1>1, <1>4 DEF GoneIsOwed, LostBy
<1>5. ASSUME NEW t \in Tx, Hear(t) PROVE GoneIsOwed'
  <2>1. /\ pool' = Offered(pool, t, Spendable(Height[tip]))
        /\ at' = at /\ owed' = owed /\ counted' = counted
    BY <1>5 DEF Hear, ghosts
  <2>2. \A u \in pool'.held : u \in pool.held \/ Inputs[u] \subseteq Unspent[at]
    BY <1>2, <2>1, OfferedTrue, SpendableHeld
  <2> QED
    BY <1>1, <2>1, <2>2 DEF GoneIsOwed
<1>6. CASE Align
  BY <1>4, <1>6 DEF Align
<1>7. CASE BeginInterim
  BY <1>4, <1>7 DEF BeginInterim
<1>8. CASE BeginFinal
  BY <1>4, <1>8 DEF BeginFinal
<1>9. ASSUME NEW b \in Block, Flush(b) PROVE GoneIsOwed'
  BY <1>4, <1>9 DEF Flush
<1>10. CASE EndChunk
  BY <1>3, <1>10 DEF EndChunk, ghosts
<1>11. ASSUME NEW b \in Block, RefuseInterim(b) \/ Fail(b) PROVE GoneIsOwed'
  BY <1>4, <1>11 DEF RefuseInterim, Fail, Torn, Abandoned
<1>12. CASE Finish
  <2>1. /\ phase = "moved" /\ at' = at /\ pool' = Settlement
        /\ owed' = IF built.blocks + built.dropped > 0 /\ ~AskTheBlocks
                   THEN {} ELSE owed \ counted
    BY <1>12 DEF Finish
  <2>2. \A t \in Swept(pool).held : Inputs[t] \ Unspent[at] \subseteq owed'
    BY <2>1, SweptOwes
  <2>3. \A t \in pool'.held : t \in Swept(pool).held \/ Inputs[t] \subseteq Unspent[at]
    BY <1>1, <2>1, SettlementTrue
  <2> QED
    BY <2>1, <2>2, <2>3 DEF GoneIsOwed
<1>13. CASE RelayNext
  BY <1>5, <1>6, <1>7, <1>8, <1>9, <1>10, <1>11, <1>12, <1>13 DEF RelayNext
<1>14. CASE Restart
  BY <1>14 DEF Restart, GoneIsOwed, Empty
<1>15. CASE UNCHANGED vars
  BY <1>3, <1>15 DEF vars, ghosts
<1>16. CASE UNCHANGED <<at, pool, walk, ghosts>>
  BY <1>3, <1>16 DEF ghosts
<1> QED
  BY <1>13, <1>14, <1>15, <1>16, NextIs

(********************************* theorems *********************************)
LEMMA InvStays == IInv /\ [Next]_allVars => IInv'
<1> SUFFICES ASSUME IInv, [Next]_allVars PROVE IInv'
  OBVIOUS
<1> QED
  BY TypesStay, CountsStay, GivenBackStays, OwedStays, RebuildsStay DEF IInv

(* Whatever is heard, moved, rebuilt or lost, the invariant holds.           *)
THEOREM InvHolds == Spec => []IInv
<1> QED
  BY InitHolds, InvStays, PTL DEF Spec

(* Types hold throughout, the sets of Outputs that stand for no code state  *)
(* among them.                                                              *)
THEOREM RelayTypeCorrect == Spec => []TypeOK
<1>1. IInv => TypeOK
  BY DEF IInv
<1> QED
  BY <1>1, InvHolds, PTL

(* The claims index exactly what is held, the bytes are its size, and it    *)
(* fits, whatever is heard, swept, evicted or given back (Domain.Mempool).  *)
THEOREM MempoolIsTrue == Spec => []PoolIsTrue
<1>1. IInv => PoolIsTrue
  BY DEF IInv, TruePools, PoolTrue, PoolIsTrue
<1> QED
  BY <1>1, InvHolds, PTL

(* A held Transaction misses only what nobody counted or is still to sweep. *)
THEOREM NothingGoneUnowed == Spec => []GoneIsOwed
<1>1. IInv => GoneIsOwed
  BY DEF IInv
<1> QED
  BY <1>1, InvHolds, PTL

(* Whoever leaves to make room pays no more than whoever stays.             *)
THEOREM CheapestLeaveFirst == Spec => EvictedPayLeast
<1>1. ASSUME IInv, NEW n \in Tx, Hear(n), NEW t \in pool.held \ pool'.held,
             NEW u \in pool'.held
      PROVE  Rate[t] <= Rate[u]
  <2>1. PoolTrue(pool) /\ pool' = Offered(pool, n, Spendable(Height[tip]))
    BY <1>1 DEF IInv, TruePools, Hear
  <2>2. Admits(pool, n, Spendable(Height[tip])) /\ pool' = Settled(pool, n)
    BY <1>1, <2>1 DEF Offered
  <2>3. n \in Tx \ pool.held /\ ~Conflicts(pool, n)
    BY <2>2 DEF Admits
  <2> DEFINE q == Lodged(pool, n)
  <2>4. PoolTrue(q) /\ pool'.held = q.held \ Overflow(q) /\ t \in q.held
    BY <2>1, <2>2, <2>3, LodgedTrue, SettledTrue DEF Lodged
  <2> HIDE DEF q
  <2> QED
    BY <2>4, LeaversPayLeast
<1>2. IInv => [(\E t \in Tx : Hear(t)) =>
                 \A t \in pool.held \ pool'.held, u \in pool'.held :
                   Rate[t] <= Rate[u]]_vars
  BY <1>1
<1> QED
  BY <1>2, InvHolds, PTL DEF EvictedPayLeast

(* With room for both nobody leaves, and the newcomer is refused only for   *)
(* what he is, for what the Set does not back yet, or for a claim.          *)
Answered(p, t) ==
  \/ t \notin Standard
  \/ t \in p.held
  \/ ~(Inputs[t] \subseteq Spendable(goal))
  \/ Conflicts(p, t)

LEMMA OfferedWithRoom ==
  ASSUME NEW p \in TruePools, NEW t \in Tx, SizeOf(p.held \cup {t}) <= Cap
  PROVE  LET r == Offered(p, t, Spendable(goal))
         IN  p.held \subseteq r.held /\ r.held \subseteq p.held \cup {t}
             /\ Answered(r, t)
<1> DEFINE coins == Spendable(goal)
           r == Offered(p, t, coins)
           q == Lodged(p, t)
<1>1. PoolTrue(p) /\ p.held \in SUBSET Tx /\ Cap \in Nat /\ Size[t] \in Nat
  BY PoolParts, TxShape DEF TruePools
<1>2. CASE ~Admits(p, t, coins)
  <2>1. r = p
    BY <1>2 DEF Offered
  <2>2. ASSUME t \in Standard, t \notin p.held, Inputs[t] \subseteq coins
        PROVE  Conflicts(p, t)
    <3> SUFFICES ASSUME ~Conflicts(p, t) PROVE FALSE
      OBVIOUS
    <3>1. q.bytes = p.bytes + Size[t] /\ q.held = p.held \cup {t}
      BY DEF Lodged
    <3>2. PoolTrue(q)
      BY <1>1, <2>2, LodgedTrue
    <3>3. q.bytes = SizeOf(p.held \cup {t}) /\ q.bytes \in Nat /\ q.bytes <= Cap
      BY <3>1, <3>2, PoolParts DEF PoolTrue, Weighed
    <3>4. Overflow(q) = {}
      <4>1. ASSUME NEW u \in q.held
            PROVE  ~(q.bytes - SizeOf({v \in q.held : Cheaper(v, u)}) > Cap)
        <5>1. {v \in q.held : Cheaper(v, u)} \in SUBSET Tx
          BY <1>1, <3>1
        <5>2. SizeOf({v \in q.held : Cheaper(v, u)}) \in Nat
          BY <5>1, SizeIsSum
        <5> HIDE DEF q
        <5> QED
          BY <1>1, <3>3, <5>2
      <4> HIDE DEF q
      <4> QED
        BY <4>1 DEF Overflow
    <3>5. t \in Settled(p, t).held
      <4>1. Settled(p, t).held = q.held \ Overflow(q)
        BY DEF Settled, Without
      <4> HIDE DEF q
      <4> QED
        BY <3>1, <3>4, <4>1
    <3>6. ~TooCheap(p, t)
      <4> HIDE DEF q
      <4> QED
        BY <1>1, <3>1, <3>3 DEF TooCheap
    <3> QED
      BY <1>2, <2>2, <3>5, <3>6 DEF Admits
  <2> QED
    BY <2>1, <2>2 DEF Answered
<1>3. CASE Admits(p, t, coins)
  <2>1. t \in Tx \ p.held /\ ~Conflicts(p, t) /\ r = Settled(p, t) /\ t \in r.held
    BY <1>3 DEF Admits, Offered
  <2>2. r.held = (p.held \cup {t}) \ Overflow(q)
    <3>1. Settled(p, t).held = q.held \ Overflow(q)
      BY DEF Settled, Without
    <3>2. q.held = p.held \cup {t}
      BY DEF Lodged
    <3> HIDE DEF q, r
    <3> QED
      BY <2>1, <3>1, <3>2
  <2>3. Overflow(q) = {}
    <3>1. PoolTrue(q) /\ q.held = p.held \cup {t}
      BY <1>1, <2>1, LodgedTrue DEF Lodged
    <3>2. q.bytes \in Nat /\ q.bytes <= Cap
      BY <3>1, PoolParts DEF PoolTrue, Weighed
    <3>3. ASSUME NEW u \in q.held
          PROVE  ~(q.bytes - SizeOf({v \in q.held : Cheaper(v, u)}) > Cap)
      <4>1. {v \in q.held : Cheaper(v, u)} \in SUBSET Tx
        BY <1>1, <3>1
      <4>2. SizeOf({v \in q.held : Cheaper(v, u)}) \in Nat
        BY <4>1, SizeIsSum
      <4> HIDE DEF q
      <4> QED
        BY <1>1, <3>2, <4>2
    <3> HIDE DEF q
    <3> QED
      BY <3>3 DEF Overflow
  <2> HIDE DEF q, r
  <2>4. r.held = p.held \cup {t}
    BY <2>2, <2>3
  <2> QED
    BY <2>1, <2>4 DEF Answered, r
<1> QED
  BY <1>2, <1>3

(* A refusal for a claim outlives every later offer that evicts nobody.     *)
LEMMA SettledLasts ==
  ASSUME NEW p \in TruePools, NEW r \in TruePools, p.held \subseteq r.held,
         NEW t \in Tx, Answered(p, t)
  PROVE  Answered(r, t)
<1>1. PoolTrue(p) /\ PoolTrue(r)
  BY DEF TruePools
<1>2. ASSUME Conflicts(p, t) PROVE Conflicts(r, t)
  <2>1. PICK c \in Inputs[t] : p.claims[c] # NoTx
    BY <1>2 DEF Conflicts
  <2>2. c \in Coin
    BY TxShape
  <2>3. p.claims[c] \in Tx
    BY <1>1, <2>1, <2>2, PoolParts
  <2>4. p.claims[c] \in p.held /\ c \in Inputs[p.claims[c]]
    BY <1>1, <2>2, <2>3 DEF PoolTrue, Indexed
  <2>5. r.claims[c] = p.claims[c]
    BY <1>1, <2>2, <2>3, <2>4 DEF PoolTrue, Indexed
  <2> QED
    BY <2>1, <2>5 DEF Conflicts
<1> QED
  BY <1>2 DEF Answered

(* With room for all, everything offered back in turn ends held or refused  *)
(* for good.                                                                *)
LEMMA RestoredWithRoom ==
  ASSUME NEW p \in TruePools, aligned \in Seq(Tx), built.carried \in Seq(Tx),
         NEW room \in SUBSET Tx, p.held \subseteq room, SizeOf(room) <= Cap,
         ToSet(aligned) \cup ToSet(built.carried) \subseteq room
  PROVE  \A t \in ToSet(aligned) \cup ToSet(built.carried) : Answered(Restored(p), t)
<1> DEFINE s == aligned \o built.carried
           n == Len(s)
<1>1. s \in Seq(Tx) /\ n \in Nat /\ \A i \in 1 .. n : s[i] \in Tx
  OBVIOUS
<1>2. PICK q \in [0 .. n -> TruePools] :
        /\ q[0] = p /\ q[n] = Restored(p)
        /\ \A i \in 1 .. n : q[i] = Offered(q[i - 1], s[i], Spendable(goal))
  <2> HIDE DEF s
  <2> QED
    BY <1>1, RestoredInTurn DEF s
<1>3. ToSet(s) = ToSet(aligned) \cup ToSet(built.carried)
  BY ToSetBoth
<1> HIDE DEF s
<1>4. \A i \in 1 .. n : s[i] \in room
  <2>1. \A i \in 1 .. n : s[i] \in ToSet(s)
    BY <1>1, LenProperties DEF ToSet
  <2> QED
    BY <1>3, <2>1
<1> HIDE DEF n
<1> DEFINE All(i) == /\ q[i].held \subseteq room
                     /\ \A j \in 1 .. i : Answered(q[i], s[j])
           G == {i \in 0 .. n : All(i)}
<1>5. 0 \in G
  BY <1>1, <1>2
<1>6. ASSUME NEW i \in 1 .. n, i - 1 \in G PROVE i \in G
  <2>1. /\ i \in 0 .. n /\ i - 1 \in 0 .. n /\ i \in Nat
        /\ q[i] \in TruePools /\ q[i - 1] \in TruePools
        /\ s[i] \in Tx /\ s[i] \in room
        /\ q[i] = Offered(q[i - 1], s[i], Spendable(goal))
        /\ \A j \in 1 .. i : j \in 1 .. n /\ s[j] \in Tx
    BY <1>1, <1>2, <1>4
  <2>2. All(i - 1)
    BY <1>6
  <2>3. SizeOf(q[i - 1].held \cup {s[i]}) <= Cap
    <3>1. q[i - 1].held \cup {s[i]} \in SUBSET room
      BY <2>1, <2>2
    <3>2. q[i - 1].held \cup {s[i]} \in SUBSET Tx
      BY <3>1
    <3>3. SizeOf(q[i - 1].held \cup {s[i]}) <= SizeOf(room)
      BY <3>1, SizeGrows
    <3>4. SizeOf(q[i - 1].held \cup {s[i]}) \in Nat /\ SizeOf(room) \in Nat
          /\ Cap \in Nat
      BY <3>2, SizeIsSum, TxShape
    <3> QED
      BY <3>3, <3>4
  <2>4. /\ q[i - 1].held \subseteq q[i].held
        /\ q[i].held \subseteq q[i - 1].held \cup {s[i]}
        /\ Answered(q[i], s[i])
    BY <2>1, <2>3, OfferedWithRoom
  <2>5. ASSUME NEW j \in 1 .. i PROVE Answered(q[i], s[j])
    <3>1. CASE j = i
      BY <2>4, <3>1
    <3>2. CASE j # i
      <4>1. j \in 1 .. i - 1
        BY <2>1, <3>2
      <4> QED
        BY <2>1, <2>2, <2>4, <4>1, SettledLasts
    <3> QED
      BY <3>1, <3>2
  <2> QED
    BY <2>1, <2>2, <2>4, <2>5
<1> HIDE DEF G
<1>7. \A i \in 0 .. n : i \in G
  BY <1>1, <1>5, <1>6, StepByStep
<1>8. All(n)
  BY <1>1, <1>7 DEF G
<1>9. ASSUME NEW t \in ToSet(s) PROVE Answered(Restored(p), t)
  <2>1. PICK j \in 1 .. n : t = s[j]
    BY <1>1 DEF ToSet, n
  <2> QED
    BY <1>2, <1>8, <2>1
<1> QED
  BY <1>3, <1>9

(* What came off is held when the Catch-up ends, or nothing but the Set, a  *)
(* claim or the room kept it out.                                           *)
THEOREM BroughtBack == Spec => BackOrUnfit
<1>1. ASSUME IInv, Finish, NEW t \in left, t \in Standard,
             ~(SizeOf(pool.held \cup left) > Cap)
      PROVE  Answered(pool', t)
  <2>1. TypeOK /\ pool \in TruePools /\ GivenBack
    BY <1>1 DEF IInv
  <2>2. phase = "moved" /\ pool' = Restored(Swept(pool))
    BY <1>1 DEF Finish, Settlement
  <2>3. left = ToSet(aligned) \cup ToSet(built.carried)
    BY <2>1, <2>2 DEF GivenBack
  <2>4. Swept(pool) \in TruePools /\ Swept(pool).held \subseteq pool.held
    BY <2>1, SettlementTrue
  <2>5. aligned \in Seq(Tx) /\ built.carried \in Seq(Tx) /\ left \subseteq Tx
        /\ pool.held \subseteq Tx
    BY <2>1, PoolParts DEF TypeOK, TruePools
  <2> DEFINE room == pool.held \cup left
  <2>6. SizeOf(room) \in Nat /\ Cap \in Nat
    BY <2>5, SizeIsSum, TxShape
  <2>7. SizeOf(room) <= Cap
    BY <1>1, <2>6
  <2>8. room \in SUBSET Tx /\ Swept(pool).held \subseteq room /\ left \subseteq room
    BY <2>4, <2>5
  <2> HIDE DEF room
  <2> QED
    BY <1>1, <2>2, <2>3, <2>4, <2>5, <2>7, <2>8, RestoredWithRoom
<1>2. ASSUME IInv, Finish, NEW t \in (left \cap Standard) \ TxsIn[at]
      PROVE  \/ t \in pool'.held
             \/ ~(Inputs[t] \subseteq Spendable(goal))
             \/ Conflicts(pool', t)
             \/ SizeOf(pool.held \cup left) > Cap
  BY <1>1, <1>2 DEF Answered
<1>3. IInv => [Finish =>
        \A t \in (left \cap Standard) \ TxsIn[at] :
          \/ t \in pool'.held
          \/ ~(Inputs[t] \subseteq Spendable(goal))
          \/ Conflicts(pool', t)
          \/ SizeOf(pool.held \cup left) > Cap]_vars
  BY <1>2
<1> QED
  BY <1>3, InvHolds, PTL DEF BackOrUnfit
==============================================================================
