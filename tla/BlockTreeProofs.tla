--------------------------- MODULE BlockTreeProofs ---------------------------
(***************************************************************************)
(* What the shape of the tree of Blocks gives: facts about one branch,     *)
(* about two branches that share a Block, and about sets of Blocks closed  *)
(* under parents.  First, the inductions that these and the modules that   *)
(* extend this one need: least numbers, smallest sets, and folds.          *)
(***************************************************************************)
EXTENDS BlockTree, FiniteSetTheorems, TLAPS

(* Every non-empty set of natural numbers has a least member.              *)
LEMMA LeastNat ==
  ASSUME NEW T \in SUBSET Nat, T # {}
  PROVE  \E x \in T : \A y \in T : x <= y
<1> DEFINE R == StrictSubsetOrdering(Nat)
           U == {0 .. n : n \in T}
<1>1. IsWellFoundedOn(R, FiniteSubsetsOf(Nat))
  BY FS_StrictSubsetOrderingWellFounded, Zenon
<1>2. U \subseteq FiniteSubsetsOf(Nat) /\ U # {}
  <2>1. ASSUME NEW n \in T
        PROVE  IsFiniteSet(0 .. n) /\ 0 .. n \in SUBSET Nat
    BY FS_Interval
  <2> QED
    BY <2>1 DEF FiniteSubsetsOf
<1>3. PICK s \in U : \A t \in U : <<t, s>> \notin R
  <2> HIDE DEF R, U
  <2> QED
    BY <1>1, <1>2, WFMin
<1>4. PICK x \in T : s = 0 .. x
  OBVIOUS
<1>5. ASSUME NEW y \in T, y < x PROVE FALSE
  <2>1. 0 .. y \subseteq 0 .. x /\ x \in 0 .. x /\ x \notin 0 .. y
    BY <1>5
  <2>2. <<0 .. y, 0 .. x>> \in R
    BY <2>1 DEF StrictSubsetOrdering
  <2> QED
    BY <1>3, <1>4, <2>2
<1> QED
  BY <1>5

(* What holds of 0 and of each number after one of which it holds, holds of *)
(* them all.                                                                *)
LEMMA StepByStep ==
  ASSUME NEW n \in Nat, NEW G, 0 \in G, \A i \in 1 .. n : i - 1 \in G => i \in G
  PROVE  \A i \in 0 .. n : i \in G
<1> DEFINE Bad == (0 .. n) \ G
<1>1. SUFFICES ASSUME Bad # {} PROVE FALSE
  OBVIOUS
<1>2. PICK k \in Bad : \A j \in Bad : k <= j
  <2>1. Bad \in SUBSET Nat
    OBVIOUS
  <2> HIDE DEF Bad
  <2> QED
    BY <1>1, <2>1, LeastNat
<1>3. k \in 1 .. n /\ k - 1 \in 0 .. n /\ ~(k <= k - 1)
  OBVIOUS
<1>4. k - 1 \in G
  BY <1>2, <1>3
<1> QED
  BY <1>3, <1>4

(* A collection of finite sets with a member has one that holds no other.   *)
LEMMA SmallestSet ==
  ASSUME NEW U, IsFiniteSet(U), NEW T \in SUBSET (SUBSET U), T # {}
  PROVE  \E x \in T : \A y \in T : y \subseteq x => y = x
<1> DEFINE R == StrictSubsetOrdering(U)
<1>1. IsWellFoundedOn(R, FiniteSubsetsOf(U))
  BY FS_StrictSubsetOrderingWellFounded, Zenon
<1>2. T \subseteq FiniteSubsetsOf(U)
  BY FS_Subset DEF FiniteSubsetsOf
<1>3. PICK x \in T : \A y \in T : <<y, x>> \notin R
  <2> HIDE DEF R
  <2> QED
    BY <1>1, <1>2, WFMin
<1>4. ASSUME NEW y \in T, y \subseteq x, y # x PROVE FALSE
  BY <1>3, <1>4 DEF StrictSubsetOrdering
<1> QED
  BY <1>4

(* A finite set can be gone through one member at a time, each with what    *)
(* the rest gave: what a fold with a fixed choice of the next member does.  *)
Picks(pick, S) == \A T \in SUBSET S : T # {} => pick[T] \in T
StaysIn(step, S, V) == \A x \in S : \A v \in V : step[x][v] \in V
FoldsBy(it, S, base, pick, step) ==
  \A T \in SUBSET S :
    it[T] = IF T = {} THEN base ELSE step[pick[T]][it[T \ {pick[T]}]]

LEMMA FoldOn ==
  ASSUME NEW S, IsFiniteSet(S), NEW V, NEW base, base \in V, NEW pick, NEW step,
         Picks(pick, S), StaysIn(step, S, V)
  PROVE  \E it \in [SUBSET S -> V] : FoldsBy(it, S, base, pick, step)
<1> USE DEF Picks, StaysIn, FoldsBy
<1> DEFINE Upto(k) == {T \in SUBSET S : Cardinality(T) <= k}
           Works(it, k) ==
             \A T \in Upto(k) :
               it[T] = IF T = {} THEN base ELSE step[pick[T]][it[T \ {pick[T]}]]
           Bad == {k \in Nat : ~ \E it \in [Upto(k) -> V] : Works(it, k)}
<1>1. \A T \in SUBSET S : IsFiniteSet(T) /\ Cardinality(T) \in Nat
  BY FS_Subset, FS_CardinalityType
<1>2. \A T \in SUBSET S : Cardinality(T) = 0 <=> T = {}
  BY <1>1, FS_EmptySet
<1>3. 0 \notin Bad
  <2> DEFINE it == [T \in Upto(0) |-> base]
  <2>1. \A T \in Upto(0) : T = {}
    BY <1>1, <1>2
  <2>2. it \in [Upto(0) -> V] /\ Works(it, 0)
    BY <2>1
  <2> QED
    BY <2>2
<1>4. ASSUME NEW k \in Nat, k + 1 \in Bad PROVE k \in Bad
  <2> SUFFICES ASSUME NEW it \in [Upto(k) -> V], Works(it, k) PROVE FALSE
    OBVIOUS
  <2> DEFINE nx == [T \in Upto(k + 1) |->
                      IF T = {} THEN base ELSE step[pick[T]][it[T \ {pick[T]}]]]
  <2>1. ASSUME NEW T \in Upto(k + 1), T # {}
        PROVE  pick[T] \in S /\ T \ {pick[T]} \in Upto(k)
    <3>1. pick[T] \in T /\ T \in SUBSET S /\ Cardinality(T) \in Nat
      BY <1>1, <2>1
    <3>2. Cardinality(T \ {pick[T]}) = Cardinality(T) - 1
      BY <1>1, <3>1, FS_RemoveElement
    <3> QED
      BY <3>1, <3>2
  <2>2. nx \in [Upto(k + 1) -> V]
    BY <2>1
  <2>3. Upto(k) \subseteq Upto(k + 1)
    BY <1>1
  <2>4. \A T \in Upto(k) : nx[T] = it[T]
    BY <2>3
  <2>5. Works(nx, k + 1)
    BY <2>1, <2>4
  <2> QED
    BY <1>4, <2>2, <2>5
<1>5. Bad = {}
  <2> SUFFICES ASSUME Bad # {} PROVE FALSE
    OBVIOUS
  <2>1. PICK k \in Bad : \A j \in Bad : k <= j
    <3>1. Bad \in SUBSET Nat
      OBVIOUS
    <3> HIDE DEF Bad
    <3> QED
      BY <3>1, LeastNat
  <2>2. k \in Nat /\ k # 0
    BY <1>3
  <2>3. k - 1 \in Nat /\ (k - 1) + 1 \in Bad
    <3>1. k - 1 \in Nat /\ (k - 1) + 1 = k
      BY <2>2
    <3> HIDE DEF Bad
    <3> QED
      BY <2>1, <3>1
  <2>4. k - 1 \in Bad
    <3> HIDE DEF Bad
    <3> QED
      BY <1>4, <2>3
  <2> HIDE DEF Bad
  <2> QED
    BY <2>1, <2>2, <2>4
<1> DEFINE n == Cardinality(S)
<1>6. n \in Nat /\ Upto(n) = SUBSET S
  BY FS_Subset, FS_CardinalityType
<1>7. PICK it \in [Upto(n) -> V] : Works(it, n)
  BY <1>5, <1>6
<1> QED
  BY <1>6, <1>7

(* One branch: a Block at each Height up to its end, each below its own.   *)
LEMMA ChainFacts ==
  ASSUME NEW b \in Block
  PROVE  /\ Height[b] \in Heights
         /\ Chain[b] \in [Heights -> Block \cup {None}]
         /\ Chain[b][Height[b]] = b
         /\ \A n \in Heights : (Chain[b][n] = None) <=> (n > Height[b])
         /\ \A n \in Heights : Chain[b][n] # None =>
              /\ Chain[b][n] \in Block
              /\ Height[Chain[b][n]] = n
              /\ \A m \in 0 .. n : Chain[Chain[b][n]][m] = Chain[b][m]
BY TreeShape, ChainShape

(* A branch is of Blocks, one at each Height, and holds theirs.            *)
LEMMA BranchFacts ==
  ASSUME NEW b \in Block
  PROVE  /\ b \in Branch(b)
         /\ Branch(b) \subseteq Block
         /\ \A a \in Branch(b) :
              /\ Height[a] <= Height[b]
              /\ Height[a] = Height[b] => a = b
              /\ Chain[b][Height[a]] = a
              /\ Branch(a) \subseteq Branch(b)
<1>1. Height[b] \in Nat /\ 0 .. Height[b] \subseteq Heights
  BY TreeShape DEF Heights
<1>2. \A n \in 0 .. Height[b] : Chain[b][n] \in Block /\ Height[Chain[b][n]] = n
  BY <1>1, ChainFacts
<1>3. \A n \in 0 .. Height[b] : \A m \in 0 .. n :
        Chain[Chain[b][n]][m] = Chain[b][m]
  BY <1>1, <1>2, ChainFacts
<1>4. Chain[b][Height[b]] = b
  BY ChainFacts
<1>5. ASSUME NEW a \in Branch(b)
      PROVE  /\ Height[a] <= Height[b]
             /\ Height[a] = Height[b] => a = b
             /\ Chain[b][Height[a]] = a
             /\ Branch(a) \subseteq Branch(b)
  <2>1. PICK n \in 0 .. Height[b] : a = Chain[b][n]
    BY DEF Branch
  <2>2. Height[a] = n
    BY <1>2, <2>1
  <2>3. \A m \in 0 .. n : Chain[a][m] = Chain[b][m] /\ m \in 0 .. Height[b]
    BY <1>1, <1>3, <2>1
  <2> QED
    BY <1>4, <2>1, <2>2, <2>3 DEF Branch
<1> QED
  BY <1>1, <1>2, <1>4, <1>5 DEF Branch

(* Two branches that name one Block at a Height agree below it.            *)
LEMMA SharedBelow ==
  ASSUME NEW a \in Block, NEW b \in Block, NEW m \in Heights, NEW n \in 0 .. m,
         Chain[a][m] = Chain[b][m], Chain[a][m] # None
  PROVE  Chain[a][n] = Chain[b][n]
<1>1. Chain[Chain[a][m]][n] = Chain[a][n]
  BY ChainFacts
<1>2. Chain[Chain[b][m]][n] = Chain[b][n]
  BY ChainFacts
<1> QED
  BY <1>1, <1>2

(* The parent's branch is the Block's own, one Height shorter.             *)
LEMMA ParentChain ==
  ASSUME NEW b \in Block, b # Genesis
  PROVE  /\ Parent[b] \in Block
         /\ Height[Parent[b]] = Height[b] - 1
         /\ Work[Parent[b]] < Work[b]
         /\ \A m \in 0 .. Height[Parent[b]] :
              Chain[Parent[b]][m] = Chain[b][m]
BY TreeShape, ChainShape DEF Heights

(* A set that holds the parent of each of its Blocks holds their branches. *)
LEMMA BranchWithin ==
  ASSUME NEW S \in SUBSET Block, \A b \in S : b # Genesis => Parent[b] \in S,
         NEW b \in S, NEW n \in 0 .. Height[b]
  PROVE  Chain[b][n] \in S
<1> DEFINE H == Height[b]
           T == {k \in 0 .. H : Chain[b][H - k] \notin S}
<1>1. H \in Nat /\ H <= MaxHeight /\ MaxHeight \in Nat
  BY TreeShape DEF Heights
<1>2. SUFFICES ASSUME T # {} PROVE FALSE
  <2>1. H - n \in 0 .. H /\ H - (H - n) = n
    BY <1>1
  <2> QED
    BY <2>1
<1>3. PICK k \in T : \A j \in T : k <= j
  <2>1. T \subseteq Nat
    BY <1>1
  <2> HIDE DEF T
  <2> QED
    BY <1>2, <2>1, LeastNat
<1>4. k \in 1 .. H
  BY <1>1, <1>3, ChainFacts
<1> DEFINE a == Chain[b][H - (k - 1)]
<1>5. a \in S
  <2>1. k - 1 \in 0 .. H /\ k - 1 \notin T
    BY <1>1, <1>3, <1>4
  <2> QED
    BY <2>1
<1>6. a \in Block /\ a # None /\ H - (k - 1) \in Heights /\ H - k \in Heights
  BY <1>1, <1>4, <1>5, TreeShape DEF Heights
<1>7. Height[a] = H - (k - 1) /\ Chain[a][H - k] = Chain[b][H - k]
  <2>1. H - k \in 0 .. H - (k - 1)
    BY <1>1, <1>4
  <2> QED
    BY <1>6, <2>1, ChainFacts
<1>8. a # Genesis
  BY <1>1, <1>4, <1>7, TreeShape
<1>9. Parent[a] = Chain[b][H - k]
  <2>1. Height[Parent[a]] = H - k
    BY <1>1, <1>4, <1>6, <1>7, <1>8, ParentChain
  <2>2. Chain[Parent[a]][H - k] = Parent[a]
    BY <1>6, <1>8, <2>1, ParentChain, ChainFacts
  <2>3. H - k \in 0 .. H - k
    BY <1>1, <1>4
  <2>4. Chain[Parent[a]][H - k] = Chain[a][H - k]
    BY <1>6, <1>8, <2>1, <2>3, ParentChain
  <2> QED
    BY <1>7, <2>2, <2>4
<1> QED
  BY <1>3, <1>5, <1>8, <1>9
==============================================================================
