------------------------------ MODULE BlockTree ------------------------------
(***************************************************************************)
(* The tree of Blocks a Network could show this node.  A Block stands for  *)
(* its Header (domain/block.av) and its Placement (domain/headertree.av):  *)
(* the parent it names, its Height and the total work of its branch.       *)
(* Nothing here changes; the modules that extend this one say which Blocks *)
(* the node holds and which branch it follows.                             *)
(***************************************************************************)
EXTENDS Integers

CONSTANTS
  Block,      \* every Block that may exist, one model value or name each
  Genesis,    \* the Block the Network starts from
  Parent,     \* Parent[b]: the Block b names as previous (Genesis: itself)
  Height,     \* Height[b]: how many Blocks are below b
  Work,       \* Work[b]: total proof of work of the branch that ends at b
  Chain,      \* Chain[b][n]: the ancestor of b (or b) at Height n, or None
  None,       \* no Block: a key with no value
  MaxHeight   \* bound on Heights: the highest Block's Height

Heights == 0 .. MaxHeight

ASSUME TreeShape ==
  /\ MaxHeight \in Nat
  /\ Genesis \in Block
  /\ None \notin Block
  /\ Parent \in [Block -> Block]
  /\ Height \in [Block -> Heights]
  /\ Work \in [Block -> Nat]
  /\ Height[Genesis] = 0 /\ Parent[Genesis] = Genesis
  /\ \A b \in Block \ {Genesis} :
       /\ Height[b] = Height[Parent[b]] + 1
       /\ Work[b] > Work[Parent[b]]

(* A Block Id commits to its whole ancestry: two branches that name the    *)
(* same Block at one Height agree at every Height below (domain/reorg.av,  *)
(* agreedThrough).                                                         *)
ASSUME ChainShape ==
  /\ Chain \in [Block -> [Heights -> Block \cup {None}]]
  /\ \A b \in Block :
       /\ Chain[b][Height[b]] = b
       /\ \A n \in Heights : (Chain[b][n] = None) <=> (n > Height[b])
       /\ \A n \in Heights : Chain[b][n] # None =>
            /\ Height[Chain[b][n]] = n
            /\ \A m \in 0 .. n : Chain[Chain[b][n]][m] = Chain[b][m]
       /\ b # Genesis =>
            \A m \in 0 .. Height[Parent[b]] : Chain[Parent[b]][m] = Chain[b][m]

(* The Blocks of the branch that ends at b.                                *)
Branch(b) == {Chain[b][n] : n \in 0 .. Height[b]}

(* The heaviest Blocks of a set: Chainwork.heavier never holds against one. *)
Heaviest(S) == {b \in S : \A c \in S : Work[c] <= Work[b]}
==============================================================================
