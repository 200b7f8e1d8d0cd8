---------------------------- MODULE ChainsProofs ----------------------------
(***************************************************************************)
(* The facts about trees of blocks that the code takes for granted.        *)
(***************************************************************************)
EXTENDS Chains, FiniteSetTheorems, WellFoundedInduction, TLAPS

\* A chain holds its block and, with every block, the parent.
LEMMA ChainClosed ==
  ASSUME NEW b \in Blocks
  PROVE  /\ b \in Ancestors[b] /\ Ancestors[b] \subseteq Blocks
         /\ \A x \in Ancestors[b] \ {Genesis} : Parent[x] \in Ancestors[b]
  BY ChainsAssumption DEF Ancestors, PrevClosed

\* It is the smallest set that does.
LEMMA ChainSmallest ==
  ASSUME NEW b \in Blocks, NEW S \in SUBSET Blocks, b \in S, PrevClosed(S)
  PROVE  Ancestors[b] \subseteq S
  BY DEF Ancestors

\* GetAncestor of an ancestor is an ancestor.
LEMMA ChainTransitive ==
  ASSUME NEW b \in Blocks, NEW a \in Ancestors[b]
  PROVE  a \in Blocks /\ Ancestors[a] \subseteq Ancestors[b]
  BY ChainClosed, ChainSmallest DEF PrevClosed

\* The chain of a block is the chain of its parent and the block.
LEMMA ChainStep ==
  ASSUME NEW b \in Blocks \ {Genesis}
  PROVE  Parent[b] \in Blocks /\ Ancestors[b] = {b} \cup Ancestors[Parent[b]]
<1> DEFINE S == {b} \cup Ancestors[Parent[b]]
<1>1. Parent[b] \in Blocks
  BY ChainsAssumption
<1>2. S \in SUBSET Blocks /\ b \in S /\ PrevClosed(S)
  BY <1>1, ChainClosed DEF PrevClosed
<1>3. Ancestors[b] \subseteq S
  BY <1>2, ChainSmallest
<1>4. S \subseteq Ancestors[b]
  BY ChainClosed, ChainTransitive
<1> QED
  BY <1>1, <1>3, <1>4

\* The chain of the genesis block is that block.
LEMMA ChainGenesis == Ancestors[Genesis] = {Genesis}
<1>1. Genesis \in Blocks
  BY ChainsAssumption
<1>2. PrevClosed({Genesis})
  BY DEF PrevClosed
<1> QED
  BY <1>1, <1>2, ChainClosed, ChainSmallest

\* A block is not an ancestor of its parent: a cycle would not reach the
\* genesis block.
LEMMA ChainAcyclic ==
  ASSUME NEW b \in Blocks \ {Genesis}
  PROVE  b \notin Ancestors[Parent[b]]
<1> SUFFICES ASSUME b \in Ancestors[Parent[b]] PROVE FALSE
  OBVIOUS
<1> DEFINE S == {x \in Blocks : b \in Ancestors[x]}
<1>1. b \in S
  BY ChainClosed
<1>2. PrevClosed(S)
  <2> SUFFICES ASSUME NEW x \in S \ {Genesis} PROVE Parent[x] \in S
    BY DEF PrevClosed
  <2>1. Parent[x] \in Blocks /\ Ancestors[x] = {x} \cup Ancestors[Parent[x]] /\ b \in Ancestors[x]
    BY ChainStep
  <2> QED
    BY <2>1
<1>3. Genesis \in S
  BY <1>1, <1>2, ChainSmallest, ChainsAssumption
<1> QED
  BY <1>3, ChainGenesis

\* So two blocks are not ancestors of each other.
LEMMA ChainAntisymmetric ==
  ASSUME NEW b \in Blocks, NEW a \in Ancestors[b], b \in Ancestors[a]
  PROVE  a = b
<1>1. CASE b = Genesis
  BY <1>1, ChainGenesis
<1>2. CASE b # Genesis
  <2> SUFFICES ASSUME a # b PROVE FALSE
    OBVIOUS
  <2>1. Parent[b] \in Blocks /\ a \in Ancestors[Parent[b]]
    BY <1>2, ChainStep
  <2>2. b \in Ancestors[Parent[b]]
    BY <2>1, ChainTransitive
  <2> QED
    BY <1>2, <2>2, ChainAcyclic
<1> QED
  BY <1>1, <1>2

\* A chain does not fork.
LEMMA ChainLinear ==
  ASSUME NEW b \in Blocks, NEW a \in Ancestors[b], NEW c \in Ancestors[b]
  PROVE  a \in Ancestors[c] \/ c \in Ancestors[a]
<1> DEFINE S == {x \in Blocks : a \in Ancestors[x] \/ x \in Ancestors[a]}
<1>1. a \in Blocks /\ c \in Blocks
  BY ChainClosed
<1>2. PrevClosed(S)
  <2> SUFFICES ASSUME NEW x \in S \ {Genesis} PROVE Parent[x] \in S
    BY DEF PrevClosed
  <2>1. x \in Blocks /\ Parent[x] \in Blocks /\ Ancestors[x] = {x} \cup Ancestors[Parent[x]]
    BY ChainStep
  <2>2. CASE x \in Ancestors[a]
    BY <1>1, <2>1, <2>2, ChainClosed
  <2>3. CASE x \notin Ancestors[a]
    BY <1>1, <2>1, <2>3, ChainClosed
  <2> QED
    BY <2>2, <2>3
<1>3. Ancestors[b] \subseteq S
  BY <1>2, ChainSmallest
<1> QED
  BY <1>3

\* A set of numbers that is not empty has a smallest one.
LEMMA SmallestNumber ==
  ASSUME NEW T \in SUBSET Nat, T # {}
  PROVE  \E x \in T : \A y \in T : x =< y
<1> DEFINE R == OpToRel(<, Nat)
<1>1. IsWellFoundedOn(R, Nat)
  BY NatLessThanWellFounded, Zenon
<1>2. \A x, y \in Nat : x < y => <<x, y>> \in R
  BY DEF OpToRel
<1> HIDE DEF R
<1>3. T \subseteq Nat
  OBVIOUS
<1>4. PICK x \in T : \A y \in T : ~ (<<y, x>> \in R)
  BY <1>1, <1>3, WFMin
<1>5. x \in Nat /\ \A y \in T : y \in Nat /\ ~(y < x)
  BY <1>2, <1>3, <1>4
<1> QED
  BY <1>5

\* The height is a number, and less than the number of blocks.
LEMMA HeightBounded ==
  ASSUME NEW b \in Blocks
  PROVE  /\ Cardinality(Blocks) \in Nat /\ nHeight[b] \in Nat
         /\ nHeight[b] < Cardinality(Blocks)
<1>1. IsFiniteSet(Blocks) /\ Cardinality(Blocks) \in Nat
  BY ChainsAssumption, FS_CardinalityType
<1>2. Ancestors[b] \in SUBSET Blocks /\ Ancestors[b] # {}
  BY ChainClosed
<1>3. /\ IsFiniteSet(Ancestors[b]) /\ Cardinality(Ancestors[b]) =< Cardinality(Blocks)
  BY <1>1, <1>2, FS_Subset
<1>4. Cardinality(Ancestors[b]) \in Nat /\ Cardinality(Ancestors[b]) # 0
  BY <1>2, <1>3, FS_CardinalityType, FS_EmptySet
<1>5. nHeight[b] = Cardinality(Ancestors[b]) - 1
  BY DEF nHeight
<1> QED
  BY <1>1, <1>3, <1>4, <1>5

\* It grows along a chain.
LEMMA HeightGrows ==
  ASSUME NEW b \in Blocks, NEW a \in Ancestors[b], a # b
  PROVE  nHeight[a] < nHeight[b]
<1>1. a \in Blocks /\ Ancestors[a] \in SUBSET Ancestors[b]
  BY ChainTransitive
<1>2. Ancestors[a] # Ancestors[b]
  BY ChainAntisymmetric, ChainClosed
<1>3. IsFiniteSet(Ancestors[b])
  BY ChainsAssumption, ChainClosed, FS_Subset
<1>4. /\ Cardinality(Ancestors[a]) =< Cardinality(Ancestors[b])
      /\ Cardinality(Ancestors[a]) # Cardinality(Ancestors[b])
  BY <1>1, <1>2, <1>3, FS_Subset
<1>5. IsFiniteSet(Ancestors[a])
  BY <1>1, <1>3, FS_Subset
<1>6. Cardinality(Ancestors[a]) \in Nat /\ Cardinality(Ancestors[b]) \in Nat
  BY <1>3, <1>5, FS_CardinalityType
<1>7. nHeight[a] = Cardinality(Ancestors[a]) - 1 /\ nHeight[b] = Cardinality(Ancestors[b]) - 1
  BY <1>1 DEF nHeight
<1> QED
  BY <1>4, <1>6, <1>7

\* Every set of blocks has a highest one.
LEMMA TopIsHighest ==
  ASSUME NEW S \in SUBSET Blocks, S # {}
  PROVE  Top(S) \in S /\ \A y \in S : nHeight[y] =< nHeight[Top(S)]
<1> DEFINE T == {Cardinality(Blocks) - nHeight[x] : x \in S}
<1>1. T \in SUBSET Nat /\ T # {}
  BY HeightBounded
<1>2. PICK n \in T : \A m \in T : n =< m
  BY <1>1, SmallestNumber
<1>3. PICK x \in S : \A y \in S : Cardinality(Blocks) - nHeight[x] =< Cardinality(Blocks) - nHeight[y]
  BY <1>2
<1>4. \A y \in S : nHeight[y] =< nHeight[x]
  BY <1>3, HeightBounded
<1> QED
  BY <1>4 DEF Top
=============================================================================
