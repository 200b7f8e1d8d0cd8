------------------------------- MODULE Chains -------------------------------
(***************************************************************************)
(* The tree of all blocks that can ever exist, by pprev (CBlockIndex).     *)
(***************************************************************************)
EXTENDS Integers, FiniteSets

CONSTANTS Blocks, Genesis,
          Parent  \* Parent[b] for every other block

\* Following pprev from a block of S does not leave S.
PrevClosed(S) == \A b \in S \ {Genesis} : Parent[b] \in S

\* CBlockIndex::GetAncestor at every height, the block itself included: the
\* smallest such set that has the block.
Ancestors ==
  [b \in Blocks |-> {a \in Blocks : \A S \in SUBSET Blocks : b \in S /\ PrevClosed(S) => a \in S}]

ASSUME ChainsAssumption ==
  /\ IsFiniteSet(Blocks) /\ Genesis \in Blocks
  /\ Parent \in [Blocks \ {Genesis} -> Blocks]
  /\ \A b \in Blocks : Genesis \in Ancestors[b]

nHeight == [b \in Blocks |-> Cardinality(Ancestors[b]) - 1]

\* The last block of a part of a chain.
Top(chain) == CHOOSE x \in chain : \A y \in chain : nHeight[y] =< nHeight[x]
=============================================================================
