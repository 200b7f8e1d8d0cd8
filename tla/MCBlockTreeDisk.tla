-------------------------- MODULE MCBlockTreeDisk --------------------------
(***************************************************************************)
(* Instances of BlockTreeDisk: a branch of two blocks against one block,   *)
(* at most one of them refused by validation, and two pointer orders.      *)
(***************************************************************************)
EXTENDS BlockTreeDisk

CONSTANTS g, a1, a2, b1

SmallBlocks == {g, a1, a2, b1}
SmallParent == [x \in {a1, a2, b1} |-> IF x = a2 THEN a1 ELSE g]

ChainBlocks == {g, a1, a2}
ChainParent == [x \in {a1, a2} |-> IF x = a2 THEN a1 ELSE g]

EqualWork == [x \in Blocks |-> nHeight[x]]

AtMostOneBad ==
  {v \in [Blocks -> {"ok", "connect"}] : Cardinality({x \in Blocks : v[x] # "ok"}) =< 1}

AnyOneBad ==
  {v \in [Blocks -> {"ok", "context", "connect"}] :
     Cardinality({x \in Blocks : v[x] # "ok"}) =< 1}

Rank == [x \in {g, a1, a2, b1} |-> CASE x = g -> 0 [] x = a1 -> 1 [] x = a2 -> 2 [] x = b1 -> 3]

TwoOrders == {[x \in Blocks |-> Rank[x]], [x \in Blocks |-> 10 - Rank[x]]}
=============================================================================
