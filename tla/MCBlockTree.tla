---------------------------- MODULE MCBlockTree ----------------------------
(***************************************************************************)
(* An instance of BlockTree: two branches of two blocks with equal work,   *)
(* at most one block that fails validation, one pointer order.             *)
(***************************************************************************)
EXTENDS BlockTree

CONSTANTS g, a1, a2, b1, b2

ForkBlocks == {g, a1, a2, b1, b2}
ForkParent == [x \in {a1, a2, b1, b2} |->
                 CASE x \in {a1, b1} -> g [] x = a2 -> a1 [] x = b2 -> b1]

EqualWork == [x \in Blocks |-> nHeight[x]]

AtMostOneBad ==
  {v \in [Blocks -> {"ok", "context", "connect"}] :
     Cardinality({x \in Blocks : v[x] # "ok"}) =< 1}

OneOrder ==
  {[x \in Blocks |->
      CASE x = g -> 0 [] x = a1 -> 1 [] x = a2 -> 2 [] x = b1 -> 3 [] x = b2 -> 4]}
=============================================================================
