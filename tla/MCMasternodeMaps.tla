-------------------------- MODULE MCMasternodeMaps --------------------------
(***************************************************************************)
(* An instance of MasternodeMaps: a chain of six blocks and a branch of    *)
(* two from the third one.  The collateral changes at height 5, two blocks *)
(* are a week.  c1 moves to c2 on one branch; on the other it moves twice  *)
(* in one block.  c3, c5 and c8 have the later amount; c3 and c5 share a   *)
(* script, c8 is there a week before the change.                           *)
(***************************************************************************)
EXTENDS MasternodeMaps

CONSTANTS g, a1, a2, a3, a4, a5, a6, b4, b5,
          c1, c2, c3, c4, c5, c6, c7, c8, s1, s2, s3, s4, s5, s6

TheBlocks == {g, a1, a2, a3, a4, a5, a6, b4, b5}

TheParent ==
  [x \in TheBlocks \ {g} |->
     CASE x = a1 -> g [] x = a2 -> a1 [] x = a3 -> a2 [] x \in {a4, b4} -> a3
       [] x = a5 -> a4 [] x = a6 -> a5 [] x = b5 -> b4]

Tx(in, out) == [vin |-> in, vout |-> out]

TheVtx ==
  [x \in TheBlocks |->
     CASE x = a1 -> <<Tx({}, <<c1>>)>>
       [] x = a3 -> <<Tx({}, <<c8>>)>>
       [] x = a4 -> <<Tx({c1}, <<c2>>), Tx({}, <<c4>>)>>
       [] x = a5 -> <<Tx({c2}, <<c3>>)>>
       [] x = a6 -> <<Tx({c4}, <<c5>>)>>
       [] x = b4 -> <<Tx({c1}, <<c6>>), Tx({c6}, <<c7>>)>>
       [] x = b5 -> <<Tx({}, <<c4>>), Tx({c7}, <<c5>>)>>
       [] OTHER -> <<>>]

TheOutputs == {c1, c2, c3, c4, c5, c6, c7, c8}

TheValue == [o \in TheOutputs |-> IF o \in {c3, c5, c8} THEN 20 ELSE 10]

TheScript ==
  [o \in TheOutputs |->
     CASE o \in {c1, c6} -> s1 [] o = c2 -> s2 [] o \in {c3, c5} -> s3 [] o = c4 -> s4 [] o = c7 -> s5 [] o = c8 -> s6]

TheAmount(h) == CASE h < 1 -> 0 [] h \in 1 .. 4 -> 10 [] OTHER -> 20

ThePayee ==
  [x \in TheBlocks |->
     CASE x \in {g, a5} -> NoScript [] x \in {a1, a3, b4, a6} -> s1 [] x \in {a2, a4, b5} -> s2]
=============================================================================
