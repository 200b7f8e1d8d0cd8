------------------------------ MODULE MCMempool ------------------------------
(***************************************************************************)
(* An instance of Mempool.  b and w spend a, c and d spend b, x competes   *)
(* with a, y is on its own, s spends the coinbase k of A1, and z is an invalid transaction  *)
(* that spends b.  c may only be mined from height 2 on.  Two branches     *)
(* compete: A1 A2 confirms a and b, B1 B2 B3 confirms x, and B2 turns out  *)
(* to be invalid.                                                          *)
(***************************************************************************)
EXTENDS Mempool

CONSTANTS g0, k, a, b, c, d, w, x, y, s, z, G, A1, A2, B1, B2, B3, p1, p2

MCTxs == {g0, k, a, b, c, d, w, x, y, s, z}
MCVin == [t \in MCTxs |->
  CASE t \in {g0, k}   -> {}
    [] t \in {a, x}    -> {<<g0, 0>>}
    [] t = y           -> {<<g0, 1>>}
    [] t = b           -> {<<a, 0>>}
    [] t = c           -> {<<b, 0>>}
    [] t = d           -> {<<b, 1>>}
    [] t = w           -> {<<a, 1>>}
    [] t = s           -> {<<k, 0>>}
    [] t = z           -> {<<b, 2>>}]
MCVoutSize == [t \in MCTxs |-> IF t = b THEN 3 ELSE IF t \in {a, g0} THEN 2 ELSE 1]
MCFee == [t \in MCTxs |-> CASE t \in {a, s, y} -> 1 [] t = b -> 2 [] OTHER -> 3]
MCLockTime == [t \in MCTxs |-> IF t = c THEN 1 ELSE 0]
MCVerdict == [t \in MCTxs |-> IF t = z THEN "dos" ELSE "ok"]

MCBlocks == {G, A1, A2, B1, B2, B3}
MCParent == [n \in MCBlocks \ {G} |->
  CASE n \in {A1, B1} -> G [] n = A2 -> A1 [] n = B2 -> B1 [] n = B3 -> B2]
MCVtx == [n \in MCBlocks |->
  CASE n = G -> <<g0>> [] n = A1 -> <<k, a, b>> [] n = B1 -> <<x>> [] OTHER -> <<>>]

MCRelays == [t \in MCTxs |-> CASE t \in {c, z} -> {p1} [] t \in {a, b} -> {p2} [] OTHER -> {}]
=============================================================================
