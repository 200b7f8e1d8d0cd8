----------------------------- MODULE MCRewards -----------------------------
(***************************************************************************)
(* An instance of Rewards: epochs of two blocks from height 1 on, coins    *)
(* that call for a lower or for the static reward, a static reward of 3.   *)
(***************************************************************************)
EXTENDS Rewards

CONSTANTS low, high

TwoTargets == [l \in {low, high} |-> IF l = low THEN 1 ELSE 3]

Static == [h \in 0 .. MaxHeight |-> 3]
=============================================================================
