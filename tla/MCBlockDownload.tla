-------------------------- MODULE MCBlockDownload --------------------------
(***************************************************************************)
(* Instances of BlockDownload: a branch of two blocks against one block,   *)
(* and the branch alone.                                                   *)
(***************************************************************************)
EXTENDS BlockDownload, TLC

CONSTANTS g, a1, a2, b1

ForkBlocks == {g, a1, a2, b1}
ForkParent == (a1 :> g) @@ (a2 :> a1) @@ (b1 :> g)

PairBlocks == {g, a1, a2}
PairParent == (a1 :> g) @@ (a2 :> a1)
=============================================================================
