------------------------- MODULE MCMasternodeSync -------------------------
(***************************************************************************)
(* An instance of MasternodeSync: a spork that switches SPORK_8 on, and a  *)
(* later one of this node that switches it off.                            *)
(***************************************************************************)
EXTENDS MasternodeSync

Spork(t, v) == [nTimeSigned |-> t, nValue |-> v]

On   == Spork(1, TRUE)
Mine == Spork(2, FALSE)

TwoSporks == {On, Mine}
MySporks == {Mine}

Lists == [p \in Peers |-> 2]
=============================================================================
