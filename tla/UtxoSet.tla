------------------------------- MODULE UtxoSet -------------------------------
(***************************************************************************)
(* What the coins database and the caches stacked on it promise to the     *)
(* rest of the node: three versions of the set of unspent outputs, each    *)
(* tagged with the block it belongs to.                                    *)
(*                                                                         *)
(*   durable    what a restart finds on disk                               *)
(*   committed  the state of the active chain (pcoinsTip)                  *)
(*   working    the state while one block is being (dis)connected          *)
(*                                                                         *)
(* No cache, no flag and no flush order appears here.  CoinsCache is shown *)
(* to implement this specification.                                        *)
(***************************************************************************)
CONSTANTS OutPoints,   \* transaction outputs
          Coins,       \* unspent coin contents
          NoCoin,      \* "no unspent output here"
          Hashes       \* block hashes

VARIABLES durable, committed, working, open

vars == <<durable, committed, working, open>>

Maps == [OutPoints -> Coins \cup {NoCoin}]

States == [coins : Maps, best : Hashes]

Init ==
  /\ durable \in {s \in States : s.coins = [o \in OutPoints |-> NoCoin]}
  /\ committed = durable
  /\ working = durable
  /\ open = FALSE

\* A block starts to be applied (or undone) on a private copy.
Begin ==
  /\ ~open
  /\ open' = TRUE
  /\ working' = committed
  /\ UNCHANGED <<durable, committed>>

\* An output that does not exist is created.
Create(o, c) ==
  /\ open
  /\ working.coins[o] = NoCoin
  /\ working' = [coins |-> [working.coins EXCEPT ![o] = c], best |-> working.best]
  /\ UNCHANGED <<durable, committed, open>>

\* An output is spent; spending what is not there has no effect.
Spend(o) ==
  /\ open
  /\ working' = [coins |-> [working.coins EXCEPT ![o] = NoCoin], best |-> working.best]
  /\ UNCHANGED <<durable, committed, open>>

\* The private copy now stands for block h.
Label(h) ==
  /\ open
  /\ working' = [coins |-> working.coins, best |-> h]
  /\ UNCHANGED <<durable, committed, open>>

\* The block takes effect as a whole ...
Commit ==
  /\ open
  /\ committed' = working
  /\ open' = FALSE
  /\ UNCHANGED <<durable, working>>

\* ... or not at all.
Abandon ==
  /\ open
  /\ working' = committed
  /\ open' = FALSE
  /\ UNCHANGED <<durable, committed>>

\* The active chain's state reaches the disk as a whole.
Persist ==
  /\ durable' = committed
  /\ UNCHANGED <<committed, working, open>>

\* Everything in memory is lost.
Restart ==
  /\ committed' = durable
  /\ working' = durable
  /\ open' = FALSE
  /\ UNCHANGED durable

Next ==
  \/ Begin
  \/ \E o \in OutPoints, c \in Coins : Create(o, c)
  \/ \E o \in OutPoints : Spend(o)
  \/ \E h \in Hashes : Label(h)
  \/ Commit
  \/ Abandon
  \/ Persist
  \/ Restart

Spec == Init /\ [][Next]_vars
=============================================================================
