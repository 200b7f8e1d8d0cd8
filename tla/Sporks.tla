------------------------------ MODULE Sporks ------------------------------
(***************************************************************************)
(* spork.cpp: the spork manager of one node, for one spork id (the ids do  *)
(* not interact), between the message handler thread (ProcessSpork), an    *)
(* RPC thread (UpdateSpork) and the spork database.                        *)
(*                                                                         *)
(* The node's peers run the same code: of them only the spork they hold    *)
(* is kept.  Messages may be lost with their connection and arrive in any  *)
(* order.  Sporks that are not signed by the key, or too far in the        *)
(* future, change nothing and are left out.                                *)
(***************************************************************************)
EXTENDS Naturals

CONSTANTS Peers,
          Signed,  \* the messages signed for this id: [nTimeSigned, nValue]
          Own,     \* those that UpdateSpork signs on this node
          NoSpork

ASSUME SporksAssumption ==
  /\ Signed \subseteq [nTimeSigned : Nat \ {0}, nValue : BOOLEAN]
  /\ Own \subseteq Signed
  /\ NoSpork \notin Signed

VARIABLES mapSporksActive, \* the spork in force, or NoSpork
          mapSporks,       \* the sporks by hash
          sporkDB,         \* what CSporkDB holds
          handling,        \* ProcessSpork: the spork that passed the check,
          against,         \*   the spork in force at that check (history),
          handled,         \*   and whether it is in the maps already
          updating,        \* UpdateSpork: the spork relayed and not yet in the maps
          theirs,          \* the spork in force at every peer
          inbox,           \* spork messages on their way from every peer
          offered          \* invs of the node that the peer has not asked for yet

sporkVars == <<mapSporksActive, mapSporks, sporkDB, handling, against, handled, updating,
               theirs, inbox, offered>>

OrNone == Signed \cup {NoSpork}

\* The time a spork was signed; one that is absent is older than all.
nTimeSigned(s) == IF s = NoSpork THEN 0 ELSE s.nTimeSigned

Newer(s, t) == nTimeSigned(s) > nTimeSigned(t)

Loaded(s) == {s} \ {NoSpork}

\* LoadSporksFromDB at the first start and at every other.
SporkInit ==
  /\ sporkDB \in OrNone \ Own
  /\ mapSporksActive = sporkDB /\ mapSporks = Loaded(sporkDB)
  /\ handling = NoSpork /\ against = NoSpork /\ handled = FALSE /\ updating = NoSpork
  /\ theirs \in [Peers -> OrNone \ Own]
  /\ inbox = [p \in Peers |-> {}] /\ offered = {}

-----------------------------------------------------------------------------
(* The peers.                                                              *)

\* A peer stores a newer spork and relays it: the node asks for what it does
\* not have (AlreadyHave).
PeerRelays(p, s) ==
  /\ s \in Own => \E q \in Peers : theirs[q] = s
  /\ Newer(s, theirs[p])
  /\ theirs' = [theirs EXCEPT ![p] = s]
  /\ inbox' = IF s \in mapSporks THEN inbox ELSE [inbox EXCEPT ![p] = @ \cup {s}]
  /\ UNCHANGED <<mapSporksActive, mapSporks, sporkDB, handling, against, handled, updating, offered>>

\* getsporks: the peer pushes the spork it holds.
Answer(p) == [inbox EXCEPT ![p] = @ \cup Loaded(theirs[p])]

\* What was under way is lost with the connection.
Disconnect(p) ==
  /\ inbox' = [inbox EXCEPT ![p] = {}]
  /\ offered' = {o \in offered : o[1] # p}
  /\ UNCHANGED <<mapSporksActive, mapSporks, sporkDB, handling, against, handled, updating, theirs>>

\* Relay: RelayInv to every peer.
Relayed(s) == offered \cup (Peers \X {s})

\* getdata of a peer that was offered s: the spork, which the peer takes if it
\* is newer, or notfound.
ServeGetData(p, s) ==
  /\ <<p, s>> \in offered
  /\ handling = NoSpork
  /\ offered' = offered \ {<<p, s>>}
  /\ theirs' = IF s \in mapSporks /\ Newer(s, theirs[p]) THEN [theirs EXCEPT ![p] = s] ELSE theirs
  /\ UNCHANGED <<mapSporksActive, mapSporks, sporkDB, handling, against, handled, updating, inbox>>

-----------------------------------------------------------------------------
(* ProcessSpork, in the message handler thread.                            *)

\* Mutant: a spork is compared with nothing.
Updates_Always(s) == s \in Signed

\* "spork in memory has been signed more recently", or is the same one.
Updates(s) == Newer(s, mapSporksActive)

\* The first section of cs, and the signature.
CheckSpork(p, s) ==
  /\ s \in inbox[p]
  /\ handling = NoSpork
  /\ inbox' = [inbox EXCEPT ![p] = @ \ {s}]
  /\ handling' = IF Updates(s) THEN s ELSE NoSpork
  /\ against' = IF Updates(s) THEN mapSporksActive ELSE NoSpork
  /\ UNCHANGED <<mapSporksActive, mapSporks, sporkDB, handled, updating, theirs, offered>>

\* Mutant: the map by hash, from which getdata is served, is forgotten.
Stored_Nothing(s) == mapSporks

Stored(s) == mapSporks \cup {s}

\* The second section of cs, and Relay.
StoreSpork ==
  /\ handling # NoSpork /\ ~handled
  /\ mapSporks' = Stored(handling)
  /\ mapSporksActive' = handling
  /\ offered' = Relayed(handling)
  /\ handled' = TRUE /\ against' = NoSpork
  /\ UNCHANGED <<sporkDB, handling, updating, theirs, inbox>>

\* Mutant: the message is not written.
Persisted_Nothing == sporkDB

Persisted == handling

\* WriteSpork; the handler returns.
WriteSpork ==
  /\ handled
  /\ sporkDB' = Persisted
  /\ handling' = NoSpork /\ handled' = FALSE
  /\ UNCHANGED <<mapSporksActive, mapSporks, against, updating, theirs, inbox, offered>>

-----------------------------------------------------------------------------
(* UpdateSpork, in an RPC thread, and the end of the process.              *)

\* A spork that nobody holds yet is signed, at whatever time the clock of the
\* node shows, and relayed,
RelayUpdate(s) ==
  /\ updating = NoSpork
  /\ s \in Own /\ s \notin mapSporks
  /\ \A p \in Peers : theirs[p] # s
  /\ updating' = s
  /\ offered' = Relayed(s)
  /\ UNCHANGED <<mapSporksActive, mapSporks, sporkDB, handling, against, handled, theirs, inbox>>

\* and put into the maps, whatever they hold.
StoreUpdate ==
  /\ updating # NoSpork
  /\ mapSporks' = Stored(updating)
  /\ mapSporksActive' = updating
  /\ updating' = NoSpork
  /\ UNCHANGED <<sporkDB, handling, against, handled, theirs, inbox, offered>>

\* The process ends at any point and LoadSporksFromDB starts the next one; the
\* connections and what was on them are gone.
Restart ==
  /\ mapSporksActive' = sporkDB /\ mapSporks' = Loaded(sporkDB)
  /\ handling' = NoSpork /\ against' = NoSpork /\ handled' = FALSE /\ updating' = NoSpork
  /\ inbox' = [p \in Peers |-> {}] /\ offered' = {}
  /\ UNCHANGED <<sporkDB, theirs>>

-----------------------------------------------------------------------------
(* Properties.                                                             *)

\* ProcessSpork keeps the most recent spork: what is in force gives way to an
\* older one only where UpdateSpork, which compares nothing, puts it there,
\* where UpdateSpork came between the check of a message and its storing, or
\* where a restart finds an older one in the database, because UpdateSpork
\* does not write it or the process ended before WriteSpork.
MostRecentInForce ==
  [][Newer(mapSporksActive, mapSporksActive') =>
       \/ mapSporksActive' = updating
       \/ mapSporksActive \in Own /\ (mapSporksActive # against \/ mapSporksActive' = sporkDB)
       \/ handled /\ mapSporksActive' = sporkDB]_sporkVars

\* The database follows the memory: between messages only a spork that was
\* signed by this node can be in force and be gone after a restart.
DatabaseFollows ==
  ~handled => mapSporksActive = sporkDB \/ mapSporksActive \in Own

\* A peer that asks for what the node announced gets it: "notfound" answers
\* only a peer that is faster than an UpdateSpork, which relays first.
OfferedIsHeld ==
  \A o \in offered : o[2] \in mapSporks \cup {updating}
=============================================================================
