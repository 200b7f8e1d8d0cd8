--------------------------- MODULE BlockDownload ---------------------------
(***************************************************************************)
(* main.cpp: the bookkeeping of block download per peer (CNodeState) and   *)
(* the global mapBlocksInFlight, nQueuedValidatedHeaders, nSyncStarted and *)
(* nPreferredDownload.                                                     *)
(*                                                                         *)
(* Every action is one section of cs_main in the message handler thread,   *)
(* the socket thread (FinalizeNode) or an RPC (submitblock).  Validation   *)
(* of a block is a free choice among the outcomes of ProcessNewBlock.  All *)
(* blocks have the same proof, so that nHeight is the work of a chain.     *)
(***************************************************************************)
EXTENDS Chains, Sequences, SequencesExt, FiniteSetsExt

CONSTANTS Peers,
          Preferred,  \* the peers UpdatePreferredDownload marks
          None,
          BLOCK_DOWNLOAD_WINDOW,
          MAX_BLOCKS_IN_TRANSIT_PER_PEER,
          MaxLeft     \* bound: nQueuedValidatedHeaders less the blocks in flight

ASSUME BlockDownloadAssumption ==
  /\ IsFiniteSet(Peers) /\ Preferred \subseteq Peers
  /\ None \notin Blocks \cup Peers
  /\ {BLOCK_DOWNLOAD_WINDOW, MAX_BLOCKS_IN_TRANSIT_PER_PEER, MaxLeft} \subseteq Nat \ {0}

VARIABLES status,       \* of every block: "unknown", "header", "data" or "failed"
          tip,          \* chainActive.Tip()
          peer,         \* "off", "connected" or "ready" (version received)
          fSyncStarted, \* peers with whom block sync was started
          best,         \* pindexBestKnownBlock of every peer
          lastUnknown,  \* hashLastUnknownBlock of every peer
          common,       \* pindexLastCommonBlock of every peer
          vBlocksInFlight, nBlocksInFlight, \* of every peer
          stalling,     \* peers with nStallingSince # 0
          mapBlocksInFlight, nQueuedValidatedHeaders, nSyncStarted, nPreferredDownload,
          asked         \* blocks in flight whose getdata was not answered yet

peerVars == <<best, lastUnknown, common>>
flightVars == <<vBlocksInFlight, nBlocksInFlight, stalling, mapBlocksInFlight,
                nQueuedValidatedHeaders>>
syncVars == <<fSyncStarted, nSyncStarted, nPreferredDownload>>
vars == <<status, tip, peer, peerVars, flightVars, syncVars, asked>>

Init ==
  /\ status = [b \in Blocks |-> IF b = Genesis THEN "data" ELSE "unknown"]
  /\ tip = Genesis
  /\ peer = [p \in Peers |-> "off"]
  /\ fSyncStarted = {} /\ stalling = {} /\ asked = {}
  /\ best = [p \in Peers |-> None]
  /\ lastUnknown = [p \in Peers |-> None]
  /\ common = [p \in Peers |-> None]
  /\ vBlocksInFlight = [p \in Peers |-> <<>>]
  /\ nBlocksInFlight = [p \in Peers |-> 0]
  /\ mapBlocksInFlight = [b \in Blocks |-> None]
  /\ nQueuedValidatedHeaders = 0 /\ nSyncStarted = 0 /\ nPreferredDownload = 0

-----------------------------------------------------------------------------
(* Connections.                                                            *)

\* A new CNodeState: the values of a peer that is off are the initial ones.
InitializeNode(p) ==
  /\ peer[p] = "off"
  /\ peer' = [peer EXCEPT ![p] = "connected"]
  /\ UNCHANGED <<status, tip, peerVars, flightVars, syncVars, asked>>

\* The version message: UpdatePreferredDownload.
Version(p) ==
  /\ peer[p] = "connected"
  /\ peer' = [peer EXCEPT ![p] = "ready"]
  /\ nPreferredDownload' = nPreferredDownload + (IF p \in Preferred THEN 1 ELSE 0)
  /\ UNCHANGED <<status, tip, peerVars, flightVars, fSyncStarted, nSyncStarted, asked>>

\* The blocks FinalizeNode erases from mapBlocksInFlight.
Released(p) == Range(vBlocksInFlight[p])

\* Mutant: the peer that is being synced from is still counted.
SyncPeersLeft_All(p) == nSyncStarted

SyncPeersLeft(p) == nSyncStarted - (IF p \in fSyncStarted THEN 1 ELSE 0)

\* Requests of peers that left, which are counted for ever.
LeftOver == nQueuedValidatedHeaders - Cardinality({b \in Blocks : mapBlocksInFlight[b] # None})

\* The peer and its CNodeState are gone.  nQueuedValidatedHeaders stays.
FinalizeNode(p) ==
  /\ peer[p] # "off"
  /\ LeftOver + nBlocksInFlight[p] =< MaxLeft
  /\ peer' = [peer EXCEPT ![p] = "off"]
  /\ nSyncStarted' = SyncPeersLeft(p)
  /\ mapBlocksInFlight' = [b \in Blocks |-> IF b \in Released(p) THEN None ELSE mapBlocksInFlight[b]]
  /\ nPreferredDownload' = nPreferredDownload -
       (IF peer[p] = "ready" /\ p \in Preferred THEN 1 ELSE 0)
  /\ asked' = asked \ Released(p)
  /\ best' = [best EXCEPT ![p] = None]
  /\ lastUnknown' = [lastUnknown EXCEPT ![p] = None]
  /\ common' = [common EXCEPT ![p] = None]
  /\ vBlocksInFlight' = [vBlocksInFlight EXCEPT ![p] = <<>>]
  /\ nBlocksInFlight' = [nBlocksInFlight EXCEPT ![p] = 0]
  /\ fSyncStarted' = fSyncStarted \ {p}
  /\ stalling' = stalling \ {p}
  /\ UNCHANGED <<status, tip, nQueuedValidatedHeaders>>

-----------------------------------------------------------------------------
(* Announcements and blocks.                                               *)

\* The announced block if it has at least the work of the best one known.
Better(old, b) == IF old = None \/ nHeight[b] >= nHeight[old] THEN b ELSE old

\* ProcessBlockAvailability
BestAfterCheck(p) ==
  IF lastUnknown[p] # None /\ status[lastUnknown[p]] # "unknown"
  THEN Better(best[p], lastUnknown[p]) ELSE best[p]

UnknownAfterCheck(p) ==
  IF lastUnknown[p] # None /\ status[lastUnknown[p]] # "unknown" THEN None ELSE lastUnknown[p]

\* inv: UpdateBlockAvailability.  The getdata for an unknown block is not
\* recorded anywhere; its answer is a ReceiveBlock.
Inv(p, b) ==
  LET known == status[b] # "unknown" IN
  /\ peer[p] = "ready"
  /\ best' = [best EXCEPT ![p] = IF known THEN Better(BestAfterCheck(p), b) ELSE BestAfterCheck(p)]
  /\ lastUnknown' = [lastUnknown EXCEPT ![p] = IF known THEN UnknownAfterCheck(p) ELSE b]
  /\ UNCHANGED <<status, tip, peer, common, flightVars, syncVars, asked>>

\* list::erase with the iterator that mapBlocksInFlight has for the block.
Erase(list, b) == RemoveAt(list, CHOOSE i \in DOMAIN list : list[i] = b)

\* MarkBlockAsReceived
MarkBlockAsReceived(b) ==
  LET q == mapBlocksInFlight[b] IN
  IF q = None THEN UNCHANGED flightVars
  ELSE /\ nQueuedValidatedHeaders' = nQueuedValidatedHeaders - 1
       /\ vBlocksInFlight' = [vBlocksInFlight EXCEPT ![q] = Erase(@, b)]
       /\ nBlocksInFlight' = [nBlocksInFlight EXCEPT ![q] = @ - 1]
       /\ stalling' = stalling \ {q}
       /\ mapBlocksInFlight' = [mapBlocksInFlight EXCEPT ![b] = None]

Linked(b, st) == \A a \in Ancestors[b] : st[a] = "data"

\* The tip after ActivateBestChain.
BestTip(st) ==
  IF \E b \in Blocks : Linked(b, st) /\ nHeight[b] > nHeight[tip]
  THEN {b \in Blocks : Linked(b, st) /\ \A x \in Blocks : Linked(x, st) => nHeight[x] =< nHeight[b]}
  ELSE {tip}

\* ProcessNewBlock once the parent is known.  CheckBlock fails or the parent
\* failed (nothing changes), the block stays without data because its stake is
\* not available ("header"), fails for good, or is stored and activated.
ProcessNewBlock(b, outcome) ==
  /\ status[b] \in {"unknown", "header"}
  /\ outcome \in IF status[Parent[b]] = "failed" THEN {status[b]}
                 ELSE {status[b], "header", "failed", "data"}
  /\ MarkBlockAsReceived(b)
  /\ asked' = asked \ {b}
  /\ status' = [status EXCEPT ![b] = outcome]
  /\ tip' \in BestTip(status')

\* block, from any peer: one that the index does not have yet is processed.
ReceiveBlock(b, outcome) ==
  /\ "ready" \in Range(peer)
  /\ b # Genesis /\ status[Parent[b]] # "unknown"
  /\ status[b] = "unknown"
  /\ ProcessNewBlock(b, outcome)
  /\ UNCHANGED <<peer, peerVars, syncVars>>

\* block: the answer to getdata for a block of which the index has an entry,
\* "Already processed block": ProcessNewBlock is skipped.
SkipBlock(b) ==
  /\ b \in asked
  /\ status[b] # "unknown"
  /\ asked' = asked \ {b}
  /\ UNCHANGED <<status, tip, peer, peerVars, flightVars, syncVars>>

\* submitblock, which also processes a block whose header is known.
SubmitBlock(b, outcome) ==
  /\ b # Genesis /\ status[Parent[b]] # "unknown"
  /\ ProcessNewBlock(b, outcome)
  /\ UNCHANGED <<peer, peerVars, syncVars>>

-----------------------------------------------------------------------------
(* SendMessages.                                                           *)

\* The lowest n blocks of a chain.
Lowest(chain, n) == {x \in chain : Cardinality({y \in chain : nHeight[y] < nHeight[x]}) < n}

\* vBlocks as a list, lowest first (there is one order: the heights differ).
InOrder(chain) ==
  {list \in SetToSeqs(chain) :
     \A i, j \in DOMAIN list : i < j => nHeight[list[i]] < nHeight[list[j]]}

\* pindexLastCommonBlock before the walk: guessed on the active chain, then
\* moved back to the chain of the peer's best block bk.
StartCommon(p, bk) ==
  LET onActive == Top({x \in Ancestors[tip] : nHeight[x] =< nHeight[bk]})
      start    == IF common[p] = None THEN onActive ELSE common[p]
  IN  Top(Ancestors[start] \cap Ancestors[bk])

\* The blocks FindNextBlocksToDownload looks at: from the common block to bk,
\* at most one beyond the window, up to the first failed one.
Walk(start, bk) ==
  LET path == {x \in Ancestors[bk] \ Ancestors[start] :
                 nHeight[x] =< nHeight[start] + BLOCK_DOWNLOAD_WINDOW + 1}
  IN  {x \in path : \A y \in path \cap Ancestors[x] : status[y] # "failed"}

Missing(walk) == {x \in walk : status[x] = "header" /\ mapBlocksInFlight[x] = None}

\* Mutant: any block with data is taken to be complete.
Complete_Alone(walked) == {x \in walked : status[x] = "data"}

\* The blocks of the walk with nChainTx.
Complete(walked) == {x \in walked : Linked(x, status)}

\* Mutant: the block just beyond the window is requested as well.
InWindow_PlusOne(x, start) == nHeight[x] =< nHeight[start] + BLOCK_DOWNLOAD_WINDOW + 1

InWindow(x, start) == nHeight[x] =< nHeight[start] + BLOCK_DOWNLOAD_WINDOW

\* Mutant: blocks in flight from another peer are requested again without
\* looking at mapBlocksInFlight.
ToDownload_InFlightToo(walk, start, n) ==
  Lowest({x \in walk : status[x] = "header" /\ InWindow(x, start)}, n)

\* vBlocks: the first n missing blocks inside the window.
ToDownload(walk, start, n) == Lowest({x \in Missing(walk) : InWindow(x, start)}, n)

\* The part of the walk before the return: it ends with the n-th block found.
Walked(walk, start, n) ==
  LET found == ToDownload(walk, start, n)
  IN  IF Cardinality(found) = n
      THEN {x \in walk : nHeight[x] =< nHeight[Top(found)]} ELSE walk

\* The peer the window waits for: nothing can be requested, but one block
\* could if the window were one larger.
Staller(p, walk, start, n) ==
  LET inFlight == {x \in walk : status[x] = "header" /\ mapBlocksInFlight[x] # None}
      beyond   == {x \in Missing(walk) : ~InWindow(x, start)}
      first    == Lowest(inFlight, 1)
  IN  IF ToDownload(walk, start, n) = {} /\ beyond # {}
      THEN {mapBlocksInFlight[x] : x \in first} \ {p} ELSE {}

\* Mutant: only nice peers are fetched from.
fFetch_NiceOnly(p) == p \in Preferred

\* "Download if this is a nice peer, or we have no nice peers".
fFetch(p) == p \in Preferred \/ nPreferredDownload = 0

\* Block sync is started with one peer, or, when the best header is less than
\* six hours old, with every peer.
StartSync(p, recent) ==
  IF p \notin fSyncStarted /\ ((nSyncStarted = 0 /\ fFetch(p)) \/ recent)
  THEN /\ fSyncStarted' = fSyncStarted \cup {p}
       /\ nSyncStarted' = nSyncStarted + 1
  ELSE UNCHANGED <<fSyncStarted, nSyncStarted>>

\* MarkBlockAsInFlight for every block to request, and the stalling mark.
Request(p, found, staller) ==
  /\ nQueuedValidatedHeaders' = nQueuedValidatedHeaders + Cardinality(found)
  /\ \E list \in InOrder(found) : vBlocksInFlight' = [vBlocksInFlight EXCEPT ![p] = @ \o list]
  /\ nBlocksInFlight' = [nBlocksInFlight EXCEPT ![p] = @ + Cardinality(found)]
  /\ mapBlocksInFlight' = [b \in Blocks |-> IF b \in found THEN p ELSE mapBlocksInFlight[b]]
  /\ stalling' = IF nBlocksInFlight'[p] = 0 THEN stalling \cup staller ELSE stalling
  /\ asked' = asked \cup found

\* FindNextBlocksToDownload and what SendMessages does with its result.
Download(p) ==
  LET n  == MAX_BLOCKS_IN_TRANSIT_PER_PEER - nBlocksInFlight[p]
      bk == BestAfterCheck(p)
  IN  IF ~fFetch(p) \/ n =< 0
      THEN UNCHANGED <<peerVars, flightVars, asked>>
      ELSE /\ best' = [best EXCEPT ![p] = bk]
           /\ lastUnknown' = [lastUnknown EXCEPT ![p] = UnknownAfterCheck(p)]
           /\ IF bk = None \/ nHeight[bk] < nHeight[tip]
              THEN UNCHANGED <<common, flightVars, asked>>
              ELSE LET start == StartCommon(p, bk)
                       walk  == Walk(start, bk)
                   IN  /\ common' = [common EXCEPT ![p] =
                                        Top({start} \cup Complete(Walked(walk, start, n)))]
                       /\ Request(p, ToDownload(walk, start, n), Staller(p, walk, start, n))

\* One round of the message handler for a peer that is not about to be
\* disconnected (disconnection is FinalizeNode, at any time).
SendMessages(p, recent) ==
  /\ peer[p] = "ready"
  /\ StartSync(p, recent)
  /\ Download(p)
  /\ UNCHANGED <<status, tip, peer, nPreferredDownload>>

Next ==
  \/ \E p \in Peers : InitializeNode(p)
  \/ \E p \in Peers : Version(p)
  \/ \E p \in Peers : FinalizeNode(p)
  \/ \E p \in Peers, b \in Blocks : Inv(p, b)
  \/ \E b \in Blocks, o \in {"unknown", "header", "failed", "data"} : ReceiveBlock(b, o)
  \/ \E b \in Blocks : SkipBlock(b)
  \/ \E b \in Blocks, o \in {"unknown", "header", "failed", "data"} : SubmitBlock(b, o)
  \/ \E p \in Peers, recent \in BOOLEAN : SendMessages(p, recent)

Spec == Init /\ [][Next]_vars

-----------------------------------------------------------------------------
(* Properties.                                                             *)

\* mapBlocksInFlight and the lists of the peers agree: every block in flight
\* is in exactly one list, once, of a peer that is still connected (so that
\* State(staller) and MarkBlockAsReceived find it), and the counter of the
\* peer is the length of its list.
InFlightConsistent ==
  \A p \in Peers :
    /\ Range(vBlocksInFlight[p]) = {b \in Blocks : mapBlocksInFlight[b] = p}
    /\ nBlocksInFlight[p] = Len(vBlocksInFlight[p])
    /\ Cardinality(Range(vBlocksInFlight[p])) = nBlocksInFlight[p]
    /\ p \in stalling \/ nBlocksInFlight[p] > 0 => peer[p] = "ready"

\* nSyncStarted and nPreferredDownload count connected peers only: a peer
\* that left can neither hold up block sync nor keep others from fetching.
CountersExact ==
  /\ nSyncStarted = Cardinality(fSyncStarted)
  /\ \A p \in fSyncStarted : peer[p] = "ready"
  /\ nPreferredDownload = Cardinality({p \in Preferred : peer[p] = "ready"})

\* "The last full block we both have": pindexLastCommonBlock is complete down
\* to the genesis block, however both sides reorganise.
CommonIsFull == \A p \in Peers : common[p] # None => Linked(common[p], status)

\* FindNextBlocksToDownload requests only missing blocks that nobody was asked
\* for, on the chain the peer announced, within the window above the last
\* common block.
RequestsWithinWindow ==
  [][\A p \in Peers, b \in Blocks :
       mapBlocksInFlight'[b] = p /\ mapBlocksInFlight[b] # p =>
         /\ mapBlocksInFlight[b] = None /\ status[b] = "header"
         /\ b \in Ancestors[best'[p]]
         /\ nHeight[b] =< nHeight[common'[p]] + BLOCK_DOWNLOAD_WINDOW]_vars

\* Block sync can always be started: while it is under way with nobody, the
\* next SendMessages of one of the ready peers starts it, whoever left.
SyncCanStart ==
  (\E p \in Peers : peer[p] = "ready") /\ fSyncStarted = {} =>
    \E p \in Peers : peer[p] = "ready" /\ nSyncStarted = 0 /\ fFetch(p)

\* The block message handler skips a block it "Already processed": not one of
\* which only the header is known.
SkippedWasProcessed ==
  [][\A b \in Blocks : SkipBlock(b) => status[b] # "header"]_vars
=============================================================================
