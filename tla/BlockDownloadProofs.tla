------------------------ MODULE BlockDownloadProofs ------------------------
(***************************************************************************)
(* Block download, for every set of peers and every tree of blocks: the    *)
(* counters and what they are for (block sync can always be started), the  *)
(* last common blocks and the window above them, and the lists of blocks   *)
(* in flight.                                                              *)
(*                                                                         *)
(* CountersExact is not inductive without the types.  FinalizeNode's       *)
(* subtraction is right because a peer with fSyncStarted is "ready", and   *)
(* a preferred one was counted when it became so, exactly once.            *)
(***************************************************************************)
EXTENDS BlockDownload, ChainsProofs, SequenceTheorems

CountersInv ==
  /\ peer \in [Peers -> {"off", "connected", "ready"}]
  /\ fSyncStarted \subseteq Peers
  /\ CountersExact

\* The preferred peers that are ready in pr.
Nice(pr) == {p \in Preferred : pr[p] = "ready"}

\* Sets of peers are finite, and counting one peer in or out is plus or minus
\* one.
LEMMA CountPeers ==
  ASSUME NEW S \in SUBSET Peers, NEW p \in Peers
  PROVE  /\ Cardinality(S) \in Nat
         /\ Cardinality(S \cup {p}) = Cardinality(S) + (IF p \in S THEN 0 ELSE 1)
         /\ Cardinality(S \ {p}) = Cardinality(S) - (IF p \in S THEN 1 ELSE 0)
<1>1. IsFiniteSet(S)
  BY FS_Subset, BlockDownloadAssumption
<1>2. Cardinality(S) \in Nat
  BY <1>1, FS_CardinalityType
<1>3. Cardinality(S \cup {p}) = IF p \in S THEN Cardinality(S) ELSE Cardinality(S) + 1
  BY <1>1, FS_AddElement
<1>4. Cardinality(S \ {p}) = IF p \in S THEN Cardinality(S) - 1 ELSE Cardinality(S)
  BY <1>1, FS_RemoveElement
<1> QED
  BY <1>2, <1>3, <1>4

\* The empty sets are counted as zero.
LEMMA CountersInit == Init => CountersInv
<1> SUFFICES ASSUME Init PROVE CountersInv
  OBVIOUS
<1>1. {p \in Preferred : peer[p] = "ready"} = {}
  BY BlockDownloadAssumption DEF Init
<1> QED
  BY <1>1, FS_EmptySet DEF Init, CountersInv, CountersExact

\* Steps that leave connections and counters alone.
LEMMA CountersSame ==
  ASSUME CountersInv, UNCHANGED <<peer, syncVars>>
  PROVE  CountersInv'
  BY DEF CountersInv, CountersExact, syncVars

\* A connection that has not sent its version is not counted.
LEMMA CountersInitializeNode ==
  ASSUME CountersInv, NEW p \in Peers, InitializeNode(p)
  PROVE  CountersInv'
<1>1. Nice(peer') = Nice(peer)
  BY BlockDownloadAssumption DEF InitializeNode, CountersInv, Nice
<1> QED
  BY <1>1 DEF InitializeNode, CountersInv, CountersExact, syncVars, Nice

\* UpdatePreferredDownload counts the peer once.
LEMMA CountersVersion ==
  ASSUME CountersInv, NEW p \in Peers, Version(p)
  PROVE  CountersInv'
<1>1. peer' \in [Peers -> {"off", "connected", "ready"}]
  BY DEF Version, CountersInv
<1>2. Nice(peer') = IF p \in Preferred THEN Nice(peer) \cup {p} ELSE Nice(peer)
  BY BlockDownloadAssumption DEF Version, CountersInv, Nice
<1>3. Nice(peer) \in SUBSET Peers /\ p \notin Nice(peer)
  BY BlockDownloadAssumption DEF Version, Nice
<1>4. nPreferredDownload' = Cardinality(Nice(peer'))
  <2>1. nPreferredDownload = Cardinality(Nice(peer))
    BY DEF CountersInv, CountersExact, Nice
  <2>2. /\ Cardinality(Nice(peer)) \in Nat
        /\ Cardinality(Nice(peer) \cup {p}) = Cardinality(Nice(peer)) + 1
    BY <1>3, CountPeers
  <2>3. nPreferredDownload' = nPreferredDownload + (IF p \in Preferred THEN 1 ELSE 0)
    BY DEF Version
  <2> QED
    BY <1>2, <2>1, <2>2, <2>3
<1>5. \A q \in fSyncStarted : peer'[q] = "ready"
  BY DEF Version, CountersInv, CountersExact
<1> QED
  BY <1>1, <1>4, <1>5 DEF Version, CountersInv, CountersExact, Nice

\* FinalizeNode takes out what the peer was counted for.
LEMMA CountersFinalizeNode ==
  ASSUME CountersInv, NEW p \in Peers, FinalizeNode(p)
  PROVE  CountersInv'
<1>1. peer' \in [Peers -> {"off", "connected", "ready"}]
  BY DEF FinalizeNode, CountersInv
<1>2. Nice(peer') = Nice(peer) \ {p}
  BY BlockDownloadAssumption DEF FinalizeNode, CountersInv, Nice
<1>3. Nice(peer) \in SUBSET Peers /\ (p \in Nice(peer) <=> peer[p] = "ready" /\ p \in Preferred)
  BY BlockDownloadAssumption DEF Nice
<1>4. nPreferredDownload' = Cardinality(Nice(peer'))
  <2>1. nPreferredDownload = Cardinality(Nice(peer))
    BY DEF CountersInv, CountersExact, Nice
  <2>2. Cardinality(Nice(peer) \ {p}) =
          Cardinality(Nice(peer)) - (IF p \in Nice(peer) THEN 1 ELSE 0)
    BY <1>3, CountPeers
  <2>3. nPreferredDownload' = nPreferredDownload -
          (IF peer[p] = "ready" /\ p \in Preferred THEN 1 ELSE 0)
    BY DEF FinalizeNode
  <2> QED
    BY <1>2, <1>3, <2>1, <2>2, <2>3
<1>5. nSyncStarted' = Cardinality(fSyncStarted')
  BY CountPeers DEF FinalizeNode, SyncPeersLeft, CountersInv, CountersExact
<1>6. \A q \in fSyncStarted' : peer'[q] = "ready"
  BY DEF FinalizeNode, CountersInv, CountersExact
<1> QED
  BY <1>1, <1>4, <1>5, <1>6 DEF FinalizeNode, CountersInv, CountersExact, Nice

\* StartSync counts a peer that was not counted.
LEMMA CountersSendMessages ==
  ASSUME CountersInv, NEW p \in Peers, NEW recent \in BOOLEAN, SendMessages(p, recent)
  PROVE  CountersInv'
<1>1. UNCHANGED <<peer, nPreferredDownload>> /\ peer[p] = "ready"
  BY DEF SendMessages
<1>2. CASE UNCHANGED <<fSyncStarted, nSyncStarted>>
  BY <1>1, <1>2, CountersSame DEF syncVars
<1>3. CASE /\ p \notin fSyncStarted
           /\ fSyncStarted' = fSyncStarted \cup {p}
           /\ nSyncStarted' = nSyncStarted + 1
  <2>1. nSyncStarted' = Cardinality(fSyncStarted')
    BY <1>3, CountPeers DEF CountersInv, CountersExact
  <2> QED
    BY <1>1, <1>3, <2>1 DEF CountersInv, CountersExact
<1> QED
  BY <1>2, <1>3 DEF SendMessages, StartSync

\* Every step preserves the invariant.
LEMMA CountersNext == CountersInv /\ [Next]_vars => CountersInv'
<1> SUFFICES ASSUME CountersInv, [Next]_vars PROVE CountersInv'
  OBVIOUS
<1>1. ASSUME NEW p \in Peers, InitializeNode(p) PROVE CountersInv'
  BY <1>1, CountersInitializeNode
<1>2. ASSUME NEW p \in Peers, Version(p) PROVE CountersInv'
  BY <1>2, CountersVersion
<1>3. ASSUME NEW p \in Peers, FinalizeNode(p) PROVE CountersInv'
  BY <1>3, CountersFinalizeNode
<1>4. ASSUME NEW p \in Peers, NEW b \in Blocks, Inv(p, b) PROVE CountersInv'
  BY <1>4, CountersSame DEF Inv
<1>5. ASSUME NEW b \in Blocks, NEW o, ReceiveBlock(b, o) \/ SubmitBlock(b, o) PROVE CountersInv'
  BY <1>5, CountersSame DEF ReceiveBlock, SubmitBlock
<1>6. ASSUME NEW b \in Blocks, SkipBlock(b) PROVE CountersInv'
  BY <1>6, CountersSame DEF SkipBlock
<1>7. ASSUME NEW p \in Peers, NEW recent \in BOOLEAN, SendMessages(p, recent) PROVE CountersInv'
  BY <1>7, CountersSendMessages
<1>8. CASE UNCHANGED vars
  BY <1>8, CountersSame DEF vars
<1> QED
  BY <1>1, <1>2, <1>3, <1>4, <1>5, <1>6, <1>7, <1>8 DEF Next

\* For any peers, nSyncStarted and nPreferredDownload count exactly the peers
\* they are meant to count, however connections come and go.
THEOREM CountersAlwaysExact == Spec => []CountersExact
<1>1. CountersInv => CountersExact
  BY DEF CountersInv
<1> QED
  BY <1>1, CountersInit, CountersNext, PTL DEF Spec

\* What the counters are for: when block sync is under way with nobody, some
\* ready peer passes the test of SendMessages, a preferred one if there is any.
LEMMA CountersLetSyncStart == CountersInv => SyncCanStart
<1> SUFFICES ASSUME CountersInv, NEW p \in Peers, peer[p] = "ready", fSyncStarted = {}
             PROVE  \E q \in Peers : peer[q] = "ready" /\ nSyncStarted = 0 /\ fFetch(q)
  BY DEF SyncCanStart
<1>1. nSyncStarted = 0
  BY FS_EmptySet DEF CountersInv, CountersExact
<1>2. CASE Nice(peer) = {}
  <2>1. nPreferredDownload = 0
    BY <1>2, FS_EmptySet DEF CountersInv, CountersExact, Nice
  <2> QED
    BY <1>1, <2>1 DEF fFetch
<1>3. CASE Nice(peer) # {}
  <2>1. PICK q \in Nice(peer) : TRUE
    BY <1>3
  <2> QED
    BY <1>1, <2>1, BlockDownloadAssumption DEF fFetch, Nice
<1> QED
  BY <1>2, <1>3

\* For any peers, no departure leaves the node unable to start block sync with
\* one of those that remain.
THEOREM SyncCanAlwaysStart == Spec => []SyncCanStart
  BY CountersLetSyncStart, CountersInit, CountersNext, PTL DEF Spec

-----------------------------------------------------------------------------
(* The last common blocks.                                                 *)

DownloadInv ==
  /\ status \in [Blocks -> {"unknown", "header", "data", "failed"}]
  /\ tip \in Blocks /\ Linked(tip, status)
  /\ best \in [Peers -> Blocks \cup {None}]
  /\ lastUnknown \in [Peers -> Blocks \cup {None}]
  /\ common \in [Peers -> Blocks \cup {None}]
  /\ mapBlocksInFlight \in [Blocks -> Peers \cup {None}]
  /\ CommonIsFull

\* What SendMessages may do to the requests recorded for a block.
WithinWindow ==
  \A p \in Peers, b \in Blocks :
    mapBlocksInFlight'[b] = p /\ mapBlocksInFlight[b] # p =>
      /\ mapBlocksInFlight[b] = None /\ status[b] = "header"
      /\ b \in Ancestors[best'[p]]
      /\ nHeight[b] =< nHeight[common'[p]] + BLOCK_DOWNLOAD_WINDOW

\* The height of the genesis block is zero.
LEMMA GenesisLowest == Genesis \in Blocks /\ nHeight[Genesis] = 0
<1>1. Genesis \in Blocks /\ Cardinality(Ancestors[Genesis]) = 1
  BY ChainsAssumption, ChainGenesis, FS_Singleton
<1> QED
  BY <1>1 DEF nHeight

\* What is below a complete block is complete.
LEMMA LinkedBelow ==
  ASSUME NEW st, NEW b \in Blocks, Linked(b, st), NEW a \in Ancestors[b]
  PROVE  a \in Blocks /\ Linked(a, st)
  BY ChainTransitive DEF Linked

\* The walk of FindNextBlocksToDownload starts at a complete block of the
\* peer's chain.
LEMMA StartIsFull ==
  ASSUME DownloadInv, NEW p \in Peers, NEW bk \in Blocks
  PROVE  StartCommon(p, bk) \in Blocks /\ Linked(StartCommon(p, bk), status)
<1> DEFINE S     == {x \in Ancestors[tip] : nHeight[x] =< nHeight[bk]}
           start == IF common[p] = None THEN Top(S) ELSE common[p]
           T     == Ancestors[start] \cap Ancestors[bk]
<1>1. tip \in Blocks /\ Linked(tip, status) /\ common[p] \in Blocks \cup {None}
  BY DEF DownloadInv
<1>2. S \in SUBSET Blocks /\ S # {}
  <2>1. Genesis \in Ancestors[tip]
    BY <1>1, ChainsAssumption
  <2>2. nHeight[Genesis] =< nHeight[bk]
    BY GenesisLowest, HeightBounded
  <2> QED
    BY <1>1, <2>1, <2>2, ChainClosed
<1>3. Top(S) \in S
  BY <1>2, TopIsHighest
<1>4. Top(S) \in Ancestors[tip]
  BY <1>3
<1>5. StartCommon(p, bk) = Top(T)
  BY DEF StartCommon
<1> HIDE DEF S
<1>6. start \in Blocks /\ Linked(start, status)
  <2>1. CASE common[p] = None
    BY <1>1, <1>4, <2>1, LinkedBelow
  <2>2. CASE common[p] # None
    BY <1>1, <2>2 DEF DownloadInv, CommonIsFull
  <2> QED
    BY <2>1, <2>2
<1> HIDE DEF start
<1>7. T \in SUBSET Blocks /\ T # {}
  BY <1>6, ChainClosed, ChainsAssumption
<1>8. Top(T) \in T
  BY <1>7, TopIsHighest
<1> QED
  BY <1>5, <1>6, <1>8, LinkedBelow

\* It ends at a complete block that is not below the start.
LEMMA NewCommonIsFull ==
  ASSUME NEW start \in Blocks, Linked(start, status), NEW bk \in Blocks, NEW n
  PROVE  LET c == Top({start} \cup Complete(Walked(Walk(start, bk), start, n)))
         IN  c \in Blocks /\ Linked(c, status) /\ nHeight[start] =< nHeight[c]
<1> DEFINE W == Walked(Walk(start, bk), start, n)
           S == {start} \cup Complete(W)
<1>1. W \subseteq Ancestors[bk]
  BY DEF Walked, Walk
<1>2. S \in SUBSET Blocks /\ S # {} /\ \A x \in S : Linked(x, status)
  <2> HIDE DEF W
  <2> QED
    BY <1>1, ChainClosed DEF Complete
<1>3. start \in S
  OBVIOUS
<1> HIDE DEF S
<1>4. Top(S) \in S /\ nHeight[start] =< nHeight[Top(S)]
  BY <1>2, <1>3, TopIsHighest
<1>5. Top(S) \in Blocks /\ Linked(Top(S), status)
  BY <1>2, <1>4
<1> QED
  BY <1>4, <1>5 DEF S

\* What is requested is missing, inside the window and on the peer's chain.
LEMMA RequestedIsMissing ==
  ASSUME NEW start, NEW bk, NEW n, NEW x \in ToDownload(Walk(start, bk), start, n)
  PROVE  /\ x \in Ancestors[bk] /\ InWindow(x, start)
         /\ status[x] = "header" /\ mapBlocksInFlight[x] = None
  BY DEF ToDownload, Lowest, Missing, Walk

\* The best known block is one of the blocks.
LEMMA BestType ==
  ASSUME DownloadInv, NEW p \in Peers
  PROVE  /\ BestAfterCheck(p) \in Blocks \cup {None}
         /\ UnknownAfterCheck(p) \in Blocks \cup {None}
  BY DEF DownloadInv, BestAfterCheck, UnknownAfterCheck, Better

\* At the beginning only the genesis block is there.
LEMMA DownloadInit == Init => DownloadInv
<1> SUFFICES ASSUME Init PROVE DownloadInv
  OBVIOUS
<1>1. status \in [Blocks -> {"unknown", "header", "data", "failed"}]
  BY DEF Init
<1>2. tip \in Blocks /\ Linked(tip, status)
  BY ChainsAssumption, ChainGenesis DEF Init, Linked
<1>3. CommonIsFull
  BY DEF Init, CommonIsFull
<1> QED
  BY <1>1, <1>2, <1>3 DEF Init, DownloadInv

\* Steps that change neither blocks nor what is known of the peers.
LEMMA DownloadSame ==
  ASSUME DownloadInv, UNCHANGED <<status, tip, peerVars, mapBlocksInFlight>>
  PROVE  DownloadInv'
  BY DEF DownloadInv, CommonIsFull, peerVars, Linked

\* Requests that are only taken back.
LEMMA WindowReleased ==
  ASSUME \A b \in Blocks : mapBlocksInFlight'[b] \in {mapBlocksInFlight[b], None}
  PROVE  WithinWindow
  BY BlockDownloadAssumption DEF WithinWindow

\* A peer leaves.
LEMMA DownloadFinalizeNode ==
  ASSUME DownloadInv, NEW p \in Peers, FinalizeNode(p)
  PROVE  DownloadInv' /\ WithinWindow
<1>1. /\ best' \in [Peers -> Blocks \cup {None}]
      /\ lastUnknown' \in [Peers -> Blocks \cup {None}]
      /\ common' \in [Peers -> Blocks \cup {None}]
      /\ \A q \in Peers : common'[q] \in {common[q], None}
      /\ UNCHANGED <<status, tip>>
  BY DEF FinalizeNode, DownloadInv
<1>2. CommonIsFull'
  BY <1>1 DEF DownloadInv, CommonIsFull, Linked
<1>3. /\ \A b \in Blocks : mapBlocksInFlight'[b] \in {mapBlocksInFlight[b], None}
      /\ mapBlocksInFlight' \in [Blocks -> Peers \cup {None}]
  BY DEF FinalizeNode, DownloadInv
<1>4. WithinWindow
  BY <1>3, WindowReleased
<1>5. DownloadInv'
  BY <1>1, <1>2, <1>3 DEF DownloadInv, Linked
<1> QED
  BY <1>4, <1>5

\* An announcement.
LEMMA DownloadAnnounced ==
  ASSUME DownloadInv, NEW p \in Peers, NEW b \in Blocks, Inv(p, b)
  PROVE  DownloadInv' /\ WithinWindow
<1>1. UNCHANGED <<status, tip, common, mapBlocksInFlight>>
  BY DEF Inv, flightVars
<1>2. /\ BestAfterCheck(p) \in Blocks \cup {None} /\ UnknownAfterCheck(p) \in Blocks \cup {None}
      /\ Better(BestAfterCheck(p), b) \in Blocks \cup {None}
  BY BestType DEF Better
<1>3. /\ best' \in [Peers -> Blocks \cup {None}]
      /\ lastUnknown' \in [Peers -> Blocks \cup {None}]
  BY <1>2 DEF Inv, DownloadInv
<1>4. DownloadInv'
  BY <1>1, <1>3 DEF DownloadInv, CommonIsFull, Linked
<1>5. WithinWindow
  BY <1>1, WindowReleased
<1> QED
  BY <1>4, <1>5

\* A block: complete chains stay complete.
LEMMA DownloadProcessNewBlock ==
  ASSUME DownloadInv, NEW b \in Blocks, NEW o \in {"unknown", "header", "failed", "data"},
         ProcessNewBlock(b, o), UNCHANGED peerVars
  PROVE  DownloadInv' /\ WithinWindow
<1>1. /\ status' \in [Blocks -> {"unknown", "header", "data", "failed"}]
      /\ \A x \in Blocks : status[x] = "data" => status'[x] = "data"
  BY DEF ProcessNewBlock, DownloadInv
<1>2. \A x \in Blocks : Linked(x, status) => Linked(x, status')
  BY <1>1, ChainClosed DEF Linked
<1>3. tip' \in Blocks /\ Linked(tip', status')
  <2>1. tip' \in BestTip(status')
    BY DEF ProcessNewBlock
  <2>2. tip \in Blocks /\ Linked(tip, status')
    BY <1>2 DEF DownloadInv
  <2> QED
    BY <2>1, <2>2 DEF BestTip
<1>4. CommonIsFull'
  <2>1. common' = common /\ \A p \in Peers : common[p] \in Blocks \cup {None}
    BY DEF peerVars, DownloadInv
  <2>2. \A p \in Peers : common[p] # None => Linked(common[p], status')
    BY <1>2, <2>1 DEF DownloadInv, CommonIsFull
  <2> QED
    BY <2>1, <2>2 DEF CommonIsFull, Linked
<1>5. /\ \A x \in Blocks : mapBlocksInFlight'[x] \in {mapBlocksInFlight[x], None}
      /\ mapBlocksInFlight' \in [Blocks -> Peers \cup {None}]
  BY DEF ProcessNewBlock, MarkBlockAsReceived, flightVars, DownloadInv
<1>6. DownloadInv'
  BY <1>1, <1>3, <1>4, <1>5 DEF DownloadInv, peerVars, Linked
<1> QED
  BY <1>5, <1>6, WindowReleased

\* SendMessages: the common block moves up, and the requests are above it.
LEMMA DownloadSendMessages ==
  ASSUME DownloadInv, NEW p \in Peers, NEW recent \in BOOLEAN, SendMessages(p, recent)
  PROVE  DownloadInv' /\ WithinWindow
<1> DEFINE n  == MAX_BLOCKS_IN_TRANSIT_PER_PEER - nBlocksInFlight[p]
           bk == BestAfterCheck(p)
<1>1. UNCHANGED <<status, tip>> /\ Download(p)
  BY DEF SendMessages
<1>2. CASE ~fFetch(p) \/ n =< 0
  <2>1. UNCHANGED <<peerVars, mapBlocksInFlight>>
    BY <1>1, <1>2 DEF Download, flightVars
  <2> QED
    BY <1>1, <2>1, DownloadSame, WindowReleased
<1>3. CASE ~(~fFetch(p) \/ n =< 0)
  <2>1. /\ best' = [best EXCEPT ![p] = bk]
        /\ lastUnknown' = [lastUnknown EXCEPT ![p] = UnknownAfterCheck(p)]
    BY <1>1, <1>3 DEF Download
  <2>2. bk \in Blocks \cup {None} /\ UnknownAfterCheck(p) \in Blocks \cup {None}
    BY BestType
  <2>3. /\ best' \in [Peers -> Blocks \cup {None}] /\ best'[p] = bk
        /\ lastUnknown' \in [Peers -> Blocks \cup {None}]
    BY <2>1, <2>2 DEF DownloadInv
  <2>4. CASE bk = None \/ nHeight[bk] < nHeight[tip]
    <3>1. UNCHANGED <<common, mapBlocksInFlight>>
      BY <1>1, <1>3, <2>4 DEF Download, flightVars
    <3>2. DownloadInv'
      BY <1>1, <2>3, <3>1 DEF DownloadInv, CommonIsFull, Linked
    <3> QED
      BY <3>1, <3>2, WindowReleased
  <2>5. CASE ~(bk = None \/ nHeight[bk] < nHeight[tip])
    <3> DEFINE start == StartCommon(p, bk)
               walk  == Walk(start, bk)
               found == ToDownload(walk, start, n)
               c     == Top({start} \cup Complete(Walked(walk, start, n)))
    <3>1. /\ common' = [common EXCEPT ![p] = c]
          /\ mapBlocksInFlight' = [b \in Blocks |-> IF b \in found THEN p ELSE mapBlocksInFlight[b]]
      BY <1>1, <1>3, <2>5 DEF Download, Request
    <3>2. bk \in Blocks
      BY <2>2, <2>5
    <3>3. start \in Blocks /\ Linked(start, status)
      BY <3>2, StartIsFull
    <3> HIDE DEF bk, n
    <3>4. c \in Blocks /\ Linked(c, status) /\ nHeight[start] =< nHeight[c]
      <4> HIDE DEF start
      <4> QED
        BY <3>2, <3>3, NewCommonIsFull
    <3>5. \A x \in found : /\ x \in Ancestors[bk] /\ InWindow(x, start)
                            /\ status[x] = "header" /\ mapBlocksInFlight[x] = None
      <4> HIDE DEF start
      <4> QED
        BY RequestedIsMissing
    <3> HIDE DEF start, walk, found, c
    <3>6. /\ common' \in [Peers -> Blocks \cup {None}] /\ common'[p] = c
          /\ \A q \in Peers \ {p} : common'[q] = common[q]
      BY <3>1, <3>4 DEF DownloadInv
    <3>7. CommonIsFull'
      <4>1. \A q \in Peers : common'[q] # None => Linked(common'[q], status)
        BY <3>4, <3>6 DEF DownloadInv, CommonIsFull
      <4> QED
        BY <1>1, <4>1 DEF CommonIsFull, Linked
    <3>8. DownloadInv'
      BY <1>1, <2>3, <3>1, <3>6, <3>7 DEF DownloadInv, Linked
    <3>9. ASSUME NEW q \in Peers, NEW b \in Blocks,
                 mapBlocksInFlight'[b] = q, mapBlocksInFlight[b] # q
          PROVE  /\ mapBlocksInFlight[b] = None /\ status[b] = "header"
                 /\ b \in Ancestors[best'[q]]
                 /\ nHeight[b] =< nHeight[common'[q]] + BLOCK_DOWNLOAD_WINDOW
      <4>1. q = p /\ b \in found
        BY <3>1, <3>9
      <4>2. nHeight[b] =< nHeight[start] + BLOCK_DOWNLOAD_WINDOW
        BY <3>5, <4>1 DEF InWindow
      <4>3. /\ nHeight[b] \in Nat /\ nHeight[start] \in Nat /\ nHeight[c] \in Nat
            /\ BLOCK_DOWNLOAD_WINDOW \in Nat
        BY <3>3, <3>4, HeightBounded, BlockDownloadAssumption
      <4>4. nHeight[b] =< nHeight[c] + BLOCK_DOWNLOAD_WINDOW
        BY <3>4, <4>2, <4>3
      <4> QED
        BY <2>3, <3>5, <3>6, <4>1, <4>4
    <3>10. WithinWindow
      BY <3>9 DEF WithinWindow
    <3> QED
      BY <3>8, <3>10
  <2> QED
    BY <2>4, <2>5
<1> QED
  BY <1>2, <1>3

\* Every step.
LEMMA DownloadNext == DownloadInv /\ [Next]_vars => DownloadInv' /\ [WithinWindow]_vars
<1> SUFFICES ASSUME DownloadInv, [Next]_vars PROVE DownloadInv' /\ (WithinWindow \/ UNCHANGED vars)
  OBVIOUS
<1>1. ASSUME UNCHANGED <<status, tip, peerVars, mapBlocksInFlight>>
      PROVE  DownloadInv' /\ WithinWindow
  BY <1>1, DownloadSame, WindowReleased
<1>2. ASSUME NEW p \in Peers, InitializeNode(p) \/ Version(p) PROVE DownloadInv' /\ WithinWindow
  BY <1>1, <1>2 DEF InitializeNode, Version, flightVars
<1>3. ASSUME NEW p \in Peers, FinalizeNode(p) PROVE DownloadInv' /\ WithinWindow
  BY <1>3, DownloadFinalizeNode
<1>4. ASSUME NEW p \in Peers, NEW b \in Blocks, Inv(p, b) PROVE DownloadInv' /\ WithinWindow
  BY <1>4, DownloadAnnounced
<1>5. ASSUME NEW b \in Blocks, NEW o \in {"unknown", "header", "failed", "data"},
             ReceiveBlock(b, o) \/ SubmitBlock(b, o)
      PROVE  DownloadInv' /\ WithinWindow
  BY <1>5, DownloadProcessNewBlock DEF ReceiveBlock, SubmitBlock
<1>6. ASSUME NEW b \in Blocks, SkipBlock(b) PROVE DownloadInv' /\ WithinWindow
  BY <1>1, <1>6 DEF SkipBlock, flightVars
<1>7. ASSUME NEW p \in Peers, NEW recent \in BOOLEAN, SendMessages(p, recent)
      PROVE  DownloadInv' /\ WithinWindow
  BY <1>7, DownloadSendMessages
<1>8. CASE UNCHANGED vars
  BY <1>1, <1>8 DEF vars, flightVars
<1> QED
  BY <1>2, <1>3, <1>4, <1>5, <1>6, <1>7, <1>8 DEF Next

\* For any peers and any tree: pindexLastCommonBlock of a peer is complete down
\* to the genesis block.
THEOREM CommonAlwaysFull == Spec => []CommonIsFull
<1>1. DownloadInv => CommonIsFull
  BY DEF DownloadInv
<1> QED
  BY <1>1, DownloadInit, DownloadNext, PTL DEF Spec

\* For any peers and any tree: SendMessages requests only missing blocks that
\* were requested from nobody, on the chain of the peer, inside the window.
THEOREM RequestsAlwaysWithinWindow == Spec => RequestsWithinWindow
<1>1. RequestsWithinWindow <=> [][WithinWindow]_vars
  BY DEF RequestsWithinWindow, WithinWindow
<1> QED
  BY <1>1, DownloadInit, DownloadNext, PTL DEF Spec

-----------------------------------------------------------------------------
(* The lists of blocks in flight.                                          *)

\* No block is twice in a list.
Once(list) == \A i, j \in 1 .. Len(list) : list[i] = list[j] => i = j

\* A list without repetitions has as many blocks as entries.
LEMMA OnceCounts ==
  ASSUME NEW list \in Seq(Blocks), Once(list)
  PROVE  Cardinality(Range(list)) = Len(list)
<1>1. Len(list) \in Nat /\ DOMAIN list = 1 .. Len(list)
  OBVIOUS
<1>2. list \in Bijection(1 .. Len(list), Range(list))
  BY <1>1 DEF Once, Range, Bijection, Injection, Surjection, IsInjective
<1>3. ExistsBijection(1 .. Len(list), Range(list))
  BY <1>2 DEF ExistsBijection
<1> QED
  BY <1>1, <1>3, FS_CountingElements

\* The list FindNextBlocksToDownload returns has every block found, once.
LEMMA InOrderLists ==
  ASSUME NEW found \in SUBSET Blocks, NEW list \in InOrder(found)
  PROVE  /\ list \in Seq(Blocks) /\ Once(list)
         /\ Range(list) = found /\ Len(list) = Cardinality(found)
<1> DEFINE n == Cardinality(found)
<1>1. IsFiniteSet(found) /\ n \in Nat
  BY ChainsAssumption, FS_Subset, FS_CardinalityType
<1>2. list \in [1 .. n -> found] /\ \A i, j \in 1 .. n : i # j => list[i] # list[j]
  BY DEF InOrder, SetToSeqs
<1> HIDE DEF n
<1>3. list \in Seq(Blocks) /\ Len(list) = n
  BY <1>1, <1>2
<1>4. Once(list)
  BY <1>2, <1>3 DEF Once
<1>5. Range(list) \in SUBSET found
  BY <1>2, <1>3 DEF Range
<1>6. Cardinality(Range(list)) = n
  BY <1>3, <1>4, OnceCounts
<1>7. Range(list) = found
  BY <1>1, <1>5, <1>6, FS_Subset DEF n
<1> QED
  BY <1>3, <1>4, <1>7 DEF n

\* Requests are appended; nothing was in flight before.
LEMMA AppendLists ==
  ASSUME NEW s \in Seq(Blocks), Once(s), NEW t \in Seq(Blocks), Once(t),
         Range(s) \cap Range(t) = {}
  PROVE  /\ s \o t \in Seq(Blocks) /\ Once(s \o t)
         /\ Range(s \o t) = Range(s) \cup Range(t) /\ Len(s \o t) = Len(s) + Len(t)
<1> DEFINE st == s \o t
<1>1. /\ Len(s) \in Nat /\ Len(t) \in Nat
      /\ DOMAIN s = 1 .. Len(s) /\ DOMAIN t = 1 .. Len(t)
  OBVIOUS
<1>2. /\ st \in Seq(Blocks) /\ Len(st) = Len(s) + Len(t) /\ DOMAIN st = 1 .. Len(s) + Len(t)
      /\ \A i \in 1 .. Len(s) : st[i] = s[i]
      /\ \A i \in Len(s) + 1 .. Len(s) + Len(t) : st[i] = t[i - Len(s)]
  OBVIOUS
<1> HIDE DEF st
<1>3. ASSUME NEW i \in 1 .. Len(st), NEW j \in 1 .. Len(st), st[i] = st[j] PROVE i = j
  <2>1. \A x \in 1 .. Len(s), y \in 1 .. Len(t) : s[x] # t[y]
    BY <1>1 DEF Range
  <2>2. CASE i =< Len(s) /\ j =< Len(s)
    BY <1>1, <1>2, <1>3, <2>2 DEF Once
  <2>3. CASE i > Len(s) /\ j > Len(s)
    <3>1. i - Len(s) \in 1 .. Len(t) /\ j - Len(s) \in 1 .. Len(t) /\ t[i - Len(s)] = t[j - Len(s)]
      BY <1>1, <1>2, <1>3, <2>3
    <3>2. i - Len(s) = j - Len(s)
      BY <3>1 DEF Once
    <3>3. i \in Int /\ j \in Int /\ Len(s) \in Int
      BY <1>1, <1>2
    <3> QED
      BY <3>2, <3>3
  <2>4. CASE i =< Len(s) /\ j > Len(s)
    <3>1. i \in 1 .. Len(s) /\ j - Len(s) \in 1 .. Len(t) /\ s[i] = t[j - Len(s)]
      BY <1>1, <1>2, <1>3, <2>4
    <3> QED
      BY <2>1, <3>1
  <2>5. CASE i > Len(s) /\ j =< Len(s)
    <3>1. j \in 1 .. Len(s) /\ i - Len(s) \in 1 .. Len(t) /\ s[j] = t[i - Len(s)]
      BY <1>1, <1>2, <1>3, <2>5
    <3> QED
      BY <2>1, <3>1
  <2> QED
    BY <1>1, <1>2, <2>2, <2>3, <2>4, <2>5
<1>4. ASSUME NEW x \in Range(st) PROVE x \in Range(s) \cup Range(t)
  <2>1. PICK i \in 1 .. Len(s) + Len(t) : x = st[i]
    BY <1>2 DEF Range
  <2>2. CASE i =< Len(s)
    BY <1>1, <1>2, <2>1, <2>2 DEF Range
  <2>3. CASE i > Len(s)
    <3>1. i - Len(s) \in 1 .. Len(t) /\ x = t[i - Len(s)]
      BY <1>1, <1>2, <2>1, <2>3
    <3> QED
      BY <1>1, <3>1 DEF Range
  <2> QED
    BY <1>1, <2>1, <2>2, <2>3
<1>5. Range(s) \subseteq Range(st)
  BY <1>1, <1>2 DEF Range
<1>6. ASSUME NEW x \in Range(t) PROVE x \in Range(st)
  <2>1. PICK i \in 1 .. Len(t) : x = t[i]
    BY <1>1 DEF Range
  <2>2. i + Len(s) \in Len(s) + 1 .. Len(s) + Len(t) /\ (i + Len(s)) - Len(s) = i
    BY <1>1
  <2>3. st[i + Len(s)] = x /\ i + Len(s) \in DOMAIN st
    BY <1>1, <1>2, <2>1, <2>2
  <2> QED
    BY <2>3 DEF Range
<1>7. Once(st)
  BY <1>3 DEF Once
<1>8. Range(st) = Range(s) \cup Range(t)
  BY <1>4, <1>5, <1>6
<1> QED
  BY <1>2, <1>7, <1>8 DEF st

\* erase takes out the one entry of the block.
LEMMA EraseLists ==
  ASSUME NEW s \in Seq(Blocks), Once(s), NEW b \in Range(s)
  PROVE  /\ Erase(s, b) \in Seq(Blocks) /\ Once(Erase(s, b))
         /\ Range(Erase(s, b)) = Range(s) \ {b} /\ Len(Erase(s, b)) = Len(s) - 1
<1> DEFINE k == CHOOSE i \in DOMAIN s : s[i] = b
           t == RemoveAt(s, k)
<1>1. Len(s) \in Nat /\ DOMAIN s = 1 .. Len(s)
  OBVIOUS
<1>2. k \in 1 .. Len(s) /\ s[k] = b
  BY <1>1 DEF Range
<1>3. Erase(s, b) = t
  BY DEF Erase
<1> HIDE DEF k
<1>4. /\ t \in Seq(Blocks) /\ Len(t) = Len(s) - 1 /\ DOMAIN t = 1 .. Len(s) - 1
      /\ \A i \in 1 .. Len(s) - 1 : t[i] = IF i < k THEN s[i] ELSE s[i + 1]
  <2> DEFINE lo == SubSeq(s, 1, k - 1)
             hi == SubSeq(s, k + 1, Len(s))
  <2>1. /\ lo \in Seq(Blocks) /\ Len(lo) = k - 1
        /\ \A i \in 1 .. k - 1 : lo[i] = s[i]
    BY <1>1, <1>2
  <2>2. /\ hi \in Seq(Blocks) /\ Len(hi) = Len(s) - k
        /\ \A i \in 1 .. Len(s) - k : hi[i] = s[i + k]
    <3>1. k + 1 \in Int /\ Len(s) \in Int /\ \A i \in k + 1 .. Len(s) : s[i] \in Blocks
      BY <1>1, <1>2
    <3>2. /\ hi \in Seq(Blocks) /\ Len(hi) = IF k + 1 =< Len(s) THEN Len(s) - (k + 1) + 1 ELSE 0
          /\ \A i \in 1 .. Len(s) - (k + 1) + 1 : hi[i] = s[(k + 1) + i - 1]
      BY <3>1, SubSeqProperties
    <3>3. \A i \in 1 .. Len(s) - k : (k + 1) + i - 1 = i + k
      BY <1>1, <1>2
    <3>4. Len(s) - (k + 1) + 1 = Len(s) - k
      BY <1>1, <1>2
    <3> HIDE DEF hi
    <3>5. Len(hi) = Len(s) - k
      <4>1. k \in Int /\ Len(s) \in Int /\ k =< Len(s)
        BY <1>1, <1>2
      <4>2. Len(hi) = IF k + 1 =< Len(s) THEN Len(s) - (k + 1) + 1 ELSE 0
        BY <3>2
      <4> QED
        BY <4>1, <4>2
    <3>6. \A i \in 1 .. Len(s) - k : hi[i] = s[(k + 1) + i - 1]
      BY <3>2, <3>4
    <3> QED
      BY <3>2, <3>3, <3>5, <3>6
  <2>3. t = lo \o hi
    BY DEF RemoveAt
  <2> HIDE DEF lo, hi, t
  <2>4. t \in Seq(Blocks) /\ Len(t) = Len(s) - 1 /\ DOMAIN t = 1 .. Len(s) - 1
    <3>1. t \in Seq(Blocks) /\ Len(t) = Len(lo) + Len(hi)
      BY <2>1, <2>2, <2>3, ConcatProperties
    <3>2. Len(t) = Len(s) - 1
      BY <1>1, <1>2, <2>1, <2>2, <3>1
    <3> QED
      BY <3>1, <3>2, LenProperties
  <2>5. ASSUME NEW i \in 1 .. Len(s) - 1 PROVE t[i] = IF i < k THEN s[i] ELSE s[i + 1]
    <3>1. CASE i < k
      BY <1>1, <1>2, <2>1, <2>2, <2>3, <3>1
    <3>2. CASE i >= k
      <4>1. i - (k - 1) \in 1 .. Len(s) - k /\ (i - (k - 1)) + k = i + 1 /\ ~(i < k)
        BY <1>1, <1>2, <3>2
      <4>2. t[i] = hi[i - (k - 1)]
        BY <1>1, <1>2, <2>1, <2>2, <2>3, <3>2, <4>1
      <4> QED
        BY <2>2, <4>1, <4>2
    <3> QED
      BY <1>1, <1>2, <3>1, <3>2
  <2> QED
    BY <2>4, <2>5
<1> HIDE DEF t
<1>5. Once(t)
  <2> SUFFICES ASSUME NEW i \in 1 .. Len(t), NEW j \in 1 .. Len(t), t[i] = t[j] PROVE i = j
    BY DEF Once
  <2> DEFINE At(x) == IF x < k THEN x ELSE x + 1
  <2>1. /\ At(i) \in 1 .. Len(s) /\ At(j) \in 1 .. Len(s)
        /\ t[i] = s[At(i)] /\ t[j] = s[At(j)]
    BY <1>1, <1>2, <1>4
  <2>2. At(i) = At(j)
    <3> HIDE DEF At
    <3> QED
      BY <2>1 DEF Once
  <2>3. i \in Int /\ j \in Int /\ k \in Int
    BY <1>1, <1>2, <1>4
  <2> QED
    BY <2>2, <2>3
<1>6. ASSUME NEW x \in Range(t) PROVE x \in Range(s) \ {b}
  <2>1. PICK i \in 1 .. Len(s) - 1 : x = t[i]
    BY <1>4 DEF Range
  <2>2. PICK j \in 1 .. Len(s) : j # k /\ x = s[j]
    BY <1>1, <1>2, <1>4, <2>1
  <2> QED
    BY <1>1, <1>2, <2>2 DEF Range, Once
<1>7. ASSUME NEW x \in Range(s) \ {b} PROVE x \in Range(t)
  <2>1. PICK j \in 1 .. Len(s) : x = s[j]
    BY <1>1 DEF Range
  <2>2. j # k
    BY <1>2, <2>1
  <2>3. PICK i \in 1 .. Len(s) - 1 : x = t[i]
    <3>1. CASE j < k
      BY <1>1, <1>2, <1>4, <2>1, <3>1
    <3>2. CASE j > k
      <4>1. j - 1 \in 1 .. Len(s) - 1 /\ ~(j - 1 < k) /\ (j - 1) + 1 = j
        BY <1>1, <1>2, <3>2
      <4>2. t[j - 1] = s[j]
        BY <1>4, <4>1
      <4> QED
        BY <2>1, <4>1, <4>2
    <3> QED
      BY <1>1, <1>2, <2>2, <3>1, <3>2
  <2> QED
    BY <1>4, <2>3 DEF Range
<1> QED
  BY <1>3, <1>4, <1>5, <1>6, <1>7
\* The requests and the lists of the peers, with the types.  That no list has
\* a block twice makes Len the number of blocks, and is what erasing one entry
\* relies on.
FlightInv ==
  /\ peer \in [Peers -> {"off", "connected", "ready"}]
  /\ vBlocksInFlight \in [Peers -> Seq(Blocks)]
  /\ nBlocksInFlight \in [Peers -> Nat]
  /\ mapBlocksInFlight \in [Blocks -> Peers \cup {None}]
  /\ stalling \subseteq Peers
  /\ \A p \in Peers :
       /\ Once(vBlocksInFlight[p])
       /\ Range(vBlocksInFlight[p]) = {b \in Blocks : mapBlocksInFlight[b] = p}
       /\ nBlocksInFlight[p] = Len(vBlocksInFlight[p])
       /\ p \in stalling \/ nBlocksInFlight[p] > 0 => peer[p] = "ready"

\* It says what is checked.
LEMMA FlightConsistent == FlightInv => InFlightConsistent
<1> SUFFICES ASSUME FlightInv, NEW p \in Peers
             PROVE  Cardinality(Range(vBlocksInFlight[p])) = nBlocksInFlight[p]
  BY DEF FlightInv, InFlightConsistent
<1>1. /\ vBlocksInFlight[p] \in Seq(Blocks) /\ Once(vBlocksInFlight[p])
      /\ nBlocksInFlight[p] = Len(vBlocksInFlight[p])
  BY DEF FlightInv
<1> QED
  BY <1>1, OnceCounts

\* At the beginning nothing is in flight.
LEMMA FlightInit == Init => FlightInv
<1> SUFFICES ASSUME Init PROVE FlightInv
  OBVIOUS
<1>1. /\ vBlocksInFlight \in [Peers -> Seq(Blocks)] /\ nBlocksInFlight \in [Peers -> Nat]
      /\ peer \in [Peers -> {"off", "connected", "ready"}] /\ stalling \subseteq Peers
      /\ mapBlocksInFlight \in [Blocks -> Peers \cup {None}]
  BY DEF Init
<1>2. ASSUME NEW p \in Peers
      PROVE  /\ Once(vBlocksInFlight[p])
             /\ Range(vBlocksInFlight[p]) = {b \in Blocks : mapBlocksInFlight[b] = p}
             /\ nBlocksInFlight[p] = Len(vBlocksInFlight[p])
             /\ p \notin stalling /\ nBlocksInFlight[p] = 0
  <2>1. vBlocksInFlight[p] = <<>> /\ nBlocksInFlight[p] = 0 /\ p \notin stalling
    BY DEF Init
  <2>2. \A b \in Blocks : mapBlocksInFlight[b] # p
    BY BlockDownloadAssumption DEF Init
  <2> QED
    BY <2>1, <2>2 DEF Once, Range
<1> QED
  BY <1>1, <1>2 DEF FlightInv

\* Steps that change neither requests nor connections.
LEMMA FlightSame ==
  ASSUME FlightInv, UNCHANGED <<peer, flightVars>>
  PROVE  FlightInv'
  BY DEF FlightInv, flightVars

\* A connection: a peer that is not ready has nothing in flight.
LEMMA FlightConnects ==
  ASSUME FlightInv, NEW p \in Peers, InitializeNode(p) \/ Version(p)
  PROVE  FlightInv'
<1>1. UNCHANGED flightVars /\ peer[p] # "ready"
  BY DEF InitializeNode, Version
<1>2. /\ peer' \in [Peers -> {"off", "connected", "ready"}]
      /\ \A q \in Peers \ {p} : peer'[q] = peer[q]
  BY DEF InitializeNode, Version, FlightInv
<1>3. \A q \in Peers : q \in stalling \/ nBlocksInFlight[q] > 0 => peer'[q] = "ready"
  BY <1>1, <1>2 DEF FlightInv
<1> QED
  BY <1>1, <1>2, <1>3 DEF FlightInv, flightVars

\* A peer leaves with all its requests.
LEMMA FlightFinalizeNode ==
  ASSUME FlightInv, NEW p \in Peers, FinalizeNode(p)
  PROVE  FlightInv'
<1>1. /\ peer' \in [Peers -> {"off", "connected", "ready"}]
      /\ vBlocksInFlight' \in [Peers -> Seq(Blocks)] /\ nBlocksInFlight' \in [Peers -> Nat]
      /\ stalling' \subseteq Peers /\ p \notin stalling'
      /\ vBlocksInFlight'[p] = <<>> /\ nBlocksInFlight'[p] = 0
  BY DEF FlightInv, FinalizeNode
<1>2. \A q \in Peers \ {p} :
        /\ peer'[q] = peer[q] /\ vBlocksInFlight'[q] = vBlocksInFlight[q]
        /\ nBlocksInFlight'[q] = nBlocksInFlight[q] /\ (q \in stalling' <=> q \in stalling)
  BY DEF FlightInv, FinalizeNode
<1>3. \A b \in Blocks :
        mapBlocksInFlight'[b] = IF mapBlocksInFlight[b] = p THEN None ELSE mapBlocksInFlight[b]
  BY DEF FlightInv, FinalizeNode, Released
<1>4. mapBlocksInFlight' \in [Blocks -> Peers \cup {None}]
  BY DEF FlightInv, FinalizeNode
<1>5. ASSUME NEW q \in Peers
      PROVE  /\ Once(vBlocksInFlight'[q])
             /\ Range(vBlocksInFlight'[q]) = {b \in Blocks : mapBlocksInFlight'[b] = q}
             /\ nBlocksInFlight'[q] = Len(vBlocksInFlight'[q])
             /\ q \in stalling' \/ nBlocksInFlight'[q] > 0 => peer'[q] = "ready"
  <2>1. CASE q = p
    <3>1. \A b \in Blocks : mapBlocksInFlight'[b] # p
      BY <1>3, BlockDownloadAssumption
    <3> QED
      BY <1>1, <2>1, <3>1 DEF Once, Range
  <2>2. CASE q # p
    <3>1. {b \in Blocks : mapBlocksInFlight'[b] = q} = {b \in Blocks : mapBlocksInFlight[b] = q}
      BY <1>3, <2>2, BlockDownloadAssumption
    <3> QED
      BY <1>2, <2>2, <3>1 DEF FlightInv
  <2> QED
    BY <2>1, <2>2
<1> QED
  BY <1>1, <1>4, <1>5 DEF FlightInv

\* MarkBlockAsReceived: the block leaves the list of the peer it was asked of.
LEMMA FlightReceived ==
  ASSUME FlightInv, NEW b \in Blocks, MarkBlockAsReceived(b), UNCHANGED peer
  PROVE  FlightInv'
<1> DEFINE q == mapBlocksInFlight[b]
<1>1. CASE q = None
  BY <1>1, FlightSame DEF MarkBlockAsReceived
<1>2. CASE q # None
  <2>1. /\ q \in Peers /\ vBlocksInFlight[q] \in Seq(Blocks) /\ Once(vBlocksInFlight[q])
        /\ b \in Range(vBlocksInFlight[q])
    BY <1>2 DEF FlightInv
  <2> DEFINE list == Erase(vBlocksInFlight[q], b)
  <2>2. /\ vBlocksInFlight' = [vBlocksInFlight EXCEPT ![q] = list]
        /\ nBlocksInFlight' = [nBlocksInFlight EXCEPT ![q] = @ - 1]
        /\ stalling' = stalling \ {q}
        /\ mapBlocksInFlight' = [mapBlocksInFlight EXCEPT ![b] = None]
    BY <1>2 DEF MarkBlockAsReceived
  <2>3. /\ list \in Seq(Blocks) /\ Once(list)
        /\ Range(list) = Range(vBlocksInFlight[q]) \ {b}
        /\ Len(list) = Len(vBlocksInFlight[q]) - 1
    <3> HIDE DEF q
    <3> QED
      BY <2>1, EraseLists
  <2> HIDE DEF list
  <2>4. /\ vBlocksInFlight' \in [Peers -> Seq(Blocks)] /\ vBlocksInFlight'[q] = list
        /\ \A p \in Peers \ {q} : vBlocksInFlight'[p] = vBlocksInFlight[p]
    BY <2>1, <2>2, <2>3 DEF FlightInv
  <2>5. nBlocksInFlight[q] = Len(vBlocksInFlight[q]) /\ nBlocksInFlight[q] \in Nat
    BY <2>1 DEF FlightInv
  <2>6. nBlocksInFlight[q] > 0
    <3>1. Len(list) \in Nat
      BY <2>3
    <3> QED
      BY <2>3, <2>5, <3>1
  <2>7. /\ nBlocksInFlight' \in [Peers -> Nat] /\ nBlocksInFlight'[q] = Len(list)
        /\ \A p \in Peers \ {q} : nBlocksInFlight'[p] = nBlocksInFlight[p]
    BY <2>1, <2>2, <2>3, <2>5, <2>6 DEF FlightInv
  <2>8. /\ mapBlocksInFlight' \in [Blocks -> Peers \cup {None}] /\ mapBlocksInFlight'[b] = None
        /\ \A x \in Blocks \ {b} : mapBlocksInFlight'[x] = mapBlocksInFlight[x]
    BY <2>2 DEF FlightInv
  <2>9. ASSUME NEW p \in Peers
        PROVE  /\ Once(vBlocksInFlight'[p])
               /\ Range(vBlocksInFlight'[p]) = {x \in Blocks : mapBlocksInFlight'[x] = p}
               /\ nBlocksInFlight'[p] = Len(vBlocksInFlight'[p])
               /\ p \in stalling' \/ nBlocksInFlight'[p] > 0 => peer'[p] = "ready"
    <3>1. p # None
      BY BlockDownloadAssumption
    <3>2. CASE p = q
      <4>1. {x \in Blocks : mapBlocksInFlight'[x] = q} = {x \in Blocks : mapBlocksInFlight[x] = q} \ {b}
        BY <2>8, <3>1, <3>2
      <4>2. Range(vBlocksInFlight[q]) = {x \in Blocks : mapBlocksInFlight[x] = q} /\ peer[q] = "ready"
        BY <2>1, <2>6 DEF FlightInv
      <4> QED
        BY <2>3, <2>4, <2>7, <3>2, <4>1, <4>2
    <3>3. CASE p # q
      <4>1. {x \in Blocks : mapBlocksInFlight'[x] = p} = {x \in Blocks : mapBlocksInFlight[x] = p}
        BY <2>8, <3>1, <3>3
      <4>2. p \in stalling' => p \in stalling
        BY <2>2
      <4> QED
        BY <2>4, <2>7, <3>3, <4>1, <4>2 DEF FlightInv
    <3> QED
      BY <3>2, <3>3
  <2>10. stalling' \subseteq Peers /\ peer' \in [Peers -> {"off", "connected", "ready"}]
    BY <2>2 DEF FlightInv
  <2> QED
    BY <2>4, <2>7, <2>8, <2>9, <2>10 DEF FlightInv
<1> QED
  BY <1>1, <1>2

\* Request: blocks of which none was in flight are appended to one list, and
\* a peer marked as stalling has something in flight.
LEMMA FlightRequest ==
  ASSUME FlightInv, NEW p \in Peers, peer[p] = "ready", UNCHANGED peer,
         NEW found \in SUBSET Blocks, \A x \in found : mapBlocksInFlight[x] = None,
         NEW staller, staller \subseteq {mapBlocksInFlight[x] : x \in {y \in Blocks : mapBlocksInFlight[y] # None}},
         Request(p, found, staller)
  PROVE  FlightInv'
<1>1. PICK more \in InOrder(found) :
        vBlocksInFlight' = [vBlocksInFlight EXCEPT ![p] = vBlocksInFlight[p] \o more]
  BY DEF Request
<1>2. /\ more \in Seq(Blocks) /\ Once(more)
      /\ Range(more) = found /\ Len(more) = Cardinality(found)
  BY InOrderLists
<1>3. /\ vBlocksInFlight[p] \in Seq(Blocks) /\ Once(vBlocksInFlight[p])
      /\ Range(vBlocksInFlight[p]) = {b \in Blocks : mapBlocksInFlight[b] = p}
      /\ nBlocksInFlight[p] = Len(vBlocksInFlight[p]) /\ nBlocksInFlight[p] \in Nat
  BY DEF FlightInv
<1>4. Range(vBlocksInFlight[p]) \cap Range(more) = {}
  BY <1>2, <1>3, BlockDownloadAssumption
<1> DEFINE list == vBlocksInFlight[p] \o more
<1>5. /\ list \in Seq(Blocks) /\ Once(list)
      /\ Range(list) = Range(vBlocksInFlight[p]) \cup Range(more)
      /\ Len(list) = Len(vBlocksInFlight[p]) + Len(more)
  BY <1>2, <1>3, <1>4, AppendLists
<1> HIDE DEF list
<1>6. /\ vBlocksInFlight' \in [Peers -> Seq(Blocks)] /\ vBlocksInFlight'[p] = list
      /\ \A q \in Peers \ {p} : vBlocksInFlight'[q] = vBlocksInFlight[q]
  BY <1>1, <1>5 DEF FlightInv, list
<1>7. Cardinality(found) \in Nat
  BY ChainsAssumption, FS_Subset, FS_CardinalityType
<1>8. /\ nBlocksInFlight' \in [Peers -> Nat] /\ nBlocksInFlight'[p] = Len(list)
      /\ \A q \in Peers \ {p} : nBlocksInFlight'[q] = nBlocksInFlight[q]
  BY <1>2, <1>3, <1>5, <1>7 DEF FlightInv, Request
<1>9. /\ mapBlocksInFlight' \in [Blocks -> Peers \cup {None}]
      /\ \A x \in Blocks : mapBlocksInFlight'[x] = IF x \in found THEN p ELSE mapBlocksInFlight[x]
  BY DEF FlightInv, Request
<1>10. \A q \in staller : q \in Peers /\ peer[q] = "ready"
  <2> SUFFICES ASSUME NEW x \in Blocks, mapBlocksInFlight[x] # None
               PROVE  mapBlocksInFlight[x] \in Peers /\ peer[mapBlocksInFlight[x]] = "ready"
    OBVIOUS
  <2> DEFINE q == mapBlocksInFlight[x]
  <2>1. q \in Peers
    BY DEF FlightInv
  <2>2. x \in Range(vBlocksInFlight[q]) /\ vBlocksInFlight[q] \in Seq(Blocks)
    BY <2>1 DEF FlightInv
  <2>3. Len(vBlocksInFlight[q]) > 0
    <3> HIDE DEF q
    <3> QED
      BY <2>2 DEF Range
  <2>4. nBlocksInFlight[q] > 0
    BY <2>1, <2>3 DEF FlightInv
  <2> QED
    BY <2>1, <2>4 DEF FlightInv
<1>11. stalling' \subseteq stalling \cup staller
  BY DEF Request
<1>12. ASSUME NEW q \in Peers
       PROVE  /\ Once(vBlocksInFlight'[q])
              /\ Range(vBlocksInFlight'[q]) = {x \in Blocks : mapBlocksInFlight'[x] = q}
              /\ nBlocksInFlight'[q] = Len(vBlocksInFlight'[q])
              /\ q \in stalling' \/ nBlocksInFlight'[q] > 0 => peer'[q] = "ready"
  <2>1. CASE q = p
    <3>1. {x \in Blocks : mapBlocksInFlight'[x] = p} = {x \in Blocks : mapBlocksInFlight[x] = p} \cup found
      BY <1>9
    <3> QED
      BY <1>2, <1>3, <1>5, <1>6, <1>8, <2>1, <3>1
  <2>2. CASE q # p
    <3>1. {x \in Blocks : mapBlocksInFlight'[x] = q} = {x \in Blocks : mapBlocksInFlight[x] = q}
      BY <1>9, <2>2, BlockDownloadAssumption
    <3>2. q \in stalling' \/ nBlocksInFlight[q] > 0 => peer[q] = "ready"
      BY <1>10, <1>11 DEF FlightInv
    <3> QED
      BY <1>6, <1>8, <2>2, <3>1, <3>2 DEF FlightInv
  <2> QED
    BY <2>1, <2>2
<1>13. stalling' \subseteq Peers /\ peer' \in [Peers -> {"off", "connected", "ready"}]
  BY <1>10, <1>11 DEF FlightInv
<1> QED
  BY <1>6, <1>8, <1>9, <1>12, <1>13 DEF FlightInv

\* SendMessages.
LEMMA FlightSendMessages ==
  ASSUME FlightInv, DownloadInv, NEW p \in Peers, NEW recent \in BOOLEAN, SendMessages(p, recent)
  PROVE  FlightInv'
<1> DEFINE n     == MAX_BLOCKS_IN_TRANSIT_PER_PEER - nBlocksInFlight[p]
           bk    == BestAfterCheck(p)
           start == StartCommon(p, bk)
           walk  == Walk(start, bk)
<1>1. UNCHANGED peer /\ peer[p] = "ready" /\ Download(p)
  BY DEF SendMessages
<1>2. CASE UNCHANGED flightVars
  BY <1>1, <1>2, FlightSame
<1>3. CASE bk # None /\ Request(p, ToDownload(walk, start, n), Staller(p, walk, start, n))
  <2>1. bk \in Blocks
    BY <1>3, BestType
  <2> HIDE DEF bk, n, start
  <2>2. walk \subseteq Blocks
    BY <2>1, ChainClosed DEF Walk
  <2>3. /\ ToDownload(walk, start, n) \in SUBSET Blocks
        /\ \A x \in ToDownload(walk, start, n) : mapBlocksInFlight[x] = None
    BY <2>1, RequestedIsMissing, ChainClosed
  <2>4. Staller(p, walk, start, n) \subseteq
          {mapBlocksInFlight[x] : x \in {y \in Blocks : mapBlocksInFlight[y] # None}}
    <3> HIDE DEF walk
    <3> QED
      BY <2>2 DEF Staller, Lowest
  <2> HIDE DEF walk
  <2> QED
    BY <1>1, <1>3, <2>3, <2>4, FlightRequest
<1> QED
  BY <1>1, <1>2, <1>3 DEF Download

\* Every step.
LEMMA FlightNext == FlightInv /\ DownloadInv /\ [Next]_vars => FlightInv'
<1> SUFFICES ASSUME FlightInv, DownloadInv, [Next]_vars PROVE FlightInv'
  OBVIOUS
<1>1. ASSUME NEW p \in Peers, InitializeNode(p) \/ Version(p) PROVE FlightInv'
  BY <1>1, FlightConnects
<1>2. ASSUME NEW p \in Peers, FinalizeNode(p) PROVE FlightInv'
  BY <1>2, FlightFinalizeNode
<1>3. ASSUME NEW p \in Peers, NEW b \in Blocks, Inv(p, b) PROVE FlightInv'
  BY <1>3, FlightSame DEF Inv
<1>4. ASSUME NEW b \in Blocks, NEW o, ReceiveBlock(b, o) \/ SubmitBlock(b, o) PROVE FlightInv'
  BY <1>4, FlightReceived DEF ReceiveBlock, SubmitBlock, ProcessNewBlock
<1>5. ASSUME NEW b \in Blocks, SkipBlock(b) PROVE FlightInv'
  BY <1>5, FlightSame DEF SkipBlock
<1>6. ASSUME NEW p \in Peers, NEW recent \in BOOLEAN, SendMessages(p, recent) PROVE FlightInv'
  BY <1>6, FlightSendMessages
<1>7. CASE UNCHANGED vars
  BY <1>7, FlightSame DEF vars
<1> QED
  BY <1>1, <1>2, <1>3, <1>4, <1>5, <1>6, <1>7 DEF Next

\* For any peers and any tree: every block in flight is in the list of exactly
\* one peer, once, that peer is ready, and its counter is the length of its
\* list, whatever order requests, blocks and departures come in.
THEOREM InFlightAlwaysConsistent == Spec => []InFlightConsistent
<1>1. Init => DownloadInv /\ FlightInv
  BY DownloadInit, FlightInit
<1>2. DownloadInv /\ FlightInv /\ [Next]_vars => DownloadInv' /\ FlightInv'
  BY DownloadNext, FlightNext
<1> QED
  BY <1>1, <1>2, FlightConsistent, PTL DEF Spec
=============================================================================
