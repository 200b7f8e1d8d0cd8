-------------------------- MODULE BlockTreeProofs --------------------------
(***************************************************************************)
(* What FindMostWorkChain relies on and what it delivers, for every tree   *)
(* of blocks, every verdict and every sequence of arrivals and commands.   *)
(*                                                                         *)
(* 1. ActiveChainValid: the active chain has data, was connected and is    *)
(*    not marked failed.  It is not inductive: ActivateBestChainStep       *)
(*    raises the validity of the blocks it connects only if                *)
(*    FindMostWorkChain did not just mark one of them because of another   *)
(*    candidate.  TreeInv therefore says that the chains of candidates are *)
(*    complete, so that what is given up is given up for a failed block.   *)
(* 2. LinksInv: which blocks have nChainTx, and which wait for their       *)
(*    parent in mapBlocksUnlinked.  BlockTreeDiskProofs uses it too.       *)
(* 3. BestChainActive: when ActivateBestChain has returned, no complete    *)
(*    chain without a failed block beats the tip.  The candidates are      *)
(*    pruned, so this needs a reason why what is not among them is worse:  *)
(*    SelectInv says that one of them, the benchmark, has a chain in which *)
(*    nothing failed or will fail, and that every linked block that is     *)
(*    missing sorts before it.                                             *)
(* 4. CheckBlockIndex: the assertions of the code, from the invariants     *)
(*    above and from where the failure marks are (CheckInv).               *)
(***************************************************************************)
EXTENDS BlockTree, ChainsProofs

-----------------------------------------------------------------------------
(* The invariant.                                                          *)

Entry == [valid : {VALID_NONE, VALID_TREE, VALID_TRANSACTIONS, VALID_SCRIPTS},
          data : BOOLEAN,
          failed : SUBSET {"FAILED_VALID", "FAILED_CHILD"}]

\* The types, and what the entries and the sets say of each other.
EntriesInv(ix, linked, waiting) ==
  /\ ix \in [Blocks -> Entry] /\ linked \subseteq Blocks
  /\ \A b \in linked : \A a \in Ancestors[b] : ix[a].data
  /\ \A b \in Blocks : <<Parent[b], b>> \in waiting => ix[b].data
  /\ \A b \in Blocks : ix[b].data => b \in Known(ix)
  /\ \A b \in Known(ix) : Ancestors[b] \subseteq Known(ix)

\* The chain that ends with t has data and went through ConnectBlock.
ChainConnected(ix, t) ==
  \A a \in Ancestors[t] : ix[a].data /\ ix[a].valid = VALID_SCRIPTS

TreeInv ==
  /\ EntriesInv(index, chainTx, unlinked)
  /\ candidates \subseteq chainTx
  /\ tip \in Blocks
  /\ ChainConnected(index, tip)

NoneFailed(ix, t) == \A a \in Ancestors[t] : ~Failed(ix, a)

\* MarkFailed adds marks and changes nothing else.
LEMMA MarkFailedType ==
  ASSUME NEW ix \in [Blocks -> Entry], NEW S, NEW flag \in {"FAILED_VALID", "FAILED_CHILD"}
  PROVE  MarkFailed(ix, S, flag) \in [Blocks -> Entry]
  BY DEF MarkFailed, Entry

\* The same, for one block.
LEMMA MarkFailedAdds ==
  ASSUME NEW ix \in [Blocks -> Entry], NEW S, NEW flag \in {"FAILED_VALID", "FAILED_CHILD"},
         NEW b \in Blocks
  PROVE  /\ MarkFailed(ix, S, flag)[b].valid = ix[b].valid
         /\ MarkFailed(ix, S, flag)[b].data = ix[b].data
         /\ ix[b].failed \subseteq MarkFailed(ix, S, flag)[b].failed
         /\ b \notin S => MarkFailed(ix, S, flag)[b] = ix[b]
  BY DEF MarkFailed, Entry

\* RaiseValidity raises the level of blocks that are not failed.
LEMMA RaiseValidityType ==
  ASSUME NEW ix \in [Blocks -> Entry], NEW S,
         NEW level \in {VALID_TRANSACTIONS, VALID_SCRIPTS}
  PROVE  RaiseValidity(ix, S, level) \in [Blocks -> Entry]
  BY DEF RaiseValidity, Entry

\* The same, for one block.
LEMMA RaiseValidityRaises ==
  ASSUME NEW ix \in [Blocks -> Entry], NEW S,
         NEW level \in {VALID_TRANSACTIONS, VALID_SCRIPTS}, NEW b \in Blocks
  PROVE  /\ RaiseValidity(ix, S, level)[b].data = ix[b].data
         /\ RaiseValidity(ix, S, level)[b].failed = ix[b].failed
         /\ RaiseValidity(ix, S, level)[b].valid \in {ix[b].valid, level}
         /\ b \notin S => RaiseValidity(ix, S, level)[b] = ix[b]
         /\ b \in S /\ ix[b].failed = {} => RaiseValidity(ix, S, level)[b].valid >= level
  BY DEF RaiseValidity, Entry, Failed, VALID_NONE, VALID_TREE, VALID_TRANSACTIONS, VALID_SCRIPTS

\* Steps that only change marks keep what EntriesInv says.
LEMMA MarksOnly ==
  ASSUME NEW ix, NEW iy \in [Blocks -> Entry], NEW linked, NEW waiting,
         EntriesInv(ix, linked, waiting),
         \A b \in Blocks : iy[b].valid = ix[b].valid /\ iy[b].data = ix[b].data
  PROVE  /\ EntriesInv(iy, linked, waiting)
         /\ \A t \in Blocks : ChainConnected(ix, t) => ChainConnected(iy, t)
  BY ChainClosed DEF EntriesInv, ChainConnected, Known

\* Only the genesis block is there, connected.
LEMMA TreeInit == Init => TreeInv /\ NoneFailed(index, tip)
<1> SUFFICES ASSUME Init PROVE TreeInv /\ NoneFailed(index, tip)
  OBVIOUS
<1>1. Genesis \in Blocks
  BY ChainsAssumption
<1>2. index \in [Blocks -> Entry]
  BY DEF Init, Entry, NoEntry, VALID_NONE, VALID_SCRIPTS
<1>3. Known(index) = {Genesis}
  BY <1>1 DEF Init, Known, NoEntry, VALID_NONE, VALID_SCRIPTS
<1>4. EntriesInv(index, chainTx, unlinked)
  BY <1>1, <1>2, <1>3, ChainGenesis, Zenon DEF Init, EntriesInv, NoEntry
<1>5. ChainConnected(index, tip) /\ NoneFailed(index, tip)
  BY <1>1, ChainGenesis DEF Init, ChainConnected, NoneFailed, Failed
<1> QED
  BY <1>1, <1>4, <1>5 DEF Init, TreeInv

-----------------------------------------------------------------------------
(* Arriving blocks.                                                        *)

\* AddToBlockIndex makes an entry, of a block whose parent has one.
LEMMA EnteredIsKnown ==
  ASSUME TreeInv, NEW b \in Blocks, HasGoodParent(b)
  PROVE  LET ix == Entered(index, b) IN
         /\ EntriesInv(ix, chainTx, unlinked)
         /\ b \in Known(ix) /\ ix[b].data = index[b].data /\ ix[b].failed = index[b].failed
         /\ \A x \in Blocks \ {b} : ix[x] = index[x]
<1> DEFINE ix == Entered(index, b)
<1>1. index \in [Blocks -> Entry] /\ EntriesInv(index, chainTx, unlinked)
  BY DEF TreeInv, EntriesInv
<1>2. /\ ix \in [Blocks -> Entry]
      /\ \A x \in Blocks \ {b} : ix[x] = index[x]
      /\ ix[b].data = index[b].data /\ ix[b].failed = index[b].failed
      /\ ix[b].valid # VALID_NONE
  BY <1>1 DEF Entered, Entry, Known, VALID_NONE, VALID_TREE
<1> HIDE DEF ix
<1>3. Known(ix) = Known(index) \cup {b}
  BY <1>2 DEF Known
<1>4. Ancestors[b] \subseteq Known(ix)
  BY <1>1, <1>3, ChainStep DEF HasGoodParent, EntriesInv
<1>5. \A x \in Blocks : ix[x].data = index[x].data
  BY <1>2
<1>6. EntriesInv(ix, chainTx, unlinked)
  BY <1>1, <1>2, <1>3, <1>4, <1>5, ChainClosed DEF EntriesInv
<1> QED
  BY <1>2, <1>3, <1>6 DEF ix

\* A block that changes alone, without data so far, is not active.
LEMMA InactiveChanges ==
  ASSUME TreeInv, NEW b \in Blocks, ~index[b].data, tip' = tip,
         \A x \in Blocks \ {b} : index'[x] = index[x]
  PROVE  /\ ChainConnected(index', tip')
         /\ NoneFailed(index, tip) => NoneFailed(index', tip')
  BY ChainClosed DEF TreeInv, ChainConnected, NoneFailed, Failed

\* A header without data.
LEMMA TreeAcceptBlockHeader ==
  ASSUME TreeInv, NEW b \in Blocks, AcceptBlockHeader(b)
  PROVE  TreeInv' /\ (NoneFailed(index, tip) => NoneFailed(index, tip)')
<1>1. HasGoodParent(b) /\ index' = Entered(index, b) /\ tip' = tip
      /\ UNCHANGED <<chainTx, unlinked, candidates>>
  BY DEF AcceptBlockHeader
<1>2. ~index[b].data
  BY DEF AcceptBlockHeader, TreeInv, EntriesInv
<1>3. EntriesInv(index', chainTx', unlinked') /\ \A x \in Blocks \ {b} : index'[x] = index[x]
  BY <1>1, EnteredIsKnown
<1>4. ChainConnected(index', tip') /\ (NoneFailed(index, tip) => NoneFailed(index', tip'))
  BY <1>1, <1>2, <1>3, InactiveChanges
<1>5. TreeInv'
  BY <1>1, <1>3, <1>4 DEF TreeInv
<1> QED
  BY <1>4, <1>5 DEF NoneFailed

\* A block that fails its contextual checks.
LEMMA TreeRejectBlock ==
  ASSUME TreeInv, NEW b \in Blocks, RejectBlock(b)
  PROVE  TreeInv' /\ (NoneFailed(index, tip) => NoneFailed(index, tip)')
<1> DEFINE ix == Entered(index, b)
<1>1. /\ HasGoodParent(b) /\ index' = MarkFailed(ix, {b}, "FAILED_VALID") /\ tip' = tip
      /\ UNCHANGED <<chainTx, unlinked, candidates>> /\ ~index[b].data
  BY DEF RejectBlock
<1>2. EntriesInv(ix, chainTx, unlinked) /\ \A x \in Blocks \ {b} : ix[x] = index[x]
  BY <1>1, EnteredIsKnown
<1> HIDE DEF ix
<1>3. /\ index' \in [Blocks -> Entry]
      /\ \A x \in Blocks : index'[x].valid = ix[x].valid /\ index'[x].data = ix[x].data
      /\ \A x \in Blocks \ {b} : index'[x] = ix[x]
  <2> DEFINE iy == MarkFailed(ix, {b}, "FAILED_VALID")
  <2>1. ix \in [Blocks -> Entry] /\ "FAILED_VALID" \in {"FAILED_VALID", "FAILED_CHILD"}
    BY <1>2 DEF EntriesInv
  <2>2. /\ iy \in [Blocks -> Entry]
        /\ \A x \in Blocks : iy[x].valid = ix[x].valid /\ iy[x].data = ix[x].data
        /\ \A x \in Blocks \ {b} : iy[x] = ix[x]
    BY <2>1, MarkFailedType, MarkFailedAdds
  <2>3. index' = iy
    BY <1>1
  <2> HIDE DEF iy
  <2> QED
    BY <2>2, <2>3
<1>4. EntriesInv(index', chainTx', unlinked')
  <2>1. EntriesInv(index', chainTx, unlinked)
    BY <1>2, <1>3, MarksOnly
  <2> QED
    BY <1>1, <2>1
<1>5. ChainConnected(index', tip') /\ (NoneFailed(index, tip) => NoneFailed(index', tip'))
  BY <1>1, <1>2, <1>3, InactiveChanges, Zenon
<1>6. TreeInv'
  BY <1>1, <1>4, <1>5 DEF TreeInv
<1> QED
  BY <1>5, <1>6 DEF NoneFailed

\* A block that is stored: what it links was waiting with its data.
LEMMA TreeAcceptBlock ==
  ASSUME TreeInv, NEW b \in Blocks, AcceptBlock(b)
  PROVE  TreeInv' /\ (NoneFailed(index, tip) => NoneFailed(index, tip)')
<1> DEFINE ix == Entered(index, b)
           iy == [ix EXCEPT ![b].data = TRUE]
<1>1. /\ HasGoodParent(b) /\ ~index[b].data /\ ~Failed(index, b) /\ tip' = tip
      /\ ReceivedBlockTransactions(b, ix)
  BY DEF AcceptBlock
<1>2. /\ EntriesInv(ix, chainTx, unlinked) /\ b \in Known(ix)
      /\ \A x \in Blocks \ {b} : ix[x] = index[x]
  BY <1>1, EnteredIsKnown
<1>3. /\ iy \in [Blocks -> Entry] /\ iy[b].data /\ iy[b].valid = ix[b].valid
      /\ \A x \in Blocks \ {b} : iy[x] = ix[x]
  BY <1>2, Zenon DEF EntriesInv, Entry
<1>4. index' = RaiseValidity(iy, {b}, VALID_TRANSACTIONS)
  BY <1>1 DEF ReceivedBlockTransactions
<1> HIDE DEF ix, iy
<1>5. /\ index' \in [Blocks -> Entry]
      /\ \A x \in Blocks \ {b} : index'[x] = ix[x]
      /\ index'[b].data /\ index'[b].valid # VALID_NONE
  <2>1. ix[b].valid # VALID_NONE
    BY <1>2 DEF Known
  <2> DEFINE iz == RaiseValidity(iy, {b}, VALID_TRANSACTIONS)
  <2>2. iy \in [Blocks -> Entry] /\ VALID_TRANSACTIONS \in {VALID_TRANSACTIONS, VALID_SCRIPTS}
    BY <1>3
  <2>3. iz \in [Blocks -> Entry]
    BY <2>2, RaiseValidityType
  <2>4. iz[b].data = iy[b].data /\ iz[b].valid \in {iy[b].valid, VALID_TRANSACTIONS}
    BY <2>2, RaiseValidityRaises
  <2>5. \A x \in Blocks \ {b} : iz[x] = iy[x]
    BY <2>2, RaiseValidityRaises
  <2>6. VALID_TRANSACTIONS # VALID_NONE
    BY DEF VALID_NONE, VALID_TRANSACTIONS
  <2> HIDE DEF iz
  <2>7. index' = iz
    BY <1>4 DEF iz
  <2> QED
    BY <1>3, <2>1, <2>3, <2>4, <2>5, <2>6, <2>7, Zenon
<1>6. Known(index') = Known(ix)
  BY <1>2, <1>5 DEF Known
<1>7. /\ chainTx' \subseteq Blocks /\ candidates' \subseteq chainTx'
      /\ \A x \in chainTx' : \A a \in Ancestors[x] : index'[a].data
  <2>1. \A x \in chainTx : x \in Blocks /\ \A a \in Ancestors[x] : a \in Blocks /\ index'[a].data
    BY <1>2, <1>5, ChainClosed DEF EntriesInv
  <2>2. CASE Parent[b] \in chainTx
    <3>1. ASSUME NEW x \in NewlyLinked(b), NEW a \in Ancestors[x]
          PROVE  index'[a].data
      <4>1. x \in Blocks /\ b \in Ancestors[x] /\ a \in Blocks
        BY <3>1, ChainClosed DEF NewlyLinked, Descendants
      <4>2. CASE b \in Ancestors[a]
        BY <1>2, <1>5, <3>1, <4>1, <4>2, Zenon DEF NewlyLinked, EntriesInv
      <4>3. CASE b \notin Ancestors[a]
        <5>1. a \in Ancestors[b] /\ a # b
          BY <3>1, <4>1, <4>3, ChainLinear, ChainClosed
        <5>2. a \in Ancestors[Parent[b]]
          BY <1>1, <5>1, ChainStep DEF HasGoodParent
        <5> QED
          BY <2>1, <2>2, <5>2
      <4> QED
        BY <4>2, <4>3
    <3>2. /\ chainTx' = chainTx \cup NewlyLinked(b)
          /\ candidates' \subseteq candidates \cup NewlyLinked(b)
      BY <1>1, <2>2 DEF ReceivedBlockTransactions
    <3>3. NewlyLinked(b) \subseteq Blocks /\ candidates \subseteq chainTx
      BY DEF NewlyLinked, Descendants, TreeInv
    <3> QED
      BY <2>1, <3>1, <3>2, <3>3
  <2>3. CASE Parent[b] \notin chainTx
    BY <1>1, <2>1, <2>3, Zenon DEF ReceivedBlockTransactions, TreeInv
  <2> QED
    BY <2>2, <2>3
<1>8. \A x \in Blocks : <<Parent[x], x>> \in unlinked' => index'[x].data
  <2>1. \A x \in Blocks : <<Parent[x], x>> \in unlinked' => <<Parent[x], x>> \in unlinked \/ x = b
    BY <1>1 DEF ReceivedBlockTransactions
  <2> QED
    BY <1>2, <1>5, <2>1 DEF EntriesInv
<1>9. EntriesInv(index', chainTx', unlinked')
  BY <1>2, <1>5, <1>6, <1>7, <1>8 DEF EntriesInv
<1>10. ChainConnected(index', tip') /\ (NoneFailed(index, tip) => NoneFailed(index', tip'))
  BY <1>1, <1>2, <1>5, InactiveChanges
<1>11. TreeInv'
  BY <1>1, <1>7, <1>9, <1>10 DEF TreeInv
<1> QED
  BY <1>10, <1>11 DEF NoneFailed

-----------------------------------------------------------------------------
(* ActivateBestChain.                                                      *)

\* The blocks FindMostWorkChain marks.
Marked ==
  UNION {{x \in AboveFailure(c) : \E y \in AboveFailure(c) : y \in Ancestors[x] \ {x}} : c \in Skipped}

\* They are neither active nor on the way to the chain that is chosen: they
\* were given up for a failed block, which would be on that way as well.
LEMMA MarkedOffPath ==
  ASSUME TreeInv, NEW x \in Marked
  PROVE  /\ x \notin Ancestors[tip]
         /\ \A mw \in MostWork : x \notin Ancestors[mw]
<1>1. PICK c \in Skipped : x \in AboveFailure(c)
  BY DEF Marked
<1>2. c \in Blocks /\ c \in chainTx /\ ~Usable(c)
  BY DEF Skipped, TreeInv, EntriesInv
<1>3. PICK z \in PathTo(c) : Failed(index, z) \/ ~index[z].data
  BY <1>2 DEF Usable
<1>4. z \in Ancestors[c] /\ z \notin Ancestors[tip] /\ Failed(index, z)
  BY <1>2, <1>3 DEF PathTo, TreeInv, EntriesInv
<1>5. x \in Ancestors[c] /\ x \notin Ancestors[tip]
  BY <1>1 DEF AboveFailure, PathTo
<1>6. ASSUME NEW mw \in MostWork, x \in Ancestors[mw]
      PROVE  FALSE
  <2>1. mw \in Blocks /\ Usable(mw)
    BY <1>6 DEF MostWork, TreeInv, EntriesInv
  <2>2. CASE z \in Ancestors[x]
    <3>1. z \in PathTo(mw)
      BY <1>4, <1>6, <2>1, <2>2, ChainTransitive DEF PathTo
    <3> QED
      BY <1>4, <2>1, <3>1 DEF Usable
  <2>3. CASE z \notin Ancestors[x]
    <3>1. x \in Ancestors[z] /\ x # z
      BY <1>2, <1>4, <1>5, <2>3, ChainLinear, ChainClosed
    <3> QED
      BY <1>1, <1>3, <1>4, <3>1 DEF AboveFailure
  <2> QED
    BY <2>2, <2>3
<1> QED
  BY <1>5, <1>6

\* FindMostWorkChain changes marks only, and only of those blocks.
LEMMA FoundIndex ==
  ASSUME TreeInv
  PROVE  /\ FindMostWorkChain_Index \in [Blocks -> Entry]
         /\ \A b \in Blocks : FindMostWorkChain_Index[b].valid = index[b].valid
         /\ \A b \in Blocks : FindMostWorkChain_Index[b].data = index[b].data
         /\ \A b \in Blocks : index[b].failed \subseteq FindMostWorkChain_Index[b].failed
         /\ \A b \in Blocks \ Marked : FindMostWorkChain_Index[b] = index[b]
<1>1. index \in [Blocks -> Entry] /\ "FAILED_CHILD" \in {"FAILED_VALID", "FAILED_CHILD"}
  BY DEF TreeInv, EntriesInv
<1>2. FindMostWorkChain_Index = MarkFailed(index, Marked, "FAILED_CHILD")
  BY DEF FindMostWorkChain_Index, Marked
<1> QED
  BY <1>1, <1>2, MarkFailedType, MarkFailedAdds

\* The blocks that a step connects are those above the fork, up to one of them.
LEMMA ConnectedClosed ==
  ASSUME tip \in Blocks, NEW mw \in Blocks, NEW f \in Connected(mw), NEW a \in Ancestors[f],
         a \notin Ancestors[tip]
  PROVE  a \in Connected(mw)
<1>1. f \in PathTo(mw) /\ f \notin Refused(mw)
  BY DEF Connected
<1>2. PICK s \in StopBlock(mw) : f \in Ancestors[s]
  BY DEF Connected
<1>3. s \in PathTo(mw) /\ s \in Blocks /\ f \in Blocks /\ a \in Blocks
  BY <1>1, ChainClosed DEF StopBlock, PathTo
<1>4. a \in PathTo(mw) /\ a \in Ancestors[s]
  BY <1>1, <1>2, <1>3, ChainTransitive DEF PathTo
<1>5. ASSUME a \in Refused(mw) PROVE FALSE
  <2>1. a \in StopBlock(mw)
    BY <1>5 DEF Refused
  <2>2. nHeight[a] =< nHeight[s] /\ nHeight[s] =< nHeight[a]
    BY <2>1 DEF StopBlock
  <2>3. a = s
    BY <1>3, <1>4, <2>2, HeightGrows, HeightBounded
  <2>4. a = f
    BY <1>2, <1>3, <2>3, ChainAntisymmetric
  <2> QED
    BY <1>1, <1>5, <2>4
<1> QED
  BY <1>2, <1>4, <1>5 DEF Connected

\* FindFork finds the last common block.
LEMMA ForkIsCommon ==
  ASSUME tip \in Blocks, NEW mw \in Blocks
  PROVE  Fork(mw) \in Ancestors[mw] /\ Fork(mw) \in Ancestors[tip]
<1> DEFINE S == Ancestors[mw] \cap Ancestors[tip]
<1>1. S \in SUBSET Blocks /\ S # {}
  BY ChainClosed, ChainsAssumption
<1> QED
  BY <1>1, TopIsHighest DEF Fork

\* The new tip is the fork or a block connected above it, and the others of
\* these are below it.
LEMMA NewTipOnChain ==
  ASSUME tip \in Blocks, NEW mw \in Blocks
  PROVE  /\ NewTip(mw) \in Blocks /\ NewTip(mw) \in {Fork(mw)} \cup Connected(mw)
         /\ \A f \in {Fork(mw)} \cup Connected(mw) : f \in Ancestors[NewTip(mw)]
         /\ \A a \in Ancestors[NewTip(mw)] : a \in Ancestors[tip] \/ a \in Connected(mw)
<1> DEFINE S == {Fork(mw)} \cup Connected(mw)
<1>1. S \subseteq Ancestors[mw] /\ Fork(mw) \in Ancestors[tip]
  BY ForkIsCommon DEF Connected, PathTo
<1>2. S \in SUBSET Blocks /\ S # {}
  BY <1>1, ChainClosed
<1>3. NewTip(mw) = Top(S)
  BY DEF NewTip
<1> HIDE DEF S
<1>4. NewTip(mw) \in S /\ \A f \in S : nHeight[f] =< nHeight[NewTip(mw)]
  BY <1>2, <1>3, TopIsHighest
<1>5. NewTip(mw) \in Blocks /\ NewTip(mw) \in Ancestors[mw]
  BY <1>1, <1>2, <1>4
<1>6. ASSUME NEW f \in S PROVE f \in Ancestors[NewTip(mw)]
  <2>1. f \in Ancestors[mw] /\ f \in Blocks
    BY <1>1, <1>2, <1>6
  <2>2. f \in Ancestors[NewTip(mw)] \/ NewTip(mw) \in Ancestors[f]
    BY <1>5, <2>1, ChainLinear
  <2>3. nHeight[f] =< nHeight[NewTip(mw)] /\ nHeight[f] \in Nat /\ nHeight[NewTip(mw)] \in Nat
    BY <1>4, <1>5, <1>6, <2>1, HeightBounded
  <2> QED
    BY <1>5, <2>1, <2>2, <2>3, HeightGrows, ChainClosed
<1>7. ASSUME NEW a \in Ancestors[NewTip(mw)], a \notin Ancestors[tip]
      PROVE  a \in Connected(mw)
  <2>1. NewTip(mw) \in Connected(mw)
    BY <1>1, <1>4, <1>7, ChainTransitive DEF S
  <2> QED
    BY <1>7, <2>1, ConnectedClosed
<1> QED
  BY <1>4, <1>5, <1>6, <1>7 DEF S

\* The entries after a step to mw.
StepIndex(mw) ==
  InvalidBlockFound(RaiseValidity(FindMostWorkChain_Index, Connected(mw), VALID_SCRIPTS), Refused(mw))

\* A step keeps the data of every block; it raises levels of blocks with data
\* only; the blocks on the active chain stay as they are.
LEMMA StepEntries ==
  ASSUME TreeInv, NEW mw \in MostWork
  PROVE  /\ StepIndex(mw) \in [Blocks -> Entry]
         /\ \A b \in Blocks : StepIndex(mw)[b].data = index[b].data
         /\ \A b \in Blocks : b \notin Connected(mw) => StepIndex(mw)[b].valid = index[b].valid
         /\ \A b \in Ancestors[tip] : StepIndex(mw)[b] = index[b]
         /\ \A b \in Connected(mw) : /\ StepIndex(mw)[b].data
                                     /\ StepIndex(mw)[b].valid = VALID_SCRIPTS
                                     /\ StepIndex(mw)[b].failed = {}
<1> DEFINE ix == FindMostWorkChain_Index
           iy == RaiseValidity(ix, Connected(mw), VALID_SCRIPTS)
           iz == MarkFailed(iy, Refused(mw), "FAILED_VALID")
<1>1. /\ ix \in [Blocks -> Entry]
      /\ \A b \in Blocks : ix[b].valid = index[b].valid /\ ix[b].data = index[b].data
      /\ \A b \in Blocks \ Marked : ix[b] = index[b]
  BY FoundIndex
<1> HIDE DEF ix
<1>2. VALID_SCRIPTS \in {VALID_TRANSACTIONS, VALID_SCRIPTS}
      /\ "FAILED_VALID" \in {"FAILED_VALID", "FAILED_CHILD"}
  OBVIOUS
<1>3. iy \in [Blocks -> Entry]
  BY <1>1, <1>2, RaiseValidityType
<1>4. \A b \in Blocks : iy[b].data = ix[b].data /\ iy[b].failed = ix[b].failed
  BY <1>1, <1>2, RaiseValidityRaises
<1>5. \A b \in Blocks \ Connected(mw) : iy[b] = ix[b]
  BY <1>1, <1>2, RaiseValidityRaises
<1>6. \A b \in Blocks : b \in Connected(mw) /\ ix[b].failed = {} => iy[b].valid >= VALID_SCRIPTS
  BY <1>1, <1>2, RaiseValidityRaises
<1> HIDE DEF iy
<1>7. iz \in [Blocks -> Entry]
  BY <1>2, <1>3, MarkFailedType
<1>8. \A b \in Blocks : iz[b].data = iy[b].data /\ iz[b].valid = iy[b].valid
  BY <1>2, <1>3, MarkFailedAdds
<1>9. \A b \in Blocks \ Refused(mw) : iz[b] = iy[b]
  BY <1>2, <1>3, MarkFailedAdds
<1> HIDE DEF iz
<1>10. StepIndex(mw) = iz
  BY DEF StepIndex, InvalidBlockFound, ix, iy, iz
<1>11. mw \in Blocks /\ tip \in Blocks /\ Usable(mw)
  BY DEF MostWork, TreeInv, EntriesInv
<1>12. /\ Connected(mw) \subseteq PathTo(mw) /\ Refused(mw) \subseteq PathTo(mw)
       /\ Connected(mw) \cap Refused(mw) = {} /\ PathTo(mw) \subseteq Blocks
  BY <1>11, ChainClosed DEF Connected, Refused, StopBlock, PathTo
<1>13. ASSUME NEW b \in Ancestors[tip] PROVE iz[b] = index[b]
  <2>1. b \in Blocks /\ b \notin PathTo(mw) /\ b \notin Marked
    BY <1>11, ChainClosed, MarkedOffPath DEF PathTo
  <2> QED
    BY <1>1, <1>5, <1>9, <1>12, <2>1
<1>14. ASSUME NEW b \in Connected(mw)
       PROVE  iz[b].data /\ iz[b].valid = VALID_SCRIPTS /\ iz[b].failed = {}
  <2>1. b \in Blocks /\ b \in PathTo(mw) /\ b \notin Refused(mw)
    BY <1>12
  <2>2. index[b].data /\ index[b].failed = {}
    BY <1>11, <2>1 DEF Usable, Failed
  <2>3. ix[b] = index[b]
    BY <1>1, <2>1, MarkedOffPath DEF PathTo
  <2>4. iy[b].valid >= VALID_SCRIPTS /\ iy[b].data /\ iy[b].failed = {}
    BY <1>4, <1>6, <2>1, <2>2, <2>3
  <2>5. iy[b].valid = VALID_SCRIPTS
    <3>1. iy[b].valid \in {VALID_NONE, VALID_TREE, VALID_TRANSACTIONS, VALID_SCRIPTS}
      BY <1>3, <2>1 DEF Entry
    <3> QED
      BY <2>4, <3>1 DEF VALID_NONE, VALID_TREE, VALID_TRANSACTIONS, VALID_SCRIPTS
  <2> QED
    BY <1>9, <2>1, <2>4, <2>5
<1>15. \A b \in Blocks : iz[b].data = index[b].data
  BY <1>1, <1>4, <1>8
<1>16. \A b \in Blocks : b \notin Connected(mw) => iz[b].valid = index[b].valid
  BY <1>1, <1>5, <1>8
<1> QED
  BY <1>7, <1>10, <1>13, <1>14, <1>15, <1>16

\* A step of ActivateBestChain.
LEMMA TreeActivateTo ==
  ASSUME TreeInv, NEW mw \in candidates, ActivateTo(mw)
  PROVE  TreeInv' /\ (NoneFailed(index, tip) => NoneFailed(index, tip)')
<1> DEFINE iz == StepIndex(mw)
           t  == NewTip(mw)
<1>1. mw \in MostWork /\ UNCHANGED <<chainTx, unlinked>>
  BY DEF ActivateTo
<1>2. index' = iz /\ tip' = t /\ candidates' \subseteq candidates
  BY DEF ActivateTo, ActivateBestChainStep, StepIndex, FindMostWorkChain_Candidates, Pruned
<1>3. mw \in Blocks /\ tip \in Blocks
  BY DEF TreeInv, EntriesInv
<1>4. t \in Blocks /\ \A a \in Ancestors[t] : a \in Ancestors[tip] \/ a \in Connected(mw)
  BY <1>3, NewTipOnChain
<1>5. /\ iz \in [Blocks -> Entry]
      /\ \A b \in Blocks : iz[b].data = index[b].data
      /\ \A b \in Blocks : b \notin Connected(mw) => iz[b].valid = index[b].valid
      /\ \A b \in Ancestors[tip] : iz[b] = index[b]
      /\ \A b \in Connected(mw) : iz[b].data /\ iz[b].valid = VALID_SCRIPTS /\ iz[b].failed = {}
  BY <1>1, StepEntries
<1> HIDE DEF iz, t
<1>6. Connected(mw) \subseteq Blocks
  BY <1>3, ChainClosed DEF Connected, PathTo
<1>7. Known(iz) = Known(index)
  <2>1. \A b \in Connected(mw) : b \in Known(index)
    BY <1>5, <1>6 DEF TreeInv, EntriesInv
  <2>2. \A b \in Connected(mw) : b \in Known(iz)
    BY <1>5, <1>6 DEF Known, VALID_NONE, VALID_SCRIPTS
  <2> QED
    BY <1>5, <2>1, <2>2 DEF Known
<1>8. EntriesInv(iz, chainTx, unlinked)
  BY <1>5, <1>7, ChainClosed DEF TreeInv, EntriesInv
<1>9. ChainConnected(iz, t)
  BY <1>4, <1>5 DEF ChainConnected, TreeInv
<1>10. NoneFailed(index, tip) => NoneFailed(iz, t)
  BY <1>4, <1>5 DEF NoneFailed, Failed
<1>11. TreeInv'
  BY <1>1, <1>2, <1>4, <1>8, <1>9 DEF TreeInv
<1> QED
  BY <1>2, <1>10, <1>11 DEF NoneFailed

\* FindMostWorkChain found nothing better.
LEMMA TreeActivateDone ==
  ASSUME TreeInv, ActivateDone
  PROVE  TreeInv' /\ (NoneFailed(index, tip) => NoneFailed(index, tip)')
<1> DEFINE ix == FindMostWorkChain_Index
<1>1. /\ index' = ix /\ tip' = tip /\ candidates' \subseteq candidates
      /\ UNCHANGED <<chainTx, unlinked>>
  BY DEF ActivateDone, FindMostWorkChain_Candidates
<1>2. /\ ix \in [Blocks -> Entry]
      /\ \A b \in Blocks : ix[b].valid = index[b].valid /\ ix[b].data = index[b].data
      /\ \A b \in Blocks \ Marked : ix[b] = index[b]
  BY FoundIndex
<1> HIDE DEF ix
<1>3. EntriesInv(ix, chainTx, unlinked) /\ ChainConnected(ix, tip)
  BY <1>2, MarksOnly DEF TreeInv
<1>4. \A a \in Ancestors[tip] : ix[a] = index[a]
  BY <1>2, MarkedOffPath, ChainClosed DEF TreeInv
<1>5. TreeInv'
  BY <1>1, <1>3 DEF TreeInv
<1>6. NoneFailed(index, tip) => NoneFailed(ix, tip)
  BY <1>4 DEF NoneFailed, Failed
<1> QED
  BY <1>1, <1>5, <1>6 DEF NoneFailed

-----------------------------------------------------------------------------
(* Operator commands.                                                      *)

\* The entries invalidateblock leaves, with the blocks of S marked as children.
InvalidatedIndex(b, S) == MarkFailed(MarkFailed(index, {b}, "FAILED_VALID"), S, "FAILED_CHILD")

\* It adds marks to b and to S and changes nothing else.
LEMMA InvalidatedEntries ==
  ASSUME TreeInv, NEW b \in Blocks, NEW S
  PROVE  /\ InvalidatedIndex(b, S) \in [Blocks -> Entry]
         /\ \A x \in Blocks : InvalidatedIndex(b, S)[x].valid = index[x].valid
         /\ \A x \in Blocks : InvalidatedIndex(b, S)[x].data = index[x].data
         /\ \A x \in Blocks : index[x].failed \subseteq InvalidatedIndex(b, S)[x].failed
         /\ \A x \in Blocks \ ({b} \cup S) : InvalidatedIndex(b, S)[x] = index[x]
<1> DEFINE ix == MarkFailed(index, {b}, "FAILED_VALID")
           iy == MarkFailed(ix, S, "FAILED_CHILD")
<1>1. /\ index \in [Blocks -> Entry]
      /\ "FAILED_VALID" \in {"FAILED_VALID", "FAILED_CHILD"}
      /\ "FAILED_CHILD" \in {"FAILED_VALID", "FAILED_CHILD"}
  BY DEF TreeInv, EntriesInv
<1>2. ix \in [Blocks -> Entry]
  BY <1>1, MarkFailedType
<1>3. /\ \A x \in Blocks : ix[x].valid = index[x].valid /\ ix[x].data = index[x].data
      /\ \A x \in Blocks : index[x].failed \subseteq ix[x].failed
      /\ \A x \in Blocks \ {b} : ix[x] = index[x]
  BY <1>1, MarkFailedAdds
<1> HIDE DEF ix
<1>4. iy \in [Blocks -> Entry]
  BY <1>1, <1>2, MarkFailedType
<1>5. /\ \A x \in Blocks : iy[x].valid = ix[x].valid /\ iy[x].data = ix[x].data
      /\ \A x \in Blocks : ix[x].failed \subseteq iy[x].failed
      /\ \A x \in Blocks \ S : iy[x] = ix[x]
  BY <1>1, <1>2, MarkFailedAdds
<1> HIDE DEF iy
<1>6. InvalidatedIndex(b, S) = iy
  BY DEF InvalidatedIndex, ix, iy
<1>7. \A x \in Blocks : index[x].failed \subseteq iy[x].failed
  BY <1>3, <1>5
<1> QED
  BY <1>3, <1>4, <1>5, <1>6, <1>7

\* What is left of the active chain under a block that is taken off it.
LEMMA ChainBelow ==
  ASSUME tip \in Blocks, NEW x \in Ancestors[tip], x # Genesis
  PROVE  /\ Parent[x] \in Blocks /\ Parent[x] \in Ancestors[tip]
         /\ Ancestors[Parent[x]] \subseteq Ancestors[tip]
         /\ \A a \in Ancestors[Parent[x]] : a \in Blocks /\ x \notin Ancestors[a]
<1>1. x \in Blocks
  BY ChainClosed
<1>2. Parent[x] \in Blocks /\ Parent[x] \in Ancestors[Parent[x]]
      /\ Ancestors[x] = Ancestors[Parent[x]] \cup {x}
  BY <1>1, ChainStep, ChainClosed, ChainsAssumption
<1>3. Ancestors[x] \subseteq Ancestors[tip]
  BY ChainTransitive
<1>4. ASSUME NEW a \in Ancestors[Parent[x]] PROVE a \in Blocks /\ x \notin Ancestors[a]
  <2>1. a \in Blocks /\ Ancestors[a] \subseteq Ancestors[Parent[x]]
    BY <1>2, ChainClosed, ChainTransitive
  <2>2. x \notin Ancestors[Parent[x]]
    BY <1>1, ChainAcyclic
  <2> QED
    BY <2>1, <2>2
<1> QED
  BY <1>2, <1>3, <1>4

\* invalidateblock marks b and takes the chain back to its parent.
LEMMA TreeInvalidateBlock ==
  ASSUME TreeInv, NEW b \in Blocks, InvalidateBlock(b)
  PROVE  TreeInv' /\ (NoneFailed(index, tip) => NoneFailed(index, tip)')
<1> DEFINE iy == InvalidatedIndex(b, Undone(b))
           t  == IF Undone(b) = {} THEN tip ELSE Parent[b]
<1>1. index' = iy /\ tip' = t /\ b # Genesis /\ UNCHANGED <<chainTx, unlinked>>
  BY DEF InvalidateBlock, InvalidatedIndex
<1>2. candidates' \subseteq chainTx
  BY DEF InvalidateBlock, RestoredCandidates, TreeInv
<1>3. /\ iy \in [Blocks -> Entry]
      /\ \A x \in Blocks : iy[x].valid = index[x].valid /\ iy[x].data = index[x].data
      /\ \A x \in Blocks \ ({b} \cup Undone(b)) : iy[x] = index[x]
  BY InvalidatedEntries
<1> HIDE DEF iy
<1>4. t \in Blocks /\ Ancestors[t] \subseteq Ancestors[tip]
      /\ \A a \in Ancestors[t] : a \in Blocks /\ a # b /\ a \notin Undone(b)
  <2>1. tip \in Blocks
    BY DEF TreeInv
  <2>2. CASE Undone(b) = {}
    <3>1. b \notin Ancestors[tip]
      BY <2>2, ChainClosed DEF Undone, Descendants
    <3> QED
      BY <2>1, <2>2, <3>1, ChainClosed
  <2>3. CASE Undone(b) # {}
    <3>1. b \in Ancestors[tip]
      BY <2>1, <2>3, ChainTransitive DEF Undone, Descendants
    <3>2. /\ Parent[b] \in Blocks
          /\ Ancestors[Parent[b]] \subseteq Ancestors[tip]
          /\ \A a \in Ancestors[Parent[b]] : a \in Blocks /\ b \notin Ancestors[a]
      BY <1>1, <2>1, <3>1, ChainBelow
    <3> QED
      BY <2>3, <3>2, ChainClosed DEF Undone, Descendants
  <2> QED
    BY <2>2, <2>3
<1> HIDE DEF t
<1>5. EntriesInv(iy, chainTx, unlinked) /\ ChainConnected(iy, tip)
  BY <1>3, MarksOnly DEF TreeInv
<1>6. ChainConnected(iy, t)
  BY <1>4, <1>5 DEF ChainConnected
<1>7. NoneFailed(index, tip) => NoneFailed(iy, t)
  BY <1>3, <1>4 DEF NoneFailed, Failed
<1>8. TreeInv'
  BY <1>1, <1>2, <1>4, <1>5, <1>6 DEF TreeInv
<1> QED
  BY <1>1, <1>7, <1>8 DEF NoneFailed

\* The entries reconsiderblock leaves.
ReconsideredIndex(b) ==
  [x \in Blocks |-> IF x \in Cleared(b) THEN [index[x] EXCEPT !.failed = {}] ELSE index[x]]

\* It removes marks and changes nothing else.
LEMMA ReconsideredEntries ==
  ASSUME TreeInv, NEW b \in Blocks
  PROVE  /\ ReconsideredIndex(b) \in [Blocks -> Entry]
         /\ \A x \in Blocks : ReconsideredIndex(b)[x].valid = index[x].valid
         /\ \A x \in Blocks : ReconsideredIndex(b)[x].data = index[x].data
         /\ \A x \in Blocks : ReconsideredIndex(b)[x].failed \subseteq index[x].failed
         /\ \A x \in Blocks \ Cleared(b) : ReconsideredIndex(b)[x] = index[x]
  BY DEF TreeInv, EntriesInv, ReconsideredIndex, Entry

\* reconsiderblock.
LEMMA TreeReconsiderBlock ==
  ASSUME TreeInv, NEW b \in Blocks, ReconsiderBlock(b)
  PROVE  TreeInv' /\ (NoneFailed(index, tip) => NoneFailed(index, tip)')
<1> DEFINE iy == ReconsideredIndex(b)
<1>1. index' = iy /\ tip' = tip /\ UNCHANGED <<chainTx, unlinked>>
  BY DEF ReconsiderBlock, ReconsideredIndex
<1>2. candidates' \subseteq chainTx
  BY DEF ReconsiderBlock, TreeInv
<1>3. /\ iy \in [Blocks -> Entry]
      /\ \A x \in Blocks : iy[x].valid = index[x].valid /\ iy[x].data = index[x].data
      /\ \A x \in Blocks : iy[x].failed \subseteq index[x].failed
  BY ReconsideredEntries
<1> HIDE DEF iy
<1>4. EntriesInv(iy, chainTx, unlinked) /\ ChainConnected(iy, tip)
  BY <1>3, MarksOnly DEF TreeInv
<1>5. NoneFailed(index, tip) => NoneFailed(iy, tip)
  <2>1. \A a \in Ancestors[tip] : a \in Blocks
    BY ChainClosed DEF TreeInv
  <2> QED
    BY <1>3, <2>1 DEF NoneFailed, Failed
<1>6. TreeInv'
  BY <1>1, <1>2, <1>4 DEF TreeInv
<1> QED
  BY <1>1, <1>5, <1>6 DEF NoneFailed

\* rewindblockindex forgets everything but a part of the active chain.
LEMMA TreeRewindBlockIndex ==
  ASSUME TreeInv, NEW t \in Blocks, RewindBlockIndex(t)
  PROVE  TreeInv' /\ (NoneFailed(index, tip) => NoneFailed(index, tip)')
<1> DEFINE kept == Ancestors[t]
           iy   == [x \in Blocks |-> IF x \in kept THEN index[x] ELSE NoEntry]
<1>1. /\ index' = iy /\ tip' = t /\ t \in Ancestors[tip]
      /\ chainTx' = chainTx \cap kept /\ unlinked' = {p \in unlinked : p[2] \in kept}
      /\ candidates' = (candidates \cap kept) \cup
           {x \in kept \cap chainTx : IsValid(index, x, VALID_TRANSACTIONS)}
  BY DEF RewindBlockIndex
<1>2. /\ index \in [Blocks -> Entry] /\ chainTx \subseteq Blocks /\ candidates \subseteq chainTx
      /\ tip \in Blocks
  BY DEF TreeInv, EntriesInv
<1>3. kept \subseteq Blocks /\ kept \subseteq Ancestors[tip]
      /\ \A x \in kept : Ancestors[x] \subseteq kept
  BY <1>1, <1>2, ChainClosed, ChainTransitive
<1>4. NoEntry \in Entry /\ ~NoEntry.data /\ NoEntry.valid = VALID_NONE
  BY DEF NoEntry, Entry
<1>5. iy \in [Blocks -> Entry]
  BY <1>2, <1>4
<1>6. /\ \A x \in kept : iy[x] = index[x]
      /\ \A x \in Blocks \ kept : iy[x] = NoEntry
  BY <1>3
<1> HIDE DEF iy
<1>7. \A x \in kept : index[x].data /\ index[x].valid = VALID_SCRIPTS
  BY <1>3 DEF TreeInv, ChainConnected
<1>8. Known(iy) = kept
  <2>1. VALID_SCRIPTS # VALID_NONE
    BY DEF VALID_SCRIPTS, VALID_NONE
  <2> QED
    BY <1>3, <1>4, <1>6, <1>7, <2>1 DEF Known
<1>9. EntriesInv(iy, chainTx \cap kept, {p \in unlinked : p[2] \in kept})
  <2>1. \A b \in chainTx \cap kept : \A a \in Ancestors[b] : iy[a].data
    BY <1>3, <1>6, <1>7
  <2>2. \A b \in Blocks : b \in kept => iy[b].data
    BY <1>6, <1>7
  <2>3. \A b \in Blocks : iy[b].data => b \in kept
    BY <1>4, <1>6
  <2>4. \A b \in Blocks : <<Parent[b], b>> \in {p \in unlinked : p[2] \in kept} => b \in kept
    OBVIOUS
  <2> HIDE DEF kept
  <2> QED
    BY <1>2, <1>3, <1>5, <1>8, <2>1, <2>2, <2>3, <2>4 DEF EntriesInv
<1>10. ChainConnected(iy, t)
  BY <1>6, <1>7 DEF ChainConnected
<1>11. NoneFailed(index, tip) => NoneFailed(iy, t)
  BY <1>3, <1>6 DEF NoneFailed, Failed
<1>12. candidates' \subseteq chainTx'
  BY <1>1, <1>2
<1>13. TreeInv'
  BY <1>1, <1>9, <1>10, <1>12 DEF TreeInv
<1> QED
  BY <1>1, <1>11, <1>13 DEF NoneFailed

-----------------------------------------------------------------------------
(* The theorem.                                                            *)

\* Every step of the tree, in memory.
LEMMA TreeNext ==
  ASSUME TreeInv, [Next]_vars
  PROVE  TreeInv' /\ (NoneFailed(index, tip) => NoneFailed(index, tip)')
<1>1. ASSUME UNCHANGED <<index, chainTx, candidates, unlinked, tip>>
      PROVE  TreeInv' /\ (NoneFailed(index, tip) => NoneFailed(index, tip)')
  BY <1>1 DEF TreeInv, NoneFailed
<1>2. ASSUME NEW b \in Blocks, DuplicateBlock(b)
      PROVE  TreeInv' /\ (NoneFailed(index, tip) => NoneFailed(index, tip)')
  BY <1>1, <1>2 DEF DuplicateBlock
<1>3. CASE Activate
  BY <1>3, TreeActivateTo DEF Activate
<1>4. CASE UNCHANGED vars
  BY <1>1, <1>4 DEF vars
<1> QED
  BY <1>2, <1>3, <1>4, TreeAcceptBlockHeader, TreeAcceptBlock, TreeRejectBlock, TreeActivateDone,
     TreeInvalidateBlock, TreeReconsiderBlock DEF Next

\* For every tree of blocks, every verdict and every order of arrivals, steps
\* and operator commands: the active chain contains no block marked failed,
\* and every block of it has its data and went through ConnectBlock.
THEOREM ActiveChainAlwaysValid == Spec => []ActiveChainValid
<1>1. Init => TreeInv /\ NoneFailed(index, tip)
  BY TreeInit
<1>2. TreeInv /\ NoneFailed(index, tip) /\ [Next]_vars => TreeInv' /\ NoneFailed(index, tip)'
  BY TreeNext
<1>3. TreeInv /\ NoneFailed(index, tip) => ActiveChainValid
  BY DEF TreeInv, ChainConnected, NoneFailed, ActiveChainValid
<1> QED
  BY <1>1, <1>2, <1>3, PTL DEF Spec
-----------------------------------------------------------------------------
(* The entries and the sets beside them.                                   *)

\* Data means that the transactions were checked; the blocks that went through
\* ConnectBlock are closed under ancestors.
Levels(ix) ==
  /\ \A b \in Blocks : ix[b].data <=> ix[b].valid \in {VALID_TRANSACTIONS, VALID_SCRIPTS}
  /\ \A b \in Blocks : ix[b].valid = VALID_SCRIPTS =>
                         \A a \in Ancestors[b] : ix[a].valid = VALID_SCRIPTS

\* A complete chain has nChainTx, other blocks with data wait for their
\* parent, and only blocks with nChainTx have a sequence id.
LinksInv ==
  /\ \A b \in Blocks : (\A a \in Ancestors[b] : index[a].data) => b \in chainTx
  /\ \A b \in Blocks \ {Genesis} :
       index[b].data /\ b \notin chainTx => <<Parent[b], b>> \in unlinked
  /\ \A b \in Blocks : nSequenceId[b] # 0 => b \in chainTx

\* The level constants differ.
LEMMA LevelsDiffer ==
  /\ VALID_NONE \notin {VALID_TREE, VALID_TRANSACTIONS, VALID_SCRIPTS}
  /\ VALID_TREE \notin {VALID_TRANSACTIONS, VALID_SCRIPTS}
  /\ VALID_TRANSACTIONS # VALID_SCRIPTS
  BY DEF VALID_NONE, VALID_TREE, VALID_TRANSACTIONS, VALID_SCRIPTS

\* Marks do not matter to the levels.
LEMMA LevelsSame ==
  ASSUME NEW ix, NEW iy, Levels(ix),
         \A b \in Blocks : iy[b].valid = ix[b].valid /\ iy[b].data = ix[b].data
  PROVE  Levels(iy)
  BY ChainClosed DEF Levels

\* An entry that has no data before and after may change below
\* VALID_TRANSACTIONS, and one without data may get it with that level.
LEMMA LevelsOne ==
  ASSUME NEW ix, NEW iy, Levels(ix), NEW b \in Blocks, ~ix[b].data,
         \A x \in Blocks \ {b} : iy[x] = ix[x],
         iy[b].data <=> iy[b].valid = VALID_TRANSACTIONS, iy[b].valid # VALID_SCRIPTS
  PROVE  Levels(iy)
<1>1. ix[b].valid # VALID_SCRIPTS
  BY DEF Levels
<1>2. \A x \in Blocks : iy[x].data <=> iy[x].valid \in {VALID_TRANSACTIONS, VALID_SCRIPTS}
  BY DEF Levels
<1>3. ASSUME NEW x \in Blocks, iy[x].valid = VALID_SCRIPTS, NEW a \in Ancestors[x]
      PROVE  iy[a].valid = VALID_SCRIPTS
  <2>1. x # b /\ ix[x].valid = VALID_SCRIPTS
    BY <1>3
  <2>2. a \in Blocks /\ ix[a].valid = VALID_SCRIPTS
    BY <2>1, ChainClosed DEF Levels
  <2> QED
    BY <1>1, <2>2
<1> QED
  BY <1>2, <1>3 DEF Levels

\* At the beginning.
LEMMA LinksInit == Init => Levels(index) /\ LinksInv
<1> SUFFICES ASSUME Init PROVE Levels(index) /\ LinksInv
  OBVIOUS
<1>1. Genesis \in Blocks
  BY ChainsAssumption
<1>2. /\ \A b \in Blocks \ {Genesis} : index[b].valid = VALID_NONE /\ ~index[b].data
      /\ index[Genesis].valid = VALID_SCRIPTS /\ index[Genesis].data
  BY <1>1 DEF Init, NoEntry
<1>3. Levels(index)
  BY <1>1, <1>2, LevelsDiffer, ChainGenesis DEF Levels
<1>4. LinksInv
  <2>1. chainTx = {Genesis} /\ \A b \in Blocks \ {Genesis} : nSequenceId[b] = 0
    BY DEF Init
  <2>2. \A b \in Blocks : (\A a \in Ancestors[b] : index[a].data) => b = Genesis
    BY <1>2, ChainClosed
  <2> QED
    BY <1>2, <2>1, <2>2 DEF LinksInv
<1> QED
  BY <1>3, <1>4

\* A chain below a connected one is connected.
LEMMA ConnectedBelow ==
  ASSUME NEW ix, NEW t \in Blocks, NEW s \in Ancestors[t]
  PROVE  /\ s \in Blocks
         /\ ChainConnected(ix, t) => ChainConnected(ix, s)
         /\ NoneFailed(ix, t) => NoneFailed(ix, s)
  BY ChainTransitive, ChainClosed DEF ChainConnected, NoneFailed

\* Steps that only change marks.
LEMMA IndexMarks ==
  ASSUME Levels(index), LinksInv, UNCHANGED <<chainTx, unlinked, nSequenceId>>,
         \A b \in Blocks : index'[b].valid = index[b].valid /\ index'[b].data = index[b].data
  PROVE  Levels(index') /\ LinksInv'
<1>1. Levels(index')
  BY LevelsSame
<1>2. \A b \in Blocks : (\A a \in Ancestors[b] : index'[a].data) => \A a \in Ancestors[b] : index[a].data
  BY ChainClosed
<1> QED
  BY <1>1, <1>2 DEF LinksInv

\* A header, kept or rejected.
LEMMA IndexHeader ==
  ASSUME TreeInv, Levels(index), LinksInv, NEW b \in Blocks,
         AcceptBlockHeader(b) \/ RejectBlock(b)
  PROVE  Levels(index') /\ LinksInv'
<1> DEFINE ix == Entered(index, b)
<1>1. index \in [Blocks -> Entry]
  BY DEF TreeInv, EntriesInv
<1>2. /\ ~index[b].data /\ UNCHANGED <<chainTx, unlinked, nSequenceId>>
      /\ index' = ix \/ index' = MarkFailed(ix, {b}, "FAILED_VALID")
  BY DEF AcceptBlockHeader, RejectBlock, TreeInv, EntriesInv
<1>3. /\ ix \in [Blocks -> Entry] /\ \A x \in Blocks \ {b} : ix[x] = index[x]
      /\ ix[b].data = index[b].data /\ ix[b].valid \in {index[b].valid, VALID_TREE}
  BY <1>1 DEF Entered, Entry
<1> HIDE DEF ix
<1>4. /\ \A x \in Blocks : index'[x].valid = ix[x].valid /\ index'[x].data = ix[x].data
      /\ \A x \in Blocks \ {b} : index'[x] = ix[x]
  <2> DEFINE iy == MarkFailed(ix, {b}, "FAILED_VALID")
  <2>1. "FAILED_VALID" \in {"FAILED_VALID", "FAILED_CHILD"}
    OBVIOUS
  <2>2. /\ \A x \in Blocks : iy[x].valid = ix[x].valid /\ iy[x].data = ix[x].data
        /\ \A x \in Blocks \ {b} : iy[x] = ix[x]
    BY <1>3, <2>1, MarkFailedAdds
  <2>3. index' = ix \/ index' = iy
    BY <1>2
  <2> HIDE DEF iy
  <2> QED
    BY <2>2, <2>3
<1>5. /\ \A x \in Blocks \ {b} : index'[x] = index[x]
      /\ ~index'[b].data /\ index'[b].valid \in {index[b].valid, VALID_TREE}
  BY <1>2, <1>3, <1>4
<1>6. index'[b].valid \notin {VALID_TRANSACTIONS, VALID_SCRIPTS}
  BY <1>2, <1>5, LevelsDiffer DEF Levels
<1>7. Levels(index')
  BY <1>2, <1>5, <1>6, LevelsOne
<1>8. \A x \in Blocks : index'[x].data = index[x].data
  <2>1. \A x \in Blocks : index[x].data \in BOOLEAN /\ ix[x].data \in BOOLEAN
    BY <1>1, <1>3 DEF Entry
  <2> QED
    BY <1>3, <1>4
<1>9. LinksInv'
  <2>1. \A x \in Blocks : (\A a \in Ancestors[x] : index'[a].data) => \A a \in Ancestors[x] : index[a].data
    BY <1>8, ChainClosed
  <2> QED
    BY <1>2, <1>8, <2>1 DEF LinksInv
<1> QED
  BY <1>7, <1>9

\* A block that is stored.
LEMMA IndexAcceptBlock ==
  ASSUME TreeInv, Levels(index), LinksInv, NEW b \in Blocks, AcceptBlock(b)
  PROVE  Levels(index') /\ LinksInv'
<1> DEFINE ix == Entered(index, b)
           iy == [ix EXCEPT ![b].data = TRUE]
           iz == RaiseValidity(iy, {b}, VALID_TRANSACTIONS)
<1>1. /\ HasGoodParent(b) /\ ~index[b].data /\ index[b].failed = {}
      /\ ReceivedBlockTransactions(b, ix)
  BY DEF AcceptBlock, Failed
<1>2. index \in [Blocks -> Entry]
  BY DEF TreeInv, EntriesInv
<1>3. /\ ix \in [Blocks -> Entry] /\ \A x \in Blocks \ {b} : ix[x] = index[x]
      /\ ix[b].failed = index[b].failed /\ ix[b].valid \in {index[b].valid, VALID_TREE}
  BY <1>2 DEF Entered, Entry
<1>4. index' = iz
  BY <1>1 DEF ReceivedBlockTransactions
<1> HIDE DEF ix
<1>5. /\ iy \in [Blocks -> Entry] /\ \A x \in Blocks \ {b} : iy[x] = ix[x]
      /\ iy[b].failed = ix[b].failed /\ iy[b].valid = ix[b].valid /\ iy[b].data
  BY <1>3, Zenon DEF Entry
<1> HIDE DEF iy
<1>6. iy \in [Blocks -> Entry] /\ VALID_TRANSACTIONS \in {VALID_TRANSACTIONS, VALID_SCRIPTS}
  BY <1>5
<1>7. iz \in [Blocks -> Entry]
  BY <1>6, RaiseValidityType
<1>8. iz[b].data = iy[b].data /\ iz[b].valid \in {iy[b].valid, VALID_TRANSACTIONS}
  BY <1>6, RaiseValidityRaises
<1>9. \A x \in Blocks \ {b} : iz[x] = iy[x]
  BY <1>6, RaiseValidityRaises
<1>10. iz[b].valid = VALID_TRANSACTIONS
  <2>1. iy[b].failed = {} => iz[b].valid >= VALID_TRANSACTIONS
    BY <1>6, RaiseValidityRaises
  <2> HIDE DEF iz
  <2>2. iz[b].valid \in {VALID_NONE, VALID_TREE, VALID_TRANSACTIONS, VALID_SCRIPTS}
    BY <1>7 DEF Entry
  <2>3. iy[b].failed = {}
    BY <1>1, <1>3, <1>5
  <2>4. iz[b].valid \in {VALID_TRANSACTIONS, VALID_SCRIPTS}
    BY <2>1, <2>2, <2>3 DEF VALID_NONE, VALID_TREE, VALID_TRANSACTIONS, VALID_SCRIPTS
  <2>5. index[b].valid # VALID_SCRIPTS
    BY <1>1 DEF Levels
  <2> QED
    BY <1>3, <1>5, <1>8, <2>4, <2>5, LevelsDiffer
<1> HIDE DEF iz
<1>11. \A x \in Blocks \ {b} : index'[x] = index[x]
  BY <1>3, <1>4, <1>5, <1>9
<1>12. index'[b].data /\ index'[b].valid = VALID_TRANSACTIONS
  BY <1>4, <1>5, <1>8, <1>10
<1>13. Levels(index')
  BY <1>1, <1>11, <1>12, LevelsOne, LevelsDiffer
<1>14. b # Genesis /\ Parent[b] \in Known(index) /\ ~Failed(index, Parent[b])
  BY <1>1 DEF HasGoodParent
<1>15. \A x \in chainTx : b \notin Ancestors[x]
  BY <1>1 DEF TreeInv, EntriesInv
<1>16. ASSUME NEW x \in Blocks, \A a \in Ancestors[x] : index'[a].data, b \notin Ancestors[x]
       PROVE  x \in chainTx
  BY <1>11, <1>16, ChainClosed DEF LinksInv
<1>17. ASSUME NEW y \in Blocks, y # Genesis, y # b, index'[y].data, y \notin chainTx
       PROVE  <<Parent[y], y>> \in unlinked
  BY <1>11, <1>17 DEF LinksInv
<1>18. CASE Parent[b] \in chainTx
  <2> DEFINE linked == NewlyLinked(b)
  <2>1. /\ chainTx' = chainTx \cup linked
        /\ unlinked' = {p \in unlinked : p[1] \notin linked}
        /\ \E f \in Numberings(linked) :
             nSequenceId' = [x \in Blocks |-> IF x \in linked THEN f[x] ELSE nSequenceId[x]]
    BY <1>1, <1>18 DEF ReceivedBlockTransactions
  <2>2. ASSUME NEW x \in Blocks, \A a \in Ancestors[x] : index'[a].data
        PROVE  x \in chainTx'
    <3>1. CASE b \notin Ancestors[x]
      BY <1>16, <2>1, <2>2, <3>1
    <3>2. CASE b \in Ancestors[x]
      <4>1. ASSUME NEW y \in Ancestors[x], b \in Ancestors[y], y # b
            PROVE  <<Parent[y], y>> \in unlinked
        <5>1. y \in Blocks /\ index'[y].data /\ y \notin chainTx
          BY <1>15, <2>2, <4>1, ChainClosed
        <5>2. y # Genesis
          BY <1>14, <4>1, ChainGenesis
        <5> QED
          BY <1>17, <4>1, <5>1, <5>2
      <4> QED
        BY <2>1, <3>2, <4>1 DEF NewlyLinked, Descendants
    <3> QED
      BY <3>1, <3>2
  <2>3. b \in linked
    BY ChainClosed, ChainAntisymmetric DEF NewlyLinked, Descendants
  <2>4. ASSUME NEW y \in Blocks \ {Genesis}, index'[y].data, y \notin chainTx'
        PROVE  <<Parent[y], y>> \in unlinked'
    <3>1. y # b /\ y \notin chainTx /\ y \notin linked
      BY <2>1, <2>3, <2>4
    <3>2. <<Parent[y], y>> \in unlinked
      BY <1>17, <2>4, <3>1
    <3>3. Parent[y] \in Blocks /\ Ancestors[y] = {y} \cup Ancestors[Parent[y]]
      BY <2>4, ChainStep
    <3>4. ASSUME Parent[y] \in linked PROVE FALSE
      <4>1. /\ b \in Ancestors[Parent[y]]
            /\ \A z \in Ancestors[Parent[y]] :
                 b \in Ancestors[z] /\ z # b => <<Parent[z], z>> \in unlinked
        BY <3>4 DEF NewlyLinked, Descendants
      <4>2. \A z \in Ancestors[y] : b \in Ancestors[z] /\ z # b => <<Parent[z], z>> \in unlinked
        BY <3>2, <3>3, <4>1
      <4> QED
        BY <3>1, <3>3, <4>1, <4>2 DEF NewlyLinked, Descendants
    <3> QED
      BY <2>1, <3>2, <3>4
  <2>5. \A x \in Blocks : nSequenceId'[x] # 0 => x \in chainTx'
    BY <2>1 DEF LinksInv
  <2> QED
    BY <1>13, <2>2, <2>4, <2>5 DEF LinksInv
<1>19. CASE Parent[b] \notin chainTx
  <2>1. Parent[b] \in Blocks /\ Parent[b] # b /\ Parent[b] \in Ancestors[b]
        /\ b \notin Ancestors[Parent[b]]
    BY <1>14, ChainStep, ChainClosed, ChainAcyclic
  <2>2. IsValid(ix, Parent[b], VALID_TREE)
    <3>1. ix[Parent[b]] = index[Parent[b]]
      BY <1>3, <2>1
    <3>2. index[Parent[b]].valid \in {VALID_TREE, VALID_TRANSACTIONS, VALID_SCRIPTS}
      BY <1>2, <1>14, <2>1 DEF Known, Entry
    <3>3. index[Parent[b]].valid >= VALID_TREE
      BY <3>2 DEF VALID_TREE, VALID_TRANSACTIONS, VALID_SCRIPTS
    <3> QED
      BY <1>14, <3>1, <3>3 DEF IsValid, Failed
  <2>3. /\ UNCHANGED <<chainTx, nSequenceId>>
        /\ unlinked' = unlinked \cup {<<Parent[b], b>>}
    BY <1>1, <1>19, <2>2 DEF ReceivedBlockTransactions
  <2>4. ASSUME NEW x \in Blocks, \A a \in Ancestors[x] : index'[a].data
        PROVE  x \in chainTx'
    <3>1. CASE b \notin Ancestors[x]
      BY <1>16, <2>3, <2>4, <3>1
    <3>2. CASE b \in Ancestors[x]
      <4>1. \A a \in Ancestors[Parent[b]] : index'[a].data
        BY <2>1, <2>4, <3>2, ChainTransitive
      <4> QED
        BY <1>16, <1>19, <2>1, <4>1
    <3> QED
      BY <3>1, <3>2
  <2>5. ASSUME NEW y \in Blocks \ {Genesis}, index'[y].data, y \notin chainTx'
        PROVE  <<Parent[y], y>> \in unlinked'
    BY <1>17, <2>3, <2>5
  <2>6. \A x \in Blocks : nSequenceId'[x] # 0 => x \in chainTx'
    BY <2>3 DEF LinksInv
  <2> QED
    BY <1>13, <2>4, <2>5, <2>6 DEF LinksInv
<1> QED
  BY <1>18, <1>19

\* Blocks on top of the active chain that were connected, parents first.
LEMMA LevelsConnected ==
  ASSUME TreeInv, Levels(index), NEW S \in SUBSET Blocks, NEW iy,
         \A x \in S : \A a \in Ancestors[x] : a \in Ancestors[tip] \/ a \in S,
         \A x \in S : iy[x].data /\ iy[x].valid = VALID_SCRIPTS,
         \A x \in Blocks \ S : iy[x].valid = index[x].valid /\ iy[x].data = index[x].data
  PROVE  Levels(iy)
<1>1. \A x \in Blocks : iy[x].data <=> iy[x].valid \in {VALID_TRANSACTIONS, VALID_SCRIPTS}
  BY DEF Levels
<1>2. \A a \in Blocks : index[a].valid = VALID_SCRIPTS => iy[a].valid = VALID_SCRIPTS
  OBVIOUS
<1>3. \A a \in Ancestors[tip] : a \in Blocks /\ index[a].valid = VALID_SCRIPTS
  BY ChainClosed DEF TreeInv, ChainConnected
<1>4. ASSUME NEW x \in Blocks, iy[x].valid = VALID_SCRIPTS, NEW a \in Ancestors[x]
      PROVE  iy[a].valid = VALID_SCRIPTS
  <2>1. CASE x \in S
    BY <1>2, <1>3, <2>1
  <2>2. CASE x \notin S
    BY <1>2, <1>4, <2>2, ChainClosed DEF Levels
  <2> QED
    BY <2>1, <2>2
<1> QED
  BY <1>1, <1>4 DEF Levels

\* A step towards the best candidate.
LEMMA IndexActivateTo ==
  ASSUME TreeInv, Levels(index), LinksInv, NEW mw \in MostWork, ActivateTo(mw)
  PROVE  Levels(index') /\ LinksInv'
<1>1. index' = StepIndex(mw) /\ UNCHANGED <<chainTx, unlinked, nSequenceId>>
  BY DEF ActivateTo, ActivateBestChainStep, StepIndex
<1>2. /\ \A b \in Blocks : StepIndex(mw)[b].data = index[b].data
      /\ \A b \in Blocks : b \notin Connected(mw) => StepIndex(mw)[b].valid = index[b].valid
      /\ \A b \in Connected(mw) : StepIndex(mw)[b].data /\ StepIndex(mw)[b].valid = VALID_SCRIPTS
  BY StepEntries
<1>3. tip \in Blocks /\ mw \in Blocks
  BY DEF TreeInv, EntriesInv, MostWork
<1>4. Connected(mw) \in SUBSET Blocks
  BY <1>3, ChainClosed DEF Connected, PathTo
<1>5. \A x \in Connected(mw) : \A a \in Ancestors[x] : a \in Ancestors[tip] \/ a \in Connected(mw)
  BY <1>3, ConnectedClosed
<1>6. Levels(StepIndex(mw))
  BY <1>2, <1>4, <1>5, LevelsConnected
<1>7. \A b \in Blocks : index'[b].data = index[b].data
  BY <1>1, <1>2
<1>8. \A b \in Blocks : (\A a \in Ancestors[b] : index'[a].data) => \A a \in Ancestors[b] : index[a].data
  BY <1>7, ChainClosed
<1> QED
  BY <1>1, <1>6, <1>7, <1>8 DEF LinksInv

\* rewindblockindex: what it keeps is a connected chain.
LEMMA IndexRewind ==
  ASSUME TreeInv, Levels(index), LinksInv, NEW t \in Blocks, RewindBlockIndex(t)
  PROVE  Levels(index') /\ LinksInv'
<1> DEFINE kept == Ancestors[t]
<1>1. /\ index' = [x \in Blocks |-> IF x \in kept THEN index[x] ELSE NoEntry]
      /\ t \in Ancestors[tip] /\ chainTx' = chainTx \cap kept
      /\ nSequenceId' = [x \in Blocks |-> IF x \in kept THEN nSequenceId[x] ELSE 0]
  BY DEF RewindBlockIndex
<1>2. ChainConnected(index, t) /\ tip \in Blocks
  BY <1>1, ConnectedBelow DEF TreeInv
<1>3. /\ \A x \in kept : x \in Blocks /\ index'[x].data /\ index'[x].valid = VALID_SCRIPTS
      /\ \A x \in Blocks \ kept : ~index'[x].data /\ index'[x].valid = VALID_NONE
  BY <1>1, <1>2, ChainClosed DEF ChainConnected, NoEntry
<1>4. \A x \in kept : Ancestors[x] \subseteq kept
  BY ChainTransitive
<1>5. Levels(index')
  BY <1>3, <1>4, LevelsDiffer DEF Levels
<1>6. \A x \in kept : x \in chainTx'
  BY <1>1, <1>2, <1>3, <1>4 DEF LinksInv, ChainConnected
<1>7. ASSUME NEW x \in Blocks, \A a \in Ancestors[x] : index'[a].data PROVE x \in chainTx'
  BY <1>3, <1>6, <1>7, ChainClosed
<1>8. \A x \in Blocks : nSequenceId'[x] # 0 => x \in chainTx'
  BY <1>1, <1>6
<1> QED
  BY <1>3, <1>5, <1>6, <1>7, <1>8 DEF LinksInv

\* Every step of the tree, in memory.
LEMMA LinksNext ==
  ASSUME TreeInv, Levels(index), LinksInv, Next
  PROVE  Levels(index') /\ LinksInv'
<1>1. ASSUME NEW b \in Blocks, DuplicateBlock(b)
      PROVE  Levels(index') /\ LinksInv'
  BY <1>1, IndexMarks DEF DuplicateBlock
<1>2. CASE ActivateDone
  <2>1. index' = FindMostWorkChain_Index /\ UNCHANGED <<chainTx, unlinked, nSequenceId>>
    BY <1>2 DEF ActivateDone
  <2>2. \A x \in Blocks : /\ FindMostWorkChain_Index[x].valid = index[x].valid
                          /\ FindMostWorkChain_Index[x].data = index[x].data
    BY FoundIndex
  <2> QED
    BY <2>1, <2>2, IndexMarks
<1>3. ASSUME NEW b \in Blocks, ReconsiderBlock(b)
      PROVE  Levels(index') /\ LinksInv'
  <2>1. index' = ReconsideredIndex(b) /\ UNCHANGED <<chainTx, unlinked, nSequenceId>>
    BY <1>3 DEF ReconsiderBlock, ReconsideredIndex
  <2>2. \A x \in Blocks : /\ ReconsideredIndex(b)[x].valid = index[x].valid
                          /\ ReconsideredIndex(b)[x].data = index[x].data
    BY ReconsideredEntries
  <2> QED
    BY <2>1, <2>2, IndexMarks
<1>4. ASSUME NEW b \in Blocks, InvalidateBlock(b)
      PROVE  Levels(index') /\ LinksInv'
  <2>1. index' = InvalidatedIndex(b, Undone(b)) /\ UNCHANGED <<chainTx, unlinked, nSequenceId>>
    BY <1>4 DEF InvalidateBlock, InvalidatedIndex
  <2>2. \A x \in Blocks : /\ InvalidatedIndex(b, Undone(b))[x].valid = index[x].valid
                          /\ InvalidatedIndex(b, Undone(b))[x].data = index[x].data
    BY InvalidatedEntries
  <2> QED
    BY <2>1, <2>2, IndexMarks
<1>5. CASE Activate
  BY <1>5, IndexActivateTo DEF Activate, ActivateTo
<1> QED
  BY <1>1, <1>2, <1>3, <1>4, <1>5, IndexHeader, IndexAcceptBlock DEF Next

\* What the invariant says of the known blocks.
LEMMA LinksConsistent == TreeInv /\ Levels(index) /\ LinksInv => IndexConsistent
<1> SUFFICES ASSUME TreeInv, Levels(index), LinksInv, NEW b \in Known(index)
             PROVE  /\ index[b].data <=> index[b].valid >= VALID_TRANSACTIONS
                    /\ b \in chainTx <=> \A a \in Ancestors[b] : index[a].data
                    /\ nSequenceId[b] # 0 => b \in chainTx
                    /\ index[b].valid >= VALID_SCRIPTS =>
                         \A a \in Ancestors[b] : index[a].valid >= VALID_SCRIPTS
                    /\ Ancestors[b] \subseteq Known(index)
  BY DEF IndexConsistent
<1>1. b \in Blocks /\ index \in [Blocks -> Entry]
  BY DEF Known, TreeInv, EntriesInv
<1>2. \A a \in Blocks :
        /\ index[a].valid >= VALID_TRANSACTIONS <=> index[a].valid \in {VALID_TRANSACTIONS, VALID_SCRIPTS}
        /\ index[a].valid >= VALID_SCRIPTS <=> index[a].valid = VALID_SCRIPTS
  <2>1. \A a \in Blocks : index[a].valid \in {VALID_NONE, VALID_TREE, VALID_TRANSACTIONS, VALID_SCRIPTS}
    BY <1>1 DEF Entry
  <2> QED
    BY <2>1 DEF VALID_NONE, VALID_TREE, VALID_TRANSACTIONS, VALID_SCRIPTS
<1>3. index[b].data <=> index[b].valid >= VALID_TRANSACTIONS
  BY <1>1, <1>2 DEF Levels
<1>4. b \in chainTx <=> \A a \in Ancestors[b] : index[a].data
  BY <1>1 DEF TreeInv, EntriesInv, LinksInv
<1>5. nSequenceId[b] # 0 => b \in chainTx
  BY <1>1 DEF LinksInv
<1>6. index[b].valid >= VALID_SCRIPTS => \A a \in Ancestors[b] : index[a].valid >= VALID_SCRIPTS
  BY <1>1, <1>2, ChainClosed DEF Levels
<1>7. Ancestors[b] \subseteq Known(index)
  BY DEF TreeInv, EntriesInv
<1> QED
  BY <1>3, <1>4, <1>5, <1>6, <1>7

-----------------------------------------------------------------------------
(* CBlockIndexWorkComparator.                                              *)

\* It is a strict total order: equal work and sequence ids are told apart by
\* the addresses.
LEMMA WorseOrder ==
  ASSUME NEW seq \in [Blocks -> Nat], NEW addr \in Addresses,
         NEW a \in Blocks, NEW b \in Blocks
  PROVE  /\ ~Worse(a, a, seq, addr)
         /\ Worse(a, b, seq, addr) => ~Worse(b, a, seq, addr)
         /\ a = b \/ Worse(a, b, seq, addr) \/ Worse(b, a, seq, addr)
<1>1. /\ nChainWork[a] \in Nat /\ nChainWork[b] \in Nat
      /\ addr[a] \in Nat /\ addr[b] \in Nat /\ (addr[a] = addr[b] => a = b)
      /\ seq[a] \in Nat /\ seq[b] \in Nat
  BY BlockTreeAssumption
<1> QED
  BY <1>1 DEF Worse

\* The same: it is transitive.
LEMMA WorseTransitive ==
  ASSUME NEW seq \in [Blocks -> Nat], NEW addr \in Addresses,
         NEW a \in Blocks, NEW b \in Blocks, NEW c \in Blocks,
         Worse(a, b, seq, addr), Worse(b, c, seq, addr)
  PROVE  Worse(a, c, seq, addr)
<1>1. /\ nChainWork[a] \in Nat /\ nChainWork[b] \in Nat /\ nChainWork[c] \in Nat
      /\ addr[a] \in Nat /\ addr[b] \in Nat /\ addr[c] \in Nat
      /\ seq[a] \in Nat /\ seq[b] \in Nat /\ seq[c] \in Nat
  BY BlockTreeAssumption
<1> QED
  BY <1>1 DEF Worse

\* Work grows along a chain, so a block sorts before its descendants.
LEMMA WorseBelow ==
  ASSUME NEW seq, NEW addr, NEW b \in Blocks, NEW a \in Ancestors[b], a # b
  PROVE  Worse(a, b, seq, addr)
<1> DEFINE S == {x \in Ancestors[b] : x = b \/ nChainWork[x] < nChainWork[b]}
<1>1. \A x \in Blocks : nChainWork[x] \in Nat
  BY BlockTreeAssumption
<1>2. S \in SUBSET Blocks /\ b \in S
  BY ChainClosed
<1>3. ASSUME NEW x \in S, x # Genesis PROVE Parent[x] \in S
  <2>1. x \in Blocks /\ Parent[x] \in Ancestors[b] /\ Parent[x] \in Blocks
    BY <1>3, ChainClosed
  <2>2. nChainWork[Parent[x]] < nChainWork[x]
    BY <1>3, <2>1, BlockTreeAssumption
  <2>3. nChainWork[Parent[x]] \in Nat /\ nChainWork[x] \in Nat /\ nChainWork[b] \in Nat
    BY <1>1, <2>1
  <2> QED
    BY <1>3, <2>1, <2>2, <2>3
<1>4. PrevClosed(S)
  BY <1>3 DEF PrevClosed
<1>5. a \in S
  BY <1>2, <1>4, ChainSmallest
<1> QED
  BY <1>5 DEF Worse

\* Every set of blocks has a last one.
LEMMA BestOf ==
  ASSUME NEW seq \in [Blocks -> Nat], NEW addr \in Addresses, NEW S \in SUBSET Blocks, S # {}
  PROVE  \E m \in S : \A d \in S \ {m} : Worse(d, m, seq, addr)
<1> DEFINE Better(m) == {d \in S : Worse(m, d, seq, addr)}
           T == {Cardinality(Better(m)) : m \in S}
<1>1. ASSUME NEW m \in S PROVE IsFiniteSet(Better(m)) /\ Cardinality(Better(m)) \in Nat
  <2>1. Better(m) \in SUBSET Blocks
    OBVIOUS
  <2> HIDE DEF Better
  <2> QED
    BY <2>1, ChainsAssumption, FS_Subset, FS_CardinalityType
<1>2. T \in SUBSET Nat /\ T # {}
  BY <1>1, Zenon
<1>3. PICK n \in T : \A k \in T : n =< k
  <2> HIDE DEF T
  <2> QED
    BY <1>2, SmallestNumber
<1>4. PICK m \in S : n = Cardinality(Better(m))
  BY <1>3
<1>5. ASSUME NEW d \in S, Worse(m, d, seq, addr) PROVE FALSE
  <2>1. d \in Blocks /\ m \in Blocks /\ d \in Better(m) /\ d \notin Better(d)
    BY <1>4, <1>5, WorseOrder
  <2>2. ASSUME NEW e \in Better(d) PROVE e \in Better(m)
    <3>1. e \in S /\ e \in Blocks /\ Worse(d, e, seq, addr)
      BY <2>2
    <3> QED
      BY <1>5, <2>1, <3>1, WorseTransitive
  <2>3. Better(d) \in SUBSET Better(m) /\ Better(d) # Better(m)
    BY <2>1, <2>2
  <2>4. IsFiniteSet(Better(m))
    BY <1>1, <1>4
  <2>5. Cardinality(Better(d)) \in T /\ Cardinality(Better(d)) \in Nat
        /\ Cardinality(Better(m)) \in Nat
    BY <1>1, <1>4, Zenon
  <2> HIDE DEF Better, T
  <2>6. /\ Cardinality(Better(d)) =< Cardinality(Better(m))
        /\ Cardinality(Better(m)) = Cardinality(Better(d)) => Better(m) = Better(d)
    BY <2>3, <2>4, FS_Subset
  <2> QED
    BY <1>3, <1>4, <2>3, <2>5, <2>6
<1> QED
  BY <1>4, <1>5, WorseOrder

-----------------------------------------------------------------------------
(* The best chain.                                                         *)

\* What sorts blocks in the present state.
OrderInv ==
  /\ nSequenceId \in [Blocks -> Nat] /\ nBlockSequenceId \in Nat
  /\ address \in Addresses /\ pending \in BOOLEAN

Before(a, b) == Worse(a, b, nSequenceId, address)

\* What went through ConnectBlock was not refused by it.
ScriptsPass(ix) == \A b \in Blocks : ix[b].valid = VALID_SCRIPTS => verdict[b] # "connect"

\* A chain that ActivateBestChain can connect.
Sound(t) == NoneFailed(index, t) /\ \A a \in Ancestors[t] : verdict[a] # "connect"

\* A candidate that will do, and that beats every complete chain which is not
\* a candidate: as long as there is one, nothing is lost by looking at the
\* candidates only.
Benchmark(t) ==
  /\ t \in candidates /\ Sound(t)
  /\ \A b \in chainTx \ candidates : ~Failed(index, b) => Before(b, t)

SelectInv ==
  /\ OrderInv /\ ScriptsPass(index)
  /\ \E t \in Blocks : Benchmark(t)
  /\ BestChainActive

LinkedInv == TreeInv /\ NoneFailed(index, tip) /\ Levels(index) /\ LinksInv

\* The comparator on the present state.
LEMMA BeforeOrder ==
  ASSUME OrderInv, NEW a \in Blocks, NEW b \in Blocks
  PROVE  /\ ~Before(a, a)
         /\ Before(a, b) => ~Before(b, a)
         /\ a = b \/ Before(a, b) \/ Before(b, a)
  BY WorseOrder DEF OrderInv, Before

\* The order of the candidates is transitive.
LEMMA BeforeTransitive ==
  ASSUME OrderInv, NEW a \in Blocks, NEW b \in Blocks, NEW c \in Blocks, Before(a, b)
  PROVE  /\ Before(b, c) => Before(a, c)
         /\ ~Before(c, b) => Before(a, c)
  BY WorseOrder, WorseTransitive DEF OrderInv, Before

\* The active chain is one that can be connected, and complete.
LEMMA TipSound ==
  ASSUME LinkedInv, ScriptsPass(index)
  PROVE  tip \in chainTx /\ tip \in Blocks /\ Sound(tip)
<1>1. tip \in Blocks /\ ChainConnected(index, tip) /\ NoneFailed(index, tip) /\ LinksInv
  BY DEF LinkedInv, TreeInv
<1>2. Ancestors[tip] \subseteq Blocks
  BY <1>1, ChainClosed
<1> QED
  BY <1>1, <1>2 DEF ChainConnected, LinksInv, ScriptsPass, Sound

\* The blocks of chainTx have data and, unless failed, are valid enough to be
\* candidates.
LEMMA LinkedValid ==
  ASSUME NEW ix \in [Blocks -> Entry], Levels(ix), NEW b \in Blocks, ix[b].data, ~Failed(ix, b)
  PROVE  IsValid(ix, b, VALID_TRANSACTIONS)
<1>1. ix[b].valid \in {VALID_TRANSACTIONS, VALID_SCRIPTS}
  BY DEF Levels
<1>2. ix[b].valid >= VALID_TRANSACTIONS
  BY <1>1 DEF VALID_TRANSACTIONS, VALID_SCRIPTS
<1> QED
  BY <1>2 DEF IsValid

\* The benchmark can be chosen not to be behind the tip.
LEMMA BenchmarkAhead ==
  ASSUME LinkedInv, SelectInv
  PROVE  \E t \in Blocks : Benchmark(t) /\ ~Before(t, tip)
<1>1. PICK t \in Blocks : Benchmark(t)
  BY DEF SelectInv
<1>2. CASE ~Before(t, tip)
  BY <1>1, <1>2
<1>3. CASE Before(t, tip)
  <2>1. OrderInv /\ tip \in chainTx /\ tip \in Blocks /\ Sound(tip) /\ ~Before(tip, tip)
    BY TipSound, BeforeOrder DEF SelectInv
  <2>2. ~Before(tip, t)
    BY <1>3, <2>1, BeforeOrder
  <2>3. ~Failed(index, tip)
    BY <2>1, ChainClosed DEF Sound, NoneFailed
  <2>4. tip \in candidates
    BY <1>1, <2>1, <2>2, <2>3 DEF Benchmark
  <2>5. chainTx \subseteq Blocks
    BY DEF LinkedInv, TreeInv, EntriesInv
  <2>6. ASSUME NEW b \in chainTx \ candidates, ~Failed(index, b) PROVE Before(b, tip)
    <3>1. b \in Blocks /\ Before(b, t)
      BY <1>1, <2>5, <2>6 DEF Benchmark
    <3> QED
      BY <1>1, <1>3, <2>1, <3>1, BeforeTransitive
  <2> QED
    BY <2>1, <2>4, <2>6 DEF Benchmark
<1> QED
  BY <1>2, <1>3

\* At the beginning.
LEMMA SelectInit == Init => LinkedInv /\ SelectInv
<1> SUFFICES ASSUME Init PROVE LinkedInv /\ SelectInv
  OBVIOUS
<1>1. LinkedInv
  BY TreeInit, LinksInit DEF LinkedInv
<1>2. Genesis \in Blocks /\ Ancestors[Genesis] = {Genesis}
  BY ChainsAssumption, ChainGenesis
<1>3. OrderInv
  BY <1>2, Zenon DEF Init, OrderInv
<1>4. ScriptsPass(index)
  BY DEF Init, ScriptsPass, NoEntry, VALID_NONE, VALID_SCRIPTS
<1>5. Benchmark(Genesis)
  BY <1>2 DEF Init, Benchmark, Sound, NoneFailed, Failed
<1>6. BestChainActive
  <2>1. \A b \in chainTx : ~Worse(tip, b, nSequenceId, address)
    BY <1>2, <1>3, BeforeOrder DEF Init, Before
  <2> QED
    BY <2>1 DEF BestChainActive
<1> QED
  BY <1>1, <1>2, <1>3, <1>4, <1>5, <1>6 DEF SelectInv

\* What a header, kept or rejected, does to the entries.
LEMMA HeaderEntry ==
  ASSUME TreeInv, NEW b \in Blocks, AcceptBlockHeader(b) \/ RejectBlock(b)
  PROVE  /\ ~index[b].data /\ index'[b].valid \in {index[b].valid, VALID_TREE}
         /\ \A x \in Blocks \ {b} : index'[x] = index[x]
         /\ b \in Known(index')
         /\ AcceptBlockHeader(b) => index'[b].failed = index[b].failed /\ b \notin Known(index)
         /\ RejectBlock(b) => "FAILED_VALID" \in index'[b].failed
<1> DEFINE ix == Entered(index, b)
           iy == MarkFailed(ix, {b}, "FAILED_VALID")
<1>1. index \in [Blocks -> Entry] /\ HasGoodParent(b)
  BY DEF TreeInv, EntriesInv, AcceptBlockHeader, RejectBlock
<1>2. ~index[b].data
  BY DEF AcceptBlockHeader, RejectBlock, TreeInv, EntriesInv
<1>3. /\ ix \in [Blocks -> Entry] /\ ix[b].valid \in {index[b].valid, VALID_TREE}
      /\ \A x \in Blocks \ {b} : ix[x] = index[x]
      /\ ix[b].failed = index[b].failed /\ ix[b].valid # VALID_NONE
  BY <1>1 DEF Entered, Entry, Known, VALID_NONE, VALID_TREE
<1> HIDE DEF ix
<1>4. /\ \A x \in Blocks \ {b} : iy[x] = ix[x]
      /\ iy[b].valid = ix[b].valid /\ "FAILED_VALID" \in iy[b].failed
  BY <1>3 DEF MarkFailed, Entry
<1> HIDE DEF iy
<1>5. CASE AcceptBlockHeader(b)
  <2>1. index' = ix /\ b \notin Known(index) /\ ~RejectBlock(b)
    BY <1>5 DEF AcceptBlockHeader, RejectBlock, ix
  <2> QED
    BY <1>2, <1>3, <2>1 DEF Known
<1>6. CASE RejectBlock(b)
  <2>1. index' = iy /\ ~AcceptBlockHeader(b)
    BY <1>6 DEF RejectBlock, AcceptBlockHeader, ix, iy
  <2> QED
    BY <1>2, <1>3, <1>4, <2>1 DEF Known
<1> QED
  BY <1>5, <1>6

\* A block without data is on no complete chain.
LEMMA OffChains ==
  ASSUME TreeInv, NEW b \in Blocks, ~index[b].data, NEW x \in chainTx
  PROVE  b \notin Ancestors[x] /\ x # b
  BY ChainClosed DEF TreeInv, EntriesInv

\* A header, kept or rejected, says nothing of complete chains.
LEMMA SelectHeader ==
  ASSUME LinkedInv, SelectInv, NEW b \in Blocks, AcceptBlockHeader(b) \/ RejectBlock(b)
  PROVE  SelectInv'
<1>1. /\ TreeInv /\ chainTx \subseteq Blocks /\ candidates \subseteq chainTx
      /\ index[b].valid # VALID_SCRIPTS
  <2>1. ~index[b].data
    BY HeaderEntry DEF LinkedInv
  <2> QED
    BY <2>1 DEF LinkedInv, TreeInv, EntriesInv, Levels
<1>2. UNCHANGED <<chainTx, nSequenceId, nBlockSequenceId, candidates, tip, pending, address, verdict>>
  BY DEF AcceptBlockHeader, RejectBlock
<1>3. /\ ~index[b].data /\ index'[b].valid \in {index[b].valid, VALID_TREE}
      /\ \A x \in Blocks \ {b} : index'[x] = index[x]
  BY <1>1, HeaderEntry
<1>4. \A x \in chainTx : b \notin Ancestors[x] /\ x # b
  BY <1>1, <1>3, OffChains
<1>5. \A x \in chainTx : \A a \in Ancestors[x] : a \in Blocks /\ index'[a] = index[a]
  BY <1>1, <1>3, <1>4, ChainClosed
<1>6. \A x \in chainTx : index'[x] = index[x]
  BY <1>1, <1>3, <1>4
<1>7. ScriptsPass(index)'
  BY <1>1, <1>2, <1>3, LevelsDiffer DEF ScriptsPass, SelectInv
<1>8. ASSUME NEW t \in Blocks, Benchmark(t) PROVE Benchmark(t)'
  BY <1>1, <1>2, <1>5, <1>6, <1>8 DEF Benchmark, Sound, NoneFailed, Failed, Before
<1>9. BestChainActive'
  BY <1>2, <1>5 DEF SelectInv, BestChainActive, Failed
<1>10. OrderInv'
  BY <1>2 DEF SelectInv, OrderInv
<1> QED
  BY <1>7, <1>8, <1>9, <1>10 DEF SelectInv

\* What a stored block does to the entries.
LEMMA StoredEntry ==
  ASSUME TreeInv, Levels(index), NEW b \in Blocks, AcceptBlock(b)
  PROVE  /\ ~index[b].data /\ index'[b].valid # VALID_SCRIPTS /\ index'[b].failed = index[b].failed
         /\ \A x \in Blocks \ {b} : index'[x] = index[x]
         /\ b \in Known(index')
<1> DEFINE ix == Entered(index, b)
           iy == [ix EXCEPT ![b].data = TRUE]
           iz == RaiseValidity(iy, {b}, VALID_TRANSACTIONS)
<1>1. ~index[b].data /\ index' = iz /\ index \in [Blocks -> Entry]
  BY DEF AcceptBlock, ReceivedBlockTransactions, TreeInv, EntriesInv
<1>2. index[b].valid # VALID_SCRIPTS
  BY <1>1 DEF Levels
<1>3. /\ ix \in [Blocks -> Entry] /\ ix[b].valid \in {index[b].valid, VALID_TREE}
      /\ \A x \in Blocks \ {b} : ix[x] = index[x]
      /\ ix[b].failed = index[b].failed /\ ix[b].valid # VALID_NONE
  BY <1>1 DEF Entered, Entry, Known, VALID_NONE, VALID_TREE
<1> HIDE DEF ix
<1>4. /\ iy \in [Blocks -> Entry] /\ \A x \in Blocks \ {b} : iy[x] = ix[x]
      /\ iy[b].failed = ix[b].failed /\ iy[b].valid = ix[b].valid
  BY <1>3, Zenon DEF Entry
<1> HIDE DEF iy
<1>5. iy \in [Blocks -> Entry] /\ VALID_TRANSACTIONS \in {VALID_TRANSACTIONS, VALID_SCRIPTS}
  BY <1>4
<1>6. iz[b].failed = iy[b].failed /\ iz[b].valid \in {iy[b].valid, VALID_TRANSACTIONS}
  BY <1>5, RaiseValidityRaises
<1>7. \A x \in Blocks \ {b} : iz[x] = iy[x]
  BY <1>5, RaiseValidityRaises
<1> HIDE DEF iz
<1>8. index'[b].valid \in {index[b].valid, VALID_TREE, VALID_TRANSACTIONS}
      /\ index'[b].valid # VALID_NONE
  BY <1>1, <1>3, <1>4, <1>6, LevelsDiffer
<1> QED
  BY <1>1, <1>2, <1>3, <1>4, <1>6, <1>7, <1>8, LevelsDiffer DEF Known

\* The sequence ids a stored block gives out go to blocks that had no complete
\* chain before.
LEMMA StoredOrder ==
  ASSUME LinkedInv, OrderInv, NEW b \in Blocks, AcceptBlock(b)
  PROVE  /\ OrderInv'
         /\ \A x \in chainTx : nSequenceId'[x] = nSequenceId[x]
         /\ chainTx' \subseteq Blocks /\ chainTx \subseteq chainTx' /\ candidates \subseteq candidates'
         /\ \A x \in chainTx' \ chainTx : x # b => <<Parent[x], x>> \in unlinked
         /\ \A x \in chainTx' \ chainTx : x \in candidates' \/ Worse(x, tip, nSequenceId', address)
         /\ \A x \in candidates' \ candidates : ~Worse(x, tip, nSequenceId', address)
<1>1. TreeInv /\ chainTx \subseteq Blocks /\ ~index[b].data
  BY DEF LinkedInv, TreeInv, EntriesInv, AcceptBlock
<1>2. \A x \in chainTx : b \notin Ancestors[x] /\ x # b
  BY <1>1, OffChains
<1>3. pending' = TRUE /\ address' = address /\ ReceivedBlockTransactions(b, Entered(index, b))
  BY DEF AcceptBlock
<1> DEFINE linked == NewlyLinked(b)
<1>4. linked \in SUBSET Blocks /\ \A x \in linked : b \in Ancestors[x] /\ x \in Ancestors[x]
  BY ChainClosed DEF NewlyLinked, Descendants
<1>5. linked \cap chainTx = {}
  BY <1>2, <1>4
<1>6. \A x \in linked : x # b => <<Parent[x], x>> \in unlinked
  BY <1>4 DEF NewlyLinked
<1> HIDE DEF linked
<1>7. IsFiniteSet(linked) /\ Cardinality(linked) \in Nat
  BY <1>4, ChainsAssumption, FS_Subset, FS_CardinalityType
<1>8. CASE Parent[b] \in chainTx
  <2>1. /\ chainTx' = chainTx \cup linked
        /\ nBlockSequenceId' = nBlockSequenceId + Cardinality(linked)
        /\ candidates' = candidates \cup {x \in linked : ~Worse(x, tip, nSequenceId', address)}
        /\ \E f \in Numberings(linked) :
             nSequenceId' = [x \in Blocks |-> IF x \in linked THEN f[x] ELSE nSequenceId[x]]
    BY <1>3, <1>8 DEF ReceivedBlockTransactions, linked
  <2>2. PICK f \in Numberings(linked) :
          nSequenceId' = [x \in Blocks |-> IF x \in linked THEN f[x] ELSE nSequenceId[x]]
    BY <2>1
  <2>3. \A x \in linked : f[x] \in Nat
    <3>1. f \in [linked -> nBlockSequenceId .. nBlockSequenceId + Cardinality(linked) - 1]
      BY DEF Numberings
    <3>2. nBlockSequenceId \in Nat
      BY DEF OrderInv
    <3>3. nBlockSequenceId .. nBlockSequenceId + Cardinality(linked) - 1 \subseteq Nat
      BY <1>7, <3>2
    <3> QED
      BY <3>1, <3>3
  <2>4. nSequenceId' \in [Blocks -> Nat]
    BY <1>4, <2>2, <2>3 DEF OrderInv
  <2>5. \A x \in chainTx : nSequenceId'[x] = nSequenceId[x]
    BY <1>1, <1>5, <2>2
  <2>6. nBlockSequenceId' \in Nat
    BY <1>7, <2>1 DEF OrderInv
  <2>7. OrderInv'
    BY <1>3, <2>4, <2>6 DEF OrderInv
  <2>8. \A x \in chainTx' \ chainTx : x \in candidates' \/ Worse(x, tip, nSequenceId', address)
    BY <2>1
  <2>9. \A x \in candidates' \ candidates : ~Worse(x, tip, nSequenceId', address)
    BY <2>1
  <2> QED
    BY <1>1, <1>4, <1>6, <2>1, <2>5, <2>7, <2>8, <2>9
<1>9. CASE Parent[b] \notin chainTx
  <2>1. UNCHANGED <<chainTx, nSequenceId, nBlockSequenceId, candidates>>
    BY <1>3, <1>9 DEF ReceivedBlockTransactions
  <2> QED
    BY <1>1, <1>3, <2>1 DEF OrderInv
<1> QED
  BY <1>8, <1>9

\* A stored block, and what waited for it, become candidates or are behind
\* the tip.
LEMMA SelectAcceptBlock ==
  ASSUME LinkedInv, SelectInv, NEW b \in Blocks, AcceptBlock(b)
  PROVE  SelectInv'
<1>1. /\ TreeInv /\ Levels(index) /\ OrderInv /\ chainTx \subseteq Blocks
      /\ candidates \subseteq chainTx /\ tip \in Blocks
  BY DEF LinkedInv, SelectInv, TreeInv, EntriesInv
<1>2. /\ ~index[b].data /\ index'[b].valid # VALID_SCRIPTS
      /\ \A x \in Blocks \ {b} : index'[x] = index[x]
  BY <1>1, StoredEntry
<1>3. /\ OrderInv'
      /\ \A x \in chainTx : nSequenceId'[x] = nSequenceId[x]
      /\ chainTx' \subseteq Blocks /\ candidates \subseteq candidates'
      /\ \A x \in chainTx' \ chainTx : x \in candidates' \/ Worse(x, tip, nSequenceId', address)
  BY <1>1, StoredOrder
<1>4. /\ UNCHANGED <<tip, address, verdict>> /\ pending'
  BY DEF AcceptBlock
<1>5. tip \in chainTx
  BY TipSound DEF SelectInv
<1>6. \A x \in chainTx : b \notin Ancestors[x] /\ x # b
  BY <1>1, <1>2, OffChains
<1>7. \A x \in chainTx : \A a \in Ancestors[x] : a \in Blocks /\ index'[a] = index[a]
  BY <1>1, <1>2, <1>6, ChainClosed
<1>8. \A x \in chainTx : index'[x] = index[x]
  BY <1>1, <1>2, <1>6
<1>9. ScriptsPass(index)'
  BY <1>2, <1>4 DEF ScriptsPass, SelectInv
<1>10. \A x, y \in chainTx : Worse(x, y, nSequenceId', address') <=> Before(x, y)
  BY <1>3, <1>4 DEF Worse, Before
<1>11. PICK t \in Blocks : Benchmark(t) /\ ~Before(t, tip)
  BY BenchmarkAhead
<1>12. t \in candidates' /\ t \in chainTx /\ Sound(t)'
  BY <1>1, <1>3, <1>4, <1>7, <1>11 DEF Benchmark, Sound, NoneFailed, Failed
<1>13. ASSUME NEW x \in chainTx' \ candidates', ~Failed(index', x)
       PROVE  Worse(x, t, nSequenceId', address')
  <2>1. CASE x \in chainTx
    <3>1. x \notin candidates /\ ~Failed(index, x)
      BY <1>3, <1>8, <1>13, <2>1 DEF Failed
    <3> QED
      BY <1>10, <1>11, <1>12, <2>1, <3>1 DEF Benchmark
  <2>2. CASE x \notin chainTx
    <3>1. Worse(x, tip, nSequenceId', address')
      BY <1>3, <1>4, <1>13, <2>2
    <3>2. ~Worse(t, tip, nSequenceId', address')
      BY <1>5, <1>10, <1>11, <1>12
    <3>3. x \in Blocks /\ nSequenceId' \in [Blocks -> Nat] /\ address' \in Addresses
      BY <1>3, <1>13 DEF OrderInv
    <3>4. t = tip \/ Worse(tip, t, nSequenceId', address')
      BY <1>1, <3>2, <3>3, WorseOrder
    <3> QED
      BY <1>1, <3>1, <3>3, <3>4, WorseTransitive
  <2> QED
    BY <2>1, <2>2
<1>14. Benchmark(t)'
  BY <1>12, <1>13 DEF Benchmark, Before
<1>15. BestChainActive'
  BY <1>4 DEF BestChainActive
<1> QED
  BY <1>3, <1>9, <1>14, <1>15 DEF SelectInv

\* What FindMostWorkChain gives up has a failed block under it and ends up
\* marked failed itself.
LEMMA GivenUp ==
  ASSUME TreeInv, NEW c \in Skipped, NEW x \in AboveFailure(c)
  PROVE  /\ x \in Blocks /\ Failed(FindMostWorkChain_Index, x)
         /\ \E z \in Ancestors[x] : Failed(index, z)
<1>1. /\ c \in Blocks /\ c \in chainTx /\ ~Usable(c) /\ tip \in Blocks
      /\ index \in [Blocks -> Entry] /\ \A a \in Ancestors[c] : index[a].data
  BY DEF Skipped, TreeInv, EntriesInv
<1> DEFINE S == {z \in PathTo(c) : Failed(index, z)}
<1>2. S # {}
  BY <1>1 DEF Usable, PathTo
<1>3. S \in SUBSET Blocks
  BY <1>1, ChainClosed DEF PathTo
<1> DEFINE z == Top(S)
<1>4. z \in S /\ \A y \in S : nHeight[y] =< nHeight[z]
  <2> HIDE DEF S
  <2> QED
    BY <1>2, <1>3, TopIsHighest
<1> HIDE DEF z
<1>5. /\ z \in PathTo(c) /\ Failed(index, z) /\ z \in Blocks /\ z \in Ancestors[c]
      /\ x \in PathTo(c) /\ x \in Ancestors[c] /\ x \in Blocks
  BY <1>1, <1>3, <1>4, ChainClosed DEF AboveFailure, PathTo
<1>6. z \in Ancestors[x]
  <2>1. z \in Ancestors[x] \/ x \in Ancestors[z]
    BY <1>1, <1>5, ChainLinear
  <2>2. x \in Ancestors[z] /\ z # x => ~Failed(index, z)
    BY <1>5 DEF AboveFailure
  <2> QED
    BY <1>5, <2>1, <2>2, ChainClosed
<1>7. z \in AboveFailure(c)
  <2>1. ASSUME NEW y \in PathTo(c), z \in Ancestors[y], y # z PROVE ~Failed(index, y)
    <3>1. y \in Blocks /\ nHeight[z] < nHeight[y]
      BY <1>1, <2>1, ChainClosed, HeightGrows DEF PathTo
    <3>2. nHeight[z] \in Nat /\ nHeight[y] \in Nat
      BY <1>5, <3>1, HeightBounded
    <3> QED
      BY <1>4, <2>1, <3>1, <3>2
  <2> QED
    BY <1>5, <2>1 DEF AboveFailure
<1>8. CASE x = z
  <2>1. index[x].failed \subseteq FindMostWorkChain_Index[x].failed
    BY <1>5, FoundIndex
  <2> QED
    BY <1>5, <1>6, <1>8, <2>1 DEF Failed
<1>9. CASE x # z
  <2>1. x \in Marked
    BY <1>6, <1>7, <1>9 DEF Marked
  <2>2. FindMostWorkChain_Index = MarkFailed(index, Marked, "FAILED_CHILD")
    BY DEF FindMostWorkChain_Index, Marked
  <2>3. "FAILED_CHILD" \in FindMostWorkChain_Index[x].failed
    BY <1>1, <1>5, <2>1, <2>2 DEF MarkFailed, Entry
  <2> QED
    BY <1>5, <1>6, <2>3 DEF Failed
<1> QED
  BY <1>8, <1>9

\* So it leaves the sound chains, and among the candidates drops failed ones.
LEMMA FoundSound ==
  ASSUME TreeInv
  PROVE  /\ \A x \in Blocks : Failed(index, x) => Failed(FindMostWorkChain_Index, x)
         /\ \A t \in Blocks : NoneFailed(index, t) => NoneFailed(FindMostWorkChain_Index, t)
         /\ FindMostWorkChain_Candidates \subseteq candidates
         /\ \A c \in candidates \ FindMostWorkChain_Candidates : Failed(FindMostWorkChain_Index, c)
         /\ \A c \in candidates : NoneFailed(index, c) => c \in FindMostWorkChain_Candidates
<1>1. ASSUME NEW x \in Marked PROVE \E z \in Ancestors[x] : Failed(index, z)
  <2>1. PICK c \in Skipped : x \in AboveFailure(c)
    BY DEF Marked
  <2> QED
    BY <2>1, GivenUp
<1>2. \A b \in Blocks \ Marked : FindMostWorkChain_Index[b] = index[b]
  BY FoundIndex
<1>3. ASSUME NEW t \in Blocks, NoneFailed(index, t), NEW a \in Ancestors[t]
      PROVE  ~Failed(FindMostWorkChain_Index, a)
  <2>1. a \in Blocks /\ Ancestors[a] \subseteq Ancestors[t]
    BY ChainTransitive
  <2>2. a \notin Marked
    BY <1>1, <1>3, <2>1 DEF NoneFailed
  <2> QED
    BY <1>2, <1>3, <2>1, <2>2 DEF NoneFailed, Failed
<1>4. \A x \in Blocks : Failed(index, x) => Failed(FindMostWorkChain_Index, x)
  <2>1. \A x \in Blocks : index[x].failed \subseteq FindMostWorkChain_Index[x].failed
    BY FoundIndex
  <2> QED
    BY <2>1 DEF Failed
<1>5. ASSUME NEW c \in candidates, c \notin FindMostWorkChain_Candidates
      PROVE  Failed(FindMostWorkChain_Index, c) /\ ~NoneFailed(index, c)
  <2>1. PICK d \in Skipped : c \in AboveFailure(d)
    BY <1>5 DEF FindMostWorkChain_Candidates
  <2> QED
    BY <2>1, GivenUp DEF NoneFailed
<1>6. FindMostWorkChain_Candidates \subseteq candidates
  BY DEF FindMostWorkChain_Candidates
<1> QED
  BY <1>3, <1>4, <1>5, <1>6 DEF NoneFailed

\* The candidates whose chain has no failed block can be used.
LEMMA SoundUsable ==
  ASSUME TreeInv, NEW c \in candidates, NoneFailed(index, c)
  PROVE  Usable(c)
<1>1. \A a \in Ancestors[c] : index[a].data
  BY DEF TreeInv, EntriesInv
<1> QED
  BY <1>1 DEF NoneFailed, Usable, PathTo

\* The result of FindMostWorkChain beats every complete chain without failed
\* blocks, a candidate or not.
LEMMA MostWorkBest ==
  ASSUME LinkedInv, SelectInv, NEW m \in MostWork, NEW b \in chainTx, NoneFailed(index, b)
  PROVE  ~Before(m, b)
<1>1. /\ TreeInv /\ OrderInv /\ chainTx \subseteq Blocks /\ candidates \subseteq chainTx
      /\ m \in Blocks /\ b \in Blocks
  BY DEF LinkedInv, SelectInv, TreeInv, EntriesInv, MostWork
<1>2. \A d \in candidates : Usable(d) => d = m \/ Before(d, m)
  BY DEF MostWork, Before
<1>3. CASE b \in candidates
  <2>1. b = m \/ Before(b, m)
    BY <1>1, <1>2, <1>3, SoundUsable
  <2> QED
    BY <1>1, <2>1, BeforeOrder
<1>4. CASE b \notin candidates
  <2>1. PICK t \in Blocks : Benchmark(t)
    BY DEF SelectInv
  <2>2. ~Failed(index, b)
    BY <1>1, ChainClosed DEF NoneFailed
  <2>3. Before(b, t)
    BY <1>4, <2>1, <2>2 DEF Benchmark
  <2>4. t = m \/ Before(t, m)
    BY <1>1, <1>2, <2>1, SoundUsable DEF Benchmark, Sound
  <2>5. Before(b, m)
    BY <1>1, <2>1, <2>3, <2>4, BeforeTransitive
  <2> QED
    BY <1>1, <2>5, BeforeOrder
<1> QED
  BY <1>3, <1>4

\* It always has a result.
LEMMA MostWorkExists ==
  ASSUME LinkedInv, SelectInv
  PROVE  MostWork # {}
<1> DEFINE usable == {c \in candidates : Usable(c)}
<1>1. TreeInv /\ usable \in SUBSET Blocks
  BY DEF LinkedInv, TreeInv, EntriesInv
<1>2. usable # {}
  BY <1>1, SoundUsable DEF SelectInv, Benchmark, Sound
<1>3. nSequenceId \in [Blocks -> Nat] /\ address \in Addresses
  BY DEF SelectInv, OrderInv
<1>4. MostWork = {c \in usable : \A d \in usable \ {c} : Worse(d, c, nSequenceId, address)}
  BY DEF MostWork
<1> HIDE DEF usable
<1>5. \E m \in usable : \A d \in usable \ {m} : Worse(d, m, nSequenceId, address)
  BY <1>1, <1>2, <1>3, BestOf
<1> QED
  BY <1>4, <1>5

\* ActivateBestChain returns because the tip is the best.
LEMMA SelectActivateDone ==
  ASSUME LinkedInv, SelectInv, ActivateDone
  PROVE  SelectInv'
<1> DEFINE ix == FindMostWorkChain_Index
<1>1. TreeInv /\ chainTx \subseteq Blocks /\ candidates \subseteq chainTx
  BY DEF LinkedInv, TreeInv, EntriesInv
<1>2. /\ MostWork \subseteq {tip} /\ index' = ix /\ candidates' = FindMostWorkChain_Candidates
      /\ pending' = FALSE
      /\ UNCHANGED <<chainTx, nSequenceId, nBlockSequenceId, tip, address, verdict>>
  BY DEF ActivateDone
<1>3. /\ \A x \in Blocks : Failed(index, x) => Failed(ix, x)
      /\ \A t \in Blocks : NoneFailed(index, t) => NoneFailed(ix, t)
      /\ \A c \in candidates \ candidates' : Failed(ix, c)
      /\ \A c \in candidates : NoneFailed(index, c) => c \in candidates'
  BY <1>1, <1>2, FoundSound
<1>4. \A x \in Blocks : ix[x].valid = index[x].valid
  BY <1>1, FoundIndex
<1> HIDE DEF ix
<1>5. OrderInv' /\ ScriptsPass(index)'
  BY <1>2, <1>4, Zenon DEF SelectInv, OrderInv, ScriptsPass
<1>6. PICK t \in Blocks : Benchmark(t)
  BY DEF SelectInv
<1>7. Benchmark(t)'
  <2>1. t \in candidates' /\ Sound(t)'
    BY <1>2, <1>3, <1>6 DEF Benchmark, Sound, NoneFailed
  <2>2. ASSUME NEW x \in chainTx \ candidates', ~Failed(ix, x) PROVE Before(x, t)
    BY <1>1, <1>3, <1>6, <2>2 DEF Benchmark
  <2> QED
    BY <1>2, <2>1, <2>2 DEF Benchmark, Before
<1>8. ASSUME NEW b \in chainTx, \A a \in Ancestors[b] : ~Failed(ix, a)
      PROVE  ~Before(tip, b)
  <2>1. NoneFailed(index, b)
    BY <1>1, <1>3, <1>8, ChainClosed DEF NoneFailed
  <2>2. tip \in MostWork
    BY <1>2, MostWorkExists
  <2> QED
    BY <2>1, <2>2, MostWorkBest
<1>9. BestChainActive'
  BY <1>2, <1>8 DEF BestChainActive, Before
<1> QED
  BY <1>5, <1>7, <1>9 DEF SelectInv

\* The marks after a step: those of FindMostWorkChain and, on the refused
\* block, InvalidBlockFound's.
LEMMA StepMarks ==
  ASSUME TreeInv, NEW mw \in MostWork
  PROVE  /\ \A x \in Blocks : FindMostWorkChain_Index[x].failed \subseteq StepIndex(mw)[x].failed
         /\ \A x \in Blocks \ Refused(mw) :
              StepIndex(mw)[x].failed = FindMostWorkChain_Index[x].failed
         /\ \A x \in Refused(mw) : x \in Blocks /\ "FAILED_VALID" \in StepIndex(mw)[x].failed
<1> DEFINE ix == FindMostWorkChain_Index
           iy == RaiseValidity(ix, Connected(mw), VALID_SCRIPTS)
           iz == MarkFailed(iy, Refused(mw), "FAILED_VALID")
<1>1. ix \in [Blocks -> Entry]
  BY FoundIndex
<1> HIDE DEF ix
<1>2. VALID_SCRIPTS \in {VALID_TRANSACTIONS, VALID_SCRIPTS}
      /\ "FAILED_VALID" \in {"FAILED_VALID", "FAILED_CHILD"}
  OBVIOUS
<1>3. iy \in [Blocks -> Entry]
  BY <1>1, <1>2, RaiseValidityType
<1>4. \A b \in Blocks : iy[b].failed = ix[b].failed
  BY <1>1, <1>2, RaiseValidityRaises
<1> HIDE DEF iy
<1>5. /\ \A b \in Blocks : iy[b].failed \subseteq iz[b].failed
      /\ \A b \in Blocks \ Refused(mw) : iz[b] = iy[b]
  BY <1>2, <1>3, MarkFailedAdds
<1>6. Refused(mw) \subseteq Blocks
  BY ChainClosed DEF Refused, StopBlock, PathTo, MostWork, TreeInv, EntriesInv
<1>7. \A b \in Refused(mw) : "FAILED_VALID" \in iz[b].failed
  BY <1>3, <1>6 DEF MarkFailed, Entry
<1> HIDE DEF iz
<1>8. StepIndex(mw) = iz
  BY DEF StepIndex, InvalidBlockFound, ix, iy, iz
<1> QED
  BY <1>4, <1>5, <1>6, <1>7, <1>8 DEF ix

\* ConnectBlock accepted what was connected.
LEMMA ConnectedPass ==
  ASSUME tip \in Blocks, NEW mw \in Blocks, NEW x \in Connected(mw)
  PROVE  verdict[x] # "connect"
<1> SUFFICES ASSUME verdict[x] = "connect" PROVE FALSE
  OBVIOUS
<1>1. x \in PathTo(mw) /\ x \notin Refused(mw)
  BY DEF Connected
<1>2. PICK s \in StopBlock(mw) : x \in Ancestors[s]
  BY DEF Connected
<1>3. s \in Blocks /\ x \in Blocks
  BY <1>1, ChainClosed DEF StopBlock, PathTo
<1>4. nHeight[s] =< nHeight[x]
  BY <1>1 DEF StopBlock
<1>5. x = s
  BY <1>2, <1>3, <1>4, HeightGrows, HeightBounded
<1> QED
  BY <1>1, <1>2, <1>5 DEF Refused

\* Where a step ends, and what it leaves of the candidates.
LEMMA StepTip ==
  ASSUME LinkedInv, SelectInv, NEW mw \in MostWork
  PROVE  /\ NewTip(mw) \in Blocks /\ NewTip(mw) \in chainTx
         /\ NoneFailed(index, NewTip(mw)) /\ Sound(NewTip(mw))
         /\ Connected(mw) = {} => NewTip(mw) \in Ancestors[tip]
<1>1. /\ TreeInv /\ mw \in Blocks /\ tip \in Blocks /\ Usable(mw)
      /\ Ancestors[tip] \subseteq Blocks /\ LinksInv
  BY ChainClosed DEF LinkedInv, TreeInv, EntriesInv, MostWork
<1>2. /\ NewTip(mw) \in Blocks /\ NewTip(mw) \in {Fork(mw)} \cup Connected(mw)
      /\ \A a \in Ancestors[NewTip(mw)] : a \in Ancestors[tip] \/ a \in Connected(mw)
  BY <1>1, NewTipOnChain
<1>3. Fork(mw) \in Ancestors[tip]
  BY <1>1, ForkIsCommon
<1>4. Sound(tip) /\ \A a \in Ancestors[tip] : index[a].data
  BY <1>1, TipSound DEF SelectInv, TreeInv, ChainConnected
<1>5. \A a \in Connected(mw) : ~Failed(index, a) /\ index[a].data /\ verdict[a] # "connect"
  BY <1>1, ConnectedPass DEF Connected, Usable
<1>6. \A a \in Ancestors[NewTip(mw)] : ~Failed(index, a) /\ index[a].data /\ verdict[a] # "connect"
  BY <1>2, <1>4, <1>5 DEF Sound, NoneFailed
<1> QED
  BY <1>1, <1>2, <1>3, <1>6 DEF Sound, NoneFailed, LinksInv

\* A step of ActivateBestChain: the benchmark is kept, or pruned because the
\* new tip, a candidate then, is better.
LEMMA SelectActivateTo ==
  ASSUME LinkedInv, SelectInv, NEW mw \in candidates, ActivateTo(mw)
  PROVE  SelectInv'
<1> DEFINE ix == FindMostWorkChain_Index
           iz == StepIndex(mw)
           found == FindMostWorkChain_Candidates
<1>1. /\ TreeInv /\ chainTx \subseteq Blocks /\ candidates \subseteq chainTx /\ OrderInv
      /\ mw \in MostWork /\ mw \in Blocks /\ tip \in Blocks
  BY DEF LinkedInv, SelectInv, TreeInv, EntriesInv, ActivateTo
<1>2. PICK t \in Blocks : t = NewTip(mw)
  BY StepTip DEF ActivateTo
<1>3. /\ index' = iz /\ tip' = t /\ pending' = (t # mw)
      /\ UNCHANGED <<chainTx, nSequenceId, nBlockSequenceId, address, verdict>>
  BY <1>2 DEF ActivateTo, ActivateBestChainStep, StepIndex, LoopEnds
<1>4. candidates' = (IF Connected(mw) = {} THEN found ELSE {c \in found : ~Before(c, t)}) \ Refused(mw)
  BY <1>2 DEF ActivateTo, ActivateBestChainStep, Pruned, Before
<1>5. /\ \A x \in Blocks : Failed(index, x) => Failed(ix, x)
      /\ \A y \in Blocks : NoneFailed(index, y) => NoneFailed(ix, y)
      /\ found \subseteq candidates
      /\ \A c \in candidates \ found : Failed(ix, c)
      /\ \A c \in candidates : NoneFailed(index, c) => c \in found
  BY <1>1, FoundSound
<1>6. /\ \A x \in Blocks : Failed(ix, x) => Failed(iz, x)
      /\ \A x \in Blocks \ Refused(mw) : Failed(iz, x) => Failed(ix, x)
      /\ \A x \in Refused(mw) : x \in Blocks /\ Failed(iz, x) /\ verdict[x] = "connect"
  <2>1. /\ \A x \in Blocks : ix[x].failed \subseteq iz[x].failed
        /\ \A x \in Blocks \ Refused(mw) : iz[x].failed = ix[x].failed
        /\ \A x \in Refused(mw) : x \in Blocks /\ "FAILED_VALID" \in iz[x].failed
    BY <1>1, StepMarks
  <2>2. \A x \in Refused(mw) : verdict[x] = "connect"
    BY DEF Refused
  <2> HIDE DEF ix, iz
  <2> QED
    BY <2>1, <2>2 DEF Failed
<1>7. /\ t \in Blocks /\ t \in chainTx /\ Sound(t) /\ NoneFailed(index, t)
  BY <1>2, <1>1, StepTip
<1>8. /\ \A x \in Blocks : x \notin Connected(mw) => iz[x].valid = index[x].valid
      /\ \A x \in Connected(mw) : verdict[x] # "connect"
  BY <1>1, StepEntries, ConnectedPass
<1> HIDE DEF ix, iz, found
<1>9. OrderInv' /\ ScriptsPass(index)'
  BY <1>3, <1>8 DEF SelectInv, OrderInv, ScriptsPass
<1>10. ASSUME NEW y \in Blocks, Sound(y) PROVE Sound(y)' /\ y \notin Refused(mw)
  <2>1. NoneFailed(ix, y) /\ Ancestors[y] \subseteq Blocks /\ y \in Ancestors[y]
    BY <1>5, <1>10, ChainClosed DEF Sound
  <2>2. \A a \in Ancestors[y] : a \notin Refused(mw)
    BY <1>6, <1>10 DEF Sound
  <2> QED
    BY <1>3, <1>6, <1>10, <2>1, <2>2 DEF Sound, NoneFailed
<1>11. PICK r \in Blocks : Benchmark(r)
  BY DEF SelectInv
<1>12. r \in found /\ r \notin Refused(mw) /\ Sound(r)'
  BY <1>5, <1>10, <1>11 DEF Benchmark, Sound
<1>13. ASSUME NEW x \in chainTx \ found, ~Failed(iz, x) PROVE Before(x, r)
  <2>1. x \in Blocks /\ ~Failed(ix, x) /\ ~Failed(index, x)
    BY <1>1, <1>5, <1>6, <1>13
  <2>2. x \notin candidates
    BY <1>5, <1>13, <2>1
  <2> QED
    BY <1>11, <1>13, <2>1, <2>2 DEF Benchmark
<1>14. ASSUME NEW x \in chainTx \ candidates', ~Failed(iz, x)
       PROVE  Before(x, r) \/ (Before(x, t) /\ Connected(mw) # {})
  <2>1. x \notin Refused(mw)
    BY <1>6, <1>14
  <2> QED
    BY <1>4, <1>13, <1>14, <2>1
<1>15. \E y \in Blocks : Benchmark(y)'
  <2>1. CASE Connected(mw) = {} \/ ~Before(r, t)
    <3>1. r \in candidates'
      BY <1>4, <1>12, <2>1
    <3>2. ASSUME NEW x \in chainTx \ candidates', ~Failed(iz, x) PROVE Before(x, r)
      <4>1. x \in Blocks
        BY <1>1, <3>2
      <4> QED
        BY <1>1, <1>7, <1>14, <2>1, <3>2, <4>1, BeforeTransitive
    <3> QED
      BY <1>3, <1>12, <3>1, <3>2 DEF Benchmark, Before
  <2>2. CASE Connected(mw) # {} /\ Before(r, t)
    <3>1. ~Before(t, r) /\ ~Before(t, t) /\ ~Failed(index, t)
      BY <1>1, <1>7, <2>2, BeforeOrder, ChainClosed DEF NoneFailed
    <3>2. t \in candidates
      BY <1>7, <1>11, <3>1 DEF Benchmark
    <3>3. t \in candidates' /\ Sound(t)'
      BY <1>4, <1>5, <1>7, <1>10, <3>1, <3>2
    <3>4. ASSUME NEW x \in chainTx \ candidates', ~Failed(iz, x) PROVE Before(x, t)
      <4>1. x \in Blocks
        BY <1>1, <3>4
      <4> QED
        BY <1>1, <1>7, <1>14, <2>2, <3>4, <4>1, BeforeTransitive
    <3> QED
      BY <1>3, <1>7, <3>3, <3>4 DEF Benchmark, Before
  <2> QED
    BY <2>1, <2>2
<1>16. ASSUME t = mw, NEW b \in chainTx, \A a \in Ancestors[b] : ~Failed(iz, a)
       PROVE  ~Before(t, b)
  <2>1. NoneFailed(index, b)
    BY <1>1, <1>5, <1>6, <1>16, ChainClosed DEF NoneFailed
  <2> QED
    BY <1>1, <1>16, <2>1, MostWorkBest
<1>17. BestChainActive'
  BY <1>3, <1>16, Zenon DEF BestChainActive, Before
<1> QED
  BY <1>9, <1>15, <1>17 DEF SelectInv

\* invalidateblock: the new tip is the benchmark.
LEMMA SelectInvalidate ==
  ASSUME LinkedInv, LinkedInv', SelectInv, NEW b \in Blocks, InvalidateBlock(b)
  PROVE  SelectInv'
<1> DEFINE iy == InvalidatedIndex(b, Undone(b))
<1>1. /\ index' = iy /\ pending' = TRUE
      /\ UNCHANGED <<chainTx, nSequenceId, nBlockSequenceId, address, verdict>>
      /\ RestoredCandidates(iy, tip') \subseteq candidates'
  BY DEF InvalidateBlock, InvalidatedIndex
<1>2. TreeInv /\ \A x \in Blocks : iy[x].valid = index[x].valid
  BY InvalidatedEntries DEF LinkedInv
<1> HIDE DEF iy
<1>3. OrderInv' /\ ScriptsPass(index)' /\ BestChainActive'
  BY <1>1, <1>2 DEF SelectInv, OrderInv, ScriptsPass, BestChainActive
<1>4. tip' \in chainTx' /\ tip' \in Blocks /\ Sound(tip)'
  <2>1. /\ tip' \in Blocks /\ ChainConnected(index', tip') /\ NoneFailed(index', tip') /\ LinksInv'
    BY DEF LinkedInv, TreeInv, NoneFailed
  <2>2. Ancestors[tip'] \subseteq Blocks
    BY <2>1, ChainClosed
  <2> QED
    BY <1>3, <2>1, <2>2 DEF ChainConnected, LinksInv, ScriptsPass, Sound, NoneFailed
<1>5. /\ iy \in [Blocks -> Entry] /\ Levels(iy) /\ chainTx \subseteq Blocks
      /\ \A x \in chainTx : iy[x].data
  BY <1>1, ChainClosed DEF LinkedInv, TreeInv, EntriesInv
<1>6. ASSUME NEW x \in chainTx \ candidates', ~Failed(iy, x)
      PROVE  Worse(x, tip', nSequenceId, address)
  <2>1. IsValid(iy, x, VALID_TRANSACTIONS)
    BY <1>5, <1>6, LinkedValid
  <2> QED
    BY <1>1, <1>6, <2>1 DEF RestoredCandidates
<1>7. tip' \in candidates'
  <2>1. ~Failed(iy, tip')
    BY <1>1, <1>4, ChainClosed DEF Sound, NoneFailed
  <2>2. IsValid(iy, tip', VALID_TRANSACTIONS)
    BY <1>1, <1>4, <1>5, <2>1, LinkedValid
  <2>3. ~Worse(tip', tip', nSequenceId, address)
    BY <1>4, WorseOrder DEF SelectInv, OrderInv
  <2> QED
    BY <1>1, <1>4, <2>2, <2>3 DEF RestoredCandidates
<1>8. Benchmark(tip)'
  BY <1>1, <1>4, <1>6, <1>7 DEF Benchmark, Before
<1> QED
  BY <1>3, <1>4, <1>8 DEF SelectInv

\* With "reconsider", what is cleared is b and what is above it.
LEMMA ClearedAbove ==
  ASSUME "reconsiderAny" \notin Operations, TreeInv, NEW b \in Blocks, ReconsiderBlock(b)
  PROVE  Cleared(b) = FailedAbove(b)
<1>1. b \in Known(index) /\ \A a \in Ancestors[b] \ {b} : ~Failed(index, a)
  BY DEF ReconsiderBlock
<1>2. Failed(index, b) => b \in FailedAbove(b)
  BY <1>1, ChainClosed DEF FailedAbove, Descendants, IsValid
<1> QED
  BY <1>1, <1>2 DEF Cleared

\* reconsiderblock: what becomes valid again is a candidate or behind the tip.
LEMMA SelectReconsider ==
  ASSUME "reconsiderAny" \notin Operations, LinkedInv, LinkedInv', SelectInv,
         NEW b \in Blocks, ReconsiderBlock(b)
  PROVE  SelectInv'
<1> DEFINE iy == ReconsideredIndex(b)
<1>1. /\ index' = iy /\ pending' = TRUE
      /\ UNCHANGED <<chainTx, nSequenceId, nBlockSequenceId, tip, address, verdict>>
      /\ candidates' = candidates \cup
           {x \in FailedAbove(b) \cap chainTx : IsValid(iy, x, VALID_TRANSACTIONS) /\ Before(tip, x)}
  BY DEF ReconsiderBlock, ReconsideredIndex, Before
<1>2. /\ TreeInv /\ OrderInv /\ tip \in Blocks /\ chainTx \subseteq Blocks /\ candidates \subseteq chainTx
  BY DEF LinkedInv, SelectInv, TreeInv, EntriesInv
<1>3. /\ \A x \in Blocks : iy[x].valid = index[x].valid
      /\ \A x \in Blocks : iy[x].failed \subseteq index[x].failed
      /\ \A x \in Blocks \ FailedAbove(b) : iy[x] = index[x]
  BY <1>2, ReconsideredEntries, ClearedAbove
<1> HIDE DEF iy
<1>4. OrderInv' /\ ScriptsPass(index)' /\ BestChainActive'
  BY <1>1, <1>3 DEF SelectInv, OrderInv, ScriptsPass, BestChainActive
<1>5. PICK t \in Blocks : Benchmark(t) /\ ~Before(t, tip)
  BY BenchmarkAhead
<1>6. t \in candidates' /\ Sound(t)'
  <2>1. Ancestors[t] \subseteq Blocks
    BY ChainClosed
  <2> QED
    BY <1>1, <1>3, <1>5, <2>1 DEF Benchmark, Sound, NoneFailed, Failed
<1>7. /\ iy \in [Blocks -> Entry] /\ Levels(iy) /\ \A x \in chainTx : iy[x].data
  BY <1>1, <1>2, ChainClosed DEF LinkedInv, TreeInv, EntriesInv
<1>8. ASSUME NEW x \in chainTx \ candidates', ~Failed(iy, x) PROVE Before(x, t)
  <2>1. x \in Blocks /\ x \notin candidates
    BY <1>1, <1>2, <1>8
  <2>2. CASE ~Failed(index, x)
    BY <1>5, <1>8, <2>1, <2>2 DEF Benchmark
  <2>3. CASE Failed(index, x)
    <3>1. x \in FailedAbove(b)
      BY <1>3, <1>8, <2>1, <2>3 DEF Failed
    <3>2. IsValid(iy, x, VALID_TRANSACTIONS)
      BY <1>7, <1>8, <2>1, LinkedValid
    <3>3. ~Before(tip, x)
      BY <1>1, <1>8, <3>1, <3>2
    <3>4. x # tip
      BY <1>2, <2>3, ChainClosed DEF LinkedInv, NoneFailed
    <3>5. Before(x, tip)
      BY <1>2, <2>1, <3>3, <3>4, BeforeOrder
    <3> QED
      BY <1>2, <1>5, <2>1, <3>5, BeforeTransitive
  <2> QED
    BY <2>2, <2>3
<1>9. Benchmark(t)'
  BY <1>1, <1>6, <1>8 DEF Benchmark, Before
<1> QED
  BY <1>4, <1>9 DEF SelectInv

\* rewindblockindex: only a part of the active chain is left.
LEMMA SelectRewind ==
  ASSUME LinkedInv, SelectInv, NEW t \in Blocks, RewindBlockIndex(t)
  PROVE  SelectInv'
<1> DEFINE kept == Ancestors[t]
<1>1. /\ index' = [x \in Blocks |-> IF x \in kept THEN index[x] ELSE NoEntry]
      /\ t \in Ancestors[tip] /\ tip' = t /\ chainTx' = chainTx \cap kept
      /\ nSequenceId' = [x \in Blocks |-> IF x \in kept THEN nSequenceId[x] ELSE 0]
      /\ \A x \in kept \cap chainTx : IsValid(index, x, VALID_TRANSACTIONS) => x \in candidates'
      /\ UNCHANGED <<nBlockSequenceId, pending, address, verdict>>
  BY DEF RewindBlockIndex
<1>2. /\ index \in [Blocks -> Entry] /\ Levels(index) /\ LinksInv /\ tip \in Blocks
      /\ ChainConnected(index, tip) /\ NoneFailed(index, tip)
  BY DEF LinkedInv, TreeInv, EntriesInv
<1>3. kept \subseteq Ancestors[tip] /\ kept \subseteq Blocks /\ t \in kept
  BY <1>1, <1>2, ChainTransitive, ChainClosed
<1>4. \A x \in kept : /\ ~Failed(index, x) /\ index[x].data /\ index[x].valid = VALID_SCRIPTS
                      /\ index'[x] = index[x] /\ Ancestors[x] \subseteq kept
  BY <1>1, <1>2, <1>3, ChainTransitive DEF ChainConnected, NoneFailed
<1>5. kept \subseteq candidates' /\ kept \subseteq chainTx
  BY <1>1, <1>2, <1>3, <1>4, LinkedValid, Zenon DEF LinksInv
<1>6. OrderInv'
  BY <1>1 DEF SelectInv, OrderInv
<1>7. \A x \in Blocks : index'[x].valid = VALID_SCRIPTS => index[x].valid = VALID_SCRIPTS
  BY <1>1, LevelsDiffer DEF NoEntry
<1>8. ScriptsPass(index)'
  BY <1>1, <1>7 DEF SelectInv, ScriptsPass
<1>9. Sound(t)'
  BY <1>1, <1>3, <1>4, Zenon DEF SelectInv, ScriptsPass, Sound, NoneFailed, Failed
<1>10. Benchmark(t)'
  BY <1>1, <1>3, <1>5, <1>9 DEF Benchmark
<1>11. ASSUME NEW b \in kept PROVE ~Worse(t, b, nSequenceId', address')
  <2>1. b = t \/ Worse(b, t, nSequenceId', address')
    BY WorseBelow
  <2>2. b \in Blocks /\ nSequenceId' \in [Blocks -> Nat] /\ address' \in Addresses
    BY <1>3, <1>6 DEF OrderInv
  <2> QED
    BY <2>1, <2>2, WorseOrder
<1>12. BestChainActive'
  BY <1>1, <1>11 DEF BestChainActive
<1> QED
  BY <1>6, <1>8, <1>10, <1>12 DEF SelectInv

\* Every step of the tree, in memory.
LEMMA SelectNext ==
  ASSUME "reconsiderAny" \notin Operations, LinkedInv, SelectInv, [Next]_vars
  PROVE  LinkedInv' /\ SelectInv'
<1>1. LinkedInv'
  <2>1. TreeInv' /\ NoneFailed(index, tip)'
    BY TreeNext DEF LinkedInv
  <2>2. CASE Next
    BY <2>1, <2>2, LinksNext DEF LinkedInv
  <2>3. CASE UNCHANGED vars
    BY <2>1, <2>3 DEF LinkedInv, vars, Levels, LinksInv
  <2> QED
    BY <2>2, <2>3
<1>2. CASE UNCHANGED vars
  BY <1>1, <1>2 DEF vars, SelectInv, OrderInv, ScriptsPass, Benchmark, Sound, NoneFailed, Before,
                    BestChainActive
<1>3. ASSUME NEW b \in Blocks, DuplicateBlock(b) PROVE SelectInv'
  BY <1>3 DEF DuplicateBlock, SelectInv, OrderInv, ScriptsPass, Benchmark, Sound, NoneFailed, Before,
              BestChainActive
<1>4. CASE Activate
  BY <1>1, <1>4, SelectActivateTo DEF Activate
<1> QED
  BY <1>1, <1>2, <1>3, <1>4, SelectHeader, SelectAcceptBlock, SelectActivateDone, SelectInvalidate,
     SelectReconsider DEF Next

\* For every tree of blocks, every verdict, every order of arrivals, steps and
\* commands (reconsiderblock naming the block that was invalidated): whenever
\* ActivateBestChain has returned, no complete chain without a failed block
\* beats the active one.
THEOREM BestChainAlwaysActive ==
  ASSUME "reconsiderAny" \notin Operations
  PROVE  Spec => []BestChainActive
<1>1. Init => LinkedInv /\ SelectInv
  BY SelectInit
<1>2. LinkedInv /\ SelectInv /\ [Next]_vars => LinkedInv' /\ SelectInv'
  BY SelectNext
<1>3. SelectInv => BestChainActive
  BY DEF SelectInv
<1> QED
  BY <1>1, <1>2, <1>3, PTL DEF Spec

-----------------------------------------------------------------------------
(* CheckBlockIndex.                                                        *)

\* A failed block is known and has a block under it, or is one, that failed
\* itself.
MarksInv(ix) ==
  \A b \in Blocks : Failed(ix, b) =>
                      b \in Known(ix) /\ \E a \in Ancestors[b] : "FAILED_VALID" \in ix[a].failed

\* No candidate is behind the tip, and what waits has no complete chain.
SetsInv ==
  /\ \A c \in candidates : ~Before(c, tip)
  /\ \A b \in Blocks \ {Genesis} : <<Parent[b], b>> \in unlinked => b \notin chainTx

CheckInv == MarksInv(index) /\ SetsInv

\* Marks are only added, above a block that failed itself.
LEMMA MarksGrow ==
  ASSUME NEW ix, NEW iy, MarksInv(ix), Known(ix) \subseteq Known(iy),
         \A b \in Blocks : ix[b].failed \subseteq iy[b].failed,
         \A b \in Blocks : Failed(iy, b) /\ ~Failed(ix, b) =>
           b \in Known(iy) /\ \E a \in Ancestors[b] : "FAILED_VALID" \in iy[a].failed
  PROVE  MarksInv(iy)
<1> SUFFICES ASSUME NEW b \in Blocks, Failed(iy, b)
             PROVE  b \in Known(iy) /\ \E a \in Ancestors[b] : "FAILED_VALID" \in iy[a].failed
  BY DEF MarksInv
<1>1. CASE Failed(ix, b)
  <2>1. b \in Known(ix)
    BY <1>1 DEF MarksInv
  <2>2. PICK a \in Ancestors[b] : "FAILED_VALID" \in ix[a].failed
    BY <1>1 DEF MarksInv
  <2>3. a \in Blocks
    BY ChainClosed
  <2> QED
    BY <2>1, <2>2, <2>3
<1>2. CASE ~Failed(ix, b)
  BY <1>2
<1> QED
  BY <1>1, <1>2

\* FindMostWorkChain's marks are above failed blocks.
LEMMA MarksFound ==
  ASSUME TreeInv, MarksInv(index)
  PROVE  MarksInv(FindMostWorkChain_Index)
<1> DEFINE ix == FindMostWorkChain_Index
<1>1. /\ \A b \in Blocks : ix[b].valid = index[b].valid
      /\ \A b \in Blocks : index[b].failed \subseteq ix[b].failed
      /\ \A b \in Blocks \ Marked : ix[b] = index[b]
  BY FoundIndex
<1>2. Known(ix) = Known(index)
  BY <1>1 DEF Known
<1>3. ASSUME NEW x \in Marked
      PROVE  x \in Blocks /\ x \in Known(index) /\ \E z \in Ancestors[x] : Failed(index, z)
  <2>1. PICK c \in Skipped : x \in AboveFailure(c)
    BY DEF Marked
  <2>2. c \in Blocks /\ \A a \in Ancestors[c] : a \in Blocks /\ index[a].data
    BY ChainClosed DEF Skipped, TreeInv, EntriesInv
  <2>3. x \in Ancestors[c]
    BY <2>1 DEF AboveFailure, PathTo
  <2>4. x \in Blocks /\ x \in Known(index)
    BY <2>2, <2>3 DEF TreeInv, EntriesInv
  <2> QED
    BY <2>1, <2>4, GivenUp
<1> HIDE DEF ix
<1>4. ASSUME NEW b \in Blocks, Failed(ix, b), ~Failed(index, b)
      PROVE  b \in Known(ix) /\ \E a \in Ancestors[b] : "FAILED_VALID" \in ix[a].failed
  <2>1. b \in Marked
    BY <1>1, <1>4 DEF Failed
  <2>2. b \in Known(index)
    BY <1>3, <2>1
  <2>3. PICK z \in Ancestors[b] : Failed(index, z)
    BY <1>3, <2>1
  <2>4. z \in Blocks /\ Ancestors[z] \subseteq Ancestors[b] /\ Ancestors[b] \subseteq Blocks
    BY ChainTransitive, ChainClosed
  <2>5. PICK a \in Ancestors[z] : "FAILED_VALID" \in index[a].failed
    BY <2>3, <2>4 DEF MarksInv
  <2> QED
    BY <1>1, <1>2, <2>2, <2>4, <2>5
<1>5. MarksInv(ix)
  BY <1>1, <1>2, <1>4, MarksGrow
<1> QED
  BY <1>5 DEF ix

\* A header, kept or rejected.
LEMMA CheckHeader ==
  ASSUME TreeInv, CheckInv, NEW b \in Blocks, AcceptBlockHeader(b) \/ RejectBlock(b)
  PROVE  CheckInv'
<1>1. /\ \A x \in Blocks \ {b} : index'[x] = index[x]
      /\ b \in Known(index')
      /\ AcceptBlockHeader(b) => index'[b].failed = index[b].failed /\ b \notin Known(index)
      /\ RejectBlock(b) => "FAILED_VALID" \in index'[b].failed
  BY HeaderEntry
<1>2. ~Failed(index, b)
  BY DEF AcceptBlockHeader, RejectBlock, CheckInv, MarksInv
<1>3. Known(index) \subseteq Known(index')
  BY <1>1 DEF Known
<1> DEFINE iy == index'
<1>4. \A x \in Blocks : index[x].failed \subseteq iy[x].failed
  BY <1>1, <1>2 DEF Failed
<1>5. ASSUME NEW x \in Blocks, Failed(iy, x), ~Failed(index, x)
      PROVE  x \in Known(iy) /\ \E a \in Ancestors[x] : "FAILED_VALID" \in iy[a].failed
  BY <1>1, <1>5, ChainClosed DEF Failed
<1>6. MarksInv(iy)
  <2> HIDE DEF iy
  <2> QED
    BY <1>3, <1>4, <1>5, MarksGrow DEF CheckInv, iy
<1>7. SetsInv'
  BY DEF AcceptBlockHeader, RejectBlock, CheckInv, SetsInv, Before
<1> QED
  BY <1>6, <1>7 DEF CheckInv, MarksInv

\* A stored block: what it links does not wait any more.
LEMMA CheckAcceptBlock ==
  ASSUME LinkedInv, SelectInv, CheckInv, NEW b \in Blocks, AcceptBlock(b)
  PROVE  CheckInv'
<1>1. /\ TreeInv /\ Levels(index) /\ OrderInv /\ candidates \subseteq chainTx /\ chainTx \subseteq Blocks
  BY DEF LinkedInv, SelectInv, TreeInv, EntriesInv
<1>2. /\ ~index[b].data /\ index'[b].failed = index[b].failed
      /\ \A x \in Blocks \ {b} : index'[x] = index[x]
      /\ b \in Known(index')
  BY <1>1, StoredEntry
<1>3. MarksInv(index)'
  <2>1. \A x \in Blocks : index'[x].failed = index[x].failed
    BY <1>2
  <2>2. Known(index) \subseteq Known(index')
    BY <1>2 DEF Known
  <2>3. \A x \in Blocks : Ancestors[x] \subseteq Blocks
    BY ChainClosed
  <2> QED
    BY <2>1, <2>2, <2>3 DEF CheckInv, MarksInv, Failed
<1>4. tip' = tip /\ address' = address /\ tip \in chainTx
  BY TipSound DEF AcceptBlock, SelectInv
<1>5. \A c \in candidates' : ~Worse(c, tip', nSequenceId', address')
  <2>1. /\ \A x \in chainTx : nSequenceId'[x] = nSequenceId[x]
        /\ \A x \in candidates' \ candidates : ~Worse(x, tip, nSequenceId', address)
    BY <1>1, StoredOrder
  <2>2. \A c \in candidates : Worse(c, tip, nSequenceId', address) <=> Before(c, tip)
    BY <1>1, <1>4, <2>1 DEF Worse, Before
  <2> QED
    BY <1>4, <2>1, <2>2 DEF CheckInv, SetsInv
<1>6. ASSUME NEW y \in Blocks \ {Genesis}, <<Parent[y], y>> \in unlinked' PROVE y \notin chainTx'
  <2>1. b \notin chainTx /\ <<Parent[b], b>> \notin unlinked /\ b # Genesis
    BY <1>1, <1>2, OffChains DEF TreeInv, EntriesInv, AcceptBlock, HasGoodParent
  <2>2. CASE Parent[b] \in chainTx
    <3>1. /\ chainTx' = chainTx \cup NewlyLinked(b)
          /\ unlinked' = {p \in unlinked : p[1] \notin NewlyLinked(b)}
      BY <2>2 DEF AcceptBlock, ReceivedBlockTransactions
    <3>2. <<Parent[y], y>> \in unlinked /\ Parent[y] \notin NewlyLinked(b)
      BY <1>6, <3>1
    <3>3. y \notin chainTx /\ y # b
      BY <2>1, <3>2 DEF CheckInv, SetsInv
    <3>4. ASSUME y \in NewlyLinked(b) PROVE FALSE
      <4>1. /\ b \in Ancestors[y]
            /\ \A z \in Ancestors[y] : b \in Ancestors[z] /\ z # b => <<Parent[z], z>> \in unlinked
        BY <3>4 DEF NewlyLinked, Descendants
      <4>2. Parent[y] \in Blocks /\ Ancestors[y] = {y} \cup Ancestors[Parent[y]]
        BY ChainStep
      <4>3. b \in Ancestors[Parent[y]]
        BY <3>3, <4>1, <4>2
      <4> QED
        BY <3>2, <4>1, <4>2, <4>3 DEF NewlyLinked, Descendants
    <3> QED
      BY <3>1, <3>3, <3>4
  <2>3. CASE Parent[b] \notin chainTx
    <3>1. chainTx' = chainTx /\ (<<Parent[y], y>> \in unlinked \/ y = b)
      BY <1>6, <2>3 DEF AcceptBlock, ReceivedBlockTransactions
    <3> QED
      BY <2>1, <3>1 DEF CheckInv, SetsInv
  <2> QED
    BY <2>2, <2>3
<1> QED
  BY <1>3, <1>5, <1>6 DEF CheckInv, SetsInv, Before

\* FindMostWorkChain alone.
LEMMA CheckActivateDone ==
  ASSUME TreeInv, CheckInv, ActivateDone
  PROVE  CheckInv'
<1>1. /\ index' = FindMostWorkChain_Index /\ candidates' \subseteq candidates
      /\ UNCHANGED <<chainTx, nSequenceId, unlinked, tip, address>>
  BY DEF ActivateDone, FindMostWorkChain_Candidates
<1>2. MarksInv(FindMostWorkChain_Index)
  BY MarksFound DEF CheckInv
<1> DEFINE ix == FindMostWorkChain_Index
<1> HIDE DEF ix
<1>3. index' = ix /\ MarksInv(ix)
  BY <1>1, <1>2 DEF ix
<1>4. MarksInv(index)'
  BY <1>3 DEF MarksInv, Known, Failed
<1> QED
  BY <1>1, <1>4 DEF CheckInv, SetsInv, Before

\* A step of ActivateBestChain.
LEMMA CheckActivateTo ==
  ASSUME LinkedInv, SelectInv, CheckInv, NEW mw \in candidates, ActivateTo(mw)
  PROVE  CheckInv'
<1> DEFINE ix == FindMostWorkChain_Index
           iz == StepIndex(mw)
<1>1. /\ TreeInv /\ candidates \subseteq chainTx /\ chainTx \subseteq Blocks /\ OrderInv
      /\ mw \in MostWork /\ mw \in Blocks /\ tip \in Blocks
  BY DEF LinkedInv, SelectInv, TreeInv, EntriesInv, ActivateTo
<1>2. /\ index' = iz /\ tip' = NewTip(mw) /\ UNCHANGED <<chainTx, nSequenceId, unlinked, address>>
  BY DEF ActivateTo, ActivateBestChainStep, StepIndex
<1>3. MarksInv(ix)
  BY <1>1, MarksFound DEF CheckInv
<1>4. /\ \A x \in Blocks : ix[x].failed \subseteq iz[x].failed
      /\ \A x \in Blocks \ Refused(mw) : iz[x].failed = ix[x].failed
      /\ \A x \in Refused(mw) : x \in Blocks /\ "FAILED_VALID" \in iz[x].failed
  BY <1>1, StepMarks
<1>5. \A x \in Blocks : ix[x].valid = index[x].valid
  BY <1>1, FoundIndex
<1>6. /\ \A x \in Blocks : x \notin Connected(mw) => iz[x].valid = index[x].valid
      /\ \A x \in Connected(mw) : iz[x].valid = VALID_SCRIPTS
  BY <1>1, StepEntries
<1>7. \A x \in Refused(mw) : x \in Known(index)
  BY <1>1, <1>4, ChainClosed DEF Refused, StopBlock, PathTo, TreeInv, EntriesInv
<1> HIDE DEF ix, iz
<1>8. Known(ix) = Known(index) /\ Known(index) \subseteq Known(iz)
  BY <1>5, <1>6, LevelsDiffer DEF Known
<1>9. ASSUME NEW x \in Blocks, Failed(iz, x), ~Failed(ix, x)
      PROVE  x \in Known(iz) /\ \E a \in Ancestors[x] : "FAILED_VALID" \in iz[a].failed
  <2>1. x \in Refused(mw)
    BY <1>4, <1>9 DEF Failed
  <2> QED
    BY <1>4, <1>7, <1>8, <2>1, ChainClosed
<1>10. MarksInv(iz)
  BY <1>3, <1>4, <1>8, <1>9, MarksGrow
<1>11. MarksInv(index)'
  BY <1>2, <1>10 DEF MarksInv, Known, Failed
<1>12. /\ NewTip(mw) \in Blocks /\ (Connected(mw) = {} => NewTip(mw) \in Ancestors[tip])
  BY <1>1, StepTip
<1>13. ASSUME NEW c \in candidates' PROVE ~Before(c, NewTip(mw))
  <2>1. CASE Connected(mw) # {}
    BY <1>13, <2>1 DEF ActivateTo, ActivateBestChainStep, Pruned, Before
  <2>2. CASE Connected(mw) = {}
    <3>1. c \in candidates /\ c \in Blocks /\ ~Before(c, tip)
      BY <1>1, <1>13, <2>2 DEF ActivateTo, ActivateBestChainStep, FindMostWorkChain_Candidates,
                               CheckInv, SetsInv
    <3>2. NewTip(mw) = tip \/ Before(NewTip(mw), tip)
      BY <1>1, <1>12, <2>2, WorseBelow DEF Before
    <3> QED
      BY <1>1, <1>12, <3>1, <3>2, BeforeTransitive
  <2> QED
    BY <2>1, <2>2
<1>14. SetsInv'
  BY <1>2, <1>13 DEF CheckInv, SetsInv, Before
<1> QED
  BY <1>11, <1>14 DEF CheckInv

\* invalidateblock.
LEMMA CheckInvalidate ==
  ASSUME LinkedInv, SelectInv, CheckInv, NEW b \in Blocks, InvalidateBlock(b)
  PROVE  CheckInv'
<1> DEFINE iy == InvalidatedIndex(b, Undone(b))
<1>1. /\ TreeInv /\ candidates \subseteq chainTx /\ chainTx \subseteq Blocks /\ OrderInv /\ tip \in Blocks
      /\ index \in [Blocks -> Entry]
  BY DEF LinkedInv, SelectInv, TreeInv, EntriesInv
<1>2. /\ index' = iy /\ UNCHANGED <<chainTx, nSequenceId, unlinked, address>> /\ b \in Known(index)
      /\ b # Genesis /\ tip' = (IF Undone(b) = {} THEN tip ELSE Parent[b])
      /\ \A c \in candidates' : c \in candidates \/ c \in RestoredCandidates(iy, tip')
  BY DEF InvalidateBlock, InvalidatedIndex
<1>3. /\ \A x \in Blocks : iy[x].valid = index[x].valid
      /\ \A x \in Blocks : index[x].failed \subseteq iy[x].failed
      /\ \A x \in Blocks \ ({b} \cup Undone(b)) : iy[x] = index[x]
  BY <1>1, InvalidatedEntries
<1>4. "FAILED_VALID" \in iy[b].failed
  BY <1>1 DEF InvalidatedIndex, MarkFailed, Entry
<1> HIDE DEF iy
<1>5. Known(iy) = Known(index)
  BY <1>3 DEF Known
<1>6. \A x \in Undone(b) : x \in Ancestors[tip] /\ x \in Known(index) /\ b \in Ancestors[x]
  BY <1>1, ChainClosed DEF Undone, Descendants, TreeInv, ChainConnected, EntriesInv
<1>7. ASSUME NEW x \in Blocks, Failed(iy, x), ~Failed(index, x)
      PROVE  x \in Known(iy) /\ \E a \in Ancestors[x] : "FAILED_VALID" \in iy[a].failed
  <2>1. x = b \/ x \in Undone(b)
    BY <1>3, <1>7 DEF Failed
  <2> QED
    BY <1>2, <1>4, <1>5, <1>6, <2>1, ChainClosed
<1>8. MarksInv(iy)
  BY <1>3, <1>5, <1>7, MarksGrow DEF CheckInv
<1>9. MarksInv(index)'
  BY <1>2, <1>8 DEF MarksInv, Known, Failed
<1>10. tip' \in Ancestors[tip] /\ tip' \in Blocks
  <2>1. CASE Undone(b) = {}
    BY <1>1, <1>2, <2>1, ChainClosed
  <2>2. CASE Undone(b) # {}
    <3>1. b \in Ancestors[tip]
      BY <1>1, <1>6, <2>2, ChainTransitive
    <3> QED
      BY <1>1, <1>2, <2>2, <3>1, ChainBelow
  <2> QED
    BY <2>1, <2>2
<1>11. ASSUME NEW c \in candidates' PROVE ~Worse(c, tip', nSequenceId, address)
  <2>1. CASE c \in RestoredCandidates(iy, tip')
    BY <2>1 DEF RestoredCandidates
  <2>2. CASE c \in candidates
    <3>1. c \in Blocks /\ ~Before(c, tip)
      BY <1>1, <2>2 DEF CheckInv, SetsInv
    <3>2. tip' = tip \/ Before(tip', tip)
      BY <1>1, <1>10, WorseBelow DEF Before
    <3>3. ~Before(c, tip')
      BY <1>1, <1>10, <3>1, <3>2, BeforeTransitive
    <3> QED
      BY <3>3 DEF Before
  <2> QED
    BY <1>2, <1>11, <2>1, <2>2
<1>12. SetsInv'
  BY <1>2, <1>11 DEF CheckInv, SetsInv, Before
<1> QED
  BY <1>9, <1>12 DEF CheckInv

\* reconsiderblock: what stays marked is above another invalid block.
LEMMA CheckReconsider ==
  ASSUME "reconsiderAny" \notin Operations, LinkedInv, SelectInv, CheckInv,
         NEW b \in Blocks, ReconsiderBlock(b)
  PROVE  CheckInv'
<1> DEFINE iy == ReconsideredIndex(b)
<1>1. /\ TreeInv /\ candidates \subseteq chainTx /\ chainTx \subseteq Blocks /\ OrderInv /\ tip \in Blocks
  BY DEF LinkedInv, SelectInv, TreeInv, EntriesInv
<1>2. /\ index' = iy /\ UNCHANGED <<chainTx, nSequenceId, unlinked, tip, address>>
      /\ \A c \in candidates' : c \in candidates \/ (c \in chainTx /\ Before(tip, c))
  BY DEF ReconsiderBlock, ReconsideredIndex, Before
<1>3. /\ \A x \in Blocks : iy[x].valid = index[x].valid
      /\ \A x \in Blocks : iy[x].failed \subseteq index[x].failed
      /\ \A x \in Blocks \ FailedAbove(b) : iy[x] = index[x]
  BY <1>1, ReconsideredEntries, ClearedAbove
<1>4. \A x \in FailedAbove(b) : x \in Blocks /\ iy[x].failed = {}
  <2>1. \A x \in FailedAbove(b) : x \in Blocks /\ x \in Cleared(b)
    BY DEF FailedAbove, Known, Cleared
  <2> QED
    BY <1>1, <2>1 DEF ReconsideredIndex, TreeInv, EntriesInv, Entry
<1> HIDE DEF iy
<1>5. Known(iy) = Known(index)
  BY <1>3 DEF Known
<1>6. ASSUME NEW y \in Blocks, Failed(iy, y)
      PROVE  y \in Known(iy) /\ \E a \in Ancestors[y] : "FAILED_VALID" \in iy[a].failed
  <2>1. y \notin FailedAbove(b) /\ Failed(index, y)
    BY <1>3, <1>4, <1>6 DEF Failed
  <2>2. y \in Known(index)
    BY <2>1 DEF CheckInv, MarksInv
  <2>3. PICK a \in Ancestors[y] : "FAILED_VALID" \in index[a].failed
    BY <2>1 DEF CheckInv, MarksInv
  <2>4. a \in Blocks /\ Ancestors[a] \subseteq Ancestors[y]
    BY ChainTransitive
  <2>5. a \notin FailedAbove(b)
    BY <2>1, <2>2, <2>4 DEF FailedAbove, Descendants, IsValid
  <2> QED
    BY <1>3, <1>5, <2>2, <2>3, <2>4, <2>5
<1>7. MarksInv(index)'
  BY <1>2, <1>6 DEF MarksInv, Known, Failed
<1>8. ASSUME NEW c \in candidates' PROVE ~Before(c, tip)
  BY <1>1, <1>2, <1>8, BeforeOrder DEF CheckInv, SetsInv
<1>9. SetsInv'
  BY <1>2, <1>8 DEF CheckInv, SetsInv, Before
<1> QED
  BY <1>7, <1>9 DEF CheckInv

\* Every step of the tree, in memory.
LEMMA CheckNext ==
  ASSUME "reconsiderAny" \notin Operations, LinkedInv, SelectInv, CheckInv, [Next]_vars
  PROVE  CheckInv'
<1>1. ASSUME UNCHANGED <<index, chainTx, nSequenceId, candidates, unlinked, tip, address>>
      PROVE  CheckInv'
  BY <1>1 DEF CheckInv, MarksInv, SetsInv, Before
<1>2. CASE UNCHANGED vars
  BY <1>1, <1>2 DEF vars
<1>3. ASSUME NEW b \in Blocks, DuplicateBlock(b) PROVE CheckInv'
  BY <1>1, <1>3 DEF DuplicateBlock
<1>4. CASE Activate
  BY <1>4, CheckActivateTo DEF Activate
<1>5. TreeInv
  BY DEF LinkedInv
<1> QED
  BY <1>2, <1>3, <1>4, <1>5, CheckHeader, CheckAcceptBlock, CheckActivateDone, CheckInvalidate,
     CheckReconsider DEF Next

\* At the beginning.
LEMMA CheckInit == Init => CheckInv
<1> SUFFICES ASSUME Init PROVE CheckInv
  OBVIOUS
<1>1. OrderInv /\ Genesis \in Blocks
  BY SelectInit, ChainsAssumption DEF SelectInv
<1>2. ~Before(Genesis, Genesis)
  BY <1>1, BeforeOrder
<1>3. \A b \in Blocks : ~Failed(index, b)
  BY DEF Init, Failed, NoEntry
<1> QED
  BY <1>2, <1>3 DEF Init, CheckInv, MarksInv, SetsInv

\* What the invariants say between calls of ActivateBestChain: the only
\* candidate that can be chosen is the tip.
LEMMA InvariantsCheck == LinkedInv /\ SelectInv /\ CheckInv => CheckBlockIndex
<1> SUFFICES ASSUME LinkedInv, SelectInv, CheckInv, ~pending
             PROVE  /\ IndexConsistent
                    /\ \A b \in Known(index) : ~HasInvalidAncestor(b) => ~Failed(index, b)
                    /\ \A c \in candidates : c \in chainTx /\ ~Worse(c, tip, nSequenceId, address)
                    /\ \A b \in chainTx :
                         ~Worse(b, tip, nSequenceId, address) /\ ~HasInvalidAncestor(b) => b \in candidates
                    /\ \A b \in Known(index) \ {Genesis} :
                         LET waits == index[b].data /\ b \notin chainTx
                             found == <<Parent[b], b>> \in unlinked
                         IN  /\ found => waits
                             /\ waits /\ ~HasInvalidAncestor(b) => found
  BY DEF CheckBlockIndex
<1>1. /\ TreeInv /\ OrderInv /\ chainTx \subseteq Blocks /\ candidates \subseteq chainTx
      /\ tip \in Blocks /\ Known(index) \subseteq Blocks
  BY DEF LinkedInv, SelectInv, TreeInv, EntriesInv, Known
<1>2. IndexConsistent
  BY LinksConsistent DEF LinkedInv
<1>3. \A b \in Known(index) : ~HasInvalidAncestor(b) => ~Failed(index, b)
  BY <1>1 DEF CheckInv, MarksInv, HasInvalidAncestor
<1>4. \A c \in candidates : c \in chainTx /\ ~Worse(c, tip, nSequenceId, address)
  BY <1>1 DEF CheckInv, SetsInv, Before
<1>5. \A b \in chainTx : NoneFailed(index, b) => ~Before(tip, b)
  BY DEF SelectInv, BestChainActive, NoneFailed, Before
<1>6. tip \in candidates
  <2>1. PICK t \in Blocks : Benchmark(t)
    BY DEF SelectInv
  <2>2. ~Before(tip, t) /\ ~Before(t, tip)
    BY <1>1, <1>5, <2>1 DEF Benchmark, Sound, CheckInv, SetsInv
  <2> QED
    BY <1>1, <2>1, <2>2, BeforeOrder DEF Benchmark
<1>7. ASSUME NEW b \in chainTx, ~Worse(b, tip, nSequenceId, address), ~HasInvalidAncestor(b)
      PROVE  b \in candidates
  <2>1. b \in Blocks /\ ~Before(b, tip)
    BY <1>1, <1>7 DEF Before
  <2>2. ASSUME NEW a \in Ancestors[b], Failed(index, a) PROVE FALSE
    <3>1. a \in Blocks /\ Ancestors[a] \subseteq Ancestors[b]
      BY <2>1, ChainTransitive
    <3>2. \E z \in Ancestors[a] : "FAILED_VALID" \in index[z].failed
      BY <2>2, <3>1 DEF CheckInv, MarksInv
    <3> QED
      BY <1>7, <3>1, <3>2 DEF HasInvalidAncestor
  <2>3. ~Before(tip, b)
    BY <1>5, <2>2 DEF NoneFailed
  <2> QED
    BY <1>1, <1>6, <2>1, <2>3, BeforeOrder
<1>8. ASSUME NEW b \in Known(index) \ {Genesis}
      PROVE  /\ <<Parent[b], b>> \in unlinked => index[b].data /\ b \notin chainTx
             /\ index[b].data /\ b \notin chainTx => <<Parent[b], b>> \in unlinked
  BY <1>1 DEF LinkedInv, LinksInv, TreeInv, EntriesInv, CheckInv, SetsInv
<1> QED
  BY <1>2, <1>3, <1>4, <1>7, <1>8

\* For every tree of blocks, every verdict, every order of arrivals, steps and
\* commands (reconsiderblock naming the block that was invalidated): what
\* CheckBlockIndex asserts of the index, the candidates and mapBlocksUnlinked
\* holds whenever ActivateBestChain has returned.
THEOREM BlockIndexAlwaysChecks ==
  ASSUME "reconsiderAny" \notin Operations
  PROVE  Spec => []CheckBlockIndex
<1>1. Init => LinkedInv /\ SelectInv /\ CheckInv
  BY SelectInit, CheckInit
<1>2. LinkedInv /\ SelectInv /\ CheckInv /\ [Next]_vars => LinkedInv' /\ SelectInv' /\ CheckInv'
  BY SelectNext, CheckNext
<1>3. LinkedInv /\ SelectInv /\ CheckInv => CheckBlockIndex
  BY InvariantsCheck
<1> QED
  BY <1>1, <1>2, <1>3, PTL DEF Spec

=============================================================================
