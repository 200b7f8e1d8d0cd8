------------------------ MODULE BlockTreeDiskProofs ------------------------
(***************************************************************************)
(* What LoadBlockIndexDB finds on disk, for every tree of blocks.  The     *)
(* invariant relates the block tree database to mapBlockIndex: an entry    *)
(* that is not in setDirtyBlockIndex is the same in both, except for marks *)
(* that FindMostWorkChain set in memory only.                              *)
(*                                                                         *)
(* DiskInv is enough for a start to succeed, UnmarkedInv for the chain that *)
(* it starts with to be valid, IndexInv for the links it builds again.     *)
(* StartInv adds the best chain: after a start the tip itself is the       *)
(* benchmark.  CheckedInv adds the failure marks: a mark on disk is blamed *)
(* on a block below that carries FAILED_VALID, on disk as in memory.       *)
(***************************************************************************)
EXTENDS BlockTreeDisk, BlockTreeProofs

\* Outside of D the entries of disk are those of ix, without some marks.
Agrees(disk, ix, D) ==
  \A b \in Blocks \ D : /\ disk[b].valid = ix[b].valid
                        /\ disk[b].data = ix[b].data
                        /\ disk[b].failed \subseteq ix[b].failed

\* What a start from disk, with the coins at t, relies on.
Loadable(disk, t) ==
  /\ EntriesInv(disk, {}, {})
  /\ t \in Blocks
  /\ ChainConnected(disk, t)

DiskInv ==
  /\ TreeInv
  /\ dirty \subseteq Blocks /\ aborted \in BOOLEAN
  /\ diskTip \in Ancestors[tip]
  /\ Loadable(diskIndex, diskTip)
  /\ Agrees(diskIndex, index, dirty)
  /\ StartsAgain

\* No failure mark reaches a chain that the process starts from.
UnmarkedInv == NoneFailed(index, tip) /\ NoneFailed(diskIndex, diskTip) /\ ~aborted

\* Agreement is transitive.
LEMMA AgreesTransitive ==
  ASSUME NEW ix, NEW iy, NEW iz, NEW D, NEW S, Agrees(ix, iy, D), Agrees(iy, iz, S)
  PROVE  Agrees(ix, iz, D \cup S)
  BY DEF Agrees

\* WriteBatchSync of the dirty entries.
LEMMA WrittenAgrees ==
  ASSUME diskIndex \in [Blocks -> Entry], NEW ix \in [Blocks -> Entry], NEW D,
         Agrees(diskIndex, ix, D)
  PROVE  /\ Written(ix, D) \in [Blocks -> Entry]
         /\ Agrees(Written(ix, D), ix, {})
  BY DEF Agrees, Written, Entry

\* What agrees with the entries in memory can be started from.
LEMMA AgreesLoads ==
  ASSUME NEW ix, NEW disk \in [Blocks -> Entry], NEW linked, NEW waiting,
         EntriesInv(ix, linked, waiting), Agrees(disk, ix, {}),
         NEW t \in Blocks, ChainConnected(ix, t)
  PROVE  /\ Loadable(disk, t)
         /\ NoneFailed(ix, t) => NoneFailed(disk, t)
<1>1. \A b \in Blocks : disk[b].valid = ix[b].valid /\ disk[b].data = ix[b].data
  BY DEF Agrees
<1>2. EntriesInv(ix, {}, {})
  BY DEF EntriesInv
<1>3. EntriesInv(disk, {}, {}) /\ ChainConnected(disk, t)
  BY <1>1, <1>2, MarksOnly
<1>4. \A a \in Ancestors[t] : a \in Blocks /\ disk[a].failed \subseteq ix[a].failed
  BY ChainClosed DEF Agrees
<1> QED
  BY <1>3, <1>4 DEF Loadable, NoneFailed, Failed

\* At the beginning disk and memory are the same.
LEMMA DiskInitial == DiskInit => DiskInv /\ UnmarkedInv
<1> SUFFICES ASSUME DiskInit PROVE DiskInv /\ UnmarkedInv
  OBVIOUS
<1>1. TreeInv /\ NoneFailed(index, tip) /\ tip = Genesis
  BY TreeInit DEF DiskInit, Init
<1>2. diskIndex = index /\ diskTip = tip /\ dirty = {} /\ aborted = FALSE
  BY <1>1 DEF DiskInit
<1>3. Agrees(diskIndex, index, dirty)
  BY <1>2 DEF Agrees
<1>4. Loadable(diskIndex, diskTip)
  BY <1>1, <1>2 DEF TreeInv, EntriesInv, Loadable
<1>5. diskTip \in Ancestors[tip]
  BY <1>1, <1>2, ChainClosed DEF TreeInv
<1> QED
  BY <1>1, <1>2, <1>3, <1>4, <1>5, Zenon DEF DiskInv, UnmarkedInv, StartsAgain

-----------------------------------------------------------------------------
(* Steps that write nothing.                                               *)

\* The step records every entry it changes, marks aside.
LEMMA DiskTouch ==
  ASSUME DiskInv, TreeInv', NEW S \in SUBSET Blocks, Touch(S), tip' = tip,
         Agrees(index, index', S),
         NoneFailed(index, tip) => NoneFailed(index, tip)'
  PROVE  DiskInv' /\ (UnmarkedInv => UnmarkedInv')
<1>1. /\ dirty' = dirty \cup S /\ diskIndex' = diskIndex /\ diskTip' = diskTip
      /\ ~aborted /\ aborted' = aborted
  BY DEF Touch, Running
<1>2. Agrees(diskIndex, index', dirty \cup S)
  BY AgreesTransitive DEF DiskInv
<1>3. Agrees(diskIndex', index', dirty')
  BY <1>1, <1>2
<1>4. Loadable(diskIndex', diskTip')
  BY <1>1 DEF DiskInv
<1>5. DiskInv'
  BY <1>1, <1>3, <1>4 DEF DiskInv, StartsAgain
<1>6. UnmarkedInv => UnmarkedInv'
  BY <1>1 DEF UnmarkedInv, NoneFailed
<1> QED
  BY <1>5, <1>6

\* A header, a block or a rejected block: its own entry changes.
LEMMA DiskArrival ==
  ASSUME DiskInv, NEW b \in Blocks, Touch({b}),
         AcceptBlockHeader(b) \/ AcceptBlock(b) \/ RejectBlock(b)
  PROVE  DiskInv' /\ (UnmarkedInv => UnmarkedInv')
<1>1. TreeInv /\ index \in [Blocks -> Entry]
  BY DEF DiskInv, TreeInv, EntriesInv
<1>2. TreeInv' /\ (NoneFailed(index, tip) => NoneFailed(index, tip)') /\ tip' = tip
  BY <1>1, TreeAcceptBlockHeader, TreeAcceptBlock, TreeRejectBlock, Zenon
    DEF AcceptBlockHeader, AcceptBlock, RejectBlock
<1> DEFINE ix == Entered(index, b)
<1>3. \A x \in Blocks \ {b} : ix[x] = index[x]
  BY <1>1 DEF Entered
<1>4. CASE AcceptBlockHeader(b)
  BY <1>2, <1>3, <1>4, DiskTouch DEF AcceptBlockHeader, Agrees
<1> HIDE DEF ix
<1>5. CASE RejectBlock(b)
  <2>1. index' = MarkFailed(ix, {b}, "FAILED_VALID")
    BY <1>5 DEF RejectBlock, ix
  <2>2. \A x \in Blocks \ {b} : index'[x] = index[x]
    BY <1>3, <2>1 DEF MarkFailed
  <2>3. Agrees(index, index', {b})
    BY <2>2 DEF Agrees
  <2> QED
    BY <1>2, <2>3, DiskTouch
<1>6. CASE AcceptBlock(b)
  <2> DEFINE iy == [ix EXCEPT ![b].data = TRUE]
  <2>1. index' = RaiseValidity(iy, {b}, VALID_TRANSACTIONS)
    BY <1>6 DEF AcceptBlock, ReceivedBlockTransactions, ix
  <2>2. \A x \in Blocks \ {b} : iy[x] = ix[x]
    BY <1>1 DEF ix, Entered
  <2> HIDE DEF iy
  <2>3. \A x \in Blocks \ {b} : index'[x] = iy[x]
    BY <2>1 DEF RaiseValidity
  <2>4. Agrees(index, index', {b})
    BY <1>3, <2>2, <2>3 DEF Agrees
  <2> QED
    BY <1>2, <2>4, DiskTouch
<1> QED
  BY <1>4, <1>5, <1>6

\* A duplicate block changes nothing, FindMostWorkChain only adds marks.
LEMMA DiskUntouched ==
  ASSUME DiskInv, Touch({}), (\E b \in Blocks : DuplicateBlock(b)) \/ ActivateDone
  PROVE  DiskInv' /\ (UnmarkedInv => UnmarkedInv')
<1>1. TreeInv
  BY DEF DiskInv
<1>2. CASE ActivateDone
  <2>1. TreeInv' /\ (NoneFailed(index, tip) => NoneFailed(index, tip)')
    BY <1>1, <1>2, TreeActivateDone
  <2>2. index' = FindMostWorkChain_Index /\ tip' = tip
    BY <1>2 DEF ActivateDone
  <2>3. Agrees(index, FindMostWorkChain_Index, {})
    BY <1>1, FoundIndex DEF Agrees
  <2>4. Agrees(index, index', {})
    BY <2>2, <2>3
  <2> QED
    BY <2>1, <2>2, <2>4, DiskTouch
<1>3. CASE \E b \in Blocks : DuplicateBlock(b)
  <2>1. /\ UNCHANGED <<index, chainTx, candidates, unlinked, tip>>
    BY <1>3 DEF DuplicateBlock
  <2>2. TreeInv' /\ (NoneFailed(index, tip) => NoneFailed(index, tip)')
    BY <1>1, <2>1 DEF TreeInv, NoneFailed
  <2>3. Agrees(index, index', {})
    BY <2>1 DEF Agrees
  <2> QED
    BY <2>1, <2>2, <2>3, DiskTouch
<1> QED
  BY <1>2, <1>3

\* reconsiderblock records what it clears.
LEMMA DiskReconsider ==
  ASSUME DiskInv, NEW b \in Blocks, ReconsiderOnDisk(b)
  PROVE  DiskInv' /\ (UnmarkedInv => UnmarkedInv')
<1>1. TreeInv /\ ReconsiderBlock(b) /\ Touch(Cleared(b))
  BY DEF DiskInv, ReconsiderOnDisk
<1>2. TreeInv' /\ (NoneFailed(index, tip) => NoneFailed(index, tip)')
  BY <1>1, TreeReconsiderBlock
<1>3. index' = ReconsideredIndex(b) /\ tip' = tip
  BY <1>1 DEF ReconsiderBlock, ReconsideredIndex
<1>4. Agrees(index, ReconsideredIndex(b), Cleared(b))
  BY <1>1, ReconsideredEntries DEF Agrees
<1>5. Cleared(b) \in SUBSET Blocks
  BY ChainClosed DEF Cleared, FailedAbove, Known
<1>6. Agrees(index, index', Cleared(b))
  BY <1>3, <1>4
<1> QED
  BY <1>1, <1>2, <1>3, <1>5, <1>6, DiskTouch

-----------------------------------------------------------------------------
(* Steps that write.                                                       *)

\* All dirty entries are written, the coins are left or brought to the tip.
LEMMA DiskWritten ==
  ASSUME DiskInv, TreeInv', diskIndex' \in [Blocks -> Entry], Agrees(diskIndex', index', {}),
         diskTip' \in Ancestors[tip'], dirty' = {}, Running,
         UnmarkedInv => NoneFailed(index, tip)'
  PROVE  DiskInv' /\ (UnmarkedInv => UnmarkedInv')
<1>1. /\ EntriesInv(index', chainTx', unlinked') /\ tip' \in Blocks
      /\ ChainConnected(index', tip')
  BY DEF TreeInv
<1>2. /\ diskTip' \in Blocks /\ ChainConnected(index', diskTip')
      /\ NoneFailed(index', tip') => NoneFailed(index', diskTip')
  BY <1>1, ConnectedBelow
<1>3. /\ Loadable(diskIndex', diskTip')
      /\ NoneFailed(index', diskTip') => NoneFailed(diskIndex', diskTip')
  BY <1>1, <1>2, AgreesLoads
<1>4. ~aborted /\ ~aborted' /\ aborted' \in BOOLEAN /\ Agrees(diskIndex', index', dirty')
  <2>1. Agrees(diskIndex', index', dirty')
    BY DEF Agrees
  <2>2. ~aborted /\ aborted' = aborted /\ aborted \in BOOLEAN
    BY DEF Running, DiskInv
  <2> QED
    BY <2>1, <2>2
<1>5. DiskInv'
  BY <1>3, <1>4 DEF DiskInv, StartsAgain
<1>6. UnmarkedInv => UnmarkedInv'
  BY <1>2, <1>3, <1>4 DEF UnmarkedInv, NoneFailed
<1> QED
  BY <1>5, <1>6

\* FlushStateToDisk, of the index or of both.
LEMMA DiskFlush ==
  ASSUME DiskInv, FlushIndex \/ FlushAll
  PROVE  DiskInv' /\ (UnmarkedInv => UnmarkedInv')
<1>1. /\ UNCHANGED vars /\ Running /\ dirty' = {} /\ diskTip' \in {diskTip, tip}
      /\ diskIndex' = Written(index, dirty)
  BY DEF FlushIndex, FlushAll
<1>2. TreeInv' /\ index' = index /\ tip' = tip /\ (UnmarkedInv => NoneFailed(index, tip)')
  BY <1>1 DEF DiskInv, TreeInv, UnmarkedInv, NoneFailed, vars
<1>3. diskTip' \in Ancestors[tip']
  BY <1>1, <1>2, ChainClosed DEF DiskInv, TreeInv
<1>4. diskIndex \in [Blocks -> Entry] /\ index \in [Blocks -> Entry]
  BY DEF DiskInv, Loadable, TreeInv, EntriesInv
<1>5. Written(index, dirty) \in [Blocks -> Entry] /\ Agrees(Written(index, dirty), index, {})
  BY <1>4, WrittenAgrees DEF DiskInv
<1>6. diskIndex' \in [Blocks -> Entry] /\ Agrees(diskIndex', index', {})
  BY <1>1, <1>2, <1>5
<1> QED
  BY <1>1, <1>2, <1>3, <1>6, DiskWritten

\* invalidateblock, run to its end.
LEMMA DiskInvalidate ==
  ASSUME DiskInv, NEW b \in Blocks, InvalidateOnDisk(b)
  PROVE  DiskInv' /\ (UnmarkedInv => UnmarkedInv')
<1> DEFINE S  == {b} \cup Undone(b)
           iy == InvalidatedIndex(b, Undone(b))
<1>1. TreeInv /\ InvalidateBlock(b)
  BY DEF DiskInv, InvalidateOnDisk
<1>2. TreeInv' /\ (NoneFailed(index, tip) => NoneFailed(index, tip)')
  BY <1>1, TreeInvalidateBlock
<1>3. index' = iy
  BY <1>1 DEF InvalidateBlock, InvalidatedIndex
<1>4. iy \in [Blocks -> Entry] /\ Agrees(index, iy, S)
  BY <1>1, InvalidatedEntries DEF Agrees
<1> HIDE DEF iy
<1>5. CASE Undone(b) = {}
  <2>1. tip' = tip /\ Touch({b})
    BY <1>1, <1>5 DEF InvalidateBlock, InvalidateOnDisk
  <2>2. Agrees(index, index', {b})
    BY <1>3, <1>4, <1>5
  <2> QED
    BY <1>2, <2>1, <2>2, DiskTouch
<1>6. CASE Undone(b) # {}
  <2>1. /\ diskIndex' = Written(index', dirty \cup {b} \cup Undone(b))
        /\ diskTip' = tip' /\ dirty' = {} /\ Running
    BY <1>6 DEF InvalidateOnDisk
  <2>2. diskIndex' = Written(iy, dirty \cup S)
    <3>1. dirty \cup {b} \cup Undone(b) = dirty \cup S
      OBVIOUS
    <3> QED
      BY <1>3, <2>1, <3>1
  <2> HIDE DEF S
  <2>3. Agrees(diskIndex, iy, dirty \cup S)
    BY <1>4, AgreesTransitive DEF DiskInv
  <2>4. diskIndex \in [Blocks -> Entry]
    BY DEF DiskInv, Loadable, EntriesInv
  <2>5. Written(iy, dirty \cup S) \in [Blocks -> Entry] /\ Agrees(Written(iy, dirty \cup S), iy, {})
    BY <1>4, <2>3, <2>4, WrittenAgrees
  <2>6. diskIndex' \in [Blocks -> Entry] /\ Agrees(diskIndex', index', {})
    BY <1>3, <2>2, <2>5
  <2>7. diskTip' \in Ancestors[tip']
    BY <1>2, <2>1, ChainClosed DEF TreeInv
  <2>8. UnmarkedInv => NoneFailed(index, tip)'
    BY <1>2 DEF UnmarkedInv
  <2> QED
    BY <1>2, <2>1, <2>6, <2>7, <2>8, DiskWritten
<1> QED
  BY <1>5, <1>6

\* rewindblockindex.
LEMMA DiskRewind ==
  ASSUME DiskInv, NEW t \in Blocks, RewindOnDisk(t)
  PROVE  DiskInv' /\ (UnmarkedInv => UnmarkedInv')
<1> DEFINE disk == Written(index, dirty)
<1>1. TreeInv /\ RewindBlockIndex(t)
  BY DEF DiskInv, RewindOnDisk
<1>2. TreeInv' /\ (NoneFailed(index, tip) => NoneFailed(index, tip)')
  BY <1>1, TreeRewindBlockIndex
<1>3. index \in [Blocks -> Entry] /\ diskIndex \in [Blocks -> Entry] /\ NoEntry \in Entry
  BY DEF DiskInv, Loadable, TreeInv, EntriesInv, NoEntry, Entry
<1>4. disk \in [Blocks -> Entry] /\ Agrees(disk, index, {})
  BY <1>3, WrittenAgrees DEF DiskInv
<1>5. /\ diskIndex' = [x \in Blocks |-> IF x \in Ancestors[t] THEN disk[x] ELSE NoEntry]
      /\ index' = [x \in Blocks |-> IF x \in Ancestors[t] THEN index[x] ELSE NoEntry]
      /\ diskTip' = t /\ tip' = t /\ dirty' = {} /\ Running
  BY DEF RewindOnDisk, RewindBlockIndex
<1> HIDE DEF disk
<1>6. diskIndex' \in [Blocks -> Entry]
  BY <1>3, <1>4, <1>5
<1>7. Agrees(diskIndex', index', {})
  <2>1. ASSUME NEW x \in Blocks
        PROVE  /\ diskIndex'[x].valid = index'[x].valid
               /\ diskIndex'[x].data = index'[x].data
               /\ diskIndex'[x].failed \subseteq index'[x].failed
    BY <1>4, <1>5 DEF Agrees
  <2> QED
    BY <2>1 DEF Agrees
<1>8. diskTip' \in Ancestors[tip'] /\ (UnmarkedInv => NoneFailed(index, tip)')
  BY <1>2, <1>5, ChainClosed DEF UnmarkedInv
<1> QED
  BY <1>2, <1>5, <1>6, <1>7, <1>8, DiskWritten

-----------------------------------------------------------------------------
(* Starting again.                                                         *)

\* LoadBlockIndexDB.  If no block of the coins' chain is marked, its last
\* block is a candidate that no pruning drops.
LEMMA DiskLoad ==
  ASSUME NEW ix, NEW t, Loadable(ix, t), LoadBlockIndexDB(ix, t)
  PROVE  DiskInv' /\ (NoneFailed(ix, t) => UnmarkedInv')
<1> DEFINE linked == {b \in Blocks : \A a \in Ancestors[b] : ix[a].data}
           zeroIds == [b \in Blocks |-> 0]
<1>1. /\ index' = ix /\ chainTx' = linked /\ unlinked' = Waiting(ix, linked)
      /\ candidates' = Pruned(Loaded(ix, linked), t, zeroIds, address')
      /\ tip' = t /\ diskIndex' = ix /\ diskTip' = t /\ dirty' = {}
      /\ aborted' = (candidates' = {})
  BY DEF LoadBlockIndexDB
<1>2. /\ ix \in [Blocks -> Entry] /\ t \in Blocks /\ EntriesInv(ix, {}, {})
      /\ ChainConnected(ix, t)
  BY DEF Loadable, EntriesInv
<1>3. EntriesInv(ix, linked, Waiting(ix, linked))
  <2>1. \A b \in Blocks : <<Parent[b], b>> \in Waiting(ix, linked) => ix[b].data
    BY DEF Waiting
  <2> QED
    BY <1>2, <2>1 DEF EntriesInv
<1>4. Pruned(Loaded(ix, linked), t, zeroIds, address') \subseteq linked
  BY DEF Pruned, Loaded
<1>5. ASSUME NoneFailed(ix, t)
      PROVE  t \in Pruned(Loaded(ix, linked), t, zeroIds, address')
  <2>1. t \in linked /\ t \in Ancestors[t]
    BY <1>2, ChainClosed DEF ChainConnected
  <2>2. IsValid(ix, t, VALID_TRANSACTIONS)
    BY <1>2, <1>5, <2>1 DEF IsValid, ChainConnected, NoneFailed, VALID_TRANSACTIONS, VALID_SCRIPTS
  <2>3. nChainWork[t] \in Nat
    BY <1>2, BlockTreeAssumption
  <2>4. address'[t] \in Nat
    BY <1>2, BlockTreeAssumption DEF LoadBlockIndexDB
  <2>5. ~Worse(t, t, zeroIds, address')
    BY <1>2, <2>3, <2>4 DEF Worse
  <2> QED
    BY <2>1, <2>2, <2>5 DEF Pruned, Loaded
<1> HIDE DEF linked, zeroIds
<1>6. TreeInv'
  BY <1>1, <1>2, <1>3, <1>4 DEF TreeInv
<1>7. Agrees(diskIndex', index', dirty') /\ Loadable(diskIndex', diskTip')
  BY <1>1 DEF Agrees
<1>8. diskTip' \in Ancestors[tip'] /\ dirty' \subseteq Blocks /\ aborted' \in BOOLEAN
  BY <1>1, <1>2, ChainClosed
<1>9. aborted' => \E a \in Ancestors[diskTip'] : diskIndex'[a].failed # {}
  BY <1>1, <1>5, Zenon DEF NoneFailed, Failed
<1>10. NoneFailed(ix, t) => UnmarkedInv'
  BY <1>1, <1>5, Zenon DEF UnmarkedInv, NoneFailed
<1>11. DiskInv'
  BY <1>6, <1>7, <1>8, <1>9 DEF DiskInv, StartsAgain
<1> QED
  BY <1>10, <1>11

\* The process ends inside of invalidateblock: the marks may be on disk while
\* the coins are still on the chain.
LEMMA DiskCrashDuringInvalidate ==
  ASSUME DiskInv, NEW b \in Blocks, CrashDuringInvalidate(b)
  PROVE  DiskInv'
<1>1. b # Genesis
  BY DEF CrashDuringInvalidate
<1>2. PICK x \in Undone(b) :
        \E t \in {x, Parent[x]} :
          LoadBlockIndexDB(Written(InvalidatedIndex(b, Undone(b) \cap Descendants[x]),
                                   dirty \cup {b} \cup (Undone(b) \cap Descendants[x])), t)
  BY Zenon DEF CrashDuringInvalidate, InvalidatedIndex
<1> DEFINE marked == Undone(b) \cap Descendants[x]
           S      == {b} \cup marked
           iy     == InvalidatedIndex(b, marked)
           disk   == Written(iy, dirty \cup S)
<1>3. dirty \cup {b} \cup marked = dirty \cup S
  OBVIOUS
<1>4. PICK t \in {x, Parent[x]} : LoadBlockIndexDB(disk, t)
  BY <1>2, <1>3
<1>5. TreeInv /\ tip \in Blocks /\ x \in Ancestors[tip] /\ b \in Ancestors[x]
  BY DEF DiskInv, TreeInv, Undone, Descendants
<1>6. x # Genesis
  BY <1>1, <1>5, ChainGenesis
<1>7. t \in Blocks /\ t \in Ancestors[tip]
  BY <1>4, <1>5, <1>6, ChainBelow, ChainClosed
<1>8. /\ iy \in [Blocks -> Entry] /\ Agrees(index, iy, S)
      /\ \A y \in Blocks : iy[y].valid = index[y].valid /\ iy[y].data = index[y].data
  <2> HIDE DEF marked
  <2> QED
    BY <1>5, InvalidatedEntries DEF Agrees
<1> HIDE DEF iy, S
<1>9. EntriesInv(iy, chainTx, unlinked) /\ ChainConnected(iy, tip)
  BY <1>5, <1>8, MarksOnly DEF TreeInv
<1>10. ChainConnected(iy, t)
  BY <1>5, <1>7, <1>9, ConnectedBelow
<1>11. Agrees(diskIndex, iy, dirty \cup S)
  BY <1>8, AgreesTransitive DEF DiskInv
<1>12. diskIndex \in [Blocks -> Entry]
  BY DEF DiskInv, Loadable, EntriesInv
<1>13. disk \in [Blocks -> Entry] /\ Agrees(disk, iy, {})
  BY <1>8, <1>11, <1>12, WrittenAgrees, Zenon
<1> HIDE DEF disk
<1>14. Loadable(disk, t)
  BY <1>7, <1>9, <1>10, <1>13, AgreesLoads
<1> QED
  BY <1>4, <1>14, DiskLoad

-----------------------------------------------------------------------------
(* ActivateBestChain.                                                      *)

\* What FindMostWorkChain leaves in memory can be started from at the tip and
\* below.
LEMMA FoundLoads ==
  ASSUME TreeInv
  PROVE  LET ix == FindMostWorkChain_Index IN
         /\ EntriesInv(ix, chainTx, unlinked) /\ ChainConnected(ix, tip)
         /\ NoneFailed(index, tip) => NoneFailed(ix, tip)
         /\ \A a \in Ancestors[tip] : ix[a] = index[a]
<1> DEFINE ix == FindMostWorkChain_Index
<1>1. /\ ix \in [Blocks -> Entry]
      /\ \A b \in Blocks : ix[b].valid = index[b].valid /\ ix[b].data = index[b].data
      /\ \A b \in Blocks \ Marked : ix[b] = index[b]
  BY FoundIndex
<1> HIDE DEF ix
<1>2. EntriesInv(ix, chainTx, unlinked) /\ ChainConnected(ix, tip)
  BY <1>1, MarksOnly DEF TreeInv
<1>3. \A a \in Ancestors[tip] : ix[a] = index[a]
  BY <1>1, MarkedOffPath, ChainClosed DEF TreeInv
<1>4. NoneFailed(index, tip) => NoneFailed(ix, tip)
  BY <1>3 DEF NoneFailed, Failed
<1> QED
  BY <1>2, <1>3, <1>4 DEF ix

\* What is on disk while the chain is reorganised can be started from.
LEMMA ReorgLoads ==
  ASSUME DiskInv, CrashDuringReorg
  PROVE  LET disk == Written(FindMostWorkChain_Index, dirty) IN
         \E t : /\ LoadBlockIndexDB(disk, t) /\ Loadable(disk, t)
                /\ NoneFailed(index, tip) => NoneFailed(disk, t)
<1> DEFINE ix   == FindMostWorkChain_Index
           disk == Written(ix, dirty)
<1>1. PICK mw \in MostWork : \E x \in Ancestors[tip] \ Ancestors[mw] :
                               LoadBlockIndexDB(disk, Parent[x])
  BY DEF CrashDuringReorg
<1>2. PICK x \in Ancestors[tip] \ Ancestors[mw] : LoadBlockIndexDB(disk, Parent[x])
  BY <1>1
<1>3. mw \in Blocks /\ tip \in Blocks /\ TreeInv
  BY DEF MostWork, DiskInv, TreeInv, EntriesInv
<1>4. x # Genesis
  BY <1>2, <1>3, ChainsAssumption
<1>5. Parent[x] \in Blocks /\ Parent[x] \in Ancestors[tip]
  BY <1>2, <1>3, <1>4, ChainBelow
<1>6. /\ ix \in [Blocks -> Entry] /\ Agrees(index, ix, {})
      /\ EntriesInv(ix, chainTx, unlinked) /\ ChainConnected(ix, tip)
      /\ NoneFailed(index, tip) => NoneFailed(ix, tip)
  BY <1>3, FoundIndex, FoundLoads DEF Agrees
<1> HIDE DEF ix
<1>7. diskIndex \in [Blocks -> Entry] /\ Agrees(diskIndex, ix, dirty \cup {})
  BY <1>6, AgreesTransitive DEF DiskInv, Loadable, EntriesInv
<1>8. dirty \cup {} = dirty
  OBVIOUS
<1>9. disk \in [Blocks -> Entry] /\ Agrees(disk, ix, {})
  BY <1>6, <1>7, <1>8, WrittenAgrees
<1> HIDE DEF disk
<1>10. /\ ChainConnected(ix, Parent[x])
       /\ NoneFailed(ix, tip) => NoneFailed(ix, Parent[x])
  BY <1>3, <1>5, <1>6, ConnectedBelow
<1>11. /\ Loadable(disk, Parent[x])
       /\ NoneFailed(ix, Parent[x]) => NoneFailed(disk, Parent[x])
  BY <1>5, <1>6, <1>9, <1>10, AgreesLoads
<1> QED
  BY <1>2, <1>6, <1>10, <1>11 DEF disk, ix

\* The process ends between two calls, or while the chain is reorganised.
LEMMA DiskRestart ==
  ASSUME DiskInv, Restart \/ CrashDuringReorg
  PROVE  DiskInv' /\ (UnmarkedInv => UnmarkedInv')
<1>1. CASE Restart
  BY <1>1, DiskLoad DEF Restart, DiskInv, UnmarkedInv
<1>2. CASE CrashDuringReorg
  BY <1>2, ReorgLoads, DiskLoad DEF UnmarkedInv
<1> QED
  BY <1>1, <1>2

\* What is on disk, and still dirty, once the chain is back at the fork.
ForkDisk(mw) == IF tip # Fork(mw) THEN Written(FindMostWorkChain_Index, dirty) ELSE diskIndex
ForkDirty(mw) == IF tip # Fork(mw) THEN {} ELSE dirty
ForkTip(mw) == IF tip # Fork(mw) THEN Fork(mw) ELSE diskTip

\* It can be started from.
LEMMA ForkLoads ==
  ASSUME DiskInv, NEW mw \in MostWork
  PROVE  /\ Loadable(ForkDisk(mw), ForkTip(mw)) /\ ForkDisk(mw) \in [Blocks -> Entry]
         /\ Agrees(ForkDisk(mw), FindMostWorkChain_Index, ForkDirty(mw))
         /\ ForkDirty(mw) \subseteq Blocks
         /\ ForkTip(mw) \in Ancestors[NewTip(mw)]
         /\ UnmarkedInv => NoneFailed(ForkDisk(mw), ForkTip(mw))
<1> DEFINE ix == FindMostWorkChain_Index
<1>1. TreeInv /\ tip \in Blocks /\ mw \in Blocks
  BY DEF DiskInv, TreeInv, EntriesInv, MostWork
<1>2. ix \in [Blocks -> Entry] /\ Agrees(index, ix, {})
  BY <1>1, FoundIndex DEF Agrees
<1>3. /\ EntriesInv(ix, chainTx, unlinked) /\ ChainConnected(ix, tip)
      /\ NoneFailed(index, tip) => NoneFailed(ix, tip)
  BY <1>1, FoundLoads
<1> HIDE DEF ix
<1>4. Agrees(diskIndex, ix, dirty)
  <2>1. Agrees(diskIndex, ix, dirty \cup {})
    BY <1>2, AgreesTransitive DEF DiskInv
  <2> QED
    BY <2>1 DEF Agrees
<1>5. diskIndex \in [Blocks -> Entry]
  BY DEF DiskInv, Loadable, EntriesInv
<1>6. /\ NewTip(mw) \in Blocks /\ Fork(mw) \in Ancestors[NewTip(mw)]
      /\ Fork(mw) \in Ancestors[tip]
  BY <1>1, NewTipOnChain, ForkIsCommon
<1>7. CASE tip # Fork(mw)
  <2> DEFINE disk == Written(ix, dirty)
  <2>1. ForkDisk(mw) = disk /\ ForkDirty(mw) = {} /\ ForkTip(mw) = Fork(mw)
    BY <1>7 DEF ForkDisk, ForkDirty, ForkTip, ix
  <2>2. disk \in [Blocks -> Entry] /\ Agrees(disk, ix, {})
    BY <1>2, <1>4, <1>5, WrittenAgrees
  <2> HIDE DEF disk
  <2>3. /\ Fork(mw) \in Blocks /\ ChainConnected(ix, Fork(mw))
        /\ NoneFailed(ix, tip) => NoneFailed(ix, Fork(mw))
    BY <1>1, <1>3, <1>6, ConnectedBelow
  <2>4. Loadable(disk, Fork(mw)) /\ (NoneFailed(ix, Fork(mw)) => NoneFailed(disk, Fork(mw)))
    BY <1>3, <2>2, <2>3, AgreesLoads
  <2> QED
    BY <1>3, <1>6, <2>1, <2>2, <2>3, <2>4 DEF UnmarkedInv, ix
<1>8. CASE tip = Fork(mw)
  <2>1. ForkDisk(mw) = diskIndex /\ ForkDirty(mw) = dirty /\ ForkTip(mw) = diskTip
    BY <1>8 DEF ForkDisk, ForkDirty, ForkTip
  <2>2. diskTip \in Ancestors[NewTip(mw)]
    BY <1>6, <1>8, ChainTransitive DEF DiskInv
  <2> QED
    BY <1>4, <1>5, <2>1, <2>2 DEF DiskInv, UnmarkedInv, ix
<1> QED
  BY <1>7, <1>8

\* No flush after the fork: what the step changed is dirty.
LEMMA DiskActivateUnflushed ==
  ASSUME DiskInv, NEW mw \in candidates, ActivateTo(mw), Running,
         diskIndex' = ForkDisk(mw), diskTip' = ForkTip(mw),
         dirty' = ForkDirty(mw) \cup {x \in Blocks : index'[x] # FindMostWorkChain_Index[x]}
  PROVE  DiskInv' /\ (UnmarkedInv => UnmarkedInv')
<1>1. TreeInv /\ mw \in MostWork /\ tip' = NewTip(mw)
  BY DEF DiskInv, ActivateTo, ActivateBestChainStep
<1>2. TreeInv' /\ (NoneFailed(index, tip) => NoneFailed(index, tip)')
  BY <1>1, TreeActivateTo
<1>3. /\ Loadable(ForkDisk(mw), ForkTip(mw))
      /\ Agrees(ForkDisk(mw), FindMostWorkChain_Index, ForkDirty(mw))
      /\ ForkDirty(mw) \subseteq Blocks
      /\ ForkTip(mw) \in Ancestors[NewTip(mw)]
      /\ UnmarkedInv => NoneFailed(ForkDisk(mw), ForkTip(mw))
  BY <1>1, ForkLoads
<1>4. Agrees(diskIndex', index', dirty')
  BY <1>3 DEF Agrees
<1>5. ~aborted /\ aborted' = aborted /\ aborted \in BOOLEAN
  BY DEF Running, DiskInv
<1>6. Loadable(diskIndex', diskTip') /\ diskTip' \in Ancestors[tip'] /\ dirty' \subseteq Blocks
  BY <1>1, <1>3
<1>7. DiskInv'
  BY <1>2, <1>4, <1>5, <1>6 DEF DiskInv, StartsAgain
<1>8. UnmarkedInv => UnmarkedInv'
  BY <1>2, <1>3, <1>5 DEF UnmarkedInv, NoneFailed
<1> QED
  BY <1>7, <1>8

\* A flush after f was connected: the blocks up to f are written with it.
LEMMA DiskActivateFlushed ==
  ASSUME DiskInv, NEW mw \in candidates, ActivateTo(mw), Running, NEW f \in Connected(mw),
         diskIndex' = [x \in Blocks |->
            CASE x \in Connected(mw) \cap Ancestors[f] -> index'[x]
              [] x \in ForkDirty(mw) \ (Connected(mw) \cap Ancestors[f]) -> FindMostWorkChain_Index[x]
              [] OTHER -> ForkDisk(mw)[x]],
         diskTip' = f,
         dirty' = {x \in Blocks \ (Connected(mw) \cap Ancestors[f]) :
                     index'[x] # FindMostWorkChain_Index[x]}
  PROVE  DiskInv' /\ (UnmarkedInv => UnmarkedInv')
<1> DEFINE done == Connected(mw) \cap Ancestors[f]
           ix   == FindMostWorkChain_Index
           disk == [x \in Blocks |->
                      CASE x \in done -> index'[x]
                        [] x \in ForkDirty(mw) \ done -> ix[x]
                        [] OTHER -> ForkDisk(mw)[x]]
<1>1. TreeInv /\ mw \in MostWork /\ tip' = NewTip(mw) /\ index' = StepIndex(mw)
  BY DEF DiskInv, ActivateTo, ActivateBestChainStep, StepIndex
<1>2. TreeInv' /\ (NoneFailed(index, tip) => NoneFailed(index, tip)')
  BY <1>1, TreeActivateTo
<1>3. /\ ForkDisk(mw) \in [Blocks -> Entry] /\ ForkDirty(mw) \subseteq Blocks
      /\ Agrees(ForkDisk(mw), ix, ForkDirty(mw))
  BY <1>1, ForkLoads
<1>4. /\ index' \in [Blocks -> Entry]
      /\ \A b \in Blocks : index'[b].data = index[b].data
      /\ \A b \in Connected(mw) : /\ index'[b].data
                                  /\ index'[b].valid = VALID_SCRIPTS
                                  /\ index'[b].failed = {}
  <2>1. /\ StepIndex(mw) \in [Blocks -> Entry]
        /\ \A b \in Blocks : StepIndex(mw)[b].data = index[b].data
        /\ \A b \in Connected(mw) : /\ StepIndex(mw)[b].data
                                    /\ StepIndex(mw)[b].valid = VALID_SCRIPTS
                                    /\ StepIndex(mw)[b].failed = {}
    BY <1>1, StepEntries
  <2> QED
    BY <1>1, <2>1
<1>5. /\ ix \in [Blocks -> Entry]
      /\ \A b \in Blocks : ix[b].valid = index[b].valid /\ ix[b].data = index[b].data
  BY <1>1, FoundIndex
<1>6. \A a \in Ancestors[tip] : ix[a] = index[a]
  BY <1>1, FoundLoads
<1>7. /\ tip \in Blocks /\ mw \in Blocks /\ Connected(mw) \subseteq Blocks
      /\ \A b \in Connected(mw) : b \notin Ancestors[tip]
  BY <1>1, ChainClosed DEF TreeInv, EntriesInv, Connected, PathTo
<1>8. f \in Blocks /\ f \in Ancestors[NewTip(mw)]
  BY <1>7, NewTipOnChain
<1> HIDE DEF ix, done
<1>9. disk \in [Blocks -> Entry]
  BY <1>3, <1>4, <1>5
<1>10. /\ \A x \in done : x \in Blocks => disk[x] = index'[x]
       /\ \A x \in Blocks \ done : /\ disk[x].valid = ix[x].valid /\ disk[x].data = ix[x].data
                                   /\ disk[x].failed \subseteq ix[x].failed
  BY <1>3 DEF Agrees
<1>11. diskIndex' = disk
  BY DEF done, ix
<1> HIDE DEF disk
<1>12. Agrees(diskIndex', index', dirty')
  <2>1. dirty' = {x \in Blocks \ done : index'[x] # ix[x]}
    BY DEF done, ix
  <2> QED
    BY <1>10, <1>11, <2>1 DEF Agrees
<1>13. \A x \in done : x \in Blocks /\ x \in Connected(mw)
  BY <1>7 DEF done
<1>14. EntriesInv(disk, {}, {})
  <2>1. \A b \in Blocks : disk[b].data = index[b].data
    BY <1>4, <1>5, <1>10, <1>13
  <2>2. Known(disk) = Known(index)
    <3>1. \A x \in done : x \in Known(index)
      BY <1>1, <1>4, <1>13 DEF TreeInv, EntriesInv
    <3>2. \A x \in done : x \in Known(disk)
      BY <1>4, <1>10, <1>13 DEF Known, VALID_SCRIPTS, VALID_NONE
    <3> QED
      BY <1>5, <1>10, <3>1, <3>2 DEF Known
  <2> QED
    BY <1>1, <1>9, <2>1, <2>2 DEF TreeInv, EntriesInv
<1>15. ASSUME NEW a \in Ancestors[f]
       PROVE  /\ disk[a].data /\ disk[a].valid = VALID_SCRIPTS
              /\ NoneFailed(index, tip) => disk[a].failed = {}
  <2>1. CASE a \in Ancestors[tip]
    <3>1. a \in Blocks /\ a \notin done
      BY <1>7, <1>13, <2>1, ChainClosed
    <3>2. /\ index[a].data /\ index[a].valid = VALID_SCRIPTS
          /\ NoneFailed(index, tip) => index[a].failed = {}
      BY <1>1, <2>1 DEF TreeInv, ChainConnected, NoneFailed, Failed
    <3>3. disk[a].failed \subseteq index[a].failed
      BY <1>6, <1>10, <2>1, <3>1
    <3> QED
      BY <1>5, <1>10, <3>1, <3>2, <3>3
  <2>2. CASE a \notin Ancestors[tip]
    <3>1. a \in done
      BY <1>7, <2>2, ConnectedClosed DEF done
    <3> QED
      BY <1>4, <1>10, <1>13, <3>1
  <2> QED
    BY <2>1, <2>2
<1>16. Loadable(diskIndex', diskTip')
  BY <1>8, <1>11, <1>14, <1>15 DEF Loadable, ChainConnected
<1>17. UnmarkedInv => NoneFailed(diskIndex', diskTip')
  BY <1>11, <1>15 DEF UnmarkedInv, NoneFailed, Failed
<1>18. ~aborted /\ aborted' = aborted /\ aborted \in BOOLEAN
  BY DEF Running, DiskInv
<1>19. diskTip' \in Ancestors[tip'] /\ dirty' \subseteq Blocks
  BY <1>1, <1>8
<1>20. DiskInv'
  BY <1>2, <1>12, <1>16, <1>18, <1>19 DEF DiskInv, StartsAgain
<1>21. UnmarkedInv => UnmarkedInv'
  BY <1>2, <1>17, <1>18 DEF UnmarkedInv, NoneFailed
<1> QED
  BY <1>20, <1>21

\* A step of ActivateBestChain, flushed or not.
LEMMA DiskActivate ==
  ASSUME DiskInv, ActivateOnDisk
  PROVE  DiskInv' /\ (UnmarkedInv => UnmarkedInv')
<1>1. PICK mw \in candidates : ActivateTo(mw) /\ StepOnDisk(mw) /\ Running
  BY DEF ActivateOnDisk
<1>2. CASE /\ diskIndex' = ForkDisk(mw) /\ diskTip' = ForkTip(mw)
           /\ dirty' = ForkDirty(mw) \cup {x \in Blocks : index'[x] # FindMostWorkChain_Index[x]}
  BY <1>1, <1>2, DiskActivateUnflushed
<1>3. CASE \E f \in Connected(mw) :
             /\ diskIndex' = [x \in Blocks |->
                  CASE x \in Connected(mw) \cap Ancestors[f] -> index'[x]
                    [] x \in ForkDirty(mw) \ (Connected(mw) \cap Ancestors[f]) ->
                         FindMostWorkChain_Index[x]
                    [] OTHER -> ForkDisk(mw)[x]]
             /\ diskTip' = f
             /\ dirty' = {x \in Blocks \ (Connected(mw) \cap Ancestors[f]) :
                            index'[x] # FindMostWorkChain_Index[x]}
  BY <1>1, <1>3, DiskActivateFlushed
<1> QED
  BY <1>1, <1>2, <1>3 DEF StepOnDisk, ForkDisk, ForkDirty, ForkTip

-----------------------------------------------------------------------------
(* The theorems.                                                           *)

\* Every step, crashes included.
LEMMA DiskStep ==
  ASSUME DiskInv, [DiskNext]_<<vars, diskVars>>
  PROVE  /\ DiskInv'
         /\ "crashInvalidate" \notin Operations /\ UnmarkedInv => UnmarkedInv'
<1>1. CASE UNCHANGED <<vars, diskVars>>
  <2>1. /\ UNCHANGED <<index, chainTx, candidates, unlinked, tip>>
        /\ UNCHANGED <<dirty, diskIndex, diskTip, aborted>>
    BY <1>1 DEF vars, diskVars
  <2>2. TreeInv'
    BY <2>1 DEF DiskInv, TreeInv
  <2> QED
    BY <2>1, <2>2 DEF DiskInv, UnmarkedInv, NoneFailed, StartsAgain
<1>2. ASSUME NEW b \in Blocks, CrashDuringInvalidate(b)
      PROVE  DiskInv' /\ "crashInvalidate" \in Operations
  BY <1>2, DiskCrashDuringInvalidate, Zenon DEF CrashDuringInvalidate
<1> QED
  BY <1>1, <1>2, DiskArrival, DiskUntouched, DiskActivate, DiskInvalidate, DiskReconsider,
     DiskRewind, DiskFlush, DiskRestart, Zenon DEF DiskNext

\* For every tree of blocks and every interleaving of arrivals, activation
\* steps, flushes, operator commands and crashes (except inside of
\* invalidateblock): the block tree database never misses a parent, describes
\* the chain of the coins database, and LoadBlockIndexDB does not abort.
THEOREM DiskAlwaysDescribesTip ==
  ASSUME "crashInvalidate" \notin Operations
  PROVE  DiskSpec => []DiskDescribesTip
<1>1. DiskInit => DiskInv /\ UnmarkedInv
  BY DiskInitial
<1>2. DiskInv /\ UnmarkedInv /\ [DiskNext]_<<vars, diskVars>> => DiskInv' /\ UnmarkedInv'
  BY DiskStep
<1>3. DiskInv /\ UnmarkedInv => DiskDescribesTip
  BY DEF DiskInv, UnmarkedInv, Loadable, EntriesInv, ChainConnected, NoneFailed, Failed,
         DiskDescribesTip
<1> QED
  BY <1>1, <1>2, <1>3, PTL DEF DiskSpec

\* Restarts and rewinds included, the active chain stays connected and free of
\* failed blocks.
THEOREM ActiveChainValidAfterRestarts ==
  ASSUME "crashInvalidate" \notin Operations
  PROVE  DiskSpec => []ActiveChainValid
<1>1. DiskInit => DiskInv /\ UnmarkedInv
  BY DiskInitial
<1>2. DiskInv /\ UnmarkedInv /\ [DiskNext]_<<vars, diskVars>> => DiskInv' /\ UnmarkedInv'
  BY DiskStep
<1>3. DiskInv /\ UnmarkedInv => ActiveChainValid
  BY DEF DiskInv, UnmarkedInv, TreeInv, ChainConnected, NoneFailed, ActiveChainValid
<1> QED
  BY <1>1, <1>2, <1>3, PTL DEF DiskSpec

\* With crashes inside of invalidateblock as well: LoadBlockIndexDB aborts only
\* where a block of the coins' chain carries a failure mark on disk.
THEOREM AlwaysStartsAgain == DiskSpec => []StartsAgain
<1>1. DiskInit => DiskInv
  BY DiskInitial
<1>2. DiskInv /\ [DiskNext]_<<vars, diskVars>> => DiskInv'
  BY DiskStep
<1>3. DiskInv => StartsAgain
  BY DEF DiskInv
<1> QED
  BY <1>1, <1>2, <1>3, PTL DEF DiskSpec
-----------------------------------------------------------------------------
(* The entries stay consistent.                                            *)

IndexInv == DiskInv /\ Levels(index) /\ LinksInv /\ Levels(diskIndex)

\* At the beginning.
LEMMA IndexInitial == DiskInit => IndexInv
  BY LinksInit, DiskInitial DEF DiskInit, IndexInv

-----------------------------------------------------------------------------
(* On disk.                                                                *)

\* A start from consistent levels.
LEMMA IndexLoad ==
  ASSUME NEW ix, NEW t, Levels(ix), LoadBlockIndexDB(ix, t)
  PROVE  Levels(index') /\ LinksInv' /\ Levels(diskIndex')
<1> DEFINE linked == {b \in Blocks : \A a \in Ancestors[b] : ix[a].data}
<1>1. /\ index' = ix /\ diskIndex' = ix /\ chainTx' = linked /\ unlinked' = Waiting(ix, linked)
      /\ nSequenceId' = [b \in Blocks |-> 0]
  BY DEF LoadBlockIndexDB
<1>2. ASSUME NEW b \in Blocks \ {Genesis}, ix[b].data, b \notin linked
      PROVE  <<Parent[b], b>> \in Waiting(ix, linked)
  <2>1. Parent[b] \in Blocks /\ Ancestors[b] = {b} \cup Ancestors[Parent[b]]
    BY ChainStep
  <2>2. Parent[b] \notin linked
    BY <1>2, <2>1
  <2> QED
    BY <1>2, <2>2 DEF Waiting
<1>3. \A b \in Blocks : (\A a \in Ancestors[b] : ix[a].data) => b \in linked
  OBVIOUS
<1> HIDE DEF linked
<1> QED
  BY <1>1, <1>2, <1>3 DEF LinksInv

\* Once nothing is dirty the levels on disk are those in memory.
LEMMA IndexWritten ==
  ASSUME DiskInv', dirty' = {}, Levels(index')
  PROVE  Levels(diskIndex')
<1>1. \A b \in Blocks : diskIndex'[b].valid = index'[b].valid /\ diskIndex'[b].data = index'[b].data
  BY DEF DiskInv, Agrees
<1> QED
  BY <1>1, LevelsSame

\* What is written during an operation has the levels of what is in memory.
LEMMA WrittenLevels ==
  ASSUME IndexInv, NEW ix \in [Blocks -> Entry], NEW S, Agrees(index, ix, S),
         \A b \in Blocks : ix[b].valid = index[b].valid /\ ix[b].data = index[b].data
  PROVE  Levels(ix) /\ Levels(Written(ix, dirty \cup S))
<1>1. Agrees(diskIndex, ix, dirty \cup S)
  BY AgreesTransitive DEF IndexInv, DiskInv
<1>2. diskIndex \in [Blocks -> Entry]
  BY DEF IndexInv, DiskInv, Loadable, EntriesInv
<1>3. Agrees(Written(ix, dirty \cup S), ix, {})
  BY <1>1, <1>2, WrittenAgrees
<1>4. Levels(ix)
  BY LevelsSame DEF IndexInv
<1> DEFINE disk == Written(ix, dirty \cup S)
<1>5. \A b \in Blocks : disk[b].valid = ix[b].valid /\ disk[b].data = ix[b].data
  BY <1>3, Zenon DEF Agrees
<1> HIDE DEF disk
<1>6. Levels(disk)
  BY <1>4, <1>5, LevelsSame
<1> QED
  BY <1>4, <1>6 DEF disk

\* The same for the entries as they are.
LEMMA WrittenNow ==
  ASSUME IndexInv, NEW ix \in [Blocks -> Entry],
         \A b \in Blocks : ix[b].valid = index[b].valid /\ ix[b].data = index[b].data,
         \A b \in Blocks : index[b].failed \subseteq ix[b].failed
  PROVE  Levels(Written(ix, dirty))
<1>1. Agrees(index, ix, {})
  BY DEF Agrees
<1>2. Levels(Written(ix, dirty \cup {}))
  BY <1>1, WrittenLevels
<1>3. dirty \cup {} = dirty
  OBVIOUS
<1> QED
  BY <1>2, <1>3

\* Restart and CrashDuringReorg.
LEMMA IndexRestart ==
  ASSUME IndexInv, Restart \/ CrashDuringReorg
  PROVE  Levels(index') /\ LinksInv' /\ Levels(diskIndex')
<1>1. CASE Restart
  BY <1>1, IndexLoad DEF Restart, IndexInv
<1>2. CASE CrashDuringReorg
  <2> DEFINE ix == FindMostWorkChain_Index
  <2>1. \E t : LoadBlockIndexDB(Written(ix, dirty), t)
    BY <1>2 DEF CrashDuringReorg
  <2>2. /\ ix \in [Blocks -> Entry]
        /\ \A b \in Blocks : ix[b].valid = index[b].valid /\ ix[b].data = index[b].data
        /\ \A b \in Blocks : index[b].failed \subseteq ix[b].failed
    BY FoundIndex DEF IndexInv, DiskInv
  <2> HIDE DEF ix
  <2>3. Levels(Written(ix, dirty))
    BY <2>2, WrittenNow
  <2> QED
    BY <2>1, <2>3, IndexLoad
<1> QED
  BY <1>1, <1>2

\* CrashDuringInvalidate.
LEMMA IndexCrashDuringInvalidate ==
  ASSUME IndexInv, NEW b \in Blocks, CrashDuringInvalidate(b)
  PROVE  Levels(index') /\ LinksInv' /\ Levels(diskIndex')
<1>1. PICK marked : \E t : LoadBlockIndexDB(Written(InvalidatedIndex(b, marked),
                                                    dirty \cup {b} \cup marked), t)
  BY DEF CrashDuringInvalidate, InvalidatedIndex
<1> DEFINE iy == InvalidatedIndex(b, marked)
           S  == {b} \cup marked
<1>2. /\ iy \in [Blocks -> Entry] /\ Agrees(index, iy, S)
      /\ \A x \in Blocks : iy[x].valid = index[x].valid /\ iy[x].data = index[x].data
  BY InvalidatedEntries DEF IndexInv, DiskInv, Agrees
<1>3. dirty \cup {b} \cup marked = dirty \cup S
  OBVIOUS
<1>4. PICK t : LoadBlockIndexDB(Written(iy, dirty \cup S), t)
  BY <1>1, <1>3
<1> HIDE DEF iy, S
<1>5. Levels(Written(iy, dirty \cup S))
  BY <1>2, WrittenLevels
<1> QED
  BY <1>4, <1>5, IndexLoad

\* ActivateBestChain, wherever it flushes.
LEMMA IndexActivate ==
  ASSUME IndexInv, ActivateOnDisk
  PROVE  Levels(index') /\ LinksInv' /\ Levels(diskIndex')
<1>1. PICK mw \in candidates : ActivateTo(mw) /\ StepOnDisk(mw)
  BY DEF ActivateOnDisk
<1>2. /\ DiskInv /\ TreeInv /\ Levels(index) /\ LinksInv /\ Levels(diskIndex)
      /\ mw \in MostWork /\ mw \in Blocks /\ tip \in Blocks
  BY <1>1 DEF IndexInv, DiskInv, TreeInv, EntriesInv, ActivateTo
<1>3. Levels(index') /\ LinksInv'
  BY <1>1, <1>2, IndexActivateTo
<1> DEFINE ix == FindMostWorkChain_Index
<1>4. /\ ix \in [Blocks -> Entry]
      /\ \A b \in Blocks : ix[b].valid = index[b].valid /\ ix[b].data = index[b].data
      /\ \A b \in Blocks : index[b].failed \subseteq ix[b].failed
  BY <1>2, FoundIndex
<1>5. Levels(Written(ix, dirty))
  <2> HIDE DEF ix
  <2> QED
    BY <1>4, WrittenNow
<1>6. Levels(ForkDisk(mw))
  BY <1>2, <1>5 DEF ForkDisk
<1>7. CASE diskIndex' = ForkDisk(mw)
  BY <1>3, <1>6, <1>7
<1>8. ASSUME NEW f \in Connected(mw),
             diskIndex' = [x \in Blocks |->
               CASE x \in Connected(mw) \cap Ancestors[f] -> index'[x]
                 [] x \in ForkDirty(mw) \ (Connected(mw) \cap Ancestors[f]) -> ix[x]
                 [] OTHER -> ForkDisk(mw)[x]]
      PROVE  Levels(diskIndex')
  <2> DEFINE done == Connected(mw) \cap Ancestors[f]
  <2>1. index' = StepIndex(mw)
    BY <1>1 DEF ActivateTo, ActivateBestChainStep, StepIndex
  <2>2. \A b \in Connected(mw) : StepIndex(mw)[b].data /\ StepIndex(mw)[b].valid = VALID_SCRIPTS
    BY <1>2, StepEntries
  <2>3. Agrees(ForkDisk(mw), ix, ForkDirty(mw))
    BY <1>2, ForkLoads
  <2>4. Connected(mw) \in SUBSET Blocks
    BY <1>2, ChainClosed DEF Connected, PathTo
  <2>5. done \in SUBSET Blocks
    BY <2>4
  <2>6. \A x \in done : \A a \in Ancestors[x] : a \in Ancestors[tip] \/ a \in done
    BY <1>2, <1>8, <2>4, ConnectedClosed, ChainTransitive
  <2> HIDE DEF ix, done
  <2>7. diskIndex' = [x \in Blocks |-> CASE x \in done -> index'[x]
                                         [] x \in ForkDirty(mw) \ done -> ix[x]
                                         [] OTHER -> ForkDisk(mw)[x]]
    BY <1>8 DEF ix, done
  <2>8. \A x \in done : x \in Connected(mw)
    BY DEF done
  <2>9. \A x \in done : diskIndex'[x] = index'[x]
    BY <2>5, <2>7
  <2>10. \A x \in done : diskIndex'[x].data /\ diskIndex'[x].valid = VALID_SCRIPTS
    BY <2>1, <2>2, <2>8, <2>9
  <2>11. \A x \in Blocks \ done : diskIndex'[x] = ix[x] \/ (x \notin ForkDirty(mw) /\ diskIndex'[x] = ForkDisk(mw)[x])
    BY <2>7
  <2>12. \A x \in Blocks \ done : diskIndex'[x].valid = index[x].valid /\ diskIndex'[x].data = index[x].data
    BY <1>4, <2>3, <2>11 DEF Agrees
  <2> DEFINE iz == diskIndex'
  <2> HIDE DEF iz
  <2>13. Levels(iz)
    BY <1>2, <2>5, <2>6, <2>10, <2>12, LevelsConnected, Zenon DEF iz
  <2> QED
    BY <2>13 DEF iz
<1> QED
  BY <1>1, <1>3, <1>7, <1>8 DEF StepOnDisk, ForkDisk, ForkDirty

-----------------------------------------------------------------------------
(* The theorem.                                                            *)

\* Steps that write nothing.
LEMMA IndexTouched ==
  ASSUME IndexInv, NEW b \in Blocks, NEW S, Touch(S),
         \/ AcceptBlockHeader(b) \/ AcceptBlock(b) \/ RejectBlock(b) \/ DuplicateBlock(b)
         \/ ActivateDone \/ ReconsiderBlock(b)
  PROVE  Levels(index') /\ LinksInv' /\ Levels(diskIndex')
<1>1. TreeInv /\ Levels(index) /\ LinksInv /\ Levels(diskIndex) /\ diskIndex' = diskIndex
  BY DEF IndexInv, DiskInv, Touch
<1>2. Next
  BY DEF Next
<1> QED
  BY <1>1, <1>2, LinksNext

\* invalidateblock.
LEMMA IndexInvalidate ==
  ASSUME IndexInv, DiskInv', NEW b \in Blocks, InvalidateOnDisk(b)
  PROVE  Levels(index') /\ LinksInv' /\ Levels(diskIndex')
<1>1. TreeInv /\ Levels(index) /\ LinksInv /\ Levels(diskIndex) /\ Next
  BY DEF IndexInv, DiskInv, InvalidateOnDisk, Next
<1>2. Levels(index') /\ LinksInv'
  BY <1>1, LinksNext
<1>3. diskIndex' = diskIndex \/ dirty' = {}
  BY DEF InvalidateOnDisk, Touch
<1> QED
  BY <1>1, <1>2, <1>3, IndexWritten

\* FlushStateToDisk and rewindblockindex.
LEMMA IndexFlush ==
  ASSUME IndexInv, DiskInv', FlushIndex \/ FlushAll \/ \E t \in Blocks : RewindOnDisk(t)
  PROVE  Levels(index') /\ LinksInv' /\ Levels(diskIndex')
<1>1. TreeInv /\ Levels(index) /\ LinksInv
  BY DEF IndexInv, DiskInv
<1>2. CASE FlushIndex \/ FlushAll
  <2>1. UNCHANGED <<index, chainTx, unlinked, nSequenceId>> /\ dirty' = {}
    BY <1>2 DEF FlushIndex, FlushAll, vars
  <2>2. Levels(index') /\ LinksInv'
    BY <1>1, <2>1, IndexMarks
  <2> QED
    BY <2>1, <2>2, IndexWritten
<1>3. CASE \E t \in Blocks : RewindOnDisk(t)
  <2>1. Levels(index') /\ LinksInv' /\ dirty' = {}
    BY <1>1, <1>3, IndexRewind DEF RewindOnDisk
  <2> QED
    BY <2>1, IndexWritten
<1> QED
  BY <1>2, <1>3

\* Every step.
LEMMA IndexStep ==
  ASSUME IndexInv, [DiskNext]_<<vars, diskVars>>
  PROVE  IndexInv'
<1>1. DiskInv'
  BY DiskStep DEF IndexInv
<1>2. CASE UNCHANGED <<vars, diskVars>>
  <2>1. UNCHANGED <<index, chainTx, unlinked, nSequenceId, diskIndex>>
    BY <1>2 DEF vars, diskVars
  <2> QED
    BY <1>1, <2>1 DEF IndexInv, LinksInv
<1>3. ASSUME DiskNext
      PROVE  Levels(index') /\ LinksInv' /\ Levels(diskIndex')
  <2>1. ASSUME ActivateDone /\ Touch({})
        PROVE  Levels(index') /\ LinksInv' /\ Levels(diskIndex')
    BY <2>1, IndexTouched, ChainsAssumption
  <2>2. ASSUME NEW b \in Blocks, ReconsiderOnDisk(b)
        PROVE  Levels(index') /\ LinksInv' /\ Levels(diskIndex')
    BY <2>2, IndexTouched DEF ReconsiderOnDisk
  <2> QED
    BY <1>1, <1>3, <2>1, <2>2, IndexTouched, IndexActivate, IndexInvalidate, IndexFlush,
       IndexRestart, IndexCrashDuringInvalidate, Zenon DEF DiskNext
<1> QED
  BY <1>1, <1>2, <1>3 DEF IndexInv

\* For every tree of blocks, with all operator commands, flushes at any block,
\* crashes and restarts, crashes inside of invalidateblock and of a
\* reorganisation included: the entries of mapBlockIndex, nChainTx and the
\* sequence ids agree as CheckBlockIndex asserts.
THEOREM IndexAlwaysConsistent == DiskSpec => []IndexConsistent
<1>1. DiskInit => IndexInv
  BY IndexInitial
<1>2. IndexInv /\ [DiskNext]_<<vars, diskVars>> => IndexInv'
  BY IndexStep
<1>3. IndexInv => IndexConsistent
  BY LinksConsistent DEF IndexInv, DiskInv
<1> QED
  BY <1>1, <1>2, <1>3, PTL DEF DiskSpec

-----------------------------------------------------------------------------
(* The best chain, after restarts.                                         *)

StartInv == IndexInv /\ UnmarkedInv /\ SelectInv /\ ScriptsPass(diskIndex)

\* The invariants in memory.
LEMMA StartLinked == IndexInv /\ UnmarkedInv => LinkedInv
  BY DEF IndexInv, DiskInv, UnmarkedInv, LinkedInv

\* What is written comes from the entries in memory, before or after the step.
LEMMA ScriptsWritten ==
  ASSUME ScriptsPass(index), ScriptsPass(index)', ScriptsPass(diskIndex), verdict' = verdict,
         \A b \in Blocks :
           diskIndex'[b].valid \in {diskIndex[b].valid, index[b].valid, index'[b].valid, VALID_NONE}
  PROVE  ScriptsPass(diskIndex)'
  BY LevelsDiffer DEF ScriptsPass

\* A start: the tip is the benchmark.
LEMMA SelectLoad ==
  ASSUME NEW ix, NEW t, Loadable(ix, t), Levels(ix), NoneFailed(ix, t), ScriptsPass(ix),
         LoadBlockIndexDB(ix, t)
  PROVE  SelectInv' /\ ScriptsPass(diskIndex)' /\ SetsInv'
<1> DEFINE linked == {b \in Blocks : \A a \in Ancestors[b] : ix[a].data}
           zeroIds == [b \in Blocks |-> 0]
<1>1. /\ index' = ix /\ chainTx' = linked /\ unlinked' = Waiting(ix, linked)
      /\ candidates' = Pruned(Loaded(ix, linked), t, zeroIds, address')
      /\ tip' = t /\ diskIndex' = ix /\ nSequenceId' = zeroIds /\ nBlockSequenceId' = 1
      /\ pending' = TRUE /\ address' \in Addresses /\ verdict' = verdict
  BY DEF LoadBlockIndexDB
<1>2. /\ ix \in [Blocks -> Entry] /\ t \in Blocks /\ ChainConnected(ix, t)
  BY DEF Loadable, EntriesInv
<1>3. zeroIds \in [Blocks -> Nat]
  OBVIOUS
<1>4. OrderInv' /\ ScriptsPass(index)' /\ ScriptsPass(diskIndex)' /\ BestChainActive'
  BY <1>1, <1>3 DEF OrderInv, ScriptsPass, BestChainActive
<1>5. Ancestors[t] \subseteq Blocks /\ t \in linked
  BY <1>2, ChainClosed DEF ChainConnected
<1>6. \A a \in Ancestors[t] : verdict[a] # "connect" /\ ~Failed(ix, a)
  BY <1>2, <1>5 DEF ChainConnected, ScriptsPass, NoneFailed
<1>7. \A b \in linked : b \in Blocks /\ ix[b].data
  BY ChainClosed
<1>8. \A b \in Blocks : <<Parent[b], b>> \in Waiting(ix, linked) => b \notin linked
  BY DEF Waiting
<1> HIDE DEF linked, zeroIds
<1>9. \A b \in linked : ~Failed(ix, b) => b \in Loaded(ix, linked)
  BY <1>2, <1>7, LinkedValid DEF Loaded
<1>10. ~Worse(t, t, zeroIds, address')
  BY <1>1, <1>2, <1>3, WorseOrder
<1>11. t \in candidates' /\ \A b \in linked \ candidates' : ~Failed(ix, b) => Worse(b, t, zeroIds, address')
  BY <1>1, <1>2, <1>5, <1>6, <1>9, <1>10, ChainClosed DEF Pruned
<1>12. Sound(tip)'
  BY <1>1, <1>6 DEF Sound, NoneFailed
<1>13. Benchmark(tip)'
  BY <1>1, <1>11, <1>12 DEF Benchmark, Before
<1>14. SetsInv'
  BY <1>1, <1>8 DEF SetsInv, Before, Pruned
<1> QED
  BY <1>1, <1>2, <1>4, <1>13, <1>14 DEF SelectInv

\* Restart and CrashDuringReorg.
LEMMA SelectRestart ==
  ASSUME StartInv, Restart \/ CrashDuringReorg
  PROVE  SelectInv' /\ ScriptsPass(diskIndex)'
<1>1. CASE Restart
  BY <1>1, SelectLoad DEF Restart, StartInv, IndexInv, DiskInv, UnmarkedInv
<1>2. CASE CrashDuringReorg
  <2> DEFINE ix   == FindMostWorkChain_Index
             disk == Written(ix, dirty)
  <2>1. PICK t : LoadBlockIndexDB(disk, t) /\ Loadable(disk, t) /\ NoneFailed(disk, t)
    BY <1>2, ReorgLoads DEF StartInv, IndexInv, UnmarkedInv
  <2>2. /\ ix \in [Blocks -> Entry]
        /\ \A b \in Blocks : ix[b].valid = index[b].valid /\ ix[b].data = index[b].data
        /\ \A b \in Blocks : index[b].failed \subseteq ix[b].failed
    BY FoundIndex DEF StartInv, IndexInv, DiskInv
  <2> HIDE DEF ix
  <2>3. Levels(disk)
    BY <2>2, WrittenNow DEF StartInv
  <2>4. ScriptsPass(disk)
    BY <2>2 DEF StartInv, SelectInv, ScriptsPass, Written
  <2> HIDE DEF disk
  <2> QED
    BY <2>1, <2>3, <2>4, SelectLoad
<1> QED
  BY <1>1, <1>2

\* Where the validity levels come from that ActivateBestChain writes.
LEMMA StepLevels ==
  ASSUME TreeInv, ActivateOnDisk, NEW b \in Blocks
  PROVE  diskIndex'[b].valid \in {diskIndex[b].valid, index[b].valid, index'[b].valid, VALID_NONE}
<1>1. PICK mw \in candidates : ActivateTo(mw) /\ StepOnDisk(mw)
  BY DEF ActivateOnDisk
<1> DEFINE ix == FindMostWorkChain_Index
<1>2. ix[b].valid = index[b].valid
  BY FoundIndex
<1> HIDE DEF ix
<1>3. ForkDisk(mw)[b].valid \in {diskIndex[b].valid, index[b].valid}
  BY <1>2 DEF ForkDisk, Written, ix
<1>4. CASE diskIndex' = ForkDisk(mw)
  BY <1>3, <1>4
<1>5. CASE \E f \in Connected(mw) :
             LET done == Connected(mw) \cap Ancestors[f] IN
             diskIndex' = [x \in Blocks |-> CASE x \in done -> index'[x]
                                              [] x \in ForkDirty(mw) \ done -> ix[x]
                                              [] OTHER -> ForkDisk(mw)[x]]
  <2>1. diskIndex'[b] \in {index'[b], ix[b], ForkDisk(mw)[b]}
    BY <1>5
  <2> QED
    BY <1>2, <1>3, <2>1
<1>6. \/ diskIndex' = ForkDisk(mw)
      \/ \E f \in Connected(mw) :
           LET done == Connected(mw) \cap Ancestors[f] IN
           diskIndex' = [x \in Blocks |-> CASE x \in done -> index'[x]
                                            [] x \in ForkDirty(mw) \ done -> ix[x]
                                            [] OTHER -> ForkDisk(mw)[x]]
  BY <1>1 DEF StepOnDisk, ForkDisk, ForkDirty, ix
<1> QED
  BY <1>4, <1>5, <1>6

\* Every step.
LEMMA StartStep ==
  ASSUME Operations \cap {"crashInvalidate", "reconsiderAny"} = {},
         StartInv, [DiskNext]_<<vars, diskVars>>
  PROVE  StartInv'
<1>1. /\ IndexInv /\ UnmarkedInv /\ DiskInv /\ TreeInv /\ LinkedInv /\ SelectInv
      /\ ScriptsPass(index) /\ ScriptsPass(diskIndex)
  BY StartLinked DEF StartInv, IndexInv, DiskInv, SelectInv
<1>2. IndexInv' /\ UnmarkedInv'
  BY <1>1, IndexStep, DiskStep
<1>3. ASSUME Next \/ UNCHANGED vars PROVE SelectInv' /\ ScriptsPass(index)' /\ verdict' = verdict
  <2>1. SelectInv'
    BY <1>1, <1>3, SelectNext
  <2>2. verdict' = verdict
    BY <1>3, Zenon DEF vars, Next, AcceptBlockHeader, AcceptBlock, RejectBlock, DuplicateBlock, ActivateDone,
                Activate, ActivateTo, InvalidateBlock, ReconsiderBlock
  <2> QED
    BY <2>1, <2>2 DEF SelectInv
<1>4. ASSUME Next \/ UNCHANGED vars, diskIndex' = diskIndex PROVE SelectInv' /\ ScriptsPass(diskIndex)'
  BY <1>1, <1>3, <1>4 DEF ScriptsPass
<1>5. CASE UNCHANGED <<vars, diskVars>>
  BY <1>2, <1>4, <1>5 DEF diskVars, StartInv
<1>6. ASSUME NEW b \in Blocks, AcceptBlockHeader(b) \/ AcceptBlock(b) \/ RejectBlock(b), Touch({b})
      PROVE  SelectInv' /\ ScriptsPass(diskIndex)'
  BY <1>4, <1>6 DEF Next, Touch
<1>7. ASSUME NEW b \in Blocks, DuplicateBlock(b), Touch({})
       PROVE  SelectInv' /\ ScriptsPass(diskIndex)'
  BY <1>4, <1>7 DEF Next, Touch
<1>8. ASSUME NEW b \in Blocks, ReconsiderOnDisk(b)
       PROVE  SelectInv' /\ ScriptsPass(diskIndex)'
  BY <1>4, <1>8 DEF Next, Touch, ReconsiderOnDisk
<1>9. ASSUME ActivateDone /\ Touch({}) PROVE SelectInv' /\ ScriptsPass(diskIndex)'
  BY <1>4, <1>9 DEF Next, Touch
<1>10. ASSUME ActivateOnDisk PROVE SelectInv' /\ ScriptsPass(diskIndex)'
  <2>1. Next
    BY <1>10 DEF Next, Activate, ActivateOnDisk
  <2> QED
    BY <1>1, <1>3, <1>10, <2>1, StepLevels, ScriptsWritten
<1>11. ASSUME NEW b \in Blocks, InvalidateOnDisk(b) PROVE SelectInv' /\ ScriptsPass(diskIndex)'
  <2>1. Next
    BY <1>11 DEF Next, InvalidateOnDisk
  <2>2. diskIndex' = diskIndex \/ diskIndex' = Written(index', dirty \cup {b} \cup Undone(b))
    BY <1>11 DEF InvalidateOnDisk, Touch
  <2>3. \A x \in Blocks : diskIndex'[x].valid \in {diskIndex[x].valid, index'[x].valid}
    BY <2>2 DEF Written
  <2> QED
    BY <1>1, <1>3, <2>1, <2>3, ScriptsWritten
<1>12. ASSUME NEW t \in Blocks, RewindOnDisk(t) PROVE SelectInv' /\ ScriptsPass(diskIndex)'
  <2>1. RewindBlockIndex(t) /\ verdict' = verdict
    BY <1>12 DEF RewindOnDisk, RewindBlockIndex
  <2>2. SelectInv' /\ ScriptsPass(index)'
    BY <1>1, <2>1, SelectRewind DEF SelectInv
  <2>3. \A x \in Blocks : diskIndex'[x].valid \in {diskIndex[x].valid, index[x].valid, VALID_NONE}
    BY <1>12 DEF RewindOnDisk, Written, NoEntry
  <2> QED
    BY <1>1, <2>1, <2>2, <2>3, ScriptsWritten
<1>13. ASSUME FlushIndex \/ FlushAll PROVE SelectInv' /\ ScriptsPass(diskIndex)'
  <2>1. UNCHANGED vars /\ diskIndex' = Written(index, dirty)
    BY <1>13 DEF FlushIndex, FlushAll
  <2>2. \A x \in Blocks : diskIndex'[x].valid \in {diskIndex[x].valid, index[x].valid}
    BY <2>1 DEF Written
  <2> QED
    BY <1>1, <1>3, <2>1, <2>2, ScriptsWritten
<1>14. ASSUME Restart \/ CrashDuringReorg PROVE SelectInv' /\ ScriptsPass(diskIndex)'
  BY <1>14, SelectRestart
<1>15. ASSUME NEW b \in Blocks, CrashDuringInvalidate(b) PROVE FALSE
  BY <1>15 DEF CrashDuringInvalidate
<1>16. ASSUME DiskNext PROVE SelectInv' /\ ScriptsPass(diskIndex)'
  BY <1>6, <1>7, <1>8, <1>9, <1>10, <1>11, <1>12, <1>13, <1>14, <1>15, <1>16, Zenon DEF DiskNext
<1> QED
  BY <1>2, <1>5, <1>16 DEF StartInv

\* At the beginning.
LEMMA StartInitial == DiskInit => StartInv
  BY IndexInitial, DiskInitial, SelectInit DEF DiskInit, StartInv, SelectInv, ScriptsPass

\* With flushes at any block, restarts, crashes while the chain is reorganised
\* and rewinds, but none inside of invalidateblock: whenever ActivateBestChain
\* has returned, no complete chain without a failed block beats the tip.
THEOREM BestChainActiveAfterRestarts ==
  ASSUME Operations \cap {"crashInvalidate", "reconsiderAny"} = {}
  PROVE  DiskSpec => []BestChainActive
<1>1. DiskInit => StartInv
  BY StartInitial
<1>2. StartInv /\ [DiskNext]_<<vars, diskVars>> => StartInv'
  BY StartStep
<1>3. StartInv => BestChainActive
  BY DEF StartInv, SelectInv
<1> QED
  BY <1>1, <1>2, <1>3, PTL DEF DiskSpec

-----------------------------------------------------------------------------
(* CheckBlockIndex, after restarts.                                        *)

\* disk has every block that failed itself in ix, except D.
Blames(disk, ix, D) ==
  \A b \in Blocks \ D : "FAILED_VALID" \in ix[b].failed => "FAILED_VALID" \in disk[b].failed

CheckedInv ==
  StartInv /\ CheckInv /\ MarksInv(diskIndex) /\ Blames(diskIndex, index, dirty)

\* Fewer marks on disk, but none missing on a block that failed itself.
LEMMA MarksOnDisk ==
  ASSUME NEW ix, NEW disk, MarksInv(ix), Known(ix) \subseteq Known(disk),
         \A b \in Blocks : disk[b].failed \subseteq ix[b].failed, Blames(disk, ix, {})
  PROVE  MarksInv(disk)
<1> SUFFICES ASSUME NEW b \in Blocks, Failed(disk, b)
             PROVE  b \in Known(disk) /\ \E a \in Ancestors[b] : "FAILED_VALID" \in disk[a].failed
  BY DEF MarksInv
<1>1. Failed(ix, b)
  BY DEF Failed
<1>2. b \in Known(ix)
  BY <1>1 DEF MarksInv
<1>3. PICK a \in Ancestors[b] : "FAILED_VALID" \in ix[a].failed
  BY <1>1 DEF MarksInv
<1>4. a \in Blocks
  BY ChainClosed
<1> QED
  BY <1>2, <1>3, <1>4 DEF Blames

\* WriteBatchSync of the dirty entries.
LEMMA WrittenMarks ==
  ASSUME NEW ix \in [Blocks -> Entry], NEW D, diskIndex \in [Blocks -> Entry],
         Agrees(diskIndex, ix, D), Blames(diskIndex, ix, D), MarksInv(ix)
  PROVE  MarksInv(Written(ix, D)) /\ Blames(Written(ix, D), ix, {})
<1> DEFINE disk == Written(ix, D)
<1>1. Agrees(disk, ix, {})
  BY WrittenAgrees
<1>2. Blames(disk, ix, {})
  BY DEF Blames, Written
<1> HIDE DEF disk
<1>3. Known(disk) = Known(ix) /\ \A b \in Blocks : disk[b].failed \subseteq ix[b].failed
  BY <1>1 DEF Agrees, Known
<1>4. MarksInv(disk)
  BY <1>2, <1>3, MarksOnDisk
<1> QED
  BY <1>2, <1>4 DEF disk

\* FindMostWorkChain blames no block.
LEMMA FoundBlames ==
  ASSUME DiskInv, MarksInv(index), Blames(diskIndex, index, dirty)
  PROVE  LET ix == FindMostWorkChain_Index IN
         /\ \A b \in Blocks : "FAILED_VALID" \in ix[b].failed => "FAILED_VALID" \in index[b].failed
         /\ Blames(diskIndex, ix, dirty) /\ MarksInv(ix)
         /\ MarksInv(Written(ix, dirty)) /\ Blames(Written(ix, dirty), ix, {})
<1> DEFINE ix == FindMostWorkChain_Index
<1>1. TreeInv /\ index \in [Blocks -> Entry] /\ diskIndex \in [Blocks -> Entry]
  BY DEF DiskInv, Loadable, TreeInv, EntriesInv
<1>2. /\ ix \in [Blocks -> Entry] /\ Agrees(index, ix, {}) /\ MarksInv(ix)
  BY <1>1, FoundIndex, MarksFound DEF Agrees
<1>3. \A b \in Blocks : "FAILED_VALID" \in ix[b].failed => "FAILED_VALID" \in index[b].failed
  BY <1>1 DEF FindMostWorkChain_Index, MarkFailed, Entry
<1> HIDE DEF ix
<1>4. Blames(diskIndex, ix, dirty)
  BY <1>3 DEF Blames
<1>5. Agrees(diskIndex, ix, dirty \cup {})
  BY <1>2, AgreesTransitive DEF DiskInv
<1>6. dirty \cup {} = dirty
  OBVIOUS
<1> QED
  BY <1>1, <1>2, <1>3, <1>4, <1>5, <1>6, WrittenMarks DEF ix

\* A step that only records entries as dirty.
LEMMA MarksTouched ==
  ASSUME Blames(diskIndex, index, dirty), MarksInv(diskIndex), NEW S, Touch(S),
         \A x \in Blocks \ S :
           "FAILED_VALID" \in index'[x].failed => "FAILED_VALID" \in index[x].failed
  PROVE  MarksInv(diskIndex)' /\ Blames(diskIndex, index, dirty)'
<1>1. diskIndex' = diskIndex /\ dirty' = dirty \cup S
  BY DEF Touch
<1> QED
  BY <1>1 DEF MarksInv, Known, Failed, Blames

\* ActivateBestChain's step.
LEMMA MarksActivate ==
  ASSUME CheckedInv, ActivateOnDisk
  PROVE  MarksInv(diskIndex)' /\ Blames(diskIndex, index, dirty)'
<1>1. PICK mw \in candidates : ActivateTo(mw) /\ StepOnDisk(mw)
  BY DEF ActivateOnDisk
<1>2. DiskInv /\ TreeInv /\ mw \in MostWork /\ mw \in Blocks
  <2>1. DiskInv /\ TreeInv /\ candidates \subseteq Blocks
    BY DEF CheckedInv, StartInv, IndexInv, DiskInv, TreeInv, EntriesInv
  <2> QED
    BY <1>1, <2>1 DEF ActivateTo
<1> DEFINE ix   == FindMostWorkChain_Index
           disk == ForkDisk(mw)
           left == ForkDirty(mw)
<1>3. MarksInv(ix) /\ MarksInv(disk) /\ Blames(disk, ix, left)
  BY <1>2, FoundBlames DEF CheckedInv, CheckInv, ForkDisk, ForkDirty
<1>4. /\ Agrees(disk, ix, left) /\ disk \in [Blocks -> Entry] /\ ix \in [Blocks -> Entry]
  BY <1>2, ForkLoads, FoundIndex
<1>5. \A x \in Connected(mw) : index'[x].failed = ix[x].failed /\ index'[x].valid = VALID_SCRIPTS
  <2>1. index' = StepIndex(mw)
    BY <1>1 DEF ActivateTo, ActivateBestChainStep, StepIndex
  <2>2. \A x \in Connected(mw) : x \in Blocks \ Refused(mw)
    BY <1>2, ChainClosed DEF Connected, PathTo
  <2> QED
    BY <1>2, <2>1, <2>2, StepMarks, StepEntries
<1>6. \/ /\ diskIndex' = disk
         /\ dirty' = left \cup {x \in Blocks : index'[x] # ix[x]}
      \/ \E f \in Connected(mw) :
           LET done == Connected(mw) \cap Ancestors[f] IN
           /\ diskIndex' = [x \in Blocks |-> CASE x \in done -> index'[x]
                                               [] x \in left \ done -> ix[x]
                                               [] OTHER -> disk[x]]
           /\ dirty' = {x \in Blocks \ done : index'[x] # ix[x]}
  BY <1>1 DEF StepOnDisk, ForkDisk, ForkDirty
<1> HIDE DEF ix, disk, left
<1>7. CASE diskIndex' = disk /\ dirty' = left \cup {x \in Blocks : index'[x] # ix[x]}
  <2>1. Blames(diskIndex, index, dirty)'
    BY <1>3, <1>7 DEF Blames
  <2> QED
    BY <1>3, <1>7, <2>1 DEF MarksInv, Known, Failed
<1>8. CASE \E f \in Connected(mw) :
             LET done == Connected(mw) \cap Ancestors[f] IN
             /\ diskIndex' = [x \in Blocks |-> CASE x \in done -> index'[x]
                                                 [] x \in left \ done -> ix[x]
                                                 [] OTHER -> disk[x]]
             /\ dirty' = {x \in Blocks \ done : index'[x] # ix[x]}
  <2>1. PICK f \in Connected(mw) :
             LET done == Connected(mw) \cap Ancestors[f] IN
             /\ diskIndex' = [x \in Blocks |-> CASE x \in done -> index'[x]
                                                 [] x \in left \ done -> ix[x]
                                                 [] OTHER -> disk[x]]
             /\ dirty' = {x \in Blocks \ done : index'[x] # ix[x]}
    BY <1>8
  <2> DEFINE done == Connected(mw) \cap Ancestors[f]
             iy   == diskIndex'
  <2>2. /\ \A x \in Blocks : x \in done => iy[x] = index'[x]
        /\ \A x \in Blocks : x \in left /\ x \notin done => iy[x] = ix[x]
        /\ \A x \in Blocks : x \notin left /\ x \notin done => iy[x] = disk[x]
        /\ \A x \in Blocks : x \notin dirty' /\ x \notin done => index'[x] = ix[x]
    BY <2>1
  <2>3. \A x \in Blocks : x \in done => iy[x].failed = ix[x].failed /\ iy[x].valid = VALID_SCRIPTS
    BY <1>5, <2>2
  <2> HIDE DEF done
  <2>4. Blames(diskIndex, index, dirty)'
    BY <1>3, <2>2 DEF Blames
  <2> HIDE DEF iy
  <2>5. \A x \in Blocks : iy[x].failed \subseteq ix[x].failed
    BY <1>4, <2>2, <2>3 DEF Agrees
  <2>6. Blames(iy, ix, {})
    BY <1>3, <2>2, <2>3 DEF Blames
  <2>7. \A x \in Blocks : iy[x].valid \in {ix[x].valid, VALID_SCRIPTS}
    BY <1>4, <2>2, <2>3 DEF Agrees
  <2>8. Known(ix) \subseteq Known(iy)
    BY <2>7, LevelsDiffer DEF Known
  <2>9. MarksInv(iy)
    BY <1>3, <2>5, <2>6, <2>8, MarksOnDisk
  <2> QED
    BY <2>4, <2>9 DEF iy, MarksInv, Known, Failed
<1> QED
  BY <1>6, <1>7, <1>8

\* Invalidation: only b is blamed.
LEMMA MarksInvalidate ==
  ASSUME CheckedInv, NEW b \in Blocks, InvalidateOnDisk(b), DiskInv', CheckInv'
  PROVE  MarksInv(diskIndex)' /\ Blames(diskIndex, index, dirty)'
<1>1. /\ index \in [Blocks -> Entry] /\ Blames(diskIndex, index, dirty) /\ MarksInv(diskIndex)
  BY DEF CheckedInv, StartInv, IndexInv, DiskInv, TreeInv, EntriesInv
<1>2. index' = InvalidatedIndex(b, Undone(b))
  BY DEF InvalidateOnDisk, InvalidateBlock, InvalidatedIndex
<1>3. \A x \in Blocks \ {b} :
        "FAILED_VALID" \in index'[x].failed => "FAILED_VALID" \in index[x].failed
  BY <1>1, <1>2 DEF InvalidatedIndex, MarkFailed, Entry
<1>4. CASE Touch({b})
  BY <1>1, <1>3, <1>4, MarksTouched
<1>5. CASE diskIndex' = Written(index', dirty \cup {b} \cup Undone(b)) /\ dirty' = {}
  <2>1. Blames(diskIndex, index, dirty)'
    BY <1>1, <1>3, <1>5 DEF Blames, Written
  <2>2. /\ Known(index') = Known(diskIndex') /\ MarksInv(index')
        /\ \A x \in Blocks : diskIndex'[x].failed \subseteq index'[x].failed
    BY <1>5, Zenon DEF DiskInv, Agrees, Known, CheckInv, MarksInv, Failed
  <2>3. Blames(diskIndex', index', {})
    BY <1>5, <2>1 DEF Blames
  <2>4. MarksInv(diskIndex')
    BY <2>2, <2>3, MarksOnDisk
  <2> QED
    BY <2>1, <2>4 DEF MarksInv, Known, Failed
<1> QED
  BY <1>4, <1>5 DEF InvalidateOnDisk

\* A start.
LEMMA CheckLoad ==
  ASSUME NEW ix, NEW t, Loadable(ix, t), Levels(ix), NoneFailed(ix, t), ScriptsPass(ix),
         LoadBlockIndexDB(ix, t), MarksInv(ix)
  PROVE  CheckInv' /\ MarksInv(diskIndex)' /\ Blames(diskIndex, index, dirty)'
<1>1. index' = ix /\ diskIndex' = ix
  BY DEF LoadBlockIndexDB
<1>2. SetsInv'
  BY SelectLoad
<1> QED
  BY <1>1, <1>2 DEF CheckInv, MarksInv, Known, Failed, Blames

\* Restart and CrashDuringReorg.
LEMMA CheckRestart ==
  ASSUME CheckedInv, Restart \/ CrashDuringReorg
  PROVE  CheckInv' /\ MarksInv(diskIndex)' /\ Blames(diskIndex, index, dirty)'
<1>1. CASE Restart
  BY <1>1, CheckLoad DEF Restart, CheckedInv, StartInv, IndexInv, DiskInv, UnmarkedInv
<1>2. CASE CrashDuringReorg
  <2> DEFINE ix   == FindMostWorkChain_Index
             disk == Written(ix, dirty)
  <2>1. PICK t : LoadBlockIndexDB(disk, t) /\ Loadable(disk, t) /\ NoneFailed(disk, t)
    BY <1>2, ReorgLoads DEF CheckedInv, StartInv, IndexInv, UnmarkedInv
  <2>2. /\ ix \in [Blocks -> Entry]
        /\ \A b \in Blocks : ix[b].valid = index[b].valid /\ ix[b].data = index[b].data
        /\ \A b \in Blocks : index[b].failed \subseteq ix[b].failed
    BY FoundIndex DEF CheckedInv, StartInv, IndexInv, DiskInv
  <2>3. MarksInv(disk)
    BY FoundBlames DEF CheckedInv, StartInv, IndexInv, CheckInv
  <2> HIDE DEF ix
  <2>4. Levels(disk)
    BY <2>2, WrittenNow DEF CheckedInv, StartInv
  <2>5. ScriptsPass(disk)
    BY <2>2 DEF CheckedInv, StartInv, SelectInv, ScriptsPass, Written
  <2> HIDE DEF disk
  <2> QED
    BY <2>1, <2>3, <2>4, <2>5, CheckLoad
<1> QED
  BY <1>1, <1>2

\* Every step.
LEMMA CheckedStep ==
  ASSUME Operations \cap {"crashInvalidate", "reconsiderAny", "rewind"} = {},
         CheckedInv, [DiskNext]_<<vars, diskVars>>
  PROVE  CheckedInv'
<1>1. /\ StartInv /\ IndexInv /\ DiskInv /\ TreeInv /\ Levels(index) /\ LinkedInv /\ SelectInv /\ CheckInv
      /\ MarksInv(index) /\ MarksInv(diskIndex) /\ Blames(diskIndex, index, dirty)
  BY StartLinked DEF CheckedInv, StartInv, IndexInv, DiskInv, CheckInv
<1>2. StartInv' /\ DiskInv'
  BY <1>1, StartStep DEF StartInv, IndexInv
<1>3. ASSUME Next \/ UNCHANGED vars PROVE CheckInv'
  BY <1>1, <1>3, CheckNext
<1>4. CASE UNCHANGED <<vars, diskVars>>
  <2>1. UNCHANGED <<index, diskIndex, dirty>> /\ UNCHANGED vars
    BY <1>4 DEF vars, diskVars
  <2>2. MarksInv(diskIndex)' /\ Blames(diskIndex, index, dirty)'
    BY <1>1, <2>1 DEF MarksInv, Known, Failed, Blames
  <2> QED
    BY <1>2, <1>3, <2>1, <2>2 DEF CheckedInv
<1> DEFINE Good == CheckInv /\ MarksInv(diskIndex) /\ Blames(diskIndex, index, dirty)
<1>5. ASSUME NEW b \in Blocks, AcceptBlockHeader(b) \/ AcceptBlock(b) \/ RejectBlock(b), Touch({b})
      PROVE  Good'
  <2>1. \A x \in Blocks \ {b} : index'[x] = index[x]
    BY <1>1, <1>5, HeaderEntry, StoredEntry
  <2>2. Next
    BY <1>5 DEF Next
  <2> QED
    BY <1>1, <1>3, <1>5, <2>1, <2>2, MarksTouched
<1>6. ASSUME NEW b \in Blocks, DuplicateBlock(b), Touch({})
      PROVE  Good'
  <2>1. index' = index /\ Next
    BY <1>6 DEF Next, DuplicateBlock
  <2> QED
    BY <1>1, <1>3, <1>6, <2>1, MarksTouched
<1>7. ASSUME ActivateDone, Touch({}) PROVE Good'
  <2>1. index' = FindMostWorkChain_Index /\ Next
    BY <1>7 DEF Next, ActivateDone
  <2> QED
    BY <1>1, <1>3, <1>7, <2>1, FoundBlames, MarksTouched
<1>8. ASSUME ActivateOnDisk PROVE Good'
  <2>1. Next
    BY <1>8 DEF Next, Activate, ActivateOnDisk
  <2> QED
    BY <1>3, <1>8, <2>1, MarksActivate
<1>9. ASSUME NEW b \in Blocks, InvalidateOnDisk(b) PROVE Good'
  <2>1. Next
    BY <1>9 DEF Next, InvalidateOnDisk
  <2> QED
    BY <1>2, <1>3, <1>9, <2>1, MarksInvalidate
<1>10. ASSUME NEW b \in Blocks, ReconsiderOnDisk(b) PROVE Good'
  <2>1. index' = ReconsideredIndex(b) /\ Next /\ Touch(Cleared(b))
    BY <1>10, Zenon DEF Next, ReconsiderOnDisk, ReconsiderBlock, ReconsideredIndex
  <2>2. \A x \in Blocks \ Cleared(b) : index'[x] = index[x]
    BY <2>1 DEF ReconsideredIndex
  <2> QED
    BY <1>1, <1>3, <2>1, <2>2, MarksTouched
<1>11. ASSUME NEW t \in Blocks, RewindOnDisk(t) PROVE FALSE
  BY <1>11 DEF RewindOnDisk, RewindBlockIndex
<1>12. ASSUME FlushIndex \/ FlushAll PROVE Good'
  <2>1. UNCHANGED vars /\ index' = index /\ diskIndex' = Written(index, dirty) /\ dirty' = {}
    BY <1>12 DEF FlushIndex, FlushAll, vars
  <2>2. MarksInv(Written(index, dirty)) /\ Blames(Written(index, dirty), index, {})
    BY <1>1, WrittenMarks DEF DiskInv, Loadable, TreeInv, EntriesInv
  <2> DEFINE disk == Written(index, dirty)
  <2> HIDE DEF disk
  <2>3. diskIndex' = disk /\ MarksInv(disk) /\ Blames(disk, index, {})
    BY <2>1, <2>2 DEF disk
  <2> QED
    BY <1>3, <2>1, <2>3 DEF MarksInv, Known, Failed, Blames
<1>13. ASSUME Restart \/ CrashDuringReorg PROVE Good'
  BY <1>13, CheckRestart
<1>14. ASSUME NEW b \in Blocks, CrashDuringInvalidate(b) PROVE FALSE
  BY <1>14 DEF CrashDuringInvalidate
<1> HIDE DEF Good
<1>15. ASSUME DiskNext PROVE Good'
  BY <1>15, <1>5, <1>6, <1>7, <1>8, <1>9, <1>10, <1>11, <1>12, <1>13, <1>14, Zenon DEF DiskNext
<1> QED
  BY <1>2, <1>4, <1>15 DEF CheckedInv, Good

\* With flushes at any block, restarts, crashes while the chain is reorganised,
\* invalidateblock and reconsiderblock: whenever ActivateBestChain has
\* returned, CheckBlockIndex's assertions hold.
THEOREM BlockIndexChecksAfterRestarts ==
  ASSUME Operations \cap {"crashInvalidate", "reconsiderAny", "rewind"} = {}
  PROVE  DiskSpec => []CheckBlockIndex
<1>1. DiskInit => CheckedInv
  <2>1. ASSUME DiskInit PROVE CheckedInv
    <3>1. StartInv /\ CheckInv /\ diskIndex = index
      BY <2>1, StartInitial, CheckInit DEF DiskInit
    <3> QED
      BY <3>1 DEF CheckedInv, CheckInv, Blames
  <2> QED
    BY <2>1
<1>2. CheckedInv /\ [DiskNext]_<<vars, diskVars>> => CheckedInv'
  BY CheckedStep
<1>3. CheckedInv => CheckBlockIndex
  BY StartLinked, InvariantsCheck DEF CheckedInv, StartInv
<1> QED
  BY <1>1, <1>2, <1>3, PTL DEF DiskSpec

=============================================================================
