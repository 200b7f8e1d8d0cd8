--------------------------- MODULE BlockTreeDisk ---------------------------
(***************************************************************************)
(* BlockTree together with what survives the process: the block tree       *)
(* database (CBlockTreeDB), written from setDirtyBlockIndex, and the best  *)
(* block of the coins database.  FlushStateToDisk writes the first before  *)
(* the second; LoadBlockIndexDB rebuilds everything else from the two.     *)
(***************************************************************************)
EXTENDS BlockTree

VARIABLES dirty,      \* setDirtyBlockIndex
          diskIndex,  \* the block tree database
          diskTip,    \* DB_BEST_BLOCK of the coins database
          aborted     \* PruneBlockIndexCandidates' assertion failed at startup

diskVars == <<dirty, diskIndex, diskTip, aborted>>

DiskInit ==
  /\ Init
  /\ dirty = {}
  /\ diskIndex = index
  /\ diskTip = Genesis
  /\ aborted = FALSE

\* The process is running and stays so.
Running == ~aborted /\ UNCHANGED aborted

\* WriteBatchSync of the entries in dirt.
Written(ix, dirt) == [b \in Blocks |-> IF b \in dirt THEN ix[b] ELSE diskIndex[b]]

\* The handler records the entry as dirty.
Touch(S) == dirty' = dirty \cup S /\ UNCHANGED <<diskIndex, diskTip>> /\ Running

\* Every DisconnectTip flushes the index and then the coins; ConnectTip may
\* flush after any block f it connected, before the next one.
\* FindMostWorkChain's marks are not dirty, ConnectBlock's are.
StepOnDisk(mw) ==
  LET disconnects == tip # Fork(mw)
      ix0   == FindMostWorkChain_Index
      disk0 == IF disconnects THEN Written(ix0, dirty) ELSE diskIndex
      left0 == IF disconnects THEN {} ELSE dirty
  IN  \/ /\ diskIndex' = disk0
         /\ diskTip' = IF disconnects THEN Fork(mw) ELSE diskTip
         /\ dirty' = left0 \cup {x \in Blocks : index'[x] # ix0[x]}
      \/ \E f \in Connected(mw) :
           LET done == Connected(mw) \cap Ancestors[f] IN
           /\ diskIndex' = [x \in Blocks |->
                CASE x \in done -> index'[x]
                  [] x \in left0 \ done -> ix0[x]
                  [] OTHER -> disk0[x]]
           /\ diskTip' = f
           /\ dirty' = {x \in Blocks \ done : index'[x] # ix0[x]}

ActivateOnDisk ==
  /\ \E mw \in candidates : ActivateTo(mw) /\ StepOnDisk(mw)
  /\ Running

\* InvalidateBlock disconnects block by block, each one flushed.
InvalidateOnDisk(b) ==
  /\ InvalidateBlock(b)
  /\ IF Undone(b) = {}
     THEN Touch({b})
     ELSE /\ diskIndex' = Written(index', dirty \cup {b} \cup Undone(b))
          /\ diskTip' = tip'
          /\ dirty' = {}
          /\ Running

ReconsiderOnDisk(b) ==
  /\ ReconsiderBlock(b)
  /\ Touch(Cleared(b))

\* EraseBatchSync of the forgotten blocks; the last flush is FLUSH_STATE_ALWAYS.
RewindOnDisk(t) ==
  /\ RewindBlockIndex(t)
  /\ diskIndex' = [x \in Blocks |-> IF x \in Ancestors[t] THEN Written(index, dirty)[x] ELSE NoEntry]
  /\ diskTip' = t
  /\ dirty' = {}
  /\ Running

\* The periodic write: the block index only.
FlushIndex ==
  /\ dirty # {}
  /\ diskIndex' = Written(index, dirty)
  /\ dirty' = {}
  /\ UNCHANGED diskTip /\ Running /\ UNCHANGED vars

\* Mutant: the coins are flushed without the index.
FlushAll_CoinsOnly ==
  /\ diskTip # tip
  /\ diskTip' = tip
  /\ UNCHANGED <<diskIndex, dirty>> /\ Running /\ UNCHANGED vars

\* A full flush: the index, then the coins.
FlushAll ==
  /\ diskTip # tip
  /\ diskIndex' = Written(index, dirty)
  /\ diskTip' = tip
  /\ dirty' = {}
  /\ Running /\ UNCHANGED vars

\* Mutant: blocks whose parents lack data are not remembered.
Waiting_None(ix, linked) == {}

\* The pairs LoadBlockIndexDB puts into mapBlocksUnlinked.
Waiting(ix, linked) ==
  {<<Parent[b], b>> : b \in {x \in Blocks \ linked : ix[x].data /\ Parent[x] \notin linked}}

\* The blocks LoadBlockIndexDB makes candidates, before pruning.
Loaded(ix, linked) == {b \in linked : IsValid(ix, b, VALID_TRANSACTIONS)}

\* LoadBlockIndexDB, then ThreadImport's ActivateBestChain.
LoadBlockIndexDB(ix, t) ==
  LET linked  == {b \in Blocks : \A a \in Ancestors[b] : ix[a].data}
      zeroIds == [b \in Blocks |-> 0]
  IN  /\ ~aborted
      /\ index' = ix
      /\ chainTx' = linked
      /\ nSequenceId' = zeroIds
      /\ nBlockSequenceId' = 1
      /\ address' \in Addresses
      /\ candidates' = Pruned(Loaded(ix, linked), t, zeroIds, address')
      /\ unlinked' = Waiting(ix, linked)
      /\ tip' = t
      /\ diskIndex' = ix
      /\ diskTip' = t
      /\ dirty' = {}
      /\ aborted' = (candidates' = {})
      /\ pending' = TRUE
      /\ UNCHANGED verdict

\* The process ends, cleanly after FlushAll or not, and starts again.
Restart ==
  /\ "crash" \in Operations
  /\ LoadBlockIndexDB(diskIndex, diskTip)

\* It ends after ActivateBestChainStep disconnected x.
CrashDuringReorg ==
  /\ "crash" \in Operations
  /\ pending
  /\ \E mw \in MostWork : \E x \in Ancestors[tip] \ Ancestors[mw] :
       LoadBlockIndexDB(Written(FindMostWorkChain_Index, dirty), Parent[x])

\* It ends while invalidateblock disconnects x: the index was flushed, the
\* coins were or were not.
CrashDuringInvalidate(b) ==
  /\ "crashInvalidate" \in Operations
  /\ b \in Known(index) \ {Genesis}
  /\ \E x \in Undone(b) :
       LET marked == Undone(b) \cap Descendants[x]
           ix     == MarkFailed(MarkFailed(index, {b}, "FAILED_VALID"), marked, "FAILED_CHILD")
       IN  \E t \in {x, Parent[x]} :
             LoadBlockIndexDB(Written(ix, dirty \cup {b} \cup marked), t)

DiskNext ==
  \/ \E b \in Blocks : AcceptBlockHeader(b) /\ Touch({b})
  \/ \E b \in Blocks : AcceptBlock(b) /\ Touch({b})
  \/ \E b \in Blocks : RejectBlock(b) /\ Touch({b})
  \/ \E b \in Blocks : DuplicateBlock(b) /\ Touch({})
  \/ ActivateDone /\ Touch({})
  \/ ActivateOnDisk
  \/ \E b \in Blocks : InvalidateOnDisk(b)
  \/ \E b \in Blocks : ReconsiderOnDisk(b)
  \/ \E b \in Blocks : RewindOnDisk(b)
  \/ FlushIndex
  \/ FlushAll
  \/ Restart
  \/ CrashDuringReorg
  \/ \E b \in Blocks : CrashDuringInvalidate(b)

DiskSpec == DiskInit /\ [][DiskNext]_<<vars, diskVars>>

-----------------------------------------------------------------------------
(* Properties, in addition to those of BlockTree.                          *)

\* What a restart relies on: the block tree database never contains a block
\* without its parent (which LoadBlockIndexDB would complete with an empty
\* entry), and describes, with data, script validity and no failure mark,
\* every block of the chain the coins database is at.  So LoadBlockIndexDB
\* never fails PruneBlockIndexCandidates' assertion: "Either the current tip or
\* a successor of it we're working towards is left".
DiskDescribesTip ==
  /\ \A b \in Known(diskIndex) : Ancestors[b] \subseteq Known(diskIndex)
  /\ \A a \in Ancestors[diskTip] :
       diskIndex[a].data /\ diskIndex[a].valid = VALID_SCRIPTS /\ diskIndex[a].failed = {}
  /\ ~aborted

\* With operator commands and crashes inside of them, that assertion fails in
\* one case only: invalidateblock wrote its failure marks and the process died
\* before the coins left the invalidated chain.
StartsAgain == aborted => \E a \in Ancestors[diskTip] : diskIndex[a].failed # {}
=============================================================================
