------------------------------ MODULE BlockTree ------------------------------
(***************************************************************************)
(* main.cpp: the block index and the choice of the active chain.           *)
(*                                                                         *)
(* Blocks arrive, with or without being stored, and enter mapBlockIndex;   *)
(* they become candidates once all their ancestors have data, and          *)
(* ActivateBestChain moves chainActive towards the best candidate, one     *)
(* cs_main section at a time.  The operator may invalidate and reconsider  *)
(* blocks.  BlockTreeDisk adds rewinding, the databases and restarts.      *)
(*                                                                         *)
(* A step is one section of cs_main.  The tree of all blocks is a          *)
(* constant; whether a block passes its contextual checks and ConnectBlock *)
(* is fixed once in the initial state.                                     *)
(***************************************************************************)
EXTENDS Chains

CONSTANTS nChainWork,  \* of every block: its parent's plus GetBlockProof, which is positive
          Verdicts,    \* possible validation outcomes of all blocks
          Addresses,   \* possible pointer orders of the CBlockIndex objects
          Operations,  \* operator commands (and crash points) of the instance
          MaxSequenceId \* bound: sequence ids given out by one process

ASSUME BlockTreeAssumption ==
  /\ nChainWork \in [Blocks -> Nat]
  /\ \A b \in Blocks \ {Genesis} : nChainWork[Parent[b]] < nChainWork[b]
  /\ Verdicts \subseteq [Blocks -> {"ok", "context", "connect"}]
  /\ Addresses \subseteq [Blocks -> Nat]
  /\ \A addr \in Addresses : \A a, b \in Blocks : addr[a] = addr[b] => a = b
  /\ MaxSequenceId \in Nat

Descendants == [b \in Blocks |-> {x \in Blocks : b \in Ancestors[x]}]

VALID_NONE == 0
VALID_TREE == 2
VALID_TRANSACTIONS == 3
VALID_SCRIPTS == 5

\* A CBlockIndex as the block tree database stores it: the validity level,
\* whether the block's data is on disk (nTx > 0, HAVE_DATA) and the subset of
\* {"FAILED_VALID", "FAILED_CHILD"} that is set.
NoEntry == [valid |-> VALID_NONE, data |-> FALSE, failed |-> {}]

VARIABLES index,       \* mapBlockIndex
          chainTx,     \* blocks with nChainTx # 0
          nSequenceId, \* of every block
          nBlockSequenceId,
          candidates,  \* setBlockIndexCandidates
          unlinked,    \* mapBlocksUnlinked
          tip,         \* chainActive.Tip()
          pending,     \* a call of ActivateBestChain has not returned yet
          address,     \* pointer order of the CBlockIndex objects
          verdict      \* what validation says of each block

vars == <<index, chainTx, nSequenceId, nBlockSequenceId, candidates, unlinked,
          tip, pending, address, verdict>>

Known(ix) == {b \in Blocks : ix[b].valid # VALID_NONE}

Failed(ix, b) == ix[b].failed # {}

\* CBlockIndex::IsValid
IsValid(ix, b, level) == ~Failed(ix, b) /\ ix[b].valid >= level

\* CBlockIndex::RaiseValidity, for a set of blocks.
RaiseValidity(ix, S, level) ==
  [b \in Blocks |->
     IF b \in S /\ ~Failed(ix, b) /\ ix[b].valid < level
     THEN [ix[b] EXCEPT !.valid = level]
     ELSE ix[b]]

MarkFailed(ix, S, flag) ==
  [b \in Blocks |-> IF b \in S THEN [ix[b] EXCEPT !.failed = @ \cup {flag}] ELSE ix[b]]

\* CBlockIndexWorkComparator: a sorts before b.
Worse(a, b, seq, addr) ==
  \/ nChainWork[a] < nChainWork[b]
  \/ /\ nChainWork[a] = nChainWork[b]
     /\ \/ seq[a] > seq[b]
        \/ seq[a] = seq[b] /\ addr[a] > addr[b]

\* Mutant: the tip itself is dropped as well.
Pruned_TipToo(cands, t, seq, addr) == {c \in cands : Worse(t, c, seq, addr)}

\* PruneBlockIndexCandidates
Pruned(cands, t, seq, addr) == {c \in cands : ~Worse(c, t, seq, addr)}

Init ==
  /\ index = [b \in Blocks |->
                IF b = Genesis
                THEN [valid |-> VALID_SCRIPTS, data |-> TRUE, failed |-> {}]
                ELSE NoEntry]
  /\ chainTx = {Genesis}
  /\ nSequenceId = [b \in Blocks |-> IF b = Genesis THEN 1 ELSE 0]
  /\ nBlockSequenceId = 2
  /\ candidates = {Genesis}
  /\ unlinked = {}
  /\ tip = Genesis
  /\ pending = FALSE
  /\ address \in Addresses
  /\ verdict \in {v \in Verdicts : v[Genesis] = "ok"}

-----------------------------------------------------------------------------
(* Arriving blocks.                                                        *)

\* The parent is known and not marked failed.
HasGoodParent(b) ==
  /\ b # Genesis
  /\ Parent[b] \in Known(index)
  /\ ~Failed(index, Parent[b])

\* AddToBlockIndex: the entry of a block after its header is accepted.
Entered(ix, b) ==
  IF b \in Known(ix) THEN ix ELSE [ix EXCEPT ![b].valid = VALID_TREE]

\* AcceptBlock returns after AcceptBlockHeader because the coins the block
\* stakes are not available: the entry stays, without data and unmarked.
\* (HeadersFirstSyncingActive is false: headers messages are not processed.)
AcceptBlockHeader(b) ==
  /\ b \notin Known(index)
  /\ HasGoodParent(b)
  /\ verdict[b] # "context"
  /\ index' = Entered(index, b)
  /\ UNCHANGED <<chainTx, nSequenceId, nBlockSequenceId, candidates, unlinked, tip, pending,
                 address, verdict>>

\* Mutant: the blocks that waited for the new block are forgotten.
NewlyLinked_Alone(b) == {b}

\* The blocks a new block links: itself and, transitively, the blocks waiting
\* for it in mapBlocksUnlinked.
NewlyLinked(b) ==
  {x \in Descendants[b] :
     \A y \in Ancestors[x] : b \in Ancestors[y] /\ y # b => <<Parent[y], y>> \in unlinked}

\* Breadth first: parents are numbered before children.
Numberings(S) ==
  {f \in [S -> nBlockSequenceId .. nBlockSequenceId + Cardinality(S) - 1] :
     \A x, y \in S : /\ x # y => f[x] # f[y]
                     /\ nHeight[x] < nHeight[y] => f[x] < f[y]}

\* The block's data is on disk: link it and what waited for it, or let it wait.
ReceivedBlockTransactions(b, ix) ==
  /\ index' = RaiseValidity([ix EXCEPT ![b].data = TRUE], {b}, VALID_TRANSACTIONS)
  /\ IF Parent[b] \in chainTx
     THEN LET linked == NewlyLinked(b) IN
          /\ chainTx' = chainTx \cup linked
          /\ \E f \in Numberings(linked) :
               nSequenceId' = [x \in Blocks |-> IF x \in linked THEN f[x] ELSE nSequenceId[x]]
          /\ nBlockSequenceId' = nBlockSequenceId + Cardinality(linked)
          /\ candidates' = candidates \cup
               {x \in linked : ~Worse(x, tip, nSequenceId', address)}
          /\ unlinked' = {p \in unlinked : p[1] \notin linked}
     ELSE /\ unlinked' = unlinked \cup
               (IF IsValid(ix, Parent[b], VALID_TREE) THEN {<<Parent[b], b>>} ELSE {})
          /\ UNCHANGED <<chainTx, nSequenceId, nBlockSequenceId, candidates>>

\* ProcessNewBlock up to the call of ActivateBestChain, for a block that
\* AcceptBlock stores.
AcceptBlock(b) ==
  /\ HasGoodParent(b)
  /\ ~Failed(index, b) /\ ~index[b].data
  /\ verdict[b] # "context"
  /\ nBlockSequenceId + Cardinality(NewlyLinked(b)) =< MaxSequenceId
  /\ ReceivedBlockTransactions(b, Entered(index, b))
  /\ pending' = TRUE
  /\ UNCHANGED <<tip, address, verdict>>

\* ContextualCheckBlock rejects the block: its header stays, marked failed.
RejectBlock(b) ==
  /\ HasGoodParent(b)
  /\ ~Failed(index, b) /\ ~index[b].data
  /\ verdict[b] = "context"
  /\ index' = MarkFailed(Entered(index, b), {b}, "FAILED_VALID")
  /\ UNCHANGED <<chainTx, nSequenceId, nBlockSequenceId, candidates, unlinked, tip, pending,
                 address, verdict>>

\* AcceptBlock "already have block": ActivateBestChain is called all the same.
DuplicateBlock(b) ==
  /\ HasGoodParent(b)
  /\ ~Failed(index, b) /\ index[b].data
  /\ pending' = TRUE
  /\ UNCHANGED <<index, chainTx, nSequenceId, nBlockSequenceId, candidates, unlinked, tip,
                 address, verdict>>

-----------------------------------------------------------------------------
(* ActivateBestChain.                                                      *)

\* The part of c's chain that is not active yet.
PathTo(c) == Ancestors[c] \ Ancestors[tip]

Usable(c) == \A x \in PathTo(c) : ~Failed(index, x) /\ index[x].data

\* FindMostWorkChain's result, as a set of at most one block.
MostWork ==
  LET usable == {c \in candidates : Usable(c)}
  IN  {c \in usable : \A d \in usable \ {c} : Worse(d, c, nSequenceId, address)}

\* The candidates FindMostWorkChain meets, and gives up, before its result.
Skipped ==
  {c \in candidates : ~Usable(c) /\ \A w \in MostWork : Worse(w, c, nSequenceId, address)}

\* Between a given-up candidate and its topmost failed ancestor.
AboveFailure(c) ==
  {x \in PathTo(c) : \A y \in PathTo(c) : x \in Ancestors[y] /\ y # x => ~Failed(index, y)}

\* The blocks above the failed one are marked (and not recorded as dirty).
FindMostWorkChain_Index ==
  MarkFailed(index,
             UNION {{x \in AboveFailure(c) : \E y \in AboveFailure(c) : y \in Ancestors[x] \ {x}}
                    : c \in Skipped},
             "FAILED_CHILD")

FindMostWorkChain_Candidates == candidates \ UNION {AboveFailure(c) : c \in Skipped}

\* Where ActivateBestChainStep stops on the way to mw: at the first block that
\* ConnectBlock refuses or that has more work than the old tip, or at mw.
StopBlock(mw) ==
  LET stops == {x \in PathTo(mw) : \/ x = mw
                                   \/ verdict[x] = "connect"
                                   \/ nChainWork[x] > nChainWork[tip]}
  IN  {x \in stops : \A y \in stops : nHeight[x] =< nHeight[y]}

\* The block ConnectBlock refuses in this step, if any.
Refused(mw) == {x \in StopBlock(mw) : verdict[x] = "connect"}

\* The blocks connected in this step.
Connected(mw) == {x \in PathTo(mw) : \E s \in StopBlock(mw) : x \in Ancestors[s]} \ Refused(mw)

\* chainActive.FindFork
Fork(mw) == Top(Ancestors[mw] \cap Ancestors[tip])

NewTip(mw) == Top({Fork(mw)} \cup Connected(mw))

\* Mutant: the refused block is not remembered as invalid.
InvalidBlockFound_Forgets(ix, S) == ix

\* InvalidBlockFound, for the set of refused blocks.
InvalidBlockFound(ix, S) == MarkFailed(ix, S, "FAILED_VALID")

\* The caller's loop ends: nothing to do.
ActivateDone ==
  /\ pending
  /\ MostWork \subseteq {tip}
  /\ index' = FindMostWorkChain_Index
  /\ candidates' = FindMostWorkChain_Candidates
  /\ pending' = FALSE
  /\ UNCHANGED <<chainTx, nSequenceId, nBlockSequenceId, unlinked, tip, address, verdict>>

\* Mutant: one step is taken to be enough.
LoopEnds_Always(mw) == TRUE

\* while (pindexMostWork != chainActive.Tip())
LoopEnds(mw) == NewTip(mw) = mw

\* Disconnect to the fork, connect up to StopBlock.  After every connected
\* block the candidates worse than it are dropped.
ActivateBestChainStep(mw) ==
  LET found  == FindMostWorkChain_Candidates
      pruned == IF Connected(mw) = {} THEN found
                ELSE Pruned(found, NewTip(mw), nSequenceId, address)
  IN  /\ tip' = NewTip(mw)
      /\ index' = InvalidBlockFound(
                    RaiseValidity(FindMostWorkChain_Index, Connected(mw), VALID_SCRIPTS),
                    Refused(mw))
      /\ candidates' = pruned \ Refused(mw)
      /\ pending' = ~LoopEnds(mw)

ActivateTo(mw) ==
  /\ pending
  /\ mw \in MostWork \ {tip}
  /\ ActivateBestChainStep(mw)
  /\ UNCHANGED <<chainTx, nSequenceId, nBlockSequenceId, unlinked, address, verdict>>

Activate == \E mw \in candidates : ActivateTo(mw)

-----------------------------------------------------------------------------
(* Operator commands.                                                      *)

\* Mutant: the blocks that now compete with the lower tip are not restored.
RestoredCandidates_None(ix, t) == {}

\* InvalidateBlock's last loop: everything at least as good as the new tip.
RestoredCandidates(ix, t) ==
  {x \in chainTx : IsValid(ix, x, VALID_TRANSACTIONS) /\ ~Worse(x, t, nSequenceId, address)}

\* Mutant: the active chain is not rolled back.
Undone_Nothing(b) == {}

\* The active blocks InvalidateBlock(b) disconnects.
Undone(b) == Ancestors[tip] \cap Descendants[b]

\* invalidateblock: mark, disconnect, restore the candidates.
InvalidateBlock(b) ==
  LET gone == Undone(b)
      ix   == MarkFailed(MarkFailed(index, {b}, "FAILED_VALID"), gone, "FAILED_CHILD")
      t    == IF gone = {} THEN tip ELSE Parent[b]
  IN  /\ "invalidate" \in Operations
      /\ b \in Known(index) \ {Genesis}
      /\ index' = ix
      /\ tip' = t
      /\ candidates' = (candidates \ ({b} \cup gone)) \cup RestoredCandidates(ix, t)
      /\ pending' = TRUE
      /\ UNCHANGED <<chainTx, nSequenceId, nBlockSequenceId, unlinked, address, verdict>>

\* The failed (or not yet stored) blocks from b upwards.
FailedAbove(b) == {x \in Known(index) \cap Descendants[b] : ~IsValid(index, x, VALID_TRANSACTIONS)}

\* The blocks whose marks ReconsiderBlock(b) removes.
Cleared(b) == FailedAbove(b) \cup {x \in Ancestors[b] : Failed(index, x)}

\* reconsiderblock: clear b, its descendants and its ancestors.  The instances
\* differ in whether the operator names descendants of a failed block.
ReconsiderBlock(b) ==
  LET ix == [x \in Blocks |-> IF x \in Cleared(b) THEN [index[x] EXCEPT !.failed = {}] ELSE index[x]]
  IN  /\ b \in Known(index)
      /\ \/ "reconsiderAny" \in Operations
         \/ "reconsider" \in Operations /\ \A a \in Ancestors[b] \ {b} : ~Failed(index, a)
      /\ index' = ix
      /\ candidates' = candidates \cup
           {x \in FailedAbove(b) \cap chainTx : /\ IsValid(ix, x, VALID_TRANSACTIONS)
                                                /\ Worse(tip, x, nSequenceId, address)}
      /\ pending' = TRUE
      /\ UNCHANGED <<chainTx, nSequenceId, nBlockSequenceId, unlinked, tip, address, verdict>>

\* rewindblockindex to the active block t: disconnect, forget every block
\* that is not active, make every active block a candidate.  (A step of
\* BlockTreeDisk only: it writes both databases itself.)
RewindBlockIndex(t) ==
  LET kept == Ancestors[t]
      ix   == [x \in Blocks |-> IF x \in kept THEN index[x] ELSE NoEntry]
  IN  /\ "rewind" \in Operations
      /\ t \in Ancestors[tip] \ {tip}
      /\ index' = ix
      /\ chainTx' = chainTx \cap kept
      /\ nSequenceId' = [x \in Blocks |-> IF x \in kept THEN nSequenceId[x] ELSE 0]
      /\ candidates' = (candidates \cap kept) \cup
           {x \in kept \cap chainTx : IsValid(index, x, VALID_TRANSACTIONS)}
      /\ unlinked' = {p \in unlinked : p[2] \in kept}
      /\ tip' = t
      /\ UNCHANGED <<nBlockSequenceId, pending, address, verdict>>

Next ==
  \/ \E b \in Blocks : AcceptBlockHeader(b)
  \/ \E b \in Blocks : AcceptBlock(b)
  \/ \E b \in Blocks : RejectBlock(b)
  \/ \E b \in Blocks : DuplicateBlock(b)
  \/ ActivateDone
  \/ Activate
  \/ \E b \in Blocks : InvalidateBlock(b)
  \/ \E b \in Blocks : ReconsiderBlock(b)

\* A thread that called ActivateBestChain keeps running it.
Spec == Init /\ [][Next]_vars /\ WF_vars(ActivateDone) /\ WF_vars(Activate)

-----------------------------------------------------------------------------
(* Properties.                                                             *)

\* CheckBlockIndex, the entries: data means VALID_TRANSACTIONS, nChainTx is
\* set exactly when every ancestor has data, only linked blocks have a sequence
\* id, and script validity is closed under ancestors.
IndexConsistent ==
  \A b \in Known(index) :
    /\ index[b].data <=> index[b].valid >= VALID_TRANSACTIONS
    /\ b \in chainTx <=> \A a \in Ancestors[b] : index[a].data
    /\ nSequenceId[b] # 0 => b \in chainTx
    /\ index[b].valid >= VALID_SCRIPTS => \A a \in Ancestors[b] : index[a].valid >= VALID_SCRIPTS
    /\ Ancestors[b] \subseteq Known(index)

HasInvalidAncestor(b) == \E a \in Ancestors[b] : "FAILED_VALID" \in index[a].failed

\* CheckBlockIndex as a whole, between calls of ActivateBestChain: the entries
\* are consistent; a block without an invalid ancestor is not marked failed;
\* the candidates are exactly the complete chains, not known to be invalid,
\* that are at least as good as the tip (an invalid one may still be among
\* them); exactly the blocks with data and an incomplete chain wait in
\* mapBlocksUnlinked (those under an invalid block may be missing).
CheckBlockIndex ==
  ~pending =>
    /\ IndexConsistent
    /\ \A b \in Known(index) : ~HasInvalidAncestor(b) => ~Failed(index, b)
    /\ \A c \in candidates : c \in chainTx /\ ~Worse(c, tip, nSequenceId, address)
    /\ \A b \in chainTx :
         ~Worse(b, tip, nSequenceId, address) /\ ~HasInvalidAncestor(b) => b \in candidates
    /\ \A b \in Known(index) \ {Genesis} :
         LET waits == index[b].data /\ b \notin chainTx
             found == <<Parent[b], b>> \in unlinked
         IN  /\ found => waits
             /\ waits /\ ~HasInvalidAncestor(b) => found

\* FindMostWorkChain stops at the active chain "as we know all blocks in it
\* are valid already": no active block is marked failed, and all have data
\* and went through ConnectBlock.
ActiveChainValid ==
  \A a \in Ancestors[tip] : ~Failed(index, a) /\ index[a].data /\ index[a].valid = VALID_SCRIPTS

\* "The result is either failure or an activated best chain": when no call is
\* under way, no complete chain without a failed block beats the tip.
BestChainActive ==
  ~pending =>
    \A b \in chainTx : (\A a \in Ancestors[b] : ~Failed(index, a)) =>
                         ~Worse(tip, b, nSequenceId, address)

\* ActivateBestChain returns, however many candidates turn out invalid, once
\* blocks, commands and restarts stop coming.
ActivationTerminates ==
  (<>[][Activate \/ ActivateDone]_vars) => <>[]~pending
=============================================================================
