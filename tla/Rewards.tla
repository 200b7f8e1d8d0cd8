------------------------------- MODULE Rewards -------------------------------
(***************************************************************************)
(* rewards.cpp and its callers in main.cpp: the dynamic block reward.      *)
(*                                                                         *)
(* When a block at an epoch height is connected, the reward of the epoch   *)
(* is computed from the coins below it and kept in mDynamicRewards and in  *)
(* an SQLite table of its own, written at once; the coins reach their      *)
(* database whenever FlushStateToDisk decides.  Every later block of the   *)
(* epoch is validated against the reward, so all nodes on a chain have to  *)
(* agree on it.                                                            *)
(*                                                                         *)
(* A block is what it mints and a label that stands for its effect on the  *)
(* coins.  Blocks are those that a node which was never restarted accepts. *)
(***************************************************************************)
EXTENDS Integers, Sequences

CONSTANTS Labels,
          Target,     \* label of a chain's last block -> its target emission per block
          GetBlockSubsidy, \* the static reward table
          nFeatureStartHeight, nRewardAdjustmentInterval,
          MaxHeight,  \* bound: blocks of a chain
          MaxUnder    \* bound: how much less than allowed a block mints

ASSUME RewardsAssumption ==
  /\ Target \in [Labels -> Nat \ {0}]
  /\ {nFeatureStartHeight, MaxHeight} \subseteq Nat \ {0}
  /\ nRewardAdjustmentInterval \in Nat \ {0, 1}
  /\ nFeatureStartHeight % nRewardAdjustmentInterval # 0  \* 1900001 and 10080
  /\ GetBlockSubsidy \in [0 .. MaxHeight -> Nat \ {0}]
  /\ MaxUnder \in Nat

VARIABLES chain,     \* the active chain, from height 1
          diskChain, \* the chain whose coins are in the coins database
          mDynamicRewards,
          table,     \* the SQLite table
          initiated,
          ibd,       \* IsInitialBlockDownload()
          dead,      \* the process ended in CRewards::Init
          verifying, \* the height VerifyDB connects next, 0 when it does not run
          verifyError, \* VerifyDB reported an error in this process
          exact      \* history: epochs of chain computed when their block was connected

vars == <<chain, diskChain, mDynamicRewards, table, initiated, ibd, dead, verifying, verifyError, exact>>

Last(c) == c[Len(c)]

\* NetworkUpgradeActive(h, UPGRADE_DYNAMIC_REWARDS)
Active(h) == h >= nFeatureStartHeight

GetDynamicRewardsEpochHeight(h) == (h \div nRewardAdjustmentInterval) * nRewardAdjustmentInterval

IsDynamicRewardsEpochHeight(h) == GetDynamicRewardsEpochHeight(h) = h

\* The height whose entry GetBlockValue(h) looks up: at an epoch height the
\* value of the block before.
ValueHeight(h) == IF Active(h) /\ IsDynamicRewardsEpochHeight(h) THEN h - 1 ELSE h

\* CRewards::GetBlockValue with the entries f.
GetBlockValue(f, h) ==
  LET k == ValueHeight(h)
      e == GetDynamicRewardsEpochHeight(k)
  IN  IF Active(k) /\ e \in DOMAIN f /\ f[e] < GetBlockSubsidy[k] THEN f[e] ELSE GetBlockSubsidy[k]

\* The reward that follows nSubsidy: damped towards the target of the coins
\* below, here by one unit.
Adjusted(nSubsidy, below) ==
  CASE Target[Last(below).label] < nSubsidy -> nSubsidy - 1
    [] Target[Last(below).label] > nSubsidy -> nSubsidy + 1
    [] OTHER -> nSubsidy

-----------------------------------------------------------------------------
(* The entries in memory and on disk, as a record r of both.               *)

Restricted(f, S) == [e \in DOMAIN f \cap S |-> f[e]]

With(f, e, v) == [x \in DOMAIN f \cup {e} |-> IF x = e THEN v ELSE f[x]]

\* Mutant: an entry that is in the table already is kept ("INSERT OR IGNORE").
Stored_Ignored(r, e, v) ==
  [map |-> With(r.map, e, v), table |-> IF e \in DOMAIN r.table THEN r.table ELSE With(r.table, e, v)]

\* "INSERT OR REPLACE"
Stored(r, e, v) == [map |-> With(r.map, e, v), table |-> With(r.table, e, v)]

\* Mutant: an entry that is there already is kept.
NewSubsidy_Keeps(r, h, nMint, coins) ==
  LET e == GetDynamicRewardsEpochHeight(h)
  IN  CASE ~Active(h) \/ e \in DOMAIN r.map -> 0
        [] Active(h) /\ e \notin DOMAIN r.map -> IF h = e THEN Adjusted(nMint, coins) ELSE nMint

\* nNewSubsidy: computed from the coins given for the epoch that starts with
\* height h.  Inside an epoch that has no entry it is the block's own mint.
NewSubsidy(r, h, nMint, coins) ==
  LET e == GetDynamicRewardsEpochHeight(h)
  IN  CASE ~Active(h) -> 0
        [] Active(h) /\ h = e -> Adjusted(nMint, coins)
        [] OTHER -> IF e \in DOMAIN r.map THEN 0 ELSE nMint

\* CRewards::ConnectBlock once initiated.
RewardsConnect(r, h, nMint, coins) ==
  LET n == NewSubsidy(r, h, nMint, coins)
  IN  IF n > 0 THEN Stored(r, GetDynamicRewardsEpochHeight(h), n) ELSE r

\* CRewards::DisconnectBlock for the heights hi down to lo: each epoch block
\* with an entry erases it, and from the table everything above as well.
RewardsDisconnect(r, lo, hi) ==
  LET gone == {e \in DOMAIN r.map : Active(e) /\ IsDynamicRewardsEpochHeight(e) /\ e \in lo .. hi}
  IN  [map   |-> Restricted(r.map, DOMAIN r.map \ gone),
       table |-> Restricted(r.table, {e \in DOMAIN r.table : \A d \in gone : e < d})]

\* Mutant: gaps are left to ConnectBlock.
Gaps_None == {}

\* The epochs up to the tip that the table does not have.
Gaps ==
  {e \in GetDynamicRewardsEpochHeight(nFeatureStartHeight) + 1 .. Len(chain) :
     IsDynamicRewardsEpochHeight(e) /\ e \notin DOMAIN table}

\* The gap filling of CRewards::Init reads a block that does not exist: the
\* one after the tip.
NullRead == ~initiated /\ Len(chain) \in Gaps

\* CRewards::Init: load the table, fill each gap with what the first block of
\* the epoch minted.
Init_Entries ==
  LET filled == [e \in DOMAIN table \cup Gaps |->
                   IF e \in DOMAIN table THEN table[e] ELSE chain[e + 1].mint]
  IN  IF initiated THEN [map |-> mDynamicRewards, table |-> table]
      ELSE [map |-> filled, table |-> filled]

NoEntries == [e \in {} |-> 0]

\* The epoch blocks of c that compute a reward.
EpochsOf(c) == {h \in nFeatureStartHeight .. Len(c) : IsDynamicRewardsEpochHeight(h)}

\* The entries of a node that connected every block of c at the tip and never
\* left it.  The epoch before the first computed one takes its first mint.
EntriesOf(c) ==
  [e \in EpochsOf(c) \cup
         {GetDynamicRewardsEpochHeight(h) : h \in {nFeatureStartHeight} \cap 1 .. Len(c)} |->
     IF e \in EpochsOf(c) THEN Adjusted(c[e].mint, SubSeq(c, 1, e - 1))
     ELSE c[nFeatureStartHeight].mint]

\* The blocks other nodes may extend the chain with.
NextBlocks ==
  IF Len(chain) = MaxHeight THEN {}
  ELSE LET value == GetBlockValue(EntriesOf(chain), Len(chain) + 1)
       IN  {[label |-> l, mint |-> m] : l \in Labels, m \in {x \in value - MaxUnder .. value : x > 0}}

Init ==
  /\ chain = <<>> /\ diskChain = <<>>
  /\ mDynamicRewards = NoEntries /\ table = NoEntries
  /\ initiated = FALSE /\ ibd = TRUE /\ dead = FALSE
  /\ verifying = 0 /\ verifyError = FALSE
  /\ exact = {}

-----------------------------------------------------------------------------
(* One process.                                                            *)

\* IsInitialBlockDownload returns false, and does so from now on.
LeaveIBD ==
  /\ ~dead /\ ibd
  /\ ibd' = FALSE
  /\ UNCHANGED <<chain, diskChain, mDynamicRewards, table, initiated, dead, verifying, verifyError, exact>>

\* The block at height h does not mint more than the reward.
Passes(b, h) == b.mint =< GetBlockValue(mDynamicRewards, h)

\* ConnectTip during initial download: no rewards.
ConnectTip_IBD(b) ==
  /\ ~dead /\ ibd
  /\ Passes(b, Len(chain) + 1)
  /\ chain' = Append(chain, b)
  /\ diskChain' \in {diskChain, chain'}
  /\ UNCHANGED <<mDynamicRewards, table, initiated, ibd, dead, verifying, verifyError, exact>>

\* The coins in the database when the block at height h is connected: at an
\* epoch height CRewards::ConnectBlock flushes before its cursor reads them.
FlushedForReward(h) == IF Active(h) /\ IsDynamicRewardsEpochHeight(h) THEN chain ELSE diskChain

\* CRewards::ConnectBlock is reached for the block at height h.
Rewardable(b, h) == ~dead /\ ~ibd /\ Passes(b, h) /\ ~NullRead

\* ConnectTip outside of initial download.
ConnectTip(b) ==
  LET h == Len(chain) + 1
      r == RewardsConnect(Init_Entries, h, b.mint, FlushedForReward(h))
  IN  /\ Rewardable(b, h) /\ verifying = 0
      /\ mDynamicRewards' = r.map /\ table' = r.table
      /\ initiated' = TRUE
      /\ chain' = Append(chain, b)
      /\ diskChain' \in {FlushedForReward(h), chain'}
      /\ exact' = exact \cup {e \in {h} : Active(e) /\ IsDynamicRewardsEpochHeight(e)}
      /\ UNCHANGED <<ibd, dead, verifying, verifyError>>

\* CRewards::ConnectBlock fails to insert into the table: the reward is in
\* memory already.
InsertFails(b, h) ==
  LET n == NewSubsidy(Init_Entries, h, b.mint, FlushedForReward(h))
  IN  /\ Rewardable(b, h)
      /\ n > 0
      /\ mDynamicRewards' = With(Init_Entries.map, GetDynamicRewardsEpochHeight(h), n)
      /\ table' = Init_Entries.table
      /\ initiated' = TRUE
      /\ diskChain' = FlushedForReward(h)

\* The block is not connected.
ConnectTip_Fails(b) ==
  /\ verifying = 0
  /\ InsertFails(b, Len(chain) + 1)
  /\ UNCHANGED <<chain, ibd, dead, verifying, verifyError, exact>>

\* CRewards::Init, called for the next block or for one that VerifyDB connects
\* again, dereferences the index of the block after the tip.
Init_NullRead ==
  /\ ~dead /\ ~ibd
  /\ verifying # 0 => Passes(chain[verifying], verifying)
  /\ NullRead
  /\ dead' = TRUE
  /\ UNCHANGED <<chain, diskChain, mDynamicRewards, table, initiated, ibd, verifying, verifyError, exact>>

\* CRewards::DisconnectBlock for the tip, which works on what was loaded.
Unreward ==
  LET r == IF ibd THEN [map |-> mDynamicRewards, table |-> table]
           ELSE RewardsDisconnect([map |-> mDynamicRewards, table |-> table], Len(chain), Len(chain))
  IN  /\ ~dead /\ verifying = 0 /\ chain # <<>>
      /\ mDynamicRewards' = r.map
      /\ table' = r.table

\* DisconnectTip, which ends with a full flush.
DisconnectTip ==
  /\ Unreward
  /\ chain' = SubSeq(chain, 1, Len(chain) - 1)
  /\ diskChain' = chain'
  /\ exact' = exact \ {Len(chain)}
  /\ UNCHANGED <<initiated, ibd, dead, verifying, verifyError>>

\* FlushStateToDisk at any other time, and at shutdown.
Flush ==
  /\ ~dead /\ verifying = 0 /\ diskChain # chain
  /\ diskChain' = chain
  /\ UNCHANGED <<chain, mDynamicRewards, table, initiated, ibd, dead, verifying, verifyError, exact>>

\* verifychain: VerifyDB at level 4 disconnects down to height lo, on a copy of
\* the coins, under cs_main.  (At startup it runs too, but that is initial
\* download.)
VerifyDB(lo) ==
  LET r == RewardsDisconnect([map |-> mDynamicRewards, table |-> table], lo, Len(chain))
  IN  /\ ~dead /\ ~ibd /\ verifying = 0
      /\ mDynamicRewards' = r.map /\ table' = r.table
      /\ verifying' = lo
      /\ exact' = {e \in exact : e < lo}
      /\ UNCHANGED <<chain, diskChain, initiated, ibd, dead, verifyError>>

\* It connects the next block again.  The coins read at an epoch height are
\* those of the tip.
VerifyDB_Connect ==
  LET h == verifying
      r == RewardsConnect(Init_Entries, h, chain[h].mint, FlushedForReward(h))
  IN  /\ verifying # 0
      /\ Rewardable(chain[h], h)
      /\ mDynamicRewards' = r.map /\ table' = r.table
      /\ initiated' = TRUE
      /\ diskChain' = FlushedForReward(h)
      /\ verifying' = IF h = Len(chain) THEN 0 ELSE h + 1
      /\ UNCHANGED <<chain, ibd, dead, verifyError, exact>>

\* "found unconnectable block": it mints too much, or the insertion fails.
VerifyDB_Error ==
  /\ ~dead /\ verifying # 0
  /\ \/ /\ ~Passes(chain[verifying], verifying)
        /\ UNCHANGED <<mDynamicRewards, table, initiated, diskChain>>
     \/ InsertFails(chain[verifying], verifying)
  /\ verifying' = 0 /\ verifyError' = TRUE
  /\ UNCHANGED <<chain, ibd, dead, exact>>

-----------------------------------------------------------------------------
(* Restarts.                                                               *)

SamePrefix(c, d, h) == h =< Len(c) /\ h =< Len(d) /\ SubSeq(c, 1, h) = SubSeq(d, 1, h)

\* A new process on the coins of chain c.  The table is opened later.
Start(c) ==
  /\ chain' = c
  /\ diskChain' = c
  /\ mDynamicRewards' = NoEntries
  /\ initiated' = FALSE /\ ibd' = TRUE /\ dead' = FALSE
  /\ verifying' = 0 /\ verifyError' = FALSE

Restart ==
  /\ Start(diskChain)
  /\ exact' = {e \in exact : SamePrefix(chain, diskChain, e)}
  /\ UNCHANGED table

\* The process dies after the reward of b reached the table.
CrashInConnect(b) ==
  LET h == Len(chain) + 1 IN
  /\ Rewardable(b, h) /\ verifying = 0
  /\ table' = RewardsConnect(Init_Entries, h, b.mint, FlushedForReward(h)).table
  /\ Start(FlushedForReward(h))
  /\ exact' = {e \in exact : SamePrefix(chain, FlushedForReward(h), e)}

\* The process dies between the deletion from the table and the flush.
CrashInDisconnect ==
  /\ ~dead /\ ~ibd /\ verifying = 0 /\ chain # <<>>
  /\ table' = RewardsDisconnect([map |-> mDynamicRewards, table |-> table], Len(chain), Len(chain)).table
  /\ Start(diskChain)
  /\ exact' = {e \in exact \ {Len(chain)} : SamePrefix(chain, diskChain, e)}

\* -reindex: the coins are rebuilt; CRewards::Init would delete the table, but
\* only if it ran while the flag is set, and that is initial download.
Reindex ==
  /\ Start(<<>>)
  /\ exact' = {}
  /\ UNCHANGED table

Next ==
  \/ LeaveIBD
  \/ \E b \in NextBlocks : ConnectTip_IBD(b)
  \/ \E b \in NextBlocks : ConnectTip(b)
  \/ \E b \in NextBlocks : ConnectTip_Fails(b)
  \/ Init_NullRead
  \/ DisconnectTip
  \/ Flush
  \/ \E lo \in 1 .. Len(chain) : VerifyDB(lo)
  \/ VerifyDB_Connect
  \/ VerifyDB_Error
  \/ Restart
  \/ \E b \in NextBlocks : CrashInConnect(b)
  \/ CrashInDisconnect
  \/ Reindex

Spec == Init /\ [][Next]_vars

-----------------------------------------------------------------------------
(* Properties.                                                             *)

\* What a restart will load is what the process works with: once initiated,
\* the table and mDynamicRewards have the same entries up to the tip, although
\* DisconnectBlock deletes one entry from the map and a range from the table,
\* and the map is written first.  The epoch in which the rewards begin is the
\* exception, and any epoch that a failed verifychain left without an entry:
\* if its insertion fails, memory has it and nobody tries again.
TableMatchesMap ==
  LET epochs == GetDynamicRewardsEpochHeight(nFeatureStartHeight) + 1 .. Len(chain)
  IN  initiated /\ ~verifyError =>
        Restricted(mDynamicRewards, epochs) = Restricted(table, epochs)

\* The reward of an epoch whose first block was connected outside of initial
\* download is the one that follows from the chain alone, in the table and in
\* memory, whatever failed, crashed or was reorganised before: all nodes that
\* saw the block arrive validate the epoch against the same value.
LiveRewardsExact ==
  \A e \in exact :
    /\ e \in DOMAIN table /\ table[e] = EntriesOf(chain)[e]
    /\ initiated => mDynamicRewards[e] = EntriesOf(chain)[e]

\* The fallback to the static table is never taken after the first epoch: a
\* process that has loaded the table has an entry for every epoch up to the
\* tip, unless VerifyDB is running or stopped with an error half way.
EpochHasReward ==
  initiated /\ ~verifyError /\ verifying = 0 =>
    EpochsOf(chain) \subseteq DOMAIN mDynamicRewards

\* "Fill any gap that could exist using the blockchain files": whatever the
\* height of the tip, CRewards::Init finds the block it reads.
InitFindsBlocks == ~dead
=============================================================================
