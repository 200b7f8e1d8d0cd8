------------------------------- MODULE Mempool -------------------------------
(***************************************************************************)
(* txmempool.cpp and the parts of main.cpp that drive it: CTxMemPool with  *)
(* its parent and child links, mapNextTx and descendant totals; what       *)
(* ConnectTip and DisconnectTip do to it; and the orphan transactions.     *)
(*                                                                         *)
(* A step is one section of cs_main.  The handler of a "tx" message is two *)
(* such sections, so that blocks, RPC calls and closing connections come   *)
(* between them.                                                           *)
(*                                                                         *)
(* The transactions and blocks that can ever exist are constants.  An      *)
(* output is a pair of a transaction and an index.  Every transaction has  *)
(* size 1, -maxmempool is a number of entries, and the clock is left out:  *)
(* any set of entries may have expired.  recentRejects only filters inv    *)
(* messages, priorities and mapDeltas only order the transactions of a new *)
(* block, and the rolling minimum fee is only reported: they are left out. *)
(***************************************************************************)
EXTENDS Chains, Sequences, SequencesExt, FiniteSetsExt, Functions, TLC

CONSTANTS Txs,
          Coinbases,     \* the coinbase and coinstake transactions
          Vin,           \* Vin[t]: the outputs t spends
          VoutSize,      \* VoutSize[t]: number of outputs
          Fee,
          LockTime,      \* nLockTime, a height
          Verdict,       \* what the remaining checks of a transaction say
          Vtx,           \* Vtx[b]: the transactions of a block, in order
          BadBlocks,     \* blocks ConnectBlock refuses
          Peers,
          Relays,        \* Relays[t]: the peers that send t
          MaxMempool,    \* -maxmempool, in entries
          MaxVisit,      \* maxDescendantsToVisit (100 in the code)
          AncestorLimit, DescendantLimit,
          Maturity,      \* nCoinbaseMaturity
          MaxOrphans,    \* -maxorphantx
          MaxInvalidate  \* bound: calls of invalidateblock

ASSUME MempoolAssumption ==
  /\ Coinbases \subseteq Txs
  /\ Vin \in [Txs -> SUBSET (Txs \X Nat)]
  /\ \A t \in Txs : \A o \in Vin[t] : o[2] < VoutSize[o[1]]
  /\ Fee \in [Txs -> Nat]
  /\ Verdict \in [Txs -> {"ok", "policy", "dos"}]
  /\ Relays \in [Txs -> SUBSET Peers]
  /\ Vtx \in [Blocks -> Seq(Txs)]
  /\ {MaxMempool, MaxVisit, AncestorLimit, DescendantLimit, Maturity, MaxOrphans} \subseteq Nat

Outputs(t) == {t} \X (0 .. VoutSize[t] - 1)

Confirmed == [b \in Blocks |-> UNION {ToSet(Vtx[x]) : x \in Ancestors[b]}]

\* pcoinsTip when the best block is b.
Coins ==
  [b \in Blocks |->
     UNION {Outputs(t) : t \in Confirmed[b]} \ UNION {Vin[t] : t \in Confirmed[b]}]

\* Coin::nHeight of an output that is on b's chain.
CoinHeight(o, b) == nHeight[CHOOSE x \in Ancestors[b] : o[1] \in ToSet(Vtx[x])]

VARIABLES pool,     \* [tx |-> mapTx with mapLinks, next |-> mapNextTx,
                    \*  ok |-> no assertion has failed]
          orphans,  \* mapOrphanTransactions: transaction -> fromPeer
          byPrev,   \* mapOrphanTransactionsByPrev
          tip,      \* chainActive.Tip()
          failed,   \* blocks marked failed
          handling, \* the "tx" message between its two sections of cs_main
          invalidations,
          stranded  \* TrimToSize evicted a transaction that DisconnectTip had
                    \* re-added and not linked yet

vars == <<pool, orphans, byPrev, tip, failed, handling, invalidations, stranded>>

chainVars == <<tip, failed, invalidations, stranded>>
orphanVars == <<orphans, byPrev>>

EmptyPool == [tx |-> <<>>, next |-> <<>>, ok |-> TRUE]

Pooled(p) == DOMAIN p.tx

Idle == <<"idle">>

-----------------------------------------------------------------------------
(* CTxMemPool.                                                             *)

TotalFee(S) == MapThenSumSet(LAMBDA t : Fee[t], S)

\* The entries reached from S along the parent links, S included.
Upward(p, S) ==
  LET up[X \in SUBSET Txs] ==
        LET Y == X \cup UNION {p.tx[t].parents : t \in X} IN IF Y = X THEN X ELSE up[Y]
  IN  up[S]

\* CalculateDescendants: along the child links, S included.
CalculateDescendants(p, S) ==
  LET down[X \in SUBSET Txs] ==
        LET Y == X \cup UNION {p.tx[t].children : t \in X} IN IF Y = X THEN X ELSE down[Y]
  IN  down[S]

\* The entries whose outputs t spends.
ParentsInPool(p, t) == {o[1] : o \in Vin[t]} \cap Pooled(p)

IsDirty(e) == e.count = 0

SizeWithDescendants(e) == IF IsDirty(e) THEN 1 ELSE e.count

\* CTxMemPoolEntry::UpdateState
UpdateState(e, fee, count) ==
  IF IsDirty(e) THEN e ELSE [e EXCEPT !.fees = @ + fee, !.count = @ + count]

\* Its assertions.
StateAsserts(e, fee, count) == IsDirty(e) \/ (e.count + count > 0 /\ e.fees + fee >= 0)

\* CalculateMemPoolAncestors(fSearchForParents), the ancestors themselves...
MemPoolAncestors(p, t) == Upward(p, ParentsInPool(p, t))

\* ... and its limits, which the two uses without limits do not have.
WithinLimits(p, t) ==
  LET anc == MemPoolAncestors(p, t) IN
  /\ Cardinality(anc) + 1 =< AncestorLimit
  /\ \A a \in anc : p.tx[a].count + 1 =< DescendantLimit

\* Mutant: only the parents learn of the new entry.
addUnchecked_ParentsOnly(p, t) ==
  LET anc   == ParentsInPool(p, t)
      entry == [count |-> 1, fees |-> Fee[t], parents |-> anc, children |-> {}]
      old   == [q \in Pooled(p) |->
                  LET e == IF q \in anc THEN [p.tx[q] EXCEPT !.children = @ \cup {t}] ELSE p.tx[q]
                  IN  IF q \in anc THEN UpdateState(e, Fee[t], 1) ELSE e]
  IN  [p EXCEPT !.tx = (t :> entry) @@ old, !.next = [o \in Vin[t] |-> t] @@ @]

\* addUnchecked: "Don't bother worrying about child transactions of this one."
addUnchecked(p, t) ==
  LET par   == ParentsInPool(p, t)
      anc   == MemPoolAncestors(p, t)
      entry == [count |-> 1, fees |-> Fee[t], parents |-> par, children |-> {}]
      old   == [q \in Pooled(p) |->
                  LET e == IF q \in par THEN [p.tx[q] EXCEPT !.children = @ \cup {t}] ELSE p.tx[q]
                  IN  IF q \in anc THEN UpdateState(e, Fee[t], 1) ELSE e]
  IN  [p EXCEPT !.tx = (t :> entry) @@ old, !.next = [o \in Vin[t] |-> t] @@ @]

\* RemoveStaged: UpdateForRemoveFromMempool, then removeUnchecked.
RemoveStaged(p, S) ==
  LET above   == [r \in S |-> Upward(p, p.tx[r].parents)]
      gone(q) == {r \in S : q \in above[r]}
      kept(q) == LET e == UpdateState(p.tx[q], -TotalFee(gone(q)), -Cardinality(gone(q)))
                 IN  [e EXCEPT !.parents = @ \ {r \in S : q \in p.tx[r].children},
                               !.children = @ \ {r \in S : q \in p.tx[r].parents}]
  IN  [tx   |-> [q \in Pooled(p) \ S |-> kept(q)],
       next |-> Restrict(p.next, DOMAIN p.next \ UNION {Vin[r] : r \in S}),
       ok   |-> /\ p.ok
                /\ \A q \in Pooled(p) :
                     StateAsserts(p.tx[q], -TotalFee(gone(q)), -Cardinality(gone(q)))]

\* The entries that spend outputs of t, from mapNextTx.
Spenders(p, t) == {p.next[o] : o \in Outputs(t) \cap DOMAIN p.next}

\* Mutant: the children of a transaction that is not in the pool are left.
remove_PresentOnly(p, t, fRecursive) ==
  LET start == {t} \cap Pooled(p)
  IN  RemoveStaged(p, IF fRecursive THEN CalculateDescendants(p, start) ELSE start)

\* CTxMemPool::remove
remove(p, t, fRecursive) ==
  LET start == IF t \in Pooled(p) THEN {t}
               ELSE IF fRecursive THEN Spenders(p, t) ELSE {}
      q     == [p EXCEPT !.ok = @ /\ start \subseteq Pooled(p)]
      all   == start \cap Pooled(p)
  IN  RemoveStaged(q, IF fRecursive THEN CalculateDescendants(p, all) ELSE all)

RemoveAll(p, S) == FoldSet(LAMBDA t, q : remove(q, t, TRUE), p, S)

\* removeConflicts
removeConflicts(p, t) ==
  FoldSet(LAMBDA o, q : IF o \in DOMAIN q.next /\ q.next[o] # t
                        THEN remove(q, q.next[o], TRUE) ELSE q,
          p, Vin[t])

\* removeForBlock
removeForBlock(p, b) ==
  FoldLeft(LAMBDA q, t : removeConflicts(remove(q, t, FALSE), t), p, Vtx[b])

\* IsFinalTx for a block at this height.
IsFinalTx(t, height) == LockTime[t] < height

\* CheckInputs' rule for a coin of b's chain, for a block at this height.
Immature(o, b, height) == o[1] \in Coinbases /\ height - CoinHeight(o, b) < Maturity

\* Mutant: coinbase coins are only looked at when they are gone.
removeForReorg_SpentOnly(p, b) ==
  RemoveAll(p, {t \in Pooled(p) :
    \/ ~IsFinalTx(t, nHeight[b] + 1)
    \/ \E o \in Vin[t] : o[1] \in Coinbases /\ o \notin Coins[b]})

\* removeForReorg, with the coins and the tip at b.
removeForReorg(p, b) ==
  RemoveAll(p, {t \in Pooled(p) :
    \/ ~IsFinalTx(t, nHeight[b] + 1)
    \/ /\ \E o \in Vin[t] : o[1] \in Coinbases
       /\ \E o \in Vin[t] : /\ o[1] \notin Pooled(p)
                            /\ o \notin Coins[b] \/ Immature(o, b, nHeight[b] + 1)})

\* CompareTxMemPoolEntryByFee, first by the better of the two fee rates.
FeeRate(p, t) ==
  LET e == p.tx[t] IN
  IF e.fees > Fee[t] * SizeWithDescendants(e)
  THEN [fees |-> e.fees, size |-> SizeWithDescendants(e)]
  ELSE [fees |-> Fee[t], size |-> 1]

LowestFeeRate(p) ==
  {t \in Pooled(p) : \A u \in Pooled(p) :
     FeeRate(p, t).fees * FeeRate(p, u).size =< FeeRate(p, u).fees * FeeRate(p, t).size}

\* One round of TrimToSize.
Evict(p) == {RemoveStaged(p, CalculateDescendants(p, {t})) : t \in LowestFeeRate(p)}

\* Mutant: the limit is exceeded by one.
Oversized_ByOne(p) == Cardinality(Pooled(p)) > MaxMempool + 1

\* DynamicMemoryUsage() > sizelimit
Oversized(p) == Cardinality(Pooled(p)) > MaxMempool

\* TrimToSize: the possible results (equal fee rates are in any order).
TrimToSize(p) ==
  IF Oversized(p)
  THEN FoldLeft(LAMBDA ps, i : UNION {IF Oversized(q) THEN Evict(q) ELSE {q} : q \in ps},
                {p}, [i \in 1 .. Cardinality(Pooled(p)) |-> i])
  ELSE {p}

\* LimitMempoolSize: Expire, for any set of old entries, then TrimToSize.
LimitMempoolSize(p) ==
  LET staged == {CalculateDescendants(p, old) : old \in SUBSET Pooled(p)}
  IN  UNION {TrimToSize(RemoveStaged(p, S)) : S \in staged}

\* UpdateForDescendants, and SetDirty when it gives up.  (The cache of
\* descendants only saves visits.)
UpdateForDescendants(p, t, block) ==
  LET below == CalculateDescendants(p, {t}) \ {t}
      new   == below \ block
  IN  [p EXCEPT !.tx[t] =
         IF \/ \E d \in below : IsDirty(p.tx[d])
            \/ Cardinality(new \ p.tx[t].children) > MaxVisit
         THEN [@ EXCEPT !.count = 0, !.fees = Fee[t]]
         ELSE UpdateState(@, TotalFee(new), Cardinality(new))]

\* Link t to the entries that spend it, except those of the block.
LinkChildren(p, t, block) ==
  LET new == Spenders(p, t) \ block IN
  [p EXCEPT !.ok = @ /\ Spenders(p, t) \subseteq Pooled(p),
            !.tx = [q \in DOMAIN @ |->
                      IF q = t THEN [@[q] EXCEPT !.children = @ \cup new]
                      ELSE IF q \in new THEN [@[q] EXCEPT !.parents = @ \cup {t}]
                      ELSE @[q]]]

\* Mutant: in the order of the block, so that children come after parents.
UpdateTransactionsFromBlock_Forward(p, hashes) ==
  FoldLeft(LAMBDA q, t : IF t \in Pooled(q)
                         THEN UpdateForDescendants(LinkChildren(q, t, ToSet(hashes)), t, ToSet(hashes))
                         ELSE q,
           p, hashes)

\* UpdateTransactionsFromBlock, in reverse order.
UpdateTransactionsFromBlock(p, hashes) ==
  FoldRight(LAMBDA t, q : IF t \in Pooled(q)
                          THEN UpdateForDescendants(LinkChildren(q, t, ToSet(hashes)), t, ToSet(hashes))
                          ELSE q,
            hashes, p)

-----------------------------------------------------------------------------
(* AcceptToMemoryPool.                                                     *)

\* CCoinsViewMemPool::HaveCoin over the coins at b.
HaveCoin(p, o, b) == o[1] \in Pooled(p) \/ o \in Coins[b]

Result(p, what) == [pool |-> p, what |-> what]

\* Before anything is stored: why the transaction is refused, or "ok".  The
\* coins are those of b; the height is chainActive's.
PreChecks(p, t, b, height) ==
  CASE Vin[t] = {} \/ t \in Coinbases             -> "dos"
    [] ~IsFinalTx(t, height + 1)                   -> "rejected"
    [] t \in Pooled(p)                             -> "rejected"
    [] Vin[t] \cap DOMAIN p.next # {}              -> "rejected"
    [] \E o \in Outputs(t) : HaveCoin(p, o, b)     -> "rejected"
    [] \E o \in Vin[t] : ~HaveCoin(p, o, b)        -> "missing"
    [] Verdict[t] = "policy"                       -> "rejected"
    [] ~WithinLimits(p, t)                         -> "rejected"
    [] \E o \in Vin[t] : /\ o[1] \notin Pooled(p)
                         /\ Immature(o, b, nHeight[b] + 1) -> "rejected"
    [] Verdict[t] = "dos"                          -> "dos"
    [] OTHER                                       -> "ok"

\* AcceptToMemoryPoolWorker: the possible outcomes.  TrimToSize is called with
\* fOverrideMempoolLimit as well.
AcceptToMemoryPool(p, t, b, height, fOverrideMempoolLimit) ==
  LET why     == PreChecks(p, t, b, height)
      added   == addUnchecked(p, t)
      limited == IF fOverrideMempoolLimit THEN {added} ELSE LimitMempoolSize(added)
      full    == UNION {IF t \in Pooled(q) THEN TrimToSize(q) ELSE {q} : q \in limited}
  IN  IF why # "ok" THEN {Result(p, why)}
      ELSE {Result(q, IF t \in Pooled(q) THEN "ok" ELSE "rejected") : q \in full}

-----------------------------------------------------------------------------
(* Transactions from peers and from RPC, and the orphans.                  *)

\* The outcomes at the active tip.
AcceptAtTip(p, t) == AcceptToMemoryPool(p, t, tip, nHeight[tip], FALSE)

\* sendrawtransaction, and the wallet: orphans are not looked at.
SendRawTransaction(t) ==
  /\ \E r \in AcceptAtTip(pool, t) : r.pool # pool /\ pool' = r.pool
  /\ UNCHANGED <<orphanVars, chainVars, handling>>

\* A "tx" message, the first section of cs_main.
TxMessage(t, peer) ==
  /\ handling = Idle
  /\ \E r \in AcceptAtTip(pool, t) :
       /\ pool' = r.pool
       /\ handling' = CASE r.what = "ok"      -> <<"accepted", t>>
                        [] r.what = "missing" -> <<"missing", t, peer>>
                        [] OTHER              -> Idle
  /\ UNCHANGED <<orphanVars, chainVars>>

\* mapOrphanTransactionsByPrev[hash], empty when absent.
WaitingFor(hash) == IF hash \in DOMAIN byPrev THEN byPrev[hash] ELSE {}

PrevHashes(t) == {o[1] : o \in Vin[t]}

\* Mutant: the index keeps the erased transactions.
EraseOrphanTxs_KeepsIndex(S) ==
  /\ orphans' = Restrict(orphans, DOMAIN orphans \ S)
  /\ UNCHANGED byPrev

\* EraseOrphanTx for every transaction in S.
EraseOrphanTxs(S) ==
  LET left(h) == byPrev[h] \ {t \in S \cap DOMAIN orphans : h \in PrevHashes(t)} IN
  /\ orphans' = Restrict(orphans, DOMAIN orphans \ S)
  /\ byPrev' = [h \in {x \in DOMAIN byPrev : left(x) # {}} |-> left(h)]

\* The work queue's inner loop for one orphan.
TryOrphan(s, t) ==
  IF orphans[t] \in s.misbehaving THEN {s}
  ELSE {CASE r.what = "ok"      -> [s EXCEPT !.pool = r.pool, !.queue = Append(@, t),
                                             !.erase = @ \cup {t}]
          [] r.what = "missing" -> s
          [] r.what = "dos"     -> [s EXCEPT !.erase = @ \cup {t},
                                             !.misbehaving = @ \cup {orphans[t]}]
          [] OTHER              -> [s EXCEPT !.pool = r.pool, !.erase = @ \cup {t}]
        : r \in AcceptAtTip(s.pool, t)}

RECURSIVE Resolve(_, _)

\* Mutant: orphans of accepted orphans are not looked at.
Resolve_OneLevel(s, i) ==
  FoldLeft(LAMBDA ss, t : UNION {TryOrphan(x, t) : x \in ss},
           {s}, SetToSeq(WaitingFor(s.queue[i])))

\* The work queue from its i-th element on: the possible outcomes.
Resolve(s, i) ==
  IF i > Len(s.queue) THEN {s}
  ELSE UNION {Resolve(x, i + 1)
              : x \in FoldLeft(LAMBDA ss, t : UNION {TryOrphan(x, t) : x \in ss},
                               {s}, SetToSeq(WaitingFor(s.queue[i])))}

\* The second section after an acceptance: "Recursively process any orphan
\* transactions that depended on this one".
ResolveOrphans ==
  /\ handling[1] = "accepted"
  /\ \E s \in Resolve([pool |-> pool, queue |-> <<handling[2]>>, erase |-> {},
                       misbehaving |-> {}], 1) :
       /\ pool' = s.pool
       /\ EraseOrphanTxs(s.erase)
  /\ handling' = Idle
  /\ UNCHANGED chainVars

\* The second section after missing inputs: AddOrphanTx, LimitOrphanTxSize.
KeepOrphan ==
  /\ handling[1] = "missing"
  /\ LET t   == handling[2]
         new == t \notin DOMAIN orphans
         all == IF new THEN (t :> handling[3]) @@ orphans ELSE orphans
         idx == IF new
                THEN [h \in DOMAIN byPrev \cup PrevHashes(t) |->
                        WaitingFor(h) \cup (IF h \in PrevHashes(t) THEN {t} ELSE {})]
                ELSE byPrev
     IN  \E evicted \in {S \in SUBSET DOMAIN all :
                           Cardinality(S) = IF Cardinality(DOMAIN all) > MaxOrphans
                                            THEN Cardinality(DOMAIN all) - MaxOrphans ELSE 0} :
           LET left(h) == idx[h] \ {x \in evicted : h \in PrevHashes(x)} IN
           /\ orphans' = Restrict(all, DOMAIN all \ evicted)
           /\ byPrev' = [h \in {x \in DOMAIN idx : left(x) # {}} |-> left(h)]
  /\ handling' = Idle
  /\ UNCHANGED <<pool, chainVars>>

\* FinalizeNode's EraseOrphansFor.  (The handler holds a reference to its peer.)
EraseOrphansFor(peer) ==
  /\ ~(handling[1] = "missing" /\ handling[3] = peer)
  /\ \E t \in DOMAIN orphans : orphans[t] = peer
  /\ EraseOrphanTxs({t \in DOMAIN orphans : orphans[t] = peer})
  /\ UNCHANGED <<pool, chainVars, handling>>

-----------------------------------------------------------------------------
(* Blocks.                                                                 *)

\* DisconnectTip's treatment of one transaction of the block b.
Resurrect(s, t, b) ==
  IF t \in Coinbases THEN {[s EXCEPT !.pool = remove(@, t, TRUE)]}
  ELSE {IF r.what = "ok" THEN [s EXCEPT !.pool = r.pool, !.hashes = Append(@, t)]
        ELSE [s EXCEPT !.pool = remove(r.pool, t, TRUE)]
        : r \in AcceptToMemoryPool(s.pool, t, Parent[b], nHeight[b], TRUE)}

\* DisconnectTip, when b is the tip: the coins are already at its parent,
\* chainActive is not.
DisconnectTip(s, b) ==
  {[pool     |-> UpdateTransactionsFromBlock(x.pool, x.hashes),
    stranded |-> \/ s.stranded
                 \/ \E h \in ToSet(x.hashes) \ Pooled(x.pool) : Spenders(x.pool, h) # {}]
   : x \in FoldLeft(LAMBDA ss, t : UNION {Resurrect(x, t, b) : x \in ss},
                    {[pool |-> s.pool, hashes |-> <<>>]}, Vtx[b])}

\* DisconnectTip from the tip down to the blocks in S.
DisconnectAll(S) ==
  FoldLeft(LAMBDA ss, b : UNION {DisconnectTip(s, b) : s \in ss},
           {[pool |-> pool, stranded |-> stranded]},
           SetToSortSeq(S, LAMBDA x, y : nHeight[x] > nHeight[y]))

\* ActivateBestChainStep towards mw, a longer chain without a failed block: the
\* block it stops at is refused or higher than the old tip.
StopBlock(mw) ==
  LET stops == {x \in Ancestors[mw] \ Ancestors[tip] : x \in BadBlocks \/ nHeight[x] > nHeight[tip]}
  IN  CHOOSE x \in stops : \A y \in stops : nHeight[x] =< nHeight[y]

ActivateBestChainStep(mw) ==
  LET stop == StopBlock(mw)
      to   == IF stop \in BadBlocks THEN Parent[stop] ELSE stop
      path == SetToSortSeq(Ancestors[to] \ Ancestors[tip], LAMBDA x, y : nHeight[x] < nHeight[y])
      back == Ancestors[tip] \ Ancestors[mw]
  IN  /\ nHeight[mw] > nHeight[tip]
      /\ Ancestors[mw] \cap failed = {}
      /\ \E s \in DisconnectAll(back) :
           LET connected == FoldLeft(LAMBDA p, b : removeForBlock(p, b), s.pool, path) IN
           /\ pool' \in IF back = {} THEN {connected}
                        ELSE LimitMempoolSize(removeForReorg(connected, to))
           /\ stranded' = s.stranded
      /\ tip' = to
      /\ failed' = failed \cup ({stop} \cap BadBlocks)
      /\ UNCHANGED <<orphanVars, handling, invalidations>>

\* invalidateblock of an active block.
InvalidateBlock(b) ==
  /\ invalidations < MaxInvalidate
  /\ b \in Ancestors[tip] \ {Genesis}
  /\ \E s \in DisconnectAll(Ancestors[tip] \ Ancestors[Parent[b]]) :
       /\ \E p \in LimitMempoolSize(s.pool) : pool' = removeForReorg(p, Parent[b])
       /\ stranded' = s.stranded
  /\ tip' = Parent[b]
  /\ failed' = failed \cup {b}
  /\ invalidations' = invalidations + 1
  /\ UNCHANGED <<orphanVars, handling>>

Init ==
  /\ pool = EmptyPool
  /\ orphans = <<>> /\ byPrev = <<>>
  /\ tip = Genesis /\ failed = {}
  /\ handling = Idle
  /\ invalidations = 0 /\ stranded = FALSE

Next ==
  \/ \E t \in Txs : SendRawTransaction(t)
  \/ \E t \in Txs : \E peer \in Relays[t] : TxMessage(t, peer)
  \/ ResolveOrphans
  \/ KeepOrphan
  \/ \E peer \in Peers : EraseOrphansFor(peer)
  \/ \E mw \in Blocks : ActivateBestChainStep(mw)
  \/ \E b \in Blocks : InvalidateBlock(b)

Spec == Init /\ [][Next]_vars

-----------------------------------------------------------------------------
(* Properties.                                                             *)

\* CTxMemPool::check, the inputs: every input of an entry is an output of
\* another entry or an unspent coin of the active chain, mapNextTx holds exactly
\* the inputs of the entries, and so no two of them conflict, whatever blocks
\* were connected and disconnected.  The one exception the code has: an entry
\* stays without its parent when TrimToSize, called for a transaction of the
\* block that is being disconnected, evicts the parent.
InputsAvailable ==
  ~stranded =>
    /\ \A t \in Pooled(pool) : \A o \in Vin[t] :
         /\ HaveCoin(pool, o, tip)
         /\ o \in DOMAIN pool.next /\ pool.next[o] = t
    /\ DOMAIN pool.next = UNION {Vin[t] : t \in Pooled(pool)}
    /\ Pooled(pool) \cap Confirmed[tip] = {}

\* The entries that really depend on t.
TrueDescendants(t) ==
  LET down[X \in SUBSET Txs] ==
        LET Y == X \cup {u \in Pooled(pool) : PrevHashes(u) \cap X # {}}
        IN  IF Y = X THEN X ELSE down[Y]
  IN  down[{t}]

\* What TrimToSize and the descendant limit rely on: the links are exactly
\* "spends an output of", and the totals of an entry that is not dirty are the
\* count and the fees of its descendants, although blocks give back parents of
\* entries that are already there.
DescendantTotalsExact ==
  ~stranded =>
    \A t \in Pooled(pool) :
      LET e == pool.tx[t] IN
      /\ e.parents = ParentsInPool(pool, t)
      /\ e.children = {u \in Pooled(pool) : t \in PrevHashes(u)}
      /\ IF IsDirty(e) THEN e.fees = Fee[t]
         ELSE /\ e.count = Cardinality(TrueDescendants(t))
              /\ e.fees = TotalFee(TrueDescendants(t))

\* No assertion of UpdateState, remove or UpdateTransactionsFromBlock fails,
\* not even in the inconsistent states in the middle of a reorganization.
AssertionsHold == pool.ok

\* Every entry may be in the next block: it is final at the next height and the
\* coinbase coins it spends are mature there, also after the tip went down.
PoolIsMinable ==
  ~stranded =>
    \A t \in Pooled(pool) :
      /\ IsFinalTx(t, nHeight[tip] + 1)
      /\ \A o \in Vin[t] : o[1] \notin Pooled(pool) => ~Immature(o, tip, nHeight[tip] + 1)

\* The pool and the orphans respect their limits whenever cs_main is free.
WithinBounds ==
  /\ Cardinality(Pooled(pool)) =< MaxMempool
  /\ Cardinality(DOMAIN orphans) =< MaxOrphans

\* The index by previous transaction is the inverse of the orphans' inputs: the
\* handler reads mapOrphanTransactions[hash] of what it finds there, which would
\* create an empty entry for one that was erased.
OrphanIndexExact ==
  /\ DOMAIN byPrev = UNION {PrevHashes(t) : t \in DOMAIN orphans}
  /\ \A h \in DOMAIN byPrev : byPrev[h] = {t \in DOMAIN orphans : h \in PrevHashes(t)}

\* After an acceptance was handled, an orphan that spends the accepted
\* transaction, or one of the orphans accepted because of it, is still missing
\* inputs, or came from a peer that also sent an invalid one.
OrphansAreResolved ==
  [][handling[1] = "accepted" /\ handling' = Idle =>
       \A t \in DOMAIN orphans' :
         \/ PrevHashes(t) \cap ({handling[2]} \cup (Pooled(pool') \ Pooled(pool))) = {}
         \/ \E o \in Vin[t] : ~HaveCoin(pool', o, tip)
         \/ \E u \in DOMAIN orphans \ DOMAIN orphans' : orphans[u] = orphans[t] /\ Verdict[u] = "dos"]_vars
=============================================================================
