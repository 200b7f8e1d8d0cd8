----------------------------- MODULE CoinsCache -----------------------------
(***************************************************************************)
(* coins.cpp, txdb.cpp: the coins database (CCoinsViewDB), the process-    *)
(* wide cache on top of it (pcoinsTip) and the short-lived cache stacked   *)
(* on that while ConnectTip or DisconnectTip works on one block (view).    *)
(*                                                                         *)
(* A cache maps an outpoint to an entry or to Absent.  An entry carries    *)
(* the coin and the DIRTY and FRESH flags of CCoinsCacheEntry.  Reading    *)
(* through a cache fills it, so "const" getters are steps here.            *)
(***************************************************************************)
CONSTANTS OutPoints,   \* COutPoint
          Coins,       \* contents of an unspent Coin
          NoCoin,      \* a Coin for which IsSpent() holds
          Hashes,      \* block hashes
          NullHash,    \* a uint256 for which IsNull() holds
          Absent       \* no entry in cacheCoins

\* CCoinsCacheEntry
Entry == [coin : Coins \cup {NoCoin}, flags : SUBSET {"DIRTY", "FRESH"}]

ASSUME ConstantsAssumption ==
  /\ NoCoin \notin Coins
  /\ NullHash \notin Hashes
  /\ Absent \notin Entry

VARIABLES db,        \* the coins in the chainstate database
          dbBest,    \* DB_BEST_BLOCK
          tip,       \* pcoinsTip->cacheCoins
          tipBest,   \* pcoinsTip->hashBlock
          view,      \* view.cacheCoins of ConnectTip / DisconnectTip
          viewBest,  \* view.hashBlock
          viewOpen,  \* the scope that owns view is running (cs_main held)
          threw      \* a std::logic_error left AddCoin or BatchWrite

vars == <<db, dbBest, tip, tipBest, view, viewBest, viewOpen, threw>>

Empty == [o \in OutPoints |-> Absent]

-----------------------------------------------------------------------------
(* One cache.                                                              *)

\* FetchCoin: keep an entry that is there, else copy what the base returned.
\* A spent copy is FRESH: the base has nothing spendable under it.
Fill(cache, o, found, c) ==
  IF cache[o] # Absent \/ ~found
  THEN cache
  ELSE [cache EXCEPT ![o] = [coin |-> c, flags |-> IF c = NoCoin THEN {"FRESH"} ELSE {}]]

\* pcoinsTip->FetchCoin(o); CCoinsViewDB::GetCoin finds unspent coins only.
TipFetched(o) == Fill(tip, o, db[o] # NoCoin, db[o])

\* view.FetchCoin(o) first looks into view; only a miss reaches pcoinsTip.
TipAfterViewFetch(o) == IF view[o] # Absent THEN tip ELSE TipFetched(o)

ViewFetched(o) ==
  LET t == TipAfterViewFetch(o)
  IN  Fill(view, o, t[o] # Absent, IF t[o] = Absent THEN NoCoin ELSE t[o].coin)

\* Mutant: forgets that a modified entry may hide an unspent coin below.
Added_AlwaysFresh(e, c) == [coin |-> c, flags |-> {"DIRTY", "FRESH"}]

\* The entry AddCoin(o, c, false) leaves.
Added(e, c) ==
  [coin  |-> c,
   flags |-> IF e # Absent /\ "DIRTY" \in e.flags
             THEN e.flags
             ELSE {"DIRTY", "FRESH"}]

\* The entry SpendCoin leaves after FetchCoin produced e.
Spent(e) ==
  IF e = Absent \/ "FRESH" \in e.flags
  THEN Absent
  ELSE [coin |-> NoCoin, flags |-> e.flags \cup {"DIRTY"}]

\* Mutant: copies the child's FRESH flag over a pruned parent entry.
Merged_CopiesFresh(p, c) ==
  IF c = Absent \/ "DIRTY" \notin c.flags THEN p
  ELSE [coin |-> c.coin, flags |-> c.flags \cup (IF p = Absent THEN {} ELSE p.flags)]

\* BatchWrite of the child's entry c over the parent's entry p.  An entry the
\* grandparent does not have is deleted when the child spent it; the FRESH flag
\* of the child is only passed on when the parent had no entry.
Merged(p, c) ==
  IF c = Absent \/ "DIRTY" \notin c.flags THEN p
  ELSE LET flags == IF p = Absent THEN c.flags ELSE p.flags \cup {"DIRTY"}
       IN  IF "FRESH" \in flags /\ c.coin = NoCoin
           THEN Absent
           ELSE [coin |-> c.coin, flags |-> flags]

\* "FRESH flag misapplied to cache entry for base transaction ..."
Misapplied(p, c) ==
  /\ c # Absent /\ {"DIRTY", "FRESH"} \subseteq c.flags
  /\ p # Absent /\ p.coin # NoCoin

\* CCoinsViewDB::BatchWrite of one entry.
Written(d, e) == IF e # Absent /\ "DIRTY" \in e.flags THEN e.coin ELSE d

-----------------------------------------------------------------------------
(* What the stack of caches answers.                                       *)

\* pcoinsTip->AccessCoin
TipCoin(o) == IF tip[o] # Absent THEN tip[o].coin ELSE db[o]

\* view.AccessCoin
ViewCoin(o) == IF view[o] # Absent THEN view[o].coin ELSE TipCoin(o)

\* GetBestBlock falls through to the base while hashBlock is null.
TipBestBlock == IF tipBest # NullHash THEN tipBest ELSE dbBest

ViewBestBlock == IF viewBest # NullHash THEN viewBest ELSE TipBestBlock

-----------------------------------------------------------------------------
Init ==
  /\ db = [o \in OutPoints |-> NoCoin]
  /\ dbBest \in Hashes
  /\ tip = Empty
  /\ tipBest = NullHash
  /\ view = Empty
  /\ viewBest = NullHash
  /\ viewOpen = FALSE
  /\ threw = FALSE

\* ConnectTip / DisconnectTip construct view; the first thing ConnectBlock and
\* DisconnectBlock ask of it is GetBestBlock, which caches the hash in both.
OpenView ==
  /\ ~viewOpen
  /\ viewOpen' = TRUE
  /\ view' = Empty
  /\ viewBest' = TipBestBlock
  /\ tipBest' = TipBestBlock
  /\ UNCHANGED <<db, dbBest, tip, threw>>

\* view.AccessCoin / HaveCoin / GetCoin
ReadView(o) ==
  /\ viewOpen
  /\ view' = ViewFetched(o)
  /\ tip' = TipAfterViewFetch(o)
  /\ UNCHANGED <<db, dbBest, tipBest, viewBest, viewOpen, threw>>

\* pcoinsTip reads from the mempool, the RPC server and the masternode code:
\* they hold cs_main, hence never while a block is being applied.
ReadTip(o) ==
  /\ ~viewOpen
  /\ tip' = TipFetched(o)
  /\ UNCHANGED <<db, dbBest, tipBest, view, viewBest, viewOpen, threw>>

\* view.AddCoin(o, c, false), from AddCoins and ApplyTxInUndo.  The callers
\* create only outputs that do not exist ("overwrites are never possible").
AddCoin(o, c) ==
  /\ viewOpen
  /\ ViewCoin(o) = NoCoin
  /\ IF view[o] # Absent /\ view[o].coin # NoCoin
     THEN threw' = TRUE /\ UNCHANGED view
     ELSE view' = [view EXCEPT ![o] = Added(view[o], c)] /\ UNCHANGED threw
  /\ UNCHANGED <<db, dbBest, tip, tipBest, viewBest, viewOpen>>

\* view.SpendCoin(o)
SpendCoin(o) ==
  /\ viewOpen
  /\ view' = [view EXCEPT ![o] = Spent(ViewFetched(o)[o])]
  /\ tip' = TipAfterViewFetch(o)
  /\ UNCHANGED <<db, dbBest, tipBest, viewBest, viewOpen, threw>>

\* view.SetBestBlock(h)
SetBestBlock(h) ==
  /\ viewOpen
  /\ viewBest' = h
  /\ UNCHANGED <<db, dbBest, tip, tipBest, view, viewOpen, threw>>

\* view.Flush(): BatchWrite into pcoinsTip, then the scope ends.
FlushView ==
  /\ viewOpen
  /\ IF \E o \in OutPoints : Misapplied(tip[o], view[o])
     THEN threw' = TRUE /\ UNCHANGED <<tip, tipBest>>
     ELSE /\ tip' = [o \in OutPoints |-> Merged(tip[o], view[o])]
          /\ tipBest' = viewBest
          /\ UNCHANGED threw
  /\ view' = Empty
  /\ viewBest' = NullHash
  /\ viewOpen' = FALSE
  /\ UNCHANGED <<db, dbBest>>

\* ConnectBlock or DisconnectBlock failed: view goes out of scope unflushed.
DropView ==
  /\ viewOpen
  /\ view' = Empty
  /\ viewBest' = NullHash
  /\ viewOpen' = FALSE
  /\ UNCHANGED <<db, dbBest, tip, tipBest, threw>>

\* FlushStateToDisk: pcoinsTip->Flush() writes one LevelDB batch.  It also
\* runs with view open: CRewards::ConnectBlock calls it in mid-block.
FlushTip ==
  /\ db' = [o \in OutPoints |-> Written(db[o], tip[o])]
  /\ dbBest' = TipBestBlock
  /\ tip' = Empty
  /\ UNCHANGED <<tipBest, view, viewBest, viewOpen, threw>>

\* Mutant: evicts modified entries too.
Uncache_Modified(o) ==
  /\ ~viewOpen
  /\ tip[o] # Absent
  /\ tip' = [tip EXCEPT ![o] = Absent]
  /\ UNCHANGED <<db, dbBest, tipBest, view, viewBest, viewOpen, threw>>

\* pcoinsTip->Uncache(o)
Uncache(o) ==
  /\ ~viewOpen
  /\ tip[o] # Absent
  /\ tip[o].flags = {}
  /\ tip' = [tip EXCEPT ![o] = Absent]
  /\ UNCHANGED <<db, dbBest, tipBest, view, viewBest, viewOpen, threw>>

\* The process dies; the database keeps its last complete batch.
Crash ==
  /\ tip' = Empty
  /\ tipBest' = NullHash
  /\ view' = Empty
  /\ viewBest' = NullHash
  /\ viewOpen' = FALSE
  /\ UNCHANGED <<db, dbBest, threw>>

Next ==
  \/ OpenView
  \/ \E o \in OutPoints : ReadView(o)
  \/ \E o \in OutPoints : ReadTip(o)
  \/ \E o \in OutPoints, c \in Coins : AddCoin(o, c)
  \/ \E o \in OutPoints : SpendCoin(o)
  \/ \E h \in Hashes : SetBestBlock(h)
  \/ FlushView
  \/ DropView
  \/ FlushTip
  \/ \E o \in OutPoints : Uncache(o)
  \/ Crash

Spec == Init /\ [][Next]_vars

-----------------------------------------------------------------------------
(* Properties.                                                             *)

Caches == [OutPoints -> Entry \cup {Absent}]

\* Types; a closed view holds nothing; an open one knows its block, as
\* ConnectBlock and DisconnectBlock rely on when they flush it.
TypeOK ==
  /\ db \in [OutPoints -> Coins \cup {NoCoin}]
  /\ dbBest \in Hashes
  /\ tip \in Caches
  /\ tipBest \in Hashes \cup {NullHash}
  /\ view \in Caches
  /\ viewBest \in Hashes \cup {NullHash}
  /\ viewOpen \in BOOLEAN
  /\ threw \in BOOLEAN
  /\ viewOpen => viewBest \in Hashes /\ tipBest \in Hashes
  /\ ~viewOpen => view = Empty

\* As long as callers only create outputs that do not exist, neither logic
\* error of coins.cpp (AddCoin, BatchWrite) is ever raised, whatever reads,
\* evictions and flushes happened in between.
NeverThrows == ~threw

\* An entry e over a base holding coin b keeps what coins.h says of the flags:
\* without DIRTY it is the parent's version, FRESH means that the parent has
\* nothing spendable, and a spent entry that is FRESH was never modified.
EntrySound(e, b) ==
  e # Absent =>
    /\ "DIRTY" \notin e.flags => e.coin = b
    /\ "FRESH" \in e.flags => b = NoCoin
    /\ {"DIRTY", "FRESH"} \subseteq e.flags => e.coin # NoCoin

\* Both levels of cache keep the flags sound, also when pcoinsTip is flushed
\* under an open view.
FlagsSound ==
  \A o \in OutPoints : EntrySound(tip[o], db[o]) /\ EntrySound(view[o], TipCoin(o))

\* The caches are invisible: seen through AccessCoin and GetBestBlock the
\* three levels behave as UtxoSet, so a block takes effect as a whole or not
\* at all, and a restart finds the coins and the best block of one moment.
Utxo == INSTANCE UtxoSet WITH
  durable   <- [coins |-> db, best |-> dbBest],
  committed <- [coins |-> [o \in OutPoints |-> TipCoin(o)], best |-> TipBestBlock],
  working   <- [coins |-> [o \in OutPoints |-> ViewCoin(o)], best |-> ViewBestBlock],
  open      <- viewOpen

ImplementsUtxoSet == Utxo!Spec
=============================================================================
