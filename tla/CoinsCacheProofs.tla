-------------------------- MODULE CoinsCacheProofs --------------------------
(***************************************************************************)
(* Proofs about CoinsCache for every set of outpoints, coins and hashes.   *)
(* The inductive invariant is TypeOK /\ NeverThrows /\ FlagsSound: neither *)
(* of the last two is inductive alone.  The logic errors are unreachable   *)
(* because FRESH is never set over a spendable coin, and FRESH stays true  *)
(* because DIRTY entries are never dropped and the view is merged whole.   *)
(***************************************************************************)
EXTENDS CoinsCache, TLAPS

Inv == TypeOK /\ NeverThrows /\ FlagsSound

-----------------------------------------------------------------------------
(* Facts about one cache entry.                                            *)

\* FetchCoin never changes what a cache answers, and keeps its flags sound.
LEMMA FillSound ==
  ASSUME NEW cache \in Caches, NEW o \in OutPoints, NEW found \in BOOLEAN,
         NEW b \in Coins \cup {NoCoin}, ~found => b = NoCoin,
         EntrySound(cache[o], b)
  PROVE  /\ Fill(cache, o, found, b) \in Caches
         /\ EntrySound(Fill(cache, o, found, b)[o], b)
         /\ Fill(cache, o, found, b)[o] # Absent => cache[o] # Absent \/ found
         /\ (IF Fill(cache, o, found, b)[o] # Absent
             THEN Fill(cache, o, found, b)[o].coin ELSE b)
            = (IF cache[o] # Absent THEN cache[o].coin ELSE b)
         /\ \A p \in OutPoints : p # o => Fill(cache, o, found, b)[p] = cache[p]
  BY ConstantsAssumption DEF Fill, Caches, Entry, EntrySound

\* AddCoin over a spent or missing entry of a sound cache is sound.
LEMMA AddedSound ==
  ASSUME NEW e \in Entry \cup {Absent}, NEW b \in Coins \cup {NoCoin},
         NEW c \in Coins, EntrySound(e, b),
         (IF e # Absent THEN e.coin ELSE b) = NoCoin
  PROVE  Added(e, c) \in Entry /\ Added(e, c).coin = c /\ EntrySound(Added(e, c), b)
  BY ConstantsAssumption DEF Added, Entry, EntrySound

\* SpendCoin leaves an entry that answers "spent" and is sound.
LEMMA SpentSound ==
  ASSUME NEW e \in Entry \cup {Absent}, NEW b \in Coins \cup {NoCoin},
         EntrySound(e, b), e = Absent => b = NoCoin
  PROVE  /\ Spent(e) \in Entry \cup {Absent}
         /\ EntrySound(Spent(e), b)
         /\ (IF Spent(e) # Absent THEN Spent(e).coin ELSE b) = NoCoin
  BY ConstantsAssumption DEF Spent, Entry, EntrySound

\* BatchWrite of a sound child over a sound parent: it never throws, the
\* parent then answers what the child answered, and stays sound.
LEMMA MergedSound ==
  ASSUME NEW p \in Entry \cup {Absent}, NEW c \in Entry \cup {Absent},
         NEW b \in Coins \cup {NoCoin}, EntrySound(p, b),
         EntrySound(c, IF p # Absent THEN p.coin ELSE b)
  PROVE  /\ ~Misapplied(p, c)
         /\ Merged(p, c) \in Entry \cup {Absent}
         /\ EntrySound(Merged(p, c), b)
         /\ (IF Merged(p, c) # Absent THEN Merged(p, c).coin ELSE b)
            = (IF c # Absent THEN c.coin ELSE IF p # Absent THEN p.coin ELSE b)
<1>1. CASE c = Absent \/ "DIRTY" \notin c.flags
  BY <1>1, ConstantsAssumption DEF Merged, Misapplied, Entry, EntrySound
<1>2. CASE c # Absent /\ "DIRTY" \in c.flags /\ p = Absent
  BY <1>2, ConstantsAssumption DEF Merged, Misapplied, Entry, EntrySound
<1>3. CASE c # Absent /\ "DIRTY" \in c.flags /\ p # Absent
  BY <1>3, ConstantsAssumption DEF Merged, Misapplied, Entry, EntrySound
<1> QED BY <1>1, <1>2, <1>3

\* Writing a sound entry to the database makes the database answer what the
\* cache answered.
LEMMA WrittenIsAnswer ==
  ASSUME NEW d \in Coins \cup {NoCoin}, NEW e \in Entry \cup {Absent}, EntrySound(e, d)
  PROVE  Written(d, e) = IF e # Absent THEN e.coin ELSE d
  BY DEF Written, Entry, EntrySound

-----------------------------------------------------------------------------
(* What each kind of step does to what the stack of caches answers.        *)

\* The coins the two upper levels answer are coins.
LEMMA AnswersAreCoins ==
  ASSUME TypeOK, NEW o \in OutPoints
  PROVE  /\ db[o] \in Coins \cup {NoCoin}
         /\ tip[o] \in Entry \cup {Absent}
         /\ view[o] \in Entry \cup {Absent}
         /\ TipCoin(o) \in Coins \cup {NoCoin}
         /\ ViewCoin(o) \in Coins \cup {NoCoin}
  BY DEF TypeOK, Caches, Entry, TipCoin, ViewCoin

\* pcoinsTip->FetchCoin is invisible and keeps pcoinsTip sound.
LEMMA TipFetchedSound ==
  ASSUME TypeOK, FlagsSound, NEW o \in OutPoints
  PROVE  /\ TipFetched(o) \in Caches
         /\ \A p \in OutPoints : EntrySound(TipFetched(o)[p], db[p])
         /\ \A p \in OutPoints :
              (IF TipFetched(o)[p] # Absent THEN TipFetched(o)[p].coin ELSE db[p]) = TipCoin(p)
         /\ TipFetched(o)[o] = Absent => TipCoin(o) = NoCoin
<1> DEFINE found == db[o] # NoCoin
<1>1. /\ tip \in Caches
      /\ db[o] \in Coins \cup {NoCoin}
      /\ found \in BOOLEAN
      /\ ~found => db[o] = NoCoin
      /\ EntrySound(tip[o], db[o])
      /\ TipFetched(o) = Fill(tip, o, found, db[o])
  BY DEF TypeOK, FlagsSound, TipFetched
<1> HIDE DEF found
<1>2. /\ TipFetched(o) \in Caches
      /\ EntrySound(TipFetched(o)[o], db[o])
      /\ (IF TipFetched(o)[o] # Absent THEN TipFetched(o)[o].coin ELSE db[o]) = TipCoin(o)
      /\ \A p \in OutPoints : p # o => TipFetched(o)[p] = tip[p]
  BY <1>1, FillSound DEF TipCoin
<1>3. TipFetched(o)[o] = Absent => TipCoin(o) = NoCoin
  BY <1>1, ConstantsAssumption DEF TipFetched, Fill, TipCoin, Caches, Entry
<1> QED BY <1>2, <1>3 DEF FlagsSound, TipCoin

\* So is view.FetchCoin, for both caches.
LEMMA ViewFetchedSound ==
  ASSUME TypeOK, FlagsSound, NEW o \in OutPoints
  PROVE  /\ TipAfterViewFetch(o) \in Caches
         /\ \A p \in OutPoints : EntrySound(TipAfterViewFetch(o)[p], db[p])
         /\ \A p \in OutPoints :
              (IF TipAfterViewFetch(o)[p] # Absent
               THEN TipAfterViewFetch(o)[p].coin ELSE db[p]) = TipCoin(p)
         /\ ViewFetched(o) \in Caches
         /\ \A p \in OutPoints : p # o => ViewFetched(o)[p] = view[p]
         /\ EntrySound(ViewFetched(o)[o], TipCoin(o))
         /\ (IF ViewFetched(o)[o] # Absent THEN ViewFetched(o)[o].coin ELSE TipCoin(o)) = ViewCoin(o)
         /\ ViewFetched(o)[o] = Absent => TipCoin(o) = NoCoin
<1> DEFINE t == TipAfterViewFetch(o)
           found == t[o] # Absent
           b == IF t[o] = Absent THEN NoCoin ELSE t[o].coin
<1>1. /\ t \in Caches
      /\ \A p \in OutPoints : EntrySound(t[p], db[p])
      /\ \A p \in OutPoints : (IF t[p] # Absent THEN t[p].coin ELSE db[p]) = TipCoin(p)
  <2>1. CASE view[o] # Absent
    BY <2>1 DEF TipAfterViewFetch, TypeOK, FlagsSound, TipCoin
  <2>2. CASE view[o] = Absent
    BY <2>2, TipFetchedSound DEF TipAfterViewFetch
  <2> QED BY <2>1, <2>2
<1>2. CASE view[o] # Absent
  <2>1. ViewFetched(o) = view
    BY <1>2 DEF ViewFetched, Fill
  <2> QED BY <1>1, <1>2, <2>1, ConstantsAssumption DEF TypeOK, FlagsSound, ViewCoin
<1>3. CASE view[o] = Absent
  <2>1. b = TipCoin(o)
    BY <1>1, <1>3, TipFetchedSound DEF TipAfterViewFetch
  <2>2. /\ view \in Caches
        /\ b \in Coins \cup {NoCoin}
        /\ found \in BOOLEAN
        /\ ~found => b = NoCoin
        /\ EntrySound(view[o], b)
    BY <1>3, <2>1, AnswersAreCoins DEF TypeOK, EntrySound
  <2>3. ViewFetched(o) = Fill(view, o, found, b)
    BY DEF ViewFetched
  <2> HIDE DEF b, found
  <2>4. /\ ViewFetched(o) \in Caches
        /\ EntrySound(ViewFetched(o)[o], b)
        /\ (IF ViewFetched(o)[o] # Absent THEN ViewFetched(o)[o].coin ELSE b)
           = (IF view[o] # Absent THEN view[o].coin ELSE b)
        /\ \A p \in OutPoints : p # o => ViewFetched(o)[p] = view[p]
    BY <2>2, <2>3, FillSound
  <2>5. ViewFetched(o)[o] = Absent => b = NoCoin
    BY <1>3, <2>2, <2>3, ConstantsAssumption DEF Fill, Caches, Entry
  <2> QED BY <1>1, <1>3, <2>1, <2>4, <2>5 DEF ViewCoin
<1> QED BY <1>2, <1>3

-----------------------------------------------------------------------------
(* The invariant.                                                          *)

\* An empty cache is sound over any base.
LEMMA EmptySound == \A o \in OutPoints : Empty[o] = Absent
  BY DEF Empty

LEMMA InitInv == Init => Inv
  BY EmptySound, ConstantsAssumption
  DEF Init, Inv, TypeOK, NeverThrows, FlagsSound, EntrySound, Empty, Caches

\* GetBestBlock of pcoinsTip is a block hash.
LEMMA BestIsHash == TypeOK => TipBestBlock \in Hashes
  BY DEF TypeOK, TipBestBlock

LEMMA OpenViewInv == Inv /\ OpenView => Inv'
  BY BestIsHash, EmptySound
  DEF Inv, OpenView, TypeOK, NeverThrows, FlagsSound, EntrySound, TipCoin, Empty, Caches

LEMMA ReadViewInv ==
  ASSUME Inv, NEW o \in OutPoints, ReadView(o)
  PROVE  Inv'
<1> USE DEF Inv
<1>1. TypeOK'
  BY ViewFetchedSound DEF ReadView, TypeOK
<1>2. NeverThrows'
  BY DEF ReadView, NeverThrows
<1>3. \A p \in OutPoints : TipCoin(p)' = TipCoin(p)
  BY ViewFetchedSound DEF ReadView, TipCoin
<1>4. FlagsSound'
  BY <1>3, ViewFetchedSound DEF ReadView, FlagsSound
<1> QED BY <1>1, <1>2, <1>4

LEMMA ReadTipInv ==
  ASSUME Inv, NEW o \in OutPoints, ReadTip(o)
  PROVE  Inv'
<1> USE DEF Inv
<1>1. TypeOK'
  BY TipFetchedSound DEF ReadTip, TypeOK
<1>2. NeverThrows'
  BY DEF ReadTip, NeverThrows
<1>3. \A p \in OutPoints : TipCoin(p)' = TipCoin(p)
  BY TipFetchedSound DEF ReadTip, TipCoin
<1>4. FlagsSound'
  BY <1>3, TipFetchedSound DEF ReadTip, FlagsSound
<1> QED BY <1>1, <1>2, <1>4

LEMMA AddCoinInv ==
  ASSUME Inv, NEW o \in OutPoints, NEW c \in Coins, AddCoin(o, c)
  PROVE  /\ Inv'
         /\ view' = [view EXCEPT ![o] = Added(view[o], c)]
         /\ Added(view[o], c) \in Entry
         /\ Added(view[o], c).coin = c
<1> USE DEF Inv
<1>1. view' = [view EXCEPT ![o] = Added(view[o], c)] /\ UNCHANGED threw
  BY DEF AddCoin, ViewCoin
<1>2. /\ Added(view[o], c) \in Entry
      /\ Added(view[o], c).coin = c
      /\ EntrySound(Added(view[o], c), TipCoin(o))
  BY AnswersAreCoins, AddedSound DEF AddCoin, ViewCoin, FlagsSound
<1>3. TypeOK'
  BY <1>1, <1>2 DEF AddCoin, TypeOK, Caches
<1>4. FlagsSound'
  BY <1>1, <1>2 DEF AddCoin, FlagsSound, TipCoin, TypeOK, Caches
<1>5. NeverThrows'
  BY <1>1 DEF NeverThrows
<1> QED BY <1>1, <1>2, <1>3, <1>4, <1>5

LEMMA SpendCoinInv ==
  ASSUME Inv, NEW o \in OutPoints, SpendCoin(o)
  PROVE  /\ Inv'
         /\ \A p \in OutPoints : TipCoin(p)' = TipCoin(p)
         /\ (IF view'[o] # Absent THEN view'[o].coin ELSE TipCoin(o)) = NoCoin
         /\ \A p \in OutPoints : p # o => view'[p] = view[p]
<1> USE DEF Inv
<1> DEFINE e == ViewFetched(o)[o]
<1>1. e \in Entry \cup {Absent} /\ EntrySound(e, TipCoin(o)) /\ (e = Absent => TipCoin(o) = NoCoin)
  BY ViewFetchedSound DEF Caches
<1>2. /\ Spent(e) \in Entry \cup {Absent}
      /\ EntrySound(Spent(e), TipCoin(o))
      /\ (IF Spent(e) # Absent THEN Spent(e).coin ELSE TipCoin(o)) = NoCoin
  BY <1>1, AnswersAreCoins, SpentSound
<1>3. view' = [view EXCEPT ![o] = Spent(e)] /\ tip' = TipAfterViewFetch(o) /\ UNCHANGED <<db, threw>>
  BY DEF SpendCoin
<1> HIDE DEF e
<1>4. \A p \in OutPoints : TipCoin(p)' = TipCoin(p)
  BY <1>3, ViewFetchedSound DEF TipCoin
<1>5. TypeOK'
  BY <1>2, <1>3, ViewFetchedSound DEF SpendCoin, TypeOK, Caches
<1>6. FlagsSound'
  BY <1>2, <1>3, <1>4, ViewFetchedSound DEF FlagsSound, TypeOK, Caches
<1>7. NeverThrows'
  BY <1>3 DEF NeverThrows
<1> QED BY <1>2, <1>3, <1>4, <1>5, <1>6, <1>7 DEF TypeOK, Caches

LEMMA SetBestBlockInv ==
  ASSUME Inv, NEW h \in Hashes, SetBestBlock(h)
  PROVE  Inv'
  BY DEF Inv, SetBestBlock, TypeOK, NeverThrows, FlagsSound, TipCoin, EntrySound

LEMMA FlushViewInv ==
  ASSUME Inv, FlushView
  PROVE  /\ Inv'
         /\ \A o \in OutPoints : TipCoin(o)' = ViewCoin(o)
         /\ tipBest' = viewBest
<1> USE DEF Inv
<1>1. \A o \in OutPoints :
        /\ ~Misapplied(tip[o], view[o])
        /\ Merged(tip[o], view[o]) \in Entry \cup {Absent}
        /\ EntrySound(Merged(tip[o], view[o]), db[o])
        /\ (IF Merged(tip[o], view[o]) # Absent THEN Merged(tip[o], view[o]).coin ELSE db[o])
           = ViewCoin(o)
  BY AnswersAreCoins, MergedSound DEF FlagsSound, TipCoin, ViewCoin
<1>2. /\ tip' = [o \in OutPoints |-> Merged(tip[o], view[o])]
      /\ tipBest' = viewBest
      /\ view' = Empty
      /\ UNCHANGED <<db, dbBest, threw>>
      /\ viewBest' = NullHash
      /\ ~viewOpen'
  BY <1>1 DEF FlushView
<1>3. TypeOK'
  BY <1>1, <1>2, EmptySound DEF TypeOK, Caches, Empty, FlushView
<1>4. \A o \in OutPoints : TipCoin(o)' = ViewCoin(o)
  BY <1>1, <1>2 DEF TipCoin
<1>5. FlagsSound'
  BY <1>1, <1>2, EmptySound DEF FlagsSound, EntrySound
<1>6. NeverThrows'
  BY <1>2 DEF NeverThrows
<1> QED BY <1>2, <1>3, <1>4, <1>5, <1>6

LEMMA DropViewInv ==
  ASSUME Inv, DropView
  PROVE  Inv'
<1>1. TypeOK'
  BY DEF Inv, DropView, TypeOK, Empty, Caches
<1>2. FlagsSound'
  BY EmptySound DEF Inv, DropView, FlagsSound, EntrySound, TipCoin
<1>3. NeverThrows'
  BY DEF Inv, DropView, NeverThrows
<1> QED BY <1>1, <1>2, <1>3 DEF Inv

LEMMA FlushTipInv ==
  ASSUME Inv, FlushTip
  PROVE  /\ Inv'
         /\ \A o \in OutPoints : db'[o] = TipCoin(o) /\ TipCoin(o)' = TipCoin(o)
<1> USE DEF Inv
<1>1. \A o \in OutPoints : Written(db[o], tip[o]) = TipCoin(o)
  BY AnswersAreCoins, WrittenIsAnswer DEF FlagsSound, TipCoin
<1>2. \A o \in OutPoints : db'[o] = TipCoin(o) /\ TipCoin(o)' = TipCoin(o)
  BY <1>1, EmptySound DEF FlushTip, TipCoin
<1>3. TypeOK'
  BY <1>1, AnswersAreCoins, BestIsHash DEF FlushTip, TypeOK, Empty, Caches
<1>4. FlagsSound'
  BY <1>2, EmptySound DEF FlushTip, FlagsSound, EntrySound
<1>5. NeverThrows'
  BY DEF FlushTip, NeverThrows
<1> QED BY <1>2, <1>3, <1>4, <1>5

LEMMA UncacheInv ==
  ASSUME Inv, NEW o \in OutPoints, Uncache(o)
  PROVE  Inv' /\ \A p \in OutPoints : TipCoin(p)' = TipCoin(p)
<1> USE DEF Inv
<1>1. \A p \in OutPoints : TipCoin(p)' = TipCoin(p)
  BY DEF Uncache, FlagsSound, EntrySound, TipCoin, TypeOK, Caches
<1>2. TypeOK'
  BY DEF Uncache, TypeOK, Caches
<1>3. FlagsSound'
  BY <1>1 DEF Uncache, FlagsSound, EntrySound, TypeOK, Caches
<1>4. NeverThrows'
  BY DEF Uncache, NeverThrows
<1> QED BY <1>1, <1>2, <1>3, <1>4

LEMMA CrashInv ==
  ASSUME Inv, Crash
  PROVE  Inv'
<1>1. TypeOK'
  BY DEF Inv, Crash, TypeOK, Empty, Caches
<1>2. FlagsSound'
  BY EmptySound DEF Inv, Crash, FlagsSound, EntrySound, TipCoin
<1>3. NeverThrows'
  BY DEF Inv, Crash, NeverThrows
<1> QED BY <1>1, <1>2, <1>3 DEF Inv

\* Every step of the coin caches keeps the types, raises no logic error and
\* keeps the flags sound.
LEMMA NextInv == Inv /\ [Next]_vars => Inv'
<1> SUFFICES ASSUME Inv, [Next]_vars PROVE Inv'
  OBVIOUS
<1>1. CASE UNCHANGED vars
  BY <1>1 DEF vars, Inv, TypeOK, NeverThrows, FlagsSound, TipCoin, EntrySound
<1>2. CASE Next
  BY <1>2, OpenViewInv, ReadViewInv, ReadTipInv, AddCoinInv, SpendCoinInv, SetBestBlockInv,
     FlushViewInv, DropViewInv, FlushTipInv, UncacheInv, CrashInv DEF Next
<1> QED BY <1>1, <1>2

\* The variables of CoinsCache always have their types, and a closed view is
\* empty.
THEOREM TypeCorrect == Spec => []TypeOK
  BY InitInv, NextInv, PTL DEF Spec, Inv

\* AddCoin's "replaces non-pruned entry" and BatchWrite's "FRESH flag
\* misapplied" are unreachable as long as only missing outputs are created.
THEOREM NoLogicError == Spec => []NeverThrows
  BY InitInv, NextInv, PTL DEF Spec, Inv

\* DIRTY and FRESH always mean what coins.h says they mean, at both levels.
THEOREM FlagsAlwaysSound == Spec => []FlagsSound
  BY InitInv, NextInv, PTL DEF Spec, Inv

-----------------------------------------------------------------------------
(* The caches implement UtxoSet.                                           *)

\* A step that changes no answer is a stuttering step of UtxoSet.
LEMMA StutterMaps ==
  ASSUME UNCHANGED <<db, dbBest, tipBest, viewBest, viewOpen>>,
         \A o \in OutPoints : TipCoin(o)' = TipCoin(o) /\ ViewCoin(o)' = ViewCoin(o)
  PROVE  UNCHANGED Utxo!vars
  BY DEF Utxo!vars, TipBestBlock, ViewBestBlock

LEMMA InitMaps == Init => Utxo!Init
<1> SUFFICES ASSUME Init PROVE Utxo!Init
  OBVIOUS
<1>1. [coins |-> db, best |-> dbBest] \in
        {s \in Utxo!States : s.coins = [o \in OutPoints |-> NoCoin]}
  BY DEF Init, Utxo!States, Utxo!Maps
<1>2. \A o \in OutPoints : TipCoin(o) = db[o] /\ ViewCoin(o) = db[o]
  BY DEF Init, TipCoin, ViewCoin, Empty
<1>3. TipBestBlock = dbBest /\ ViewBestBlock = dbBest
  BY DEF Init, TipBestBlock, ViewBestBlock
<1>4. db = [o \in OutPoints |-> db[o]]
  BY DEF Init
<1> QED BY <1>1, <1>2, <1>3, <1>4 DEF Utxo!Init, Init

LEMMA OpenViewMaps == Inv /\ OpenView => Utxo!Begin
<1> SUFFICES ASSUME Inv, OpenView PROVE Utxo!Begin
  OBVIOUS
<1>1. \A o \in OutPoints : TipCoin(o)' = TipCoin(o) /\ ViewCoin(o)' = TipCoin(o)
  BY EmptySound DEF OpenView, TipCoin, ViewCoin
<1>2. TipBestBlock' = TipBestBlock /\ ViewBestBlock' = TipBestBlock
  BY BestIsHash, ConstantsAssumption DEF Inv, OpenView, TipBestBlock, ViewBestBlock
<1> QED BY <1>1, <1>2 DEF OpenView, Utxo!Begin

LEMMA ReadViewMaps ==
  ASSUME Inv, NEW o \in OutPoints, ReadView(o)
  PROVE  UNCHANGED Utxo!vars
<1>1. \A p \in OutPoints : TipCoin(p)' = TipCoin(p)
  BY ViewFetchedSound DEF Inv, ReadView, TipCoin
<1>2. \A p \in OutPoints : ViewCoin(p)' = ViewCoin(p)
  BY <1>1, ViewFetchedSound DEF Inv, ReadView, ViewCoin
<1> QED BY <1>1, <1>2, StutterMaps DEF ReadView

LEMMA ReadTipMaps ==
  ASSUME Inv, NEW o \in OutPoints, ReadTip(o)
  PROVE  UNCHANGED Utxo!vars
<1>1. \A p \in OutPoints : TipCoin(p)' = TipCoin(p)
  BY TipFetchedSound DEF Inv, ReadTip, TipCoin
<1>2. \A p \in OutPoints : ViewCoin(p)' = ViewCoin(p)
  BY <1>1 DEF ReadTip, ViewCoin
<1> QED BY <1>1, <1>2, StutterMaps DEF ReadTip

LEMMA UncacheMaps ==
  ASSUME Inv, NEW o \in OutPoints, Uncache(o)
  PROVE  UNCHANGED Utxo!vars
<1>1. \A p \in OutPoints : TipCoin(p)' = TipCoin(p)
  BY UncacheInv
<1>2. \A p \in OutPoints : ViewCoin(p)' = ViewCoin(p)
  BY <1>1 DEF Uncache, ViewCoin
<1> QED BY <1>1, <1>2, StutterMaps DEF Uncache

LEMMA AddCoinMaps ==
  ASSUME Inv, NEW o \in OutPoints, NEW c \in Coins, AddCoin(o, c)
  PROVE  Utxo!Create(o, c)
<1>1. /\ view' = [view EXCEPT ![o] = Added(view[o], c)]
      /\ Added(view[o], c) # Absent
      /\ Added(view[o], c).coin = c
  BY AddCoinInv, ConstantsAssumption
<1>2. \A p \in OutPoints : TipCoin(p)' = TipCoin(p)
  BY DEF AddCoin, TipCoin
<1>3. \A p \in OutPoints : ViewCoin(p)' = IF p = o THEN c ELSE ViewCoin(p)
  BY <1>1, <1>2 DEF ViewCoin, Inv, TypeOK, Caches
<1>4. UNCHANGED <<TipBestBlock, ViewBestBlock, db, dbBest, viewOpen>> /\ viewOpen
  BY DEF AddCoin, TipBestBlock, ViewBestBlock
<1> QED BY <1>2, <1>3, <1>4 DEF AddCoin, Utxo!Create

LEMMA SpendCoinMaps ==
  ASSUME Inv, NEW o \in OutPoints, SpendCoin(o)
  PROVE  Utxo!Spend(o)
<1>1. \A p \in OutPoints : TipCoin(p)' = TipCoin(p)
  BY SpendCoinInv
<1>2. \A p \in OutPoints : ViewCoin(p)' = IF p = o THEN NoCoin ELSE ViewCoin(p)
  BY <1>1, SpendCoinInv DEF ViewCoin
<1>3. UNCHANGED <<TipBestBlock, ViewBestBlock, db, dbBest, viewOpen>> /\ viewOpen
  BY DEF SpendCoin, TipBestBlock, ViewBestBlock
<1> QED BY <1>1, <1>2, <1>3 DEF Utxo!Spend

LEMMA SetBestBlockMaps ==
  ASSUME Inv, NEW h \in Hashes, SetBestBlock(h)
  PROVE  Utxo!Label(h)
<1>1. \A p \in OutPoints : TipCoin(p)' = TipCoin(p) /\ ViewCoin(p)' = ViewCoin(p)
  BY DEF SetBestBlock, TipCoin, ViewCoin
<1>2. TipBestBlock' = TipBestBlock /\ ViewBestBlock' = h
  BY ConstantsAssumption DEF SetBestBlock, TipBestBlock, ViewBestBlock
<1> QED BY <1>1, <1>2 DEF SetBestBlock, Utxo!Label

LEMMA FlushViewMaps ==
  ASSUME Inv, FlushView
  PROVE  Utxo!Commit
<1>1. \A p \in OutPoints : TipCoin(p)' = ViewCoin(p)
  BY FlushViewInv
<1>2. \A p \in OutPoints : ViewCoin(p)' = ViewCoin(p)
  BY <1>1, EmptySound DEF FlushView, ViewCoin
<1>3. TipBestBlock' = ViewBestBlock /\ ViewBestBlock' = ViewBestBlock
  BY FlushViewInv, ConstantsAssumption DEF Inv, TypeOK, FlushView, TipBestBlock, ViewBestBlock
<1> QED BY <1>1, <1>2, <1>3 DEF FlushView, Utxo!Commit

LEMMA DropViewMaps ==
  ASSUME Inv, DropView
  PROVE  Utxo!Abandon
<1>1. \A p \in OutPoints : TipCoin(p)' = TipCoin(p) /\ ViewCoin(p)' = TipCoin(p)
  BY EmptySound DEF DropView, TipCoin, ViewCoin
<1>2. TipBestBlock' = TipBestBlock /\ ViewBestBlock' = TipBestBlock
  BY DEF DropView, TipBestBlock, ViewBestBlock
<1> QED BY <1>1, <1>2 DEF DropView, Utxo!Abandon

LEMMA FlushTipMaps ==
  ASSUME Inv, FlushTip
  PROVE  Utxo!Persist
<1>1. \A p \in OutPoints : db'[p] = TipCoin(p) /\ TipCoin(p)' = TipCoin(p)
  BY FlushTipInv
<1>2. \A p \in OutPoints : ViewCoin(p)' = ViewCoin(p)
  BY <1>1 DEF FlushTip, ViewCoin
<1>3. dbBest' = TipBestBlock /\ TipBestBlock' = TipBestBlock /\ ViewBestBlock' = ViewBestBlock
  BY DEF FlushTip, TipBestBlock, ViewBestBlock
<1>4. db' = [o \in OutPoints |-> TipCoin(o)]
  BY <1>1 DEF FlushTip
<1> QED BY <1>1, <1>2, <1>3, <1>4 DEF FlushTip, Utxo!Persist

LEMMA CrashMaps ==
  ASSUME Inv, Crash
  PROVE  Utxo!Restart
<1>1. \A p \in OutPoints : TipCoin(p)' = db[p] /\ ViewCoin(p)' = db[p]
  BY EmptySound DEF Crash, TipCoin, ViewCoin
<1>2. TipBestBlock' = dbBest /\ ViewBestBlock' = dbBest
  BY DEF Crash, TipBestBlock, ViewBestBlock
<1>3. db = [o \in OutPoints |-> db[o]]
  BY DEF Inv, TypeOK
<1> QED BY <1>1, <1>2, <1>3 DEF Crash, Utxo!Restart

LEMMA NextMaps == Inv /\ [Next]_vars => [Utxo!Next]_(Utxo!vars)
<1> SUFFICES ASSUME Inv, [Next]_vars PROVE Utxo!Next \/ UNCHANGED Utxo!vars
  OBVIOUS
<1>1. CASE UNCHANGED vars
  BY <1>1, StutterMaps DEF vars, TipCoin, ViewCoin
<1>2. CASE Next
  BY <1>2, OpenViewMaps, ReadViewMaps, ReadTipMaps, AddCoinMaps, SpendCoinMaps,
     SetBestBlockMaps, FlushViewMaps, DropViewMaps, FlushTipMaps, UncacheMaps, CrashMaps
  DEF Next, Utxo!Next
<1> QED BY <1>1, <1>2

\* Whatever is read, evicted or flushed in between, the stack of caches is a
\* UtxoSet: atomic blocks, and coins and best block that persist together.
THEOREM Refinement == Spec => ImplementsUtxoSet
<1>1. Init => Utxo!Init
  BY InitMaps
<1>2. Inv /\ [Next]_vars => [Utxo!Next]_(Utxo!vars)
  BY NextMaps
<1> QED BY <1>1, <1>2, InitInv, NextInv, PTL DEF Spec, ImplementsUtxoSet, Utxo!Spec
=============================================================================
