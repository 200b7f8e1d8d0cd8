--------------------------- MODULE MasternodeMaps ---------------------------
(***************************************************************************)
(* masternodeman.cpp: what CMasternodeMan remembers of the active chain.   *)
(* The collateral maps hold the unspent outputs that may back a            *)
(* masternode, the payee maps the blocks that paid each script; block      *)
(* validation (masternode-payments.cpp) asks both.  They are built by      *)
(* Init from the coins and the last blocks, and then follow ConnectBlock   *)
(* and DisconnectBlock; any doubt sets initiatedAt to -1 and the next      *)
(* ConnectBlock builds them anew.  Nothing is stored on disk.              *)
(*                                                                         *)
(* mnodeman is only called outside of initial block download.  Whatever    *)
(* the chain did before the first call is in the choice of the tip.        *)
(***************************************************************************)
EXTENDS Chains, SequencesExt

CONSTANTS vtx,               \* block -> sequence of [vin : set, vout : sequence] of outputs
          nValue, Script,    \* of every output
          PaidPayee,         \* block -> CBlock::GetPaidPayee, or NoScript
          NoScript,          \* the empty CScript
          GetMasternodeNodeCollateral(_), \* height -> amount
          nBlocksPerWeek,
          MaxReorgDepth      \* DEFAULT_MAX_REORG_DEPTH

ASSUME MasternodeMapsAssumption ==
  /\ nBlocksPerWeek \in Nat /\ MaxReorgDepth \in Nat \ {0}

VARIABLES tip,          \* chainActive.Tip()
          initiatedAt,  \* height the maps were built at, -1: to be built
          script,       \* mapScriptCollaterals: script -> [out, nHeight]
          coins,        \* mapCOutPointCollaterals: output -> nHeight of its coin
          amount,       \* mapCAmountCollaterals: amount -> outputs
          removed,      \* mapRemovedCollaterals: height -> (output -> nHeight)
          paidBlocks,   \* mapPaidPayeesBlocks: script -> blocks
          paidHeight,   \* mapPaidPayeesHeight: height -> script
          verify,       \* VerifyDB: how far its view is below the tip, and its direction
          unrestored,   \* history: outputs a disconnection did not bring back
          verified      \* history: VerifyDB ran since the maps were built

maps == <<script, coins, amount, removed, paidBlocks, paidHeight>>
vars == <<tip, initiatedAt, maps, verify, unrestored, verified>>

BlockAt(t, h) == CHOOSE b \in Ancestors[t] : nHeight[b] = h

Spent(b) == UNION {vtx[b][i].vin : i \in DOMAIN vtx[b]}
Created(b) == UNION {Range(vtx[b][i].vout) : i \in DOMAIN vtx[b]}

\* The unspent outputs of the chain up to t, with their heights.
UnspentAt(t) ==
  LET outs == (UNION {Created(b) : b \in Ancestors[t]}) \ UNION {Spent(b) : b \in Ancestors[t]}
  IN  [o \in outs |-> nHeight[CHOOSE b \in Ancestors[t] : o \in Created(b)]]

-----------------------------------------------------------------------------
(* Maps.                                                                   *)

EmptyMap == [x \in {} |-> x]
Put(f, k, v) == [x \in DOMAIN f \cup {k} |-> IF x = k THEN v ELSE f[x]]
Erase(f, k) == [x \in DOMAIN f \ {k} |-> f[x]]
At(f, k, default) == IF k \in DOMAIN f THEN f[k] ELSE default

\* Amounts in force at a height and a week later.
Amounts(h) == {GetMasternodeNodeCollateral(h), GetMasternodeNodeCollateral(h + nBlocksPerWeek)}

\* A coin with height 0 is a default-constructed Coin: no script, no value.
ScriptOf(o, n) == IF n = 0 THEN NoScript ELSE Script[o]
ValueOf(o, n) == IF n = 0 THEN -1 ELSE nValue[o]

\* The three collateral maps as one value.
Collaterals == [script |-> script, coins |-> coins, amount |-> amount]

NoCollaterals == [script |-> EmptyMap, coins |-> EmptyMap, amount |-> EmptyMap]

\* Enter one coin into the three collateral maps.
AddCollateral(m, o, n) ==
  [script |-> Put(m.script, ScriptOf(o, n), [out |-> o, nHeight |-> n]),
   coins  |-> Put(m.coins, o, n),
   amount |-> Put(m.amount, ValueOf(o, n), At(m.amount, ValueOf(o, n), {}) \cup {o})]

\* Take one out.  The code erases the coin first and then reads its amount and
\* script through a reference to the erased entry: it finds the old value, or,
\* for the outputs in garbled, something that is in neither map.
DropCollateral(m, o, garbled) ==
  LET n == m.coins[o]
      a == ValueOf(o, n)
  IN  [script |-> IF o \in garbled THEN m.script ELSE Erase(m.script, ScriptOf(o, n)),
       coins  |-> Erase(m.coins, o),
       amount |-> IF o \in garbled \/ a \notin DOMAIN m.amount THEN m.amount
                  ELSE [m.amount EXCEPT ![a] = @ \ {o}]]

-----------------------------------------------------------------------------
(* Init.                                                                   *)

\* The coins a scan of the chain state finds at the tip.
Scanned ==
  LET utxo == UnspentAt(tip) IN {o \in DOMAIN utxo : nValue[o] \in Amounts(nHeight[tip])}

\* The collateral maps after visiting them in some order.
ScannedMaps ==
  LET utxo == UnspentAt(tip) IN
  {FoldLeft(LAMBDA m, o : AddCollateral(m, o, utxo[o]), NoCollaterals, order) :
     order \in SetToSeqs(Scanned)}

\* Mutant: the scan for paid payees stops below the tip.
ScannedHeights_BelowTip(m) ==
  (nHeight[tip] - 2 * Cardinality(DOMAIN m.script)) .. (nHeight[tip] - 1)

\* The heights scanned for paid payees; chainActive[h] is a null pointer for
\* a negative one.
ScannedHeights(m) ==
  (nHeight[tip] - 2 * Cardinality(DOMAIN m.script)) .. nHeight[tip]

\* The maps Init builds.
Rebuilt ==
  {[m |-> m,
    removed |-> EmptyMap,
    paidHeight |-> [h \in ScannedHeights(m) |-> PaidPayee[BlockAt(tip, h)]],
    paidBlocks |->
      LET hs == ScannedHeights(m) IN
      [s \in {PaidPayee[BlockAt(tip, h)] : h \in hs} |->
         LET paid == SetToSortSeq({h \in hs : PaidPayee[BlockAt(tip, h)] = s}, <)
         IN  [i \in DOMAIN paid |-> BlockAt(tip, paid[i])]]] :
     m \in {x \in ScannedMaps : \A h \in ScannedHeights(x) : h >= 0}}

\* The maps as they are.
Current == [m |-> Collaterals, removed |-> removed, paidHeight |-> paidHeight, paidBlocks |-> paidBlocks]

-----------------------------------------------------------------------------
(* ConnectBlock.                                                           *)

\* "Remove all UTXOs with old collaterals": the amounts the condition selects.
OldAmounts(m, h) ==
  LET now == GetMasternodeNodeCollateral(h) IN
  {a \in DOMAIN m.amount : a # now /\ now # GetMasternodeNodeCollateral(h + nBlocksPerWeek)}

\* The loop erases the element it stands on: it may miss others after it.
Swept(m, h) == {S \in SUBSET OldAmounts(m, h) : S = {} => OldAmounts(m, h) = {}}

\* What is remembered of the outputs taken out; operator[] makes a default
\* coin of an output that is not in the map.
Remember(r, h, outs, m) ==
  IF outs = {} THEN r
  ELSE LET old == At(r, h, EmptyMap) IN
       Put(r, h, [o \in DOMAIN old \cup outs |-> IF o \in outs THEN At(m.coins, o, 0) ELSE old[o]])

\* The outputs of the amounts in S leave the maps.
Sweep(c, h, S, garbled) ==
  LET outs  == UNION {c.m.amount[a] : a \in S}
      known == outs \cap DOMAIN c.m.coins
      m     == FoldLeft(LAMBDA x, o : DropCollateral(x, o, garbled), c.m, SetToSeq(known))
  IN  [c EXCEPT !.m = [m EXCEPT !.amount = [a \in DOMAIN c.m.amount \ S |-> c.m.amount[a]],
                                !.script = IF outs = known THEN @ ELSE Erase(@, NoScript)],
                !.removed = Remember(@, h, outs, c.m)]

\* Mutant: collaterals are only taken out when the block that created them is
\* undone.
SpendCollaterals_Never(c, h, tx, garbled) == c

\* The collaterals tx spends leave the maps.
SpendCollaterals(c, h, tx, garbled) ==
  LET outs == tx.vin \cap DOMAIN c.m.coins IN
  [c EXCEPT !.m = FoldLeft(LAMBDA x, o : DropCollateral(x, o, garbled), @, SetToSeq(outs)),
            !.removed = Remember(@, h, outs, c.m)]

\* The outputs of tx that may be collaterals enter.
CreateCollaterals(c, h, tx) ==
  [c EXCEPT !.m = FoldLeft(LAMBDA x, o : AddCollateral(x, o, h), @,
                           SelectSeq(tx.vout, LAMBDA o : nValue[o] \in Amounts(h)))]

\* register the paid payee for this block
RegisterPayee(c, b) ==
  LET s == PaidPayee[b] IN
  IF s = NoScript THEN c
  ELSE [c EXCEPT !.paidBlocks = Put(@, s, Append(At(@, s, <<>>), b)),
                 !.paidHeight = Put(@, nHeight[b], s)]

\* ConnectBlock on the maps c.
Connected(c, b, S, garbled) ==
  LET h      == nHeight[b]
      pruned == [c EXCEPT !.removed = Erase(@, h - MaxReorgDepth)]
  IN  RegisterPayee(
        FoldLeft(LAMBDA x, tx : CreateCollaterals(SpendCollaterals(x, h, tx, garbled), h, tx),
                 Sweep(pruned, h, S, garbled), vtx[b]),
        b)

-----------------------------------------------------------------------------
(* DisconnectBlock.                                                        *)

\* The outputs of b that may be collaterals leave the maps.
UncreateCollaterals(m, b) ==
  LET gone == {o \in Created(b) : nValue[o] \in Amounts(nHeight[b])} IN
  [script |-> [s \in DOMAIN m.script \ {Script[o] : o \in gone} |-> m.script[s]],
   coins  |-> [o \in DOMAIN m.coins \ gone |-> m.coins[o]],
   amount |-> [a \in DOMAIN m.amount |-> m.amount[a] \ {o \in gone : nValue[o] = a}]]

\* Mutant: what the block spent is not brought back.
Restored_Nothing(m, back) == {m}

\* The collaterals taken out at this height come back, in the map's order.
Restored(m, back) ==
  {FoldLeft(LAMBDA x, o : AddCollateral(x, o, back[o]), m, order) : order \in SetToSeqs(DOMAIN back)}

\* remove the paidpayees that were registered
UnregisterPayee(c, h) ==
  IF h \notin DOMAIN c.paidHeight THEN c
  ELSE LET s    == c.paidHeight[h]
           left == Front(At(c.paidBlocks, s, <<>>))
       IN  [c EXCEPT !.paidHeight = Erase(@, h),
                     !.paidBlocks = IF left = <<>> THEN Erase(@, s) ELSE Put(@, s, left)]

\* DisconnectBlock on the maps c.
Disconnected(c, b) ==
  LET h == nHeight[b] IN
  {UnregisterPayee([c EXCEPT !.m = x, !.removed = Erase(@, h)], h) :
     x \in Restored(UncreateCollaterals(c.m, b), At(c.removed, h, EmptyMap))}

-----------------------------------------------------------------------------
(* The steps.                                                              *)

Become(c) ==
  /\ script' = c.m.script /\ coins' = c.m.coins /\ amount' = c.m.amount
  /\ removed' = c.removed /\ paidBlocks' = c.paidBlocks /\ paidHeight' = c.paidHeight

NoMaps ==
  [m |-> NoCollaterals, removed |-> EmptyMap, paidHeight |-> EmptyMap, paidBlocks |-> EmptyMap]

Idle == [phase |-> "off", at |-> Genesis]

Init ==
  /\ tip \in Blocks
  /\ initiatedAt = -1
  /\ script = EmptyMap /\ coins = EmptyMap /\ amount = EmptyMap
  /\ removed = EmptyMap /\ paidBlocks = EmptyMap /\ paidHeight = EmptyMap
  /\ verify = Idle
  /\ unrestored = {} /\ verified = FALSE

\* More than an hour may have passed since the last call.
AfterSleep == {initiatedAt, -1}

\* CMasternodeMan::ConnectBlock(b).
ConnectBlock(b) ==
  \E at \in AfterSleep :
  \E c \in IF at < 0 THEN Rebuilt ELSE {Current} :
    /\ initiatedAt' = Max({IF at < 0 THEN nHeight[tip] ELSE at, nHeight[b] - MaxReorgDepth})
    /\ \E S \in Swept(c.m, nHeight[b]) :
       \E garbled \in SUBSET (Spent(b) \cup UNION {c.m.amount[a] : a \in S}) :
         Become(Connected(c, b, S, garbled))
    /\ unrestored' = IF at < 0 THEN {} ELSE unrestored
    /\ verified' = (verify.phase = "up" \/ (verified /\ at >= 0))

\* The block is below the height the maps were built at.
TooDeep(at, b) == nHeight[b] < at

\* What maps built with b as their lowest block cannot know of its parent:
\* the outputs b spent and those of amounts no longer in force.
Unknown(b) == Spent(b) \cup {o \in DOMAIN UnspentAt(Parent[b]) : nValue[o] \notin Amounts(nHeight[b])}

\* CMasternodeMan::DisconnectBlock(b).
DisconnectBlock(b) ==
  \E at \in AfterSleep :
    \/ /\ TooDeep(at, b)
       /\ initiatedAt' = -1
       /\ UNCHANGED <<maps, unrestored>>
    \/ /\ ~TooDeep(at, b)
       /\ initiatedAt' = at
       /\ \E c \in Disconnected(Current, b) : Become(c)
       /\ unrestored' = unrestored \cup (IF nHeight[b] = at THEN Unknown(b) ELSE {})

\* ConnectTip.
ConnectTip(b) ==
  /\ verify = Idle
  /\ b # Genesis /\ Parent[b] = tip
  /\ ConnectBlock(b)
  /\ tip' = b
  /\ UNCHANGED verify

\* DisconnectTip, for a better chain or an invalidated block.
DisconnectTip ==
  /\ verify = Idle
  /\ tip # Genesis
  /\ DisconnectBlock(tip)
  /\ tip' = Parent[tip]
  /\ UNCHANGED <<verify, verified>>

\* The process ends or dies, and starts with empty maps on any chain.
Restart ==
  /\ tip' \in Blocks
  /\ initiatedAt' = -1
  /\ Become(NoMaps)
  /\ verify' = Idle
  /\ unrestored' = {} /\ verified' = FALSE

\* The scan of Init goes below the genesis block and dereferences a null
\* pointer: the process dies.
Init_NullRead ==
  /\ verify.phase = "up" \/ (verify = Idle /\ \E b \in Blocks \ {Genesis} : Parent[b] = tip)
  /\ \E m \in ScannedMaps : \E h \in ScannedHeights(m) : h < 0
  /\ initiatedAt' = -1
  /\ Become(NoMaps)
  /\ verify' = Idle
  /\ unrestored' = {} /\ verified' = FALSE
  /\ UNCHANGED tip

\* VerifyDB level 3 disconnects the next block from its own view.
VerifyDown ==
  LET b == IF verify.phase = "off" THEN tip ELSE verify.at IN
  /\ verify.phase \in {"off", "down"}
  /\ b # Genesis
  /\ DisconnectBlock(b)
  /\ verify' = [phase |-> "down", at |-> Parent[b]]
  /\ verified' = TRUE
  /\ UNCHANGED tip

\* It has gone far enough, or ends because of a shutdown or an error.
VerifyTurn ==
  /\ verify.phase = "down"
  /\ \/ verify' = Idle
     \/ verify' = [verify EXCEPT !.phase = "up"]
  /\ UNCHANGED <<tip, initiatedAt, maps, unrestored, verified>>

\* Level 4 connects the blocks again.
VerifyUp ==
  LET b == BlockAt(tip, nHeight[verify.at] + 1) IN
  /\ verify.phase = "up"
  /\ ConnectBlock(b)
  /\ verify' = IF b = tip THEN Idle ELSE [verify EXCEPT !.at = b]
  /\ UNCHANGED tip

Next ==
  \/ \E b \in Blocks : ConnectTip(b)
  \/ DisconnectTip
  \/ Restart
  \/ Init_NullRead
  \/ VerifyDown
  \/ VerifyTurn
  \/ VerifyUp

Spec == Init /\ [][Next]_vars

-----------------------------------------------------------------------------
(* Properties.                                                             *)

\* The maps are meant to describe the active chain.
Built == initiatedAt >= 0 /\ verify = Idle /\ ~verified

\* Outputs created and spent in one block, whose disconnection restores them.
Transient == UNION {Created(b) \cap Spent(b) : b \in Blocks}

\* HasCollateral finds every masternode: an unspent output of the amount in
\* force, now and when it was created, is in mapCOutPointCollaterals with its
\* height and, when no other output has its script, in mapScriptCollaterals.
\* Only what the maps' lowest block had spent or outdated is not brought back
\* when that block is disconnected.
CollateralsPresent ==
  LET utxo == UnspentAt(tip)
      now  == GetMasternodeNodeCollateral(nHeight[tip])
  IN  Built =>
        \A o \in DOMAIN utxo \ unrestored :
          nValue[o] = now /\ now = GetMasternodeNodeCollateral(utxo[o]) =>
            /\ o \in DOMAIN coins /\ coins[o] = utxo[o]
            /\ (\A x \in DOMAIN Script \ {o} : Script[x] # Script[o]) =>
                 Script[o] \in DOMAIN script /\ script[Script[o]] = [out |-> o, nHeight |-> utxo[o]]

\* No masternode is backed by an output the active chain has spent or never
\* had: after any reorganisation every coin of mapCOutPointCollaterals is
\* unspent, except for outputs created and spent in one block.
NoSpentCollateral ==
  Built => \A o \in DOMAIN coins \ Transient : coins[o] # 0 => o \in DOMAIN UnspentAt(tip)

\* GetLastPaidBlock answers from the active chain: from the first registered
\* height up, both payee maps list the paying blocks, in order, and no block
\* of another branch.  DisconnectBlock never takes a block from an empty
\* vector, not even while the maps wait to be built or VerifyDB runs.
PaidPayeesExact ==
  /\ \A s \in Range(paidHeight) :
       Len(At(paidBlocks, s, <<>>)) >= Cardinality({h \in DOMAIN paidHeight : paidHeight[h] = s})
  /\ Built =>
       /\ \A h \in DOMAIN paidHeight : h \in 0 .. nHeight[tip] /\ paidHeight[h] = PaidPayee[BlockAt(tip, h)]
       /\ \A b \in Ancestors[tip] :
            PaidPayee[b] # NoScript /\ (\E h \in DOMAIN paidHeight : h =< nHeight[b]) =>
              nHeight[b] \in DOMAIN paidHeight
       /\ \A s \in Range(PaidPayee) :
            LET paid == SetToSortSeq({h \in DOMAIN paidHeight : paidHeight[h] = s}, <) IN
            At(paidBlocks, s, <<>>) = [i \in DOMAIN paid |-> BlockAt(tip, paid[i])]
=============================================================================
