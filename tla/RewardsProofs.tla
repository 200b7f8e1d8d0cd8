---------------------------- MODULE RewardsProofs ----------------------------
(***************************************************************************)
(* Where the rewards in memory and in the table come from, for every       *)
(* static reward table, target, epoch length and starting height, with     *)
(* failed insertions, crashes at any point and verifychain.                *)
(*                                                                         *)
(* RewardsInv has the three properties together.  Map and table agree up   *)
(* to the tip because an epoch below it never lacks its entry, so that a   *)
(* failed insertion concerns the epoch that begins with the next block     *)
(* only.  An exact reward stays exact because it is a function of the      *)
(* blocks up to the epoch's height.                                        *)
(***************************************************************************)
EXTENDS Rewards, TLAPS, SequenceTheorems

\* The epoch the rewards begin in.
First == GetDynamicRewardsEpochHeight(nFeatureStartHeight)

-----------------------------------------------------------------------------
(* Epoch heights.                                                          *)

\* Division with remainder.
LEMMA Quotient ==
  ASSUME NEW h \in Nat
  PROVE  LET n == nRewardAdjustmentInterval
             q == h \div n
         IN  n \in Nat /\ q \in Nat /\ q * n =< h /\ h < q * n + n
  BY RewardsAssumption

\* The largest multiple up to a number.
LEMMA Multiples ==
  ASSUME NEW n \in Nat \ {0}, NEW p \in Nat, NEW q \in Nat, p * n < q * n
  PROVE  p * n + n =< q * n
<1>1. p < q
  OBVIOUS
<1>2. p + 1 =< q
  BY <1>1
<1>3. (p + 1) * n =< q * n
  BY <1>2
<1> QED
  BY <1>3

\* The quotient of a multiple.
LEMMA MultipleQuotient ==
  ASSUME NEW q \in Nat
  PROVE  (q * nRewardAdjustmentInterval) \div nRewardAdjustmentInterval = q
<1> DEFINE n == nRewardAdjustmentInterval
           x == q * n
           p == x \div n
<1>1. n \in Nat /\ n > 0 /\ x \in Nat
  BY RewardsAssumption
<1>2. p \in Nat /\ p * n =< x /\ x < p * n + n
  BY <1>1, Quotient
<1>3. ~(p * n < q * n)
  BY <1>1, <1>2, Multiples
<1>4. p * n = q * n
  BY <1>1, <1>2, <1>3
<1> HIDE DEF p, x
<1>5. p = q
  BY <1>1, <1>2, <1>4
<1> QED
  BY <1>5 DEF p, x

\* The remainder of a multiple.
LEMMA MultipleRemainder ==
  ASSUME NEW h \in Nat, NEW q \in Nat, h = q * nRewardAdjustmentInterval
  PROVE  h % nRewardAdjustmentInterval = 0
  BY RewardsAssumption

\* The epoch of a height is the last epoch height up to it.
LEMMA EpochFacts ==
  ASSUME NEW h \in Nat
  PROVE  /\ GetDynamicRewardsEpochHeight(h) \in Nat
         /\ GetDynamicRewardsEpochHeight(h) =< h
         /\ IsDynamicRewardsEpochHeight(GetDynamicRewardsEpochHeight(h))
         /\ \A e \in Nat : IsDynamicRewardsEpochHeight(e) /\ e > GetDynamicRewardsEpochHeight(h) => e > h
<1> DEFINE n == nRewardAdjustmentInterval
           q == h \div n
           g == q * n
<1>1. n \in Nat /\ n > 0 /\ q \in Nat /\ g \in Nat /\ g =< h /\ h < g + n
  BY RewardsAssumption, Quotient
<1>2. GetDynamicRewardsEpochHeight(h) = g
  BY DEF GetDynamicRewardsEpochHeight
<1>3. g \div n = q
  BY <1>1, MultipleQuotient
<1>4. IsDynamicRewardsEpochHeight(g)
  BY <1>3 DEF IsDynamicRewardsEpochHeight, GetDynamicRewardsEpochHeight
<1>5. ASSUME NEW e \in Nat, IsDynamicRewardsEpochHeight(e), e > g
      PROVE  e > h
  <2> DEFINE p == e \div n
  <2>1. p \in Nat /\ e = p * n
    BY <1>5, Quotient DEF IsDynamicRewardsEpochHeight, GetDynamicRewardsEpochHeight
  <2> HIDE DEF p, q, n
  <2>2. q * n + n =< p * n
    BY <1>1, <1>5, <2>1, Multiples
  <2> QED
    BY <1>1, <2>1, <2>2
<1> QED
  BY <1>1, <1>2, <1>4, <1>5

\* The rewards begin inside of an epoch.
LEMMA FirstFacts ==
  /\ First \in Nat /\ First < nFeatureStartHeight
  /\ \A e \in Nat : IsDynamicRewardsEpochHeight(e) => (e > First <=> Active(e))
<1>1. nFeatureStartHeight \in Nat
  BY RewardsAssumption
<1>2. /\ First \in Nat /\ First =< nFeatureStartHeight
      /\ \A e \in Nat : IsDynamicRewardsEpochHeight(e) /\ e > First => e > nFeatureStartHeight
  BY <1>1, EpochFacts DEF First
<1>3. ASSUME First = nFeatureStartHeight PROVE FALSE
  <2> DEFINE q == nFeatureStartHeight \div nRewardAdjustmentInterval
  <2>1. q \in Nat /\ nFeatureStartHeight = q * nRewardAdjustmentInterval
    BY <1>1, <1>3, Quotient DEF First, GetDynamicRewardsEpochHeight
  <2> HIDE DEF q
  <2>2. nFeatureStartHeight % nRewardAdjustmentInterval = 0
    BY <1>1, <2>1, MultipleRemainder
  <2> QED
    BY <2>2, RewardsAssumption
<1> QED
  BY <1>1, <1>2, <1>3 DEF Active

\* No epoch begins with block 1.
LEMMA EpochAboveOne ==
  ASSUME NEW h \in Nat \ {0}, IsDynamicRewardsEpochHeight(h)
  PROVE  h > 1
<1> DEFINE n == nRewardAdjustmentInterval
           q == h \div n
<1>1. q \in Nat /\ h = q * n /\ n \in Nat /\ n > 1
  BY Quotient, RewardsAssumption DEF IsDynamicRewardsEpochHeight, GetDynamicRewardsEpochHeight
<1>2. q # 0
  BY <1>1
<1> HIDE DEF q
<1> QED
  BY <1>1, <1>2

-----------------------------------------------------------------------------
(* What the map and the table have to satisfy.                             *)

Block == [label : Labels, mint : Nat \ {0}]

\* Entries are at epoch heights.
AtEpochs(f) == \A e \in DOMAIN f : e \in Nat /\ IsDynamicRewardsEpochHeight(e)

\* Above the first epoch, up to height n, map and table agree.
Match(map, tab, n) ==
  \A e \in Nat : e > First /\ e =< n =>
    /\ e \in DOMAIN map <=> e \in DOMAIN tab
    /\ e \in DOMAIN map => map[e] = tab[e]

\* Every epoch up to height n has an entry.
Covers(f, n) ==
  \A e \in Nat : Active(e) /\ IsDynamicRewardsEpochHeight(e) /\ e =< n => e \in DOMAIN f

\* The reward that follows from the chain c alone.
RewardOf(c, e) == Adjusted(c[e].mint, SubSeq(c, 1, e - 1))

Exact(f, c, S) == \A e \in S : e \in DOMAIN f /\ f[e] = RewardOf(c, e)

Has(f, e, v) == e \in DOMAIN f /\ f[e] = v

\* g has the entries of f; those at heights in S, except h, with the same value.
Keeps(f, g, S, h) == \A e \in DOMAIN f : e \in DOMAIN g /\ (e \in S /\ e # h => g[e] = f[e])

KeepsBelow(f, g, lo) == \A e \in DOMAIN f : e < lo => e \in DOMAIN g /\ g[e] = f[e]

\* How far VerifyDB has connected the chain again.
Reconnected == IF verifying = 0 THEN Len(chain) ELSE verifying - 1

RewardsInv ==
  /\ chain \in Seq(Block) /\ diskChain \in Seq(Block)
  /\ verifying \in 0 .. Len(chain)
  /\ AtEpochs(mDynamicRewards) /\ AtEpochs(table)
  /\ initiated \in BOOLEAN /\ ibd \in BOOLEAN /\ verifyError \in BOOLEAN
  /\ ~initiated => DOMAIN mDynamicRewards = {}
  /\ ibd => ~initiated /\ verifying = 0
  /\ initiated /\ ~verifyError =>
       Match(mDynamicRewards, table, Len(chain)) /\ Covers(mDynamicRewards, Reconnected)
  /\ exact \subseteq EpochsOf(chain)
  /\ Exact(table, chain, exact) /\ (initiated => Exact(mDynamicRewards, chain, exact))
  /\ verifying # 0 => \A e \in exact : e < verifying

\* An adjusted reward is positive.
LEMMA AdjustedPositive ==
  ASSUME NEW m \in Nat \ {0}, NEW c \in Seq(Block), c # <<>>
  PROVE  Adjusted(m, c) \in Nat \ {0}
<1>1. Len(c) \in Nat \ {0}
  OBVIOUS
<1>2. c[Len(c)] \in Block
  BY <1>1
<1>3. Target[Last(c).label] \in Nat \ {0}
  BY <1>2, RewardsAssumption DEF Last, Block
<1> QED
  BY <1>3 DEF Adjusted

\* A prefix of a chain.
LEMMA PrefixType ==
  ASSUME NEW c \in Seq(Block), NEW k \in Nat, k =< Len(c)
  PROVE  /\ SubSeq(c, 1, k) \in Seq(Block) /\ Len(SubSeq(c, 1, k)) = k
         /\ \A i \in 1 .. k : SubSeq(c, 1, k)[i] = c[i]
<1>1. \A i \in 1 .. k : c[i] \in Block
  OBVIOUS
<1> DEFINE d == [i \in 1 .. k |-> c[i]]
<1>2. SubSeq(c, 1, k) = d
  OBVIOUS
<1>3. d \in [1 .. k -> Block]
  BY <1>1
<1>4. d \in Seq(Block) /\ Len(d) = k
  BY <1>3
<1> QED
  BY <1>2, <1>4

\* The reward of an epoch depends on the chain up to its block only.
LEMMA RewardPrefix ==
  ASSUME NEW c \in Seq(Block), NEW d \in Seq(Block), NEW e \in Nat, e > 1,
         e =< Len(c), e =< Len(d), \A i \in 1 .. e : c[i] = d[i]
  PROVE  RewardOf(c, e) = RewardOf(d, e)
<1>1. Len(c) \in Nat /\ Len(d) \in Nat /\ e - 1 \in 1 .. e /\ e \in 1 .. e
  OBVIOUS
<1>2. /\ Len(SubSeq(c, 1, e - 1)) = e - 1 /\ Len(SubSeq(d, 1, e - 1)) = e - 1
      /\ SubSeq(c, 1, e - 1)[e - 1] = c[e - 1] /\ SubSeq(d, 1, e - 1)[e - 1] = d[e - 1]
  BY <1>1
<1>3. c[e - 1] = d[e - 1] /\ c[e] = d[e]
  BY <1>1
<1> QED
  BY <1>2, <1>3 DEF RewardOf, Adjusted, Last

\* Epochs with a computed reward.
LEMMA EpochsAre ==
  ASSUME NEW c \in Seq(Block), NEW e
  PROVE  e \in EpochsOf(c) <=>
           e \in Nat /\ Active(e) /\ IsDynamicRewardsEpochHeight(e) /\ e =< Len(c) /\ e > 1
<1>1. Len(c) \in Nat /\ nFeatureStartHeight \in Nat \ {0}
  BY RewardsAssumption
<1> QED
  BY <1>1, EpochAboveOne DEF EpochsOf, Active

-----------------------------------------------------------------------------
(* The operations on the entries.                                          *)

\* CRewards::ConnectBlock: at an epoch height the computed reward is stored;
\* inside of an epoch only what was missing; nothing else changes.
LEMMA ConnectEntries ==
  ASSUME NEW r, AtEpochs(r.map), AtEpochs(r.table),
         NEW h \in Nat \ {0}, NEW m \in Nat \ {0}, NEW coins \in Seq(Block),
         Active(h) /\ IsDynamicRewardsEpochHeight(h) => coins # <<>>,
         NEW s, s = RewardsConnect(r, h, m, coins)
  PROVE  /\ AtEpochs(s.map) /\ AtEpochs(s.table)
         /\ Active(h) /\ IsDynamicRewardsEpochHeight(h) =>
              Has(s.map, h, Adjusted(m, coins)) /\ Has(s.table, h, Adjusted(m, coins))
         /\ Keeps(r.map, s.map, DOMAIN r.map, h) /\ Keeps(r.table, s.table, DOMAIN r.map, h)
         /\ \A n \in Nat : Match(r.map, r.table, n) => Match(s.map, s.table, n)
         /\ Match(r.map, r.table, h - 1) => Match(s.map, s.table, h)
         /\ Covers(r.map, h - 1) => Covers(s.map, h)
         /\ \A n \in Nat : Covers(r.map, n) => Covers(s.map, n)
<1> DEFINE e0 == GetDynamicRewardsEpochHeight(h)
           n0 == NewSubsidy(r, h, m, coins)
<1>1. /\ e0 \in Nat /\ e0 =< h /\ IsDynamicRewardsEpochHeight(e0)
      /\ IsDynamicRewardsEpochHeight(h) <=> h = e0
  BY EpochFacts DEF IsDynamicRewardsEpochHeight
<1>2. s = IF n0 > 0 THEN [map |-> With(r.map, e0, n0), table |-> With(r.table, e0, n0)] ELSE r
  BY DEF RewardsConnect, Stored
<1>3. Active(h) /\ IsDynamicRewardsEpochHeight(h) =>
        n0 > 0 /\ e0 = h /\ n0 = Adjusted(m, coins)
  BY <1>1, AdjustedPositive DEF NewSubsidy
<1>4. n0 > 0 => e0 = h \/ e0 \notin DOMAIN r.map
  BY <1>1 DEF NewSubsidy
<1> HIDE DEF n0, e0
<1>5. /\ n0 > 0 => /\ DOMAIN s.map = DOMAIN r.map \cup {e0}
                   /\ DOMAIN s.table = DOMAIN r.table \cup {e0}
                   /\ s.map[e0] = n0 /\ s.table[e0] = n0
                   /\ \A e \in DOMAIN r.map : e # e0 => s.map[e] = r.map[e]
                   /\ \A e \in DOMAIN r.table : e # e0 => s.table[e] = r.table[e]
      /\ ~(n0 > 0) => s = r
  BY <1>2 DEF With
<1>6. AtEpochs(s.map) /\ AtEpochs(s.table)
  BY <1>1, <1>5 DEF AtEpochs
<1>7. Active(h) /\ IsDynamicRewardsEpochHeight(h) =>
        Has(s.map, h, Adjusted(m, coins)) /\ Has(s.table, h, Adjusted(m, coins))
  BY <1>3, <1>5 DEF Has
<1>8. /\ Keeps(r.map, s.map, DOMAIN r.map, h) /\ Keeps(r.table, s.table, DOMAIN r.map, h)
  BY <1>4, <1>5 DEF Keeps
<1>9. ASSUME NEW n \in Nat, Match(r.map, r.table, n) PROVE Match(s.map, s.table, n)
  BY <1>5, <1>9 DEF Match
<1>10. ASSUME Match(r.map, r.table, h - 1) PROVE Match(s.map, s.table, h)
  <2> SUFFICES ASSUME NEW e \in Nat, e > First, e =< h
               PROVE  /\ e \in DOMAIN s.map <=> e \in DOMAIN s.table
                      /\ e \in DOMAIN s.map => s.map[e] = s.table[e]
    BY DEF Match
  <2>1. CASE e # h
    <3>1. Match(s.map, s.table, h - 1)
      BY <1>9, <1>10
    <3>2. e =< h - 1
      BY <2>1
    <3> QED
      BY <3>1, <3>2 DEF Match
  <2>2. CASE e = h /\ IsDynamicRewardsEpochHeight(h)
    BY <1>7, <2>2, FirstFacts DEF Has
  <2>3. CASE e = h /\ ~IsDynamicRewardsEpochHeight(h)
    BY <1>6, <2>3 DEF AtEpochs
  <2> QED
    BY <2>1, <2>2, <2>3
<1>11. \A n \in Nat : Covers(r.map, n) => Covers(s.map, n)
  BY <1>8 DEF Covers, Keeps
<1>12. ASSUME Covers(r.map, h - 1) PROVE Covers(s.map, h)
  <2> SUFFICES ASSUME NEW e \in Nat, Active(e), IsDynamicRewardsEpochHeight(e), e =< h
               PROVE  e \in DOMAIN s.map
    BY DEF Covers
  <2>1. CASE e = h
    BY <1>7, <2>1 DEF Has
  <2>2. CASE e =< h - 1
    BY <1>8, <1>12, <2>2 DEF Covers, Keeps
  <2> QED
    BY <2>1, <2>2
<1> QED
  BY <1>6, <1>7, <1>8, <1>9, <1>10, <1>11, <1>12

\* CRewards::DisconnectBlock from hi down to lo.
LEMMA DisconnectEntries ==
  ASSUME NEW map, NEW tab, AtEpochs(map), AtEpochs(tab), NEW lo \in Nat \ {0}, NEW hi \in Nat,
         NEW s, s = RewardsDisconnect([map |-> map, table |-> tab], lo, hi)
  PROVE  /\ AtEpochs(s.map) /\ AtEpochs(s.table)
         /\ DOMAIN map = {} => DOMAIN s.map = {}
         /\ KeepsBelow(map, s.map, lo) /\ KeepsBelow(tab, s.table, lo)
         /\ Match(map, tab, hi) => Match(s.map, s.table, hi)
         /\ \A n \in Nat : Covers(map, n) /\ n < lo => Covers(s.map, n)
<1> DEFINE gone == {e \in DOMAIN map : Active(e) /\ IsDynamicRewardsEpochHeight(e) /\ e \in lo .. hi}
<1>1. /\ DOMAIN s.map = DOMAIN map \ gone
      /\ \A e \in DOMAIN s.map : s.map[e] = map[e]
      /\ DOMAIN s.table = {e \in DOMAIN tab : \A d \in gone : e < d}
      /\ \A e \in DOMAIN s.table : s.table[e] = tab[e]
  BY DEF RewardsDisconnect, Restricted
<1>2. \A d \in gone : d \in Nat /\ d >= lo /\ d =< hi
  BY DEF AtEpochs
<1>3. AtEpochs(s.map) /\ AtEpochs(s.table)
  BY <1>1 DEF AtEpochs
<1>4. KeepsBelow(map, s.map, lo)
  BY <1>1, <1>2 DEF AtEpochs, KeepsBelow
<1>5. KeepsBelow(tab, s.table, lo)
  BY <1>1, <1>2 DEF AtEpochs, KeepsBelow
<1>6. ASSUME Match(map, tab, hi) PROVE Match(s.map, s.table, hi)
  <2> SUFFICES ASSUME NEW e \in Nat, e > First, e =< hi
               PROVE  /\ e \in DOMAIN s.map <=> e \in DOMAIN s.table
                      /\ e \in DOMAIN s.map => s.map[e] = s.table[e]
    BY DEF Match
  <2>1. /\ e \in DOMAIN map <=> e \in DOMAIN tab
        /\ e \in DOMAIN map => map[e] = tab[e]
    BY <1>6 DEF Match
  <2>2. e \in gone => e \notin DOMAIN s.map /\ e \notin DOMAIN s.table
    BY <1>1
  <2>3. ASSUME e \in DOMAIN map, NEW d \in gone, d =< e PROVE e \in gone
    BY <1>2, <2>3, FirstFacts DEF AtEpochs
  <2> HIDE DEF gone
  <2>4. e \in DOMAIN map /\ e \notin gone => e \in DOMAIN s.map /\ e \in DOMAIN s.table
    BY <1>1, <1>2, <2>1, <2>3
  <2> QED
    BY <1>1, <2>1, <2>2, <2>4
<1>7. \A n \in Nat : Covers(map, n) /\ n < lo => Covers(s.map, n)
  BY <1>4 DEF Covers, KeepsBelow
<1> QED
  BY <1>1, <1>3, <1>4, <1>5, <1>6, <1>7

\* CRewards::Init.
LEMMA LoadedEntries ==
  ASSUME RewardsInv
  PROVE  LET r == Init_Entries IN
         /\ AtEpochs(r.map) /\ AtEpochs(r.table)
         /\ Exact(r.map, chain, exact) /\ Exact(r.table, chain, exact)
         /\ ~verifyError => Match(r.map, r.table, Len(chain)) /\ Covers(r.map, Reconnected)
<1> DEFINE r == Init_Entries
<1>1. Len(chain) \in Nat /\ First \in Nat
  BY FirstFacts DEF RewardsInv
<1>2. CASE initiated
  <2>1. r.map = mDynamicRewards /\ r.table = table
    BY <1>2 DEF Init_Entries
  <2> QED
    BY <1>2, <2>1 DEF RewardsInv
<1>3. CASE ~initiated
  <2>1. /\ r.map = r.table /\ DOMAIN r.table = DOMAIN table \cup Gaps
        /\ \A e \in DOMAIN table : r.table[e] = table[e]
    BY <1>3 DEF Init_Entries
  <2> HIDE DEF r
  <2>2. \A e : e \in Gaps <=>
          e \in Nat /\ e > First /\ e =< Len(chain) /\ IsDynamicRewardsEpochHeight(e) /\ e \notin DOMAIN table
    BY <1>1 DEF Gaps, First
  <2>3. AtEpochs(r.table)
    BY <2>1, <2>2 DEF AtEpochs, RewardsInv
  <2>4. Exact(r.table, chain, exact)
    BY <2>1 DEF Exact, RewardsInv
  <2>5. Match(r.map, r.table, Len(chain))
    BY <2>1 DEF Match
  <2>6. Covers(r.map, Len(chain))
    BY <2>1, <2>2, FirstFacts DEF Covers
  <2>7. Reconnected \in Int /\ Reconnected =< Len(chain)
    BY <1>1 DEF Reconnected, RewardsInv
  <2>8. Covers(r.map, Reconnected)
    BY <1>1, <2>6, <2>7 DEF Covers
  <2> QED
    BY <2>1, <2>3, <2>4, <2>5, <2>8 DEF r
<1> QED
  BY <1>2, <1>3 DEF RewardsInv

\* CRewards::Init and CRewards::ConnectBlock for a block at height h that is
\* not among those whose reward is known to be exact.
LEMMA ConnectedEntries ==
  ASSUME RewardsInv, NEW h \in Nat \ {0}, NEW m \in Nat \ {0}, h \notin exact, h =< Len(chain) + 1,
         NEW s, s = RewardsConnect(Init_Entries, h, m, FlushedForReward(h))
  PROVE  /\ AtEpochs(s.map) /\ AtEpochs(s.table)
         /\ Exact(s.map, chain, exact) /\ Exact(s.table, chain, exact)
         /\ FlushedForReward(h) \in Seq(Block)
         /\ Active(h) /\ IsDynamicRewardsEpochHeight(h) =>
              /\ FlushedForReward(h) = chain /\ h > 1
              /\ Has(s.map, h, Adjusted(m, chain)) /\ Has(s.table, h, Adjusted(m, chain))
         /\ ~verifyError => /\ Match(s.map, s.table, Len(chain))
                            /\ h = Len(chain) + 1 => Match(s.map, s.table, h)
                            /\ h = Reconnected + 1 => Covers(s.map, h)
<1> DEFINE r     == Init_Entries
           coins == FlushedForReward(h)
<1>1. Len(chain) \in Nat /\ chain \in Seq(Block) /\ coins \in Seq(Block)
  BY DEF RewardsInv, FlushedForReward
<1>2. ASSUME Active(h), IsDynamicRewardsEpochHeight(h)
      PROVE  coins = chain /\ h > 1 /\ coins # <<>>
  <2>1. coins = chain /\ h > 1
    BY <1>2, EpochAboveOne DEF FlushedForReward
  <2>2. Len(chain) # 0
    BY <1>1, <2>1
  <2> QED
    BY <1>1, <2>1, <2>2
<1>3. /\ AtEpochs(r.map) /\ AtEpochs(r.table)
      /\ Exact(r.map, chain, exact) /\ Exact(r.table, chain, exact)
      /\ ~verifyError => Match(r.map, r.table, Len(chain)) /\ Covers(r.map, Reconnected)
  BY LoadedEntries
<1> HIDE DEF r, coins
<1>4. /\ AtEpochs(s.map) /\ AtEpochs(s.table)
      /\ Active(h) /\ IsDynamicRewardsEpochHeight(h) =>
           Has(s.map, h, Adjusted(m, coins)) /\ Has(s.table, h, Adjusted(m, coins))
      /\ Keeps(r.map, s.map, DOMAIN r.map, h) /\ Keeps(r.table, s.table, DOMAIN r.map, h)
      /\ \A n \in Nat : Match(r.map, r.table, n) => Match(s.map, s.table, n)
      /\ Match(r.map, r.table, h - 1) => Match(s.map, s.table, h)
      /\ Covers(r.map, h - 1) => Covers(s.map, h)
  <2>1. Active(h) /\ IsDynamicRewardsEpochHeight(h) => coins # <<>>
    BY <1>2
  <2>2. s = RewardsConnect(r, h, m, coins)
    BY DEF r, coins
  <2> QED
    BY <1>1, <1>3, <2>1, <2>2, ConnectEntries
<1>5. Exact(s.map, chain, exact) /\ Exact(s.table, chain, exact)
  BY <1>3, <1>4 DEF Exact, Keeps
<1>6. Reconnected \in Int
  BY <1>1 DEF Reconnected, RewardsInv
<1>7. /\ h = Len(chain) + 1 => h - 1 = Len(chain)
      /\ h = Reconnected + 1 => h - 1 = Reconnected
  BY <1>1, <1>6
<1>8. ~verifyError => /\ Match(s.map, s.table, Len(chain))
                      /\ h = Len(chain) + 1 => Match(s.map, s.table, h)
                      /\ h = Reconnected + 1 => Covers(s.map, h)
  BY <1>1, <1>3, <1>4, <1>7
<1> QED
  BY <1>1, <1>2, <1>4, <1>5, <1>8 DEF r, coins

\* An exact reward stays exact on a chain that is the same up to its block.
LEMMA ExactPrefix ==
  ASSUME NEW f, NEW c \in Seq(Block), NEW d \in Seq(Block), NEW S \in SUBSET EpochsOf(c),
         Exact(f, c, S), \A e \in S : e =< Len(d) /\ \A i \in 1 .. e : c[i] = d[i]
  PROVE  Exact(f, d, S) /\ S \subseteq EpochsOf(d)
<1> SUFFICES ASSUME NEW e \in S
             PROVE  e \in DOMAIN f /\ f[e] = RewardOf(d, e) /\ e \in EpochsOf(d)
  BY DEF Exact
<1>1. e \in Nat /\ Active(e) /\ IsDynamicRewardsEpochHeight(e) /\ e =< Len(c) /\ e > 1
  BY EpochsAre
<1>2. e =< Len(d) /\ \A i \in 1 .. e : c[i] = d[i]
  OBVIOUS
<1>3. RewardOf(c, e) = RewardOf(d, e)
  BY <1>1, <1>2, RewardPrefix
<1>4. e \in EpochsOf(d)
  BY <1>1, <1>2, EpochsAre
<1> QED
  BY <1>3, <1>4 DEF Exact

-----------------------------------------------------------------------------
(* The steps.                                                              *)

\* Other nodes' blocks.
LEMMA NextBlocksType ==
  ASSUME NEW b \in NextBlocks
  PROVE  b \in Block
  BY DEF NextBlocks, Block

\* LeaveIBD and Flush.
LEMMA RewardsQuiet ==
  ASSUME RewardsInv, LeaveIBD \/ Flush \/ Init_NullRead \/ UNCHANGED vars
  PROVE  RewardsInv'
<1>1. /\ UNCHANGED <<chain, mDynamicRewards, table, initiated, verifying, verifyError, exact>>
      /\ diskChain' \in {diskChain, chain} /\ ibd' \in {ibd, FALSE}
  BY DEF LeaveIBD, Flush, Init_NullRead, vars
<1>2. ibd' => ibd
  BY <1>1
<1>3. diskChain' \in Seq(Block) /\ ibd' \in BOOLEAN
  BY <1>1 DEF RewardsInv
<1>4. Reconnected' = Reconnected
  BY <1>1 DEF Reconnected
<1> QED
  BY <1>1, <1>2, <1>3, <1>4 DEF RewardsInv

\* A block is appended.
LEMMA Appended ==
  ASSUME RewardsInv, NEW b \in Block
  PROVE  LET c == Append(chain, b) IN
         /\ c \in Seq(Block) /\ Len(c) = Len(chain) + 1
         /\ \A f : Exact(f, chain, exact) => Exact(f, c, exact)
         /\ exact \subseteq EpochsOf(c) /\ Len(c) \notin exact
         /\ Len(c) > 1 => RewardOf(c, Len(c)) = Adjusted(b.mint, chain)
<1> DEFINE c == Append(chain, b)
<1>1. chain \in Seq(Block) /\ Len(chain) \in Nat /\ exact \subseteq EpochsOf(chain)
  BY DEF RewardsInv
<1>2. /\ c \in Seq(Block) /\ Len(c) = Len(chain) + 1
      /\ c[Len(c)] = b /\ \A i \in 1 .. Len(chain) : c[i] = chain[i]
  BY <1>1
<1>3. \A e \in exact : e \in Nat /\ e =< Len(chain)
  BY <1>1, EpochsAre
<1> HIDE DEF c
<1>4. \A e \in exact : e =< Len(c) /\ \A i \in 1 .. e : chain[i] = c[i]
  BY <1>1, <1>2, <1>3
<1>5. \A f : Exact(f, chain, exact) => Exact(f, c, exact) /\ exact \subseteq EpochsOf(c)
  BY <1>1, <1>2, <1>4, ExactPrefix
<1>6. exact \subseteq EpochsOf(c)
  BY <1>5 DEF RewardsInv
<1>7. Len(c) \notin exact
  BY <1>1, <1>2, <1>3
<1>8. ASSUME Len(c) > 1 PROVE RewardOf(c, Len(c)) = Adjusted(b.mint, chain)
  <2> DEFINE d == SubSeq(c, 1, Len(c) - 1)
  <2>1. Len(d) = Len(chain) /\ d[Len(d)] = chain[Len(chain)]
    BY <1>1, <1>2, <1>8
  <2> QED
    BY <1>2, <2>1 DEF RewardOf, Adjusted, Last
<1> QED
  BY <1>2, <1>5, <1>6, <1>7, <1>8 DEF c

\* ConnectTip during initial download.
LEMMA RewardsConnectIBD ==
  ASSUME RewardsInv, NEW b \in NextBlocks, ConnectTip_IBD(b)
  PROVE  RewardsInv'
<1>1. /\ chain' = Append(chain, b) /\ diskChain' \in {diskChain, chain'} /\ ibd
      /\ UNCHANGED <<mDynamicRewards, table, initiated, ibd, verifying, verifyError, exact>>
  BY DEF ConnectTip_IBD
<1>2. ~initiated /\ verifying = 0
  BY <1>1 DEF RewardsInv
<1> DEFINE c == Append(chain, b)
<1>3. /\ c \in Seq(Block) /\ Len(c) = Len(chain) + 1
      /\ \A f : Exact(f, chain, exact) => Exact(f, c, exact)
      /\ exact \subseteq EpochsOf(c)
  BY NextBlocksType, Appended
<1> HIDE DEF c
<1>4. chain' = c
  BY <1>1 DEF c
<1>5. Len(chain) \in Nat
  BY DEF RewardsInv
<1>6. chain' \in Seq(Block) /\ diskChain' \in Seq(Block) /\ verifying' \in 0 .. Len(chain')
  BY <1>1, <1>2, <1>3, <1>4, <1>5 DEF RewardsInv
<1>7. (exact \subseteq EpochsOf(chain))' /\ Exact(table, chain, exact)'
  BY <1>1, <1>3, <1>4 DEF RewardsInv
<1> QED
  BY <1>1, <1>2, <1>6, <1>7 DEF RewardsInv

\* ConnectTip.
LEMMA RewardsConnectTip ==
  ASSUME RewardsInv, NEW b \in NextBlocks, ConnectTip(b)
  PROVE  RewardsInv'
<1> DEFINE h == Len(chain) + 1
           s == RewardsConnect(Init_Entries, h, b.mint, FlushedForReward(h))
           c == Append(chain, b)
<1>1. /\ mDynamicRewards' = s.map /\ table' = s.table /\ initiated' = TRUE
      /\ chain' = c /\ diskChain' \in {FlushedForReward(h), c}
      /\ exact' = exact \cup {e \in {h} : Active(e) /\ IsDynamicRewardsEpochHeight(e)}
      /\ UNCHANGED <<ibd, verifying, verifyError>> /\ verifying = 0 /\ ~ibd
  BY DEF ConnectTip, Rewardable
<1>2. b \in Block /\ b.mint \in Nat \ {0} /\ Len(chain) \in Nat /\ h \in Nat \ {0} /\ h =< Len(chain) + 1
  BY NextBlocksType DEF RewardsInv, Block
<1>3. /\ c \in Seq(Block) /\ Len(c) = h
      /\ \A f : Exact(f, chain, exact) => Exact(f, c, exact)
      /\ exact \subseteq EpochsOf(c) /\ h \notin exact
      /\ h > 1 => RewardOf(c, h) = Adjusted(b.mint, chain)
  BY <1>2, Appended
<1>4. Reconnected = Len(chain) /\ Reconnected' = Len(c)
  BY <1>1 DEF Reconnected
<1> HIDE DEF s, c
<1>5. s = RewardsConnect(Init_Entries, h, b.mint, FlushedForReward(h))
  BY DEF s
<1>6. /\ AtEpochs(s.map) /\ AtEpochs(s.table)
      /\ Exact(s.map, chain, exact) /\ Exact(s.table, chain, exact)
      /\ FlushedForReward(h) \in Seq(Block)
      /\ Active(h) /\ IsDynamicRewardsEpochHeight(h) =>
           /\ h > 1
           /\ Has(s.map, h, Adjusted(b.mint, chain)) /\ Has(s.table, h, Adjusted(b.mint, chain))
      /\ ~verifyError => Match(s.map, s.table, h) /\ Covers(s.map, h)
  BY <1>2, <1>3, <1>4, <1>5, ConnectedEntries
<1> HIDE DEF h
<1>7. Exact(s.map, c, exact') /\ Exact(s.table, c, exact')
  BY <1>1, <1>3, <1>6 DEF Exact, Has
<1>8. exact' \subseteq EpochsOf(c)
  BY <1>1, <1>2, <1>3, <1>6, EpochsAre
<1>9. diskChain' \in Seq(Block) /\ verifying' \in 0 .. Len(c)
  BY <1>1, <1>2, <1>3, <1>6
<1> QED
  BY <1>1, <1>3, <1>4, <1>6, <1>7, <1>8, <1>9 DEF RewardsInv

\* The insertion into the table fails, for a block at the next height or for
\* one that VerifyDB connects.
LEMMA RewardsInsertFails ==
  ASSUME RewardsInv, NEW b \in Block, NEW h \in Nat \ {0}, h =< Len(chain) + 1, h \notin exact,
         InsertFails(b, h), chain' = chain
  PROVE  /\ AtEpochs(mDynamicRewards') /\ AtEpochs(table')
         /\ Exact(mDynamicRewards', chain, exact) /\ Exact(table', chain, exact)
         /\ diskChain' \in Seq(Block)
         /\ ~verifyError /\ verifying = 0 /\ h = Len(chain) + 1 =>
              Match(mDynamicRewards', table', Len(chain)) /\ Covers(mDynamicRewards', Len(chain))
<1> DEFINE r  == Init_Entries
           e0 == GetDynamicRewardsEpochHeight(h)
           n0 == NewSubsidy(r, h, b.mint, FlushedForReward(h))
<1>1. /\ mDynamicRewards' = With(r.map, e0, n0) /\ table' = r.table
      /\ diskChain' = FlushedForReward(h) /\ n0 > 0
  BY DEF InsertFails
<1>2. Len(chain) \in Nat /\ diskChain' \in Seq(Block)
  BY <1>1 DEF RewardsInv, FlushedForReward
<1>3. /\ e0 \in Nat /\ e0 =< h /\ IsDynamicRewardsEpochHeight(e0)
      /\ IsDynamicRewardsEpochHeight(h) <=> h = e0
  BY EpochFacts DEF IsDynamicRewardsEpochHeight
<1>4. e0 = h \/ e0 \notin DOMAIN r.map
  BY <1>1, <1>3 DEF NewSubsidy
<1>5. /\ AtEpochs(r.map) /\ AtEpochs(r.table)
      /\ Exact(r.map, chain, exact) /\ Exact(r.table, chain, exact)
      /\ ~verifyError => Match(r.map, r.table, Len(chain)) /\ Covers(r.map, Reconnected)
  BY LoadedEntries
<1> DEFINE map == mDynamicRewards'
<1> HIDE DEF n0, e0, r
<1>6. /\ DOMAIN map = DOMAIN r.map \cup {e0}
      /\ \A e \in DOMAIN r.map : e # e0 => map[e] = r.map[e]
  BY <1>1 DEF With
<1> HIDE DEF map
<1>7. AtEpochs(map)
  BY <1>3, <1>5, <1>6 DEF AtEpochs
<1>8. Exact(map, chain, exact)
  BY <1>4, <1>5, <1>6 DEF Exact
<1>9. ASSUME ~verifyError, verifying = 0, h = Len(chain) + 1
      PROVE  Match(map, r.table, Len(chain)) /\ Covers(map, Len(chain))
  <2>1. Match(r.map, r.table, Len(chain)) /\ Covers(r.map, Len(chain))
    BY <1>5, <1>9 DEF Reconnected
  <2>2. Covers(map, Len(chain))
    BY <1>6, <2>1 DEF Covers
  <2>3. ~(e0 > First /\ e0 =< Len(chain))
    BY <1>2, <1>3, <1>4, <1>9, <2>1, FirstFacts DEF Covers
  <2>4. Match(map, r.table, Len(chain))
    BY <1>6, <2>1, <2>3 DEF Match
  <2> QED
    BY <2>2, <2>4
<1> QED
  BY <1>1, <1>2, <1>5, <1>7, <1>8, <1>9 DEF map

\* ConnectTip_Fails.
LEMMA RewardsConnectFails ==
  ASSUME RewardsInv, NEW b \in NextBlocks, ConnectTip_Fails(b)
  PROVE  RewardsInv'
<1> DEFINE h == Len(chain) + 1
<1>1. /\ InsertFails(b, h) /\ initiated' = TRUE /\ ~ibd /\ verifying = 0
      /\ UNCHANGED <<chain, ibd, verifying, verifyError, exact>>
  BY DEF ConnectTip_Fails, InsertFails, Rewardable
<1>2. b \in Block /\ Len(chain) \in Nat /\ h \in Nat \ {0} /\ h =< Len(chain) + 1
  BY NextBlocksType DEF RewardsInv
<1>3. h \notin exact
  BY <1>2, Appended DEF RewardsInv
<1> HIDE DEF h
<1>4. /\ AtEpochs(mDynamicRewards') /\ AtEpochs(table')
      /\ Exact(mDynamicRewards', chain, exact) /\ Exact(table', chain, exact)
      /\ diskChain' \in Seq(Block)
      /\ ~verifyError =>
           Match(mDynamicRewards', table', Len(chain)) /\ Covers(mDynamicRewards', Len(chain))
  BY <1>1, <1>2, <1>3, RewardsInsertFails DEF h
<1>5. Reconnected' = Len(chain)
  BY <1>1 DEF Reconnected
<1> QED
  BY <1>1, <1>4, <1>5 DEF RewardsInv

\* The entries after CRewards::DisconnectBlock from the tip down to lo.
LEMMA DisconnectedEntries ==
  ASSUME RewardsInv, NEW lo \in 1 .. Len(chain), NEW s,
         s = RewardsDisconnect([map |-> mDynamicRewards, table |-> table], lo, Len(chain))
  PROVE  LET S == {e \in exact : e < lo} IN
         /\ AtEpochs(s.map) /\ AtEpochs(s.table)
         /\ ~initiated => DOMAIN s.map = {}
         /\ Exact(s.table, chain, S) /\ (initiated => Exact(s.map, chain, S))
         /\ initiated /\ ~verifyError => Match(s.map, s.table, Len(chain))
         /\ initiated /\ ~verifyError /\ verifying = 0 => Covers(s.map, lo - 1)
<1>1. /\ Len(chain) \in Nat /\ lo \in Nat \ {0} /\ lo - 1 \in Nat /\ lo - 1 < lo
      /\ AtEpochs(mDynamicRewards) /\ AtEpochs(table)
  BY DEF RewardsInv
<1>2. /\ AtEpochs(s.map) /\ AtEpochs(s.table)
      /\ DOMAIN mDynamicRewards = {} => DOMAIN s.map = {}
      /\ KeepsBelow(mDynamicRewards, s.map, lo) /\ KeepsBelow(table, s.table, lo)
      /\ Match(mDynamicRewards, table, Len(chain)) => Match(s.map, s.table, Len(chain))
      /\ Covers(mDynamicRewards, lo - 1) => Covers(s.map, lo - 1)
  BY <1>1, DisconnectEntries
<1> DEFINE S == {e \in exact : e < lo}
<1>3. Exact(s.table, chain, S) /\ (initiated => Exact(s.map, chain, S))
  BY <1>2 DEF RewardsInv, Exact, KeepsBelow
<1>4. ASSUME initiated, ~verifyError, verifying = 0 PROVE Covers(mDynamicRewards, lo - 1)
  <2>1. Covers(mDynamicRewards, Len(chain))
    BY <1>4 DEF RewardsInv, Reconnected
  <2> QED
    BY <1>1, <2>1 DEF Covers
<1> QED
  BY <1>2, <1>3, <1>4 DEF RewardsInv

\* DisconnectTip.
LEMMA RewardsDisconnectTip ==
  ASSUME RewardsInv, DisconnectTip
  PROVE  RewardsInv'
<1> DEFINE n == Len(chain)
           c == SubSeq(chain, 1, n - 1)
           s == RewardsDisconnect([map |-> mDynamicRewards, table |-> table], n, n)
           S == {e \in exact : e < n}
<1>1. /\ chain' = c /\ diskChain' = c /\ exact' = exact \ {n} /\ verifying = 0 /\ chain # <<>>
      /\ ibd => mDynamicRewards' = mDynamicRewards /\ table' = table
      /\ ~ibd => mDynamicRewards' = s.map /\ table' = s.table
      /\ UNCHANGED <<initiated, ibd, verifying, verifyError>>
  BY DEF DisconnectTip, Unreward
<1>2. chain \in Seq(Block) /\ n \in Nat /\ n # 0 /\ n \in 1 .. n /\ n - 1 \in Nat /\ n - 1 =< n
  BY <1>1 DEF RewardsInv
<1>3. c \in Seq(Block) /\ Len(c) = n - 1 /\ \A i \in 1 .. n - 1 : c[i] = chain[i]
  <2> DEFINE k == n - 1
  <2>1. k \in Nat /\ k =< Len(chain)
    BY <1>2
  <2> HIDE DEF k
  <2>2. /\ SubSeq(chain, 1, k) \in Seq(Block) /\ Len(SubSeq(chain, 1, k)) = k
        /\ \A i \in 1 .. k : SubSeq(chain, 1, k)[i] = chain[i]
    BY <1>2, <2>1, PrefixType
  <2> QED
    BY <2>2 DEF k
<1>4. \A e \in exact : e \in Nat /\ e =< n
  BY <1>2, EpochsAre DEF RewardsInv
<1>5. exact' = S /\ S \subseteq EpochsOf(chain)
  BY <1>1, <1>2, <1>4 DEF RewardsInv
<1>6. \A e \in S : e =< Len(c) /\ \A i \in 1 .. e : chain[i] = c[i]
  BY <1>2, <1>3, <1>4
<1> HIDE DEF s, c
<1>7. s = RewardsDisconnect([map |-> mDynamicRewards, table |-> table], n, Len(chain))
  BY DEF s
<1>8. /\ AtEpochs(s.map) /\ AtEpochs(s.table)
      /\ ~initiated => DOMAIN s.map = {}
      /\ Exact(s.table, chain, S) /\ (initiated => Exact(s.map, chain, S))
      /\ initiated /\ ~verifyError => Match(s.map, s.table, n) /\ Covers(s.map, n - 1)
  BY <1>1, <1>2, <1>7, DisconnectedEntries
<1> HIDE DEF S
<1>9. /\ AtEpochs(mDynamicRewards') /\ AtEpochs(table')
      /\ ~initiated => DOMAIN mDynamicRewards' = {}
      /\ Exact(table', chain, S) /\ (initiated => Exact(mDynamicRewards', chain, S))
      /\ initiated /\ ~verifyError =>
           Match(mDynamicRewards', table', n) /\ Covers(mDynamicRewards', n - 1)
  <2>1. CASE ~ibd
    BY <1>1, <1>8, <2>1
  <2>2. CASE ibd
    <3>1. Exact(table, chain, S) /\ ~initiated
      BY <2>2 DEF RewardsInv, Exact, S
    <3> QED
      BY <1>1, <2>2, <3>1 DEF RewardsInv
  <2> QED
    BY <2>1, <2>2
<1> HIDE DEF n
<1>10. /\ Exact(table', c, S) /\ (initiated => Exact(mDynamicRewards', c, S))
       /\ S \subseteq EpochsOf(c)
  BY <1>2, <1>3, <1>5, <1>6, <1>9, ExactPrefix
<1>11. Match(mDynamicRewards', table', n) => Match(mDynamicRewards', table', n - 1)
  BY <1>2 DEF Match
<1>12. Reconnected' = n - 1 /\ verifying' \in 0 .. Len(chain')
  BY <1>1, <1>2, <1>3 DEF Reconnected
<1> QED
  BY <1>1, <1>3, <1>5, <1>9, <1>10, <1>11, <1>12 DEF RewardsInv

\* VerifyDB begins.
LEMMA RewardsVerify ==
  ASSUME RewardsInv, NEW lo \in 1 .. Len(chain), VerifyDB(lo)
  PROVE  RewardsInv'
<1> DEFINE s == RewardsDisconnect([map |-> mDynamicRewards, table |-> table], lo, Len(chain))
           S == {e \in exact : e < lo}
<1>1. /\ mDynamicRewards' = s.map /\ table' = s.table /\ verifying' = lo /\ exact' = S
      /\ verifying = 0 /\ ~ibd
      /\ UNCHANGED <<chain, diskChain, initiated, ibd, verifyError>>
  BY DEF VerifyDB
<1> HIDE DEF s
<1>2. s = RewardsDisconnect([map |-> mDynamicRewards, table |-> table], lo, Len(chain))
  BY DEF s
<1>3. /\ AtEpochs(s.map) /\ AtEpochs(s.table)
      /\ ~initiated => DOMAIN s.map = {}
      /\ Exact(s.table, chain, S) /\ (initiated => Exact(s.map, chain, S))
      /\ initiated /\ ~verifyError => Match(s.map, s.table, Len(chain)) /\ Covers(s.map, lo - 1)
  BY <1>1, <1>2, DisconnectedEntries
<1>4. /\ lo \in Int /\ lo # 0 /\ Len(chain) \in Nat /\ lo \in 0 .. Len(chain)
      /\ S \subseteq exact /\ \A e \in S : e < lo
  BY DEF RewardsInv
<1>5. Reconnected' = lo - 1
  BY <1>1, <1>4 DEF Reconnected
<1> HIDE DEF S
<1> QED
  BY <1>1, <1>3, <1>4, <1>5 DEF RewardsInv

\* VerifyDB connects a block again.
LEMMA RewardsVerifyConnect ==
  ASSUME RewardsInv, VerifyDB_Connect
  PROVE  RewardsInv'
<1> DEFINE h == verifying
           m == chain[h].mint
           s == RewardsConnect(Init_Entries, h, m, FlushedForReward(h))
<1>1. /\ mDynamicRewards' = s.map /\ table' = s.table /\ initiated' = TRUE
      /\ diskChain' = FlushedForReward(h) /\ verifying # 0 /\ ~ibd
      /\ verifying' = (IF h = Len(chain) THEN 0 ELSE h + 1)
      /\ UNCHANGED <<chain, ibd, verifyError, exact>>
  BY DEF VerifyDB_Connect, Rewardable
<1>2. /\ Len(chain) \in Nat /\ h \in Nat \ {0} /\ h =< Len(chain)
      /\ \A e \in exact : e \in Nat /\ e < h
  BY <1>1, EpochsAre DEF RewardsInv
<1>3. m \in Nat \ {0}
  <2>1. chain[h] \in Block
    BY <1>2 DEF RewardsInv
  <2> QED
    BY <2>1 DEF Block
<1>4. Reconnected + 1 = h /\ Reconnected' = h
  BY <1>1, <1>2 DEF Reconnected
<1> HIDE DEF s, m
<1>5. s = RewardsConnect(Init_Entries, h, m, FlushedForReward(h))
  BY DEF s
<1>6. h \notin exact /\ h =< Len(chain) + 1
  BY <1>2
<1>7. /\ AtEpochs(s.map) /\ AtEpochs(s.table)
      /\ Exact(s.map, chain, exact) /\ Exact(s.table, chain, exact)
      /\ FlushedForReward(h) \in Seq(Block)
      /\ ~verifyError => Match(s.map, s.table, Len(chain)) /\ Covers(s.map, h)
  BY <1>2, <1>3, <1>4, <1>5, <1>6, ConnectedEntries
<1>8. verifying' \in 0 .. Len(chain) /\ (verifying' # 0 => \A e \in exact : e < verifying')
  BY <1>1, <1>2
<1> QED
  BY <1>1, <1>4, <1>7, <1>8 DEF RewardsInv

\* VerifyDB stops with an error.
LEMMA RewardsVerifyError ==
  ASSUME RewardsInv, VerifyDB_Error
  PROVE  RewardsInv'
<1> DEFINE h == verifying
<1>1. /\ UNCHANGED <<chain, ibd, exact>> /\ verifying' = 0 /\ verifyError' = TRUE /\ verifying # 0
  BY DEF VerifyDB_Error
<1>2. /\ Len(chain) \in Nat /\ h \in Nat \ {0} /\ h =< Len(chain) /\ 0 \in 0 .. Len(chain)
      /\ \A e \in exact : e \in Nat /\ e < h
  BY <1>1, EpochsAre DEF RewardsInv
<1>3. CASE UNCHANGED <<mDynamicRewards, table, initiated, diskChain>>
  BY <1>1, <1>2, <1>3 DEF RewardsInv
<1>4. CASE InsertFails(chain[h], h)
  <2>1. chain[h] \in Block /\ h \notin exact /\ h =< Len(chain) + 1
    BY <1>2 DEF RewardsInv
  <2>2. /\ AtEpochs(mDynamicRewards') /\ AtEpochs(table')
        /\ Exact(mDynamicRewards', chain, exact) /\ Exact(table', chain, exact)
        /\ diskChain' \in Seq(Block)
    BY <1>1, <1>2, <1>4, <2>1, RewardsInsertFails
  <2>3. initiated' = TRUE /\ ~ibd
    BY <1>4 DEF InsertFails, Rewardable
  <2> QED
    BY <1>1, <1>2, <2>2, <2>3 DEF RewardsInv
<1> QED
  BY <1>3, <1>4 DEF VerifyDB_Error

\* A new process on the coins of c.
LEMMA RewardsStart ==
  ASSUME RewardsInv, NEW c \in Seq(Block), Start(c), NEW S \in SUBSET exact,
         exact' = {e \in S : SamePrefix(chain, c, e)}, AtEpochs(table'), Exact(table', chain, S)
  PROVE  RewardsInv'
<1>1. /\ chain' = c /\ diskChain' = c /\ mDynamicRewards' = NoEntries
      /\ initiated' = FALSE /\ ibd' = TRUE /\ verifying' = 0 /\ verifyError' = FALSE
  BY DEF Start
<1>2. chain \in Seq(Block) /\ Len(chain) \in Nat /\ Len(c) \in Nat /\ 0 \in 0 .. Len(c)
  BY DEF RewardsInv
<1>3. DOMAIN NoEntries = {}
  BY DEF NoEntries
<1>4. exact' \subseteq EpochsOf(chain) /\ Exact(table', chain, exact')
  BY DEF RewardsInv, Exact
<1>5. ASSUME NEW e \in exact' PROVE e =< Len(c) /\ \A i \in 1 .. e : chain[i] = c[i]
  <2>1. e \in Nat /\ e =< Len(chain) /\ e =< Len(c) /\ SubSeq(chain, 1, e) = SubSeq(c, 1, e)
    BY <1>2, <1>4, <1>5, EpochsAre DEF SamePrefix
  <2>2. \A i \in 1 .. e : SubSeq(chain, 1, e)[i] = chain[i] /\ SubSeq(c, 1, e)[i] = c[i]
    BY <1>2, <2>1
  <2> QED
    BY <2>1, <2>2
<1>6. Exact(table', c, exact') /\ exact' \subseteq EpochsOf(c)
  BY <1>2, <1>4, <1>5, ExactPrefix
<1> QED
  BY <1>1, <1>2, <1>3, <1>6 DEF RewardsInv, AtEpochs

\* The process ends and starts again.
LEMMA RewardsRestart ==
  ASSUME RewardsInv,
         Restart \/ Reindex \/ CrashInDisconnect \/ \E b \in NextBlocks : CrashInConnect(b)
  PROVE  RewardsInv'
<1>1. /\ chain \in Seq(Block) /\ diskChain \in Seq(Block) /\ <<>> \in Seq(Block) /\ exact \in SUBSET exact
      /\ Len(chain) \in Nat /\ AtEpochs(table) /\ Exact(table, chain, exact)
  BY DEF RewardsInv
<1>2. CASE Restart
  BY <1>1, <1>2, RewardsStart DEF Restart
<1>3. CASE Reindex
  <2> DEFINE S == {}
  <2>1. exact' = {e \in S : SamePrefix(chain, <<>>, e)} /\ Start(<<>>) /\ table' = table
    BY <1>3 DEF Reindex
  <2>2. S \in SUBSET exact /\ Exact(table, chain, S)
    BY DEF Exact
  <2> HIDE DEF S
  <2> QED
    BY <1>1, <2>1, <2>2, RewardsStart
<1>4. CASE CrashInDisconnect
  <2> DEFINE n == Len(chain)
             s == RewardsDisconnect([map |-> mDynamicRewards, table |-> table], n, n)
             S == {e \in exact : e < n}
  <2>1. /\ table' = s.table /\ Start(diskChain) /\ chain # <<>>
        /\ exact' = {e \in exact \ {n} : SamePrefix(chain, diskChain, e)}
    BY <1>4 DEF CrashInDisconnect
  <2>2. n \in 1 .. n
    BY <1>1, <2>1
  <2>3. \A e \in exact : e \in Nat /\ e =< n
    BY <1>1, EpochsAre DEF RewardsInv
  <2>4. S = exact \ {n} /\ S \in SUBSET exact
    BY <1>1, <2>3
  <2> HIDE DEF s
  <2>5. s = RewardsDisconnect([map |-> mDynamicRewards, table |-> table], n, Len(chain))
    BY DEF s
  <2>6. AtEpochs(s.table) /\ Exact(s.table, chain, S)
    BY <2>2, <2>5, DisconnectedEntries
  <2> HIDE DEF S, n
  <2> QED
    BY <1>1, <2>1, <2>4, <2>6, RewardsStart
<1>5. ASSUME NEW b \in NextBlocks, CrashInConnect(b) PROVE RewardsInv'
  <2> DEFINE h == Len(chain) + 1
             s == RewardsConnect(Init_Entries, h, b.mint, FlushedForReward(h))
  <2>1. /\ table' = s.table /\ Start(FlushedForReward(h))
        /\ exact' = {e \in exact : SamePrefix(chain, FlushedForReward(h), e)}
    BY <1>5 DEF CrashInConnect
  <2>2. b \in Block /\ b.mint \in Nat \ {0} /\ h \in Nat \ {0} /\ h =< Len(chain) + 1
    BY <1>1, NextBlocksType DEF Block
  <2>3. h \notin exact
    BY <2>2, Appended DEF RewardsInv
  <2> HIDE DEF s
  <2>4. s = RewardsConnect(Init_Entries, h, b.mint, FlushedForReward(h))
    BY DEF s
  <2>5. AtEpochs(s.table) /\ Exact(s.table, chain, exact) /\ FlushedForReward(h) \in Seq(Block)
    BY <2>2, <2>3, <2>4, ConnectedEntries
  <2> HIDE DEF h
  <2> QED
    BY <1>1, <2>1, <2>5, RewardsStart
<1> QED
  BY <1>2, <1>3, <1>4, <1>5

\* Every step.
LEMMA RewardsStep ==
  ASSUME RewardsInv, [Next]_vars
  PROVE  RewardsInv'
  BY RewardsQuiet, RewardsConnectIBD, RewardsConnectTip, RewardsConnectFails, RewardsDisconnectTip,
     RewardsVerify, RewardsVerifyConnect, RewardsVerifyError, RewardsRestart DEF Next

\* At the beginning.
LEMMA RewardsInitial == Init => RewardsInv
<1> SUFFICES ASSUME Init PROVE RewardsInv
  OBVIOUS
<1>1. <<>> \in Seq(Block) /\ Len(<<>>) = 0 /\ 0 \in 0 .. 0 /\ DOMAIN NoEntries = {}
  BY DEF NoEntries
<1> QED
  BY <1>1 DEF Init, RewardsInv, AtEpochs, Exact

\* The invariant always holds.
LEMMA RewardsInvariant == Spec => []RewardsInv
  BY RewardsInitial, RewardsStep, PTL DEF Spec

-----------------------------------------------------------------------------
(* The results.                                                            *)

\* For every static table, target, interval, starting height and chain, with
\* failed insertions, crashes, restarts, reorganisations and verifychain at any
\* point: once the table is loaded and unless verifychain failed, the map and
\* the table have the same entries from the first computed epoch up to the tip.
THEOREM TableAlwaysMatchesMap == Spec => []TableMatchesMap
<1>1. ASSUME RewardsInv PROVE TableMatchesMap
  <2> DEFINE epochs == GetDynamicRewardsEpochHeight(nFeatureStartHeight) + 1 .. Len(chain)
  <2> SUFFICES ASSUME initiated, ~verifyError
               PROVE  Restricted(mDynamicRewards, epochs) = Restricted(table, epochs)
    BY DEF TableMatchesMap
  <2>1. Match(mDynamicRewards, table, Len(chain)) /\ Len(chain) \in Nat
    BY <1>1 DEF RewardsInv
  <2>2. \A e \in epochs : e \in Nat /\ e > First /\ e =< Len(chain)
    BY <2>1, FirstFacts DEF First
  <2> HIDE DEF epochs
  <2>3. /\ DOMAIN mDynamicRewards \cap epochs = DOMAIN table \cap epochs
        /\ \A e \in DOMAIN mDynamicRewards \cap epochs : mDynamicRewards[e] = table[e]
    BY <2>1, <2>2 DEF Match
  <2> QED
    BY <2>3 DEF Restricted
<1> QED
  BY <1>1, RewardsInvariant, PTL

\* Under the same circumstances: an epoch whose first block was connected
\* outside of initial download has, in the table and in memory, the reward that
\* follows from the chain alone.
THEOREM LiveRewardsAlwaysExact == Spec => []LiveRewardsExact
<1>1. ASSUME RewardsInv PROVE LiveRewardsExact
  <2> SUFFICES ASSUME NEW e \in exact
               PROVE  /\ e \in DOMAIN table /\ table[e] = EntriesOf(chain)[e]
                      /\ initiated => mDynamicRewards[e] = EntriesOf(chain)[e]
    BY DEF LiveRewardsExact
  <2>1. e \in EpochsOf(chain)
    BY <1>1 DEF RewardsInv
  <2>2. EntriesOf(chain)[e] = RewardOf(chain, e)
    BY <2>1 DEF EntriesOf, RewardOf
  <2> QED
    BY <1>1, <2>2 DEF RewardsInv, Exact
<1> QED
  BY <1>1, RewardsInvariant, PTL

\* Under the same circumstances: a process that has loaded the table has an
\* entry for every epoch up to the tip, unless VerifyDB runs or has failed.
THEOREM EpochAlwaysHasReward == Spec => []EpochHasReward
<1>1. ASSUME RewardsInv PROVE EpochHasReward
  <2> SUFFICES ASSUME initiated, ~verifyError, verifying = 0, NEW e \in EpochsOf(chain)
               PROVE  e \in DOMAIN mDynamicRewards
    BY DEF EpochHasReward
  <2>1. Covers(mDynamicRewards, Len(chain)) /\ chain \in Seq(Block)
    BY <1>1 DEF RewardsInv, Reconnected
  <2> QED
    BY <2>1, EpochsAre DEF Covers
<1> QED
  BY <1>1, RewardsInvariant, PTL
=============================================================================
