----------------------- MODULE MasternodeSyncProofs -----------------------
(***************************************************************************)
(* The safety properties of Sporks and MasternodeSync, for every set of    *)
(* peers and of signed sporks, every threshold and every list.             *)
(*                                                                         *)
(* SporkInv adds to the properties what ProcessSpork relies on between its *)
(* two sections: the spork it holds is newer than the one it was compared  *)
(* with, and only UpdateSpork can have replaced that one since.  SyncInv   *)
(* adds that the attempts of the stage SPORKS were requests of this round. *)
(***************************************************************************)
EXTENDS MasternodeSync, TLAPS

SporkTypes ==
  /\ {mapSporksActive, sporkDB, handling, against} \subseteq OrNone
  /\ updating \in Own \cup {NoSpork}
  /\ handled \in BOOLEAN
  /\ inbox \in [Peers -> SUBSET Signed]
  /\ theirs \in [Peers -> OrNone]
  /\ offered \subseteq Peers \X Signed

SporkInv ==
  /\ SporkTypes
  /\ DatabaseFollows
  /\ OfferedIsHeld
  /\ handled => handling # NoSpork /\ mapSporksActive \in Own \cup {handling}
  /\ handling # NoSpork /\ ~handled =>
       /\ Newer(handling, against)
       /\ mapSporksActive = against \/ mapSporksActive \in Own

Fields ==
  [stage : {"INITIAL", "SPORKS", "LIST", "FAILED", "FINISHED"}, attempt : Nat,
   list : BOOLEAN, sum : Nat, count : Nat, late : BOOLEAN,
   chain : {"stale", "behind", "synced"}, asks : Nat]

\* The requests of a state s of the sync.
Asked(s) ==
  /\ s \in Fields
  /\ s.stage = "SPORKS" => s.asks >= s.attempt
  /\ s.stage \in {"LIST", "FAILED", "FINISHED"} => s.asks >= 3

SyncInv == Asked(sync)

-----------------------------------------------------------------------------
(* Sporks.                                                                 *)

\* LoadSporksFromDB starts with what the database holds.
LEMMA SporkInitInv == SporkInit => SporkInv
  BY SporksAssumption
  DEF SporkInit, SporkInv, SporkTypes, DatabaseFollows, OfferedIsHeld, OrNone, Loaded

\* A peer's relay only adds to the inbox.
LEMMA PeerRelaysInv ==
  ASSUME SporkInv, NEW p \in Peers, NEW s \in Signed, PeerRelays(p, s)
  PROVE  SporkInv'
  BY DEF PeerRelays, SporkInv, SporkTypes, DatabaseFollows, OfferedIsHeld, OrNone

\* A getdata takes an offer away and leaves the node as it is.
LEMMA ServeGetDataInv ==
  ASSUME SporkInv, NEW p \in Peers, NEW s \in Signed, ServeGetData(p, s)
  PROVE  SporkInv'
  BY DEF ServeGetData, SporkInv, SporkTypes, DatabaseFollows, OfferedIsHeld, OrNone

\* The check of ProcessSpork establishes that the message is newer.
LEMMA CheckSporkInv ==
  ASSUME SporkInv, NEW p \in Peers, NEW s \in Signed, CheckSpork(p, s)
  PROVE  SporkInv'
  BY SporksAssumption
  DEF CheckSpork, Updates, SporkInv, SporkTypes, DatabaseFollows, OfferedIsHeld, OrNone

\* The storing section makes the spork active and offers only what it stored.
LEMMA StoreSporkInv ==
  ASSUME SporkInv, StoreSpork
  PROVE  SporkInv'
<1>1. handling \in Signed
  BY DEF SporkInv, SporkTypes, OrNone, StoreSpork
<1> QED
  BY <1>1, SporksAssumption
  DEF StoreSpork, Stored, Relayed, SporkInv, SporkTypes, DatabaseFollows, OfferedIsHeld, OrNone

\* WriteSpork closes the gap between database and memory.
LEMMA WriteSporkInv ==
  ASSUME SporkInv, WriteSpork
  PROVE  SporkInv'
  BY DEF WriteSpork, Persisted, SporkInv, SporkTypes, DatabaseFollows, OfferedIsHeld, OrNone

\* UpdateSpork relays a spork that is not in the maps yet,
LEMMA RelayUpdateInv ==
  ASSUME SporkInv, NEW s \in Signed, RelayUpdate(s)
  PROVE  SporkInv'
  BY SporksAssumption
  DEF RelayUpdate, Relayed, SporkInv, SporkTypes, DatabaseFollows, OfferedIsHeld, OrNone

\* and then puts it there.
LEMMA StoreUpdateInv ==
  ASSUME SporkInv, StoreUpdate
  PROVE  SporkInv'
  BY SporksAssumption
  DEF StoreUpdate, Stored, SporkInv, SporkTypes, DatabaseFollows, OfferedIsHeld, OrNone

\* A restart begins with the database and no connection.
LEMMA RestartInv ==
  ASSUME SporkInv, Restart
  PROVE  SporkInv'
  BY SporksAssumption
  DEF Restart, Loaded, SporkInv, SporkTypes, DatabaseFollows, OfferedIsHeld, OrNone

\* A reconnection empties what was on the connection.
LEMMA DisconnectInv ==
  ASSUME SporkInv, NEW p \in Peers, Disconnect(p)
  PROVE  SporkInv'
  BY DEF Disconnect, SporkInv, SporkTypes, DatabaseFollows, OfferedIsHeld, OrNone

\* Of the spork manager, Process changes what the peers send.
LEMMA ProcessSporkInv ==
  ASSUME SporkInv, NEW recent \in BOOLEAN, Process(recent)
  PROVE  SporkInv'
<1>1. inbox' \in [Peers -> SUBSET Signed]
  <2>1. \A p \in Peers : Answer(p) \in [Peers -> SUBSET Signed]
    BY DEF SporkInv, SporkTypes, Answer, Loaded, OrNone
  <2>2. inbox' = inbox \/ \E p \in Peers : inbox' = Answer(p)
    BY DEF Process, AskSporks, AskList, NobodyLeft
  <2> QED
    BY <2>1, <2>2 DEF SporkInv, SporkTypes
<1>2. UNCHANGED <<mapSporksActive, mapSporks, sporkDB, handling, against, handled, updating, theirs, offered>>
  BY DEF Process
<1> QED
  BY <1>1, <1>2 DEF SporkInv, SporkTypes, DatabaseFollows, OfferedIsHeld, OrNone

\* The steps that leave the spork manager alone.
LEMMA SporkUnchangedInv ==
  ASSUME SporkInv, UNCHANGED sporkVars
  PROVE  SporkInv'
  BY DEF sporkVars, SporkInv, SporkTypes, DatabaseFollows, OfferedIsHeld, OrNone

\* Every step of the composition keeps SporkInv.
LEMMA SporkStep == SporkInv /\ [Next]_vars => SporkInv'
<1> SUFFICES ASSUME SporkInv, [Next]_vars PROVE SporkInv'
  OBVIOUS
<1>1. CASE \E recent \in BOOLEAN : Process(recent)
  BY <1>1, ProcessSporkInv
<1>2. CASE UNCHANGED sporkVars
  BY <1>2, SporkUnchangedInv
<1>3. CASE \E p \in Peers : Reconnect(p)
  BY <1>3, DisconnectInv DEF Reconnect
<1>4. CASE RestartNode
  BY <1>4, RestartInv DEF RestartNode
<1>5. CASE \E p \in Peers, s \in Signed : PeerRelays(p, s) \/ ServeGetData(p, s) \/ CheckSpork(p, s)
  BY <1>5, PeerRelaysInv, ServeGetDataInv, CheckSporkInv
<1>6. CASE \E s \in Signed : RelayUpdate(s)
  BY <1>6, RelayUpdateInv
<1>7. CASE StoreSpork \/ WriteSpork \/ StoreUpdate
  BY <1>7, StoreSporkInv, WriteSporkInv, StoreUpdateInv
<1> QED
  BY <1>1, <1>2, <1>3, <1>4, <1>5, <1>6, <1>7
  DEF Next, vars, CheckChain, Reannounce, SyncStatusCount, AnnounceMasternode, FiveMinutesPass,
      MasternodeChanges, MinutePasses, Sleep, Reset, HandlerFree

\* The inductive invariant of the spork manager holds in every state.
LEMMA SporkInvariant == Spec => []SporkInv
<1>1. Init => SporkInv
  BY SporkInitInv DEF Init
<1> QED
  BY <1>1, SporkStep, PTL DEF Spec

\* WriteSpork follows every spork that ProcessSpork makes active: between
\* messages only a spork of UpdateSpork can be lost by a restart.
THEOREM DatabaseFollowsAlways == Spec => []DatabaseFollows
<1>1. SporkInv => DatabaseFollows
  BY DEF SporkInv
<1> QED
  BY <1>1, SporkInvariant, PTL

\* What Relay offered is in the map getdata is served from, or is about to be
\* put there by UpdateSpork.
THEOREM OfferedIsHeldAlways == Spec => []OfferedIsHeld
<1>1. SporkInv => OfferedIsHeld
  BY DEF SporkInv
<1> QED
  BY <1>1, SporkInvariant, PTL

\* The spork in force gives way to an older one only by UpdateSpork, by the
\* race of UpdateSpork with ProcessSpork, or by a restart that finds less in
\* the database.
THEOREM MostRecentAlways == Spec => MostRecentInForce
<1> DEFINE Excused ==
      Newer(mapSporksActive, mapSporksActive') =>
        \/ mapSporksActive' = updating
        \/ mapSporksActive \in Own /\ (mapSporksActive # against \/ mapSporksActive' = sporkDB)
        \/ handled /\ mapSporksActive' = sporkDB
<1>1. ASSUME SporkInv, [Next]_vars PROVE [Excused]_sporkVars
  <2>1. ASSUME mapSporksActive' = mapSporksActive PROVE Excused
    <3>1. nTimeSigned(mapSporksActive) \in Nat
      BY <1>1, SporksAssumption DEF SporkInv, SporkTypes, OrNone, nTimeSigned
    <3> QED
      BY <2>1, <3>1 DEF Newer
  <2>2. CASE StoreSpork
    <3>1. ASSUME mapSporksActive = against PROVE ~Newer(mapSporksActive, mapSporksActive')
      <4>1. Newer(handling, against) /\ mapSporksActive' = handling
        BY <1>1, <2>2 DEF StoreSpork, SporkInv
      <4>2. nTimeSigned(handling) \in Nat /\ nTimeSigned(against) \in Nat
        BY <1>1, SporksAssumption DEF SporkInv, SporkTypes, OrNone, nTimeSigned
      <4> QED
        BY <3>1, <4>1, <4>2 DEF Newer
    <3>2. mapSporksActive = against \/ mapSporksActive \in Own
      BY <1>1, <2>2 DEF StoreSpork, SporkInv
    <3> QED
      BY <3>1, <3>2
  <2>3. CASE StoreUpdate
    BY <2>3 DEF StoreUpdate
  <2>4. CASE Restart
    <3>1. ASSUME mapSporksActive = sporkDB PROVE Excused
      BY <2>1, <2>4, <3>1 DEF Restart
    <3> QED
      BY <1>1, <2>4, <3>1 DEF Restart, SporkInv, SporkTypes, DatabaseFollows
  <2>5. \/ mapSporksActive' = mapSporksActive \/ StoreSpork \/ StoreUpdate \/ Restart
    BY <1>1
    DEF Next, vars, sporkVars, Process, CheckChain, Reannounce, SyncStatusCount, AnnounceMasternode,
        FiveMinutesPass, MasternodeChanges, MinutePasses, Sleep, Reset, HandlerFree, Reconnect,
        Disconnect, RestartNode, PeerRelays, ServeGetData, CheckSpork, RelayUpdate, WriteSpork
  <2> QED
    BY <2>1, <2>2, <2>3, <2>4, <2>5
<1> QED
  BY <1>1, SporkInvariant, PTL DEF Spec, MostRecentInForce

-----------------------------------------------------------------------------
(* Masternode sync.                                                        *)

\* A request for sporks is counted twice, as an attempt and as history.
LEMMA AskedOnce ==
  ASSUME NEW s \in Fields
  PROVE  LET t == [s EXCEPT !.attempt = @ + 1, !.asks = @ + 1]
         IN  t \in Fields /\ t.stage = s.stage /\ t.asks = s.asks + 1 /\ t.attempt = s.attempt + 1
<1>1. s.attempt + 1 \in Nat /\ s.asks + 1 \in Nat
  BY DEF Fields
<1>2. ASSUME NEW a \in Nat, NEW b \in Nat
      PROVE  LET t == [s EXCEPT !.attempt = a, !.asks = b]
             IN  t \in Fields /\ t.stage = s.stage /\ t.asks = b /\ t.attempt = a
  BY DEF Fields
<1> QED
  BY <1>1, <1>2

\* The end of the stage SPORKS.
LEMMA ListNext ==
  ASSUME NEW s \in Fields, s.stage = "SPORKS"
  PROVE  LET t == GetNextAsset(s)
         IN  t \in Fields /\ t.stage = "LIST" /\ t.asks = s.asks
<1>1. GetNextAsset(s) = [s EXCEPT !.stage = "LIST", !.attempt = 0, !.late = FALSE]
  BY DEF GetNextAsset, Fields
<1> DEFINE t == [s EXCEPT !.stage = "LIST", !.attempt = 0, !.late = FALSE]
<1>2. t \in Fields /\ t.stage = "LIST" /\ t.asks = s.asks
  BY DEF Fields
<1> QED
  BY <1>1, <1>2

\* A peer's count is added to the sums.
LEMMA CountedAsked ==
  ASSUME NEW s, Asked(s), NEW k \in Nat
  PROVE  Asked([s EXCEPT !.sum = @ + k, !.count = @ + 1])
<1>1. s.sum + k \in Nat /\ s.count + 1 \in Nat
  BY DEF Asked, Fields
<1>2. ASSUME NEW a \in Nat, NEW b \in Nat
      PROVE  Asked([s EXCEPT !.sum = a, !.count = b])
  BY DEF Asked, Fields
<1> QED
  BY <1>1, <1>2

\* GetNextAsset leaves the stage SPORKS only where three were asked.
LEMMA GetNextAssetAsked ==
  ASSUME NEW s \in Fields, Asked(s), s.stage = "SPORKS" => s.asks >= 3
  PROVE  Asked(GetNextAsset(s))
<1>1. CASE s.stage \in {"INITIAL", "FAILED"}
  <2>1. GetNextAsset(s) = [s EXCEPT !.stage = "SPORKS", !.attempt = 0, !.late = FALSE]
    BY <1>1 DEF GetNextAsset, Fields
  <2> DEFINE t == [s EXCEPT !.stage = "SPORKS", !.attempt = 0, !.late = FALSE]
  <2>2. t \in Fields /\ t.stage = "SPORKS" /\ t.attempt = 0
    BY DEF Fields
  <2>3. t.asks \in Nat
    BY <2>2 DEF Fields
  <2>4. Asked(t)
    BY <2>2, <2>3 DEF Asked
  <2> QED
    BY <2>1, <2>4
<1>2. CASE s.stage = "SPORKS"
  <2>1. GetNextAsset(s) = [s EXCEPT !.stage = "LIST", !.attempt = 0, !.late = FALSE]
    BY <1>2 DEF GetNextAsset, Fields
  <2>2. Asked([s EXCEPT !.stage = "LIST", !.attempt = 0, !.late = FALSE])
    BY <1>2 DEF Asked, Fields
  <2> QED
    BY <2>1, <2>2
<1>3. CASE s.stage \in {"LIST", "FINISHED"}
  <2>1. GetNextAsset(s) = [s EXCEPT !.stage = "FINISHED", !.attempt = 0, !.late = FALSE]
    BY <1>3 DEF GetNextAsset, Fields
  <2>2. Asked([s EXCEPT !.stage = "FINISHED", !.attempt = 0, !.late = FALSE])
    BY <1>3 DEF Asked, Fields
  <2> QED
    BY <2>1, <2>2
<1> QED
  BY <1>1, <1>2, <1>3 DEF Fields

\* Resets included, IsBlockchainSynced adds no stage that was not earned.
LEMMA IsBlockchainSyncedAsked ==
  ASSUME NEW STATE s, Asked(s), NEW recent \in BOOLEAN
  PROVE  Asked(IsBlockchainSynced(s, recent))
  BY DEF Asked, Fields, IsBlockchainSynced, ResetSync

\* The fields of a Reset.
LEMMA ResetAsked == Asked(ResetSync)
  BY DEF Asked, Fields, ResetSync

\* The fields with which Process begins to visit the nodes.
LEMMA StartedAsked ==
  ASSUME SyncInv, NEW recent \in BOOLEAN
  PROVE  Asked(Started(recent))
<1> DEFINE r == IF Retries(sync) THEN ResetSync ELSE sync
           n == IF r.stage = "INITIAL" THEN GetNextAsset(r) ELSE r
<1>1. Asked(r)
  BY ResetAsked DEF SyncInv
<1>2. Asked(n)
  BY <1>1, GetNextAssetAsked DEF Asked
<1>3. Started(recent) = IsBlockchainSynced(n, recent)
  BY DEF Started
<1> QED
  BY <1>2, <1>3, IsBlockchainSyncedAsked

\* A request for sporks is counted, and the third one ends the stage.
LEMMA AskSporksAsked ==
  ASSUME NEW STATE s, Asked(s), NEW p \in Peers, AskSporks(s, p)
  PROVE  SyncInv'
<1> DEFINE n == IF EnoughSporks(s) THEN GetNextAsset(s) ELSE s
<1>1. s \in Fields /\ s.stage = "SPORKS" /\ s.asks >= s.attempt
  BY DEF AskSporks, Asked
<1>2. sync' = [n EXCEPT !.attempt = @ + 1, !.asks = @ + 1]
  BY DEF AskSporks
<1>3. CASE EnoughSporks(s)
  <2>1. n \in Fields /\ n.stage = "LIST" /\ n.asks = s.asks
    BY <1>1, <1>3, ListNext
  <2>2. sync' \in Fields /\ sync'.stage = "LIST" /\ sync'.asks = s.asks + 1
    <3> HIDE DEF n
    <3> QED
      BY <1>2, <2>1, AskedOnce
  <2>3. s.asks \in Nat /\ s.attempt \in Nat /\ s.attempt >= 2
    BY <1>1, <1>3 DEF EnoughSporks, Fields
  <2>4. sync'.asks >= 3
    BY <1>1, <2>2, <2>3
  <2> QED
    BY <2>2, <2>4 DEF SyncInv, Asked
<1>4. CASE ~EnoughSporks(s)
  <2>1. /\ sync' \in Fields /\ sync'.stage = "SPORKS"
        /\ sync'.asks = s.asks + 1 /\ sync'.attempt = s.attempt + 1
    BY <1>1, <1>2, <1>4, AskedOnce
  <2>2. s.asks \in Nat /\ s.attempt \in Nat
    BY <1>1 DEF Fields
  <2> QED
    BY <1>1, <2>1, <2>2 DEF SyncInv, Asked
<1> QED
  BY <1>3, <1>4

\* The stage LIST is reached only after the sporks and asks for none.
LEMMA AskListAsked ==
  ASSUME NEW STATE s, Asked(s), NEW p \in Peers, AskList(s, p)
  PROVE  SyncInv'
<1>1. s \in Fields /\ s.stage = "LIST" /\ s.asks >= 3
  BY DEF AskList, Asked
<1>2. Asked(GetNextAsset(s))
  BY <1>1, GetNextAssetAsked
<1>3. \/ sync' \in {s, GetNextAsset(s)}
      \/ sync' = [s EXCEPT !.stage = "FAILED", !.attempt = 0, !.late = FALSE]
      \/ sync' = [s EXCEPT !.attempt = @ + 1]
  BY DEF AskList
<1>4. CASE sync' = [s EXCEPT !.stage = "FAILED", !.attempt = 0, !.late = FALSE]
  BY <1>1, <1>4 DEF SyncInv, Asked, Fields
<1>5. CASE sync' = [s EXCEPT !.attempt = @ + 1]
  BY <1>1, <1>5 DEF SyncInv, Asked, Fields
<1> QED
  BY <1>2, <1>3, <1>4, <1>5 DEF SyncInv

\* A call of Process.
LEMMA ProcessAsked ==
  ASSUME SyncInv, NEW recent \in BOOLEAN, Process(recent)
  PROVE  SyncInv'
<1> DEFINE s == Started(recent)
<1>1. Asked(s)
  BY StartedAsked
<1>2. \/ sync' = s
      \/ \E p \in Peers : AskSporks(s, p) \/ AskList(s, p)
  BY DEF Process, NobodyLeft
<1> QED
  BY <1>1, <1>2, AskSporksAsked, AskListAsked DEF SyncInv

\* Marking the list as begun changes no stage.
LEMMA AddedAsked ==
  ASSUME NEW STATE s, Asked(s), NEW STATE n, AddedMasternodeList(s, n)
  PROVE  SyncInv'
  BY DEF AddedMasternodeList, SyncInv, Asked, Fields

\* Every step keeps SyncInv.
LEMMA SyncStep == SyncInv /\ [Next]_vars => SyncInv'
<1> SUFFICES ASSUME SyncInv, [Next]_vars PROVE SyncInv'
  OBVIOUS
<1>1. CASE \E recent \in BOOLEAN : Process(recent)
  BY <1>1, ProcessAsked
<1>2. ASSUME NEW recent \in Tips, CheckChain(recent) PROVE SyncInv'
  BY <1>2, IsBlockchainSyncedAsked DEF CheckChain, SyncInv, Tips
<1>3. ASSUME NEW recent \in Tips, Reannounce(recent) PROVE SyncInv'
  BY <1>3, IsBlockchainSyncedAsked, AddedAsked DEF Reannounce, SyncInv, Tips
<1>4. ASSUME NEW recent \in Tips, NEW p \in Peers, SyncStatusCount(p, recent) PROVE SyncInv'
  <2> DEFINE s == IsBlockchainSynced(sync, recent)
  <2>1. Asked(s)
    BY IsBlockchainSyncedAsked DEF SyncInv, Tips
  <2>2. ListSize[p] \in Nat
    BY MasternodeSyncAssumption
  <2>3. CASE sync' = s
    BY <2>1, <2>3 DEF SyncInv
  <2>4. CASE sync' = [s EXCEPT !.sum = @ + ListSize[p], !.count = @ + 1]
    <3> HIDE DEF s
    <3> QED
      BY <2>1, <2>2, <2>4, CountedAsked DEF SyncInv
  <2> QED
    BY <1>4, <2>3, <2>4 DEF SyncStatusCount
<1>5. ASSUME NEW recent \in Tips, NEW p \in Peers, AnnounceMasternode(p, recent) PROVE SyncInv'
  BY <1>5, IsBlockchainSyncedAsked, AddedAsked DEF AnnounceMasternode, SyncInv, Tips
<1>6. CASE MinutePasses
  BY <1>6 DEF MinutePasses, SyncInv, Asked, Fields
<1>7. CASE Sleep
  BY <1>7 DEF Sleep, SyncInv, Asked, Fields
<1>8. CASE Reset \/ RestartNode
  BY <1>8, ResetAsked DEF Reset, RestartNode, SyncInv
<1>9. CASE UNCHANGED sync
  BY <1>9 DEF SyncInv, Asked, Fields
<1> QED
  BY <1>1, <1>2, <1>3, <1>4, <1>5, <1>6, <1>7, <1>8, <1>9
  DEF Next, vars, syncVars, FiveMinutesPass, Reconnect, MasternodeChanges

\* The sync is never past the sporks with fewer than three requests for them
\* since the last Reset.
THEOREM ThreeAskedAlways == Spec => []ThreeAskedForSporks
<1>1. Init => SyncInv
  BY ResetAsked DEF Init, SyncInv
<1>2. SyncInv => ThreeAskedForSporks
  BY DEF SyncInv, Asked, ThreeAskedForSporks, IsSporkListSynced
<1> QED
  BY <1>1, <1>2, SyncStep, PTL DEF Spec
=============================================================================
