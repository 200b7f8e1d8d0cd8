-------------------------- MODULE MasternodeSync --------------------------
(***************************************************************************)
(* masternode-sync.cpp on a network that is not regtest, on top of the     *)
(* spork manager it asks the peers to fill and reads SPORK_8 from.         *)
(*                                                                         *)
(* Process runs every ten seconds in the masternode thread; the message    *)
(* handler and the RPC threads call the rest.  They share the fields       *)
(* without a lock: the model interleaves whole calls.  Of time only what   *)
(* is compared is kept: whether a period has passed.  The masternode list  *)
(* is one masternode, known by its last broadcast; the peers' lists may    *)
(* be longer.                                                              *)
(***************************************************************************)
EXTENDS Sporks, Integers, FiniteSets

CONSTANTS MASTERNODE_SYNC_THRESHOLD,
          ListSize   \* the length of the list of every peer

ASSUME MasternodeSyncAssumption ==
  /\ MASTERNODE_SYNC_THRESHOLD \in Nat \ {0}
  /\ ListSize \in [Peers -> Nat]

VARIABLES sync,       \* the fields of CMasternodeSync
          fulfilled,  \* vecRequestsFulfilled of the connections
          weAsked,    \* mWeAskedForMasternodeList: peers asked less than five minutes ago
          listing,    \* of every peer: "idle", "asked" or "counted" (invs to follow)
          mn,         \* the masternode: "unknown", "disabled" or "enabled"
          nSeen       \* mapSeenSyncMNB of its broadcast

syncVars == <<sync, fulfilled, weAsked, listing, mn, nSeen>>
vars == <<sporkVars, syncVars>>

\* Of the fields: list is lastMasternodeList > 0, late that a minute has passed
\* since nAssetSyncStarted or lastFailure, chain "stale" that lastProcess is 0
\* or an hour old, "synced" that fBlockchainSynced is set.  History: asks, the
\* getsporks sent since the Reset.
ResetSync ==
  [stage |-> "INITIAL", attempt |-> 0, list |-> FALSE, sum |-> 0, count |-> 0,
   late |-> FALSE, chain |-> "stale", asks |-> 0]

Init ==
  /\ SporkInit
  /\ sync = ResetSync
  /\ fulfilled = {} /\ weAsked = {}
  /\ listing = [p \in Peers |-> "idle"]
  /\ mn = "unknown" /\ nSeen = 0

CountEnabled == IF mn = "enabled" THEN 1 ELSE 0

\* IsSporkActive(SPORK_8): without a spork, the default is off.
SPORK_8 == mapSporksActive # NoSpork /\ mapSporksActive.nValue

IsSporkListSynced == sync.stage \in {"LIST", "FAILED", "FINISHED"}

\* GetNextAsset, with ClearFulfilledRequest below.
GetNextAsset(s) ==
  [s EXCEPT !.stage = CASE @ \in {"INITIAL", "FAILED"} -> "SPORKS"
                        [] @ = "SPORKS" -> "LIST"
                        [] OTHER -> "FINISHED",
            !.attempt = 0, !.late = FALSE]

\* IsBlockchainSynced: after an hour without a call, or a Reset, everything
\* starts again; recent says whether the tip was found and is recent enough.
IsBlockchainSynced(s, recent) ==
  LET r == IF s.chain = "stale" THEN ResetSync ELSE s
  IN  [r EXCEPT !.chain = IF s.chain = "synced" \/ recent THEN "synced" ELSE "behind"]

-----------------------------------------------------------------------------
(* Process.                                                                *)

\* Mutant: a failed sync is not tried again.
Retries_Finished(s) == s.stage = "FINISHED" /\ CountEnabled = 0

\* "try syncing again", and "Resync if we lose all masternodes".
Retries(s) ==
  \/ s.stage = "FINISHED" /\ CountEnabled = 0
  \/ s.stage = "FAILED" /\ s.late

Returns(s) == s.stage \in {"FINISHED", "FAILED"} /\ ~Retries(s)

\* The first half of Process: the fields before any node is visited.
Started(recent) ==
  LET r == IF Retries(sync) THEN ResetSync ELSE sync
      n == IF r.stage = "INITIAL" THEN GetNextAsset(r) ELSE r
  IN  IsBlockchainSynced(n, recent)

\* ClearFulfilledRequest is called on the way from INITIAL.
Pending == IF sync.stage = "INITIAL" \/ Retries(sync) THEN {} ELSE fulfilled

\* Mutant: the third request is not waited for.
EnoughSporks_Two(s) == s.attempt >= 1

EnoughSporks(s) == s.attempt >= 2

\* SyncWithNode in the stage SPORKS.
AskSporks(s, p) ==
  LET n == IF EnoughSporks(s) THEN GetNextAsset(s) ELSE s IN
  /\ s.stage = "SPORKS"
  /\ <<p, "getspork">> \notin Pending
  /\ fulfilled' = Pending \cup {<<p, "getspork">>}
  /\ inbox' = Answer(p)
  /\ sync' = [n EXCEPT !.attempt = @ + 1, !.asks = @ + 1]
  /\ UNCHANGED <<weAsked, listing>>

\* "only move on after getting a properly sized MN list"
GoodEnough(s) ==
  /\ s.list /\ s.count > 0
  /\ s.attempt >= MASTERNODE_SYNC_THRESHOLD
  /\ CountEnabled >= (s.sum * 60) \div (s.count * 100)

TimedOut(s) == ~s.list /\ (s.attempt >= MASTERNODE_SYNC_THRESHOLD * 3 \/ s.late)

\* SyncWithNode in the stage LIST.
AskList(s, p) ==
  /\ s.stage = "LIST"
  /\ UNCHANGED inbox
  /\ IF GoodEnough(s)
     THEN sync' = GetNextAsset(s) /\ fulfilled' = Pending /\ UNCHANGED <<weAsked, listing>>
     ELSE /\ <<p, "mnsync">> \notin Pending
          /\ fulfilled' = Pending \cup {<<p, "mnsync">>}
          /\ IF TimedOut(s)
             THEN /\ sync' = IF SPORK_8 THEN [s EXCEPT !.stage = "FAILED", !.attempt = 0, !.late = FALSE]
                             ELSE GetNextAsset(s)
                  /\ UNCHANGED <<weAsked, listing>>
             ELSE IF s.attempt >= MASTERNODE_SYNC_THRESHOLD * 5
             THEN sync' = s /\ UNCHANGED <<weAsked, listing>>
             ELSE \* DsegUpdate, which does not ask a peer again so soon
                  /\ sync' = [s EXCEPT !.attempt = @ + 1]
                  /\ weAsked' = weAsked \cup {p}
                  /\ listing' = IF p \in weAsked THEN listing ELSE [listing EXCEPT ![p] = "asked"]

\* No node returned false.
NobodyLeft(s) ==
  /\ CASE s.stage = "SPORKS" -> \A p \in Peers : <<p, "getspork">> \in Pending
       [] s.stage = "LIST" -> ~GoodEnough(s) /\ \A p \in Peers : <<p, "mnsync">> \in Pending
       [] OTHER -> TRUE
  /\ sync' = s /\ fulfilled' = Pending
  /\ UNCHANGED <<inbox, weAsked, listing>>

Process(recent) ==
  LET s == Started(recent) IN
  /\ ~Returns(sync)
  /\ IF s.chain # "synced" /\ s.stage \in {"LIST", "FAILED", "FINISHED"}
     THEN sync' = s /\ fulfilled' = Pending /\ UNCHANGED <<inbox, weAsked, listing>>
     ELSE (\E p \in Peers : AskSporks(s, p) \/ AskList(s, p)) \/ NobodyLeft(s)
  /\ UNCHANGED <<mapSporksActive, mapSporks, sporkDB, handling, against, handled, updating, theirs, offered, mn, nSeen>>

-----------------------------------------------------------------------------
(* Messages, other threads and time.                                       *)

\* What IsBlockchainSynced may find at the tip; it does not look again once it
\* was recent.
Tips == IF sync.chain = "synced" THEN {TRUE} ELSE BOOLEAN

\* The message handler is not inside ProcessSpork.
HandlerFree == handling = NoSpork /\ UNCHANGED sporkVars

\* The masternode thread, and every message for the masternode manager.
CheckChain(recent) ==
  /\ sync.chain # "synced"
  /\ sync' = IsBlockchainSynced(sync, recent)
  /\ UNCHANGED <<sporkVars, fulfilled, weAsked, listing, mn, nSeen>>

\* ssc: counted in the stage LIST only.
SyncStatusCount(p, recent) ==
  LET s == IsBlockchainSynced(sync, recent) IN
  /\ listing[p] = "asked"
  /\ listing' = [listing EXCEPT ![p] = "counted"]
  /\ sync' = IF s.stage = "LIST" THEN [s EXCEPT !.sum = @ + ListSize[p], !.count = @ + 1] ELSE s
  /\ UNCHANGED <<fulfilled, weAsked, mn, nSeen>>
  /\ HandlerFree

Counts(n) == n < MASTERNODE_SYNC_THRESHOLD

\* AddedMasternodeList for a broadcast that was counted n times.
AddedMasternodeList(s, n) ==
  /\ sync' = IF Counts(n) THEN [s EXCEPT !.list = TRUE] ELSE s
  /\ nSeen' = IF Counts(n) THEN n + 1 ELSE n

\* inv of the masternode's broadcast: AlreadyHave counts a known one; another
\* is fetched and accepted, refused, or ignored while the chain is behind.
AnnounceMasternode(p, recent) ==
  LET s == IsBlockchainSynced(sync, recent) IN
  /\ listing[p] = "counted"
  /\ listing' = [listing EXCEPT ![p] = "idle"]
  /\ \/ mn # "unknown" /\ AddedMasternodeList(sync, nSeen) /\ UNCHANGED mn
     \/ /\ mn = "unknown" /\ s.chain = "synced"
        /\ \/ mn' = "enabled" /\ AddedMasternodeList(s, nSeen)
           \/ mn' = "disabled" /\ sync' = s /\ UNCHANGED nSeen
     \/ mn = "unknown" /\ s.chain # "synced" /\ sync' = s /\ UNCHANGED <<mn, nSeen>>
  /\ UNCHANGED <<fulfilled, weAsked>>
  /\ HandlerFree

\* A new broadcast of the masternode.
Reannounce(recent) ==
  LET s == IsBlockchainSynced(sync, recent) IN
  /\ mn # "unknown" /\ s.chain = "synced"
  /\ mn' = "enabled"
  /\ AddedMasternodeList(s, 0)
  /\ UNCHANGED <<fulfilled, weAsked, listing>>
  /\ HandlerFree

\* Its pings stop and come again (Check); CheckAndRemove forgets it.
MasternodeChanges ==
  /\ \/ mn = "enabled" /\ mn' = "disabled" /\ UNCHANGED nSeen
     \/ mn = "disabled" /\ mn' = "enabled" /\ UNCHANGED nSeen
     \/ mn = "disabled" /\ mn' = "unknown" /\ nSeen' \in {0, nSeen}
  /\ UNCHANGED <<sporkVars, sync, fulfilled, weAsked, listing>>

MinutePasses ==
  /\ ~sync.late /\ sync.stage \in {"LIST", "FAILED"}
  /\ sync' = [sync EXCEPT !.late = TRUE]
  /\ UNCHANGED <<sporkVars, fulfilled, weAsked, listing, mn, nSeen>>

FiveMinutesPass(p) ==
  /\ p \in weAsked
  /\ weAsked' = weAsked \ {p}
  /\ UNCHANGED <<sporkVars, sync, fulfilled, listing, mn, nSeen>>

\* The client was in sleep mode for an hour.
Sleep ==
  /\ sync.chain # "stale"
  /\ sync' = [sync EXCEPT !.chain = "stale", !.late = TRUE]
  /\ weAsked' = {}
  /\ UNCHANGED <<sporkVars, fulfilled, listing, mn, nSeen>>

\* The command mnsync reset; the connections it marks with DisconnectAll end
\* later, in Reconnect.
Reset ==
  /\ sync' = ResetSync
  /\ UNCHANGED <<sporkVars, fulfilled, weAsked, listing, mn, nSeen>>

\* The connection ends and there is a new one, to the same address.
Reconnect(p) ==
  /\ fulfilled' = {f \in fulfilled : f[1] # p}
  /\ listing' = [listing EXCEPT ![p] = "idle"]
  /\ Disconnect(p)
  /\ UNCHANGED <<sync, weAsked, mn, nSeen>>

\* The masternode cache survives a restart, mapSeenSyncMNB does not.
RestartNode ==
  /\ Restart
  /\ sync' = ResetSync
  /\ fulfilled' = {} /\ nSeen' = 0
  /\ listing' = [p \in Peers |-> "idle"]
  /\ UNCHANGED <<weAsked, mn>>

Next ==
  \/ \E recent \in BOOLEAN : Process(recent)
  \/ \E recent \in Tips :
       \/ CheckChain(recent) \/ Reannounce(recent)
       \/ \E p \in Peers : SyncStatusCount(p, recent) \/ AnnounceMasternode(p, recent)
  \/ \E p \in Peers : FiveMinutesPass(p) \/ Reconnect(p)
  \/ MasternodeChanges \/ MinutePasses \/ Sleep \/ Reset \/ RestartNode
  \/ /\ \/ \E p \in Peers, s \in Signed : PeerRelays(p, s) \/ ServeGetData(p, s) \/ CheckSpork(p, s)
        \/ \E s \in Signed : RelayUpdate(s)
        \/ StoreSpork \/ WriteSpork \/ StoreUpdate
     /\ UNCHANGED syncVars

\* The masternode thread calls Process for ever and the chain keeps up with its
\* peers, clocks move, and connections are replaced.  No peer has to answer.
Spec ==
  /\ Init /\ [][Next]_vars
  /\ WF_vars(Process(TRUE)) /\ WF_vars(MinutePasses)
  /\ \A p \in Peers : WF_vars(Reconnect(p))

-----------------------------------------------------------------------------
(* Properties.                                                             *)

\* IsSporkListSynced is believed only after three connections were asked for
\* their sporks since the last Reset, however resets, reconnections and the
\* retries of Process interleave.
ThreeAskedForSporks == IsSporkListSynced => sync.asks >= 3

\* Some of the list arrived, but less than the peers' counts promise, or no
\* count did.
TooShort == sync.stage = "LIST" /\ sync.list /\ ~GoodEnough(sync)

\* The sync never hangs: it finishes or starts again, for ever, whether peers
\* answer or not.  The one exception is a list that stays or becomes again and
\* again too short, for which the stage LIST has no timeout.
SyncNeverHangs ==
  ([]<>TooShort) \/ []<>(sync.stage \in {"INITIAL", "FINISHED"})
=============================================================================
