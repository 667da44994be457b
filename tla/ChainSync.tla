----------------------------- MODULE ChainSync -----------------------------
(***************************************************************************)
(* How the wallet follows the chain server: the recently seen blocks of    *)
(* the default account's key store (keystore.go), the handshake after each *)
(* connection (rpcclient.go) with its rollback and its rescan              *)
(* (acctmgr.go, account.go), and the handlers of block notifications that  *)
(* run beside it.                                                          *)
(*                                                                         *)
(* A block is a number that is never used again; the chain is the sequence *)
(* of blocks, so the index is the height.  Every block has a transaction   *)
(* of the wallet, and mined is the set of <<height, block>> pairs that the *)
(* transaction store has as mined.  Notifications are queued and handled   *)
(* in order (module NtfnQueue), one rescan runs at a time (RescanManager), *)
(* and a process that starts again finds its stores as they were: what a   *)
(* crash between two writes leaves is the subject of DiskSyncer.           *)
(*                                                                         *)
(* The chain server is external.  It notifies of a block's transactions    *)
(* before the block, and only for addresses that this connection tracks.   *)
(* A rescan sends the transactions of one block after the other, up to the *)
(* end of the chain, and goes back when the chain does.  The connection is *)
(* opened again by the same client, which keeps its queue and its block    *)
(* stamp; the handshake of a lost connection ends with its rescan.         *)
(***************************************************************************)
EXTENDS Integers, Sequences, SequencesExt, FiniteSetsExt

CONSTANTS
  MaxRecent,    \* 20, the number of recent blocks kept
  StartHeight,  \* height of the chain when the wallet is created
  MaxBlock,     \* bound: blocks ever made
  MaxDetach,    \* bound: blocks disconnected
  MaxLoss,      \* bound: connections lost
  MaxRestart,   \* bound: restarts of the process
  Unknown       \* no block stamp, no scan

ASSUME RecentAssumption == MaxRecent \in Nat \ {0}
ASSUME HeightAssumption == /\ StartHeight \in Nat \ {0}
                           /\ MaxBlock \in Nat /\ MaxBlock >= StartHeight
ASSUME BoundAssumption == {MaxDetach, MaxLoss, MaxRestart} \subseteq Nat
ASSUME UnknownAssumption == Unknown \notin Nat

VARIABLES
  chain, made,  \* the server's chain; the number of blocks made
  conn,         \* the connection is open and blocks are notified
  tracked,      \* the server notifies of the wallet's transactions
  scan,         \* the next height of the rescan that runs
  ntfns,        \* notifications sent and not handled
  stamp,        \* rpcClient.blockStamp
  hs,           \* the handshake: its step and its local variables
  recent,       \* recentBlocks: lastHeight and hashes
  status,       \* the sync status of the active addresses
  mined,        \* the mined blocks of the transaction store
  raced,        \* history: see Races
  unrepaired,   \* history: see Unrepairable
  detached, lost, restarts

serverVars == <<chain, made, conn, tracked, scan>>
clientVars == <<ntfns, stamp, hs>>
walletVars == <<recent, status, mined>>
histVars == <<raced, unrepaired>>
boundVars == <<detached, lost, restarts>>
vars == <<serverVars, clientVars, walletVars, histVars, boundVars>>
-----------------------------------------------------------------------------
Stamp(h, b) == [height |-> h, hash |-> b]
Tip == Stamp(Len(chain), Last(chain))
OnChain(b) == b \in Range(chain)
FullSync == [kind |-> "full", height |-> 0]
PartialSync(h) == [kind |-> "partial", height |-> h]
Unsynced(h) == [kind |-> "unsynced", height |-> h]

(* blockIterator.BlockStamp: the height of the i-th hash follows from the  *)
(* last height and the number of hashes.                                   *)
BlockStamp(r, i) == Stamp(r.lastHeight - (Len(r.hashes) - i), r.hashes[i])

(* SetSyncedWith.  Going back to a block that is saved cuts off this block *)
(* and the ones after it; any other step but the next height forgets all.  *)
SetSyncedWith(r, bs) ==
  LET maybe == Len(r.hashes) - (r.lastHeight - bs.height)
      back == bs.height < r.lastHeight
      kept == IF bs.height # r.lastHeight + 1 THEN <<>> ELSE r.hashes
      room == IF Len(kept) = MaxRecent THEN Tail(kept) ELSE kept
  IN IF back /\ maybe >= 1 /\ r.hashes[maybe] = bs.hash
     THEN [lastHeight |-> bs.height, hashes |-> SubSeq(r.hashes, 1, maybe - 1)]
     ELSE [lastHeight |-> bs.height, hashes |-> Append(room, bs.hash)]

(* SetSyncedWith(nil), of a wallet whose transaction store was lost.       *)
Forgotten == [lastHeight |-> StartHeight, hashes |-> <<>>]

(* SyncHeight, with one status for all active addresses, the root's too.   *)
SyncHeight(r, st) ==
  IF st.kind = "partial" \/ (st.kind = "unsynced" /\ st.height < r.lastHeight)
  THEN st.height ELSE r.lastHeight

(* AccountManager.Rollback.                                                *)
RollbackAfter(m, height) == {p \in m : p[1] <= height}

Rollback(m, height) == {p \in m : p[1] < height}

-----------------------------------------------------------------------------
(* The chain server.                                                       *)
Ntfn(kind, h, b) == [kind |-> kind, height |-> h, hash |-> b]
Notify(s) == ntfns' = ntfns \o s

ConnectBlock ==
  LET b == made + 1
      h == Len(chain) + 1
      tx == IF tracked THEN <<Ntfn("tx", h, b)>> ELSE <<>>
  IN /\ made < MaxBlock
     /\ made' = b /\ chain' = Append(chain, b)
     /\ Notify(IF conn THEN Append(tx, Ntfn("connected", h, b)) ELSE <<>>)
     /\ UNCHANGED <<conn, tracked, scan, stamp, hs, walletVars, histVars, boundVars>>

DisconnectBlock ==
  LET h == Len(chain)
  IN /\ detached < MaxDetach /\ h > 1
     /\ chain' = Front(chain)
     /\ scan' = IF scan # Unknown /\ scan > h THEN h ELSE scan
     /\ Notify(IF conn THEN <<Ntfn("disconnected", h, chain[h])>> ELSE <<>>)
     /\ detached' = detached + 1
     /\ UNCHANGED <<made, conn, tracked, stamp, hs, walletVars, histVars, lost,
                    restarts>>

(* The server works on a rescan request: the next block, a progress        *)
(* notification, the end.                                                  *)
ScanBlock ==
  /\ scan # Unknown /\ scan <= Len(chain)
  /\ Notify(<<Ntfn("tx", scan, chain[scan])>>)
  /\ scan' = scan + 1
  /\ UNCHANGED <<chain, made, conn, tracked, stamp, hs, walletVars, histVars,
                 boundVars>>

ScanProgress ==
  /\ scan # Unknown /\ 1 < scan /\ scan <= Len(chain)
  /\ \A n \in Range(ntfns) : n.kind # "progress"
  /\ status # PartialSync(scan - 1)
  /\ Notify(<<Ntfn("progress", scan - 1, chain[scan - 1])>>)
  /\ UNCHANGED <<serverVars, stamp, hs, walletVars, histVars, boundVars>>

ScanEnd ==
  /\ scan # Unknown /\ scan > Len(chain)
  /\ Notify(<<Ntfn("finished", 0, 0)>>)
  /\ scan' = Unknown
  /\ UNCHANGED <<chain, made, conn, tracked, stamp, hs, walletVars, histVars,
                 boundVars>>
-----------------------------------------------------------------------------
(* The handshake.  It does not take the account manager's semaphore, so    *)
(* handlers run between its steps.                                         *)
Idle == [step |-> "idle", bs |-> Unknown, found |-> FALSE]
Step(s) == hs' = [hs EXCEPT !.step = s]

(* Where the design is open to a race: a block is handled in the middle of *)
(* a handshake; a new connection finds notifications of the last one; or   *)
(* the best block was marked for a rescan that is then cut short.          *)
InHandshake == hs.step # "done"
LeftOver == ntfns # <<>>
MarkedAhead == hs.step = "wait" /\ ~hs.found
Races(how) == raced' = (raced \/ how)

Connect ==
  /\ ~conn
  /\ conn' = TRUE
  /\ hs' = [Idle EXCEPT !.step = "search"]
  /\ Races(LeftOver)
  /\ UNCHANGED <<chain, made, tracked, scan, ntfns, stamp, walletVars, unrepaired,
                 boundVars>>

(* rpcClient.BlockStamp asks the server only when no block was seen yet.   *)
BestBlock == IF stamp = Unknown THEN Tip ELSE stamp

(* The recent blocks that the server still has.                            *)
Matches == {i \in DOMAIN recent.hashes : OnChain(recent.hashes[i])}

Newest == BlockStamp(recent, Max(Matches))

(* Where the rescan of this handshake will start.                          *)
ScanStart == IF Matches = {} THEN SyncHeight(recent, status)
             ELSE SyncHeight([recent EXCEPT !.lastHeight = Newest.height], status)

(* The newest match is taken for a block more than n above its height.     *)
Raised(n) == /\ Matches # {}
             /\ \E h \in DOMAIN chain : chain[h] = Newest.hash /\ Newest.height > h + n

(* What the search cannot repair.  No recent block is left on the chain;   *)
(* the store has a block that left the chain and there is nothing to go    *)
(* back to, the height of the newest match is wrong, or the store has a    *)
(* block above the last recent one; nothing, a height that is wrong by     *)
(* more than one, or a rescan that was cut short says where to start, and  *)
(* the store m was rolled back further.                                    *)
Unrepairable(m) ==
  \/ recent.hashes # <<>> /\ Matches = {}
  \/ /\ \E p \in mined : ~OnChain(p[2])
     /\ \/ Matches = {} \/ Raised(0)
        \/ \E p \in mined : p[1] > recent.lastHeight
  \/ /\ Matches = {} \/ Raised(1) \/ status # FullSync
     /\ \E h \in StartHeight + 1 .. ScanStart - 1 : \A p \in m : p[1] # h

(* The loop over the recent blocks, newest first.  If the first one that   *)
(* the server has is not the last, the stores are rolled back to it.       *)
Search ==
  LET i == Max(Matches)
  IN /\ hs.step = "search"
     /\ stamp' = BestBlock
     /\ IF Matches = {}
        THEN /\ hs' = [step |-> "track", bs |-> BestBlock, found |-> FALSE]
             /\ UNCHANGED mined
        ELSE /\ hs' = [step |-> "sync", bs |-> Newest, found |-> TRUE]
             /\ mined' = IF i < Len(recent.hashes)
                         THEN Rollback(mined, BlockStamp(recent, i + 1).height)
                         ELSE mined
     /\ unrepaired' = (unrepaired \/ Unrepairable(mined'))
     /\ UNCHANGED <<serverVars, ntfns, recent, status, raced, boundVars>>

SyncWithBest ==
  /\ hs.step = "sync"
  /\ recent' = SetSyncedWith(recent, stamp)
  /\ Step("track")
  /\ UNCHANGED <<serverVars, ntfns, stamp, status, mined, histVars, boundVars>>

SyncWithFound ==
  /\ hs.step = "sync"
  /\ recent' = SetSyncedWith(recent, hs.bs)
  /\ Step("track")
  /\ UNCHANGED <<serverVars, ntfns, stamp, status, mined, histVars, boundVars>>

Track ==
  /\ hs.step = "track"
  /\ tracked' = TRUE
  /\ Step("rescan")
  /\ UNCHANGED <<chain, made, conn, scan, ntfns, stamp, walletVars, histVars,
                 boundVars>>

(* RescanActiveAddresses: the start of the job is computed before the best *)
(* block is marked, and the handshake waits for the job.                   *)
RescanActiveAddresses ==
  /\ hs.step = "rescan"
  /\ scan' = SyncHeight(recent, status)
  /\ recent' = IF hs.found THEN recent ELSE SetSyncedWith(recent, hs.bs)
  /\ Step("wait")
  /\ UNCHANGED <<chain, made, conn, tracked, ntfns, stamp, status, mined, histVars,
                 boundVars>>
-----------------------------------------------------------------------------
Handle(kind) == ntfns # <<>> /\ Head(ntfns).kind = kind /\ ntfns' = Tail(ntfns)

(* recvTx and redeemingTx.                                                 *)
HandleTx ==
  /\ Handle("tx")
  /\ mined' = mined \cup {<<Head(ntfns).height, Head(ntfns).hash>>}
  /\ UNCHANGED <<serverVars, stamp, hs, recent, status, histVars, boundVars>>

(* blockConnected: the block stamp, then BlockNotify.                      *)
HandleConnected ==
  LET bs == Stamp(Head(ntfns).height, Head(ntfns).hash)
  IN /\ Handle("connected")
     /\ stamp' = bs
     /\ recent' = SetSyncedWith(recent, bs)
     /\ Races(InHandshake)
     /\ UNCHANGED <<serverVars, hs, status, mined, unrepaired, boundVars>>

(* blockDisconnected rolls the stores back and leaves the recent blocks.   *)
HandleDisconnected ==
  /\ Handle("disconnected")
  /\ mined' = Rollback(mined, Head(ntfns).height)
  /\ UNCHANGED <<serverVars, stamp, hs, recent, status, histVars, boundVars>>

(* The rescan listener marks the addresses.                                *)
HandleProgress ==
  /\ Handle("progress")
  /\ status' = PartialSync(Head(ntfns).height)
  /\ UNCHANGED <<serverVars, stamp, hs, recent, mined, histVars, boundVars>>

HandleFinished ==
  /\ Handle("finished")
  /\ status' = FullSync
  /\ hs' = IF hs.step = "wait" THEN [Idle EXCEPT !.step = "done"] ELSE hs
  /\ UNCHANGED <<serverVars, stamp, recent, mined, histVars, boundVars>>
-----------------------------------------------------------------------------
LoseConnection ==
  /\ conn /\ lost < MaxLoss
  /\ conn' = FALSE /\ tracked' = FALSE /\ scan' = Unknown
  /\ hs' = Idle
  /\ lost' = lost + 1
  /\ Races(MarkedAhead)
  /\ UNCHANGED <<chain, made, ntfns, stamp, walletVars, unrepaired, detached, restarts>>

(* The process ends and starts again.  A transaction store that cannot be  *)
(* read is replaced by an empty one and the wallet is marked unsynced.     *)
Restart(readable) ==
  /\ restarts < MaxRestart
  /\ restarts' = restarts + 1
  /\ conn' = FALSE /\ tracked' = FALSE /\ scan' = Unknown
  /\ ntfns' = <<>> /\ stamp' = Unknown /\ hs' = Idle
  /\ \/ readable /\ Races(MarkedAhead) /\ UNCHANGED walletVars
     \/ /\ ~readable
        /\ recent' = Forgotten /\ status' = Unsynced(StartHeight) /\ mined' = {}
        /\ UNCHANGED raced
  /\ UNCHANGED <<chain, made, unrepaired, detached, lost>>

(* A wallet just created by a process that is not connected any more.      *)
Init ==
  /\ made = StartHeight /\ chain = [h \in 1..StartHeight |-> h]
  /\ conn = FALSE /\ tracked = FALSE /\ scan = Unknown
  /\ ntfns = <<>> /\ stamp = Unknown /\ hs = Idle
  /\ recent = [lastHeight |-> StartHeight, hashes |-> <<StartHeight>>]
  /\ status = FullSync /\ mined = {}
  /\ raced = FALSE /\ unrepaired = FALSE
  /\ detached = 0 /\ lost = 0 /\ restarts = 0

Next ==
  \/ ConnectBlock \/ DisconnectBlock
  \/ ScanBlock \/ ScanProgress \/ ScanEnd
  \/ Connect \/ Search \/ SyncWithFound \/ Track \/ RescanActiveAddresses
  \/ HandleTx \/ HandleConnected \/ HandleDisconnected
  \/ HandleProgress \/ HandleFinished
  \/ LoseConnection \/ \E readable \in BOOLEAN : Restart(readable)

Spec == Init /\ [][Next]_vars
-----------------------------------------------------------------------------
Quiet == conn /\ hs.step = "done" /\ scan = Unknown /\ ntfns = <<>>
ChainPairs == {<<h, chain[h]>> : h \in StartHeight + 1 .. Len(chain)}
NoGap == ChainPairs \subseteq mined
NoStale == \A p \in mined : p[1] <= StartHeight \/ p \in ChainPairs

(* Once connected, with the handshake over and nothing left to handle, the *)
(* store has every block of the chain: whatever happened to the chain, the *)
(* connection and the process before, the rescan of the handshake          *)
(* (Handshake, RescanActiveJob, SyncHeight) started low enough, and the    *)
(* notifications took over where it ended.                                 *)
CaughtUp == Quiet /\ ~raced /\ ~unrepaired => NoGap

(* Then the store also has no block that left the chain: the search of the *)
(* handshake rolled back everything that was disconnected unseen, and the  *)
(* handler of disconnected blocks the rest.                                *)
RolledBack == Quiet /\ ~raced /\ ~unrepaired => NoStale

(* The handshake says that it finds none of the recent blocks only if the  *)
(* wallet was never synced or if more blocks than it remembers were        *)
(* replaced.  So fewer than that are always rolled back.                   *)
ShortForkRepaired == Quiet /\ detached < MaxRecent => NoStale

(* What the runs do not follow any further: a race, a fork that the search *)
(* cannot repair, a lost connection with blocks above the last recent one. *)
Followed == ~raced /\ ~unrepaired
Seen == ~raced /\ (~conn => \A p \in mined : p[1] <= recent.lastHeight)
=============================================================================
