-------------------------- MODULE ChainSyncProofs --------------------------
(***************************************************************************)
(* Proofs about how the wallet follows the chain, for any chains, any      *)
(* number of remembered blocks and any number of reorganisations, lost     *)
(* connections and restarts.                                               *)
(*                                                                         *)
(* The invariant says of each fact that the wallet keeps what it means for *)
(* the server's chain while notifications are still queued.  Blocks have   *)
(* one height for ever (Places), a queued "disconnected" speaks of all     *)
(* that was recorded before it (Gone), what left the chain is about to be  *)
(* rolled back (Stale), nothing below a remembered block left the chain    *)
(* (Solid) and the store has all of it (Filled), and the store has or will *)
(* get everything else (Covered).                                          *)
(***************************************************************************)
EXTENDS ChainSync, WellFoundedInduction, TLAPS

Pos == Nat \ {0}
Rec == [kind : {"tx", "connected", "disconnected", "progress"}, height : Pos, hash : Nat]
         \cup {Ntfn("finished", 0, 0)}
Stamps == [height : Pos, hash : Nat]
Steps == {"idle", "search", "sync", "track", "rescan", "wait", "done"}
Shakes == [step : Steps, bs : Stamps \cup {Unknown}, found : BOOLEAN]
Recents == [lastHeight : Pos, hashes : Seq(Nat)]
Statuses == [kind : {"full", "partial", "unsynced"}, height : Nat]

Types ==
  /\ made \in Nat
  /\ chain \in Seq(Nat)
  /\ scan \in Pos \cup {Unknown}
  /\ ntfns \in Seq(Rec)
  /\ stamp \in Stamps \cup {Unknown}
  /\ hs \in Shakes
  /\ recent \in Recents
  /\ status \in Statuses
  /\ status.kind = "full" => status = FullSync
  /\ status.kind = "partial" => status.height \in Pos
  /\ status.kind = "unsynced" => status.height = StartHeight
  /\ mined \subseteq Nat \X Nat

(* In what follows c is a chain, m what the store has as mined, q a queue  *)
(* of notifications.                                                       *)
On(c, b) == \E h \in 1 .. Len(c) : c[h] = b
Tx(q, i) == q[i].kind = "tx"
Con(q, i) == q[i].kind = "connected"
Dis(q, i) == q[i].kind = "disconnected"
Fin(q, i) == q[i].kind = "finished"

(* A block has a higher number than the ones below it, and is known when   *)
(* it was made.                                                            *)
ChainOK(c, top) ==
  /\ Len(c) > 0
  /\ \A h \in 1 .. Len(c) : c[h] <= top
  /\ \A h, k \in 1 .. Len(c) : h < k => c[h] < c[k]

(* The block b was never at another height than h.  The recent blocks may  *)
(* be labelled too high, but never too low.                                *)
Right(c, top, h, b) == b <= top /\ \A k \in 1 .. Len(c) : c[k] = b => k = h
Label(r, i) == r.lastHeight - (Len(r.hashes) - i)
MinedOK(c, top, m) == \A p \in m : Right(c, top, p[1], p[2])
QueueOK(c, top, q) ==
  \A i \in 1 .. Len(q) : Tx(q, i) \/ Con(q, i) => Right(c, top, q[i].height, q[i].hash)
RecentOK(c, top, r) ==
  \A i \in 1 .. Len(r.hashes) :
    /\ r.hashes[i] <= top
    /\ \A k \in 1 .. Len(c) : c[k] = r.hashes[i] => k <= Label(r, i)
Places == /\ MinedOK(chain, made, mined)
          /\ QueueOK(chain, made, ntfns)
          /\ RecentOK(chain, made, recent)
          /\ stamp # Unknown => Right(chain, made, stamp.height, stamp.hash)

(* What the handshake has found.                                           *)
NotFound == hs.step \in {"track", "rescan"} /\ ~hs.found
Result ==
  /\ hs.step = "sync" => hs.found /\ \E i \in 1 .. Len(recent.hashes) :
                                       hs.bs = Stamp(Label(recent, i), recent.hashes[i])
  /\ hs.step \in {"sync", "track", "rescan"} => hs.bs \in Stamps
  /\ NotFound => recent.hashes = <<>> /\ Right(chain, made, hs.bs.height, hs.bs.hash)

(* Which notifications can be queued at each step.                         *)
Without(q, kinds) == \A i \in 1 .. Len(q) : q[i].kind \notin kinds
OneEnd(q) == \A i, j \in 1 .. Len(q) :
               Fin(q, i) /\ i < j => q[j].kind \notin {"progress", "finished"}
Protocol ==
  /\ conn <=> hs.step # "idle"
  /\ tracked <=> hs.step \in {"rescan", "wait", "done"}
  /\ scan # Unknown => hs.step = "wait"
  /\ hs.step = "done" => status = FullSync
  /\ hs.step \in {"search", "sync", "track"} => Without(ntfns, {"tx"})
  /\ hs.step \in {"search", "sync", "track", "rescan", "done"} =>
       Without(ntfns, {"progress", "finished"})
  /\ scan # Unknown => Without(ntfns, {"finished"})
  /\ OneEnd(ntfns)

(* A "disconnected" speaks of all that was recorded before it.             *)
Gone(c, m, q) ==
  \A j \in 1 .. Len(q) : Dis(q, j) =>
    /\ \A p \in m : p[1] >= q[j].height => ~On(c, p[2])
    /\ \A i \in 1 .. j - 1 : (Tx(q, i) \/ Con(q, i)) /\ q[i].height >= q[j].height
                               => ~On(c, q[i].hash)

(* What left the chain is about to be rolled back.                         *)
Leaves(q, h, i) == \E j \in i + 1 .. Len(q) : Dis(q, j) /\ q[j].height <= h
Stale(c, m, q) ==
  /\ \A p \in m : On(c, p[2]) \/ Leaves(q, p[1], 0)
  /\ \A i \in 1 .. Len(q) : Tx(q, i) => On(c, q[i].hash) \/ Leaves(q, q[i].height, i)

(* While a block of A is on the chain, nothing below it has left.          *)
Solid(c, m, q, A) ==
  \A k \in 1 .. Len(c) : c[k] \in A =>
    /\ \A p \in m : p[1] <= k => On(c, p[2])
    /\ \A i \in 1 .. Len(q) : Tx(q, i) /\ q[i].height <= k => On(c, q[i].hash)
Hashes(r) == {r.hashes[i] : i \in 1 .. Len(r.hashes)}
Anchors == Hashes(recent) \cup (IF NotFound THEN {hs.bs.hash} ELSE {})

(* The store has the block at height h, or will have it when the first     *)
(* i - 1 notifications have been handled; it has all up to height k.       *)
Has(c, m, q, h, i) ==
  \/ <<h, c[h]>> \in m
  \/ \E j \in 1 .. i - 1 : Tx(q, j) /\ q[j].height = h /\ q[j].hash = c[h]
HasAll(c, m, q, k, i) == \A h \in StartHeight + 1 .. k : Has(c, m, q, h, i)

(* The store has all below a remembered block.                             *)
FilledTo(c, m, q, A, i) == \A k \in 1 .. Len(c) : c[k] \in A => HasAll(c, m, q, k, i)
Filled == status = FullSync /\ ~MarkedAhead =>
            FilledTo(chain, mined, ntfns, Hashes(recent), 1)

(* A block will be handled before the end of the rescan.                   *)
Doom(q) == \E i \in 1 .. Len(q) : Con(q, i) /\ \A j \in 1 .. i - 1 : ~Fin(q, j)
Doomed == hs.step # "done" /\ Doom(ntfns)

(* The part of the chain that the rescan need not look at any more.        *)
Start(r, h, st) == SyncHeight([r EXCEPT !.lastHeight = h], st)
Below(h) == /\ hs.step = "sync" => h < Start(recent, hs.bs.height, status)
            /\ hs.step \in {"track", "rescan"} => h < SyncHeight(recent, status)
            /\ hs.step = "wait" => scan = Unknown \/ h < scan
Covered ==
  hs.step \notin {"idle", "search"} /\ ~Doomed =>
    \A h \in StartHeight + 1 .. Len(chain) :
      Below(h) => Has(chain, mined, ntfns, h, Len(ntfns) + 1)

(* What the store will have when a block, or the end of the rescan, is     *)
(* handled.                                                                *)
Blocks(c, m, q) ==
  \A i \in 1 .. Len(q), k \in 1 .. Len(c) :
    Con(q, i) /\ c[k] = q[i].hash => HasAll(c, m, q, k, i)
AtBlock == hs.step \in {"wait", "done"} /\ ~Doomed => Blocks(chain, mined, ntfns)
Ends(c, m, q, A) ==
  \A i \in 1 .. Len(q) :
    Fin(q, i) /\ (\A j \in 1 .. i - 1 : ~Con(q, j)) => FilledTo(c, m, q, A, i)
AtEnd == Ends(chain, mined, ntfns, Hashes(recent))

Inv == /\ Types /\ ChainOK(chain, made) /\ Places /\ Result /\ Protocol
       /\ Gone(chain, mined, ntfns)
       /\ hs.step \notin {"idle", "search"} => Stale(chain, mined, ntfns)
       /\ Solid(chain, mined, ntfns, Anchors)
       /\ Filled /\ Covered /\ AtBlock /\ AtEnd
IInv == Followed => Inv
-----------------------------------------------------------------------------
(* The blocks up to number top that are on c2 are where they are on c, on  *)
(* top of the same blocks.                                                 *)
Sub(c, c2, top) == \A k \in 1 .. Len(c2) :
                     c2[k] <= top => k <= Len(c) /\ \A h \in 1 .. k : c2[h] = c[h]

LEMMA QueueTypes ==
  ASSUME NEW q \in Seq(Rec)
  PROVE  /\ Len(q) \in Nat
         /\ \A i \in 1 .. Len(q) : /\ q[i] \in Rec /\ q[i].height \in Nat
                                   /\ q[i].hash \in Nat
                                   /\ q[i].kind # "finished" => q[i].height \in Pos
<1>1. Len(q) \in Nat /\ \A i \in 1 .. Len(q) : q[i] \in Rec
  OBVIOUS
<1>2. \A e \in Rec : /\ e.height \in Nat /\ e.hash \in Nat
                     /\ e.kind # "finished" => e.height \in Pos
  BY DEF Rec, Pos, Ntfn
<1>. QED
  BY <1>1, <1>2

LEMMA MinedTypes ==
  ASSUME NEW m \in SUBSET (Nat \X Nat)
  PROVE  \A p \in m : p[1] \in Nat /\ p[2] \in Nat
OBVIOUS

LEMMA SubOn ==
  ASSUME NEW c \in Seq(Nat), NEW c2 \in Seq(Nat), NEW top \in Nat, NEW top2 \in Nat,
         top <= top2, Sub(c, c2, top)
  PROVE  /\ \A b \in Nat : b <= top /\ On(c2, b) => On(c, b)
         /\ \A h, b \in Nat : Right(c, top, h, b) => Right(c2, top2, h, b)
<1>1. Len(c) \in Nat /\ Len(c2) \in Nat
  OBVIOUS
<1>2. \A k \in 1 .. Len(c2) : c2[k] <= top => k \in 1 .. Len(c) /\ c2[k] = c[k]
  BY <1>1 DEF Sub
<1>3. \A b \in Nat : b <= top /\ On(c2, b) => On(c, b)
  BY <1>2 DEF On
<1>4. ASSUME NEW h \in Nat, NEW b \in Nat, Right(c, top, h, b)
      PROVE  Right(c2, top2, h, b)
  <2>1. b <= top /\ b <= top2 /\ \A k \in 1 .. Len(c) : c[k] = b => k = h
    BY <1>4 DEF Right
  <2>. QED
    BY <1>2, <2>1 DEF Right
<1>. QED
  BY <1>3, <1>4

(* A chain that grows or shrinks leaves what was recorded true, but for    *)
(* what leaves it.                                                         *)
LEMMA SubPlaces ==
  ASSUME NEW c \in Seq(Nat), NEW c2 \in Seq(Nat), NEW top \in Nat, NEW top2 \in Nat,
         top <= top2, Sub(c, c2, top),
         NEW m \in SUBSET (Nat \X Nat), NEW q \in Seq(Rec),
         NEW r \in Recents,
         MinedOK(c, top, m), QueueOK(c, top, q), RecentOK(c, top, r)
  PROVE  MinedOK(c2, top2, m) /\ QueueOK(c2, top2, q) /\ RecentOK(c2, top2, r)
<1>1. MinedOK(c2, top2, m)
  BY SubOn, MinedTypes DEF MinedOK
<1>2. QueueOK(c2, top2, q)
  BY SubOn, QueueTypes DEF QueueOK
<1>3. RecentOK(c2, top2, r)
  <2>. SUFFICES ASSUME NEW i \in 1 .. Len(r.hashes)
                PROVE  /\ r.hashes[i] <= top2
                       /\ \A k \in 1 .. Len(c2) : c2[k] = r.hashes[i] => k <= Label(r, i)
    BY DEF RecentOK
  <2>1. /\ r.hashes[i] \in Nat /\ r.hashes[i] <= top
        /\ \A k \in 1 .. Len(c) : c[k] = r.hashes[i] => k <= Label(r, i)
    BY DEF RecentOK, Recents
  <2>2. \A k \in 1 .. Len(c2) : c2[k] <= top => k \in 1 .. Len(c) /\ c2[k] = c[k]
    BY DEF Sub
  <2>3. r.hashes[i] <= top2
    BY <2>1
  <2>4. ASSUME NEW k \in 1 .. Len(c2), c2[k] = r.hashes[i]
        PROVE  k <= Label(r, i)
    <3>1. k \in 1 .. Len(c) /\ c[k] = r.hashes[i]
      BY <2>1, <2>2, <2>4
    <3>. QED
      BY <2>1, <3>1
  <2>. QED
    BY <2>3, <2>4
<1>. QED
  BY <1>1, <1>2, <1>3

LEMMA SubGone ==
  ASSUME NEW c \in Seq(Nat), NEW c2 \in Seq(Nat), NEW top \in Nat, Sub(c, c2, top),
         NEW m \in SUBSET (Nat \X Nat), NEW q \in Seq(Rec),
         MinedOK(c, top, m), QueueOK(c, top, q), Gone(c, m, q)
  PROVE  Gone(c2, m, q)
<1>1. \A b \in Nat : b <= top /\ ~On(c, b) => ~On(c2, b)
  BY SubOn
<1>2. \A p \in m : p[2] \in Nat /\ p[2] <= top
  BY MinedTypes DEF MinedOK, Right
<1>3. \A i \in 1 .. Len(q) : Tx(q, i) \/ Con(q, i) => q[i].hash \in Nat /\ q[i].hash <= top
  BY QueueTypes DEF QueueOK, Right
<1>. SUFFICES ASSUME NEW j \in 1 .. Len(q), Dis(q, j)
              PROVE  /\ \A p \in m : p[1] >= q[j].height => ~On(c2, p[2])
                     /\ \A i \in 1 .. j - 1 :
                          (Tx(q, i) \/ Con(q, i)) /\ q[i].height >= q[j].height
                            => ~On(c2, q[i].hash)
  BY DEF Gone
<1>4. \A p \in m : p[1] >= q[j].height => ~On(c2, p[2])
  BY <1>1, <1>2 DEF Gone
<1>5. ASSUME NEW i \in 1 .. j - 1, Tx(q, i) \/ Con(q, i), q[i].height >= q[j].height
      PROVE  ~On(c2, q[i].hash)
  <2>1. i \in 1 .. Len(q)
    BY QueueTypes
  <2>. QED
    BY <1>1, <1>3, <1>5, <2>1 DEF Gone
<1>. QED
  BY <1>4, <1>5

LEMMA SubSolid ==
  ASSUME NEW c \in Seq(Nat), NEW c2 \in Seq(Nat), NEW top \in Nat, Sub(c, c2, top),
         NEW m \in SUBSET (Nat \X Nat), NEW q \in Seq(Rec), NEW A \in SUBSET (0 .. top),
         MinedOK(c, top, m), QueueOK(c, top, q), Solid(c, m, q, A)
  PROVE  Solid(c2, m, q, A)
<1>. SUFFICES ASSUME NEW k \in 1 .. Len(c2), c2[k] \in A
              PROVE  /\ \A p \in m : p[1] <= k => On(c2, p[2])
                     /\ \A i \in 1 .. Len(q) :
                          Tx(q, i) /\ q[i].height <= k => On(c2, q[i].hash)
  BY DEF Solid
<1>1. k \in 1 .. Len(c) /\ c[k] \in A /\ \A h \in 1 .. k : c2[h] = c[h]
  BY DEF Sub
<1>2. ASSUME NEW h \in Nat, NEW b \in Nat, h <= k, Right(c, top, h, b), On(c, b)
      PROVE  On(c2, b)
  <2>1. PICK g \in 1 .. Len(c) : c[g] = b
    BY <1>2 DEF On
  <2>3. g = h
    BY <1>2, <2>1 DEF Right
  <2>4. h \in 1 .. k
    BY <1>2, <2>1, <2>3
  <2>5. c2[h] = b
    BY <1>1, <2>1, <2>3, <2>4
  <2>6. Len(c2) \in Nat
    OBVIOUS
  <2>2. h \in 1 .. Len(c2) /\ c2[h] = b
    BY <2>4, <2>5, <2>6
  <2>. QED
    BY <2>2 DEF On
<1>3. \A p \in m : p[1] <= k => On(c2, p[2])
  BY <1>1, <1>2, MinedTypes DEF Solid, MinedOK
<1>4. \A i \in 1 .. Len(q) : Tx(q, i) /\ q[i].height <= k => On(c2, q[i].hash)
  BY <1>1, <1>2, QueueTypes DEF Solid, QueueOK
<1>. QED
  BY <1>3, <1>4

LEMMA SubFilled ==
  ASSUME NEW c \in Seq(Nat), NEW c2 \in Seq(Nat), NEW top \in Nat, Sub(c, c2, top),
         NEW m, NEW q, NEW i, NEW A \in SUBSET (0 .. top), FilledTo(c, m, q, A, i)
  PROVE  FilledTo(c2, m, q, A, i)
<1>. SUFFICES ASSUME NEW k \in 1 .. Len(c2), c2[k] \in A, NEW h \in StartHeight + 1 .. k
              PROVE  Has(c2, m, q, h, i)
  BY DEF FilledTo, HasAll
<1>1. k \in 1 .. Len(c) /\ c[k] \in A /\ \A g \in 1 .. k : c2[g] = c[g]
  BY DEF Sub
<1>2. Has(c, m, q, h, i) /\ h \in 1 .. k
  BY <1>1, HeightAssumption DEF FilledTo, HasAll
<1>. QED
  BY <1>1, <1>2 DEF Has

LEMMA SubBlocks ==
  ASSUME NEW c \in Seq(Nat), NEW c2 \in Seq(Nat), NEW top \in Nat, Sub(c, c2, top),
         NEW m, NEW q \in Seq(Rec), QueueOK(c, top, q), Blocks(c, m, q)
  PROVE  Blocks(c2, m, q)
<1>. SUFFICES ASSUME NEW i \in 1 .. Len(q), NEW k \in 1 .. Len(c2), Con(q, i),
                     c2[k] = q[i].hash, NEW h \in StartHeight + 1 .. k
              PROVE  Has(c2, m, q, h, i)
  BY DEF Blocks, HasAll
<1>1. c2[k] <= top
  BY DEF QueueOK, Right
<1>2. k <= Len(c) /\ \A g \in 1 .. k : c2[g] = c[g]
  BY <1>1 DEF Sub
<1>3. Len(c) \in Nat /\ Len(c2) \in Nat /\ k \in Nat /\ k >= 1
  OBVIOUS
<1>4. k \in 1 .. Len(c) /\ k \in 1 .. k
  BY <1>2, <1>3
<1>5. h \in 1 .. k
  BY <1>3, HeightAssumption
<1>6. HasAll(c, m, q, k, i)
  BY <1>2, <1>4 DEF Blocks
<1>7. Has(c, m, q, h, i) /\ c2[h] = c[h]
  BY <1>2, <1>5, <1>6 DEF HasAll
<1>. QED
  BY <1>7 DEF Has

LEMMA SubEnds ==
  ASSUME NEW c \in Seq(Nat), NEW c2 \in Seq(Nat), NEW top \in Nat, Sub(c, c2, top),
         NEW m, NEW q, NEW A \in SUBSET (0 .. top), Ends(c, m, q, A)
  PROVE  Ends(c2, m, q, A)
BY SubFilled DEF Ends
-----------------------------------------------------------------------------
(* A notification is queued.                                               *)
LEMMA Queued ==
  ASSUME NEW q \in Seq(Rec), NEW e \in Rec
  PROVE  /\ Append(q, e) \in Seq(Rec)
         /\ Len(Append(q, e)) = Len(q) + 1
         /\ \A i \in 1 .. Len(q) : Append(q, e)[i] = q[i]
         /\ Append(q, e)[Len(q) + 1] = e
         /\ \A i \in 1 .. Len(q) + 1 : i \in 1 .. Len(q) \/ i = Len(q) + 1
OBVIOUS

LEMMA QueuedPlaces ==
  ASSUME NEW c, NEW top, NEW q \in Seq(Rec), NEW e \in Rec, QueueOK(c, top, q),
         e.kind \in {"tx", "connected"} => Right(c, top, e.height, e.hash)
  PROVE  QueueOK(c, top, Append(q, e))
<1>1. \A i \in 1 .. Len(q) + 1 : i \in 1 .. Len(q) \/ i = Len(q) + 1
  BY Queued
<1>. QED
  BY <1>1, Queued DEF QueueOK, Tx, Con

LEMMA QueuedProtocol ==
  ASSUME NEW q \in Seq(Rec), NEW e \in Rec
  PROVE  /\ \A K : Without(q, K) /\ e.kind \notin K => Without(Append(q, e), K)
         /\ Doom(q) => Doom(Append(q, e))
         /\ Without(q, {"finished"}) /\ e.kind = "connected" => Doom(Append(q, e))
         /\ OneEnd(q) /\ (e.kind \in {"progress", "finished"} => Without(q, {"finished"}))
              => OneEnd(Append(q, e))
<1>1. \A K : Without(q, K) /\ e.kind \notin K => Without(Append(q, e), K)
  BY Queued DEF Without
<1>2. Doom(q) => Doom(Append(q, e))
  <2>. SUFFICES ASSUME Doom(q) PROVE Doom(Append(q, e))
    OBVIOUS
  <2>1. PICK i \in 1 .. Len(q) : Con(q, i) /\ \A j \in 1 .. i - 1 : ~Fin(q, j)
    BY DEF Doom
  <2>2. i \in 1 .. Len(Append(q, e)) /\ \A j \in 1 .. i - 1 : j \in 1 .. Len(q)
    BY Queued, QueueTypes
  <2>. QED
    BY <2>1, <2>2, Queued DEF Doom, Con, Fin
<1>3. Without(q, {"finished"}) /\ e.kind = "connected" => Doom(Append(q, e))
  <2>. SUFFICES ASSUME Without(q, {"finished"}), e.kind = "connected" PROVE Doom(Append(q, e))
    OBVIOUS
  <2>1. Len(q) + 1 \in 1 .. Len(Append(q, e)) /\ \A j \in 1 .. Len(q) + 1 - 1 : j \in 1 .. Len(q)
    BY Queued, QueueTypes
  <2>. QED
    BY <2>1, Queued DEF Doom, Con, Fin, Without
<1>4. OneEnd(q) /\ (e.kind \in {"progress", "finished"} => Without(q, {"finished"}))
        => OneEnd(Append(q, e))
  <2>. SUFFICES ASSUME OneEnd(q), e.kind \in {"progress", "finished"} => Without(q, {"finished"}),
                       NEW i \in 1 .. Len(q) + 1, NEW j \in 1 .. Len(q) + 1,
                       Fin(Append(q, e), i), i < j
                PROVE  Append(q, e)[j].kind \notin {"progress", "finished"}
    BY Queued DEF OneEnd
  <2>1. i \in 1 .. Len(q) /\ Fin(q, i)
    BY Queued, QueueTypes DEF Fin
  <2>2. CASE j \in 1 .. Len(q)
    BY <2>1, <2>2, Queued DEF OneEnd
  <2>3. CASE j = Len(q) + 1
    BY <2>1, <2>3, Queued DEF Without, Fin
  <2>. QED
    BY <2>2, <2>3, Queued
<1>. QED
  BY <1>1, <1>2, <1>3, <1>4

LEMMA QueuedGone ==
  ASSUME NEW c, NEW m, NEW q \in Seq(Rec), NEW e \in Rec, Gone(c, m, q),
         e.kind = "disconnected" =>
           /\ \A p \in m : p[1] >= e.height => ~On(c, p[2])
           /\ \A i \in 1 .. Len(q) : (Tx(q, i) \/ Con(q, i)) /\ q[i].height >= e.height
                                       => ~On(c, q[i].hash)
  PROVE  Gone(c, m, Append(q, e))
<1>. SUFFICES ASSUME NEW j \in 1 .. Len(q) + 1, Dis(Append(q, e), j)
              PROVE  /\ \A p \in m : p[1] >= Append(q, e)[j].height => ~On(c, p[2])
                     /\ \A i \in 1 .. j - 1 :
                          /\ Tx(Append(q, e), i) \/ Con(Append(q, e), i)
                          /\ Append(q, e)[i].height >= Append(q, e)[j].height
                          => ~On(c, Append(q, e)[i].hash)
  BY Queued DEF Gone
<1>1. \A i \in 1 .. j - 1 : i \in 1 .. Len(q) /\ Append(q, e)[i] = q[i]
  BY Queued, QueueTypes
<1>2. CASE j \in 1 .. Len(q)
  BY <1>1, <1>2, Queued DEF Gone, Dis, Tx, Con
<1>3. CASE j = Len(q) + 1
  BY <1>1, <1>3, Queued DEF Gone, Dis, Tx, Con
<1>. QED
  BY <1>2, <1>3, Queued

LEMMA QueuedLeaves ==
  ASSUME NEW q \in Seq(Rec), NEW e \in Rec, NEW h \in Nat, NEW i \in 0 .. Len(q),
         Leaves(q, h, i) \/ (e.kind = "disconnected" /\ e.height <= h)
  PROVE  Leaves(Append(q, e), h, i)
<1>1. CASE Leaves(q, h, i)
  <2>1. PICK j \in i + 1 .. Len(q) : Dis(q, j) /\ q[j].height <= h
    BY <1>1 DEF Leaves
  <2>2. j \in 1 .. Len(q) /\ j \in i + 1 .. Len(q) + 1
    BY <2>1, QueueTypes
  <2>. QED
    BY <2>1, <2>2, Queued DEF Leaves, Dis
<1>2. CASE e.kind = "disconnected" /\ e.height <= h
  <2>1. Len(q) + 1 \in i + 1 .. Len(q) + 1
    BY QueueTypes
  <2>. QED
    BY <1>2, <2>1, Queued DEF Leaves, Dis
<1>. QED
  BY <1>1, <1>2

(* What was on the chain c and is not on c2 leaves by e.                   *)
LEMMA QueuedStale ==
  ASSUME NEW c, NEW c2, NEW m \in SUBSET (Nat \X Nat), NEW q \in Seq(Rec), NEW e \in Rec,
         Stale(c, m, q), e.kind = "tx" => On(c2, e.hash),
         \A p \in m : On(c, p[2]) /\ ~On(c2, p[2]) =>
           e.kind = "disconnected" /\ e.height <= p[1],
         \A i \in 1 .. Len(q) : Tx(q, i) /\ On(c, q[i].hash) /\ ~On(c2, q[i].hash) =>
           e.kind = "disconnected" /\ e.height <= q[i].height
  PROVE  Stale(c2, m, Append(q, e))
<1>1. 0 \in 0 .. Len(q) /\ \A i \in 1 .. Len(q) : i \in 0 .. Len(q)
  BY QueueTypes
<1>2. \A p \in m : On(c2, p[2]) \/ Leaves(Append(q, e), p[1], 0)
  BY <1>1, QueuedLeaves, MinedTypes DEF Stale
<1>3. ASSUME NEW i \in 1 .. Len(q) + 1, Tx(Append(q, e), i)
      PROVE  \/ On(c2, Append(q, e)[i].hash)
             \/ Leaves(Append(q, e), Append(q, e)[i].height, i)
  <2>1. CASE i \in 1 .. Len(q)
    <3>1. Append(q, e)[i] = q[i] /\ Tx(q, i) /\ q[i].height \in Nat /\ i \in 0 .. Len(q)
      BY <1>1, <1>3, <2>1, Queued, QueueTypes DEF Tx
    <3>2. \/ On(c2, q[i].hash) \/ Leaves(q, q[i].height, i)
          \/ e.kind = "disconnected" /\ e.height <= q[i].height
      BY <2>1, <3>1 DEF Stale
    <3>. QED
      BY <3>1, <3>2, QueuedLeaves
  <2>2. CASE i = Len(q) + 1
    BY <1>3, <2>2, Queued DEF Tx
  <2>. QED
    BY <2>1, <2>2, Queued
<1>. QED
  BY <1>2, <1>3, Queued DEF Stale

LEMMA QueuedSolid ==
  ASSUME NEW c, NEW m, NEW q \in Seq(Rec), NEW e \in Rec, NEW A, Solid(c, m, q, A),
         e.kind = "tx" => On(c, e.hash)
  PROVE  Solid(c, m, Append(q, e), A)
<1>. SUFFICES ASSUME NEW k \in 1 .. Len(c), c[k] \in A, NEW i \in 1 .. Len(q) + 1,
                     Tx(Append(q, e), i), Append(q, e)[i].height <= k
              PROVE  On(c, Append(q, e)[i].hash)
  BY Queued DEF Solid
<1>1. CASE i \in 1 .. Len(q)
  BY <1>1, Queued DEF Solid, Tx
<1>2. CASE i = Len(q) + 1
  BY <1>2, Queued DEF Tx
<1>. QED
  BY <1>1, <1>2, Queued

LEMMA QueuedHas ==
  ASSUME NEW c, NEW m, NEW q \in Seq(Rec), NEW e \in Rec, NEW h, NEW i \in 1 .. Len(q) + 1
  PROVE  /\ Has(c, m, q, h, i) => Has(c, m, Append(q, e), h, i)
         /\ Has(c, m, q, h, i) => Has(c, m, Append(q, e), h, Len(q) + 2)
         /\ e.kind = "tx" /\ e.height = h /\ e.hash = c[h] =>
              Has(c, m, Append(q, e), h, Len(q) + 2)
<1>1. \A j \in 1 .. i - 1 : j \in 1 .. Len(q) /\ j \in 1 .. Len(q) + 2 - 1
  BY QueueTypes
<1>2. Len(q) + 1 \in 1 .. Len(q) + 2 - 1
  BY QueueTypes
<1>. QED
  BY <1>1, <1>2, Queued DEF Has, Tx

LEMMA QueuedFilled ==
  ASSUME NEW c, NEW m, NEW q \in Seq(Rec), NEW e \in Rec
  PROVE  /\ \A k : \A i \in 1 .. Len(q) + 1 :
              HasAll(c, m, q, k, i) => HasAll(c, m, Append(q, e), k, i)
         /\ \A A : \A i \in 1 .. Len(q) + 1 :
              FilledTo(c, m, q, A, i) => FilledTo(c, m, Append(q, e), A, i)
         /\ \A A : Ends(c, m, q, A) /\ (e.kind = "finished" /\ Without(q, {"connected"}) =>
                                          FilledTo(c, m, q, A, Len(q) + 1))
                     => Ends(c, m, Append(q, e), A)
         /\ Blocks(c, m, q) /\ (\A k \in 1 .. Len(c) :
                                  e.kind = "connected" /\ c[k] = e.hash =>
                                    HasAll(c, m, q, k, Len(q) + 1))
              => Blocks(c, m, Append(q, e))
<1>1. \A k : \A i \in 1 .. Len(q) + 1 :
        HasAll(c, m, q, k, i) => HasAll(c, m, Append(q, e), k, i)
  BY QueuedHas DEF HasAll
<1>2. \A A : \A i \in 1 .. Len(q) + 1 :
        FilledTo(c, m, q, A, i) => FilledTo(c, m, Append(q, e), A, i)
  BY <1>1 DEF FilledTo
<1>3. \A i \in 1 .. Len(q) : i \in 1 .. Len(q) + 1
  BY QueueTypes
<1>4. ASSUME NEW A, Ends(c, m, q, A),
             e.kind = "finished" /\ Without(q, {"connected"}) => FilledTo(c, m, q, A, Len(q) + 1),
             NEW i \in 1 .. Len(q) + 1, Fin(Append(q, e), i),
             \A j \in 1 .. i - 1 : ~Con(Append(q, e), j)
      PROVE  FilledTo(c, m, Append(q, e), A, i)
  <2>1. \A j \in 1 .. i - 1 : j \in 1 .. Len(q) /\ Append(q, e)[j] = q[j] /\ ~Con(q, j)
    BY <1>4, Queued, QueueTypes DEF Con
  <2>2. CASE i \in 1 .. Len(q)
    BY <1>2, <1>3, <1>4, <2>1, <2>2, Queued DEF Ends, Fin
  <2>3. CASE i = Len(q) + 1
    <3>1. e.kind = "finished" /\ Without(q, {"connected"})
      BY <1>4, <2>1, <2>3, Queued, QueueTypes DEF Fin, Without, Con
    <3>. QED
      BY <1>2, <1>4, <2>3, <3>1
  <2>. QED
    BY <2>2, <2>3, Queued
<1>5. ASSUME Blocks(c, m, q),
             \A k \in 1 .. Len(c) : e.kind = "connected" /\ c[k] = e.hash =>
               HasAll(c, m, q, k, Len(q) + 1),
             NEW i \in 1 .. Len(q) + 1, NEW k \in 1 .. Len(c), Con(Append(q, e), i),
             c[k] = Append(q, e)[i].hash
      PROVE  HasAll(c, m, Append(q, e), k, i)
  <2>1. CASE i \in 1 .. Len(q)
    BY <1>1, <1>3, <1>5, <2>1, Queued DEF Blocks, Con
  <2>2. CASE i = Len(q) + 1
    BY <1>1, <1>5, <2>2, Queued DEF Con
  <2>. QED
    BY <2>1, <2>2, Queued
<1>6. \A A : Ends(c, m, q, A) /\ (e.kind = "finished" /\ Without(q, {"connected"}) =>
                                    FilledTo(c, m, q, A, Len(q) + 1))
                => Ends(c, m, Append(q, e), A)
  BY <1>4, Queued DEF Ends
<1>7. Blocks(c, m, q) /\ (\A k \in 1 .. Len(c) : e.kind = "connected" /\ c[k] = e.hash =>
                                                   HasAll(c, m, q, k, Len(q) + 1))
        => Blocks(c, m, Append(q, e))
  BY <1>5, Queued DEF Blocks
<1>. QED
  BY <1>1, <1>2, <1>6, <1>7
-----------------------------------------------------------------------------
(* The first notification is handled, by which the store m becomes m2.     *)
Handles(c, m, m2, q) ==
  /\ \A p \in m2 : p \in m \/ (Tx(q, 1) /\ p = <<q[1].height, q[1].hash>>)
  /\ Tx(q, 1) => <<q[1].height, q[1].hash>> \in m2
  /\ Dis(q, 1) => \A p \in m2 : p[1] < q[1].height
  /\ \A p \in m : On(c, p[2]) => p \in m2

LEMMA Dequeued ==
  ASSUME NEW q \in Seq(Rec), q # <<>>
  PROVE  /\ Tail(q) \in Seq(Rec) /\ Len(Tail(q)) = Len(q) - 1
         /\ Len(q) \in Nat \ {0} /\ 1 \in 1 .. Len(q) /\ Head(q) = q[1] /\ q[1] \in Rec
         /\ \A i \in 1 .. Len(q) - 1 : Tail(q)[i] = q[i + 1] /\ i + 1 \in 1 .. Len(q)
OBVIOUS

LEMMA HandledProtocol ==
  ASSUME NEW q \in Seq(Rec), q # <<>>
  PROVE  /\ \A c, top : QueueOK(c, top, q) => QueueOK(c, top, Tail(q))
         /\ \A K : Without(q, K) => Without(Tail(q), K)
         /\ OneEnd(q) => OneEnd(Tail(q))
         /\ OneEnd(q) /\ Fin(q, 1) => Without(Tail(q), {"progress", "finished"})
         /\ ~Con(q, 1) /\ Doom(q) => Doom(Tail(q))
         /\ Fin(q, 1) => ~Doom(q)
<1>1. \A c, top : QueueOK(c, top, q) => QueueOK(c, top, Tail(q))
  BY Dequeued DEF QueueOK, Tx, Con
<1>2. \A K : Without(q, K) => Without(Tail(q), K)
  BY Dequeued DEF Without
<1>3. OneEnd(q) => OneEnd(Tail(q))
  <2>. SUFFICES ASSUME OneEnd(q), NEW i \in 1 .. Len(q) - 1, NEW j \in 1 .. Len(q) - 1,
                       Fin(Tail(q), i), i < j
                PROVE  Tail(q)[j].kind \notin {"progress", "finished"}
    BY Dequeued DEF OneEnd
  <2>1. i + 1 < j + 1
    OBVIOUS
  <2>. QED
    BY <2>1, Dequeued DEF OneEnd, Fin
<1>4. OneEnd(q) /\ Fin(q, 1) => Without(Tail(q), {"progress", "finished"})
  <2>. SUFFICES ASSUME OneEnd(q), Fin(q, 1), NEW j \in 1 .. Len(q) - 1
                PROVE  Tail(q)[j].kind \notin {"progress", "finished"}
    BY Dequeued DEF Without
  <2>1. 1 < j + 1
    OBVIOUS
  <2>. QED
    BY <2>1, Dequeued DEF OneEnd, Fin
<1>5. ~Con(q, 1) /\ Doom(q) => Doom(Tail(q))
  <2>. SUFFICES ASSUME ~Con(q, 1), Doom(q) PROVE Doom(Tail(q))
    OBVIOUS
  <2>1. PICK i \in 1 .. Len(q) : Con(q, i) /\ \A j \in 1 .. i - 1 : ~Fin(q, j)
    BY DEF Doom
  <2>2. i # 1 /\ i - 1 \in 1 .. Len(q) - 1 /\ (i - 1) + 1 = i
    BY <2>1, Dequeued
  <2>3. Con(Tail(q), i - 1)
    BY <2>1, <2>2, Dequeued DEF Con
  <2>4. \A j \in 1 .. (i - 1) - 1 : j \in 1 .. Len(q) - 1 /\ j + 1 \in 1 .. i - 1
    BY <2>2, Dequeued
  <2>5. \A j \in 1 .. (i - 1) - 1 : ~Fin(Tail(q), j)
    BY <2>1, <2>4, Dequeued DEF Fin
  <2>. QED
    BY <2>2, <2>3, <2>5, Dequeued DEF Doom
<1>6. Fin(q, 1) => ~Doom(q)
  <2>. SUFFICES ASSUME Fin(q, 1), NEW i \in 1 .. Len(q), Con(q, i),
                       \A j \in 1 .. i - 1 : ~Fin(q, j)
                PROVE  FALSE
    BY DEF Doom
  <2>1. i # 1
    BY DEF Con, Fin
  <2>. QED
    BY <2>1, Dequeued
<1>. QED
  BY <1>1, <1>2, <1>3, <1>4, <1>5, <1>6

LEMMA HandledGone ==
  ASSUME NEW c, NEW m, NEW m2, NEW q \in Seq(Rec), q # <<>>, Handles(c, m, m2, q),
         Gone(c, m, q)
  PROVE  Gone(c, m2, Tail(q))
<1>. SUFFICES ASSUME NEW j \in 1 .. Len(q) - 1, Dis(Tail(q), j)
              PROVE  /\ \A p \in m2 : p[1] >= Tail(q)[j].height => ~On(c, p[2])
                     /\ \A i \in 1 .. j - 1 :
                          /\ Tx(Tail(q), i) \/ Con(Tail(q), i)
                          /\ Tail(q)[i].height >= Tail(q)[j].height
                          => ~On(c, Tail(q)[i].hash)
  BY Dequeued DEF Gone
<1>1. Dis(q, j + 1) /\ Tail(q)[j] = q[j + 1] /\ j + 1 \in 1 .. Len(q) /\ 1 \in 1 .. (j + 1) - 1
  BY Dequeued DEF Dis
<1>2. ASSUME NEW p \in m2, p[1] >= q[j + 1].height
      PROVE  ~On(c, p[2])
  <2>1. CASE p \in m
    BY <1>1, <1>2, <2>1 DEF Gone
  <2>2. CASE Tx(q, 1) /\ p = <<q[1].height, q[1].hash>>
    <3>1. p[1] = q[1].height /\ p[2] = q[1].hash
      BY <2>2
    <3>. QED
      BY <1>1, <1>2, <2>2, <3>1 DEF Gone
  <2>. QED
    BY <2>1, <2>2 DEF Handles
<1>3. ASSUME NEW i \in 1 .. j - 1, Tx(Tail(q), i) \/ Con(Tail(q), i),
             Tail(q)[i].height >= Tail(q)[j].height
      PROVE  ~On(c, Tail(q)[i].hash)
  <2>1. i \in 1 .. Len(q) - 1 /\ i + 1 \in 1 .. (j + 1) - 1
    BY Dequeued
  <2>2. Tail(q)[i] = q[i + 1]
    BY <2>1, Dequeued
  <2>. QED
    BY <1>1, <1>3, <2>1, <2>2 DEF Gone, Tx, Con
<1>. QED
  BY <1>1, <1>2, <1>3

LEMMA HandledStale ==
  ASSUME NEW c, NEW m, NEW m2, NEW q \in Seq(Rec), q # <<>>, Handles(c, m, m2, q),
         m2 \in SUBSET (Nat \X Nat), Stale(c, m, q)
  PROVE  Stale(c, m2, Tail(q))
<1>1. ASSUME NEW h \in Nat, NEW i \in 0 .. Len(q) - 1, Leaves(q, h, i + 1)
      PROVE  Leaves(Tail(q), h, i)
  <2>1. PICK j \in (i + 1) + 1 .. Len(q) : Dis(q, j) /\ q[j].height <= h
    BY <1>1 DEF Leaves
  <2>2. j - 1 \in i + 1 .. Len(q) - 1 /\ j - 1 \in 1 .. Len(q) - 1 /\ (j - 1) + 1 = j
    BY <2>1, Dequeued
  <2>3. Tail(q)[j - 1] = q[j]
    BY <2>2, Dequeued
  <2>. QED
    BY <2>1, <2>2, <2>3, Dequeued DEF Leaves, Dis
<1>2. ASSUME NEW h \in Nat, Leaves(q, h, 0), ~(Dis(q, 1) /\ q[1].height <= h)
      PROVE  Leaves(Tail(q), h, 0)
  <2>1. PICK j \in 0 + 1 .. Len(q) : Dis(q, j) /\ q[j].height <= h
    BY <1>2 DEF Leaves
  <2>2. j # 1
    BY <1>2, <2>1
  <2>3. j \in (0 + 1) + 1 .. Len(q) /\ 0 \in 0 .. Len(q) - 1
    BY <2>1, <2>2, Dequeued
  <2>4. Leaves(q, h, 0 + 1)
    BY <2>1, <2>3 DEF Leaves
  <2>. QED
    BY <1>1, <2>3, <2>4
<1>3. ASSUME NEW p \in m2
      PROVE  On(c, p[2]) \/ Leaves(Tail(q), p[1], 0)
  <2>1. p[1] \in Nat
    OBVIOUS
  <2>2. CASE p \in m
    <3>1. On(c, p[2]) \/ Leaves(q, p[1], 0)
      BY <2>2 DEF Stale
    <3>2. Dis(q, 1) => p[1] < q[1].height
      BY DEF Handles
    <3>3. q[1].height \in Nat
      BY Dequeued, QueueTypes
    <3>. QED
      BY <1>2, <2>1, <3>1, <3>2, <3>3
  <2>3. CASE Tx(q, 1) /\ p = <<q[1].height, q[1].hash>>
    <3>1. p[1] = q[1].height /\ p[2] = q[1].hash
      BY <2>3
    <3>2. On(c, p[2]) \/ Leaves(q, p[1], 0 + 1)
      BY <2>3, <3>1, Dequeued DEF Stale
    <3>3. 0 \in 0 .. Len(q) - 1
      BY Dequeued
    <3>. QED
      BY <1>1, <2>1, <3>2, <3>3
  <2>. QED
    BY <2>2, <2>3 DEF Handles
<1>4. ASSUME NEW i \in 1 .. Len(q) - 1, Tx(Tail(q), i)
      PROVE  On(c, Tail(q)[i].hash) \/ Leaves(Tail(q), Tail(q)[i].height, i)
  <2>1. Tail(q)[i] = q[i + 1] /\ i + 1 \in 1 .. Len(q) /\ i \in 0 .. Len(q) - 1
    BY Dequeued
  <2>2. q[i + 1].height \in Nat
    BY <2>1, QueueTypes
  <2>. QED
    BY <1>1, <1>4, <2>1, <2>2 DEF Stale, Tx
<1>. QED
  BY <1>3, <1>4, Dequeued DEF Stale

LEMMA HandledSolid ==
  ASSUME NEW c, NEW m, NEW m2, NEW q \in Seq(Rec), q # <<>>, Handles(c, m, m2, q),
         NEW A, Solid(c, m, q, A)
  PROVE  Solid(c, m2, Tail(q), A)
<1>. SUFFICES ASSUME NEW k \in 1 .. Len(c), c[k] \in A
              PROVE  /\ \A p \in m2 : p[1] <= k => On(c, p[2])
                     /\ \A i \in 1 .. Len(q) - 1 :
                          Tx(Tail(q), i) /\ Tail(q)[i].height <= k => On(c, Tail(q)[i].hash)
  BY Dequeued DEF Solid
<1>1. ASSUME NEW p \in m2, p[1] <= k
      PROVE  On(c, p[2])
  <2>1. CASE p \in m
    BY <1>1, <2>1 DEF Solid
  <2>2. CASE Tx(q, 1) /\ p = <<q[1].height, q[1].hash>>
    <3>1. p[1] = q[1].height /\ p[2] = q[1].hash
      BY <2>2
    <3>. QED
      BY <1>1, <2>2, <3>1, Dequeued DEF Solid
  <2>. QED
    BY <2>1, <2>2 DEF Handles
<1>2. \A i \in 1 .. Len(q) - 1 :
        Tx(Tail(q), i) /\ Tail(q)[i].height <= k => On(c, Tail(q)[i].hash)
  BY Dequeued DEF Solid, Tx
<1>. QED
  BY <1>1, <1>2

LEMMA HandledHas ==
  ASSUME NEW c, NEW m, NEW m2, NEW q \in Seq(Rec), q # <<>>, Handles(c, m, m2, q),
         NEW h \in 1 .. Len(c), NEW i \in 1 .. Len(q), Has(c, m, q, h, i + 1)
  PROVE  Has(c, m2, Tail(q), h, i)
<1>1. CASE <<h, c[h]>> \in m
  <2>1. On(c, <<h, c[h]>>[2])
    BY DEF On
  <2>. QED
    BY <1>1, <2>1 DEF Has, Handles
<1>2. CASE \E j \in 1 .. (i + 1) - 1 : Tx(q, j) /\ q[j].height = h /\ q[j].hash = c[h]
  <2>1. PICK j \in 1 .. i : Tx(q, j) /\ q[j].height = h /\ q[j].hash = c[h]
    BY <1>2
  <2>2. CASE j = 1
    BY <2>1, <2>2 DEF Has, Handles
  <2>3. CASE j # 1
    <3>1. j - 1 \in 1 .. i - 1 /\ j - 1 \in 1 .. Len(q) - 1 /\ (j - 1) + 1 = j
      BY <2>3, Dequeued
    <3>2. Tail(q)[j - 1] = q[j]
      BY <3>1, Dequeued
    <3>. QED
      BY <2>1, <3>1, <3>2 DEF Has, Tx
  <2>. QED
    BY <2>2, <2>3
<1>. QED
  BY <1>1, <1>2 DEF Has

LEMMA HandledFilled ==
  ASSUME NEW c \in Seq(Nat), NEW m, NEW m2, NEW q \in Seq(Rec), q # <<>>,
         Handles(c, m, m2, q)
  PROVE  /\ \A k \in 1 .. Len(c), i \in 1 .. Len(q) :
              HasAll(c, m, q, k, i + 1) => HasAll(c, m2, Tail(q), k, i)
         /\ \A A : \A i \in 1 .. Len(q) :
              FilledTo(c, m, q, A, i + 1) => FilledTo(c, m2, Tail(q), A, i)
         /\ \A A : Ends(c, m, q, A) /\ ~Con(q, 1) => Ends(c, m2, Tail(q), A)
         /\ Blocks(c, m, q) => Blocks(c, m2, Tail(q))
<1>1. \A k \in 1 .. Len(c), i \in 1 .. Len(q) :
        HasAll(c, m, q, k, i + 1) => HasAll(c, m2, Tail(q), k, i)
  <2>. SUFFICES ASSUME NEW k \in 1 .. Len(c), NEW i \in 1 .. Len(q),
                       HasAll(c, m, q, k, i + 1), NEW h \in StartHeight + 1 .. k
                PROVE  Has(c, m2, Tail(q), h, i)
    BY DEF HasAll
  <2>1. h \in 1 .. Len(c)
    BY HeightAssumption
  <2>. QED
    BY <2>1, HandledHas DEF HasAll
<1>2. \A A : \A i \in 1 .. Len(q) :
        FilledTo(c, m, q, A, i + 1) => FilledTo(c, m2, Tail(q), A, i)
  BY <1>1 DEF FilledTo
<1>3. \A i \in 1 .. Len(q) - 1 : i \in 1 .. Len(q)
  BY Dequeued
<1>4. ASSUME NEW A, Ends(c, m, q, A), ~Con(q, 1), NEW i \in 1 .. Len(q) - 1,
             Fin(Tail(q), i), \A j \in 1 .. i - 1 : ~Con(Tail(q), j)
      PROVE  FilledTo(c, m2, Tail(q), A, i)
  <2>1. Fin(q, i + 1) /\ i + 1 \in 1 .. Len(q)
    BY <1>4, Dequeued DEF Fin
  <2>2. ASSUME NEW j \in 1 .. (i + 1) - 1
        PROVE  ~Con(q, j)
    <3>1. CASE j = 1
      BY <1>4, <3>1
    <3>2. CASE j # 1
      <4>1. j - 1 \in 1 .. i - 1 /\ j - 1 \in 1 .. Len(q) - 1 /\ (j - 1) + 1 = j
        BY <3>2, Dequeued
      <4>2. Tail(q)[j - 1] = q[j]
        BY <4>1, Dequeued
      <4>. QED
        BY <1>4, <4>1, <4>2 DEF Con
    <3>. QED
      BY <3>1, <3>2
  <2>3. FilledTo(c, m, q, A, i + 1)
    BY <1>4, <2>1, <2>2 DEF Ends
  <2>. QED
    BY <1>2, <1>3, <2>3
<1>5. ASSUME Blocks(c, m, q), NEW i \in 1 .. Len(q) - 1, NEW k \in 1 .. Len(c),
             Con(Tail(q), i), c[k] = Tail(q)[i].hash
      PROVE  HasAll(c, m2, Tail(q), k, i)
  <2>1. Con(q, i + 1) /\ i + 1 \in 1 .. Len(q) /\ c[k] = q[i + 1].hash
    BY <1>5, Dequeued DEF Con
  <2>2. HasAll(c, m, q, k, i + 1)
    BY <1>5, <2>1 DEF Blocks
  <2>. QED
    BY <1>1, <1>3, <2>2
<1>6. \A A : Ends(c, m, q, A) /\ ~Con(q, 1) => Ends(c, m2, Tail(q), A)
  BY <1>4, Dequeued DEF Ends
<1>7. Blocks(c, m, q) => Blocks(c, m2, Tail(q))
  BY <1>5, Dequeued DEF Blocks
<1>. QED
  BY <1>1, <1>2, <1>6, <1>7
-----------------------------------------------------------------------------
LEMMA InitInv == Init => Inv
<1>. SUFFICES ASSUME Init PROVE Inv
  OBVIOUS
<1>0. StartHeight \in Nat \ {0}
  BY HeightAssumption
<1>1. /\ chain \in Seq(Nat) /\ Len(chain) = StartHeight
      /\ \A h \in 1 .. Len(chain) : chain[h] = h
  BY <1>0 DEF Init
<1>2. /\ recent \in Recents /\ recent.lastHeight = StartHeight
      /\ Len(recent.hashes) = 1 /\ recent.hashes[1] = StartHeight
  BY <1>0 DEF Init, Recents, Pos
<1>3. ntfns \in Seq(Rec) /\ Len(ntfns) = 0
  BY DEF Init
<1>4. /\ hs.step = "idle" /\ conn = FALSE /\ tracked = FALSE /\ scan = Unknown
      /\ stamp = Unknown /\ mined = {} /\ made = StartHeight /\ status = FullSync
  BY DEF Init, Idle
<1>5. Types
  <2>1. hs \in Shakes
    BY DEF Init, Idle, Shakes, Steps
  <2>2. /\ status \in Statuses
        /\ status.kind = "full"
    BY <1>4 DEF FullSync, Statuses
  <2>. QED
    BY <1>0, <1>1, <1>2, <1>3, <1>4, <2>1, <2>2 DEF Types
<1>6. ChainOK(chain, made)
  BY <1>0, <1>1, <1>4 DEF ChainOK
<1>7. Places
  BY <1>0, <1>1, <1>2, <1>3, <1>4
     DEF Places, MinedOK, QueueOK, RecentOK, Label
<1>8. Result /\ Protocol
  BY <1>3, <1>4 DEF Result, NotFound, Protocol, Without, OneEnd
<1>9. /\ Gone(chain, mined, ntfns) /\ Solid(chain, mined, ntfns, Anchors)
      /\ hs.step \notin {"idle", "search"} => Stale(chain, mined, ntfns)
  BY <1>3, <1>4 DEF Gone, Solid
<1>10. Filled /\ AtEnd
  BY <1>0, <1>1, <1>3 DEF Filled, FilledTo, HasAll, AtEnd, Ends
<1>11. Covered /\ AtBlock
  BY <1>4 DEF Covered, AtBlock
<1>. QED
  BY <1>5, <1>6, <1>7, <1>8, <1>9, <1>10, <1>11 DEF Inv

(* At the end the queue is empty: what is covered is in the store, and     *)
(* what left the chain is not.                                             *)
LEMMA InvProps == Inv /\ Quiet => NoGap /\ NoStale
<1>. SUFFICES ASSUME Inv, Quiet PROVE NoGap /\ NoStale
  OBVIOUS
<1>1. /\ chain \in Seq(Nat) /\ Len(chain) \in Nat /\ mined \subseteq Nat \X Nat
      /\ Len(ntfns) = 0 /\ hs.step = "done" /\ StartHeight \in Nat
  BY HeightAssumption DEF Inv, Types, Quiet
<1>2. NoGap
  <2>. SUFFICES ASSUME NEW h \in StartHeight + 1 .. Len(chain)
                PROVE  <<h, chain[h]>> \in mined
    BY DEF NoGap, ChainPairs
  <2>1. Has(chain, mined, ntfns, h, Len(ntfns) + 1)
    BY <1>1 DEF Inv, Covered, Doomed, Below
  <2>. QED
    BY <1>1, <2>1 DEF Has
<1>3. NoStale
  <2>. SUFFICES ASSUME NEW p \in mined, ~(p[1] <= StartHeight)
                PROVE  p \in ChainPairs
    BY DEF NoStale
  <2>1. p[1] \in Nat /\ p = <<p[1], p[2]>>
    BY <1>1
  <2>2. On(chain, p[2])
    BY <1>1 DEF Inv, Stale, Leaves
  <2>3. PICK h \in 1 .. Len(chain) : chain[h] = p[2]
    BY <2>2 DEF On
  <2>4. h = p[1]
    BY <2>3 DEF Inv, Places, MinedOK, Right
  <2>. QED
    BY <1>1, <2>1, <2>3, <2>4 DEF ChainPairs
<1>. QED
  BY <1>2, <1>3
-----------------------------------------------------------------------------
(* The handlers, but for connected blocks.                                 *)
LEMMA HandledInv ==
  ASSUME Inv, ntfns # <<>>, ntfns' = Tail(ntfns), ~Con(ntfns, 1),
         UNCHANGED <<serverVars, stamp, recent>>,
         mined' \subseteq Nat \X Nat, Handles(chain, mined, mined', ntfns),
         MinedOK(chain, made, mined')
  PROVE  /\ ntfns' \in Seq(Rec) /\ ChainOK(chain', made') /\ Places'
         /\ Gone(chain', mined', ntfns') /\ AtEnd'
         /\ Stale(chain, mined, ntfns) => Stale(chain', mined', ntfns')
         /\ Solid(chain', mined', ntfns', Anchors)
         /\ FilledTo(chain, mined, ntfns, Hashes(recent), 1) =>
              FilledTo(chain', mined', ntfns', Hashes(recent'), 1)
         /\ \A h \in StartHeight + 1 .. Len(chain) :
              Has(chain, mined, ntfns, h, Len(ntfns) + 1) =>
                Has(chain', mined', ntfns', h, Len(ntfns') + 1)
         /\ Blocks(chain, mined, ntfns) => Blocks(chain', mined', ntfns')
<1>1. /\ chain' = chain /\ made' = made /\ stamp' = stamp /\ recent' = recent
      /\ ntfns \in Seq(Rec) /\ chain \in Seq(Nat) /\ mined \subseteq Nat \X Nat
  BY DEF serverVars, Inv, Types
<1>2. ntfns' \in Seq(Rec) /\ Len(ntfns') + 1 = Len(ntfns) /\ Len(ntfns) \in 1 .. Len(ntfns)
  BY <1>1, Dequeued
<1>3. ChainOK(chain', made')
  BY <1>1 DEF Inv
<1>4. Places'
  BY <1>1, HandledProtocol DEF Inv, Places
<1>5. Gone(chain', mined', ntfns') /\ Solid(chain', mined', ntfns', Anchors)
  BY <1>1, HandledGone, HandledSolid DEF Inv
<1>6. Stale(chain, mined, ntfns) => Stale(chain', mined', ntfns')
  BY <1>1, HandledStale
<1>7. FilledTo(chain, mined, ntfns, Hashes(recent), 1) =>
        FilledTo(chain', mined', ntfns', Hashes(recent'), 1)
  <2>1. FilledTo(chain, mined, ntfns, Hashes(recent), 1) =>
          FilledTo(chain, mined, ntfns, Hashes(recent), 1 + 1)
    BY DEF FilledTo, HasAll, Has
  <2>. QED
    BY <1>1, <2>1, HandledFilled, Dequeued
<1>8. \A h \in StartHeight + 1 .. Len(chain) :
        Has(chain, mined, ntfns, h, Len(ntfns) + 1) =>
          Has(chain', mined', ntfns', h, Len(ntfns') + 1)
  <2>1. \A h \in StartHeight + 1 .. Len(chain) : h \in 1 .. Len(chain)
    BY <1>1, HeightAssumption
  <2>. QED
    BY <1>1, <1>2, <2>1, HandledHas
<1>9. (Blocks(chain, mined, ntfns) => Blocks(chain', mined', ntfns')) /\ AtEnd'
  BY <1>1, HandledFilled DEF Inv, AtEnd
<1>. QED
  BY <1>2, <1>3, <1>4, <1>5, <1>6, <1>7, <1>8, <1>9

(* The two handlers that change the store.                                 *)
LEMMA HandledSame ==
  ASSUME Inv, ntfns # <<>>, ntfns' = Tail(ntfns), ~Con(ntfns, 1),
         UNCHANGED <<serverVars, stamp, recent, hs, status>>,
         mined' \subseteq Nat \X Nat, Handles(chain, mined, mined', ntfns),
         MinedOK(chain, made, mined')
  PROVE  Inv'
<1>1. /\ chain' = chain /\ made' = made /\ stamp' = stamp /\ recent' = recent
      /\ hs' = hs /\ status' = status /\ conn' = conn /\ tracked' = tracked
      /\ scan' = scan /\ ntfns \in Seq(Rec)
  BY DEF serverVars, Inv, Types
<1>2. Types' /\ Result'
  BY <1>1, HandledInv DEF Inv, Types, Result, NotFound
<1>3. Protocol'
  BY <1>1, HandledProtocol DEF Inv, Protocol
<1>4. Doomed' \/ ~Doomed
  BY <1>1, HandledProtocol DEF Doomed
<1>5. Covered' /\ AtBlock'
  BY <1>1, <1>4, HandledInv DEF Inv, Covered, AtBlock, Below
<1>6. Filled' /\ Anchors' = Anchors
  BY <1>1, HandledInv DEF Inv, Filled, MarkedAhead, Anchors, NotFound
<1>. QED
  BY <1>1, <1>2, <1>3, <1>5, <1>6, HandledInv DEF Inv

LEMMA HandleTxInv == Inv /\ HandleTx => Inv'
<1>. SUFFICES ASSUME Inv, HandleTx PROVE Inv'
  OBVIOUS
<1>1. ntfns # <<>> /\ ntfns' = Tail(ntfns) /\ ntfns \in Seq(Rec)
  BY DEF HandleTx, Handle, Inv, Types
<1>2. /\ Head(ntfns) = ntfns[1] /\ 1 \in 1 .. Len(ntfns) /\ Tx(ntfns, 1)
      /\ ~Con(ntfns, 1) /\ ~Dis(ntfns, 1)
      /\ ntfns[1].height \in Nat /\ ntfns[1].hash \in Nat
  BY <1>1, Dequeued, QueueTypes DEF HandleTx, Handle, Tx, Con, Dis
<1>3. mined' = mined \cup {<<ntfns[1].height, ntfns[1].hash>>}
  BY <1>2 DEF HandleTx
<1>4. mined' \subseteq Nat \X Nat /\ Handles(chain, mined, mined', ntfns)
  BY <1>2, <1>3 DEF Handles, Inv, Types
<1>5. MinedOK(chain, made, mined')
  <2>1. Right(chain, made, ntfns[1].height, ntfns[1].hash)
    BY <1>2 DEF Inv, Places, QueueOK
  <2>. QED
    BY <1>3, <2>1 DEF Inv, Places, MinedOK
<1>. QED
  BY <1>1, <1>2, <1>4, <1>5, HandledSame DEF HandleTx

LEMMA HandleDisconnectedInv == Inv /\ HandleDisconnected => Inv'
<1>. SUFFICES ASSUME Inv, HandleDisconnected PROVE Inv'
  OBVIOUS
<1>1. ntfns # <<>> /\ ntfns' = Tail(ntfns) /\ ntfns \in Seq(Rec) /\ mined \subseteq Nat \X Nat
  BY DEF HandleDisconnected, Handle, Inv, Types
<1>2. /\ Head(ntfns) = ntfns[1] /\ 1 \in 1 .. Len(ntfns) /\ Dis(ntfns, 1)
      /\ ~Con(ntfns, 1) /\ ~Tx(ntfns, 1) /\ ntfns[1].height \in Nat
  BY <1>1, Dequeued, QueueTypes DEF HandleDisconnected, Handle, Tx, Con, Dis
<1>3. mined' = {p \in mined : p[1] < ntfns[1].height}
  BY <1>2 DEF HandleDisconnected, Rollback
<1>4. \A p \in mined : On(chain, p[2]) => p \in mined'
  <2>. SUFFICES ASSUME NEW p \in mined, On(chain, p[2]) PROVE p[1] < ntfns[1].height
    BY <1>3
  <2>1. p[1] \in Nat
    BY <1>1
  <2>. QED
    BY <1>2, <2>1 DEF Inv, Gone
<1>5. mined' \subseteq Nat \X Nat /\ Handles(chain, mined, mined', ntfns)
  BY <1>1, <1>2, <1>3, <1>4 DEF Handles
<1>6. MinedOK(chain, made, mined')
  BY <1>3 DEF Inv, Places, MinedOK
<1>. QED
  BY <1>1, <1>2, <1>5, <1>6, HandledSame DEF HandleDisconnected

LEMMA HandleProgressInv == Inv /\ HandleProgress => Inv'
<1>. SUFFICES ASSUME Inv, HandleProgress PROVE Inv'
  OBVIOUS
<1>1. /\ ntfns # <<>> /\ ntfns' = Tail(ntfns) /\ ntfns \in Seq(Rec) /\ mined \subseteq Nat \X Nat
      /\ chain' = chain /\ made' = made /\ stamp' = stamp /\ recent' = recent
      /\ hs' = hs /\ mined' = mined /\ conn' = conn /\ tracked' = tracked /\ scan' = scan
  BY DEF HandleProgress, Handle, Inv, Types, serverVars
<1>2. /\ Head(ntfns) = ntfns[1] /\ 1 \in 1 .. Len(ntfns) /\ ntfns[1].kind = "progress"
      /\ ~Con(ntfns, 1) /\ ~Tx(ntfns, 1) /\ ~Dis(ntfns, 1)
      /\ ntfns[1].height \in Nat /\ ntfns[1].height \in Pos
  BY <1>1, Dequeued, QueueTypes DEF HandleProgress, Handle, Tx, Con, Dis
<1>3. Handles(chain, mined, mined', ntfns) /\ MinedOK(chain, made, mined')
  BY <1>1, <1>2 DEF Handles, Inv, Places
<1>4. UNCHANGED <<serverVars, stamp, recent>>
  BY DEF HandleProgress
<1>5. /\ status' \in Statuses
      /\ status'.kind = "partial" /\ status'.height \in Pos /\ status' # FullSync
  BY <1>2 DEF HandleProgress, PartialSync, FullSync, Statuses
<1>6. hs.step \in {"idle", "wait"}
  BY <1>2 DEF Inv, Types, Shakes, Steps, Protocol, Without
<1>7. Types' /\ Result'
  <2>1. Types'
    BY <1>1, <1>2, <1>3, <1>4, <1>5, HandledInv DEF Inv, Types
  <2>. QED
    BY <1>1, <1>6, <2>1 DEF Inv, Result, NotFound
<1>8. Protocol'
  BY <1>1, <1>5, <1>6, HandledProtocol DEF Inv, Protocol
<1>9. Doomed' \/ ~Doomed
  BY <1>1, <1>2, HandledProtocol DEF Doomed
<1>10. Covered' /\ AtBlock'
  BY <1>1, <1>2, <1>3, <1>4, <1>6, <1>9, HandledInv DEF Inv, Covered, AtBlock, Below
<1>11. Filled' /\ Anchors' = Anchors
  BY <1>1, <1>5 DEF Filled, Anchors, NotFound
<1>. QED
  BY <1>1, <1>2, <1>3, <1>4, <1>7, <1>8, <1>10, <1>11, HandledInv DEF Inv

LEMMA HandleFinishedInv == Inv /\ HandleFinished => Inv'
<1>. SUFFICES ASSUME Inv, HandleFinished PROVE Inv'
  OBVIOUS
<1>1. /\ ntfns # <<>> /\ ntfns' = Tail(ntfns) /\ ntfns \in Seq(Rec) /\ mined \subseteq Nat \X Nat
      /\ chain' = chain /\ made' = made /\ stamp' = stamp /\ recent' = recent
      /\ mined' = mined /\ conn' = conn /\ tracked' = tracked /\ scan' = scan
  BY DEF HandleFinished, Handle, Inv, Types, serverVars
<1>2. /\ Head(ntfns) = ntfns[1] /\ 1 \in 1 .. Len(ntfns) /\ Fin(ntfns, 1)
      /\ ~Con(ntfns, 1) /\ ~Tx(ntfns, 1) /\ ~Dis(ntfns, 1)
  BY <1>1, Dequeued DEF HandleFinished, Handle, Tx, Con, Dis, Fin
<1>3. Handles(chain, mined, mined', ntfns) /\ MinedOK(chain, made, mined')
  BY <1>1, <1>2 DEF Handles, Inv, Places
<1>4. UNCHANGED <<serverVars, stamp, recent>>
  BY DEF HandleFinished
<1>5. hs.step \in {"idle", "wait"} /\ scan = Unknown
  BY <1>2 DEF Inv, Types, Shakes, Steps, Protocol, Without, Fin
<1>6. /\ hs.step = "wait" => hs'.step = "done"
      /\ hs.step = "idle" => hs' = hs
      /\ hs' \in Shakes
  BY <1>5 DEF HandleFinished, Idle, Inv, Types, Shakes, Steps
<1>7. /\ status' \in Statuses
      /\ status' = FullSync /\ status'.kind = "full"
  BY DEF HandleFinished, FullSync, Statuses
<1>8. Types' /\ Result'
  <2>1. Types'
    BY <1>1, <1>2, <1>3, <1>4, <1>6, <1>7, HandledInv DEF Inv, Types
  <2>. QED
    BY <1>5, <1>6, <2>1 DEF Result, NotFound
<1>9. Protocol'
  BY <1>1, <1>2, <1>5, <1>6, <1>7, HandledProtocol DEF Inv, Protocol
<1>10. ~Doom(ntfns)
  BY <1>1, <1>2, HandledProtocol
<1>11. Covered' /\ AtBlock'
  BY <1>1, <1>2, <1>3, <1>4, <1>5, <1>6, <1>10, HandledInv
     DEF Inv, Covered, AtBlock, Below, Doomed
<1>12. Filled'
  <2>1. FilledTo(chain, mined, ntfns, Hashes(recent), 1)
    BY <1>2 DEF Inv, AtEnd, Ends
  <2>. QED
    BY <1>1, <1>2, <1>3, <1>4, <2>1, HandledInv DEF Filled
<1>13. Anchors' = Anchors
  BY <1>1, <1>5, <1>6 DEF Anchors, NotFound
<1>14. hs'.step \notin {"idle", "search"} => Stale(chain', mined', ntfns')
  BY <1>1, <1>2, <1>3, <1>4, <1>5, <1>6, HandledInv DEF Inv
<1>. QED
  BY <1>1, <1>2, <1>3, <1>4, <1>8, <1>9, <1>11, <1>12, <1>13, <1>14, HandledInv DEF Inv
-----------------------------------------------------------------------------
(* The connection.                                                         *)
LEMMA ConnectInv == Inv /\ Connect /\ Followed' => Inv'
<1>. SUFFICES ASSUME Inv, Connect, Followed' PROVE Inv'
  OBVIOUS
<1>1. /\ chain' = chain /\ made' = made /\ stamp' = stamp /\ recent' = recent
      /\ mined' = mined /\ conn' = TRUE /\ tracked' = tracked /\ scan' = scan
      /\ status' = status /\ ntfns' = ntfns /\ hs'.step = "search" /\ hs' \in Shakes
  BY DEF Connect, walletVars, Idle, Shakes, Steps
<1>2. ntfns = <<>> /\ Len(ntfns) = 0 /\ hs.step = "idle"
  BY DEF Connect, Races, LeftOver, Followed, Inv, Protocol
<1>3. Types'
  BY <1>1 DEF Inv, Types
<1>4. Places' /\ Result'
  BY <1>1 DEF Inv, Places, Result, NotFound
<1>5. Protocol'
  BY <1>1, <1>2 DEF Inv, Protocol, Without
<1>6. Anchors' = Anchors
  BY <1>1, <1>2 DEF Anchors, NotFound
<1>7. Filled' /\ Covered' /\ AtBlock' /\ AtEnd'
  BY <1>1, <1>2 DEF Inv, Filled, MarkedAhead, Covered, AtBlock, AtEnd
<1>. QED
  BY <1>1, <1>3, <1>4, <1>5, <1>6, <1>7 DEF Inv

LEMMA TrackInv == Inv /\ Track => Inv'
<1>. SUFFICES ASSUME Inv, Track PROVE Inv'
  OBVIOUS
<1>1. /\ chain' = chain /\ made' = made /\ stamp' = stamp /\ recent' = recent
      /\ mined' = mined /\ conn' = conn /\ tracked' = TRUE /\ scan' = scan
      /\ status' = status /\ ntfns' = ntfns
  BY DEF Track, walletVars
<1>2. /\ hs.step = "track" /\ hs'.step = "rescan" /\ hs' \in Shakes
      /\ hs'.bs = hs.bs /\ hs'.found = hs.found
  BY DEF Track, Step, Inv, Types, Shakes, Steps
<1>3. Types'
  BY <1>1, <1>2 DEF Inv, Types
<1>4. Places' /\ Result'
  BY <1>1, <1>2 DEF Inv, Places, Result, NotFound
<1>5. Protocol'
  BY <1>1, <1>2 DEF Inv, Protocol
<1>6. Anchors' = Anchors
  BY <1>1, <1>2 DEF Anchors, NotFound
<1>7. Filled' /\ AtBlock' /\ AtEnd'
  BY <1>1, <1>2 DEF Inv, Filled, MarkedAhead, AtBlock, AtEnd
<1>8. Covered'
  BY <1>1, <1>2 DEF Inv, Covered, Below, Doomed
<1>. QED
  BY <1>1, <1>2, <1>3, <1>4, <1>5, <1>6, <1>7, <1>8 DEF Inv

LEMMA LoseConnectionInv == Inv /\ LoseConnection /\ Followed' => Inv'
<1>. SUFFICES ASSUME Inv, LoseConnection, Followed' PROVE Inv'
  OBVIOUS
<1>1. /\ chain' = chain /\ made' = made /\ stamp' = stamp /\ recent' = recent
      /\ mined' = mined /\ conn' = FALSE /\ tracked' = FALSE /\ scan' = Unknown
      /\ status' = status /\ ntfns' = ntfns /\ hs'.step = "idle" /\ hs' \in Shakes
  BY DEF LoseConnection, walletVars, Idle, Shakes, Steps
<1>2. ~MarkedAhead
  BY DEF LoseConnection, Races, Followed
<1>3. Types'
  BY <1>1 DEF Inv, Types
<1>4. Places' /\ Result'
  BY <1>1 DEF Inv, Places, Result, NotFound
<1>5. Protocol'
  BY <1>1 DEF Inv, Protocol
<1>6. Solid(chain', mined', ntfns', Anchors')
  <2>1. Anchors' \subseteq Anchors
    BY <1>1 DEF Anchors, NotFound
  <2>. QED
    BY <1>1, <2>1 DEF Inv, Solid
<1>7. Filled' /\ Covered' /\ AtBlock' /\ AtEnd'
  BY <1>1, <1>2 DEF Inv, Filled, Covered, AtBlock, AtEnd
<1>. QED
  BY <1>1, <1>3, <1>4, <1>5, <1>6, <1>7 DEF Inv

LEMMA RestartInv ==
  ASSUME NEW readable \in BOOLEAN
  PROVE  Inv /\ Restart(readable) /\ Followed' => Inv'
<1>. SUFFICES ASSUME Inv, Restart(readable), Followed' PROVE Inv'
  OBVIOUS
<1>0. StartHeight \in Nat \ {0}
  BY HeightAssumption
<1>1. /\ chain' = chain /\ made' = made /\ stamp' = Unknown
      /\ conn' = FALSE /\ tracked' = FALSE /\ scan' = Unknown
      /\ ntfns' = <<>> /\ hs'.step = "idle" /\ hs' \in Shakes
  BY DEF Restart, Idle, Shakes, Steps
<1>2. ntfns' \in Seq(Rec) /\ Len(ntfns') = 0
  BY <1>1
<1>3. Protocol' /\ Result' /\ Covered' /\ AtBlock'
  BY <1>1, <1>2 DEF Protocol, Result, NotFound, Covered, AtBlock, Without, OneEnd
<1>4. Gone(chain', mined', ntfns') /\ AtEnd' /\ QueueOK(chain', made', ntfns')
  BY <1>2 DEF Gone, AtEnd, Ends, QueueOK
<1>5. CASE ~MarkedAhead /\ UNCHANGED walletVars
  <2>1. recent' = recent /\ status' = status /\ mined' = mined
    BY <1>5 DEF walletVars
  <2>2. Types'
    BY <1>1, <1>2, <2>1 DEF Inv, Types, Shakes, Steps
  <2>3. Places'
    BY <1>1, <1>4, <2>1 DEF Inv, Places
  <2>4. Solid(chain', mined', ntfns', Anchors')
    <3>1. Anchors' \subseteq Anchors
      BY <1>1, <2>1 DEF Anchors, NotFound
    <3>. QED
      BY <1>1, <1>2, <2>1, <3>1 DEF Inv, Solid
  <2>5. Filled'
    BY <1>1, <1>5, <2>1 DEF Inv, Filled, FilledTo, HasAll, Has
  <2>. QED
    BY <1>1, <1>3, <1>4, <2>2, <2>3, <2>4, <2>5 DEF Inv
<1>6. CASE recent' = Forgotten /\ status' = Unsynced(StartHeight) /\ mined' = {}
  <2>1. /\ recent' \in Recents /\ Len(recent'.hashes) = 0
        /\ status' \in Statuses
        /\ status'.kind = "unsynced" /\ status'.height = StartHeight /\ status' # FullSync
    BY <1>0, <1>6 DEF Forgotten, Unsynced, FullSync, Recents, Statuses, Pos
  <2>2. Types'
    BY <1>1, <1>2, <1>6, <2>1 DEF Inv, Types, Shakes, Steps
  <2>3. Places'
    BY <1>1, <1>4, <1>6, <2>1 DEF Places, MinedOK, RecentOK
  <2>4. Solid(chain', mined', ntfns', Anchors')
    BY <1>2, <1>6 DEF Solid
  <2>5. Filled'
    BY <2>1 DEF Filled
  <2>. QED
    BY <1>1, <1>3, <1>4, <2>2, <2>3, <2>4, <2>5 DEF Inv
<1>. QED
  BY <1>5, <1>6 DEF Restart, Races, Followed
-----------------------------------------------------------------------------
(* The rescan queues a notification that is not of a block.                *)
LEMMA ScannedInv ==
  ASSUME Inv, NEW e \in Rec, ntfns' = Append(ntfns, e), scan # Unknown,
         UNCHANGED <<chain, made, conn, tracked, stamp, hs, walletVars>>,
         e.kind \in {"tx", "progress", "finished"},
         e.kind = "tx" => On(chain, e.hash) /\ Right(chain, made, e.height, e.hash),
         e.kind = "finished" => scan' = Unknown /\ scan > Len(chain),
         scan' \in Pos \cup {Unknown}
  PROVE  /\ Covered' => Inv'
         /\ Doomed => Doomed'
         /\ hs'.step = "wait"
         /\ \A h : Has(chain, mined, ntfns, h, Len(ntfns) + 1) \/
                     (e.kind = "tx" /\ h = e.height /\ e.hash = chain[h]) =>
                   Has(chain', mined', ntfns', h, Len(ntfns') + 1)
<1>1. /\ chain' = chain /\ made' = made /\ stamp' = stamp /\ recent' = recent
      /\ mined' = mined /\ conn' = conn /\ tracked' = tracked
      /\ status' = status /\ hs' = hs /\ hs.step = "wait"
      /\ ntfns \in Seq(Rec) /\ chain \in Seq(Nat) /\ mined \subseteq Nat \X Nat
  BY DEF Inv, Types, Protocol, walletVars
<1>2. /\ ntfns' \in Seq(Rec) /\ Len(ntfns') + 1 = Len(ntfns) + 2
      /\ Len(ntfns) + 1 \in 1 .. Len(ntfns) + 1 /\ 1 \in 1 .. Len(ntfns) + 1
  BY <1>1, Queued, QueueTypes
<1>3. Types'
  BY <1>1, <1>2 DEF Inv, Types
<1>4. Places' /\ Result'
  BY <1>1, QueuedPlaces DEF Inv, Places, Result, NotFound
<1>5. Protocol'
  BY <1>1, QueuedProtocol DEF Inv, Protocol
<1>6. /\ Gone(chain', mined', ntfns') /\ Stale(chain', mined', ntfns')
      /\ Solid(chain', mined', ntfns', Anchors')
  <2>1. Anchors' = Anchors
    BY <1>1 DEF Anchors, NotFound
  <2>2. Gone(chain', mined', ntfns')
    BY <1>1, QueuedGone DEF Inv
  <2>3. Solid(chain', mined', ntfns', Anchors')
    BY <1>1, <2>1, QueuedSolid DEF Inv
  <2>4. Stale(chain', mined', ntfns')
    BY <1>1, QueuedStale DEF Inv
  <2>. QED
    BY <2>2, <2>3, <2>4
<1>7. Doomed => Doomed'
  BY <1>1, QueuedProtocol DEF Doomed
<1>8. Filled'
  BY <1>1, <1>2, QueuedFilled DEF Inv, Filled, MarkedAhead
<1>9. AtBlock'
  BY <1>1, <1>7, QueuedFilled DEF Inv, AtBlock
<1>10. AtEnd'
  <2>1. ASSUME e.kind = "finished", Without(ntfns, {"connected"})
        PROVE  FilledTo(chain, mined, ntfns, Hashes(recent), Len(ntfns) + 1)
    <3>1. ~Doomed
      BY <2>1 DEF Doomed, Doom, Without, Con
    <3>2. scan \in Nat /\ scan > Len(chain) /\ Len(chain) \in Nat /\ StartHeight \in Nat
      BY <1>1, <2>1, HeightAssumption DEF Inv, Types, Pos
    <3>3. \A h \in StartHeight + 1 .. Len(chain) :
            Has(chain, mined, ntfns, h, Len(ntfns) + 1)
      BY <1>1, <3>1, <3>2 DEF Inv, Covered, Below
    <3>4. \A k \in 1 .. Len(chain) : \A h \in StartHeight + 1 .. k :
            h \in StartHeight + 1 .. Len(chain)
      BY <3>2
    <3>. QED
      BY <3>3, <3>4 DEF FilledTo, HasAll
  <2>. QED
    BY <1>1, <2>1, QueuedFilled DEF Inv, AtEnd
<1>11. \A h : Has(chain, mined, ntfns, h, Len(ntfns) + 1) \/
                (e.kind = "tx" /\ h = e.height /\ e.hash = chain[h]) =>
              Has(chain', mined', ntfns', h, Len(ntfns') + 1)
  BY <1>1, <1>2, QueuedHas
<1>. QED
  BY <1>1, <1>3, <1>4, <1>5, <1>6, <1>7, <1>8, <1>9, <1>10, <1>11 DEF Inv

LEMMA Notified ==
  ASSUME ntfns \in Seq(Rec), NEW e \in Rec
  PROVE  ntfns \o <<e>> = Append(ntfns, e)
OBVIOUS

LEMMA OnRight ==
  ASSUME NEW c \in Seq(Nat), NEW top \in Nat, ChainOK(c, top), NEW h \in 1 .. Len(c)
  PROVE  On(c, c[h]) /\ Right(c, top, h, c[h]) /\ c[h] \in Nat
<1>1. \A k \in 1 .. Len(c) : c[k] = c[h] => k = h
  <2>. SUFFICES ASSUME NEW k \in 1 .. Len(c), c[k] = c[h], k # h PROVE FALSE
    OBVIOUS
  <2>1. c[k] \in Nat /\ c[h] \in Nat /\ (k < h \/ h < k)
    OBVIOUS
  <2>. QED
    BY <2>1 DEF ChainOK
<1>. QED
  BY <1>1 DEF On, Right, ChainOK

LEMMA ScanBlockInv == Inv /\ ScanBlock => Inv'
<1>. SUFFICES ASSUME Inv, ScanBlock PROVE Inv'
  OBVIOUS
<1>1. /\ scan \in 1 .. Len(chain) /\ chain \in Seq(Nat) /\ ntfns \in Seq(Rec)
      /\ made \in Nat /\ scan \in Pos /\ scan + 1 \in Pos /\ scan' = scan + 1
      /\ scan # Unknown /\ scan' # Unknown
  BY UnknownAssumption DEF ScanBlock, Inv, Types, Pos
<1>2. PICK e \in Rec : e = Ntfn("tx", scan, chain[scan])
  <2>1. chain[scan] \in Nat /\ scan \in Pos
    BY <1>1 DEF Pos
  <2>2. Ntfn("tx", scan, chain[scan]) \in Rec
    BY <2>1 DEF Rec, Ntfn
  <2>. QED
    BY <2>2
<1>3. e.kind = "tx" /\ e.height = scan /\ e.hash = chain[scan]
  BY <1>2 DEF Ntfn
<1>4. ntfns' = Append(ntfns, e)
  BY <1>1, <1>2, Notified DEF ScanBlock, Notify
<1>5. On(chain, e.hash) /\ Right(chain, made, e.height, e.hash)
  BY <1>1, <1>3, OnRight DEF Inv
<1>6. /\ UNCHANGED <<chain, made, conn, tracked, stamp, hs, walletVars>>
      /\ chain' = chain /\ hs' = hs
  BY DEF ScanBlock
<1>7. /\ Covered' => Inv'
      /\ hs'.step = "wait" /\ (Doomed => Doomed')
      /\ \A h : Has(chain, mined, ntfns, h, Len(ntfns) + 1) \/ (h = scan) =>
                   Has(chain', mined', ntfns', h, Len(ntfns') + 1)
  BY <1>1, <1>3, <1>4, <1>5, <1>6, ScannedInv
<1>8. Covered'
  <2>. SUFFICES ASSUME ~Doomed', NEW h \in StartHeight + 1 .. Len(chain'), Below(h)'
                PROVE  Has(chain', mined', ntfns', h, Len(ntfns') + 1)
    BY DEF Covered
  <2>1. chain' = chain /\ hs' = hs /\ h < scan + 1 /\ h \in Nat
    BY <1>1, <1>6, <1>7, HeightAssumption DEF Below
  <2>2. CASE h < scan
    BY <1>1, <1>7, <2>1, <2>2 DEF Inv, Covered, Below
  <2>. QED
    BY <1>1, <1>7, <2>1, <2>2
<1>. QED
  BY <1>7, <1>8

LEMMA ScanProgressInv == Inv /\ ScanProgress => Inv'
<1>. SUFFICES ASSUME Inv, ScanProgress PROVE Inv'
  OBVIOUS
<1>1. /\ scan - 1 \in 1 .. Len(chain) /\ chain \in Seq(Nat) /\ ntfns \in Seq(Rec)
      /\ made \in Nat /\ scan' = scan /\ scan \in Pos /\ scan # Unknown
  BY DEF ScanProgress, serverVars, Inv, Types, Pos
<1>2. PICK e \in Rec : e = Ntfn("progress", scan - 1, chain[scan - 1])
  <2>1. chain[scan - 1] \in Nat /\ scan - 1 \in Pos
    BY <1>1 DEF Pos
  <2>2. Ntfn("progress", scan - 1, chain[scan - 1]) \in Rec
    BY <2>1 DEF Rec, Ntfn
  <2>. QED
    BY <2>2
<1>3. e.kind = "progress"
  BY <1>2 DEF Ntfn
<1>4. ntfns' = Append(ntfns, e)
  BY <1>1, <1>2, Notified DEF ScanProgress, Notify
<1>5. /\ UNCHANGED <<chain, made, conn, tracked, stamp, hs, walletVars>>
      /\ chain' = chain /\ hs' = hs
  BY DEF ScanProgress, serverVars
<1>6. /\ Covered' => Inv'
      /\ hs'.step = "wait" /\ (Doomed => Doomed')
      /\ \A h : Has(chain, mined, ntfns, h, Len(ntfns) + 1) =>
                   Has(chain', mined', ntfns', h, Len(ntfns') + 1)
  BY <1>1, <1>3, <1>4, <1>5, ScannedInv
<1>7. Covered'
  BY <1>1, <1>5, <1>6 DEF Inv, Covered, Below
<1>. QED
  BY <1>6, <1>7

LEMMA ScanEndInv == Inv /\ ScanEnd => Inv'
<1>. SUFFICES ASSUME Inv, ScanEnd PROVE Inv'
  OBVIOUS
<1>1. /\ chain \in Seq(Nat) /\ ntfns \in Seq(Rec) /\ Len(chain) \in Nat
      /\ scan' = Unknown /\ scan \in Pos /\ scan # Unknown /\ scan > Len(chain)
  BY DEF ScanEnd, Inv, Types
<1>2. PICK e \in Rec : e = Ntfn("finished", 0, 0)
  BY DEF Rec
<1>3. e.kind = "finished"
  BY <1>2 DEF Ntfn
<1>4. ntfns' = Append(ntfns, e)
  BY <1>1, <1>2, Notified DEF ScanEnd, Notify
<1>5. /\ UNCHANGED <<chain, made, conn, tracked, stamp, hs, walletVars>>
      /\ chain' = chain /\ hs' = hs
  BY DEF ScanEnd
<1>6. /\ Covered' => Inv'
      /\ hs'.step = "wait" /\ (Doomed => Doomed')
      /\ \A h : Has(chain, mined, ntfns, h, Len(ntfns) + 1) =>
                   Has(chain', mined', ntfns', h, Len(ntfns') + 1)
  BY <1>1, <1>3, <1>4, <1>5, ScannedInv
<1>7. Covered'
  <2>. SUFFICES ASSUME ~Doomed', NEW h \in StartHeight + 1 .. Len(chain')
                PROVE  Has(chain', mined', ntfns', h, Len(ntfns') + 1)
    BY DEF Covered
  <2>1. chain' = chain /\ hs' = hs /\ h < scan
    BY <1>1, <1>5, HeightAssumption DEF Pos
  <2>. QED
    BY <1>1, <1>6, <2>1 DEF Inv, Covered, Below
<1>. QED
  BY <1>6, <1>7
-----------------------------------------------------------------------------
LEMMA CutOff ==
  ASSUME NEW s \in Seq(Nat), NEW n \in Nat, n - 1 \in 0 .. Len(s)
  PROVE  /\ SubSeq(s, 1, n - 1) \in Seq(Nat) /\ Len(SubSeq(s, 1, n - 1)) = n - 1
         /\ \A i \in 1 .. n - 1 : i \in 1 .. Len(s) /\ SubSeq(s, 1, n - 1)[i] = s[i]
OBVIOUS

LEMMA TailOf ==
  ASSUME NEW s \in Seq(Nat), s # <<>>
  PROVE  /\ Tail(s) \in Seq(Nat) /\ Len(Tail(s)) = Len(s) - 1
         /\ \A i \in 1 .. Len(s) - 1 : i + 1 \in 1 .. Len(s) /\ Tail(s)[i] = s[i + 1]
OBVIOUS

(* A block joins or leaves the chain.                                      *)
LEMMA ChainMoved ==
  ASSUME Inv, NEW c \in Seq(Nat), NEW top \in Nat, made <= top, Sub(chain, c, made)
  PROVE  /\ MinedOK(c, top, mined) /\ QueueOK(c, top, ntfns) /\ RecentOK(c, top, recent)
         /\ stamp # Unknown => Right(c, top, stamp.height, stamp.hash)
         /\ NotFound => Right(c, top, hs.bs.height, hs.bs.hash)
         /\ Gone(c, mined, ntfns) /\ Solid(c, mined, ntfns, Anchors)
         /\ Ends(c, mined, ntfns, Hashes(recent))
         /\ status = FullSync /\ ~MarkedAhead =>
              FilledTo(c, mined, ntfns, Hashes(recent), 1)
         /\ Blocks(chain, mined, ntfns) => Blocks(c, mined, ntfns)
<1>1. /\ chain \in Seq(Nat) /\ made \in Nat /\ mined \in SUBSET (Nat \X Nat)
      /\ ntfns \in Seq(Rec) /\ recent \in Recents /\ recent.hashes \in Seq(Nat)
      /\ MinedOK(chain, made, mined) /\ QueueOK(chain, made, ntfns)
      /\ RecentOK(chain, made, recent)
  BY DEF Inv, Types, Places, Recents
<1>2. MinedOK(c, top, mined) /\ QueueOK(c, top, ntfns) /\ RecentOK(c, top, recent)
  BY <1>1, SubPlaces
<1>3. stamp # Unknown => Right(c, top, stamp.height, stamp.hash)
  <2>1. stamp # Unknown => stamp.height \in Nat /\ stamp.hash \in Nat
    BY DEF Inv, Types, Stamps, Pos
  <2>. QED
    BY <1>1, <2>1, SubOn DEF Inv, Places
<1>4. NotFound => /\ Right(c, top, hs.bs.height, hs.bs.hash)
                  /\ hs.bs.hash \in Nat /\ hs.bs.hash <= made
  <2>1. NotFound => hs.bs.height \in Nat /\ hs.bs.hash \in Nat
    BY DEF Inv, Result, NotFound, Stamps, Pos
  <2>2. NotFound => Right(chain, made, hs.bs.height, hs.bs.hash)
    BY DEF Inv, Result
  <2>3. NotFound => Right(c, top, hs.bs.height, hs.bs.hash)
    BY <1>1, <2>1, <2>2, SubOn
  <2>4. NotFound => hs.bs.hash <= made
    BY <2>2 DEF Right
  <2>. QED
    BY <2>1, <2>3, <2>4
<1>5. Hashes(recent) \in SUBSET (0 .. made)
  BY <1>1 DEF Hashes, RecentOK
<1>6. Anchors \in SUBSET (0 .. made)
  BY <1>1, <1>4, <1>5 DEF Anchors
<1>7. Gone(c, mined, ntfns) /\ Solid(c, mined, ntfns, Anchors)
  BY <1>1, <1>6, SubGone, SubSolid DEF Inv
<1>8. /\ Ends(c, mined, ntfns, Hashes(recent))
      /\ status = FullSync /\ ~MarkedAhead => FilledTo(c, mined, ntfns, Hashes(recent), 1)
  BY <1>1, <1>5, SubEnds, SubFilled DEF Inv, AtEnd, Filled
<1>9. Blocks(chain, mined, ntfns) => Blocks(c, mined, ntfns)
  BY <1>1, SubBlocks
<1>. QED
  BY <1>2, <1>3, <1>4, <1>7, <1>8, <1>9

(* What the notification of a block leaves true.                           *)
LEMMA QueuedInv ==
  ASSUME NEW c \in Seq(Nat), NEW top \in Nat, NEW m \in SUBSET (Nat \X Nat),
         NEW q \in Seq(Rec), NEW e \in Rec, NEW A, NEW R,
         QueueOK(c, top, q), Gone(c, m, q), Solid(c, m, q, A), Ends(c, m, q, R), OneEnd(q),
         e.kind \notin {"progress", "finished"},
         e.kind \in {"tx", "connected"} => On(c, e.hash) /\ Right(c, top, e.height, e.hash),
         e.kind = "disconnected" =>
           /\ \A p \in m : p[1] >= e.height => ~On(c, p[2])
           /\ \A i \in 1 .. Len(q) : (Tx(q, i) \/ Con(q, i)) /\ q[i].height >= e.height
                                       => ~On(c, q[i].hash)
  PROVE  /\ Append(q, e) \in Seq(Rec)
         /\ QueueOK(c, top, Append(q, e)) /\ Gone(c, m, Append(q, e))
         /\ Solid(c, m, Append(q, e), A) /\ Ends(c, m, Append(q, e), R)
         /\ OneEnd(Append(q, e))
         /\ FilledTo(c, m, q, R, 1) => FilledTo(c, m, Append(q, e), R, 1)
<1>1. QueueOK(c, top, Append(q, e)) /\ Append(q, e) \in Seq(Rec)
  BY QueuedPlaces, Queued
<1>2. Gone(c, m, Append(q, e))
  BY QueuedGone
<1>3. Solid(c, m, Append(q, e), A)
  BY QueuedSolid
<1>4. Ends(c, m, Append(q, e), R) /\ OneEnd(Append(q, e))
  BY QueuedFilled, QueuedProtocol
<1>5. 1 \in 1 .. Len(q) + 1
  BY QueueTypes
<1>6. FilledTo(c, m, q, R, 1) => FilledTo(c, m, Append(q, e), R, 1)
  BY <1>5, QueuedFilled
<1>. QED
  BY <1>1, <1>2, <1>3, <1>4, <1>6

LEMMA DisconnectBlockInv == Inv /\ DisconnectBlock => Inv'
<1>. SUFFICES ASSUME Inv, DisconnectBlock PROVE Inv'
  OBVIOUS
<1>1. /\ made' = made /\ stamp' = stamp /\ recent' = recent /\ conn' = conn
      /\ mined' = mined /\ tracked' = tracked /\ status' = status /\ hs' = hs
  BY DEF DisconnectBlock, walletVars
<1>2. /\ chain \in Seq(Nat) /\ made \in Nat /\ mined \in SUBSET (Nat \X Nat)
      /\ ntfns \in Seq(Rec) /\ Len(chain) \in Nat /\ Len(chain) > 1
  BY DEF Inv, Types, DisconnectBlock
<1>3. /\ chain' \in Seq(Nat) /\ Len(chain') = Len(chain) - 1
      /\ \A k \in 1 .. Len(chain') : k \in 1 .. Len(chain) /\ chain'[k] = chain[k]
  <2>1. chain' = SubSeq(chain, 1, Len(chain) - 1) /\ Len(chain) - 1 \in 0 .. Len(chain)
    BY <1>2 DEF DisconnectBlock, Front
  <2>2. /\ SubSeq(chain, 1, Len(chain) - 1) \in Seq(Nat)
        /\ Len(SubSeq(chain, 1, Len(chain) - 1)) = Len(chain) - 1
        /\ \A i \in 1 .. Len(chain) - 1 :
             i \in 1 .. Len(chain) /\ SubSeq(chain, 1, Len(chain) - 1)[i] = chain[i]
    BY <1>2, <2>1, CutOff
  <2>. QED
    BY <2>1, <2>2
<1>4. ChainOK(chain', made')
  <2>1. ChainOK(chain, made)
    BY DEF Inv
  <2>. QED
    BY <1>1, <1>2, <1>3, <2>1 DEF ChainOK
<1>5. Sub(chain, chain', made)
  <2>. SUFFICES ASSUME NEW k \in 1 .. Len(chain'), NEW h \in 1 .. k
                PROVE  k <= Len(chain) /\ chain'[h] = chain[h]
    BY DEF Sub
  <2>1. Len(chain') \in Nat
    BY <1>2, <1>3
  <2>2. h \in 1 .. Len(chain')
    BY <2>1
  <2>3. k \in 1 .. Len(chain) /\ chain'[h] = chain[h]
    BY <1>3, <2>2
  <2>. QED
    BY <1>2, <2>3
<1>6. \A b : On(chain, b) /\ ~On(chain', b) => b = chain[Len(chain)]
  <2>1. \A k \in 1 .. Len(chain) : k \in 1 .. Len(chain') \/ k = Len(chain)
    BY <1>2, <1>3
  <2>. QED
    BY <1>3, <2>1 DEF On
<1>7. \A h, b \in Nat : Right(chain, made, h, b) =>
        /\ h >= Len(chain) => ~On(chain', b)
        /\ On(chain, b) /\ ~On(chain', b) => h = Len(chain)
  <2>. SUFFICES ASSUME NEW h \in Nat, NEW b \in Nat, Right(chain, made, h, b)
                PROVE  /\ h >= Len(chain) => ~On(chain', b)
                       /\ On(chain, b) /\ ~On(chain', b) => h = Len(chain)
    OBVIOUS
  <2>1. ASSUME h >= Len(chain), NEW k \in 1 .. Len(chain'), chain'[k] = b
        PROVE  FALSE
    <3>0. k \in 1 .. Len(chain) /\ chain[k] = b
      BY <1>3, <2>1
    <3>1. k \in 1 .. Len(chain) /\ chain[k] = b /\ k <= Len(chain) - 1
      <4>1. k \in 1 .. Len(chain) - 1
        BY <1>3
      <4>. QED
        BY <1>2, <3>0, <4>1
    <3>2. k = h
      BY <3>1 DEF Right
    <3>. QED
      BY <1>2, <2>1, <3>1, <3>2
  <2>2. Len(chain) \in 1 .. Len(chain)
    BY <1>2
  <2>3. h >= Len(chain) => ~On(chain', b)
    BY <2>1 DEF On
  <2>4. On(chain, b) /\ ~On(chain', b) => h = Len(chain)
    BY <1>6, <2>2 DEF Right
  <2>. QED
    BY <2>3, <2>4
<1>8. PICK e \in Rec : e = Ntfn("disconnected", Len(chain), chain[Len(chain)])
  <2>1. chain[Len(chain)] \in Nat /\ Len(chain) \in Pos
    BY <1>2 DEF Pos
  <2>2. Ntfn("disconnected", Len(chain), chain[Len(chain)]) \in Rec
    BY <2>1 DEF Rec, Ntfn
  <2>. QED
    BY <2>2
<1>9. e.kind = "disconnected" /\ e.height = Len(chain)
  BY <1>8 DEF Ntfn
<1>10. /\ ntfns' = IF conn THEN Append(ntfns, e) ELSE ntfns
  BY <1>2, <1>8, Notified DEF DisconnectBlock, Notify
<1>11. /\ \A p \in mined : p[1] >= e.height => ~On(chain', p[2])
       /\ \A p \in mined : On(chain, p[2]) /\ ~On(chain', p[2]) => e.height <= p[1]
  <2>1. \A p \in mined : p[1] \in Nat /\ p[2] \in Nat /\ Right(chain, made, p[1], p[2])
    BY <1>2 DEF Inv, Places, MinedOK
  <2>. SUFFICES ASSUME NEW p \in mined
                PROVE  /\ p[1] >= e.height => ~On(chain', p[2])
                       /\ On(chain, p[2]) /\ ~On(chain', p[2]) => e.height <= p[1]
    OBVIOUS
  <2>2. /\ p[1] >= Len(chain) => ~On(chain', p[2])
        /\ On(chain, p[2]) /\ ~On(chain', p[2]) => p[1] = Len(chain)
    BY <1>7, <2>1
  <2>. QED
    BY <1>2, <1>9, <2>2
<1>12. \A i \in 1 .. Len(ntfns) : Tx(ntfns, i) \/ Con(ntfns, i) =>
         /\ ntfns[i].height >= e.height => ~On(chain', ntfns[i].hash)
         /\ On(chain, ntfns[i].hash) /\ ~On(chain', ntfns[i].hash) => e.height <= ntfns[i].height
  <2>1. \A i \in 1 .. Len(ntfns) : Tx(ntfns, i) \/ Con(ntfns, i) =>
          /\ ntfns[i].height \in Nat /\ ntfns[i].hash \in Nat
          /\ Right(chain, made, ntfns[i].height, ntfns[i].hash)
    BY <1>2, QueueTypes DEF Inv, Places, QueueOK
  <2>. SUFFICES ASSUME NEW i \in 1 .. Len(ntfns), Tx(ntfns, i) \/ Con(ntfns, i)
                PROVE  /\ ntfns[i].height >= e.height => ~On(chain', ntfns[i].hash)
                       /\ On(chain, ntfns[i].hash) /\ ~On(chain', ntfns[i].hash) =>
                            e.height <= ntfns[i].height
    OBVIOUS
  <2>2. /\ ntfns[i].height \in Nat /\ ntfns[i].hash \in Nat
        /\ Right(chain, made, ntfns[i].height, ntfns[i].hash)
    BY <2>1
  <2>3. /\ ntfns[i].height >= Len(chain) => ~On(chain', ntfns[i].hash)
        /\ On(chain, ntfns[i].hash) /\ ~On(chain', ntfns[i].hash) =>
             ntfns[i].height = Len(chain)
    BY <1>7, <2>2
  <2>. QED
    BY <1>2, <1>9, <2>2, <2>3
<1>13. /\ QueueOK(chain', made, ntfns) /\ Gone(chain', mined, ntfns)
       /\ Solid(chain', mined, ntfns, Anchors) /\ Ends(chain', mined, ntfns, Hashes(recent))
       /\ MinedOK(chain', made, mined) /\ RecentOK(chain', made, recent)
       /\ stamp # Unknown => Right(chain', made, stamp.height, stamp.hash)
       /\ NotFound => Right(chain', made, hs.bs.height, hs.bs.hash)
       /\ status = FullSync /\ ~MarkedAhead =>
            FilledTo(chain', mined, ntfns, Hashes(recent), 1)
       /\ Blocks(chain, mined, ntfns) => Blocks(chain', mined, ntfns)
  BY <1>2, <1>3, <1>5, ChainMoved
<1>14. /\ ntfns' \in Seq(Rec) /\ OneEnd(ntfns')
       /\ QueueOK(chain', made, ntfns') /\ Gone(chain', mined, ntfns')
       /\ Solid(chain', mined, ntfns', Anchors) /\ Ends(chain', mined, ntfns', Hashes(recent))
       /\ FilledTo(chain', mined, ntfns, Hashes(recent), 1) =>
            FilledTo(chain', mined, ntfns', Hashes(recent), 1)
  <2>1. OneEnd(ntfns)
    BY DEF Inv, Protocol
  <2>2. CASE conn
    BY <1>2, <1>3, <1>9, <1>10, <1>11, <1>12, <1>13, <2>1, <2>2, QueuedInv
  <2>3. CASE ~conn
    BY <1>2, <1>10, <1>13, <2>1, <2>3
  <2>. QED
    BY <2>2, <2>3
<1>15. scan' \in Pos \cup {Unknown} /\ (scan' = Unknown <=> scan = Unknown)
  BY <1>2, UnknownAssumption DEF DisconnectBlock, Inv, Types, Pos
<1>16. Types'
  BY <1>1, <1>3, <1>14, <1>15 DEF Inv, Types
<1>17. Places' /\ Result'
  BY <1>1, <1>13, <1>14 DEF Inv, Places, Result, NotFound
<1>18. Protocol'
  BY <1>1, <1>2, <1>9, <1>10, <1>14, <1>15, QueuedProtocol DEF Inv, Protocol
<1>19. Anchors' = Anchors
  BY <1>1 DEF Anchors, NotFound
<1>20. Filled' /\ AtEnd'
  BY <1>1, <1>13, <1>14 DEF Filled, MarkedAhead, AtEnd
<1>21. hs'.step \notin {"idle", "search"} => Stale(chain', mined', ntfns')
  <2>. SUFFICES ASSUME hs.step \notin {"idle", "search"} PROVE Stale(chain', mined, ntfns')
    BY <1>1
  <2>1. conn /\ Stale(chain, mined, ntfns)
    BY DEF Inv, Protocol
  <2>. QED
    BY <1>2, <1>9, <1>10, <1>11, <1>12, <2>1, QueuedStale
<1>22. Doomed => Doomed'
  BY <1>1, <1>2, <1>10, QueuedProtocol DEF Doomed
<1>23. AtBlock'
  <2>. SUFFICES ASSUME hs.step \in {"wait", "done"}, ~Doomed PROVE Blocks(chain', mined, ntfns')
    BY <1>1, <1>22 DEF AtBlock
  <2>1. conn /\ Blocks(chain', mined, ntfns)
    BY <1>13 DEF Inv, Protocol, AtBlock
  <2>. QED
    BY <1>2, <1>9, <1>10, <2>1, QueuedFilled
<1>24. Covered'
  <2>. SUFFICES ASSUME hs.step \notin {"idle", "search"}, ~Doomed,
                       NEW h \in StartHeight + 1 .. Len(chain'), Below(h)'
                PROVE  Has(chain', mined, ntfns', h, Len(ntfns') + 1)
    BY <1>1, <1>22 DEF Covered
  <2>0. h \in Nat /\ h \in 1 .. Len(chain')
    BY <1>2, <1>3, HeightAssumption
  <2>1. h \in StartHeight + 1 .. Len(chain) /\ chain'[h] = chain[h] /\ h \in Nat
    BY <1>2, <1>3, <2>0
  <2>2. Below(h)
    <3>1. hs.step = "wait" /\ scan # Unknown => h < scan
      <4>1. hs.step = "wait" /\ scan # Unknown => h < scan' /\ scan \in Nat
        BY <1>1, <1>15 DEF Below, Inv, Types, Pos
      <4>. QED
        BY <1>2, <2>1, <4>1 DEF DisconnectBlock
    <3>. QED
      BY <1>1, <3>1 DEF Below
  <2>3. Has(chain, mined, ntfns, h, Len(ntfns) + 1)
    BY <2>1, <2>2 DEF Inv, Covered
  <2>4. Has(chain', mined, ntfns, h, Len(ntfns) + 1)
    BY <2>1, <2>3 DEF Has
  <2>5. conn /\ Len(ntfns) + 1 \in 1 .. Len(ntfns) + 1 /\ Len(ntfns') + 1 = Len(ntfns) + 2
    BY <1>2, <1>10, Queued, QueueTypes DEF Inv, Protocol
  <2>. QED
    BY <1>2, <1>10, <2>4, <2>5, QueuedHas
<1>. QED
  BY <1>1, <1>4, <1>14, <1>16, <1>17, <1>18, <1>19, <1>20, <1>21, <1>23, <1>24 DEF Inv

LEMMA ConnectBlockInv == Inv /\ ConnectBlock => Inv'
<1>. SUFFICES ASSUME Inv, ConnectBlock PROVE Inv'
  OBVIOUS
<1>1. /\ stamp' = stamp /\ recent' = recent /\ conn' = conn /\ mined' = mined
      /\ tracked' = tracked /\ status' = status /\ hs' = hs /\ scan' = scan
  BY DEF ConnectBlock, walletVars
<1>2. /\ chain \in Seq(Nat) /\ made \in Nat /\ mined \in SUBSET (Nat \X Nat)
      /\ ntfns \in Seq(Rec) /\ Len(chain) \in Nat /\ made' = made + 1 /\ made' \in Nat
      /\ made <= made' /\ Len(ntfns) \in Nat
  BY DEF Inv, Types, ConnectBlock
<1>3. /\ chain' \in Seq(Nat) /\ Len(chain') = Len(chain) + 1
      /\ \A k \in 1 .. Len(chain) : k \in 1 .. Len(chain') /\ chain'[k] = chain[k]
      /\ \A k \in 1 .. Len(chain') : k \in 1 .. Len(chain) \/ k = Len(chain) + 1
      /\ chain'[Len(chain) + 1] = made + 1 /\ Len(chain) + 1 \in 1 .. Len(chain')
  BY <1>2 DEF ConnectBlock
<1>4. ChainOK(chain', made')
  <2>1. ChainOK(chain, made)
    BY DEF Inv
  <2>2. ASSUME NEW h \in 1 .. Len(chain')
        PROVE  chain'[h] <= made'
    <3>1. CASE h \in 1 .. Len(chain)
      <4>1. chain'[h] = chain[h] /\ chain[h] \in Nat /\ chain[h] <= made
        BY <1>2, <1>3, <2>1, <3>1 DEF ChainOK
      <4>. QED
        BY <1>2, <4>1
    <3>2. CASE h = Len(chain) + 1
      BY <1>2, <1>3, <3>2
    <3>. QED
      BY <1>3, <3>1, <3>2
  <2>3. ASSUME NEW h \in 1 .. Len(chain'), NEW k \in 1 .. Len(chain'), h < k
        PROVE  chain'[h] < chain'[k]
    <3>1. h \in 1 .. Len(chain) /\ chain[h] \in Nat /\ chain[h] <= made
      BY <1>2, <1>3, <2>1, <2>3 DEF ChainOK
    <3>2. CASE k \in 1 .. Len(chain)
      BY <1>3, <2>1, <2>3, <3>1, <3>2 DEF ChainOK
    <3>3. CASE k = Len(chain) + 1
      BY <1>2, <1>3, <3>1, <3>3
    <3>. QED
      BY <1>3, <3>2, <3>3
  <2>. QED
    BY <1>2, <1>3, <2>2, <2>3 DEF ChainOK
<1>5. Sub(chain, chain', made)
  <2>. SUFFICES ASSUME NEW k \in 1 .. Len(chain'), chain'[k] <= made
                PROVE  k <= Len(chain) /\ \A h \in 1 .. k : chain'[h] = chain[h]
    BY DEF Sub
  <2>1. k \in 1 .. Len(chain)
    BY <1>2, <1>3
  <2>. QED
    BY <1>2, <1>3, <2>1
<1>6. \A b : On(chain, b) => On(chain', b)
  BY <1>3 DEF On
<1>7. /\ On(chain', made + 1) /\ Right(chain', made', Len(chain) + 1, made + 1)
      /\ \A k \in 1 .. Len(chain') : chain'[k] = made + 1 => k = Len(chain) + 1
  <2>1. made' \in Nat /\ chain' \in Seq(Nat) /\ ChainOK(chain', made')
    BY <1>2, <1>3, <1>4
  <2>2. PICK c \in Seq(Nat), top \in Nat : c = chain' /\ top = made'
    BY <2>1
  <2>3. /\ On(c, c[Len(chain) + 1])
        /\ Right(c, top, Len(chain) + 1, c[Len(chain) + 1])
    BY <1>3, <2>1, <2>2, OnRight
  <2>. QED
    BY <1>3, <2>2, <2>3 DEF Right
<1>8. PICK t \in Rec, e \in Rec : /\ t = Ntfn("tx", Len(chain) + 1, made + 1)
                                  /\ e = Ntfn("connected", Len(chain) + 1, made + 1)
  <2>1. made + 1 \in Nat /\ Len(chain) + 1 \in Pos
    BY <1>2 DEF Pos
  <2>2. /\ Ntfn("tx", Len(chain) + 1, made + 1) \in Rec
        /\ Ntfn("connected", Len(chain) + 1, made + 1) \in Rec
    BY <2>1 DEF Rec, Ntfn
  <2>. QED
    BY <2>2
<1>9. /\ t.kind = "tx" /\ t.height = Len(chain) + 1 /\ t.hash = made + 1
      /\ e.kind = "connected" /\ e.height = Len(chain) + 1 /\ e.hash = made + 1
  BY <1>8 DEF Ntfn
<1>10. PICK q \in Seq(Rec) : q = IF tracked THEN Append(ntfns, t) ELSE ntfns
  BY <1>2, Queued
<1>11. tracked => conn
  BY DEF Inv, Protocol
<1>12. ntfns' = IF conn THEN Append(q, e) ELSE q
  <2>1. ~conn => ntfns' = ntfns \o <<>> /\ q = ntfns
    BY <1>10, <1>11 DEF ConnectBlock, Notify
  <2>2. conn /\ tracked => ntfns' = ntfns \o Append(<<t>>, e)
    BY <1>8 DEF ConnectBlock, Notify
  <2>3. conn /\ ~tracked => ntfns' = ntfns \o Append(<<>>, e)
    BY <1>8 DEF ConnectBlock, Notify
  <2>4. /\ ntfns \o <<>> = ntfns
        /\ ntfns \o Append(<<>>, e) = Append(ntfns, e)
    BY <1>2
  <2>5. ntfns \o Append(<<t>>, e) = Append(Append(ntfns, t), e)
    BY <1>2
  <2>. QED
    BY <1>10, <2>1, <2>2, <2>3, <2>4, <2>5
<1>13. /\ QueueOK(chain', made', ntfns) /\ Gone(chain', mined, ntfns)
       /\ Solid(chain', mined, ntfns, Anchors) /\ Ends(chain', mined, ntfns, Hashes(recent))
       /\ MinedOK(chain', made', mined) /\ RecentOK(chain', made', recent)
       /\ stamp # Unknown => Right(chain', made', stamp.height, stamp.hash)
       /\ NotFound => Right(chain', made', hs.bs.height, hs.bs.hash)
       /\ status = FullSync /\ ~MarkedAhead =>
            FilledTo(chain', mined, ntfns, Hashes(recent), 1)
       /\ Blocks(chain, mined, ntfns) => Blocks(chain', mined, ntfns)
  BY <1>2, <1>3, <1>5, ChainMoved
<1>14. /\ OneEnd(q) /\ QueueOK(chain', made', q) /\ Gone(chain', mined, q)
       /\ Solid(chain', mined, q, Anchors) /\ Ends(chain', mined, q, Hashes(recent))
       /\ FilledTo(chain', mined, ntfns, Hashes(recent), 1) =>
            FilledTo(chain', mined, q, Hashes(recent), 1)
  <2>1. OneEnd(ntfns)
    BY DEF Inv, Protocol
  <2>2. CASE tracked
    BY <1>2, <1>3, <1>7, <1>9, <1>10, <1>13, <2>1, <2>2, QueuedInv
  <2>3. CASE ~tracked
    BY <1>10, <1>13, <2>1, <2>3
  <2>. QED
    BY <2>2, <2>3
<1>15. /\ ntfns' \in Seq(Rec) /\ OneEnd(ntfns')
       /\ QueueOK(chain', made', ntfns') /\ Gone(chain', mined, ntfns')
       /\ Solid(chain', mined, ntfns', Anchors) /\ Ends(chain', mined, ntfns', Hashes(recent))
       /\ FilledTo(chain', mined, ntfns, Hashes(recent), 1) =>
            FilledTo(chain', mined, ntfns', Hashes(recent), 1)
  <2>1. CASE conn
    BY <1>2, <1>3, <1>7, <1>9, <1>12, <1>14, <2>1, QueuedInv
  <2>2. CASE ~conn
    BY <1>12, <1>14, <2>2
  <2>. QED
    BY <2>1, <2>2
<1>16. Types'
  BY <1>1, <1>2, <1>3, <1>15 DEF Inv, Types
<1>17. Places' /\ Result'
  BY <1>1, <1>13, <1>15 DEF Inv, Places, Result, NotFound
<1>18. \A K : Without(ntfns, K) /\ (tracked => "tx" \notin K) /\ "connected" \notin K
                => Without(ntfns', K)
  <2>1. \A K : Without(ntfns, K) /\ (tracked => "tx" \notin K) => Without(q, K)
    BY <1>2, <1>9, <1>10, QueuedProtocol
  <2>2. \A K : Without(q, K) /\ "connected" \notin K => Without(ntfns', K)
    BY <1>9, <1>12, QueuedProtocol
  <2>. QED
    BY <2>1, <2>2
<1>19. Protocol'
  BY <1>1, <1>15, <1>18 DEF Inv, Protocol
<1>20. Anchors' = Anchors
  BY <1>1 DEF Anchors, NotFound
<1>21. Filled' /\ AtEnd'
  BY <1>1, <1>13, <1>15 DEF Filled, MarkedAhead, AtEnd
<1>22. hs'.step \notin {"idle", "search"} => Stale(chain', mined', ntfns')
  <2>. SUFFICES ASSUME hs.step \notin {"idle", "search"} PROVE Stale(chain', mined, ntfns')
    BY <1>1
  <2>1. conn /\ Stale(chain, mined, ntfns)
    BY DEF Inv, Protocol
  <2>2. Stale(chain', mined, ntfns)
    BY <1>6, <2>1 DEF Stale
  <2>3. Stale(chain', mined, q)
    BY <1>2, <1>7, <1>9, <1>10, <2>2, QueuedStale
  <2>. QED
    BY <1>2, <1>9, <1>12, <2>1, <2>3, QueuedStale
<1>23. /\ Doom(ntfns) => Doom(ntfns')
       /\ Without(ntfns, {"finished"}) /\ conn => Doom(ntfns')
  <2>1. Doom(ntfns) => Doom(q)
    BY <1>2, <1>10, QueuedProtocol
  <2>2. Without(ntfns, {"finished"}) => Without(q, {"finished"})
    BY <1>2, <1>9, <1>10, QueuedProtocol
  <2>. QED
    BY <1>9, <1>12, <2>1, <2>2, QueuedProtocol
(* If no block is handled too early, the store has all the chain.          *)
<1>24. ASSUME hs.step \notin {"idle", "search"}, ~Doomed'
       PROVE  /\ hs.step \in {"wait", "done"} /\ tracked /\ conn /\ ~Doomed
              /\ \A h \in StartHeight + 1 .. Len(chain') : Has(chain', mined, q, h, Len(q) + 1)
  <2>1. conn
    BY <1>24 DEF Inv, Protocol
  <2>2. hs.step = "done" \/ ~Without(ntfns, {"finished"})
    BY <1>1, <1>23, <1>24, <2>1 DEF Doomed
  <2>3. Without(ntfns, {"progress", "finished"}) => Without(ntfns, {"finished"})
    BY DEF Without
  <2>4. hs.step \in {"wait", "done"} /\ tracked /\ scan = Unknown
    BY <1>24, <2>2, <2>3 DEF Inv, Types, Shakes, Steps, Protocol
  <2>5. ~Doomed
    BY <1>1, <1>23, <1>24 DEF Doomed
  <2>6. \A h \in StartHeight + 1 .. Len(chain) : Has(chain, mined, ntfns, h, Len(ntfns) + 1)
    BY <2>4, <2>5 DEF Inv, Covered, Below
  <2>7. q = Append(ntfns, t) /\ Len(q) + 1 = Len(ntfns) + 2
    BY <1>2, <1>10, <2>4, Queued
  <2>8. ASSUME NEW h \in StartHeight + 1 .. Len(chain')
        PROVE  Has(chain', mined, q, h, Len(q) + 1)
    <3>1. h \in 1 .. Len(chain')
      BY <1>2, <1>3, HeightAssumption
    <3>2. Len(ntfns) + 1 \in 1 .. Len(ntfns) + 1
      BY <1>2
    <3>3. CASE h \in 1 .. Len(chain)
      <4>1. h \in StartHeight + 1 .. Len(chain) /\ chain'[h] = chain[h]
        BY <1>2, <1>3, <3>3, HeightAssumption
      <4>2. Has(chain', mined, ntfns, h, Len(ntfns) + 1)
        BY <2>6, <4>1 DEF Has
      <4>. QED
        BY <1>2, <2>7, <3>2, <4>2, QueuedHas
    <3>4. CASE h = Len(chain) + 1
      BY <1>2, <1>3, <1>9, <2>7, <3>2, <3>4, QueuedHas
    <3>. QED
      BY <1>3, <3>1, <3>3, <3>4
  <2>. QED
    BY <2>1, <2>4, <2>5, <2>8
<1>25. Covered'
  <2>. SUFFICES ASSUME hs.step \notin {"idle", "search"}, ~Doomed',
                       NEW h \in StartHeight + 1 .. Len(chain')
                PROVE  Has(chain', mined, ntfns', h, Len(ntfns') + 1)
    BY <1>1 DEF Covered
  <2>1. /\ Len(ntfns') + 1 = Len(q) + 2 /\ Len(q) + 1 \in 1 .. Len(q) + 1
        /\ ntfns' = Append(q, e)
    BY <1>12, <1>24, Queued, QueueTypes
  <2>. QED
    BY <1>24, <2>1, QueuedHas
<1>26. AtBlock'
  <2>. SUFFICES ASSUME hs.step \in {"wait", "done"}, ~Doomed' PROVE Blocks(chain', mined, ntfns')
    BY <1>1 DEF AtBlock
  <2>1. Blocks(chain', mined, ntfns)
    BY <1>13, <1>24 DEF Inv, AtBlock
  <2>2. Blocks(chain', mined, q)
    BY <1>2, <1>9, <1>10, <2>1, QueuedFilled
  <2>3. \A k \in 1 .. Len(chain') : chain'[k] = e.hash => HasAll(chain', mined, q, k, Len(q) + 1)
    BY <1>3, <1>7, <1>9, <1>24 DEF HasAll
  <2>4. ntfns' = Append(q, e)
    BY <1>12, <1>24
  <2>. QED
    BY <2>2, <2>3, <2>4, QueuedFilled
<1>. QED
  BY <1>1, <1>4, <1>15, <1>16, <1>17, <1>19, <1>20, <1>21, <1>22, <1>25, <1>26 DEF Inv
-----------------------------------------------------------------------------
(* The recent blocks.                                                      *)
LEMMA RecentTypes ==
  ASSUME NEW r \in Recents
  PROVE  /\ r.lastHeight \in Nat /\ r.lastHeight # 0 /\ r.hashes \in Seq(Nat)
         /\ Len(r.hashes) \in Nat /\ \A i \in 1 .. Len(r.hashes) : r.hashes[i] \in Nat
BY DEF Recents, Pos

LEMMA SyncedWith ==
  ASSUME NEW c \in Seq(Nat), NEW top \in Nat, NEW r \in Recents, NEW bs \in Stamps,
         RecentOK(c, top, r), bs.hash <= top,
         \A k \in 1 .. Len(c) : c[k] = bs.hash => k <= bs.height
  PROVE  /\ SetSyncedWith(r, bs) \in Recents
         /\ SetSyncedWith(r, bs).lastHeight = bs.height
         /\ RecentOK(c, top, SetSyncedWith(r, bs))
         /\ Hashes(SetSyncedWith(r, bs)) \subseteq Hashes(r) \cup {bs.hash}
<1>1. /\ r.lastHeight \in Nat /\ r.hashes \in Seq(Nat) /\ Len(r.hashes) \in Nat
      /\ bs.height \in Nat /\ bs.height \in Pos /\ bs.hash \in Nat
  BY RecentTypes DEF Stamps, Pos
<1>0. PICK l \in Nat, z \in Nat, g \in Nat :
             l = r.lastHeight /\ z = Len(r.hashes) /\ g = bs.height
  BY <1>1
<1>2. PICK n \in Int : n = z - (l - g)
  OBVIOUS
<1>3. CASE bs.height < r.lastHeight /\ n >= 1 /\ r.hashes[n] = bs.hash
  <2>1a. g < l /\ n >= 1
    BY <1>0, <1>3
  <2>0. n - 1 \in 0 .. z /\ n \in Nat
    BY <1>2, <2>1a
  <2>1. PICK s : s = SubSeq(r.hashes, 1, n - 1)
    OBVIOUS
  <2>2. /\ s \in Seq(Nat) /\ Len(s) = n - 1
        /\ \A i \in 1 .. n - 1 : i \in 1 .. Len(r.hashes) /\ s[i] = r.hashes[i]
    BY <1>0, <1>1, <2>0, <2>1, CutOff
  <2>3. SetSyncedWith(r, bs) = [lastHeight |-> bs.height, hashes |-> s]
    BY <1>0, <1>2, <1>3, <2>1 DEF SetSyncedWith
  <2>4. SetSyncedWith(r, bs) \in Recents /\ SetSyncedWith(r, bs).lastHeight = bs.height
    BY <1>1, <2>2, <2>3 DEF Recents
  <2>5. \A i \in 1 .. n - 1 : Label(SetSyncedWith(r, bs), i) = Label(r, i) + 1
    <3>1. SetSyncedWith(r, bs).lastHeight = bs.height /\ SetSyncedWith(r, bs).hashes = s
      BY <2>3
    <3>2. \A i \in 1 .. n - 1 : g - ((n - 1) - i) = (l - (z - i)) + 1
      BY <1>2
    <3>3. \A i : Label(SetSyncedWith(r, bs), i) = g - ((n - 1) - i) /\ Label(r, i) = l - (z - i)
      BY <1>0, <2>2, <3>1 DEF Label
    <3>. QED
      BY <3>2, <3>3
  <2>6. RecentOK(c, top, SetSyncedWith(r, bs))
    <3>. SUFFICES ASSUME NEW i \in 1 .. n - 1
                  PROVE  /\ s[i] <= top
                         /\ \A k \in 1 .. Len(c) : c[k] = s[i] => k <= Label(r, i) + 1
      BY <2>2, <2>3, <2>5 DEF RecentOK
    <3>1. i \in 1 .. Len(r.hashes) /\ s[i] = r.hashes[i]
      BY <2>2
    <3>2. /\ s[i] <= top
          /\ \A k \in 1 .. Len(c) : c[k] = s[i] => k <= Label(r, i)
      BY <3>1 DEF RecentOK
    <3>. QED
      BY <1>1, <3>2 DEF Label
  <2>7. Hashes(SetSyncedWith(r, bs)) \subseteq Hashes(r)
    <3>1. SetSyncedWith(r, bs).hashes = s
      BY <2>3
    <3>. QED
      BY <2>2, <3>1 DEF Hashes
  <2>. QED
    BY <2>4, <2>6, <2>7
<1>4. CASE ~(bs.height < r.lastHeight /\ n >= 1 /\ r.hashes[n] = bs.hash)
  <2>1. PICK s : s = (IF Len(IF bs.height # r.lastHeight + 1 THEN <<>> ELSE r.hashes) = MaxRecent
                      THEN Tail(IF bs.height # r.lastHeight + 1 THEN <<>> ELSE r.hashes)
                      ELSE IF bs.height # r.lastHeight + 1 THEN <<>> ELSE r.hashes)
    OBVIOUS
  <2>2. SetSyncedWith(r, bs) = [lastHeight |-> bs.height, hashes |-> Append(s, bs.hash)]
    BY <1>0, <1>2, <1>4, <2>1 DEF SetSyncedWith
  <2>3. /\ s \in Seq(Nat)
        /\ \/ Len(s) = 0
           \/ bs.height = r.lastHeight + 1 /\ s = r.hashes
           \/ bs.height = r.lastHeight + 1 /\ r.hashes # <<>> /\ s = Tail(r.hashes)
    <3>1. CASE bs.height # r.lastHeight + 1
      BY <2>1, <3>1, RecentAssumption
    <3>2. CASE bs.height = r.lastHeight + 1
      <4>1. MaxRecent # 0 /\ (r.hashes # <<>> \/ Len(r.hashes) = 0)
        BY RecentAssumption
      <4>2. r.hashes # <<>> => Tail(r.hashes) \in Seq(Nat)
        BY <1>1
      <4>. QED
        BY <1>1, <2>1, <3>2, <4>1, <4>2
    <3>. QED
      BY <3>1, <3>2
  <2>4. /\ Append(s, bs.hash) \in Seq(Nat) /\ Len(Append(s, bs.hash)) = Len(s) + 1
        /\ \A i \in 1 .. Len(s) : Append(s, bs.hash)[i] = s[i]
        /\ Append(s, bs.hash)[Len(s) + 1] = bs.hash /\ Len(s) \in Nat
    BY <1>1, <2>3
  <2>5. SetSyncedWith(r, bs) \in Recents /\ SetSyncedWith(r, bs).lastHeight = bs.height
    BY <1>1, <2>2, <2>4 DEF Recents
  <2>6. ASSUME NEW i \in 1 .. Len(s)
        PROVE  \E j \in 1 .. Len(r.hashes) :
                 /\ s[i] = r.hashes[j] /\ bs.height - ((Len(s) + 1) - i) = Label(r, j)
    <3>1. CASE bs.height = r.lastHeight + 1 /\ s = r.hashes
      <4>1. bs.height - ((Len(s) + 1) - i) = (l + 1) - ((z + 1) - i) /\ Label(r, i) = l - (z - i)
        BY <1>0, <3>1 DEF Label
      <4>2. i \in 1 .. z
        BY <1>0, <3>1
      <4>3. (l + 1) - ((z + 1) - i) = l - (z - i)
        BY <4>2
      <4>. QED
        BY <3>1, <4>1, <4>2, <4>3
    <3>2. CASE bs.height = r.lastHeight + 1 /\ r.hashes # <<>> /\ s = Tail(r.hashes)
      <4>1. /\ Len(s) = z - 1
            /\ \A j \in 1 .. z - 1 : j + 1 \in 1 .. z /\ s[j] = r.hashes[j + 1]
        BY <1>0, <1>1, <3>2, TailOf
      <4>2. Len(s) = z - 1 /\ i \in 1 .. z - 1 /\ i + 1 \in 1 .. z /\ s[i] = r.hashes[i + 1]
        BY <4>1
      <4>3. /\ bs.height - ((Len(s) + 1) - i) = (l + 1) - (((z - 1) + 1) - i)
            /\ Label(r, i + 1) = l - (z - (i + 1))
        BY <1>0, <3>2, <4>2 DEF Label
      <4>4. (l + 1) - (((z - 1) + 1) - i) = l - (z - (i + 1))
        BY <4>2
      <4>. QED
        BY <1>0, <4>2, <4>3, <4>4
    <3>3. Len(s) # 0
      BY <2>4
    <3>. QED
      BY <2>3, <3>1, <3>2, <3>3
  <2>7. ASSUME NEW i \in 1 .. Len(s) + 1
        PROVE  /\ Append(s, bs.hash)[i] <= top
               /\ \A k \in 1 .. Len(c) : c[k] = Append(s, bs.hash)[i] =>
                                           k <= bs.height - ((Len(s) + 1) - i)
    <3>1. CASE i \in 1 .. Len(s)
      <4>1. PICK j \in 1 .. Len(r.hashes) :
                   s[i] = r.hashes[j] /\ bs.height - ((Len(s) + 1) - i) = Label(r, j)
        BY <2>6, <3>1
      <4>. QED
        BY <2>4, <3>1, <4>1 DEF RecentOK
    <3>2. CASE i = Len(s) + 1
      BY <1>1, <2>4, <3>2
    <3>. QED
      BY <2>4, <3>1, <3>2
  <2>8. RecentOK(c, top, SetSyncedWith(r, bs))
    <3>1. /\ SetSyncedWith(r, bs).lastHeight = bs.height
          /\ SetSyncedWith(r, bs).hashes = Append(s, bs.hash)
      BY <2>2
    <3>. QED
      BY <2>4, <2>7, <3>1 DEF RecentOK, Label
  <2>9. Hashes(SetSyncedWith(r, bs)) \subseteq Hashes(r) \cup {bs.hash}
    <3>. SUFFICES ASSUME NEW i \in 1 .. Len(s) + 1
                  PROVE  Append(s, bs.hash)[i] \in Hashes(r) \cup {bs.hash}
      <4>1. SetSyncedWith(r, bs).hashes = Append(s, bs.hash)
        BY <2>2
      <4>. QED
        BY <2>4, <4>1 DEF Hashes
    <3>1. CASE i \in 1 .. Len(s)
      <4>1. Append(s, bs.hash)[i] = s[i]
        BY <2>4, <3>1
      <4>2. PICK j \in 1 .. Len(r.hashes) : s[i] = r.hashes[j]
        BY <2>6, <3>1
      <4>. QED
        BY <4>1, <4>2 DEF Hashes
    <3>. QED
      BY <2>4, <3>1
  <2>. QED
    BY <2>5, <2>8, <2>9
<1>. QED
  BY <1>3, <1>4

LEMMA HandleConnectedInv == Inv /\ HandleConnected /\ Followed' => Inv'
<1>. SUFFICES ASSUME Inv, HandleConnected, Followed' PROVE Inv'
  OBVIOUS
<1>1. /\ ntfns # <<>> /\ ntfns' = Tail(ntfns) /\ ntfns \in Seq(Rec) /\ mined \subseteq Nat \X Nat
      /\ chain' = chain /\ made' = made /\ status' = status
      /\ hs' = hs /\ mined' = mined /\ conn' = conn /\ tracked' = tracked /\ scan' = scan
      /\ chain \in Seq(Nat) /\ made \in Nat /\ recent \in Recents
  BY DEF HandleConnected, Handle, Inv, Types, serverVars
<1>2. /\ Head(ntfns) = ntfns[1] /\ 1 \in 1 .. Len(ntfns) /\ Con(ntfns, 1)
      /\ ~Tx(ntfns, 1) /\ ~Dis(ntfns, 1) /\ ntfns' \in Seq(Rec)
      /\ ntfns[1].height \in Nat /\ ntfns[1].hash \in Nat /\ ntfns[1].height \in Pos
      /\ Len(ntfns') + 1 = Len(ntfns) /\ Len(ntfns) \in 1 .. Len(ntfns)
  BY <1>1, Dequeued, QueueTypes DEF HandleConnected, Handle, Tx, Con, Dis
<1>3. hs.step = "done" /\ status = FullSync /\ ~MarkedAhead
  BY DEF HandleConnected, Races, InHandshake, Followed, Inv, Protocol, MarkedAhead
<1>4. PICK bs \in Stamps : bs = Stamp(ntfns[1].height, ntfns[1].hash)
  BY <1>2 DEF Stamps, Stamp
<1>5. /\ bs.height = ntfns[1].height /\ bs.hash = ntfns[1].hash
      /\ stamp' = bs /\ recent' = SetSyncedWith(recent, bs)
  BY <1>2, <1>4 DEF HandleConnected, Stamp
<1>6. Right(chain, made, bs.height, bs.hash)
  BY <1>2, <1>5 DEF Inv, Places, QueueOK
<1>7. /\ recent' \in Recents /\ RecentOK(chain, made, recent')
      /\ Hashes(recent') \subseteq Hashes(recent) \cup {bs.hash}
  <2>1. /\ RecentOK(chain, made, recent) /\ bs.hash <= made
        /\ \A k \in 1 .. Len(chain) : chain[k] = bs.hash => k <= bs.height
    BY <1>1, <1>2, <1>5, <1>6 DEF Inv, Places, Right
  <2>. QED
    BY <1>1, <1>5, <2>1, SyncedWith
<1>8. Handles(chain, mined, mined', ntfns)
  BY <1>1, <1>2 DEF Handles
<1>9. Types'
  BY <1>1, <1>2, <1>5, <1>7 DEF Inv, Types
<1>10. Places'
  BY <1>1, <1>5, <1>6, <1>7, HandledProtocol DEF Inv, Places
<1>11. Result' /\ Protocol'
  BY <1>1, <1>3, HandledProtocol DEF Inv, Result, NotFound, Protocol
<1>12. Gone(chain', mined', ntfns') /\ Stale(chain', mined', ntfns')
  BY <1>1, <1>3, <1>8, HandledGone, HandledStale DEF Inv
<1>13. ASSUME NEW k \in 1 .. Len(chain), chain[k] = bs.hash, NEW h \in Nat, h <= k,
              NEW i \in 0 .. Len(ntfns), Leaves(ntfns, h, i)
       PROVE  FALSE
  <2>1. PICK j \in i + 1 .. Len(ntfns) : Dis(ntfns, j) /\ ntfns[j].height <= h
    BY <1>13 DEF Leaves
  <2>2. j \in 1 .. Len(ntfns) /\ j # 1 /\ 1 \in 1 .. j - 1 /\ ntfns[j].height \in Nat
    BY <1>1, <1>2, <2>1, QueueTypes
  <2>3. k = ntfns[1].height
    BY <1>5, <1>6, <1>13 DEF Right
  <2>4. ntfns[1].height >= ntfns[j].height
    BY <1>13, <2>1, <2>2, <2>3
  <2>5. ~On(chain, ntfns[1].hash)
    BY <1>2, <2>1, <2>2, <2>4 DEF Inv, Gone
  <2>. QED
    BY <1>5, <1>13, <2>5 DEF On
<1>14. Solid(chain, mined, ntfns, {bs.hash})
  <2>. SUFFICES ASSUME NEW k \in 1 .. Len(chain), chain[k] = bs.hash
                PROVE  /\ \A p \in mined : p[1] <= k => On(chain, p[2])
                       /\ \A i \in 1 .. Len(ntfns) :
                            Tx(ntfns, i) /\ ntfns[i].height <= k => On(chain, ntfns[i].hash)
    BY DEF Solid
  <2>1. Stale(chain, mined, ntfns)
    BY <1>3 DEF Inv
  <2>2. ASSUME NEW p \in mined, p[1] <= k
        PROVE  On(chain, p[2])
    <3>1. p[1] \in Nat /\ 0 \in 0 .. Len(ntfns)
      BY <1>1, <1>2
    <3>. QED
      BY <1>13, <2>1, <2>2, <3>1 DEF Stale
  <2>3. ASSUME NEW i \in 1 .. Len(ntfns), Tx(ntfns, i), ntfns[i].height <= k
        PROVE  On(chain, ntfns[i].hash)
    <3>1. ntfns[i].height \in Nat /\ i \in 0 .. Len(ntfns)
      BY <1>1, QueueTypes
    <3>. QED
      BY <1>13, <2>1, <2>3, <3>1 DEF Stale
  <2>. QED
    BY <2>2, <2>3
<1>15. Solid(chain', mined', ntfns', Anchors')
  <2>1. Anchors' \subseteq Anchors \cup {bs.hash}
    BY <1>1, <1>3, <1>7 DEF Anchors, NotFound
  <2>2. Solid(chain, mined, ntfns, Anchors')
    BY <1>14, <2>1 DEF Inv, Solid
  <2>. QED
    BY <1>1, <1>8, <2>2, HandledSolid
<1>16. Filled'
  <2>1. ~Doomed /\ Blocks(chain, mined, ntfns)
    BY <1>3 DEF Inv, AtBlock, Doomed
  <2>2. FilledTo(chain, mined, ntfns, {bs.hash}, 1)
    BY <1>2, <1>5, <2>1 DEF Blocks, FilledTo
  <2>3. FilledTo(chain, mined, ntfns, Hashes(recent), 1)
    BY <1>3 DEF Inv, Filled
  <2>4. FilledTo(chain, mined, ntfns, Hashes(recent'), 1)
    BY <1>7, <2>2, <2>3 DEF FilledTo
  <2>5. FilledTo(chain, mined, ntfns, Hashes(recent'), 1 + 1)
    BY <2>4 DEF FilledTo, HasAll, Has
  <2>6. FilledTo(chain', mined', ntfns', Hashes(recent'), 1)
    BY <1>1, <1>2, <1>8, <2>5, HandledFilled
  <2>. QED
    BY <2>6 DEF Filled
<1>17. Covered'
  <2>1. \A h \in StartHeight + 1 .. Len(chain) : h \in 1 .. Len(chain)
    BY <1>1, HeightAssumption
  <2>2. \A h \in StartHeight + 1 .. Len(chain) : Has(chain, mined, ntfns, h, Len(ntfns) + 1)
    BY <1>3 DEF Inv, Covered, Doomed, Below
  <2>3. \A h \in StartHeight + 1 .. Len(chain) : Has(chain', mined', ntfns', h, Len(ntfns))
    BY <1>1, <1>2, <1>8, <2>1, <2>2, HandledHas
  <2>. QED
    BY <1>1, <1>2, <2>3 DEF Covered
<1>18. AtBlock'
  <2>1. Blocks(chain, mined, ntfns)
    BY <1>3 DEF Inv, AtBlock, Doomed
  <2>. QED
    BY <1>1, <1>8, <2>1, HandledFilled DEF AtBlock
<1>19. AtEnd'
  BY <1>11, <1>1, <1>3 DEF AtEnd, Ends, Protocol, Without, Fin
<1>. QED
  BY <1>1, <1>9, <1>10, <1>11, <1>12, <1>15, <1>16, <1>17, <1>18, <1>19 DEF Inv
-----------------------------------------------------------------------------
(* The handshake.                                                          *)
LEMMA SyncWithFoundInv == Inv /\ SyncWithFound => Inv'
<1>. SUFFICES ASSUME Inv, SyncWithFound PROVE Inv'
  OBVIOUS
<1>1. /\ chain' = chain /\ made' = made /\ stamp' = stamp /\ mined' = mined
      /\ conn' = conn /\ tracked' = tracked /\ scan' = scan
      /\ status' = status /\ ntfns' = ntfns /\ recent' = SetSyncedWith(recent, hs.bs)
      /\ chain \in Seq(Nat) /\ made \in Nat /\ recent \in Recents
  BY DEF SyncWithFound, serverVars, Inv, Types
<1>2. /\ hs.step = "sync" /\ hs'.step = "track" /\ hs' \in Shakes
      /\ hs'.bs = hs.bs /\ hs'.found = hs.found
  BY DEF SyncWithFound, Step, Inv, Types, Shakes, Steps
<1>3. PICK i \in 1 .. Len(recent.hashes) :
              hs.bs = Stamp(Label(recent, i), recent.hashes[i])
  BY <1>2 DEF Inv, Result
<1>4. /\ hs.found /\ hs.bs \in Stamps /\ hs.bs.height = Label(recent, i)
      /\ hs.bs.hash = recent.hashes[i]
  BY <1>2, <1>3 DEF Inv, Result, Stamp
<1>5. RecentOK(chain, made, recent)
  BY DEF Inv, Places
<1>6. /\ recent' \in Recents /\ RecentOK(chain, made, recent')
      /\ recent'.lastHeight = hs.bs.height /\ Hashes(recent') \subseteq Hashes(recent)
  <2>1. hs.bs.hash <= made /\ \A k \in 1 .. Len(chain) : chain[k] = hs.bs.hash => k <= hs.bs.height
    BY <1>4, <1>5 DEF RecentOK
  <2>2. hs.bs.hash \in Hashes(recent)
    BY <1>4 DEF Hashes
  <2>3. PICK bs \in Stamps : bs = hs.bs
    BY <1>4
  <2>4. /\ SetSyncedWith(recent, bs) \in Recents
        /\ SetSyncedWith(recent, bs).lastHeight = bs.height
        /\ RecentOK(chain, made, SetSyncedWith(recent, bs))
        /\ Hashes(SetSyncedWith(recent, bs)) \subseteq Hashes(recent) \cup {bs.hash}
    BY <1>1, <1>5, <2>1, <2>3, SyncedWith
  <2>. QED
    BY <1>1, <2>2, <2>3, <2>4
<1>7. Types'
  BY <1>1, <1>2, <1>6 DEF Inv, Types
<1>8. Places' /\ Result'
  BY <1>1, <1>2, <1>4, <1>6 DEF Inv, Places, Result, NotFound
<1>9. Protocol'
  BY <1>1, <1>2 DEF Inv, Protocol
<1>10. Solid(chain', mined', ntfns', Anchors')
  <2>1. Anchors' \subseteq Anchors
    BY <1>2, <1>4, <1>6 DEF Anchors, NotFound
  <2>. QED
    BY <1>1, <2>1 DEF Inv, Solid
<1>11. Filled' /\ AtBlock' /\ AtEnd'
  <2>1. Filled'
    BY <1>1, <1>2, <1>6 DEF Inv, Filled, FilledTo, MarkedAhead
  <2>2. AtBlock'
    BY <1>2 DEF AtBlock
  <2>3. AtEnd'
    BY <1>1, <1>2 DEF Inv, Protocol, Without, AtEnd, Ends, Fin
  <2>. QED
    BY <2>1, <2>2, <2>3
<1>12. Covered'
  <2>1. SyncHeight(recent', status) = Start(recent, hs.bs.height, status)
    BY <1>1, <1>6 DEF Start, SyncHeight, Recents
  <2>. QED
    BY <1>1, <1>2, <2>1 DEF Inv, Covered, Below, Doomed
<1>. QED
  BY <1>1, <1>2, <1>7, <1>8, <1>9, <1>10, <1>11, <1>12 DEF Inv

LEMMA RescanActiveAddressesInv == Inv /\ RescanActiveAddresses => Inv'
<1>. SUFFICES ASSUME Inv, RescanActiveAddresses PROVE Inv'
  OBVIOUS
<1>1. /\ chain' = chain /\ made' = made /\ stamp' = stamp /\ mined' = mined
      /\ conn' = conn /\ tracked' = tracked /\ status' = status /\ ntfns' = ntfns
      /\ scan' = SyncHeight(recent, status)
      /\ chain \in Seq(Nat) /\ made \in Nat /\ recent \in Recents
  BY DEF RescanActiveAddresses, Inv, Types
<1>2. /\ hs.step = "rescan" /\ hs'.step = "wait" /\ hs' \in Shakes
      /\ hs'.bs = hs.bs /\ hs'.found = hs.found
  BY DEF RescanActiveAddresses, Step, Inv, Types, Shakes, Steps
<1>3. SyncHeight(recent, status) \in Pos /\ scan' # Unknown
  <2>1. SyncHeight(recent, status) \in Pos
    BY HeightAssumption DEF SyncHeight, Inv, Types, Recents, Pos
  <2>. QED
    BY <1>1, <2>1, UnknownAssumption DEF Pos
<1>4. /\ recent' \in Recents /\ RecentOK(chain, made, recent')
      /\ Hashes(recent') \subseteq Anchors
      /\ hs.found => recent' = recent
  <2>1. CASE hs.found
    BY <1>1, <2>1 DEF RescanActiveAddresses, Inv, Places, Anchors
  <2>2. CASE ~hs.found
    <3>1. /\ NotFound /\ hs.bs \in Stamps /\ Right(chain, made, hs.bs.height, hs.bs.hash)
          /\ recent' = SetSyncedWith(recent, hs.bs) /\ RecentOK(chain, made, recent)
      BY <1>2, <2>2 DEF RescanActiveAddresses, Inv, Places, Result, NotFound
    <3>2. hs.bs.hash <= made /\ hs.bs.height \in Nat
      BY <3>1 DEF Right, Stamps, Pos
    <3>3. \A k \in 1 .. Len(chain) : chain[k] = hs.bs.hash => k <= hs.bs.height
      BY <3>1, <3>2 DEF Right
    <3>4. Anchors = Hashes(recent) \cup {hs.bs.hash}
      BY <3>1 DEF Anchors
    <3>. QED
      BY <1>1, <2>2, <3>1, <3>2, <3>3, <3>4, SyncedWith
  <2>. QED
    BY <2>1, <2>2
<1>5. Without(ntfns, {"finished"})
  BY <1>2 DEF Inv, Protocol, Without
<1>6. Types'
  BY <1>1, <1>2, <1>3, <1>4 DEF Inv, Types
<1>7. Places' /\ Result'
  BY <1>1, <1>2, <1>4 DEF Inv, Places, Result, NotFound
<1>8. Protocol'
  BY <1>1, <1>2, <1>5 DEF Inv, Protocol
<1>9. Solid(chain', mined', ntfns', Anchors')
  <2>1. Anchors' \subseteq Anchors
    BY <1>2, <1>4 DEF Anchors, NotFound
  <2>. QED
    BY <1>1, <2>1 DEF Inv, Solid
<1>10. Filled'
  BY <1>1, <1>2, <1>4 DEF Inv, Filled, MarkedAhead
<1>11. AtEnd'
  BY <1>1, <1>5 DEF AtEnd, Ends, Without, Fin
<1>12. AtBlock'
  <2>. SUFFICES ASSUME ~Doom(ntfns) PROVE Blocks(chain, mined, ntfns)
    BY <1>1, <1>2 DEF AtBlock, Doomed
  <2>1. ntfns \in Seq(Rec) /\ Len(ntfns) \in Nat
    BY QueueTypes DEF Inv, Types
  <2>2. \A i \in 1 .. Len(ntfns) : \A j \in 1 .. i - 1 : ~Fin(ntfns, j)
    BY <1>5, <2>1 DEF Without, Fin
  <2>3. \A i \in 1 .. Len(ntfns) : ~Con(ntfns, i)
    BY <2>2 DEF Doom
  <2>. QED
    BY <2>3 DEF Blocks
<1>13. Covered'
  BY <1>1, <1>2, <1>3 DEF Inv, Covered, Below, Doomed
<1>. QED
  BY <1>1, <1>2, <1>6, <1>7, <1>8, <1>9, <1>10, <1>11, <1>12, <1>13 DEF Inv

LEMMA MaxExists ==
  ASSUME NEW n \in Nat, NEW S \in SUBSET (1 .. n), S # {}
  PROVE  Max(S) \in S /\ \A y \in S : y <= Max(S)
<1>1. PICK T \in SUBSET Nat : T = {n - x : x \in S}
  <2>1. \A x \in S : n - x \in Nat
    OBVIOUS
  <2>. QED
    BY <2>1
<1>2. T # {}
  BY <1>1
<1>3. PICK x \in T : \A y \in T : <<y, x>> \notin OpToRel(<, Nat)
  BY <1>2, WFMin, NatLessThanWellFounded
<1>4. \A y \in T : y >= x
  <2>1. OpToRel(<, Nat) = {ss \in Nat \X Nat : ss[1] < ss[2]}
    BY DEF OpToRel
  <2>2. \A y \in T : ~(y < x)
    BY <1>3, <2>1
  <2>. QED
    BY <2>2
<1>5. PICK m \in S : x = n - m
  BY <1>1
<1>6. \A y \in S : m >= y
  <2>1. \A y \in S : n - y >= n - m
    BY <1>1, <1>4, <1>5
  <2>. QED
    BY <2>1
<1>7. Max(S) \in S /\ \A y \in S : Max(S) >= y
  BY <1>6 DEF Max
<1>. QED
  BY <1>7

LEMMA MatchesOn ==
  ASSUME chain \in Seq(Nat), recent \in Recents
  PROVE  /\ \A b : OnChain(b) <=> On(chain, b)
         /\ Matches = {i \in 1 .. Len(recent.hashes) : On(chain, recent.hashes[i])}
<1>1. DOMAIN chain = 1 .. Len(chain) /\ DOMAIN recent.hashes = 1 .. Len(recent.hashes)
  BY RecentTypes
<1>2. \A b : OnChain(b) <=> On(chain, b)
  BY <1>1 DEF OnChain, On, Range
<1>. QED
  BY <1>1, <1>2 DEF Matches

(* The store has a transaction of a block of this height, and nothing that *)
(* left the chain: so it has that of the block on the chain.               *)
LEMMA NoHole ==
  ASSUME NEW c \in Seq(Nat), NEW top, NEW m \in SUBSET (Nat \X Nat), NEW q, NEW i,
         MinedOK(c, top, m), \A p \in m : On(c, p[2]), NEW h, \E p \in m : p[1] = h
  PROVE  Has(c, m, q, h, i)
<1>1. PICK p \in m : p[1] = h
  OBVIOUS
<1>2. PICK k \in 1 .. Len(c) : c[k] = p[2]
  BY DEF On
<1>3. k = h /\ p = <<h, c[h]>>
  BY <1>1, <1>2 DEF MinedOK, Right
<1>. QED
  BY <1>3 DEF Has

(* After the search the store has nothing that left the chain.             *)
LEMMA Searched ==
  ASSUME Inv, Without(ntfns, {"tx"}), NEW m, m \subseteq mined, \A p \in m : On(chain, p[2]),
         NEW A
  PROVE  /\ m \in SUBSET (Nat \X Nat) /\ MinedOK(chain, made, m)
         /\ Gone(chain, m, ntfns) /\ Stale(chain, m, ntfns) /\ Solid(chain, m, ntfns, A)
<1>1. m \in SUBSET (Nat \X Nat) /\ MinedOK(chain, made, m)
  BY DEF Inv, Types, Places, MinedOK
<1>2. Gone(chain, m, ntfns)
  BY DEF Inv, Gone
<1>3. Stale(chain, m, ntfns) /\ Solid(chain, m, ntfns, A)
  BY DEF Stale, Solid, Without, Tx
<1>. QED
  BY <1>1, <1>2, <1>3

LEMMA BestBlockRight ==
  ASSUME Inv
  PROVE  BestBlock \in Stamps /\ Right(chain, made, BestBlock.height, BestBlock.hash)
<1>1. chain \in Seq(Nat) /\ made \in Nat /\ ChainOK(chain, made) /\ Len(chain) \in 1 .. Len(chain)
      /\ Len(chain) \in Nat
  BY DEF Inv, Types, ChainOK
<1>2. CASE stamp = Unknown
  <2>1. BestBlock = Stamp(Len(chain), chain[Len(chain)])
    BY <1>2 DEF BestBlock, Tip, Last
  <2>2. chain[Len(chain)] \in Nat /\ Right(chain, made, Len(chain), chain[Len(chain)])
    BY <1>1, OnRight
  <2>3. BestBlock.height = Len(chain) /\ BestBlock.hash = chain[Len(chain)]
    BY <2>1 DEF Stamp
  <2>4. BestBlock \in Stamps
    BY <1>1, <2>1, <2>2 DEF Stamps, Stamp, Pos
  <2>. QED
    BY <2>2, <2>3, <2>4
<1>3. CASE stamp # Unknown
  BY <1>3 DEF BestBlock, Inv, Types, Places
<1>. QED
  BY <1>2, <1>3

LEMMA SearchInv == Inv /\ Search /\ Followed' => Inv'
<1>. SUFFICES ASSUME Inv, Search, Followed' PROVE Inv'
  OBVIOUS
<1>1. /\ chain' = chain /\ made' = made /\ stamp' = BestBlock /\ recent' = recent
      /\ conn' = conn /\ tracked' = tracked /\ scan' = scan
      /\ status' = status /\ ntfns' = ntfns /\ hs.step = "search"
      /\ chain \in Seq(Nat) /\ made \in Nat /\ recent \in Recents /\ ntfns \in Seq(Rec)
      /\ mined \in SUBSET (Nat \X Nat) /\ Len(chain) \in Nat
  BY DEF Search, serverVars, Inv, Types
<1>2. ~Unrepairable(mined')
  BY DEF Search, Followed
<1>3. /\ Without(ntfns, {"tx"}) /\ Without(ntfns, {"finished"})
      /\ RecentOK(chain, made, recent)
  BY <1>1 DEF Inv, Protocol, Places, Without
<1>4. BestBlock \in Stamps /\ Right(chain, made, BestBlock.height, BestBlock.hash)
  BY BestBlockRight
<1>5. \A b : OnChain(b) <=> On(chain, b)
  BY <1>1, MatchesOn
(* It is enough to look at the store, at what is found, and at the part    *)
(* that is not scanned.                                                    *)
<1>6. ASSUME mined' \subseteq mined, \A p \in mined' : On(chain, p[2]),
             hs' \in Shakes, hs'.step \in {"sync", "track"}, hs'.bs \in Stamps,
             Result', Covered', Filled'
      PROVE  Inv'
  <2>1. /\ mined' \in SUBSET (Nat \X Nat) /\ MinedOK(chain, made, mined')
        /\ Gone(chain, mined', ntfns) /\ Stale(chain, mined', ntfns)
        /\ Solid(chain, mined', ntfns, Anchors')
    BY <1>3, <1>6, Searched
  <2>2. Types'
    BY <1>1, <1>4, <1>6, <2>1 DEF Inv, Types
  <2>3. Places'
    BY <1>1, <1>4, <2>1 DEF Inv, Places
  <2>4. Protocol'
    BY <1>1, <1>6 DEF Inv, Protocol
  <2>5. AtBlock' /\ AtEnd'
    BY <1>1, <1>3, <1>6 DEF AtBlock, AtEnd, Ends, Without, Fin
  <2>. QED
    BY <1>1, <1>6, <2>1, <2>2, <2>3, <2>4, <2>5 DEF Inv
<1>7. CASE Matches = {}
  <2>1. /\ hs' = [step |-> "track", bs |-> BestBlock, found |-> FALSE] /\ mined' = mined
    BY <1>7 DEF Search
  <2>2. /\ hs' \in Shakes /\ hs'.step = "track" /\ hs'.bs = BestBlock /\ hs'.found = FALSE
    BY <1>4, <2>1 DEF Shakes, Steps
  <2>3. recent.hashes = <<>>
    BY <1>2, <1>7 DEF Unrepairable
  <2>4. \A p \in mined' : On(chain, p[2])
    BY <1>2, <1>5, <1>7, <2>1 DEF Unrepairable
  <2>5. Result'
    BY <1>1, <1>4, <2>2, <2>3 DEF Result, NotFound
  <2>6. Filled'
    BY <1>1, <2>1, <2>2 DEF Inv, Filled, MarkedAhead
  <2>7. Covered'
    <3>. SUFFICES ASSUME NEW h \in StartHeight + 1 .. Len(chain), h < SyncHeight(recent, status)
                  PROVE  Has(chain, mined', ntfns, h, Len(ntfns) + 1)
      BY <1>1, <2>2 DEF Covered, Below
    <3>1. ScanStart = SyncHeight(recent, status)
      BY <1>7 DEF ScanStart
    <3>2. SyncHeight(recent, status) \in Nat
      BY HeightAssumption DEF SyncHeight, Inv, Types, Recents, Pos
    <3>3. h \in StartHeight + 1 .. ScanStart - 1
      BY <1>1, <3>1, <3>2, HeightAssumption
    <3>4. \E p \in mined' : p[1] = h
      BY <1>2, <1>7, <3>3 DEF Unrepairable
    <3>5. mined' \in SUBSET (Nat \X Nat) /\ MinedOK(chain, made, mined')
      BY <1>1, <2>1 DEF Inv, Places
    <3>. QED
      BY <1>1, <2>4, <3>4, <3>5, NoHole
  <2>. QED
    BY <1>4, <1>6, <2>1, <2>2, <2>4, <2>5, <2>6, <2>7
<1>8. CASE Matches # {}
  <2>1. PICK n \in Nat, l \in Nat : n = Len(recent.hashes) /\ l = recent.lastHeight
    BY <1>1, RecentTypes
  <2>2. Matches = {j \in 1 .. n : On(chain, recent.hashes[j])}
    BY <1>1, <2>1, MatchesOn
  <2>3. Max(Matches) \in Matches /\ \A j \in Matches : j <= Max(Matches)
    BY <1>8, <2>2, MaxExists
  <2>4. PICK i \in 1 .. n : i = Max(Matches)
    BY <2>2, <2>3
  <2>5. PICK k \in 1 .. Len(chain) : chain[k] = recent.hashes[i]
    BY <2>2, <2>3, <2>4 DEF On
  <2>6. PICK g \in Int : g = l - (n - i)
    OBVIOUS
  <2>7. /\ Label(recent, i) = g /\ k <= g /\ g \in Pos /\ g \in Nat
        /\ \A j \in 1 .. n : On(chain, recent.hashes[j]) => Label(recent, j) <= g
        /\ \A p \in mined : p[1] \in Nat
    <3>1. Label(recent, i) = g /\ \A j : Label(recent, j) = l - (n - j)
      BY <2>1, <2>6 DEF Label
    <3>2. k <= g
      BY <1>3, <2>1, <2>5, <3>1 DEF RecentOK
    <3>3. g \in Pos /\ g \in Nat
      BY <3>2 DEF Pos
    <3>4. \A j \in 1 .. n : On(chain, recent.hashes[j]) => j <= i
      BY <2>2, <2>3, <2>4
    <3>5. \A j \in 1 .. n : j <= i => l - (n - j) <= g
      BY <2>6
    <3>. QED
      BY <1>1, <3>1, <3>2, <3>3, <3>4, <3>5
  <2>8. Newest = Stamp(g, recent.hashes[i]) /\ Newest.height = g /\ Newest.hash = recent.hashes[i]
    BY <2>4, <2>7 DEF Newest, BlockStamp, Label, Stamp
  <2>9. Newest \in Stamps
    BY <1>1, <2>1, <2>7, <2>8, RecentTypes DEF Stamps, Stamp
  <2>10. hs' = [step |-> "sync", bs |-> Newest, found |-> TRUE]
    BY <1>8 DEF Search
  <2>11. /\ hs' \in Shakes /\ hs'.step = "sync" /\ hs'.bs = Newest /\ hs'.found = TRUE
    BY <2>9, <2>10 DEF Shakes, Steps
  <2>12. mined' = IF i < n THEN {p \in mined : p[1] < g + 1} ELSE mined
    <3>1. mined' = IF i < n THEN Rollback(mined, BlockStamp(recent, i + 1).height) ELSE mined
      BY <1>8, <2>1, <2>4 DEF Search
    <3>2. BlockStamp(recent, i + 1).height = l - (n - (i + 1))
      BY <2>1 DEF BlockStamp, Stamp
    <3>3. l - (n - (i + 1)) = g + 1
      BY <2>6
    <3>. QED
      BY <3>1, <3>2, <3>3 DEF Rollback
  <2>13. mined' \subseteq mined /\ \A p \in mined : p[1] <= g => p \in mined'
    BY <2>7, <2>12
  <2>14. Raised(0) <=> g > k
    <3>1. \A h \in 1 .. Len(chain) : chain[h] = recent.hashes[i] => h = k
      <4>1. ChainOK(chain, made)
        BY DEF Inv
      <4>2. Right(chain, made, k, chain[k])
        BY <1>1, <4>1, OnRight
      <4>. QED
        BY <2>5, <4>2 DEF Right
    <3>2. DOMAIN chain = 1 .. Len(chain)
      BY <1>1
    <3>. QED
      BY <1>8, <2>5, <2>7, <2>8, <3>1, <3>2 DEF Raised
  <2>15. g > k + 1 => Raised(1)
    <3>1. DOMAIN chain = 1 .. Len(chain)
      BY <1>1
    <3>. QED
      BY <1>8, <2>5, <2>8, <3>1 DEF Raised
  <2>16. ASSUME NEW p \in mined', ~On(chain, p[2])
         PROVE  FALSE
    <3>1. p \in mined /\ ~OnChain(p[2]) /\ p[1] \in Nat
      BY <1>5, <2>7, <2>13, <2>16
    <3>2. g = k /\ ~(p[1] > recent.lastHeight)
      BY <1>2, <2>7, <2>14, <3>1 DEF Unrepairable
    <3>3. p[1] <= l
      BY <2>1, <3>1, <3>2
    <3>4. p[1] <= k
      BY <2>6, <2>12, <3>1, <3>2, <3>3
    <3>5. chain[k] \in Anchors
      BY <2>1, <2>5 DEF Anchors, Hashes
    <3>. QED
      BY <2>16, <3>1, <3>4, <3>5 DEF Inv, Solid
  <2>17. Result'
    BY <1>1, <2>1, <2>7, <2>8, <2>9, <2>11 DEF Result, NotFound
  <2>18. status = FullSync => FilledTo(chain, mined', ntfns, Hashes(recent), 1)
    <3>. SUFFICES ASSUME status = FullSync, NEW a \in 1 .. Len(chain), chain[a] \in Hashes(recent),
                         NEW h \in StartHeight + 1 .. a
                  PROVE  <<h, chain[h]>> \in mined'
      BY DEF FilledTo, HasAll, Has
    <3>1. PICK j \in 1 .. n : chain[a] = recent.hashes[j]
      BY <2>1 DEF Hashes
    <3>2. a <= Label(recent, j) /\ Label(recent, j) <= g /\ Label(recent, j) \in Int
      <4>1. On(chain, recent.hashes[j])
        BY <3>1 DEF On
      <4>2. Label(recent, j) \in Int
        BY <2>1 DEF Label
      <4>. QED
        BY <1>3, <2>1, <2>7, <3>1, <4>1, <4>2 DEF RecentOK
    <3>3. FilledTo(chain, mined, ntfns, Hashes(recent), 1)
      BY <1>1 DEF Inv, Filled, MarkedAhead
    <3>4. Has(chain, mined, ntfns, h, 1)
      BY <3>3 DEF FilledTo, HasAll
    <3>5. <<h, chain[h]>> \in mined
      BY <3>4 DEF Has
    <3>6. h \in Nat /\ h <= a /\ a <= g
      BY <3>2, <2>7, HeightAssumption
    <3>7. h <= g
      BY <3>6, <2>7
    <3>. QED
      BY <2>13, <3>5, <3>7
  <2>19. Filled'
    BY <1>1, <2>18 DEF Filled
  <2>20. Covered'
    <3>1. ScanStart = Start(recent, g, status)
      BY <1>8, <2>8 DEF ScanStart, Start
    <3>. SUFFICES ASSUME NEW h \in StartHeight + 1 .. Len(chain), h < ScanStart
                  PROVE  Has(chain, mined', ntfns, h, Len(ntfns) + 1)
      BY <1>1, <2>8, <2>11, <3>1 DEF Covered, Below
    <3>2. ScanStart \in Nat /\ (status = FullSync => ScanStart = g)
      <4>1. [recent EXCEPT !.lastHeight = g].lastHeight = g
        BY <1>1 DEF Recents
      <4>2. ScanStart = IF status.kind = "partial" \/ (status.kind = "unsynced" /\ status.height < g)
                        THEN status.height ELSE g
        BY <3>1, <4>1 DEF Start, SyncHeight
      <4>3. status.height \in Nat
        BY DEF Inv, Types, Statuses
      <4>4. status = FullSync => status.kind = "full"
        BY DEF FullSync
      <4>. QED
        BY <2>7, <4>2, <4>3, <4>4
    <3>3. h \in Nat /\ h \in StartHeight + 1 .. ScanStart - 1
      BY <1>1, <3>2, HeightAssumption
    <3>4. CASE status = FullSync /\ ~Raised(1)
      <4>1. h <= k
        BY <2>7, <2>15, <3>2, <3>3, <3>4
      <4>2. h \in StartHeight + 1 .. k /\ chain[k] \in Hashes(recent)
        BY <2>1, <2>5, <3>3, <4>1, HeightAssumption DEF Hashes
      <4>3. Has(chain, mined', ntfns, h, 1)
        BY <2>18, <3>4, <4>2 DEF FilledTo, HasAll
      <4>. QED
        BY <4>3 DEF Has
    <3>5. CASE ~(status = FullSync /\ ~Raised(1))
      <4>1. \E p \in mined' : p[1] = h
        BY <1>2, <3>3, <3>5 DEF Unrepairable
      <4>2. mined' \in SUBSET (Nat \X Nat) /\ MinedOK(chain, made, mined')
        BY <1>1, <2>13 DEF Inv, Places, MinedOK
      <4>. QED
        BY <1>1, <2>16, <4>1, <4>2, NoHole
    <3>. QED
      BY <3>4, <3>5
  <2>. QED
    BY <1>6, <2>9, <2>11, <2>13, <2>16, <2>17, <2>19, <2>20
<1>. QED
  BY <1>7, <1>8
-----------------------------------------------------------------------------
LEMMA FollowedBefore == [Next]_vars /\ Followed' => Followed
<1>. SUFFICES ASSUME [Next]_vars, Followed' PROVE Followed
  OBVIOUS
<1>1. CASE UNCHANGED histVars
  BY <1>1 DEF histVars, Followed
<1>2. CASE \E how : Races(how) /\ UNCHANGED unrepaired
  <2>1. PICK how : raced' = (raced \/ how) /\ unrepaired' = unrepaired
    BY <1>2 DEF Races
  <2>. QED
    BY <2>1 DEF Followed
<1>3. CASE Search
  <2>1. unrepaired' = (unrepaired \/ Unrepairable(mined')) /\ raced' = raced
    BY <1>3 DEF Search
  <2>. QED
    BY <2>1 DEF Followed
<1>4. Connect \/ HandleConnected \/ LoseConnection =>
        \E how : Races(how) /\ UNCHANGED unrepaired
  BY DEF Connect, HandleConnected, LoseConnection
<1>5. ASSUME NEW readable \in BOOLEAN, Restart(readable)
      PROVE  UNCHANGED histVars \/ \E how : Races(how) /\ UNCHANGED unrepaired
  BY <1>5 DEF Restart, histVars
<1>. QED
  BY <1>1, <1>2, <1>3, <1>4, <1>5
     DEF Next, vars, ConnectBlock, DisconnectBlock, ScanBlock, ScanProgress, ScanEnd,
         SyncWithFound, Track, RescanActiveAddresses, HandleTx, HandleDisconnected,
         HandleProgress, HandleFinished

LEMMA NextIInv == IInv /\ [Next]_vars => IInv'
<1>. SUFFICES ASSUME IInv, [Next]_vars, Followed' PROVE Inv'
  BY DEF IInv
<1>1. Inv
  BY FollowedBefore DEF IInv
<1>2. CASE Next
  BY <1>1, <1>2, ConnectBlockInv, DisconnectBlockInv, ScanBlockInv, ScanProgressInv,
     ScanEndInv, ConnectInv, SearchInv, SyncWithFoundInv, TrackInv,
     RescanActiveAddressesInv, HandleTxInv, HandleConnectedInv, HandleDisconnectedInv,
     HandleProgressInv, HandleFinishedInv, LoseConnectionInv, RestartInv DEF Next
<1>3. CASE UNCHANGED vars
  <2>1. /\ chain' = chain /\ made' = made /\ stamp' = stamp /\ recent' = recent
        /\ mined' = mined /\ conn' = conn /\ tracked' = tracked /\ scan' = scan
        /\ status' = status /\ ntfns' = ntfns /\ hs' = hs
    BY <1>3 DEF vars, serverVars, clientVars, walletVars
  <2>2. Types' /\ Places' /\ Result' /\ Protocol'
    BY <1>1, <2>1 DEF Inv, Types, Places, Result, NotFound, Protocol
  <2>3. Anchors' = Anchors
    BY <2>1 DEF Anchors, NotFound
  <2>4. Filled' /\ Covered' /\ AtBlock' /\ AtEnd'
    BY <1>1, <2>1 DEF Inv, Filled, MarkedAhead, Covered, Below, Doomed, AtBlock, AtEnd
  <2>. QED
    BY <1>1, <2>1, <2>2, <2>3, <2>4 DEF Inv
<1>. QED
  BY <1>2, <1>3

LEMMA Following == Spec => []IInv
<1>1. Init => IInv
  BY InitInv DEF IInv
<1>. QED
  BY <1>1, NextIInv, PTL DEF Spec

(* After any reorganisations, lost connections and restarts, once the      *)
(* handshake is over and every notification is handled, the transaction    *)
(* store has the transactions of every block of the chain: SyncHeight let  *)
(* the rescan of Handshake start low enough, unless a block was handled    *)
(* during the handshake or the recent blocks could not say where to start. *)
THEOREM StoreCatchesUp == Spec => []CaughtUp
<1>1. IInv => CaughtUp
  BY InvProps DEF IInv, CaughtUp, Followed
<1>. QED
  BY <1>1, Following, PTL

(* Under the same conditions it has no transaction as mined in a block     *)
(* that left the chain, at whatever depth and whether the reorganisation   *)
(* was notified of (blockDisconnected) or happened while the wallet was    *)
(* not connected (the search of Handshake).                                *)
THEOREM StoreRollsBack == Spec => []RolledBack
<1>1. IInv => RolledBack
  BY InvProps DEF IInv, RolledBack, Followed
<1>. QED
  BY <1>1, Following, PTL
=============================================================================
