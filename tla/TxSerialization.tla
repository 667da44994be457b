-------------------------- MODULE TxSerialization --------------------------
(***************************************************************************)
(* txstore/serialization.go: the store of TxStore written to a file and    *)
(* read back.  Three of its maps are not written but rebuilt on reading    *)
(* (blockIndexes with each block's txIndexes, unspent, previousOutpoints), *)
(* and the maps that lead to records are written as hashes.  A file is a   *)
(* record of what is written, in the order it is written; the bytes of a   *)
(* transaction stand for the transaction.  I/O errors, times, block hashes *)
(* and the change flag are left out.                                       *)
(***************************************************************************)
EXTENDS TxStore

(* Stands for 2^32, which TLC's integers cannot hold.                      *)
Word == 2 ^ 16
UInt32(n) == n % Word
Int32(w) == IF w >= Word \div 2 THEN w - Word ELSE w

(* A pointer is a sequence: empty for nil (nilPointer), else of its target *)
(* (validPointer).                                                         *)
Nil == <<>>
Pointer(p, f(_)) == IF p = Nil THEN Nil ELSE <<f(p[1])>>
-----------------------------------------------------------------------------
WriteBlockTxKey(k) == <<UInt32(k.index), UInt32(k.height)>>
ReadBlockTxKey(b) == [height |-> Int32(b[2]), index |-> b[1]]

WriteBlockOutputKey(k) == <<WriteBlockTxKey(TxPart(k)), UInt32(k.out)>>
ReadBlockOutputKey(b) == OutputKey(ReadBlockTxKey(b[1]), b[2])

(* The txRecord of t, whose btcutil.Tx has index i.                        *)
txRecord(t, i) ==
  [tx      |-> t,
   index   |-> i,
   debits  |-> IF t \in DOMAIN debits
                 THEN <<[amount |-> debits[t], spends |-> spends[t]]>> ELSE Nil,
   credits |-> [o \in {op[2] : op \in Outs(t) \cap credits} |->
                  IF <<t, o>> \in DOMAIN spentBy THEN <<spentBy[<<t, o>>]>>
                                                 ELSE Nil]]
WriteDebits(d) == [amount |-> d.amount,
                   spends |-> {WriteBlockOutputKey(k) : k \in d.spends}]
WriteCredits(c) == [o \in DOMAIN c |-> Pointer(c[o], WriteBlockTxKey)]
WriteTxRecord(r) == [tx      |-> r.tx,
                     index   |-> UInt32(r.index),
                     debits  |-> Pointer(r.debits, WriteDebits),
                     credits |-> WriteCredits(r.credits)]
ReadDebits(d) == [amount |-> d.amount,
                  spends |-> {ReadBlockOutputKey(k) : k \in d.spends}]
ReadCredits(c) == [o \in DOMAIN c |-> Pointer(c[o], ReadBlockTxKey)]
ReadTxRecord(b) == [tx      |-> b.tx,
                    index   |-> b.index,
                    debits  |-> Pointer(b.debits, ReadDebits),
                    credits |-> ReadCredits(b.credits)]
-----------------------------------------------------------------------------
(* blockTxCollection: txIndexes is not written.                            *)
blockTxCollection(h) ==
  [height    |-> h,
   txs       |-> [i \in DOMAIN coll[h].txs |->
                    txRecord(coll[h].txs[i], Index[coll[h].txs[i]])],
   txIndexes |-> coll[h].txIndexes,
   spendable |-> coll[h].spendable,
   reward    |-> coll[h].reward]
WriteCollection(c) ==
  [height    |-> UInt32(c.height),
   txs       |-> [i \in DOMAIN c.txs |-> WriteTxRecord(c.txs[i])],
   spendable |-> c.spendable,
   reward    |-> c.reward]
(* The positions a map gets that is filled in the order of a sequence.     *)
LastPositions(keys) ==
  [k \in Range(keys) |-> Max({i \in DOMAIN keys : keys[i] = k})]
ReadCollection(b) ==
  [height    |-> Int32(b.height),
   txs       |-> [i \in DOMAIN b.txs |-> ReadTxRecord(b.txs[i])],
   txIndexes |-> LastPositions([i \in DOMAIN b.txs |-> b.txs[i].index]),
   spendable |-> b.spendable,
   reward    |-> b.reward]

(* unconfirmedStore: previousOutpoints is not written, nor the output      *)
(* index of the keys, which the outpoint has.                              *)
unconfirmedStore ==
  [txs                    |-> {txRecord(t, -1) : t \in unconfirmed},
   spentBlockOutPoints    |-> spentBlockOutPoints,
   spentBlockOutPointKeys |-> spentBlockOutPointKeys,
   spentUnconfirmed       |-> spentUnconfirmed,
   previousOutpoints      |-> previousOutpoints]
WriteFails(u) ==
  \/ Cardinality(DOMAIN u.spentBlockOutPoints) #
     Cardinality(DOMAIN u.spentBlockOutPointKeys)
  \/ \E op \in DOMAIN u.spentBlockOutPointKeys :
       u.spentBlockOutPointKeys[op] \notin DOMAIN u.spentBlockOutPoints
WriteUnconfirmed(u) ==
  [txs              |-> {WriteTxRecord(r) : r \in u.txs},
   spentBlock       |-> [op \in DOMAIN u.spentBlockOutPointKeys |->
                          LET k == u.spentBlockOutPointKeys[op]
                          IN  [key |-> WriteBlockTxKey(TxPart(k)),
                               hash |-> u.spentBlockOutPoints[k]]],
   spentUnconfirmed |-> u.spentUnconfirmed]

Hashes(b) == {r.tx : r \in b.txs}
ReadFails(b) ==
  \/ \E op \in DOMAIN b.spentBlock : b.spentBlock[op].hash \notin Hashes(b)
  \/ \E op \in DOMAIN b.spentUnconfirmed :
       b.spentUnconfirmed[op] \notin Hashes(b)
RecreatePrevious(T) == [op \in UNION {Ins(t) : t \in T} |->
                          CHOOSE t \in T : op \in Ins(t)]
ReadUnconfirmed(b) ==
  LET keyOf(op) == OutputKey(ReadBlockTxKey(b.spentBlock[op].key), op[2])
      ops == DOMAIN b.spentBlock
  IN
  [txs                    |-> {ReadTxRecord(r) : r \in b.txs},
   spentBlockOutPoints    |-> [k \in {keyOf(op) : op \in ops} |->
                                b.spentBlock[CHOOSE op \in ops : keyOf(op) = k].hash],
   spentBlockOutPointKeys |-> [op \in ops |-> keyOf(op)],
   spentUnconfirmed       |-> b.spentUnconfirmed,
   previousOutpoints      |-> RecreatePrevious(Hashes(b))]
-----------------------------------------------------------------------------
(* The Store as it is in memory, as it is written and as it is read.       *)
Store == [blocks       |-> [i \in DOMAIN blocks |-> blockTxCollection(blocks[i])],
          blockIndexes |-> blockIndexes,
          unspent      |-> unspent,
          unconfirmed  |-> unconfirmedStore]
WriteTo(s) == [blocks      |-> [i \in DOMAIN s.blocks |-> WriteCollection(s.blocks[i])],
               unconfirmed |-> WriteUnconfirmed(s.unconfirmed)]

(* The unspent map recreated from the collections: every credit without a  *)
(* spent-by key of the transactions that txIndexes leads to.               *)
EveryCredit(r) == DOMAIN r.credits
Unspent(r) == {o \in DOMAIN r.credits : r.credits[o] = Nil}

RecreateUnspent(cs) ==
  LET record(c, i) == c.txs[c.txIndexes[i]]
      entries(c, i) == {[op  |-> <<record(c, i).tx, o>>,
                         key |-> [height |-> c.height, index |-> i]] :
                          o \in Unspent(record(c, i))}
      all == UNION {UNION {entries(c, i) : i \in DOMAIN c.txIndexes} :
                      c \in Range(cs)}
  IN  [op \in {e.op : e \in all} |-> (CHOOSE e \in all : e.op = op).key]

ReadFrom(file) ==
  LET cs == [i \in DOMAIN file.blocks |-> ReadCollection(file.blocks[i])]
  IN
  [blocks       |-> cs,
   blockIndexes |-> LastPositions([i \in DOMAIN cs |-> cs[i].height]),
   unspent      |-> RecreateUnspent(cs),
   unconfirmed  |-> ReadUnconfirmed(file.unconfirmed)]

(* The index of an unconfirmed transaction, -1, is read back as the        *)
(* largest uint32.  It only has to be told from a coinbase's.              *)
SameButIndexes(S, R) ==
  /\ \A r \in S : r.index # 0
  /\ \A r \in R : r.index # 0
  /\ {[r EXCEPT !.index = -1] : r \in S} = {[r EXCEPT !.index = -1] : r \in R}

(* "The store's unspent map is intentionally not written.  Instead, it is  *)
(* recreated on reads" (and likewise for the other maps): whenever the     *)
(* disk syncer writes the store it can be written, can be read again, and  *)
(* reading gives the maps and records that were in memory: nothing the     *)
(* incremental updates did is lost or changed by a restart.  Only the      *)
(* entries that a disconnected coinbase leaves in unspent are gone then.   *)
ReloadAgrees ==
  err = "none" =>
    LET s    == [Store EXCEPT !.unspent = Restrict(@, credits \cap DOMAIN @)]
        file == WriteTo(s)
        r    == ReadFrom(file)
    IN  /\ ~WriteFails(s.unconfirmed)
        /\ ~ReadFails(file.unconfirmed)
        /\ [r EXCEPT !.unconfirmed.txs = {}] = [s EXCEPT !.unconfirmed.txs = {}]
        /\ SameButIndexes(r.unconfirmed.txs, s.unconfirmed.txs)
=============================================================================
