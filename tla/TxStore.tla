------------------------------ MODULE TxStore ------------------------------
(***************************************************************************)
(* The transaction store of one account: txstore/tx.go.                    *)
(*                                                                         *)
(* One action stands for one call of an exported method of Store or        *)
(* TxRecord (InsertTx has one action per path through it).  The calls come *)
(* from the handlers of rpcclient.go (recvTx, redeemingTx,                 *)
(* blockDisconnected) and from handleSendRawTxReply of rpcserver.go, which *)
(* run one at a time under the account manager's semaphore: the variable   *)
(* call holds what the running handler has still to do with the TxRecord   *)
(* that InsertTx returned.  The chain server is the environment: mempool,  *)
(* blocks and reorganisations of a consistent network, whose notifications *)
(* arrive in order through due.                                            *)
(*                                                                         *)
(* A transaction is named by its hash, so its record is too: a record that *)
(* was dropped and one created later for the same hash are not told apart. *)
(* Receive times, block hashes and the change flag of credits are left     *)
(* out.  An operation that returns an error, or panics, ends the behaviour *)
(* (err): the properties speak of stores on which no operation has failed. *)
(***************************************************************************)
EXTENDS Integers, Sequences, FiniteSetsExt

CONSTANTS
  Tx,           \* transactions, by hash
  TxIn,         \* TxIn[t]: the sequence of outpoints <<tx, index>> t spends
  WalletOut,    \* the outpoints that pay to an address of the wallet
  Value,        \* Value[op]: the amount of the wallet output op
  Index,        \* Index[t]: position of t in its block, 0 for a coinbase
  Late,         \* those of WalletOut whose address is imported later
  Own,          \* the transactions this wallet creates itself
  Maturity,     \* btcchain.CoinbaseMaturity
  MaxHeight,    \* bound: height of the chain
  MaxBlockTxs,  \* bound: wallet transactions per block
  FinalHeight   \* bound: blocks up to this height are never disconnected

ASSUME TxAssumption ==
  /\ TxIn \in [Tx -> Seq((Tx \cup {"foreign"}) \X Nat)]
  /\ WalletOut \subseteq Tx \X Nat
  /\ Value \in [WalletOut -> Nat]
  /\ Index \in [Tx -> Nat]
  /\ Late \subseteq WalletOut
  /\ Own \subseteq Tx
ASSUME BoundAssumption == /\ Maturity \in Nat
                          /\ MaxHeight \in Nat
                          /\ MaxBlockTxs \in Nat
                          /\ FinalHeight \in Nat

VARIABLES
  blocks,                 \* slice of collections, each named by its height
  blockIndexes,           \* height |-> position in blocks
  coll,                   \* height |-> the collection (txs, txIndexes, deltas)
  unspent,                \* outpoint |-> BlockTxKey
  unconfirmed,            \* hashes of unconfirmed.txs
  spentBlockOutPoints,    \* BlockOutputKey |-> unconfirmed spender
  spentBlockOutPointKeys, \* outpoint |-> BlockOutputKey
  spentUnconfirmed,       \* outpoint |-> unconfirmed spender
  previousOutpoints,      \* outpoint |-> unconfirmed spender
  credits,                \* outpoints that have a credit record
  spentBy,                \* credit |-> BlockTxKey, undefined where nil
  debits,                 \* tx |-> debits.amount, undefined where nil
  spends,                 \* tx |-> debits.spends as a set
  err,                    \* "none", "error" or "panic"
  call,                   \* calls the running handler has still to make
  due,                    \* notifications sent and not yet handled
  watched,                \* the outpoints whose address the wallet has
  loc,                    \* network: Unknown, Mempool or a height
  tip                     \* network: height of the best block

blockVars == <<blocks, blockIndexes, coll>>
poolVars == <<unconfirmed, spentBlockOutPoints, spentBlockOutPointKeys,
              spentUnconfirmed, previousOutpoints>>
recordVars == <<credits, spentBy, debits, spends>>
storeVars == <<blockVars, unspent, poolVars, recordVars>>
netVars == <<watched, loc, tip>>
vars == <<storeVars, err, call, due, netVars>>
-----------------------------------------------------------------------------
Unknown == -2
Mempool == -1
Heights == 1..MaxHeight

BlockTxKey == [height : Heights \cup {-1}, index : Nat]
BlockOutputKey == [height : Heights \cup {-1}, index : Nat, out : Nat]

(* BlockTxKey{BlockHeight: -1}: the key of every unconfirmed transaction.  *)
Unmined == [height |-> -1, index |-> 0]
TxKey(t, h) == IF h = -1 THEN Unmined ELSE [height |-> h, index |-> Index[t]]
OutputKey(k, i) == [height |-> k.height, index |-> k.index, out |-> i]
TxPart(k) == [height |-> k.height, index |-> k.index]

Ins(t) == Range(TxIn[t])
Outs(t) == {op \in WalletOut : op[1] = t}
Amount(S) == MapThenSumSet(LAMBDA op : Value[op], S)

(* Partial functions.                                                      *)
Without(f, S) == [x \in DOMAIN f \ S |-> f[x]]
Put(f, S, v(_)) == [x \in DOMAIN f \cup S |-> IF x \in S THEN v(x) ELSE f[x]]
-----------------------------------------------------------------------------
(* lookupBlock, lookupBlockTx.  A height that blockIndexes still holds     *)
(* while blocks was truncated makes the slice access panic.                *)
HasBlock(h) == h \in DOMAIN blockIndexes
lookupBlock(h) == coll[blocks[blockIndexes[h]]]
HasBlockTx(k) == /\ HasBlock(k.height)
                 /\ k.index \in DOMAIN lookupBlock(k.height).txIndexes
lookupBlockTx(k) ==
  LET c == lookupBlock(k.height) IN c.txs[c.txIndexes[k.index]]
(* The outpoint whose credit a BlockOutputKey leads to.                    *)
CreditAt(k) == <<lookupBlockTx(TxPart(k)), k.out>>

(* Insertion into a slice that should stay sorted by rank, with its index. *)
(* When the new element belongs before the last one, append(slice[:i], x)  *)
(* overwrites the element at i in place, so that detached[0] is x by the   *)
(* time the loop reads it: x ends up there twice, the element it replaced  *)
(* is gone, and that element's index entry leads to x.                     *)
PlaceAt(slice, r, rank) ==
  CHOOSE i \in 0..Len(slice) :
    /\ \A j \in (i + 1)..Len(slice) : rank[slice[j]] >= r
    /\ i # 0 => rank[slice[i]] < r
Insert(slice, x, rank) ==
  IF slice # <<>> /\ rank[slice[Len(slice)]] > rank[x]
    THEN LET i == PlaceAt(slice, rank[x], rank)
         IN  SubSeq(slice, 1, i) \o <<x, x>> \o SubSeq(slice, i + 2, Len(slice))
    ELSE Append(slice, x)
InsertIndex(slice, idx, x, rank) ==
  IF slice # <<>> /\ rank[slice[Len(slice)]] > rank[x]
    THEN LET i == PlaceAt(slice, rank[x], rank)
             at(r) == {j \in (i + 2)..Len(slice) : rank[slice[j]] = r}
         IN  [r \in DOMAIN idx \cup {rank[x]} |->
                CASE r = rank[x]  -> i + 2
                  [] at(r) # {}   -> Max(at(r)) + 1
                  [] OTHER        -> idx[r]]
    ELSE Put(idx, {rank[x]}, LAMBDA r : Len(slice) + 1)

Height == [h \in Heights |-> h]

(* blockCollectionForInserts: the collection that key height h leads to,   *)
(* created empty when there is none, replaced by c.                        *)
EmptyColl == [txs |-> <<>>, txIndexes |-> <<>>, spendable |-> 0, reward |-> 0]
CollForInserts(h) == IF HasBlock(h) THEN lookupBlock(h) ELSE EmptyColl
StoreColl(h, c) ==
  IF HasBlock(h)
    THEN /\ coll' = [coll EXCEPT ![blocks[blockIndexes[h]]] = c]
         /\ UNCHANGED <<blocks, blockIndexes>>
    ELSE /\ blocks' = Insert(blocks, h, Height)
         /\ blockIndexes' = InsertIndex(blocks, blockIndexes, h, Height)
         /\ coll' = Put(coll, {h}, LAMBDA x : c)
-----------------------------------------------------------------------------
NoCall == [tx |-> "none", height |-> -1, credits |-> {}, debits |-> FALSE]
Idle == call.credits = {} /\ ~call.debits

(* A handler that received the TxRecord of t from InsertTx.  recvTx adds   *)
(* the credits the record lacks; redeemingTx and a sent transaction add    *)
(* the debits.                                                             *)
Returns(kind, t, h) ==
  LET lacking == (Outs(t) \cap watched) \ credits'
  IN  call' =
        IF err' # "none" \/ (kind = "recv" /\ lacking = {})
          THEN NoCall
          ELSE [tx |-> t, height |-> h,
                credits |-> IF kind = "recv" THEN lacking ELSE {},
                debits |-> kind # "recv"]

(* No credits and no debits: records that are dropped, or just allocated.  *)
NoRecords(T) == /\ credits' = credits \ UNION {Outs(t) : t \in T}
                /\ debits' = Without(debits, T)
                /\ spends' = Without(spends, T)

(* previousOutpoints with the inputs of the records T, which go to the     *)
(* unconfirmed pool.                                                       *)
WithInputs(T) ==
  Put(previousOutpoints, UNION {Ins(t) : t \in T},
      LAMBDA op : CHOOSE t \in T : op \in Ins(t))

(* unspent with the credits S of the record at key.                        *)
ForgetUnspent(S, key) == unspent
AddUnspent(S, key) == Put(unspent, S, LAMBDA op : key)

(* InsertTx with a nil block: unconfirmedStore.txRecordForInserts.         *)
InsertUnconfirmed(t) ==
  /\ IF t \in unconfirmed
       THEN UNCHANGED <<unconfirmed, previousOutpoints, recordVars>>
       ELSE /\ unconfirmed' = unconfirmed \cup {t}
            /\ previousOutpoints' = WithInputs({t})
            /\ NoRecords({t})
            /\ spentBy' = Without(spentBy, Outs(t))
  /\ UNCHANGED <<blockVars, unspent, spentBlockOutPoints,
                 spentBlockOutPointKeys, spentUnconfirmed, err>>

(* InsertTx for a transaction that its block's records already hold.       *)
InsertExisting(t, h) ==
  /\ HasBlockTx(TxKey(t, h))
  /\ lookupBlockTx(TxKey(t, h)) = t
  /\ UNCHANGED <<storeVars, err>>

(* moveMinedTx.  MinedInputs: inputs of t that are mined credits spent by  *)
(* an unconfirmed transaction; PoolSpent: credits of t that an unconfirmed *)
(* transaction spends.                                                     *)
MinedInputs(t) == Ins(t) \cap DOMAIN spentBlockOutPointKeys
PoolSpent(t) == Outs(t) \cap credits \cap DOMAIN spentUnconfirmed
UndebitedAmount(t) == 0
DebitedAmount(t) == IF t \in DOMAIN debits THEN debits[t] ELSE 0
SameSpends(t, keys) == spends
AddSpends(t, keys) ==
  IF keys = {} THEN spends ELSE [spends EXCEPT ![t] = @ \cup keys]

(* A missing record is an error, missing debits a nil access.              *)
MoveFails(t) ==
  \/ \E op \in MinedInputs(t) : ~HasBlockTx(TxPart(spentBlockOutPointKeys[op]))
  \/ MinedInputs(t) # {} /\ t \notin DOMAIN debits
MoveMined(t, h) ==
  LET key     == TxKey(t, h)
      spent   == MinedInputs(t)
      prev    == {spentBlockOutPointKeys[op] : op \in spent}
      again   == PoolSpent(t)
      free    == ((Outs(t) \cap credits) \ again) \ DOMAIN spentBy
      c       == CollForInserts(h)
  IN
  /\ ~HasBlockTx(key)
  /\ t \in unconfirmed
  /\ ~MoveFails(t)
  /\ unconfirmed' = unconfirmed \ {t}
  /\ StoreColl(h, [c EXCEPT
         !.txs = Append(@, t),
         !.txIndexes = Put(@, {Index[t]}, LAMBDA i : Len(c.txs) + 1),
         !.spendable = @ + Amount(free) - DebitedAmount(t)])
  /\ previousOutpoints' = Without(previousOutpoints, Ins(t))
  /\ spentBlockOutPointKeys' =
       Put(Without(spentBlockOutPointKeys, spent), again,
           LAMBDA op : OutputKey(key, op[2]))
  /\ spentBlockOutPoints' =
       Put(Without(spentBlockOutPoints, prev),
           {OutputKey(key, op[2]) : op \in again},
           LAMBDA k : spentUnconfirmed[<<t, k.out>>])
  /\ spentUnconfirmed' = Without(spentUnconfirmed, again)
  /\ spentBy' = Put(Put(spentBy, {CreditAt(k) : k \in prev}, LAMBDA op : key),
                    again, LAMBDA op : Unmined)
  /\ spends' = AddSpends(t, prev)
  /\ unspent' = AddUnspent(free, key)
  /\ UNCHANGED <<credits, debits, err>>

-----------------------------------------------------------------------------
(* findDoubleSpend: the spender of the first input of t that an            *)
(* unconfirmed transaction spends, as a set of at most one.                *)
NoDoubleSpend(t) == {}
DoubleSpend(t) ==
  LET hits == {i \in DOMAIN TxIn[t] : TxIn[t][i] \in DOMAIN previousOutpoints}
  IN  IF hits = {} THEN {} ELSE {previousOutpoints[TxIn[t][Min(hits)]]}

(* removeConflict follows the credits of a removed record that have a      *)
(* spent-by key to their spenders.  Conflict(R) is what it removes,        *)
(* starting from R, and Followed(R) the credits it follows.                *)
Followed(R) == {op \in credits \cap DOMAIN spentBy : op[1] \in R}
Conflict(R) ==
  LET reach[n \in 0..Cardinality(Tx)] ==
        IF n = 0 THEN R
        ELSE reach[n - 1] \cup
             {spentUnconfirmed[op] :
                op \in Followed(reach[n - 1]) \cap DOMAIN spentUnconfirmed}
  IN  reach[Cardinality(Tx)]
FreesNothing(R) == {}
FreedBy(R) == UNION {Ins(r) : r \in R} \cap DOMAIN spentBlockOutPointKeys

(* A followed credit without an entry in spentUnconfirmed is               *)
(* ErrInconsistentStore.  That includes a spender reached a second time:   *)
(* removing it the first time took the entries of all its inputs.          *)
RemoveFails(R) ==
  \/ ~(Followed(R) \subseteq DOMAIN spentUnconfirmed)
  \/ R # {} /\ Cardinality(Followed(R)) # Cardinality(R) - 1
  \/ \E op \in FreedBy(R) : ~HasBlockTx(TxPart(spentBlockOutPointKeys[op]))

(* InsertTx for a transaction the store does not have: removeDoubleSpends, *)
(* then blockTxRecordForInserts.  A freed credit gets a nil spent-by key   *)
(* and nothing else: unspent keeps not listing it.                         *)
InsertMined(t, h) ==
  LET R     == Conflict(DoubleSpend(t))
      ins   == UNION {Ins(r) : r \in R}
      freed == FreedBy(R)
      prev  == {spentBlockOutPointKeys[op] : op \in freed}
      c     == CollForInserts(h)
  IN
  /\ ~HasBlockTx(TxKey(t, h))
  /\ t \notin unconfirmed
  /\ ~RemoveFails(R)
  /\ unconfirmed' = unconfirmed \ R
  /\ previousOutpoints' = Without(previousOutpoints, ins)
  /\ spentBlockOutPointKeys' = Without(spentBlockOutPointKeys, freed)
  /\ spentBlockOutPoints' = Without(spentBlockOutPoints, prev)
  /\ spentUnconfirmed' = Without(spentUnconfirmed, ins \ freed)
  /\ spentBy' = Without(spentBy, {CreditAt(k) : k \in prev} \cup
                                 UNION {Outs(r) : r \in R \cup {t}})
  /\ StoreColl(h, [c EXCEPT
         !.txs = Insert(@, t, Index),
         !.txIndexes = InsertIndex(c.txs, @, t, Index)])
  /\ NoRecords(R \cup {t})
  /\ UNCHANGED <<unspent, err>>

(* The ways InsertTx fails: another transaction where t should be, a       *)
(* broken reference met by moveMinedTx or by removeConflict.               *)
InsertFails(t, h) ==
  LET key == TxKey(t, h) IN
  \/ HasBlockTx(key) /\ lookupBlockTx(key) # t
  \/ /\ ~HasBlockTx(key) /\ t \in unconfirmed
     /\ MoveFails(t)
  \/ /\ ~HasBlockTx(key) /\ t \notin unconfirmed
     /\ RemoveFails(Conflict(DoubleSpend(t)))
InsertFail(t, h) == /\ InsertFails(t, h)
                    /\ err' = "error"
                    /\ UNCHANGED storeVars

InsertTx(t, h) ==
  IF h = -1 THEN InsertUnconfirmed(t)
            ELSE \/ InsertExisting(t, h)
                 \/ MoveMined(t, h)
                 \/ InsertMined(t, h)
                 \/ InsertFail(t, h)

(* TxRecord.AddCredit on the handle in call.                               *)
AddCredit(op) ==
  LET t == call.tx
      h == call.height
      c == lookupBlock(h)
  IN
  /\ credits' = credits \cup {op}
  /\ IF h = -1
       THEN UNCHANGED <<unspent, coll>>
       ELSE /\ unspent' = AddUnspent({op}, TxKey(t, h))
            /\ coll' = [coll EXCEPT ![blocks[blockIndexes[h]]] =
                 IF Index[t] = 0 THEN [c EXCEPT !.reward = @ + Value[op]]
                                 ELSE [c EXCEPT !.spendable = @ + Value[op]]]
  /\ call' = IF call.credits = {op} THEN NoCall
                                   ELSE [call EXCEPT !.credits = @ \ {op}]
  /\ UNCHANGED <<blocks, blockIndexes, poolVars, spentBy, debits, spends, err>>

(* findPreviousCredits: the unspent credits among the inputs of t, mined   *)
(* ones through unspent, unconfirmed ones unless spentUnconfirmed has them.*)
MinedCredits(t) == Ins(t) \cap DOMAIN unspent
NoPoolCredits(t) == {}
PoolCredits(t) == {op \in (Ins(t) \cap credits) \ DOMAIN unspent :
                     /\ op[1] \in unconfirmed
                     /\ op \notin DOMAIN spentUnconfirmed}
AddDebitsFails(t, key) ==
  \E op \in MinedCredits(t) :
    \/ ~HasBlockTx(unspent[op])
    \/ op \in DOMAIN spentBy /\ spentBy[op] # key

(* TxRecord.AddDebits on the handle in call, with markOutputsSpent.  The   *)
(* debited amount counts mined credits only.  A record that already has    *)
(* debits is left as it is.  handleSendRawTxReply passes the credits the   *)
(* transaction was made from, which UnspentOutputs returned under the same *)
(* hold of the semaphore: the same that findPreviousCredits finds.         *)
AddDebits ==
  LET t      == call.tx
      h      == call.height
      key    == TxKey(t, h)
      mined  == MinedCredits(t)
      pool   == PoolCredits(t)
      marked == mined \ DOMAIN spentBy
      outkey(op) == OutputKey(IF op \in mined THEN unspent[op] ELSE Unmined, op[2])
  IN
  /\ t \notin DOMAIN debits
  /\ ~AddDebitsFails(t, key)
  /\ debits' = Put(debits, {t}, LAMBDA x : Amount(marked))
  /\ spentUnconfirmed' = Put(spentUnconfirmed, pool, LAMBDA op : t)
  /\ spentBy' = Put(spentBy, marked, LAMBDA op : key)
  /\ unspent' = Without(unspent, marked)
  /\ IF h = -1
       THEN /\ spentBlockOutPointKeys' =
                 Put(spentBlockOutPointKeys, mined, outkey)
            /\ spentBlockOutPoints' =
                 Put(spentBlockOutPoints, {outkey(op) : op \in mined}, LAMBDA k : t)
            /\ spends' = Put(spends, {t}, LAMBDA x : {})
            /\ UNCHANGED coll
       ELSE /\ coll' = [coll EXCEPT ![blocks[blockIndexes[h]]].spendable =
                          @ - Amount(marked)]
            /\ spends' = Put(spends, {t},
                             LAMBDA x : {outkey(op) : op \in mined \cup pool})
            /\ UNCHANGED <<spentBlockOutPointKeys, spentBlockOutPoints>>
  /\ call' = NoCall
  /\ UNCHANGED <<blocks, blockIndexes, unconfirmed, previousOutpoints,
                 credits, err>>

AddDebitsAgain ==
  /\ call.tx \in DOMAIN debits
  /\ call' = NoCall
  /\ UNCHANGED <<storeVars, err>>

AddDebitsFail ==
  /\ call.tx \notin DOMAIN debits
  /\ AddDebitsFails(call.tx, TxKey(call.tx, call.height))
  /\ err' = "error"
  /\ call' = NoCall
  /\ UNCHANGED storeVars
-----------------------------------------------------------------------------
(* Rollback(h).  kept: how many collections stay; blocks is cut to those   *)
(* first, blockIndexes loses the detached heights one collection at a time *)
(* as the loop reaches them, from the lowest.                              *)
Kept(h) == CHOOSE k \in 0..Len(blocks) :
             /\ \A j \in (k + 1)..Len(blocks) : blocks[j] >= h
             /\ k # 0 => blocks[k] < h
Detached(h) == {blocks[j] : j \in (Kept(h) + 1)..Len(blocks)}
TxsAt(H) == UNION {Range(coll[x].txs) : x \in H}
(* The detached records that go back to the pool: all but coinbases.       *)
MovedWithCoinbase(h) == TxsAt(Detached(h))
Moved(h) == {t \in TxsAt(Detached(h)) : Index[t] # 0}
KeptIndexes(h) == Without(blockIndexes, Detached(h))

(* While the loop runs, a mined key can be looked up only below h.         *)
StillFound(k, h) == k.height \notin Detached(h) /\ HasBlockTx(k)
(* The mined key of a record in a detached collection.                     *)
KeyAt(t, h) == [height |-> CHOOSE x \in Detached(h) : t \in Range(coll[x].txs),
                index |-> Index[t]]

RollbackFails(h) ==
  LET moved  == Moved(h)
      outkey(op) == OutputKey(KeyAt(op[1], h), op[2])
  IN  \/ \E op \in credits \cap DOMAIN spentBy :
           /\ op[1] \in moved
           /\ IF spentBy[op].height = -1
                THEN outkey(op) \notin DOMAIN spentBlockOutPoints
                ELSE \/ ~StillFound(spentBy[op], h)
                     \/ lookupBlockTx(spentBy[op]) \notin DOMAIN debits
                     \/ outkey(op) \notin spends[lookupBlockTx(spentBy[op])]
      \/ \E t \in moved \cap DOMAIN debits : \E k \in spends[t] :
           \/ ~StillFound(TxPart(k), h)
           \/ CreditAt(k) \notin credits

(* The spender of a detached credit in a higher detached collection: its   *)
(* height is still in blockIndexes, its position no longer in blocks.      *)
RollbackPanics(h) ==
  \E op \in credits \cap DOMAIN spentBy :
    /\ op[1] \in Moved(h)
    /\ spentBy[op].height \in Detached(h)
    /\ spentBy[op].height > KeyAt(op[1], h).height

Rollback(h) ==
  LET gone   == Detached(h)
      txs    == TxsAt(gone)
      moved  == Moved(h)
      mine   == {op \in credits : op[1] \in moved}
      spent  == mine \cap DOMAIN spentBy
      pool   == {op \in spent : spentBy[op].height = -1}
      outkey(op) == OutputKey(KeyAt(op[1], h), op[2])
      debit  == moved \cap DOMAIN debits
      prev   == UNION {spends[t] : t \in debit}
      back   == {CreditAt(k) : k \in prev}
      swapped(t) == {outkey(op) : op \in {x \in spent \ pool :
                                            lookupBlockTx(spentBy[x]) = t}}
      lost   == {op \in credits : op[1] \in txs \ moved}
  IN
  /\ ~RollbackFails(h)
  /\ blocks' = SubSeq(blocks, 1, Kept(h))
  /\ blockIndexes' = KeptIndexes(h)
  /\ coll' = Without(coll, gone)
  /\ unconfirmed' = unconfirmed \cup moved
  /\ previousOutpoints' = WithInputs(moved)
  /\ unspent' = Without(unspent, mine)
  /\ spentUnconfirmed' =
       Put(spentUnconfirmed, pool, LAMBDA op : spentBlockOutPoints[outkey(op)])
  /\ spentBlockOutPointKeys' =
       Put(Without(spentBlockOutPointKeys, pool), back,
           LAMBDA op : CHOOSE k \in prev : CreditAt(k) = op)
  /\ spentBlockOutPoints' =
       Put(Without(spentBlockOutPoints, {outkey(op) : op \in pool}), prev,
           LAMBDA k : CHOOSE t \in debit : k \in spends[t])
  /\ spentBy' = Put(Without(spentBy, lost), back, LAMBDA op : Unmined)
  /\ spends' = [t \in DOMAIN spends \ (txs \ moved) |->
                  CASE t \in debit          -> {}
                    [] swapped(t) # {}      ->
                         (spends[t] \ swapped(t)) \cup {OutputKey(Unmined, 0)}
                    [] OTHER                -> spends[t]]
  /\ credits' = credits \ lost
  /\ debits' = Without(debits, txs \ moved)
  /\ UNCHANGED err

RollbackFail(h) ==
  /\ RollbackFails(h)
  /\ err' = IF RollbackPanics(h) THEN "panic" ELSE "error"
  /\ UNCHANGED storeVars
-----------------------------------------------------------------------------
(* The network.  A transaction is known once its parents are, and never    *)
(* together with one that spends the same output.                          *)
Conflicts(t, u) == t # u /\ Ins(t) \cap Ins(u) # {}
ParentsIn(t, S) == \A op \in Ins(t) : op[1] \in S \cup {"foreign"}
MatureIns(t, h) ==
  \A op \in Ins(t) \cap WalletOut :
    Index[op[1]] = 0 => loc[op[1]] \in 1..(h - Maturity)
At(L) == {t \in Tx : loc[t] \in L}
Known == At({Mempool} \cup Heights)

Kinds == {"recv", "redeem"}
Ntfn(kind, t, h) == [kind |-> kind, tx |-> t, height |-> h]
Redeems(t) == Ins(t) \cap watched # {}
Pays(t) == Outs(t) \cap watched # {}
(* What the chain server sends for t when it watches the outpoints W:      *)
(* redeemingtx if t spends one of them, recvtx if t creates one, the one   *)
(* of kind first first; for a block, in the order of the block.            *)
Notify(t, h, first, W) ==
  LET redeem == IF Ins(t) \cap W # {} THEN <<Ntfn("redeem", t, h)>> ELSE <<>>
      recv   == IF Outs(t) \cap W # {} THEN <<Ntfn("recv", t, h)>> ELSE <<>>
  IN  IF first = "redeem" THEN redeem \o recv ELSE recv \o redeem
NotifyAll(S, h, first, W) ==
  LET ntfns[X \in SUBSET S] ==
        IF X = {} THEN <<>>
        ELSE LET t == CHOOSE x \in X : \A y \in X : Index[x] <= Index[y]
             IN  Notify(t, h, first, W) \o ntfns[X \ {t}]
  IN  ntfns[S]
NotifyFrom(h, first, W) ==
  LET ntfns[x \in h..(tip + 1)] ==
        IF x > tip THEN <<>>
                   ELSE NotifyAll(At({x}), x, first, W) \o ntfns[x + 1]
  IN  ntfns[h]

(* The mempool transactions that stay valid on top of a chain.             *)
StillValid(mem, chain) ==
  UNION {X \in SUBSET mem : \A t \in X :
           /\ ParentsIn(t, chain \cup X)
           /\ \A u \in chain : ~Conflicts(t, u)}

Relay(t) ==
  /\ loc[t] = Unknown
  /\ Index[t] # 0
  /\ ParentsIn(t, Known)
  /\ MatureIns(t, tip + 1)
  /\ \A u \in Known : ~Conflicts(t, u)
  /\ loc' = [loc EXCEPT ![t] = Mempool]
  /\ UNCHANGED <<watched, tip>>

(* The next event happens on the network once the wallet has handled what  *)
(* was sent for the last one.                                              *)
Calm == due = <<>> /\ Idle /\ err = "none"
NetTx(t) ==
  /\ Calm
  /\ Relay(t)
  /\ \E first \in Kinds : due' = Notify(t, Mempool, first, watched)
  /\ UNCHANGED <<storeVars, err, call>>

NetBlock(S) ==
  LET chain == At(Heights) \cup S
      keep  == StillValid(At({Mempool}) \ S, chain)
  IN
  /\ Calm
  /\ tip < MaxHeight
  /\ Cardinality(S) <= MaxBlockTxs
  /\ \A t \in S : /\ loc[t] \in {Unknown, Mempool}
                  /\ ParentsIn(t, At(Heights) \cup {u \in S : Index[u] < Index[t]})
                  /\ MatureIns(t, tip + 1)
                  /\ \A u \in chain : ~Conflicts(t, u)
                  /\ \A u \in S \ {t} : Index[u] # Index[t]
  /\ tip' = tip + 1
  /\ loc' = [t \in Tx |-> CASE t \in S             -> tip + 1
                            [] t \in keep          -> Mempool
                            [] t \in At({Mempool}) -> Unknown
                            [] OTHER               -> loc[t]]
  /\ \E first \in Kinds : due' = NotifyAll(S, tip + 1, first, watched)
  /\ UNCHANGED <<storeVars, err, call, watched>>

(* Blocks from height h on leave the chain: one at a time while connected, *)
(* several when the wallet reconnects after a reorganisation (Handshake).  *)
(* A spent coinbase is too deep to be disconnected.                        *)
NetDisconnect(h) ==
  LET cut  == At(h..tip)
      base == {t \in cut : Index[t] = 0}
  IN
  /\ Calm
  /\ h > FinalHeight
  /\ \A t \in Known : \A op \in Ins(t) : op[1] \notin base
  /\ loc' = [t \in Tx |-> CASE t \in base -> Unknown
                            [] t \in cut  -> Mempool
                            [] OTHER      -> loc[t]]
  /\ tip' = h - 1
  /\ due' = <<Ntfn("disconnect", "none", h)>>
  /\ UNCHANGED <<storeVars, err, call, watched>>

(* RescanActiveJob: the notifications of mined transactions come again.    *)
NetRescan(h) ==
  /\ Calm
  /\ \E first \in Kinds : due' = NotifyFrom(h, first, watched)
  /\ due' # <<>>
  /\ UNCHANGED <<storeVars, err, call, netVars>>

(* Account.ImportPrivateKey: the address of an earlier payment is imported *)
(* and the chain rescanned from the start for it alone.                    *)
ImportPrivateKey(op) ==
  /\ Calm
  /\ op \in Late \ watched
  /\ watched' = watched \cup {op}
  /\ \E first \in Kinds : due' = NotifyFrom(1, first, {op})
  /\ UNCHANGED <<storeVars, err, call, loc, tip>>
-----------------------------------------------------------------------------
HandleTx ==
  /\ due # <<>> /\ Idle /\ err = "none"
  /\ Head(due).kind \in Kinds
  /\ InsertTx(Head(due).tx, Head(due).height)
  /\ Returns(Head(due).kind, Head(due).tx, Head(due).height)
  /\ due' = Tail(due)
  /\ UNCHANGED netVars

HandleDisconnect ==
  /\ due # <<>> /\ Idle /\ err = "none"
  /\ Head(due).kind = "disconnect"
  /\ Rollback(Head(due).height) \/ RollbackFail(Head(due).height)
  /\ due' = Tail(due)
  /\ UNCHANGED <<call, netVars>>

HandleCredit ==
  /\ err = "none"
  /\ \E op \in call.credits : AddCredit(op)
  /\ UNCHANGED <<due, netVars>>

HandleDebits ==
  /\ err = "none"
  /\ call.debits
  /\ AddDebits \/ AddDebitsAgain \/ AddDebitsFail
  /\ UNCHANGED <<due, netVars>>

(* Store.UnspentOutputs fails when an entry of unspent leads to no record. *)
(* An unconfirmed credit is left out only for its spent-by key, which      *)
(* spending it unconfirmed does not set.                                   *)
UnspentFails == \E op \in DOMAIN unspent : ~HasBlockTx(unspent[op])
UnspentOutputs ==
  {<<lookupBlockTx(unspent[op]), op[2]>> : op \in DOMAIN unspent} \cup
  {op \in credits : op[1] \in unconfirmed /\ op \notin DOMAIN spentBy}

(* sendfrom, sendmany, sendtoaddress: the transaction was made from        *)
(* outputs UnspentOutputs returned (coinbases only once mature), the chain *)
(* server accepted it, and only then handleSendRawTxReply records it.      *)
Send(t) ==
  /\ Idle /\ err = "none"
  /\ t \in Own
  /\ ~UnspentFails
  /\ Ins(t) \subseteq UnspentOutputs
  /\ Relay(t)
  /\ InsertUnconfirmed(t)
  /\ Returns("send", t, Mempool)
  /\ \E first \in Kinds : due' = due \o Notify(t, Mempool, first, watched)

Init ==
  /\ blocks = <<>>
  /\ blockIndexes = <<>>
  /\ coll = <<>>
  /\ unspent = <<>>
  /\ unconfirmed = {}
  /\ spentBlockOutPoints = <<>>
  /\ spentBlockOutPointKeys = <<>>
  /\ spentUnconfirmed = <<>>
  /\ previousOutpoints = <<>>
  /\ credits = {}
  /\ spentBy = <<>>
  /\ debits = <<>>
  /\ spends = <<>>
  /\ err = "none"
  /\ call = NoCall
  /\ due = <<>>
  /\ watched = WalletOut \ Late
  /\ loc = [t \in Tx |-> Unknown]
  /\ tip = 0

Next ==
  \/ \E t \in Tx : NetTx(t)
  \/ \E S \in SUBSET Tx : NetBlock(S)
  \/ \E h \in 1..tip : NetDisconnect(h)
  \/ \E h \in 1..tip : NetRescan(h)
  \/ \E op \in Late : ImportPrivateKey(op)
  \/ HandleTx
  \/ HandleDisconnect
  \/ HandleCredit
  \/ HandleDebits
  \/ \E t \in Own : Send(t)

Spec == Init /\ [][Next]_vars
-----------------------------------------------------------------------------
(* What the store reports: UnminedDebitTxs, confirms, Balance.             *)
UnminedDebitTxs == Range(spentBlockOutPoints) \cup Range(spentUnconfirmed)

Confirms(h, cur) == IF h = -1 \/ h > cur THEN 0 ELSE cur - h + 1

Balance(minConf, cur) ==
  LET confirmed(h) == Confirms(h, cur) >= minConf
      value(k) == IF confirmed(k.height) THEN Value[CreditAt(k)] ELSE 0
      debited(c) == UNION {spends[t] : t \in Range(c.txs) \cap DOMAIN debits}
      collValue(i) ==
        LET h == blocks[i]
            c == coll[h]
        IN  IF confirmed(h)
              THEN c.spendable +
                   (IF Confirms(h, cur) >= Maturity THEN c.reward ELSE 0)
              ELSE -MapThenSumSet(value, debited(c))
      pool == {op \in credits : op[1] \in unconfirmed /\ op \notin DOMAIN spentBy}
  IN  MapThenSumSet(collValue, DOMAIN blocks)
      - MapThenSumSet(value, DOMAIN spentBlockOutPoints)
      + (IF minConf = 0 THEN Amount(pool) ELSE 0)
-----------------------------------------------------------------------------
(* What the store should agree with whenever the handlers are done with    *)
(* everything the chain server sent (Calm): the network's own state.       *)
SpentOnNet(op) == \E t \in Known : op \in Ins(t)
TrueUnspent == {op \in watched : loc[op[1]] \in Heights /\ ~SpentOnNet(op)}
Spendable(op, minConf) ==
  LET n == Confirms(loc[op[1]], tip)
  IN  n >= minConf /\ (Index[op[1]] = 0 => n >= Maturity)
TrueBalance(minConf) == Amount({op \in TrueUnspent : Spendable(op, minConf)})
OfWallet(S) == {t \in S : Redeems(t) \/ Pays(t)}

(* The types of the store's maps; every block index is a position in       *)
(* blocks, and a record has spends exactly when it has debits.             *)
TypeOK ==
  /\ blocks \in Seq(Heights)
  /\ DOMAIN blockIndexes \subseteq Heights
  /\ \A h \in DOMAIN blockIndexes : blockIndexes[h] \in DOMAIN blocks
  /\ Range(blocks) \subseteq DOMAIN coll
  /\ \A h \in DOMAIN coll : /\ coll[h].txs \in Seq(Tx)
                            /\ coll[h].spendable \in Int
                            /\ coll[h].reward \in Nat
  /\ unspent \in [DOMAIN unspent -> BlockTxKey]
  /\ DOMAIN unspent \subseteq WalletOut
  /\ unconfirmed \subseteq Tx
  /\ spentBlockOutPoints \in [DOMAIN spentBlockOutPoints -> Tx]
  /\ spentBlockOutPointKeys \in [DOMAIN spentBlockOutPointKeys -> BlockOutputKey]
  /\ spentUnconfirmed \in [DOMAIN spentUnconfirmed -> Tx]
  /\ previousOutpoints \in [DOMAIN previousOutpoints -> Tx]
  /\ credits \subseteq WalletOut
  /\ DOMAIN spentBy \subseteq WalletOut
  /\ \A op \in DOMAIN spentBy : spentBy[op] \in BlockTxKey
  /\ debits \in [DOMAIN debits -> Nat]
  /\ DOMAIN spends = DOMAIN debits
  /\ err \in {"none", "error", "panic"}

(* The two maps that track mined credits spent by unconfirmed              *)
(* transactions and the spent-by keys of the credits are written by        *)
(* AddDebits, moveMinedTx, Rollback and removeConflict, each on its own.   *)
(* They always say the same: an entry leads to a mined record of that      *)
(* outpoint and to an unconfirmed transaction that spends it, and a mined  *)
(* credit is marked spent by an unconfirmed transaction exactly when it    *)
(* has an entry.                                                           *)
SpentMapsAgree ==
  /\ \A op \in DOMAIN spentBlockOutPointKeys :
       LET k == spentBlockOutPointKeys[op]
       IN  /\ k \in DOMAIN spentBlockOutPoints
           /\ HasBlockTx(TxPart(k))
           /\ CreditAt(k) = op
           /\ spentBlockOutPoints[k] \in unconfirmed
           /\ op \in Ins(spentBlockOutPoints[k])
  /\ DOMAIN spentBlockOutPoints = Range(spentBlockOutPointKeys)
  /\ \A op \in credits : op[1] \notin unconfirmed =>
       (op \in DOMAIN spentBy /\ spentBy[op] = Unmined
          <=> op \in DOMAIN spentBlockOutPointKeys)

(* A credit marked spent by a mined transaction leads to a record that is  *)
(* there, that has the outpoint as an input, and whose debits lead back to *)
(* the credit: the two ends Rollback and Balance follow from each other.   *)
SpentByResolves ==
  \A op \in DOMAIN spentBy : spentBy[op] # Unmined =>
    /\ HasBlockTx(spentBy[op])
    /\ LET t == lookupBlockTx(spentBy[op])
       IN  /\ op \in Ins(t)
           /\ t \in DOMAIN spends
           /\ \E k \in spends[t] : CreditAt(k) = op

(* previousOutpoints, where findDoubleSpend looks, holds exactly the       *)
(* inputs of the unconfirmed transactions, each leading to a spender.      *)
PoolIndexed ==
  /\ DOMAIN previousOutpoints = UNION {Ins(t) : t \in unconfirmed}
  /\ \A op \in DOMAIN previousOutpoints :
       /\ previousOutpoints[op] \in unconfirmed
       /\ op \in Ins(previousOutpoints[op])

(* An entry of spentUnconfirmed joins two transactions that both are       *)
(* unconfirmed: mining either one, or rolling either one back, moves the   *)
(* entry to where the new state of the pair is tracked.                    *)
SpentUnconfirmedAgrees ==
  \A op \in DOMAIN spentUnconfirmed :
    /\ op[1] \in unconfirmed
    /\ spentUnconfirmed[op] \in unconfirmed
    /\ op \in Ins(spentUnconfirmed[op])

(* A mined credit is in the unspent map or has a spent-by key, and never   *)
(* both or neither: neither makes it unspendable for ever and hides its    *)
(* spending from AddDebits (findPreviousCredits reads unspent), both makes *)
(* markOutputsSpent fail.                                                  *)
SpentOrUnspent ==
  \A op \in credits : op[1] \notin unconfirmed =>
    (op \in DOMAIN unspent <=> op \notin DOMAIN spentBy)

(* What the unconfirmed pool says of spent outputs is consistent, also     *)
(* after double spends were removed from it.                               *)
PoolTracking == SpentMapsAgree /\ PoolIndexed

(* Everything that says who spends what is consistent, whatever order of   *)
(* relay, mining, disconnection and repetition led to it.                  *)
SpendTracking == /\ TypeOK
                 /\ PoolTracking
                 /\ SpentByResolves
                 /\ SpentUnconfirmedAgrees
                 /\ SpentOrUnspent

(* Once a transaction is mined in the store no unconfirmed one that        *)
(* conflicts with it is left (removeDoubleSpends).                         *)
NoMinedConflict ==
  \A t \in unconfirmed, u \in TxsAt(DOMAIN coll) : t # u /\ ~Conflicts(t, u)

(* When all notifications are handled, in whatever order transactions were *)
(* relayed, mined, disconnected, rescanned and sent, the store lists every *)
(* mined output of the wallet that nothing spends, at its place in the     *)
(* current chain.                                                          *)
UnspentComplete ==
  Calm => \A op \in TrueUnspent :
            op \in DOMAIN unspent /\ unspent[op] = TxKey(op[1], loc[op[1]])

(* When all notifications are handled, the unconfirmed pool is the wallet  *)
(* part of the mempool and each block collection the wallet part of its    *)
(* block.                                                                  *)
RecordsAgree ==
  Calm => /\ unconfirmed = OfWallet(At({Mempool}))
          /\ \A h \in Heights : OfWallet(At({h})) =
               (IF HasBlock(h) THEN Range(lookupBlock(h).txs) ELSE {})

(* When all notifications are handled, what ResendUnminedTxs sends again   *)
(* is every mempool transaction that spends from the wallet, none else.    *)
ResendAgrees == Calm => UnminedDebitTxs = {t \in At({Mempool}) : Redeems(t)}

(* When all notifications are handled, the balance kept incrementally in   *)
(* the block deltas never exceeds what the wallet can really spend.        *)
BalanceNeverOver == Calm => \A m \in 1..2 : Balance(m, tip) <= TrueBalance(m)
=============================================================================
