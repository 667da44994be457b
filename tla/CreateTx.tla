------------------------------ MODULE CreateTx ------------------------------
(***************************************************************************)
(* Payments: createtx.go (txToPairs and what it calls), and in             *)
(* rpcserver.go sendPairs, handleSendRawTxReply and the requests around    *)
(* them: sendfrom, sendmany, sendtoaddress, settxfee, lockunspent.         *)
(*                                                                         *)
(* One account with a fixed set of received outputs.  A request runs under *)
(* the account manager's semaphore, so the stores change only between      *)
(* requests; the key store locker and the chain server's best block do not *)
(* wait for it, the process may die at any step, and the chain server may  *)
(* take a transaction while its answer is lost.  The change output's own   *)
(* later life is the business of TxStore.  Scripts and keys are left out   *)
(* but for what they decide: whether an output pays to a public key hash,  *)
(* whether signing is possible, and the size of a transaction, which       *)
(* differs by a byte or so with every signature.                           *)
(***************************************************************************)
EXTENDS Integers, Sequences, SequencesExt, FiniteSetsExt

CONSTANTS
  Op,           \* received outputs
  Amounts,      \* the amounts they may have: a set of functions on Op
  Coinbase,     \* those of a coinbase
  Other,        \* those that are not P2PKH
  Pool,         \* those unconfirmed at first
  Pairs,        \* the requests' payments: sequences of amounts
  Minconfs,     \* the requests' minconf
  Incrs,        \* values of Account.FeeIncrement
  DefaultIncr,  \* defaultFeeIncrement
  Maturity,     \* btcchain.CoinbaseMaturity
  DisallowFree, \* cfg.DisallowFree
  Kilobyte, Bitcent, MaxSatoshi, Threshold,
                \* 1000, btcutil.SatoshiPerBitcent and MaxSatoshi, priority
  BaseSize, InSize, OutSize,
                \* size of a transaction, of an input and an output
  MaxRequests,  \* bound: payments made
  MaxTip,       \* bound: best block
  MaxLocked,    \* bound: locked outpoints
  MaxFaults     \* bound: errors, lost answers and deaths of the process

ASSUME SizeAssumption ==
  /\ {Kilobyte, Bitcent, MaxSatoshi, InSize, OutSize} \subseteq Nat \ {0}
  /\ {BaseSize, Threshold, Maturity, MaxRequests, MaxTip, MaxLocked,
      MaxFaults} \subseteq Nat
ASSUME RequestAssumption ==
  /\ IsFiniteSet(Op)
  /\ Amounts \subseteq [Op -> Nat \ {0}]
  /\ DefaultIncr \in Incrs /\ Incrs \subseteq Nat
  /\ Minconfs \subseteq Nat
  /\ DisallowFree \in BOOLEAN
  /\ Coinbase \cup Other \cup Pool \subseteq Op
  /\ Coinbase \cap Pool = {}
  /\ \A p \in Pairs : p \in Seq(Int)

VARIABLES
  amount, height,   \* of the outputs; height -1 while unconfirmed
  tip,              \* rpcClient.blockStamp
  locked,           \* lockedOutpoints
  unlocked,         \* key store unlocked
  incr,             \* Account.FeeIncrement
  changes,          \* change addresses taken from the key store
  recorded,         \* transactions in the transaction store
  scheduled,        \* files the disk syncer is to write
  savedChanges, savedTxs,  \* what the files hold
  pc, req,          \* the request: where it is, its parameters
  eligible, inputs, fee, changeAddr, tx,   \* locals of txToPairs and sendPairs
  accepted,         \* chain server: transactions it took
  acked,            \* transactions a reply reported as sent
  requests, faults  \* used up of the bounds

fileVars == <<scheduled, savedChanges, savedTxs>>
storeVars == <<height, locked, incr, recorded>>
localVars == <<req, eligible, inputs, fee, changeAddr, tx>>
vars == <<amount, storeVars, tip, unlocked, changes, fileVars, pc, localVars,
          accepted, acked, requests, faults>>
-----------------------------------------------------------------------------
None == 0
NoTx == [ins |-> <<>>, outs |-> <<>>, change |-> 0, size |-> 0, id |-> 0,
         addr |-> None]
NoReq == [pairs |-> <<>>, minconf |-> 0, height |-> 0, incr |-> 0]
(* What others keep of a transaction.                                      *)
Kept(t) == [id |-> t.id, spends |-> Range(t.ins), addr |-> t.addr]
SpentBy(T) == UNION {t.spends : t \in T}
Sum(s) == MapThenSumSet(LAMBDA i : s[i], DOMAIN s)
Total(ops) == MapThenSumSet(LAMBDA op : amount[op], ops)

(* confirms and Confirmed of txstore, IsCoinbase.                          *)
confirms(h, cur) == IF h = -1 \/ h > cur THEN 0 ELSE cur - h + 1
Confirmed(op, n, cur) == confirms(height[op], cur) >= n
IsCoinbase(op) == height[op] # -1 /\ op \in Coinbase

(* UnspentOutputs: mined outputs no recorded transaction spends; of the    *)
(* unconfirmed ones all, as spending them unconfirmed leaves no mark that  *)
(* it looks at.                                                            *)
UnspentOutputs == {op \in Op : height[op] = -1 \/ op \notin SpentBy(recorded)}

Eligible(minconf, cur) ==
  {op \in UnspentOutputs \ Other :
     /\ Confirmed(op, minconf, cur)
     /\ IsCoinbase(op) => Confirmed(op, Maturity, cur)
     /\ op \notin locked}

(* sort.Sort is not stable: outputs of equal amount come in any order.     *)
AnyOrder(S) == SetToSeqs(S)
Sorted(S) == {s \in SetToSeqs(S) :
                \A i, j \in DOMAIN s : i < j => amount[s[i]] >= amount[s[j]]}

(* selectInputs.  The first output is taken before anything is compared.   *)
Prefix(n) == Range(SubSeq(eligible, 1, n))
Enough(need) == {n \in 1..Len(eligible) : Total(Prefix(n)) >= need}
Insufficient(need) == Enough(need) = {} /\ Total(Range(eligible)) < need
selectInputs(need) ==
  IF Enough(need) = {} THEN eligible ELSE SubSeq(eligible, 1, Min(Enough(need)))

chainDepth(target, cur) == IF target = -1 THEN 0 ELSE cur - target + 1
allowFree(cur, ins, size) ==
  ~DisallowFree /\
  MapThenSumSet(LAMBDA op : amount[op] * chainDepth(height[op], cur), ins)
    > Threshold * size
minimumFee(inc, size, outs, free) ==
  LET bySize == IF free /\ size < Kilobyte THEN 0
                                           ELSE (1 + size \div Kilobyte) * inc
  IN  IF bySize < inc /\ \E v \in outs : v < Bitcent THEN inc
      ELSE IF bySize > MaxSatoshi THEN MaxSatoshi ELSE bySize
Size(ins, outs) == BaseSize + InSize * ins + OutSize * outs
-----------------------------------------------------------------------------
Reply == /\ pc' = "idle"
         /\ req' = NoReq
         /\ eligible' = <<>>
         /\ inputs' = <<>>
         /\ fee' = 0
         /\ changeAddr' = None
         /\ tx' = NoTx
Fault == /\ faults < MaxFaults
         /\ faults' = faults + 1

(* sendPairs and txToPairs up to the fee loop.  A request that fails here  *)
(* (locked key store, an amount that is not positive) has no effect.       *)
Refused(pairs) == \/ ~unlocked
                  \/ \E i \in DOMAIN pairs : pairs[i] <= 0
Begin(pairs, minconf) ==
  /\ pc = "idle"
  /\ requests < MaxRequests
  /\ requests' = requests + 1
  /\ IF Refused(pairs)
       THEN UNCHANGED <<pc, localVars>>
       ELSE /\ pc' = "fee"
            /\ req' = [pairs |-> pairs, minconf |-> minconf, height |-> tip,
                       incr |-> incr]
            /\ eligible' \in Sorted(Eligible(minconf, tip))
            /\ UNCHANGED <<inputs, fee, changeAddr, tx>>
  /\ UNCHANGED <<amount, storeVars, tip, unlocked, changes, fileVars,
                 accepted, acked, faults>>

(* A turn of the fee loop: inputs for the present fee and, the first time  *)
(* something is left over, a change address.  On InsufficientFunds a       *)
(* change address taken in an earlier turn stays taken, unsaved.           *)
Need == Sum(req.pairs) + fee
Change == Total(Range(inputs)) - Need

SelectInputs ==
  /\ pc = "fee"
  /\ ~Insufficient(Need)
  /\ pc' = "sign"
  /\ inputs' = selectInputs(Need)
  /\ LET left == Total(Range(inputs')) > Need
     IN  /\ changes' = IF left /\ changeAddr = None THEN changes + 1 ELSE changes
         /\ changeAddr' = IF left /\ changeAddr = None THEN changes' ELSE changeAddr
  /\ UNCHANGED <<amount, storeVars, tip, unlocked, fileVars, req, eligible, fee,
                 tx, accepted, acked, requests, faults>>

NoFunds ==
  /\ pc = "fee"
  /\ Insufficient(Need)
  /\ Reply
  /\ UNCHANGED <<amount, storeVars, tip, unlocked, changes, fileVars, accepted,
                 acked, requests, faults>>

(* The same turn, after the signatures: the size is now known, more bytes  *)
(* than the least.  If it asks for a higher fee the loop starts over.      *)
KeepFee(min) == fee
RaiseFee(min) == min

Sign(more) ==
  LET outs == IF Change > 0 THEN Append(req.pairs, Change) ELSE req.pairs
      size == Size(Len(inputs), Len(outs)) + more
      min  == minimumFee(req.incr, size, Range(outs),
                         allowFree(req.height, Range(inputs), size))
  IN
  /\ pc = "sign"
  /\ unlocked \/ inputs = <<>>
  /\ more <= Len(inputs)
  /\ IF fee < min
       THEN /\ fee' = RaiseFee(min)
            /\ pc' = "fee"
            /\ UNCHANGED tx
       ELSE /\ pc' = IF changeAddr = None THEN "send" ELSE "save"
            /\ tx' = [ins |-> inputs, outs |-> req.pairs, change |-> Change,
                      size |-> size, id |-> requests,
                      addr |-> IF Change > 0 THEN changeAddr ELSE None]
            /\ UNCHANGED fee
  /\ UNCHANGED <<amount, storeVars, tip, unlocked, changes, fileVars, req,
                 eligible, inputs, changeAddr, accepted, acked, requests, faults>>

(* The key store was locked since the request began.                       *)
SignFails ==
  /\ pc = "sign"
  /\ ~unlocked /\ inputs # <<>>
  /\ Reply
  /\ UNCHANGED <<amount, storeVars, tip, unlocked, changes, fileVars, accepted,
                 acked, requests, faults>>

(* sendPairs: with a change address the wallet file is written, then the   *)
(* chain server is asked to watch the address, then it gets the            *)
(* transaction.                                                            *)
Flushed(files) ==
  /\ scheduled' = {}
  /\ savedChanges' = IF "wallet" \in files THEN changes ELSE savedChanges
  /\ savedTxs' = IF "txs" \in files THEN recorded ELSE savedTxs
Unflushed(files) ==
  /\ scheduled' = files
  /\ UNCHANGED <<savedChanges, savedTxs>>
SendUnsaved ==
  /\ pc = "save"
  /\ pc' = "send"
  /\ Unflushed(scheduled \cup {"wallet"})
  /\ UNCHANGED <<faults, localVars>>
SaveChange ==
  /\ pc = "save"
  /\ \/ /\ Flushed(scheduled \cup {"wallet"})
        /\ pc' = "send"
        /\ UNCHANGED <<faults, localVars>>
     \/ /\ Fault
        /\ Flushed(scheduled \cup {"wallet"}) \/ Unflushed(scheduled \cup {"wallet"})
        /\ Reply

SaveStep == /\ SaveChange
            /\ UNCHANGED <<amount, storeVars, tip, unlocked, changes, accepted,
                           acked, requests>>

(* SendRawTransaction.  The chain server takes a transaction unless one it *)
(* took spends the same output; an error can also mean that the answer was *)
(* lost.                                                                   *)
SendRawTransaction ==
  LET valid == Range(tx.ins) \cap SpentBy(accepted) = {} /\ tx.ins # <<>>
  IN
  /\ pc = "send"
  /\ \/ /\ valid
        /\ accepted' = accepted \cup {Kept(tx)}
        /\ pc' = "record"
        /\ UNCHANGED <<faults, localVars>>
     \/ /\ valid
        /\ Fault
        /\ accepted' \in {accepted, accepted \cup {Kept(tx)}}
        /\ Reply
     \/ /\ ~valid
        /\ Reply
        /\ UNCHANGED <<accepted, faults>>
  /\ UNCHANGED <<amount, storeVars, tip, unlocked, changes, fileVars, acked,
                 requests>>

(* handleSendRawTxReply: InsertTx and AddDebits, which do not fail for     *)
(* credits that the store has just offered, then the file.  Without a      *)
(* chain client, or when the flush fails, the reply is an error although   *)
(* the transaction is out.                                                 *)
Record ==
  /\ pc = "record"
  /\ recorded' = recorded \cup {Kept(tx)}
  /\ scheduled' = scheduled \cup {"txs"}
  /\ pc' = "flush"
  /\ UNCHANGED <<amount, height, locked, incr, tip, unlocked, changes,
                 savedChanges, savedTxs, localVars, accepted, acked, requests,
                 faults>>
ReplyUnflushed ==
  /\ pc = "flush"
  /\ acked' = acked \cup {Kept(tx)}
  /\ UNCHANGED <<fileVars, faults>>
FlushAccount ==
  /\ pc = "flush"
  /\ \/ /\ Flushed(scheduled)
        /\ acked' = acked \cup {Kept(tx)}
        /\ UNCHANGED faults
     \/ /\ Fault
        /\ UNCHANGED <<fileVars, acked>>

FlushStep == /\ FlushAccount
             /\ Reply
             /\ UNCHANGED <<amount, storeVars, tip, unlocked, changes, accepted,
                            requests>>
-----------------------------------------------------------------------------
Idle == pc = "idle" /\ UNCHANGED <<pc, localVars>>
Quiet == UNCHANGED <<amount, accepted, acked, requests>>

(* lockunspent, settxfee, walletpassphrase.                                *)
LockUnspent(S) ==
  /\ Idle
  /\ Cardinality(S) <= MaxLocked
  /\ locked' = S
  /\ UNCHANGED <<height, incr, recorded, tip, unlocked, changes, fileVars, faults>>
  /\ Quiet
SetTxFee(f) ==
  /\ Idle
  /\ incr' = f
  /\ UNCHANGED <<height, locked, recorded, tip, unlocked, changes, fileVars, faults>>
  /\ Quiet
SetUnlocked(b) ==
  /\ b => pc = "idle"
  /\ unlocked' = b
  /\ UNCHANGED <<storeVars, tip, changes, fileVars, pc, localVars, faults>>
  /\ Quiet

(* The best block changes at any time, what the store knows of it between  *)
(* requests.                                                               *)
NewBlock ==
  /\ tip < MaxTip
  /\ tip' = tip + 1
  /\ UNCHANGED <<storeVars, unlocked, changes, fileVars, pc, localVars, faults>>
  /\ Quiet
Mined(op) ==
  /\ Idle
  /\ height[op] = -1
  /\ height' = [height EXCEPT ![op] = tip]
  /\ UNCHANGED <<locked, incr, recorded, tip, unlocked, changes, fileVars, faults>>
  /\ Quiet

(* The disk syncer's own write, and a death of the process: locked         *)
(* outpoints, fee increment and lock state are not saved.                  *)
DiskSync ==
  /\ Idle
  /\ scheduled # {}
  /\ Flushed(scheduled)
  /\ UNCHANGED <<storeVars, tip, unlocked, changes, faults>>
  /\ Quiet
Crash ==
  /\ Fault
  /\ changes' = savedChanges
  /\ recorded' = savedTxs
  /\ locked' = {}
  /\ unlocked' = FALSE
  /\ incr' = DefaultIncr
  /\ scheduled' = {}
  /\ Reply
  /\ UNCHANGED <<amount, height, tip, savedChanges, savedTxs, accepted, acked,
                 requests>>

Init ==
  /\ amount \in Amounts
  /\ height = [op \in Op |-> IF op \in Pool THEN -1 ELSE 1]
  /\ tip = 1
  /\ locked = {}
  /\ unlocked = FALSE
  /\ incr = DefaultIncr
  /\ changes = 0
  /\ recorded = {}
  /\ scheduled = {}
  /\ savedChanges = 0
  /\ savedTxs = {}
  /\ pc = "idle"
  /\ req = NoReq
  /\ eligible = <<>>
  /\ inputs = <<>>
  /\ fee = 0
  /\ changeAddr = None
  /\ tx = NoTx
  /\ accepted = {}
  /\ acked = {}
  /\ requests = 0
  /\ faults = 0

Step == \/ SelectInputs \/ NoFunds
        \/ \E more \in 0..Cardinality(Op) : Sign(more)
        \/ SignFails \/ SaveStep \/ SendRawTransaction \/ Record \/ FlushStep

Next ==
  \/ \E pairs \in Pairs, minconf \in Minconfs : Begin(pairs, minconf)
  \/ Step
  \/ \E S \in SUBSET Op : LockUnspent(S)
  \/ \E f \in Incrs : SetTxFee(f)
  \/ \E b \in BOOLEAN : SetUnlocked(b)
  \/ NewBlock
  \/ \E op \in Op : Mined(op)
  \/ DiskSync
  \/ Crash

(* A request that runs goes on: the handler is one goroutine that holds    *)
(* the semaphore and waits for nothing but the answers modelled here.      *)
Spec == Init /\ [][Next]_vars /\ WF_vars(Step)
-----------------------------------------------------------------------------
(* What leaves the loop balances: the inputs pay for the outputs, the      *)
(* change and the fee, and nothing else.                                   *)
Balanced ==
  /\ tx.change >= 0
  /\ Total(Range(tx.ins)) = Sum(tx.outs) + tx.change + fee
  /\ tx.change > 0 <=> tx.addr # None

(* The fee is at least what minimumFee asks of the final transaction, and  *)
(* no more than it asks of one with as many inputs and a change output.    *)
FeeRight ==
  LET outs == IF tx.change > 0 THEN Append(tx.outs, tx.change) ELSE tx.outs
      n    == Len(tx.ins)
  IN  /\ fee >= minimumFee(req.incr, tx.size, Range(outs),
                           allowFree(req.height, Range(tx.ins), tx.size))
      /\ fee <= minimumFee(req.incr, Size(n, Len(tx.outs) + 1) + n,
                           Range(outs), FALSE)

(* "selectInputs selects the minimum number possible of unspent outputs"   *)
(* (createtx.go:81): no smaller set of eligible outputs pays for the       *)
(* outputs and the fee.                                                    *)
FewestInputs ==
  \A S \in SUBSET Range(eligible) :
    S # {} /\ Cardinality(S) < Len(tx.ins) => Total(S) < Sum(tx.outs) + fee

(* A transaction that txToPairs returned balances, pays the right fee and  *)
(* has the fewest inputs possible.                                         *)
TxRight == tx # NoTx => Balanced /\ FeeRight /\ FewestInputs

(* Whenever the process dies, the change of every transaction the chain    *)
(* server ever took goes to an address that the wallet file has, and to    *)
(* one that no other such transaction used.                                *)
ChangeKept ==
  \A t \in accepted :
    /\ t.addr <= savedChanges
    /\ \A u \in accepted : u # t /\ t.addr # None => u.addr # t.addr

(* A payment reported as sent is in the transaction file, so that a        *)
(* restart never offers its mined inputs again.                            *)
SentIsRecorded == acked \subseteq savedTxs

(* A payment request ends: the search for a fee does not go on for ever.   *)
PaymentEnds == pc # "idle" ~> pc = "idle"
=============================================================================
