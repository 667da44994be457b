--------------------------- MODULE CreateTxProofs ---------------------------
(***************************************************************************)
(* Proofs about payments: what the chain server took and what users were   *)
(* told, against what the files hold, and the transactions that the search *)
(* for inputs and a fee ends with; for any outputs, requests and bounds on *)
(* faults.                                                                 *)
(***************************************************************************)
EXTENDS CreateTx, FiniteSetTheorems, TLAPS

(* The change address of the request that runs: new while the wallet file  *)
(* is not written, in the file from then on, and in no transaction that    *)
(* the chain server has, until it has this one.                            *)
Addresses ==
  /\ changes \in Nat /\ savedChanges \in Nat
  /\ savedChanges <= changes
  /\ changeAddr \in Nat /\ changeAddr <= changes
  /\ pc \in {"fee", "sign", "save"} /\ changeAddr # None => changeAddr > savedChanges
  /\ pc = "idle" => changeAddr = None

TxAddress ==
  /\ tx.addr \in Nat
  /\ pc = "save" => tx.addr \in {None, changeAddr}
  /\ pc = "send" => /\ tx.addr <= savedChanges
                    /\ tx.addr # None => \A t \in accepted : t.addr # tx.addr

Accepted == \A t \in accepted : t.addr \in Nat

(* Between Record and the reply the transaction waits for the file.        *)
Recorded ==
  /\ savedTxs \subseteq recorded
  /\ pc = "flush" => Kept(tx) \in recorded /\ "txs" \in scheduled

IInv == /\ Addresses
        /\ TxAddress
        /\ Accepted
        /\ Recorded
        /\ ChangeKept
        /\ SentIsRecorded
-----------------------------------------------------------------------------
LEMMA InitIInv == Init => IInv
BY DEF Init, IInv, Addresses, TxAddress, Accepted, Recorded, ChangeKept,
       SentIsRecorded, None, NoTx

(* A step that leaves the files, the request and the chain server alone.   *)
LEMMA Frame ==
  ASSUME IInv,
         UNCHANGED <<changes, recorded, savedChanges, savedTxs, pc, changeAddr, tx,
                     accepted, acked>>,
         scheduled \subseteq scheduled' \/ pc = "idle"
  PROVE  IInv'
BY DEF IInv, Addresses, TxAddress, Accepted, Recorded, ChangeKept,
       SentIsRecorded, Kept

(* The end of a request that leaves changed files for later.               *)
LEMMA ReplyIInv ==
  ASSUME IInv, Reply,
         changes' = changes \/ changes' = savedChanges,
         savedChanges' \in {savedChanges, changes}, savedChanges' <= changes',
         savedTxs \subseteq savedTxs', savedTxs' \subseteq recorded',
         UNCHANGED <<accepted, acked>>
  PROVE  IInv'
BY DEF IInv, Addresses, TxAddress, Accepted, Recorded, ChangeKept,
       SentIsRecorded, Reply, None, NoTx
-----------------------------------------------------------------------------
LEMMA FeeLoopIInv ==
  ASSUME IInv, \/ \E pairs \in Pairs, minconf \in Minconfs : Begin(pairs, minconf)
               \/ SelectInputs \/ NoFunds
               \/ \E more \in 0..Cardinality(Op) : Sign(more)
               \/ SignFails
  PROVE  IInv'
<1>1. ASSUME NEW pairs \in Pairs, NEW minconf \in Minconfs, Begin(pairs, minconf)
      PROVE  IInv'
  BY <1>1 DEF Begin, IInv, Addresses, TxAddress, Accepted, Recorded, ChangeKept,
       SentIsRecorded, Kept, fileVars, localVars, storeVars, None
<1>2. CASE SelectInputs
  BY <1>2 DEF SelectInputs, IInv, Addresses, TxAddress, Accepted, Recorded, ChangeKept,
       SentIsRecorded, Kept, fileVars, storeVars, None
<1>3. CASE NoFunds
  BY <1>3, ReplyIInv DEF NoFunds, IInv, Addresses, Recorded, fileVars, storeVars
<1>4. ASSUME NEW more \in 0..Cardinality(Op), Sign(more) PROVE IInv'
  BY <1>4 DEF Sign, IInv, Addresses, TxAddress, Accepted, Recorded, ChangeKept,
       SentIsRecorded, Kept, fileVars, storeVars, None
<1>5. CASE SignFails
  BY <1>5, ReplyIInv DEF SignFails, IInv, Addresses, Recorded, fileVars, storeVars
<1>. QED
  BY <1>1, <1>2, <1>3, <1>4, <1>5

(* Once the wallet file is written the address is not new any more.        *)
LEMMA SaveIInv == ASSUME IInv, SaveStep PROVE IInv'
<1>1. /\ pc = "save"
      /\ UNCHANGED <<changes, recorded, accepted, acked>>
  BY DEF SaveStep, SaveChange, storeVars
<1>. DEFINE files == scheduled \cup {"wallet"}
<1>2. CASE Flushed(files) /\ pc' = "send" /\ UNCHANGED <<faults, localVars>>
  <2>1. /\ savedChanges' = changes
        /\ savedTxs' \in {savedTxs, recorded}
        /\ UNCHANGED <<changeAddr, tx>>
    BY <1>2 DEF Flushed, localVars
  <2>2. tx.addr # None => \A t \in accepted : t.addr # tx.addr
    BY <1>1 DEF IInv, Addresses, TxAddress, Accepted, ChangeKept
  <2>. QED
    BY <1>1, <1>2, <2>1, <2>2 DEF IInv, Addresses, TxAddress, Accepted, Recorded,
         ChangeKept, SentIsRecorded, None
<1>3. CASE (Flushed(files) \/ Unflushed(files)) /\ Reply
  <2>1. savedChanges' \in {savedChanges, changes} /\ savedTxs' \in {savedTxs, recorded}
    BY <1>3 DEF Flushed, Unflushed
  <2>. QED
    BY <1>1, <1>3, <2>1, ReplyIInv DEF IInv, Addresses, Recorded
<1>. QED
  BY <1>2, <1>3 DEF SaveStep, SaveChange

(* The chain server may take the transaction, whatever the wallet hears.   *)
LEMMA SendIInv == ASSUME IInv, SendRawTransaction PROVE IInv'
<1>1. /\ pc = "send"
      /\ accepted' \in {accepted, accepted \cup {Kept(tx)}}
      /\ UNCHANGED <<changes, recorded, savedChanges, savedTxs, acked>>
      /\ Reply \/ (pc' = "record" /\ UNCHANGED <<changeAddr, tx>>)
  BY DEF SendRawTransaction, storeVars, fileVars, localVars
<1>2. (Accepted /\ ChangeKept)'
  <2>1. Kept(tx).addr = tx.addr
    BY DEF Kept
  <2>. QED
    BY <1>1, <2>1 DEF IInv, TxAddress, Accepted, ChangeKept
<1>3. (Addresses /\ TxAddress /\ Recorded /\ SentIsRecorded)'
  <2>1. CASE Reply
    BY <1>1, <2>1 DEF Reply, IInv, Addresses, TxAddress, Recorded, SentIsRecorded, None, NoTx
  <2>2. CASE pc' = "record" /\ UNCHANGED <<changeAddr, tx>>
    BY <1>1, <2>2 DEF IInv, Addresses, TxAddress, Recorded, SentIsRecorded
  <2>. QED
    BY <1>1, <2>1, <2>2
<1>. QED
  BY <1>2, <1>3 DEF IInv

(* The reply follows the write of a file that has the transaction.         *)
LEMMA RecordIInv == ASSUME IInv, Record \/ FlushStep PROVE IInv'
<1>1. CASE Record
  BY <1>1 DEF Record, IInv, Addresses, TxAddress, Accepted, Recorded, ChangeKept,
       SentIsRecorded, Kept, localVars
<1>2. CASE FlushStep
  <2>1. pc = "flush" /\ UNCHANGED <<changes, recorded, accepted>> /\ Reply
    BY <1>2 DEF FlushStep, FlushAccount, storeVars
  <2>2. CASE Flushed(scheduled) /\ acked' = acked \cup {Kept(tx)}
    <3>1. savedTxs' = recorded /\ savedChanges' \in {savedChanges, changes}
      BY <2>1, <2>2 DEF Flushed, IInv, Recorded
    <3>2. SentIsRecorded'
      BY <2>1, <2>2, <3>1 DEF IInv, Recorded, SentIsRecorded
    <3>. QED
      BY <2>1, <3>1, <3>2 DEF Reply, IInv, Addresses, TxAddress, Accepted, Recorded,
           ChangeKept, None, NoTx
  <2>3. CASE UNCHANGED <<fileVars, acked>>
    BY <2>1, <2>3, ReplyIInv DEF fileVars, IInv, Addresses, Recorded
  <2>. QED
    BY <1>2, <2>2, <2>3 DEF FlushStep, FlushAccount
<1>. QED
  BY <1>1, <1>2

LEMMA OtherIInv ==
  ASSUME IInv, \/ \E S \in SUBSET Op : LockUnspent(S)
               \/ \E f \in Incrs : SetTxFee(f)
               \/ \E b \in BOOLEAN : SetUnlocked(b)
               \/ NewBlock
               \/ \E op \in Op : Mined(op)
  PROVE  IInv'
BY Frame DEF LockUnspent, SetTxFee, SetUnlocked, NewBlock, Mined, Idle, Quiet,
       fileVars, localVars, storeVars

(* After a death of the process the stores are what the files hold.        *)
LEMMA DiskIInv == ASSUME IInv, DiskSync \/ Crash PROVE IInv'
<1>1. CASE DiskSync
  BY <1>1 DEF DiskSync, Idle, Quiet, Flushed, IInv, Addresses, TxAddress, Accepted,
       Recorded, ChangeKept, SentIsRecorded, localVars, storeVars
<1>2. CASE Crash
  BY <1>2, ReplyIInv DEF Crash, IInv, Addresses
<1>. QED
  BY <1>1, <1>2
-----------------------------------------------------------------------------
LEMMA NextIInv == IInv /\ [Next]_vars => IInv'
<1>. SUFFICES ASSUME IInv, [Next]_vars PROVE IInv'
  OBVIOUS
<1>1. CASE UNCHANGED vars
  BY <1>1, Frame DEF vars, storeVars, fileVars, localVars
<1>. QED
  BY <1>1, FeeLoopIInv, SaveIInv, SendIInv, RecordIInv, OtherIInv, DiskIInv
     DEF Next, Step

(* sendPairs writes the wallet file before it sends a transaction with     *)
(* change: whenever the process dies, whatever is written or lost before,  *)
(* the change of every transaction that the chain server took goes to an   *)
(* address in the file, and to one of its own.                             *)
THEOREM ChangeIsKept == Spec => []ChangeKept
<1>1. IInv => ChangeKept
  BY DEF IInv
<1>. QED
  BY InitIInv, NextIInv, <1>1, PTL DEF Spec

(* handleSendRawTxReply reports a payment only after the transaction file  *)
(* with it was written, and no later write or restart loses it.            *)
THEOREM SentStaysRecorded == Spec => []SentIsRecorded
<1>1. IInv => SentIsRecorded
  BY DEF IInv
<1>. QED
  BY InitIInv, NextIInv, <1>1, PTL DEF Spec
-----------------------------------------------------------------------------
(* Sums.  MapThenSumSet is a recursive function over the subsets of a set: *)
(* it exists, it is the only one, and the order in which it picks the      *)
(* elements does not matter.                                               *)
Sigma(v, S) == MapThenSumSet(LAMBDA x : v[x], S)
Pick(T) == CHOOSE x \in T : TRUE
Turn(v, g, T) == IF T = {} THEN 0 ELSE v[Pick(T)] + g[T \ {Pick(T)}]
Sums(v, g, S) == g = [T \in SUBSET S |-> Turn(v, g, T)]

LEMMA Least ==
  ASSUME NEW S \in SUBSET Nat, S # {}
  PROVE  \E n \in S : \A i \in S : n <= i
<1>1. \E n \in S : \A i \in S : <<i, n>> \notin OpToRel(<, Nat)
  BY WFMin, NatLessThanWellFounded
<1>2. PICK n \in S : \A i \in S : <<i, n>> \notin OpToRel(<, Nat)
  BY <1>1
<1>3. OpToRel(<, Nat) = {ss \in Nat \X Nat : ss[1] < ss[2]}
  BY DEF OpToRel
<1>4. \A i \in S : ~(i < n)
  BY <1>2, <1>3
<1>. QED
  BY <1>4

(* One of the smallest sets of a family of finite sets.                    *)
LEMMA Smallest ==
  ASSUME NEW F, F # {}, \A T \in F : IsFiniteSet(T)
  PROVE  \E T \in F : \A U \in F : Cardinality(T) <= Cardinality(U)
<1>. DEFINE C == {Cardinality(T) : T \in F}
<1>1. C \in SUBSET Nat /\ C # {}
  BY FS_CardinalityType
<1>2. PICK n \in C : \A i \in C : n <= i
  <2>. HIDE DEF C
  <2>. QED
    BY <1>1, Least
<1>. QED
  BY <1>2

LEMMA PickIn ==
  ASSUME NEW S, S # {}, IsFiniteSet(S)
  PROVE  /\ Pick(S) \in S /\ S \ {Pick(S)} \in SUBSET S /\ IsFiniteSet(S \ {Pick(S)})
         /\ Cardinality(S \ {Pick(S)}) = Cardinality(S) - 1
         /\ Cardinality(S) \in Nat /\ Cardinality(S) # 0
<1>1. Pick(S) \in S
  BY DEF Pick
<1>. QED
  BY <1>1, FS_RemoveElement, FS_EmptySet, FS_CardinalityType

(* By induction on the size of the subsets: were there no such function    *)
(* for subsets of up to m elements, m least, one for fewer would make one. *)
LEMMA SumsExist ==
  ASSUME NEW v, NEW S, IsFiniteSet(S)
  PROVE  \E g : Sums(v, g, S)
<1>. DEFINE D(n) == {T \in SUBSET S : Cardinality(T) <= n}
            Sol(g, n) == g = [T \in D(n) |-> Turn(v, g, T)]
            Bad == {n \in Nat : ~ \E g : Sol(g, n)}
<1>1. \A T \in SUBSET S : IsFiniteSet(T) /\ Cardinality(T) \in Nat
                          /\ Cardinality(T) <= Cardinality(S)
  BY FS_Subset, FS_CardinalityType
<1>2. Bad = {}
  <2>1. SUFFICES ASSUME Bad # {} PROVE FALSE
    OBVIOUS
  <2>2. PICK m \in Bad : \A i \in Bad : m <= i
    <3>1. Bad \in SUBSET Nat
      OBVIOUS
    <3>. HIDE DEF Bad
    <3>. QED
      BY <2>1, <3>1, Least
  <2>3. PICK g : m # 0 => Sol(g, m - 1)
    <3>1. CASE m = 0
      BY <3>1
    <3>2. CASE m # 0
      <4>1. m - 1 \in Nat /\ ~(m <= m - 1)
        BY <3>2
      <4>2. m - 1 \notin Bad
        BY <2>2, <4>1
      <4>. QED
        BY <4>1, <4>2
    <3>. QED
      BY <3>1, <3>2
  <2>. DEFINE h == [T \in D(m) |-> Turn(v, g, T)]
  <2>4. ASSUME NEW T \in D(m) PROVE Turn(v, g, T) = Turn(v, h, T)
    <3>1. CASE T = {}
      BY <3>1 DEF Turn
    <3>2. CASE T # {}
      <4>. DEFINE U == T \ {Pick(T)}
      <4>1. U \in SUBSET S /\ Cardinality(U) = Cardinality(T) - 1 /\ Cardinality(T) \in Nat
            /\ Cardinality(T) # 0
        BY <1>1, <3>2, PickIn
      <4>2. m # 0 /\ Cardinality(U) <= m - 1 /\ Cardinality(U) <= m
        BY <4>1
      <4>3. U \in D(m - 1) /\ U \in D(m)
        BY <4>1, <4>2
      <4>4. Sol(g, m - 1)
        BY <2>3, <4>2
      <4>5. g[U] = Turn(v, g, U)
        BY <4>3, <4>4
      <4>6. h[U] = g[U]
        BY <4>3, <4>5
      <4>. HIDE DEF h
      <4>. QED
        BY <4>6 DEF Turn
    <3>. QED
      BY <3>1, <3>2
  <2>5. h = [T \in D(m) |-> Turn(v, h, T)]
    <3>1. \A T \in D(m) : h[T] = Turn(v, h, T)
      BY <2>4
    <3>2. h = [T \in D(m) |-> h[T]]
      OBVIOUS
    <3>. HIDE DEF h
    <3>. QED
      BY <3>1, <3>2
  <2>6. Sol(h, m)
    BY <2>5
  <2>. QED
    BY <2>2, <2>6
<1>3. Cardinality(S) \in Nat
  BY FS_CardinalityType
<1>4. PICK g : Sol(g, Cardinality(S))
  BY <1>2, <1>3
<1>5. D(Cardinality(S)) = SUBSET S
  BY <1>1
<1>. QED
  BY <1>4, <1>5 DEF Sums

LEMMA SigmaSums ==
  ASSUME NEW v, NEW S, IsFiniteSet(S)
  PROVE  \E g : Sums(v, g, S) /\ Sigma(v, S) = g[S]
<1>1. Sigma(v, S) = (CHOOSE g : g = [T \in SUBSET S |-> Turn(v, g, T)])[S]
  BY DEF Sigma, MapThenSumSet, MapThenFoldSet, Turn, Pick
<1>2. Sigma(v, S) = (CHOOSE g : Sums(v, g, S))[S]
  BY <1>1 DEF Sums
<1>. QED
  BY <1>2, SumsExist

(* The function for S gives the sums of the subsets of S as well.          *)
LEMMA SumsAgree ==
  ASSUME NEW v, NEW S, NEW g, NEW T \in SUBSET S, IsFiniteSet(S), Sums(v, g, S)
  PROVE  Sigma(v, T) = g[T]
<1>1. IsFiniteSet(T)
  BY FS_Subset
<1>2. PICK h : Sums(v, h, T) /\ Sigma(v, T) = h[T]
  BY <1>1, SigmaSums
<1>. DEFINE F == {U \in SUBSET T : h[U] # g[U]}
<1>3. F = {}
  <2>1. SUFFICES ASSUME F # {} PROVE FALSE
    OBVIOUS
  <2>2. \A U \in F : IsFiniteSet(U)
    BY <1>1, FS_Subset
  <2>3. PICK U \in F : \A W \in F : Cardinality(U) <= Cardinality(W)
    <3>. HIDE DEF F
    <3>. QED
      BY <2>1, <2>2, Smallest
  <2>4. h[U] = Turn(v, h, U) /\ g[U] = Turn(v, g, U)
    BY <1>2 DEF Sums
  <2>5. CASE U = {}
    BY <2>4, <2>5 DEF Turn
  <2>6. CASE U # {}
    <3>. DEFINE W == U \ {Pick(U)}
    <3>1. W \in SUBSET T /\ Cardinality(W) = Cardinality(U) - 1 /\ Cardinality(U) \in Nat
      BY <2>2, <2>6, PickIn
    <3>2. ~(Cardinality(U) <= Cardinality(W))
      BY <3>1
    <3>3. h[W] = g[W]
      BY <2>3, <3>1, <3>2
    <3>. QED
      BY <2>4, <2>6, <3>3 DEF Turn
  <2>. QED
    BY <2>5, <2>6
<1>. QED
  BY <1>2, <1>3

(* So a sum is what its definition says.                                   *)
LEMMA SigmaStep ==
  ASSUME NEW v, NEW S, IsFiniteSet(S)
  PROVE  /\ S = {} => Sigma(v, S) = 0
         /\ S # {} => Sigma(v, S) = v[Pick(S)] + Sigma(v, S \ {Pick(S)})
<1>1. PICK g : Sums(v, g, S) /\ Sigma(v, S) = g[S]
  BY SigmaSums
<1>2. g[S] = Turn(v, g, S)
  BY <1>1 DEF Sums
<1>3. S # {} => Sigma(v, S \ {Pick(S)}) = g[S \ {Pick(S)}]
  BY <1>1, PickIn, SumsAgree
<1>. QED
  BY <1>1, <1>2, <1>3 DEF Turn

LEMMA SigmaNat ==
  ASSUME NEW v, NEW S, IsFiniteSet(S), \A x \in S : v[x] \in Nat
  PROVE  Sigma(v, S) \in Nat
<1>. DEFINE F == {U \in SUBSET S : Sigma(v, U) \notin Nat}
<1>1. F = {}
  <2>1. SUFFICES ASSUME F # {} PROVE FALSE
    OBVIOUS
  <2>2. \A U \in F : IsFiniteSet(U)
    BY FS_Subset
  <2>3. PICK U \in F : \A W \in F : Cardinality(U) <= Cardinality(W)
    <3>. HIDE DEF F
    <3>. QED
      BY <2>1, <2>2, Smallest
  <2>4. U # {} /\ Sigma(v, U) = v[Pick(U)] + Sigma(v, U \ {Pick(U)})
    BY <2>2, SigmaStep
  <2>. DEFINE W == U \ {Pick(U)}
  <2>5. /\ W \in SUBSET S /\ Cardinality(W) = Cardinality(U) - 1 /\ Cardinality(U) \in Nat
        /\ Pick(U) \in S
    BY <2>2, <2>4, PickIn
  <2>6. ~(Cardinality(U) <= Cardinality(W))
    BY <2>5
  <2>7. Sigma(v, W) \in Nat /\ v[Pick(U)] \in Nat
    BY <2>3, <2>5, <2>6
  <2>. QED
    BY <2>4, <2>7
<1>. QED
  BY <1>1

(* The sum may be taken apart at any element.                              *)
LEMMA SigmaPick ==
  ASSUME NEW v, NEW S, NEW x \in S, IsFiniteSet(S), \A y \in S : v[y] \in Nat
  PROVE  Sigma(v, S) = v[x] + Sigma(v, S \ {x})
<1>. DEFINE F == {U \in SUBSET S : \E y \in U : Sigma(v, U) # v[y] + Sigma(v, U \ {y})}
<1>1. F = {}
  <2>1. SUFFICES ASSUME F # {} PROVE FALSE
    OBVIOUS
  <2>2. \A U \in F : IsFiniteSet(U)
    BY FS_Subset
  <2>3. PICK U \in F : \A W \in F : Cardinality(U) <= Cardinality(W)
    <3>. HIDE DEF F
    <3>. QED
      BY <2>1, <2>2, Smallest
  <2>4. PICK y \in U : Sigma(v, U) # v[y] + Sigma(v, U \ {y})
    OBVIOUS
  <2>. DEFINE c == Pick(U)
  <2>5. /\ c \in U /\ Sigma(v, U) = v[c] + Sigma(v, U \ {c})
        /\ IsFiniteSet(U) /\ Cardinality(U) \in Nat
    BY <2>2, SigmaStep, PickIn
  <2>. HIDE DEF c
  <2>6. y # c
    BY <2>4, <2>5
  <2>7. \A z \in U : U \ {z} \in SUBSET S /\ U \ {z} \notin F
    <3>. TAKE z \in U
    <3>1. U \ {z} \in SUBSET S /\ Cardinality(U \ {z}) = Cardinality(U) - 1
      BY <2>5, FS_RemoveElement
    <3>2. ~(Cardinality(U) <= Cardinality(U \ {z}))
      BY <2>5, <3>1
    <3>. QED
      BY <2>3, <3>1, <3>2
  <2>. DEFINE W == (U \ {c}) \ {y}
  <2>8. Sigma(v, U \ {c}) = v[y] + Sigma(v, W)
    <3>1. y \in U \ {c}
      BY <2>6
    <3>. QED
      BY <2>5, <2>7, <3>1
  <2>9. Sigma(v, U \ {y}) = v[c] + Sigma(v, W)
    <3>1. c \in U \ {y} /\ (U \ {y}) \ {c} = W
      BY <2>5, <2>6
    <3>. QED
      BY <2>7, <3>1
  <2>10. v[c] \in Nat /\ v[y] \in Nat /\ Sigma(v, W) \in Nat
    <3>1. IsFiniteSet(W) /\ W \in SUBSET S
      BY FS_Subset
    <3>. QED
      BY <2>5, <3>1, SigmaNat
  <2>. QED
    BY <2>4, <2>5, <2>8, <2>9, <2>10
<1>. QED
  BY <1>1
-----------------------------------------------------------------------------
(* The outputs that a request may spend, in the order in which             *)
(* selectInputs takes them: each once, the larger ones first.              *)
Listed(v, e) ==
  /\ e \in Seq(Op)
  /\ \A i, j \in 1..Len(e) : i # j => e[i] # e[j]
  /\ \A i, j \in 1..Len(e) : i < j => v[e[i]] >= v[e[j]]
FirstOf(e, n) == {e[i] : i \in 1..n}

LEMMA FirstIs ==
  ASSUME NEW e \in Seq(Op), NEW n \in Nat, n <= Len(e)
  PROVE  /\ Range(SubSeq(e, 1, n)) = FirstOf(e, n)
         /\ Range(e) = FirstOf(e, Len(e))
         /\ Len(SubSeq(e, 1, n)) = n /\ SubSeq(e, 1, n) \in Seq(Op)
         /\ FirstOf(e, n) \subseteq FirstOf(e, Len(e))
         /\ FirstOf(e, n) \subseteq Op
<1>1. Len(SubSeq(e, 1, n)) = n /\ SubSeq(e, 1, n) \in Seq(Op)
  OBVIOUS
<1>2. \A i \in 1..n : SubSeq(e, 1, n)[i] = e[i]
  OBVIOUS
<1>3. DOMAIN SubSeq(e, 1, n) = 1..n /\ DOMAIN e = 1..Len(e)
  BY <1>1
<1>4. Range(SubSeq(e, 1, n)) = FirstOf(e, n)
  BY <1>2, <1>3 DEF Range, FirstOf
<1>5. Range(e) = FirstOf(e, Len(e))
  BY <1>3 DEF Range, FirstOf
<1>6. FirstOf(e, n) \subseteq FirstOf(e, Len(e)) /\ FirstOf(e, n) \subseteq Op
  <2>1. 1..n \subseteq 1..Len(e) /\ \A i \in 1..Len(e) : e[i] \in Op
    OBVIOUS
  <2>. QED
    BY <2>1 DEF FirstOf
<1>. QED
  BY <1>1, <1>4, <1>5, <1>6

(* The same for outputs, of which there are finitely many.                 *)
LEMMA SigmaOp ==
  ASSUME NEW v \in [Op -> Nat], NEW S \in SUBSET Op
  PROVE  /\ IsFiniteSet(S) /\ Cardinality(S) \in Nat /\ Sigma(v, S) \in Nat
         /\ \A x \in S : /\ Sigma(v, S) = v[x] + Sigma(v, S \ {x})
                         /\ Cardinality(S \ {x}) = Cardinality(S) - 1
<1>1. IsFiniteSet(S) /\ Cardinality(S) \in Nat
  BY RequestAssumption, FS_Subset, FS_CardinalityType
<1>2. \A x \in S : v[x] \in Nat
  OBVIOUS
<1>3. \A x \in S : Cardinality(S \ {x}) = Cardinality(S) - 1
  BY <1>1, FS_RemoveElement
<1>4. Sigma(v, S) \in Nat
  BY <1>1, <1>2, SigmaNat
<1>5. \A x \in S : Sigma(v, S) = v[x] + Sigma(v, S \ {x})
  BY <1>1, <1>2, SigmaPick
<1>. QED
  BY <1>1, <1>3, <1>4, <1>5

(* One more output.                                                        *)
LEMMA FirstStep ==
  ASSUME NEW v \in [Op -> Nat], NEW e, Listed(v, e), NEW n \in 1..Len(e)
  PROVE  /\ FirstOf(e, n) = FirstOf(e, n - 1) \cup {e[n]}
         /\ e[n] \notin FirstOf(e, n - 1)
         /\ Sigma(v, FirstOf(e, n)) = v[e[n]] + Sigma(v, FirstOf(e, n - 1))
<1>0. e \in Seq(Op) /\ n \in Nat /\ n <= Len(e) /\ n - 1 \in Nat /\ Len(e) \in Nat
  BY DEF Listed
<1>1. FirstOf(e, n) = FirstOf(e, n - 1) \cup {e[n]}
  <2>1. 1..n = 1..(n - 1) \cup {n}
    BY <1>0
  <2>. QED
    BY <2>1 DEF FirstOf
<1>2. e[n] \notin FirstOf(e, n - 1)
  BY <1>0 DEF Listed, FirstOf
<1>3. FirstOf(e, n) \ {e[n]} = FirstOf(e, n - 1)
  BY <1>1, <1>2
<1>4. e[n] \in FirstOf(e, n) /\ FirstOf(e, n) \in SUBSET Op
  BY <1>0, <1>1, FirstIs
<1>5. Sigma(v, FirstOf(e, n)) = v[e[n]] + Sigma(v, FirstOf(e, n) \ {e[n]})
  BY <1>4, SigmaOp
<1>. QED
  BY <1>1, <1>2, <1>3, <1>5

(* No n outputs are worth more than the first n.                           *)
LEMMA Greedy ==
  ASSUME NEW v \in [Op -> Nat], NEW e, Listed(v, e)
  PROVE  \A n \in 0..Len(e) : /\ Cardinality(FirstOf(e, n)) <= n
                              /\ \A S \in SUBSET FirstOf(e, Len(e)) :
                                   Cardinality(S) <= n => Sigma(v, S) <= Sigma(v, FirstOf(e, n))
<1>. DEFINE P(n) == /\ Cardinality(FirstOf(e, n)) <= n
                    /\ \A S \in SUBSET FirstOf(e, Len(e)) :
                         Cardinality(S) <= n => Sigma(v, S) <= Sigma(v, FirstOf(e, n))
            Bad == {n \in 0..Len(e) : ~P(n)}
<1>0. e \in Seq(Op) /\ Len(e) \in Nat
  BY DEF Listed
<1>1. \A S \in SUBSET FirstOf(e, Len(e)) : S \in SUBSET Op
  BY <1>0, FirstIs
<1>2. Bad = {}
  <2>1. SUFFICES ASSUME Bad # {} PROVE FALSE
    OBVIOUS
  <2>2. PICK n \in Bad : \A i \in Bad : n <= i
    <3>1. Bad \in SUBSET Nat
      BY <1>0
    <3>. HIDE DEF Bad
    <3>. QED
      BY <2>1, <3>1, Least
  <2>3. n \in 0..Len(e) /\ n \in Nat /\ n <= Len(e) /\ ~P(n)
    BY <1>0
  <2>4. CASE n = 0
    <3>1. FirstOf(e, 0) = {}
      BY DEF FirstOf
    <3>2. Cardinality(FirstOf(e, 0)) = 0 /\ Sigma(v, {}) = 0
      BY <3>1, FS_EmptySet, SigmaStep
    <3>3. ASSUME NEW S \in SUBSET FirstOf(e, Len(e)), Cardinality(S) <= 0
          PROVE  S = {}
      <4>1. IsFiniteSet(S) /\ Cardinality(S) \in Nat
        BY <1>1, SigmaOp
      <4>2. Cardinality(S) = 0
        BY <3>3, <4>1
      <4>. QED
        BY <4>1, <4>2, FS_EmptySet
    <3>4. ASSUME NEW S \in SUBSET FirstOf(e, Len(e)), Cardinality(S) <= 0
          PROVE  Sigma(v, S) <= Sigma(v, FirstOf(e, 0))
      BY <3>1, <3>2, <3>3, <3>4
    <3>5. P(0)
      BY <3>2, <3>4
    <3>. QED
      BY <2>3, <2>4, <3>5
  <2>5. CASE n # 0
    <3>1. n \in 1..Len(e) /\ n - 1 \in 0..Len(e) /\ n - 1 \in Nat /\ ~(n <= n - 1)
      BY <1>0, <2>3, <2>5
    <3>2. P(n - 1)
      <4>1. n - 1 \notin Bad
        BY <2>2, <3>1
      <4>. QED
        BY <3>1, <4>1
    <3>. DEFINE F == FirstOf(e, n)
                G == FirstOf(e, n - 1)
    <3>3. F = G \cup {e[n]} /\ e[n] \notin G /\ Sigma(v, F) = v[e[n]] + Sigma(v, G)
      BY <3>1, FirstStep
    <3>4. F \in SUBSET Op /\ G \in SUBSET Op /\ e[n] \in Op
      BY <1>0, <3>1, FirstIs
    <3>5. Sigma(v, F) \in Nat /\ Sigma(v, G) \in Nat /\ v[e[n]] \in Nat
      BY <3>4, SigmaOp
    <3>6. Cardinality(F) <= n
      <4>1. IsFiniteSet(G) /\ Cardinality(G) \in Nat /\ Cardinality(G) <= n - 1
        BY <3>2, <3>4, SigmaOp
      <4>2. Cardinality(G \cup {e[n]}) = Cardinality(G) + 1
        BY <3>3, <4>1, FS_AddElement
      <4>. QED
        BY <2>3, <3>3, <4>1, <4>2
    <3>7. ASSUME NEW S \in SUBSET FirstOf(e, Len(e)), Cardinality(S) <= n
          PROVE  Sigma(v, S) <= Sigma(v, F)
      <4>1. S \in SUBSET Op /\ IsFiniteSet(S) /\ Cardinality(S) \in Nat /\ Sigma(v, S) \in Nat
        BY <1>1, SigmaOp
      <4>2. CASE S \subseteq G
        <5>1. IsFiniteSet(G) /\ Cardinality(G) \in Nat /\ Cardinality(G) <= n - 1
          BY <3>2, <3>4, SigmaOp
        <5>2. Cardinality(S) <= Cardinality(G)
          BY <4>2, <5>1, FS_Subset
        <5>3. Cardinality(S) <= n - 1
          BY <2>3, <4>1, <5>1, <5>2
        <5>4. Sigma(v, S) <= Sigma(v, G)
          BY <3>2, <5>3
        <5>. QED
          BY <3>3, <3>5, <4>1, <5>4
      <4>3. CASE ~(S \subseteq G)
        <5>1. PICK x \in S : x \notin G
          BY <4>3
        <5>2. PICK j \in 1..Len(e) : x = e[j]
          BY DEF FirstOf
        <5>3. j >= n
          <6>1. j \notin 1..(n - 1)
            BY <5>1, <5>2 DEF FirstOf
          <6>. QED
            BY <1>0, <2>3, <6>1
        <5>4. v[x] <= v[e[n]] /\ v[x] \in Nat
          <6>1. x \in Op
            BY <4>1
          <6>2. j = n \/ v[e[n]] >= v[e[j]]
            BY <1>0, <3>1, <5>3 DEF Listed
          <6>. QED
            BY <3>5, <5>2, <6>1, <6>2
        <5>. DEFINE T == S \ {x}
        <5>5. T \in SUBSET FirstOf(e, Len(e)) /\ T \in SUBSET Op
          BY <4>1
        <5>6. /\ Cardinality(T) = Cardinality(S) - 1 /\ Sigma(v, S) = v[x] + Sigma(v, T)
              /\ Sigma(v, T) \in Nat
          BY <4>1, <5>5, SigmaOp
        <5>7. Cardinality(T) <= n - 1
          BY <2>3, <3>7, <4>1, <5>6
        <5>8. Sigma(v, T) <= Sigma(v, G)
          BY <3>2, <5>5, <5>7
        <5>. HIDE DEF T, G, F
        <5>. QED
          BY <3>3, <3>5, <5>4, <5>6, <5>8
      <4>. QED
        BY <4>2, <4>3
    <3>. QED
      BY <2>3, <3>6, <3>7
  <2>. QED
    BY <2>4, <2>5
<1>. QED
  BY <1>2
-----------------------------------------------------------------------------
(* What minimumFee asks of size bytes that do not go for free.             *)
Cap(inc, size) == IF (1 + size \div Kilobyte) * inc > MaxSatoshi
                    THEN MaxSatoshi ELSE (1 + size \div Kilobyte) * inc

LEMMA Scales == \A p, q, n \in Nat : p <= q => p * n <= q * n /\ p * n \in Nat
<1>. TAKE p, q, n \in Nat
<1>. HAVE p <= q
<1>1. PICK d \in Nat : q = p + d
  <2>1. q - p \in Nat /\ q = p + (q - p)
    OBVIOUS
  <2>. QED
    BY <2>1
<1>2. p * n \in Nat /\ d * n \in Nat
  OBVIOUS
<1>3. (p + d) * n = p * n + d * n
  OBVIOUS
<1>. QED
  BY <1>1, <1>2, <1>3

(* The fee goes up with every started kilobyte.                            *)
LEMMA Kilobytes ==
  ASSUME NEW a \in Nat, NEW b \in Nat, a <= b
  PROVE  a \div Kilobyte \in Nat /\ a \div Kilobyte <= b \div Kilobyte
<1>1. Kilobyte \in Nat /\ Kilobyte > 0
  BY SizeAssumption
<1>. QED
  BY <1>1

LEMMA CapGrows ==
  ASSUME NEW inc \in Nat, NEW a \in Nat, NEW b \in Nat, a <= b
  PROVE  Cap(inc, a) <= Cap(inc, b) /\ Cap(inc, a) \in Nat /\ Cap(inc, b) \in Nat
<1>. DEFINE p == 1 + a \div Kilobyte
            q == 1 + b \div Kilobyte
<1>1. p \in Nat /\ q \in Nat /\ p <= q
  BY Kilobytes
<1>. HIDE DEF p, q
<1>2. p * inc <= q * inc /\ p * inc \in Nat /\ q * inc \in Nat
  BY <1>1, Scales
<1>3. MaxSatoshi \in Nat
  BY SizeAssumption
<1>. DEFINE x == p * inc
            y == q * inc
<1>4. /\ Cap(inc, a) = IF x > MaxSatoshi THEN MaxSatoshi ELSE x
      /\ Cap(inc, b) = IF y > MaxSatoshi THEN MaxSatoshi ELSE y
  BY DEF Cap, p, q
<1>5. x \in Nat /\ y \in Nat /\ x <= y
  BY <1>2
<1>. HIDE DEF x, y
<1>. QED
  BY <1>3, <1>4, <1>5

(* minimumFee of a transaction that does not go for free.                  *)
LEMMA PaidFee ==
  ASSUME NEW inc \in Nat, NEW size \in Nat, NEW outs
  PROVE  minimumFee(inc, size, outs, FALSE) = Cap(inc, size)
<1>. DEFINE x == (1 + size \div Kilobyte) * inc
<1>1. 1 + size \div Kilobyte \in Nat /\ 1 <= 1 + size \div Kilobyte
  BY Kilobytes
<1>2. 1 * inc = inc /\ 1 \in Nat
  OBVIOUS
<1>3. inc <= x /\ x \in Nat
  BY <1>1, <1>2, Scales
<1>. DEFINE m == minimumFee(inc, size, outs, FALSE)
            c == Cap(inc, size)
<1>4. m = IF x < inc /\ \E v \in outs : v < Bitcent THEN inc
          ELSE IF x > MaxSatoshi THEN MaxSatoshi ELSE x
  BY DEF minimumFee
<1>5. c = IF x > MaxSatoshi THEN MaxSatoshi ELSE x
  BY DEF Cap
<1>. HIDE DEF x, m, c
<1>6. m = c
  BY <1>3, <1>4, <1>5
<1>. QED
  BY <1>6 DEF m, c

(* minimumFee of any, unless the increment alone is above its limit.       *)
LEMMA AnyFee ==
  ASSUME NEW inc \in Nat, inc <= MaxSatoshi, NEW size \in Nat, NEW outs, NEW free \in BOOLEAN
  PROVE  minimumFee(inc, size, outs, free) \in Nat /\ minimumFee(inc, size, outs, free) <= Cap(inc, size)
<1>. DEFINE x == (1 + size \div Kilobyte) * inc
            y == IF free /\ size < Kilobyte THEN 0 ELSE x
<1>1. 1 + size \div Kilobyte \in Nat /\ 1 <= 1 + size \div Kilobyte
  BY Kilobytes
<1>2. 1 * inc = inc /\ 1 \in Nat
  OBVIOUS
<1>3. inc <= x /\ x \in Nat
  BY <1>1, <1>2, Scales
<1>4. y \in Nat /\ y <= x
  BY <1>3
<1>5. minimumFee(inc, size, outs, free) =
        (IF y < inc /\ \E v \in outs : v < Bitcent THEN inc
         ELSE IF y > MaxSatoshi THEN MaxSatoshi ELSE y)
  BY DEF minimumFee
<1>6. Cap(inc, size) = IF x > MaxSatoshi THEN MaxSatoshi ELSE x
  BY DEF Cap
<1>7. MaxSatoshi \in Nat
  BY SizeAssumption
<1>. HIDE DEF x, y
<1>. QED
  BY <1>3, <1>4, <1>5, <1>6, <1>7

LEMMA SizeGrows ==
  ASSUME NEW m \in Nat, NEW n \in Nat, m <= n, NEW o \in Nat, NEW p \in Nat, o <= p
  PROVE  /\ Size(m, o) \in Nat /\ Size(n, p) \in Nat
         /\ Size(m, o) <= Size(n, p)
<1>1. BaseSize \in Nat /\ InSize \in Nat /\ OutSize \in Nat
  BY SizeAssumption
<1>2. m * InSize <= n * InSize /\ o * OutSize <= p * OutSize
  BY <1>1, Scales
<1>3. /\ InSize * m = m * InSize /\ InSize * n = n * InSize
      /\ OutSize * o = o * OutSize /\ OutSize * p = p * OutSize
      /\ InSize * m \in Nat /\ InSize * n \in Nat
      /\ OutSize * o \in Nat /\ OutSize * p \in Nat
  BY <1>1
<1>. DEFINE a == InSize * m
            b == InSize * n
            c == OutSize * o
            d == OutSize * p
<1>4. a \in Nat /\ b \in Nat /\ c \in Nat /\ d \in Nat /\ a <= b /\ c <= d
  BY <1>2, <1>3
<1>5. Size(m, o) = BaseSize + a + c /\ Size(n, p) = BaseSize + b + d
  BY DEF Size
<1>. HIDE DEF a, b, c, d
<1>. QED
  BY <1>1, <1>4, <1>5
-----------------------------------------------------------------------------
(* The same as in the model, of values instead of variables.               *)
EnoughFor(v, e, need) == {n \in 1..Len(e) : Sigma(v, FirstOf(e, n)) >= need}
Asked(r) == Sigma(r.pairs, DOMAIN r.pairs)
FreeOf(v, h, cur, ins, size) ==
  ~DisallowFree /\
  MapThenSumSet(LAMBDA op : v[op] * chainDepth(h[op], cur), ins) > Threshold * size
OutsOf(outs, change) == IF change > 0 THEN Append(outs, change) ELSE outs
FeeCap(r, n) == Cap(r.incr, Size(n, Len(r.pairs) + 1) + n)
Request(r) == r.pairs \in Seq(Nat \ {0}) /\ r.incr \in Nat /\ r.incr <= MaxSatoshi
Fewest(v, e, n, need) ==
  \A S \in SUBSET Range(e) : S # {} /\ Cardinality(S) < n => Sigma(v, S) < need

(* Before inputs are chosen: any that pay for the fee justify it.          *)
Looking(v, r, e, f) ==
  /\ Listed(v, e) /\ Request(r) /\ f \in Nat
  /\ \A n \in EnoughFor(v, e, Asked(r) + f) : f <= FeeCap(r, n)
(* Afterwards: the inputs i pay for the fee and justify it, no fewer do,   *)
(* and there is a change address a if something is left.                   *)
Chosen(v, r, e, i, f, a) ==
  /\ Listed(v, e) /\ Request(r) /\ f \in Nat
  /\ i \in Seq(Op)
  /\ Sigma(v, Range(i)) >= Asked(r) + f
  /\ Sigma(v, Range(i)) > Asked(r) + f => a # None
  /\ f <= FeeCap(r, Len(i))
  /\ \A n \in EnoughFor(v, e, Asked(r) + f) : Len(i) <= n
  /\ Fewest(v, e, Len(i), Asked(r) + f)
(* At the end.                                                             *)
Right(v, h, r, e, t, f) ==
  /\ t.change >= 0
  /\ Sigma(v, Range(t.ins)) = Sigma(t.outs, DOMAIN t.outs) + t.change + f
  /\ t.change > 0 <=> t.addr # None
  /\ f >= minimumFee(r.incr, t.size, Range(OutsOf(t.outs, t.change)),
                     FreeOf(v, h, r.height, Range(t.ins), t.size))
  /\ f <= minimumFee(r.incr, Size(Len(t.ins), Len(t.outs) + 1) + Len(t.ins),
                     Range(OutsOf(t.outs, t.change)), FALSE)
  /\ Fewest(v, e, Len(t.ins), Sigma(t.outs, DOMAIN t.outs) + f)

(* Fee increments that are not above minimumFee's own limit.  settxfee     *)
(* takes any, and minimumFee returns the increment itself for a small      *)
(* transaction that pays less than a bitcent, before it applies the limit  *)
(* (createtx.go:354).                                                      *)
Modest == \A f \in Incrs : f <= MaxSatoshi

(* The inductive invariant of the search for inputs and a fee.             *)
Search ==
  /\ amount \in [Op -> Nat] /\ incr \in Incrs
  /\ pc \in {"idle", "fee", "sign"} => tx = NoTx
  /\ pc = "idle" => fee = 0
  /\ pc = "fee" => Looking(amount, req, eligible, fee)
  /\ pc = "sign" => Chosen(amount, req, eligible, inputs, fee, changeAddr)
  /\ tx # NoTx => Right(amount, height, req, eligible, tx, fee)

LEMMA Values ==
  /\ \A S : Total(S) = Sigma(amount, S)
  /\ \A s : Sum(s) = Sigma(s, DOMAIN s)
<1>1. \A S : Total(S) = Sigma(amount, S)
  BY DEF Total, Sigma
<1>2. \A s : Sum(s) = Sigma(s, DOMAIN s)
  BY DEF Sum, Sigma
<1>. QED
  BY <1>1, <1>2

LEMMA FreeValue ==
  \A cur, ins, size : allowFree(cur, ins, size) = FreeOf(amount, height, cur, ins, size)
BY DEF allowFree, FreeOf

LEMMA SearchTxRight == ASSUME Search PROVE TxRight
<1>. SUFFICES ASSUME tx # NoTx PROVE Balanced /\ FeeRight /\ FewestInputs
  BY DEF TxRight
<1>1. Right(amount, height, req, eligible, tx, fee)
  BY DEF Search
<1>2. Balanced
  BY <1>1, Values DEF Balanced, Right
<1>3. FeeRight
  BY <1>1, FreeValue DEF FeeRight, Right, OutsOf
<1>4. FewestInputs
  BY <1>1, Values DEF FewestInputs, Right, Fewest
<1>. QED
  BY <1>2, <1>3, <1>4

(* The payments' sum.                                                      *)
LEMMA AskedNat ==
  ASSUME NEW r, Request(r)
  PROVE  /\ Asked(r) \in Nat /\ Len(r.pairs) \in Nat
         /\ DOMAIN r.pairs = 1..Len(r.pairs)
<1>1. Len(r.pairs) \in Nat /\ DOMAIN r.pairs = 1..Len(r.pairs)
      /\ \A i \in DOMAIN r.pairs : r.pairs[i] \in Nat
  BY DEF Request
<1>2. IsFiniteSet(1..Len(r.pairs))
  BY <1>1, FS_Interval
<1>. QED
  BY <1>1, <1>2, SigmaNat DEF Asked

(* More inputs justify a higher fee.                                       *)
LEMMA FeeCaps ==
  ASSUME NEW r, Request(r), NEW m \in Nat, NEW n \in Nat, m <= n
  PROVE  FeeCap(r, m) <= FeeCap(r, n) /\ FeeCap(r, m) \in Nat /\ FeeCap(r, n) \in Nat
<1>1. Len(r.pairs) + 1 \in Nat /\ r.incr \in Nat
  BY AskedNat DEF Request
<1>. DEFINE o == Len(r.pairs) + 1
            a == Size(m, o)
            b == Size(n, o)
            x == a + m
            y == b + n
            inc == r.incr
<1>2. FeeCap(r, m) = Cap(inc, x) /\ FeeCap(r, n) = Cap(inc, y) /\ inc \in Nat
  BY <1>1 DEF FeeCap
<1>3. o \in Nat /\ o <= o
  BY <1>1
<1>. HIDE DEF o
<1>4. a \in Nat /\ b \in Nat /\ a <= b
  BY <1>3, SizeGrows
<1>. HIDE DEF a, b
<1>5. x \in Nat /\ y \in Nat /\ x <= y
  BY <1>4
<1>. HIDE DEF x, y, inc
<1>6. Cap(inc, x) <= Cap(inc, y) /\ Cap(inc, x) \in Nat /\ Cap(inc, y) \in Nat
  BY <1>2, <1>5, CapGrows
<1>. QED
  BY <1>2, <1>6

(* selectInputs: the fewest of the largest outputs.                        *)
LEMMA Selects ==
  ASSUME NEW v \in [Op -> Nat], NEW r, NEW e, NEW f, Looking(v, r, e, f), NEW i, NEW a,
         \/ /\ EnoughFor(v, e, Asked(r) + f) = {}
            /\ Sigma(v, Range(e)) >= Asked(r) + f
            /\ i = e
         \/ /\ EnoughFor(v, e, Asked(r) + f) # {}
            /\ i = SubSeq(e, 1, Min(EnoughFor(v, e, Asked(r) + f))),
         Sigma(v, Range(i)) > Asked(r) + f => a # None
  PROVE  Chosen(v, r, e, i, f, a)
<1>. DEFINE need == Asked(r) + f
            E == EnoughFor(v, e, need)
<1>1. /\ Listed(v, e) /\ Request(r) /\ f \in Nat /\ e \in Seq(Op) /\ Len(e) \in Nat
      /\ Asked(r) \in Nat /\ need \in Nat
  BY AskedNat DEF Looking, Listed
<1>2. CASE E = {}
  <2>1. Len(e) = 0
    <3>1. SUFFICES ASSUME Len(e) # 0 PROVE FALSE
      OBVIOUS
    <3>2. Len(e) \in 1..Len(e)
      BY <1>1, <3>1
    <3>3. Sigma(v, FirstOf(e, Len(e))) >= need
      BY <1>1, <1>2, FirstIs
    <3>. QED
      BY <1>2, <3>2, <3>3 DEF EnoughFor
  <2>2. i = e /\ Range(e) = {} /\ Sigma(v, Range(e)) >= need
    <3>1. DOMAIN e = {}
      BY <1>1, <2>1
    <3>. QED
      BY <1>2, <3>1 DEF Range
  <2>3. Sigma(v, Range(e)) = 0
    BY <2>2, FS_EmptySet, SigmaStep
  <2>4. f = 0
    BY <1>1, <2>2, <2>3
  <2>5. f <= FeeCap(r, Len(i))
    BY <1>1, <2>1, <2>2, <2>4, FeeCaps
  <2>. QED
    BY <1>1, <1>2, <2>1, <2>2, <2>5 DEF Chosen, Fewest
<1>3. CASE E # {}
  <2>1. E \in SUBSET Nat
    BY <1>1 DEF EnoughFor
  <2>. DEFINE m == Min(E)
  <2>2. m \in E /\ \A n \in E : m <= n
    <3>. HIDE DEF E
    <3>1. \E x \in E : \A y \in E : x <= y
      BY <1>3, <2>1, Least
    <3>. QED
      BY <3>1 DEF Min
  <2>. HIDE DEF m
  <2>3. m \in Nat /\ m <= Len(e) /\ m >= 1 /\ Sigma(v, FirstOf(e, m)) >= need
    BY <1>1, <2>2 DEF EnoughFor
  <2>4. i = SubSeq(e, 1, m)
    BY <1>3 DEF m
  <2>5. i \in Seq(Op) /\ Len(i) = m /\ Range(i) = FirstOf(e, m)
    BY <1>1, <2>3, <2>4, FirstIs
  <2>6. f <= FeeCap(r, m)
    BY <2>2 DEF Looking
  <2>7. Fewest(v, e, m, need)
    <3>. SUFFICES ASSUME NEW S \in SUBSET Range(e), S # {}, Cardinality(S) < m
                  PROVE  Sigma(v, S) < need
      BY DEF Fewest
    <3>1. S \in SUBSET FirstOf(e, Len(e)) /\ S \in SUBSET Op
      BY <1>1, FirstIs
    <3>. DEFINE k == Cardinality(S)
    <3>2. IsFiniteSet(S) /\ k \in Nat /\ Sigma(v, S) \in Nat
      BY <3>1, SigmaOp
    <3>3. k # 0
      BY <3>2, FS_EmptySet
    <3>4. k < m
      OBVIOUS
    <3>5. k <= k /\ k \in 0..Len(e) /\ k \in 1..Len(e) /\ k <= Len(e) /\ ~(m <= k)
      BY <1>1, <2>3, <3>2, <3>3, <3>4
    <3>6. Sigma(v, S) <= Sigma(v, FirstOf(e, k))
      BY <1>1, <3>1, <3>5, Greedy
    <3>7. k \notin E
      BY <2>2, <3>5
    <3>8. ~(Sigma(v, FirstOf(e, k)) >= need)
      BY <3>5, <3>7 DEF EnoughFor
    <3>9. Sigma(v, FirstOf(e, k)) \in Nat
      <4>1. FirstOf(e, k) \in SUBSET Op
        BY <1>1, <3>2, <3>5, FirstIs
      <4>. QED
        BY <4>1, SigmaOp
    <3>. HIDE DEF k
    <3>. QED
      BY <1>1, <3>2, <3>6, <3>8, <3>9
  <2>. QED
    BY <1>1, <2>2, <2>3, <2>5, <2>6, <2>7 DEF Chosen
<1>. QED
  BY <1>2, <1>3

(* A turn that asks for a higher fee: inputs that pay for it are no fewer  *)
(* than these.                                                             *)
LEMMA Raises ==
  ASSUME NEW v \in [Op -> Nat], NEW r, NEW e, NEW i, NEW f, NEW a, Chosen(v, r, e, i, f, a),
         NEW g \in Nat, f < g, g <= FeeCap(r, Len(i))
  PROVE  Looking(v, r, e, g)
<1>1. /\ Listed(v, e) /\ Request(r) /\ f \in Nat /\ e \in Seq(Op) /\ Len(e) \in Nat
      /\ Asked(r) \in Nat /\ Len(i) \in Nat
  BY AskedNat DEF Chosen, Listed
<1>2. ASSUME NEW n \in EnoughFor(v, e, Asked(r) + g)
      PROVE  g <= FeeCap(r, n)
  <2>1. n \in 1..Len(e) /\ n \in Nat /\ Sigma(v, FirstOf(e, n)) >= Asked(r) + g
    BY <1>1 DEF EnoughFor
  <2>2. Sigma(v, FirstOf(e, n)) \in Nat
    <3>1. FirstOf(e, n) \in SUBSET Op
      BY <1>1, <2>1, FirstIs
    <3>. QED
      BY <3>1, SigmaOp
  <2>3. Sigma(v, FirstOf(e, n)) >= Asked(r) + f
    BY <1>1, <2>1, <2>2
  <2>4. n \in EnoughFor(v, e, Asked(r) + f)
    BY <2>1, <2>3 DEF EnoughFor
  <2>5. Len(i) <= n
    BY <2>4 DEF Chosen
  <2>6. FeeCap(r, Len(i)) <= FeeCap(r, n) /\ FeeCap(r, Len(i)) \in Nat /\ FeeCap(r, n) \in Nat
    BY <1>1, <2>1, <2>5, FeeCaps
  <2>. QED
    BY <2>6
<1>. QED
  BY <1>1, <1>2 DEF Looking

(* What minimumFee asks of a signed transaction.                           *)
LEMMA Asks ==
  ASSUME NEW r, Request(r), NEW n \in Nat, NEW o \in Nat, o <= Len(r.pairs) + 1,
         NEW more \in Nat, more <= n, NEW outs, NEW free \in BOOLEAN
  PROVE  /\ minimumFee(r.incr, Size(n, o) + more, outs, free) \in Nat
         /\ minimumFee(r.incr, Size(n, o) + more, outs, free) <= FeeCap(r, n)
<1>. DEFINE p == Len(r.pairs) + 1
            a == Size(n, o)
            b == Size(n, p)
            x == a + more
            y == b + n
            inc == r.incr
<1>1. inc \in Nat /\ inc <= MaxSatoshi /\ p \in Nat /\ o <= p /\ n <= n
  BY AskedNat DEF Request
<1>2. FeeCap(r, n) = Cap(inc, y)
  BY DEF FeeCap
<1>. HIDE DEF p, inc
<1>3. a \in Nat /\ b \in Nat /\ a <= b
  BY <1>1, SizeGrows
<1>. HIDE DEF a, b
<1>4. x \in Nat /\ y \in Nat /\ x <= y
  BY <1>3
<1>. HIDE DEF x, y
<1>5. minimumFee(inc, x, outs, free) \in Nat /\ minimumFee(inc, x, outs, free) <= Cap(inc, x)
  BY <1>1, <1>4, AnyFee
<1>6. Cap(inc, x) <= Cap(inc, y) /\ Cap(inc, x) \in Nat /\ Cap(inc, y) \in Nat
  BY <1>1, <1>4, CapGrows
<1>7. minimumFee(inc, x, outs, free) <= FeeCap(r, n)
  BY <1>2, <1>5, <1>6
<1>. QED
  BY <1>5, <1>7 DEF x, a, inc

(* The turn that asks for no more: the transaction is right.               *)
LEMMA Leaves ==
  ASSUME NEW v \in [Op -> Nat], NEW h, NEW r, NEW e, NEW i, NEW f, NEW a,
         Chosen(v, r, e, i, f, a), NEW change, NEW size, NEW t, NEW min,
         change = Sigma(v, Range(i)) - (Asked(r) + f),
         min = minimumFee(r.incr, size, Range(OutsOf(r.pairs, change)),
                          FreeOf(v, h, r.height, Range(i), size)),
         min <= f,
         t.ins = i, t.outs = r.pairs, t.change = change, t.size = size,
         t.addr = IF change > 0 THEN a ELSE None
  PROVE  Right(v, h, r, e, t, f)
<1>1. /\ Request(r) /\ f \in Nat /\ Asked(r) \in Nat /\ Len(i) \in Nat /\ i \in Seq(Op)
      /\ Sigma(v, Range(i)) >= Asked(r) + f
      /\ Sigma(v, Range(i)) > Asked(r) + f => a # None
  BY AskedNat DEF Chosen
<1>2. Sigma(v, Range(i)) \in Nat
  <2>1. Range(i) \in SUBSET Op
    BY <1>1 DEF Range
  <2>. QED
    BY <2>1, SigmaOp
<1>. DEFINE x == Sigma(v, Range(i))
            y == Asked(r)
<1>3. change \in Int /\ change >= 0 /\ (change > 0 => a # None) /\ x = y + change + f
  <2>1. /\ x \in Nat /\ y \in Nat /\ f \in Nat /\ change = x - (y + f) /\ x >= y + f
        /\ x > y + f => a # None
    BY <1>1, <1>2
  <2>. HIDE DEF x, y
  <2>2. change \in Int /\ change >= 0 /\ (change > 0 => x > y + f) /\ x = y + change + f
    BY <2>1
  <2>. QED
    BY <2>1, <2>2
<1>4. t.change > 0 <=> t.addr # None
  BY <1>3
<1>5. f <= minimumFee(r.incr, Size(Len(i), Len(r.pairs) + 1) + Len(i),
                      Range(OutsOf(r.pairs, change)), FALSE)
  <2>. DEFINE s == Size(Len(i), Len(r.pairs) + 1)
              z == s + Len(i)
              o == Range(OutsOf(r.pairs, change))
              p == Len(r.pairs) + 1
  <2>1. p \in Nat /\ p <= p /\ Len(i) <= Len(i)
    BY <1>1, AskedNat
  <2>2. s \in Nat
    <3>. HIDE DEF p
    <3>1. Size(Len(i), p) \in Nat
      BY <1>1, <2>1, SizeGrows
    <3>. QED
      BY <3>1 DEF p
  <2>3. z \in Nat /\ r.incr \in Nat
    BY <1>1, <2>2 DEF Request
  <2>4. f <= Cap(r.incr, z)
    BY DEF Chosen, FeeCap
  <2>. HIDE DEF z, o
  <2>5. minimumFee(r.incr, z, o, FALSE) = Cap(r.incr, z)
    <3>. DEFINE inc == r.incr
    <3>1. inc \in Nat
      BY <2>3
    <3>. HIDE DEF inc
    <3>2. minimumFee(inc, z, o, FALSE) = Cap(inc, z)
      BY <2>3, <3>1, PaidFee
    <3>. QED
      BY <3>2 DEF inc
  <2>. QED
    BY <2>4, <2>5 DEF z, o
<1>6. Fewest(v, e, Len(i), Asked(r) + f)
  BY DEF Chosen
<1>. QED
  BY <1>3, <1>4, <1>5, <1>6 DEF Right, Asked
-----------------------------------------------------------------------------
LEMMA InitSearch == Init => Search
<1>. SUFFICES ASSUME Init PROVE Search
  OBVIOUS
<1>1. amount \in [Op -> Nat] /\ incr \in Incrs
  <2>1. amount \in [Op -> Nat \ {0}] /\ DefaultIncr \in Incrs
    BY RequestAssumption DEF Init
  <2>. QED
    BY <2>1 DEF Init
<1>. QED
  BY <1>1 DEF Init, Search

(* A step that leaves the request and the outputs it looks at alone, or    *)
(* only goes on with a transaction that is made.                           *)
LEMMA SearchFrame ==
  ASSUME Search,
         UNCHANGED <<amount, req, eligible, inputs, fee, changeAddr, tx>>,
         pc' = pc \/ pc' \notin {"idle", "fee", "sign"},
         height' = height \/ pc = "idle", incr' \in Incrs
  PROVE  Search'
<1>1. tx # NoTx => height' = height
  BY DEF Search
<1>2. tx' # NoTx => Right(amount', height', req', eligible', tx', fee')
  BY <1>1 DEF Search
<1>. QED
  BY <1>2 DEF Search

LEMMA SearchReply ==
  ASSUME Search, Reply, UNCHANGED amount, incr' \in Incrs
  PROVE  Search'
BY DEF Search, Reply

(* The search begins with the outputs in order and no fee.                 *)
LEMMA BeginSearch ==
  ASSUME Search, Modest, NEW pairs \in Pairs, NEW minconf \in Minconfs, Begin(pairs, minconf)
  PROVE  Search'
<1>1. CASE Refused(pairs)
  BY <1>1, SearchFrame DEF Begin, localVars, storeVars, Search
<1>2. CASE ~Refused(pairs)
  <2>1. /\ pc = "idle" /\ pc' = "fee" /\ fee = 0 /\ tx = NoTx
        /\ UNCHANGED <<amount, height, incr, inputs, fee, changeAddr, tx>>
        /\ amount \in [Op -> Nat] /\ incr \in Incrs
        /\ eligible' \in Sorted(Eligible(minconf, tip))
        /\ req' = [pairs |-> pairs, minconf |-> minconf, height |-> tip, incr |-> incr]
    BY <1>2 DEF Begin, storeVars, Search
  <2>. DEFINE S == Eligible(minconf, tip)
              e == eligible'
  <2>2. S \in SUBSET Op
    BY DEF Eligible, UnspentOutputs
  <2>. HIDE DEF S
  <2>3. IsFiniteSet(S) /\ Cardinality(S) \in Nat
    BY <2>2, RequestAssumption, FS_Subset, FS_CardinalityType
  <2>4. Listed(amount', e)
    <3>. DEFINE n == Cardinality(S)
    <3>1. /\ e \in [1..n -> S] /\ \A i, j \in 1..n : i # j => e[i] # e[j]
          /\ \A i, j \in DOMAIN e : i < j => amount[e[i]] >= amount[e[j]]
      BY <2>1 DEF Sorted, SetToSeqs, S
    <3>. HIDE DEF e, n
    <3>2. n \in Nat
      BY <2>3 DEF n
    <3>3. e \in [1..n -> Op] /\ DOMAIN e = 1..n
      BY <2>2, <3>1
    <3>4. e \in Seq(Op) /\ Len(e) = n
      BY <3>2, <3>3
    <3>. QED
      BY <2>1, <3>1, <3>3, <3>4 DEF Listed
  <2>5. Request(req')
    <3>1. req'.pairs = pairs /\ req'.incr = incr
      BY <2>1
    <3>2. pairs \in Seq(Int) /\ \A i \in DOMAIN pairs : ~(pairs[i] <= 0)
      BY <1>2, RequestAssumption DEF Refused
    <3>3. pairs \in Seq(Nat \ {0})
      <4>1. Len(pairs) \in Nat /\ DOMAIN pairs = 1..Len(pairs) /\ pairs = [i \in 1..Len(pairs) |-> pairs[i]]
        BY <3>2
      <4>2. \A i \in 1..Len(pairs) : pairs[i] \in Nat \ {0}
        BY <3>2, <4>1
      <4>. QED
        BY <4>1, <4>2
    <3>4. incr \in Nat /\ incr <= MaxSatoshi
      BY <2>1, RequestAssumption DEF Modest
    <3>. QED
      BY <3>1, <3>3, <3>4 DEF Request
  <2>6. Looking(amount', req', eligible', fee')
    <3>1. fee' \in Nat
      BY <2>1
    <3>2. ASSUME NEW n \in EnoughFor(amount', e, Asked(req') + fee')
          PROVE  fee' <= FeeCap(req', n)
      <4>1. n \in Nat /\ n <= n
        <5>1. Len(e) \in Nat
          BY <2>4 DEF Listed
        <5>. QED
          BY <5>1 DEF EnoughFor
      <4>2. FeeCap(req', n) \in Nat
        BY <2>5, <4>1, FeeCaps
      <4>. QED
        BY <2>1, <4>2
    <3>. QED
      BY <2>4, <2>5, <3>1, <3>2 DEF Looking
  <2>. QED
    BY <2>1, <2>6 DEF Search
<1>. QED
  BY <1>1, <1>2

LEMMA SelectSearch ==
  ASSUME Search, Addresses, SelectInputs
  PROVE  Search'
<1>. DEFINE need == Asked(req) + fee
            E == EnoughFor(amount, eligible, need)
<1>1. /\ pc = "fee" /\ pc' = "sign" /\ amount \in [Op -> Nat] /\ incr \in Incrs /\ tx = NoTx
      /\ Looking(amount, req, eligible, fee)
  BY DEF SelectInputs, Search
<1>2. UNCHANGED <<amount, height, incr, req, eligible, fee, tx>>
  BY DEF SelectInputs, storeVars
<1>3. Need = need
  BY Values DEF Need, Asked
<1>4. eligible \in Seq(Op) /\ Len(eligible) \in Nat
  BY <1>1 DEF Looking, Listed
<1>5. Enough(need) = E
  <2>1. \A n \in 1..Len(eligible) : Total(Prefix(n)) = Sigma(amount, FirstOf(eligible, n))
    <3>. TAKE n \in 1..Len(eligible)
    <3>1. n \in Nat /\ n <= Len(eligible)
      BY <1>4
    <3>2. Prefix(n) = FirstOf(eligible, n)
      BY <1>4, <3>1, FirstIs DEF Prefix
    <3>. QED
      BY <3>2, Values
  <2>. QED
    BY <2>1 DEF Enough, EnoughFor
<1>6. \/ /\ E = {} /\ Sigma(amount, Range(eligible)) >= need
         /\ inputs' = eligible
      \/ /\ E # {}
         /\ inputs' = SubSeq(eligible, 1, Min(E))
  <2>1. inputs' = selectInputs(need) /\ ~Insufficient(need)
    BY <1>3 DEF SelectInputs
  <2>2. Sigma(amount, Range(eligible)) \in Nat /\ need \in Nat
    <3>1. Range(eligible) \in SUBSET Op
      BY <1>4 DEF Range
    <3>. QED
      BY <1>1, <3>1, SigmaOp, AskedNat DEF Looking
  <2>3. Total(Range(eligible)) = Sigma(amount, Range(eligible))
    BY Values
  <2>. HIDE DEF need, E
  <2>4. inputs' = IF E = {} THEN eligible ELSE SubSeq(eligible, 1, Min(E))
    BY <1>5, <2>1 DEF selectInputs
  <2>5. ASSUME E = {} PROVE Sigma(amount, Range(eligible)) >= need
    <3>1. ~(Sigma(amount, Range(eligible)) < need)
      BY <1>5, <2>1, <2>3, <2>5 DEF Insufficient
    <3>. QED
      BY <2>2, <3>1
  <2>. QED
    BY <2>4, <2>5
<1>7. Sigma(amount, Range(inputs')) > need => changeAddr' # None
  <2>1. Total(Range(inputs')) = Sigma(amount, Range(inputs'))
    BY Values
  <2>2. changes \in Nat
    BY DEF Addresses
  <2>. HIDE DEF need
  <2>. QED
    BY <1>3, <2>1, <2>2 DEF SelectInputs, None
<1>8. Chosen(amount, req, eligible, inputs', fee, changeAddr')
  BY <1>1, <1>6, <1>7, Selects
<1>9. Chosen(amount', req', eligible', inputs', fee', changeAddr')
  BY <1>2, <1>8
<1>. QED
  BY <1>1, <1>2, <1>9 DEF Search

LEMMA SignSearch ==
  ASSUME Search, NEW more \in 0..Cardinality(Op), Sign(more)
  PROVE  Search'
<1>. DEFINE change == Sigma(amount, Range(inputs)) - (Asked(req) + fee)
            outs == OutsOf(req.pairs, change)
            n == Len(inputs)
            size == Size(n, Len(outs)) + more
            free == FreeOf(amount, height, req.height, Range(inputs), size)
            min == minimumFee(req.incr, size, Range(outs), free)
<1>1. /\ pc = "sign" /\ amount \in [Op -> Nat] /\ incr \in Incrs /\ tx = NoTx
      /\ Chosen(amount, req, eligible, inputs, fee, changeAddr)
      /\ more <= Len(inputs)
  BY DEF Sign, Search
<1>2. UNCHANGED <<amount, height, incr, req, eligible, inputs, changeAddr>>
  BY DEF Sign, storeVars
<1>3. Change = change
  BY Values DEF Change, Need, Asked
<1>4. free = allowFree(req.height, Range(inputs), size)
  BY FreeValue
<1>5. \/ fee < min /\ fee' = min /\ pc' = "fee" /\ tx' = tx
      \/ /\ ~(fee < min) /\ pc' \in {"send", "save"} /\ fee' = fee
         /\ tx' = [ins |-> inputs, outs |-> req.pairs, change |-> change, size |-> size,
                   id |-> requests, addr |-> IF change > 0 THEN changeAddr ELSE None]
  <2>. HIDE DEF change, free
  <2>. QED
    BY <1>3, <1>4 DEF Sign, RaiseFee, OutsOf
<1>6. more \in Nat /\ n \in Nat /\ fee \in Nat
  <2>1. Cardinality(Op) \in Nat
    BY RequestAssumption, FS_CardinalityType
  <2>. QED
    BY <1>1, <2>1 DEF Chosen
<1>7. change \in Int
  <2>1. Range(inputs) \in SUBSET Op
    BY <1>1 DEF Chosen, Range
  <2>2. Sigma(amount, Range(inputs)) \in Nat /\ Asked(req) \in Nat
    BY <1>1, <2>1, SigmaOp, AskedNat DEF Chosen
  <2>. QED
    BY <1>6, <2>2
<1>8. Len(outs) \in Nat /\ Len(outs) <= Len(req.pairs) + 1
  <2>1. req.pairs \in Seq(Int)
    BY <1>1 DEF Chosen, Request
  <2>. HIDE DEF change
  <2>. QED
    BY <1>7, <2>1 DEF OutsOf
<1>9. min \in Nat /\ min <= FeeCap(req, n)
  <2>1. free \in BOOLEAN
    BY DEF FreeOf
  <2>. HIDE DEF free, outs
  <2>2. Request(req)
    BY <1>1 DEF Chosen
  <2>. QED
    BY <1>1, <1>6, <1>8, <2>1, <2>2, Asks
<1>10. CASE fee < min /\ fee' = min /\ pc' = "fee" /\ tx' = tx
  <2>. HIDE DEF min
  <2>1. Looking(amount, req, eligible, min)
    BY <1>1, <1>9, <1>10, Raises
  <2>2. Looking(amount', req', eligible', fee')
    BY <1>2, <1>10, <2>1
  <2>. QED
    BY <1>1, <1>2, <1>10, <2>2 DEF Search
<1>11. CASE /\ ~(fee < min) /\ pc' \in {"send", "save"} /\ fee' = fee
            /\ tx' = [ins |-> inputs, outs |-> req.pairs, change |-> change, size |-> size,
                      id |-> requests, addr |-> IF change > 0 THEN changeAddr ELSE None]
  <2>1. min <= fee
    <3>. HIDE DEF min
    <3>. QED
      BY <1>6, <1>9, <1>11
  <2>2. /\ tx'.ins = inputs /\ tx'.outs = req.pairs /\ tx'.change = change /\ tx'.size = size
        /\ tx'.addr = IF change > 0 THEN changeAddr ELSE None
    <3>. HIDE DEF change, size
    <3>. QED
      BY <1>11
  <2>3. Right(amount, height, req, eligible, tx', fee)
    BY <1>1, <2>1, <2>2, Leaves
  <2>4. Right(amount', height', req', eligible', tx', fee')
    BY <1>2, <1>11, <2>3
  <2>. QED
    BY <1>1, <1>2, <1>11, <2>4 DEF Search
<1>. QED
  BY <1>5, <1>10, <1>11

LEMMA NextSearch == Modest /\ Addresses /\ Search /\ [Next]_vars => Search'
<1>. SUFFICES ASSUME Modest, Addresses, Search, [Next]_vars PROVE Search'
  OBVIOUS
<1>1. incr \in Incrs /\ DefaultIncr \in Incrs
  BY RequestAssumption DEF Search
<1>2. CASE UNCHANGED vars
  BY <1>1, <1>2, SearchFrame DEF vars, storeVars, localVars
<1>3. CASE NoFunds \/ SignFails
  BY <1>1, <1>3, SearchReply DEF NoFunds, SignFails, storeVars
<1>4. CASE SaveStep
  BY <1>1, <1>4, SearchReply, SearchFrame DEF SaveStep, SaveChange, storeVars, localVars
<1>5. CASE SendRawTransaction
  <2>1. UNCHANGED <<amount, height, incr>>
    BY <1>5 DEF SendRawTransaction, storeVars
  <2>2. Reply \/ (pc' = "record" /\ UNCHANGED localVars)
    BY <1>5 DEF SendRawTransaction
  <2>. QED
    BY <1>1, <2>1, <2>2, SearchReply, SearchFrame DEF localVars
<1>6. CASE Record
  BY <1>1, <1>6, SearchFrame DEF Record, localVars
<1>7. CASE FlushStep
  BY <1>1, <1>7, SearchReply DEF FlushStep, storeVars
<1>8. ASSUME NEW S \in SUBSET Op, LockUnspent(S) PROVE Search'
  BY <1>1, <1>8, SearchFrame DEF LockUnspent, Idle, Quiet, localVars
<1>9. ASSUME NEW f \in Incrs, SetTxFee(f) PROVE Search'
  BY <1>1, <1>9, SearchFrame DEF SetTxFee, Idle, Quiet, localVars
<1>10. ASSUME NEW b \in BOOLEAN, SetUnlocked(b) PROVE Search'
  BY <1>1, <1>10, SearchFrame DEF SetUnlocked, Quiet, localVars, storeVars
<1>11. CASE NewBlock
  BY <1>1, <1>11, SearchFrame DEF NewBlock, Quiet, localVars, storeVars
<1>12. ASSUME NEW op \in Op, Mined(op) PROVE Search'
  BY <1>1, <1>12, SearchFrame DEF Mined, Idle, Quiet, localVars
<1>13. CASE DiskSync
  BY <1>1, <1>13, SearchFrame DEF DiskSync, Idle, Quiet, localVars, storeVars
<1>14. CASE Crash
  BY <1>1, <1>14, SearchReply DEF Crash
<1>. QED
  BY <1>2, <1>3, <1>4, <1>5, <1>6, <1>7, <1>8, <1>9, <1>10, <1>11, <1>12, <1>13, <1>14,
     BeginSearch, SelectSearch, SignSearch DEF Next, Step

(* txToPairs ends, whatever turns it takes, with a transaction whose       *)
(* inputs pay exactly for the outputs, the change and a fee; whose fee is  *)
(* what minimumFee asks of it, and no more than of one with as many inputs *)
(* and a change output; and for which no smaller set of the outputs that   *)
(* it may spend would do.                                                  *)
THEOREM PaymentsAreRight == ASSUME Modest PROVE Spec => []TxRight
<1>1. IInv => Addresses
  BY DEF IInv
<1>2. Search => TxRight
  BY SearchTxRight
<1>3. IInv /\ Search /\ [Next]_vars => Search'
  BY <1>1, NextSearch
<1>. QED
  BY InitIInv, NextIInv, InitSearch, <1>2, <1>3, PTL DEF Spec
=============================================================================
