-------------------------- MODULE DiskSyncerProofs --------------------------
(***************************************************************************)
(* Proofs about the disk syncer, for any accounts and any number of        *)
(* versions, failures and restarts.                                        *)
(*                                                                         *)
(* The argument is about versions: memory is never behind what was asked   *)
(* for or acknowledged, so that a write of what is in memory loses         *)
(* nothing, and a batch has all of memory in the temporary directory       *)
(* before it removes anything of the network directory.                    *)
(***************************************************************************)
EXTENDS DiskSyncer, FiniteSetTheorems, TLAPS

Ops == {"touch", "schedule", "flush", "register", "batch"}
Steps == [op : Ops, f : File]
Dirs == {"net", "tmp"}
Entry == File \X Nat

Types ==
  /\ clock \in Nat
  /\ mem \in [File -> Nat]
  /\ known \subseteq Account
  /\ opened \in BOOLEAN
  /\ bsem \in {"free", "request", "handler"}
  /\ prog \in [Caller -> Seq(Steps)]
  /\ handler \in {"starting", "running", "done"}
  /\ job \in [kind : {"none", "flush", "quit", "account", "tmp", "remove", "rename"},
              left : SUBSET Entry]
  /\ schedule \subseteq Entry
  /\ timer \in {"nil", "armed", "fired"}
  /\ sem \in BOOLEAN
  /\ there \subseteq Dirs
  /\ disk \in [Dirs -> [File -> Nat]]
  /\ asked \in [File -> Nat]
  /\ acked \in [File -> Nat]
  /\ orphan \subseteq Account
  /\ lost \in BOOLEAN
DirsOK == \A d \in Dirs : d \notin there => disk[d] = NoFiles

(* Before the accounts are opened there is nothing in memory.              *)
Unopened ==
  ~opened => /\ known = {} /\ mem = NoFiles /\ schedule = {} /\ job.left = {}
             /\ \A c \in Caller : prog[c] = <<>>
             /\ job.kind \notin {"account", "tmp", "remove", "rename"}

(* A program for the accounts A.                                           *)
Fits(p, A) == /\ p \in Seq(Steps)
              /\ \A i \in DOMAIN p : p[i].op # "batch" => p[i].f[1] \in A

(* Callers work on accounts that are, or were, known; only a request that  *)
(* holds the semaphore has something to do, or has a job done.             *)
CallersOK ==
  /\ \A c \in Caller : Fits(prog[c], known \cup orphan)
  /\ prog["request"] # <<>> => bsem = "request"
  /\ job.kind = "flush" => bsem = "handler"
  /\ job.kind \in {"account", "tmp", "remove", "rename"} =>
       prog["request"] # <<>> /\ Head(prog["request"]).op # "touch"

(* Versions: memory is at least what was asked for and, of the wallets     *)
(* that Recoverable is about, what was acknowledged.                       *)
Counts(f) == f[2] = "wallet" /\ f[1] \notin orphan
Versions ==
  /\ 1 <= clock
  /\ \A f \in File : mem[f] <= clock /\ asked[f] <= mem[f]
  /\ \A f \in File : f[1] \notin known \cup orphan => mem[f] = 0
  /\ \A f \in File : opened /\ ~lost /\ Counts(f) => acked[f] <= mem[f]
  /\ \A d \in Dirs, f \in File : disk[d][f] <= clock

(* What the schedule and the job hold of accounts that were removed.       *)
Removed ==
  \A e \in schedule \cup job.left : e[2] <= clock /\ (e[2] # 0 => e[1][1] \in orphan)

(* A flush of an account covers all that is scheduled for it.              *)
AccountJob ==
  job.kind = "account" =>
    \A f \in File : f[1] = Head(prog["request"]).f[1] /\ <<f, 0>> \in schedule
                      => <<f, 0>> \in job.left

(* The files of a batch: what is not left to write is in the temporary     *)
(* directory, and what is not left to remove is gone.                      *)
InTmp(f) == /\ asked[f] <= disk["tmp"][f]
            /\ disk["tmp"][f] <= mem[f]
            /\ ~lost /\ Counts(f) => acked[f] <= disk["tmp"][f]
BatchJob ==
  /\ job.kind \in {"tmp", "remove"} => \A e \in job.left : e[2] = 0
  /\ job.kind = "tmp" => \A f \in File : f[1] \in known => InTmp(f) \/ <<f, 0>> \in job.left
  /\ job.kind \in {"remove", "rename"} => \A f \in File : f[1] \in known => InTmp(f)
  /\ job.kind = "remove" => \A f \in File : disk["net"][f] # 0 => <<f, 0>> \in job.left

(* NothingForgotten and Recoverable, file by file.                         *)
Scheduled ==
  \A f \in File : f[1] \in known \ orphan => asked[f] <= OnDisk(f) \/ <<f, 0>> \in schedule
Saved == \A f \in File : ~lost /\ Counts(f) => acked[f] <= OnDisk(f)

IInv == /\ Types /\ DirsOK /\ Unopened /\ CallersOK /\ Versions /\ Removed
        /\ AccountJob /\ BatchJob /\ Scheduled /\ Saved
-----------------------------------------------------------------------------
LEMMA FileFacts ==
  /\ \A f \in File : f[1] \in Account /\ f[2] \in {"wallet", "tx"} /\ f = <<f[1], f[2]>>
  /\ \A f \in File : f[2] = "wallet" => f = Wallet(f[1])
  /\ \A a \in Account : /\ Wallet(a) \in File /\ Wallet(a)[1] = a /\ Wallet(a)[2] = "wallet"
                         /\ TxFile(a) \in File /\ TxFile(a)[1] = a /\ TxFile(a)[2] = "tx"
  /\ \A A \in SUBSET Account : \A f : f \in FilesOf(A) <=> f \in File /\ f[1] \in A
  /\ NoFiles \in [File -> Nat] /\ \A f \in File : NoFiles[f] = 0
BY DEF File, FilesOf, Wallet, TxFile, NoFiles

LEMMA OnDiskMax ==
  ASSUME disk \in [Dirs -> [File -> Nat]], NEW f \in File
  PROVE  /\ OnDisk(f) \in Nat /\ disk["net"][f] \in Nat /\ disk["tmp"][f] \in Nat
         /\ disk["net"][f] <= OnDisk(f) /\ disk["tmp"][f] <= OnDisk(f)
         /\ OnDisk(f) \in {disk["net"][f], disk["tmp"][f]}
BY DEF OnDisk, Dirs

LEMMA InitIInv == Init => IInv
<1>. SUFFICES ASSUME Init PROVE IInv
  OBVIOUS
<1>1. Types
  <2>1. disk \in [Dirs -> [File -> Nat]]
    BY FileFacts DEF Init, Dirs
  <2>2. job \in [kind : {"none", "flush", "quit", "account", "tmp", "remove", "rename"},
                 left : SUBSET Entry]
    BY DEF Init, NoJob
  <2>3. prog \in [Caller -> Seq(Steps)]
    BY DEF Init
  <2>4. acked \in [File -> Nat]
    BY <2>1 DEF Init, Dirs
  <2>. QED
    BY <2>1, <2>2, <2>3, <2>4, FileFacts DEF Init, Types, Dirs
<1>2. DirsOK
  BY DEF Init, DirsOK, Dirs
<1>3. Unopened /\ CallersOK /\ Removed /\ AccountJob /\ BatchJob
  BY DEF Init, Unopened, CallersOK, Fits, Removed, AccountJob, BatchJob, NoJob, Caller
<1>4. Versions /\ Scheduled
  BY FileFacts DEF Init, Versions, Scheduled, Dirs
<1>5. Saved
  BY <1>1, OnDiskMax DEF Init, Saved, Types
<1>. QED
  BY <1>1, <1>2, <1>3, <1>4, <1>5 DEF IInv
-----------------------------------------------------------------------------
LEMMA StepFacts ==
  \A f \in File : /\ Touch(f) \in Steps /\ Touch(f).f = f /\ Touch(f).op = "touch"
                  /\ Schedule(f) \in Steps /\ Schedule(f).f = f
BY DEF Touch, Schedule, Steps, Ops

LEMMA AccountSteps ==
  ASSUME NEW a \in Account
  PROVE  /\ FlushAccount(a) \in Steps /\ FlushAccount(a).f[1] = a
         /\ Register(a) \in Steps /\ Register(a).f[1] = a
         /\ WriteBatch \in Steps /\ WriteBatch.op = "batch"
<1>1. Wallet(a) \in File /\ Wallet(a)[1] = a /\ Wallet(Default) \in File
  BY FileFacts, AccountAssumption
<1>. QED
  BY <1>1 DEF FlushAccount, Register, WriteBatch, Steps, Ops

LEMMA AppendFits ==
  ASSUME NEW A, NEW p, Fits(p, A), NEW x \in Steps, x.op # "batch" => x.f[1] \in A
  PROVE  Fits(Append(p, x), A)
<1>1. p \in Seq(Steps) /\ DOMAIN p = 1 .. Len(p) /\ Len(p) \in Nat
  BY DEF Fits
<1>2. Append(p, x) \in Seq(Steps) /\ DOMAIN Append(p, x) = 1 .. Len(p) + 1
  BY <1>1
<1>3. ASSUME NEW i \in 1 .. Len(p) + 1, Append(p, x)[i].op # "batch"
      PROVE  Append(p, x)[i].f[1] \in A
  <2>1. CASE i = Len(p) + 1
    BY <1>1, <1>3, <2>1
  <2>2. CASE i \in 1 .. Len(p)
    BY <1>1, <1>3, <2>2 DEF Fits
  <2>. QED
    BY <1>1, <2>1, <2>2
<1>. QED
  BY <1>2, <1>3 DEF Fits

LEMMA TailFits ==
  ASSUME NEW A, NEW p, Fits(p, A), p # <<>>
  PROVE  /\ Fits(Tail(p), A) /\ Head(p) \in Steps
         /\ Head(p).op # "batch" => Head(p).f[1] \in A
<1>1. /\ p \in Seq(Steps) /\ Len(p) \in Nat \ {0} /\ DOMAIN p = 1 .. Len(p)
      /\ Tail(p) \in Seq(Steps) /\ DOMAIN Tail(p) = 1 .. Len(p) - 1
      /\ Head(p) = p[1] /\ 1 \in DOMAIN p
  BY DEF Fits
<1>2. ASSUME NEW i \in 1 .. Len(p) - 1 PROVE Tail(p)[i] = p[i + 1] /\ i + 1 \in DOMAIN p
  BY <1>1
<1>. QED
  BY <1>1, <1>2 DEF Fits

(* The programs for all accounts, in any order.                            *)
LEMMA OrderFits ==
  ASSUME known \subseteq Account, NEW order \in SetToSeqs(known)
  PROVE  Fits(TouchTxs(order), known) /\ Fits(TouchWallets(order), known)
<1>1. Cardinality(known) \in Nat
  BY AccountAssumption, FS_Subset, FS_CardinalityType
<1>2. order \in [1 .. Cardinality(known) -> known]
  BY DEF SetToSeqs
<1>3. Len(order) \in Nat /\ \A i \in 1 .. Len(order) : order[i] \in known
  BY <1>1, <1>2
<1>4. Fits(TouchTxs(order), known)
  <2>1. ASSUME NEW i \in 1 .. 2 * Len(order)
        PROVE  TouchTxs(order)[i] \in Steps /\ TouchTxs(order)[i].f[1] \in known
    <3>1. (i + 1) \div 2 \in 1 .. Len(order)
      BY <1>3
    <3>. DEFINE f == TxFile(order[(i + 1) \div 2])
    <3>2. f \in File /\ f[1] \in known
      BY <1>3, <3>1, FileFacts
    <3>3. TouchTxs(order)[i] \in {Touch(f), Schedule(f)}
      BY DEF TouchTxs
    <3>. QED
      BY <3>2, <3>3, StepFacts
  <2>2. DOMAIN TouchTxs(order) = 1 .. 2 * Len(order) /\ 2 * Len(order) \in Nat
    BY <1>3 DEF TouchTxs
  <2>3. TouchTxs(order) = [i \in 1 .. 2 * Len(order) |-> TouchTxs(order)[i]]
    BY DEF TouchTxs
  <2>4. TouchTxs(order) \in Seq(Steps)
    BY <2>1, <2>2, <2>3
  <2>. QED
    BY <2>1, <2>2, <2>4 DEF Fits
<1>5. Fits(TouchWallets(order), known)
  <2>1. ASSUME NEW i \in 1 .. Len(order)
        PROVE  TouchWallets(order)[i] \in Steps /\ TouchWallets(order)[i].f[1] \in known
    <3>1. Wallet(order[i]) \in File /\ Wallet(order[i])[1] \in known
      BY <1>3, FileFacts
    <3>. QED
      BY <3>1, StepFacts DEF TouchWallets
  <2>2. DOMAIN TouchWallets(order) = 1 .. Len(order)
    BY DEF TouchWallets
  <2>3. TouchWallets(order) \in Seq(Steps)
    BY <1>3, <2>1 DEF TouchWallets
  <2>. QED
    BY <2>1, <2>2, <2>3 DEF Fits
<1>. QED
  BY <1>4, <1>5

LEMMA MoreFits == ASSUME NEW A, NEW B, A \subseteq B, NEW p, Fits(p, A) PROVE Fits(p, B)
BY DEF Fits

(* A step that leaves the files, the handler and the histories alone.      *)
LEMMA CallerFrame ==
  ASSUME IInv, Types', CallersOK', opened,
         known' = known \/ (known = {} /\ job.kind \notin {"tmp", "remove", "rename"}),
         job.kind = "account" => Head(prog'["request"]) = Head(prog["request"]),
         UNCHANGED <<clock, mem, opened, handlerVars, diskVars, asked, acked, orphan, lost>>
  PROVE  IInv'
<1>. USE DEF IInv, handlerVars, diskVars
<1>1. DirsOK' /\ Unopened'
  BY DEF DirsOK, Unopened
<1>2. Versions'
  BY DEF Versions, Counts
<1>3. Removed' /\ AccountJob'
  BY DEF Removed, AccountJob
<1>4. BatchJob'
  BY DEF BatchJob, InTmp, Counts
<1>5. Scheduled'
  <2>1. ASSUME NEW f \in File, known = {}, f[1] \notin orphan PROVE asked[f] <= OnDisk(f)
    <3>1. asked[f] = 0
      BY <2>1 DEF Versions, Types
    <3>. QED
      BY <3>1, OnDiskMax DEF Types
  <2>. QED
    BY <2>1 DEF Scheduled, OnDisk
<1>6. Saved'
  BY DEF Saved, Counts, OnDisk
<1>. QED
  BY <1>1, <1>2, <1>3, <1>4, <1>5, <1>6

LEMMA GrabIInv ==
  ASSUME IInv, NEW steps, Grab(steps), Fits(steps, known'),
         known' = known \/ (known = {} /\ known' = {Default})
  PROVE  IInv'
<1>1. /\ opened /\ bsem = "free" /\ bsem' = "request"
      /\ prog' = [prog EXCEPT !["request"] = steps]
      /\ UNCHANGED <<clock, mem, opened, handlerVars, diskVars, asked, acked, orphan, lost>>
  BY DEF Grab
<1>2. /\ prog["request"] = <<>> /\ job.kind \notin {"account", "tmp", "remove", "rename", "flush"}
  BY <1>1 DEF IInv, CallersOK
<1>3. prog' \in [Caller -> Seq(Steps)]
  BY <1>1 DEF IInv, Types, Fits
<1>4. Types'
  BY <1>1, <1>3, AccountAssumption DEF IInv, Types, handlerVars, diskVars
<1>5. CallersOK'
  <2>1. ASSUME NEW c \in Caller PROVE Fits(prog'[c], known' \cup orphan)
    <3>1. CASE c = "request"
      <4>1. prog'[c] = steps
        BY <1>1, <3>1 DEF IInv, Types, Caller
      <4>. QED
        BY <4>1, MoreFits
    <3>2. CASE c # "request"
      <4>1. prog'[c] = prog[c] /\ Fits(prog[c], known \cup orphan)
        BY <1>1, <3>2 DEF IInv, Types, CallersOK
      <4>2. known \cup orphan \subseteq known' \cup orphan
        OBVIOUS
      <4>. QED
        BY <4>1, <4>2, MoreFits
    <3>. QED
      BY <3>1, <3>2
  <2>. QED
    BY <1>1, <1>2, <2>1 DEF CallersOK, handlerVars
<1>. QED
  BY <1>1, <1>2, <1>4, <1>5, CallerFrame

LEMMA EmptyFits == ASSUME NEW A PROVE Fits(<<>>, A)
BY DEF Fits

(* The requests and notification handlers.                                 *)
LEMMA RequestIInv ==
  ASSUME IInv, \/ \E a \in Account : \/ ChangeWallet(a) \/ RecoverAddresses(a)
                                      \/ RecvTx(a) \/ SendTx(a)
               \/ BlockNotify \/ RecordSpendingTx \/ ChangePassphrase \/ CreateWallet
  PROVE  IInv'
<1>0. known \subseteq Account
  BY DEF IInv, Types
<1>1. ASSUME NEW a \in Account, NEW A, a \in A
      PROVE  /\ Fits(<<Touch(Wallet(a))>>, A)
             /\ Fits(TouchTx(a), A)
             /\ Fits(<<Touch(Wallet(a)), Schedule(Wallet(a))>>, A)
             /\ Fits(<<Touch(Wallet(a)), Schedule(Wallet(a)), FlushAccount(a)>>, A)
             /\ Fits(Append(TouchTx(a), FlushAccount(a)), A)
             /\ Fits(<<Touch(Wallet(a)), Touch(TxFile(a)), Schedule(Wallet(a)),
                       Schedule(TxFile(a)), Register(a)>>, A)
  <2>1. /\ Wallet(a) \in File /\ TxFile(a) \in File /\ Wallet(a)[1] = a /\ TxFile(a)[1] = a
    BY FileFacts
  <2>. DEFINE w == Touch(Wallet(a))
              t == Touch(TxFile(a))
              sw == Schedule(Wallet(a))
              st == Schedule(TxFile(a))
              fl == FlushAccount(a)
              re == Register(a)
  <2>2. /\ {w, t, sw, st, fl, re} \subseteq Steps
        /\ w.f[1] = a /\ t.f[1] = a /\ sw.f[1] = a /\ st.f[1] = a /\ fl.f[1] = a /\ re.f[1] = a
    BY <2>1, StepFacts, AccountSteps
  <2>. HIDE DEF w, t, sw, st, fl, re
  <2>3. Fits(<<w>>, A) /\ Fits(<<t, st>>, A) /\ Fits(<<w, sw>>, A) /\ Fits(<<w, sw, fl>>, A)
    BY <1>1, <2>2 DEF Fits
  <2>4. Fits(<<w, t, sw, st, re>>, A)
    BY <1>1, <2>2 DEF Fits
  <2>5. Fits(Append(<<t, st>>, fl), A)
    BY <1>1, <2>2, <2>3, AppendFits
  <2>. QED
    BY <2>3, <2>4, <2>5 DEF w, t, sw, st, fl, re, TouchTx
<1>2. ASSUME NEW a \in Account,
             ChangeWallet(a) \/ RecoverAddresses(a) \/ RecvTx(a) \/ SendTx(a)
      PROVE  IInv'
  <2>1. a \in known /\ known' = known
    BY <1>2 DEF ChangeWallet, RecoverAddresses, RecvTx, SendTx
  <2>2. PICK steps : Grab(steps) /\ Fits(steps, known)
    BY <1>1, <1>2, <2>1 DEF ChangeWallet, RecoverAddresses, RecvTx, SendTx
  <2>. QED
    BY <2>1, <2>2, GrabIInv
<1>3. CASE BlockNotify
  <2>1. Default \in known /\ known' = known
        /\ Grab(<<Touch(Wallet(Default)), Schedule(Wallet(Default))>>)
    BY <1>3 DEF BlockNotify
  <2>2. Fits(<<Touch(Wallet(Default)), Schedule(Wallet(Default))>>, known)
    BY <1>0, <1>1, <2>1
  <2>. QED
    BY <2>1, <2>2, GrabIInv
<1>4. CASE RecordSpendingTx
  <2>1. PICK order \in SetToSeqs(known) : Grab(TouchTxs(order))
    BY <1>4 DEF RecordSpendingTx
  <2>2. known' = known
    BY <1>4 DEF RecordSpendingTx
  <2>3. Fits(TouchTxs(order), known)
    BY <1>0, OrderFits
  <2>. QED
    BY <2>1, <2>2, <2>3, GrabIInv
<1>5. CASE ChangePassphrase
  <2>1. PICK order \in SetToSeqs(known) : Grab(Append(TouchWallets(order), WriteBatch))
    BY <1>5 DEF ChangePassphrase
  <2>2. known' = known
    BY <1>5 DEF ChangePassphrase
  <2>3. Fits(TouchWallets(order), known) /\ WriteBatch \in Steps /\ WriteBatch.op = "batch"
    BY <1>0, OrderFits, AccountSteps, AccountAssumption
  <2>4. Fits(Append(TouchWallets(order), WriteBatch), known)
    BY <2>3, AppendFits
  <2>. QED
    BY <2>1, <2>2, <2>4, GrabIInv
<1>6. CASE CreateWallet
  <2>. DEFINE steps == <<Touch(Wallet(Default)), Touch(TxFile(Default)), Schedule(Wallet(Default)),
                         Schedule(TxFile(Default)), Register(Default)>>
  <2>1. Grab(steps) /\ known = {} /\ known' = {Default}
    BY <1>6 DEF CreateWallet
  <2>2. Fits(steps, known')
    BY <1>1, <2>1, AccountAssumption
  <2>. HIDE DEF steps
  <2>. QED
    BY <2>1, <2>2, GrabIInv
<1>. QED
  BY <1>2, <1>3, <1>4, <1>5, <1>6

LEMMA HandshakeIInv ==
  ASSUME IInv, NEW steps, Handshake(steps), Fits(steps, known)
  PROVE  IInv'
<1>. DEFINE program == Append(steps, Touch(Wallet(Default)))
<1>1. /\ opened /\ Default \in known /\ prog' = [prog EXCEPT !["handshake"] = program]
      /\ UNCHANGED <<clock, mem, known, opened, bsem, handlerVars, diskVars, asked, acked,
                     orphan, lost>>
  BY DEF Handshake, histVars
<1>2. Fits(program, known)
  <2>1. /\ Touch(Wallet(Default)) \in Steps /\ Touch(Wallet(Default)).f[1] = Default
    BY FileFacts, StepFacts, AccountAssumption
  <2>. QED
    BY <1>1, <2>1, AppendFits
<1>. HIDE DEF program
<1>3. prog' \in [Caller -> Seq(Steps)] /\ prog'["request"] = prog["request"]
  BY <1>1, <1>2 DEF IInv, Types, Fits, Caller
<1>4. Types'
  BY <1>1, <1>3 DEF IInv, Types, handlerVars, diskVars
<1>5. CallersOK'
  <2>1. ASSUME NEW c \in Caller PROVE Fits(prog'[c], known' \cup orphan)
    <3>1. CASE c = "handshake"
      <4>1. prog'[c] = program
        BY <1>1, <3>1 DEF IInv, Types, Caller
      <4>. QED
        BY <1>1, <1>2, <4>1, MoreFits
    <3>2. CASE c # "handshake"
      BY <1>1, <3>2 DEF IInv, Types, CallersOK
    <3>. QED
      BY <3>1, <3>2
  <2>. QED
    BY <1>1, <1>3, <2>1 DEF IInv, CallersOK, handlerVars
<1>. QED
  BY <1>1, <1>3, <1>4, <1>5, CallerFrame

(* A caller's program after its first step.                                *)
LEMMA NextStep ==
  ASSUME IInv, NEW c \in Caller, prog[c] # <<>>, prog' = [prog EXCEPT ![c] = Tail(prog[c])]
  PROVE  /\ opened /\ prog' \in [Caller -> Seq(Steps)]
         /\ \A e \in Caller : Fits(prog'[e], known \cup orphan)
         /\ Head(prog[c]) \in Steps /\ Head(prog[c]).f \in File
         /\ Head(prog[c]).op # "batch" => Head(prog[c]).f[1] \in known \cup orphan
<1>1. Fits(prog[c], known \cup orphan)
  BY DEF IInv, CallersOK
<1>2. /\ Fits(Tail(prog[c]), known \cup orphan) /\ Head(prog[c]) \in Steps
      /\ Head(prog[c]).op # "batch" => Head(prog[c]).f[1] \in known \cup orphan
  BY <1>1, TailFits
<1>3. ASSUME NEW e \in Caller PROVE Fits(prog'[e], known \cup orphan)
  <2>1. prog'[e] = prog[e] \/ prog'[e] = Tail(prog[c])
    BY DEF IInv, Types
  <2>. QED
    BY <1>2, <2>1 DEF IInv, CallersOK
<1>4. prog' \in [Caller -> Seq(Steps)]
  BY <1>2 DEF IInv, Types, Fits
<1>. QED
  BY <1>2, <1>3, <1>4 DEF IInv, Unopened, Steps

LEMMA TouchIInv == ASSUME IInv, NEW c \in Caller, TouchStep(c) PROVE IInv'
<1>. USE DEF IInv, handlerVars, diskVars, histVars
<1>. DEFINE g == Head(prog[c]).f
<1>1. /\ prog[c] # <<>> /\ Head(prog[c]).op = "touch"
      /\ prog' = [prog EXCEPT ![c] = Tail(prog[c])]
      /\ clock' = clock + 1 /\ mem' = [mem EXCEPT ![g] = clock + 1]
      /\ known' = known /\ opened' = opened /\ bsem' = bsem /\ disk' = disk
      /\ asked' = asked /\ acked' = acked /\ orphan' = orphan /\ lost' = lost
      /\ UNCHANGED <<handler, job, schedule, timer, sem, there>>
  BY DEF TouchStep
<1>2. /\ opened /\ prog' \in [Caller -> Seq(Steps)]
      /\ \A e \in Caller : Fits(prog'[e], known \cup orphan)
      /\ g \in File /\ g[1] \in known \cup orphan
  BY <1>1, NextStep
<1>. HIDE DEF g
<1>3. /\ mem' \in [File -> Nat] /\ clock \in Nat
      /\ \A f \in File : /\ mem[f] \in Nat /\ asked[f] \in Nat /\ acked[f] \in Nat
                          /\ mem'[f] \in Nat /\ mem[f] <= mem'[f] /\ mem'[f] <= clock + 1
      /\ \A f \in File : f # g => mem'[f] = mem[f]
  BY <1>1, <1>2 DEF Types, Versions
<1>4. Types'
  BY <1>1, <1>2, <1>3 DEF Types
<1>5. CallersOK'
  <2>1. job.kind \in {"account", "tmp", "remove", "rename"} => prog'["request"] = prog["request"]
    <3>1. CASE c = "request"
      BY <1>1, <3>1 DEF CallersOK
    <3>2. CASE c # "request"
      BY <1>1, <3>2 DEF Types, Caller
    <3>. QED
      BY <3>1, <3>2
  <2>2. prog'["request"] # <<>> => prog["request"] # <<>>
    BY <1>1 DEF Types, Caller
  <2>. QED
    BY <1>1, <1>2, <2>1, <2>2 DEF CallersOK
<1>6. DirsOK' /\ Unopened'
  BY <1>1, <1>2 DEF DirsOK, Unopened
<1>7. Versions'
  <2>1. \A d \in Dirs, f \in File : disk[d][f] \in Nat
    BY DEF Types
  <2>2. \A d \in Dirs, f \in File : disk'[d][f] <= clock'
    BY <1>1, <1>3, <2>1 DEF Versions
  <2>3. ASSUME NEW f \in File
        PROVE  /\ mem'[f] <= clock' /\ asked'[f] <= mem'[f]
               /\ f[1] \notin known \cup orphan => mem'[f] = 0
               /\ opened /\ ~lost /\ Counts(f) => acked[f] <= mem'[f]
    <3>1. /\ mem[f] \in Nat /\ asked[f] \in Nat /\ acked[f] \in Nat
          /\ mem'[f] \in Nat /\ mem[f] <= mem'[f] /\ mem'[f] <= clock + 1
          /\ f # g => mem'[f] = mem[f]
      BY <1>3, Zenon
    <3>2. /\ asked[f] <= mem[f]
          /\ f[1] \notin known \cup orphan => mem[f] = 0
          /\ opened /\ ~lost /\ Counts(f) => acked[f] <= mem[f]
      BY Zenon DEF Versions
    <3>. QED
      BY <1>1, <1>2, <3>1, <3>2
  <2>. QED
    BY <1>1, <1>3, <2>2, <2>3 DEF Versions, Counts
<1>8. Removed'
  <2>1. \A e \in schedule \cup job.left : e[2] \in Nat
    BY DEF Types, Entry
  <2>. QED
    BY <1>1, <1>3, <2>1 DEF Removed
<1>9. AccountJob'
  <2>1. job.kind = "account" => prog'["request"] = prog["request"]
    <3>1. CASE c = "request"
      BY <1>1, <3>1 DEF CallersOK
    <3>2. CASE c # "request"
      BY <1>1, <3>2 DEF Types, Caller
    <3>. QED
      BY <3>1, <3>2
  <2>. QED
    BY <1>1, <2>1 DEF AccountJob
<1>10. BatchJob'
  <2>1. ASSUME NEW f \in File, InTmp(f) PROVE InTmp(f)'
    <3>1. disk["tmp"][f] \in Nat
      BY DEF Types, Dirs
    <3>2. /\ mem[f] \in Nat /\ mem'[f] \in Nat /\ mem[f] <= mem'[f]
          /\ disk' = disk /\ asked' = asked /\ acked' = acked /\ lost' = lost
          /\ orphan' = orphan
      BY <1>1, <1>3, Zenon
    <3>. QED
      BY <2>1, <3>1, <3>2 DEF InTmp, Counts
  <2>. QED
    BY <1>1, <2>1 DEF BatchJob
<1>11. Scheduled' /\ Saved'
  BY <1>1 DEF Scheduled, Saved, Counts, OnDisk
<1>. QED
  BY <1>4, <1>5, <1>6, <1>7, <1>8, <1>9, <1>10, <1>11

LEMMA ScheduleIInv == ASSUME IInv, NEW c \in Caller, RecvSchedule(c) PROVE IInv'
<1>. USE DEF IInv, diskVars
<1>. DEFINE g == Head(prog[c]).f
<1>1. /\ job = NoJob /\ prog[c] # <<>> /\ Head(prog[c]).op = "schedule"
      /\ prog' = [prog EXCEPT ![c] = Tail(prog[c])]
      /\ schedule' = schedule \cup {<<g, 0>>}
      /\ asked' = [asked EXCEPT ![g] = mem[g]]
      /\ timer' = TimerSet
      /\ UNCHANGED <<clock, mem, known, opened, bsem, handler, job, sem, diskVars, acked,
                     orphan, lost>>
  BY DEF RecvSchedule, Receiving, Ready, Offers
<1>2. /\ opened /\ prog' \in [Caller -> Seq(Steps)]
      /\ \A e \in Caller : Fits(prog'[e], known \cup orphan)
      /\ g \in File /\ g[1] \in known \cup orphan
  BY <1>1, NextStep
<1>3. job.kind = "none" /\ job.left = {}
  BY <1>1 DEF NoJob
<1>. HIDE DEF g
<1>4. /\ asked' \in [File -> Nat] /\ \A f \in File : f # g => asked'[f] = asked[f]
      /\ asked'[g] = mem[g] /\ mem[g] \in Nat
  BY <1>1, <1>2 DEF Types
<1>5. Types'
  <2>1. <<g, 0>> \in Entry
    BY <1>2 DEF Entry
  <2>2. timer' \in {"nil", "armed", "fired"}
    BY <1>1 DEF Types, TimerSet
  <2>. QED
    BY <1>1, <1>2, <1>4, <2>1, <2>2 DEF Types
<1>6. CallersOK'
  <2>1. prog'["request"] # <<>> => prog["request"] # <<>>
    BY <1>1 DEF Types, Caller
  <2>. QED
    BY <1>1, <1>2, <1>3, <2>1 DEF CallersOK
<1>7. DirsOK' /\ Unopened' /\ AccountJob' /\ BatchJob' /\ Removed'
  BY <1>1, <1>2, <1>3 DEF DirsOK, Unopened, AccountJob, BatchJob, Removed, Types
<1>8. Versions'
  BY <1>1, <1>2, <1>4 DEF Versions, Counts
<1>9. Scheduled' /\ Saved'
  BY <1>1, <1>2, <1>4 DEF Scheduled, Saved, Counts, OnDisk
<1>. QED
  BY <1>5, <1>6, <1>7, <1>8, <1>9

(* The handler gets something to do.                                       *)
LEMMA HandlerIInv ==
  ASSUME IInv, TimerFires \/ GrabSem \/ RecvFlush \/ RecvBatch \/ Quit \/ HandlerStart \/ Release
  PROVE  IInv'
<1>. USE DEF IInv, diskVars, memVars, handlerVars, histVars
<1>0. UNCHANGED <<clock, mem, known, opened, prog, schedule, disk, asked, acked, orphan, lost>>
  BY DEF TimerFires, GrabSem, RecvFlush, RecvBatch, Quit, HandlerStart, Release
<1>1. Versions' /\ Scheduled' /\ Saved'
  BY <1>0 DEF Versions, Scheduled, Saved, Counts, OnDisk
<1>2. CASE TimerFires \/ HandlerStart \/ Release
  <2>1. job' = job /\ there \subseteq there' /\ there' \subseteq there \cup {"net"}
    BY <1>2 DEF TimerFires, HandlerStart, Release
  <2>2. /\ handler' \in {handler, "running"} /\ timer' \in {timer, "fired"}
        /\ sem' \in {sem, TRUE} /\ bsem' \in {bsem, "free"}
        /\ bsem' # bsem => bsem = "request" /\ prog["request"] = <<>>
    BY <1>2 DEF TimerFires, HandlerStart, Release
  <2>3. Types'
    <3>1. /\ handler' \in {"starting", "running", "done"} /\ timer' \in {"nil", "armed", "fired"}
          /\ sem' \in BOOLEAN /\ bsem' \in {"free", "request", "handler"} /\ there' \subseteq Dirs
      BY <2>1, <2>2 DEF Types, Dirs
    <3>. QED
      BY <1>0, <2>1, <3>1 DEF Types
  <2>4. CallersOK'
    BY <1>0, <2>1, <2>2 DEF CallersOK
  <2>5. DirsOK' /\ Unopened' /\ Removed' /\ AccountJob'
    BY <1>0, <2>1 DEF DirsOK, Unopened, Removed, AccountJob
  <2>6. BatchJob'
    BY <1>0, <2>1 DEF BatchJob, InTmp, Counts
  <2>. QED
    BY <1>1, <2>3, <2>4, <2>5, <2>6
<1>5. CASE GrabSem \/ Quit
  <2>1. PICK kind \in {"flush", "quit"} : job' = Job(kind, schedule)
    BY <1>5 DEF GrabSem, Quit
  <2>2. job'.kind = kind /\ job'.left = schedule
    BY <2>1 DEF Job
  <2>3. Types'
    BY <1>0, <1>5, <2>1 DEF GrabSem, Quit, Types, Job
  <2>4. CallersOK'
    <3>1. CASE GrabSem
      BY <1>0, <2>2, <3>1 DEF GrabSem, CallersOK, Job
    <3>2. CASE Quit
      BY <1>0, <3>2 DEF Quit, CallersOK, Job
    <3>. QED
      BY <1>5, <3>1, <3>2
  <2>5. DirsOK' /\ Unopened' /\ Removed' /\ AccountJob' /\ BatchJob'
    BY <1>0, <1>5, <2>2 DEF GrabSem, Quit, DirsOK, Unopened, Removed, AccountJob, BatchJob
  <2>. QED
    BY <1>1, <2>3, <2>4, <2>5
<1>6. CASE RecvFlush
  <2>. DEFINE a == Head(prog["request"]).f[1]
              left == schedule \cap Live(FilesOf({a}))
  <2>1. /\ job' = Job("account", left) /\ prog["request"] # <<>>
        /\ Head(prog["request"]).op \in {"flush", "register"}
        /\ UNCHANGED <<handler, timer, sem, there, bsem>>
    BY <1>6 DEF RecvFlush, Offers
  <2>2. job'.kind = "account" /\ job'.left = left /\ left \subseteq schedule
    BY <2>1 DEF Job
  <2>3. Types'
    BY <1>0, <2>1 DEF Types, Job
  <2>4. CallersOK' /\ DirsOK' /\ Unopened' /\ Removed' /\ BatchJob'
    BY <1>0, <2>1, <2>2 DEF CallersOK, DirsOK, Unopened, Removed, BatchJob, Caller
  <2>5. AccountJob'
    <3>1. ASSUME NEW f \in File, f[1] = a PROVE <<f, 0>> \in Live(FilesOf({a}))
      <4>1. f \in FilesOf({a})
        BY <3>1 DEF File, FilesOf
      <4>. QED
        BY <4>1 DEF Live
    <3>. QED
      BY <1>0, <2>2, <3>1 DEF AccountJob
  <2>. QED
    BY <1>1, <2>3, <2>4, <2>5
<1>7. CASE RecvBatch
  <2>. DEFINE left == Live(FilesOf(known))
  <2>1. /\ job' = Job("tmp", left) /\ prog["request"] # <<>>
        /\ Head(prog["request"]).op = "batch" /\ there' = there \cup {"tmp"}
        /\ UNCHANGED <<handler, timer, sem, bsem>>
    BY <1>7 DEF RecvBatch, Offers
  <2>2. /\ left \subseteq Entry
        /\ \A e \in left : e[2] = 0
        /\ \A f \in File : f[1] \in known => <<f, 0>> \in left
    <3>1. FilesOf(known) \subseteq File
      BY FileFacts DEF Types
    <3>2. \A f \in File : f[1] \in known => f \in FilesOf(known)
      BY FileFacts DEF Types
    <3>. HIDE DEF IInv
    <3>. QED
      BY <3>1, <3>2 DEF Live, Entry
  <2>. HIDE DEF left
  <2>3. job'.kind = "tmp" /\ job'.left = left
    BY <2>1 DEF Job
  <2>4. Types'
    BY <1>0, <2>1, <2>2 DEF Types, Job, Dirs
  <2>5. CallersOK' /\ DirsOK' /\ Unopened' /\ AccountJob'
    BY <1>0, <2>1, <2>3 DEF CallersOK, DirsOK, Unopened, AccountJob, Caller
  <2>6. Removed' /\ BatchJob'
    BY <1>0, <2>2, <2>3 DEF Removed, BatchJob, Types
  <2>. QED
    BY <1>1, <2>4, <2>5, <2>6
<1>. QED
  BY <1>2, <1>5, <1>6, <1>7
-----------------------------------------------------------------------------
(* A write changes one file to what is in memory, or, for an account that  *)
(* was removed, to what was.                                               *)
LEMMA WriteIInv == ASSUME IInv, NEW e \in job.left, WriteFile(e) PROVE IInv'
<1>. USE DEF IInv
<1>. DEFINE g == e[1]
            v == Contents(e)
<1>1. /\ job.kind \in {"flush", "quit", "account", "tmp"}
      /\ Target \in there
      /\ disk' = [disk EXCEPT ![Target][g] = v]
      /\ job' = [job EXCEPT !.left = job.left \ {e}]
      /\ schedule' = IF job.kind = "tmp" THEN schedule ELSE schedule \ {e}
      /\ clock' = clock /\ mem' = mem /\ known' = known /\ opened' = opened /\ bsem' = bsem
      /\ prog' = prog /\ there' = there /\ asked' = asked /\ acked' = acked
      /\ orphan' = orphan /\ lost' = lost
      /\ UNCHANGED <<handler, timer, sem>>
  BY DEF WriteFile, Writing, memVars, histVars
<1>2. /\ e \in Entry /\ g \in File /\ e[2] \in Nat /\ e = <<g, e[2]>> /\ opened
      /\ Target \in Dirs /\ (Target = "tmp" <=> job.kind = "tmp")
      /\ Target # "tmp" => Target = "net"
  BY <1>1 DEF Types, Entry, Unopened, Dirs, Target
<1>3. /\ v \in Nat /\ v <= clock
      /\ e[2] = 0 => v = mem[g]
      /\ e[2] # 0 => g[1] \in orphan
  BY <1>2 DEF Contents, Types, Versions, Removed
<1>. HIDE DEF g, v
<1>4. /\ disk' \in [Dirs -> [File -> Nat]] /\ disk'[Target][g] = v
      /\ \A d \in Dirs, f \in File : d # Target \/ f # g => disk'[d][f] = disk[d][f]
      /\ \A d \in Dirs : d # Target => disk'[d] = disk[d]
  BY <1>1, <1>2, <1>3 DEF Types
<1>5. job'.kind = job.kind /\ job'.left = job.left \ {e}
  BY <1>1 DEF Types
<1>6. Types'
  <2>1. job' \in [kind : {"none", "flush", "quit", "account", "tmp", "remove", "rename"},
                  left : SUBSET Entry]
    BY <1>1 DEF Types
  <2>. QED
    BY <1>1, <1>4, <2>1 DEF Types
<1>7. DirsOK'
  BY <1>1, <1>4 DEF DirsOK
<1>8. Unopened' /\ CallersOK' /\ Removed' /\ AccountJob'
  BY <1>1, <1>2, <1>5 DEF Unopened, CallersOK, Removed, AccountJob
<1>9. Versions'
  <2>1. \A d \in Dirs, f \in File : disk'[d][f] <= clock
    BY <1>2, <1>3, <1>4 DEF Versions
  <2>. QED
    BY <1>1, <2>1 DEF Versions, Counts
<1>10. BatchJob'
  <2>1. CASE job.kind # "tmp"
    <3>1. job'.kind \in {"flush", "quit", "account"}
      BY <1>1, <1>5, <2>1
    <3>. QED
      BY <3>1 DEF BatchJob
  <2>2. CASE job.kind = "tmp"
    <3>1. e[2] = 0 /\ v = mem[g] /\ Target = "tmp" /\ disk'["tmp"][g] = mem[g]
      BY <1>2, <1>3, <1>4, <2>2 DEF BatchJob
    <3>2. InTmp(g)'
      <4>1. /\ mem[g] \in Nat /\ asked[g] <= mem[g]
            /\ ~lost /\ Counts(g) => acked[g] <= mem[g]
        BY <1>2 DEF Versions, Types
      <4>. QED
        BY <1>1, <3>1, <4>1 DEF InTmp, Counts, g
    <3>3. ASSUME NEW f \in File, f[1] \in known PROVE InTmp(f)' \/ <<f, 0>> \in job'.left
      <4>1. CASE f = g
        BY <3>2, <4>1
      <4>2. CASE f # g
        <5>1. disk'["tmp"][f] = disk["tmp"][f]
          BY <1>4, <4>2 DEF Dirs
        <5>2. InTmp(f) => InTmp(f)'
          BY <1>1, <5>1 DEF InTmp, Counts
        <5>3. <<f, 0>> # e
          BY <1>2, <4>2
        <5>. QED
          BY <1>5, <2>2, <3>3, <5>2, <5>3 DEF BatchJob
      <4>. QED
        BY <4>1, <4>2
    <3>. QED
      BY <1>1, <1>5, <2>2, <3>3 DEF BatchJob
  <2>. QED
    BY <2>1, <2>2
<1>11. ASSUME NEW f \in File
       PROVE  /\ f # g => OnDisk(f)' = OnDisk(f)
              /\ f = g => v <= OnDisk(f)'
  <2>1. CASE f # g
    <3>1. disk'["net"][f] = disk["net"][f] /\ disk'["tmp"][f] = disk["tmp"][f]
      BY <1>4, <2>1 DEF Dirs
    <3>. QED
      BY <2>1, <3>1 DEF OnDisk
  <2>2. CASE f = g
    <3>1. /\ disk'["net"][f] \in Nat /\ disk'["tmp"][f] \in Nat
          /\ v \in {disk'["net"][f], disk'["tmp"][f]}
      BY <1>2, <1>4, <2>2 DEF Dirs
    <3>. QED
      BY <2>2, <3>1 DEF OnDisk
  <2>. QED
    BY <2>1, <2>2
<1>12. Scheduled'
  <2>1. ASSUME NEW f \in File, f[1] \in known \ orphan
        PROVE  asked[f] <= OnDisk(f)' \/ <<f, 0>> \in schedule'
    <3>1. CASE f # g
      <4>1. <<f, 0>> # e
        BY <1>2, <3>1
      <4>. QED
        BY <1>1, <1>11, <2>1, <3>1, <4>1 DEF Scheduled
    <3>2. CASE f = g
      <4>1. v = mem[f] /\ asked[f] <= mem[f] /\ v <= OnDisk(f)'
        BY <1>2, <1>3, <1>11, <2>1, <3>2 DEF Versions
      <4>2. OnDisk(f)' \in Nat /\ mem[f] \in Nat /\ asked[f] \in Nat
        BY <1>4, <1>6, OnDiskMax DEF Types, OnDisk, Dirs
      <4>. QED
        BY <4>1, <4>2
    <3>. QED
      BY <3>1, <3>2
  <2>. QED
    BY <1>1, <2>1 DEF Scheduled
<1>13. Saved'
  <2>1. ASSUME NEW f \in File, ~lost, Counts(f) PROVE acked[f] <= OnDisk(f)'
    <3>1. CASE f # g
      BY <1>11, <2>1, <3>1 DEF Saved
    <3>2. CASE f = g
      <4>1. v = mem[f] /\ acked[f] <= mem[f] /\ v <= OnDisk(f)'
        BY <1>2, <1>3, <1>11, <2>1, <3>2 DEF Versions, Counts
      <4>2. OnDisk(f)' \in Nat /\ mem[f] \in Nat /\ acked[f] \in Nat
        BY <1>4, <1>6 DEF Types, OnDisk, Dirs
      <4>. QED
        BY <4>1, <4>2
    <3>. QED
      BY <3>1, <3>2
  <2>. QED
    BY <1>1, <2>1 DEF Saved, Counts
<1>. QED
  BY <1>6, <1>7, <1>8, <1>9, <1>10, <1>12, <1>13

(* A batch has everything in the temporary directory before it removes     *)
(* the network directory file by file: what it removes is not needed.      *)
LEMMA InTmpOnDisk ==
  ASSUME IInv, job.kind \in {"remove", "rename"}, NEW f \in File
  PROVE  /\ f[1] \in known => asked[f] <= disk["tmp"][f] /\ disk["tmp"][f] <= mem[f]
         /\ ~lost /\ Counts(f) => acked[f] <= disk["tmp"][f]
<1>1. CASE f[1] \in known
  BY <1>1 DEF IInv, BatchJob, InTmp
<1>2. CASE f[1] \notin known
  <2>1. ~lost /\ Counts(f) => mem[f] = 0 /\ acked[f] <= mem[f]
    BY <1>2 DEF IInv, Versions, Unopened, Counts
  <2>2. mem[f] \in Nat /\ acked[f] \in Nat /\ disk["tmp"][f] \in Nat
    BY DEF IInv, Types, Dirs
  <2>. QED
    BY <1>2, <2>1, <2>2
<1>. QED
  BY <1>1, <1>2

LEMMA RemoveIInv ==
  ASSUME IInv, (\E e \in job.left : RemoveFile(e)) \/ RemoveDir \/ BatchRemove
  PROVE  IInv'
<1>. USE DEF IInv
<1>0. /\ UNCHANGED <<clock, mem, known, opened, bsem, prog, handler, schedule, timer, sem, asked,
                     acked, orphan, lost>>
      /\ job.kind \in {"tmp", "remove"}
  BY DEF RemoveFile, RemoveDir, BatchRemove, memVars, histVars
<1>1. CASE BatchRemove
  <2>1. /\ job.kind = "tmp" /\ job.left = {} /\ job' = Job("remove", Live(NetFiles))
        /\ UNCHANGED <<there, disk>>
    BY <1>1 DEF BatchRemove, TmpWritten, diskVars
  <2>2. job'.kind = "remove" /\ job'.left = Live(NetFiles)
    BY <2>1 DEF Job
  <2>3. /\ Live(NetFiles) \subseteq Entry /\ \A e \in Live(NetFiles) : e[2] = 0
        /\ \A f \in File : disk["net"][f] # 0 => <<f, 0>> \in Live(NetFiles)
    BY DEF Live, NetFiles, Entry
  <2>4. Types'
    BY <1>0, <2>1, <2>3 DEF Types, Job
  <2>5. DirsOK' /\ Unopened' /\ CallersOK' /\ AccountJob'
    BY <1>0, <2>1, <2>2 DEF DirsOK, Unopened, CallersOK, AccountJob
  <2>6. Versions' /\ Scheduled' /\ Saved'
    BY <1>0, <2>1 DEF Versions, Scheduled, Saved, Counts, OnDisk
  <2>7. Removed'
    BY <1>0, <2>2, <2>3 DEF Removed, Types
  <2>8. BatchJob'
    <3>1. \A f \in File : f[1] \in known => InTmp(f)
      BY <2>1 DEF BatchJob
    <3>2. \A f \in File : InTmp(f) => InTmp(f)'
      BY <1>0, <2>1 DEF InTmp, Counts
    <3>. QED
      BY <1>0, <2>1, <2>2, <2>3, <3>1, <3>2 DEF BatchJob
  <2>. QED
    BY <2>4, <2>5, <2>6, <2>7, <2>8
<1>2. CASE RemoveDir
  <2>1. /\ job.kind = "remove" /\ job.left = {} /\ job' = Job("rename", {})
        /\ there' = there \ {"net"} /\ disk' = disk
    BY <1>2 DEF RemoveDir
  <2>2. job'.kind = "rename" /\ job'.left = {}
    BY <2>1 DEF Job
  <2>3. disk["net"] = NoFiles
    <3>1. disk["net"] \in [File -> Nat] /\ \A f \in File : disk["net"][f] = 0
      BY <2>1 DEF BatchJob, Types, Dirs
    <3>. QED
      BY <3>1 DEF NoFiles
  <2>4. Types' /\ DirsOK'
    BY <1>0, <2>1, <2>3 DEF Types, DirsOK, Job, Dirs
  <2>5. Unopened' /\ CallersOK' /\ AccountJob' /\ Removed'
    BY <1>0, <2>1, <2>2 DEF Unopened, CallersOK, AccountJob, Removed
  <2>6. Versions' /\ Scheduled' /\ Saved'
    BY <1>0, <2>1 DEF Versions, Scheduled, Saved, Counts, OnDisk
  <2>7. BatchJob'
    <3>1. \A f \in File : f[1] \in known => InTmp(f)
      BY <2>1 DEF BatchJob
    <3>2. \A f \in File : InTmp(f) => InTmp(f)'
      BY <1>0, <2>1 DEF InTmp, Counts
    <3>. QED
      BY <1>0, <2>2, <3>1, <3>2 DEF BatchJob
  <2>. QED
    BY <2>4, <2>5, <2>6, <2>7
<1>3. ASSUME NEW e \in job.left, RemoveFile(e) PROVE IInv'
  <2>. DEFINE g == e[1]
  <2>1. /\ job.kind = "remove" /\ job' = [job EXCEPT !.left = job.left \ {e}]
        /\ disk' = [disk EXCEPT !["net"][g] = 0] /\ there' = there
    BY <1>3 DEF RemoveFile
  <2>2. g \in File /\ e = <<g, e[2]>> /\ e[2] = 0
    BY <2>1 DEF Types, Entry, BatchJob
  <2>. HIDE DEF g
  <2>3. /\ disk' \in [Dirs -> [File -> Nat]] /\ disk'["tmp"] = disk["tmp"]
        /\ disk'["net"][g] = 0 /\ \A f \in File : f # g => disk'["net"][f] = disk["net"][f]
        /\ \A f \in File : disk'["net"][f] # 0 => f # g /\ disk["net"][f] # 0
    BY <2>1, <2>2 DEF Types, Dirs
  <2>4. job'.kind = "remove" /\ job'.left = job.left \ {e}
    BY <2>1 DEF Types
  <2>5. Types'
    BY <1>0, <2>1, <2>3 DEF Types
  <2>6. DirsOK'
    <3>1. ASSUME "net" \notin there PROVE disk'["net"] = NoFiles
      <4>1. \A f \in File : disk'["net"][f] = 0
        BY <2>3, <3>1 DEF DirsOK, Dirs, NoFiles
      <4>2. disk'["net"] \in [File -> Nat]
        BY <2>3 DEF Dirs
      <4>. QED
        BY <4>1, <4>2 DEF NoFiles
    <3>. QED
      BY <2>1, <2>3, <3>1 DEF DirsOK, Dirs
  <2>7. Unopened' /\ CallersOK' /\ AccountJob' /\ Removed'
    BY <1>0, <2>1, <2>4 DEF Unopened, CallersOK, AccountJob, Removed
  <2>8. Versions'
    <3>1. ASSUME NEW d \in Dirs, NEW f \in File PROVE disk'[d][f] <= clock
      <4>1. disk[d][f] <= clock /\ clock \in Nat
        BY DEF Versions, Types
      <4>2. CASE d = "net" /\ f = g
        BY <2>3, <4>1, <4>2
      <4>3. CASE d = "net" /\ f # g
        BY <2>3, <4>1, <4>3
      <4>4. CASE d = "tmp"
        BY <2>3, <4>1, <4>4
      <4>. QED
        BY <4>2, <4>3, <4>4 DEF Dirs
    <3>. QED
      BY <1>0, <3>1 DEF Versions, Counts
  <2>9. BatchJob'
    <3>1. \A f \in File : f[1] \in known => InTmp(f)
      BY <2>1 DEF BatchJob
    <3>2. \A f \in File : InTmp(f) => InTmp(f)'
      BY <1>0, <2>3 DEF InTmp, Counts
    <3>3. ASSUME NEW f \in File, disk'["net"][f] # 0 PROVE <<f, 0>> \in job'.left
      <4>1. f # g /\ <<f, 0>> \in job.left
        BY <2>1, <2>3, <3>3 DEF BatchJob
      <4>2. <<f, 0>> # e
        BY <2>2, <4>1
      <4>. QED
        BY <2>4, <4>1, <4>2
    <3>4. \A x \in job'.left : x[2] = 0
      BY <2>1, <2>4 DEF BatchJob
    <3>. QED
      BY <1>0, <2>4, <3>1, <3>2, <3>3, <3>4 DEF BatchJob
  <2>10. Scheduled' /\ Saved'
    <3>1. ASSUME NEW f \in File
          PROVE  /\ f[1] \in known => asked[f] <= OnDisk(f)'
                 /\ ~lost /\ Counts(f) => acked[f] <= OnDisk(f)'
      <4>1. /\ f[1] \in known => asked[f] <= disk["tmp"][f]
            /\ ~lost /\ Counts(f) => acked[f] <= disk["tmp"][f]
        BY <2>1, InTmpOnDisk
      <4>2. /\ asked[f] \in Nat /\ acked[f] \in Nat /\ disk["tmp"][f] \in Nat
            /\ OnDisk(f)' \in Nat /\ disk["tmp"][f] <= OnDisk(f)'
        BY <2>3 DEF Types, Dirs, OnDisk
      <4>. QED
        BY <4>1, <4>2
    <3>. QED
      BY <1>0, <3>1 DEF Scheduled, Saved, Counts
  <2>. QED
    BY <2>5, <2>6, <2>7, <2>8, <2>9, <2>10
<1>. QED
  BY <1>1, <1>2, <1>3
-----------------------------------------------------------------------------
(* A job ends: flush and quit with nothing but the schedule as it is.      *)
LEMMA FlushEndsIInv ==
  ASSUME IInv, NEW ok, FlushEnds(ok) \/ QuitEnds(ok), Ends(ok), UNCHANGED diskVars
  PROVE  IInv'
<1>. USE DEF IInv
<1>1. /\ UNCHANGED <<clock, mem, known, opened, prog, schedule, there, disk, asked, acked,
                     orphan, lost>>
      /\ job' = NoJob /\ job.kind \in {"flush", "quit"}
      /\ handler' \in {handler, "done"} /\ timer' \in {timer, "nil"} /\ sem' \in {sem, FALSE}
      /\ bsem' = bsem \/ (bsem' = "free" /\ job.kind = "flush")
  BY DEF FlushEnds, QuitEnds, Ends, diskVars
<1>2. job'.kind = "none" /\ job'.left = {}
  BY <1>1 DEF NoJob
<1>3. Types'
  <2>1. /\ handler' \in {"starting", "running", "done"} /\ timer' \in {"nil", "armed", "fired"}
        /\ sem' \in BOOLEAN /\ bsem' \in {"free", "request", "handler"}
    BY <1>1 DEF Types
  <2>. QED
    BY <1>1, <2>1 DEF Types, NoJob
<1>4. CallersOK'
  BY <1>1, <1>2 DEF CallersOK
<1>5. DirsOK' /\ Unopened' /\ Removed' /\ AccountJob' /\ BatchJob'
  BY <1>1, <1>2 DEF DirsOK, Unopened, Removed, AccountJob, BatchJob
<1>6. Versions' /\ Scheduled' /\ Saved'
  BY <1>1 DEF Versions, Scheduled, Saved, Counts, OnDisk
<1>. QED
  BY <1>3, <1>4, <1>5, <1>6

(* The request that asked for the job goes on.                             *)
LEMMA RequestGoesOn ==
  ASSUME IInv, job.kind \in {"account", "tmp", "remove", "rename"},
         prog' = [prog EXCEPT !["request"] = Tail(prog["request"])]
  PROVE  /\ opened /\ prog' \in [Caller -> Seq(Steps)]
         /\ \A e \in Caller : Fits(prog'[e], known \cup orphan)
         /\ bsem = "request"
         /\ Head(prog["request"]) \in Steps /\ Head(prog["request"]).f \in File
<1>1. prog["request"] # <<>> /\ "request" \in Caller
  BY DEF IInv, CallersOK, Caller
<1>. QED
  BY <1>1, NextStep DEF IInv, CallersOK

(* FlushAccount ends: what was asked for is on disk, or the error is       *)
(* returned; a registration that fails makes the account one of orphan.    *)
LEMMA AccountEndsIInv ==
  ASSUME IInv, NEW ok \in BOOLEAN, AccountEnds(ok), Ends(ok), UNCHANGED diskVars,
         ok => job.left = {}
  PROVE  IInv'
<1>. USE DEF IInv
<1>. DEFINE call == Head(prog["request"])
            a == call.f[1]
            removed == ~ok /\ call.op = "register"
<1>1. /\ job.kind = "account" /\ job' = NoJob
      /\ prog' = [prog EXCEPT !["request"] = Tail(prog["request"])]
      /\ clock' = clock /\ opened' = opened /\ bsem' = bsem /\ there' = there /\ disk' = disk
      /\ lost' = lost
      /\ UNCHANGED <<handler, timer, sem>>
  BY DEF AccountEnds, Ends, diskVars
<1>2. /\ opened /\ prog' \in [Caller -> Seq(Steps)]
      /\ \A e \in Caller : Fits(prog'[e], known \cup orphan)
      /\ bsem = "request" /\ call \in Steps /\ call.f \in File
  BY <1>1, RequestGoesOn
<1>3. a \in Account
  BY <1>2, FileFacts
<1>4. job'.kind = "none" /\ job'.left = {}
  BY <1>1 DEF NoJob
<1>5. CASE removed
  <2>. DEFINE entry(e) == IF e[1][1] = a /\ e[2] = 0 THEN <<e[1], mem[e[1]]>> ELSE e
  <2>1. /\ known' = known \ {a} /\ orphan' = orphan \cup {a} /\ acked' = acked
        /\ mem' = [f \in File |-> IF f[1] = a THEN 0 ELSE mem[f]]
        /\ asked' = [f \in File |-> IF f[1] = a THEN 0 ELSE asked[f]]
        /\ schedule' = {entry(e) : e \in schedule}
    BY <1>5 DEF AccountEnds
  <2>. HIDE DEF a, call, removed
  <2>2. /\ mem' \in [File -> Nat] /\ asked' \in [File -> Nat]
        /\ \A f \in File : f[1] # a => mem'[f] = mem[f] /\ asked'[f] = asked[f]
        /\ \A f \in File : f[1] = a => mem'[f] = 0 /\ asked'[f] = 0
    BY <2>1 DEF Types
  <2>3. ASSUME NEW e \in schedule
        PROVE  /\ entry(e) \in Entry /\ entry(e)[2] <= clock
               /\ entry(e)[2] # 0 => entry(e)[1][1] \in orphan \cup {a}
    <3>1. e \in Entry /\ e[1] \in File /\ e[2] \in Nat /\ mem[e[1]] \in Nat /\ mem[e[1]] <= clock
      BY DEF Types, Entry, Versions
    <3>2. CASE e[1][1] = a /\ e[2] = 0
      <4>1. entry(e) = <<e[1], mem[e[1]]>>
        BY <3>2
      <4>. QED
        BY <3>1, <3>2, <4>1 DEF Entry
    <3>3. CASE ~(e[1][1] = a /\ e[2] = 0)
      BY <3>1, <3>3 DEF Removed
    <3>. QED
      BY <3>2, <3>3
  <2>4. ASSUME NEW f \in File, f[1] # a, <<f, 0>> \in schedule PROVE <<f, 0>> \in schedule'
    <3>1. entry(<<f, 0>>) = <<f, 0>>
      BY <2>4
    <3>. QED
      BY <2>1, <2>4, <3>1
  <2>5. /\ schedule' \subseteq Entry
        /\ \A x \in schedule' : x[2] <= clock /\ (x[2] # 0 => x[1][1] \in orphan')
    <3>. HIDE DEF entry
    <3>. QED
      BY <2>1, <2>3
  <2>. HIDE DEF entry
  <2>6. Types'
    BY <1>1, <1>2, <1>3, <2>1, <2>2, <2>5 DEF Types, NoJob
  <2>7. CallersOK'
    <3>1. \A e \in Caller : Fits(prog'[e], known' \cup orphan')
      <4>1. known \cup orphan \subseteq known' \cup orphan'
        BY <2>1
      <4>. QED
        BY <1>2, <4>1, MoreFits
    <3>. QED
      BY <1>1, <1>2, <1>4, <3>1 DEF CallersOK
  <2>8. DirsOK' /\ Unopened' /\ AccountJob' /\ BatchJob' /\ Removed'
    <3>1. DirsOK' /\ Unopened'
      BY <1>1, <1>2 DEF DirsOK, Unopened
    <3>2. AccountJob' /\ BatchJob'
      BY <1>4 DEF AccountJob, BatchJob
    <3>3. Removed'
      <4>1. schedule' \cup job'.left = schedule' /\ clock' = clock
        BY <1>1, <1>4
      <4>. QED
        BY <2>1, <2>5, <4>1 DEF Removed
    <3>. QED
      BY <3>1, <3>2, <3>3
  <2>9. Versions'
    <3>1. ASSUME NEW f \in File
          PROVE  /\ mem'[f] <= clock /\ asked'[f] <= mem'[f]
                 /\ f[1] \notin known' \cup orphan' => mem'[f] = 0
                 /\ opened /\ ~lost /\ f[2] = "wallet" /\ f[1] \notin orphan' => acked[f] <= mem'[f]
      <4>1. CASE f[1] = a
        BY <2>1, <2>2, <4>1 DEF Versions, Types
      <4>2. CASE f[1] # a
        BY <2>1, <2>2, <4>2 DEF Versions, Counts
      <4>. QED
        BY <4>1, <4>2
    <3>. QED
      BY <1>1, <2>1, <3>1 DEF Versions, Counts
  <2>10. Scheduled' /\ Saved'
    BY <1>1, <2>1, <2>2, <2>4 DEF Scheduled, Saved, Counts, OnDisk
  <2>. QED
    BY <2>6, <2>7, <2>8, <2>9, <2>10
<1>6. CASE ~removed
  <2>1. /\ known' = known /\ orphan' = orphan /\ mem' = mem /\ asked' = asked
        /\ schedule' = schedule
        /\ acked' = IF ok THEN [f \in File |-> IF f[1] = a THEN asked[f] ELSE acked[f]]
                          ELSE acked
    BY <1>6 DEF AccountEnds
  <2>. HIDE DEF removed
  <2>2. /\ acked' \in [File -> Nat]
        /\ \A f \in File : acked'[f] = acked[f] \/ (ok /\ f[1] = a /\ acked'[f] = asked[f])
    BY <2>1 DEF Types
  <2>3. Types'
    BY <1>1, <1>2, <2>1, <2>2 DEF Types, NoJob
  <2>4. CallersOK' /\ DirsOK' /\ Unopened' /\ AccountJob' /\ BatchJob' /\ Removed'
    BY <1>1, <1>2, <1>4, <2>1 DEF CallersOK, DirsOK, Unopened, AccountJob, BatchJob, Removed
  <2>5. Versions'
    BY <1>1, <2>1, <2>2 DEF Versions, Counts
  <2>6. Scheduled'
    BY <1>1, <2>1 DEF Scheduled, OnDisk
  <2>7. Saved'
    <3>1. ASSUME NEW f \in File, ~lost, Counts(f), acked'[f] # acked[f]
          PROVE  asked[f] <= OnDisk(f)
      <4>1. ok /\ f[1] = a
        BY <2>2, <3>1
      <4>2. <<f, 0>> \notin schedule
        BY <1>1, <4>1 DEF AccountJob
      <4>3. asked[f] <= mem[f] /\ (f[1] \in known \/ mem[f] = 0)
        BY <3>1 DEF Versions, Counts
      <4>4. CASE f[1] \in known
        BY <3>1, <4>2, <4>4 DEF Scheduled, Counts
      <4>5. CASE mem[f] = 0
        BY <4>3, <4>5, OnDiskMax DEF Types
      <4>. QED
        BY <4>3, <4>4, <4>5
    <3>2. ASSUME NEW f \in File, ~lost, Counts(f) PROVE acked'[f] <= OnDisk(f)
      BY <2>2, <3>1, <3>2 DEF Saved
    <3>. QED
      BY <1>1, <2>1, <3>2 DEF Saved, Counts, OnDisk
  <2>. QED
    BY <2>3, <2>4, <2>5, <2>6, <2>7
<1>. QED
  BY <1>5, <1>6

(* A batch that is given up leaves the schedule as it was.                 *)
LEMMA BatchFailsIInv ==
  ASSUME IInv, BatchEnds(FALSE), Ends(FALSE), UNCHANGED diskVars
  PROVE  IInv'
<1>. USE DEF IInv
<1>1. /\ job.kind \in {"tmp", "remove", "rename"} /\ job' = NoJob
      /\ prog' = [prog EXCEPT !["request"] = Tail(prog["request"])]
      /\ UNCHANGED <<clock, mem, known, opened, bsem, there, disk, schedule, timer, handler, sem,
                     asked, acked, orphan, lost>>
  BY DEF BatchEnds, Ends, KeepUnless, diskVars
<1>2. /\ opened /\ prog' \in [Caller -> Seq(Steps)]
      /\ \A e \in Caller : Fits(prog'[e], known \cup orphan) /\ bsem = "request"
  BY <1>1, RequestGoesOn DEF Caller
<1>3. job'.kind = "none" /\ job'.left = {}
  BY <1>1 DEF NoJob
<1>4. Types'
  BY <1>1, <1>2 DEF Types, NoJob
<1>5. CallersOK' /\ DirsOK' /\ Unopened' /\ AccountJob' /\ BatchJob' /\ Removed'
  BY <1>1, <1>2, <1>3 DEF CallersOK, DirsOK, Unopened, AccountJob, BatchJob, Removed, Caller
<1>6. Versions' /\ Scheduled' /\ Saved'
  BY <1>1 DEF Versions, Scheduled, Saved, Counts, OnDisk
<1>. QED
  BY <1>4, <1>5, <1>6

(* The temporary directory becomes the network directory: all that was     *)
(* asked for is in it, and the schedule can be dropped.                    *)
LEMMA RenameIInv == ASSUME IInv, RenameDir PROVE IInv'
<1>. USE DEF IInv
<1>1. /\ job.kind = "rename" /\ job' = NoJob
      /\ prog' = [prog EXCEPT !["request"] = Tail(prog["request"])]
      /\ schedule' = {} /\ timer' = "nil" /\ there' = {"net"}
      /\ disk' = [net |-> disk["tmp"], tmp |-> NoFiles]
      /\ acked' = [f \in File |-> IF f[1] \in known THEN disk["tmp"][f] ELSE acked[f]]
      /\ UNCHANGED <<clock, mem, known, opened, bsem, handler, sem, asked, orphan, lost>>
  BY DEF RenameDir, Ends, FlushEnds, QuitEnds, AccountEnds, BatchEnds, KeepUnless
<1>2. /\ opened /\ prog' \in [Caller -> Seq(Steps)]
      /\ \A e \in Caller : Fits(prog'[e], known \cup orphan) /\ bsem = "request"
  BY <1>1, RequestGoesOn DEF Caller
<1>3. job'.kind = "none" /\ job'.left = {}
  BY <1>1 DEF NoJob
<1>4. /\ disk' \in [Dirs -> [File -> Nat]] /\ disk'["net"] = disk["tmp"]
      /\ disk'["tmp"] = NoFiles /\ disk["tmp"] \in [File -> Nat]
  BY <1>1, FileFacts DEF Types, Dirs
<1>5. /\ acked' \in [File -> Nat]
      /\ \A f \in File : acked'[f] = IF f[1] \in known THEN disk["tmp"][f] ELSE acked[f]
  BY <1>1, <1>4 DEF Types
<1>6. Types'
  BY <1>1, <1>2, <1>4, <1>5 DEF Types, NoJob, Dirs
<1>7. CallersOK' /\ DirsOK' /\ Unopened' /\ AccountJob' /\ BatchJob' /\ Removed'
  BY <1>1, <1>2, <1>3, <1>4 DEF CallersOK, DirsOK, Unopened, AccountJob, BatchJob, Removed,
     Caller, Dirs
<1>8. ASSUME NEW f \in File
      PROVE  /\ f[1] \in known => asked[f] <= disk["tmp"][f] /\ acked'[f] <= mem[f]
             /\ ~lost /\ Counts(f) => acked'[f] <= disk["tmp"][f] /\ acked'[f] <= mem[f]
             /\ OnDisk(f)' = disk["tmp"][f] /\ disk["tmp"][f] \in Nat
  <2>1. /\ f[1] \in known => asked[f] <= disk["tmp"][f] /\ disk["tmp"][f] <= mem[f]
        /\ ~lost /\ Counts(f) => acked[f] <= disk["tmp"][f]
    BY <1>1, InTmpOnDisk
  <2>2. ~lost /\ Counts(f) => acked[f] <= mem[f]
    BY <1>2 DEF Versions
  <2>3. OnDisk(f)' = disk["tmp"][f] /\ disk["tmp"][f] \in Nat
    <3>1. NoFiles[f] = 0 /\ disk["tmp"][f] \in Nat
      BY <1>4, FileFacts
    <3>. QED
      BY <1>4, <3>1 DEF OnDisk
  <2>. QED
    BY <1>5, <2>1, <2>2, <2>3
<1>9. Versions'
  <2>1. ASSUME NEW d \in Dirs, NEW f \in File PROVE disk'[d][f] <= clock
    <3>1. disk["tmp"][f] <= clock /\ NoFiles[f] = 0 /\ clock \in Nat
      BY FileFacts DEF Versions, Dirs, Types
    <3>. QED
      BY <1>4, <3>1 DEF Dirs
  <2>. QED
    BY <1>1, <1>8, <2>1 DEF Versions, Counts
<1>10. Scheduled' /\ Saved'
  BY <1>1, <1>8 DEF Scheduled, Saved, Counts
<1>. QED
  BY <1>6, <1>7, <1>9, <1>10

LEMMA JobEndsIInv == ASSUME IInv, Written \/ Fails PROVE IInv'
<1>1. CASE Written
  <2>1. /\ job.kind \in {"flush", "quit", "account"} /\ job.left = {} /\ Ends(TRUE)
        /\ UNCHANGED diskVars
    BY <1>1 DEF Written, Writing
  <2>2. FlushEnds(TRUE) \/ QuitEnds(TRUE) \/ AccountEnds(TRUE)
    BY <2>1 DEF Ends, BatchEnds
  <2>. QED
    BY <2>1, <2>2, FlushEndsIInv, AccountEndsIInv
<1>2. CASE Fails
  <2>1. Ends(FALSE) /\ UNCHANGED diskVars
    BY <1>2 DEF Fails
  <2>2. FlushEnds(FALSE) \/ QuitEnds(FALSE) \/ AccountEnds(FALSE) \/ BatchEnds(FALSE)
    BY <2>1 DEF Ends
  <2>. QED
    BY <2>1, <2>2, FlushEndsIInv, AccountEndsIInv, BatchFailsIInv
<1>. QED
  BY <1>1, <1>2
-----------------------------------------------------------------------------
(* A start opens what it finds, and is behind an acknowledged wallet only  *)
(* if lost says so.                                                        *)
LEMMA OpenIInv == ASSUME IInv, OpenAccounts PROVE IInv'
<1>. USE DEF IInv
<1>. DEFINE files == FilesAtStart
<1>1. /\ ~opened /\ opened' = TRUE /\ known' = Found
      /\ mem' = [f \in File |-> IF f[1] \notin Found THEN 0
                                ELSE IF files[f] = 0 THEN 1 ELSE files[f]]
      /\ there' = IF Moves THEN {"net"} ELSE there \cup {"net"}
      /\ disk' = [net |-> [f \in File |-> IF f[1] \in Found THEN mem'[f] ELSE files[f]],
                  tmp |-> IF Moves THEN NoFiles ELSE disk["tmp"]]
      /\ asked' = mem'
      /\ lost' = (lost \/ \E a \in Account : mem'[Wallet(a)] < acked[Wallet(a)])
      /\ UNCHANGED <<clock, bsem, prog, handler, job, schedule, timer, sem, acked, orphan>>
  BY DEF OpenAccounts, handlerVars
<1>2. /\ schedule = {} /\ job.left = {} /\ \A c \in Caller : prog[c] = <<>>
      /\ job.kind \notin {"account", "tmp", "remove", "rename"}
  BY <1>1 DEF Unopened
<1>3. /\ files \in [File -> Nat] /\ \A f \in File : files[f] <= clock
      /\ Found \subseteq Account /\ clock \in Nat /\ 1 <= clock
  BY DEF Types, Versions, FilesAtStart, Found, Dirs
<1>. HIDE DEF files
<1>4. /\ mem' \in [File -> Nat]
      /\ \A f \in File : mem'[f] \in Nat /\ mem'[f] <= clock
      /\ \A f \in File : f[1] \notin Found => mem'[f] = 0
  BY <1>1, <1>3
<1>5. /\ disk' \in [Dirs -> [File -> Nat]]
      /\ \A f \in File : disk'["net"][f] = IF f[1] \in Found THEN mem'[f] ELSE files[f]
      /\ disk'["tmp"] = IF Moves THEN NoFiles ELSE disk["tmp"]
  <2>1. NoFiles \in [File -> Nat] /\ disk["tmp"] \in [File -> Nat]
    BY FileFacts DEF Types, Dirs
  <2>2. [f \in File |-> IF f[1] \in Found THEN mem'[f] ELSE files[f]] \in [File -> Nat]
    BY <1>3, <1>4
  <2>. QED
    BY <1>1, <2>1, <2>2 DEF Dirs
<1>6. Types'
  <2>1. lost' \in BOOLEAN /\ opened' \in BOOLEAN /\ there' \subseteq Dirs
    BY <1>1 DEF Types, Dirs
  <2>. QED
    BY <1>1, <1>3, <1>4, <1>5, <2>1 DEF Types
<1>7. DirsOK'
  BY <1>1, <1>5 DEF DirsOK, Dirs
<1>8. Unopened' /\ Removed' /\ AccountJob' /\ BatchJob'
  BY <1>1, <1>2 DEF Unopened, Removed, AccountJob, BatchJob
<1>9. CallersOK'
  <2>1. \A c \in Caller : Fits(prog'[c], known' \cup orphan')
    BY <1>1, <1>2, EmptyFits
  <2>2. "request" \in Caller
    BY DEF Caller
  <2>. QED
    BY <1>1, <1>2, <2>1, <2>2 DEF CallersOK
<1>10. ASSUME NEW f \in File, ~lost', f[2] = "wallet" PROVE acked[f] <= mem'[f]
  <2>1. f = Wallet(f[1]) /\ f[1] \in Account
    BY <1>10, FileFacts
  <2>2. ~(mem'[f] < acked[f])
    BY <1>1, <1>10, <2>1
  <2>3. mem'[f] \in Nat /\ acked[f] \in Nat
    BY <1>4 DEF Types
  <2>. QED
    BY <2>2, <2>3
<1>11. Versions'
  <2>1. ASSUME NEW d \in Dirs, NEW f \in File PROVE disk'[d][f] <= clock
    <3>1. CASE d = "net"
      BY <1>3, <1>4, <1>5, <3>1
    <3>2. CASE d = "tmp"
      <4>1. NoFiles[f] = 0 /\ disk["tmp"][f] <= clock
        BY FileFacts DEF Versions, Dirs
      <4>. QED
        BY <1>3, <1>5, <3>2, <4>1
    <3>. QED
      BY <3>1, <3>2 DEF Dirs
  <2>2. \A f \in File : mem'[f] <= clock /\ asked'[f] <= mem'[f]
    BY <1>1, <1>4
  <2>. QED
    BY <1>1, <1>3, <1>4, <1>10, <2>1, <2>2 DEF Versions, Counts
<1>12. ASSUME NEW f \in File PROVE mem'[f] <= OnDisk(f)'
  <2>1. disk'["net"][f] \in Nat /\ disk'["tmp"][f] \in Nat
    BY <1>5 DEF Dirs
  <2>2. mem'[f] = 0 \/ mem'[f] = disk'["net"][f]
    BY <1>4, <1>5
  <2>. QED
    BY <2>1, <2>2 DEF OnDisk
<1>13. Scheduled'
  BY <1>1, <1>12 DEF Scheduled
<1>14. Saved'
  <2>1. ASSUME NEW f \in File, ~lost', Counts(f)' PROVE acked[f] <= OnDisk(f)'
    <3>1. acked[f] <= mem'[f] /\ mem'[f] <= OnDisk(f)'
      BY <1>10, <1>12, <2>1 DEF Counts
    <3>2. acked[f] \in Nat /\ mem'[f] \in Nat /\ OnDisk(f)' \in Nat
      BY <1>4, <1>5 DEF Types, OnDisk, Dirs
    <3>. QED
      BY <3>1, <3>2
  <2>. QED
    BY <1>1, <2>1 DEF Saved
<1>. QED
  BY <1>6, <1>7, <1>8, <1>9, <1>11, <1>13, <1>14

LEMMA MoveFailsIInv == ASSUME IInv, MoveFails PROVE IInv'
<1>. USE DEF IInv
<1>1. /\ ~opened /\ opened' = TRUE
      /\ lost' = (lost \/ \E a \in Account : 0 < acked[Wallet(a)])
      /\ UNCHANGED <<clock, mem, known, bsem, prog, handler, job, schedule, timer, sem, there,
                     disk, asked, acked, orphan>>
  BY DEF MoveFails, handlerVars, diskVars
<1>2. job.kind \notin {"account", "tmp", "remove", "rename"}
  BY <1>1 DEF Unopened
<1>3. Types'
  <2>1. lost' \in BOOLEAN
    BY <1>1 DEF Types
  <2>. QED
    BY <1>1, <2>1 DEF Types
<1>4. DirsOK' /\ Unopened' /\ CallersOK' /\ Removed' /\ AccountJob' /\ BatchJob'
  BY <1>1, <1>2 DEF DirsOK, Unopened, CallersOK, Removed, AccountJob, BatchJob
<1>5. ASSUME NEW f \in File, ~lost', f[2] = "wallet" PROVE acked[f] = 0
  <2>1. f = Wallet(f[1]) /\ f[1] \in Account /\ acked[f] \in Nat
    BY <1>5, FileFacts DEF Types
  <2>2. ~(0 < acked[f])
    BY <1>1, <1>5, <2>1
  <2>. QED
    BY <2>1, <2>2
<1>6. Versions'
  BY <1>1, <1>5 DEF Versions, Counts, Types
<1>7. Scheduled' /\ Saved'
  BY <1>1 DEF Scheduled, Saved, Counts, OnDisk
<1>. QED
  BY <1>3, <1>4, <1>6, <1>7

LEMMA CrashIInv == ASSUME IInv, Crash PROVE IInv'
<1>. USE DEF IInv
<1>1. /\ mem' = NoFiles /\ known' = {} /\ opened' = FALSE /\ bsem' = "free"
      /\ prog' = [c \in Caller |-> <<>>] /\ handler' = "starting" /\ job' = NoJob
      /\ schedule' = {} /\ timer' = "nil" /\ sem' = FALSE /\ asked' = NoFiles
      /\ UNCHANGED <<clock, there, disk, acked, orphan, lost>>
  BY DEF Crash, diskVars
<1>2. job'.kind = "none" /\ job'.left = {}
  BY <1>1 DEF NoJob
<1>3. Types'
  <2>1. prog' \in [Caller -> Seq(Steps)] /\ mem' \in [File -> Nat] /\ asked' \in [File -> Nat]
    BY <1>1, FileFacts
  <2>2. job' \in [kind : {"none", "flush", "quit", "account", "tmp", "remove", "rename"},
                  left : SUBSET Entry]
    BY <1>1 DEF NoJob
  <2>. QED
    BY <1>1, <2>1, <2>2 DEF Types
<1>4. CallersOK'
  <2>1. \A c \in Caller : Fits(prog'[c], known' \cup orphan')
    BY <1>1, EmptyFits
  <2>2. prog'["request"] = <<>>
    BY <1>1 DEF Caller
  <2>. QED
    BY <1>2, <2>1, <2>2 DEF CallersOK
<1>5. DirsOK' /\ Unopened' /\ Removed' /\ AccountJob' /\ BatchJob'
  BY <1>1, <1>2 DEF DirsOK, Unopened, Removed, AccountJob, BatchJob
<1>6. Versions'
  BY <1>1, FileFacts DEF Versions, Types
<1>7. Scheduled' /\ Saved'
  BY <1>1 DEF Scheduled, Saved, Counts, OnDisk
<1>. QED
  BY <1>3, <1>4, <1>5, <1>6, <1>7
-----------------------------------------------------------------------------
LEMMA NextIInv == IInv /\ [Next]_vars => IInv'
<1>. SUFFICES ASSUME IInv, [Next]_vars PROVE IInv'
  OBVIOUS
<1>1. CASE Request
  <2>1. CASE Handshake(<<>>)
    BY <2>1, EmptyFits, HandshakeIInv
  <2>2. ASSUME NEW order \in SetToSeqs(known), Handshake(TouchTxs(order)) PROVE IInv'
    <3>1. Fits(TouchTxs(order), known)
      BY OrderFits DEF IInv, Types
    <3>. QED
      BY <2>2, <3>1, HandshakeIInv
  <2>. QED
    BY <1>1, <2>1, <2>2, RequestIInv DEF Request
<1>2. CASE CallerStep \/ Receive \/ GrabSem \/ Quit \/ Start
  BY <1>2, TouchIInv, ScheduleIInv, HandlerIInv, OpenIInv DEF CallerStep, Receive, Start
<1>3. CASE JobStep \/ Fails
  BY <1>3, WriteIInv, RemoveIInv, RenameIInv, JobEndsIInv DEF JobStep
<1>4. CASE MoveFails \/ Crash
  BY <1>4, MoveFailsIInv, CrashIInv
<1>5. CASE UNCHANGED vars
  <2>1. UNCHANGED <<clock, mem, known, opened, bsem, prog, handler, job, schedule, timer, sem,
                    there, disk, asked, acked, orphan, lost>>
    BY <1>5 DEF vars, memVars, handlerVars, diskVars, histVars
  <2>2. Types' /\ DirsOK' /\ Unopened' /\ CallersOK'
    BY <2>1 DEF IInv, Types, DirsOK, Unopened, CallersOK
  <2>3. Versions' /\ Removed' /\ AccountJob'
    BY <2>1 DEF IInv, Versions, Counts, Removed, AccountJob
  <2>4. BatchJob' /\ Scheduled' /\ Saved'
    BY <2>1 DEF IInv, BatchJob, InTmp, Counts, Scheduled, Saved, OnDisk
  <2>. QED
    BY <2>2, <2>3, <2>4 DEF IInv
<1>. QED
  BY <1>1, <1>2, <1>3, <1>4, <1>5 DEF Next

LEMMA Invariance == Spec => []IInv
<1>. QED
  BY InitIInv, NextIInv, PTL DEF Spec

(* What ScheduleWalletWrite and ScheduleTxStoreWrite were called for is on *)
(* disk or still scheduled, for any accounts and however often flushes and *)
(* batches fail, a registration fails or the process dies: nothing the     *)
(* handler was told is forgotten.                                          *)
THEOREM NothingIsForgotten == Spec => []ScheduleKept
<1>1. IInv => ScheduleKept
  <2>. SUFFICES ASSUME IInv PROVE ScheduleKept
    OBVIOUS
  <2>1. TypeOK
    BY DEF IInv, Types, DirsOK, TypeOK, Entry, Dirs
  <2>2. NothingForgotten
    BY FileFacts DEF IInv, Types, Scheduled, NothingForgotten
  <2>. QED
    BY <2>1, <2>2 DEF ScheduleKept
<1>. QED
  BY <1>1, Invariance, PTL

(* A wallet that FlushAccount or WriteBatch reported as written has a copy *)
(* of at least that version in one of the directories at every moment,     *)
(* between the removal of the network directory and the rename too         *)
(* (batchWriteAccounts), and the temporary directory has it while the      *)
(* network directory is missing.                                           *)
THEOREM WalletsAreRecoverable == Spec => []Recoverable
<1>1. IInv => Recoverable
  <2>. SUFFICES ASSUME IInv, ~lost, NEW a \in Account \ orphan
                PROVE  /\ acked[Wallet(a)] <= OnDisk(Wallet(a))
                       /\ "net" \notin there => acked[Wallet(a)] <= disk["tmp"][Wallet(a)]
    BY DEF Recoverable
  <2>1. Wallet(a) \in File /\ Counts(Wallet(a))
    BY FileFacts DEF Counts
  <2>2. acked[Wallet(a)] <= OnDisk(Wallet(a))
    BY <2>1 DEF IInv, Saved
  <2>3. ASSUME "net" \notin there PROVE OnDisk(Wallet(a)) = disk["tmp"][Wallet(a)]
    <3>1. disk["net"][Wallet(a)] = 0 /\ disk["tmp"][Wallet(a)] \in Nat
      BY <2>1, <2>3, FileFacts DEF IInv, DirsOK, Types, Dirs
    <3>. QED
      BY <3>1 DEF OnDisk
  <2>. QED
    BY <2>2, <2>3
<1>. QED
  BY <1>1, Invariance, PTL
=============================================================================
