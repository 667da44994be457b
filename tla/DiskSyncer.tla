----------------------------- MODULE DiskSyncer -----------------------------
(***************************************************************************)
(* The disk syncer (disksync.go) with what drives it: the requests and     *)
(* notification handlers that change accounts under the account manager's  *)
(* semaphore, the handshake, which changes them without it, the opening of *)
(* the accounts at start (acctmgr.go), shutdown, and a process that dies   *)
(* between any two steps.                                                  *)
(*                                                                         *)
(* A file is an account's wallet or its transaction store.  What is in     *)
(* memory and in each directory is a version: every change takes the next  *)
(* value of one clock, 0 stands for no file.  writeWallet and writeTxStore *)
(* write a temporary file and rename it, so a file has its old or its new  *)
(* version.  The two directories are the network directory and the         *)
(* temporary one of batchWriteAccounts.  Exports go to another directory   *)
(* and change neither, so they are left out.                               *)
(*                                                                         *)
(* The schedule's maps have account pointers as keys.  An entry <<f, 0>>   *)
(* is of the account the manager knows, <<f, v>> of an account object that *)
(* was removed again when it held version v.                               *)
(***************************************************************************)
EXTENDS Integers, Sequences, SequencesExt, FiniteSets

CONSTANTS
  Account,   \* account names
  Default,   \* the default account, named "" in the code
  MaxClock,  \* bound: versions made
  MaxCrash,  \* bound: times the process dies and starts again
  MaxFail    \* bound: file operations that fail

ASSUME AccountAssumption == IsFiniteSet(Account) /\ Default \in Account
ASSUME BoundAssumption == /\ MaxClock \in Nat \ {0}
                          /\ MaxCrash \in Nat
                          /\ MaxFail \in Nat

VARIABLES
  clock,    \* the last version made
  mem,      \* mem[f]: the version in memory, 0 when the account is not open
  known,    \* the accounts the account manager knows
  opened,   \* accountHandler has opened the accounts
  bsem,     \* who holds the account manager's semaphore
  prog,     \* what each caller has still to do
  handler,  \* where the disk syncer's goroutine is
  job,      \* what it is doing, and with which files still
  schedule, timer, sem,
  there,    \* the directories that exist
  disk,     \* disk[d][f]: the version of f in directory d
  asked,    \* history: the version a write was last scheduled for
  acked,    \* history: the version a request was told is on disk
  stuck,    \* history: a flush failed, and no timer was set since
  orphan,   \* history: accounts whose registration failed
  lost,     \* history: a start did not open an acknowledged wallet
  crashes, fails

memVars == <<clock, mem, known, opened, bsem, prog>>
handlerVars == <<handler, job, schedule, timer, sem>>
diskVars == <<there, disk>>
histVars == <<asked, acked, stuck, orphan, lost>>
vars == <<memVars, handlerVars, diskVars, histVars, crashes, fails>>
-----------------------------------------------------------------------------
File == Account \X {"wallet", "tx"}
Wallet(a) == <<a, "wallet">>
TxFile(a) == <<a, "tx">>
FilesOf(A) == A \X {"wallet", "tx"}
Caller == {"request", "handshake"}
NoFiles == [f \in File |-> 0]

NoJob == [kind |-> "none", left |-> {}]
Job(kind, left) == [kind |-> kind, left |-> left]
Live(F) == F \X {0}

(* The newest version of f that either directory holds.                    *)
OnDisk(f) == IF disk["net"][f] > disk["tmp"][f] THEN disk["net"][f]
                                                ELSE disk["tmp"][f]

(* The steps of a caller: change a file's contents in memory, or call the  *)
(* disk syncer.                                                            *)
Touch(f) == [op |-> "touch", f |-> f]
Schedule(f) == [op |-> "schedule", f |-> f]
FlushAccount(a) == [op |-> "flush", f |-> Wallet(a)]
Register(a) == [op |-> "register", f |-> Wallet(a)]
WriteBatch == [op |-> "batch", f |-> Wallet(Default)]

(* AllAccounts gives the accounts in any order.                            *)
TouchTx(a) == <<Touch(TxFile(a)), Schedule(TxFile(a))>>
TouchTxs(order) == [i \in 1..2 * Len(order) |->
                      LET f == TxFile(order[(i + 1) \div 2])
                      IN  IF i % 2 = 1 THEN Touch(f) ELSE Schedule(f)]
TouchWallets(order) == [i \in 1..Len(order) |-> Touch(Wallet(order[i]))]

(* The bound on versions leaves room for every change already begun.       *)
Touches(steps) == Cardinality({i \in DOMAIN steps : steps[i].op = "touch"})
Room(steps) == clock + Touches(steps) + Touches(prog["request"])
                 + Touches(prog["handshake"]) <= MaxClock
-----------------------------------------------------------------------------
(* DiskSyncer.handler makes the network directory before its loop, which   *)
(* nothing orders with the opening of the accounts.                        *)
HandlerStart ==
  /\ handler = "starting"
  /\ handler' = "running"
  /\ there' = there \cup {"net"}
  /\ UNCHANGED <<memVars, job, schedule, timer, sem, disk, histVars, crashes, fails>>

(* openAccounts: the temporary directory replaces a missing network        *)
(* directory.  Without the default account's wallet nothing is opened.  A  *)
(* missing transaction store is replaced by an empty one.                  *)
Moves == "net" \notin there /\ "tmp" \in there
FilesAtStart == IF Moves THEN disk["tmp"] ELSE disk["net"]
Found == LET has == {a \in Account : FilesAtStart[Wallet(a)] # 0}
         IN  IF Default \in has THEN has ELSE {}
OpenAccounts ==
  /\ ~opened
  /\ opened' = TRUE
  /\ known' = Found
  /\ mem' = [f \in File |-> IF f[1] \notin Found THEN 0
                            ELSE IF FilesAtStart[f] = 0 THEN 1 ELSE FilesAtStart[f]]
  /\ there' = IF Moves THEN {"net"} ELSE there \cup {"net"}
  /\ disk' = [net |-> [f \in File |-> IF f[1] \in Found THEN mem'[f]
                                                        ELSE FilesAtStart[f]],
              tmp |-> IF Moves THEN NoFiles ELSE disk["tmp"]]
  /\ asked' = mem'
  /\ lost' = (lost \/ \E a \in Account : mem'[Wallet(a)] < acked[Wallet(a)])
  /\ UNCHANGED <<clock, bsem, prog, handlerVars, acked, stuck, orphan, crashes, fails>>

(* openAccounts: the move fails, and no account is opened.                 *)
MoveFails ==
  /\ ~opened
  /\ Moves
  /\ fails < MaxFail
  /\ opened' = TRUE
  /\ fails' = fails + 1
  /\ lost' = (lost \/ \E a \in Account : 0 < acked[Wallet(a)])
  /\ UNCHANGED <<clock, mem, known, bsem, prog, handlerVars, diskVars, asked,
                 acked, stuck, orphan, crashes>>
-----------------------------------------------------------------------------
(* RequestHandler, a notification handler or rescanListener grabs the      *)
(* semaphore to run steps.                                                 *)
Grab(steps) ==
  /\ opened
  /\ Room(steps)
  /\ bsem = "free"
  /\ bsem' = "request"
  /\ prog' = [prog EXCEPT !["request"] = steps]
  /\ UNCHANGED <<clock, mem, opened, handlerVars, diskVars, asked, acked, stuck,
                 orphan, lost, crashes, fails>>

(* NewAddress, NewChangeAddress, ImportPrivateKey, AddMultiSigAddress and  *)
(* rescanListener: a wallet changes and is written before the call ends.   *)
ChangeWallet(a) ==
  /\ a \in known
  /\ Grab(<<Touch(Wallet(a)), Schedule(Wallet(a)), FlushAccount(a)>>)
  /\ UNCHANGED known

(* BlockNotify: the default account's synced block changes, and waits for  *)
(* the timer.                                                              *)
BlockNotify ==
  /\ Default \in known
  /\ Grab(<<Touch(Wallet(Default)), Schedule(Wallet(Default))>>)
  /\ UNCHANGED known

(* RecoverAddresses changes the wallet and schedules nothing.              *)
RecoverAddresses(a) ==
  /\ a \in known
  /\ Grab(<<Touch(Wallet(a))>>)
  /\ UNCHANGED known

(* recvTx: the store of the account paid changes.                          *)
RecvTx(a) == a \in known /\ Grab(TouchTx(a)) /\ UNCHANGED known

(* RecordSpendingTx and Rollback: every account's store changes.           *)
RecordSpendingTx ==
  /\ known # {}
  /\ \E order \in SetToSeqs(known) : Grab(TouchTxs(order))
  /\ UNCHANGED known

(* handleSendRawTxReply: the store of the paying account changes and is    *)
(* written before the call ends.                                           *)
SendTx(a) ==
  /\ a \in known
  /\ Grab(Append(TouchTx(a), FlushAccount(a)))
  /\ UNCHANGED known

(* ChangePassphrase: every wallet changes, then all files are written.     *)
ChangePassphrase ==
  /\ \E order \in SetToSeqs(known) : Grab(Append(TouchWallets(order), WriteBatch))
  /\ UNCHANGED known

(* CreateEncryptedWallet and RegisterNewAccount: only when no account is   *)
(* known.                                                                  *)
CreateWallet ==
  /\ known = {}
  /\ Grab(<<Touch(Wallet(Default)), Touch(TxFile(Default)), Schedule(Wallet(Default)),
            Schedule(TxFile(Default)), Register(Default)>>)
  /\ known' = {Default}

(* Handshake, without the semaphore: every account is rolled back if there *)
(* was a reorganisation since the last connection, and the default         *)
(* account's synced block is set, for which no write is scheduled.         *)
Handshake(steps) ==
  /\ opened
  /\ Default \in known
  /\ prog["handshake"] = <<>>
  /\ LET program == Append(steps, Touch(Wallet(Default))) IN
     /\ Room(program)
     /\ prog' = [prog EXCEPT !["handshake"] = program]
  /\ UNCHANGED <<clock, mem, known, opened, bsem, handlerVars, diskVars,
                 histVars, crashes, fails>>

(* A change in memory.                                                     *)
TouchStep(c) ==
  /\ prog[c] # <<>>
  /\ Head(prog[c]).op = "touch"
  /\ prog' = [prog EXCEPT ![c] = Tail(@)]
  /\ clock' = clock + 1
  /\ mem' = [mem EXCEPT ![Head(prog[c]).f] = clock']
  /\ UNCHANGED <<known, opened, bsem, handlerVars, diskVars, histVars, crashes, fails>>

Release ==
  /\ bsem = "request"
  /\ prog["request"] = <<>>
  /\ bsem' = "free"
  /\ UNCHANGED <<clock, mem, known, opened, prog, handlerVars, diskVars,
                 histVars, crashes, fails>>
-----------------------------------------------------------------------------
(* The handler's select is reached only between jobs, and then receives    *)
(* requests also while it waits for the semaphore.                         *)
Ready == handler = "running" /\ job = NoJob
ReceivingUnlessSem == Ready /\ ~sem
Receiving == Ready
Offers(c, ops) == prog[c] # <<>> /\ Head(prog[c]).op \in ops
TimerKept == timer
TimerSet == IF timer = "nil" THEN "armed" ELSE timer

(* case a := <-ds.scheduleWallet, case a := <-ds.scheduleTxStore.          *)
RecvSchedule(c) ==
  /\ Receiving
  /\ Offers(c, {"schedule"})
  /\ LET f == Head(prog[c]).f IN
     /\ schedule' = schedule \cup {<<f, 0>>}
     /\ asked' = [asked EXCEPT ![f] = mem[f]]
  /\ timer' = TimerSet
  /\ stuck' = (stuck /\ timer # "nil")
  /\ prog' = [prog EXCEPT ![c] = Tail(@)]
  /\ UNCHANGED <<clock, mem, known, opened, bsem, handler, job, sem, diskVars,
                 acked, orphan, lost, crashes, fails>>

(* case <-timer: the channel stays but delivers no second time.            *)
TimerFires ==
  /\ Ready
  /\ timer = "armed"
  /\ timer' = "fired"
  /\ sem' = TRUE
  /\ UNCHANGED <<memVars, handler, job, schedule, diskVars, histVars, crashes, fails>>

(* case <-sem: flush everything while holding the semaphore.               *)
GrabSem ==
  /\ Ready
  /\ sem
  /\ bsem = "free"
  /\ bsem' = "handler"
  /\ job' = Job("flush", schedule)
  /\ UNCHANGED <<clock, mem, known, opened, prog, handler, schedule, timer, sem,
                 diskVars, histVars, crashes, fails>>

(* case fr := <-ds.flushAccount: what is scheduled for the account.        *)
RecvFlush ==
  /\ Receiving
  /\ Offers("request", {"flush", "register"})
  /\ job' = Job("account", schedule \cap Live(FilesOf({Head(prog["request"]).f[1]})))
  /\ UNCHANGED <<memVars, handler, schedule, timer, sem, diskVars, histVars,
                 crashes, fails>>

(* case sr := <-ds.writeBatch: freshDir makes the temporary directory; the *)
(* names it removes are relative to the working directory, so files that   *)
(* are there already stay.                                                 *)
RecvBatch ==
  /\ Receiving
  /\ Offers("request", {"batch"})
  /\ there' = there \cup {"tmp"}
  /\ job' = Job("tmp", Live(FilesOf(known)))
  /\ UNCHANGED <<memVars, handler, schedule, timer, sem, disk, histVars,
                 crashes, fails>>

(* case <-ds.quit: flush, without the semaphore.                           *)
Quit ==
  /\ Ready
  /\ job' = Job("quit", schedule)
  /\ UNCHANGED <<memVars, handler, schedule, timer, sem, diskVars, histVars,
                 crashes, fails>>
-----------------------------------------------------------------------------
Writing == job.kind \in {"flush", "quit", "account", "tmp"}
Target == IF job.kind = "tmp" THEN "tmp" ELSE "net"

(* syncSchedule.flush and flushAccount write the transaction stores first; *)
(* writeAll does so for one account after the other.                       *)
Turn(e) ==
  /\ e \in job.left
  /\ IF job.kind = "tmp"
       THEN IF e[1][2] = "tx"
              THEN \A d \in job.left : d[1][2] = "wallet" =>
                                         <<TxFile(d[1][1]), d[2]>> \in job.left
              ELSE <<TxFile(e[1][1]), e[2]>> \notin job.left
       ELSE e[1][2] = "wallet" => \A d \in job.left : d[1][2] = "wallet"

Contents(e) == IF e[2] = 0 THEN mem[e[1]] ELSE e[2]

(* writeWallet or writeTxStore succeeds.                                   *)
WriteFile(e) ==
  /\ Writing
  /\ Turn(e)
  /\ Target \in there
  /\ disk' = [disk EXCEPT ![Target][e[1]] = Contents(e)]
  /\ job' = [job EXCEPT !.left = @ \ {e}]
  /\ schedule' = IF job.kind = "tmp" THEN schedule ELSE schedule \ {e}
  /\ UNCHANGED <<memVars, handler, timer, sem, there, histVars, crashes, fails>>

(* A flush under the semaphore ends: neither timer nor semaphore are       *)
(* waited for any more, whether it succeeded or not.                       *)
FlushEnds(ok) ==
  /\ job.kind = "flush"
  /\ timer' = "nil"
  /\ sem' = FALSE
  /\ bsem' = "free"
  /\ stuck' = (stuck \/ ~ok)
  /\ UNCHANGED <<mem, known, prog, handler, schedule, asked, acked, orphan>>

QuitEnds(ok) ==
  /\ job.kind = "quit"
  /\ handler' = "done"
  /\ stuck' = (stuck \/ ~ok)
  /\ UNCHANGED <<mem, known, bsem, prog, schedule, timer, sem, asked, acked, orphan>>

(* The answer to FlushAccount.  RegisterNewAccount removes the account     *)
(* when it is an error; the schedule keeps the removed object.             *)
AccountEnds(ok) ==
  LET call == Head(prog["request"])
      a == call.f[1]
      removed == ~ok /\ call.op = "register"
  IN
  /\ job.kind = "account"
  /\ prog' = [prog EXCEPT !["request"] = Tail(@)]
  /\ acked' = IF ok THEN [f \in File |-> IF f[1] = a THEN asked[f] ELSE acked[f]]
                    ELSE acked
  /\ known' = IF removed THEN known \ {a} ELSE known
  /\ orphan' = IF removed THEN orphan \cup {a} ELSE orphan
  /\ mem' = IF removed THEN [f \in File |-> IF f[1] = a THEN 0 ELSE mem[f]] ELSE mem
  /\ asked' = IF removed THEN [f \in File |-> IF f[1] = a THEN 0 ELSE asked[f]] ELSE asked
  /\ schedule' = IF removed
                   THEN {IF e[1][1] = a /\ e[2] = 0 THEN <<e[1], mem[e[1]]>> ELSE e
                           : e \in schedule}
                   ELSE schedule
  /\ UNCHANGED <<bsem, handler, timer, sem, stuck>>

(* The answer to WriteBatch.  The schedule and the timer are dropped when  *)
(* all files were written, and kept when not.                              *)
DropSchedule(ok) == {}
KeepUnless(ok) == IF ok THEN {} ELSE schedule
BatchEnds(ok) ==
  /\ job.kind \in {"tmp", "remove", "rename"}
  /\ prog' = [prog EXCEPT !["request"] = Tail(@)]
  /\ schedule' = KeepUnless(ok)
  /\ timer' = IF ok THEN "nil" ELSE timer
  /\ stuck' = (stuck /\ ~ok)
  /\ acked' = IF ok THEN [f \in File |-> IF f[1] \in known THEN disk["tmp"][f]
                                                            ELSE acked[f]]
                    ELSE acked
  /\ UNCHANGED <<mem, known, bsem, handler, sem, asked, orphan>>

Ends(ok) ==
  /\ FlushEnds(ok) \/ QuitEnds(ok) \/ AccountEnds(ok) \/ BatchEnds(ok)
  /\ job' = NoJob
  /\ UNCHANGED <<clock, opened, lost, crashes>>

Written ==
  /\ Writing
  /\ job.kind # "tmp"
  /\ job.left = {}
  /\ Ends(TRUE)
  /\ UNCHANGED <<diskVars, fails>>

(* A file operation of the job fails and the job is given up.  A write to  *)
(* a directory that is not there always fails.                             *)
Fails ==
  /\ job # NoJob
  /\ \/ /\ Writing /\ job.left # {} /\ Target \notin there
        /\ UNCHANGED fails
     \/ /\ job.left # {} \/ job.kind \in {"tmp", "remove", "rename"}
        /\ fails < MaxFail
        /\ fails' = fails + 1
  /\ Ends(FALSE)
  /\ UNCHANGED diskVars
-----------------------------------------------------------------------------
(* batchWriteAccounts, all files written: os.RemoveAll of the network      *)
(* directory removes one file after the other, then the directory.         *)
DefaultWritten == \A e \in job.left : e[1][1] # Default
TmpWritten == job.left = {}
NetFiles == {f \in File : disk["net"][f] # 0}
BatchRemove ==
  /\ job.kind = "tmp"
  /\ TmpWritten
  /\ job' = Job("remove", Live(NetFiles))
  /\ UNCHANGED <<memVars, handler, schedule, timer, sem, diskVars, histVars,
                 crashes, fails>>

RemoveFile(e) ==
  /\ job.kind = "remove"
  /\ e \in job.left
  /\ disk' = [disk EXCEPT !["net"][e[1]] = 0]
  /\ job' = [job EXCEPT !.left = @ \ {e}]
  /\ UNCHANGED <<memVars, handler, schedule, timer, sem, there, histVars,
                 crashes, fails>>

RemoveDir ==
  /\ job.kind = "remove"
  /\ job.left = {}
  /\ there' = there \ {"net"}
  /\ job' = Job("rename", {})
  /\ UNCHANGED <<memVars, handler, schedule, timer, sem, disk, histVars,
                 crashes, fails>>

(* Rename(tmpdir, netdir).                                                 *)
RenameDir ==
  /\ job.kind = "rename"
  /\ there' = {"net"}
  /\ disk' = [net |-> disk["tmp"], tmp |-> NoFiles]
  /\ Ends(TRUE)
  /\ UNCHANGED fails
-----------------------------------------------------------------------------
(* The process dies, or ends after Stop, and is started again: only the    *)
(* directories are left.                                                   *)
Crash ==
  /\ crashes < MaxCrash
  /\ crashes' = crashes + 1
  /\ mem' = NoFiles
  /\ known' = {}
  /\ opened' = FALSE
  /\ bsem' = "free"
  /\ prog' = [c \in Caller |-> <<>>]
  /\ handler' = "starting"
  /\ job' = NoJob
  /\ schedule' = {}
  /\ timer' = "nil"
  /\ sem' = FALSE
  /\ asked' = NoFiles
  /\ stuck' = FALSE
  /\ UNCHANGED <<clock, diskVars, acked, orphan, lost, fails>>

(* The process starts with no directory, or with the files of all accounts *)
(* from an earlier run.                                                    *)
Init ==
  /\ clock = 1
  /\ mem = NoFiles /\ known = {} /\ opened = FALSE
  /\ bsem = "free" /\ prog = [c \in Caller |-> <<>>]
  /\ handler = "starting" /\ job = NoJob
  /\ schedule = {} /\ timer = "nil" /\ sem = FALSE
  /\ \/ there = {} /\ disk = [d \in {"net", "tmp"} |-> NoFiles]
     \/ /\ there = {"net"}
        /\ disk = [net |-> [f \in File |-> 1], tmp |-> NoFiles]
  /\ asked = NoFiles /\ stuck = FALSE /\ orphan = {} /\ lost = FALSE
  /\ acked = [f \in File |-> disk["net"][f]]
  /\ crashes = 0 /\ fails = 0

Request ==
  \/ \E a \in Account : \/ ChangeWallet(a)
                        \/ RecoverAddresses(a)
                        \/ RecvTx(a)
                        \/ SendTx(a)
  \/ BlockNotify
  \/ RecordSpendingTx
  \/ ChangePassphrase
  \/ CreateWallet
  \/ Handshake(<<>>)
  \/ \E order \in SetToSeqs(known) : Handshake(TouchTxs(order))

CallerStep == (\E c \in Caller : TouchStep(c)) \/ Release

Receive ==
  \/ \E c \in Caller : RecvSchedule(c)
  \/ TimerFires
  \/ RecvFlush
  \/ RecvBatch

JobStep ==
  \/ \E e \in job.left : WriteFile(e) \/ RemoveFile(e)
  \/ Written
  \/ BatchRemove
  \/ RemoveDir
  \/ RenameDir

Start == HandlerStart \/ OpenAccounts

Next == Request \/ CallerStep \/ Receive \/ GrabSem \/ Quit \/ JobStep \/ Fails
          \/ Start \/ MoveFails \/ Crash

(* The goroutines run: callers and jobs make progress, and of the cases of *)
(* the handler's select that are ready again and again, a receive from a   *)
(* caller or the timer and a receive of the semaphore are each taken in    *)
(* the end (select chooses at random, channels serve their waiters in      *)
(* turn).  Requests, failures, Quit and Crash need not happen.             *)
Fairness ==
  /\ WF_vars(Start)
  /\ WF_vars(CallerStep)
  /\ WF_vars(JobStep \/ (Fails /\ fails' = fails))
  /\ SF_vars(Receive)
  /\ SF_vars(GrabSem)

Spec == Init /\ [][Next]_vars /\ Fairness
-----------------------------------------------------------------------------
(* Every variable has its type, and a directory that is not there holds    *)
(* no file.                                                                *)
TypeOK ==
  /\ clock \in Nat
  /\ mem \in [File -> Nat]
  /\ known \subseteq Account
  /\ opened \in BOOLEAN
  /\ bsem \in {"free", "request", "handler"}
  /\ DOMAIN prog = Caller
  /\ handler \in {"starting", "running", "done"}
  /\ job.kind \in {"none", "flush", "quit", "account", "tmp", "remove", "rename"}
  /\ job.left \subseteq File \X Nat
  /\ schedule \subseteq File \X Nat
  /\ timer \in {"nil", "armed", "fired"}
  /\ sem \in BOOLEAN
  /\ there \subseteq {"net", "tmp"}
  /\ \A d \in {"net", "tmp"} : disk[d] \in [File -> Nat]
  /\ \A d \in {"net", "tmp"} \ there : disk[d] = NoFiles

(* A change a write was scheduled for (ScheduleWalletWrite,                *)
(* ScheduleTxStoreWrite) is in one of the directories or still in the      *)
(* schedule, whatever flushes, batches, failures and restarts come in      *)
(* between; accounts whose registration failed are excepted.               *)
NothingForgotten ==
  \A f \in FilesOf(known \ orphan) : asked[f] <= OnDisk(f) \/ <<f, 0>> \in schedule

(* The types, and nothing that the handler was told is forgotten.          *)
ScheduleKept == TypeOK /\ NothingForgotten

(* A wallet that FlushAccount or WriteBatch reported as written is never   *)
(* without a copy of at least that version in one of the directories, and  *)
(* the temporary directory has them all while the network directory is     *)
(* missing, which is what openAccounts relies on.  Excepted are the two    *)
(* known holes: after a start that missed a wallet, and after a failed     *)
(* registration.                                                           *)
Recoverable ==
  ~lost => \A a \in Account \ orphan :
             /\ acked[Wallet(a)] <= OnDisk(Wallet(a))
             /\ "net" \notin there => acked[Wallet(a)] <= disk["tmp"][Wallet(a)]

(* The schedule is emptied after a while: a timer is running whenever the  *)
(* handler has something to write, and the semaphore is given to it,       *)
(* unless a flush fails (the code then waits for the next request that     *)
(* schedules something) or the handler ends.                               *)
EventuallyFlushed == (schedule # {}) ~> (schedule = {} \/ stuck \/ handler = "done")

(* A request ends, although it holds the semaphore while it waits for a    *)
(* handler that also takes the semaphore, unless the handler has ended.    *)
RequestEnds == (bsem = "request") ~> (bsem # "request" \/ handler = "done")

(* batchWriteAccounts says that a start after an interrupted batch finds   *)
(* the accounts: a start opens every wallet that was acknowledged.         *)
AccountsSurvive == ~lost
=============================================================================
