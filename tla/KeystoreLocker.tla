--------------------------- MODULE KeystoreLocker ---------------------------
(***************************************************************************)
(* The lockedness of the wallets: keystoreLocker (acctmgr.go), the         *)
(* goroutine that unlocks and locks the key stores of all accounts, its    *)
(* timer, and the requests that talk to it: walletpassphrase, walletlock,  *)
(* walletislocked and walletpassphrasechange (rpcserver.go).               *)
(*                                                                         *)
(* RequestHandler runs one request at a time.  The locker does not take    *)
(* the account manager's semaphore, so its timer may fire in the middle of *)
(* a request, and a lock request returns before the first store is locked. *)
(* AllAccounts is a map's iteration, in any order; it is empty once the    *)
(* account manager was told to stop.  What locking does inside one key     *)
(* store is the subject of KeyChain: here a store is open or not, and a    *)
(* watching-only one never is.                                             *)
(***************************************************************************)
EXTENDS Naturals, FiniteSets

CONSTANTS
  Account,
  Passphrase,
  MaxRequests,  \* bound: requests
  MaxFails,     \* bound: key stores whose passphrase cannot be changed
  None

ASSUME AccountAssumption == IsFiniteSet(Account) /\ None \notin Passphrase
ASSUME BoundAssumption == MaxRequests \in Nat /\ MaxFails \in Nat

VARIABLES
  pass,      \* the passphrase of each key store, None if it is watching-only
  open,      \* the key stores that hold their secret
  locker,    \* keystoreLocker: where it is and the accounts it has to visit
  unlocked,  \* its variable unlocked
  timer,     \* its variable timeout is not nil
  req,       \* the request that runs, None between two
  promised,  \* history: an unlock with a timeout succeeded, and no other since
  quit,      \* AccountManager.quit is closed
  asked, failed

storeVars == <<pass, open>>
lockerVars == <<locker, unlocked, timer>>
vars == <<storeVars, lockerVars, req, promised, quit, asked, failed>>
-----------------------------------------------------------------------------
Select == [at |-> "select", todo |-> {}]
Visit(at, accounts) == [at |-> at, todo |-> accounts]
AllAccounts == {Account} \cup (IF quit THEN {{}} ELSE {})

(* The requests.  A request is at the channel that it sends on or receives *)
(* from; None is a request that has been answered.                         *)
Begin ==
  /\ req = None /\ asked < MaxRequests
  /\ asked' = asked + 1
  /\ UNCHANGED <<storeVars, lockerVars, promised, quit, failed>>

Request(at, p, timeout, new) ==
  [at |-> at, pass |-> p, timeout |-> timeout, new |-> new, todo |-> {}]

WalletPassphrase(p, timeout) == Begin /\ req' = Request("unlock", p, timeout, None)
WalletLock == Begin /\ req' = Request("lock", None, FALSE, None)
WalletIsLocked == Begin /\ req' = Request("state", None, FALSE, None)
WalletPassphraseChange(old, new) ==
  Begin /\ req' = Request("unlock", old, FALSE, new)

(* AccountManager.ChangePassphrase, once the locker unlocked everything:   *)
(* one key store after the other, then a lock request.  An error returns   *)
(* at once.  The batch that is written at the end is in DiskSyncer.        *)
CanChange(a) == a \in open

ChangeAccount(a) ==
  /\ req # None /\ req.at = "change" /\ a \in req.todo
  /\ CanChange(a)
  /\ pass' = [pass EXCEPT ![a] = req.new]
  /\ req' = [req EXCEPT !.todo = @ \ {a}]
  /\ UNCHANGED <<open, lockerVars, promised, quit, asked, failed>>

ChangeFails(a) ==
  /\ req # None /\ req.at = "change" /\ a \in req.todo
  /\ \/ ~CanChange(a) /\ UNCHANGED failed
     \/ failed < MaxFails /\ failed' = failed + 1
  /\ req' = None
  /\ UNCHANGED <<storeVars, lockerVars, promised, quit, asked>>

ChangeDone ==
  /\ req # None /\ req.at = "change" /\ req.todo = {}
  /\ req' = [req EXCEPT !.at = "lock"]
  /\ UNCHANGED <<storeVars, lockerVars, promised, quit, asked, failed>>

(* The reply of an unlock request, and what its sender goes on with.       *)
Reply(err) ==
  \/ (err \/ req.new = None) /\ req' = None
  \/ /\ ~err /\ req.new # None
     /\ \E accounts \in AllAccounts :
          req' = [req EXCEPT !.at = "change", !.todo = accounts]
-----------------------------------------------------------------------------
(* keystoreLocker.                                                         *)
AtSelect(at) == locker.at = "select" /\ req # None /\ req.at = at

RecvUnlock ==
  /\ AtSelect("unlock")
  /\ \E accounts \in AllAccounts : locker' = Visit("unlock", accounts)
  /\ UNCHANGED <<storeVars, unlocked, timer, req, promised, quit, asked, failed>>

CanUnlock(a) == pass[a] = req.pass

UnlockAccount(a) ==
  /\ locker.at = "unlock" /\ a \in locker.todo
  /\ CanUnlock(a)
  /\ open' = open \cup {a}
  /\ locker' = [locker EXCEPT !.todo = @ \ {a}]
  /\ UNCHANGED <<pass, unlocked, timer, req, promised, quit, asked, failed>>

UnlockIgnored(a) ==
  /\ locker.at = "unlock" /\ a \in locker.todo
  /\ ~CanUnlock(a)
  /\ locker' = [locker EXCEPT !.todo = @ \ {a}]
  /\ UNCHANGED <<storeVars, unlocked, timer, req, promised, quit, asked, failed>>

(* The first error ends the request; the stores visited before stay open,  *)
(* and neither unlocked nor the timer changes.                             *)
UnlockFails(a) ==
  /\ locker.at = "unlock" /\ a \in locker.todo
  /\ ~CanUnlock(a)
  /\ locker' = Select
  /\ Reply(TRUE)
  /\ UNCHANGED <<storeVars, unlocked, timer, promised, quit, asked, failed>>

UnlockWithoutTimer ==
  /\ locker.at = "unlock" /\ locker.todo = {}
  /\ locker' = Select
  /\ unlocked' = TRUE
  /\ timer' = timer
  /\ promised' = req.timeout
  /\ Reply(FALSE)
  /\ UNCHANGED <<storeVars, quit, asked, failed>>

UnlockDone ==
  /\ locker.at = "unlock" /\ locker.todo = {}
  /\ locker' = Select
  /\ unlocked' = TRUE
  /\ timer' = req.timeout
  /\ promised' = req.timeout
  /\ Reply(FALSE)
  /\ UNCHANGED <<storeVars, quit, asked, failed>>

(* The answer of walletislocked is the negation of unlocked.               *)
SendState ==
  /\ AtSelect("state")
  /\ req' = None
  /\ UNCHANGED <<storeVars, lockerVars, promised, quit, asked, failed>>

Locks ==
  /\ timer' = FALSE
  /\ \E accounts \in AllAccounts : locker' = Visit("lock", accounts)
  /\ UNCHANGED <<storeVars, unlocked, promised, quit, asked, failed>>

RecvLock == AtSelect("lock") /\ req' = None /\ Locks

Timeout == locker.at = "select" /\ timer /\ UNCHANGED req /\ Locks

(* A store that is locked already, or watching-only, is no error.          *)
LockAccount(a) ==
  /\ locker.at = "lock" /\ a \in locker.todo
  /\ open' = open \ {a}
  /\ locker' = [locker EXCEPT !.todo = @ \ {a}]
  /\ UNCHANGED <<pass, unlocked, timer, req, promised, quit, asked, failed>>

LockDone ==
  /\ locker.at = "lock" /\ locker.todo = {}
  /\ locker' = Select
  /\ unlocked' = FALSE
  /\ promised' = (promised /\ open # {})
  /\ UNCHANGED <<storeVars, timer, req, quit, asked, failed>>

LockerQuits ==
  /\ locker.at = "select" /\ quit
  /\ locker' = [Select EXCEPT !.at = "done"]
  /\ UNCHANGED <<storeVars, unlocked, timer, req, promised, quit, asked, failed>>

(* AccountManager.Stop.                                                    *)
Stop ==
  /\ ~quit /\ quit' = TRUE
  /\ UNCHANGED <<storeVars, lockerVars, req, promised, asked, failed>>

Init ==
  /\ pass \in [Account -> Passphrase \cup {None}]
  /\ open = {}
  /\ locker = Select /\ unlocked = FALSE /\ timer = FALSE
  /\ req = None /\ promised = FALSE
  /\ quit = FALSE /\ asked = 0 /\ failed = 0

LockerStep ==
  \/ RecvUnlock \/ UnlockDone \/ SendState \/ RecvLock \/ Timeout \/ LockDone
  \/ LockerQuits
  \/ \E a \in Account : UnlockAccount(a) \/ UnlockFails(a) \/ LockAccount(a)
RequestStep ==
  ChangeDone \/ \E a \in Account : ChangeAccount(a) \/ ChangeFails(a)
User ==
  \/ \E p \in Passphrase, timeout \in BOOLEAN : WalletPassphrase(p, timeout)
  \/ WalletLock \/ WalletIsLocked
  \/ \E old, new \in Passphrase : WalletPassphraseChange(old, new)

Next == LockerStep \/ RequestStep \/ User \/ Stop

(* The locker's goroutine and the request run on, and time passes.         *)
Fairness == WF_vars(LockerStep) /\ WF_vars(RequestStep)
Spec == Init /\ [][Next]_vars /\ Fairness
-----------------------------------------------------------------------------
TypeOK ==
  /\ pass \in [Account -> Passphrase \cup {None}]
  /\ open \subseteq {a \in Account : pass[a] # None}
  /\ locker.at \in {"select", "unlock", "lock", "done"} /\ locker.todo \subseteq Account
  /\ {unlocked, timer, promised, quit} \subseteq BOOLEAN
  /\ asked \in 0 .. MaxRequests /\ failed \in 0 .. MaxFails

(* Whenever walletislocked would answer "unlocked" (acctmgr.go:513), every *)
(* key store is open, after any sequence of unlocks of which some fail at  *)
(* one account, changes of passphrase that fail half way, locks and        *)
(* timeouts: a user who is told so can spend from every account.           *)
UnlockedIsOpen ==
  /\ TypeOK
  /\ unlocked /\ locker.at # "lock" /\ ~quit => open = Account

(* "The decryption key is saved in the wallet until timeout seconds        *)
(* expires, after which the wallet is locked" (rpcserver.go:2834): after   *)
(* an unlock with a timeout all key stores are closed again, although      *)
(* later unlocks fail half way or start the time anew; only a later unlock *)
(* without a timeout, or the end of the process, takes the promise back.   *)
LocksAgain == promised ~> (open = {} \/ ~promised \/ quit)
=============================================================================
