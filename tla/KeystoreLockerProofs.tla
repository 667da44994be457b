------------------------ MODULE KeystoreLockerProofs ------------------------
(***************************************************************************)
(* Proofs about the locker of the key stores, for any set of accounts and  *)
(* passphrases and any number of requests and failures.                    *)
(*                                                                         *)
(* That unlocked is only set when all stores are open follows from what    *)
(* the loop over the accounts has done so far (LoopOpens); that nobody     *)
(* closes or replaces what the loop opened needs that the request which    *)
(* the locker works on stays the one it received (LoopHasRequest), since   *)
(* its passphrase is what the stores are compared with.                    *)
(***************************************************************************)
EXTENDS KeystoreLocker, TLAPS

(* A request that unlocks has a passphrase, one that changes passphrases   *)
(* has a new one.                                                          *)
RequestOK ==
  \/ req = None
  \/ /\ req \in [at : {"unlock", "lock", "state", "change"},
                 pass : Passphrase \cup {None}, timeout : BOOLEAN,
                 new : Passphrase \cup {None}, todo : SUBSET Account]
     /\ req.at = "unlock" => req.pass \in Passphrase
     /\ req.at = "change" => req.new \in Passphrase

LockerOK == locker \in [at : {"select", "unlock", "lock", "done"},
                        todo : SUBSET Account]

LoopHasRequest == locker.at = "unlock" => req # None /\ req.at = "unlock"

LoopOpens == locker.at = "unlock" /\ ~quit => Account \ locker.todo \subseteq open

IInv == UnlockedIsOpen /\ RequestOK /\ LockerOK /\ LoopHasRequest /\ LoopOpens
-----------------------------------------------------------------------------
LEMMA InitIInv == Init => IInv
<1>. SUFFICES ASSUME Init PROVE IInv
  OBVIOUS
<1>1. asked \in 0 .. MaxRequests /\ failed \in 0 .. MaxFails
  BY BoundAssumption DEF Init
<1>2. TypeOK
  BY <1>1 DEF Init, TypeOK, Select
<1>. QED
  BY <1>2 DEF Init, IInv, UnlockedIsOpen, RequestOK, LockerOK, LoopHasRequest,
              LoopOpens, Select

LEMMA AllAccountsType == \A A \in AllAccounts : A \subseteq Account /\ (~quit => A = Account)
BY DEF AllAccounts

(* A new request: the locker is not in the loop of an unlock, as the last  *)
(* request was answered.                                                   *)
LEMMA UserIInv == IInv /\ User => IInv'
<1>. SUFFICES ASSUME IInv, User PROVE IInv'
  OBVIOUS
<1>1. Begin /\ RequestOK'
  <2>1. ASSUME NEW p \in Passphrase, NEW timeout \in BOOLEAN,
               WalletPassphrase(p, timeout)
        PROVE  Begin /\ RequestOK'
    BY <2>1 DEF WalletPassphrase, Request, RequestOK
  <2>2. CASE WalletLock
    BY <2>2 DEF WalletLock, Request, RequestOK
  <2>3. CASE WalletIsLocked
    BY <2>3 DEF WalletIsLocked, Request, RequestOK
  <2>4. ASSUME NEW old \in Passphrase, NEW new \in Passphrase,
               WalletPassphraseChange(old, new)
        PROVE  Begin /\ RequestOK'
    BY <2>4 DEF WalletPassphraseChange, Request, RequestOK
  <2>. QED
    BY <2>1, <2>2, <2>3, <2>4 DEF User
<1>2. locker.at # "unlock" /\ locker' = locker
  BY <1>1 DEF Begin, lockerVars, IInv, LoopHasRequest
<1>3. UnlockedIsOpen'
  BY <1>1, BoundAssumption DEF Begin, lockerVars, storeVars, IInv, UnlockedIsOpen, TypeOK
<1>. QED
  BY <1>1, <1>2, <1>3 DEF IInv, LockerOK, LoopHasRequest, LoopOpens

LEMMA RequestIInv == IInv /\ RequestStep => IInv'
<1>. SUFFICES ASSUME IInv, RequestStep PROVE IInv'
  OBVIOUS
<1>1. CASE ChangeDone
  BY <1>1 DEF ChangeDone, lockerVars, storeVars, IInv, UnlockedIsOpen, TypeOK,
              RequestOK, LockerOK, LoopHasRequest, LoopOpens
<1>2. ASSUME NEW a \in Account, ChangeAccount(a) PROVE IInv'
  <2>1. RequestOK' /\ pass' \in [Account -> Passphrase \cup {None}]
    BY <1>2 DEF ChangeAccount, IInv, RequestOK, UnlockedIsOpen, TypeOK
  <2>2. open' \subseteq {b \in Account : pass'[b] # None}
    BY <1>2, AccountAssumption
    DEF ChangeAccount, IInv, RequestOK, UnlockedIsOpen, TypeOK
  <2>. QED
    BY <1>2, <2>1, <2>2
    DEF ChangeAccount, lockerVars, IInv, UnlockedIsOpen, TypeOK, LockerOK,
        LoopHasRequest, LoopOpens
<1>3. ASSUME NEW a \in Account, ChangeFails(a) PROVE IInv'
  BY <1>3, BoundAssumption
  DEF ChangeFails, lockerVars, storeVars, IInv, UnlockedIsOpen, TypeOK,
      RequestOK, LockerOK, LoopHasRequest, LoopOpens
<1>. QED
  BY <1>1, <1>2, <1>3 DEF RequestStep

(* The answer to an unlock request leaves a well-formed request.           *)
LEMMA ReplyType ==
  ASSUME IInv, NEW err \in BOOLEAN, req # None, req.at = "unlock", Reply(err)
  PROVE  RequestOK'
<1>1. CASE req' = None
  BY <1>1 DEF RequestOK
<1>2. ASSUME req.new # None, NEW accounts \in AllAccounts,
             req' = [req EXCEPT !.at = "change", !.todo = accounts]
      PROVE  RequestOK'
  BY <1>2, AllAccountsType DEF IInv, RequestOK
<1>. QED
  BY <1>1, <1>2 DEF Reply
-----------------------------------------------------------------------------
LEMMA LockerIInv == IInv /\ LockerStep => IInv'
<1>. SUFFICES ASSUME IInv, LockerStep PROVE IInv'
  OBVIOUS
<1>. USE DEF IInv
<1>1. CASE RecvUnlock
  <2>1. PICK accounts \in AllAccounts : locker' = Visit("unlock", accounts)
    BY <1>1 DEF RecvUnlock
  <2>2. accounts \subseteq Account /\ (~quit => accounts = Account)
    BY AllAccountsType
  <2>. QED
    BY <1>1, <2>1, <2>2
    DEF RecvUnlock, AtSelect, Visit, storeVars, UnlockedIsOpen, TypeOK, RequestOK,
        LockerOK, LoopHasRequest, LoopOpens
<1>2. CASE UnlockDone
  <2>1. req # None /\ req.at = "unlock"
    BY <1>2 DEF UnlockDone, LoopHasRequest
  <2>2. RequestOK'
    BY <1>2, <2>1, ReplyType DEF UnlockDone
  <2>3. ~quit => open = Account
    BY <1>2 DEF UnlockDone, LoopOpens, UnlockedIsOpen, TypeOK
  <2>4. req.timeout \in BOOLEAN
    BY <2>1 DEF RequestOK
  <2>5. UnlockedIsOpen'
    BY <1>2, <2>3, <2>4
    DEF UnlockDone, Select, storeVars, UnlockedIsOpen, TypeOK
  <2>. QED
    BY <1>2, <2>2, <2>5
    DEF UnlockDone, Select, LockerOK, LoopHasRequest, LoopOpens
<1>3. CASE SendState
  BY <1>3 DEF SendState, AtSelect, storeVars, lockerVars, UnlockedIsOpen, TypeOK,
              RequestOK, LockerOK, LoopHasRequest, LoopOpens
<1>4. ASSUME Locks, locker.at = "select", req' \in {req, None} PROVE IInv'
  <2>1. PICK accounts \in AllAccounts : locker' = Visit("lock", accounts)
    BY <1>4 DEF Locks
  <2>2. accounts \subseteq Account
    BY AllAccountsType
  <2>3. UnlockedIsOpen' /\ LockerOK' /\ LoopHasRequest' /\ LoopOpens'
    BY <1>4, <2>1, <2>2
    DEF Locks, Visit, storeVars, UnlockedIsOpen, TypeOK, LockerOK,
        LoopHasRequest, LoopOpens
  <2>. QED
    BY <1>4, <2>3 DEF RequestOK
<1>5. CASE LockDone
  BY <1>5 DEF LockDone, Select, storeVars, UnlockedIsOpen, TypeOK, RequestOK,
              LockerOK, LoopHasRequest, LoopOpens
<1>6. CASE LockerQuits
  BY <1>6 DEF LockerQuits, Select, storeVars, UnlockedIsOpen, TypeOK, RequestOK,
              LockerOK, LoopHasRequest, LoopOpens
<1>7. ASSUME NEW a \in Account, UnlockAccount(a) PROVE IInv'
  <2>1. pass[a] # None
    BY <1>7, AccountAssumption
    DEF UnlockAccount, CanUnlock, LoopHasRequest, RequestOK
  <2>2. UnlockedIsOpen'
    BY <1>7, <2>1 DEF UnlockAccount, UnlockedIsOpen, TypeOK
  <2>. QED
    BY <1>7, <2>2
    DEF UnlockAccount, RequestOK, LockerOK, LoopHasRequest, LoopOpens
<1>8. ASSUME NEW a \in Account, UnlockFails(a) PROVE IInv'
  <2>1. RequestOK'
    BY <1>8, ReplyType DEF UnlockFails, LoopHasRequest
  <2>. QED
    BY <1>8, <2>1
    DEF UnlockFails, Select, storeVars, UnlockedIsOpen, TypeOK, LockerOK,
        LoopHasRequest, LoopOpens
<1>9. ASSUME NEW a \in Account, LockAccount(a) PROVE IInv'
  BY <1>9 DEF LockAccount, UnlockedIsOpen, TypeOK, RequestOK, LockerOK,
              LoopHasRequest, LoopOpens
<1>. QED
  BY <1>1, <1>2, <1>3, <1>4, <1>5, <1>6, <1>7, <1>8, <1>9
  DEF LockerStep, RecvLock, Timeout, AtSelect

LEMMA NextIInv == IInv /\ [Next]_vars => IInv'
<1>. SUFFICES ASSUME IInv, [Next]_vars PROVE IInv'
  OBVIOUS
<1>1. CASE Stop
  BY <1>1 DEF Stop, storeVars, lockerVars, IInv, UnlockedIsOpen, TypeOK,
              RequestOK, LockerOK, LoopHasRequest, LoopOpens
<1>2. CASE UNCHANGED vars
  BY <1>2 DEF vars, storeVars, lockerVars, IInv, UnlockedIsOpen, TypeOK,
              RequestOK, LockerOK, LoopHasRequest, LoopOpens
<1>. QED
  BY <1>1, <1>2, UserIInv, RequestIInv, LockerIInv DEF Next

(* Whenever walletislocked would answer "unlocked" every key store is      *)
(* open, for any number of accounts, after any sequence of unlocks, locks  *)
(* and changes of passphrase of which some fail half way (acctmgr.go       *)
(* 488-534): the loop over the accounts leaves before unlocked is set when *)
(* one of them does not open.                                              *)
THEOREM UnlockedMeansOpen == Spec => []UnlockedIsOpen
<1>1. IInv => UnlockedIsOpen
  BY DEF IInv
<1>. QED
  BY <1>1, InitIInv, NextIInv, PTL DEF Spec
=============================================================================
