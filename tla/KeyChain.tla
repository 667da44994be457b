------------------------------ MODULE KeyChain ------------------------------
(***************************************************************************)
(* An account's key store (keystore.go): the deterministic address chain,  *)
(* its pool, the private keys that are made later for addresses created    *)
(* while the store was locked, the passphrase, and the wallet file that    *)
(* the account's requests write (account.go, acctmgr.go, rpcserver.go).    *)
(*                                                                         *)
(* Cryptography is ideal.  The private key of the chained address with     *)
(* index i is i itself and that of an imported address is its name, so     *)
(* ChainedPrivKey and ChainedPubKey add one.  A passphrase stands for the  *)
(* AES key that Key derives from it, and an encrypted key remembers the    *)
(* passphrase it was encrypted under.  The random source never fails.      *)
(* Block stamps, comments and sync states are data that nothing here       *)
(* depends on.                                                             *)
(***************************************************************************)
EXTENDS Integers, Sequences, FiniteSets, FiniteSetsExt

CONSTANTS
  Passphrase,   \* passphrases a user may give
  Import,       \* private keys a user may import
  Script,       \* scripts a user may import
  None,         \* no key, no secret
  Garbage,      \* what decrypting with the wrong AES key gives
  KeypoolSize,  \* cfg.KeypoolSize
  MaxRecover,   \* bound: addresses one recoveraddresses asks for
  MaxIndex,     \* bound: addresses used
  Files         \* the kinds of wallet files to start from

ASSUME KeypoolAssumption == /\ KeypoolSize \in Nat
                            /\ MaxRecover \in Nat
                            /\ MaxIndex \in Nat
ASSUME FilesAssumption == Files \subseteq {"new", "old", "watching"}
ASSUME NamesAssumption ==
  /\ \A k \in Import : k \notin Int
  /\ \A x \in Script : x \notin Int \cup Import
  /\ None \notin Int \cup Import \cup Passphrase
  /\ None \notin [key : Int \cup Import, under : Passphrase]
  /\ Garbage \notin Int \cup Import

VARIABLES
  store,   \* the key store in memory
  disk,    \* the wallet file
  told,    \* history: the passphrases the wallet file may be under, as
           \* far as the replies to the user tell
  handed   \* history: the addresses returned to users, in order

vars == <<store, disk, told, handed>>
-----------------------------------------------------------------------------
(* Addresses.  An encrypted key is a key and the passphrase it is under:   *)
(* addrFlags.hasPrivKey and encrypted are both set when there is one.      *)
Root == -1
Cipher(key, pass) == [key |-> key, under |-> pass]
Keyed(a) == a.privKey # None
Decrypt(c, pass) == IF c.under = pass THEN c.key ELSE Garbage

newBtcAddressWithoutPrivkey ==
  [privKey |-> None, privKeyCT |-> None, createPrivKeyNextUnlock |-> TRUE,
   change |-> FALSE]

(* newBtcAddress followed by encrypt, as every caller does.                *)
newBtcAddress(key, pass) ==
  [privKey |-> Cipher(key, pass), privKeyCT |-> key,
   createPrivKeyNextUnlock |-> FALSE, change |-> FALSE]

(* btcAddress.unlock: it needs an encrypted key that decrypts to the clear *)
(* text held, or else to the key of the address's public key, here own.    *)
Unlocks(a, own, pass) ==
  /\ Keyed(a)
  /\ Decrypt(a.privKey, pass) = IF a.privKeyCT = None THEN own
                                                      ELSE a.privKeyCT
Unlocked(a, pass) == [a EXCEPT !.privKeyCT = Decrypt(a.privKey, pass)]
LockAddr(a) == IF Keyed(a) THEN [a EXCEPT !.privKeyCT = None] ELSE a
Reencrypted(a, old, new) ==
  [Unlocked(a, old) EXCEPT !.privKey = Cipher(Decrypt(a.privKey, old), new)]

(* watchingCopy keeps no private key.                                      *)
watchingCopy(a) ==
  [newBtcAddressWithoutPrivkey EXCEPT !.createPrivKeyNextUnlock = FALSE,
                                      !.change = a.change]

EachAddr(s, f(_)) ==
  [s EXCEPT !.chain = [i \in DOMAIN s.chain |-> f(s.chain[i])],
            !.imported = [k \in DOMAIN s.imported |-> f(s.imported[k])]]
-----------------------------------------------------------------------------
(* The store.  chain is chainIdxMap followed by addrMap, with the root     *)
(* address at index -1; imported is the rest of addrMap.                   *)
IsLocked(s) == s.secret = None
Last(s) == s.lastChainIdx
Ok(s) == [err |-> "", s |-> s]
Err(e, s) == [err |-> e, s |-> s]

Lock(s) ==
  IF s.watchingOnly THEN s
  ELSE EachAddr([s EXCEPT !.secret = None], LockAddr)

(* extendKeypool: n encrypted addresses chained from the last one.  The    *)
(* lookup of a last index that is not in the chain panics.                 *)
extendKeypool(s, n) ==
  LET last == Last(s)
  IN IF last \notin DOMAIN s.chain THEN Err("panic", s)
     ELSE IF ~Unlocks(s.chain[last], last, s.secret)
          THEN Err("unlock", s)
     ELSE LET key == Decrypt(s.chain[last].privKey, s.secret)
          IN Ok([s EXCEPT
               !.chain = [i \in DOMAIN s.chain \cup (last + 1 .. last + n) |->
                 IF i > last THEN newBtcAddress(key + (i - last), s.secret)
                 ELSE IF i = last THEN Unlocked(s.chain[i], s.secret)
                 ELSE s.chain[i]],
               !.lastChainIdx = last + n])

(* Fault: missingKeysStart follows the latest address.                     *)
MissingLatest(start, idx) == idx

(* missingKeysStart is set by the first address, and 0 means none.         *)
MissingFrom(start, idx) == IF start = 0 THEN idx ELSE start

(* Fault: lastChainIdx is not advanced.                                    *)
ExtendLockedStays(s) ==
  LET next == Last(s) + 1
  IN IF Last(s) \notin DOMAIN s.chain THEN Err("panic", s)
     ELSE Ok([s EXCEPT
            !.chain = [i \in DOMAIN s.chain \cup {next} |->
              IF i = next THEN newBtcAddressWithoutPrivkey ELSE s.chain[i]],
            !.missingKeysStart = MissingFrom(s.missingKeysStart, next)])

(* extendLockedWallet: one address without a private key.                  *)
extendLockedWallet(s) ==
  LET next == Last(s) + 1
  IN IF Last(s) \notin DOMAIN s.chain THEN Err("panic", s)
     ELSE Ok([s EXCEPT
            !.chain = [i \in DOMAIN s.chain \cup {next} |->
              IF i = next THEN newBtcAddressWithoutPrivkey ELSE s.chain[i]],
            !.lastChainIdx = next,
            !.missingKeysStart = MissingFrom(s.missingKeysStart, next)])

Extend(s) == IF IsLocked(s) THEN extendLockedWallet(s)
                            ELSE extendKeypool(s, KeypoolSize)

nextChainedAddress(s) ==
  LET idx == s.highestUsed + 1
      r == IF idx \in DOMAIN s.chain THEN Ok(s) ELSE Extend(s)
  IN IF r.err # "" THEN r
     ELSE IF idx \notin DOMAIN r.s.chain THEN Err("chain map", r.s)
     ELSE Ok([r.s EXCEPT !.highestUsed = idx])

MarkChange(s) ==
  [s EXCEPT !.chain[s.highestUsed].change = TRUE]

(* NextChainedAddress and ChangeAddress.                                   *)
nextAddress(s, change) ==
  LET r == nextChainedAddress(s)
  IN IF r.err = "" /\ change THEN Ok(MarkChange(r.s)) ELSE r

(* ExtendActiveAddresses: n addresses, up to the first error.              *)
ExtendActiveAddresses(s, n) ==
  LET after[k \in 0 .. n] ==
        IF k = 0 THEN Ok(s)
        ELSE IF after[k - 1].err # "" THEN after[k - 1]
        ELSE nextChainedAddress(after[k - 1].s)
  IN after[n]
-----------------------------------------------------------------------------
(* createMissingPrivateKeys goes up the chain from missingKeysStart.  An   *)
(* address that has a key already ends it with ErrAlreadyEncrypted, unless *)
(* the file had a version from before VersUnsetNeedsPrivkeyFlag.           *)
createMissingPrivateKeys(s) ==
  LET idx == s.missingKeysStart
      prev == s.chain[idx - 1]
      todo == {i \in DOMAIN s.chain : i >= idx}
      dup == {i \in todo : Keyed(s.chain[i]) /\ s.vers = "current"}
      done == {i \in todo : \A j \in dup : i < j}
      key(i) == Decrypt(prev.privKey, s.secret) + (i - idx + 1)
      Made(i) ==
        [s.chain[i] EXCEPT
           !.privKeyCT = key(i),
           !.privKey = IF Keyed(s.chain[i]) THEN @
                                            ELSE Cipher(key(i), s.secret),
           !.createPrivKeyNextUnlock = FALSE]
      made ==
        [s EXCEPT !.chain = [i \in DOMAIN s.chain |->
           IF i \in done THEN Made(i)
           ELSE IF dup # {} /\ i = Min(dup)
                THEN [s.chain[i] EXCEPT !.privKeyCT = key(i)]
           ELSE IF i = idx - 1 THEN Unlocked(prev, s.secret)
           ELSE s.chain[i]]]
  IN IF idx = 0 THEN Ok(s)
     ELSE IF idx - 1 \notin DOMAIN s.chain THEN Err("previous", s)
     ELSE IF ~Unlocks(prev, idx - 1, s.secret) THEN Err("unlock", s)
     ELSE IF dup # {} THEN Err("already encrypted", made)
     ELSE Ok([made EXCEPT !.missingKeysStart = 0])

(* Unlock saves the secret before it makes the missing keys.               *)
Unlock(s, pass) ==
  IF s.watchingOnly THEN Err("watching only", s)
  ELSE IF ~Unlocks(s.chain[Root], Root, pass) THEN Err("wrong passphrase", s)
  ELSE createMissingPrivateKeys(
         [s EXCEPT !.chain[Root] = Unlocked(@, pass), !.secret = pass])

ImportPrivateKey(s, k) ==
  IF s.watchingOnly THEN Err("watching only", s)
  ELSE IF k \in DOMAIN s.imported THEN Err("duplicate", s)
  ELSE IF IsLocked(s) THEN Err("locked", s)
  ELSE Ok([s EXCEPT !.imported = [j \in DOMAIN @ \cup {k} |->
                      IF j = k THEN newBtcAddress(k, s.secret) ELSE @[j]]])

ImportScript(s, x) ==
  IF s.watchingOnly THEN Err("watching only", s)
  ELSE IF x \in s.scripts THEN Err("duplicate", s)
  ELSE Ok([s EXCEPT !.scripts = @ \cup {x}])

(* ChangePassphrase walks addrMap in any order, and an address that cannot *)
(* be re-encrypted ends it: any of the others may be done before.          *)
ChangePassphrase(s, new) ==
  LET chained == {i \in DOMAIN s.chain : Unlocks(s.chain[i], i, s.secret)}
      imports == {k \in DOMAIN s.imported :
                    Unlocks(s.imported[k], k, s.secret)}
      Done(C, I) ==
        [s EXCEPT !.chain = [i \in DOMAIN s.chain |->
                     IF i \in C THEN Reencrypted(s.chain[i], s.secret, new)
                                ELSE s.chain[i]],
                  !.imported = [k \in DOMAIN s.imported |->
                     IF k \in I
                     THEN Reencrypted(s.imported[k], s.secret, new)
                     ELSE s.imported[k]]]
  IN IF s.watchingOnly THEN {Err("watching only", s)}
     ELSE IF IsLocked(s) THEN {Err("locked", s)}
     ELSE IF chained = DOMAIN s.chain /\ imports = DOMAIN s.imported
          THEN {Ok([Done(chained, imports) EXCEPT !.secret = new])}
     ELSE {Err("address", Done(C, I)) :
             C \in SUBSET chained, I \in SUBSET imports}
-----------------------------------------------------------------------------
(* The wallet file.  An address is written with its flags and its          *)
(* encrypted key.  WriteTo always writes the current version.              *)
Stored(a) == [a EXCEPT !.privKeyCT = None]
WriteTo(s) ==
  LET f == EachAddr(s, Stored)
  IN [vers |-> "current", watchingOnly |-> s.watchingOnly,
      highestUsed |-> s.highestUsed, chain |-> f.chain,
      imported |-> f.imported, scripts |-> s.scripts]

(* Fault: missingKeysStart is not restored from the flags in the file.     *)
ReadForgetsMissing(f) ==
  [vers |-> f.vers, watchingOnly |-> f.watchingOnly,
   highestUsed |-> f.highestUsed, chain |-> f.chain,
   imported |-> f.imported, scripts |-> f.scripts,
   secret |-> None, lastChainIdx |-> Max({0} \cup DOMAIN f.chain),
   missingKeysStart |-> 0]

(* ReadFrom fills the unserialized fields.  lastChainIdx starts from Go's  *)
(* zero, not from the root's index.  The entries are in the order of the   *)
(* chain, so the first flagged one after index 0 sets missingKeysStart.    *)
ReadFrom(f) ==
  LET flagged == {i \in DOMAIN f.chain \ {Root, 0} :
                    f.chain[i].createPrivKeyNextUnlock}
  IN [vers |-> f.vers, watchingOnly |-> f.watchingOnly,
      highestUsed |-> f.highestUsed, chain |-> f.chain,
      imported |-> f.imported, scripts |-> f.scripts,
      secret |-> None,
      lastChainIdx |-> Max({0} \cup DOMAIN f.chain),
      missingKeysStart |-> IF flagged = {} THEN 0 ELSE Min(flagged)]

(* NewStore, locked again at its end.                                      *)
NewStore(pass) ==
  Lock([vers |-> "current", watchingOnly |-> FALSE, highestUsed |-> Root,
        chain |-> [i \in Root .. KeypoolSize - 1 |-> newBtcAddress(i, pass)],
        imported |-> [k \in {} |-> None], scripts |-> {},
        secret |-> pass, lastChainIdx |-> KeypoolSize - 1,
        missingKeysStart |-> 0])

ExportWatchingWallet(s) ==
  [EachAddr(s, watchingCopy) EXCEPT !.vers = s.vers, !.watchingOnly = TRUE,
                                    !.secret = None, !.missingKeysStart = 0]

(* What a version before VersUnsetNeedsPrivkeyFlag could leave: three used *)
(* addresses, some of those after the pool's only one created while the    *)
(* store was locked, whose flag stays set when their keys are made.        *)
OldFiles(pass) ==
  LET Addr(i, late, keyless) ==
        IF i \in keyless THEN newBtcAddressWithoutPrivkey
        ELSE [newBtcAddress(i, pass) EXCEPT
                !.privKeyCT = None, !.createPrivKeyNextUnlock = i \in late]
  IN {[vers |-> "old", watchingOnly |-> FALSE, highestUsed |-> 2,
       chain |-> [i \in Root .. 2 |-> Addr(i, late, keyless)],
       imported |-> [k \in {} |-> None], scripts |-> {}] :
        late \in {{1}, {2}, {1, 2}}, keyless \in {{}, {2}}}

Init ==
  /\ handed = <<>>
  /\ \E pass \in Passphrase :
       /\ told = {pass}
       /\ \/ /\ "new" \in Files
             /\ store = NewStore(pass)
             /\ disk = WriteTo(store)
          \/ /\ "old" \in Files
             /\ disk \in OldFiles(pass)
             /\ store = ReadFrom(disk)
          \/ /\ "watching" \in Files
             /\ disk = WriteTo(ExportWatchingWallet(NewStore(pass)))
             /\ store = ReadFrom(disk)
-----------------------------------------------------------------------------
(* A panic in a request ends the process; the next start reads the file.   *)
Restart ==
  /\ store' = ReadFrom(disk)
  /\ UNCHANGED <<disk, told, handed>>

(* The disk syncer's write of a changed wallet, ordered by anything else.  *)
Write ==
  /\ disk' = WriteTo(store)
  /\ UNCHANGED <<store, told, handed>>

(* Fault: the reply does not wait for the file.                            *)
ReplyFirst(s, reply) ==
  /\ store' = s
  /\ \/ disk' = WriteTo(s)
     \/ UNCHANGED disk
  /\ handed' = handed \o reply
  /\ UNCHANGED told

(* A request that changed the store flushes the account before it replies. *)
(* When the flush fails, the store keeps the change and the user gets an   *)
(* error.                                                                  *)
FlushAndReply(s, reply) ==
  /\ store' = s
  /\ \/ disk' = WriteTo(s) /\ handed' = handed \o reply
     \/ UNCHANGED <<disk, handed>>
  /\ UNCHANGED told

Entry(idx, s) == [idx |-> idx, change |-> s.chain[idx].change]
Panics(r) == r.err = "panic"

(* NewAddress, NewChangeAddress, and sendPairs for its change address.     *)
NewAddress(change) ==
  LET r == nextAddress(store, change)
  IN /\ store.highestUsed < MaxIndex
     /\ IF Panics(r) THEN Restart
        ELSE IF r.err # ""
             THEN store' = r.s /\ UNCHANGED <<disk, told, handed>>
        ELSE FlushAndReply(r.s, <<Entry(r.s.highestUsed, r.s)>>)

(* RecoverAddresses neither writes the wallet nor schedules a write.       *)
RecoverAddresses(n) ==
  LET r == ExtendActiveAddresses(store, n)
  IN /\ store.highestUsed + n <= MaxIndex
     /\ IF Panics(r) THEN Restart
        ELSE store' = r.s /\ UNCHANGED <<disk, told, handed>>

ImportKey(k) ==
  LET r == ImportPrivateKey(store, k)
  IN r.err = "" /\ FlushAndReply(r.s, <<[idx |-> k, change |-> FALSE]>>)

AddMultiSigAddress(x) ==
  LET r == ImportScript(store, x)
  IN r.err = "" /\ FlushAndReply(r.s, <<[idx |-> x, change |-> FALSE]>>)

UnlockWallet(pass) ==
  /\ store' = Unlock(store, pass).s
  /\ UNCHANGED <<disk, told, handed>>

(* A lock request, or the locker's timeout.                                *)
LockWallet ==
  /\ store' = Lock(store)
  /\ UNCHANGED <<disk, told, handed>>

(* AccountManager.ChangePassphrase: unlock with the old passphrase, change *)
(* it, lock, and write at once.  A failed write is reported to the user,   *)
(* who then does not know which passphrase a later write will be under.    *)
ChangePass(old, new) ==
  LET u == Unlock(store, old)
  IN IF u.err # "" THEN store' = u.s /\ UNCHANGED <<disk, told, handed>>
     ELSE \E r \in ChangePassphrase(u.s, new) :
            IF r.err # "" THEN store' = r.s /\ UNCHANGED <<disk, told, handed>>
            ELSE /\ store' = Lock(r.s)
                 /\ \/ disk' = WriteTo(r.s) /\ told' = {new}
                    \/ told' = told \cup {new} /\ UNCHANGED disk
                 /\ UNCHANGED handed

Next ==
  \/ \E change \in BOOLEAN : NewAddress(change)
  \/ \E n \in 1 .. MaxRecover : RecoverAddresses(n)
  \/ \E k \in Import : ImportKey(k)
  \/ \E x \in Script : AddMultiSigAddress(x)
  \/ \E pass \in Passphrase : UnlockWallet(pass)
  \/ LockWallet
  \/ \E old, new \in Passphrase : ChangePass(old, new)
  \/ Write
  \/ Restart

Spec == Init /\ [][Next]_vars
-----------------------------------------------------------------------------
Key == Int \cup Import
Addr == [privKey : {None} \cup [key : Key, under : Passphrase],
         privKeyCT : {None} \cup Key,
         createPrivKeyNextUnlock : BOOLEAN, change : BOOLEAN]

(* The types of the store, the file and the histories, and the indices of  *)
(* the chain without a gap: WriteTo (keystore.go:795, 810) indexes a slice *)
(* of the chain's length with them.                                        *)
TypeOK ==
  /\ \A s \in {store, disk} :
       /\ s.vers \in {"old", "current"} /\ s.watchingOnly \in BOOLEAN
       /\ DOMAIN s.chain = Root .. Cardinality(DOMAIN s.chain) - 2
       /\ s.highestUsed \in DOMAIN s.chain
       /\ \A i \in DOMAIN s.chain : s.chain[i] \in Addr
       /\ DOMAIN s.imported \subseteq Import
       /\ \A k \in DOMAIN s.imported : s.imported[k] \in Addr
       /\ s.scripts \subseteq Script
  /\ store.secret \in Passphrase \cup {None}
  /\ store.lastChainIdx \in Int /\ store.missingKeysStart \in Int
  /\ told \in SUBSET Passphrase
  /\ handed \in Seq([idx : Key \cup Script, change : BOOLEAN])

(* lastChainIdx, which is not in the file, is the end of the chain after   *)
(* any mixture of locked and unlocked extension, crash and reading: the    *)
(* next extension (keystore.go:1071, 1130) finds its address and continues *)
(* the chain there.                                                        *)
ChainEnds == store.lastChainIdx = Max(DOMAIN store.chain)

(* The chain is whole, in memory and in the file, and ends where the next  *)
(* extension looks for its end.                                            *)
ChainKept == TypeOK /\ ChainEnds

(* A locked store holds no clear text private key (Lock, keystore.go:904), *)
(* whichever of the operations before made or decrypted it.                *)
ClearTextGone ==
  IsLocked(store) =>
    /\ \A i \in DOMAIN store.chain : store.chain[i].privKeyCT = None
    /\ \A k \in DOMAIN store.imported : store.imported[k].privKeyCT = None

(* Every address of s has its own private key, encrypted under pass.       *)
AllKeyed(s, pass) ==
  /\ \A i \in DOMAIN s.chain : s.chain[i].privKey = Cipher(i, pass)
  /\ \A k \in DOMAIN s.imported : s.imported[k].privKey = Cipher(k, pass)

(* "Any addresses created while the key store was locked without private   *)
(* keys are created at this time" (Unlock, keystore.go:879): in an         *)
(* unlocked store every address has its own key under the passphrase in    *)
(* use, so that it can be spent from.                                      *)
KeysCreatedAtUnlock == ~IsLocked(store) => AllKeyed(store, store.secret)

(* Locked, no key is in clear text; unlocked, every address has its key.   *)
KeysKept == ClearTextGone /\ KeysCreatedAtUnlock

(* Unlocking s with one of the passphrases the user was told of succeeds   *)
(* and gives every address its key.                                        *)
Opens(s) == \E pass \in told : LET r == Unlock(s, pass)
                               IN r.err = "" /\ AllKeyed(r.s, pass)

(* The store can be unlocked with the user's passphrase at any time, and   *)
(* so can the wallet file after a restart, whatever was written when,      *)
(* locked or unlocked, before or after a change of the passphrase whose    *)
(* write failed (acctmgr.go:852).                                          *)
WalletOpens ==
  /\ store.watchingOnly \/ Opens(store)
  /\ disk.watchingOnly \/ Opens(ReadFrom(disk))

(* No address is returned to a user twice, and each one returned is in the *)
(* wallet file for good, also when the process dies: NewAddress            *)
(* (account.go:642) replies only after the file was written.               *)
HandedOutOnce ==
  /\ \A m, n \in DOMAIN handed : handed[m].idx = handed[n].idx => m = n
  /\ \A n \in DOMAIN handed :
       LET idx == handed[n].idx
       IN \/ /\ idx \in DOMAIN disk.chain /\ idx <= disk.highestUsed
             /\ disk.chain[idx].change = handed[n].change
          \/ idx \in DOMAIN disk.imported \cup disk.scripts
=============================================================================
