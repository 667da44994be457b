--------------------------- MODULE KeyChainProofs ---------------------------
(***************************************************************************)
(* Proofs about the key store and its wallet file, for any passphrases,    *)
(* imports and scripts, any number of addresses and any pool size above 0. *)
(*                                                                         *)
(* There is one passphrase that all keys of the store are under, and one   *)
(* for those of the file; a change of the passphrase whose write failed    *)
(* makes them differ.  On the chain the addresses with a key come first,   *)
(* those created while the store was locked last, and missingKeysStart is  *)
(* where the second part begins: it is not in the file, where the flags of *)
(* the addresses say the same.  The store has all that the file has, so    *)
(* that an index after highestUsed was never returned to anyone.           *)
(***************************************************************************)
EXTENDS KeyChain, FiniteSetTheorems, TLAPS

(* A pool that is not empty, and no file of a version from before          *)
(* VersUnsetNeedsPrivkeyFlag.  Without a pool the first address made while *)
(* the store is locked has index 0, which missingKeysStart = 0 takes for   *)
(* no missing key (keystore.go:1158); in such an old file the flags do not *)
(* say which keys are missing (keystore.go:1214).  The theorems are false  *)
(* in both cases.                                                          *)
Supported == KeypoolSize > 0 /\ "old" \notin Files

(* The types of a store and a file.                                        *)
Chains == UNION {[Root .. n -> Addr] : n \in Nat}
Imports == UNION {[D -> Addr] : D \in SUBSET Import}
Store == [vers : {"current"}, watchingOnly : BOOLEAN, highestUsed : Int,
          chain : Chains, imported : Imports, scripts : SUBSET Script,
          secret : Passphrase \cup {None}, lastChainIdx : Int,
          missingKeysStart : Int]
File == [vers : {"current"}, watchingOnly : BOOLEAN, highestUsed : Int,
         chain : Chains, imported : Imports, scripts : SUBSET Script]

(* An address with its own key, encrypted under pass; one without a key;   *)
(* one whose key is to be made at the next unlock.                         *)
Sealed(a, own, pass) ==
  /\ a.privKey = Cipher(own, pass)
  /\ a.privKeyCT \in {None, own}
  /\ ~a.createPrivKeyNextUnlock
Bare(a) == a.privKey = None /\ a.privKeyCT = None
Pending(a) == Bare(a) /\ a.createPrivKeyNextUnlock

(* The keys of s: under pass up to index m, from there on to be made.      *)
Keys(s, pass, m) ==
  /\ \A i \in DOMAIN s.chain : i < m => Sealed(s.chain[i], i, pass)
  /\ \A i \in DOMAIN s.chain : i >= m => Pending(s.chain[i])
  /\ \A k \in DOMAIN s.imported : Sealed(s.imported[k], k, pass)

(* Nothing but public keys; no key in clear text.                          *)
NoKeys(s) == /\ \A i \in DOMAIN s.chain : Bare(s.chain[i])
             /\ \A k \in DOMAIN s.imported : Bare(s.imported[k])
NoneClear(s) == /\ \A i \in DOMAIN s.chain : s.chain[i].privKeyCT = None
                /\ \A k \in DOMAIN s.imported : s.imported[k].privKeyCT = None

(* The first index without a key.                                          *)
Missing(s) == IF s.missingKeysStart = 0 THEN s.lastChainIdx + 1 ELSE s.missingKeysStart

(* A store in memory whose keys are under pass.                            *)
Good(s, pass) ==
  /\ s \in Store
  /\ s.lastChainIdx \in Nat /\ DOMAIN s.chain = Root .. s.lastChainIdx
  /\ s.highestUsed \in DOMAIN s.chain
  /\ IsLocked(s) => NoneClear(s)
  /\ s.watchingOnly => IsLocked(s) /\ NoKeys(s)
  /\ ~s.watchingOnly => /\ s.secret \in {None, pass}
                        /\ s.missingKeysStart \in 0 .. s.lastChainIdx
                        /\ s.missingKeysStart = 0 \/ IsLocked(s)
                        /\ Keys(s, pass, Missing(s))

(* A wallet file whose keys are under pass.                                *)
GoodFile(f, pass) ==
  /\ f \in File
  /\ f.highestUsed \in DOMAIN f.chain
  /\ NoneClear(f)
  /\ f.watchingOnly => NoKeys(f)
  /\ ~f.watchingOnly => \E m \in Nat \ {0} : Keys(f, pass, m)

(* s has all that f has, and the addresses used in f as they are there.    *)
Grown(f, s) ==
  /\ f.highestUsed <= s.highestUsed
  /\ DOMAIN f.chain \subseteq DOMAIN s.chain
  /\ \A i \in DOMAIN f.chain : i <= f.highestUsed => s.chain[i].change = f.chain[i].change
  /\ DOMAIN f.imported \subseteq DOMAIN s.imported
  /\ f.scripts \subseteq s.scripts

(* The inductive invariant.                                                *)
IInv ==
  /\ told \in SUBSET Passphrase
  /\ \E pass \in told : Good(store, pass)
  /\ \E pass \in told : GoodFile(disk, pass)
  /\ Grown(disk, store)
  /\ handed \in Seq([idx : Key \cup Script, change : BOOLEAN])
  /\ HandedOutOnce
-----------------------------------------------------------------------------
(* What the operations on one address do to one with its own key.          *)
LEMMA SealedAddr ==
  ASSUME NEW a \in Addr, NEW own \in Key, NEW pass \in Passphrase, Sealed(a, own, pass)
  PROVE  /\ Keyed(a) /\ Decrypt(a.privKey, pass) = own /\ Unlocks(a, own, pass)
         /\ \A p \in Passphrase : p # pass => ~Unlocks(a, own, p)
<1>1. Cipher(own, pass) \in [key : Key, under : Passphrase] /\ own # None
  BY NamesAssumption DEF Cipher, Key
<1>2. Keyed(a) /\ Decrypt(a.privKey, pass) = own
  BY <1>1, NamesAssumption DEF Keyed, Decrypt, Sealed, Cipher, Key
<1>3. Unlocks(a, own, pass)
  BY <1>2 DEF Unlocks, Sealed
<1>4. ASSUME NEW p \in Passphrase, p # pass PROVE ~Unlocks(a, own, p)
  <2>1. Decrypt(a.privKey, p) = Garbage
    BY <1>4 DEF Decrypt, Sealed, Cipher
  <2>. QED
    BY <2>1, NamesAssumption DEF Unlocks, Sealed, Key
<1>. QED
  BY <1>2, <1>3, <1>4

LEMMA SealedNew ==
  ASSUME NEW key \in Key, NEW pass \in Passphrase
  PROVE  newBtcAddress(key, pass) \in Addr /\ Sealed(newBtcAddress(key, pass), key, pass)
BY DEF newBtcAddress, Addr, Sealed, Cipher

LEMMA PendingNew ==
  newBtcAddressWithoutPrivkey \in Addr /\ Pending(newBtcAddressWithoutPrivkey)
BY DEF newBtcAddressWithoutPrivkey, Addr, Pending, Bare

LEMMA SealedUnlocked ==
  ASSUME NEW a \in Addr, NEW own \in Key, NEW pass \in Passphrase, Sealed(a, own, pass)
  PROVE  /\ Unlocked(a, pass) \in Addr /\ Sealed(Unlocked(a, pass), own, pass)
         /\ Unlocked(a, pass).change = a.change
BY SealedAddr DEF Unlocked, Addr, Sealed

LEMMA SealedReencrypted ==
  ASSUME NEW a \in Addr, NEW own \in Key, NEW pass \in Passphrase, NEW new \in Passphrase,
         Sealed(a, own, pass)
  PROVE  /\ Reencrypted(a, pass, new) \in Addr
         /\ Sealed(Reencrypted(a, pass, new), own, new)
         /\ Reencrypted(a, pass, new).change = a.change
<1>1. Cipher(own, new) \in [key : Key, under : Passphrase]
  BY DEF Cipher
<1>. QED
  BY <1>1, SealedAddr, SealedUnlocked DEF Reencrypted, Addr, Sealed

MadeAddr(a, own, pass) ==
  [a EXCEPT !.privKeyCT = own, !.privKey = Cipher(own, pass),
            !.createPrivKeyNextUnlock = FALSE]
LEMMA SealedMade ==
  ASSUME NEW a \in Addr, NEW own \in Key, NEW pass \in Passphrase
  PROVE  /\ MadeAddr(a, own, pass) \in Addr /\ Sealed(MadeAddr(a, own, pass), own, pass)
         /\ MadeAddr(a, own, pass).change = a.change
<1>1. Cipher(own, pass) \in [key : Key, under : Passphrase]
  BY DEF Cipher
<1>. QED
  BY <1>1 DEF Addr, Sealed, MadeAddr

LEMMA StoredAddr ==
  ASSUME NEW a \in Addr
  PROVE  /\ Stored(a) \in Addr /\ Stored(a).privKeyCT = None /\ Stored(a).change = a.change
         /\ Bare(a) => Bare(Stored(a))
         /\ Pending(a) => Pending(Stored(a))
         /\ \A own, pass : Sealed(a, own, pass) => Sealed(Stored(a), own, pass)
BY DEF Stored, Addr, Bare, Pending, Sealed

LEMMA LockedAddr ==
  ASSUME NEW a \in Addr
  PROVE  /\ LockAddr(a) \in Addr /\ LockAddr(a).change = a.change
         /\ Keyed(a) \/ a.privKeyCT = None => LockAddr(a).privKeyCT = None
         /\ Bare(a) => LockAddr(a) = a
         /\ \A own, pass : Sealed(a, own, pass) => Sealed(LockAddr(a), own, pass)
BY DEF LockAddr, Keyed, Addr, Bare, Sealed

LEMMA WatchingAddr ==
  ASSUME NEW a \in Addr
  PROVE  watchingCopy(a) \in Addr /\ Bare(watchingCopy(a))
BY DEF watchingCopy, newBtcAddressWithoutPrivkey, Addr, Bare
-----------------------------------------------------------------------------
LEMMA MaxIs ==
  ASSUME NEW S \in SUBSET Int, NEW n \in S, \A i \in S : i <= n
  PROVE  Max(S) = n
<1>1. n \in S /\ \A y \in S : n >= y
  OBVIOUS
<1>2. \A x \in S : (\A y \in S : x >= y) => x = n
  OBVIOUS
<1>. QED
  BY <1>1, <1>2 DEF Max

LEMMA MinIs ==
  ASSUME NEW S \in SUBSET Int, NEW n \in S, \A i \in S : i >= n
  PROVE  Min(S) = n
<1>1. n \in S /\ \A y \in S : n <= y
  OBVIOUS
<1>2. \A x \in S : (\A y \in S : x <= y) => x = n
  OBVIOUS
<1>. QED
  BY <1>1, <1>2 DEF Min

(* A set of indices has a least one.                                       *)
LEMMA Least ==
  ASSUME NEW S \in SUBSET Nat, S # {}
  PROVE  \E n \in S : \A i \in S : n <= i
<1>1. \E n \in S : \A i \in S : <<i, n>> \notin OpToRel(<, Nat)
  BY WFMin, NatLessThanWellFounded
<1>2. PICK n \in S : \A i \in S : <<i, n>> \notin OpToRel(<, Nat)
  BY <1>1
<1>3. OpToRel(<, Nat) = {ss \in Nat \X Nat : ss[1] < ss[2]}
  BY DEF OpToRel
<1>4. \A i \in S : ~(i < n)
  BY <1>2, <1>3
<1>. QED
  BY <1>4

LEMMA MinExists ==
  ASSUME NEW S \in SUBSET Nat, S # {}
  PROVE  Min(S) \in S
<1>1. PICK n \in S : \A i \in S : n <= i
  BY Least
<1>. QED
  BY <1>1, MinIs

LEMMA ChainTypes ==
  /\ \A n \in Nat : \A c : c \in [Root .. n -> Addr] => c \in Chains
  /\ \A c \in Chains : \E n \in Nat : c \in [Root .. n -> Addr]
  /\ \A D \in SUBSET Import : \A c : c \in [D -> Addr] => c \in Imports
  /\ \A c \in Imports : DOMAIN c \in SUBSET Import /\ c \in [DOMAIN c -> Addr]
BY DEF Chains, Imports

LEMMA StoreTypes ==
  ASSUME NEW s, NEW pass \in Passphrase, Good(s, pass)
  PROVE  /\ s.lastChainIdx \in Nat /\ DOMAIN s.chain = Root .. s.lastChainIdx
         /\ s.chain \in [Root .. s.lastChainIdx -> Addr]
         /\ DOMAIN s.imported \in SUBSET Import /\ s.imported \in [DOMAIN s.imported -> Addr]
         /\ s.highestUsed \in Root .. s.lastChainIdx /\ s.highestUsed \in Int
         /\ s.missingKeysStart \in Int /\ s.scripts \subseteq Script
         /\ s.secret \in Passphrase \cup {None} /\ s.watchingOnly \in BOOLEAN
<1>1. s \in Store
  BY DEF Good
<1>2. s.chain \in Chains /\ s.imported \in Imports
  BY <1>1 DEF Store
<1>3. PICK n \in Nat : s.chain \in [Root .. n -> Addr]
  BY <1>2, ChainTypes
<1>4. s.lastChainIdx \in Nat /\ DOMAIN s.chain = Root .. s.lastChainIdx
  BY DEF Good
<1>5. s.chain \in [Root .. s.lastChainIdx -> Addr]
  BY <1>3, <1>4
<1>6. DOMAIN s.imported \in SUBSET Import /\ s.imported \in [DOMAIN s.imported -> Addr]
  BY <1>2, ChainTypes
<1>7. s.highestUsed \in Root .. s.lastChainIdx
  BY <1>4 DEF Good
<1>. QED
  BY <1>1, <1>4, <1>5, <1>6, <1>7 DEF Store, Root

(* ReadFrom fills in what the file does not have.                          *)
LEMMA ReadGood ==
  ASSUME NEW f, NEW pass \in Passphrase, GoodFile(f, pass)
  PROVE  Good(ReadFrom(f), pass) /\ Grown(f, ReadFrom(f))
<1>. DEFINE s == ReadFrom(f)
            flagged == {i \in DOMAIN f.chain \ {Root, 0} : f.chain[i].createPrivKeyNextUnlock}
<1>1. f \in File /\ f.highestUsed \in DOMAIN f.chain
  BY DEF GoodFile
<1>2. PICK n \in Nat : f.chain \in [Root .. n -> Addr]
  BY <1>1, ChainTypes DEF File
<1>3. Max({0} \cup DOMAIN f.chain) = n
  <2>1. {0} \cup DOMAIN f.chain \in SUBSET Int /\ n \in {0} \cup DOMAIN f.chain
    BY <1>2 DEF Root
  <2>2. \A i \in {0} \cup DOMAIN f.chain : i <= n
    BY <1>2 DEF Root
  <2>. QED
    BY <2>1, <2>2, MaxIs
<1>4. /\ s.vers = f.vers /\ s.watchingOnly = f.watchingOnly /\ s.highestUsed = f.highestUsed
      /\ s.chain = f.chain /\ s.imported = f.imported /\ s.scripts = f.scripts
      /\ s.secret = None /\ s.lastChainIdx = n
      /\ s.missingKeysStart = IF flagged = {} THEN 0 ELSE Min(flagged)
  BY <1>3 DEF ReadFrom
<1>5. IsLocked(s) /\ NoneClear(s)
  BY <1>4 DEF IsLocked, GoodFile, NoneClear
<1>6. ASSUME ~f.watchingOnly
      PROVE  s.missingKeysStart \in 0 .. n /\ Keys(s, pass, Missing(s))
  <2>1. PICK m \in Nat \ {0} : Keys(f, pass, m)
    BY <1>6 DEF GoodFile
  <2>2. flagged = m .. n
    BY <1>2, <2>1 DEF Keys, Sealed, Pending, Root
  <2>3. CASE m > n
    <3>1. s.missingKeysStart = 0
      BY <1>4, <2>2, <2>3
    <3>2. Keys(f, pass, n + 1)
      BY <1>2, <2>1, <2>3 DEF Keys, Root
    <3>3. Missing(s) = n + 1
      BY <1>4, <3>1 DEF Missing
    <3>. QED
      BY <1>4, <3>1, <3>2, <3>3 DEF Keys
  <2>4. CASE m <= n
    <3>1. Min(flagged) = m
      BY <2>2, <2>4, MinIs
    <3>2. s.missingKeysStart = m
      BY <1>4, <2>2, <2>4, <3>1
    <3>3. Missing(s) = m
      BY <1>4, <3>2 DEF Missing
    <3>. QED
      BY <1>4, <2>1, <2>4, <3>2, <3>3 DEF Keys
  <2>. QED
    BY <2>3, <2>4
<1>7. s.missingKeysStart \in Int
  <2>1. CASE flagged = {}
    BY <1>4, <2>1
  <2>2. CASE flagged # {}
    <3>1. flagged \subseteq 1 .. n
      BY <1>2 DEF Root
    <3>. QED
      BY <1>4, <2>2, <3>1, MinExists
  <2>. QED
    BY <2>1, <2>2
<1>8. s \in Store
  BY <1>1, <1>4, <1>7 DEF Store, File, ReadFrom
<1>9. s.watchingOnly => NoKeys(s)
  BY <1>4 DEF GoodFile, NoKeys
<1>10. Good(s, pass)
  BY <1>1, <1>2, <1>4, <1>5, <1>6, <1>8, <1>9 DEF Good
<1>11. Grown(f, s)
  BY <1>1, <1>4 DEF Grown, File
<1>. QED
  BY <1>10, <1>11

(* WriteTo keeps what a start needs.                                       *)
LEMMA WriteGood ==
  ASSUME NEW s, NEW pass \in Passphrase, Good(s, pass)
  PROVE  GoodFile(WriteTo(s), pass) /\ Grown(WriteTo(s), s) /\ Grown(s, WriteTo(s))
<1>. DEFINE f == WriteTo(s)
<1>1. s \in Store
  BY DEF Good
<1>2. /\ f.vers = "current" /\ f.watchingOnly = s.watchingOnly /\ f.highestUsed = s.highestUsed
      /\ f.chain = [i \in DOMAIN s.chain |-> Stored(s.chain[i])]
      /\ f.imported = [k \in DOMAIN s.imported |-> Stored(s.imported[k])]
      /\ f.scripts = s.scripts
  BY <1>1 DEF WriteTo, EachAddr, Store
<1>3. /\ DOMAIN f.chain = Root .. s.lastChainIdx /\ DOMAIN f.imported = DOMAIN s.imported
      /\ \A i \in DOMAIN f.chain : f.chain[i] = Stored(s.chain[i]) /\ s.chain[i] \in Addr
      /\ \A k \in DOMAIN f.imported : f.imported[k] = Stored(s.imported[k]) /\ s.imported[k] \in Addr
  BY <1>2, StoreTypes
<1>4. f \in File
  <2>1. f.chain \in [Root .. s.lastChainIdx -> Addr] /\ f.imported \in [DOMAIN s.imported -> Addr]
    <3>1. /\ \A i \in Root .. s.lastChainIdx : Stored(s.chain[i]) \in Addr
          /\ \A k \in DOMAIN s.imported : Stored(s.imported[k]) \in Addr
      BY <1>3, StoredAddr
    <3>. QED
      BY <1>2, <3>1, StoreTypes
  <2>2. f.chain \in Chains /\ f.imported \in Imports
    BY <2>1, ChainTypes, StoreTypes
  <2>. QED
    BY <1>1, <1>2, <2>2 DEF File, WriteTo, Store
<1>5. NoneClear(f)
  BY <1>3, StoredAddr DEF NoneClear
<1>6. f.watchingOnly => NoKeys(f)
  BY <1>2, <1>3, StoredAddr, StoreTypes DEF NoKeys, Good
<1>7. ASSUME ~f.watchingOnly PROVE \E m \in Nat \ {0} : Keys(f, pass, m)
  <2>1. Keys(s, pass, Missing(s)) /\ Missing(s) \in Nat \ {0}
    BY <1>2, <1>7, StoreTypes DEF Good, Missing
  <2>2. Keys(f, pass, Missing(s))
    <3>. HIDE DEF f
    <3>1. DOMAIN f.chain = DOMAIN s.chain
      BY <1>3, StoreTypes
    <3>2. \A i \in DOMAIN f.chain : i < Missing(s) => Sealed(f.chain[i], i, pass)
      BY <1>3, <2>1, <3>1, StoredAddr DEF Keys
    <3>3. \A i \in DOMAIN f.chain : i >= Missing(s) => Pending(f.chain[i])
      BY <1>3, <2>1, <3>1, StoredAddr DEF Keys
    <3>4. \A k \in DOMAIN f.imported : Sealed(f.imported[k], k, pass)
      BY <1>3, <2>1, StoredAddr DEF Keys
    <3>. QED
      BY <3>2, <3>3, <3>4 DEF Keys
  <2>. QED
    BY <2>1, <2>2
<1>8. f.highestUsed \in DOMAIN f.chain
  BY <1>2, <1>3, StoreTypes
<1>9. GoodFile(f, pass)
  BY <1>4, <1>5, <1>6, <1>7, <1>8 DEF GoodFile
<1>10. Grown(f, s) /\ Grown(s, f)
  <2>1. \A i \in DOMAIN f.chain : f.chain[i].change = s.chain[i].change
    BY <1>3, StoredAddr
  <2>2. s.highestUsed \in Int /\ DOMAIN f.chain = DOMAIN s.chain
    BY <1>3, StoreTypes
  <2>. HIDE DEF f
  <2>3. /\ f.highestUsed = s.highestUsed /\ f.scripts = s.scripts
        /\ DOMAIN f.imported = DOMAIN s.imported
    BY <1>2, <1>3
  <2>4. Grown(f, s)
    BY <2>1, <2>2, <2>3 DEF Grown
  <2>5. Grown(s, f)
    BY <2>1, <2>2, <2>3 DEF Grown
  <2>. QED
    BY <2>4, <2>5
<1>. QED
  BY <1>9, <1>10
-----------------------------------------------------------------------------
LEMMA OkIs ==
  \A s : Ok(s).err = "" /\ Ok(s).s = s
BY DEF Ok

LEMMA GrownTrans ==
  ASSUME NEW f, NEW s, NEW t, DOMAIN f.chain \subseteq Int,
         f.highestUsed \in Int, s.highestUsed \in Int, t.highestUsed \in Int,
         Grown(f, s), Grown(s, t)
  PROVE  Grown(f, t)
BY DEF Grown

LEMMA GrownFrom ==
  ASSUME NEW s, NEW t, t.highestUsed = s.highestUsed, t.highestUsed \in Int,
         DOMAIN s.chain \subseteq DOMAIN t.chain, DOMAIN s.imported \subseteq DOMAIN t.imported,
         s.scripts \subseteq t.scripts,
         \A i \in DOMAIN s.chain : t.chain[i].change = s.chain[i].change
  PROVE  Grown(s, t)
BY DEF Grown

LEMMA GrownSame ==
  ASSUME NEW s, NEW pass \in Passphrase, Good(s, pass)
  PROVE  Grown(s, s)
BY StoreTypes DEF Grown

(* A store from its fields.                                                *)
Fields(w, h, c, im, x, p, last, m) ==
  [vers |-> "current", watchingOnly |-> w, highestUsed |-> h, chain |-> c,
   imported |-> im, scripts |-> x, secret |-> p, lastChainIdx |-> last,
   missingKeysStart |-> m]

LEMMA ReplacedKeys ==
  ASSUME NEW s \in Store, NEW c, NEW im, NEW p
  PROVE  [[s EXCEPT !.chain = c, !.imported = im] EXCEPT !.secret = p]
         = Fields(s.watchingOnly, s.highestUsed, c, im, s.scripts, p, s.lastChainIdx,
                  s.missingKeysStart)
<1>. DEFINE d == [s EXCEPT !.chain = c, !.imported = im]
            e == [d EXCEPT !.secret = p]
<1>0. d = [s EXCEPT !.chain = c, !.imported = im]
  OBVIOUS
<1>. HIDE DEF d
<1>1. d = [vers |-> s.vers, watchingOnly |-> s.watchingOnly, highestUsed |-> s.highestUsed,
           chain |-> c, imported |-> im, scripts |-> s.scripts, secret |-> s.secret,
           lastChainIdx |-> s.lastChainIdx, missingKeysStart |-> s.missingKeysStart]
  BY <1>0 DEF Store
<1>2. e = [vers |-> s.vers, watchingOnly |-> s.watchingOnly, highestUsed |-> s.highestUsed,
           chain |-> c, imported |-> im, scripts |-> s.scripts, secret |-> p,
           lastChainIdx |-> s.lastChainIdx, missingKeysStart |-> s.missingKeysStart]
  BY <1>1
<1>3. s.vers = "current"
  BY DEF Store
<1>. HIDE DEF e
<1>4. e = Fields(s.watchingOnly, s.highestUsed, c, im, s.scripts, p, s.lastChainIdx,
                 s.missingKeysStart)
  BY <1>2, <1>3 DEF Fields
<1>. QED
  BY <1>4 DEF e, d

LEMMA FieldsStore ==
  ASSUME NEW s, s.watchingOnly \in BOOLEAN, s.lastChainIdx \in Nat,
         s.highestUsed \in Root .. s.lastChainIdx,
         s.chain \in [Root .. s.lastChainIdx -> Addr],
         DOMAIN s.imported \in SUBSET Import, s.imported \in [DOMAIN s.imported -> Addr],
         s.scripts \in SUBSET Script, s.secret \in Passphrase \cup {None},
         s.missingKeysStart \in Int,
         s = Fields(s.watchingOnly, s.highestUsed, s.chain, s.imported, s.scripts, s.secret,
                    s.lastChainIdx, s.missingKeysStart)
  PROVE  /\ s \in Store /\ DOMAIN s.chain = Root .. s.lastChainIdx
         /\ s.highestUsed \in DOMAIN s.chain /\ s.highestUsed \in Int
<1>1. s.highestUsed \in Int /\ s.lastChainIdx \in Int
  BY DEF Root
<1>2. s.chain \in Chains /\ s.imported \in Imports
  BY ChainTypes
<1>3. DOMAIN s.chain = Root .. s.lastChainIdx
  OBVIOUS
<1>4. s \in Store
  BY <1>1, <1>2 DEF Fields, Store
<1>. QED
  BY <1>1, <1>3, <1>4

(* Lock takes the clear text keys and the secret away.                     *)
LEMMA LockGood ==
  ASSUME NEW s, NEW pass \in Passphrase, Good(s, pass)
  PROVE  Good(Lock(s), pass) /\ Grown(s, Lock(s))
<1>1. CASE s.watchingOnly
  BY <1>1, StoreTypes DEF Lock, Grown
<1>2. CASE ~s.watchingOnly
  <2>. DEFINE r == Lock(s)
              c == [i \in DOMAIN s.chain |-> LockAddr(s.chain[i])]
              im == [k \in DOMAIN s.imported |-> LockAddr(s.imported[k])]
  <2>1. s \in Store
    BY DEF Good
  <2>2. r = Fields(s.watchingOnly, s.highestUsed, c, im, s.scripts, None, s.lastChainIdx, s.missingKeysStart)
    BY <1>2, <2>1 DEF Lock, EachAddr, Store, Fields
  <2>3. /\ DOMAIN c = Root .. s.lastChainIdx /\ DOMAIN im = DOMAIN s.imported
        /\ \A i \in DOMAIN c : c[i] = LockAddr(s.chain[i]) /\ s.chain[i] \in Addr
        /\ \A k \in DOMAIN im : im[k] = LockAddr(s.imported[k]) /\ s.imported[k] \in Addr
    BY StoreTypes
  <2>4. c \in [Root .. s.lastChainIdx -> Addr] /\ im \in [DOMAIN s.imported -> Addr]
    <3>1. /\ \A i \in Root .. s.lastChainIdx : LockAddr(s.chain[i]) \in Addr
          /\ \A k \in DOMAIN s.imported : LockAddr(s.imported[k]) \in Addr
      BY LockedAddr, StoreTypes
    <3>. QED
      BY <3>1, StoreTypes
  <2>. HIDE DEF r, c, im
  <2>5. /\ r \in Store /\ DOMAIN r.chain = Root .. r.lastChainIdx
        /\ r.highestUsed \in DOMAIN r.chain /\ r.highestUsed \in Int
        /\ r.watchingOnly = s.watchingOnly /\ r.highestUsed = s.highestUsed
        /\ r.chain = c /\ r.imported = im /\ r.scripts = s.scripts /\ r.secret = None
        /\ r.lastChainIdx = s.lastChainIdx /\ r.missingKeysStart = s.missingKeysStart
    <3>1. /\ r.watchingOnly = s.watchingOnly /\ r.highestUsed = s.highestUsed
          /\ r.chain = c /\ r.imported = im /\ r.scripts = s.scripts /\ r.secret = None
          /\ r.lastChainIdx = s.lastChainIdx /\ r.missingKeysStart = s.missingKeysStart
      BY <2>2 DEF Fields
    <3>2. /\ r.watchingOnly \in BOOLEAN /\ r.lastChainIdx \in Nat
          /\ r.highestUsed \in Root .. r.lastChainIdx
          /\ r.chain \in [Root .. r.lastChainIdx -> Addr]
          /\ DOMAIN r.imported \in SUBSET Import /\ r.imported \in [DOMAIN r.imported -> Addr]
          /\ r.scripts \in SUBSET Script /\ r.secret \in Passphrase \cup {None}
          /\ r.missingKeysStart \in Int
      BY <2>3, <2>4, <3>1, StoreTypes
    <3>3. /\ r \in Store /\ DOMAIN r.chain = Root .. r.lastChainIdx
          /\ r.highestUsed \in DOMAIN r.chain /\ r.highestUsed \in Int
      BY <2>2, <3>1, <3>2, FieldsStore
    <3>. QED
      BY <3>1, <3>3
  <2>6. Keys(s, pass, Missing(s))
    BY <1>2 DEF Good
  <2>7. Missing(r) = Missing(s) /\ Missing(s) \in Int
    BY <2>5, StoreTypes DEF Missing
  <2>8. Keys(r, pass, Missing(r))
    <3>1. \A i \in DOMAIN c : i < Missing(r) => Sealed(c[i], i, pass)
      BY <2>3, <2>6, <2>7, LockedAddr, StoreTypes DEF Keys
    <3>2. \A i \in DOMAIN c : i >= Missing(r) => Pending(c[i])
      <4>1. DOMAIN c = DOMAIN s.chain
        BY <2>3, StoreTypes
      <4>2. \A i \in DOMAIN c : i >= Missing(r) => Pending(s.chain[i])
        BY <2>6, <2>7, <4>1 DEF Keys
      <4>3. \A i \in DOMAIN c : Bare(s.chain[i]) => c[i] = s.chain[i]
        BY <2>3, LockedAddr
      <4>. QED
        BY <4>2, <4>3 DEF Pending
    <3>3. \A k \in DOMAIN im : Sealed(im[k], k, pass)
      BY <2>3, <2>6, LockedAddr DEF Keys
    <3>. QED
      BY <2>5, <3>1, <3>2, <3>3 DEF Keys
  <2>9. NoneClear(r)
    <3>1. \A i \in DOMAIN c : Keyed(s.chain[i]) \/ s.chain[i].privKeyCT = None
      <4>. TAKE i \in DOMAIN c
      <4>1. i \in Int /\ i \in Key /\ i \in DOMAIN s.chain
        BY <2>3, StoreTypes DEF Root, Key
      <4>2. CASE i < Missing(s)
        BY <2>3, <2>6, <4>1, <4>2, SealedAddr DEF Keys
      <4>3. CASE i >= Missing(s)
        BY <2>6, <4>1, <4>3 DEF Keys, Pending, Bare
      <4>. QED
        BY <2>7, <4>1, <4>2, <4>3
    <3>2. \A k \in DOMAIN im : Keyed(s.imported[k])
      <4>. TAKE k \in DOMAIN im
      <4>1. k \in Key
        BY <2>3, StoreTypes DEF Key
      <4>. QED
        BY <2>3, <2>6, <4>1, SealedAddr DEF Keys
    <3>. QED
      BY <2>3, <2>5, <3>1, <3>2, LockedAddr DEF NoneClear
  <2>10. Good(r, pass)
    <3>1. s.missingKeysStart \in 0 .. s.lastChainIdx
      BY <1>2 DEF Good
    <3>. QED
      BY <1>2, <2>5, <2>8, <2>9, <3>1, StoreTypes DEF Good, IsLocked
  <2>11. Grown(s, r)
    <3>1. DOMAIN s.chain = DOMAIN r.chain /\ DOMAIN s.imported = DOMAIN r.imported
      BY <2>3, <2>5, StoreTypes
    <3>2. \A i \in DOMAIN c : c[i].change = s.chain[i].change
      BY <2>3, LockedAddr
    <3>3. \A i \in DOMAIN s.chain : r.chain[i].change = s.chain[i].change
      BY <2>5, <3>1, <3>2
    <3>. QED
      BY <2>5, <3>1, <3>3 DEF Grown
  <2>. QED
    BY <2>10, <2>11 DEF r
<1>. QED
  BY <1>1, <1>2, StoreTypes

(* extendLockedWallet adds an address whose key is to be made.             *)
LEMMA ExtendLockedGood ==
  ASSUME NEW s, NEW pass \in Passphrase, Good(s, pass), IsLocked(s)
  PROVE  LET r == extendLockedWallet(s)
         IN /\ r.err = "" /\ Good(r.s, pass) /\ Grown(s, r.s)
            /\ r.s.highestUsed = s.highestUsed /\ r.s.lastChainIdx = s.lastChainIdx + 1
<1>. DEFINE next == s.lastChainIdx + 1
            new == newBtcAddressWithoutPrivkey
            c == [i \in DOMAIN s.chain \cup {next} |-> IF i = next THEN new ELSE s.chain[i]]
            m == MissingFrom(s.missingKeysStart, next)
            r == extendLockedWallet(s).s
<1>1. s \in Store
  BY DEF Good
<1>2. s.lastChainIdx \in DOMAIN s.chain
  BY StoreTypes DEF Root
<1>3. /\ extendLockedWallet(s).err = ""
      /\ r = [s EXCEPT !.chain = c, !.lastChainIdx = next, !.missingKeysStart = m]
  BY <1>2 DEF extendLockedWallet, Last, Ok
<1>4. r = Fields(s.watchingOnly, s.highestUsed, c, s.imported, s.scripts, s.secret, next, m)
  <2>. HIDE DEF c, m, next, r
  <2>. QED
    BY <1>1, <1>3 DEF Store, Fields
<1>5. /\ DOMAIN c = Root .. next
      /\ \A i \in DOMAIN s.chain : i \in Root .. next /\ c[i] = s.chain[i] /\ i < next
      /\ c[next] = new
      /\ \A i \in DOMAIN c : i = next \/ i \in DOMAIN s.chain
  BY StoreTypes DEF Root
<1>6. c \in [Root .. next -> Addr]
  <2>1. \A i \in DOMAIN c : c[i] \in Addr
    BY <1>5, PendingNew, StoreTypes
  <2>2. c = [i \in DOMAIN c |-> c[i]]
    OBVIOUS
  <2>. HIDE DEF c
  <2>. QED
    BY <1>5, <2>1, <2>2
<1>7. next \in Nat /\ m \in Int /\ s.highestUsed \in Root .. next
  BY StoreTypes DEF MissingFrom, Root
<1>8. /\ r \in Store /\ DOMAIN r.chain = Root .. r.lastChainIdx
      /\ r.highestUsed \in DOMAIN r.chain /\ r.highestUsed \in Int
      /\ r.watchingOnly = s.watchingOnly /\ r.highestUsed = s.highestUsed
      /\ r.chain = c /\ r.imported = s.imported /\ r.scripts = s.scripts
      /\ r.secret = s.secret /\ r.lastChainIdx = next /\ r.missingKeysStart = m
  <2>. HIDE DEF c, m, next, r
  <2>. QED
    <3>1. /\ r.watchingOnly = s.watchingOnly /\ r.highestUsed = s.highestUsed
          /\ r.chain = c /\ r.imported = s.imported /\ r.scripts = s.scripts
          /\ r.secret = s.secret /\ r.lastChainIdx = next /\ r.missingKeysStart = m
      BY <1>4 DEF Fields
    <3>. QED
      BY <1>4, <1>6, <1>7, <3>1, StoreTypes, FieldsStore
<1>. HIDE DEF c, r, new
<1>9. new \in Addr /\ Pending(new) /\ Bare(new)
  BY PendingNew DEF new, Pending
<1>10. NoneClear(r)
  <2>1. NoneClear(s)
    BY DEF Good
  <2>. QED
    BY <1>5, <1>8, <1>9, <2>1 DEF NoneClear, Bare
<1>11. ASSUME s.watchingOnly PROVE NoKeys(r)
  <2>1. NoKeys(s)
    BY <1>11 DEF Good
  <2>. QED
    BY <1>5, <1>8, <1>9, <2>1 DEF NoKeys
<1>12. ASSUME ~s.watchingOnly
      PROVE  r.missingKeysStart \in 0 .. next /\ Keys(r, pass, Missing(r))
  <2>1. Keys(s, pass, Missing(s)) /\ s.missingKeysStart \in 0 .. s.lastChainIdx
    BY <1>12 DEF Good
  <2>2. Missing(r) = Missing(s) /\ Missing(s) \in 1 .. next /\ r.missingKeysStart \in 0 .. next
    BY <1>8, <2>1, StoreTypes DEF Missing, MissingFrom
  <2>3. Keys(r, pass, Missing(s))
    <3>1. ~(next < Missing(s)) /\ next >= Missing(s)
      BY <1>7, <2>2
    <3>. QED
      BY <1>5, <1>8, <1>9, <2>1, <3>1 DEF Keys
  <2>. QED
    BY <2>2, <2>3
<1>13. Good(r, pass)
  BY <1>8, <1>7, <1>10, <1>11, <1>12, StoreTypes DEF Good, IsLocked
<1>14. Grown(s, r)
  <2>1. DOMAIN s.chain \subseteq DOMAIN r.chain
    BY <1>5, <1>8
  <2>. QED
    BY <1>5, <1>8, <2>1 DEF Grown
<1>. QED
  BY <1>3, <1>8, <1>13, <1>14 DEF r

(* extendKeypool adds addresses with their own keys.                       *)
LEMMA ExtendKeypoolGood ==
  ASSUME NEW s, NEW pass \in Passphrase, NEW n \in Nat, Good(s, pass), ~IsLocked(s)
  PROVE  LET r == extendKeypool(s, n)
         IN /\ r.err = "" /\ Good(r.s, pass) /\ Grown(s, r.s)
            /\ r.s.highestUsed = s.highestUsed /\ r.s.lastChainIdx = s.lastChainIdx + n
<1>. DEFINE last == s.lastChainIdx
            key == Decrypt(s.chain[last].privKey, s.secret)
            c == [i \in DOMAIN s.chain \cup (last + 1 .. last + n) |->
                    IF i > last THEN newBtcAddress(key + (i - last), s.secret)
                    ELSE IF i = last THEN Unlocked(s.chain[i], s.secret)
                    ELSE s.chain[i]]
            r == extendKeypool(s, n).s
<1>1. s \in Store /\ ~s.watchingOnly /\ s.secret = pass /\ s.missingKeysStart = 0
      /\ Keys(s, pass, last + 1)
  BY DEF Good, IsLocked, Missing
<1>2. last \in DOMAIN s.chain /\ last \in Key /\ last \in Nat /\ s.chain[last] \in Addr
  BY StoreTypes DEF Root, Key
<1>3. Sealed(s.chain[last], last, pass)
  BY <1>1, <1>2 DEF Keys
<1>4. Unlocks(s.chain[last], last, s.secret) /\ key = last
  BY <1>1, <1>2, <1>3, SealedAddr
<1>5. extendKeypool(s, n).err = "" /\ r = [s EXCEPT !.chain = c, !.lastChainIdx = last + n]
  BY <1>2, <1>4 DEF extendKeypool, Last, Ok
<1>6. r = Fields(s.watchingOnly, s.highestUsed, c, s.imported, s.scripts, s.secret, last + n,
                 s.missingKeysStart)
  <2>. HIDE DEF c, r
  <2>. QED
    BY <1>1, <1>5 DEF Store, Fields
<1>7. DOMAIN c = Root .. last + n
  BY <1>2, StoreTypes DEF Root
<1>8. \A i \in DOMAIN c : i \in DOMAIN s.chain \/ i \in last + 1 .. last + n
  BY DEF Root
<1>9. ASSUME NEW i \in DOMAIN s.chain
      PROVE  /\ i \in DOMAIN c /\ c[i] \in Addr /\ Sealed(c[i], i, pass)
             /\ c[i].change = s.chain[i].change
  <2>1. i \in Key /\ s.chain[i] \in Addr /\ i \in Int /\ ~(i > last)
    BY StoreTypes DEF Root, Key
  <2>2. Sealed(s.chain[i], i, pass)
    BY <1>1, <2>1, StoreTypes DEF Keys
  <2>3. c[i] = IF i = last THEN Unlocked(s.chain[i], pass) ELSE s.chain[i]
    BY <1>1, <2>1
  <2>. QED
    BY <2>1, <2>2, <2>3, SealedUnlocked
<1>10. ASSUME NEW i \in last + 1 .. last + n
       PROVE  c[i] \in Addr /\ Sealed(c[i], i, pass)
  <2>1. i \in Key /\ i \in Int /\ i > last /\ last + (i - last) = i
    BY <1>2 DEF Key
  <2>2. c[i] = newBtcAddress(i, pass)
    BY <1>1, <1>4, <2>1
  <2>. QED
    BY <2>1, <2>2, SealedNew
<1>. HIDE DEF c, r, key
<1>11. c \in [Root .. last + n -> Addr]
  <2>1. c = [i \in DOMAIN c |-> c[i]]
    BY DEF c
  <2>2. \A i \in DOMAIN c : c[i] \in Addr
    BY <1>8, <1>9, <1>10
  <2>. QED
    BY <1>7, <2>1, <2>2
<1>12. /\ r \in Store /\ DOMAIN r.chain = Root .. r.lastChainIdx
       /\ r.highestUsed \in DOMAIN r.chain /\ r.highestUsed \in Int
       /\ r.watchingOnly = s.watchingOnly /\ r.highestUsed = s.highestUsed
       /\ r.chain = c /\ r.imported = s.imported /\ r.scripts = s.scripts
       /\ r.secret = s.secret /\ r.lastChainIdx = last + n /\ r.missingKeysStart = 0
  <2>1. /\ r.watchingOnly = s.watchingOnly /\ r.highestUsed = s.highestUsed
        /\ r.chain = c /\ r.imported = s.imported /\ r.scripts = s.scripts
        /\ r.secret = s.secret /\ r.lastChainIdx = last + n
        /\ r.missingKeysStart = s.missingKeysStart
    BY <1>6 DEF Fields
  <2>2. last + n \in Nat /\ s.highestUsed \in Root .. last + n
    BY <1>2, StoreTypes DEF Root
  <2>. QED
    BY <1>1, <1>6, <1>11, <2>1, <2>2, StoreTypes, FieldsStore
<1>13. Keys(r, pass, last + n + 1)
  <2>1. \A i \in DOMAIN c : Sealed(c[i], i, pass)
    BY <1>8, <1>9, <1>10
  <2>2. \A i \in DOMAIN c : ~(i >= last + n + 1)
    BY <1>2, <1>7 DEF Root
  <2>. QED
    BY <1>1, <1>12, <2>1, <2>2 DEF Keys
<1>14. Good(r, pass)
  <2>1. last + n \in Nat /\ Missing(r) = last + n + 1 /\ r.missingKeysStart \in 0 .. last + n
    BY <1>2, <1>12 DEF Missing
  <2>. QED
    BY <1>1, <1>12, <1>13, <2>1 DEF Good, IsLocked
<1>15. Grown(s, r)
  <2>1. DOMAIN s.chain \subseteq DOMAIN r.chain
    BY <1>9, <1>12
  <2>. QED
    BY <1>9, <1>12, <2>1 DEF Grown
<1>. QED
  BY <1>5, <1>12, <1>14, <1>15 DEF r

LEMMA ExtendGood ==
  ASSUME NEW s, NEW pass \in Passphrase, Good(s, pass), Supported
  PROVE  LET r == Extend(s)
         IN /\ r.err = "" /\ Good(r.s, pass) /\ Grown(s, r.s)
            /\ r.s.highestUsed = s.highestUsed /\ r.s.lastChainIdx > s.lastChainIdx
<1>1. s.lastChainIdx \in Nat /\ KeypoolSize \in Nat /\ KeypoolSize > 0
  BY StoreTypes, KeypoolAssumption DEF Supported
<1>2. CASE IsLocked(s)
  <2>1. Extend(s) = extendLockedWallet(s)
    BY <1>2 DEF Extend
  <2>. DEFINE r == extendLockedWallet(s)
  <2>2. /\ r.err = "" /\ Good(r.s, pass) /\ Grown(s, r.s)
        /\ r.s.highestUsed = s.highestUsed /\ r.s.lastChainIdx = s.lastChainIdx + 1
    BY <1>2, ExtendLockedGood
  <2>. HIDE DEF r
  <2>3. \A a \in Nat : \A b : b = a + 1 => b > a
    OBVIOUS
  <2>4. r.s.lastChainIdx > s.lastChainIdx
    BY <1>1, <2>2, <2>3
  <2>. QED
    BY <2>1, <2>2, <2>4 DEF r
<1>3. CASE ~IsLocked(s)
  <2>1. Extend(s) = extendKeypool(s, KeypoolSize)
    BY <1>3 DEF Extend
  <2>. DEFINE r == extendKeypool(s, KeypoolSize)
  <2>2. /\ r.err = "" /\ Good(r.s, pass) /\ Grown(s, r.s)
        /\ r.s.highestUsed = s.highestUsed /\ r.s.lastChainIdx = s.lastChainIdx + KeypoolSize
    BY <1>1, <1>3, ExtendKeypoolGood
  <2>. HIDE DEF r
  <2>3. \A a \in Nat : \A b : b = a + KeypoolSize => b > a
    BY <1>1
  <2>4. r.s.lastChainIdx > s.lastChainIdx
    BY <1>1, <2>2, <2>3
  <2>. QED
    BY <2>1, <2>2, <2>4 DEF r
<1>. QED
  BY <1>2, <1>3

(* nextChainedAddress finds the next index or makes it.                    *)
LEMMA NextChainedGood ==
  ASSUME NEW s, NEW pass \in Passphrase, Good(s, pass), Supported
  PROVE  LET r == nextChainedAddress(s)
         IN /\ r.err = "" /\ Good(r.s, pass) /\ Grown(s, r.s)
            /\ r.s.highestUsed = s.highestUsed + 1
<1>. DEFINE idx == s.highestUsed + 1
            e == IF idx \in DOMAIN s.chain THEN Ok(s) ELSE Extend(s)
            r == nextChainedAddress(s).s
<1>1. /\ e.err = "" /\ Good(e.s, pass) /\ Grown(s, e.s) /\ e.s.highestUsed = s.highestUsed
      /\ idx \in DOMAIN e.s.chain
  <2>1. CASE idx \in DOMAIN s.chain
    <3>1. e.err = "" /\ e.s = s
      BY <2>1 DEF Ok
    <3>. HIDE DEF e
    <3>. QED
      BY <2>1, <3>1, GrownSame
  <2>2. CASE idx \notin DOMAIN s.chain
    <3>1. e = Extend(s) /\ s.highestUsed = s.lastChainIdx
      BY <2>2, StoreTypes DEF Root
    <3>2. /\ e.err = "" /\ Good(e.s, pass) /\ Grown(s, e.s)
          /\ e.s.highestUsed = s.highestUsed /\ e.s.lastChainIdx > s.lastChainIdx
      BY <3>1, ExtendGood
    <3>3. e.s.lastChainIdx \in Nat /\ DOMAIN e.s.chain = Root .. e.s.lastChainIdx
      BY <3>2, StoreTypes
    <3>. QED
      <4>1. idx \in DOMAIN e.s.chain
        <5>. HIDE DEF e
        <5>1. s.highestUsed \in Int /\ s.highestUsed >= -1
          BY StoreTypes DEF Root
        <5>2. e.s.lastChainIdx > s.highestUsed
          BY <3>1, <3>2
        <5>3. idx \in Root .. e.s.lastChainIdx
          BY <3>3, <5>1, <5>2 DEF Root
        <5>. QED
          BY <3>3, <5>3
      <4>. QED
        BY <3>2, <4>1
  <2>. QED
    BY <2>1, <2>2
<1>2. nextChainedAddress(s).err = "" /\ r = [e.s EXCEPT !.highestUsed = idx]
  BY <1>1 DEF nextChainedAddress, Ok
<1>. HIDE DEF e, r
<1>3. e.s \in Store
  BY <1>1 DEF Good
<1>4. r = Fields(e.s.watchingOnly, idx, e.s.chain, e.s.imported, e.s.scripts, e.s.secret,
                 e.s.lastChainIdx, e.s.missingKeysStart)
  BY <1>2, <1>3 DEF Store, Fields
<1>5. /\ r.watchingOnly = e.s.watchingOnly /\ r.highestUsed = idx
      /\ r.chain = e.s.chain /\ r.imported = e.s.imported /\ r.scripts = e.s.scripts
      /\ r.secret = e.s.secret /\ r.lastChainIdx = e.s.lastChainIdx
      /\ r.missingKeysStart = e.s.missingKeysStart
  BY <1>4 DEF Fields
<1>6. /\ r \in Store /\ DOMAIN r.chain = Root .. r.lastChainIdx
      /\ r.highestUsed \in DOMAIN r.chain /\ r.highestUsed \in Int
  <2>. DEFINE t == e.s
  <2>. HIDE DEF t
  <2>1. Good(t, pass) /\ idx \in DOMAIN t.chain
    BY <1>1 DEF t
  <2>2. idx \in Root .. t.lastChainIdx
    BY <2>1, StoreTypes
  <2>3. r = Fields(r.watchingOnly, r.highestUsed, r.chain, r.imported, r.scripts, r.secret,
                   r.lastChainIdx, r.missingKeysStart)
    BY <1>4, <1>5
  <2>4. /\ r.watchingOnly = t.watchingOnly /\ r.highestUsed = idx
        /\ r.chain = t.chain /\ r.imported = t.imported /\ r.scripts = t.scripts
        /\ r.secret = t.secret /\ r.lastChainIdx = t.lastChainIdx
        /\ r.missingKeysStart = t.missingKeysStart
    BY <1>5 DEF t
  <2>. QED
    BY <2>1, <2>2, <2>3, <2>4, StoreTypes, FieldsStore
<1>7. Good(r, pass)
  <2>1. Good(e.s, pass)
    BY <1>1
  <2>2. Missing(r) = Missing(e.s)
    BY <1>5 DEF Missing
  <2>. QED
    BY <1>5, <1>6, <2>1, <2>2 DEF Good, IsLocked, NoneClear, NoKeys, Keys
<1>8. Grown(s, r)
  <2>1. s.highestUsed \in Int /\ s.highestUsed <= idx
    BY StoreTypes
  <2>2. Grown(s, e.s)
    BY <1>1
  <2>. HIDE DEF idx
  <2>. QED
    BY <1>5, <2>1, <2>2 DEF Grown
<1>. QED
  BY <1>2, <1>5, <1>7, <1>8 DEF r

(* MarkChange touches one flag of the last used address.                   *)
LEMMA MarkChangeGood ==
  ASSUME NEW s, NEW pass \in Passphrase, Good(s, pass)
  PROVE  LET r == MarkChange(s)
         IN /\ Good(r, pass) /\ r.highestUsed = s.highestUsed
            /\ DOMAIN r.chain = DOMAIN s.chain /\ r.imported = s.imported
            /\ r.scripts = s.scripts
            /\ \A i \in DOMAIN s.chain : i # s.highestUsed => r.chain[i] = s.chain[i]
<1>. DEFINE r == MarkChange(s)
            h == s.highestUsed
            c == [s.chain EXCEPT ![h].change = TRUE]
            a == [s.chain[h] EXCEPT !.change = TRUE]
<1>1. s \in Store
  BY DEF Good
<1>2. s.chain \in [Root .. s.lastChainIdx -> Addr] /\ h \in Root .. s.lastChainIdx
  BY StoreTypes
<1>3. s.chain[h] \in Addr
  BY <1>2
<1>4. /\ a \in Addr /\ a.privKey = s.chain[h].privKey /\ a.privKeyCT = s.chain[h].privKeyCT
      /\ a.createPrivKeyNextUnlock = s.chain[h].createPrivKeyNextUnlock
  BY <1>3 DEF Addr
<1>5. /\ c \in [Root .. s.lastChainIdx -> Addr] /\ DOMAIN c = DOMAIN s.chain /\ c[h] = a
      /\ \A i \in DOMAIN s.chain : i # h => c[i] = s.chain[i]
  BY <1>2, <1>4
<1>6. r = Fields(s.watchingOnly, h, c, s.imported, s.scripts, s.secret, s.lastChainIdx,
                 s.missingKeysStart)
  <2>1. r = [s EXCEPT !.chain = c]
    BY <1>1 DEF MarkChange, Store
  <2>. HIDE DEF r, c
  <2>. QED
    BY <1>1, <2>1 DEF Store, Fields
<1>. HIDE DEF r, c, a
<1>7. /\ r.watchingOnly = s.watchingOnly /\ r.highestUsed = h
      /\ r.chain = c /\ r.imported = s.imported /\ r.scripts = s.scripts
      /\ r.secret = s.secret /\ r.lastChainIdx = s.lastChainIdx
      /\ r.missingKeysStart = s.missingKeysStart
  BY <1>6 DEF Fields
<1>8. /\ r \in Store /\ DOMAIN r.chain = Root .. r.lastChainIdx
      /\ r.highestUsed \in DOMAIN r.chain /\ r.highestUsed \in Int
  BY <1>2, <1>5, <1>6, <1>7, StoreTypes, FieldsStore
<1>9. \A i \in DOMAIN s.chain :
        /\ Bare(s.chain[i]) => Bare(c[i])
        /\ Pending(s.chain[i]) => Pending(c[i])
        /\ s.chain[i].privKeyCT = None => c[i].privKeyCT = None
        /\ Sealed(s.chain[i], i, pass) => Sealed(c[i], i, pass)
  BY <1>4, <1>5 DEF Bare, Pending, Sealed
<1>10. Missing(r) = Missing(s)
  BY <1>7 DEF Missing
<1>11. Good(r, pass)
  <2>1. IsLocked(s) => NoneClear(r)
    BY <1>5, <1>7, <1>9 DEF Good, NoneClear
  <2>2. s.watchingOnly => NoKeys(r)
    BY <1>5, <1>7, <1>9 DEF Good, NoKeys
  <2>3. ~s.watchingOnly => Keys(r, pass, Missing(r))
    BY <1>5, <1>7, <1>9, <1>10 DEF Good, Keys
  <2>. QED
    BY <1>7, <1>8, <2>1, <2>2, <2>3 DEF Good, IsLocked
<1>. QED
  BY <1>5, <1>7, <1>11 DEF r

(* NextChainedAddress and ChangeAddress give the address after the last    *)
(* used one.                                                               *)
LEMMA NextAddressGood ==
  ASSUME NEW s, NEW pass \in Passphrase, NEW change \in BOOLEAN, Good(s, pass), Supported
  PROVE  LET r == nextAddress(s, change)
         IN /\ r.err = "" /\ Good(r.s, pass) /\ Grown(s, r.s)
            /\ r.s.highestUsed = s.highestUsed + 1
<1>. DEFINE t == nextChainedAddress(s)
            u == MarkChange(t.s)
<1>1. /\ t.err = "" /\ Good(t.s, pass) /\ Grown(s, t.s)
      /\ t.s.highestUsed = s.highestUsed + 1
  BY NextChainedGood
<1>2. nextAddress(s, change) = IF change THEN Ok(u) ELSE t
  BY <1>1 DEF nextAddress
<1>. HIDE DEF t
<1>3. /\ Good(u, pass) /\ u.highestUsed = t.s.highestUsed
      /\ DOMAIN u.chain = DOMAIN t.s.chain /\ u.imported = t.s.imported
      /\ u.scripts = t.s.scripts
      /\ \A i \in DOMAIN t.s.chain : i # t.s.highestUsed => u.chain[i] = t.s.chain[i]
  BY <1>1, MarkChangeGood
<1>. HIDE DEF u
<1>4. Grown(s, u)
  <2>1. s.highestUsed \in Int /\ DOMAIN s.chain \subseteq Int
    BY StoreTypes DEF Root
  <2>2. \A h \in Int : \A i \in Int : \A k : i <= h /\ k = h + 1 => i # k
    OBVIOUS
  <2>3. \A i \in DOMAIN s.chain : i <= s.highestUsed => i # t.s.highestUsed
    BY <1>1, <2>1, <2>2
  <2>. QED
    BY <1>1, <1>3, <2>1, <2>3 DEF Grown
<1>5. CASE change
  <2>1. nextAddress(s, change) = Ok(u)
    BY <1>2, <1>5
  <2>2. nextAddress(s, change).err = "" /\ nextAddress(s, change).s = u
    BY <2>1, OkIs
  <2>. QED
    BY <1>1, <1>3, <1>4, <2>2
<1>6. CASE ~change
  BY <1>1, <1>2, <1>6
<1>. QED
  BY <1>5, <1>6

(* The recursive function of ExtendActiveAddresses is the one its          *)
(* equations describe.                                                     *)
Step(p) == IF p.err # "" THEN p ELSE nextChainedAddress(p.s)
LEMMA AfterExists ==
  ASSUME NEW s, NEW n \in Nat
  PROVE  \E g : g = [k \in 0 .. n |-> IF k = 0 THEN Ok(s) ELSE Step(g[k - 1])]
<1>. DEFINE z == Ok(s)
            Sol(g, m) == g = [k \in 0 .. m |-> IF k = 0 THEN z ELSE Step(g[k - 1])]
            Bad == {m \in Nat : ~ \E g : Sol(g, m)}
<1>. HIDE DEF z
<1>1. SUFFICES n \notin Bad
  BY DEF z
<1>2. SUFFICES ASSUME Bad # {} PROVE FALSE
  OBVIOUS
<1>3. PICK m \in Bad : \A i \in Bad : m <= i
  <2>1. Bad \in SUBSET Nat
    OBVIOUS
  <2>. HIDE DEF Bad
  <2>. QED
    BY <1>2, <2>1, Least
<1>4. CASE m = 0
  <2>. DEFINE g == [k \in 0 .. 0 |-> z]
  <2>1. Sol(g, 0)
    OBVIOUS
  <2>. QED
    BY <1>3, <1>4, <2>1
<1>5. CASE m # 0
  <2>1. m \in Nat /\ m - 1 \in Nat /\ m - 1 \notin Bad
    <3>1. m \in Nat /\ m - 1 \in Nat /\ ~(m <= m - 1)
      BY <1>5
    <3>. QED
      BY <1>3, <3>1
  <2>2. PICK g : Sol(g, m - 1)
    BY <2>1
  <2>. DEFINE h == [k \in 0 .. m |-> IF k = m THEN Step(g[m - 1]) ELSE g[k]]
  <2>3. \A k \in 0 .. m - 1 : g[k] = IF k = 0 THEN z ELSE Step(g[k - 1])
    BY <2>2
  <2>4. \A k \in 0 .. m : h[k] = IF k = 0 THEN z ELSE Step(h[k - 1])
    <3>. TAKE k \in 0 .. m
    <3>1. CASE k = 0
      <4>1. 0 \in 0 .. m - 1
        BY <1>5, <2>1
      <4>. QED
        BY <1>5, <2>3, <3>1, <4>1
    <3>2. CASE k # 0
      <4>1. k - 1 \in 0 .. m - 1 /\ k - 1 \in 0 .. m /\ k - 1 # m
        BY <2>1, <3>2
      <4>2. h[k - 1] = g[k - 1]
        BY <4>1
      <4>3. h[k] = Step(g[k - 1])
        <5>1. CASE k = m
          BY <5>1
        <5>2. CASE k # m
          <6>1. k \in 0 .. m - 1
            BY <2>1, <5>2
          <6>. QED
            BY <2>3, <3>2, <5>2, <6>1
        <5>. QED
          BY <5>1, <5>2
      <4>. HIDE DEF h
      <4>. QED
        BY <3>2, <4>2, <4>3
    <3>. QED
      BY <3>1, <3>2
  <2>5. h = [k \in 0 .. m |-> h[k]]
    OBVIOUS
  <2>6. Sol(h, m)
    <3>. HIDE DEF h
    <3>. QED
      BY <2>4, <2>5
  <2>. QED
    BY <1>3, <2>6
<1>. QED
  BY <1>4, <1>5

(* ExtendActiveAddresses: each of its n steps is a nextChainedAddress.     *)
LEMMA ExtendActiveGood ==
  ASSUME NEW s, NEW pass \in Passphrase, NEW n \in Nat, Good(s, pass), Supported
  PROVE  LET r == ExtendActiveAddresses(s, n)
         IN r.err = "" /\ Good(r.s, pass) /\ Grown(s, r.s)
<1>. DEFINE after[k \in 0 .. n] == IF k = 0 THEN Ok(s) ELSE Step(after[k - 1])
<1>1. ExtendActiveAddresses(s, n) = after[n]
  BY DEF ExtendActiveAddresses, Step
<1>2. after = [k \in 0 .. n |-> IF k = 0 THEN Ok(s) ELSE Step(after[k - 1])]
  BY AfterExists
<1>. HIDE DEF after
<1>3. \A k \in 0 .. n : after[k] = IF k = 0 THEN Ok(s) ELSE Step(after[k - 1])
  BY <1>2
<1>. DEFINE Fine(k) == after[k].err = "" /\ Good(after[k].s, pass) /\ Grown(s, after[k].s)
            Bad == {k \in 0 .. n : ~Fine(k)}
<1>. HIDE DEF Fine
<1>4. SUFFICES ASSUME Bad # {} PROVE FALSE
  <2>1. SUFFICES Fine(n)
    BY <1>1 DEF Fine
  <2>2. n \in 0 .. n
    OBVIOUS
  <2>. QED
    BY <2>2
<1>5. PICK m \in Bad : \A i \in Bad : m <= i
  <2>1. Bad \in SUBSET Nat
    OBVIOUS
  <2>. HIDE DEF Bad
  <2>. QED
    BY <1>4, <2>1, Least
<1>6. CASE m = 0
  <2>1. after[m] = Ok(s)
    BY <1>3, <1>6
  <2>2. Fine(m)
    BY <2>1, OkIs, GrownSame DEF Fine
  <2>. QED
    BY <2>2
<1>7. CASE m # 0
  <2>. DEFINE t == after[m - 1].s
              u == nextChainedAddress(t)
  <2>1. m - 1 \in 0 .. n /\ ~(m <= m - 1)
    BY <1>7
  <2>2. Fine(m - 1)
    BY <1>5, <2>1
  <2>3. after[m] = u
    BY <1>3, <1>7, <2>2 DEF Step, Fine
  <2>4. Good(t, pass) /\ Grown(s, t)
    BY <2>2 DEF Fine
  <2>. HIDE DEF t
  <2>5. u.err = "" /\ Good(u.s, pass) /\ Grown(t, u.s)
    BY <2>4, NextChainedGood
  <2>. HIDE DEF u
  <2>6. DOMAIN s.chain \subseteq Int /\ s.highestUsed \in Int
    BY StoreTypes DEF Root
  <2>7. t.highestUsed \in Int /\ u.s.highestUsed \in Int
    BY <2>4, <2>5, StoreTypes
  <2>8. Grown(s, u.s)
    BY <2>4, <2>5, <2>6, <2>7, GrownTrans
  <2>9. Fine(m)
    BY <2>3, <2>5, <2>8 DEF Fine
  <2>. QED
    BY <2>9
<1>. QED
  BY <1>6, <1>7
-----------------------------------------------------------------------------
(* A store between the two halves of Unlock: the secret is there, the      *)
(* missing keys are not made yet.                                          *)
Opening(s, pass) ==
  /\ s \in Store /\ ~s.watchingOnly /\ s.secret = pass
  /\ s.lastChainIdx \in Nat /\ s.chain \in [Root .. s.lastChainIdx -> Addr]
  /\ DOMAIN s.imported \in SUBSET Import /\ s.imported \in [DOMAIN s.imported -> Addr]
  /\ s.highestUsed \in Root .. s.lastChainIdx
  /\ s.missingKeysStart \in 0 .. s.lastChainIdx
  /\ Keys(s, pass, Missing(s))

(* createMissingPrivateKeys gives every address its own key.               *)
LEMMA CreateMissingGood ==
  ASSUME NEW s, NEW pass \in Passphrase, Opening(s, pass)
  PROVE  LET r == createMissingPrivateKeys(s)
         IN /\ r.err = "" /\ Good(r.s, pass) /\ Grown(s, r.s)
            /\ r.s.secret = pass /\ r.s.watchingOnly = s.watchingOnly
<1>. DEFINE idx == s.missingKeysStart
            last == s.lastChainIdx
<1>1. /\ s \in Store /\ s.secret = pass /\ last \in Nat /\ idx \in 0 .. last
      /\ s.chain \in [Root .. last -> Addr] /\ DOMAIN s.chain = Root .. last
      /\ s.highestUsed \in Root .. last /\ s.highestUsed \in Int
      /\ Keys(s, pass, Missing(s)) /\ pass # None /\ ~s.watchingOnly
      /\ DOMAIN s.imported \in SUBSET Import /\ s.imported \in [DOMAIN s.imported -> Addr]
  BY NamesAssumption DEF Opening, Root
<1>2. s.scripts \in SUBSET Script
  BY <1>1 DEF Store
<1>3. CASE idx = 0
  <2>1. createMissingPrivateKeys(s) = Ok(s)
    BY <1>3 DEF createMissingPrivateKeys
  <2>2. Good(s, pass)
    BY <1>1, <1>3 DEF Good, IsLocked
  <2>. QED
    BY <1>1, <2>1, <2>2, GrownSame, OkIs
<1>4. CASE idx # 0
  <2>. DEFINE prev == s.chain[idx - 1]
              todo == {i \in DOMAIN s.chain : i >= idx}
              dup == {i \in todo : Keyed(s.chain[i]) /\ s.vers = "current"}
              done == {i \in todo : \A j \in dup : i < j}
              key(i) == Decrypt(prev.privKey, s.secret) + (i - idx + 1)
              Made(i) == [s.chain[i] EXCEPT
                            !.privKeyCT = key(i),
                            !.privKey = IF Keyed(s.chain[i]) THEN @
                                                             ELSE Cipher(key(i), s.secret),
                            !.createPrivKeyNextUnlock = FALSE]
              c == [i \in DOMAIN s.chain |->
                      IF i \in done THEN Made(i)
                      ELSE IF dup # {} /\ i = Min(dup)
                           THEN [s.chain[i] EXCEPT !.privKeyCT = key(i)]
                      ELSE IF i = idx - 1 THEN Unlocked(prev, s.secret)
                      ELSE s.chain[i]]
              r == createMissingPrivateKeys(s).s
  <2>1. /\ Missing(s) = idx /\ idx \in Nat /\ idx - 1 \in Root .. last /\ idx - 1 \in Key
        /\ idx - 1 < idx
    BY <1>1, <1>4 DEF Missing, Root, Key
  <2>2. prev \in Addr /\ Sealed(prev, idx - 1, pass)
    BY <1>1, <2>1 DEF Keys
  <2>3. Unlocks(prev, idx - 1, s.secret) /\ Decrypt(prev.privKey, s.secret) = idx - 1
    BY <1>1, <2>1, <2>2, SealedAddr
  <2>4. \A i \in DOMAIN s.chain : i >= idx => Pending(s.chain[i]) /\ ~Keyed(s.chain[i])
    BY <1>1, <2>1 DEF Keys, Pending, Bare, Keyed
  <2>5. dup = {} /\ done = todo
    BY <2>4
  <2>6. /\ createMissingPrivateKeys(s).err = ""
        /\ r = [[s EXCEPT !.chain = c] EXCEPT !.missingKeysStart = 0]
    <3>. DEFINE made == [s EXCEPT !.chain = c]
    <3>1. createMissingPrivateKeys(s) = Ok([made EXCEPT !.missingKeysStart = 0])
      BY <1>1, <1>4, <2>1, <2>3, <2>5 DEF createMissingPrivateKeys
    <3>. HIDE DEF made, r
    <3>. QED
      BY <3>1, OkIs DEF r, made
  <2>7. r = Fields(s.watchingOnly, s.highestUsed, c, s.imported, s.scripts, s.secret, last, 0)
    <3>. HIDE DEF c, r
    <3>. QED
      BY <1>1, <2>6 DEF Store, Fields
  <2>8. ASSUME NEW i \in DOMAIN s.chain
        PROVE  c[i] \in Addr /\ Sealed(c[i], i, pass) /\ c[i].change = s.chain[i].change
    <3>1. s.chain[i] \in Addr /\ i \in Int /\ i \in Key
      BY <1>1 DEF Root, Key
    <3>2. CASE i >= idx
      <4>1. i \in done /\ ~Keyed(s.chain[i]) /\ key(i) = i
        BY <2>1, <2>3, <2>4, <2>5, <3>1, <3>2
      <4>2. c[i] = Made(i)
        BY <4>1
      <4>3. c[i] = MadeAddr(s.chain[i], i, pass)
        BY <1>1, <4>1, <4>2 DEF MadeAddr
      <4>. HIDE DEF c, Made, key, done, prev
      <4>. QED
        BY <3>1, <4>3, SealedMade
    <3>3. CASE ~(i >= idx)
      <4>1. Sealed(s.chain[i], i, pass)
        BY <1>1, <2>1, <3>1, <3>3 DEF Keys
      <4>2. c[i] = IF i = idx - 1 THEN Unlocked(s.chain[i], pass) ELSE s.chain[i]
        BY <1>1, <2>5, <3>3
      <4>. HIDE DEF c
      <4>. QED
        BY <3>1, <4>1, <4>2, SealedUnlocked
    <3>. QED
      BY <3>2, <3>3
  <2>9. c = [i \in DOMAIN s.chain |-> c[i]] /\ DOMAIN c = DOMAIN s.chain
    OBVIOUS
  <2>. HIDE DEF c, r
  <2>10. c \in [Root .. last -> Addr]
    BY <1>1, <2>8, <2>9
  <2>11. /\ r.watchingOnly = s.watchingOnly /\ r.highestUsed = s.highestUsed
         /\ r.chain = c /\ r.imported = s.imported /\ r.scripts = s.scripts
         /\ r.secret = pass /\ r.lastChainIdx = last /\ r.missingKeysStart = 0
    BY <1>1, <2>7 DEF Fields
  <2>12. /\ r \in Store /\ DOMAIN r.chain = Root .. r.lastChainIdx
         /\ r.highestUsed \in DOMAIN r.chain /\ r.highestUsed \in Int
    <3>1. s.watchingOnly \in BOOLEAN
      BY <1>1 DEF Store
    <3>. QED
      BY <1>1, <1>2, <2>7, <2>10, <2>11, <3>1, FieldsStore
  <2>13. Keys(r, pass, last + 1) /\ Missing(r) = last + 1
    <3>1. \A i \in DOMAIN c : ~(i >= last + 1)
      BY <1>1, <2>9 DEF Root
    <3>. QED
      BY <1>1, <2>8, <2>9, <2>11, <3>1 DEF Keys, Missing
  <2>14. Good(r, pass)
    BY <1>1, <2>11, <2>12, <2>13 DEF Good, IsLocked
  <2>15. Grown(s, r)
    BY <1>1, <2>8, <2>9, <2>11 DEF Grown
  <2>. QED
    BY <2>6, <2>11, <2>14, <2>15 DEF r
<1>. QED
  BY <1>3, <1>4

(* Unlock with the passphrase of the keys opens the store.                 *)
LEMMA UnlockGood ==
  ASSUME NEW s, NEW pass \in Passphrase, Good(s, pass), ~s.watchingOnly
  PROVE  LET r == Unlock(s, pass)
         IN /\ r.err = "" /\ Good(r.s, pass) /\ Grown(s, r.s)
            /\ r.s.secret = pass /\ ~r.s.watchingOnly
<1>. DEFINE a == Unlocked(s.chain[Root], pass)
            c == [s.chain EXCEPT ![Root] = a]
            t == [s EXCEPT !.chain[Root] = Unlocked(@, pass), !.secret = pass]
            last == s.lastChainIdx
<1>1. /\ s \in Store /\ last \in Nat /\ s.chain \in [Root .. last -> Addr]
      /\ Keys(s, pass, Missing(s)) /\ s.missingKeysStart \in 0 .. last
      /\ DOMAIN s.chain = Root .. last
  BY StoreTypes DEF Good
<1>2. /\ Missing(s) \in Nat /\ Missing(s) > 0 /\ Root \in Root .. last /\ Root \in Key
      /\ Root < Missing(s)
  BY <1>1 DEF Missing, Root, Key
<1>3. s.chain[Root] \in Addr /\ Sealed(s.chain[Root], Root, pass)
  BY <1>1, <1>2 DEF Keys
<1>4. Unlocks(s.chain[Root], Root, pass)
  BY <1>2, <1>3, SealedAddr
<1>5. Unlock(s, pass) = createMissingPrivateKeys(t)
  BY <1>4 DEF Unlock
<1>6. a \in Addr /\ Sealed(a, Root, pass) /\ a.change = s.chain[Root].change
  BY <1>2, <1>3, SealedUnlocked
<1>7. /\ c \in [Root .. last -> Addr] /\ DOMAIN c = DOMAIN s.chain /\ c[Root] = a
      /\ \A i \in DOMAIN s.chain : i # Root => c[i] = s.chain[i]
  BY <1>1, <1>2, <1>6
<1>8. t = Fields(s.watchingOnly, s.highestUsed, c, s.imported, s.scripts, pass, last,
                 s.missingKeysStart)
  <2>1. t = [s EXCEPT !.chain = c, !.secret = pass]
    BY <1>1 DEF Store
  <2>. HIDE DEF t, c
  <2>. QED
    BY <1>1, <2>1 DEF Store, Fields
<1>. HIDE DEF a, c, t
<1>9. /\ t.watchingOnly = s.watchingOnly /\ t.highestUsed = s.highestUsed
      /\ t.chain = c /\ t.imported = s.imported /\ t.scripts = s.scripts
      /\ t.secret = pass /\ t.lastChainIdx = last
      /\ t.missingKeysStart = s.missingKeysStart
  BY <1>8 DEF Fields
<1>10. Keys(t, pass, Missing(t))
  <2>1. Missing(t) = Missing(s)
    BY <1>9 DEF Missing
  <2>2. \A i \in DOMAIN c : i < Missing(t) => Sealed(c[i], i, pass)
    BY <1>1, <1>6, <1>7, <2>1 DEF Keys
  <2>3. \A i \in DOMAIN c : i >= Missing(t) => Pending(c[i])
    <3>1. ~(Root >= Missing(t))
      BY <1>2, <2>1 DEF Root
    <3>. QED
      BY <1>1, <1>7, <2>1, <3>1 DEF Keys
  <2>. QED
    BY <1>1, <1>9, <2>2, <2>3 DEF Keys
<1>11. t \in Store
  BY <1>7, <1>8, <1>9, StoreTypes, FieldsStore
<1>12. Opening(t, pass)
  BY <1>1, <1>7, <1>9, <1>10, <1>11, StoreTypes DEF Opening
<1>13. Grown(s, t)
  <2>1. \A i \in DOMAIN s.chain : t.chain[i].change = s.chain[i].change
    BY <1>6, <1>7, <1>9
  <2>2. s.highestUsed \in Int
    BY StoreTypes
  <2>3. s.highestUsed <= t.highestUsed
    BY <1>9, <2>2
  <2>4. /\ DOMAIN s.chain \subseteq DOMAIN t.chain /\ s.scripts \subseteq t.scripts
        /\ DOMAIN s.imported \subseteq DOMAIN t.imported
    BY <1>7, <1>9
  <2>. QED
    BY <2>1, <2>3, <2>4 DEF Grown
<1>. DEFINE r == createMissingPrivateKeys(t)
<1>14. /\ r.err = "" /\ Good(r.s, pass) /\ Grown(t, r.s)
       /\ r.s.secret = pass /\ r.s.watchingOnly = t.watchingOnly
  BY <1>12, CreateMissingGood
<1>. HIDE DEF r
<1>15. Grown(s, r.s)
  <2>1. DOMAIN s.chain \subseteq Int /\ s.highestUsed \in Int
    BY StoreTypes DEF Root
  <2>2. t.highestUsed \in Int /\ r.s.highestUsed \in Int
    BY <1>9, <1>14, <2>1, StoreTypes
  <2>. QED
    BY <1>13, <1>14, <2>1, <2>2, GrownTrans
<1>. QED
  BY <1>5, <1>9, <1>14, <1>15 DEF r

(* Unlock with another passphrase, or of a watching store, does nothing.   *)
LEMMA UnlockWrong ==
  ASSUME NEW s, NEW pass \in Passphrase, NEW p \in Passphrase, Good(s, pass),
         s.watchingOnly \/ p # pass
  PROVE  Unlock(s, p).err # "" /\ Unlock(s, p).s = s
<1>1. CASE s.watchingOnly
  BY <1>1 DEF Unlock, Err
<1>2. CASE ~s.watchingOnly
  <2>1. Root \in DOMAIN s.chain /\ s.chain[Root] \in Addr /\ Root < Missing(s) /\ Root \in Key
    BY <1>2, StoreTypes DEF Good, Missing, Root, Key
  <2>2. Sealed(s.chain[Root], Root, pass)
    BY <1>2, <2>1 DEF Good, Keys
  <2>3. ~Unlocks(s.chain[Root], Root, p)
    BY <1>2, <2>1, <2>2, SealedAddr
  <2>. QED
    BY <1>2, <2>3 DEF Unlock, Err
<1>. QED
  BY <1>1, <1>2

(* In an open store every address has its own key.                         *)
LEMMA OpenKeyed ==
  ASSUME NEW s, NEW pass \in Passphrase, Good(s, pass), ~s.watchingOnly, s.secret = pass
  PROVE  AllKeyed(s, pass)
<1>1. pass # None /\ s.lastChainIdx \in Nat /\ DOMAIN s.chain = Root .. s.lastChainIdx
  BY NamesAssumption, StoreTypes
<1>2. Keys(s, pass, s.lastChainIdx + 1)
  BY <1>1 DEF Good, IsLocked, Missing
<1>3. \A i \in DOMAIN s.chain : i < s.lastChainIdx + 1
  BY <1>1 DEF Root
<1>. QED
  BY <1>2, <1>3 DEF AllKeyed, Keys, Sealed

LEMMA ImportErrors ==
  ASSUME NEW s
  PROVE  /\ \A k : ImportPrivateKey(s, k).err = ""
                  => ~s.watchingOnly /\ k \notin DOMAIN s.imported /\ ~IsLocked(s)
         /\ \A x : ImportScript(s, x).err = "" => ~s.watchingOnly /\ x \notin s.scripts
BY DEF ImportPrivateKey, ImportScript, Err

(* ImportPrivateKey adds a key to an open store.                           *)
LEMMA ImportKeyGood ==
  ASSUME NEW s, NEW pass \in Passphrase, NEW k \in Import, Good(s, pass),
         ~s.watchingOnly, k \notin DOMAIN s.imported, ~IsLocked(s)
  PROVE  LET r == ImportPrivateKey(s, k).s
         IN /\ Good(r, pass) /\ Grown(s, r)
            /\ k \notin DOMAIN s.imported /\ k \in DOMAIN r.imported
<1>. DEFINE r == ImportPrivateKey(s, k).s
            im == [j \in DOMAIN s.imported \cup {k} |->
                     IF j = k THEN newBtcAddress(k, s.secret) ELSE s.imported[j]]
<1>1. ~s.watchingOnly /\ k \notin DOMAIN s.imported /\ ~IsLocked(s)
  OBVIOUS
<1>2. ImportPrivateKey(s, k) = Ok([s EXCEPT !.imported = im])
  BY <1>1 DEF ImportPrivateKey
<1>3. r = [s EXCEPT !.imported = im]
  BY <1>2, OkIs
<1>4. s \in Store /\ s.secret = pass /\ Keys(s, pass, Missing(s)) /\ k \in Key
      /\ s.missingKeysStart \in 0 .. s.lastChainIdx /\ s.missingKeysStart = 0
  BY <1>1 DEF Good, IsLocked, Key
<1>5. DOMAIN im = DOMAIN s.imported \cup {k} /\ DOMAIN im \in SUBSET Import
  BY StoreTypes
<1>6. \A j \in DOMAIN im : im[j] \in Addr /\ Sealed(im[j], j, pass)
  <2>. TAKE j \in DOMAIN im
  <2>1. CASE j = k
    BY <1>4, <2>1, SealedNew
  <2>2. CASE j # k
    BY <1>4, <2>2, StoreTypes DEF Keys
  <2>. QED
    BY <2>1, <2>2
<1>7. im = [j \in DOMAIN im |-> im[j]]
  OBVIOUS
<1>. HIDE DEF r, im
<1>8. r = Fields(s.watchingOnly, s.highestUsed, s.chain, im, s.scripts, s.secret,
                 s.lastChainIdx, s.missingKeysStart)
  BY <1>3, <1>4 DEF Store, Fields
<1>9. /\ r.watchingOnly = s.watchingOnly /\ r.highestUsed = s.highestUsed
      /\ r.chain = s.chain /\ r.imported = im /\ r.scripts = s.scripts
      /\ r.secret = s.secret /\ r.lastChainIdx = s.lastChainIdx
      /\ r.missingKeysStart = s.missingKeysStart
  BY <1>8 DEF Fields
<1>10. im \in [DOMAIN im -> Addr]
  BY <1>6, <1>7
<1>11. /\ r \in Store /\ DOMAIN r.chain = Root .. r.lastChainIdx
       /\ r.highestUsed \in DOMAIN r.chain /\ r.highestUsed \in Int
  <2>1. /\ r.watchingOnly \in BOOLEAN /\ r.lastChainIdx \in Nat
        /\ r.highestUsed \in Root .. r.lastChainIdx
        /\ r.chain \in [Root .. r.lastChainIdx -> Addr]
        /\ DOMAIN r.imported \in SUBSET Import /\ r.imported \in [DOMAIN r.imported -> Addr]
        /\ r.scripts \in SUBSET Script /\ r.secret \in Passphrase \cup {None}
        /\ r.missingKeysStart \in Int
    BY <1>5, <1>9, <1>10, StoreTypes
  <2>2. r.chain \in Chains /\ r.imported \in Imports
    BY <2>1, ChainTypes
  <2>3. r.highestUsed \in Int /\ DOMAIN r.chain = Root .. r.lastChainIdx
    BY <2>1 DEF Root
  <2>4. r \in Store
    BY <1>8, <1>9, <2>1, <2>2, <2>3 DEF Fields, Store
  <2>. QED
    BY <2>1, <2>3, <2>4
<1>12. Keys(r, pass, Missing(r))
  <2>1. Missing(r) = Missing(s)
    BY <1>9 DEF Missing
  <2>. QED
    BY <1>4, <1>6, <1>9, <2>1 DEF Keys
<1>13. Good(r, pass)
  BY <1>1, <1>4, <1>9, <1>11, <1>12, StoreTypes DEF Good, IsLocked
<1>14. Grown(s, r)
  BY <1>5, <1>9, <1>11, GrownFrom
<1>. QED
  BY <1>1, <1>5, <1>9, <1>13, <1>14 DEF r

(* ImportScript adds a script.                                             *)
LEMMA ImportScriptGood ==
  ASSUME NEW s, NEW pass \in Passphrase, NEW x \in Script, Good(s, pass),
         ~s.watchingOnly, x \notin s.scripts
  PROVE  LET r == ImportScript(s, x).s
         IN Good(r, pass) /\ Grown(s, r) /\ x \notin s.scripts /\ x \in r.scripts
<1>. DEFINE r == ImportScript(s, x).s
            xs == s.scripts \cup {x}
<1>1. ~s.watchingOnly /\ x \notin s.scripts
  OBVIOUS
<1>2. ImportScript(s, x) = Ok([s EXCEPT !.scripts = xs])
  BY <1>1 DEF ImportScript
<1>3. r = [s EXCEPT !.scripts = xs]
  BY <1>2, OkIs
<1>4. s \in Store /\ xs \in SUBSET Script
  BY StoreTypes DEF Good
<1>. HIDE DEF r
<1>5. r = Fields(s.watchingOnly, s.highestUsed, s.chain, s.imported, xs, s.secret,
                 s.lastChainIdx, s.missingKeysStart)
  <2>. HIDE DEF xs
  <2>. QED
    BY <1>3, <1>4 DEF Store, Fields
<1>6. /\ r.watchingOnly = s.watchingOnly /\ r.highestUsed = s.highestUsed
      /\ r.chain = s.chain /\ r.imported = s.imported /\ r.scripts = xs
      /\ r.secret = s.secret /\ r.lastChainIdx = s.lastChainIdx
      /\ r.missingKeysStart = s.missingKeysStart
  BY <1>5 DEF Fields
<1>7. /\ r \in Store /\ DOMAIN r.chain = Root .. r.lastChainIdx
      /\ r.highestUsed \in DOMAIN r.chain /\ r.highestUsed \in Int
  <2>. HIDE DEF xs
  <2>1. /\ r.watchingOnly \in BOOLEAN /\ r.lastChainIdx \in Nat
        /\ r.highestUsed \in Root .. r.lastChainIdx
        /\ r.chain \in [Root .. r.lastChainIdx -> Addr]
        /\ DOMAIN r.imported \in SUBSET Import /\ r.imported \in [DOMAIN r.imported -> Addr]
        /\ r.scripts \in SUBSET Script /\ r.secret \in Passphrase \cup {None}
        /\ r.missingKeysStart \in Int
    BY <1>4, <1>6, StoreTypes
  <2>2. r.chain \in Chains /\ r.imported \in Imports
    BY <2>1, ChainTypes
  <2>3. r.highestUsed \in Int /\ DOMAIN r.chain = Root .. r.lastChainIdx
    BY <2>1 DEF Root
  <2>4. r \in Store
    BY <1>5, <1>6, <2>1, <2>2, <2>3 DEF Fields, Store
  <2>. QED
    BY <2>1, <2>3, <2>4
<1>8. Good(r, pass)
  <2>1. Missing(r) = Missing(s)
    BY <1>6 DEF Missing
  <2>. QED
    BY <1>6, <1>7, <2>1 DEF Good, IsLocked, NoneClear, NoKeys, Keys
<1>9. Grown(s, r)
  BY <1>6, <1>7, GrownFrom
<1>. QED
  BY <1>1, <1>6, <1>8, <1>9 DEF r

(* ChangePassphrase of an open store meets no address it cannot            *)
(* re-encrypt, whatever the order.                                         *)
LEMMA ChangePassphraseGood ==
  ASSUME NEW s, NEW pass \in Passphrase, NEW new \in Passphrase, Good(s, pass),
         ~s.watchingOnly, s.secret = pass
  PROVE  \E t : /\ ChangePassphrase(s, new) = {Ok(t)}
                /\ Good(t, new) /\ Grown(s, t)
<1>. DEFINE c == [i \in DOMAIN s.chain |-> Reencrypted(s.chain[i], pass, new)]
            im == [k \in DOMAIN s.imported |-> Reencrypted(s.imported[k], pass, new)]
            d == [s EXCEPT !.chain = c, !.imported = im]
            t == [d EXCEPT !.secret = new]
            last == s.lastChainIdx
<1>1. /\ s \in Store /\ pass # None /\ last \in Nat /\ DOMAIN s.chain = Root .. last
      /\ s.missingKeysStart = 0
  BY NamesAssumption, StoreTypes DEF Good, IsLocked
<1>2. Keys(s, pass, last + 1)
  BY <1>1 DEF Good, Missing
<1>3. ASSUME NEW i \in DOMAIN s.chain
      PROVE  i \in Key /\ s.chain[i] \in Addr /\ Sealed(s.chain[i], i, pass)
  <2>1. i \in Int /\ i < last + 1
    BY <1>1 DEF Root
  <2>. QED
    BY <1>2, <2>1, StoreTypes DEF Keys, Key
<1>4. ASSUME NEW k \in DOMAIN s.imported
      PROVE  k \in Key /\ s.imported[k] \in Addr /\ Sealed(s.imported[k], k, pass)
  BY <1>2, StoreTypes DEF Keys, Key
<1>5. {i \in DOMAIN s.chain : Unlocks(s.chain[i], i, s.secret)} = DOMAIN s.chain
  BY <1>3, SealedAddr
<1>6. {k \in DOMAIN s.imported : Unlocks(s.imported[k], k, s.secret)} = DOMAIN s.imported
  BY <1>4, SealedAddr
<1>7. ChangePassphrase(s, new) = {Ok(t)}
  <2>1. /\ [i \in DOMAIN s.chain |->
              IF i \in DOMAIN s.chain THEN Reencrypted(s.chain[i], s.secret, new)
                                      ELSE s.chain[i]] = c
        /\ [k \in DOMAIN s.imported |->
              IF k \in DOMAIN s.imported THEN Reencrypted(s.imported[k], s.secret, new)
                                         ELSE s.imported[k]] = im
    OBVIOUS
  <2>. DEFINE chained == {i \in DOMAIN s.chain : Unlocks(s.chain[i], i, s.secret)}
              imports == {k \in DOMAIN s.imported : Unlocks(s.imported[k], k, s.secret)}
              Done(C, I) ==
                [s EXCEPT !.chain = [i \in DOMAIN s.chain |->
                            IF i \in C THEN Reencrypted(s.chain[i], s.secret, new)
                                       ELSE s.chain[i]],
                          !.imported = [k \in DOMAIN s.imported |->
                            IF k \in I THEN Reencrypted(s.imported[k], s.secret, new)
                                       ELSE s.imported[k]]]
  <2>2. ChangePassphrase(s, new) = {Ok([Done(chained, imports) EXCEPT !.secret = new])}
    BY <1>1, <1>5, <1>6 DEF ChangePassphrase, IsLocked
  <2>3. Done(chained, imports) = d
    BY <1>5, <1>6, <2>1
  <2>. HIDE DEF Done, chained, imports, d
  <2>. QED
    BY <2>2, <2>3
<1>8. \A i \in DOMAIN s.chain :
        c[i] \in Addr /\ Sealed(c[i], i, new) /\ c[i].change = s.chain[i].change
  BY <1>3, SealedReencrypted
<1>9. \A k \in DOMAIN s.imported : im[k] \in Addr /\ Sealed(im[k], k, new)
  BY <1>4, SealedReencrypted
<1>10. /\ DOMAIN c = DOMAIN s.chain /\ c = [i \in DOMAIN c |-> c[i]]
       /\ DOMAIN im = DOMAIN s.imported /\ im = [k \in DOMAIN im |-> im[k]]
  OBVIOUS
<1>11. t = Fields(s.watchingOnly, s.highestUsed, c, im, s.scripts, new, last,
                  s.missingKeysStart)
  <2>. HIDE DEF c, im
  <2>. QED
    BY <1>1, ReplacedKeys, Zenon
<1>. HIDE DEF c, im, t, d
<1>12. /\ t.watchingOnly = s.watchingOnly /\ t.highestUsed = s.highestUsed
       /\ t.chain = c /\ t.imported = im /\ t.scripts = s.scripts
       /\ t.secret = new /\ t.lastChainIdx = last /\ t.missingKeysStart = s.missingKeysStart
  BY <1>11 DEF Fields
<1>13. c \in [Root .. last -> Addr] /\ im \in [DOMAIN im -> Addr]
  BY <1>1, <1>8, <1>9, <1>10
<1>14. /\ t \in Store /\ DOMAIN t.chain = Root .. t.lastChainIdx
       /\ t.highestUsed \in DOMAIN t.chain /\ t.highestUsed \in Int
  BY <1>10, <1>11, <1>12, <1>13, StoreTypes, FieldsStore
<1>15. Keys(t, new, last + 1) /\ Missing(t) = last + 1
  <2>1. \A i \in DOMAIN c : ~(i >= last + 1)
    BY <1>1, <1>10 DEF Root
  <2>. QED
    BY <1>1, <1>8, <1>9, <1>10, <1>12, <2>1 DEF Keys, Missing
<1>16. Good(t, new)
  <2>1. new # None
    BY NamesAssumption
  <2>. QED
    BY <1>1, <1>12, <1>14, <1>15, <2>1 DEF Good, IsLocked
<1>17. Grown(s, t)
  BY <1>8, <1>10, <1>12, <1>14 DEF Grown
<1>. QED
  BY <1>7, <1>16, <1>17

(* NewStore, before it locks itself and after.                             *)
LEMMA NewStoreGood ==
  ASSUME NEW pass \in Passphrase, Supported
  PROVE  Good(NewStore(pass), pass)
<1>. DEFINE last == KeypoolSize - 1
            c == [i \in Root .. last |-> newBtcAddress(i, pass)]
            im == [k \in {} |-> None]
            s == [vers |-> "current", watchingOnly |-> FALSE, highestUsed |-> Root, chain |-> c,
                  imported |-> im, scripts |-> {}, secret |-> pass, lastChainIdx |-> last,
                  missingKeysStart |-> 0]
<1>1. last \in Nat /\ Root \in Root .. last /\ Root \in Int
  BY KeypoolAssumption DEF Supported, Root
<1>2. \A i \in Root .. last : i \in Key /\ c[i] \in Addr /\ Sealed(c[i], i, pass)
  <2>. TAKE i \in Root .. last
  <2>1. i \in Key
    BY <1>1 DEF Root, Key
  <2>. QED
    BY <2>1, SealedNew
<1>3. c \in [Root .. last -> Addr] /\ im \in [{} -> Addr] /\ DOMAIN im = {} /\ DOMAIN c = Root .. last
  <2>1. DOMAIN c = Root .. last /\ c = [i \in Root .. last |-> c[i]]
    OBVIOUS
  <2>2. im \in [{} -> Addr] /\ DOMAIN im = {}
    OBVIOUS
  <2>. HIDE DEF c
  <2>. QED
    BY <1>2, <2>1, <2>2
<1>4. c \in Chains /\ im \in Imports
  <2>1. {} \in SUBSET Import
    OBVIOUS
  <2>. HIDE DEF c, im
  <2>. QED
    BY <1>1, <1>3, <2>1, ChainTypes
<1>. HIDE DEF c, im
<1>5. s \in Store
  BY <1>1, <1>4 DEF Store
<1>6. /\ s.watchingOnly = FALSE /\ s.highestUsed = Root /\ s.chain = c /\ s.imported = im
      /\ s.secret = pass /\ s.lastChainIdx = last /\ s.missingKeysStart = 0
  OBVIOUS
<1>7. NewStore(pass) = Lock(s)
  BY DEF NewStore, c, im
<1>. HIDE DEF s
<1>8. Keys(s, pass, Missing(s))
  <2>1. Missing(s) = last + 1
    BY <1>6 DEF Missing
  <2>2. \A i \in DOMAIN c : ~(i >= last + 1)
    BY <1>1, <1>3 DEF Root
  <2>. QED
    BY <1>2, <1>3, <1>6, <2>1, <2>2 DEF Keys
<1>9. Good(s, pass)
  <2>1. pass # None
    BY NamesAssumption
  <2>2. s.missingKeysStart \in 0 .. s.lastChainIdx
    BY <1>1, <1>6
  <2>. QED
    BY <1>1, <1>3, <1>5, <1>6, <1>8, <2>1, <2>2 DEF Good, IsLocked
<1>. QED
  BY <1>7, <1>9, LockGood

(* ExportWatchingWallet leaves no key behind.                              *)
LEMMA ExportGood ==
  ASSUME NEW s, NEW pass \in Passphrase, Good(s, pass)
  PROVE  Good(ExportWatchingWallet(s), pass)
<1>. DEFINE c == [i \in DOMAIN s.chain |-> watchingCopy(s.chain[i])]
            im == [k \in DOMAIN s.imported |-> watchingCopy(s.imported[k])]
            d == [s EXCEPT !.chain = c, !.imported = im]
            r == ExportWatchingWallet(s)
<1>1. s \in Store /\ s.lastChainIdx \in Nat /\ DOMAIN s.chain = Root .. s.lastChainIdx
  BY StoreTypes DEF Good
<1>2. r = [d EXCEPT !.vers = s.vers, !.watchingOnly = TRUE, !.secret = None,
                    !.missingKeysStart = 0]
  BY DEF ExportWatchingWallet, EachAddr
<1>3. \A i \in DOMAIN s.chain : c[i] \in Addr /\ Bare(c[i])
  BY WatchingAddr, StoreTypes
<1>4. \A k \in DOMAIN s.imported : im[k] \in Addr /\ Bare(im[k])
  BY WatchingAddr, StoreTypes
<1>5. /\ DOMAIN c = DOMAIN s.chain /\ c = [i \in DOMAIN c |-> c[i]]
      /\ DOMAIN im = DOMAIN s.imported /\ im = [k \in DOMAIN im |-> im[k]]
  OBVIOUS
<1>6. d = [s EXCEPT !.chain = c, !.imported = im]
  OBVIOUS
<1>. HIDE DEF c, im, d, r
<1>7. c \in [Root .. s.lastChainIdx -> Addr] /\ im \in [DOMAIN s.imported -> Addr]
  BY <1>1, <1>3, <1>4, <1>5
<1>8. c \in Chains /\ im \in Imports
  BY <1>1, <1>7, ChainTypes, StoreTypes
<1>9. d = [vers |-> s.vers, watchingOnly |-> s.watchingOnly, highestUsed |-> s.highestUsed,
           chain |-> c, imported |-> im, scripts |-> s.scripts, secret |-> s.secret,
           lastChainIdx |-> s.lastChainIdx, missingKeysStart |-> s.missingKeysStart]
  BY <1>1, <1>6 DEF Store
<1>10. r = [vers |-> s.vers, watchingOnly |-> TRUE, highestUsed |-> s.highestUsed,
            chain |-> c, imported |-> im, scripts |-> s.scripts, secret |-> None,
            lastChainIdx |-> s.lastChainIdx, missingKeysStart |-> 0]
  BY <1>2, <1>9
<1>11. r \in Store
  BY <1>1, <1>8, <1>10 DEF Store
<1>12. /\ r.watchingOnly = TRUE /\ r.highestUsed = s.highestUsed /\ r.chain = c
       /\ r.imported = im /\ r.secret = None /\ r.lastChainIdx = s.lastChainIdx
  BY <1>10
<1>13. NoneClear(r) /\ NoKeys(r)
  BY <1>3, <1>4, <1>5, <1>12 DEF NoneClear, NoKeys, Bare
<1>14. r.highestUsed \in DOMAIN r.chain
  BY <1>5, <1>12 DEF Good
<1>15. r.watchingOnly /\ IsLocked(r)
  BY <1>12 DEF IsLocked
<1>16. r.lastChainIdx \in Nat /\ DOMAIN r.chain = Root .. r.lastChainIdx
  BY <1>1, <1>5, <1>12
<1>. QED
  BY <1>11, <1>13, <1>14, <1>15, <1>16 DEF Good, r
-----------------------------------------------------------------------------
LEMMA InitIInv ==
  ASSUME Supported, Init
  PROVE  IInv
<1>1. PICK pass \in Passphrase :
        /\ told = {pass}
        /\ \/ store = NewStore(pass) /\ disk = WriteTo(store)
           \/ /\ disk = WriteTo(ExportWatchingWallet(NewStore(pass)))
              /\ store = ReadFrom(disk)
  BY DEF Init, Supported
<1>. DEFINE new == NewStore(pass)
            watch == ExportWatchingWallet(new)
<1>2. Good(new, pass)
  BY NewStoreGood
<1>. HIDE DEF new
<1>3. Good(watch, pass)
  BY <1>2, ExportGood
<1>. HIDE DEF watch
<1>4. Good(store, pass) /\ GoodFile(disk, pass) /\ Grown(disk, store)
  <2>1. CASE store = new /\ disk = WriteTo(store)
    BY <1>2, <2>1, WriteGood
  <2>2. CASE disk = WriteTo(watch) /\ store = ReadFrom(disk)
    BY <1>3, <2>2, WriteGood, ReadGood
  <2>. QED
    BY <1>1, <2>1, <2>2 DEF new, watch
<1>5. handed = <<>>
  BY DEF Init
<1>6. HandedOutOnce /\ handed \in Seq([idx : Key \cup Script, change : BOOLEAN])
  BY <1>5 DEF HandedOutOnce
<1>. QED
  BY <1>1, <1>4, <1>6 DEF IInv
-----------------------------------------------------------------------------
(* The steps.  What was handed out stays in whatever has grown.            *)
Reply == [idx : Key \cup Script, change : BOOLEAN]
Kept(f, e) ==
  \/ /\ e.idx \in DOMAIN f.chain /\ e.idx <= f.highestUsed
     /\ f.chain[e.idx].change = e.change
  \/ e.idx \in DOMAIN f.imported \cup f.scripts

LEMMA HandedKept ==
  HandedOutOnce <=> /\ \A m, n \in DOMAIN handed : handed[m].idx = handed[n].idx => m = n
                    /\ \A n \in DOMAIN handed : Kept(disk, handed[n])
BY DEF HandedOutOnce, Kept

LEMMA GrownKept ==
  ASSUME NEW f, NEW s, NEW e, DOMAIN f.chain \subseteq Int, f.highestUsed \in Int,
         s.highestUsed \in Int, Grown(f, s), Kept(f, e)
  PROVE  Kept(s, e)
BY DEF Grown, Kept

LEMMA FileTypes ==
  ASSUME NEW f, NEW pass \in Passphrase, GoodFile(f, pass)
  PROVE  /\ DOMAIN f.chain \subseteq Int /\ f.highestUsed \in Int
         /\ DOMAIN f.imported \subseteq Import /\ f.scripts \subseteq Script
<1>1. f \in File
  BY DEF GoodFile
<1>2. PICK n \in Nat : f.chain \in [Root .. n -> Addr]
  BY <1>1, ChainTypes DEF File
<1>3. f.imported \in Imports /\ f.highestUsed \in Int /\ f.scripts \subseteq Script
  BY <1>1 DEF File
<1>. QED
  BY <1>2, <1>3, ChainTypes DEF Root

LEMMA DiskTypes ==
  ASSUME IInv
  PROVE  /\ DOMAIN disk.chain \subseteq Int /\ disk.highestUsed \in Int
         /\ DOMAIN disk.imported \subseteq Import /\ disk.scripts \subseteq Script
         /\ store.highestUsed \in Int /\ DOMAIN store.chain \subseteq Int
<1>1. PICK pass \in told : GoodFile(disk, pass)
  BY DEF IInv
<1>2. PICK p \in told : Good(store, p)
  BY DEF IInv
<1>3. pass \in Passphrase /\ p \in Passphrase
  BY DEF IInv
<1>. QED
  BY <1>1, <1>2, <1>3, FileTypes, StoreTypes DEF Root

(* The store changes, the file does not.                                   *)
LEMMA Replaced ==
  ASSUME IInv, NEW s, NEW pass \in Passphrase, Good(s, pass), Grown(store, s), store' = s,
         UNCHANGED <<disk, handed>>, told' \in SUBSET Passphrase, told \subseteq told',
         pass \in told'
  PROVE  IInv'
<1>1. Grown(disk, s)
  BY DiskTypes, StoreTypes, GrownTrans DEF IInv
<1>2. \E p \in told' : GoodFile(disk, p)
  BY DEF IInv
<1>3. HandedOutOnce'
  BY DEF IInv, HandedOutOnce
<1>. QED
  BY <1>1, <1>2, <1>3 DEF IInv

(* A changed store is written.                                             *)
LEMMA Written ==
  ASSUME IInv, NEW s, NEW t, NEW pass \in Passphrase, Good(s, pass), Good(t, pass),
         Grown(store, s), Grown(s, t), store' = t, disk' = WriteTo(s),
         told' \in SUBSET Passphrase, pass \in told'
  PROVE  /\ \E p \in told' : Good(store', p)
         /\ \E p \in told' : GoodFile(disk', p)
         /\ Grown(disk', store') /\ Grown(s, disk')
         /\ \A e : Kept(disk, e) => Kept(disk', e)
         /\ \A e : Kept(s, e) => Kept(disk', e)
<1>. DEFINE f == WriteTo(s)
<1>1. GoodFile(f, pass) /\ Grown(f, s) /\ Grown(s, f)
  BY WriteGood
<1>. HIDE DEF f
<1>2. DOMAIN f.chain \subseteq Int /\ f.highestUsed \in Int
  BY <1>1, FileTypes
<1>3. /\ DOMAIN s.chain \subseteq Int /\ s.highestUsed \in Int /\ t.highestUsed \in Int
  BY StoreTypes DEF Root
<1>4. Grown(f, t)
  BY <1>1, <1>2, <1>3, GrownTrans
<1>5. Grown(disk, s)
  BY <1>3, DiskTypes, GrownTrans DEF IInv
<1>6. ASSUME NEW e, Kept(s, e) PROVE Kept(f, e)
  BY <1>1, <1>2, <1>3, <1>6, GrownKept
<1>7. ASSUME NEW e, Kept(disk, e) PROVE Kept(f, e)
  <2>1. Kept(s, e)
    BY <1>3, <1>5, <1>7, DiskTypes, GrownKept
  <2>. QED
    BY <1>6, <2>1
<1>8. disk' = f
  BY DEF f
<1>. QED
  BY <1>1, <1>4, <1>6, <1>7, <1>8

(* A changed store is written, or not, and the address is returned when it *)
(* was.                                                                    *)
LEMMA Replied ==
  ASSUME IInv, NEW s, NEW pass \in told, Good(s, pass), Grown(store, s),
         NEW e \in Reply, Kept(s, e), \A n \in DOMAIN handed : handed[n].idx # e.idx,
         FlushAndReply(s, <<e>>)
  PROVE  IInv'
<1>1. pass \in Passphrase /\ told' = told /\ store' = s /\ told \in SUBSET Passphrase
  BY DEF IInv, FlushAndReply
<1>2. CASE UNCHANGED <<disk, handed>>
  BY <1>1, <1>2, Replaced
<1>3. CASE disk' = WriteTo(s) /\ handed' = handed \o <<e>>
  <2>1. Grown(s, s)
    BY <1>1, GrownSame
  <2>2. /\ \E p \in told' : Good(store', p)
        /\ \E p \in told' : GoodFile(disk', p)
        /\ Grown(disk', store')
        /\ \A a : Kept(disk, a) => Kept(disk', a)
        /\ \A a : Kept(s, a) => Kept(disk', a)
    BY <1>1, <1>3, <2>1, Written
  <2>3. handed \in Seq(Reply)
    BY DEF IInv, Reply
  <2>4. /\ handed' \in Seq(Reply) /\ DOMAIN handed' = 1 .. Len(handed) + 1
        /\ DOMAIN handed = 1 .. Len(handed) /\ Len(handed) \in Nat
        /\ \A n \in DOMAIN handed : handed'[n] = handed[n]
        /\ handed'[Len(handed) + 1] = e
    BY <1>3, <2>3
  <2>5. \A n \in DOMAIN handed' : n \in DOMAIN handed \/ n = Len(handed) + 1
    BY <2>4
  <2>6. /\ \A m, n \in DOMAIN handed : handed[m].idx = handed[n].idx => m = n
        /\ \A n \in DOMAIN handed : Kept(disk, handed[n])
    BY HandedKept DEF IInv
  <2>7. \A n \in DOMAIN handed' : Kept(disk', handed'[n])
    BY <2>2, <2>4, <2>5, <2>6
  <2>8. \A m, n \in DOMAIN handed' : handed'[m].idx = handed'[n].idx => m = n
    BY <2>4, <2>5, <2>6
  <2>9. HandedOutOnce'
    BY <2>7, <2>8 DEF HandedOutOnce, Kept
  <2>. QED
    BY <1>1, <2>2, <2>4, <2>9 DEF IInv, Reply
<1>. QED
  BY <1>2, <1>3 DEF FlushAndReply

LEMMA RestartIInv ==
  ASSUME IInv, Restart
  PROVE  IInv'
<1>1. PICK pass \in told : GoodFile(disk, pass)
  BY DEF IInv
<1>2. pass \in Passphrase
  BY DEF IInv
<1>3. Good(ReadFrom(disk), pass) /\ Grown(disk, ReadFrom(disk))
  BY <1>1, <1>2, ReadGood
<1>4. store' = ReadFrom(disk) /\ disk' = disk /\ told' = told /\ handed' = handed
  BY DEF Restart
<1>5. HandedOutOnce'
  BY <1>4 DEF IInv, HandedOutOnce
<1>. QED
  BY <1>1, <1>3, <1>4, <1>5 DEF IInv

LEMMA WriteIInv ==
  ASSUME IInv, Write
  PROVE  IInv'
<1>1. PICK pass \in told : Good(store, pass)
  BY DEF IInv
<1>2. pass \in Passphrase /\ Grown(store, store)
  BY <1>1, GrownSame DEF IInv
<1>3. store' = store /\ disk' = WriteTo(store) /\ told' = told /\ handed' = handed
  BY DEF Write
<1>4. /\ \E p \in told' : Good(store', p)
      /\ \E p \in told' : GoodFile(disk', p)
      /\ Grown(disk', store')
      /\ \A e : Kept(disk, e) => Kept(disk', e)
  BY <1>1, <1>2, <1>3, Written DEF IInv
<1>5. HandedOutOnce'
  <2>1. /\ \A m, n \in DOMAIN handed : handed[m].idx = handed[n].idx => m = n
        /\ \A n \in DOMAIN handed : Kept(disk, handed[n])
    BY HandedKept DEF IInv
  <2>. QED
    BY <1>3, <1>4, <2>1 DEF HandedOutOnce, Kept
<1>. QED
  BY <1>3, <1>4, <1>5 DEF IInv

(* The next address is after every one handed out, because the file, which *)
(* has them all, is behind the store.                                      *)
LEMMA NewAddressIInv ==
  ASSUME IInv, Supported, NEW change \in BOOLEAN, NewAddress(change)
  PROVE  IInv'
<1>1. PICK pass \in told : Good(store, pass)
  BY DEF IInv
<1>2. pass \in Passphrase
  BY DEF IInv
<1>. DEFINE r == nextAddress(store, change)
            s == r.s
            e == Entry(s.highestUsed, s)
<1>3. /\ r.err = "" /\ Good(s, pass) /\ Grown(store, s)
      /\ s.highestUsed = store.highestUsed + 1
  BY <1>1, <1>2, NextAddressGood
<1>4. FlushAndReply(s, <<e>>)
  BY <1>3 DEF NewAddress, Panics
<1>. HIDE DEF r, s
<1>5. s.highestUsed \in DOMAIN s.chain /\ s.chain[s.highestUsed] \in Addr /\ s.highestUsed \in Int
  BY <1>2, <1>3, StoreTypes
<1>6. e.idx = s.highestUsed /\ e.change = s.chain[s.highestUsed].change /\ e \in Reply
  BY <1>5 DEF Entry, Reply, Key, Addr
<1>. HIDE DEF e
<1>7. Kept(s, e)
  BY <1>5, <1>6 DEF Kept
<1>8. ASSUME NEW n \in DOMAIN handed PROVE handed[n].idx # e.idx
  <2>1. Kept(disk, handed[n])
    BY HandedKept DEF IInv
  <2>2. disk.highestUsed \in Int /\ store.highestUsed \in Int /\ disk.highestUsed <= store.highestUsed
    BY DiskTypes DEF IInv, Grown
  <2>3. \A d, h \in Int : \A i : d <= h /\ i = h + 1 => ~(i <= d)
    OBVIOUS
  <2>4. ~(e.idx <= disk.highestUsed)
    BY <1>3, <1>6, <2>2, <2>3
  <2>5. e.idx \notin DOMAIN disk.imported \cup disk.scripts
    BY <1>5, <1>6, DiskTypes, NamesAssumption
  <2>. QED
    BY <2>1, <2>4, <2>5 DEF Kept
<1>. QED
  BY <1>1, <1>3, <1>4, <1>6, <1>7, <1>8, Replied

LEMMA RecoverIInv ==
  ASSUME IInv, Supported, NEW n \in 1 .. MaxRecover, RecoverAddresses(n)
  PROVE  IInv'
<1>1. PICK pass \in told : Good(store, pass)
  BY DEF IInv
<1>2. pass \in Passphrase /\ n \in Nat /\ told \in SUBSET Passphrase
  BY KeypoolAssumption DEF IInv
<1>. DEFINE r == ExtendActiveAddresses(store, n)
            s == r.s
<1>3. r.err = "" /\ Good(s, pass) /\ Grown(store, s)
  BY <1>1, <1>2, ExtendActiveGood
<1>4. store' = s /\ UNCHANGED <<disk, told, handed>>
  BY <1>3 DEF RecoverAddresses, Panics
<1>. HIDE DEF r, s
<1>. QED
  BY <1>1, <1>2, <1>3, <1>4, Replaced

(* A key or a script that is imported was not there before.                *)
LEMMA ImportKeyIInv ==
  ASSUME IInv, NEW k \in Import, ImportKey(k)
  PROVE  IInv'
<1>1. PICK pass \in told : Good(store, pass)
  BY DEF IInv
<1>2. pass \in Passphrase
  BY DEF IInv
<1>. DEFINE s == ImportPrivateKey(store, k).s
            e == [idx |-> k, change |-> FALSE]
<1>3. FlushAndReply(s, <<e>>) /\ ImportPrivateKey(store, k).err = ""
  BY DEF ImportKey
<1>4. ~store.watchingOnly /\ k \notin DOMAIN store.imported /\ ~IsLocked(store)
  BY <1>3, ImportErrors
<1>5. Good(s, pass) /\ Grown(store, s) /\ k \in DOMAIN s.imported
  BY <1>1, <1>2, <1>4, ImportKeyGood
<1>. HIDE DEF s
<1>6. e.idx = k /\ e \in Reply /\ Kept(s, e)
  BY <1>5 DEF Reply, Key, Kept
<1>. HIDE DEF e
<1>7. ASSUME NEW n \in DOMAIN handed PROVE handed[n].idx # e.idx
  <2>1. Kept(disk, handed[n])
    BY HandedKept DEF IInv
  <2>2. DOMAIN disk.imported \subseteq DOMAIN store.imported
    BY DEF IInv, Grown
  <2>3. k \notin DOMAIN disk.chain \cup DOMAIN disk.imported \cup disk.scripts
    BY <1>4, <2>2, DiskTypes, NamesAssumption
  <2>. QED
    BY <1>6, <2>1, <2>3 DEF Kept
<1>. QED
  BY <1>1, <1>3, <1>5, <1>6, <1>7, Replied

LEMMA ImportScriptIInv ==
  ASSUME IInv, NEW x \in Script, AddMultiSigAddress(x)
  PROVE  IInv'
<1>1. PICK pass \in told : Good(store, pass)
  BY DEF IInv
<1>2. pass \in Passphrase
  BY DEF IInv
<1>. DEFINE s == ImportScript(store, x).s
            e == [idx |-> x, change |-> FALSE]
<1>3. FlushAndReply(s, <<e>>) /\ ImportScript(store, x).err = ""
  BY DEF AddMultiSigAddress
<1>4. ~store.watchingOnly /\ x \notin store.scripts
  BY <1>3, ImportErrors
<1>5. Good(s, pass) /\ Grown(store, s) /\ x \in s.scripts
  BY <1>1, <1>2, <1>4, ImportScriptGood
<1>. HIDE DEF s
<1>6. e.idx = x /\ e \in Reply /\ Kept(s, e)
  BY <1>5 DEF Reply, Kept
<1>. HIDE DEF e
<1>7. ASSUME NEW n \in DOMAIN handed PROVE handed[n].idx # e.idx
  <2>1. Kept(disk, handed[n])
    BY HandedKept DEF IInv
  <2>2. disk.scripts \subseteq store.scripts
    BY DEF IInv, Grown
  <2>3. x \notin DOMAIN disk.chain \cup DOMAIN disk.imported \cup disk.scripts
    BY <1>4, <2>2, DiskTypes, NamesAssumption
  <2>. QED
    BY <1>6, <2>1, <2>3 DEF Kept
<1>. QED
  BY <1>1, <1>3, <1>5, <1>6, <1>7, Replied

LEMMA UnlockIInv ==
  ASSUME IInv, NEW p \in Passphrase, UnlockWallet(p)
  PROVE  IInv'
<1>1. PICK pass \in told : Good(store, pass)
  BY DEF IInv
<1>2. pass \in Passphrase /\ told \in SUBSET Passphrase
  BY DEF IInv
<1>. DEFINE s == Unlock(store, p).s
<1>3. Good(s, pass) /\ Grown(store, s)
  <2>1. CASE store.watchingOnly \/ p # pass
    <3>1. s = store
      BY <1>1, <1>2, <2>1, UnlockWrong
    <3>. HIDE DEF s
    <3>. QED
      BY <1>1, <1>2, <3>1, GrownSame
  <2>2. CASE ~store.watchingOnly /\ p = pass
    BY <1>1, <1>2, <2>2, UnlockGood
  <2>. QED
    BY <2>1, <2>2
<1>4. store' = s /\ UNCHANGED <<disk, told, handed>>
  BY DEF UnlockWallet
<1>. HIDE DEF s
<1>. QED
  BY <1>1, <1>2, <1>3, <1>4, Replaced

LEMMA LockIInv ==
  ASSUME IInv, LockWallet
  PROVE  IInv'
<1>1. PICK pass \in told : Good(store, pass)
  BY DEF IInv
<1>2. pass \in Passphrase /\ told \in SUBSET Passphrase
  BY DEF IInv
<1>3. Good(Lock(store), pass) /\ Grown(store, Lock(store))
  BY <1>1, <1>2, LockGood
<1>4. store' = Lock(store) /\ UNCHANGED <<disk, told, handed>>
  BY DEF LockWallet
<1>. QED
  BY <1>1, <1>2, <1>3, <1>4, Replaced

(* A change of the passphrase moves every key or none.                     *)
LEMMA ChangePassIInv ==
  ASSUME IInv, NEW old \in Passphrase, NEW new \in Passphrase, ChangePass(old, new)
  PROVE  IInv'
<1>1. PICK pass \in told : Good(store, pass)
  BY DEF IInv
<1>2. pass \in Passphrase /\ told \in SUBSET Passphrase
  BY DEF IInv
<1>. DEFINE u == Unlock(store, old)
<1>3. CASE store.watchingOnly \/ old # pass
  <2>1. u.err # "" /\ u.s = store
    BY <1>1, <1>2, <1>3, UnlockWrong
  <2>2. store' = store /\ UNCHANGED <<disk, told, handed>>
    BY <2>1 DEF ChangePass
  <2>. QED
    BY <1>1, <1>2, <2>2, GrownSame, Replaced
<1>4. CASE ~store.watchingOnly /\ old = pass
  <2>1. /\ u.err = "" /\ Good(u.s, pass) /\ Grown(store, u.s)
        /\ u.s.secret = pass /\ ~u.s.watchingOnly
    BY <1>1, <1>2, <1>4, UnlockGood
  <2>. DEFINE v == u.s
  <2>2. PICK t : /\ ChangePassphrase(v, new) = {Ok(t)}
                 /\ Good(t, new) /\ Grown(v, t)
    BY <1>2, <2>1, ChangePassphraseGood
  <2>3. \E r \in ChangePassphrase(v, new) :
          IF r.err # "" THEN store' = r.s /\ UNCHANGED <<disk, told, handed>>
          ELSE /\ store' = Lock(r.s)
               /\ \/ disk' = WriteTo(r.s) /\ told' = {new}
                  \/ told' = told \cup {new} /\ UNCHANGED disk
               /\ UNCHANGED handed
    BY <2>1 DEF ChangePass
  <2>4. /\ store' = Lock(t)
        /\ \/ disk' = WriteTo(t) /\ told' = {new}
           \/ told' = told \cup {new} /\ UNCHANGED disk
        /\ UNCHANGED handed
    BY <2>2, <2>3, OkIs
  <2>. HIDE DEF u, v
  <2>5. Good(v, pass) /\ Grown(store, v)
    BY <2>1 DEF v
  <2>6. Good(Lock(t), new) /\ Grown(t, Lock(t))
    BY <2>2, LockGood
  <2>. DEFINE w == Lock(t)
  <2>. HIDE DEF w
  <2>7. Good(w, new) /\ Grown(t, w) /\ store' = w
    BY <2>4, <2>6 DEF w
  <2>8. Grown(store, t)
    BY <1>2, <2>2, <2>5, DiskTypes, StoreTypes, GrownTrans
  <2>9. Grown(store, w)
    BY <2>2, <2>7, <2>8, DiskTypes, StoreTypes, GrownTrans
  <2>10. CASE disk' = WriteTo(t) /\ told' = {new}
    <3>1. /\ \E p \in told' : Good(store', p)
          /\ \E p \in told' : GoodFile(disk', p)
          /\ Grown(disk', store')
          /\ \A e : Kept(disk, e) => Kept(disk', e)
      BY <2>2, <2>7, <2>8, <2>10, Written
    <3>2. HandedOutOnce'
      <4>1. /\ \A m, n \in DOMAIN handed : handed[m].idx = handed[n].idx => m = n
            /\ \A n \in DOMAIN handed : Kept(disk, handed[n])
        BY HandedKept DEF IInv
      <4>. QED
        BY <2>4, <3>1, <4>1 DEF HandedOutOnce, Kept
    <3>. QED
      BY <2>4, <2>10, <3>1, <3>2 DEF IInv
  <2>11. CASE told' = told \cup {new} /\ UNCHANGED disk
    BY <1>2, <2>4, <2>7, <2>9, <2>11, Replaced
  <2>. QED
    BY <2>4, <2>10, <2>11
<1>. QED
  BY <1>3, <1>4

LEMMA NextIInv ==
  ASSUME IInv, Supported, [Next]_vars
  PROVE  IInv'
<1>1. ASSUME NEW change \in BOOLEAN, NewAddress(change) PROVE IInv'
  BY <1>1, NewAddressIInv
<1>2. ASSUME NEW n \in 1 .. MaxRecover, RecoverAddresses(n) PROVE IInv'
  BY <1>2, RecoverIInv
<1>3. ASSUME NEW k \in Import, ImportKey(k) PROVE IInv'
  BY <1>3, ImportKeyIInv
<1>4. ASSUME NEW x \in Script, AddMultiSigAddress(x) PROVE IInv'
  BY <1>4, ImportScriptIInv
<1>5. ASSUME NEW pass \in Passphrase, UnlockWallet(pass) PROVE IInv'
  BY <1>5, UnlockIInv
<1>6. CASE LockWallet
  BY <1>6, LockIInv
<1>7. ASSUME NEW old \in Passphrase, NEW new \in Passphrase, ChangePass(old, new) PROVE IInv'
  BY <1>7, ChangePassIInv
<1>8. CASE Write
  BY <1>8, WriteIInv
<1>9. CASE Restart
  BY <1>9, RestartIInv
<1>10. CASE UNCHANGED vars
  BY <1>10 DEF vars, IInv, HandedOutOnce
<1>. QED
  BY <1>1, <1>2, <1>3, <1>4, <1>5, <1>6, <1>7, <1>8, <1>9, <1>10 DEF Next
-----------------------------------------------------------------------------
(* What the inductive invariant says of the properties of KeyChain.        *)
LEMMA ChainOfGood ==
  ASSUME NEW s, NEW n \in Nat, s.chain \in [Root .. n -> Addr]
  PROVE  /\ DOMAIN s.chain = Root .. Cardinality(DOMAIN s.chain) - 2
         /\ \A i \in DOMAIN s.chain : s.chain[i] \in Addr
<1>1. DOMAIN s.chain = Root .. n /\ Root \in Int /\ ~(Root > n) /\ n - Root + 1 = n + 2
  BY DEF Root
<1>2. Cardinality(Root .. n) = n + 2
  BY <1>1, FS_Interval
<1>3. n + 2 - 2 = n
  OBVIOUS
<1>. QED
  BY <1>1, <1>2, <1>3

LEMMA ChainKeptIInv ==
  ASSUME IInv
  PROVE  ChainKept
<1>1. PICK pass \in told : Good(store, pass)
  BY DEF IInv
<1>2. PICK p \in told : GoodFile(disk, p)
  BY DEF IInv
<1>3. pass \in Passphrase /\ p \in Passphrase /\ told \in SUBSET Passphrase
  BY DEF IInv
<1>4. /\ store.vers \in {"old", "current"} /\ store.watchingOnly \in BOOLEAN
      /\ DOMAIN store.chain = Root .. Cardinality(DOMAIN store.chain) - 2
      /\ store.highestUsed \in DOMAIN store.chain
      /\ \A i \in DOMAIN store.chain : store.chain[i] \in Addr
      /\ DOMAIN store.imported \subseteq Import
      /\ \A k \in DOMAIN store.imported : store.imported[k] \in Addr
      /\ store.scripts \subseteq Script
  <2>1. store.vers \in {"old", "current"} /\ store.highestUsed \in DOMAIN store.chain
    BY <1>1 DEF Good, Store
  <2>. QED
    BY <1>1, <1>3, <2>1, ChainOfGood, StoreTypes
<1>5. /\ disk.vers \in {"old", "current"} /\ disk.watchingOnly \in BOOLEAN
      /\ DOMAIN disk.chain = Root .. Cardinality(DOMAIN disk.chain) - 2
      /\ disk.highestUsed \in DOMAIN disk.chain
      /\ \A i \in DOMAIN disk.chain : disk.chain[i] \in Addr
      /\ DOMAIN disk.imported \subseteq Import
      /\ \A k \in DOMAIN disk.imported : disk.imported[k] \in Addr
      /\ disk.scripts \subseteq Script
  <2>1. disk \in File /\ disk.highestUsed \in DOMAIN disk.chain
    BY <1>2 DEF GoodFile
  <2>2. /\ disk.vers \in {"old", "current"} /\ disk.watchingOnly \in BOOLEAN
        /\ disk.chain \in Chains /\ disk.imported \in Imports /\ disk.scripts \subseteq Script
    BY <2>1 DEF File
  <2>3. PICK n \in Nat : disk.chain \in [Root .. n -> Addr]
    BY <2>2, ChainTypes
  <2>. QED
    BY <2>1, <2>2, <2>3, ChainOfGood, ChainTypes
<1>6. /\ store.secret \in Passphrase \cup {None}
      /\ store.lastChainIdx \in Int /\ store.missingKeysStart \in Int
  BY <1>1, <1>3, StoreTypes
<1>7. TypeOK
  BY <1>3, <1>4, <1>5, <1>6 DEF TypeOK, IInv
<1>8. ChainEnds
  <2>1. store.lastChainIdx \in Nat /\ DOMAIN store.chain = Root .. store.lastChainIdx
    BY <1>1, <1>3, StoreTypes
  <2>2. /\ DOMAIN store.chain \in SUBSET Int /\ store.lastChainIdx \in DOMAIN store.chain
        /\ \A i \in DOMAIN store.chain : i <= store.lastChainIdx
    BY <2>1 DEF Root
  <2>3. Max(DOMAIN store.chain) = store.lastChainIdx
    BY <2>2, MaxIs
  <2>. QED
    BY <2>3 DEF ChainEnds
<1>. QED
  BY <1>7, <1>8 DEF ChainKept

LEMMA KeysKeptIInv ==
  ASSUME IInv
  PROVE  KeysKept
<1>1. PICK pass \in told : Good(store, pass)
  BY DEF IInv
<1>2. pass \in Passphrase
  BY DEF IInv
<1>3. ClearTextGone
  BY <1>1 DEF ClearTextGone, Good, NoneClear
<1>4. ASSUME ~IsLocked(store) PROVE AllKeyed(store, store.secret)
  <2>1. ~store.watchingOnly /\ store.secret = pass
    BY <1>1, <1>4 DEF Good, IsLocked
  <2>. QED
    BY <1>1, <1>2, <2>1, OpenKeyed
<1>. QED
  BY <1>3, <1>4 DEF KeysKept, KeysCreatedAtUnlock

LEMMA GoodOpens ==
  ASSUME NEW s, NEW pass \in told, pass \in Passphrase, Good(s, pass), ~s.watchingOnly
  PROVE  Opens(s)
<1>. DEFINE r == Unlock(s, pass)
<1>1. r.err = "" /\ Good(r.s, pass) /\ r.s.secret = pass /\ ~r.s.watchingOnly
  BY UnlockGood
<1>. DEFINE t == r.s
<1>. HIDE DEF t
<1>2. AllKeyed(t, pass)
  BY <1>1, OpenKeyed DEF t
<1>. QED
  BY <1>1, <1>2 DEF Opens, t

LEMMA WalletOpensIInv ==
  ASSUME IInv
  PROVE  WalletOpens
<1>1. PICK pass \in told : Good(store, pass)
  BY DEF IInv
<1>2. PICK p \in told : GoodFile(disk, p)
  BY DEF IInv
<1>3. pass \in Passphrase /\ p \in Passphrase
  BY DEF IInv
<1>4. Good(ReadFrom(disk), p) /\ ReadFrom(disk).watchingOnly = disk.watchingOnly
  BY <1>2, <1>3, ReadGood DEF ReadFrom
<1>5. store.watchingOnly \/ Opens(store)
  BY <1>1, <1>3, GoodOpens
<1>6. disk.watchingOnly \/ Opens(ReadFrom(disk))
  BY <1>3, <1>4, GoodOpens
<1>. QED
  BY <1>5, <1>6 DEF WalletOpens
-----------------------------------------------------------------------------
(* The inductive invariant holds from every new or watching wallet.        *)
LEMMA Invariance ==
  ASSUME Supported
  PROVE  Spec => []IInv
<1>1. Init => IInv
  BY InitIInv
<1>2. IInv /\ [Next]_vars => IInv'
  BY NextIInv
<1>. QED
  BY <1>1, <1>2, PTL DEF Spec

(* The address chain is whole in memory and in the file, has no gap, and   *)
(* lastChainIdx is its end, after any mixture of locked extensions         *)
(* (keystore.go:1130), unlocked ones (keystore.go:1071), recoveries,       *)
(* restarts and failed writes, for every pool size above 0 and any number  *)
(* of addresses.                                                           *)
THEOREM ChainStaysWhole ==
  ASSUME Supported
  PROVE  Spec => []ChainKept
<1>1. IInv => ChainKept
  BY ChainKeptIInv
<1>. QED
  BY <1>1, Invariance, PTL

(* A locked store holds no clear text key; in an unlocked one every        *)
(* address has its own key under the passphrase in use, the ones made      *)
(* while the store was locked, imported, or read from the file included.   *)
THEOREM KeysStayWithAddresses ==
  ASSUME Supported
  PROVE  Spec => []KeysKept
<1>1. IInv => KeysKept
  BY KeysKeptIInv
<1>. QED
  BY <1>1, Invariance, PTL

(* The store, and the file after a restart, open with a passphrase the     *)
(* user was told of, and every address then has its key, whichever writes  *)
(* failed around a change of the passphrase (acctmgr.go:852).              *)
THEOREM WalletCanBeOpened ==
  ASSUME Supported
  PROVE  Spec => []WalletOpens
<1>1. IInv => WalletOpens
  BY WalletOpensIInv
<1>. QED
  BY <1>1, Invariance, PTL

(* No address is returned to a user twice, and each one returned is in the *)
(* wallet file for good, with the kind it was returned as, because         *)
(* NewAddress (account.go:642) replies only after the file was written.    *)
THEOREM NoAddressReturnedTwice ==
  ASSUME Supported
  PROVE  Spec => []HandedOutOnce
<1>1. IInv => HandedOutOnce
  BY DEF IInv
<1>. QED
  BY <1>1, Invariance, PTL
=============================================================================
