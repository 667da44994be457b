----------------------------- MODULE MCKeyChain -----------------------------
(* Instances of KeyChain for TLC.                                          *)
EXTENDS KeyChain, TLC

(* No operation tells one passphrase from another.                         *)
PassphraseSymmetry == Permutations(Passphrase)
=============================================================================
