-------------------------- MODULE MCKeystoreLocker --------------------------
(* Instances of KeystoreLocker for TLC.                                    *)
EXTENDS KeystoreLocker
=============================================================================
