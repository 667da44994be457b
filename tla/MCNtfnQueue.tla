---------------------------- MODULE MCNtfnQueue ----------------------------
(* Instance of NtfnQueue for TLC. *)
EXTENDS NtfnQueue
=============================================================================
