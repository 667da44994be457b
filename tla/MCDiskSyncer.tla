---------------------------- MODULE MCDiskSyncer ----------------------------
(* Instances of DiskSyncer for TLC.                                        *)
EXTENDS DiskSyncer
=============================================================================
