-------------------------- MODULE MCRescanManager --------------------------
(* Instance of RescanManager for TLC: a handshake job h and two import     *)
(* jobs, which start at the first block.                                   *)
EXTENDS RescanManager

CONSTANTS h, i1, i2

MCJob == {h, i1, i2}
MCImport == {i1, i2}
MCStartHeight == [j \in MCJob |-> IF j = h THEN 5 ELSE 0]
=============================================================================
