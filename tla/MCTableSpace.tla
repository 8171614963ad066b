----------------------------- MODULE MCTableSpace -----------------------------
(* Small instances of TableSpace for TLC.                                     *)
EXTENDS TableSpace

IoFaults == {"readFault", "writeFault", "damage"}
Refree == {"writeFault", "freeAgain"}
=============================================================================
