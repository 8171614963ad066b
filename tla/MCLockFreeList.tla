---------------------------- MODULE MCLockFreeList ----------------------------
(* Small instances of LockFreeList for TLC.                                   *)
EXTENDS LockFreeList
=============================================================================
