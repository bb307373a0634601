---------------------------- MODULE MCSyncQueue ----------------------------
(* Instances of SyncQueue for TLC. *)
EXTENDS SyncQueue

CONSTANTS t1, t2, t3

ThreeThreads == {t1, t2, t3}
=============================================================================
