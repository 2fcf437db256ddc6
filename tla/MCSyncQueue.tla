----------------------------- MODULE MCSyncQueue -----------------------------
(***************************************************************************)
(* A few changes, failures and foreign syncs for TLC.                      *)
(***************************************************************************)
EXTENDS SyncQueue
=============================================================================
