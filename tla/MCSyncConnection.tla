-------------------------- MODULE MCSyncConnection --------------------------
(***************************************************************************)
(* Instances of SyncConnection for TLC.                                    *)
(***************************************************************************)
EXTENDS SyncConnection

=============================================================================
