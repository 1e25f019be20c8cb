---------------------------- MODULE MCSyncServer ----------------------------
(***************************************************************************)
(* Instances of SyncServer for TLC.                                        *)
(***************************************************************************)
EXTENDS SyncServerRefinement, TLC

\* Sessions and clients are interchangeable in every safety property.
Symmetry == Permutations(Sessions) \cup Permutations(Clients)

=============================================================================
