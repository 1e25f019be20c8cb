---- MODULE MCChangeTracking ----
(***************************************************************************)
(* ChangeTracking for TLC.                                                 *)
(***************************************************************************)
EXTENDS ChangeTracking, TLC

Symmetry == Permutations(Items)
====
