---- MODULE MCLocalSync ----
(***************************************************************************)
(* LocalSync for TLC.                                                      *)
(***************************************************************************)
EXTENDS LocalSync

AllFaults == {"abort", "child dies", "parent dies", "StartSync"}
====
