--------------------------- MODULE MCContactViews ---------------------------
(***************************************************************************)
(* Instances of ContactViews for TLC.                                      *)
(***************************************************************************)
EXTENDS ContactViews

\* Contacts are only told apart by their content.
BothLimits == {Unlimited, 2}

Symmetry == Permutations(Contacts)

=============================================================================
