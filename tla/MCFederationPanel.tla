------------------------- MODULE MCFederationPanel -------------------------
(***************************************************************************)
(* Instances of FederationPanel for TLC.                                   *)
(***************************************************************************)
EXTENDS FederationPanel, TLC

Symmetry == Permutations(Slots)
=============================================================================
