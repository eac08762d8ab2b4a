----------------------------- MODULE MCScreens -----------------------------
(***************************************************************************)
(* Screens for TLC.  Controllers are only compared with one another, so    *)
(* permuting their identities changes nothing.                             *)
(***************************************************************************)
EXTENDS Screens

Symmetry == Permutations(Id)

=============================================================================
