---------------------------- MODULE MCMainScreen ----------------------------
(***************************************************************************)
(* MainScreen for TLC.  Objects are only compared with one another, and it *)
(* does not matter which free identity a new one gets: but for the root,   *)
(* permuting them changes nothing.                                         *)
(***************************************************************************)
EXTENDS MainScreen

Symmetry == Permutations(Id \ {Root})

=============================================================================
