-------------------------- MODULE MCSensitiveString -------------------------
(***************************************************************************)
(* SensitiveString for TLC: strings, and blocks of one kind, are only      *)
(* compared with one another.                                              *)
(***************************************************************************)
EXTENDS SensitiveString, TLC

Symmetry == Permutations(Str) \cup Permutations(Crowded)

=============================================================================
