----------------------------- MODULE MCKeychain -----------------------------
(***************************************************************************)
(* Keychain for TLC.  Accounts, details, seeds and passwords are only ever *)
(* compared with one another, so permuting any of them changes nothing.    *)
(***************************************************************************)
EXTENDS Keychain, TLC

Symmetry == Permutations(Accounts) \cup Permutations(Details)
               \cup Permutations(Seeds) \cup Permutations(Passwords)

=============================================================================
