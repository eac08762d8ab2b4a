---------------------------- MODULE PathRegistry ----------------------------
(***************************************************************************)
(* What a keychain promises about derivation paths, with every detail of   *)
(* screens, databases and crashes left out.                                *)
(*                                                                         *)
(* A password is a function of the seed and of one number, the derivation  *)
(* path, and the path is all that an entry stores.  Two accounts that were *)
(* ever given the same path have the same password, and no later operation *)
(* can repair it.  The promise is that a path is claimed for an account    *)
(* only while nobody holds it; what is held may be forgotten at any time   *)
(* (an entry is deleted, a screen is closed, a write is lost), which is    *)
(* why the registry remembers holders and not a counter.                   *)
(*                                                                         *)
(* Keychain implements this specification: see Registry in Keychain.tla.   *)
(***************************************************************************)
CONSTANTS Accounts,  \* what a user keeps a password for
          Paths      \* the derivation paths

VARIABLE held        \* the pairs <<account, path>> that exist anywhere

Init == held = {}

Unused(p) == \A h \in held : h[2] # p

\* An account gets a path nobody holds.  Storing it may push something older
\* out of existence in the same step.
Claim(a, p) ==
    /\ Unused(p)
    /\ \E kept \in SUBSET held : held' = kept \cup {<<a, p>>}

Forget == held' \in SUBSET held

Next == \/ \E a \in Accounts, p \in Paths : Claim(a, p)
        \/ Forget

Spec == Init /\ [][Next]_held

-----------------------------------------------------------------------------

TypeOK == held \in SUBSET (Accounts \X Paths)

\* No two accounts ever hold the same path, hence the same password.
OneHolderPerPath == \A g, h \in held : g[2] = h[2] => g[1] = h[1]

=============================================================================
