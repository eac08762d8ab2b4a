------------------------- MODULE PathRegistryProofs -------------------------
(***************************************************************************)
(* The abstract promise keeps what it is for: one holder per path.         *)
(***************************************************************************)
EXTENDS PathRegistry, TLAPS

\* Held pairs are pairs of an account and a path.
THEOREM RegistryTypes == Spec => []TypeOK
<1>1. Init => TypeOK
  BY DEF Init, TypeOK
<1>2. TypeOK /\ [Next]_held => TypeOK'
  BY DEF TypeOK, Next, Claim, Forget
<1>3. QED
  BY <1>1, <1>2, PTL DEF Spec

\* No two accounts ever hold the same path.  Claim keeps it because the path
\* was unused, Forget because a subset of a function is a function.
THEOREM RegistryOneHolder == Spec => []OneHolderPerPath
<1>1. Init => OneHolderPerPath
  BY DEF Init, OneHolderPerPath
<1>2. OneHolderPerPath /\ [Next]_held => OneHolderPerPath'
  <2> SUFFICES ASSUME OneHolderPerPath, [Next]_held PROVE OneHolderPerPath'
    OBVIOUS
  <2>1. ASSUME NEW a \in Accounts, NEW p \in Paths, Claim(a, p) PROVE OneHolderPerPath'
    <3>1. PICK kept \in SUBSET held : held' = kept \cup {<<a, p>>}
      BY <2>1 DEF Claim
    <3>2. \A h \in held : h[2] # p
      BY <2>1 DEF Claim, Unused
    <3>3. \A h \in held' : h \in held \/ (h[1] = a /\ h[2] = p)
      BY <3>1
    <3>4. QED
      BY <3>2, <3>3 DEF OneHolderPerPath
  <2>2. CASE Forget \/ UNCHANGED held
    BY <2>2 DEF Forget, OneHolderPerPath
  <2>3. QED
    BY <2>1, <2>2 DEF Next
<1>3. QED
  BY <1>1, <1>2, PTL DEF Spec

=============================================================================
