-------------------------- MODULE MainScreenProofs --------------------------
(***************************************************************************)
(* Proofs about MainScreen, for every set of objects and every bound.      *)
(*                                                                         *)
(* The heap is a tree at every step (Tree).  Each operator that changes it *)
(* has a lemma: Reopened, Inserted, Added, Grafted, Erased keep a tree one,*)
(* and Trimmed keeps it one when what nobody holds dies.  FlattenLists     *)
(* says what the loop of flatten_dirs lists, by induction on its rounds.   *)
(* From these, SoundStep has one lemma per action; PatientStep and         *)
(* CalmStep are about the forms and their requests only.                   *)
(***************************************************************************)
EXTENDS MainScreen, FiniteSetTheorems, SequenceTheorems, WellFoundedInduction, TLAPS

-----------------------------------------------------------------------------
(* Objects and their children. *)

\* The children of an object, in no order.
Kids(h, n) == ToSet(h[n].dirs) \cup ToSet(h[n].entries)

\* What is in one of two sequences joined.
LEMMA ToSetJoined ==
    ASSUME NEW S, NEW s \in Seq(S), NEW t \in Seq(S)
    PROVE  ToSet(s \o t) = ToSet(s) \cup ToSet(t)
<1>1. /\ DOMAIN s = 1..Len(s) /\ DOMAIN t = 1..Len(t) /\ DOMAIN (s \o t) = 1..(Len(s) + Len(t))
      /\ Len(s) \in Nat /\ Len(t) \in Nat
  OBVIOUS
<1>2. \A i \in 1..(Len(s) + Len(t)) : (s \o t)[i] = IF i <= Len(s) THEN s[i] ELSE t[i - Len(s)]
  OBVIOUS
<1>3. ASSUME NEW i \in 1..Len(s) PROVE s[i] \in ToSet(s \o t)
  BY <1>1, <1>2 DEF ToSet
<1>4. ASSUME NEW i \in 1..Len(t) PROVE t[i] \in ToSet(s \o t)
  <2>1. i + Len(s) \in 1..(Len(s) + Len(t)) /\ (s \o t)[i + Len(s)] = t[i]
    BY <1>1, <1>2
  <2>2. QED
    BY <1>1, <2>1 DEF ToSet
<1>5. ASSUME NEW i \in 1..(Len(s) + Len(t)) PROVE (s \o t)[i] \in ToSet(s) \cup ToSet(t)
  BY <1>1, <1>2 DEF ToSet
<1>6. QED
  BY <1>1, <1>3, <1>4, <1>5 DEF ToSet

\* The children in order, and in no order.
LEMMA ChildrenAreKids ==
    ASSUME NEW h, NEW n \in DOMAIN h, h[n] \in Object
    PROVE  ToSet(Children(h, n)) = Kids(h, n) /\ Kids(h, n) \subseteq Id
<1>1. h[n].dirs \in Seq(Id) /\ h[n].entries \in Seq(Id)
  BY DEF Object
<1>2. ToSet(h[n].dirs) \subseteq Id /\ ToSet(h[n].entries) \subseteq Id
  BY <1>1 DEF ToSet
<1>3. QED
  BY <1>1, <1>2, ToSetJoined DEF Children, Kids

\* Sequences without an object in common.
LEMMA InjectiveJoined ==
    ASSUME NEW S, NEW s \in Seq(S), NEW t \in Seq(S), IsInjective(s), IsInjective(t),
           ToSet(s) \cap ToSet(t) = {}
    PROVE  IsInjective(s \o t)
<1> DEFINE m == Len(s)
           n == Len(t)
           r == s \o t
<1>1. /\ m \in Nat /\ n \in Nat /\ DOMAIN s = 1..m /\ DOMAIN t = 1..n /\ DOMAIN r = 1..(m + n)
      /\ \A i \in 1..(m + n) : r[i] = IF i <= m THEN s[i] ELSE t[i - m]
  OBVIOUS
<1> HIDE DEF m, n, r
<1>2. SUFFICES ASSUME NEW i \in 1..(m + n), NEW j \in 1..(m + n), r[i] = r[j] PROVE i = j
  BY <1>1 DEF IsInjective, r
<1>3. /\ i <= m => i \in 1..m /\ r[i] = s[i]
      /\ j <= m => j \in 1..m /\ r[j] = s[j]
      /\ ~(i <= m) => i - m \in 1..n /\ r[i] = t[i - m]
      /\ ~(j <= m) => j - m \in 1..n /\ r[j] = t[j - m]
  BY <1>1
<1>4. (i <= m) <=> (j <= m)
  BY <1>1, <1>2, <1>3 DEF ToSet
<1>5. CASE i <= m /\ j <= m
  BY <1>1, <1>2, <1>3, <1>5 DEF IsInjective
<1>6. CASE ~(i <= m) /\ ~(j <= m)
  <2>1. i - m = j - m
    BY <1>1, <1>2, <1>3, <1>6 DEF IsInjective
  <2>2. QED
    BY <1>1, <2>1
<1>7. QED
  BY <1>4, <1>5, <1>6

\* Children are told apart by what they are.
LEMMA ChildrenDifferBack ==
    ASSUME NEW d \in Seq(Id), NEW e \in Seq(Id), IsInjective(d \o e)
    PROVE  IsInjective(d) /\ IsInjective(e)
<1>1. /\ DOMAIN d = 1..Len(d) /\ DOMAIN e = 1..Len(e) /\ DOMAIN (d \o e) = 1..(Len(d) + Len(e))
      /\ Len(d) \in Nat /\ Len(e) \in Nat
  OBVIOUS
<1>2. \A i \in 1..(Len(d) + Len(e)) : (d \o e)[i] = IF i <= Len(d) THEN d[i] ELSE e[i - Len(d)]
  OBVIOUS
<1>3. ASSUME NEW i \in 1..Len(d), NEW j \in 1..Len(d), d[i] = d[j] PROVE i = j
  <2>1. i \in DOMAIN (d \o e) /\ j \in DOMAIN (d \o e) /\ (d \o e)[i] = (d \o e)[j]
    BY <1>1, <1>2, <1>3
  <2>2. QED
    BY <2>1 DEF IsInjective
<1>4. ASSUME NEW i \in 1..Len(e), NEW j \in 1..Len(e), e[i] = e[j] PROVE i = j
  <2> DEFINE a == i + Len(d)
             b == j + Len(d)
  <2>1. a \in DOMAIN (d \o e) /\ b \in DOMAIN (d \o e) /\ (d \o e)[a] = (d \o e)[b]
    BY <1>1, <1>2, <1>4
  <2>2. a = b
    BY <2>1 DEF IsInjective
  <2>3. QED
    BY <2>2, <1>1
<1>5. QED
  BY <1>1, <1>3, <1>4 DEF IsInjective

-----------------------------------------------------------------------------
(* Trees. *)

\* What Tree says of one object.
Alive(h, n) ==
    /\ h[n] \in Object
    /\ h[n].parent # None => h[n].parent \in DOMAIN h /\ h[h[n].parent].isDir
    /\ n = Root => h[n].isDir

Parted(h, n) ==
    /\ IsInjective(h[n].dirs) /\ IsInjective(h[n].entries)
    /\ \A c \in Kids(h, n) : /\ c \in DOMAIN h /\ c # Root
                             /\ h[c].parent = n /\ h[n].isDir
    /\ \A c \in ToSet(h[n].dirs) : h[c].isDir
    /\ \A c \in ToSet(h[n].entries) : ~h[c].isDir

Rooted(h) ==
    \A S \in SUBSET DOMAIN h : S # {} => \E m \in S : \A p \in S : m \notin Kids(h, p)

\* A tree, taken apart into what holds of each object.
LEMMA TreeMeans ==
    ASSUME NEW h, Tree(h)
    PROVE  /\ DOMAIN h \subseteq Id /\ Rooted(h)
           /\ \A n \in DOMAIN h : Alive(h, n) /\ Parted(h, n)
<1>1. \A n \in DOMAIN h : ToSet(Children(h, n)) = Kids(h, n)
  BY ChildrenAreKids DEF Tree
<1>2. Rooted(h)
  <2> SUFFICES ASSUME NEW S \in SUBSET DOMAIN h, S # {}
               PROVE  \E m \in S : \A p \in S : m \notin Kids(h, p)
    BY DEF Rooted
  <2>1. PICK m \in S : \A p \in S : m \notin ToSet(Children(h, p))
    BY DEF Tree, Acyclic
  <2>2. QED
    BY <1>1, <2>1
<1>3. ASSUME NEW n \in DOMAIN h PROVE Alive(h, n) /\ Parted(h, n)
  <2>1. h[n].dirs \in Seq(Id) /\ h[n].entries \in Seq(Id)
    BY DEF Tree, Object
  <2>2. IsInjective(h[n].dirs) /\ IsInjective(h[n].entries)
    BY <2>1, ChildrenDifferBack DEF Tree, IsATree, Children
  <2>3. Alive(h, n)
    BY DEF Tree, Linked, Alive
  <2>4. Kids(h, n) \subseteq DOMAIN h
    BY <1>1 DEF Tree, Linked
  <2>5. \A c \in Kids(h, n) : h[c].parent = n /\ c # Root
    BY <1>1 DEF Tree, IsATree
  <2>6. /\ \A c \in ToSet(h[n].dirs) : h[n].isDir /\ h[c].isDir
        /\ \A c \in ToSet(h[n].entries) : h[n].isDir /\ ~h[c].isDir
    BY DEF Tree, IsATree
  <2>7. QED
    BY <2>2, <2>3, <2>4, <2>5, <2>6 DEF Parted, Kids
<1>4. QED
  BY <1>2, <1>3 DEF Tree

\* And put together.
LEMMA TreeIs ==
    ASSUME NEW h, DOMAIN h \subseteq Id, Rooted(h),
           \A n \in DOMAIN h : Alive(h, n) /\ Parted(h, n)
    PROVE  Tree(h)
<1>0. \A n \in DOMAIN h : h[n] \in Object
  BY DEF Alive
<1>1. \A n \in DOMAIN h : ToSet(Children(h, n)) = Kids(h, n)
  BY <1>0, ChildrenAreKids
<1>2. Acyclic(h)
  <2> SUFFICES ASSUME NEW S \in SUBSET DOMAIN h, S # {}
               PROVE  \E m \in S : \A p \in S : m \notin ToSet(Children(h, p))
    BY DEF Acyclic
  <2>1. PICK m \in S : \A p \in S : m \notin Kids(h, p)
    BY DEF Rooted
  <2>2. QED
    BY <1>1, <2>1
<1>3. Linked(h)
  BY <1>1 DEF Linked, Alive, Parted
<1>4. IsATree(h)
  <2> SUFFICES ASSUME NEW n \in DOMAIN h
               PROVE  /\ IsInjective(Children(h, n))
                      /\ \A c \in ToSet(Children(h, n)) : h[c].parent = n /\ c # Root
                      /\ \A c \in ToSet(h[n].dirs) : h[n].isDir /\ h[c].isDir
                      /\ \A c \in ToSet(h[n].entries) : h[n].isDir /\ ~h[c].isDir
    BY DEF IsATree
  <2>1. h[n].dirs \in Seq(Id) /\ h[n].entries \in Seq(Id)
    BY <1>0 DEF Object
  <2>2. Parted(h, n)
    OBVIOUS
  <2>3. ToSet(h[n].dirs) \cap ToSet(h[n].entries) = {}
    BY <2>2 DEF Parted
  <2>4. IsInjective(Children(h, n))
    BY <2>1, <2>2, <2>3, InjectiveJoined DEF Parted, Children
  <2>5. QED
    BY <1>1, <2>2, <2>4 DEF Parted, Kids
<1>5. QED
  BY <1>0, <1>2, <1>3, <1>4 DEF Tree

\* A set that holds with an object its children.
Whole(h, T) == \A n \in T : Kids(h, n) \subseteq T

\* Below(h, S) is the least whole set that contains S: all but S is in it as a
\* child.
LEMMA BelowIsLeast ==
    ASSUME NEW h, Tree(h), NEW S \in SUBSET DOMAIN h
    PROVE  /\ S \subseteq Below(h, S) /\ Below(h, S) \subseteq DOMAIN h
           /\ Whole(h, Below(h, S))
           /\ \A m \in Below(h, S) \ S : \E p \in Below(h, S) : m \in Kids(h, p)
<1>1. \A n \in DOMAIN h : ToSet(Children(h, n)) = Kids(h, n)
  BY ChildrenAreKids DEF Tree
<1> DEFINE whole == {T \in SUBSET DOMAIN h : S \subseteq T /\ Whole(h, T)}
<1>2. Below(h, S) = {m \in DOMAIN h : \A T \in whole : m \in T}
  <2>1. {S \cup U : U \in SUBSET (DOMAIN h \ S)} = {T \in SUBSET DOMAIN h : S \subseteq T}
    <3>2. \A U \in SUBSET (DOMAIN h \ S) : S \cup U \in SUBSET DOMAIN h
      OBVIOUS
    <3>3. ASSUME NEW T \in SUBSET DOMAIN h, S \subseteq T
          PROVE  T \in {S \cup U : U \in SUBSET (DOMAIN h \ S)}
      <4>1. T = S \cup (T \ S) /\ T \ S \in SUBSET (DOMAIN h \ S)
        BY <3>3
      <4>2. QED
        BY <4>1
    <3>4. QED
      BY <3>2, <3>3
  <2>2. \A T \in SUBSET DOMAIN h :
           (\A n \in T : ToSet(Children(h, n)) \subseteq T) <=> Whole(h, T)
    BY <1>1 DEF Whole
  <2>3. {T \in {S \cup U : U \in SUBSET (DOMAIN h \ S)} :
            \A n \in T : ToSet(Children(h, n)) \subseteq T} = whole
    BY <2>1, <2>2
  <2>4. QED
    BY <2>3 DEF Below
<1>3. DOMAIN h \in whole
  BY TreeMeans DEF Whole, Parted
<1>4. Whole(h, Below(h, S))
  <2> SUFFICES ASSUME NEW n \in Below(h, S), NEW c \in Kids(h, n) PROVE c \in Below(h, S)
    BY DEF Whole
  <2>1. c \in DOMAIN h
    BY <1>2, <1>3 DEF Whole
  <2>2. \A T \in whole : c \in T
    BY <1>2 DEF Whole
  <2>3. QED
    BY <1>2, <2>1, <2>2
<1>5. ASSUME NEW m \in Below(h, S), m \notin S, \A p \in Below(h, S) : m \notin Kids(h, p)
      PROVE  FALSE
  <2> DEFINE T == Below(h, S) \ {m}
  <2>1. S \subseteq T /\ T \in SUBSET DOMAIN h
    BY <1>2, <1>5
  <2>2. Whole(h, T)
    BY <1>4, <1>5 DEF Whole
  <2>3. T \in whole
    BY <2>1, <2>2
  <2>4. QED
    BY <1>2, <2>3
<1>6. QED
  BY <1>2, <1>4, <1>5

\* One more in a sequence.
LEMMA Joined1 ==
    ASSUME NEW n \in Id PROVE \A s \in Seq(Id) : ToSet(Append(s, n)) = ToSet(s) \cup {n}
<1> SUFFICES ASSUME NEW s \in Seq(Id) PROVE ToSet(Append(s, n)) = ToSet(s) \cup {n}
  OBVIOUS
<1>1. <<n>> \in Seq(Id) /\ Append(s, n) = s \o <<n>>
  BY AppendIsConcat
<1>2. ToSet(<<n>>) = {n}
  BY DEF ToSet
<1>3. ToSet(s \o <<n>>) = ToSet(s) \cup ToSet(<<n>>)
  BY <1>1, ToSetJoined
<1>4. QED
  BY <1>1, <1>2, <1>3

\* What was not in a sequence can be appended once.
LEMMA Injective1 ==
    ASSUME NEW n \in Id
    PROVE  \A s \in Seq(Id) : IsInjective(s) /\ n \notin ToSet(s) => IsInjective(Append(s, n))
<1> SUFFICES ASSUME NEW s \in Seq(Id), IsInjective(s), n \notin ToSet(s)
             PROVE  IsInjective(Append(s, n))
  OBVIOUS
<1>1. /\ DOMAIN s = 1..Len(s) /\ DOMAIN Append(s, n) = 1..(Len(s) + 1) /\ Len(s) \in Nat
      /\ \A i \in 1..Len(s) : Append(s, n)[i] = s[i]
      /\ Append(s, n)[Len(s) + 1] = n
  OBVIOUS
<1>2. \A i \in 1..(Len(s) + 1) : i \in 1..Len(s) \/ i = Len(s) + 1
  BY <1>1
<1>3. \A i \in 1..Len(s) : s[i] # n
  BY <1>1 DEF ToSet
<1>4. QED
  BY <1>1, <1>2, <1>3 DEF IsInjective

\* Parted speaks of the fields of an object and its children.
LEMMA SameParted ==
    ASSUME NEW h, NEW g, NEW m, Parted(h, m),
           g[m].dirs = h[m].dirs, g[m].entries = h[m].entries, g[m].isDir = h[m].isDir,
           \A c \in Kids(h, m) : /\ c \in DOMAIN g
                                 /\ g[c].parent = h[c].parent /\ g[c].isDir = h[c].isDir
    PROVE  Parted(g, m)
<1>1. Kids(g, m) = Kids(h, m)
  BY DEF Kids
<1>2. IsInjective(g[m].dirs) /\ IsInjective(g[m].entries)
  BY DEF Parted
<1>3. \A c \in Kids(g, m) : c \in DOMAIN g /\ c # Root /\ g[c].parent = m /\ g[m].isDir
  BY <1>1 DEF Parted
<1>4. \A c \in ToSet(g[m].dirs) : g[c].isDir
  BY <1>1 DEF Parted, Kids
<1>5. \A c \in ToSet(g[m].entries) : ~g[c].isDir
  BY <1>1 DEF Parted, Kids
<1>6. QED
  BY <1>2, <1>3, <1>4, <1>5 DEF Parted

\* A tree in which objects are open or closed at will.
LEMMA Reopened ==
    ASSUME NEW h, Tree(h), NEW g, DOMAIN g = DOMAIN h,
           \A m \in DOMAIN h : /\ g[m].dirs = h[m].dirs /\ g[m].entries = h[m].entries
                               /\ g[m].parent = h[m].parent /\ g[m].isDir = h[m].isDir
                               /\ g[m] \in Object
    PROVE  Tree(g) /\ \A m \in DOMAIN h : Kids(g, m) = Kids(h, m)
<1>1. DOMAIN h \subseteq Id
  BY TreeMeans
<1>2. \A m \in DOMAIN h : /\ g[m].dirs = h[m].dirs /\ g[m].entries = h[m].entries
                         /\ g[m].parent = h[m].parent /\ g[m].isDir = h[m].isDir
                         /\ g[m] \in Object
  OBVIOUS
<1>3. \A m \in DOMAIN h : Kids(g, m) = Kids(h, m)
  BY <1>2 DEF Kids
<1>0. \A m \in DOMAIN h : Alive(h, m) /\ Parted(h, m)
  BY TreeMeans
<1>4. ASSUME NEW m \in DOMAIN h PROVE Alive(g, m) /\ Parted(g, m)
  <2>1. Alive(g, m)
    BY <1>0, <1>1, <1>2 DEF Alive
  <2>2. Parted(g, m)
    <3>1. Parted(h, m) /\ \A c \in Kids(h, m) : c \in DOMAIN h
      BY <1>0 DEF Parted
    <3>2. QED
      BY <1>1, <1>2, <3>1, SameParted
  <2>3. QED
    BY <2>1, <2>2
<1>5. Rooted(g)
  BY <1>1, <1>3, TreeMeans DEF Rooted
<1>6. QED
  BY <1>1, <1>3, <1>4, <1>5, TreeIs

\* Part of a tree, if it is whole, is a tree.
LEMMA Trimmed ==
    ASSUME NEW h, Tree(h), NEW A \in SUBSET DOMAIN h, Whole(h, A)
    PROVE  LET g == Only(h, A) IN
           /\ Tree(g) /\ DOMAIN g = A
           /\ \A m \in A : /\ Kids(g, m) = Kids(h, m)
                           /\ g[m].isDir = h[m].isDir
                           /\ g[m].parent = IF h[m].parent \in A THEN h[m].parent ELSE None
<1> DEFINE g == Only(h, A)
<1>1. DOMAIN g = A /\ A \subseteq Id
  BY TreeMeans DEF Only
<1>2. \A m \in A : /\ g[m].dirs = h[m].dirs /\ g[m].entries = h[m].entries
                   /\ g[m].parent = (IF h[m].parent \in A THEN h[m].parent ELSE None)
                   /\ g[m].isDir = h[m].isDir
                   /\ g[m] \in Object
  BY DEF Tree, Object, Only
<1> HIDE DEF g
<1>3. \A m \in A : Kids(g, m) = Kids(h, m) /\ Kids(h, m) \subseteq A
  BY <1>2 DEF Kids, Whole
<1>0. \A m \in DOMAIN h : Alive(h, m) /\ Parted(h, m)
  BY TreeMeans
<1>4. ASSUME NEW m \in A PROVE Alive(g, m)
  BY <1>0, <1>1, <1>2 DEF Alive
<1>6. ASSUME NEW m \in A PROVE Parted(g, m)
  <2>1. IsInjective(g[m].dirs) /\ IsInjective(g[m].entries)
    BY <1>0, <1>2 DEF Parted
  <2>2. ASSUME NEW c \in Kids(g, m)
        PROVE  c \in DOMAIN g /\ c # Root /\ g[c].parent = m /\ g[m].isDir
    BY <1>0, <1>1, <1>2, <1>3 DEF Parted
  <2>3. /\ \A c \in ToSet(g[m].dirs) : c \in A /\ h[c].isDir
        /\ \A c \in ToSet(g[m].entries) : c \in A /\ ~h[c].isDir
    BY <1>0, <1>2, <1>3 DEF Parted, Kids
  <2>4. QED
    BY <1>2, <2>1, <2>2, <2>3 DEF Parted
<1>5. Rooted(g)
  <2> SUFFICES ASSUME NEW S \in SUBSET A, S # {}
               PROVE  \E m \in S : \A p \in S : m \notin Kids(g, p)
    BY <1>1 DEF Rooted
  <2>1. PICK m \in S : \A p \in S : m \notin Kids(h, p)
    BY TreeMeans DEF Rooted
  <2>2. QED
    BY <1>3, <2>1
<1>7. QED
  BY <1>1, <1>2, <1>3, <1>4, <1>5, <1>6, TreeIs DEF g

\* An object goes into a directory that is not below it.
LEMMA Inserted ==
    ASSUME NEW h, Tree(h), NEW n \in DOMAIN h, n # Root, NEW p \in DOMAIN h, h[p].isDir,
           h[n].parent = p, \A m \in DOMAIN h : n \notin Kids(h, m),
           NEW B \in SUBSET DOMAIN h, Whole(h, B), n \in B, p \notin B
    PROVE  LET g == Insert(h, n, p) IN
           /\ Tree(g) /\ DOMAIN g = DOMAIN h
           /\ \A m \in DOMAIN h : /\ Kids(g, m) = Kids(h, m) \cup (IF m = p THEN {n} ELSE {})
                                  /\ g[m].isDir = h[m].isDir /\ g[m].parent = h[m].parent
                                  /\ g[m].open = h[m].open
<1> DEFINE g == Insert(h, n, p)
<1>0. /\ DOMAIN h \subseteq Id /\ Rooted(h)
      /\ \A m \in DOMAIN h : Alive(h, m) /\ Parted(h, m)
  BY TreeMeans
<1>a. n \in Id /\ p \in Id /\ n # p
  BY <1>0
<1>b. h[p] \in Object /\ h[n].isDir \in BOOLEAN
  BY <1>0 DEF Alive, Object
<1>c. h[p].dirs \in Seq(Id) /\ h[p].entries \in Seq(Id)
  BY <1>b DEF Object
<1>d. \A m \in DOMAIN h : h[m] \in Object
  BY <1>0 DEF Alive
<1>1. DOMAIN g = DOMAIN h
  BY DEF Insert
<1>2. \A m \in DOMAIN h : /\ g[m].parent = h[m].parent /\ g[m].isDir = h[m].isDir
                         /\ g[m].open = h[m].open /\ g[m] \in Object
                         /\ (m # p => g[m] = h[m])
  <2>1. CASE h[n].isDir
    <3>1. g = [h EXCEPT ![p].dirs = Append(@, n)]
      BY <2>1 DEF Insert
    <3>2. Append(h[p].dirs, n) \in Seq(Id)
      BY <1>a, <1>c
    <3>3. g[p] = [h[p] EXCEPT !.dirs = Append(@, n)] /\ \A m \in DOMAIN h : m # p => g[m] = h[m]
      BY <3>1
    <3>4. /\ g[p] \in Object /\ g[p].parent = h[p].parent /\ g[p].isDir = h[p].isDir
          /\ g[p].open = h[p].open
      BY <3>2, <3>3, <1>b DEF Object
    <3>5. QED
      BY <3>3, <3>4, <1>d
  <2>2. CASE ~h[n].isDir
    <3>1. g = [h EXCEPT ![p].entries = Append(@, n)]
      BY <2>2 DEF Insert
    <3>2. Append(h[p].entries, n) \in Seq(Id)
      BY <1>a, <1>c
    <3>3. g[p] = [h[p] EXCEPT !.entries = Append(@, n)] /\ \A m \in DOMAIN h : m # p => g[m] = h[m]
      BY <3>1
    <3>4. /\ g[p] \in Object /\ g[p].parent = h[p].parent /\ g[p].isDir = h[p].isDir
          /\ g[p].open = h[p].open
      BY <3>2, <3>3, <1>b DEF Object
    <3>5. QED
      BY <3>3, <3>4, <1>d
  <2>3. QED
    BY <2>1, <2>2
<1>3. /\ g[p].dirs = IF h[n].isDir THEN Append(h[p].dirs, n) ELSE h[p].dirs
      /\ g[p].entries = IF h[n].isDir THEN h[p].entries ELSE Append(h[p].entries, n)
  BY <1>b DEF Insert, Object
<1> HIDE DEF g
<1>4. \A s \in Seq(Id) : ToSet(Append(s, n)) = ToSet(s) \cup {n}
  BY <1>a, Joined1
<1>5. \A m \in DOMAIN h : Kids(g, m) = Kids(h, m) \cup (IF m = p THEN {n} ELSE {})
  <2>1. Kids(g, p) = Kids(h, p) \cup {n}
    BY <1>3, <1>4, <1>c DEF Kids
  <2>2. ASSUME NEW m \in DOMAIN h, m # p PROVE Kids(g, m) = Kids(h, m)
    BY <1>2, <2>2 DEF Kids
  <2>3. QED
    BY <2>1, <2>2
<1>6. ASSUME NEW m \in DOMAIN h PROVE Alive(g, m)
  <2>1. Alive(h, m) /\ g[m].parent = h[m].parent /\ g[m].isDir = h[m].isDir /\ g[m] \in Object
    BY <1>0, <1>2
  <2>2. h[m].parent # None => h[m].parent \in DOMAIN g /\ g[h[m].parent].isDir
    BY <1>1, <1>2, <2>1 DEF Alive
  <2>3. QED
    BY <2>1, <2>2 DEF Alive
<1>7. ASSUME NEW m \in DOMAIN h PROVE Parted(g, m)
  <2>1. Parted(h, m)
    BY <1>0
  <2>2. CASE m # p
    <3>1. g[m] = h[m] /\ \A c \in Kids(h, m) : c \in DOMAIN h
      BY <1>2, <2>1, <2>2 DEF Parted
    <3>2. QED
      BY <1>1, <1>2, <2>1, <3>1, SameParted
  <2>3. CASE m = p
    <3>1. n \notin ToSet(h[p].dirs) /\ n \notin ToSet(h[p].entries)
      BY DEF Kids
    <3>2. \A s \in Seq(Id) : IsInjective(s) /\ n \notin ToSet(s) => IsInjective(Append(s, n))
      BY <1>a, Injective1
    <3>3. IsInjective(g[p].dirs) /\ IsInjective(g[p].entries)
      BY <1>3, <1>c, <2>1, <2>3, <3>1, <3>2 DEF Parted
    <3>4. \A c \in Kids(g, p) : c \in DOMAIN g /\ c # Root /\ g[c].parent = p /\ g[p].isDir
      <4>1. Kids(g, p) = Kids(h, p) \cup {n}
        BY <1>5
      <4>2. \A c \in Kids(h, p) : c \in DOMAIN h /\ c # Root /\ h[c].parent = p
        BY <2>1, <2>3 DEF Parted
      <4>3. \A c \in Kids(g, p) : c \in DOMAIN h /\ c # Root /\ h[c].parent = p
        BY <4>1, <4>2
      <4>4. QED
        BY <1>1, <1>2, <4>3
    <3>5. /\ \A c \in ToSet(g[p].dirs) : g[c].isDir
          /\ \A c \in ToSet(g[p].entries) : ~g[c].isDir
      <4>1. /\ ToSet(g[p].dirs) \subseteq ToSet(h[p].dirs) \cup (IF h[n].isDir THEN {n} ELSE {})
            /\ ToSet(g[p].entries) \subseteq
                  ToSet(h[p].entries) \cup (IF h[n].isDir THEN {} ELSE {n})
        BY <1>3, <1>4, <1>c
      <4>2. \A c \in Kids(h, p) : c \in DOMAIN h
        BY <2>1, <2>3 DEF Parted
      <4>3. \A c \in ToSet(h[p].dirs) : c \in DOMAIN h /\ h[c].isDir
        BY <4>2, <2>1, <2>3 DEF Parted, Kids
      <4>4. \A c \in ToSet(h[p].entries) : c \in DOMAIN h /\ ~h[c].isDir
        BY <4>2, <2>1, <2>3 DEF Parted, Kids
      <4>5. QED
        BY <4>1, <4>3, <4>4, <1>2
    <3>6. QED
      BY <2>3, <3>3, <3>4, <3>5 DEF Parted
  <2>4. QED
    BY <2>2, <2>3
<1>8. Rooted(g)
  <2> SUFFICES ASSUME NEW S \in SUBSET DOMAIN h, S # {}
               PROVE  \E m \in S : \A q \in S : m \notin Kids(g, q)
    BY <1>1 DEF Rooted
  <2>1. CASE S \subseteq B
    <3>1. PICK m \in S : \A q \in S : m \notin Kids(h, q)
      BY <1>0 DEF Rooted
    <3>2. QED
      BY <1>5, <2>1, <3>1
  <2>2. CASE ~(S \subseteq B)
    <3>1. S \ B \in SUBSET DOMAIN h /\ S \ B # {}
      BY <2>2
    <3>2. PICK m \in S \ B : \A q \in S \ B : m \notin Kids(h, q)
      BY <1>0, <3>1 DEF Rooted
    <3>3. \A q \in S : m \notin Kids(h, q)
      BY <3>2 DEF Whole
    <3>4. QED
      BY <1>5, <3>2, <3>3
  <2>3. QED
    BY <2>1, <2>2
<1>9. Tree(g)
  BY <1>0, <1>1, <1>6, <1>7, <1>8, TreeIs
<1>10. QED
  BY <1>1, <1>2, <1>5, <1>9 DEF g

\* Two trees that share no object are one, when the second has its parents among
\* the directories of both.
LEMMA Together ==
    ASSUME NEW h, Tree(h), NEW k, DOMAIN k \subseteq Id \ DOMAIN h,
           \A c \in DOMAIN k : /\ k[c] \in Object /\ c # Root
                               /\ Parted(k, c)
                               /\ k[c].parent \in DOMAIN h => h[k[c].parent].isDir
                               /\ k[c].parent \in DOMAIN k => k[k[c].parent].isDir
                               /\ k[c].parent # None => k[c].parent \in DOMAIN h \cup DOMAIN k,
           Rooted(k)
    PROVE  LET g == Joined(h, k) IN
           /\ Tree(g) /\ DOMAIN g = DOMAIN h \cup DOMAIN k
           /\ \A m \in DOMAIN h : g[m] = h[m] /\ Kids(g, m) = Kids(h, m)
           /\ \A c \in DOMAIN k : g[c] = k[c] /\ Kids(g, c) = Kids(k, c)
<1> DEFINE g == Joined(h, k)
<1>1. DOMAIN g = DOMAIN h \cup DOMAIN k
  BY DEF Joined
<1>2. /\ \A m \in DOMAIN h : g[m] = h[m]
      /\ \A c \in DOMAIN k : g[c] = k[c]
  BY DEF Joined
<1> HIDE DEF g
<1>3. /\ \A m \in DOMAIN h : Kids(g, m) = Kids(h, m)
      /\ \A c \in DOMAIN k : Kids(g, c) = Kids(k, c)
  BY <1>2 DEF Kids
<1>4. /\ DOMAIN h \subseteq Id /\ Rooted(h)
      /\ \A m \in DOMAIN h : Alive(h, m) /\ Parted(h, m)
  BY TreeMeans
<1>5. ASSUME NEW m \in DOMAIN h PROVE Alive(g, m) /\ Parted(g, m)
  <2>1. Alive(g, m)
    BY <1>1, <1>2, <1>4 DEF Alive
  <2>2. Parted(h, m) /\ \A c \in Kids(h, m) : c \in DOMAIN h
    BY <1>4 DEF Parted
  <2>3. Parted(g, m)
    BY <1>1, <1>2, <2>2, SameParted
  <2>4. QED
    BY <2>1, <2>3
<1>6. ASSUME NEW c \in DOMAIN k PROVE Alive(g, c) /\ Parted(g, c)
  <2>1. k[c].parent # None => k[c].parent \in DOMAIN g /\ g[k[c].parent].isDir
    BY <1>1, <1>2
  <2>2. Alive(g, c)
    BY <1>2, <2>1 DEF Alive
  <2>3. Parted(k, c) /\ \A d \in Kids(k, c) : d \in DOMAIN k
    BY DEF Parted
  <2>4. Parted(g, c)
    BY <1>1, <1>2, <2>3, SameParted
  <2>5. QED
    BY <2>2, <2>4
<1>7. Rooted(g)
  <2> SUFFICES ASSUME NEW S \in SUBSET (DOMAIN h \cup DOMAIN k), S # {}
               PROVE  \E m \in S : \A p \in S : m \notin Kids(g, p)
    BY <1>1 DEF Rooted
  <2>1. /\ \A m \in DOMAIN h : Kids(g, m) \subseteq DOMAIN h
        /\ \A c \in DOMAIN k : Kids(g, c) \subseteq DOMAIN k
    BY <1>3, <1>4 DEF Parted
  <2>2. CASE S \cap DOMAIN h # {}
    <3>1. PICK m \in S \cap DOMAIN h : \A p \in S \cap DOMAIN h : m \notin Kids(h, p)
      BY <1>4, <2>2 DEF Rooted
    <3>2. \A p \in S : m \notin Kids(g, p)
      BY <1>3, <2>1, <3>1
    <3>3. QED
      BY <3>2
  <2>3. CASE S \cap DOMAIN h = {}
    <3>1. S \in SUBSET DOMAIN k
      BY <2>3
    <3>2. PICK m \in S : \A p \in S : m \notin Kids(k, p)
      BY <3>1 DEF Rooted
    <3>3. QED
      BY <1>3, <3>1, <3>2
  <2>4. QED
    BY <2>2, <2>3
<1>8. Tree(g)
  <2>1. \A m \in DOMAIN g : Alive(g, m) /\ Parted(g, m)
    BY <1>1, <1>5, <1>6
  <2>2. QED
    BY <1>1, <1>4, <1>7, <2>1, TreeIs
<1>9. QED
  BY <1>1, <1>2, <1>3, <1>8 DEF g

\* A new object.
LEMMA Added ==
    ASSUME NEW h, Tree(h), Free(h) # {}, Root \in DOMAIN h,
           NEW p \in DOMAIN h, h[p].isDir, NEW isDir \in BOOLEAN
    PROVE  LET g == Add(h, NewObject(isDir, p)) IN
           /\ Tree(g) /\ Fresh(h) \in Id \ DOMAIN h
           /\ DOMAIN g = DOMAIN h \cup {Fresh(h)}
           /\ \A m \in DOMAIN h : g[m] = h[m] /\ Kids(g, m) = Kids(h, m)
           /\ g[Fresh(h)] = NewObject(isDir, p) /\ Kids(g, Fresh(h)) = {}
<1> DEFINE n == Fresh(h)
           k == [m \in {n} |-> NewObject(isDir, p)]
<1>1. n \in Id \ DOMAIN h
  BY DEF Fresh, Free
<1>2. DOMAIN k = {n} /\ k[n] = NewObject(isDir, p)
  OBVIOUS
<1>3. DOMAIN h \subseteq Id
  BY TreeMeans
<1>4. NewObject(isDir, p) \in Object
  BY <1>3 DEF NewObject, Object
<1> HIDE DEF n, k
<1>5. /\ k[n].dirs = <<>> /\ k[n].entries = <<>> /\ k[n].parent = p
      /\ Kids(k, n) = {} /\ k[n].isDir = isDir
  BY <1>2 DEF NewObject, Kids, ToSet
<1>6. Parted(k, n)
  BY <1>5 DEF Parted, IsInjective, Kids
<1>7. Rooted(k)
  BY <1>2, <1>5 DEF Rooted
<1>8. \A c \in DOMAIN k : /\ k[c] \in Object /\ c # Root
                          /\ Parted(k, c)
                          /\ (k[c].parent \in DOMAIN h => h[k[c].parent].isDir)
                          /\ (k[c].parent \in DOMAIN k => k[k[c].parent].isDir)
                          /\ (k[c].parent # None => k[c].parent \in DOMAIN h \cup DOMAIN k)
  BY <1>1, <1>2, <1>4, <1>5, <1>6
<1>9. QED
  <2> HIDE DEF Add
  <2>1. Add(h, NewObject(isDir, p)) = Joined(h, k)
    BY DEF Add, n, k
  <2>2. DOMAIN k \subseteq Id \ DOMAIN h
    BY <1>1, <1>2
  <2> DEFINE g == Joined(h, k)
  <2>3. /\ Tree(g) /\ DOMAIN g = DOMAIN h \cup DOMAIN k
        /\ \A m \in DOMAIN h : g[m] = h[m] /\ Kids(g, m) = Kids(h, m)
        /\ \A c \in DOMAIN k : g[c] = k[c] /\ Kids(g, c) = Kids(k, c)
    BY <1>7, <1>8, <2>2, Together
  <2> HIDE DEF g
  <2>4. QED
    BY <1>1, <1>2, <1>5, <2>1, <2>3 DEF g, n

\* What is below an object has its parent there, but for the object itself.
LEMMA BelowOne ==
    ASSUME NEW h, Tree(h), NEW n \in DOMAIN h
    PROVE  LET B == Below(h, {n}) IN
           /\ n \in B /\ B \subseteq DOMAIN h /\ Whole(h, B)
           /\ \A m \in B : n \notin Kids(h, m)
           /\ \A m \in B \ {n} : h[m].parent \in B /\ h[h[m].parent].isDir
<1> DEFINE B == Below(h, {n})
<1>1. /\ n \in B /\ B \subseteq DOMAIN h /\ Whole(h, B)
      /\ \A m \in B \ {n} : \E q \in B : m \in Kids(h, q)
  BY BelowIsLeast
<1> HIDE DEF B
<1>2. PICK m \in B : \A q \in B : m \notin Kids(h, q)
  BY <1>1, TreeMeans DEF Rooted
<1>3. m = n
  BY <1>1, <1>2
<1>4. ASSUME NEW e \in B \ {n} PROVE h[e].parent \in B /\ h[h[e].parent].isDir
  <2>1. PICK q \in B : e \in Kids(h, q)
    BY <1>1
  <2>2. Parted(h, q)
    BY <1>1, TreeMeans
  <2>3. QED
    BY <2>1, <2>2 DEF Parted
<1>5. QED
  BY <1>1, <1>2, <1>3, <1>4 DEF B

\* A list of children, copied.
LEMMA TwinList ==
    ASSUME NEW B, NEW F \in SUBSET Id, NEW twin \in Injection(B, F), NEW s \in Seq(Id),
           ToSet(s) \subseteq B
    PROVE  LET t == TwinsOf(twin, s) IN
           /\ t \in Seq(Id)
           /\ \A m \in ToSet(s) : twin[m] \in ToSet(t)
           /\ \A d \in ToSet(t) : \E m \in ToSet(s) : d = twin[m]
           /\ IsInjective(s) => IsInjective(t)
<1> DEFINE t == TwinsOf(twin, s)
<1>1. twin \in [B -> F] /\ \A a, b \in B : twin[a] = twin[b] => a = b
  BY DEF Injection, IsInjective
<1>2. \A i \in 1..Len(s) : s[i] \in B /\ twin[s[i]] \in Id
  BY <1>1 DEF ToSet
<1>3. /\ Len(s) \in Nat /\ DOMAIN s = 1..Len(s)
      /\ t = [i \in 1..Len(s) |-> twin[s[i]]]
  BY DEF TwinsOf
<1> HIDE DEF t
<1>4. t \in Seq(Id)
  BY <1>2, <1>3
<1>5. /\ \A m \in ToSet(s) : twin[m] \in ToSet(t)
      /\ \A d \in ToSet(t) : \E m \in ToSet(s) : d = twin[m]
  BY <1>3 DEF ToSet
<1>6. IsInjective(s) => IsInjective(t)
  BY <1>1, <1>2, <1>3 DEF IsInjective
<1>7. QED
  BY <1>4, <1>5, <1>6 DEF t

\* k holds a copy of each object below n, its twin, and nothing else; the copy of n
\* has the parent p.
AreCopies(h, k, twin, n, p) ==
    /\ twin \in Twins(h, n)
    /\ \A m \in Below(h, {n}) : twin[m] \in DOMAIN k
    /\ \A c \in DOMAIN k : \E m \in Below(h, {n}) : c = twin[m]
    /\ \A m \in Below(h, {n}) :
          k[twin[m]] = CopyOf(h, m, twin, IF m = n THEN p ELSE twin[h[m].parent])

\* A copy, and what it copies.
IsCopy(h, k, twin, m, parent) ==
    LET c == twin[m] IN
    /\ k[c] \in Object /\ k[c].isDir = h[m].isDir /\ k[c].parent = parent
    /\ IsInjective(k[c].dirs) /\ IsInjective(k[c].entries)
    /\ \A e \in ToSet(h[m].dirs) : twin[e] \in ToSet(k[c].dirs)
    /\ \A e \in ToSet(h[m].entries) : twin[e] \in ToSet(k[c].entries)
    /\ \A d \in ToSet(k[c].dirs) : \E e \in ToSet(h[m].dirs) : d = twin[e]
    /\ \A d \in ToSet(k[c].entries) : \E e \in ToSet(h[m].entries) : d = twin[e]

\* An object that CopyOf made is a copy.
LEMMA CopyIs ==
    ASSUME NEW h, NEW k, NEW B, NEW m \in B, Alive(h, m), Parted(h, m), Kids(h, m) \subseteq B,
           NEW twin \in Injection(B, Free(h)),
           NEW parent \in Id, k[twin[m]] = CopyOf(h, m, twin, parent)
    PROVE  IsCopy(h, k, twin, m, parent)
<1>1. h[m] \in Object
  BY DEF Alive
<1>2. h[m].dirs \in Seq(Id) /\ h[m].entries \in Seq(Id) /\ h[m].isDir \in BOOLEAN
  BY <1>1 DEF Object
<1>3. /\ ToSet(h[m].dirs) \subseteq B /\ ToSet(h[m].entries) \subseteq B
      /\ IsInjective(h[m].dirs) /\ IsInjective(h[m].entries)
  BY DEF Kids, Parted
<1>4. Free(h) \in SUBSET Id
  BY DEF Free
<1>0. ASSUME NEW s \in Seq(Id), ToSet(s) \subseteq B
      PROVE  /\ TwinsOf(twin, s) \in Seq(Id)
             /\ \A e \in ToSet(s) : twin[e] \in ToSet(TwinsOf(twin, s))
             /\ \A d \in ToSet(TwinsOf(twin, s)) : \E e \in ToSet(s) : d = twin[e]
             /\ IsInjective(s) => IsInjective(TwinsOf(twin, s))
  BY <1>0, <1>4, TwinList
<1>5. /\ TwinsOf(twin, h[m].dirs) \in Seq(Id) /\ IsInjective(TwinsOf(twin, h[m].dirs))
      /\ \A e \in ToSet(h[m].dirs) : twin[e] \in ToSet(TwinsOf(twin, h[m].dirs))
      /\ \A d \in ToSet(TwinsOf(twin, h[m].dirs)) : \E e \in ToSet(h[m].dirs) : d = twin[e]
  BY <1>0, <1>2, <1>3
<1>6. /\ TwinsOf(twin, h[m].entries) \in Seq(Id) /\ IsInjective(TwinsOf(twin, h[m].entries))
      /\ \A e \in ToSet(h[m].entries) : twin[e] \in ToSet(TwinsOf(twin, h[m].entries))
      /\ \A d \in ToSet(TwinsOf(twin, h[m].entries)) : \E e \in ToSet(h[m].entries) : d = twin[e]
  BY <1>0, <1>2, <1>3
<1>7. k[twin[m]] = [isDir |-> h[m].isDir, parent |-> parent, dirs |-> TwinsOf(twin, h[m].dirs),
                    entries |-> TwinsOf(twin, h[m].entries), open |-> FALSE]
  BY DEF CopyOf
<1>8. k[twin[m]] \in Object
  BY <1>2, <1>5, <1>6, <1>7 DEF Object
<1>9. QED
  BY <1>5, <1>6, <1>7, <1>8 DEF IsCopy

\* The copies hang together as what they copy, below p.
LEMMA Copied ==
    ASSUME NEW h, Tree(h), Root \in DOMAIN h, NEW n \in DOMAIN h,
           NEW p \in DOMAIN h, h[p].isDir, NEW k, NEW twin, AreCopies(h, k, twin, n, p)
    PROVE  /\ DOMAIN k \subseteq Id \ DOMAIN h /\ Rooted(k)
           /\ \A c \in DOMAIN k : /\ k[c] \in Object /\ Parted(k, c)
                                  /\ k[c].parent \in DOMAIN h => k[c].parent = p
                                  /\ k[c].parent \in DOMAIN k => k[k[c].parent].isDir
                                  /\ k[c].parent \in DOMAIN h \cup DOMAIN k
                                  /\ twin[n] \notin Kids(k, c)
           /\ twin[n] \in DOMAIN k /\ k[twin[n]].parent = p
<1> DEFINE B == Below(h, {n})
           par(m) == IF m = n THEN p ELSE twin[h[m].parent]
<1>1. /\ n \in B /\ B \subseteq DOMAIN h /\ Whole(h, B)
      /\ \A m \in B : n \notin Kids(h, m)
      /\ \A m \in B \ {n} : h[m].parent \in B /\ h[h[m].parent].isDir
  BY BelowOne
<1>2. DOMAIN h \subseteq Id /\ Rooted(h) /\ \A m \in DOMAIN h : Alive(h, m) /\ Parted(h, m)
  BY TreeMeans
<1>c. /\ twin \in Injection(B, Free(h))
      /\ \A m \in B : twin[m] \in DOMAIN k
      /\ \A c \in DOMAIN k : \E m \in B : c = twin[m]
      /\ \A m \in B : k[twin[m]] = CopyOf(h, m, twin, par(m))
  BY DEF AreCopies, Twins
<1> HIDE DEF B, par
<1>3. /\ \A m \in B : twin[m] \in Id /\ twin[m] \notin DOMAIN h
      /\ \A a, b \in B : twin[a] = twin[b] => a = b
  BY <1>c DEF Injection, IsInjective, Free
<1>4. DOMAIN k \subseteq Id \ DOMAIN h
  BY <1>3, <1>c
<1>5. ASSUME NEW m \in B, m # n
      PROVE  /\ par(m) = twin[h[m].parent] /\ h[m].parent \in B /\ h[h[m].parent].isDir
  BY <1>1, <1>5 DEF par
<1>6. par(n) = p
  BY DEF par
<1>7. \A m \in B : par(m) \in Id
  BY <1>2, <1>3, <1>5, <1>6
<1>8. ASSUME NEW m \in B PROVE IsCopy(h, k, twin, m, par(m))
  <2>1. Alive(h, m) /\ Parted(h, m) /\ Kids(h, m) \subseteq B
    BY <1>1, <1>2 DEF Whole
  <2>2. k[twin[m]] = CopyOf(h, m, twin, par(m)) /\ par(m) \in Id
    BY <1>7, <1>c
  <2>3. QED
    BY <2>1, <2>2, <1>c, CopyIs
<1>9. ASSUME NEW m \in B, NEW e \in Kids(h, m)
      PROVE  e \in B /\ e # n /\ par(e) = twin[m] /\ h[m].isDir
  <2>1. e \in B /\ e # n
    BY <1>1 DEF Whole
  <2>2. h[e].parent = m /\ h[m].isDir
    BY <1>1, <1>2 DEF Parted
  <2>3. QED
    BY <1>5, <2>1, <2>2
<1>10. ASSUME NEW m \in B, NEW d \in Kids(k, twin[m])
       PROVE  \E e \in Kids(h, m) : d = twin[e]
  BY <1>8 DEF IsCopy, Kids
<1>11. ASSUME NEW m \in B PROVE Parted(k, twin[m])
  <2>1. IsInjective(k[twin[m]].dirs) /\ IsInjective(k[twin[m]].entries)
    BY <1>8 DEF IsCopy
  <2>2. ASSUME NEW d \in Kids(k, twin[m])
        PROVE  /\ d \in DOMAIN k /\ d # Root
               /\ k[d].parent = twin[m] /\ k[twin[m]].isDir
    <3>1. PICK e \in Kids(h, m) : d = twin[e]
      BY <1>10
    <3>2. e \in B /\ par(e) = twin[m] /\ h[m].isDir
      BY <1>9
    <3>3. k[twin[e]].parent = par(e) /\ k[twin[m]].isDir = h[m].isDir
      BY <1>8, <3>2 DEF IsCopy
    <3>4. twin[e] \in DOMAIN k /\ twin[e] # Root
      BY <1>3, <1>c, <3>2
    <3>5. QED
      BY <3>1, <3>2, <3>3, <3>4
  <2>3. ASSUME NEW d \in ToSet(k[twin[m]].dirs) PROVE k[d].isDir
    <3>1. \E e \in ToSet(h[m].dirs) : d = twin[e]
      BY <1>8 DEF IsCopy
    <3>2. PICK e \in ToSet(h[m].dirs) : d = twin[e]
      BY <3>1
    <3>3. e \in B /\ h[e].isDir
      BY <1>1, <1>2 DEF Parted, Whole, Kids
    <3>4. k[twin[e]].isDir = h[e].isDir
      BY <1>8, <3>3 DEF IsCopy
    <3>5. QED
      BY <3>2, <3>3, <3>4
  <2>4. ASSUME NEW d \in ToSet(k[twin[m]].entries) PROVE ~k[d].isDir
    <3>1. \E e \in ToSet(h[m].entries) : d = twin[e]
      BY <1>8 DEF IsCopy
    <3>2. PICK e \in ToSet(h[m].entries) : d = twin[e]
      BY <3>1
    <3>3. e \in B /\ ~h[e].isDir
      BY <1>1, <1>2 DEF Parted, Whole, Kids
    <3>4. k[twin[e]].isDir = h[e].isDir
      BY <1>8, <3>3 DEF IsCopy
    <3>5. QED
      BY <3>2, <3>3, <3>4
  <2>5. QED
    BY <2>1, <2>2, <2>3, <2>4 DEF Parted
<1>12. Rooted(k)
  <2> SUFFICES ASSUME NEW S \in SUBSET DOMAIN k, S # {}
               PROVE  \E c \in S : \A q \in S : c \notin Kids(k, q)
    BY DEF Rooted
  <2> DEFINE T == {m \in B : twin[m] \in S}
  <2>1. T \in SUBSET DOMAIN h /\ T # {}
    <3>1. T \in SUBSET DOMAIN h
      BY <1>1
    <3>2. PICK c \in S : c \in DOMAIN k
      OBVIOUS
    <3>3. PICK m \in B : c = twin[m]
      BY <1>c, <3>2
    <3>4. m \in T
      BY <3>2, <3>3
    <3>5. QED
      BY <3>1, <3>4
  <2>2. \A m : m \in T <=> m \in B /\ twin[m] \in S
    OBVIOUS
  <2> HIDE DEF T
  <2>3. PICK m \in T : \A q \in T : m \notin Kids(h, q)
    BY <1>2, <2>1 DEF Rooted
  <2>4. ASSUME NEW q \in S, twin[m] \in Kids(k, q) PROVE FALSE
    <3>1. PICK r \in B : q = twin[r]
      BY <1>c
    <3>2. twin[m] \in Kids(k, twin[r])
      BY <2>4, <3>1
    <3>3. \E e \in Kids(h, r) : twin[m] = twin[e]
      BY <1>10, <3>2
    <3>4. PICK e \in Kids(h, r) : twin[m] = twin[e]
      BY <3>3
    <3>5. e \in B /\ r \in T
      BY <1>9, <2>2, <3>1
    <3>6. m = e
      BY <1>3, <2>2, <3>4, <3>5
    <3>7. QED
      BY <2>3, <3>4, <3>5, <3>6
  <2>5. QED
    BY <2>2, <2>4
<1>13. ASSUME NEW c \in DOMAIN k
       PROVE  /\ k[c] \in Object /\ Parted(k, c)
              /\ k[c].parent \in DOMAIN h => k[c].parent = p
              /\ k[c].parent \in DOMAIN k => k[k[c].parent].isDir
              /\ k[c].parent \in DOMAIN h \cup DOMAIN k
              /\ twin[n] \notin Kids(k, c)
  <2>1. PICK m \in B : c = twin[m]
    BY <1>c
  <2>2. k[c] \in Object /\ k[c].parent = par(m)
    BY <1>8, <2>1 DEF IsCopy
  <2>3. Parted(k, c)
    BY <1>11, <2>1
  <2>4. twin[n] \notin Kids(k, c)
    <3> SUFFICES ASSUME twin[n] \in Kids(k, twin[m]) PROVE FALSE
      BY <2>1
    <3>1. \E e \in Kids(h, m) : twin[n] = twin[e]
      BY <1>10
    <3>2. PICK e \in Kids(h, m) : twin[n] = twin[e]
      BY <3>1
    <3>3. e \in B /\ e # n
      BY <1>9
    <3>4. QED
      BY <1>1, <1>3, <3>2, <3>3
  <2>5. CASE m = n
    <3>1. k[c].parent = p /\ p \notin DOMAIN k
      BY <1>4, <1>6, <2>2, <2>5
    <3>2. QED
      BY <2>2, <2>3, <2>4, <3>1
  <2>6. CASE m # n
    <3> DEFINE q == h[m].parent
    <3>1. k[c].parent = twin[q] /\ q \in B /\ h[q].isDir
      BY <1>5, <2>2, <2>6
    <3> HIDE DEF q
    <3>2. twin[q] \in DOMAIN k /\ twin[q] \notin DOMAIN h
      BY <1>3, <1>c, <3>1
    <3>3. k[twin[q]].isDir = h[q].isDir
      BY <1>8, <3>1 DEF IsCopy
    <3>4. QED
      BY <2>2, <2>3, <2>4, <3>1, <3>2, <3>3
  <2>7. QED
    BY <2>5, <2>6
<1>14. twin[n] \in DOMAIN k /\ k[twin[n]].parent = p
  BY <1>1, <1>6, <1>8, <1>c DEF IsCopy
<1>15. QED
  BY <1>4, <1>12, <1>13, <1>14

\* A graft leaves the objects that were there, but for a child more in p.
LEMMA Grafted ==
    ASSUME NEW h, Tree(h), Root \in DOMAIN h, NEW n \in DOMAIN h, Twins(h, n) # {},
           NEW p \in DOMAIN h, h[p].isDir
    PROVE  LET g == Graft(h, n, p) IN
           /\ Tree(g) /\ DOMAIN h \subseteq DOMAIN g
           /\ \A m \in DOMAIN h : /\ Kids(h, m) \subseteq Kids(g, m)
                                  /\ g[m].isDir = h[m].isDir /\ g[m].parent = h[m].parent
                                  /\ g[m].open = h[m].open
<1> DEFINE twin == CHOOSE t \in Twins(h, n) : TRUE
           original(c) == CHOOSE m \in DOMAIN twin : twin[m] = c
           par(m) == IF m = n THEN p ELSE twin[h[m].parent]
           k == [c \in {twin[m] : m \in DOMAIN twin} |-> CopyOf(h, original(c), twin, par(original(c)))]
           g == Joined(h, k)
<1>1. Graft(h, n, p) = Insert(g, twin[n], p)
  BY DEF Graft
<1>2. twin \in Twins(h, n)
  OBVIOUS
<1>3. DOMAIN twin = Below(h, {n}) /\ \A a, b \in DOMAIN twin : twin[a] = twin[b] => a = b
  BY <1>2 DEF Twins, Injection, IsInjective
<1> HIDE DEF twin
<1>4. \A m \in DOMAIN twin : original(twin[m]) = m
  BY <1>3
<1> HIDE DEF original
<1>5. /\ \A m \in DOMAIN twin : twin[m] \in DOMAIN k
      /\ \A c \in DOMAIN k : \E m \in DOMAIN twin : c = twin[m]
  OBVIOUS
<1>6. \A m \in DOMAIN twin : k[twin[m]] = CopyOf(h, m, twin, par(m))
  BY <1>4
<1> HIDE DEF k
<1>7. AreCopies(h, k, twin, n, p)
  BY <1>2, <1>3, <1>5, <1>6 DEF AreCopies
<1>8. /\ DOMAIN k \subseteq Id \ DOMAIN h /\ Rooted(k)
      /\ \A c \in DOMAIN k : /\ k[c] \in Object /\ Parted(k, c)
                             /\ k[c].parent \in DOMAIN h => k[c].parent = p
                             /\ k[c].parent \in DOMAIN k => k[k[c].parent].isDir
                             /\ k[c].parent \in DOMAIN h \cup DOMAIN k
                             /\ twin[n] \notin Kids(k, c)
      /\ twin[n] \in DOMAIN k /\ k[twin[n]].parent = p
  BY <1>7, Copied
<1>9. \A c \in DOMAIN k : /\ k[c] \in Object /\ c # Root
                          /\ Parted(k, c)
                          /\ (k[c].parent \in DOMAIN h => h[k[c].parent].isDir)
                          /\ (k[c].parent \in DOMAIN k => k[k[c].parent].isDir)
                          /\ (k[c].parent # None => k[c].parent \in DOMAIN h \cup DOMAIN k)
  BY <1>8
<1>10. /\ Tree(g) /\ DOMAIN g = DOMAIN h \cup DOMAIN k
       /\ \A m \in DOMAIN h : g[m] = h[m] /\ Kids(g, m) = Kids(h, m)
       /\ \A c \in DOMAIN k : g[c] = k[c] /\ Kids(g, c) = Kids(k, c)
  <2>1. DOMAIN k \subseteq Id \ DOMAIN h /\ Rooted(k)
    BY <1>8
  <2>2. QED
    BY <1>9, <2>1, Together
<1> HIDE DEF g
<1>11. \A m \in DOMAIN g : twin[n] \notin Kids(g, m)
  <2>1. \A m \in DOMAIN h : Kids(h, m) \subseteq DOMAIN h
    BY TreeMeans DEF Parted
  <2>2. QED
    BY <1>8, <1>10, <2>1
<1>12. Whole(g, DOMAIN k)
  BY <1>8, <1>10 DEF Whole, Parted
<1> DEFINE c == twin[n]
           B == DOMAIN k
<1>13. /\ c \in DOMAIN g /\ c # Root /\ p \in DOMAIN g /\ g[p].isDir /\ g[c].parent = p
       /\ B \in SUBSET DOMAIN g /\ c \in B /\ p \notin B
  BY <1>8, <1>10
<1>14. Whole(g, B) /\ \A m \in DOMAIN g : c \notin Kids(g, m)
  BY <1>11, <1>12
<1> HIDE DEF c, B
<1>15. LET f == Insert(g, c, p) IN
       /\ Tree(f) /\ DOMAIN f = DOMAIN g
       /\ \A m \in DOMAIN g : /\ Kids(f, m) = Kids(g, m) \cup (IF m = p THEN {c} ELSE {})
                              /\ f[m].isDir = g[m].isDir /\ f[m].parent = g[m].parent
                              /\ f[m].open = g[m].open
  BY <1>10, <1>13, <1>14, Inserted
<1>16. LET f == Insert(g, c, p) IN
       /\ Tree(f) /\ DOMAIN f = DOMAIN g
       /\ \A m \in DOMAIN g : /\ Kids(g, m) \subseteq Kids(f, m)
                              /\ f[m].isDir = g[m].isDir /\ f[m].parent = g[m].parent
                              /\ f[m].open = g[m].open
  BY <1>15
<1>17. QED
  BY <1>1, <1>10, <1>16 DEF c

\* A list without one of its elements, wherever it was.
LEMMA WithoutOne ==
    ASSUME NEW s \in Seq(Id), IsInjective(s), NEW i \in DOMAIN s
    PROVE  /\ RemoveAt(s, i) \in Seq(Id) /\ IsInjective(RemoveAt(s, i))
           /\ ToSet(RemoveAt(s, i)) = ToSet(s) \ {s[i]}
<1> DEFINE t == RemoveAt(s, i)
           a == SubSeq(s, 1, i - 1)
           b == SubSeq(s, i + 1, Len(s))
<1>1. Len(s) \in Nat /\ DOMAIN s = 1..Len(s) /\ i \in 1..Len(s)
  OBVIOUS
<1>2. /\ a \in Seq(Id) /\ Len(a) = i - 1
      /\ \A j \in 1..(i - 1) : a[j] = s[j]
  BY <1>1
<1>3. /\ b \in Seq(Id) /\ Len(b) = Len(s) - i
      /\ \A j \in 1..(Len(s) - i) : b[j] = s[i + j]
  BY <1>1
<1>4. t = a \o b
  BY DEF RemoveAt
<1> HIDE DEF t, a, b
<1>5. t \in Seq(Id)
  BY <1>2, <1>3, <1>4
<1>6. /\ DOMAIN a = 1..(i - 1) /\ DOMAIN b = 1..(Len(s) - i)
  BY <1>2, <1>3
<1>7. ToSet(t) = ToSet(a) \cup ToSet(b)
  BY <1>2, <1>3, <1>4, ToSetJoined
<1>8. /\ \A e \in ToSet(a) : \E j \in 1..(i - 1) : e = s[j]
      /\ \A j \in 1..(i - 1) : s[j] \in ToSet(a)
      /\ \A e \in ToSet(b) : \E j \in (i + 1)..Len(s) : e = s[j]
  <2>1. \A e \in ToSet(b) : \E x \in 1..(Len(s) - i) : e = s[i + x]
    BY <1>3, <1>6 DEF ToSet
  <2>2. \A x \in 1..(Len(s) - i) : i + x \in (i + 1)..Len(s)
    BY <1>1
  <2>3. \A e \in ToSet(b) : \E j \in (i + 1)..Len(s) : e = s[j]
    BY <2>1, <2>2
  <2>4. QED
    BY <1>1, <1>2, <1>6, <2>3 DEF ToSet
<1>9. \A j \in (i + 1)..Len(s) : s[j] \in ToSet(b)
  <2> SUFFICES ASSUME NEW j \in (i + 1)..Len(s) PROVE s[j] \in ToSet(b)
    OBVIOUS
  <2> DEFINE x == j - i
  <2>1. x \in 1..(Len(s) - i) /\ i + x = j
    BY <1>1
  <2> HIDE DEF x
  <2>2. b[x] = s[j]
    BY <1>3, <2>1
  <2>3. QED
    BY <1>6, <2>1, <2>2 DEF ToSet
<1>10. \A j \in 1..Len(s) : j # i => j \in 1..(i - 1) \/ j \in (i + 1)..Len(s)
  BY <1>1
<1>11. ToSet(t) = ToSet(s) \ {s[i]}
  <2>1. ASSUME NEW e \in ToSet(t) PROVE e \in ToSet(s) /\ e # s[i]
    <3>1. \E j \in 1..Len(s) : j # i /\ e = s[j]
      BY <1>1, <1>7, <1>8
    <3>2. QED
      BY <1>1, <3>1 DEF ToSet, IsInjective
  <2>2. ASSUME NEW e \in ToSet(s), e # s[i] PROVE e \in ToSet(t)
    <3>1. PICK j \in 1..Len(s) : e = s[j]
      BY <1>1 DEF ToSet
    <3>2. j \in 1..(i - 1) \/ j \in (i + 1)..Len(s)
      BY <1>10, <2>2, <3>1
    <3>3. QED
      BY <1>7, <1>8, <1>9, <3>1, <3>2
  <2>3. QED
    BY <2>1, <2>2
<1>12. IsInjective(a) /\ IsInjective(b)
  <2>1. IsInjective(a)
    BY <1>1, <1>2, <1>6 DEF IsInjective
  <2>2. ASSUME NEW x \in 1..(Len(s) - i), NEW y \in 1..(Len(s) - i), b[x] = b[y] PROVE x = y
    <3>1. /\ i + x \in DOMAIN s /\ i + y \in DOMAIN s /\ s[i + x] = s[i + y]
      BY <1>1, <1>3, <2>2
    <3>2. i + x = i + y
      BY <3>1 DEF IsInjective
    <3>3. QED
      BY <3>2, <1>1
  <2>3. QED
    BY <1>6, <2>1, <2>2 DEF IsInjective
<1>13. ToSet(a) \cap ToSet(b) = {}
  <2> SUFFICES ASSUME NEW e \in ToSet(a), e \in ToSet(b) PROVE FALSE
    OBVIOUS
  <2>1. PICK x \in 1..(i - 1) : e = s[x]
    BY <1>8
  <2>2. PICK y \in (i + 1)..Len(s) : e = s[y]
    BY <1>8
  <2>3. x \in DOMAIN s /\ y \in DOMAIN s /\ x # y
    BY <1>1, <2>1, <2>2
  <2>4. QED
    BY <2>1, <2>2, <2>3 DEF IsInjective
<1>14. IsInjective(t)
  BY <1>2, <1>3, <1>4, <1>12, <1>13, InjectiveJoined
<1>15. QED
  BY <1>5, <1>11, <1>14 DEF t

\* Erase takes an object from its parent.
LEMMA Erased ==
    ASSUME NEW h, Tree(h), NEW n \in DOMAIN h, NEW p \in DOMAIN h, h[n].parent = p,
           n \in Kids(h, p)
    PROVE  LET g == Erase(h, n) IN
           /\ Tree(g) /\ DOMAIN g = DOMAIN h
           /\ \A m \in DOMAIN h : /\ Kids(g, m) = Kids(h, m) \ {n}
                                  /\ g[m].isDir = h[m].isDir /\ g[m].parent = h[m].parent
                                  /\ g[m].open = h[m].open
<1> DEFINE g == Erase(h, n)
           Without(s) == IF n \in ToSet(s) THEN RemoveAt(s, CHOOSE i \in DOMAIN s : s[i] = n) ELSE s
<1>0. /\ DOMAIN h \subseteq Id /\ Rooted(h)
      /\ \A m \in DOMAIN h : Alive(h, m) /\ Parted(h, m)
  BY TreeMeans
<1>1. DOMAIN g = DOMAIN h
  BY DEF Erase
<1>2. ASSUME NEW s \in Seq(Id), IsInjective(s)
      PROVE  /\ Without(s) \in Seq(Id) /\ IsInjective(Without(s))
             /\ ToSet(Without(s)) = ToSet(s) \ {n}
  <2>1. CASE n \in ToSet(s)
    <3> DEFINE i == CHOOSE i \in DOMAIN s : s[i] = n
    <3>1. \E j \in DOMAIN s : s[j] = n
      BY <2>1 DEF ToSet
    <3>2. i \in DOMAIN s /\ s[i] = n
      BY <3>1
    <3>3. Without(s) = RemoveAt(s, i)
      BY <2>1
    <3> HIDE DEF i, Without
    <3>4. QED
      BY <1>2, <3>2, <3>3, WithoutOne
  <2>2. CASE n \notin ToSet(s)
    BY <1>2, <2>2
  <2>3. QED
    BY <2>1, <2>2
<1>3. g = IF h[n].isDir THEN [h EXCEPT ![p].dirs = Without(@)]
                        ELSE [h EXCEPT ![p].entries = Without(@)]
  BY DEF Erase
<1> HIDE DEF g, Without
<1>4. h[p] \in Object /\ h[p].dirs \in Seq(Id) /\ h[p].entries \in Seq(Id) /\ h[p].isDir \in BOOLEAN
  <2>1. h[p] \in Object
    BY <1>0 DEF Alive
  <2>2. QED
    BY <2>1 DEF Object
<1>5. IsInjective(h[p].dirs) /\ IsInjective(h[p].entries) /\ Parted(h, p)
  BY <1>0 DEF Parted
<1>6. \A m \in DOMAIN h : m # p => g[m] = h[m]
  BY <1>3
<1>7. /\ g[p].dirs = (IF h[n].isDir THEN Without(h[p].dirs) ELSE h[p].dirs)
      /\ g[p].entries = (IF h[n].isDir THEN h[p].entries ELSE Without(h[p].entries))
      /\ g[p].parent = h[p].parent /\ g[p].isDir = h[p].isDir /\ g[p].open = h[p].open
      /\ g[p] \in Object
  <2> DEFINE d == Without(h[p].dirs)
             e == Without(h[p].entries)
  <2>1. d \in Seq(Id) /\ e \in Seq(Id)
    BY <1>2, <1>4, <1>5
  <2> HIDE DEF d, e
  <2>2. CASE h[n].isDir
    <3>1. g[p] = [h[p] EXCEPT !.dirs = d]
      BY <1>3, <2>2 DEF d
    <3>2. QED
      BY <1>4, <2>1, <2>2, <3>1 DEF Object, d
  <2>3. CASE ~h[n].isDir
    <3>1. g[p] = [h[p] EXCEPT !.entries = e]
      BY <1>3, <2>3 DEF e
    <3>2. QED
      BY <1>4, <2>1, <2>3, <3>1 DEF Object, e
  <2>4. QED
    BY <2>2, <2>3
<1>8. /\ ToSet(g[p].dirs) = ToSet(h[p].dirs) \ {n}
      /\ ToSet(g[p].entries) = ToSet(h[p].entries) \ {n}
      /\ IsInjective(g[p].dirs) /\ IsInjective(g[p].entries)
  <2>1. CASE h[n].isDir
    <3>1. n \notin ToSet(h[p].entries)
      BY <1>5, <2>1 DEF Parted
    <3>2. QED
      BY <1>2, <1>4, <1>5, <1>7, <2>1, <3>1
  <2>2. CASE ~h[n].isDir
    <3>1. n \notin ToSet(h[p].dirs)
      BY <1>5, <2>2 DEF Parted
    <3>2. QED
      BY <1>2, <1>4, <1>5, <1>7, <2>2, <3>1
  <2>3. QED
    BY <2>1, <2>2
<1>9. \A m \in DOMAIN h : /\ g[m].isDir = h[m].isDir /\ g[m].parent = h[m].parent
                         /\ g[m].open = h[m].open /\ g[m] \in Object
  BY <1>0, <1>6, <1>7 DEF Alive
<1>10. \A m \in DOMAIN h : Kids(g, m) = Kids(h, m) \ {n}
  <2>1. Kids(g, p) = Kids(h, p) \ {n}
    BY <1>8 DEF Kids
  <2>2. ASSUME NEW m \in DOMAIN h, m # p PROVE Kids(g, m) = Kids(h, m) \ {n}
    <3>1. Kids(g, m) = Kids(h, m)
      BY <1>6, <2>2 DEF Kids
    <3>2. n \notin Kids(h, m)
      BY <1>0, <2>2 DEF Parted
    <3>3. QED
      BY <3>1, <3>2
  <2>3. QED
    BY <2>1, <2>2
<1>11. ASSUME NEW m \in DOMAIN h PROVE Alive(g, m)
  <2>1. Alive(h, m) /\ g[m].parent = h[m].parent /\ g[m].isDir = h[m].isDir /\ g[m] \in Object
    BY <1>0, <1>9
  <2>2. h[m].parent # None => h[m].parent \in DOMAIN g /\ g[h[m].parent].isDir
    BY <1>1, <1>9, <2>1 DEF Alive
  <2>3. QED
    BY <2>1, <2>2 DEF Alive
<1>12. ASSUME NEW m \in DOMAIN h PROVE Parted(g, m)
  <2>1. Parted(h, m)
    BY <1>0
  <2>2. CASE m # p
    <3>1. g[m] = h[m] /\ \A c \in Kids(h, m) : c \in DOMAIN h
      BY <1>6, <2>1, <2>2 DEF Parted
    <3>2. QED
      BY <1>1, <1>9, <2>1, <3>1, SameParted
  <2>3. CASE m = p
    <3>1. \A c \in Kids(h, p) : c \in DOMAIN h /\ c # Root /\ h[c].parent = p /\ h[p].isDir
      BY <2>1, <2>3 DEF Parted
    <3>2. \A c \in Kids(g, p) : c \in DOMAIN g /\ c # Root /\ g[c].parent = p /\ g[p].isDir
      BY <1>1, <1>9, <1>10, <3>1
    <3>3. /\ \A c \in ToSet(h[p].dirs) : c \in DOMAIN h /\ h[c].isDir
          /\ \A c \in ToSet(h[p].entries) : c \in DOMAIN h /\ ~h[c].isDir
      BY <2>1, <2>3 DEF Parted, Kids
    <3>4. /\ \A c \in ToSet(g[p].dirs) : g[c].isDir
          /\ \A c \in ToSet(g[p].entries) : ~g[c].isDir
      BY <1>8, <1>9, <3>3
    <3>5. QED
      BY <1>8, <2>3, <3>2, <3>4 DEF Parted
  <2>4. QED
    BY <2>2, <2>3
<1>13. Rooted(g)
  <2> SUFFICES ASSUME NEW S \in SUBSET DOMAIN h, S # {}
               PROVE  \E m \in S : \A q \in S : m \notin Kids(g, q)
    BY <1>1 DEF Rooted
  <2>1. PICK m \in S : \A q \in S : m \notin Kids(h, q)
    BY <1>0 DEF Rooted
  <2>2. QED
    BY <1>10, <2>1
<1>14. Tree(g)
  BY <1>0, <1>1, <1>11, <1>12, <1>13, TreeIs
<1>15. QED
  BY <1>1, <1>9, <1>10, <1>14 DEF g

\* What survives a step: what is held, and all below it.
LEMMA Reclaimed ==
    ASSUME NEW g, Tree(g), Held' \subseteq DOMAIN g, heap' = Reclaim(g)
    PROVE  /\ Tree(heap') /\ Held' \subseteq DOMAIN heap' /\ DOMAIN heap' \subseteq DOMAIN g
           /\ \A m \in DOMAIN heap' :
                 /\ Kids(heap', m) = Kids(g, m) /\ heap'[m].isDir = g[m].isDir
                 /\ heap'[m].parent =
                       IF g[m].parent \in DOMAIN heap' THEN g[m].parent ELSE None
<1> DEFINE H == Held'
           A == Below(g, H)
           f == Only(g, A)
<1>1. heap' = f
  BY DEF Reclaim
<1>2. H \in SUBSET DOMAIN g
  OBVIOUS
<1> HIDE DEF H
<1>3. H \subseteq A /\ A \in SUBSET DOMAIN g /\ Whole(g, A)
  BY <1>2, BelowIsLeast
<1> HIDE DEF A
<1>4. /\ Tree(f) /\ DOMAIN f = A
      /\ \A m \in A : /\ Kids(f, m) = Kids(g, m)
                      /\ f[m].isDir = g[m].isDir
                      /\ f[m].parent = IF g[m].parent \in A THEN g[m].parent ELSE None
  BY <1>3, Trimmed
<1> HIDE DEF f
<1>5. QED
  BY <1>1, <1>3, <1>4 DEF H

\* A list of forms or requests, over the objects that survive.
LEMMA FormsSurvive ==
    ASSUME NEW D, NEW E, NEW s \in Seq(Forms(D)), \A f \in ToSet(s) : f.node \in E \cup {None}
    PROVE  s \in Seq(Forms(E))
<1>1. Len(s) \in Nat /\ DOMAIN s = 1..Len(s)
  OBVIOUS
<1>2. ASSUME NEW i \in 1..Len(s) PROVE s[i] \in Forms(E)
  <2>1. s[i] \in Forms(D) /\ s[i] \in ToSet(s)
    BY <1>1 DEF ToSet
  <2>2. s[i] \in [kind : Kinds, node : D \cup {None}, done : BOOLEAN]
        /\ (s[i].kind = "delete" => s[i].node # None) /\ s[i].node \in E \cup {None}
    BY <2>1 DEF Forms
  <2>3. s[i] \in [kind : Kinds, node : E \cup {None}, done : BOOLEAN]
    BY <2>2
  <2>4. QED
    BY <2>2, <2>3 DEF Forms
<1>3. QED
  BY <1>1, <1>2

\* The same for a list of requests.
LEMMA RequestsSurvive ==
    ASSUME NEW D, NEW E, NEW s \in Seq(Requests(D)),
           \A r \in ToSet(s) : r.op = "push" => r.form.node \in E \cup {None}
    PROVE  s \in Seq(Requests(E))
<1>1. Len(s) \in Nat /\ DOMAIN s = 1..Len(s)
  OBVIOUS
<1>2. ASSUME NEW i \in 1..Len(s) PROVE s[i] \in Requests(E)
  <2>1. s[i] \in Requests(D) /\ s[i] \in ToSet(s)
    BY <1>1 DEF ToSet
  <2>2. CASE s[i] = Pop
    BY <2>2 DEF Requests
  <2>3. CASE s[i] \in [op : {"push"}, form : Forms(D)]
    <3> DEFINE f == s[i].form
    <3>1. f \in Forms(D) /\ f.node \in E \cup {None} /\ s[i] = [op |-> "push", form |-> f]
      BY <2>1, <2>3
    <3> HIDE DEF f
    <3>2. f \in [kind : Kinds, node : D \cup {None}, done : BOOLEAN]
          /\ (f.kind = "delete" => f.node # None)
      BY <3>1 DEF Forms
    <3>3. f \in [kind : Kinds, node : E \cup {None}, done : BOOLEAN]
      BY <3>1, <3>2
    <3>4. f \in Forms(E)
      BY <3>2, <3>3 DEF Forms
    <3>5. QED
      BY <3>1, <3>4 DEF Requests
  <2>4. QED
    BY <2>1, <2>2, <2>3 DEF Requests
<1>3. QED
  BY <1>1, <1>2

\* What refers to objects of g refers to objects that survive.
LEMMA HeldSurvives ==
    ASSUME NEW g, Tree(g), heap' = Reclaim(g),
           rows' \in Seq(DOMAIN g), clipboard' \in DOMAIN g \cup {None},
           ~closed' => Root \in DOMAIN g,
           forms' \in Seq(Forms(DOMAIN g)), requests' \in Seq(Requests(DOMAIN g))
    PROVE  /\ Tree(heap') /\ DOMAIN heap' \subseteq DOMAIN g
           /\ \A m \in DOMAIN heap' :
                 /\ Kids(heap', m) = Kids(g, m) /\ heap'[m].isDir = g[m].isDir
                 /\ heap'[m].parent =
                       IF g[m].parent \in DOMAIN heap' THEN g[m].parent ELSE None
           /\ rows' \in Seq(DOMAIN heap') /\ clipboard' \in DOMAIN heap' \cup {None}
           /\ ~closed' => Root \in DOMAIN heap'
           /\ forms' \in Seq(Forms(DOMAIN heap')) /\ requests' \in Seq(Requests(DOMAIN heap'))
<1>0. None \notin Id /\ DOMAIN g \subseteq Id /\ Root \in Id
  BY IdAssumption, TreeMeans
<1>1. ToSet(rows') \subseteq DOMAIN g
  BY DEF ToSet
<1>2. \A f \in ToSet(forms') : f \in Forms(DOMAIN g)
  BY DEF ToSet
<1>3. \A r \in ToSet(requests') : r \in Requests(DOMAIN g)
  BY DEF ToSet
<1>4. \A f \in Forms(DOMAIN g) : f.node \in DOMAIN g \cup {None}
  BY DEF Forms
<1>5. \A r \in Requests(DOMAIN g) : r.op = "push" => r.form \in Forms(DOMAIN g)
  BY DEF Requests, Pop
<1>6. Held' = ({clipboard'} \cup ToSet(rows') \cup (IF closed' THEN {} ELSE {Root})
                \cup {f.node : f \in ToSet(forms')}
                \cup {r.form.node : r \in {q \in ToSet(requests') : q.op = "push"}}) \ {None}
  BY DEF Held
<1>7. Held' \subseteq DOMAIN g
  BY <1>1, <1>2, <1>3, <1>4, <1>5, <1>6
<1>8. /\ Tree(heap') /\ Held' \subseteq DOMAIN heap' /\ DOMAIN heap' \subseteq DOMAIN g
      /\ \A m \in DOMAIN heap' :
            /\ Kids(heap', m) = Kids(g, m) /\ heap'[m].isDir = g[m].isDir
            /\ heap'[m].parent =
                  IF g[m].parent \in DOMAIN heap' THEN g[m].parent ELSE None
  BY <1>7, Reclaimed
<1>9. ToSet(rows') \subseteq DOMAIN heap'
  BY <1>0, <1>1, <1>6, <1>8
<1>10. rows' \in Seq(DOMAIN heap')
  BY <1>9 DEF ToSet
<1>11. clipboard' \in DOMAIN heap' \cup {None} /\ (~closed' => Root \in DOMAIN heap')
  BY <1>0, <1>6, <1>8
<1>12. \A f \in ToSet(forms') : f.node \in DOMAIN heap' \cup {None}
  BY <1>6, <1>8
<1>13. \A r \in ToSet(requests') : r.op = "push" => r.form.node \in DOMAIN heap' \cup {None}
  BY <1>6, <1>8
<1>14. forms' \in Seq(Forms(DOMAIN heap'))
  BY <1>12, FormsSurvive
<1>15. requests' \in Seq(Requests(DOMAIN heap'))
  BY <1>13, RequestsSurvive
<1>16. QED
  BY <1>8, <1>10, <1>11, <1>14, <1>15

-----------------------------------------------------------------------------
(* The rows. *)

\* A set of numbers has a least one.
LEMMA LeastNat ==
    ASSUME NEW T \in SUBSET Nat, T # {} PROVE \E x \in T : \A y \in T : x <= y
<1> DEFINE R == OpToRel(<, Nat)
<1>1. \A x, y \in Nat : x < y => <<x, y>> \in R
  BY DEF OpToRel
<1>2. IsWellFoundedOn(R, Nat)
  BY NatLessThanWellFounded
<1> HIDE DEF R
<1>3. \E x \in T : \A y \in T : ~ (<<y, x>> \in R)
  BY <1>2, WFMin
<1>4. PICK x \in T : \A y \in T : ~ (<<y, x>> \in R)
  BY <1>3
<1>5. \A y \in T : ~ (y < x)
  BY <1>1, <1>4
<1>6. QED
  BY <1>5

\* Induction up to n.
LEMMA InductionUpTo ==
    ASSUME NEW n \in Nat, NEW G \in SUBSET (0..n), 0 \in G,
           \A k \in G : k < n => k + 1 \in G
    PROVE  G = 0..n
<1> DEFINE T == (0..n) \ G
<1>1. SUFFICES ASSUME T # {} PROVE FALSE
  OBVIOUS
<1>2. PICK x \in T : \A y \in T : x <= y
  <2>1. T \in SUBSET Nat
    OBVIOUS
  <2> HIDE DEF T
  <2>2. QED
    BY <1>1, <2>1, LeastNat
<1>3. x - 1 \in 0..n /\ x - 1 \notin T
  BY <1>2
<1>4. QED
  BY <1>2, <1>3

\* n steps from s0 on.
IsRun(w, n, S, s0, step) ==
    w \in [0..n -> S] /\ w[0] = s0 /\ \A i \in 1..n : w[i] = step[w[i - 1]]

\* A run of n steps from s0 on exists.
LEMMA RunExists ==
    ASSUME NEW n \in Nat, NEW S, NEW s0 \in S, NEW step \in [S -> S]
    PROVE  \E w : IsRun(w, n, S, s0, step)
<1> DEFINE Run(w, k) == w[0] = s0 /\ \A i \in 1..k : w[i] = step[w[i - 1]]
           G == {k \in 0..n : \E w \in [0..n -> S] : Run(w, k)}
<1>1. 0 \in G
  <2>1. Run([k \in 0..n |-> s0], 0) /\ [k \in 0..n |-> s0] \in [0..n -> S] /\ 0 \in 0..n
    OBVIOUS
  <2> HIDE DEF Run
  <2>2. QED
    BY <2>1
<1>2. ASSUME NEW k \in G, k < n PROVE k + 1 \in G
  <2>1. PICK w \in [0..n -> S] : Run(w, k)
    OBVIOUS
  <2> DEFINE v == [w EXCEPT ![k + 1] = step[w[k]]]
  <2>2. v \in [0..n -> S] /\ Run(v, k + 1) /\ k + 1 \in 0..n
    BY <1>2, <2>1
  <2> HIDE DEF Run, v
  <2>3. QED
    BY <2>2
<1>3. n \in G
  <2> HIDE DEF G
  <2>1. G \subseteq 0..n
    BY DEF G
  <2>2. G = 0..n
    BY <1>1, <1>2, <2>1, InductionUpTo
  <2>3. QED
    BY <2>2
<1>4. QED
  BY <1>3 DEF IsRun

\* What is known of the rows and the work list after some rounds.
Listed(h, st) ==
    /\ st.rv \in Seq(DOMAIN h) /\ st.to_visit \in Seq(DOMAIN h)
    /\ \A m \in ToSet(st.rv) \cup ToSet(st.to_visit) :
          m # Root => \E p \in ToSet(st.rv) : m \in Kids(h, p)

\* A round keeps it.
LEMMA RoundLists ==
    ASSUME NEW h, Tree(h),
           NEW st \in [rv : Seq(DOMAIN h), to_visit : Seq(DOMAIN h)]
    PROVE  /\ Round(h, st) \in [rv : Seq(DOMAIN h), to_visit : Seq(DOMAIN h)]
           /\ Listed(h, st) => Listed(h, Round(h, st))
           /\ ToSet(st.rv) \subseteq ToSet(Round(h, st).rv)
           /\ st.to_visit # <<>> => Head(st.to_visit) \in ToSet(Round(h, st).rv)
<1>1. CASE st.to_visit = <<>>
  BY <1>1 DEF Round
<1>2. CASE st.to_visit # <<>>
  <2> DEFINE D == DOMAIN h
             v == st.to_visit
             n == Head(v)
             t == Tail(v)
             s == Shown(h, n)
             rv == Append(st.rv, n)
             to_visit == s \o t
  <2> DEFINE next == Round(h, st)
  <2>1. next = [rv |-> rv, to_visit |-> to_visit]
    BY <1>2 DEF Round
  <2>2. st.rv \in Seq(D) /\ v \in Seq(D) /\ v # <<>>
    BY <1>2
  <2> HIDE DEF v
  <2>3. n \in D /\ t \in Seq(D)
    BY <2>2
  <2> DEFINE u == <<n>>
  <2>4. v = u \o t /\ u \in Seq(D)
    BY <2>2, <2>3
  <2> HIDE DEF n, t
  <2>5. ToSet(v) = {n} \cup ToSet(t)
    <3>1. ToSet(u) = {n}
      BY DEF ToSet
    <3> HIDE DEF u, D
    <3>2. ToSet(u \o t) = ToSet(u) \cup ToSet(t)
      BY <2>3, <2>4, ToSetJoined
    <3>3. QED
      BY <2>4, <3>1, <3>2
  <2>6. rv \in Seq(D) /\ ToSet(rv) = ToSet(st.rv) \cup {n}
    <3>1. D \subseteq Id
      BY TreeMeans
    <3>2. n \in Id /\ st.rv \in Seq(Id)
      BY <2>2, <2>3, <3>1
    <3>3. QED
      BY <2>2, <2>3, <3>2, Joined1
  <2>7. s \in Seq(D) /\ ToSet(s) \subseteq Kids(h, n)
    <3>1. h[n] \in Object /\ Parted(h, n)
      BY <2>3, TreeMeans DEF Alive
    <3>2. ToSet(Children(h, n)) = Kids(h, n) /\ Kids(h, n) \subseteq D
      BY <2>3, <3>1, ChildrenAreKids DEF Parted
    <3>3. Children(h, n) \in Seq(Id)
      BY <3>1 DEF Object, Children
    <3>4. Children(h, n) \in Seq(D)
      BY <3>2, <3>3 DEF ToSet
    <3>5. s = Children(h, n) \/ s = <<>>
      BY DEF Shown
    <3>6. CASE s = <<>>
      <4>1. ToSet(s) = {} /\ s \in Seq(D)
        BY <3>6 DEF ToSet
      <4>2. QED
        BY <4>1
    <3>7. CASE s = Children(h, n)
      BY <3>2, <3>4, <3>7
    <3>8. QED
      BY <3>5, <3>6, <3>7
  <2> HIDE DEF s
  <2>8. to_visit \in Seq(D) /\ ToSet(to_visit) = ToSet(s) \cup ToSet(t)
    BY <2>3, <2>7, ToSetJoined
  <2> HIDE DEF rv, to_visit, next
  <2>a. next.rv = rv /\ next.to_visit = to_visit /\ next \in [rv : Seq(D), to_visit : Seq(D)]
    BY <2>1, <2>6, <2>8
  <2>9. ASSUME Listed(h, st) PROVE Listed(h, next)
    <3>1. \A m \in ToSet(st.rv) \cup ToSet(v) :
             m # Root => \E p \in ToSet(st.rv) : m \in Kids(h, p)
      BY <2>9 DEF Listed, v
    <3>2. ASSUME NEW m \in ToSet(rv) \cup ToSet(to_visit), m # Root
          PROVE  \E p \in ToSet(rv) : m \in Kids(h, p)
      <4>1. m \in ToSet(st.rv) \cup ToSet(v) \/ m \in ToSet(s)
        BY <2>5, <2>6, <2>8
      <4>2. QED
        BY <2>6, <2>7, <3>1, <3>2, <4>1
    <3>3. QED
      BY <2>a, <2>6, <2>8, <3>2 DEF Listed
  <2>10. ToSet(st.rv) \subseteq ToSet(next.rv) /\ Head(st.to_visit) \in ToSet(next.rv)
    BY <2>a, <2>6 DEF n, v
  <2>11. QED
    BY <2>a, <2>9, <2>10 DEF next
<1>3. QED
  BY <1>1, <1>2

\* The rounds of the loop.
IsLoop(h, L) ==
    /\ L[0] = [rv |-> <<>>, to_visit |-> <<Root>>]
    /\ \A k \in 0..Cardinality(Id) : k < Cardinality(Id) => L[k + 1] = Round(h, L[k])
    /\ Flatten(h) = L[Cardinality(Id)].rv

\* There are such rounds.
LEMMA LoopExists ==
    ASSUME NEW h, Tree(h), Root \in DOMAIN h PROVE \E L : IsLoop(h, L)
<1> DEFINE N == Cardinality(Id)
           S == [rv : Seq(DOMAIN h), to_visit : Seq(DOMAIN h)]
           s0 == [rv |-> <<>>, to_visit |-> <<Root>>]
           step == [st \in S |-> Round(h, st)]
           Is(w) == w = [k \in 0..N |-> IF k = 0 THEN s0 ELSE Round(h, w[k - 1])]
           Loop == CHOOSE w : Is(w)
<1>1. Flatten(h) = Loop[N].rv
  BY DEF Flatten
<1>2. N \in Nat /\ N > 0
  BY IdAssumption, FS_CardinalityType, FS_EmptySet
<1>3. s0 \in S
  OBVIOUS
<1>4. step \in [S -> S]
  BY RoundLists
<1>5. \A st \in S : step[st] = Round(h, st)
  OBVIOUS
<1> HIDE DEF N, S, s0, step
<1>6. PICK w : IsRun(w, N, S, s0, step)
  BY <1>2, <1>3, <1>4, RunExists
<1>7. Is(w)
  <2>1. w \in [0..N -> S] /\ w[0] = s0 /\ \A k \in 1..N : w[k] = step[w[k - 1]]
    BY <1>6 DEF IsRun
  <2>2. ASSUME NEW k \in 0..N PROVE w[k] = IF k = 0 THEN s0 ELSE Round(h, w[k - 1])
    <3>1. k # 0 => k \in 1..N /\ k - 1 \in 0..N
      BY <1>2
    <3>2. QED
      BY <1>5, <2>1, <3>1
  <2>3. w = [k \in 0..N |-> w[k]]
    BY <2>1
  <2>4. QED
    BY <2>2, <2>3
<1>8. Is(Loop)
  <2> HIDE DEF Is
  <2>1. QED
    BY <1>7
<1> HIDE DEF Loop
<1>9. Loop[0] = s0 /\ \A k \in 0..N : k < N => Loop[k + 1] = Round(h, Loop[k])
  BY <1>2, <1>8
<1> HIDE DEF Is
<1>10. IsLoop(h, Loop)
  BY <1>1, <1>9 DEF IsLoop, N, s0
<1>11. QED
  BY <1>10

\* flatten_dirs lists the root, and what hangs from something it lists.
LEMMA FlattenLists ==
    ASSUME NEW h, Tree(h), Root \in DOMAIN h
    PROVE  /\ Flatten(h) \in Seq(DOMAIN h) /\ Root \in ToSet(Flatten(h))
           /\ \A m \in ToSet(Flatten(h)) \ {Root} : \E p \in ToSet(Flatten(h)) : m \in Kids(h, p)
<1> DEFINE N == Cardinality(Id)
           S == [rv : Seq(DOMAIN h), to_visit : Seq(DOMAIN h)]
           s0 == [rv |-> <<>>, to_visit |-> <<Root>>]
<1>1. PICK Loop : IsLoop(h, Loop)
  BY LoopExists
<1>2. N \in Nat /\ N > 0
  BY IdAssumption, FS_CardinalityType, FS_EmptySet
<1>3. s0 \in S
  OBVIOUS
<1> HIDE DEF N, S, s0
<1>4. /\ Loop[0] = s0 /\ \A k \in 0..N : k < N => Loop[k + 1] = Round(h, Loop[k])
      /\ Flatten(h) = Loop[N].rv
  BY <1>1 DEF IsLoop, N, s0
<1> DEFINE Good(k) == /\ Loop[k] \in S /\ Listed(h, Loop[k])
                      /\ k > 0 => Root \in ToSet(Loop[k].rv)
           G == {k \in 0..N : Good(k)}
<1>5. 0 \in G
  <2>1. Listed(h, s0)
    BY DEF Listed, s0, ToSet
  <2>2. QED
    BY <1>2, <1>3, <1>4, <2>1
<1>6. ASSUME NEW k \in G, k < N PROVE k + 1 \in G
  <2> DEFINE st == Loop[k]
             next == Round(h, st)
  <2>1. k \in 0..N /\ k + 1 \in 0..N /\ k + 1 > 0 /\ Loop[k + 1] = next
    BY <1>2, <1>4, <1>6
  <2>2. st \in S /\ Listed(h, st) /\ (k > 0 => Root \in ToSet(st.rv))
    OBVIOUS
  <2>3. k = 0 => st.to_visit # <<>> /\ Head(st.to_visit) = Root
    BY <1>4 DEF s0
  <2> HIDE DEF st
  <2>4. /\ next \in S /\ Listed(h, next) /\ ToSet(st.rv) \subseteq ToSet(next.rv)
        /\ st.to_visit # <<>> => Head(st.to_visit) \in ToSet(next.rv)
    BY <2>2, RoundLists DEF S
  <2> HIDE DEF next
  <2>5. Root \in ToSet(next.rv)
    BY <2>1, <2>2, <2>3, <2>4
  <2>6. QED
    BY <2>1, <2>4, <2>5
<1>7. Good(N)
  <2>1. G \subseteq 0..N
    OBVIOUS
  <2> HIDE DEF Good
  <2>2. \A k \in G : Good(k)
    OBVIOUS
  <2> HIDE DEF G
  <2>3. G = 0..N
    BY <1>2, <1>5, <1>6, <2>1, InductionUpTo
  <2>4. QED
    BY <1>2, <2>2, <2>3
<1>8. QED
  BY <1>2, <1>4, <1>7 DEF Listed, S

-----------------------------------------------------------------------------
(* The objects and the rows, in a step. *)

\* What the invariant says of them.
Sound ==
    /\ rows \in Seq(DOMAIN heap)
    /\ clipboard \in DOMAIN heap \cup {None}
    /\ closed \in BOOLEAN /\ stale \in BOOLEAN
    /\ ObjectsLive /\ RowsHang /\ RowsKeepParents

\* Some row hangs from each: what RowsKeepParents and RowsHang say.
LEMMA RowsOf ==
    ASSUME NEW h, Tree(h), NEW s \in Seq(DOMAIN h), NEW n \in ToSet(s), NEW p \in ToSet(s),
           n \in Kids(h, p)
    PROVE  h[n].parent = p /\ n \in ToSet(Children(h, h[n].parent))
<1>1. p \in DOMAIN h
  BY DEF ToSet
<1>2. h[p] \in Object /\ Parted(h, p)
  BY <1>1, TreeMeans DEF Alive
<1>3. ToSet(Children(h, p)) = Kids(h, p)
  BY <1>1, <1>2, ChildrenAreKids
<1>4. QED
  BY <1>2, <1>3 DEF Parted

\* A step that keeps the objects.
LEMMA SoundSame ==
    ASSUME Sound, UNCHANGED <<heap, rows, clipboard, closed, stale>>,
           thrown' = 0 => thrown = 0,
           forms' \in Seq(Forms(DOMAIN heap)), requests' \in Seq(Requests(DOMAIN heap))
    PROVE  Sound'
BY DEF Sound, ObjectsLive, RowsHang, RowsKeepParents

\* A step after which only what is held is left of g.
LEMMA SoundReclaimed ==
    ASSUME Sound, NEW g, Tree(g), heap' = Reclaim(g), DOMAIN heap \subseteq DOMAIN g,
           \A m \in DOMAIN heap : g[m].parent = heap[m].parent,
           g = heap \/ ~closed,
           clipboard' \in DOMAIN g \cup {None}, closed' \in BOOLEAN, stale' \in BOOLEAN,
           closed => closed',
           forms' \in Seq(Forms(DOMAIN g)), requests' \in Seq(Requests(DOMAIN g)),
           thrown' = 0 => ~stale',
           \/ rows' = Flatten(g) /\ ~closed'
           \/ rows' = rows /\ closed' = closed /\ (stale' \/ (g = heap /\ stale' = stale))
           \/ rows' = <<>> /\ closed'
    PROVE  Sound'
<1>1. None \notin Id /\ DOMAIN g \subseteq Id /\ Root \in Id
  BY IdAssumption, TreeMeans
<1>2. ~closed => Root \in DOMAIN heap
  BY DEF Sound, ObjectsLive
<1>3. rows \in Seq(DOMAIN heap) /\ rows \in Seq(DOMAIN g)
  BY DEF Sound
<1>4. ~closed' => Root \in DOMAIN g
  BY <1>2
<1>5. rows' \in Seq(DOMAIN g)
  <2>1. CASE rows' = Flatten(g) /\ ~closed'
    BY <1>4, <2>1, FlattenLists
  <2>2. CASE rows' = <<>>
    BY <2>2
  <2>3. QED
    BY <1>3, <2>1, <2>2
<1>6. /\ Tree(heap') /\ DOMAIN heap' \subseteq DOMAIN g
      /\ \A m \in DOMAIN heap' :
            /\ Kids(heap', m) = Kids(g, m) /\ heap'[m].isDir = g[m].isDir
            /\ heap'[m].parent =
                  IF g[m].parent \in DOMAIN heap' THEN g[m].parent ELSE None
      /\ rows' \in Seq(DOMAIN heap') /\ clipboard' \in DOMAIN heap' \cup {None}
      /\ ~closed' => Root \in DOMAIN heap'
      /\ forms' \in Seq(Forms(DOMAIN heap')) /\ requests' \in Seq(Requests(DOMAIN heap'))
  BY <1>4, <1>5, HeldSurvives
<1>7. Root \in DOMAIN heap' => heap'[Root].parent = None
  <2> SUFFICES ASSUME Root \in DOMAIN heap' PROVE heap'[Root].parent = None
    OBVIOUS
  <2>1. Root \in DOMAIN heap /\ heap[Root].parent = None
    BY <1>2, <1>6 DEF Sound, ObjectsLive
  <2>2. g[Root].parent = None
    BY <2>1
  <2>3. QED
    BY <1>6, <2>2
<1>8. ObjectsLive'
  BY <1>6, <1>7 DEF ObjectsLive
<1>9. ToSet(rows') \subseteq DOMAIN heap' /\ ToSet(rows) \subseteq DOMAIN heap
  BY <1>3, <1>6 DEF ToSet
<1>10. CASE rows' = Flatten(g) /\ ~closed'
  <2>1. /\ Root \in ToSet(rows')
        /\ \A m \in ToSet(rows') \ {Root} : \E p \in ToSet(rows') : m \in Kids(g, p)
    BY <1>4, <1>10, FlattenLists
  <2>2. ASSUME NEW m \in ToSet(rows') \ {Root}
        PROVE  /\ heap'[m].parent \in ToSet(rows')
               /\ m \in ToSet(Children(heap', heap'[m].parent))
    <3>1. PICK p \in ToSet(rows') : m \in Kids(g, p)
      BY <2>1
    <3>2. m \in Kids(heap', p)
      BY <1>6, <1>9, <3>1
    <3>3. QED
      BY <1>6, <3>2, RowsOf
  <2>3. rows' # <<>>
    BY <2>1 DEF ToSet
  <2>4. RowsHang' /\ RowsKeepParents'
    BY <1>10, <2>2, <2>3 DEF RowsHang, RowsKeepParents
  <2>5. QED
    BY <1>6, <1>8, <2>4 DEF Sound
<1>11. CASE rows' = rows /\ closed' = closed /\ (stale' \/ (g = heap /\ stale' = stale))
  <2>1. closed' <=> rows' = <<>>
    BY <1>11 DEF Sound, RowsHang
  <2>2. ASSUME NEW m \in ToSet(rows') \ {Root}
        PROVE  heap'[m].parent \in ToSet(rows') /\ heap'[m].parent = heap[m].parent
    <3>1. m \in DOMAIN heap /\ heap[m].parent \in ToSet(rows)
      BY <1>9, <1>11 DEF Sound, RowsKeepParents
    <3>2. g[m].parent = heap[m].parent
      BY <3>1
    <3>3. QED
      BY <1>6, <1>9, <1>11, <3>1, <3>2
  <2>3. ASSUME ~stale', NEW m \in ToSet(rows') \ {Root}
        PROVE  m \in ToSet(Children(heap', heap'[m].parent))
    <3> DEFINE p == heap[m].parent
    <3>1. m \in ToSet(Children(heap, p)) /\ g = heap
      BY <1>11, <2>3 DEF Sound, RowsHang
    <3>2. p \in ToSet(rows') /\ heap'[m].parent = p
      BY <2>2
    <3> HIDE DEF p
    <3>3. p \in DOMAIN heap' /\ p \in DOMAIN heap /\ m \in DOMAIN heap'
      BY <1>6, <1>9, <1>11, <3>2
    <3>4. m \in Kids(heap, p)
      BY <3>1, <3>3, ChildrenAreKids DEF Tree
    <3>5. m \in Kids(heap', p)
      BY <1>6, <3>1, <3>3, <3>4
    <3>6. QED
      BY <1>6, <3>2, <3>5, RowsOf
  <2>4. RowsHang' /\ RowsKeepParents'
    BY <2>1, <2>2, <2>3 DEF RowsHang, RowsKeepParents
  <2>5. QED
    BY <1>6, <1>8, <2>4 DEF Sound
<1>12. CASE rows' = <<>> /\ closed'
  <2>1. ToSet(rows') = {}
    BY <1>12 DEF ToSet
  <2>2. RowsHang' /\ RowsKeepParents'
    BY <1>12, <2>1 DEF RowsHang, RowsKeepParents
  <2>3. QED
    BY <1>6, <1>8, <2>2 DEF Sound
<1>13. QED
  BY <1>10, <1>11, <1>12

-----------------------------------------------------------------------------
(* Forms, requests and the selected row. *)

\* More objects, no fewer forms.
LEMMA FormsGrow ==
    ASSUME NEW D, NEW E, D \subseteq E
    PROVE  /\ Forms(D) \subseteq Forms(E) /\ Requests(D) \subseteq Requests(E)
           /\ Seq(Forms(D)) \subseteq Seq(Forms(E)) /\ Seq(Requests(D)) \subseteq Seq(Requests(E))
<1>1. Forms(D) \subseteq Forms(E)
  <2> SUFFICES ASSUME NEW f \in Forms(D) PROVE f \in Forms(E)
    OBVIOUS
  <2>1. f \in [kind : Kinds, node : D \cup {None}, done : BOOLEAN]
        /\ (f.kind = "delete" => f.node # None)
    BY DEF Forms
  <2>2. f \in [kind : Kinds, node : E \cup {None}, done : BOOLEAN]
    BY <2>1
  <2>3. QED
    BY <2>1, <2>2 DEF Forms
<1>2. Requests(D) \subseteq Requests(E)
  BY <1>1 DEF Requests
<1>3. QED
  BY <1>1, <1>2, SeqMonotonic, Zenon

\* A form over an object that is alive.
LEMMA NewFormIs ==
    ASSUME NEW D, NEW kind \in Kinds, NEW node \in D \cup {None},
           kind = "delete" => node # None
    PROVE  NewForm(kind, node) \in Forms(D)
BY DEF NewForm, Forms

\* Requests are asked for at the end.
LEMMA RequestIs ==
    ASSUME NEW D, requests \in Seq(Requests(D)),
           \/ Request(Pop)
           \/ \E f \in Forms(D) : Request(Push(f))
    PROVE  requests' \in Seq(Requests(D))
<1>1. Pop \in Requests(D) /\ \A f \in Forms(D) : Push(f) \in Requests(D)
  BY DEF Requests, Push
<1>2. QED
  BY <1>1 DEF Request

\* A form that is done is still over the same object.
LEMMA FormDone ==
    ASSUME NEW D, NEW f \in Forms(D)
    PROVE  LET t == [f EXCEPT !.done = TRUE] IN
           t \in Forms(D) /\ t.done /\ t.kind = f.kind /\ t.node = f.node
<1> DEFINE t == [f EXCEPT !.done = TRUE]
<1>1. f \in [kind : Kinds, node : D \cup {None}, done : BOOLEAN]
      /\ (f.kind = "delete" => f.node # None)
  BY DEF Forms
<1>2. t \in [kind : Kinds, node : D \cup {None}, done : BOOLEAN]
  BY <1>1
<1>3. t.done /\ t.kind = f.kind /\ t.node = f.node
  BY <1>1
<1> HIDE DEF t
<1>4. t \in Forms(D)
  BY <1>1, <1>2, <1>3 DEF Forms
<1>5. QED
  BY <1>3, <1>4 DEF t

\* Another last element.
LEMMA LastPut ==
    ASSUME NEW S, NEW s \in Seq(S), s # <<>>, NEW t \in S
    PROVE  LET d == [s EXCEPT ![Len(s)] = t] IN
           /\ d \in Seq(S) /\ Len(d) = Len(s) /\ d[Len(s)] = t
           /\ \A i \in 1..(Len(s) - 1) : d[i] = s[i]
<1> DEFINE n == Len(s)
           d == [s EXCEPT ![n] = t]
<1>1. n \in Nat /\ n > 0 /\ s \in [1..n -> S]
  OBVIOUS
<1> HIDE DEF n
<1>2. n \in 1..n /\ \A i \in 1..(n - 1) : i \in 1..n /\ i # n
  BY <1>1
<1>3. d \in [1..n -> S] /\ d[n] = t /\ \A i \in 1..(n - 1) : d[i] = s[i]
  BY <1>1, <1>2
<1> HIDE DEF d
<1>4. d \in Seq(S) /\ Len(d) = n
  BY <1>1, <1>3
<1>5. QED
  BY <1>3, <1>4 DEF d, n

\* The forms once the one on top is done.
LEMMA DoneIs ==
    ASSUME NEW D, forms \in Seq(Forms(D)), forms # <<>>
    PROVE  /\ Done \in Seq(Forms(D)) /\ Len(Done) = Len(forms)
           /\ Done[Len(forms)].done
           /\ Done[Len(forms)].kind = Top.kind /\ Done[Len(forms)].node = Top.node
           /\ \A i \in 1..(Len(forms) - 1) : Done[i] = forms[i]
<1> DEFINE n == Len(forms)
           t == [Top EXCEPT !.done = TRUE]
<1>1. n \in Nat /\ n > 0 /\ DOMAIN forms = 1..n /\ Top = forms[n]
  BY DEF Top, Last
<1>2. Top \in Forms(D)
  BY <1>1
<1>3. t \in Forms(D) /\ t.done /\ t.kind = Top.kind /\ t.node = Top.node
  BY <1>2, FormDone
<1>4. Done = [forms EXCEPT ![n] = t]
  BY <1>1 DEF Done
<1> HIDE DEF t
<1>5. Done \in Seq(Forms(D)) /\ Len(Done) = n /\ Done[n] = t
      /\ \A i \in 1..(n - 1) : Done[i] = forms[i]
  BY <1>3, <1>4, LastPut
<1>6. QED
  BY <1>3, <1>5

\* A selected row is alive; what is made at it goes into a directory.
LEMMA SelectedIs ==
    ASSUME Sound, cursor \in Nat, Selects
    PROVE  /\ Selected \in ToSet(rows) /\ Selected \in DOMAIN heap
           /\ Target \in DOMAIN heap /\ heap[Target].isDir
<1>1. cursor + 1 \in 1..Len(rows) /\ rows \in Seq(DOMAIN heap) /\ DOMAIN rows = 1..Len(rows)
  BY DEF Sound, Selects
<1>2. Selected \in ToSet(rows) /\ ToSet(rows) \subseteq DOMAIN heap
  BY <1>1 DEF Selected, ToSet
<1>3. CASE heap[Selected].isDir
  BY <1>2, <1>3 DEF Target
<1>4. CASE ~heap[Selected].isDir
  <2>1. Tree(heap)
    BY DEF Sound, ObjectsLive
  <2>2. Selected # Root /\ Alive(heap, Selected)
    BY <1>2, <1>4, <2>1, TreeMeans DEF Alive
  <2>3. Target \in ToSet(rows)
    BY <1>2, <1>4, <2>2 DEF Target, Sound, RowsKeepParents
  <2>4. Target # None
    BY <1>2, <2>1, <2>3, IdAssumption, TreeMeans
  <2>5. QED
    BY <1>2, <1>4, <2>2, <2>3, <2>4 DEF Target, Alive
<1>5. QED
  BY <1>2, <1>3, <1>4

\* A key, when it comes with a request on its way.
LEMMA KeyIs ==
    ASSUME Key, rushed \in Nat
    PROVE  /\ broken = None /\ ~closed
           /\ rushed' = 0 => rushed = 0 /\ requests = <<>>
           /\ rushed' > 0 => rushed > 0 \/ requests # <<>>
           /\ rushed' \in Nat /\ rushed' >= rushed
BY DEF Key, Running

\* A new object leaves the others where they are.
LEMMA NewIn ==
    ASSUME Sound, cursor \in Nat, Selects, ~closed, Free(heap) # {}, NEW isDir \in BOOLEAN
    PROVE  LET g == WithNew(isDir) IN
           /\ Tree(g) /\ DOMAIN heap \subseteq DOMAIN g
           /\ \A m \in DOMAIN heap : /\ g[m].parent = heap[m].parent
                                     /\ Kids(heap, m) \subseteq Kids(g, m)
                                     /\ heap[m].open => g[m].open
<1> DEFINE n == Fresh(heap)
           p == Target
           h == Add(heap, NewObject(isDir, p))
           i == Insert(h, n, p)
           b == i[p].open \/ heap[Selected].isDir
           g == [i EXCEPT ![p].open = b]
<1>1. Tree(heap) /\ Root \in DOMAIN heap
  BY DEF Sound, ObjectsLive
<1>2. p \in DOMAIN heap /\ heap[p].isDir /\ p # None
  BY <1>1, SelectedIs, IdAssumption, TreeMeans
<1>3. WithNew(isDir) = g
  BY <1>2 DEF WithNew
<1> HIDE DEF p
<1>4. /\ Tree(h) /\ n \in Id \ DOMAIN heap
      /\ DOMAIN h = DOMAIN heap \cup {n}
      /\ \A m \in DOMAIN heap : h[m] = heap[m] /\ Kids(h, m) = Kids(heap, m)
      /\ h[n] = NewObject(isDir, p) /\ Kids(h, n) = {}
  BY <1>1, <1>2, Added
<1> HIDE DEF n, h
<1>5. h[n].parent = p /\ n # Root /\ n # p /\ p \in DOMAIN h /\ h[p].isDir
  BY <1>1, <1>2, <1>4 DEF NewObject
<1>6. \A m \in DOMAIN h : n \notin Kids(h, m)
  <2>1. \A m \in DOMAIN heap : Kids(heap, m) \subseteq DOMAIN heap
    BY <1>1, TreeMeans DEF Parted
  <2>2. QED
    BY <1>4, <2>1
<1> DEFINE B == {n}
<1>7. B \in SUBSET DOMAIN h /\ Whole(h, B) /\ n \in B /\ p \notin B /\ n \in DOMAIN h
  BY <1>4, <1>5 DEF Whole
<1> HIDE DEF B
<1>8. /\ Tree(i) /\ DOMAIN i = DOMAIN h
      /\ \A m \in DOMAIN h : /\ Kids(i, m) = Kids(h, m) \cup (IF m = p THEN {n} ELSE {})
                             /\ i[m].isDir = h[m].isDir /\ i[m].parent = h[m].parent
                             /\ i[m].open = h[m].open
  BY <1>4, <1>5, <1>6, <1>7, Inserted
<1>9. /\ Tree(i) /\ DOMAIN i = DOMAIN h
      /\ \A m \in DOMAIN h : /\ i[m].parent = h[m].parent /\ i[m].open = h[m].open
                             /\ Kids(h, m) \subseteq Kids(i, m)
  BY <1>8
<1> HIDE DEF i
<1>10. b \in BOOLEAN /\ p \in DOMAIN i
  BY <1>5, <1>9
<1>a. i[p].open => b
  OBVIOUS
<1> HIDE DEF b
<1>11. DOMAIN g = DOMAIN i /\ \A m \in DOMAIN i :
          /\ g[m].dirs = i[m].dirs /\ g[m].entries = i[m].entries
          /\ g[m].parent = i[m].parent /\ g[m].isDir = i[m].isDir
          /\ g[m] \in Object
          /\ g[m].open = IF m = p THEN b ELSE i[m].open
  BY <1>9, <1>10 DEF Tree, Object
<1> HIDE DEF g
<1>12. Tree(g) /\ \A m \in DOMAIN i : Kids(g, m) = Kids(i, m)
  BY <1>9, <1>11, Reopened
<1>13. QED
  BY <1>3, <1>4, <1>9, <1>a, <1>11, <1>12

\* Moving the cursor.
LEMMA MoveSound == ASSUME Sound, Move PROVE Sound'
BY SoundSame DEF Move, trouble, Sound, ObjectsLive

\* Opening or closing a directory: the tree is the same, the rows are its own.
LEMMA ToggleSound == ASSUME Sound, cursor \in Nat, Toggle PROVE Sound'
<1> DEFINE p == Selected
           b == ~heap[p].open
           g == [heap EXCEPT ![p].open = b]
<1>1. ~closed /\ closed' = closed /\ UNCHANGED <<clipboard, forms, requests>>
  BY DEF Toggle, MainKey, Key, Running
<1>2. rows' = Flatten(g) /\ heap' = Reclaim(g) /\ stale' = FALSE /\ p \in DOMAIN heap
  BY SelectedIs DEF Toggle
<1>3. Tree(heap) /\ b \in BOOLEAN
  BY DEF Sound, ObjectsLive
<1> HIDE DEF b, p
<1>0. DOMAIN g = DOMAIN heap /\ \A m \in DOMAIN heap :
          /\ g[m].dirs = heap[m].dirs /\ g[m].entries = heap[m].entries
          /\ g[m].parent = heap[m].parent /\ g[m].isDir = heap[m].isDir
          /\ g[m] \in Object
  BY <1>2, <1>3 DEF Tree, Object
<1> HIDE DEF g
<1>4. Tree(g)
  BY <1>0, <1>3, Reopened
<1>5. /\ clipboard \in DOMAIN g \cup {None} /\ closed \in BOOLEAN
      /\ forms \in Seq(Forms(DOMAIN g)) /\ requests \in Seq(Requests(DOMAIN g))
  BY <1>0 DEF Sound, ObjectsLive
<1>6. QED
  BY <1>0, <1>1, <1>2, <1>4, <1>5, SoundReclaimed

\* Asking for a form.
LEMMA PostFormSound == ASSUME Sound, cursor \in Nat, PostForm PROVE Sound'
<1> DEFINE D == DOMAIN heap
<1>1. requests \in Seq(Requests(D)) /\ forms \in Seq(Forms(D))
  BY DEF Sound, ObjectsLive
<1>2. \E kind \in {"newEntry", "newDir", "edit", "help"} : \E node \in D \cup {None} :
         PushForm(NewForm(kind, node))
  BY SelectedIs DEF PostForm
<1>3. PICK kind \in {"newEntry", "newDir", "edit", "help"}, node \in D \cup {None} :
         PushForm(NewForm(kind, node))
  BY <1>2
<1>4. NewForm(kind, node) \in Forms(D)
  BY NewFormIs DEF Kinds
<1>5. requests' \in Seq(Requests(D))
  BY <1>1, <1>3, <1>4, RequestIs DEF PushForm
<1>6. UNCHANGED <<heap, rows, clipboard, forms, closed, stale, thrown>>
  BY DEF PostForm, trouble
<1>7. QED
  BY <1>1, <1>5, <1>6, SoundSame

\* Asking for the form that shows a secret, which may throw.
LEMMA ViewSound == ASSUME Sound, thrown \in Nat, View PROVE Sound'
<1> DEFINE D == DOMAIN heap
<1>1. requests \in Seq(Requests(D)) /\ forms \in Seq(Forms(D))
  BY DEF Sound, ObjectsLive
<1>2. NewForm("view", None) \in Forms(D) /\ NewForm("error", None) \in Forms(D)
  BY NewFormIs DEF Kinds
<1>3. UNCHANGED <<heap, rows, clipboard, closed, stale>>
  BY DEF View
<1>4. CASE PushForm(NewForm("view", None)) /\ UNCHANGED <<forms, thrown>>
  <2>1. requests' \in Seq(Requests(D))
    BY <1>1, <1>2, <1>4, RequestIs DEF PushForm
  <2>2. QED
    BY <1>1, <1>3, <1>4, <2>1, SoundSame
<1>5. CASE Throws(forms) /\ UNCHANGED requests
  <2>1. forms' \in Seq(Forms(D)) /\ thrown' # 0
    BY <1>1, <1>2, <1>5 DEF Throws
  <2>2. QED
    BY <1>1, <1>3, <1>5, <2>1, SoundSame
<1>6. QED
  BY <1>4, <1>5 DEF View

\* Copying, and asking whether to delete: the clipboard is what was selected.
LEMMA CopySound == ASSUME Sound, cursor \in Nat, Copy PROVE Sound'
<1> DEFINE D == DOMAIN heap
<1>1. requests \in Seq(Requests(D)) /\ forms \in Seq(Forms(D)) /\ closed \in BOOLEAN
      /\ stale \in BOOLEAN /\ Tree(heap) /\ (thrown = 0 => ~stale)
  BY DEF Sound, ObjectsLive, RowsHang
<1>2. Selected \in D /\ Selected # None
  BY <1>1, SelectedIs, IdAssumption, TreeMeans DEF Copy
<1>3. requests' \in Seq(Requests(D))
  <2>1. NewForm("delete", Selected) \in Forms(D)
    BY <1>2, NewFormIs DEF Kinds
  <2>2. CASE UNCHANGED requests
    BY <1>1, <2>2
  <2>3. CASE PushForm(NewForm("delete", Selected))
    BY <1>1, <2>1, <2>3, RequestIs DEF PushForm
  <2>4. QED
    BY <2>2, <2>3 DEF Copy
<1>4. /\ UNCHANGED <<rows, forms, closed, stale, thrown>>
      /\ clipboard' = Selected /\ heap' = Reclaim(heap)
  BY DEF Copy, trouble
<1>5. QED
  BY <1>1, <1>2, <1>3, <1>4, SoundReclaimed

\* What a save does to the rows.
LEMMA SavesSound ==
    ASSUME Sound, ~closed, closed' = closed, thrown \in Nat,
           clipboard' = clipboard, NEW g, Tree(g), heap' = Reclaim(g),
           DOMAIN heap \subseteq DOMAIN g,
           \A m \in DOMAIN heap : g[m].parent = heap[m].parent,
           requests' \in Seq(Requests(DOMAIN heap)),
           NEW fs \in Seq(Forms(DOMAIN heap)), Saves(g, fs) \/ SaveThrows(fs)
    PROVE  Sound'
<1> DEFINE D == DOMAIN heap
           E == DOMAIN g
<1>1. clipboard' \in E \cup {None} /\ closed' \in BOOLEAN
  BY DEF Sound
<1>2. requests' \in Seq(Requests(E)) /\ fs \in Seq(Forms(E))
  <2>1. D \subseteq E
    OBVIOUS
  <2> HIDE DEF D, E
  <2>2. Seq(Forms(D)) \subseteq Seq(Forms(E)) /\ Seq(Requests(D)) \subseteq Seq(Requests(E))
    BY <2>1, FormsGrow
  <2>3. QED
    BY <2>2 DEF D
<1>3. CASE Saves(g, fs)
  <2>1. rows' = Flatten(g) /\ stale' = FALSE /\ forms' = fs
    BY <1>3 DEF Saves
  <2>2. QED
    BY <1>1, <1>2, <2>1, SoundReclaimed
<1>4. CASE SaveThrows(fs)
  <2>1. rows' = rows /\ stale' = TRUE /\ forms' = Append(fs, NewForm("error", None))
        /\ thrown' # 0
    BY <1>4 DEF SaveThrows, Throws
  <2>2. NewForm("error", None) \in Forms(E)
    BY NewFormIs DEF Kinds
  <2>3. forms' \in Seq(Forms(E))
    BY <1>2, <2>1, <2>2
  <2>4. QED
    BY <1>1, <1>2, <2>1, <2>3, SoundReclaimed
<1>5. QED
  BY <1>3, <1>4

\* A paste: a graft, then a save.
LEMMA PasteSound == ASSUME Sound, cursor \in Nat, thrown \in Nat, Paste PROVE Sound'
<1> DEFINE g == Graft(heap, clipboard, Target)
<1>1. /\ Tree(heap) /\ ~closed /\ closed' = closed /\ Root \in DOMAIN heap
      /\ clipboard \in DOMAIN heap
      /\ UNCHANGED <<clipboard, requests>>
      /\ forms \in Seq(Forms(DOMAIN heap)) /\ requests \in Seq(Requests(DOMAIN heap))
  BY DEF Paste, MainKey, Key, Running, Sound, ObjectsLive
<1>2. Target \in DOMAIN heap /\ heap[Target].isDir /\ Target # None
  BY <1>1, SelectedIs, IdAssumption, TreeMeans DEF Paste
<1>3. /\ Twins(heap, clipboard) # {} /\ heap' = Reclaim(g)
      /\ Saves(g, forms) \/ SaveThrows(forms)
  BY <1>2 DEF Paste
<1>4. /\ Tree(g) /\ DOMAIN heap \subseteq DOMAIN g
      /\ \A m \in DOMAIN heap : /\ Kids(heap, m) \subseteq Kids(g, m)
                                /\ g[m].isDir = heap[m].isDir /\ g[m].parent = heap[m].parent
  BY <1>1, <1>2, <1>3, Grafted
<1> HIDE DEF g
<1>5. QED
  BY <1>1, <1>3, <1>4, SavesSound

\* The form on top.
LEMMA TopIs ==
    ASSUME NEW D, forms \in Seq(Forms(D)), forms # <<>>
    PROVE  /\ Top \in Forms(D) /\ Top.node \in D \cup {None}
           /\ Top.kind = "delete" => Top.node # None
<1>1. Top \in Forms(D)
  BY DEF Top, Last
<1>2. QED
  BY <1>1 DEF Forms

\* A new object, then a save; for an entry, a throw before anything changed.
LEMMA FinishNewSound == ASSUME Sound, cursor \in Nat, thrown \in Nat, FinishNew PROVE Sound'
<1> DEFINE D == DOMAIN heap
           isDir == Top.kind = "newDir"
           g == WithNew(isDir)
<1>1. /\ ~closed /\ forms # <<>> /\ Selects /\ Free(heap) # {} /\ Request(Pop)
      /\ UNCHANGED <<clipboard, closed>>
  BY DEF FinishNew, FormKey, Key, Running
<1>2. forms \in Seq(Forms(D)) /\ requests \in Seq(Requests(D))
  BY DEF Sound, ObjectsLive
<1>3. Done \in Seq(Forms(D))
  BY <1>1, <1>2, DoneIs
<1>4. requests' \in Seq(Requests(D))
  BY <1>1, <1>2, RequestIs
<1>5. \/ Saves(g, Done) /\ heap' = Reclaim(g)
      \/ SaveThrows(Done) /\ heap' = Reclaim(g)
      \/ Throws(Done) /\ UNCHANGED <<rows, stale, heap>>
  BY DEF FinishNew
<1>6. isDir \in BOOLEAN
  OBVIOUS
<1> HIDE DEF isDir
<1>7. /\ Tree(g) /\ DOMAIN heap \subseteq DOMAIN g
      /\ \A m \in DOMAIN heap : g[m].parent = heap[m].parent
  BY <1>1, <1>6, NewIn
<1> HIDE DEF g
<1>8. CASE (Saves(g, Done) \/ SaveThrows(Done)) /\ heap' = Reclaim(g)
  BY <1>1, <1>3, <1>4, <1>7, <1>8, SavesSound
<1>9. CASE Throws(Done) /\ UNCHANGED <<rows, stale, heap>>
  <2>1. NewForm("error", None) \in Forms(D)
    BY NewFormIs DEF Kinds
  <2>2. forms' \in Seq(Forms(D)) /\ thrown' # 0
    BY <1>3, <1>9, <2>1 DEF Throws
  <2>3. QED
    BY <1>1, <1>4, <1>9, <2>2, SoundSame
<1>10. QED
  BY <1>5, <1>8, <1>9

\* A deletion, then a save, or nothing when there is nothing to erase.
LEMMA DeleteSound == ASSUME Sound, thrown \in Nat, Delete PROVE Sound'
<1> DEFINE D == DOMAIN heap
           n == Top.node
           g == Erase(heap, n)
<1>1. /\ ~closed /\ forms # <<>> /\ Top.kind = "delete"
      /\ UNCHANGED <<clipboard, closed>>
  BY DEF Delete, FormKey, Key, Running
<1>2. forms \in Seq(Forms(D)) /\ requests \in Seq(Requests(D)) /\ Tree(heap)
  BY DEF Sound, ObjectsLive
<1>3. n \in D
  BY <1>1, <1>2, TopIs
<1>4. CASE heap[n].parent = None \/ n \notin ToSet(Children(heap, heap[n].parent))
  <2>1. UNCHANGED <<heap, rows, forms, requests, trouble>>
    BY <1>4 DEF Delete
  <2>2. QED
    BY <1>1, <1>2, <2>1, SoundSame DEF trouble
<1>5. CASE ~(heap[n].parent = None \/ n \notin ToSet(Children(heap, heap[n].parent)))
  <2>1. /\ \/ Saves(g, Done) /\ Request(Pop)
           \/ SaveThrows(Done) /\ UNCHANGED requests
        /\ heap' = Reclaim(g)
    BY <1>5 DEF Delete
  <2>2. Done \in Seq(Forms(D))
    BY <1>1, <1>2, DoneIs
  <2>3. requests' \in Seq(Requests(D))
    BY <1>2, <2>1, RequestIs
  <2> DEFINE p == heap[n].parent
  <2>4. p \in D /\ n \in Kids(heap, p)
    <3>1. p \in D
      BY <1>2, <1>3, <1>5, TreeMeans DEF Alive
    <3>2. heap[p] \in Object
      BY <1>2, <3>1 DEF Tree
    <3>3. QED
      BY <1>5, <3>1, <3>2, ChildrenAreKids
  <2> HIDE DEF n
  <2>5. /\ Tree(g) /\ DOMAIN g = D
        /\ \A m \in D : /\ Kids(g, m) = Kids(heap, m) \ {n}
                        /\ g[m].isDir = heap[m].isDir /\ g[m].parent = heap[m].parent
    BY <1>2, <1>3, <2>4, Erased
  <2> HIDE DEF g, p
  <2>6. QED
    BY <1>1, <2>1, <2>2, <2>3, <2>5, SavesSound
<1>6. QED
  BY <1>4, <1>5

\* A list of requests but for the first.
LEMMA TailIs ==
    ASSUME NEW S, NEW s \in Seq(S), s # <<>>
    PROVE  Head(s) \in S /\ Tail(s) \in Seq(S) /\ Len(Tail(s)) = Len(s) - 1
OBVIOUS

\* A list of forms but for the last.
LEMMA FrontIs ==
    ASSUME NEW S, NEW s \in Seq(S), s # <<>>
    PROVE  /\ Front(s) \in Seq(S) /\ Len(Front(s)) = Len(s) - 1
           /\ \A i \in 1..(Len(s) - 1) : Front(s)[i] = s[i]
<1> DEFINE n == Len(s)
           f == SubSeq(s, 1, n - 1)
<1>1. n \in Nat /\ n > 0 /\ s \in [1..n -> S]
  OBVIOUS
<1>2. f \in Seq(S) /\ Len(f) = n - 1 /\ \A i \in 1..(n - 1) : f[i] = s[i]
  BY <1>1
<1>3. QED
  BY <1>1, <1>2 DEF Front

\* Handling a request.
LEMMA HandleSound == ASSUME Sound, HandlePush \/ HandlePop \/ HandleOrphan PROVE Sound'
<1> DEFINE D == DOMAIN heap
<1>1. /\ forms \in Seq(Forms(D)) /\ requests \in Seq(Requests(D)) /\ Tree(heap)
      /\ clipboard \in D \cup {None} /\ closed \in BOOLEAN /\ stale \in BOOLEAN
      /\ thrown = 0 => ~stale
  BY DEF Sound, ObjectsLive, RowsHang
<1>2. requests # <<>> /\ requests' = Tail(requests)
  BY DEF HandlePush, HandlePop, HandleOrphan
<1>3. requests' \in Seq(Requests(D)) /\ Head(requests) \in Requests(D)
  BY <1>1, <1>2, TailIs
<1>4. CASE HandlePush
  <2>1. Head(requests).form \in Forms(D)
    BY <1>3, <1>4 DEF HandlePush, Requests, Pop
  <2>2. forms' \in Seq(Forms(D))
    BY <1>1, <1>4, <2>1 DEF HandlePush
  <2>3. QED
    BY <1>3, <1>4, <2>2, SoundSame DEF HandlePush, trouble
<1>5. CASE HandlePop /\ forms # <<>>
  <2>1. forms' \in Seq(Forms(D))
    BY <1>1, <1>5, FrontIs DEF HandlePop
  <2>2. UNCHANGED <<rows, clipboard, closed, stale, thrown>> /\ heap' = Reclaim(heap)
    BY <1>5 DEF HandlePop, trouble
  <2>3. QED
    BY <1>1, <1>3, <2>1, <2>2, SoundReclaimed
<1>6. CASE HandlePop /\ forms = <<>>
  <2>1. /\ rows' = <<>> /\ clipboard' = None /\ closed' = TRUE /\ UNCHANGED <<forms, stale, thrown>>
        /\ heap' = Reclaim(heap)
    BY <1>6 DEF HandlePop, trouble
  <2>2. QED
    BY <1>1, <1>3, <2>1, SoundReclaimed
<1>7. CASE HandleOrphan
  <2>1. UNCHANGED <<rows, clipboard, closed, stale, thrown, forms>> /\ heap' = Reclaim(heap)
    BY <1>7 DEF HandleOrphan, trouble
  <2>2. QED
    BY <1>1, <1>3, <2>1, SoundReclaimed
<1>8. QED
  BY <1>4, <1>5, <1>6, <1>7

\* Steps that change neither objects nor rows.
LEMMA OthersSound ==
    ASSUME Sound, Quit \/ Dismiss \/ Leave \/ Finish \/ ReadOutside
    PROVE  Sound'
<1> DEFINE D == DOMAIN heap
<1>1. forms \in Seq(Forms(D)) /\ requests \in Seq(Requests(D))
  BY DEF Sound, ObjectsLive
<1>2. UNCHANGED <<heap, rows, clipboard, closed, stale, thrown>>
  BY DEF Quit, Dismiss, Leave, Finish, ReadOutside, trouble
<1>3. requests' \in Seq(Requests(D))
  BY <1>1, RequestIs DEF Quit, Dismiss, Leave, Finish, ReadOutside
<1>4. forms' \in Seq(Forms(D))
  <2>1. CASE Finish
    BY <1>1, <2>1, DoneIs DEF Finish, FormKey
  <2>2. CASE UNCHANGED forms
    BY <1>1, <2>2
  <2>3. QED
    BY <2>1, <2>2 DEF Quit, Dismiss, Leave, ReadOutside
<1>5. QED
  BY <1>2, <1>3, <1>4, SoundSame

\* Every step keeps the objects and the rows sound.
LEMMA SoundStep ==
    ASSUME Sound, cursor \in Nat, thrown \in Nat, Next PROVE Sound'
BY MoveSound, ToggleSound, ViewSound, PostFormSound, CopySound, PasteSound, FinishNewSound,
   DeleteSound, HandleSound, OthersSound DEF Next

-----------------------------------------------------------------------------
(* Cursor, state and counters. *)

Counted == /\ cursor \in Nat
           /\ state \in {"Browsing", "CreatingOrDeleting", "Editing"}
           /\ broken \in {None, "rows", "parent", "erase", "dangling"}
           /\ rushed \in 0..MaxMishaps /\ thrown \in 0..MaxMishaps

\* TypeOK is part of what the two say.
LEMMA TypeIs == TypeOK /\ ObjectsLive /\ RowsHang /\ RowsKeepParents <=> Sound /\ Counted
<1>1. ASSUME ObjectsLive
      PROVE  /\ DOMAIN heap \subseteq Id /\ \A n \in DOMAIN heap : heap[n] \in Object
             /\ forms \in Seq(Form)
             /\ requests \in Seq({Pop} \cup [op : {"push"}, form : Form])
  <2>1. DOMAIN heap \subseteq Id /\ \A n \in DOMAIN heap : heap[n] \in Object
    BY <1>1 DEF ObjectsLive, Tree
  <2>2. Forms(DOMAIN heap) \subseteq Form
    <3> SUFFICES ASSUME NEW f \in Forms(DOMAIN heap) PROVE f \in Form
      OBVIOUS
    <3>1. f \in [kind : Kinds, node : DOMAIN heap \cup {None}, done : BOOLEAN]
      BY DEF Forms
    <3>2. QED
      BY <2>1, <3>1 DEF Form
  <2>3. Requests(DOMAIN heap) \subseteq {Pop} \cup [op : {"push"}, form : Form]
    BY <2>2 DEF Requests
  <2> DEFINE F == Forms(DOMAIN heap)
             R == Requests(DOMAIN heap)
             Q == {Pop} \cup [op : {"push"}, form : Form]
  <2>4. F \subseteq Form /\ R \subseteq Q /\ forms \in Seq(F) /\ requests \in Seq(R)
    BY <1>1, <2>2, <2>3 DEF ObjectsLive
  <2> HIDE DEF F, R, Q
  <2>5. Seq(F) \subseteq Seq(Form) /\ Seq(R) \subseteq Seq(Q)
    BY <2>4, SeqMonotonic, Zenon
  <2>6. QED
    BY <2>1, <2>4, <2>5 DEF Q
<1>2. QED
  BY <1>1 DEF TypeOK, Sound, Counted

\* The counters only grow, up to their bound.
LEMMA ThrowsIs ==
    ASSUME NEW fs, Throws(fs), thrown \in 0..MaxMishaps, rushed' \in Nat
    PROVE  thrown' \in 0..MaxMishaps /\ thrown' > 0
BY BoundAssumption DEF Throws

\* A key counts as rushed up to the bound.
LEMMA KeyCounts ==
    ASSUME Key, Counted
    PROVE  rushed' \in 0..MaxMishaps
BY BoundAssumption DEF Key, Counted

\* Every step keeps cursor, state and counters in their types.
LEMMA CountedStep == ASSUME Sound, Counted, Next PROVE Counted'
<1>0. /\ cursor \in Nat /\ rushed \in 0..MaxMishaps /\ thrown \in 0..MaxMishaps
      /\ state \in {"Browsing", "CreatingOrDeleting", "Editing"}
      /\ broken \in {None, "rows", "parent", "erase", "dangling"}
  BY DEF Counted
<1>1. CASE Move
  <2>1. Len(rows) \in Nat /\ Len(rows) > 0
    <3>1. rows \in Seq(DOMAIN heap) /\ rows # <<>>
      BY <1>1 DEF Move, MainKey, Key, Running, Sound, RowsHang
    <3>2. QED
      BY <3>1
  <2>2. (cursor + 1) % Len(rows) \in Nat
    BY <1>0, <2>1
  <2>3. cursor' \in Nat
    BY <1>0, <1>1, <2>1, <2>2 DEF Move
  <2>4. QED
    BY <1>0, <1>1, <2>3, KeyCounts DEF Move, MainKey, Counted, trouble
<1>2. CASE Toggle \/ PostForm \/ Copy \/ Quit \/ Dismiss \/ Leave \/ Finish
  <2>1. Key /\ UNCHANGED <<cursor, broken, thrown>>
    BY <1>2 DEF Toggle, PostForm, Copy, Quit, Dismiss, Leave, Finish, MainKey, FormKey, trouble
  <2>2. state' \in {"Browsing", "CreatingOrDeleting", "Editing"}
    BY <1>0, <1>2 DEF Toggle, PostForm, Copy, Quit, Dismiss, Leave, Finish
  <2>3. QED
    BY <1>0, <2>1, <2>2, KeyCounts DEF Counted
<1>3. CASE View \/ Paste \/ FinishNew \/ Delete
  <2>1. Key /\ UNCHANGED cursor
    BY <1>3 DEF View, Paste, FinishNew, Delete, MainKey, FormKey
  <2>2. state' \in {"Browsing", "CreatingOrDeleting", "Editing"}
    BY <1>0, <1>3 DEF View, Paste, FinishNew, Delete
  <2>3. broken' \in {None, "rows", "parent", "erase", "dangling"}
    BY <1>0, <1>3 DEF View, Paste, FinishNew, Delete
  <2>4. rushed' \in 0..MaxMishaps
    BY <2>1, KeyCounts
  <2>5. thrown' \in 0..MaxMishaps
    <3>1. thrown' = thrown \/ \E fs : Throws(fs)
      BY <1>3 DEF View, Paste, FinishNew, Delete, Saves, SaveThrows, trouble
    <3>2. QED
      BY <1>0, <2>4, <3>1, ThrowsIs
  <2>6. QED
    BY <1>0, <2>1, <2>2, <2>3, <2>4, <2>5 DEF Counted
<1>4. CASE HandlePush \/ HandlePop \/ HandleOrphan \/ ReadOutside
  BY <1>0, <1>4 DEF HandlePush, HandlePop, HandleOrphan, ReadOutside, Counted, trouble
<1>5. QED
  BY <1>1, <1>2, <1>3, <1>4 DEF Next

-----------------------------------------------------------------------------
(* A user who waits. *)

\* Forms that wait for nothing but to be popped.
AllIdle(fs) == \A i \in 1..Len(fs) : IsForm(fs[i]) => fs[i].done

\* A step of such a user that leaves no form waiting, but for one it asks for.
LEMMA PatientWhenIdle ==
    ASSUME NEW F, NEW fs \in Seq(F), AllIdle(fs), ~closed',
           forms' \in {fs, Append(fs, NewForm("error", None))},
           \/ requests' \in {<<>>, <<Pop>>}
           \/ \E f : /\ requests' = <<Push(f)>> /\ forms' = fs
                     /\ f.kind = "delete" => f.node \in ToSet(rows')
    PROVE  Patient'
<1> DEFINE n == Len(fs)
           e == NewForm("error", None)
           m == Len(forms')
<1>1. n \in Nat
  OBVIOUS
<1>2. /\ Len(requests') <= 1
      /\ requests' # <<>> /\ Head(requests').op = "push" =>
            (Head(requests').form.kind = "delete" => Head(requests').form.node \in ToSet(rows'))
  <2>1. CASE requests' = <<>>
    BY <2>1
  <2>2. CASE requests' = <<Pop>>
    BY <2>2 DEF Pop
  <2>3. CASE \E f : /\ requests' = <<Push(f)>> /\ forms' = fs
                    /\ f.kind = "delete" => f.node \in ToSet(rows')
    <3>1. PICK f : /\ requests' = <<Push(f)>>
                   /\ f.kind = "delete" => f.node \in ToSet(rows')
      BY <2>3
    <3>2. Len(requests') = 1 /\ Head(requests').form = f
      BY <3>1 DEF Push
    <3>3. QED
      BY <3>1, <3>2
  <2>4. QED
    BY <2>1, <2>2, <2>3
<1>3. e.kind = "error" /\ ~IsForm(e)
  BY DEF NewForm, IsForm
<1>4. m \in Nat /\ \A i \in 1..m : IsForm(forms'[i]) => forms'[i].done
  <2>1. CASE forms' = fs
    BY <1>1, <2>1 DEF AllIdle
  <2>2. CASE forms' = Append(fs, e)
    <3>1. m = n + 1 /\ forms'[n + 1] = e /\ \A i \in 1..n : forms'[i] = fs[i]
      BY <1>1, <2>2
    <3>2. \A i \in 1..(n + 1) : i \in 1..n \/ i = n + 1
      BY <1>1
    <3>3. QED
      BY <1>1, <1>3, <3>1, <3>2 DEF AllIdle
  <2>3. QED
    BY <2>1, <2>2
<1>6. forms' # <<>> => (Top.kind = "delete" => Top.done)'
  <2> SUFFICES ASSUME forms' # <<>>, forms'[m].kind = "delete" PROVE forms'[m].done
    BY DEF Top, Last
  <2>1. m \in 1..m
    <3>1. forms' \in Seq(F \cup {e})
      <4>1. fs \in Seq(F \cup {e})
        OBVIOUS
      <4>2. QED
        BY <4>1
    <3>2. QED
      BY <3>1
  <2>2. IsForm(forms'[m])
    BY DEF IsForm
  <2>3. QED
    BY <1>4, <2>1, <2>2
<1>7. Idle(Len(forms))' /\ Idle(Len(forms) - 1)'
  BY <1>4 DEF Idle
<1>8. QED
  BY <1>2, <1>6, <1>7 DEF Patient

\* A step of such a user that asks for a pop at most.
LEMMA PatientWhenPopped ==
    ASSUME Patient, rushed = 0, UNCHANGED <<forms, rows>>, ~closed', requests' \in {<<>>, <<Pop>>}
    PROVE  Patient'
<1>2. Len(requests') <= 1 /\ ~(requests' # <<>> /\ Head(requests').op = "push")
  <2>1. CASE requests' = <<>>
    BY <2>1
  <2>2. CASE requests' = <<Pop>>
    BY <2>2 DEF Pop
  <2>3. QED
    BY <2>1, <2>2
<1>3. /\ Idle(Len(forms) - 1)
      /\ forms # <<>> /\ Top.kind = "delete" /\ ~Top.done => Top.node \in ToSet(rows)
  BY DEF Patient
<1>4. Idle(Len(forms) - 1)' /\ Top' = Top
  BY <1>3 DEF Idle, Top
<1>5. QED
  BY <1>2, <1>3, <1>4 DEF Patient

\* The forms a key of the main screen finds, and those a form leaves when it is done.
LEMMA IdleForms ==
    ASSUME Patient, rushed = 0, NEW F, forms \in Seq(F)
    PROVE  /\ forms = <<>> \/ Top.done => AllIdle(forms)
           /\ forms \in Seq(Forms(DOMAIN heap)) /\ forms # <<>> => AllIdle(Done)
<1> DEFINE n == Len(forms)
<1>1. n \in Nat /\ (forms = <<>> => n = 0) /\ (forms # <<>> => n > 0) /\ Top = forms[n]
  BY DEF Top, Last
<1>2. Idle(n - 1)
  BY DEF Patient
<1>3. \A i \in 1..n : i \in 1..(n - 1) \/ i = n
  BY <1>1
<1>4. forms = <<>> \/ Top.done => AllIdle(forms)
  BY <1>1, <1>2, <1>3 DEF Idle, AllIdle
<1>5. ASSUME forms \in Seq(Forms(DOMAIN heap)), forms # <<>> PROVE AllIdle(Done)
  <2>1. /\ Len(Done) = n /\ Done[n].done
        /\ \A i \in 1..(n - 1) : Done[i] = forms[i]
    BY <1>5, DoneIs
  <2>2. QED
    BY <1>2, <1>3, <2>1 DEF Idle, AllIdle
<1>6. QED
  BY <1>4, <1>5

\* Keys of the main screen, from a user who waits.
LEMMA PatientMain ==
    ASSUME Sound, Counted, Patient, rushed' = 0,
           Move \/ Toggle \/ View \/ PostForm \/ Copy \/ Paste \/ Quit
    PROVE  Patient'
<1> DEFINE e == NewForm("error", None)
<1>1. MainKey
  BY DEF Move, Toggle, View, PostForm, Copy, Paste, Quit
<1>2. rushed = 0 /\ requests = <<>> /\ ~closed /\ (forms # <<>> => Top.done)
  BY <1>1, KeyIs DEF MainKey, Counted
<1>3. ~closed'
  BY <1>2 DEF Move, Toggle, View, PostForm, Copy, Paste, Quit
<1>4. forms \in Seq(Forms(DOMAIN heap))
  BY DEF Sound, ObjectsLive
<1>5. AllIdle(forms)
  BY <1>2, <1>4, IdleForms
<1>6. Append(<<>>, Pop) = <<Pop>> /\ \A f : Append(<<>>, Push(f)) = <<Push(f)>>
  OBVIOUS
<1>7. CASE requests' = requests /\ forms' = forms
  BY <1>2, <1>3, <1>4, <1>5, <1>7, PatientWhenIdle
<1>8. CASE requests' = requests /\ Throws(forms)
  <2>1. forms' = Append(forms, e)
    BY <1>8 DEF Throws
  <2>2. QED
    BY <1>2, <1>3, <1>4, <1>5, <1>8, <2>1, PatientWhenIdle
<1>9. CASE Request(Pop) /\ forms' = forms
  <2>1. requests' = <<Pop>>
    BY <1>2, <1>6, <1>9 DEF Request
  <2>2. QED
    BY <1>3, <1>4, <1>5, <1>9, <2>1, PatientWhenIdle
<1>10. CASE (View \/ PostForm) /\ forms' = forms /\ \E f : PushForm(f) /\ f.kind # "delete"
  <2>1. PICK f : PushForm(f) /\ f.kind # "delete"
    BY <1>10
  <2>2. requests' = <<Push(f)>>
    BY <1>2, <1>6, <2>1 DEF PushForm, Request
  <2>3. QED
    BY <1>3, <1>4, <1>5, <1>10, <2>1, <2>2, PatientWhenIdle
<1>11. CASE Copy /\ PushForm(NewForm("delete", Selected))
  <2> DEFINE f == NewForm("delete", Selected)
  <2>1. requests' = <<Push(f)>>
    BY <1>2, <1>6, <1>11 DEF PushForm, Request
  <2>2. f.node = Selected /\ Selected \in ToSet(rows) /\ rows' = rows /\ forms' = forms
    BY <1>11, SelectedIs DEF NewForm, Copy, Counted
  <2> HIDE DEF f
  <2>3. QED
    BY <1>3, <1>4, <1>5, <2>1, <2>2, PatientWhenIdle
<1>12. CASE Move \/ Toggle \/ Quit
  BY <1>7, <1>9, <1>12 DEF Move, Toggle, Quit
<1>13. CASE View
  <2>1. NewForm("view", None).kind # "delete"
    BY DEF NewForm
  <2>2. QED
    BY <1>8, <1>10, <1>13, <2>1 DEF View
<1>14. CASE PostForm
  <2>1. \A n : /\ NewForm("newEntry", n).kind # "delete" /\ NewForm("newDir", n).kind # "delete"
               /\ NewForm("edit", n).kind # "delete" /\ NewForm("help", n).kind # "delete"
    BY DEF NewForm
  <2>2. \E f : PushForm(f) /\ f.kind # "delete"
    BY <1>14, <2>1 DEF PostForm
  <2>3. QED
    BY <1>10, <1>14, <2>2 DEF PostForm
<1>15. CASE Copy
  BY <1>7, <1>11, <1>15 DEF Copy
<1>16. CASE Paste
  <2>1. requests' = requests /\ (forms' = forms \/ Throws(forms))
    BY <1>16 DEF Paste, Saves, SaveThrows
  <2>2. QED
    BY <1>7, <1>8, <2>1
<1>17. QED
  BY <1>12, <1>13, <1>14, <1>15, <1>16

\* Keys of the forms, from a user who waits.
LEMMA PatientForms ==
    ASSUME Sound, Counted, Patient, rushed' = 0,
           Dismiss \/ Leave \/ Finish \/ FinishNew \/ Delete
    PROVE  Patient'
<1> DEFINE e == NewForm("error", None)
           D == DOMAIN heap
<1>1. Key /\ forms # <<>> /\ closed' = closed
  BY DEF Dismiss, Leave, Finish, FinishNew, Delete, FormKey
<1>2. rushed = 0 /\ requests = <<>> /\ ~closed'
  BY <1>1, KeyIs DEF Counted
<1>3. forms \in Seq(Forms(D))
  BY DEF Sound, ObjectsLive
<1>4. AllIdle(Done) /\ Done \in Seq(Forms(D))
  BY <1>1, <1>2, <1>3, IdleForms, DoneIs
<1>5. Append(<<>>, Pop) = <<Pop>>
  OBVIOUS
<1>6. Request(Pop) \/ UNCHANGED requests => requests' \in {<<>>, <<Pop>>}
  BY <1>2, <1>5 DEF Request
<1> HIDE DEF D
<1>7. CASE UNCHANGED <<forms, rows>> /\ (Request(Pop) \/ UNCHANGED requests)
  BY <1>2, <1>6, <1>7, PatientWhenPopped
<1>8. CASE forms' \in {Done, Append(Done, e)} /\ (Request(Pop) \/ UNCHANGED requests)
  BY <1>2, <1>4, <1>6, <1>8, PatientWhenIdle
<1>9. CASE Dismiss \/ Leave
  BY <1>7, <1>9 DEF Dismiss, Leave
<1>10. CASE Finish
  BY <1>8, <1>10 DEF Finish
<1>11. CASE FinishNew
  BY <1>8, <1>11 DEF FinishNew, Saves, SaveThrows, Throws
<1>12. CASE Delete
  BY <1>7, <1>8, <1>12 DEF Delete, Saves, SaveThrows, Throws
<1>13. QED
  BY <1>9, <1>10, <1>11, <1>12

\* Requests of a user who waits: there is one.
LEMMA PatientHandles ==
    ASSUME Sound, Counted, Patient, rushed' = 0,
           HandlePush \/ HandlePop \/ HandleOrphan \/ ReadOutside
    PROVE  Patient'
<1> DEFINE D == DOMAIN heap
           n == Len(forms)
<1>1. rushed = 0
  BY DEF HandlePush, HandlePop, HandleOrphan, ReadOutside
<1>2. /\ Len(requests) <= 1
      /\ closed => requests = <<>>
      /\ Idle(n - 1)
      /\ requests # <<>> /\ Head(requests).op = "push" =>
            /\ Idle(n)
            /\ Head(requests).form.kind = "delete" => Head(requests).form.node \in ToSet(rows)
  BY <1>1 DEF Patient
<1>3. /\ forms \in Seq(Forms(D)) /\ n \in Nat
      /\ requests \in Seq(Requests(D))
  BY DEF Sound, ObjectsLive
<1>4. CASE ReadOutside
  BY <1>4 DEF ReadOutside, Patient, Idle, Top
<1>5. CASE requests # <<>> /\ requests' = Tail(requests)
  <2>1. Len(requests) = 1 /\ Len(Tail(requests)) = 0 /\ requests' \in Seq(Requests(D))
    <3>1. Len(requests) \in Nat /\ Len(requests) # 0 /\ Len(Tail(requests)) = Len(requests) - 1
      BY <1>3, <1>5
    <3>2. requests' \in Seq(Requests(D))
      BY <1>3, <1>5
    <3>3. QED
      BY <1>2, <3>1, <3>2
  <2>2. requests' = <<>>
    BY <1>5, <2>1
  <2>3. Len(requests') = 0
    BY <1>5, <2>1
  <2>4. CASE HandlePush
    <3> DEFINE f == Head(requests).form
    <3>1. Idle(n) /\ (f.kind = "delete" => f.node \in ToSet(rows))
      BY <1>2, <2>4 DEF HandlePush
    <3>2. forms' = Append(forms, f) /\ rows' = rows
      BY <2>4 DEF HandlePush
    <3> HIDE DEF f
    <3>3. Len(forms') = n + 1 /\ forms'[n + 1] = f /\ \A i \in 1..n : forms'[i] = forms[i]
      BY <1>3, <3>2
    <3>4. Idle(Len(forms) - 1)'
      <4>1. (n + 1) - 1 = n
        BY <1>3
      <4>2. QED
        BY <3>1, <3>3, <4>1 DEF Idle
    <3>5. Top' = f
      BY <3>3 DEF Top, Last
    <3>6. QED
      BY <2>2, <2>3, <3>1, <3>2, <3>4, <3>5 DEF Patient
  <2>5. CASE HandlePop /\ forms # <<>>
    <3>1. forms' = Front(forms) /\ rows' = rows
      BY <2>5 DEF HandlePop
    <3>2. /\ Front(forms) \in Seq(Forms(D)) /\ Len(Front(forms)) = n - 1
          /\ \A i \in 1..(n - 1) : Front(forms)[i] = forms[i]
      BY <1>3, <2>5, FrontIs
    <3>3. n > 0
      BY <1>3, <2>5
    <3>4. Idle(Len(forms) - 1)'
      <4>1. \A i \in 1..((n - 1) - 1) : i \in 1..(n - 1)
        BY <1>3
      <4>2. QED
        BY <1>2, <3>1, <3>2, <4>1 DEF Idle
    <3>5. ASSUME forms' # <<>>, Top'.kind = "delete" PROVE Top'.done
      <4>1. n - 1 > 0 /\ n - 1 \in 1..(n - 1)
        BY <1>3, <3>1, <3>2, <3>3, <3>5
      <4>2. Top' = forms[n - 1]
        BY <3>1, <3>2, <4>1 DEF Top, Last
      <4>3. QED
        BY <1>2, <3>5, <4>1, <4>2 DEF Idle, IsForm
    <3>6. QED
      BY <2>2, <2>3, <3>4, <3>5 DEF Patient
  <2>6. CASE HandlePop /\ forms = <<>>
    <3>1. forms' = <<>> /\ Len(forms') = 0
      BY <2>6 DEF HandlePop
    <3>2. Idle(Len(forms) - 1)'
      BY <3>1 DEF Idle
    <3>3. QED
      BY <2>2, <2>3, <3>1, <3>2 DEF Patient
  <2>7. CASE HandleOrphan
    BY <1>2, <2>7 DEF HandleOrphan
  <2>8. QED
    BY <1>4, <2>4, <2>5, <2>6, <2>7
<1>6. QED
  BY <1>4, <1>5 DEF HandlePush, HandlePop, HandleOrphan

\* Every step keeps Patient.
LEMMA PatientStep == ASSUME Sound, Counted, Patient, Next PROVE Patient'
<1>1. CASE rushed' = 0
  BY <1>1, PatientMain, PatientForms, PatientHandles DEF Next
<1>2. CASE rushed' # 0
  BY <1>2 DEF Patient
<1>3. QED
  BY <1>1, <1>2

-----------------------------------------------------------------------------
(* What breaks. *)

\* A step breaks nothing in the hands of a user who waits, but the root.
LEMMA HasteStep ==
    ASSUME Sound, Counted, Patient, Next PROVE UndefinedNeedsHaste'
<1>1. CASE broken' = None
  BY <1>1, NoneAssumption DEF UndefinedNeedsHaste
<1>2. CASE Move \/ Toggle \/ View \/ PostForm \/ Copy \/ Quit \/ Dismiss \/ Leave \/ Finish
           \/ FinishNew \/ HandlePush \/ HandlePop
  <2>1. broken = None /\ broken' = broken
    BY <1>2 DEF Move, Toggle, View, PostForm, Copy, Quit, Dismiss, Leave, Finish,
                FinishNew, HandlePush, HandlePop, MainKey, FormKey, Key, Running
  <2>2. QED
    BY <1>1, <2>1
<1>3. CASE Paste
  <2>1. Target \in DOMAIN heap /\ Tree(heap)
    BY <1>3, SelectedIs DEF Paste, Counted, Sound, ObjectsLive
  <2>2. Target # None
    BY <2>1, IdAssumption, TreeMeans
  <2>3. broken = None /\ broken' = broken
    BY <1>3, <2>2 DEF Paste, MainKey, Key, Running
  <2>4. QED
    BY <1>1, <2>3
<1>4. CASE Delete
  <2> DEFINE n == Top.node
             lost == heap[n].parent = None \/ n \notin ToSet(Children(heap, heap[n].parent))
  <2>1. Key /\ forms # <<>> /\ Top.kind = "delete" /\ ~Top.done
    BY <1>4 DEF Delete, FormKey
  <2>2. broken = None /\ rushed' \in Nat /\ (rushed' = 0 => rushed = 0)
    BY <2>1, KeyIs DEF Counted
  <2>3. CASE ~lost
    BY <1>1, <1>4, <2>2, <2>3 DEF Delete
  <2>4. CASE lost
    <3>1. /\ broken' = IF heap[n].parent = None THEN "parent" ELSE "erase"
          /\ UNCHANGED <<forms, thrown>>
      BY <1>4, <2>4 DEF Delete, trouble
    <3>2. Top' = Top
      BY <3>1 DEF Top
    <3>3. rushed' = 0 => n \in ToSet(rows)
      BY <2>1, <2>2 DEF Patient
    <3>4. ToSet(rows) \subseteq DOMAIN heap /\ None \notin DOMAIN heap
      BY IdAssumption, TreeMeans DEF Sound, ObjectsLive, ToSet
    <3>5. CASE heap[n].parent = None
      <4>1. rushed' = 0 => n = Root
        BY <3>3, <3>4, <3>5 DEF Sound, RowsKeepParents
      <4>2. rushed' > 0 \/ Top'.node = Root
        BY <2>2, <3>2, <4>1
      <4>3. QED
        BY <3>1, <3>5, <4>2 DEF UndefinedNeedsHaste
    <3>6. CASE heap[n].parent # None
      <4>1. n \notin ToSet(Children(heap, heap[n].parent))
        BY <2>4, <3>6
      <4>2. rushed' = 0 /\ thrown = 0 => FALSE
        <5> SUFFICES ASSUME rushed' = 0, thrown = 0 PROVE FALSE
          OBVIOUS
        <5>1. n \in ToSet(rows) /\ n \in DOMAIN heap
          BY <3>3, <3>4
        <5>2. n # Root
          BY <3>6, <5>1 DEF Sound, ObjectsLive
        <5>3. QED
          BY <4>1, <5>1, <5>2 DEF Sound, RowsHang
      <4>3. rushed' > 0 \/ thrown' > 0
        BY <2>2, <3>1, <4>2 DEF Counted
      <4>4. QED
        BY <3>1, <3>6, <4>3 DEF UndefinedNeedsHaste
    <3>7. QED
      BY <3>5, <3>6
  <2>5. QED
    BY <2>3, <2>4
<1>5. CASE HandleOrphan
  <2>1. closed /\ requests # <<>> /\ rushed' = rushed /\ broken' \in {"dangling", None}
    BY <1>5 DEF HandleOrphan
  <2>2. rushed # 0 /\ rushed \in Nat
    BY <2>1 DEF Patient, Counted
  <2>3. rushed' > 0
    BY <2>1, <2>2
  <2>4. QED
    BY <1>1, <2>1, <2>3 DEF UndefinedNeedsHaste
<1>6. CASE ReadOutside
  BY <1>6 DEF ReadOutside, UndefinedNeedsHaste
<1>7. QED
  BY <1>2, <1>3, <1>4, <1>5, <1>6 DEF Next

-----------------------------------------------------------------------------
(* One form, then its pop. *)

\* Every step keeps Calm.
LEMMA CalmStep ==
    ASSUME Sound, Counted, Patient, Calm, Next PROVE Calm'
<1> SUFFICES ASSUME rushed' = 0, thrown' = 0, ~closed', broken' = None
             PROVE  Calm'
  BY DEF Calm
<1>0. /\ rushed \in Nat /\ thrown \in Nat
      /\ forms \in Seq(Forms(DOMAIN heap)) /\ requests \in Seq(Requests(DOMAIN heap))
  BY DEF Counted, Sound, ObjectsLive
<1>a. Append(<<>>, Pop) = <<Pop>> /\ \A f : Append(<<>>, Push(f)) = <<Push(f)>>
  OBVIOUS
<1>b. Len(<<>>) = 0 /\ (forms = <<>> => Len(forms) = 0) /\ (Len(forms) = 0 => forms = <<>>)
  BY <1>0
<1>c. \A f : f.kind = "delete" => StateOf(f) = "CreatingOrDeleting"
  BY DEF StateOf
<1>1. ASSUME Key
      PROVE  /\ requests = <<>> /\ rushed = 0 /\ ~closed /\ broken = None
             /\ thrown = 0 =>
                  \/ forms = <<>> /\ state = "Browsing"
                  \/ Len(forms) = 1 /\ ~Top.done /\ Top.kind # "error" /\ state = StateOf(Top)
  <2>1. requests = <<>> /\ rushed = 0 /\ ~closed /\ broken = None
    BY <1>0, <1>1, KeyIs
  <2>2. QED
    BY <2>1 DEF Calm
<1>2. \A fs : ~Throws(fs)
  BY <1>0 DEF Throws
<1>3. CASE Move \/ Toggle \/ View \/ PostForm \/ Copy \/ Paste \/ Quit
  <2>1. MainKey /\ thrown' = thrown /\ forms' = forms
    BY <1>2, <1>3 DEF Move, Toggle, View, PostForm, Copy, Paste, Quit, trouble, Saves, SaveThrows
  <2>2. forms = <<>> /\ state = "Browsing" /\ requests = <<>>
    BY <1>1, <1>b, <2>1 DEF MainKey
  <2>3. CASE UNCHANGED <<requests, state>>
    BY <2>1, <2>2, <2>3 DEF Calm
  <2>4. CASE Request(Pop) /\ UNCHANGED state
    <3>1. requests' = <<Pop>>
      BY <1>a, <2>2, <2>4 DEF Request
    <3>2. Len(forms') <= 1
      BY <1>b, <2>1, <2>2
    <3>3. QED
      BY <2>2, <2>4, <3>1, <3>2 DEF Calm
  <2>5. CASE \E f : PushForm(f) /\ ~f.done /\ f.kind # "error" /\ state' = StateOf(f)
    <3>1. PICK f : PushForm(f) /\ ~f.done /\ f.kind # "error" /\ state' = StateOf(f)
      BY <2>5
    <3>2. requests' = <<Push(f)>>
      BY <1>a, <2>2, <3>1 DEF PushForm, Request
    <3>3. requests' # <<>> /\ Head(requests').op = "push" /\ Head(requests').form = f
      BY <3>2 DEF Push
    <3>4. QED
      BY <2>1, <2>2, <3>1, <3>3 DEF Calm
  <2>6. \A n : \A k \in Kinds : NewForm(k, n).kind = k /\ ~NewForm(k, n).done
    BY DEF NewForm
  <2>7. CASE View
    <3>1. PushForm(NewForm("view", None)) /\ state' = "Editing"
      BY <1>2, <2>7 DEF View
    <3>2. NewForm("view", None).kind = "view" /\ ~NewForm("view", None).done
      BY <2>6 DEF Kinds
    <3>3. QED
      BY <2>5, <3>1, <3>2 DEF StateOf
  <2>8. CASE PostForm
    <3>1. \/ PushForm(NewForm("newEntry", None)) /\ state' = "CreatingOrDeleting"
          \/ PushForm(NewForm("newDir", None)) /\ state' = "CreatingOrDeleting"
          \/ PushForm(NewForm("edit", Selected)) /\ state' = "Editing"
          \/ PushForm(NewForm("help", None)) /\ state' = "Browsing"
      BY <2>2, <2>8 DEF PostForm
    <3>2. \A n : \A k \in {"newEntry", "newDir", "edit", "help"} :
             NewForm(k, n).kind = k /\ ~NewForm(k, n).done
      BY <2>6 DEF Kinds
    <3>3. \E f : PushForm(f) /\ ~f.done /\ f.kind # "error" /\ state' = StateOf(f)
      BY <3>1, <3>2 DEF StateOf
    <3>4. QED
      BY <2>5, <3>3
  <2>9. CASE Copy
    <3>1. \/ UNCHANGED <<requests, state>>
          \/ PushForm(NewForm("delete", Selected)) /\ state' = "CreatingOrDeleting"
      BY <2>9 DEF Copy
    <3>2. NewForm("delete", Selected).kind = "delete" /\ ~NewForm("delete", Selected).done
      BY <2>6 DEF Kinds
    <3>3. QED
      BY <1>c, <2>3, <2>5, <3>1, <3>2
  <2>10. CASE Move \/ Toggle \/ Paste \/ Quit
    BY <2>3, <2>4, <2>10 DEF Move, Toggle, Paste, Quit
  <2>11. QED
    BY <1>3, <2>7, <2>8, <2>9, <2>10
<1>4. CASE Dismiss \/ Leave \/ Finish \/ FinishNew \/ Delete
  <2>1. Key /\ forms # <<>> /\ thrown' = thrown
    BY <1>2, <1>4 DEF Dismiss, Leave, Finish, FinishNew, Delete, FormKey, trouble, Saves,
                      SaveThrows
  <2>2. requests = <<>> /\ Len(forms) = 1 /\ Top.kind # "error" /\ state = StateOf(Top)
        /\ broken = None
    BY <1>1, <2>1
  <2>3. /\ Len(forms') = 1
        /\ Request(Pop)
        /\ state' = "Browsing"
    <3>1. Len(Done) = 1
      BY <1>0, <2>1, <2>2, DoneIs
    <3>2. CASE Dismiss
      <4>1. Top.kind = "help"
        BY <2>2, <3>2 DEF Dismiss, IsForm
      <4>2. QED
        BY <2>2, <3>2, <4>1 DEF Dismiss, StateOf
    <3>3. CASE Leave \/ Finish
      BY <2>2, <3>1, <3>3 DEF Leave, Finish
    <3>4. CASE FinishNew
      BY <1>2, <3>1, <3>4 DEF FinishNew, Saves, SaveThrows
    <3>5. CASE Delete
      <4>1. ~(heap[Top.node].parent = None
              \/ Top.node \notin ToSet(Children(heap, heap[Top.node].parent)))
        BY <3>5, NoneAssumption DEF Delete
      <4>2. Saves(Erase(heap, Top.node), Done) /\ Request(Pop) /\ state' = "Browsing"
        BY <1>2, <3>5, <4>1 DEF Delete, SaveThrows
      <4>3. QED
        BY <3>1, <4>2 DEF Saves
    <3>6. QED
      BY <1>4, <3>2, <3>3, <3>4, <3>5
  <2>4. requests' = <<Pop>>
    BY <1>a, <2>2, <2>3 DEF Request
  <2>5. QED
    BY <2>3, <2>4 DEF Calm
<1>5. CASE HandlePush
  <2> DEFINE f == Head(requests).form
  <2>1. /\ requests # <<>> /\ Head(requests).op = "push" /\ requests' = Tail(requests)
        /\ forms' = Append(forms, f)
        /\ UNCHANGED <<state, rushed, thrown, closed, broken>>
    BY <1>5 DEF HandlePush, trouble
  <2>2. rushed = 0 /\ thrown = 0 /\ ~closed /\ broken = None
    BY <2>1
  <2>3. Len(requests) <= 1
    BY <2>2 DEF Patient
  <2>4. forms = <<>> /\ ~f.done /\ f.kind # "error" /\ state = StateOf(f)
    <3>1. requests = <<Pop>> => FALSE
      BY <2>1 DEF Pop
    <3>2. QED
      BY <2>1, <2>2, <3>1 DEF Calm
  <2>5. requests' = <<>>
    <3>1. Len(requests) \in Nat /\ Len(requests) # 0 /\ Len(Tail(requests)) = Len(requests) - 1
          /\ Tail(requests) \in Seq(Requests(DOMAIN heap))
      BY <1>0, <2>1
    <3>2. Len(Tail(requests)) = 0
      BY <2>3, <3>1
    <3>3. QED
      BY <2>1, <3>1, <3>2
  <2> HIDE DEF f
  <2>6. Len(forms') = 1 /\ forms'[1] = f
    BY <2>1, <2>4
  <2>7. Top' = f
    BY <2>6 DEF Top, Last
  <2>8. QED
    BY <2>1, <2>4, <2>5, <2>6, <2>7 DEF Calm
<1>6. CASE HandlePop
  <2>1. /\ requests # <<>> /\ Head(requests).op = "pop" /\ requests' = Tail(requests)
        /\ UNCHANGED <<state, rushed, thrown, broken>>
        /\ forms # <<>> /\ forms' = Front(forms)
    BY <1>6 DEF HandlePop, trouble
  <2>2. rushed = 0 /\ thrown = 0 /\ ~closed /\ broken = None
    BY <1>6, <2>1 DEF HandlePop, Running
  <2>3. requests = <<Pop>> /\ Len(forms) <= 1 /\ state = "Browsing"
    BY <2>1, <2>2 DEF Calm
  <2>4. requests' = <<>>
    BY <2>1, <2>3
  <2>5. forms' = <<>>
    <3>1. Len(forms) \in Nat /\ Len(forms) # 0
      BY <1>0, <2>1
    <3>2. Front(forms) \in Seq(Forms(DOMAIN heap)) /\ Len(Front(forms)) = Len(forms) - 1
      BY <1>0, <2>1, FrontIs
    <3>3. Len(Front(forms)) = 0
      BY <2>3, <3>1, <3>2
    <3>4. QED
      BY <2>1, <3>2, <3>3
  <2>6. QED
    BY <2>1, <2>3, <2>4, <2>5 DEF Calm
<1>7. CASE HandleOrphan \/ ReadOutside
  <2>1. closed' = closed /\ (ReadOutside => broken' = "rows") /\ (HandleOrphan => closed)
    BY <1>7 DEF HandleOrphan, ReadOutside
  <2>2. QED
    BY <1>7, <2>1, NoneAssumption
<1>8. QED
  BY <1>3, <1>4, <1>5, <1>6, <1>7 DEF Next

-----------------------------------------------------------------------------
(* The theorems. *)

\* The inductive invariant, in the parts its proof goes by.
LEMMA IndInvIs ==
    IndInv <=> Sound /\ Counted /\ Patient /\ Calm /\ UndefinedNeedsHaste
BY TypeIs DEF IndInv, Sound

\* It holds of a new keychain.
LEMMA InitIndInv == Init => IndInv
<1> SUFFICES ASSUME Init PROVE IndInv
  OBVIOUS
<1> DEFINE o == [NewObject(TRUE, None) EXCEPT !.open = TRUE]
<1>1. /\ heap = [n \in {Root} |-> o] /\ rows = <<Root>> /\ cursor = 0 /\ clipboard = None
      /\ state = "Browsing" /\ forms = <<>> /\ requests = <<>>
      /\ closed = FALSE /\ stale = FALSE /\ broken = None /\ rushed = 0 /\ thrown = 0
  BY DEF Init
<1>2. /\ o \in Object /\ o.isDir /\ o.parent = None /\ o.dirs = <<>> /\ o.entries = <<>>
  <2> DEFINE new == NewObject(TRUE, None)
  <2>1. new \in Object /\ new.isDir /\ new.parent = None /\ new.dirs = <<>> /\ new.entries = <<>>
    BY DEF NewObject, Object
  <2>2. o = [new EXCEPT !.open = TRUE]
    OBVIOUS
  <2> HIDE DEF new, o
  <2>3. QED
    BY <2>1, <2>2 DEF Object
<1> HIDE DEF o
<1>3. DOMAIN heap = {Root} /\ heap[Root] = o
  BY <1>1
<1>4. Kids(heap, Root) = {}
  BY <1>2, <1>3 DEF Kids, ToSet
<1>5. Alive(heap, Root) /\ Parted(heap, Root)
  BY <1>2, <1>3, <1>4 DEF Alive, Parted, IsInjective, ToSet
<1>6. Rooted(heap)
  BY <1>3, <1>4 DEF Rooted
<1>7. Tree(heap)
  BY <1>3, <1>5, <1>6, IdAssumption, TreeIs
<1>8. forms \in Seq(Forms(DOMAIN heap)) /\ requests \in Seq(Requests(DOMAIN heap))
  BY <1>1
<1>9. ObjectsLive
  BY <1>1, <1>2, <1>3, <1>7, <1>8 DEF ObjectsLive
<1>10. rows \in Seq(DOMAIN heap) /\ ToSet(rows) \ {Root} = {} /\ rows # <<>>
  BY <1>1, <1>3 DEF ToSet
<1>11. Sound
  BY <1>1, <1>9, <1>10 DEF Sound, RowsHang, RowsKeepParents
<1>12. Counted
  BY <1>1, BoundAssumption DEF Counted
<1>13. Patient
  BY <1>1 DEF Patient, Idle
<1>14. Calm /\ UndefinedNeedsHaste
  BY <1>1, NoneAssumption DEF Calm, UndefinedNeedsHaste
<1>15. QED
  BY <1>11, <1>12, <1>13, <1>14, IndInvIs

\* Every step keeps it.
LEMMA NextIndInv == IndInv /\ [Next]_vars => IndInv'
<1> SUFFICES ASSUME IndInv, [Next]_vars PROVE IndInv'
  OBVIOUS
<1>1. CASE UNCHANGED vars
  BY <1>1 DEF vars, trouble, IndInv, TypeOK, ObjectsLive, RowsHang, RowsKeepParents, Patient, Calm,
              UndefinedNeedsHaste, Idle, Top
<1>2. CASE Next
  <2>1. Sound /\ Counted /\ Patient /\ Calm
    BY IndInvIs
  <2>2. cursor \in Nat /\ thrown \in Nat
    BY <2>1 DEF Counted
  <2>3. Sound'
    BY <1>2, <2>1, <2>2, SoundStep
  <2>4. Counted' /\ Patient' /\ Calm' /\ UndefinedNeedsHaste'
    BY <1>2, <2>1, CountedStep, PatientStep, CalmStep, HasteStep
  <2>5. (Sound /\ Counted => TypeOK)'
    BY TypeIs, PTL
  <2>6. QED
    BY <2>3, <2>4, <2>5 DEF IndInv, Sound
<1>3. QED
  BY <1>1, <1>2

\* The inductive invariant holds.
THEOREM Invariance == Spec => []IndInv
BY InitIndInv, NextIndInv, PTL DEF Spec

\* The model stays in its types.
THEOREM TypeCorrect == Spec => []TypeOK
<1>1. IndInv => TypeOK
  BY DEF IndInv
<1>2. QED
  BY <1>1, Invariance, PTL

\* The tree of the keychain, and what hangs from the clipboard or a form, stay
\* trees whatever is added, deleted, cut and pasted, a directory into itself
\* included: the parent pointers are those of the lists of children, no object
\* is in two lists or twice in one, and none is below itself.
THEOREM TreesStayTrees == Spec => []TreeIsATree
<1>1. IndInv => TreeIsATree
  BY DEF IndInv, ObjectsLive, Tree, TreeIsATree
<1>2. QED
  BY <1>1, Invariance, PTL

\* The directory of a row is a row, and so alive: entry->parent_dir.lock() cannot
\* fail where a paste or a new entry asks for it.
THEOREM ParentsOfRows == Spec => []RowsKeepParents
<1>1. IndInv => RowsKeepParents
  BY DEF IndInv
<1>2. QED
  BY <1>1, Invariance, PTL

\* While no key comes early and no save throws, there is one form at most, and
\* state says which.
THEOREM StateSaysTheForm == Spec => []FormsMatchState
<1>1. IndInv => FormsMatchState
  <2> SUFFICES ASSUME IndInv, rushed = 0, thrown = 0, requests = <<>>, ~closed, broken = None
               PROVE  /\ Len(forms) <= 1
                      /\ forms # <<>> => ~Top.done
                      /\ state = IF forms = <<>> \/ Top.kind = "help" THEN "Browsing"
                                 ELSE IF Top.kind \in {"view", "edit"} THEN "Editing"
                                 ELSE "CreatingOrDeleting"
    BY DEF FormsMatchState
  <2>1. \/ forms = <<>> /\ state = "Browsing"
        \/ Len(forms) = 1 /\ ~Top.done /\ state = StateOf(Top)
    BY DEF IndInv, Calm
  <2>2. CASE forms = <<>> /\ state = "Browsing"
    BY <2>2
  <2>3. CASE Len(forms) = 1 /\ ~Top.done /\ state = StateOf(Top)
    <3>1. forms # <<>>
      BY <2>3
    <3> HIDE DEF Top
    <3>2. QED
      BY <2>3, <3>1 DEF StateOf
  <2>4. QED
    BY <2>1, <2>2, <2>3
<1>2. QED
  BY <1>1, Invariance, PTL

\* A deletion that finds no parent or nothing to erase, and a form initialised
\* after its screen, take a key that came early, a save that threw or the root.
THEOREM NoHarmWithoutHaste == Spec => []UndefinedNeedsHaste
<1>1. IndInv => UndefinedNeedsHaste
  BY DEF IndInv
<1>2. QED
  BY <1>1, Invariance, PTL

=============================================================================
