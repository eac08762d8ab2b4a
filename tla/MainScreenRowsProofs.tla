------------------------ MODULE MainScreenRowsProofs ------------------------
(***************************************************************************)
(* Proofs about the rows of MainScreen and the cursor on them, on top of   *)
(* MainScreenProofs.                                                       *)
(*                                                                         *)
(* Preorder(h) is one function on a tree (PreorderUnique, PreorderExists), *)
(* and the work list of flatten_dirs lists it: AfterOne is the invariant   *)
(* of a round, FlattenIs what it gives at the end.  RowsStep says what a   *)
(* step may do to the rows; from it follow RowsShowStep, the induction     *)
(* step of RowsAreTheTree, and CursorStep, what CursorStaysIn says of one  *)
(* step.                                                                   *)
(***************************************************************************)
EXTENDS MainScreenProofs

-----------------------------------------------------------------------------
(* Sequences of sequences, joined. *)

\* What FlattenSeq has joined after each of the sequences in s.
IsFlat(s, S, w) == /\ w \in [0..Len(s) -> Seq(S)] /\ w[0] = <<>>
                   /\ \A i \in 1..Len(s) : w[i] = w[i - 1] \o s[i]

\* There is such a thing.
LEMMA FlatExists == ASSUME NEW S, NEW s \in Seq(Seq(S)) PROVE \E w : IsFlat(s, S, w)
<1> DEFINE n == Len(s)
           Q == Seq(S)
           Upto(w, k) == w[0] = <<>> /\ \A i \in 1..k : w[i] = w[i - 1] \o s[i]
           G == {k \in 0..n : \E w \in [0..n -> Q] : Upto(w, k)}
<1>0. n \in Nat /\ \A i \in 1..n : s[i] \in Q
  OBVIOUS
<1>a. ASSUME NEW x \in Q, NEW y \in Q PROVE x \o y \in Q
  OBVIOUS
<1>d. <<>> \in Q
  OBVIOUS
<1>b. (n \in G) => \E w : IsFlat(s, S, w)
  BY <1>0 DEF IsFlat
<1> HIDE DEF n, Q
<1>1. 0 \in G
  <2> DEFINE w == [k \in 0..n |-> <<>>]
  <2>1. w[0] = <<>> /\ w \in [0..n -> Q] /\ 0 \in 0..n
    BY <1>0, <1>d
  <2>3. Upto(w, 0)
    BY <2>1
  <2> HIDE DEF Upto, w
  <2>2. QED
    BY <2>1, <2>3
<1>2. ASSUME NEW k \in G, k < n PROVE k + 1 \in G
  <2>0. k \in 0..n /\ k \in Nat /\ k + 1 \in 1..n /\ k + 1 \in 0..n /\ (k + 1) - 1 = k
    BY <1>0, <1>2
  <2>1. PICK w \in [0..n -> Q] : Upto(w, k)
    OBVIOUS
  <2> DEFINE x == w[k] \o s[k + 1]
             v == [w EXCEPT ![k + 1] = x]
  <2>2. x \in Q
    <3>1. w[k] \in Q /\ s[k + 1] \in Q
      BY <1>0, <2>0
    <3>2. QED
      BY <1>a, <3>1
  <2> HIDE DEF x
  <2>3. /\ v \in [0..n -> Q] /\ v[k + 1] = x /\ \A i \in 0..k : v[i] = w[i]
        /\ k + 1 \in 0..n
    BY <2>0, <2>2
  <2> HIDE DEF v
  <2>4. Upto(v, k + 1)
    <3>1. \A i \in 1..k : i \in 0..k /\ i - 1 \in 0..k /\ v[i] = v[i - 1] \o s[i]
      <4> SUFFICES ASSUME NEW i \in 1..k
                   PROVE  i \in 0..k /\ i - 1 \in 0..k /\ v[i] = v[i - 1] \o s[i]
        OBVIOUS
      <4>1. i \in 0..k /\ i - 1 \in 0..k
        BY <2>0
      <4>2. w[i] = w[i - 1] \o s[i]
        BY <2>1
      <4>3. v[i] = w[i] /\ v[i - 1] = w[i - 1]
        BY <2>3, <4>1
      <4>4. QED
        BY <4>1, <4>2, <4>3
    <3>2. v[k + 1] = v[(k + 1) - 1] \o s[k + 1]
      <4>1. k \in 0..k
        BY <2>0
      <4>2. v[k] = w[k]
        BY <2>3, <4>1
      <4>3. QED
        BY <2>0, <2>3, <4>2 DEF x
    <3>3. \A i \in 1..(k + 1) : i \in 1..k \/ i = k + 1
      BY <2>0
    <3>4. v[0] = <<>>
      <4>1. 0 \in 0..k
        BY <2>0
      <4>2. QED
        BY <2>1, <2>3, <4>1
    <3>5. QED
      BY <3>1, <3>2, <3>3, <3>4
  <2> HIDE DEF Upto
  <2>5. QED
    BY <2>3, <2>4
<1>3. n \in G
  <2> HIDE DEF G
  <2>1. G \subseteq 0..n
    BY DEF G
  <2>2. G = 0..n
    BY <1>0, <1>1, <1>2, <2>1, InductionUpTo
  <2>3. QED
    BY <1>0, <2>2
<1>4. QED
  BY <1>b, <1>3

\* And only one, which FlattenSeq returns.
LEMMA FlattenSeqIs ==
    ASSUME NEW S, NEW s \in Seq(Seq(S)), NEW w, IsFlat(s, S, w)
    PROVE  FlattenSeq(s) = w[Len(s)]
<1> DEFINE n == Len(s)
           Is(f) == f = [i \in 1..n |-> IF i = 1 THEN s[i] ELSE f[i - 1] \o s[i]]
           flatten == CHOOSE f : Is(f)
<1>0. n \in Nat /\ \A i \in 1..n : s[i] \in Seq(S)
  OBVIOUS
<1>1. CASE n = 0
  <2>1. s = <<>> /\ FlattenSeq(s) = s
    BY <1>1 DEF FlattenSeq
  <2>2. QED
    BY <1>1, <2>1 DEF IsFlat
<1>2. CASE n > 0
  <2>1. FlattenSeq(s) = flatten[n]
    BY <1>0, <1>2 DEF FlattenSeq
  <2>2. /\ w[0] = <<>> /\ \A i \in 1..n : w[i] = w[i - 1] \o s[i]
    BY DEF IsFlat
  <2>3. w[1] = s[1]
    <3> HIDE DEF n
    <3>0. 1 \in 1..n /\ 1 - 1 = 0
      BY <1>0, <1>2
    <3>1. w[1] = w[0] \o s[1] /\ s[1] \in Seq(S)
      <4>1. w[1] = w[1 - 1] \o s[1]
        BY <2>2, <3>0
      <4>2. QED
        BY <1>0, <3>0, <4>1
    <3>2. <<>> \o s[1] = s[1]
      BY <3>1
    <3>3. QED
      BY <2>2, <3>1, <3>2
  <2> HIDE DEF n
  <2>4. Is([i \in 1..n |-> w[i]])
    <3>1. ASSUME NEW i \in 1..n
          PROVE  w[i] = IF i = 1 THEN s[i] ELSE [j \in 1..n |-> w[j]][i - 1] \o s[i]
      <4>1. i # 1 => i - 1 \in 1..n
        BY <1>0
      <4>2. QED
        BY <2>2, <2>3, <4>1
    <3>2. QED
      BY <3>1
  <2>5. Is(flatten)
    <3> HIDE DEF Is
    <3>1. QED
      BY <2>4
  <2> HIDE DEF flatten
  <2>6. \A i \in 1..n : flatten[i] = IF i = 1 THEN s[i] ELSE flatten[i - 1] \o s[i]
    BY <2>5
  <2> HIDE DEF Is
  <2> DEFINE G == {k \in 0..n : k > 0 => flatten[k] = w[k]}
  <2>7. 0 \in G
    BY <1>0
  <2>8. ASSUME NEW k \in G, k < n PROVE k + 1 \in G
    <3>1. k + 1 \in 1..n /\ k + 1 \in 0..n /\ (k + 1) - 1 = k
      BY <1>0, <2>8
    <3>2. CASE k = 0
      BY <2>3, <2>6, <3>1, <3>2
    <3>3. CASE k > 0
      <4>1. flatten[k + 1] = flatten[k] \o s[k + 1]
        <5>1. k + 1 # 1
          BY <3>1, <3>3
        <5>2. QED
          BY <2>6, <3>1, <5>1
      <4>2. w[k + 1] = w[k] \o s[k + 1]
        BY <2>2, <3>1
      <4>3. QED
        BY <3>1, <3>3, <4>1, <4>2
    <3>4. QED
      BY <3>2, <3>3
  <2>9. n \in G
    <3> HIDE DEF G
    <3>1. G \subseteq 0..n
      BY DEF G
    <3>2. G = 0..n
      BY <1>0, <2>7, <2>8, <3>1, InductionUpTo
    <3>3. QED
      BY <1>0, <3>2
  <2>10. QED
    BY <1>2, <2>1, <2>9 DEF n
<1>3. QED
  BY <1>0, <1>1, <1>2

\* One sequence of sequences after another.
LEMMA FlattenSeqJoined ==
    ASSUME NEW S, NEW s \in Seq(Seq(S)), NEW t \in Seq(Seq(S))
    PROVE  /\ FlattenSeq(s \o t) = FlattenSeq(s) \o FlattenSeq(t)
           /\ FlattenSeq(s) \in Seq(S) /\ FlattenSeq(t) \in Seq(S)
<1> DEFINE m == Len(s)
           n == Len(t)
           r == s \o t
           Q == Seq(S)
<1>1. PICK w : IsFlat(s, S, w)
  BY FlatExists
<1>2. PICK v : IsFlat(t, S, v)
  BY FlatExists
<1>3. FlattenSeq(s) = w[m] /\ FlattenSeq(t) = v[n]
  BY <1>1, <1>2, FlattenSeqIs
<1>4. /\ m \in Nat /\ n \in Nat /\ r \in Seq(Q) /\ Len(r) = m + n
      /\ \A i \in 1..m : r[i] = s[i]
      /\ \A i \in 1..n : r[m + i] = t[i]
      /\ \A i \in 1..n : t[i] \in Q
  OBVIOUS
<1>5. /\ w \in [0..m -> Q] /\ w[0] = <<>> /\ \A i \in 1..m : w[i] = w[i - 1] \o s[i]
      /\ v \in [0..n -> Q] /\ v[0] = <<>> /\ \A i \in 1..n : v[i] = v[i - 1] \o t[i]
  BY <1>1, <1>2 DEF IsFlat
<1> DEFINE x == w[m]
           u == [i \in 0..(m + n) |-> IF i <= m THEN w[i] ELSE x \o v[i - m]]
<1>6. x \in Q
  BY <1>4, <1>5
<1>7. \A y \in Q : x \o y \in Q
  BY <1>6
<1>8. x \o <<>> = x
  BY <1>6
<1>9. \A y \in Q, z \in Q : (x \o y) \o z = x \o (y \o z)
  <2> SUFFICES ASSUME NEW y \in Seq(S), NEW z \in Seq(S)
               PROVE  (x \o y) \o z = x \o (y \o z)
    OBVIOUS
  <2> HIDE DEF x
  <2>1. x \in Seq(S)
    BY <1>6
  <2>2. QED
    BY <2>1, ConcatAssociative
<1> HIDE DEF m, n, r, x, Q
<1>10. u \in [0..(m + n) -> Q]
  <2> SUFFICES ASSUME NEW i \in 0..(m + n)
               PROVE  (IF i <= m THEN w[i] ELSE x \o v[i - m]) \in Q
    OBVIOUS
  <2>1. CASE i <= m
    BY <1>4, <1>5, <2>1
  <2>2. CASE ~(i <= m)
    <3>1. i - m \in 0..n
      BY <1>4, <2>2
    <3>2. QED
      BY <1>5, <1>7, <2>2, <3>1
  <2>3. QED
    BY <2>1, <2>2
<1>11. /\ \A i \in 0..m : u[i] = w[i]
       /\ \A i \in 0..n : u[m + i] = x \o v[i]
  <2>1. \A i \in 0..m : i \in 0..(m + n) /\ i <= m
    BY <1>4
  <2>2. \A i \in 0..n : m + i \in 0..(m + n) /\ (m + i <= m => i = 0) /\ (m + i) - m = i /\ m + 0 = m
    BY <1>4
  <2>3. \A i \in 0..n : (IF m + i <= m THEN w[m + i] ELSE x \o v[(m + i) - m]) = x \o v[i]
    BY <1>5, <1>8, <2>2 DEF x
  <2>4. QED
    BY <2>1, <2>2, <2>3
<1> HIDE DEF u
<1>12. ASSUME NEW i \in 1..(m + n) PROVE u[i] = u[i - 1] \o r[i]
  <2>1. CASE i <= m
    <3>1. i \in 1..m /\ i \in 0..m /\ i - 1 \in 0..m
      BY <1>4, <2>1
    <3>2. QED
      BY <1>4, <1>5, <1>11, <3>1
  <2>2. CASE ~(i <= m)
    <3> DEFINE j == i - m
    <3>1. j \in 1..n /\ j \in 0..n /\ j - 1 \in 0..n /\ i = m + j /\ i - 1 = m + (j - 1)
      BY <1>4, <2>2
    <3> HIDE DEF j
    <3>2. u[i] = x \o v[j] /\ u[i - 1] = x \o v[j - 1] /\ r[i] = t[j] /\ v[j] = v[j - 1] \o t[j]
      BY <1>4, <1>5, <1>11, <3>1
    <3>3. v[j - 1] \in Q /\ t[j] \in Q
      BY <1>4, <1>5, <3>1
    <3>4. QED
      BY <1>9, <3>2, <3>3
  <2>3. QED
    BY <2>1, <2>2
<1>13. IsFlat(r, S, u)
  <2>1. 0 \in 0..m /\ u[0] = <<>>
    BY <1>4, <1>5, <1>11
  <2>2. QED
    BY <1>4, <1>10, <1>12, <2>1 DEF IsFlat, Q
<1>14. FlattenSeq(r) = u[m + n]
  <2>1. FlattenSeq(r) = u[Len(r)]
    BY <1>4, <1>13, FlattenSeqIs DEF Q
  <2>2. QED
    BY <1>4, <2>1
<1>15. u[m + n] = x \o v[n] /\ w[m] \in Q /\ v[n] \in Q
  BY <1>4, <1>5, <1>11
<1>16. QED
  BY <1>3, <1>14, <1>15 DEF x, r, Q

\* A sequence of one sequence.
LEMMA FlattenSeqOne == ASSUME NEW S, NEW x \in Seq(S) PROVE FlattenSeq(<<x>>) = x
<1> DEFINE s == <<x>>
           w == [i \in 0..1 |-> IF i = 0 THEN <<>> ELSE x]
<1>1. s \in Seq(Seq(S)) /\ Len(s) = 1 /\ s[1] = x
  OBVIOUS
<1>2. <<>> \o x = x
  OBVIOUS
<1> HIDE DEF s
<1>3. w \in [0..1 -> Seq(S)] /\ w[0] = <<>> /\ w[1] = x /\ (\A i \in 1..1 : w[i] = w[i - 1] \o s[i])
  BY <1>1, <1>2
<1> HIDE DEF w
<1>4. IsFlat(s, S, w)
  BY <1>1, <1>3 DEF IsFlat
<1>5. FlattenSeq(s) = w[1]
  BY <1>1, <1>4, FlattenSeqIs
<1>6. QED
  BY <1>3, <1>5 DEF s

\* What f gives for each of a sequence, joined.
Flat(f, s) == FlattenSeq([i \in DOMAIN s |-> f[s[i]]])

\* For objects that f takes to sequences of objects, it distributes over the
\* sequence.
FlatLaws(D, f) ==
    /\ Flat(f, <<>>) = <<>>
    /\ \A n \in D : Flat(f, <<n>>) = f[n]
    /\ \A s \in Seq(D) : Flat(f, s) \in Seq(D)
    /\ \A s, t \in Seq(D) : Flat(f, s \o t) = Flat(f, s) \o Flat(f, t)

\* It does.
LEMMA FlatIs == ASSUME NEW D, NEW f \in [D -> Seq(D)] PROVE FlatLaws(D, f)
<1> DEFINE each(s) == [i \in DOMAIN s |-> f[s[i]]]
<1>0. \A s : Flat(f, s) = FlattenSeq(each(s))
  BY DEF Flat
<1>1. ASSUME NEW s \in Seq(D) PROVE each(s) \in Seq(Seq(D)) /\ Len(each(s)) = Len(s)
  <2> DEFINE n == Len(s)
             Q == Seq(D)
             e == [i \in 1..n |-> f[s[i]]]
  <2>1. n \in Nat /\ DOMAIN s = 1..n /\ \A i \in 1..n : s[i] \in D
    OBVIOUS
  <2>2. each(s) = e
    BY <2>1
  <2>3. f \in [D -> Q]
    OBVIOUS
  <2> HIDE DEF n, Q
  <2>4. e \in Seq(Q) /\ Len(e) = n
    BY <2>1, <2>3
  <2>5. QED
    BY <2>2, <2>4 DEF n, Q
<1>2. ASSUME NEW s \in Seq(D), NEW t \in Seq(D) PROVE each(s \o t) = each(s) \o each(t)
  <2> DEFINE m == Len(s)
             n == Len(t)
             r == s \o t
  <2>1. /\ m \in Nat /\ n \in Nat /\ r \in Seq(D) /\ Len(r) = m + n /\ DOMAIN s = 1..m /\ DOMAIN t = 1..n
        /\ DOMAIN r = 1..(m + n)
        /\ \A i \in 1..(m + n) : r[i] = IF i <= m THEN s[i] ELSE t[i - m]
    OBVIOUS
  <2>2. /\ each(s) \o each(t) \in Seq(Seq(D)) /\ Len(each(s) \o each(t)) = m + n
        /\ \A i \in 1..(m + n) :
              (each(s) \o each(t))[i] = IF i <= m THEN each(s)[i] ELSE each(t)[i - m]
    <3>1. each(s) \in Seq(Seq(D)) /\ each(t) \in Seq(Seq(D)) /\ Len(each(s)) = m /\ Len(each(t)) = n
      BY <1>1
    <3> HIDE DEF each, m, n
    <3>2. QED
      BY <3>1, ConcatProperties
  <2> HIDE DEF m, n, r
  <2>3. \A i \in 1..(m + n) : each(r)[i] = (each(s) \o each(t))[i]
    <3> SUFFICES ASSUME NEW i \in 1..(m + n) PROVE f[r[i]] = (each(s) \o each(t))[i]
      BY <2>1
    <3>1. CASE i <= m
      <4>1. i \in 1..m
        BY <2>1, <3>1
      <4>2. QED
        BY <2>1, <2>2, <3>1, <4>1
    <3>2. CASE ~(i <= m)
      <4>1. i - m \in 1..n
        BY <2>1, <3>2
      <4>2. QED
        BY <2>1, <2>2, <3>2, <4>1
    <3>3. QED
      BY <3>1, <3>2
  <2>4. each(r) \in Seq(Seq(D)) /\ Len(each(r)) = m + n
    BY <1>1, <2>1
  <2> HIDE DEF each
  <2>5. each(r) = each(s) \o each(t)
    <3> DEFINE a == each(r)
               b == each(s) \o each(t)
               Q == Seq(D)
    <3>1. a \in Seq(Q) /\ b \in Seq(Q) /\ Len(a) = m + n /\ Len(b) = m + n
          /\ \A i \in 1..(m + n) : a[i] = b[i]
      BY <2>2, <2>3, <2>4
    <3> HIDE DEF a, b, Q
    <3>2. a = b
      BY <3>1, SeqEqual
    <3>3. QED
      BY <3>2 DEF a, b
  <2>6. QED
    BY <2>5 DEF r
<1>3. each(<<>>) = <<>> /\ FlattenSeq(<<>>) = <<>>
  <2>1. FlattenSeq(<<>>) = <<>>
    BY DEF FlattenSeq
  <2>2. QED
    BY <2>1
<1>4. ASSUME NEW n \in D PROVE each(<<n>>) = <<f[n]>>
  OBVIOUS
<1> HIDE DEF each
<1>5. \A n \in D : Flat(f, <<n>>) = f[n]
  BY <1>0, <1>4, FlattenSeqOne
<1>6. ASSUME NEW s \in Seq(D) PROVE Flat(f, s) \in Seq(D)
  BY <1>0, <1>1, FlattenSeqJoined
<1>7. ASSUME NEW s \in Seq(D), NEW t \in Seq(D)
      PROVE  Flat(f, s \o t) = Flat(f, s) \o Flat(f, t)
  <2>1. each(s) \in Seq(Seq(D)) /\ each(t) \in Seq(Seq(D))
    BY <1>1
  <2>2. FlattenSeq(each(s) \o each(t)) = FlattenSeq(each(s)) \o FlattenSeq(each(t))
    BY <2>1, FlattenSeqJoined
  <2>3. each(s \o t) = each(s) \o each(t)
    BY <1>2
  <2>4. /\ Flat(f, s \o t) = FlattenSeq(each(s \o t))
        /\ Flat(f, s) = FlattenSeq(each(s)) /\ Flat(f, t) = FlattenSeq(each(t))
    BY <1>0
  <2>5. QED
    BY <2>2, <2>3, <2>4
<1>8. Flat(f, <<>>) = <<>>
  BY <1>0, <1>3
<1>9. QED
  BY <1>5, <1>6, <1>7, <1>8 DEF FlatLaws

-----------------------------------------------------------------------------
(* Preorder. *)

\* The children that show.
LEMMA ShownIs ==
    ASSUME NEW h, Tree(h), NEW n \in DOMAIN h
    PROVE  /\ Shown(h, n) \in Seq(DOMAIN h) /\ IsInjective(Shown(h, n))
           /\ ToSet(Shown(h, n)) = IF h[n].open THEN Kids(h, n) ELSE {}
<1>1. h[n] \in Object /\ Parted(h, n) /\ IsInjective(Children(h, n))
  BY TreeMeans DEF Alive, Tree, IsATree
<1>2. ToSet(Children(h, n)) = Kids(h, n) /\ Kids(h, n) \subseteq DOMAIN h
  BY <1>1, ChildrenAreKids DEF Parted
<1>3. Children(h, n) \in Seq(Id)
  BY <1>1 DEF Object, Children
<1>4. Children(h, n) \in Seq(DOMAIN h)
  BY <1>2, <1>3 DEF ToSet
<1>5. CASE h[n].open
  BY <1>1, <1>2, <1>4, <1>5 DEF Shown
<1>6. CASE ~h[n].open
  <2>1. Shown(h, n) = <<>>
    BY <1>6 DEF Shown
  <2>2. ToSet(<<>>) = {} /\ <<>> \in Seq(DOMAIN h) /\ IsInjective(<<>>)
    BY DEF ToSet, IsInjective
  <2>3. QED
    BY <1>6, <2>1, <2>2
<1>7. QED
  BY <1>5, <1>6

\* Some object of a set has no child in it: else every object of the set were the
\* parent of one, and so the child of one.
LEMMA LowestExists ==
    ASSUME NEW h, Tree(h), NEW S \in SUBSET DOMAIN h, S # {}
    PROVE  \E m \in S : Kids(h, m) \cap S = {}
<1> DEFINE k == [m \in S |-> CHOOSE c \in S : c \in Kids(h, m)]
<1>1. SUFFICES ASSUME \A m \in S : Kids(h, m) \cap S # {} PROVE FALSE
  OBVIOUS
<1>2. \A m \in S : k[m] \in S /\ k[m] \in Kids(h, m)
  BY <1>1
<1>3. IsFiniteSet(S)
  BY IdAssumption, FS_Subset, TreeMeans
<1>4. k \in [S -> S]
  BY <1>2
<1> HIDE DEF k
<1>5. \A m \in S : h[k[m]].parent = m
  BY <1>2, TreeMeans DEF Parted
<1>6. k \in Injection(S, S)
  BY <1>4, <1>5 DEF Injection, IsInjective
<1>7. k \in Surjection(S, S)
  BY <1>3, <1>6, FS_Injection
<1>8. \A c \in S : \E m \in S : c \in Kids(h, m)
  BY <1>2, <1>7 DEF Surjection
<1>9. QED
  BY <1>1, <1>8, TreeMeans DEF Rooted

\* Preorder, as a function on all objects.
IsPreorder(h, f) == \A n \in DOMAIN h : f[n] = <<n>> \o Flat(f, Shown(h, n))

\* Flat depends on what f gives for the sequence.
LEMMA FlatSame ==
    ASSUME NEW f, NEW g, NEW s, \A m \in ToSet(s) : f[m] = g[m]
    PROVE  Flat(f, s) = Flat(g, s)
<1>1. [i \in DOMAIN s |-> f[s[i]]] = [i \in DOMAIN s |-> g[s[i]]]
  BY DEF ToSet
<1>2. QED
  BY <1>1 DEF Flat

\* It is one function, on an object of two trees with the same below it.
LEMMA PreorderUnique ==
    ASSUME NEW h, NEW g, Tree(g), DOMAIN g \subseteq DOMAIN h,
           \A n \in DOMAIN g : Shown(g, n) = Shown(h, n),
           NEW f, IsPreorder(h, f), NEW e, IsPreorder(g, e)
    PROVE  \A n \in DOMAIN g : e[n] = f[n]
<1> DEFINE S == {n \in DOMAIN g : e[n] # f[n]}
<1>1. SUFFICES ASSUME S # {} PROVE FALSE
  OBVIOUS
<1>2. PICK m \in S : Kids(g, m) \cap S = {}
  BY <1>1, LowestExists
<1>3. ToSet(Shown(g, m)) \subseteq Kids(g, m) /\ Kids(g, m) \subseteq DOMAIN g
  <2>1. Parted(g, m)
    BY TreeMeans
  <2>2. QED
    BY <2>1, ShownIs DEF Parted
<1>4. \A n \in ToSet(Shown(g, m)) : e[n] = f[n]
  BY <1>2, <1>3
<1>5. Flat(e, Shown(g, m)) = Flat(f, Shown(g, m))
  BY <1>4, FlatSame
<1>6. QED
  BY <1>2, <1>5 DEF IsPreorder

\* And there is one.
LEMMA PreorderExists ==
    ASSUME NEW h, Tree(h)
    PROVE  \E f \in [DOMAIN h -> Seq(DOMAIN h)] : IsPreorder(h, f)
<1> DEFINE D == DOMAIN h
           Q == Seq(D)
           On(f, T) == \A n \in T : f[n] = <<n>> \o Flat(f, Shown(h, n))
           G == {T \in SUBSET D : Whole(h, T) /\ \E f \in [D -> Q] : On(f, T)}
           sizes == {i \in Nat : \E T \in G : i = Cardinality(D \ T)}
<1>1. IsFiniteSet(D)
  BY IdAssumption, FS_Subset, TreeMeans
<1>2. \A T \in SUBSET D : IsFiniteSet(D \ T) /\ Cardinality(D \ T) \in Nat
  BY <1>1, FS_Difference, FS_CardinalityType
<1>3. {} \in G
  <2> DEFINE f == [n \in D |-> <<>>]
  <2>1. f \in [D -> Q] /\ On(f, {}) /\ Whole(h, {})
    BY DEF Whole
  <2> HIDE DEF f, On
  <2>2. QED
    BY <2>1
<1>4. sizes # {} /\ sizes \in SUBSET Nat
  BY <1>2, <1>3
<1>5. PICK i \in sizes : \A j \in sizes : i <= j
  <2> HIDE DEF sizes
  <2>1. QED
    BY <1>4, LeastNat
<1>6. PICK T \in G : i = Cardinality(D \ T)
  OBVIOUS
<1>7. PICK f \in [D -> Q] : On(f, T)
  OBVIOUS
<1>8. T = D
  <2>1. SUFFICES ASSUME D \ T # {} PROVE FALSE
    BY <1>6
  <2> DEFINE S == D \ T
  <2>2. PICK m \in S : Kids(h, m) \cap S = {}
    <3>1. S \in SUBSET DOMAIN h /\ S # {}
      BY <2>1
    <3> HIDE DEF S
    <3>2. QED
      BY <3>1, LowestExists
  <2> DEFINE x == <<m>> \o Flat(f, Shown(h, m))
             g == [f EXCEPT ![m] = x]
             U == T \cup {m}
  <2>3. Parted(h, m) /\ m \in D /\ m \notin T
    BY <2>2, TreeMeans
  <2>4. Kids(h, m) \subseteq T
    BY <2>2, <2>3 DEF Parted
  <2>5. \A n \in D : Shown(h, n) \in Seq(D) /\ ToSet(Shown(h, n)) \subseteq Kids(h, n)
    BY ShownIs
  <2>6. x \in Q
    <3>1. Flat(f, Shown(h, m)) \in Q
      BY <2>3, <2>5, FlatIs DEF FlatLaws
    <3>2. <<m>> \in Q
      BY <2>3
    <3>3. QED
      BY <3>1, <3>2
  <2> HIDE DEF x, Q
  <2>7. g \in [D -> Q] /\ g[m] = x /\ \A n \in T : g[n] = f[n]
    BY <2>3, <2>6, <1>6
  <2> HIDE DEF g
  <2>8. Whole(h, T)
    BY <1>6
  <2>9. \A n \in U : \A c \in ToSet(Shown(h, n)) : g[c] = f[c]
    BY <2>3, <2>4, <2>5, <2>7, <2>8, <1>6 DEF Whole
  <2>10. \A n \in U : Flat(g, Shown(h, n)) = Flat(f, Shown(h, n))
    BY <2>9, FlatSame
  <2>11. On(g, U)
    BY <1>7, <2>7, <2>10 DEF x
  <2>12. Whole(h, U) /\ U \in SUBSET D
    BY <2>3, <2>4, <2>8, <1>6 DEF Whole
  <2> HIDE DEF On
  <2>13. U \in G
    BY <2>7, <2>11, <2>12
  <2>14. D \ U = (D \ T) \ {m} /\ m \in D \ T
    BY <2>3
  <2>15. Cardinality(D \ U) = Cardinality(D \ T) - 1
    <3> DEFINE V == D \ T
    <3>1. IsFiniteSet(V) /\ m \in V /\ D \ U = V \ {m}
      BY <1>2, <1>6, <2>14
    <3> HIDE DEF V
    <3>2. Cardinality(V \ {m}) = Cardinality(V) - 1
      BY <3>1, FS_RemoveElement
    <3>3. QED
      BY <3>1, <3>2 DEF V
  <2>16. Cardinality(D \ U) \in sizes /\ Cardinality(D \ T) \in Nat
    BY <1>2, <1>6, <2>12, <2>13
  <2>17. i <= Cardinality(D \ U)
    BY <1>5, <2>16
  <2>18. QED
    BY <1>6, <2>15, <2>16, <2>17
<1>9. QED
  BY <1>7, <1>8 DEF IsPreorder

\* It gives Preorder.
LEMMA PreorderIs ==
    ASSUME NEW h, Tree(h), Root \in DOMAIN h, NEW f, IsPreorder(h, f)
    PROVE  Preorder(h) = f[Root]
<1> DEFINE Is(e) == e = [n \in DOMAIN h |->
                            LET kids == Shown(h, n)
                            IN  <<n>> \o FlattenSeq([i \in DOMAIN kids |-> e[kids[i]]])]
           F == CHOOSE e : Is(e)
<1>1. Preorder(h) = F[Root]
  BY DEF Preorder
<1>2. PICK e \in [DOMAIN h -> Seq(DOMAIN h)] : IsPreorder(h, e)
  BY PreorderExists
<1>3. Is(e)
  BY <1>2 DEF IsPreorder, Flat
<1>4. Is(F)
  <2> HIDE DEF Is
  <2>1. QED
    BY <1>3
<1> HIDE DEF F
<1>5. IsPreorder(h, F)
  BY <1>4 DEF IsPreorder, Flat
<1> HIDE DEF Is
<1>6. F[Root] = f[Root]
  BY <1>5, PreorderUnique
<1>7. QED
  BY <1>1, <1>6

-----------------------------------------------------------------------------
(* The loop of flatten_dirs. *)

\* What holds after k rounds, when f is the preorder: what is listed and what is
\* to be listed make up the preorder, no object is in it twice, all hang from
\* what is listed, and what shows below that is in it.
After(h, f, k, st) ==
    /\ st \in [rv : Seq(DOMAIN h), to_visit : Seq(DOMAIN h)]
    /\ st.rv \o Flat(f, st.to_visit) = f[Root]
    /\ Len(st.rv) <= k /\ (st.to_visit # <<>> => Len(st.rv) = k)
    /\ IsInjective(st.rv) /\ IsInjective(st.to_visit)
    /\ ToSet(st.rv) \cap ToSet(st.to_visit) = {}
    /\ Root \in ToSet(st.rv) \cup ToSet(st.to_visit)
    /\ \A m \in (ToSet(st.rv) \cup ToSet(st.to_visit)) \ {Root} :
          \E p \in ToSet(st.rv) : m \in ToSet(Shown(h, p))
    /\ \A p \in ToSet(st.rv) : ToSet(Shown(h, p)) \subseteq ToSet(st.rv) \cup ToSet(st.to_visit)

\* Before the first round.
LEMMA AfterNone ==
    ASSUME NEW h, Tree(h), Root \in DOMAIN h, NEW f \in [DOMAIN h -> Seq(DOMAIN h)]
    PROVE  After(h, f, 0, [rv |-> <<>>, to_visit |-> <<Root>>])
<1> DEFINE st == [rv |-> <<>>, to_visit |-> <<Root>>]
           u == <<Root>>
<1>1. u \in Seq(DOMAIN h) /\ u # <<>> /\ ToSet(u) = {Root} /\ IsInjective(u)
  BY DEF ToSet, IsInjective
<1>2. ToSet(<<>>) = {} /\ IsInjective(<<>>) /\ <<>> \in Seq(DOMAIN h) /\ Len(<<>>) = 0
  BY DEF ToSet, IsInjective
<1>3. Flat(f, u) = f[Root]
  BY FlatIs DEF FlatLaws
<1>4. <<>> \o f[Root] = f[Root]
  <2>1. f[Root] \in Seq(DOMAIN h)
    OBVIOUS
  <2>2. QED
    BY <2>1
<1>5. st.rv = <<>> /\ st.to_visit = u /\ st \in [rv : Seq(DOMAIN h), to_visit : Seq(DOMAIN h)]
  BY <1>1, <1>2
<1> HIDE DEF u, st
<1>6. QED
  BY <1>1, <1>2, <1>3, <1>4, <1>5 DEF After, st

\* A sequence without repetitions, from its first element on.
LEMMA InjectiveTail ==
    ASSUME NEW S, NEW s \in Seq(S), s # <<>>, IsInjective(s)
    PROVE  /\ Head(s) \in S /\ Tail(s) \in Seq(S) /\ s = <<Head(s)>> \o Tail(s)
           /\ IsInjective(Tail(s)) /\ Head(s) \notin ToSet(Tail(s))
           /\ ToSet(s) = {Head(s)} \cup ToSet(Tail(s))
<1> DEFINE m == Len(s)
           t == Tail(s)
           u == <<Head(s)>>
<1>1. /\ m \in Nat /\ m > 0 /\ DOMAIN s = 1..m /\ t \in Seq(S) /\ Len(t) = m - 1
      /\ DOMAIN t = 1..(m - 1) /\ \A i \in 1..(m - 1) : t[i] = s[i + 1]
      /\ Head(s) = s[1] /\ s[1] \in S /\ u \in Seq(S) /\ s = u \o t
  OBVIOUS
<1>2. ToSet(u) = {Head(s)}
  BY DEF ToSet
<1> HIDE DEF m, t, u
<1>3. \A i \in 1..(m - 1) : i + 1 \in 1..m /\ i + 1 # 1
  BY <1>1
<1>4. IsInjective(t)
  <2> SUFFICES ASSUME NEW i \in 1..(m - 1), NEW j \in 1..(m - 1), t[i] = t[j] PROVE i = j
    BY <1>1 DEF IsInjective
  <2>1. s[i + 1] = s[j + 1] /\ i + 1 \in 1..m /\ j + 1 \in 1..m
    BY <1>1, <1>3
  <2>2. i + 1 = j + 1
    BY <1>1, <2>1 DEF IsInjective
  <2>3. QED
    BY <1>1, <2>2
<1>5. ASSUME NEW i \in 1..(m - 1), t[i] = s[1] PROVE FALSE
  <2>1. s[i + 1] = s[1] /\ i + 1 \in 1..m /\ i + 1 # 1 /\ 1 \in 1..m
    BY <1>1, <1>3, <1>5
  <2>2. QED
    BY <1>1, <2>1 DEF IsInjective
<1>6. Head(s) \notin ToSet(t)
  BY <1>1, <1>5 DEF ToSet
<1>7. ToSet(s) = {Head(s)} \cup ToSet(t)
  BY <1>1, <1>2, ToSetJoined
<1>8. QED
  BY <1>1, <1>4, <1>6, <1>7 DEF t, u

\* A round.
LEMMA AfterOne ==
    ASSUME NEW h, Tree(h), NEW f \in [DOMAIN h -> Seq(DOMAIN h)], IsPreorder(h, f),
           FlatLaws(DOMAIN h, f), NEW k \in Nat, NEW st, After(h, f, k, st)
    PROVE  After(h, f, k + 1, Round(h, st))
<1>1. CASE st.to_visit = <<>>
  <2>1. Round(h, st) = st
    BY <1>1 DEF Round
  <2>2. Len(st.rv) <= k + 1
    <3>1. st.rv \in Seq(DOMAIN h) /\ Len(st.rv) <= k
      BY DEF After
    <3>2. Len(st.rv) \in Nat
      BY <3>1
    <3> DEFINE n == Len(st.rv)
    <3> HIDE DEF n
    <3>3. n \in Nat /\ n <= k => n <= k + 1
      OBVIOUS
    <3>4. QED
      BY <3>1, <3>2, <3>3 DEF n
  <2>3. QED
    BY <1>1, <2>1, <2>2 DEF After
<1>2. CASE st.to_visit # <<>>
  <2> DEFINE D == DOMAIN h
             r == st.rv
             v == st.to_visit
             n == Head(v)
             t == Tail(v)
             s == Shown(h, n)
             rv == Append(r, n)
             tv == s \o t
             next == Round(h, st)
  <2>1. next = [rv |-> rv, to_visit |-> tv]
    BY <1>2 DEF Round
  <2>2. /\ r \in Seq(D) /\ v \in Seq(D) /\ v # <<>>
        /\ r \o Flat(f, v) = f[Root] /\ Len(r) = k
        /\ IsInjective(r) /\ IsInjective(v) /\ ToSet(r) \cap ToSet(v) = {}
        /\ Root \in ToSet(r) \cup ToSet(v)
        /\ \A m \in (ToSet(r) \cup ToSet(v)) \ {Root} : \E p \in ToSet(r) : m \in ToSet(Shown(h, p))
        /\ \A p \in ToSet(r) : ToSet(Shown(h, p)) \subseteq ToSet(r) \cup ToSet(v)
    BY <1>2 DEF After
  <2> HIDE DEF v, r
  <2>3. /\ n \in D /\ t \in Seq(D) /\ v = <<n>> \o t /\ IsInjective(t) /\ n \notin ToSet(t)
        /\ ToSet(v) = {n} \cup ToSet(t)
    BY <2>2, InjectiveTail
  <2> HIDE DEF n, t
  <2>4. /\ s \in Seq(D) /\ IsInjective(s) /\ ToSet(s) \subseteq Kids(h, n)
        /\ \A p \in D : ToSet(Shown(h, p)) \subseteq Kids(h, p)
    BY <2>3, ShownIs
  <2>5. \A p \in D : \A c \in Kids(h, p) : h[c].parent = p /\ c # Root
    BY TreeMeans DEF Parted
  <2>6. D \subseteq Id /\ ToSet(r) \subseteq D
    BY <2>2, TreeMeans DEF ToSet
  <2> HIDE DEF s, D
  <2>7. rv \in Seq(D) /\ ToSet(rv) = ToSet(r) \cup {n} /\ IsInjective(rv) /\ Len(rv) = k + 1
    <3>1. n \in Id /\ r \in Seq(Id)
      BY <2>2, <2>3, <2>6
    <3>2. n \notin ToSet(r)
      BY <2>2, <2>3
    <3>3. rv \in Seq(D) /\ Len(rv) = k + 1
      BY <2>2, <2>3
    <3> HIDE DEF rv
    <3>4. QED
      BY <2>2, <3>1, <3>2, <3>3, Joined1, Injective1 DEF rv
  <2>8. ASSUME NEW c \in ToSet(s), c \in ToSet(r) \cup ToSet(v) PROVE FALSE
    <3>1. h[c].parent = n /\ c # Root
      BY <2>3, <2>4, <2>5
    <3>2. PICK p \in ToSet(r) : c \in ToSet(Shown(h, p))
      BY <2>2, <2>8, <3>1
    <3>3. h[c].parent = p
      BY <2>4, <2>5, <2>6, <3>2
    <3>4. QED
      BY <2>2, <2>3, <3>1, <3>3
  <2>9. tv \in Seq(D) /\ ToSet(tv) = ToSet(s) \cup ToSet(t) /\ IsInjective(tv)
    <3>1. ToSet(s) \cap ToSet(t) = {}
      BY <2>3, <2>8
    <3>2. QED
      BY <2>3, <2>4, <3>1, ToSetJoined, InjectiveJoined
  <2> HIDE DEF rv, tv, next
  <2>10. next \in [rv : Seq(D), to_visit : Seq(D)] /\ next.rv = rv /\ next.to_visit = tv
    BY <2>1, <2>7, <2>9
  <2>11. ToSet(rv) \cap ToSet(tv) = {}
    BY <2>2, <2>3, <2>7, <2>8, <2>9
  <2>12. ToSet(rv) \cup ToSet(tv) = ToSet(r) \cup ToSet(v) \cup ToSet(s)
    BY <2>3, <2>7, <2>9
  <2>13. \A m \in (ToSet(rv) \cup ToSet(tv)) \ {Root} : \E p \in ToSet(rv) : m \in ToSet(Shown(h, p))
    <3>1. s = Shown(h, n)
      BY DEF s
    <3>2. QED
      BY <2>2, <2>7, <2>12, <3>1
  <2>14. \A p \in ToSet(rv) : ToSet(Shown(h, p)) \subseteq ToSet(rv) \cup ToSet(tv)
    <3>1. s = Shown(h, n)
      BY DEF s
    <3>2. QED
      BY <2>2, <2>7, <2>12, <3>1
  <2>15. rv \o Flat(f, tv) = f[Root]
    <3> DEFINE a == Flat(f, s)
               b == Flat(f, t)
               u == <<n>>
    <3>1. u \in Seq(D) /\ a \in Seq(D) /\ b \in Seq(D) /\ f \in [D -> Seq(D)]
      BY <2>3, <2>4 DEF D, FlatLaws
    <3>0. /\ \A m \in D : Flat(f, <<m>>) = f[m]
          /\ \A x, y \in Seq(D) : Flat(f, x \o y) = Flat(f, x) \o Flat(f, y)
      BY DEF FlatLaws, D
    <3>9. \A x, y, z \in Seq(D) : (x \o y) \o z = x \o (y \o z)
      BY ConcatAssociative
    <3>2. Flat(f, tv) = a \o b
      BY <2>3, <2>4, <3>0 DEF tv
    <3>3. Flat(f, v) = f[n] \o b
      <4>1. Flat(f, u \o t) = Flat(f, u) \o b
        BY <2>3, <3>0, <3>1
      <4>2. Flat(f, u) = f[n]
        BY <2>3, <3>0
      <4>3. QED
        BY <2>3, <4>1, <4>2
    <3>4. f[n] = u \o a
      BY <2>3 DEF IsPreorder, s, D
    <3>5. rv = r \o u
      BY <2>2, <2>3, AppendIsConcat DEF rv
    <3> HIDE DEF a, b, u
    <3>6. (r \o u) \o (a \o b) = r \o (u \o (a \o b))
      <4>1. a \o b \in Seq(D)
        BY <3>1
      <4>2. QED
        BY <2>2, <3>1, <3>9, <4>1
    <3>7. u \o (a \o b) = (u \o a) \o b
      BY <3>1, <3>9
    <3>8. QED
      BY <2>2, <3>2, <3>3, <3>4, <3>5, <3>6, <3>7
  <2>16. Len(rv) <= k + 1
    BY <2>7
  <2>17. Root \in ToSet(rv) \cup ToSet(tv)
    BY <2>2, <2>12
  <2>18. QED
    BY <2>7, <2>9, <2>10, <2>11, <2>13, <2>14, <2>15, <2>16, <2>17 DEF After, next, D
<1>3. QED
  BY <1>1, <1>2

\* They hold after every round.
LEMMA AfterAll ==
    ASSUME NEW h, Tree(h), Root \in DOMAIN h, NEW f \in [DOMAIN h -> Seq(DOMAIN h)],
           IsPreorder(h, f)
    PROVE  \E L : IsLoop(h, L) /\ \A k \in 0..Cardinality(Id) : After(h, f, k, L[k])
<1> DEFINE N == Cardinality(Id)
           s0 == [rv |-> <<>>, to_visit |-> <<Root>>]
<1>1. PICK L : IsLoop(h, L)
  BY LoopExists
<1>2. N \in Nat
  BY IdAssumption, FS_CardinalityType
<1> HIDE DEF N, s0
<1>3. L[0] = s0 /\ \A k \in 0..N : k < N => L[k + 1] = Round(h, L[k])
  BY <1>1 DEF IsLoop, N, s0
<1> DEFINE G == {k \in 0..N : After(h, f, k, L[k])}
<1>4. 0 \in G
  <2>1. After(h, f, 0, s0)
    BY AfterNone DEF s0
  <2>2. QED
    BY <1>2, <1>3, <2>1
<1>5. ASSUME NEW k \in G, k < N PROVE k + 1 \in G
  <2>1. k \in Nat /\ k \in 0..N /\ k + 1 \in 0..N /\ L[k + 1] = Round(h, L[k])
    BY <1>2, <1>3, <1>5
  <2>2. After(h, f, k, L[k])
    OBVIOUS
  <2>3. QED
    BY <2>1, <2>2, AfterOne, FlatIs
<1>6. \A k \in 0..N : After(h, f, k, L[k])
  <2>1. G \subseteq 0..N /\ \A k \in G : After(h, f, k, L[k])
    OBVIOUS
  <2> HIDE DEF G
  <2>2. G = 0..N
    BY <1>2, <1>4, <1>5, <2>1, InductionUpTo
  <2>3. QED
    BY <2>1, <2>2
<1>7. QED
  BY <1>1, <1>6 DEF N

\* A sequence without repetitions is no longer than there are objects.
LEMMA InjectiveBound ==
    ASSUME NEW S, IsFiniteSet(S), NEW s \in Seq(S), IsInjective(s)
    PROVE  Len(s) <= Cardinality(S) /\ Cardinality(S) \in Nat
<1>1. Len(s) \in Nat /\ DOMAIN s = 1..Len(s) /\ s \in [1..Len(s) -> S]
  OBVIOUS
<1> DEFINE n == Len(s)
<1> HIDE DEF n
<1>2. s \in Injection(1..n, S)
  BY <1>1 DEF n, Injection, IsInjective
<1>3. Cardinality(1..n) <= Cardinality(S)
  BY <1>2, FS_Injection
<1>4. Cardinality(1..n) = n
  <2>1. n \in Nat
    BY <1>1 DEF n
  <2>2. Cardinality(1..n) = IF 1 > n THEN 0 ELSE n - 1 + 1
    BY <2>1, FS_Interval
  <2>3. QED
    BY <2>1, <2>2
<1>5. QED
  BY <1>3, <1>4, FS_CardinalityType DEF n

\* The loop goes round often enough: it lists the preorder.
LEMMA FlattenIs ==
    ASSUME NEW h, Tree(h), Root \in DOMAIN h
    PROVE  /\ Flatten(h) = Preorder(h)
           /\ Flatten(h) \in Seq(DOMAIN h) /\ IsInjective(Flatten(h))
           /\ Root \in ToSet(Flatten(h))
           /\ \A m \in ToSet(Flatten(h)) \ {Root} :
                 \E p \in ToSet(Flatten(h)) : m \in ToSet(Shown(h, p))
           /\ \A p \in ToSet(Flatten(h)) : ToSet(Shown(h, p)) \subseteq ToSet(Flatten(h))
<1> DEFINE N == Cardinality(Id)
<1>1. PICK f \in [DOMAIN h -> Seq(DOMAIN h)] : IsPreorder(h, f)
  BY PreorderExists
<1>2. PICK L : IsLoop(h, L) /\ \A k \in 0..N : After(h, f, k, L[k])
  BY <1>1, AfterAll
<1>3. N \in Nat
  BY IdAssumption, FS_CardinalityType
<1> DEFINE st == L[N]
           r == st.rv
           v == st.to_visit
<1>4. After(h, f, N, st) /\ Flatten(h) = r
  <2>1. N \in 0..N
    BY <1>3
  <2>2. After(h, f, N, L[N])
    BY <1>2, <2>1
  <2>3. Flatten(h) = L[N].rv
    BY <1>2 DEF IsLoop
  <2>4. QED
    BY <2>2, <2>3
<1> HIDE DEF N, st
<1>5. /\ r \in Seq(DOMAIN h) /\ v \in Seq(DOMAIN h)
      /\ r \o Flat(f, v) = f[Root]
      /\ v # <<>> => Len(r) = N
      /\ IsInjective(r) /\ IsInjective(v) /\ ToSet(r) \cap ToSet(v) = {}
      /\ Root \in ToSet(r) \cup ToSet(v)
      /\ \A m \in (ToSet(r) \cup ToSet(v)) \ {Root} : \E p \in ToSet(r) : m \in ToSet(Shown(h, p))
      /\ \A p \in ToSet(r) : ToSet(Shown(h, p)) \subseteq ToSet(r) \cup ToSet(v)
  BY <1>4 DEF After
<1> HIDE DEF r, v
<1>6. v = <<>>
  <2>1. SUFFICES ASSUME v # <<>> PROVE FALSE
    OBVIOUS
  <2>2. IsInjective(r \o v)
    BY <1>5, InjectiveJoined
  <2>3. DOMAIN h \subseteq Id
    BY TreeMeans
  <2>4. r \o v \in Seq(Id) /\ Len(r \o v) = Len(r) + Len(v) /\ Len(v) > 0 /\ Len(v) \in Nat
    BY <1>5, <2>1, <2>3
  <2>5. Len(r \o v) <= N
    BY <2>2, <2>4, IdAssumption, InjectiveBound DEF N
  <2>6. QED
    BY <1>3, <1>5, <2>1, <2>4, <2>5
<1>7. ToSet(v) = {} /\ Flat(f, v) = <<>>
  BY <1>1, <1>6, FlatIs DEF ToSet, FlatLaws
<1>8. r = f[Root]
  <2>1. r \o <<>> = r
    BY <1>5
  <2>2. QED
    BY <1>5, <1>7, <2>1
<1>9. r = Preorder(h)
  BY <1>1, <1>8, PreorderIs
<1>10. QED
  BY <1>4, <1>5, <1>7, <1>9

-----------------------------------------------------------------------------
(* The rows, in a step. *)

\* When what nobody holds dies, the rest shows what it showed.
LEMMA ReclaimedShows ==
    ASSUME NEW g, Tree(g), Held' \subseteq DOMAIN g, heap' = Reclaim(g)
    PROVE  /\ DOMAIN heap' \subseteq DOMAIN g
           /\ \A m \in DOMAIN heap' : heap'[m].open = g[m].open /\ Shown(heap', m) = Shown(g, m)
<1> DEFINE A == Below(g, Held')
<1>1. heap' = Only(g, A)
  BY DEF Reclaim
<1>2. DOMAIN heap' = A /\ A \subseteq DOMAIN g
  <2>1. A \subseteq DOMAIN g
    BY DEF Below
  <2> HIDE DEF A
  <2>2. QED
    BY <1>1, <2>1 DEF Only
<1>3. \A m \in A : /\ heap'[m].dirs = g[m].dirs /\ heap'[m].entries = g[m].entries
                   /\ heap'[m].open = g[m].open
  <2> SUFFICES ASSUME NEW m \in A
               PROVE  /\ heap'[m].dirs = g[m].dirs /\ heap'[m].entries = g[m].entries
                      /\ heap'[m].open = g[m].open
    OBVIOUS
  <2>1. g[m] \in Object
    BY <1>2, TreeMeans DEF Alive
  <2> DEFINE q == IF g[m].parent \in A THEN g[m].parent ELSE None
  <2>2. heap'[m] = [g[m] EXCEPT !.parent = q]
    BY <1>1 DEF Only
  <2> HIDE DEF q
  <2>3. QED
    BY <2>1, <2>2 DEF Object
<1> HIDE DEF A
<1>4. QED
  BY <1>2, <1>3 DEF Shown, Children

\* The preorder of two trees with the same below the root.
LEMMA PreorderSame ==
    ASSUME NEW h, Tree(h), NEW g, Tree(g), Root \in DOMAIN g, DOMAIN g \subseteq DOMAIN h,
           \A n \in DOMAIN g : Shown(g, n) = Shown(h, n)
    PROVE  Preorder(g) = Preorder(h)
<1>1. PICK f : IsPreorder(h, f)
  BY PreorderExists
<1>2. PICK e : IsPreorder(g, e)
  BY PreorderExists
<1>3. e[Root] = f[Root]
  BY <1>1, <1>2, PreorderUnique
<1>4. Preorder(h) = f[Root] /\ Preorder(g) = e[Root]
  BY <1>1, <1>2, PreorderIs
<1>5. QED
  BY <1>3, <1>4

\* And so the preorder of the tree stays.
LEMMA ReclaimedPreorder ==
    ASSUME NEW g, Tree(g), Held' \subseteq DOMAIN g, heap' = Reclaim(g), Root \in DOMAIN heap'
    PROVE  Preorder(heap') = Preorder(g)
BY ReclaimedShows, Reclaimed, PreorderSame

\* What is held is alive.
LEMMA HeldLives == Sound => Held \subseteq DOMAIN heap
<1> SUFFICES ASSUME Sound PROVE Held \subseteq DOMAIN heap
  OBVIOUS
<1> DEFINE D == DOMAIN heap
<1>1. /\ rows \in Seq(D) /\ clipboard \in D \cup {None} /\ (~closed => Root \in D)
      /\ forms \in Seq(Forms(D)) /\ requests \in Seq(Requests(D))
  BY DEF Sound, ObjectsLive
<1> HIDE DEF D
<1>2. /\ ToSet(rows) \subseteq D
      /\ \A f \in ToSet(forms) : f \in Forms(D)
      /\ \A r \in ToSet(requests) : r \in Requests(D)
  BY <1>1 DEF ToSet
<1>3. \A f \in Forms(D) : f.node \in D \cup {None}
  BY DEF Forms
<1>4. \A r \in Requests(D) : r.op = "push" => r.form \in Forms(D)
  BY DEF Requests, Pop
<1>5. QED
  BY <1>1, <1>2, <1>3, <1>4 DEF Held, D

\* So what it holds after a step was alive in the tree that the step made.
LEMMA HeldBefore ==
    ASSUME Sound', NEW g, heap' = Reclaim(g)
    PROVE  Held' \subseteq DOMAIN g /\ DOMAIN heap' \subseteq DOMAIN g
<1>1. (Sound => Held \subseteq DOMAIN heap)'
  BY HeldLives, PTL
<1>2. Held' \subseteq DOMAIN heap'
  BY <1>1
<1>3. DOMAIN Reclaim(g) \subseteq DOMAIN g
  BY DEF Reclaim, Only, Below
<1>4. QED
  BY <1>2, <1>3

\* The step makes the tree g: one in which everything shows what it did, and more;
Grows(g) ==
    /\ DOMAIN heap \subseteq DOMAIN g
    /\ \A m \in DOMAIN heap : ToSet(Shown(heap, m)) \subseteq ToSet(Shown(g, m))

\* one in which the selected directory is opened, or closed;
Reopens(g) ==
    /\ DOMAIN g = DOMAIN heap /\ Selects
    /\ \A m \in DOMAIN heap \ {Selected} : Shown(g, m) = Shown(heap, m)

\* or one in which something hangs from nothing any more.
Shrinks(g) ==
    /\ DOMAIN g = DOMAIN heap
    /\ \E n \in DOMAIN heap : n # Root /\ \A m \in DOMAIN heap :
          Kids(g, m) = Kids(heap, m) \ {n} /\ g[m].open = heap[m].open

\* It is flattened, and reclaimed.
Saved(g) ==
    /\ Tree(g) /\ Root \in DOMAIN g
    /\ heap' = Reclaim(g) /\ rows' = Flatten(g)

\* A tree that has its children, and open what was open, shows as much.
LEMMA GrowsIs ==
    ASSUME Tree(heap), NEW g, Tree(g), DOMAIN heap \subseteq DOMAIN g,
           \A m \in DOMAIN heap : Kids(heap, m) \subseteq Kids(g, m) /\ (heap[m].open => g[m].open)
    PROVE  Grows(g)
<1>1. ASSUME NEW m \in DOMAIN heap PROVE ToSet(Shown(heap, m)) \subseteq ToSet(Shown(g, m))
  <2>1. ToSet(Shown(heap, m)) = IF heap[m].open THEN Kids(heap, m) ELSE {}
    BY ShownIs
  <2>2. ToSet(Shown(g, m)) = IF g[m].open THEN Kids(g, m) ELSE {}
    BY ShownIs
  <2>3. QED
    BY <2>1, <2>2
<1>2. QED
  BY <1>1 DEF Grows

\* Opening or closing a directory.
LEMMA ToggleRows ==
    ASSUME Sound, cursor \in Nat, Toggle
    PROVE  cursor' = cursor /\ \E g : Saved(g) /\ Reopens(g)
<1> DEFINE p == Selected
           b == ~heap[p].open
           g == [heap EXCEPT ![p].open = b]
<1>1. Selects /\ ~closed /\ cursor' = cursor
  BY DEF Toggle, MainKey, Key, Running
<1>2. rows' = Flatten(g) /\ heap' = Reclaim(g) /\ p \in DOMAIN heap
  BY SelectedIs DEF Toggle
<1>3. Tree(heap) /\ b \in BOOLEAN /\ Root \in DOMAIN heap
  BY <1>1 DEF Sound, ObjectsLive
<1> HIDE DEF b, p
<1>4. DOMAIN g = DOMAIN heap /\ \A m \in DOMAIN heap :
          /\ g[m].dirs = heap[m].dirs /\ g[m].entries = heap[m].entries
          /\ g[m].parent = heap[m].parent /\ g[m].isDir = heap[m].isDir
          /\ g[m] \in Object
          /\ (m # p => g[m].open = heap[m].open)
  BY <1>2, <1>3 DEF Tree, Object
<1> HIDE DEF g
<1>5. Tree(g)
  BY <1>3, <1>4, Reopened
<1>6. Saved(g)
  BY <1>2, <1>3, <1>4, <1>5 DEF Saved
<1>7. \A m \in DOMAIN heap \ {p} : Shown(g, m) = Shown(heap, m)
  BY <1>4 DEF Shown, Children
<1>8. Reopens(g)
  BY <1>1, <1>4, <1>7 DEF Reopens, p
<1>9. QED
  BY <1>1, <1>6, <1>8

\* A save.
LEMMA SaveRows ==
    ASSUME NEW g, Tree(g), Root \in DOMAIN g, heap' = Reclaim(g),
           NEW fs, Saves(g, fs) \/ SaveThrows(fs)
    PROVE  (stale' /\ rows' = rows) \/ Saved(g)
BY DEF Saves, SaveThrows, Saved

\* A paste.
LEMMA PasteRows ==
    ASSUME Sound, cursor \in Nat, Paste
    PROVE  cursor' = cursor /\ ((stale' /\ rows' = rows) \/ \E g : Saved(g) /\ Grows(g))
<1> DEFINE g == Graft(heap, clipboard, Target)
<1>1. /\ Tree(heap) /\ ~closed /\ Root \in DOMAIN heap /\ clipboard \in DOMAIN heap
      /\ cursor' = cursor
  BY DEF Paste, MainKey, Key, Running, Sound, ObjectsLive
<1>2. Target \in DOMAIN heap /\ heap[Target].isDir /\ Target # None
  BY <1>1, SelectedIs, IdAssumption, TreeMeans DEF Paste
<1>3. /\ Twins(heap, clipboard) # {} /\ heap' = Reclaim(g)
      /\ Saves(g, forms) \/ SaveThrows(forms)
  BY <1>2 DEF Paste
<1>4. /\ Tree(g) /\ DOMAIN heap \subseteq DOMAIN g
      /\ \A m \in DOMAIN heap : /\ Kids(heap, m) \subseteq Kids(g, m)
                                /\ g[m].isDir = heap[m].isDir /\ g[m].parent = heap[m].parent
                                /\ g[m].open = heap[m].open
  BY <1>1, <1>2, <1>3, Grafted
<1> HIDE DEF g
<1>5. Grows(g)
  BY <1>1, <1>4, GrowsIs
<1>6. (stale' /\ rows' = rows) \/ Saved(g)
  BY <1>1, <1>3, <1>4, SaveRows
<1>7. QED
  BY <1>1, <1>5, <1>6

\* A new object.
LEMMA FinishNewRows ==
    ASSUME Sound, cursor \in Nat, FinishNew
    PROVE  /\ cursor' = cursor
           /\ \/ UNCHANGED <<rows, stale, closed, heap>>
              \/ stale' /\ rows' = rows
              \/ \E g : Saved(g) /\ Grows(g)
<1> DEFINE isDir == Top.kind = "newDir"
           g == WithNew(isDir)
<1>1. /\ ~closed /\ Selects /\ Free(heap) # {} /\ cursor' = cursor /\ closed' = closed
      /\ Tree(heap) /\ Root \in DOMAIN heap
  BY DEF FinishNew, FormKey, Key, Running, Sound, ObjectsLive
<1>2. \/ Saves(g, Done) /\ heap' = Reclaim(g)
      \/ SaveThrows(Done) /\ heap' = Reclaim(g)
      \/ UNCHANGED <<rows, stale, heap>>
  BY DEF FinishNew
<1>3. isDir \in BOOLEAN
  OBVIOUS
<1> HIDE DEF isDir
<1>4. /\ Tree(g) /\ DOMAIN heap \subseteq DOMAIN g
      /\ \A m \in DOMAIN heap : /\ g[m].parent = heap[m].parent
                                /\ Kids(heap, m) \subseteq Kids(g, m)
                                /\ heap[m].open => g[m].open
  BY <1>1, <1>3, NewIn
<1> HIDE DEF g
<1>5. Grows(g)
  BY <1>1, <1>4, GrowsIs
<1>6. CASE (Saves(g, Done) \/ SaveThrows(Done)) /\ heap' = Reclaim(g)
  <2>1. (stale' /\ rows' = rows) \/ Saved(g)
    BY <1>1, <1>4, <1>6, SaveRows
  <2>2. QED
    BY <1>1, <1>5, <2>1
<1>7. QED
  BY <1>1, <1>2, <1>6

\* A deletion.
LEMMA DeleteRows ==
    ASSUME Sound, Delete
    PROVE  /\ cursor' = cursor
           /\ \/ UNCHANGED <<rows, stale, closed, heap>>
              \/ stale' /\ rows' = rows
              \/ \E g : Saved(g) /\ Shrinks(g)
<1> DEFINE D == DOMAIN heap
           n == Top.node
           g == Erase(heap, n)
<1>1. /\ ~closed /\ forms # <<>> /\ Top.kind = "delete"
      /\ UNCHANGED <<cursor, closed>>
  BY DEF Delete, FormKey, Key, Running
<1>2. forms \in Seq(Forms(D)) /\ Tree(heap) /\ Root \in D
  BY <1>1 DEF Sound, ObjectsLive
<1>3. n \in D
  BY <1>1, <1>2, TopIs
<1>4. CASE heap[n].parent = None \/ n \notin ToSet(Children(heap, heap[n].parent))
  <2>1. UNCHANGED <<heap, rows, trouble>>
    BY <1>4 DEF Delete
  <2>2. QED
    BY <1>1, <2>1 DEF trouble
<1>5. CASE ~(heap[n].parent = None \/ n \notin ToSet(Children(heap, heap[n].parent)))
  <2>1. (Saves(g, Done) \/ SaveThrows(Done)) /\ heap' = Reclaim(g)
    BY <1>5 DEF Delete
  <2> DEFINE p == heap[n].parent
  <2>2. p \in D /\ n \in Kids(heap, p)
    <3>1. p \in D
      BY <1>2, <1>3, <1>5, TreeMeans DEF Alive
    <3>2. heap[p] \in Object
      BY <1>2, <3>1 DEF Tree
    <3>3. QED
      BY <1>5, <3>1, <3>2, ChildrenAreKids
  <2> HIDE DEF n
  <2>3. /\ Tree(g) /\ DOMAIN g = D
        /\ \A m \in D : /\ Kids(g, m) = Kids(heap, m) \ {n}
                        /\ g[m].isDir = heap[m].isDir /\ g[m].parent = heap[m].parent
                        /\ g[m].open = heap[m].open
    BY <1>2, <1>3, <2>2, Erased
  <2>4. n # Root
    BY <1>2, <2>2, TreeMeans DEF Parted
  <2> HIDE DEF g, p
  <2>5. Shrinks(g)
    BY <1>3, <2>3, <2>4 DEF Shrinks
  <2>6. (stale' /\ rows' = rows) \/ Saved(g)
    BY <1>2, <2>1, <2>3, SaveRows
  <2>7. QED
    BY <1>1, <2>5, <2>6
<1>6. QED
  BY <1>4, <1>5

\* What a step does to the rows while the screen exists.
LEMMA RowsStep ==
    ASSUME Sound, cursor \in Nat, Next, ~closed'
    PROVE  \/ /\ UNCHANGED <<rows, stale, closed>> /\ (heap' = heap \/ heap' = Reclaim(heap))
              /\ cursor' = cursor \/ Move
           \/ stale' /\ UNCHANGED <<rows, cursor>>
           \/ cursor' = cursor /\ \E g : Saved(g) /\ (Grows(g) \/ Reopens(g) \/ Shrinks(g))
<1>1. CASE Move \/ View \/ PostForm \/ Copy \/ Quit
  BY <1>1 DEF Move, View, PostForm, Copy, Quit, trouble
<1>2. CASE Dismiss \/ Leave \/ Finish \/ HandlePush \/ ReadOutside
  BY <1>2 DEF Dismiss, Leave, Finish, HandlePush, ReadOutside, trouble
<1>3. CASE HandlePop \/ HandleOrphan
  BY <1>3 DEF HandlePop, HandleOrphan, trouble
<1>4. CASE Toggle
  BY <1>4, ToggleRows
<1>5. CASE Paste
  BY <1>5, PasteRows
<1>6. CASE FinishNew
  BY <1>6, FinishNewRows
<1>7. CASE Delete
  BY <1>7, DeleteRows
<1>8. QED
  BY <1>1, <1>2, <1>3, <1>4, <1>5, <1>6, <1>7 DEF Next

\* Rows that are not stale are the tree in preorder: the step keeps them so.
LEMMA RowsShowStep ==
    ASSUME Sound, Sound', cursor \in Nat, RowsShowTheTree, Next
    PROVE  RowsShowTheTree'
<1> SUFFICES ASSUME ~stale', ~closed' PROVE rows' = Preorder(heap')
  BY DEF RowsShowTheTree
<1>1. Root \in DOMAIN heap'
  BY DEF Sound, ObjectsLive
<1>2. ASSUME NEW g, Tree(g), heap' = Reclaim(g) PROVE Preorder(heap') = Preorder(g)
  BY <1>1, <1>2, HeldBefore, ReclaimedPreorder
<1>3. CASE UNCHANGED <<rows, stale, closed>> /\ (heap' = heap \/ heap' = Reclaim(heap))
  <2>1. rows = Preorder(heap)
    BY <1>3 DEF RowsShowTheTree
  <2>2. Preorder(heap') = Preorder(heap)
    <3>1. Tree(heap)
      BY DEF Sound, ObjectsLive
    <3>2. QED
      BY <1>2, <1>3, <3>1
  <2>3. QED
    BY <1>3, <2>1, <2>2
<1>4. ASSUME NEW g, Saved(g) PROVE rows' = Preorder(heap')
  <2>1. Tree(g) /\ Root \in DOMAIN g /\ heap' = Reclaim(g) /\ rows' = Flatten(g)
    BY <1>4 DEF Saved
  <2>2. QED
    BY <1>2, <2>1, FlattenIs
<1>5. QED
  BY <1>3, <1>4, RowsStep

\* Unless a save threw, the rows are the open part of the tree in preorder,
\* whatever is opened, closed, added, deleted and pasted: the work list of
\* flatten_dirs visits it in no other order and stops at no row short of it, and
\* no handler that changes what shows leaves the flattening out.
THEOREM RowsAreTheTree == Spec => []RowsShowTheTree
<1>1. Init => RowsShowTheTree
  <2> SUFFICES ASSUME Init PROVE rows = Preorder(heap)
    BY DEF RowsShowTheTree
  <2>1. Tree(heap) /\ DOMAIN heap = {Root} /\ rows = <<Root>>
    BY InitIndInv DEF IndInv, ObjectsLive, Init
  <2>2. Shown(heap, Root) = <<>>
    <3> DEFINE o == [NewObject(TRUE, None) EXCEPT !.open = TRUE]
    <3>1. heap[Root] = o
      BY DEF Init
    <3>2. o.dirs = <<>> /\ o.entries = <<>>
      BY DEF NewObject
    <3> HIDE DEF o
    <3>3. QED
      BY <3>1, <3>2 DEF Shown, Children
  <2>3. PICK f \in [DOMAIN heap -> Seq(DOMAIN heap)] : IsPreorder(heap, f)
    BY <2>1, PreorderExists
  <2>4. Preorder(heap) = f[Root]
    BY <2>1, <2>3, PreorderIs
  <2>5. Flat(f, <<>>) = <<>>
    BY FlatIs DEF FlatLaws
  <2>6. f[Root] = <<Root>> \o <<>>
    BY <2>1, <2>2, <2>3, <2>5 DEF IsPreorder
  <2>7. QED
    BY <2>1, <2>4, <2>6
<1>2. IndInv => Sound /\ cursor \in Nat
  BY IndInvIs DEF Counted
<1>3. IndInv /\ RowsShowTheTree /\ [Next]_vars => RowsShowTheTree'
  <2> SUFFICES ASSUME IndInv, RowsShowTheTree, [Next]_vars PROVE RowsShowTheTree'
    OBVIOUS
  <2>1. CASE UNCHANGED vars
    BY <2>1 DEF vars, trouble, RowsShowTheTree
  <2>2. CASE Next
    <3>1. IndInv'
      BY NextIndInv
    <3>2. (IndInv => Sound)'
      BY <1>2, PTL
    <3>3. QED
      BY <1>2, <2>2, <3>1, <3>2, RowsShowStep
  <2>3. QED
    BY <2>1, <2>2
<1>4. QED
  BY <1>1, <1>3, Invariance, PTL DEF Spec

-----------------------------------------------------------------------------
(* The cursor. *)

\* A sequence without repetitions whose elements are in another is no longer.
LEMMA InjectiveLonger ==
    ASSUME NEW S, NEW s \in Seq(S), NEW T, NEW t \in Seq(T), IsInjective(s),
           ToSet(s) \subseteq ToSet(t)
    PROVE  Len(s) <= Len(t)
<1> DEFINE R == ToSet(t)
           n == Len(t)
<1>1. n \in Nat /\ DOMAIN t = 1..n /\ DOMAIN s = 1..Len(s) /\ Len(s) \in Nat
  OBVIOUS
<1>2. s \in Seq(R)
  <2>1. \A i \in DOMAIN s : s[i] \in R
    BY DEF ToSet
  <2> HIDE DEF R
  <2>2. QED
    BY <2>1
<1>3. R = {t[i] : i \in 1..n}
  BY <1>1 DEF ToSet
<1>4. t \in Surjection(1..n, R)
  <2>1. t \in [1..n -> R]
    <3>1. t = [i \in 1..n |-> t[i]]
      OBVIOUS
    <3>2. QED
      BY <1>3, <3>1
  <2>2. \A r \in R : \E i \in 1..n : t[i] = r
    BY <1>3
  <2>3. QED
    BY <2>1, <2>2 DEF Surjection
<1> HIDE DEF n, R
<1>5. IsFiniteSet(1..n) /\ Cardinality(1..n) = n
  <2>1. IsFiniteSet(1..n) /\ Cardinality(1..n) = IF 1 > n THEN 0 ELSE n - 1 + 1
    BY <1>1, FS_Interval
  <2>2. QED
    BY <1>1, <2>1
<1>6. IsFiniteSet(R) /\ Cardinality(R) <= n
  BY <1>4, <1>5, FS_Surjection
<1>7. Len(s) <= Cardinality(R) /\ Cardinality(R) \in Nat
  BY <1>2, <1>6, InjectiveBound
<1>8. QED
  BY <1>1, <1>6, <1>7 DEF n

\* A tree whose rows show what they showed, and more, has as many.
LEMMA Longer ==
    ASSUME NEW h, Tree(h), Root \in DOMAIN h, NEW g, Tree(g), Root \in DOMAIN g,
           \A m \in ToSet(Flatten(h)) \cap DOMAIN g :
              ToSet(Shown(h, m)) \subseteq ToSet(Shown(g, m))
    PROVE  Len(Flatten(h)) <= Len(Flatten(g))
<1> DEFINE s == Flatten(h)
           t == Flatten(g)
           S == ToSet(s) \ ToSet(t)
<1>1. /\ s \in Seq(DOMAIN h) /\ IsInjective(s)
      /\ \A m \in ToSet(s) \ {Root} : \E p \in ToSet(s) : m \in ToSet(Shown(h, p))
  BY FlattenIs
<1>2. /\ t \in Seq(DOMAIN g) /\ Root \in ToSet(t)
      /\ \A p \in ToSet(t) : ToSet(Shown(g, p)) \subseteq ToSet(t)
  BY FlattenIs
<1>3. ToSet(s) \subseteq DOMAIN h /\ ToSet(t) \subseteq DOMAIN g
  BY <1>1, <1>2 DEF ToSet
<1> HIDE DEF s, t
<1>4. S = {}
  <2>1. SUFFICES ASSUME S # {} PROVE FALSE
    OBVIOUS
  <2>2. PICK m \in S : \A p \in S : m \notin Kids(h, p)
    BY <1>3, <2>1, TreeMeans DEF Rooted
  <2>3. PICK p \in ToSet(s) : m \in ToSet(Shown(h, p))
    BY <1>1, <1>2, <2>2
  <2>4. m \in Kids(h, p)
    BY <1>3, <2>3, ShownIs
  <2>5. p \in ToSet(t)
    BY <2>2, <2>3, <2>4
  <2>6. m \in ToSet(Shown(g, p))
    BY <1>3, <2>3, <2>5 DEF s
  <2>7. QED
    BY <1>2, <2>2, <2>5, <2>6
<1>5. QED
  BY <1>1, <1>2, <1>4, InjectiveLonger DEF s, t

\* While there is something to visit, the next row is the first of it.
LEMMA NextRow ==
    ASSUME NEW h, Tree(h), NEW f \in [DOMAIN h -> Seq(DOMAIN h)], IsPreorder(h, f),
           NEW k \in Nat, NEW st, After(h, f, k, st), st.to_visit # <<>>
    PROVE  /\ Len(f[Root]) >= k + 1 /\ f[Root][k + 1] = Head(st.to_visit)
           /\ Head(st.to_visit) \in DOMAIN h
<1> DEFINE D == DOMAIN h
           r == st.rv
           v == st.to_visit
           n == Head(v)
           t == Tail(v)
           u == <<n>>
           a == Flat(f, Shown(h, n))
           b == Flat(f, t)
           w == a \o b
           x == u \o w
<1>1. /\ r \in Seq(D) /\ v \in Seq(D) /\ r \o Flat(f, v) = f[Root] /\ v # <<>>
      /\ Len(r) = k /\ IsInjective(v)
  BY DEF After
<1>2. FlatLaws(D, f)
  BY FlatIs
<1> HIDE DEF r, v
<1>3. n \in D /\ t \in Seq(D) /\ v = u \o t
  BY <1>1, InjectiveTail
<1>4. u \in Seq(D) /\ Len(u) = 1 /\ u[1] = n
  BY <1>3
<1>5. Shown(h, n) \in Seq(D)
  BY <1>3, ShownIs
<1> HIDE DEF t
<1>6. a \in Seq(D) /\ b \in Seq(D)
  BY <1>2, <1>3, <1>5 DEF FlatLaws
<1>7. Flat(f, u) = u \o a
  <2>1. Flat(f, u) = f[n]
    BY <1>2, <1>3 DEF FlatLaws
  <2>2. QED
    BY <1>3, <2>1 DEF IsPreorder
<1> HIDE DEF D, u, a
<1>8. Flat(f, v) = Flat(f, u) \o b
  BY <1>2, <1>3, <1>4 DEF FlatLaws
<1> HIDE DEF b
<1>9. Flat(f, v) = x
  BY <1>4, <1>6, <1>7, <1>8, ConcatAssociative
<1>10. w \in Seq(D) /\ Len(w) \in Nat
  BY <1>6
<1> HIDE DEF w
<1>11. /\ x \in Seq(D) /\ Len(x) = 1 + Len(w) /\ x[1] = n
  <2>1. /\ x \in Seq(D) /\ Len(x) = Len(u) + Len(w)
        /\ \A i \in 1..(Len(u) + Len(w)) : x[i] = IF i <= Len(u) THEN u[i] ELSE w[i - Len(u)]
    BY <1>4, <1>10, ConcatProperties
  <2>2. 1 \in 1..(1 + Len(w)) /\ 1 <= 1
    BY <1>10
  <2>3. QED
    BY <1>4, <2>1, <2>2
<1> HIDE DEF x
<1>12. Len(x) \in Nat /\ Len(x) >= 1 /\ 1 \in 1..Len(x)
  BY <1>10, <1>11
<1>13. Len(r \o x) = k + Len(x) /\ (r \o x)[k + 1] = x[1]
  <2>1. /\ Len(r \o x) = Len(r) + Len(x)
        /\ \A i \in 1..(Len(r) + Len(x)) : (r \o x)[i] = IF i <= Len(r) THEN r[i] ELSE x[i - Len(r)]
    BY <1>1, <1>11, ConcatProperties
  <2>2. k + 1 \in 1..(k + Len(x)) /\ ~(k + 1 <= k) /\ (k + 1) - k = 1
    BY <1>12
  <2>3. QED
    BY <1>1, <2>1, <2>2
<1>14. f[Root] = r \o x
  BY <1>1, <1>9
<1>15. Len(f[Root]) >= k + 1 /\ f[Root][k + 1] = n
  BY <1>11, <1>12, <1>13, <1>14
<1>16. QED
  BY <1>3, <1>15 DEF D, v

\* When two trees differ in what one row shows, they have the same rows up to it.
LEMMA SameUpTo ==
    ASSUME NEW h, Tree(h), Root \in DOMAIN h, NEW g, Tree(g), DOMAIN g = DOMAIN h,
           NEW c \in Nat, c < Len(Flatten(h)),
           \A m \in DOMAIN h : m # Flatten(h)[c + 1] => Shown(g, m) = Shown(h, m)
    PROVE  c < Len(Flatten(g))
<1> DEFINE N == Cardinality(Id)
           s == Flatten(h)
           x == s[c + 1]
<1>1. PICK f \in [DOMAIN h -> Seq(DOMAIN h)] : IsPreorder(h, f)
  BY PreorderExists
<1>2. PICK e \in [DOMAIN g -> Seq(DOMAIN g)] : IsPreorder(g, e)
  BY PreorderExists
<1>3. PICK L : IsLoop(h, L) /\ \A k \in 0..N : After(h, f, k, L[k])
  BY <1>1, AfterAll
<1>4. PICK M : IsLoop(g, M) /\ \A k \in 0..N : After(g, e, k, M[k])
  BY <1>2, AfterAll
<1>5. N \in Nat
  BY IdAssumption, FS_CardinalityType
<1>6. f[Root] = s /\ e[Root] = Flatten(g)
  BY <1>1, <1>2, PreorderIs, FlattenIs
<1>7. s \in Seq(DOMAIN h) /\ IsInjective(s) /\ Len(s) \in Nat
  BY FlattenIs
<1>8. Len(s) <= N
  <2>1. s \in Seq(Id)
    BY <1>7, TreeMeans
  <2>2. QED
    BY <1>7, <2>1, IdAssumption, InjectiveBound
<1>9. c < Len(s) /\ c \in 0..N
  BY <1>5, <1>7, <1>8
<1>10. \A m \in DOMAIN h : m # x => Shown(g, m) = Shown(h, m)
  OBVIOUS
<1> HIDE DEF N, s, x
<1>11. ASSUME NEW k \in 0..c PROVE L[k].to_visit # <<>>
  <2>1. SUFFICES ASSUME L[k].to_visit = <<>> PROVE FALSE
    OBVIOUS
  <2>2. k \in 0..N /\ k \in Nat /\ k <= c
    BY <1>5, <1>9
  <2>3. After(h, f, k, L[k])
    BY <1>3, <2>2
  <2>4. Flat(f, <<>>) = <<>>
    BY <1>1, FlatIs DEF FlatLaws
  <2>5. L[k].rv \in Seq(DOMAIN h) /\ L[k].rv \o Flat(f, L[k].to_visit) = s /\ Len(L[k].rv) <= k
    BY <1>6, <2>3 DEF After
  <2>6. L[k].rv \o <<>> = L[k].rv
    BY <2>5
  <2>7. Len(s) <= k
    BY <2>1, <2>4, <2>5, <2>6
  <2>8. QED
    BY <1>7, <1>9, <2>2, <2>7
<1> DEFINE G == {k \in 0..c : M[k] = L[k]}
<1>12. 0 \in G
  BY <1>3, <1>4, <1>9 DEF IsLoop
<1>13. ASSUME NEW k \in G, k < c PROVE k + 1 \in G
  <2>1. k \in 0..c /\ k \in 0..N /\ k \in Nat /\ k < N /\ k + 1 \in 0..c /\ M[k] = L[k]
    BY <1>5, <1>9, <1>13
  <2>2. L[k + 1] = Round(h, L[k]) /\ M[k + 1] = Round(g, L[k])
    BY <1>3, <1>4, <2>1 DEF IsLoop, N
  <2> DEFINE n == Head(L[k].to_visit)
  <2>3. L[k].to_visit # <<>>
    BY <1>11, <2>1
  <2>4. s[k + 1] = n /\ n \in DOMAIN h
    BY <1>1, <1>3, <1>6, <2>1, <2>3, NextRow
  <2>5. n # x
    <3>1. k + 1 \in DOMAIN s /\ c + 1 \in DOMAIN s /\ k + 1 # c + 1
      <4>1. /\ k \in Nat /\ c \in Nat /\ k < c
            /\ Len(s) \in Nat /\ c < Len(s) /\ DOMAIN s = 1..Len(s)
        BY <1>5, <1>7, <1>9, <1>13, <2>1
      <4>2. k + 1 \in 1..Len(s) /\ c + 1 \in 1..Len(s) /\ k + 1 # c + 1
        BY <4>1
      <4>3. QED
        BY <4>1, <4>2
    <3>2. QED
      BY <1>7, <2>4, <3>1 DEF IsInjective, x
  <2>6. Shown(g, n) = Shown(h, n)
    BY <1>10, <2>4, <2>5
  <2>7. Round(g, L[k]) = Round(h, L[k])
    BY <2>3, <2>6 DEF Round
  <2>8. QED
    BY <2>1, <2>2, <2>7
<1>14. M[c] = L[c]
  <2>1. G \subseteq 0..c /\ \A k \in G : M[k] = L[k]
    OBVIOUS
  <2> HIDE DEF G
  <2>2. G = 0..c
    BY <1>12, <1>13, <2>1, InductionUpTo
  <2>3. QED
    BY <2>1, <2>2
<1>15. M[c].to_visit # <<>>
  BY <1>11, <1>14
<1>16. After(g, e, c, M[c])
  BY <1>4, <1>9
<1>17. Len(e[Root]) >= c + 1
  BY <1>2, <1>15, <1>16, NextRow
<1>18. Len(Flatten(g)) \in Nat
  BY FlattenIs
<1>19. QED
  BY <1>6, <1>17, <1>18

\* What is listed is below the root.
LEMMA RowsBelow ==
    ASSUME NEW h, Tree(h), Root \in DOMAIN h
    PROVE  ToSet(Flatten(h)) \subseteq Below(h, {Root})
<1> DEFINE s == Flatten(h)
           B == Below(h, {Root})
           S == ToSet(s) \ B
<1>1. /\ s \in Seq(DOMAIN h)
      /\ \A m \in ToSet(s) \ {Root} : \E p \in ToSet(s) : m \in ToSet(Shown(h, p))
  BY FlattenIs
<1>2. Root \in B /\ Whole(h, B)
  BY BelowIsLeast
<1>3. ToSet(s) \subseteq DOMAIN h
  BY <1>1 DEF ToSet
<1> HIDE DEF s, B
<1>4. SUFFICES ASSUME S # {} PROVE FALSE
  BY DEF s, B
<1>5. PICK m \in S : \A p \in S : m \notin Kids(h, p)
  BY <1>3, <1>4, TreeMeans DEF Rooted
<1>6. PICK p \in ToSet(s) : m \in ToSet(Shown(h, p))
  BY <1>1, <1>2, <1>5
<1>7. m \in Kids(h, p)
  BY <1>3, <1>6, ShownIs
<1>8. p \in B
  BY <1>5, <1>6, <1>7
<1>9. QED
  BY <1>2, <1>5, <1>7, <1>8 DEF Whole

\* Erasing from the tree loses what is erased.
LEMMA ErasedIsLost ==
    ASSUME Tree(heap), Root \in DOMAIN heap, NEW g, Tree(g), Tree(heap'), Held' \subseteq DOMAIN g,
           heap' = Reclaim(g), Root \in DOMAIN heap', DOMAIN g = DOMAIN heap,
           NEW n \in DOMAIN heap, n # Root,
           \A m \in DOMAIN heap : Kids(g, m) = Kids(heap, m) \ {n},
           Below(heap, {Root}) \subseteq Below(heap', {Root})
    PROVE  \A m \in Below(heap, {Root}) : Kids(g, m) = Kids(heap, m)
<1> DEFINE B == Below(heap, {Root})
           C == Below(heap', {Root})
<1>1. B \subseteq DOMAIN heap /\ Whole(heap, B) /\ B \subseteq C
  BY BelowIsLeast
<1>2. C \subseteq DOMAIN heap' /\ \A m \in C \ {Root} : \E p \in C : m \in Kids(heap', p)
  <2>1. {Root} \in SUBSET DOMAIN heap'
    OBVIOUS
  <2>2. QED
    BY <2>1, BelowIsLeast
<1>3. DOMAIN heap' \subseteq DOMAIN g /\ \A m \in DOMAIN heap' : Kids(heap', m) = Kids(g, m)
  BY Reclaimed
<1> HIDE DEF B, C
<1>4. n \notin C
  BY <1>2, <1>3
<1>5. QED
  BY <1>1, <1>4 DEF Whole, B

\* A step that flattens a tree with all there was below the root keeps the cursor
\* in.
LEMMA CursorStep ==
    ASSUME Sound, Sound', cursor \in Nat, RowsShowTheTree, Next, Selects, ~closed', ~stale,
           Below(heap, {Root}) \subseteq Below(heap', {Root})
    PROVE  Selects'
<1>1. /\ ~closed => Root \in DOMAIN heap
      /\ Tree(heap) /\ Tree(heap') /\ Root \in DOMAIN heap' /\ rows \in Seq(DOMAIN heap)
  BY DEF Sound, ObjectsLive
<1>2. Len(rows) \in Nat /\ cursor < Len(rows)
  BY <1>1 DEF Selects
<1>3. CASE UNCHANGED <<rows, stale, closed>> /\ (cursor' = cursor \/ Move)
  <2>1. cursor' < Len(rows)
    <3>1. CASE cursor' = cursor
      BY <1>2, <3>1
    <3>2. CASE Move
      <4> DEFINE n == Len(rows)
      <4>1. cursor' = (cursor + 1) % n \/ cursor' = IF cursor = 0 THEN n - 1 ELSE cursor - 1
        BY <3>2 DEF Move
      <4>2. n \in Nat /\ n > 0 /\ cursor < n
        BY <1>2
      <4> HIDE DEF n
      <4>3. (cursor + 1) % n < n
        BY <4>2
      <4>4. QED
        BY <4>1, <4>2, <4>3 DEF n
    <3>3. QED
      BY <1>3, <3>1, <3>2
  <2>2. QED
    BY <1>3, <2>1 DEF Selects
<1>4. CASE UNCHANGED <<rows, cursor>>
  BY <1>4 DEF Selects
<1>5. ASSUME cursor' = cursor, NEW g, Saved(g), Grows(g) \/ Reopens(g) \/ Shrinks(g)
      PROVE  Selects'
  <2>0. ~closed
    <3>1. rows # <<>>
      BY <1>2
    <3>2. QED
      BY <3>1 DEF Sound, RowsHang
  <2>1. /\ Tree(g) /\ Root \in DOMAIN g /\ heap' = Reclaim(g) /\ rows' = Flatten(g)
        /\ Held' \subseteq DOMAIN g
    BY <1>5, HeldBefore DEF Saved
  <2>2. rows = Flatten(heap) /\ Root \in DOMAIN heap
    BY <1>1, <2>0, FlattenIs DEF RowsShowTheTree
  <2>3. ToSet(rows) \subseteq DOMAIN heap /\ Len(Flatten(g)) \in Nat
    <3>1. Len(Flatten(g)) \in Nat
      BY <2>1, FlattenIs
    <3>2. QED
      BY <1>1, <3>1 DEF ToSet
  <2>4. CASE \A m \in ToSet(rows) \cap DOMAIN g : ToSet(Shown(heap, m)) \subseteq ToSet(Shown(g, m))
    <3>1. Len(rows) <= Len(rows')
      BY <1>1, <2>1, <2>2, <2>4, Longer
    <3>2. QED
      BY <1>2, <1>5, <2>1, <2>3, <3>1 DEF Selects
  <2>5. CASE Grows(g)
    BY <2>3, <2>4, <2>5 DEF Grows
  <2>6. CASE Reopens(g)
    <3>1. /\ DOMAIN g = DOMAIN heap
          /\ \A m \in DOMAIN heap : m # rows[cursor + 1] => Shown(g, m) = Shown(heap, m)
      BY <2>6 DEF Reopens, Selected
    <3>2. cursor < Len(Flatten(g))
      BY <1>1, <1>2, <2>1, <2>2, <3>1, SameUpTo
    <3>3. QED
      BY <1>5, <2>1, <3>2 DEF Selects
  <2>7. CASE Shrinks(g)
    <3>1. PICK n \in DOMAIN heap : n # Root /\ \A m \in DOMAIN heap :
             Kids(g, m) = Kids(heap, m) \ {n} /\ g[m].open = heap[m].open
      BY <2>7 DEF Shrinks
    <3>2. DOMAIN g = DOMAIN heap
      BY <2>7 DEF Shrinks
    <3>3. \A m \in Below(heap, {Root}) : Kids(g, m) = Kids(heap, m)
      BY <1>1, <2>1, <2>2, <3>1, <3>2, ErasedIsLost
    <3>4. ToSet(rows) \subseteq Below(heap, {Root})
      BY <1>1, <2>2, RowsBelow
    <3>5. ASSUME NEW m \in ToSet(rows)
          PROVE  ToSet(Shown(heap, m)) \subseteq ToSet(Shown(g, m))
      <4>1. m \in DOMAIN heap /\ Kids(g, m) = Kids(heap, m) /\ g[m].open = heap[m].open
        BY <2>3, <3>1, <3>3, <3>4
      <4>2. ToSet(Shown(heap, m)) = IF heap[m].open THEN Kids(heap, m) ELSE {}
        BY <1>1, <4>1, ShownIs
      <4>3. ToSet(Shown(g, m)) = IF g[m].open THEN Kids(g, m) ELSE {}
        BY <2>1, <3>2, <4>1, ShownIs
      <4>4. QED
        BY <4>1, <4>2, <4>3
    <3>6. QED
      BY <2>4, <3>5
  <2>8. QED
    BY <1>5, <2>5, <2>6, <2>7
<1>6. QED
  BY <1>3, <1>4, <1>5, RowsStep

\* The cursor leaves the rows only because the tree lost objects, or after a save
\* threw: c_selected_index, which no flattening looks at, stays in when a directory
\* is opened or closed, the one at the cursor included, and when something is
\* added or pasted.
THEOREM CursorStaysIn == Spec => CursorFollows
<1> DEFINE A == Selects /\ ~Selects' /\ ~closed' =>
                   \/ stale
                   \/ ~(Below(heap, {Root}) \subseteq Below(heap', {Root}))
<1>1. IndInv => Sound /\ cursor \in Nat
  BY IndInvIs DEF Counted
<1>2. (IndInv => Sound)'
  BY <1>1, PTL
<1>3. IndInv /\ IndInv' /\ RowsShowTheTree /\ [Next]_vars => [A]_vars
  BY <1>1, <1>2, CursorStep
<1>4. QED
  BY <1>3, Invariance, RowsAreTheTree, PTL DEF Spec, CursorFollows

=============================================================================
